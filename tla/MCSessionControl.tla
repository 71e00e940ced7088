-------------------------- MODULE MCSessionControl --------------------------
(* SessionControl on small instances. *)
EXTENDS SessionControl
=============================================================================
