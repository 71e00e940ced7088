--------------------------- MODULE MCKeyDelivery ---------------------------
(* KeyDelivery on small instances. *)
EXTENDS KeyDelivery
=============================================================================
