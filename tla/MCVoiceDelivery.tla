-------------------------- MODULE MCVoiceDelivery --------------------------
(* VoiceDelivery on small instances. *)
EXTENDS VoiceDelivery
=============================================================================
