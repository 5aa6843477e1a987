----------------------------- MODULE MCMessaging -----------------------------
(* The instance of Messaging for TLC is given by its configuration.         *)
EXTENDS Messaging
=============================================================================
