---------------------------- MODULE MCRaopBuffer ----------------------------
(* RaopBuffer on a ring of 4 slots with sequence numbers modulo 16, for a   *)
(* sender that starts 3 packets before the wrap and wraps twice.            *)
EXTENDS RaopBuffer
=============================================================================
