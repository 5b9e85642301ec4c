----------------------------- MODULE MCAudioRtp -----------------------------
(* AudioRtp with a ring of 2 slots, sequence numbers modulo 8, four frames *)
(* that straddle the wrap, two streams and two posts of each kind.         *)
EXTENDS AudioRtp
=============================================================================
