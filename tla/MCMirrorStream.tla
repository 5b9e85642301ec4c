--------------------------- MODULE MCMirrorStream ---------------------------
(* MirrorStream with headers of two pieces, so that one can be cut, and two *)
(* timestamps, so that two packets can agree or differ.  Nothing else is    *)
(* bounded: the client sends, hangs up and connects as often as it likes.   *)
EXTENDS MirrorStream

=============================================================================
