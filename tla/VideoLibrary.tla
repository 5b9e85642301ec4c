---------------------------- MODULE VideoLibrary ----------------------------
(***************************************************************************)
(* What the playlist slots of the HLS handlers promise: a library of at    *)
(* most Size - 1 videos, each known by its uuid, and one of them, or none, *)
(* the current one.  A request for a video that is not there makes room    *)
(* for it and always finds some.                                           *)
(***************************************************************************)
EXTENDS Integers, FiniteSets

CONSTANTS Uuids, None, Size

VARIABLES library, current

Init == library = {} /\ current = None

Choose(u) == /\ u \in library
             /\ current' = u /\ UNCHANGED library

Fetch(u) == /\ u \notin library
            /\ current' = u
            /\ \E kept \in SUBSET library :
                 /\ Cardinality(kept) < Size - 1
                 /\ library' = kept \cup {u}

\* The current video is put aside, thrown away, or all of them are.
PutAside == current # None /\ current' = None /\ UNCHANGED library
ThrowAway == current # None /\ current' = None /\ library' = library \ {current}
Empty == current' = None /\ library' = {}

Next == \/ \E u \in Uuids : Choose(u) \/ Fetch(u)
        \/ PutAside \/ ThrowAway \/ Empty

Spec == Init /\ [][Next]_<<library, current>>

=============================================================================
