--------------------------- MODULE PlayoutWindow ---------------------------
(***************************************************************************)
(* What the audio buffer of a session promises its reader, said without    *)
(* slots and without sequence numbers that wrap: audio frames are numbered *)
(* by the order the sender made them, the buffer holds a set of frames     *)
(* that lies inside a window of L frames starting at `next', and frames    *)
(* come out of the window from its lower end only.                         *)
(*                                                                         *)
(* RaopBuffer, the model of libxmirror/lib/raop_buffer.c, implements it.   *)
(***************************************************************************)
EXTENDS Integers

CONSTANTS L,       (* how many frames the window spans           *)
          Origin   (* number of the first frame the sender makes *)

VARIABLES sent,     (* the next frame number the sender will use          *)
          started,  (* a frame has arrived since the last complete flush  *)
          next,     (* the frame that is to leave the window next         *)
          held,     (* the frames waiting in the window                   *)
          out       (* the frame delivered last, NoFrame before the first *)

pvars == <<sent, started, next, held, out>>

NoFrame == -1

Init ==
  /\ sent = Origin
  /\ started = FALSE
  /\ next = Origin
  /\ held = {}
  /\ out = NoFrame

(* The sender makes one more frame and sends it. *)
Send ==
  /\ sent' = sent + 1
  /\ UNCHANGED <<started, next, held, out>>

(* A frame that was sent arrives and the window makes room for it: it opens *)
(* the window, joins it, or replaces it when it is too far ahead to fit.    *)
(* (A frame that is too late or already there changes nothing.)             *)
Open(n) ==
  /\ ~started
  /\ started' = TRUE
  /\ next' = n
  /\ held' = {n}

Join(n) ==
  /\ started
  /\ n \in (next .. next + L - 1) \ held
  /\ held' = held \union {n}
  /\ UNCHANGED <<started, next>>

Replace(n) ==
  /\ started
  /\ n >= next + L
  /\ next' = n
  /\ held' = {n}
  /\ UNCHANGED started

Arrive(n) ==
  /\ Open(n) \/ Join(n) \/ Replace(n)
  /\ UNCHANGED <<sent, out>>

(* The frame at the lower end leaves the window, delivered. *)
Deliver ==
  /\ started
  /\ next \in held
  /\ out' = next
  /\ held' = held \ {next}
  /\ next' = next + 1
  /\ UNCHANGED <<sent, started>>

(* The frame at the lower end is given up; a later one is waiting. *)
Skip ==
  /\ started
  /\ next \notin held
  /\ held # {}
  /\ next' = next + 1
  /\ UNCHANGED <<sent, started, held, out>>

(* The session ends: everything is dropped. *)
Clear ==
  /\ started' = FALSE
  /\ held' = {}
  /\ out' = NoFrame
  /\ UNCHANGED <<sent, next>>

Next ==
  \/ Send
  \/ \E n \in Origin .. sent - 1 : Arrive(n)
  \/ Deliver
  \/ Skip
  \/ Clear

Spec == Init /\ [][Next]_pvars
=============================================================================
