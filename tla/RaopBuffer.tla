----------------------------- MODULE RaopBuffer -----------------------------
(***************************************************************************)
(* The audio ring buffer of libxmirror/lib/raop_buffer.c: L slots indexed  *)
(* by RTP sequence numbers that wrap modulo W, the window of sequence      *)
(* numbers it covers, and the operations of its one caller, the audio      *)
(* thread of raop_rtp.c.                                                   *)
(*                                                                         *)
(* A payload is the number of the audio frame it carries: frame n travels  *)
(* in an RTP packet with sequence number n % W.  `base' and `top' are      *)
(* history variables, the frame numbers first_seqnum and last_seqnum       *)
(* stand for; `sent' and `out' are what the sender has sent and the        *)
(* renderer has been given last.                                           *)
(***************************************************************************)
EXTENDS Integers, FiniteSets

CONSTANTS L,        (* RAOP_BUFFER_LENGTH                                 *)
          W,        (* sequence numbers are 0 .. W-1 (an unsigned short)  *)
          Origin,   (* the number of the sender's first frame             *)
          MaxFrame  (* bound: no frame has a number above MaxFrame        *)

H == W \div 2

ASSUME LengthAssumption == L \in Nat \ {0}
ASSUME RangeAssumption == /\ W \in Nat \ {0}
                          /\ W >= 4 * L
                          /\ W % 2 = 0
                          /\ W % L = 0
ASSUME FrameAssumption == Origin \in Nat /\ MaxFrame \in Nat

VARIABLES sent,          (* the next frame number the sender will use       *)
          filled,        (* entries[i].filled                               *)
          seqnum,        (* entries[i].seqnum                               *)
          payload,       (* entries[i].payload_data, NoFrame for NULL       *)
          is_empty, first_seqnum, last_seqnum,
          requested,     (* what this step asks the sender to resend         *)
          base, top,     (* frames of first_seqnum and last_seqnum          *)
          out            (* the frame dequeued last, NoFrame at the start   *)

window == <<is_empty, first_seqnum, last_seqnum, base, top>>
slots == <<filled, seqnum, payload>>
vars == <<sent, slots, window, requested, out>>

NoFrame == -1
Slot == 0 .. L - 1
Seqnum == 0 .. W - 1

(* Mutant: the subtraction without the cast to short. *)
UnsignedDistance(s1, s2) == (s1 - s2) % W

(* (short)(s1 - s2): the distance from s2 to s1 in -H .. H-1. *)
SeqnumCmp(s1, s2) ==
  LET d == (s1 - s2) % W IN IF d < H THEN d ELSE d - W

Successor(s) == (s + 1) % W

Index(s) == s % L

Init ==
  /\ sent = Origin
  /\ filled = [i \in Slot |-> FALSE]
  /\ seqnum = [i \in Slot |-> 0]
  /\ payload = [i \in Slot |-> NoFrame]
  /\ is_empty = TRUE
  /\ first_seqnum = 0
  /\ last_seqnum = 0
  /\ requested = {}
  /\ base = Origin
  /\ top = Origin
  /\ out = NoFrame

(* The sender emits the next frame of its stream. *)
Send ==
  /\ sent < MaxFrame
  /\ is_empty \/ sent - base < H
  /\ sent' = sent + 1
  /\ requested' = {}
  /\ UNCHANGED <<slots, window, out>>

(***************************************************************************)
(* raop_buffer_enqueue.  The network hands over any frame sent, in any     *)
(* order and any number of times, under two assumptions that keep          *)
(* sequence numbers meaningful: a packet is not delayed by more than H     *)
(* frames, and no outage loses H frames in a row (the guard of Send).      *)
(***************************************************************************)
InFlight == {n \in Origin .. sent - 1 : sent - n <= H}

(* Mutants: no test of is_empty, and an off-by-one in the test for space. *)
BeforeFirst(s) == SeqnumCmp(s, first_seqnum) < 0
OneTooMany(s) == SeqnumCmp(s, (first_seqnum + L) % W) > 0

TooLate(s) == ~is_empty /\ SeqnumCmp(s, first_seqnum) < 0
NoSpace(s) == SeqnumCmp(s, (first_seqnum + L) % W) >= 0
Present(s) == filled[Index(s)] /\ seqnum[Index(s)] = s

Discard(n) ==
  LET s == n % W IN
  /\ TooLate(s) \/ (~NoSpace(s) /\ Present(s))
  /\ UNCHANGED <<slots, window>>

Insert(n) ==
  LET s == n % W
      newest == is_empty \/ SeqnumCmp(s, last_seqnum) > 0 IN
  /\ ~TooLate(s) /\ ~NoSpace(s) /\ ~Present(s)
  /\ filled' = [filled EXCEPT ![Index(s)] = TRUE]
  /\ seqnum' = [seqnum EXCEPT ![Index(s)] = s]
  /\ payload' = [payload EXCEPT ![Index(s)] = n]
  /\ is_empty' = FALSE
  /\ first_seqnum' = IF is_empty THEN s ELSE first_seqnum
  /\ last_seqnum' = IF newest THEN s ELSE last_seqnum
  /\ base' = IF is_empty THEN n ELSE base
  /\ top' = IF newest THEN n ELSE top

(* raop_buffer_flush(s) has emptied every slot before the packet is stored. *)
FlushAndInsert(n) ==
  LET s == n % W IN
  /\ ~TooLate(s) /\ NoSpace(s)
  /\ filled' = [i \in Slot |-> i = Index(s)]
  /\ seqnum' = [seqnum EXCEPT ![Index(s)] = s]
  /\ payload' = [i \in Slot |-> IF i = Index(s) THEN n ELSE NoFrame]
  /\ is_empty' = FALSE
  /\ first_seqnum' = s
  /\ last_seqnum' = s
  /\ base' = n
  /\ top' = n

Enqueue(n) ==
  /\ Discard(n) \/ Insert(n) \/ FlushAndInsert(n)
  /\ requested' = {}
  /\ UNCHANGED <<sent, out>>

(***************************************************************************)
(* raop_buffer_dequeue: with no_resend a missing frame is skipped at once, *)
(* without it only when the buffer is full.                                *)
(***************************************************************************)
(* Mutant: an off-by-one in the count. *)
CountOneMore == SeqnumCmp(last_seqnum, first_seqnum) + 2

EntryCount == SeqnumCmp(last_seqnum, first_seqnum) + 1
First == Index(first_seqnum)

Advance ==
  /\ ~is_empty /\ EntryCount > 0
  /\ first_seqnum' = Successor(first_seqnum)
  /\ base' = base + 1
  /\ requested' = {}
  /\ UNCHANGED <<sent, seqnum, is_empty, last_seqnum, top>>

TakeFrame ==
  /\ filled[First]
  /\ Advance
  /\ filled' = [filled EXCEPT ![First] = FALSE]
  /\ payload' = [payload EXCEPT ![First] = NoFrame]
  /\ out' = payload[First]

SkipFrame(no_resend) ==
  /\ ~filled[First]
  /\ no_resend \/ EntryCount >= L
  /\ Advance
  /\ UNCHANGED <<filled, payload, out>>

Dequeue(no_resend) == TakeFrame \/ SkipFrame(no_resend)

(* A call that returns NULL and leaves the buffer as it is. *)
NothingToDequeue(no_resend) ==
  \/ is_empty
  \/ EntryCount <= 0
  \/ ~no_resend /\ ~filled[First] /\ EntryCount < L

(* Mutant: no stop at the first filled entry. *)
MissingAnywhere == {k \in Slot : SeqnumCmp((first_seqnum + k) % W, last_seqnum) < 0}

(* raop_buffer_handle_resends: ask for the run of missing frames that *)
(* starts the window.                                                 *)
Missing ==
  {k \in Slot : /\ SeqnumCmp((first_seqnum + k) % W, last_seqnum) < 0
                /\ \A j \in 0 .. k : ~filled[Index((first_seqnum + j) % W)]}

AnyMissing == SeqnumCmp(first_seqnum, last_seqnum) < 0 /\ Missing # {}

HandleResends ==
  /\ AnyMissing
  /\ requested' = {(first_seqnum + k) % W : k \in Missing}
  /\ UNCHANGED <<sent, slots, window, out>>

(* raop_buffer_flush(-1), when the session stops. *)
FlushAll ==
  /\ filled' = [i \in Slot |-> FALSE]
  /\ payload' = [i \in Slot |-> NoFrame]
  /\ is_empty' = TRUE
  /\ out' = NoFrame
  /\ requested' = {}
  /\ UNCHANGED <<sent, seqnum, first_seqnum, last_seqnum, base, top>>

Next ==
  \/ Send
  \/ \E n \in InFlight : Enqueue(n)
  \/ \E no_resend \in BOOLEAN : Dequeue(no_resend)
  \/ HandleResends
  \/ FlushAll

Spec == Init /\ [][Next]_vars
-----------------------------------------------------------------------------
(* Every variable has the type its C declaration gives it. *)
TypeOK ==
  /\ sent \in Nat
  /\ filled \in [Slot -> BOOLEAN]
  /\ seqnum \in [Slot -> Seqnum]
  /\ payload \in [Slot -> Nat \union {NoFrame}]
  /\ is_empty \in BOOLEAN
  /\ first_seqnum \in Seqnum
  /\ last_seqnum \in Seqnum
  /\ requested \subseteq Seqnum
  /\ base \in Nat
  /\ top \in Int
  /\ out \in Nat \union {NoFrame}

(* A slot owns a payload exactly while it is filled (so flush and destroy,  *)
(* which look at payload_data, and dequeue, which looks at filled, agree on *)
(* what there is to free), and the frame it owns is one of the L frames     *)
(* from first_seqnum on, in the slot and under the number it hashes to.     *)
HeldInWindow ==
  \A i \in Slot :
    /\ filled[i] <=> payload[i] # NoFrame
    /\ filled[i] => /\ ~is_empty
                    /\ payload[i] \in base .. top
                    /\ seqnum[i] = payload[i] % W
                    /\ i = Index(seqnum[i])

(* The wrapping window of the code is the window base .. top of frame      *)
(* numbers: never longer than the ring, its newest frame held until the    *)
(* window is drained, never half the sequence space behind the sender, and *)
(* past every frame that was delivered.                                    *)
WindowOK ==
  /\ ~is_empty =>
       /\ first_seqnum = base % W
       /\ last_seqnum = top % W
       /\ base - 1 <= top /\ top < base + L /\ top < sent
       /\ sent - base <= H
       /\ base <= top => filled[Index(last_seqnum)] /\ payload[Index(last_seqnum)] = top
  /\ out # NoFrame => ~is_empty /\ out < base

(* The ring is sound when all of this is so: after any packets at all, the *)
(* wrapping numbers of the code still say which frames it holds.           *)
RingOK == TypeOK /\ HeldInWindow /\ WindowOK

(* The frames given to the renderer come in the order they were sent and  *)
(* none comes twice, whatever the network reorders, repeats or loses, and *)
(* across the wrap of the sequence number.                                *)
InOrder == [][out' # out => out' = NoFrame \/ out' > out]_vars

(* enqueue never overwrites a payload that a slot still owns (it would be *)
(* leaked): a payload leaves its slot by dequeue or by a flush.           *)
NoPayloadLost ==
  [][\A i \in Slot : payload[i] # NoFrame =>
        payload'[i] \in {payload[i], NoFrame}
          \/ (payload'[i] = base' /\ base' = top' /\ base' >= base + L)]_vars

(* The comparisons modulo W classify a packet as the frame order would: a  *)
(* frame the renderer could still play is stored, whatever its number.     *)
NoUsefulFrameDropped ==
  [][\A n \in InFlight :
       Enqueue(n) => n \in {payload'[i] : i \in Slot} \/ (~is_empty /\ n < base)]_vars

(* An enqueue loses no frame that could still be played: neither one that *)
(* the ring owns nor the one that arrives.                                *)
EnqueueIsRight == NoPayloadLost /\ NoUsefulFrameDropped

(* A resend request names missing frames only, each older than a frame  *)
(* that has arrived.                                                    *)
RequestsAreMissing ==
  [][\A q \in requested' :
         /\ \A i \in Slot : filled[i] => seqnum[i] # q
         /\ is_empty \/ \E i \in Slot : filled[i] /\ SeqnumCmp(q, seqnum[i]) < 0]_vars

(* The ring implements the window of frames: the abstract specification *)
(* reads the frames out of the slots that are filled.                   *)
Held == {payload[i] : i \in {j \in Slot : filled[j]}}

Window == INSTANCE PlayoutWindow
            WITH started <- ~is_empty, next <- base, held <- Held

ImplementsWindow == Window!Spec
=============================================================================
