---------------------------- MODULE AudioProofs ----------------------------
(***************************************************************************)
(* Proofs about RaopBuffer, for every ring length and every range of       *)
(* sequence numbers that the assumptions of the module allow, and about    *)
(* the audio stream of AudioRtp, whose threads use the ring.               *)
(***************************************************************************)
EXTENDS AudioRtp, Modular

(* The inductive invariant: the three invariants the runs check, together. *)
IInv == TypeOK /\ HeldInWindow /\ WindowOK

(* Half of the sequence space holds at least two rings. *)
LEMMA Constants ==
  /\ L \in Nat \ {0} /\ W \in Nat \ {0} /\ H \in Nat
  /\ W = 2 * H /\ H >= 2 * L /\ W % L = 0
<1>1. W = 2 * (W \div 2) + (W % 2)
  BY RangeAssumption, ModDef
<1>2. W \div 2 \in Int
  BY RangeAssumption, ModDef
<1> QED BY <1>1, <1>2, LengthAssumption, RangeAssumption DEF H

(* seqnum_cmp of the sequence numbers of two frames less than half the *)
(* sequence space apart is the distance between the frames.            *)
LEMMA CmpFrames ==
  ASSUME NEW a \in Int, NEW b \in Int, -H <= a - b, a - b < H
  PROVE  SeqnumCmp(a % W, b % W) = a - b
<1> DEFINE d == a - b
<1>1. ((a % W) - (b % W)) % W = d % W
  BY ModDifference, Constants
<1>2. d \in Int /\ -H <= d /\ d < H
  BY Constants
<1> HIDE DEF d
<1>3. SeqnumCmp(a % W, b % W) = IF d % W < H THEN d % W ELSE (d % W) - W
  BY <1>1 DEF SeqnumCmp
<1>4. CASE d >= 0
  <2>1. d % W = d
    BY <1>2, <1>4, Constants, ModSmall
  <2> QED BY <1>2, <1>3, <2>1 DEF d
<1>5. CASE d < 0
  <2>1. d % W = d + W
    BY <1>2, <1>5, Constants, ModSmall
  <2>2. ~(d + W < H) /\ d + W - W = d
    BY <1>2, Constants
  <2>3. SeqnumCmp(a % W, b % W) = d
    <3>1. W \in Int /\ H \in Int
      BY Constants
    <3> QED BY <1>2, <1>3, <2>1, <2>2, <3>1
  <2> QED BY <2>3 DEF d
<1> QED BY <1>2, <1>4, <1>5

(* The slot of a frame is its number modulo the ring length, and two frames *)
(* less than a ring apart share a slot only when they are the same frame.   *)
LEMMA SlotOfFrame ==
  ASSUME NEW n \in Int
  PROVE  /\ n % W \in Seqnum
         /\ Index(n % W) \in Slot
         /\ Index(n % W) = n % L
<1>1. n % W \in Seqnum
  BY ModDef, Constants DEF Seqnum
<1>2. Index(n % W) = n % L
  BY ModOfMod, Constants DEF Index
<1>3. n % L \in Slot
  BY ModDef, Constants DEF Slot
<1> QED BY <1>1, <1>2, <1>3

LEMMA SlotUnique ==
  ASSUME NEW a \in Int, NEW b \in Int, a - b < L, b - a < L,
         Index(a % W) = Index(b % W)
  PROVE  a = b
BY SlotOfFrame, SameResidue, Constants

LEMMA NumberUnique ==
  ASSUME NEW a \in Int, NEW b \in Int, a - b < L, b - a < L, a % W = b % W
  PROVE  a = b
<1>1. a - b < W /\ b - a < W
  BY Constants
<1> QED BY <1>1, SameResidue, Constants

-----------------------------------------------------------------------------
(* How the tests of raop_buffer_enqueue classify a frame of the network. *)
LEMMA Classify ==
  ASSUME IInv, ~is_empty, NEW n \in InFlight
  PROVE  /\ n \in Nat /\ n < sent /\ sent - n <= H
         /\ TooLate(n % W) <=> n < base
         /\ n >= base => (NoSpace(n % W) <=> n >= base + L)
         /\ n >= base /\ n < base + L => (SeqnumCmp(n % W, last_seqnum) > 0 <=> n > top)
<1>1. /\ n \in Nat /\ n < sent /\ sent - n <= H
      /\ sent \in Nat /\ base \in Nat /\ top \in Int
      /\ first_seqnum = base % W /\ last_seqnum = top % W
      /\ base - 1 <= top /\ top < base + L /\ top < sent /\ sent - base <= H
  BY FrameAssumption DEF IInv, TypeOK, WindowOK, InFlight
<1>2. TooLate(n % W) <=> n < base
  <2>1. n \in Int /\ base \in Int /\ -H <= n - base /\ n - base < H
    BY <1>1, Constants
  <2>2. SeqnumCmp(n % W, base % W) = n - base
    BY <2>1, CmpFrames
  <2> QED BY <1>1, <2>2 DEF TooLate
<1>3. n >= base => (NoSpace(n % W) <=> n >= base + L)
  <2> SUFFICES ASSUME n >= base PROVE NoSpace(n % W) <=> n >= base + L
    OBVIOUS
  <2>1. (first_seqnum + L) % W = (base + L) % W
    BY <1>1, SuccMod, Constants
  <2>2. n \in Int /\ base + L \in Int /\ -H <= n - (base + L) /\ n - (base + L) < H
    BY <1>1, Constants
  <2>3. SeqnumCmp(n % W, (base + L) % W) = n - (base + L)
    BY <2>2, CmpFrames
  <2> QED BY <1>1, <2>1, <2>2, <2>3, Constants DEF NoSpace
<1>4. n >= base /\ n < base + L => (SeqnumCmp(n % W, last_seqnum) > 0 <=> n > top)
  <2> SUFFICES ASSUME n >= base, n < base + L
               PROVE  SeqnumCmp(n % W, last_seqnum) > 0 <=> n > top
    OBVIOUS
  <2>1. n \in Int /\ top \in Int /\ -H <= n - top /\ n - top < H
    BY <1>1, Constants
  <2>2. SeqnumCmp(n % W, top % W) = n - top
    BY <2>1, CmpFrames
  <2> QED BY <1>1, <2>2
<1> QED BY <1>1, <1>2, <1>3, <1>4

(* A slot inside the window holds the frame asked for, or an older content. *)
LEMMA PresentIsHeld ==
  ASSUME IInv, ~is_empty, NEW n \in Int, n >= base, n < base + L
  PROVE  /\ Present(n % W) <=> filled[Index(n % W)]
         /\ filled[Index(n % W)] => payload[Index(n % W)] = n
<1> DEFINE i == Index(n % W)
<1>1. i \in Slot
  BY SlotOfFrame
<1>2. ASSUME filled[i] PROVE payload[i] = n /\ seqnum[i] = n % W
  <2>1. /\ payload[i] \in base .. top
        /\ seqnum[i] = payload[i] % W
        /\ i = Index(seqnum[i])
    BY <1>1, <1>2 DEF IInv, HeldInWindow
  <2>2. /\ base \in Int /\ top \in Int /\ top < base + L
    BY DEF IInv, TypeOK, WindowOK
  <2>3. payload[i] \in Int /\ payload[i] - n < L /\ n - payload[i] < L
    BY <2>1, <2>2, Constants
  <2>4. Index(payload[i] % W) = Index(n % W)
    BY <2>1
  <2>5. payload[i] = n
    BY <2>3, <2>4, SlotUnique
  <2> QED BY <2>1, <2>5
<1> QED BY <1>2 DEF Present

-----------------------------------------------------------------------------
(* The initial state. *)
LEMMA InitInv == Init => IInv
<1> SUFFICES ASSUME Init PROVE IInv
  OBVIOUS
<1>1. TypeOK
  BY Constants, FrameAssumption DEF Init, TypeOK, Slot, Seqnum, NoFrame
<1> QED BY <1>1 DEF Init, IInv, HeldInWindow, WindowOK, NoFrame

LEMMA InsertInv ==
  ASSUME IInv, NEW n \in InFlight, Insert(n), UNCHANGED <<sent, out>>, requested' = {}
  PROVE  IInv'
<1> DEFINE s == n % W
           i == Index(s)
<1>1. /\ n \in Nat /\ n < sent /\ sent - n <= H /\ n # NoFrame
  BY FrameAssumption DEF IInv, TypeOK, InFlight, NoFrame
<1>2. s \in Seqnum /\ i \in Slot
  BY <1>1, SlotOfFrame
<1>3. /\ filled' = [filled EXCEPT ![i] = TRUE]
      /\ seqnum' = [seqnum EXCEPT ![i] = s]
      /\ payload' = [payload EXCEPT ![i] = n]
      /\ is_empty' = FALSE
      /\ sent' = sent /\ out' = out
  BY DEF Insert
<1>4. TypeOK'
  <2>1. /\ first_seqnum' \in Seqnum /\ last_seqnum' \in Seqnum
        /\ base' \in Nat /\ top' \in Int
    BY <1>1, <1>2 DEF IInv, TypeOK, Insert
  <2> HIDE DEF s, i
  <2> QED BY <1>1, <1>2, <1>3, <2>1 DEF IInv, TypeOK
<1>5. CASE is_empty
  <2>1. /\ first_seqnum' = s /\ last_seqnum' = s /\ base' = n /\ top' = n
    BY <1>5 DEF Insert
  <2>2. \A j \in Slot : ~filled[j] /\ payload[j] = NoFrame
    BY <1>5 DEF IInv, HeldInWindow
  <2>3. HeldInWindow'
    <3> SUFFICES ASSUME NEW j \in Slot
                 PROVE  /\ filled'[j] <=> payload'[j] # NoFrame
                        /\ filled'[j] => /\ ~is_empty'
                                         /\ payload'[j] \in base' .. top'
                                         /\ seqnum'[j] = payload'[j] % W
                                         /\ j = Index(seqnum'[j])
      BY DEF HeldInWindow
    <3>1. CASE j = i
      BY <3>1, <1>1, <1>2, <1>3, <2>1 DEF IInv, TypeOK
    <3>2. CASE j # i
      BY <3>2, <1>2, <1>3, <2>2 DEF IInv, TypeOK
    <3> QED BY <3>1, <3>2
  <2>4. WindowOK'
    <3>1. filled'[i] /\ payload'[i] = n
      BY <1>2, <1>3 DEF IInv, TypeOK
    <3>2. out' = NoFrame
      BY <1>3, <1>5 DEF IInv, WindowOK
    <3> QED BY <1>1, <1>3, <2>1, <3>1, <3>2, Constants DEF WindowOK, IInv, TypeOK
  <2> QED BY <1>4, <2>3, <2>4 DEF IInv
<1>6. CASE ~is_empty
  <2>1. n >= base /\ n < base + L /\ (SeqnumCmp(s, last_seqnum) > 0 <=> n > top)
    <3>1. ~TooLate(s) /\ ~NoSpace(s)
      BY DEF Insert
    <3>2. n >= base
      BY <1>6, <1>1, <3>1, Classify DEF IInv, TypeOK
    <3>3. n < base + L
      BY <1>6, <1>1, <3>1, <3>2, Classify, Constants DEF IInv, TypeOK
    <3> QED BY <1>6, <3>2, <3>3, Classify
  <2>2. /\ first_seqnum' = first_seqnum /\ base' = base
        /\ last_seqnum' = IF n > top THEN s ELSE last_seqnum
        /\ top' = IF n > top THEN n ELSE top
    BY <1>6, <2>1 DEF Insert
  <2>3. /\ base \in Nat /\ top \in Int /\ sent \in Nat
        /\ first_seqnum = base % W /\ last_seqnum = top % W
        /\ base - 1 <= top /\ top < base + L /\ top < sent /\ sent - base <= H
        /\ base <= top => filled[Index(last_seqnum)] /\ payload[Index(last_seqnum)] = top
    BY <1>6 DEF IInv, TypeOK, WindowOK
  <2>4. HeldInWindow'
    <3> SUFFICES ASSUME NEW j \in Slot
                 PROVE  /\ filled'[j] <=> payload'[j] # NoFrame
                        /\ filled'[j] => /\ ~is_empty'
                                         /\ payload'[j] \in base' .. top'
                                         /\ seqnum'[j] = payload'[j] % W
                                         /\ j = Index(seqnum'[j])
      BY DEF HeldInWindow
    <3>1. CASE j = i
      <4>1. n \in base' .. top'
        BY <1>1, <2>1, <2>2, <2>3
      <4> QED BY <3>1, <1>1, <1>2, <1>3, <4>1 DEF IInv, TypeOK
    <3>2. CASE j # i
      <4>1. /\ filled'[j] = filled[j] /\ payload'[j] = payload[j] /\ seqnum'[j] = seqnum[j]
        BY <3>2, <1>2, <1>3 DEF IInv, TypeOK
      <4>2. \A m \in base .. top : m \in base' .. top'
        BY <1>1, <2>1, <2>2, <2>3
      <4> QED BY <1>3, <4>1, <4>2 DEF IInv, HeldInWindow
    <3> QED BY <3>1, <3>2
  <2>5. WindowOK'
    <3>1. last_seqnum' = top' % W
      BY <2>2, <2>3
    <3>2. base - 1 <= top' /\ base <= top' /\ top' < base + L /\ top' < sent
      BY <1>1, <2>1, <2>2, <2>3
    <3>3. filled'[Index(last_seqnum')] /\ payload'[Index(last_seqnum')] = top'
      <4>1. CASE n > top
        BY <4>1, <1>2, <1>3, <2>2 DEF IInv, TypeOK
      <4>2. CASE ~(n > top)
        <5>1. last_seqnum' = last_seqnum /\ top' = top /\ base <= top
          BY <4>2, <1>1, <2>1, <2>2, <2>3
        <5>2. Index(last_seqnum) \in Slot
          BY <2>3, SlotOfFrame
        <5>3. ~filled[i]
          BY <1>1, <1>6, <2>1, PresentIsHeld DEF Insert
        <5> QED BY <1>3, <2>3, <5>1, <5>2, <5>3 DEF IInv, TypeOK
      <4> QED BY <4>1, <4>2
    <3>4. out' # NoFrame => out' < base'
      BY <1>3, <2>2 DEF IInv, WindowOK
    <3> QED BY <1>3, <2>2, <2>3, <3>1, <3>2, <3>3, <3>4 DEF WindowOK
  <2> QED BY <1>4, <2>4, <2>5 DEF IInv
<1> QED BY <1>5, <1>6

LEMMA FlushAndInsertInv ==
  ASSUME IInv, NEW n \in InFlight, FlushAndInsert(n), UNCHANGED <<sent, out>>,
         requested' = {}
  PROVE  IInv'
<1> DEFINE s == n % W
           i == Index(s)
<1>1. /\ n \in Nat /\ n < sent /\ sent - n <= H /\ n # NoFrame
  BY FrameAssumption DEF IInv, TypeOK, InFlight, NoFrame
<1>2. s \in Seqnum /\ i \in Slot
  BY <1>1, SlotOfFrame
<1>3. /\ filled' = [j \in Slot |-> j = i]
      /\ seqnum' = [seqnum EXCEPT ![i] = s]
      /\ payload' = [j \in Slot |-> IF j = i THEN n ELSE NoFrame]
      /\ is_empty' = FALSE
      /\ first_seqnum' = s /\ last_seqnum' = s /\ base' = n /\ top' = n
      /\ sent' = sent /\ out' = out
  BY DEF FlushAndInsert
<1>4. TypeOK'
  <2> HIDE DEF s, i
  <2>1. filled' \in [Slot -> BOOLEAN]
    BY <1>3
  <2>2. seqnum' \in [Slot -> Seqnum] /\ payload' \in [Slot -> Nat \union {NoFrame}]
    BY <1>1, <1>2, <1>3 DEF IInv, TypeOK
  <2>3. /\ sent' \in Nat /\ out' \in Nat \union {NoFrame}
        /\ first_seqnum' \in Seqnum /\ last_seqnum' \in Seqnum
        /\ base' \in Nat /\ top' \in Int
    BY <1>1, <1>2, <1>3 DEF IInv, TypeOK
  <2>4. is_empty' \in BOOLEAN
    BY <1>3
  <2>5. requested' \subseteq Seqnum
    OBVIOUS
  <2> QED BY <2>1, <2>2, <2>3, <2>4, <2>5 DEF TypeOK
<1>5. HeldInWindow'
  <2> SUFFICES ASSUME NEW j \in Slot
               PROVE  /\ filled'[j] <=> payload'[j] # NoFrame
                      /\ filled'[j] => /\ ~is_empty'
                                       /\ payload'[j] \in base' .. top'
                                       /\ seqnum'[j] = payload'[j] % W
                                       /\ j = Index(seqnum'[j])
    BY DEF HeldInWindow
  <2>1. seqnum'[i] = s
    BY <1>2, <1>3 DEF IInv, TypeOK
  <2>2. filled'[j] = (j = i) /\ payload'[j] = IF j = i THEN n ELSE NoFrame
    BY <1>3
  <2>3. n \in n .. n
    BY <1>1
  <2> QED BY <1>1, <1>3, <2>1, <2>2, <2>3
<1>6. WindowOK'
  <2>1. out' # NoFrame => out' < base'
    <3>1. CASE is_empty
      BY <3>1, <1>3 DEF IInv, WindowOK
    <3>2. CASE ~is_empty
      <4>1. n >= base
        BY <3>2, <1>1, Classify DEF FlushAndInsert, IInv, TypeOK
      <4>2. out # NoFrame => out < base
        BY DEF IInv, WindowOK
      <4> QED BY <1>1, <1>3, <4>1, <4>2 DEF IInv, TypeOK
    <3> QED BY <3>1, <3>2
  <2>2. filled'[i] /\ payload'[i] = n
    BY <1>2, <1>3
  <2> QED BY <1>1, <1>3, <2>1, <2>2, Constants DEF WindowOK, IInv, TypeOK
<1> QED BY <1>4, <1>5, <1>6 DEF IInv

(* What the guards of dequeue say of the window: it is not empty, and the *)
(* entry they look at is the slot of frame `base'.                        *)
LEMMA AdvanceFacts ==
  ASSUME IInv, Advance
  PROVE  /\ ~is_empty /\ ~is_empty' /\ base \in Nat /\ top \in Int /\ base <= top
         /\ first_seqnum = base % W /\ First \in Slot /\ First = Index(base % W)
         /\ first_seqnum' \in Seqnum /\ first_seqnum' = base' % W /\ base' = base + 1
         /\ filled[First] => payload[First] = base
         /\ is_empty' = is_empty
<1>1. /\ ~is_empty /\ ~is_empty' /\ EntryCount > 0
      /\ first_seqnum' = (first_seqnum + 1) % W /\ base' = base + 1
      /\ is_empty' = is_empty
  BY DEF Advance, Successor
<1>2. /\ base \in Nat /\ top \in Int
      /\ first_seqnum = base % W /\ last_seqnum = top % W
      /\ base - 1 <= top /\ top < base + L
  BY <1>1 DEF IInv, TypeOK, WindowOK
<1>3. base <= top
  <2>1. base \in Int /\ -H <= top - base /\ top - base < H
    BY <1>2, Constants
  <2>2. SeqnumCmp(top % W, base % W) = top - base
    BY <1>2, <2>1, CmpFrames
  <2> QED BY <1>1, <1>2, <2>2 DEF EntryCount
<1>4. (base + 1) % W \in Seqnum /\ (first_seqnum + 1) % W = (base + 1) % W
  <2>1. base + 1 \in Int /\ base \in Int /\ 1 \in Int
    BY <1>2
  <2>2. ((base % W) + 1) % W = (base + 1) % W
    BY <2>1, SuccMod, Constants
  <2> QED BY <1>2, <2>1, <2>2, SlotOfFrame
<1>5. First \in Slot /\ First = Index(base % W)
  BY <1>2, SlotOfFrame DEF First
<1>6. filled[First] => payload[First] = base
  <2>1. base \in Int /\ base >= base /\ base < base + L
    BY <1>2, Constants
  <2> QED BY <1>1, <1>5, <2>1, PresentIsHeld
<1> QED BY <1>1, <1>2, <1>3, <1>4, <1>5, <1>6

(* Every other slot of the window holds a frame after `base'. *)
LEMMA RestIsAhead ==
  ASSUME IInv, Advance, NEW j \in Slot, filled[j], j # First
  PROVE  payload[j] \in base + 1 .. top
<1>1. payload[j] \in base .. top /\ j = Index(payload[j] % W)
  BY DEF IInv, HeldInWindow
<1>2. payload[j] # base
  BY <1>1, AdvanceFacts
<1> QED BY <1>1, <1>2, AdvanceFacts

LEMMA TakeFrameInv ==
  ASSUME IInv, TakeFrame
  PROVE  IInv'
<1>1. Advance /\ filled[First]
  BY DEF TakeFrame
<1>2. /\ filled' = [filled EXCEPT ![First] = FALSE]
      /\ payload' = [payload EXCEPT ![First] = NoFrame]
      /\ out' = payload[First]
      /\ UNCHANGED <<sent, seqnum, last_seqnum, top>> /\ requested' = {}
  BY DEF TakeFrame, Advance
<1>3. out' = base
  BY <1>1, <1>2, AdvanceFacts
<1>4. TypeOK'
  <2>1. /\ base' \in Nat /\ first_seqnum' \in Seqnum /\ is_empty' \in BOOLEAN
    BY <1>1, AdvanceFacts DEF IInv, TypeOK
  <2>2. filled' \in [Slot -> BOOLEAN] /\ payload' \in [Slot -> Nat \union {NoFrame}]
        /\ out' \in Nat \union {NoFrame}
    BY <1>1, <1>2, <1>3, AdvanceFacts DEF IInv, TypeOK
  <2> QED BY <1>2, <2>1, <2>2 DEF IInv, TypeOK
<1>5. HeldInWindow'
  <2> SUFFICES ASSUME NEW j \in Slot
               PROVE  /\ filled'[j] <=> payload'[j] # NoFrame
                      /\ filled'[j] => /\ ~is_empty'
                                       /\ payload'[j] \in base' .. top'
                                       /\ seqnum'[j] = payload'[j] % W
                                       /\ j = Index(seqnum'[j])
    BY DEF HeldInWindow
  <2>1. CASE j = First
    BY <2>1, <1>1, <1>2, AdvanceFacts DEF IInv, TypeOK
  <2>2. CASE j # First
    <3>1. filled'[j] = filled[j] /\ payload'[j] = payload[j] /\ seqnum'[j] = seqnum[j]
      BY <2>2, <1>2 DEF IInv, TypeOK
    <3>2. filled[j] => payload[j] \in base' .. top'
      BY <1>1, <1>2, <2>2, AdvanceFacts, RestIsAhead
    <3> QED BY <1>1, <3>1, <3>2, AdvanceFacts DEF IInv, HeldInWindow
  <2> QED BY <2>1, <2>2
<1>6. WindowOK'
  <2>1. /\ last_seqnum = top % W /\ top < base + L /\ top < sent /\ sent - base <= H
        /\ filled[Index(last_seqnum)] /\ payload[Index(last_seqnum)] = top
    BY <1>1, AdvanceFacts DEF IInv, WindowOK
  <2>2. ASSUME base' <= top'
        PROVE  filled'[Index(last_seqnum')] /\ payload'[Index(last_seqnum')] = top'
    <3>1. top # base /\ top \in Int /\ top - base < L /\ base - top < L /\ base \in Int
      BY <1>1, <1>2, <2>1, <2>2, AdvanceFacts, Constants
    <3>2. Index(last_seqnum) # First /\ Index(last_seqnum) \in Slot
      BY <1>1, <2>1, <3>1, AdvanceFacts, SlotUnique, SlotOfFrame
    <3> QED BY <1>2, <2>1, <3>2 DEF IInv, TypeOK
  <2>3. sent \in Nat
    BY DEF IInv, TypeOK
  <2>4. /\ ~is_empty' /\ first_seqnum' = base' % W /\ last_seqnum' = top' % W
        /\ base' - 1 <= top' /\ top' < base' + L /\ top' < sent' /\ sent' - base' <= H
        /\ out' < base'
    BY <1>1, <1>2, <1>3, <2>1, <2>3, AdvanceFacts, Constants
  <2> QED BY <2>2, <2>4 DEF WindowOK
<1> QED BY <1>4, <1>5, <1>6 DEF IInv

LEMMA SkipFrameInv ==
  ASSUME IInv, NEW nr \in BOOLEAN, SkipFrame(nr)
  PROVE  IInv'
<1>1. Advance /\ ~filled[First]
  BY DEF SkipFrame
<1>2. UNCHANGED <<filled, payload, out, sent, seqnum, last_seqnum, top>> /\ requested' = {}
  BY DEF SkipFrame, Advance
<1>3. TypeOK'
  <2>1. /\ base' \in Nat /\ first_seqnum' \in Seqnum /\ is_empty' \in BOOLEAN
    BY <1>1, AdvanceFacts DEF IInv, TypeOK
  <2>2. filled' \in [Slot -> BOOLEAN] /\ payload' \in [Slot -> Nat \union {NoFrame}]
        /\ out' \in Nat \union {NoFrame}
    BY <1>1, <1>2, AdvanceFacts DEF IInv, TypeOK
  <2> QED BY <1>2, <2>1, <2>2 DEF IInv, TypeOK
<1>4. HeldInWindow'
  <2> SUFFICES ASSUME NEW j \in Slot
               PROVE  /\ filled[j] <=> payload[j] # NoFrame
                      /\ filled[j] => /\ ~is_empty'
                                      /\ payload[j] \in base' .. top
                                      /\ seqnum[j] = payload[j] % W
                                      /\ j = Index(seqnum[j])
    BY <1>2 DEF HeldInWindow
  <2>1. filled[j] => payload[j] \in base' .. top
    BY <1>1, AdvanceFacts, RestIsAhead
  <2> QED BY <1>1, <2>1, AdvanceFacts DEF IInv, HeldInWindow
<1>5. WindowOK'
  <2>1. /\ last_seqnum = top % W /\ top < base + L /\ top < sent /\ sent - base <= H
        /\ filled[Index(last_seqnum)] /\ payload[Index(last_seqnum)] = top
        /\ out # NoFrame => out < base
    BY <1>1, AdvanceFacts DEF IInv, WindowOK
  <2>2. sent \in Nat /\ out \in Int
    BY DEF IInv, TypeOK, NoFrame
  <2>3. /\ ~is_empty' /\ first_seqnum' = base' % W /\ last_seqnum' = top' % W
        /\ base' - 1 <= top' /\ top' < base' + L /\ top' < sent' /\ sent' - base' <= H
        /\ out' # NoFrame => out' < base'
    BY <1>1, <1>2, <2>1, <2>2, AdvanceFacts, Constants
  <2> QED BY <1>2, <2>1, <2>3 DEF WindowOK
<1> QED BY <1>3, <1>4, <1>5 DEF IInv

(* The steps that leave the ring alone, or empty it. *)
LEMMA OtherStepsInv ==
  ASSUME IInv, Send \/ HandleResends \/ FlushAll \/ UNCHANGED vars
  PROVE  IInv'
<1>1. CASE Send
  <2>1. sent' = sent + 1 /\ requested' = {} /\ UNCHANGED <<slots, window, out>>
        /\ (is_empty \/ sent - base < H)
    BY <1>1 DEF Send
  <2>2. TypeOK'
    BY <2>1 DEF IInv, TypeOK, slots, window
  <2>3. HeldInWindow'
    BY <2>1 DEF IInv, HeldInWindow, slots, window
  <2>4. WindowOK'
    BY <2>1, Constants DEF IInv, WindowOK, TypeOK, slots, window
  <2> QED BY <2>2, <2>3, <2>4 DEF IInv
<1>2. CASE HandleResends
  <2>1. UNCHANGED <<sent, slots, window, out>>
    BY <1>2 DEF HandleResends
  <2>2. requested' \subseteq Seqnum
    <3> SUFFICES ASSUME NEW k \in Missing PROVE (first_seqnum + k) % W \in Seqnum
      BY <1>2 DEF HandleResends
    <3>1. first_seqnum + k \in Int
      BY Constants DEF Missing, Slot, IInv, TypeOK, Seqnum
    <3> QED BY <3>1, SlotOfFrame
  <2>3. TypeOK'
    BY <2>1, <2>2 DEF IInv, TypeOK, slots, window
  <2>4. HeldInWindow' /\ WindowOK'
    BY <2>1 DEF IInv, HeldInWindow, WindowOK, slots, window
  <2> QED BY <2>3, <2>4 DEF IInv
<1>3. CASE FlushAll
  <2>1. /\ filled' = [i \in Slot |-> FALSE] /\ payload' = [i \in Slot |-> NoFrame]
        /\ is_empty' /\ is_empty' \in BOOLEAN /\ out' = NoFrame /\ requested' = {}
        /\ UNCHANGED <<sent, seqnum, first_seqnum, last_seqnum, base, top>>
    BY <1>3 DEF FlushAll
  <2>2. TypeOK'
    BY <2>1 DEF IInv, TypeOK
  <2>3. HeldInWindow' /\ WindowOK'
    BY <2>1 DEF HeldInWindow, WindowOK
  <2> QED BY <2>2, <2>3 DEF IInv
<1>4. CASE UNCHANGED vars
  BY <1>4 DEF IInv, TypeOK, HeldInWindow, WindowOK, vars, slots, window
<1> QED BY <1>1, <1>2, <1>3, <1>4

(* The invariant is inductive. *)
LEMMA StepInv == IInv /\ [Next]_vars => IInv'
<1> SUFFICES ASSUME IInv, [Next]_vars PROVE IInv'
  OBVIOUS
<1>1. ASSUME NEW n \in InFlight, Enqueue(n) PROVE IInv'
  <2>1. UNCHANGED <<sent, out>> /\ requested' = {}
    BY <1>1 DEF Enqueue
  <2>2. CASE Insert(n)
    BY <2>1, <2>2, InsertInv
  <2>3. CASE FlushAndInsert(n)
    BY <2>1, <2>3, FlushAndInsertInv
  <2>4. CASE Discard(n)
    <3>1. UNCHANGED <<slots, window, sent, out>> /\ requested' \subseteq Seqnum
      BY <2>1, <2>4 DEF Discard
    <3> QED BY <3>1 DEF IInv, TypeOK, HeldInWindow, WindowOK, slots, window
  <2> QED BY <1>1, <2>2, <2>3, <2>4 DEF Enqueue
<1>2. ASSUME NEW nr \in BOOLEAN, Dequeue(nr) PROVE IInv'
  BY <1>2, TakeFrameInv, SkipFrameInv DEF Dequeue
<1>3. CASE Send \/ HandleResends \/ FlushAll \/ UNCHANGED vars
  BY <1>3, OtherStepsInv
<1> QED BY <1>1, <1>2, <1>3 DEF Next

-----------------------------------------------------------------------------
(* The audio ring keeps its three invariants for every ring length, range *)
(* of sequence numbers and history of the network: the types, what a slot *)
(* owns, and the agreement of the wrapping window with the frame numbers  *)
(* (raop_buffer.c, every function).                                       *)
THEOREM Invariance == Spec => []RingOK
<1>1. IInv => RingOK
  BY DEF IInv, RingOK
<1> QED BY InitInv, StepInv, <1>1, PTL DEF Spec

(* Spec keeps the inductive invariant: what the action properties use. *)
LEMMA SpecInv == Spec => []IInv
BY InitInv, StepInv, PTL DEF Spec

(* Frames reach the renderer in the order they were sent, and none twice: *)
(* a frame is delivered from the lower end of the window, which is past   *)
(* every frame delivered before.                                          *)
THEOREM Ordered == Spec => InOrder
<1>1. ASSUME IInv, [Next]_vars
      PROVE  [out' # out => out' = NoFrame \/ out' > out]_vars
  <2>1. ASSUME NEW nr \in BOOLEAN, Dequeue(nr), out' # out
        PROVE  out' > out
    <3>1. CASE TakeFrame
      <4>1. Advance /\ out' = base
        BY <1>1, <3>1, AdvanceFacts DEF TakeFrame
      <4>2. out = NoFrame \/ out < base
        BY <1>1 DEF IInv, WindowOK
      <4> QED BY <1>1, <4>1, <4>2, AdvanceFacts DEF NoFrame
    <3>2. CASE SkipFrame(nr)
      BY <1>1, <2>1, <3>2 DEF SkipFrame
    <3> QED BY <1>1, <2>1, <3>1, <3>2 DEF Dequeue
  <2>2. ASSUME Send \/ HandleResends \/ (\E n \in InFlight : Enqueue(n)) PROVE out' = out
    BY <1>1, <2>2 DEF Send, HandleResends, Enqueue
  <2>3. ASSUME FlushAll PROVE out' = NoFrame
    BY <1>1, <2>3 DEF FlushAll
  <2> QED BY <1>1, <2>1, <2>2, <2>3 DEF Next, vars
<1> QED BY SpecInv, <1>1, PTL DEF Spec, InOrder

(* The comparisons modulo W lose no frame that could still be played, and *)
(* keep none that is too old: the wrap of the sequence number never shows. *)
THEOREM NoneDropped == Spec => NoUsefulFrameDropped
<1>1. ASSUME IInv, NEW n \in InFlight, Enqueue(n)
      PROVE  n \in {payload'[i] : i \in Slot} \/ (~is_empty /\ n < base)
  <2> DEFINE i == Index(n % W)
  <2>1. n \in Nat /\ i \in Slot
    BY <1>1, FrameAssumption, SlotOfFrame DEF InFlight, IInv, TypeOK
  <2>2. CASE Insert(n) \/ FlushAndInsert(n)
    <3>1. payload'[i] = n
      BY <1>1, <2>1, <2>2 DEF Insert, FlushAndInsert, IInv, TypeOK
    <3> QED BY <1>1, <2>1, <3>1
  <2>3. CASE Discard(n)
    <3>1. CASE TooLate(n % W)
      BY <1>1, <2>1, <3>1, Classify DEF TooLate
    <3>2. CASE ~TooLate(n % W) /\ ~NoSpace(n % W) /\ Present(n % W)
      <4>1. filled[i]
        BY <1>1, <3>2 DEF Present
      <4>2. ~is_empty
        BY <1>1, <2>1, <4>1 DEF IInv, HeldInWindow
      <4>3. n >= base /\ n < base + L
        BY <1>1, <2>1, <3>2, <4>2, Classify, Constants DEF IInv, TypeOK
      <4>4. payload[i] = n
        BY <1>1, <2>1, <4>1, <4>2, <4>3, PresentIsHeld
      <4>5. payload' = payload
        BY <1>1, <2>3 DEF Discard, slots
      <4> QED BY <1>1, <2>1, <4>4, <4>5
    <3> QED BY <1>1, <2>3, <3>1, <3>2 DEF Discard
  <2> QED BY <1>1, <2>2, <2>3 DEF Enqueue
<1>2. IInv => [\A n \in InFlight : Enqueue(n) =>
                 n \in {payload'[i] : i \in Slot} \/ (~is_empty /\ n < base)]_vars
  BY <1>1
<1> QED BY SpecInv, <1>2, PTL DEF NoUsefulFrameDropped

(* What each step does to the set of frames the ring holds. *)
LEMMA StoreHeld ==
  ASSUME IInv, NEW n \in InFlight, Insert(n) \/ FlushAndInsert(n)
  PROVE  /\ Held' = IF Insert(n) THEN Held \union {n} ELSE {n}
         /\ Insert(n) => n \notin Held
         /\ is_empty => Held = {}
<1> DEFINE i == Index(n % W)
<1>1. n \in Nat /\ i \in Slot /\ n # NoFrame
  BY FrameAssumption, SlotOfFrame DEF InFlight, IInv, TypeOK, NoFrame
<1>2. CASE Insert(n)
  <2>1. filled' = [filled EXCEPT ![i] = TRUE] /\ payload' = [payload EXCEPT ![i] = n]
    BY <1>2 DEF Insert
  <2>2. ~filled[i]
    <3>1. CASE is_empty
      BY <1>1, <3>1 DEF IInv, HeldInWindow
    <3>2. CASE ~is_empty
      <4>1. n >= base /\ n < base + L /\ n \in Int
        BY <1>1, <1>2, <3>2, Classify, Constants DEF Insert, IInv, TypeOK
      <4> QED BY <1>2, <3>2, <4>1, PresentIsHeld DEF Insert
    <3> QED BY <3>1, <3>2
  <2>3. n \notin Held
    <3> SUFFICES ASSUME NEW j \in Slot, filled[j], payload[j] = n PROVE FALSE
      BY DEF Held
    <3>1. j = i
      BY DEF IInv, HeldInWindow
    <3> QED BY <2>2, <3>1
  <2> HIDE DEF i
  <2>4. Held' = Held \union {n}
    <3>1. \A j \in Slot : j # i => filled'[j] = filled[j] /\ payload'[j] = payload[j]
      BY <1>1, <2>1 DEF IInv, TypeOK
    <3>2. filled'[i] /\ payload'[i] = n
      BY <1>1, <2>1 DEF IInv, TypeOK
    <3>3. \A x \in Held' : x \in Held \union {n}
      BY <3>1, <3>2 DEF Held
    <3>4. \A x \in Held \union {n} : x \in Held'
      BY <1>1, <2>2, <3>1, <3>2 DEF Held
    <3> QED BY <3>3, <3>4
  <2> QED BY <1>2, <2>3, <2>4 DEF IInv, HeldInWindow, Held
<1>3. CASE FlushAndInsert(n)
  <2>1. filled' = [j \in Slot |-> j = i]
        /\ payload' = [j \in Slot |-> IF j = i THEN n ELSE NoFrame]
    BY <1>3 DEF FlushAndInsert
  <2>2. ~Insert(n)
    BY <1>3 DEF Insert, FlushAndInsert
  <2> HIDE DEF i
  <2>3. Held' = {n}
    BY <1>1, <2>1 DEF Held
  <2> QED BY <2>2, <2>3 DEF IInv, HeldInWindow, Held
<1> QED BY <1>2, <1>3

LEMMA TakeHeld ==
  ASSUME IInv, TakeFrame
  PROVE  base \in Held /\ Held' = Held \ {base} /\ out' = base
<1>1. /\ Advance /\ filled[First] /\ out' = payload[First]
      /\ filled' = [filled EXCEPT ![First] = FALSE]
      /\ payload' = [payload EXCEPT ![First] = NoFrame]
  BY DEF TakeFrame
<1>2. First \in Slot /\ payload[First] = base
  BY <1>1, AdvanceFacts
<1>3. \A j \in Slot : j # First => filled'[j] = filled[j] /\ payload'[j] = payload[j]
  BY <1>1, <1>2 DEF IInv, TypeOK
<1>4. ~filled'[First]
  BY <1>1, <1>2 DEF IInv, TypeOK
<1>5. \A j \in Slot : filled[j] /\ j # First => payload[j] # base
  BY <1>1, AdvanceFacts, RestIsAhead
<1>6. \A x \in Held' : x \in Held \ {base}
  BY <1>2, <1>3, <1>4, <1>5 DEF Held
<1>7. \A x \in Held \ {base} : x \in Held'
  BY <1>2, <1>3 DEF Held
<1>8. base \in Held
  BY <1>1, <1>2 DEF Held
<1> QED BY <1>1, <1>2, <1>6, <1>7, <1>8

LEMMA SkipHeld ==
  ASSUME IInv, NEW nr \in BOOLEAN, SkipFrame(nr)
  PROVE  base \notin Held /\ Held # {} /\ Held' = Held
<1>1. Advance /\ ~filled[First] /\ UNCHANGED <<filled, payload>>
  BY DEF SkipFrame
<1>2. Held' = Held
  BY <1>1 DEF Held
<1>3. base \notin Held
  <2> SUFFICES ASSUME NEW j \in Slot, filled[j], payload[j] = base PROVE FALSE
    BY DEF Held
  <2>1. j = First
    BY <1>1, AdvanceFacts DEF IInv, HeldInWindow
  <2> QED BY <1>1, <2>1
<1>4. Held # {}
  <2>1. /\ filled[Index(last_seqnum)] /\ last_seqnum = top % W /\ top \in Int
    BY <1>1, AdvanceFacts DEF IInv, WindowOK
  <2>2. Index(last_seqnum) \in Slot
    BY <2>1, SlotOfFrame
  <2> QED BY <2>1, <2>2 DEF Held
<1> QED BY <1>2, <1>3, <1>4

(* The ring of slots under wrapping sequence numbers does what the abstract *)
(* window of frames promises: every call of raop_buffer.c is one step of    *)
(* the window or leaves it as it was.                                       *)
THEOREM Refinement == Spec => ImplementsWindow
<1>1. Init => Window!Init
  BY DEF Init, Window!Init, Held, NoFrame, Window!NoFrame
<1>2. ASSUME IInv, [Next]_vars PROVE [Window!Next]_(Window!pvars)
  <2>1. ASSUME NEW n \in InFlight, Enqueue(n) PROVE [Window!Next]_(Window!pvars)
    <3>1. UNCHANGED <<sent, out>> /\ n \in Origin .. sent - 1
      BY <2>1 DEF Enqueue, InFlight
    <3>2. CASE Discard(n)
      BY <3>1, <3>2 DEF Discard, slots, window, Window!pvars, Held
    <3>3. CASE Insert(n) \/ FlushAndInsert(n)
      <4>1. Window!Open(n) \/ Window!Join(n) \/ Window!Replace(n)
        <5>1. CASE is_empty
          <6>1. is_empty' = FALSE /\ base' = n
            BY <3>3, <5>1 DEF Insert, FlushAndInsert
          <6>2. Held' = {n}
            BY <1>2, <3>3, <5>1, StoreHeld
          <6> QED BY <5>1, <6>1, <6>2 DEF Window!Open
        <5>2. CASE ~is_empty /\ Insert(n)
          <6>1. is_empty' = FALSE /\ base' = base
            BY <5>2 DEF Insert
          <6>2. n \notin Held /\ Held' = Held \union {n}
            BY <1>2, <5>2, StoreHeld
          <6>3. n \in base .. base + L - 1
            BY <1>2, <5>2, Classify, Constants DEF Insert, IInv, TypeOK
          <6> QED BY <5>2, <6>1, <6>2, <6>3 DEF Window!Join
        <5>3. CASE ~is_empty /\ FlushAndInsert(n)
          <6>1. is_empty' = FALSE /\ base' = n
            BY <5>3 DEF FlushAndInsert
          <6>2. Held' = {n}
            <7>1. ~Insert(n)
              BY <5>3 DEF Insert, FlushAndInsert
            <7> QED BY <1>2, <5>3, <7>1, StoreHeld
          <6>3. n >= base + L
            BY <1>2, <5>3, Classify, Constants DEF FlushAndInsert, IInv, TypeOK
          <6> QED BY <5>3, <6>1, <6>2, <6>3 DEF Window!Replace
        <5> QED BY <3>3, <5>1, <5>2, <5>3
      <4> QED BY <3>1, <4>1 DEF Window!Arrive, Window!Next
    <3> QED BY <2>1, <3>2, <3>3 DEF Enqueue
  <2>2. ASSUME NEW nr \in BOOLEAN, Dequeue(nr) PROVE Window!Next
    <3>1. CASE TakeFrame
      <4>1. Advance /\ sent' = sent
        BY <3>1 DEF TakeFrame, Advance
      <4> QED BY <1>2, <3>1, <4>1, AdvanceFacts, TakeHeld DEF Window!Deliver, Window!Next
    <3>2. CASE SkipFrame(nr)
      <4>1. Advance /\ UNCHANGED <<sent, out>>
        BY <3>2 DEF SkipFrame, Advance
      <4> QED BY <1>2, <3>2, <4>1, AdvanceFacts, SkipHeld DEF Window!Skip, Window!Next
    <3> QED BY <2>2, <3>1, <3>2 DEF Dequeue
  <2>3. ASSUME Send PROVE Window!Next
    BY <2>3 DEF Send, slots, window, Held, Window!Send, Window!Next
  <2>4. ASSUME HandleResends \/ UNCHANGED vars PROVE UNCHANGED Window!pvars
    BY <2>4 DEF HandleResends, vars, slots, window, Held, Window!pvars
  <2>5. ASSUME FlushAll PROVE Window!Next
    BY <2>5 DEF FlushAll, Held, Window!Clear, Window!Next, NoFrame, Window!NoFrame
  <2> QED BY <1>2, <2>1, <2>2, <2>3, <2>4, <2>5 DEF Next
<1> QED BY SpecInv, <1>1, <1>2, PTL DEF Spec, ImplementsWindow, Window!Spec

(* No payload is overwritten while its slot still owns it: enqueue stores *)
(* into free slots only, after a flush when the window has moved on.      *)
THEOREM NoLeak == Spec => NoPayloadLost
<1> DEFINE Kept(i) == payload[i] # NoFrame =>
                        payload'[i] \in {payload[i], NoFrame}
                          \/ (payload'[i] = base' /\ base' = top' /\ base' >= base + L)
<1>1. ASSUME IInv, [Next]_vars, NEW i \in Slot PROVE Kept(i)
  <2>1. ASSUME NEW n \in InFlight, Enqueue(n) PROVE Kept(i)
    <3>1. n \in Int /\ Index(n % W) \in Slot
      BY <1>1, FrameAssumption, SlotOfFrame DEF InFlight, IInv, TypeOK
    <3>2. CASE Discard(n)
      BY <3>2 DEF Discard, slots
    <3>3. CASE Insert(n)
      <4>1. ~filled[Index(n % W)]
        <5>1. CASE is_empty
          BY <1>1, <3>1, <5>1 DEF IInv, HeldInWindow
        <5>2. CASE ~is_empty
          <6>1. n >= base /\ n < base + L
            BY <1>1, <2>1, <3>3, <5>2, Classify, Constants DEF Insert, IInv, TypeOK
          <6> QED BY <1>1, <3>1, <3>3, <5>2, <6>1, PresentIsHeld DEF Insert
        <5> QED BY <5>1, <5>2
      <4>2. payload[Index(n % W)] = NoFrame
        BY <1>1, <3>1, <4>1 DEF IInv, HeldInWindow
      <4>3. payload' = [payload EXCEPT ![Index(n % W)] = n]
        BY <3>3 DEF Insert
      <4> QED BY <1>1, <3>1, <4>2, <4>3 DEF IInv, TypeOK
    <3>4. CASE FlushAndInsert(n)
      <4>1. /\ payload'[i] \in {n, NoFrame} /\ base' = n /\ top' = n
        BY <1>1, <3>4 DEF FlushAndInsert
      <4>2. CASE is_empty
        BY <1>1, <4>2 DEF IInv, HeldInWindow
      <4>3. CASE ~is_empty
        <5>1. n >= base + L
          BY <1>1, <2>1, <3>4, <4>3, Classify, Constants DEF FlushAndInsert, IInv, TypeOK
        <5> QED BY <4>1, <5>1
      <4> QED BY <4>2, <4>3
    <3> QED BY <2>1, <3>2, <3>3, <3>4 DEF Enqueue
  <2>2. ASSUME NEW nr \in BOOLEAN, Dequeue(nr) PROVE Kept(i)
    <3>1. CASE TakeFrame
      BY <1>1, <3>1 DEF TakeFrame, IInv, TypeOK
    <3>2. CASE SkipFrame(nr)
      BY <3>2 DEF SkipFrame
    <3> QED BY <2>2, <3>1, <3>2 DEF Dequeue
  <2>3. CASE Send \/ HandleResends \/ FlushAll \/ UNCHANGED vars
    BY <1>1, <2>3 DEF Send, HandleResends, FlushAll, vars, slots
  <2> QED BY <1>1, <2>1, <2>2, <2>3 DEF Next
<1>2. IInv /\ [Next]_vars => [\A i \in Slot : Kept(i)]_vars
  BY <1>1
<1> QED BY SpecInv, <1>2, PTL DEF Spec, NoPayloadLost

(* An enqueue loses neither a frame that the ring owns nor the useful one *)
(* that arrives (raop_buffer_enqueue).                                    *)
THEOREM EnqueueKeepsFrames == Spec => EnqueueIsRight
BY NoneDropped, NoLeak DEF EnqueueIsRight

(* What a resend request names is missing, and older than the newest frame *)
(* the ring holds (raop_buffer_handle_resends).                            *)
LEMMA RequestIsMissing ==
  ASSUME IInv, HandleResends, NEW q \in requested'
  PROVE  /\ \A i \in Slot : filled[i] => seqnum[i] # q
         /\ is_empty \/ \E i \in Slot : filled[i] /\ SeqnumCmp(q, seqnum[i]) < 0
<1>1. PICK k \in Missing : q = (first_seqnum + k) % W
  BY DEF HandleResends
<1>2. k \in Slot /\ k \in 0 .. k /\ k \in Nat
  BY <1>1, Constants DEF Missing, Slot
<1>3. SeqnumCmp(q, last_seqnum) < 0 /\ ~filled[Index(q)]
  BY <1>1, <1>2 DEF Missing
<1>4. \A i \in Slot : filled[i] => seqnum[i] # q
  BY <1>3 DEF IInv, HeldInWindow
<1>5. ASSUME ~is_empty PROVE \E i \in Slot : filled[i] /\ SeqnumCmp(q, seqnum[i]) < 0
  <2>1. /\ base \in Nat /\ top \in Int
        /\ first_seqnum = base % W /\ last_seqnum = top % W
        /\ base - 1 <= top /\ top < base + L
    BY <1>5 DEF IInv, TypeOK, WindowOK
  <2>2. base \in Int /\ -H <= base - top /\ base - top < H
    BY <2>1, Constants
  <2>3. SeqnumCmp(base % W, top % W) = base - top
    BY <2>1, <2>2, CmpFrames
  <2>4. base <= top
    BY <2>1, <2>3 DEF HandleResends, AnyMissing
  <2>5. filled[Index(last_seqnum)] /\ payload[Index(last_seqnum)] = top
    BY <1>5, <2>4 DEF IInv, WindowOK
  <2>6. Index(last_seqnum) \in Slot
    BY <2>1, SlotOfFrame
  <2>7. seqnum[Index(last_seqnum)] = last_seqnum
    BY <2>1, <2>5, <2>6 DEF IInv, HeldInWindow
  <2> QED BY <1>3, <2>5, <2>6, <2>7
<1> QED BY <1>4, <1>5

(* A resend request names missing frames only, each older than a frame that *)
(* has arrived: handle_resends is the one step that asks for anything, and  *)
(* the run of empty slots it names ends below last_seqnum.                  *)
THEOREM RequestsMissing == Spec => RequestsAreMissing
<1> DEFINE Right(q) == /\ \A i \in Slot : filled[i] => seqnum[i] # q
                       /\ is_empty \/ \E i \in Slot : filled[i] /\ SeqnumCmp(q, seqnum[i]) < 0
<1>1. ASSUME IInv, Next, NEW q \in requested' PROVE Right(q)
  <2>1. CASE HandleResends
    BY <1>1, <2>1, RequestIsMissing
  <2>2. CASE requested' = {}
    BY <1>1, <2>2
  <2>3. CASE Send \/ FlushAll
    BY <2>2, <2>3 DEF Send, FlushAll
  <2>4. CASE \E n \in InFlight : Enqueue(n)
    BY <2>2, <2>4 DEF Enqueue
  <2>5. CASE \E nr \in BOOLEAN : Dequeue(nr)
    BY <2>2, <2>5 DEF Dequeue, TakeFrame, SkipFrame, Advance
  <2> QED BY <1>1, <2>1, <2>3, <2>4, <2>5 DEF Next
<1>2. IInv /\ [Next]_vars => [\A q \in requested' : Right(q)]_vars
  BY <1>1
<1> QED BY SpecInv, <1>2, PTL DEF Spec, RequestsAreMissing

-----------------------------------------------------------------------------
(* The audio stream (AudioRtp).  Every step of its threads is a step of the *)
(* ring or leaves the ring alone, so the ring's invariant holds throughout. *)
LEMMA StepUsesRing ==
  ASSUME AudioTypeOK, [AudioNext]_audioVars
  PROVE  [Next]_vars
<1>1. CASE UNCHANGED audioVars
  BY <1>1 DEF audioVars, ringvars
<1>2. CASE ControlStep
  BY <1>2 DEF ControlStep, Post, StartAudio, Stop, Destroy, ringvars
<1>3. CASE Join
  BY <1>3 DEF Join, ringvars
<1>4. CASE Close
  BY <1>4 DEF Close, Next
<1>5. CASE ThreadStep
  <2>1. CASE TakeMail \/ DeliverMail \/ Timeout \/ SelectError \/ Sync \/ SeeStop \/ Return
    BY <2>1 DEF TakeMail, DeliverMail, Timeout, SelectError, Sync, SeeStop, Return, ringvars
  <2>2. CASE Resent \/ DataPacket
    BY <2>2 DEF Resent, DataPacket, Receive, Next, ringvars
  <2>3. CASE Play
    BY <2>3 DEF Play, Dequeue, Next
  <2>4. CASE EndOfDrain
    BY <2>4 DEF EndOfDrain, Dequeue, Next, AudioTypeOK, ringvars
  <2>5. CASE AskForResends
    BY <2>5 DEF AskForResends, Next, ringvars
  <2> QED BY <1>5, <2>1, <2>2, <2>3, <2>4, <2>5 DEF ThreadStep
<1>6. CASE ClientSends
  BY <1>6 DEF ClientSends, Next
<1> QED BY <1>1, <1>2, <1>3, <1>4, <1>5, <1>6 DEF AudioNext, FinishStop

(* How the life of the thread and of the control thread's calls hang       *)
(* together: the ring is empty when no stream is open; a stream that ended *)
(* without a stop gave up; only a thread that is told to stop, or gave up, *)
(* is past its loop.                                                       *)
LifeOK ==
  /\ running => ~joined /\ control = "idle" /\ thread \notin Over \union {"last"}
  /\ running /\ thread = "end" => gaveUp
  /\ joined => /\ is_empty /\ out = NoFrame
               /\ thread \in Over
               /\ control \in {"idle", "freed"}
  /\ control = "closing" => thread = "gone"
  /\ ~joined /\ ~running /\ control \in {"idle", "freed"} => gaveUp
  /\ control = "idle" => ~destroying

(* Every frame the ring owns, and the one given out last, was received by *)
(* the thread of the stream that was started last.                        *)
Fresh ==
  /\ \A i \in Slot : payload[i] # NoFrame => owner[i] = stream
  /\ out # NoFrame => heard = stream

AudioInv == IInv /\ AudioTypeOK /\ LifeOK /\ Fresh

LEMMA AudioInitInv == AudioInit => AudioInv
<1> SUFFICES ASSUME AudioInit PROVE AudioInv
  OBVIOUS
<1>1. IInv
  BY InitInv DEF AudioInit
<1>2. NoMail \in Mail
  BY BoundAssumption DEF NoMail, Mail
<1>3. AudioTypeOK
  <2>1. TypeOK
    BY <1>1 DEF IInv
  <2>2. stream \in 0 .. MaxStream /\ owner \in [Slot -> 0 .. MaxStream] /\ heard \in 0 .. MaxStream
    BY BoundAssumption DEF AudioInit, NoOwner
  <2>3. /\ thread \in Over /\ control = "idle" /\ ct = "ALAC"
        /\ mailbox \in Mail /\ taken \in Mail /\ applied \in Mail /\ posted \in Mail
    BY <1>2 DEF AudioInit, Over
  <2>4. /\ running \in BOOLEAN /\ joined \in BOOLEAN /\ sockets \in BOOLEAN
        /\ destroying \in BOOLEAN /\ no_resend \in BOOLEAN /\ initial_sync \in BOOLEAN
        /\ synced \in BOOLEAN /\ gaveUp \in BOOLEAN
    BY DEF AudioInit
  <2> QED BY <2>1, <2>2, <2>3, <2>4 DEF AudioTypeOK
<1>4. LifeOK /\ Fresh
  BY DEF AudioInit, Init, LifeOK, Fresh, Over, NoFrame
<1> QED BY <1>1, <1>3, <1>4 DEF AudioInv

(* Only a packet that is received, a frame that is played and a flush change *)
(* whose the frames are.                                                     *)
LEMMA OwnerTypeStep ==
  ASSUME AudioInv, [AudioNext]_audioVars
  PROVE  owner' \in [Slot -> 0 .. MaxStream] /\ heard' \in 0 .. MaxStream
<1> USE DEF AudioInv
<1>1. owner \in [Slot -> 0 .. MaxStream] /\ heard \in 0 .. MaxStream /\ stream \in 0 .. MaxStream
  BY DEF AudioTypeOK
<1>2. CASE owner' = owner /\ heard' = heard
  BY <1>1, <1>2
<1>3. CASE UNCHANGED audioVars
  BY <1>2, <1>3 DEF audioVars, ringvars
<1>4. CASE (\E k \in Kinds : Post(k)) \/ StartAudio \/ Stop \/ Destroy \/ Join
  BY <1>2, <1>4 DEF Post, StartAudio, Stop, Destroy, Join, ringvars
<1>5. CASE Close
  BY <1>1, <1>5, BoundAssumption DEF Close, NoOwner
<1>6. CASE TakeMail \/ DeliverMail \/ Timeout \/ SelectError \/ Sync \/ SeeStop \/ Return
  BY <1>2, <1>6 DEF TakeMail, DeliverMail, Timeout, SelectError, Sync, SeeStop, Return, ringvars
<1>7. ASSUME NEW n \in InFlight, Receive(n) PROVE owner' \in [Slot -> 0 .. MaxStream] /\ heard' \in 0 .. MaxStream
  BY <1>1, <1>7 DEF Receive
<1>8. CASE Resent \/ DataPacket
  BY <1>2, <1>7, <1>8 DEF Resent, DataPacket, ringvars
<1>9. CASE Play
  <2>1. First \in Slot
    BY <1>9, AdvanceFacts DEF Play, TakeFrame
  <2> QED BY <1>1, <1>9, <2>1 DEF Play
<1>10. CASE EndOfDrain \/ AskForResends \/ ClientSends
  BY <1>2, <1>10 DEF EndOfDrain, AskForResends, ClientSends, ringvars
<1> QED BY <1>3, <1>4, <1>5, <1>6, <1>8, <1>9, <1>10
        DEF AudioNext, ControlStep, FinishStop, ThreadStep

LEMMA AudioTypeStep ==
  ASSUME AudioInv, [AudioNext]_audioVars
  PROVE  AudioTypeOK'
<1>1. TypeOK' /\ owner' \in [Slot -> 0 .. MaxStream] /\ heard' \in 0 .. MaxStream
  BY StepUsesRing, StepInv, OwnerTypeStep DEF AudioInv, IInv
<1> USE <1>1 DEF AudioInv, AudioTypeOK
<1>2. CASE UNCHANGED audioVars
  BY <1>2 DEF audioVars, life, settings, clock, mail
<1>3. ASSUME NEW k \in Kinds, Post(k) PROVE AudioTypeOK'
  <2>1. posted' \in Mail /\ mailbox' \in Mail
    BY <1>3, BoundAssumption DEF Post, Mail
  <2> QED BY <1>3, <2>1 DEF Post, life, settings, clock
<1>4. CASE StartAudio
  <2>2. stream' \in 0 .. MaxStream
    BY <1>4, BoundAssumption DEF StartAudio
  <2>3. no_resend' \in BOOLEAN /\ ct' \in {"ALAC", "AAC"} /\ thread' = "top"
    BY <1>4 DEF StartAudio
  <2>4. UNCHANGED <<control, destroying, initial_sync, mail>>
    BY <1>4 DEF StartAudio
  <2>5. running' = TRUE /\ joined' = FALSE /\ sockets' = TRUE /\ synced' = FALSE /\ gaveUp' = FALSE
    BY <1>4 DEF StartAudio
  <2> QED BY <2>2, <2>3, <2>4, <2>5 DEF mail
<1>5. CASE Stop \/ Destroy \/ Join \/ Close
  BY ZenonT(60), <1>5 DEF Stop, Destroy, Join, Close, settings, clock, mail
<1>6. CASE TakeMail
  <2>1. NoMail \in Mail
    BY BoundAssumption DEF NoMail, Mail
  <2> QED BY <1>6, <2>1 DEF TakeMail, life, settings, clock
<1>7. CASE DeliverMail
  <2>1. NoMail \in Mail /\ applied' \in Mail
    BY <1>7, BoundAssumption DEF DeliverMail, NoMail, Mail
  <2> QED BY <1>7, <2>1 DEF DeliverMail, life, settings, clock
<1>a. ASSUME UNCHANGED <<life, settings, clock, mail>>, gaveUp' = gaveUp,
             thread' \in {"top", "data", "drain", "resend", "end", "last", "gone"}
      PROVE  AudioTypeOK'
  BY <1>a DEF life, settings, clock, mail, Over
<1>8. CASE Timeout \/ Resent \/ EndOfDrain \/ AskForResends \/ SeeStop
  BY <1>8, <1>a DEF Timeout, Resent, EndOfDrain, AskForResends, SeeStop
<1>9. CASE SelectError \/ Play \/ ClientSends \/ Sync \/ Return
  <2>1. CASE SelectError
    BY <2>1 DEF SelectError, life, settings, clock, mail
  <2>2. CASE Play \/ ClientSends
    BY <2>2 DEF Play, ClientSends, life, settings, clock, mail
  <2>3. CASE Sync
    BY <2>3 DEF Sync, life, settings, mail
  <2>4. CASE Return
    BY ZenonT(60), <2>4, <1>a DEF Return, life, settings, clock, mail, Over
  <2> QED BY <1>9, <2>1, <2>2, <2>3, <2>4
<1>10. CASE DataPacket
  <2>1. thread' \in {"top", "drain"} /\ UNCHANGED <<life, settings, mail, gaveUp>>
    BY <1>10 DEF DataPacket, AfterEnqueue
  <2>2. initial_sync' \in BOOLEAN /\ synced' \in BOOLEAN
    BY <1>10 DEF DataPacket, clock
  <2> QED BY <2>1, <2>2 DEF life, settings, mail
<1> QED BY <1>2, <1>3, <1>4, <1>5, <1>6, <1>7, <1>8, <1>9, <1>10
        DEF AudioNext, ControlStep, FinishStop, ThreadStep

LEMMA LifeStep ==
  ASSUME AudioInv, [AudioNext]_audioVars
  PROVE  LifeOK'
<1> USE DEF AudioInv, LifeOK, Over
<1>1. CASE UNCHANGED audioVars
  BY <1>1 DEF audioVars, ringvars, vars, window, life
<1>2. CASE \E k \in Kinds : Post(k)
  BY <1>2 DEF Post, ringvars, vars, window, life
<1>3. CASE StartAudio
  BY <1>3 DEF StartAudio
<1>4. CASE Stop \/ Destroy \/ Join
  BY <1>4 DEF Stop, Destroy, Join, ringvars, vars, window, AudioTypeOK
<1>5. CASE Close
  BY <1>5 DEF Close, FlushAll, AudioTypeOK
<1>6. CASE TakeMail \/ DeliverMail \/ Timeout \/ SelectError \/ Sync \/ SeeStop \/ Return
  BY <1>6 DEF TakeMail, DeliverMail, Timeout, SelectError, Sync, SeeStop, Return,
              ringvars, vars, window, life, AudioTypeOK
<1>7. CASE Resent \/ DataPacket \/ Play \/ EndOfDrain \/ AskForResends
  BY <1>7 DEF Resent, DataPacket, AfterEnqueue, Play, EndOfDrain, AskForResends, life
<1>8. CASE ClientSends
  BY <1>8 DEF ClientSends, Send, window, life
<1> QED BY <1>1, <1>2, <1>3, <1>4, <1>5, <1>6, <1>7, <1>8
        DEF AudioNext, ControlStep, FinishStop, ThreadStep

(* A received packet belongs to the stream; what the ring held before stays *)
(* what it was, or is gone.                                                 *)
LEMMA ReceiveFresh ==
  ASSUME AudioInv, NEW n \in InFlight, Receive(n), stream' = stream
  PROVE  Fresh'
<1>1. out' = out /\ heard' = heard
  BY DEF Receive, Enqueue
<1>2. \A i \in Slot : owner'[i] = IF payload'[i] = payload[i] THEN owner[i] ELSE stream
  BY DEF Receive
<1> QED BY <1>1, <1>2 DEF AudioInv, Fresh

LEMMA FreshStep ==
  ASSUME AudioInv, [AudioNext]_audioVars
  PROVE  Fresh'
<1> USE DEF AudioInv, Fresh
<1>1. CASE UNCHANGED ringvars /\ stream' = stream
  BY <1>1 DEF ringvars, vars, slots
<1>2. CASE StartAudio
  <2>1. \A i \in Slot : payload[i] = NoFrame
    BY <1>2 DEF StartAudio, LifeOK, IInv, HeldInWindow
  <2>2. out = NoFrame
    BY <1>2 DEF StartAudio, LifeOK
  <2> QED BY <1>2, <2>1, <2>2 DEF StartAudio, ringvars, vars, slots
<1>3. CASE Close
  BY <1>3 DEF Close, FlushAll
<1>4. CASE Resent \/ DataPacket
  <2>1. stream' = stream
    BY <1>4 DEF Resent, DataPacket, settings
  <2> QED BY <1>1, <1>4, <2>1, ReceiveFresh DEF Resent, DataPacket
<1>5. CASE Play
  <2>1. stream' = stream /\ filled[First] /\ Advance /\ out' = payload[First]
        /\ payload' = [payload EXCEPT ![First] = NoFrame]
    BY <1>5 DEF Play, TakeFrame, settings
  <2>2. First \in Slot
    BY <2>1, AdvanceFacts
  <2>3. owner' = owner /\ heard' = owner[First]
    BY <1>5 DEF Play
  <2>4. payload \in [Slot -> Nat \union {NoFrame}]
    BY DEF IInv, TypeOK
  <2>5. \A i \in Slot : payload'[i] # NoFrame => payload'[i] = payload[i]
    BY <2>1, <2>2, <2>4
  <2>6. \A i \in Slot : payload[i] # NoFrame => owner[i] = stream
    BY DEF AudioInv, Fresh
  <2> QED BY <2>1, <2>2, <2>3, <2>5, <2>6 DEF Fresh
<1>6. CASE EndOfDrain \/ AskForResends
  BY <1>1, <1>6 DEF EndOfDrain, AskForResends, SkipFrame, HandleResends, settings, slots
<1>7. CASE ClientSends
  BY <1>7 DEF ClientSends, Send, settings, slots
<1>8. CASE UNCHANGED audioVars
  BY <1>1, <1>8 DEF audioVars, settings
<1>9. CASE (\E k \in Kinds : Post(k)) \/ Stop \/ Destroy \/ Join
  BY <1>1, <1>9 DEF Post, Stop, Destroy, Join, settings
<1>10. CASE TakeMail \/ DeliverMail \/ Timeout \/ SelectError \/ Sync \/ SeeStop \/ Return
  BY <1>1, <1>10 DEF TakeMail, DeliverMail, Timeout, SelectError, Sync, SeeStop, Return, settings
<1> QED BY <1>2, <1>3, <1>4, <1>5, <1>6, <1>7, <1>8, <1>9, <1>10
        DEF AudioNext, ControlStep, FinishStop, ThreadStep

LEMMA AudioStepInv == AudioInv /\ [AudioNext]_audioVars => AudioInv'
<1> SUFFICES ASSUME AudioInv, [AudioNext]_audioVars PROVE AudioInv'
  OBVIOUS
<1>1. IInv'
  BY StepUsesRing, StepInv DEF AudioInv
<1> QED BY <1>1, AudioTypeStep, LifeStep, FreshStep DEF AudioInv

LEMMA AudioSpecInv == AudioSpec => []AudioInv
BY AudioInitInv, AudioStepInv, PTL DEF AudioSpec

(* The parts of the stream fit, for any ring, any kinds of mail and any    *)
(* number of streams: every value is one the code can hold, and destroy    *)
(* frees the object under its thread only when the thread had left its     *)
(* loop after an error of select, because only then neither stop nor       *)
(* destroy waits for it (raop_rtp_stop, raop_rtp_destroy).                 *)
THEOREM ObjectOutlivesThread == AudioSpec => []AudioFits
<1>1. AudioInv => AudioFits
  <2> SUFFICES ASSUME AudioInv, control = "freed", thread \notin Over PROVE gaveUp
    BY DEF AudioInv, AudioFits, FreedAfterThread
  <2>1. ~joined /\ ~running
    BY DEF AudioInv, LifeOK
  <2> QED BY <2>1 DEF AudioInv, LifeOK
<1> QED BY <1>1, AudioSpecInv, PTL

(* What a running stream holds and plays was received by its own thread: it *)
(* starts over an empty ring, since stop flushes it after the thread has    *)
(* left (raop_rtp_stop, raop_rtp_start_audio).                              *)
THEOREM StreamsAreSeparate == AudioSpec => []NoStaleFrames
<1>1. AudioInv => NoStaleFrames
  BY DEF AudioInv, Fresh, NoStaleFrames
<1> QED BY <1>1, AudioSpecInv, PTL
=============================================================================
