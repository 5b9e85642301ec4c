----------------------------- MODULE PartsProofs -----------------------------
(***************************************************************************)
(* Proofs about the engine's parts that share no state: the key stream of  *)
(* the pictures, the clock, the recorder and the renderers' pipelines.     *)
(***************************************************************************)
EXTENDS MirrorBuffer, Clock, Recorder, Pipelines, Modular, TLAPS

-----------------------------------------------------------------------------
(***************************************************************************)
(* MirrorBuffer, for every block size and every bound: the receiver stays  *)
(* in step with the client's keystream.  The inductive invariant is the    *)
(* conjunction of what the run checks (TypeOK; WholeBlocks and             *)
(* LeftOverIsNext: where the receiver stands between two payloads; InStep: *)
(* how the last payload was decrypted).                                    *)
(***************************************************************************)
IInv == TypeOK /\ WholeBlocks /\ LeftOverIsNext /\ InStep

-----------------------------------------------------------------------------
(* Quotient and remainder by the block size. *)
LEMMA DivMod ==
  ASSUME NEW a \in Nat, NEW m \in Nat \ {0}
  PROVE  /\ a \div m \in Nat /\ a % m \in 0 .. m - 1
         /\ a = m * (a \div m) + (a % m)
  OBVIOUS

(* Whole blocks added to whole blocks are whole blocks. *)
LEMMA AddBlocks ==
  ASSUME NEW m \in Nat \ {0}, NEW p \in Nat, NEW q \in Nat, p % m = 0
  PROVE  (p + q * m) % m = 0
<1> DEFINE k == p \div m
<1>1. p = m * k + (p % m) /\ k \in Int
  BY ModDef
<1> HIDE DEF k
<1>2. k + q \in Int /\ p + q * m \in Int /\ 0 \in 0 .. m - 1
  BY <1>1
<1>3. p + q * m = m * (k + q) + 0
  BY <1>1
<1> QED
  BY <1>2, <1>3, ModUnique

(* The whole blocks and the rest of a payload that uses up the leftover. *)
LEMMA Lengths ==
  ASSUME TypeOK, NEW n \in Nat, n >= nextDecryptCount
  PROVE  /\ RestLen(n) \in 0 .. B - 1
         /\ EncryptLen(n) \in Nat
         /\ nextDecryptCount + EncryptLen(n) + RestLen(n) = n
         /\ \E q \in Nat : EncryptLen(n) = q * B
<1> DEFINE a == n - nextDecryptCount
<1>1. a \in Nat /\ B \in Nat \ {0}
  BY BAssumption DEF TypeOK
<1>2. /\ a \div B \in Nat /\ a % B \in 0 .. B - 1
      /\ a = B * (a \div B) + (a % B)
  BY <1>1, DivMod
<1>3. EncryptLen(n) = (a \div B) * B /\ RestLen(n) = a % B
  BY DEF EncryptLen, RestLen, TypeOK
<1> HIDE DEF a
<1>4. (a \div B) * B \in Nat /\ (a \div B) * B = B * (a \div B)
  BY <1>1, <1>2
<1>5. a = n - nextDecryptCount /\ nextDecryptCount \in Nat
  BY DEF a, TypeOK
<1>6. nextDecryptCount + EncryptLen(n) + RestLen(n) = n
  BY <1>1, <1>2, <1>3, <1>4, <1>5
<1> QED
  BY <1>2, <1>3, <1>4, <1>6

(* The quotient and the rest of a payload that does not. *)
LEMMA ShortLengths ==
  ASSUME TypeOK, NEW n \in Nat, n < nextDecryptCount
  PROVE  EncryptLen(n) = 0 /\ RestLen(n) \in Int /\ RestLen(n) < 0
  BY BAssumption DEF EncryptLen, RestLen, TypeOK

-----------------------------------------------------------------------------
(* The initial states satisfy the invariant. *)
LEMMA InitIInv == Init => IInv
<1> SUFFICES ASSUME Init PROVE IInv
  OBVIOUS
<1>1. TypeOK
  <2>1. og \in [0 .. B - 1 -> Int]
    BY DEF Init, NotKey
  <2>2. nextDecryptCount \in 0 .. B - 1
    BY BAssumption DEF Init
  <2> QED
    BY <2>1, <2>2 DEF Init, TypeOK
<1>2. WholeBlocks
  BY BAssumption DEF Init, WholeBlocks
<1>3. LeftOverIsNext
  BY BAssumption DEF Init, LeftOverIsNext
<1>4. InStep
  <2>1. DOMAIN used = {}
    BY DEF Init
  <2> QED
    BY <2>1 DEF InStep
<1> QED
  BY <1>1, <1>2, <1>3, <1>4 DEF IInv

(* A fresh cipher keeps the invariant. *)
LEMMA InitAesIInv == IInv /\ InitAes => IInv'
<1> SUFFICES ASSUME IInv, InitAes PROVE IInv'
  OBVIOUS
<1>1. TypeOK'
  BY DEF IInv, InitAes, TypeOK
<1>2. WholeBlocks'
  BY BAssumption DEF InitAes, WholeBlocks
<1>3. ~Undisturbed'
  BY DEF IInv, TypeOK, InitAes, Undisturbed
<1> QED
  BY <1>1, <1>2, <1>3 DEF IInv, LeftOverIsNext, InStep

(* Decrypting keeps the types. *)
LEMMA DecryptTypeOK ==
  ASSUME TypeOK, NEW n \in Nat, Decrypt(n)
  PROVE  TypeOK'
<1>1. CASE n >= nextDecryptCount
  <2>1. RestLen(n) \in 0 .. B - 1 /\ EncryptLen(n) \in Nat
    BY <1>1, Lengths
  <2>2. nextDecryptCount' \in 0 .. B - 1
    BY <2>1, BAssumption DEF Decrypt, KeepCount
  <2>3. pos' \in Nat /\ start' \in Nat /\ total' \in Nat
    BY SMTT(30), <2>1, BAssumption DEF Decrypt, TypeOK
  <2>4. og' \in [0 .. B - 1 -> Int]
    BY <2>1 DEF Decrypt, TypeOK, NotKey
  <2>5. stream' \in {1, 2} /\ short' \in BOOLEAN
    BY DEF Decrypt, TypeOK
  <2> QED
    BY <2>2, <2>3, <2>4, <2>5 DEF TypeOK
<1>2. CASE n < nextDecryptCount
  <2>1. EncryptLen(n) = 0 /\ RestLen(n) \in Int /\ RestLen(n) < 0
    BY <1>2, ShortLengths
  <2> QED
    BY <2>1, BAssumption DEF Decrypt, TypeOK, KeepCount
<1> QED
  BY <1>1, <1>2 DEF TypeOK

(* Decrypting takes whole blocks from the cipher. *)
LEMMA DecryptWholeBlocks ==
  ASSUME TypeOK, WholeBlocks, NEW n \in Nat, Decrypt(n)
  PROVE  WholeBlocks'
<1> USE BAssumption
<1>1. CASE n >= nextDecryptCount
  <2>1. PICK q \in Nat : EncryptLen(n) = q * B
    BY <1>1, Lengths
  <2>2. pos \in Nat /\ pos % B = 0
    BY DEF TypeOK, WholeBlocks
  <2>3. (pos + q * B) % B = 0 /\ (pos + (q + 1) * B) % B = 0
    <3>1. q + 1 \in Nat
      OBVIOUS
    <3> QED
      BY <2>2, <3>1, AddBlocks
  <2>4. (q + 1) * B = q * B + B
    OBVIOUS
  <2>5. q * B \in Nat
    OBVIOUS
  <2>6. pos' = pos + q * B \/ pos' = pos + q * B + B
    BY <2>1 DEF Decrypt
  <2>7. pos + q * B + B = pos + (q + 1) * B
    BY <2>2, <2>4, <2>5
  <2> QED
    BY <2>3, <2>6, <2>7 DEF WholeBlocks
<1>2. CASE n < nextDecryptCount
  <2>1. EncryptLen(n) = 0 /\ RestLen(n) \in Int /\ RestLen(n) < 0
    BY <1>2, ShortLengths
  <2> QED
    BY <2>1 DEF Decrypt, WholeBlocks, TypeOK
<1> QED
  BY <1>1, <1>2 DEF TypeOK

(* A payload that uses up the leftover is decrypted in step, and leaves the *)
(* receiver ahead by what it keeps.                                         *)
LEMMA DecryptInStep ==
  ASSUME TypeOK, LeftOverIsNext, NEW n \in Nat, Decrypt(n), Undisturbed'
  PROVE  /\ \A i \in DOMAIN used' : used'[i] = start' + i
         /\ pos' = total' + nextDecryptCount'
         /\ \A j \in B - nextDecryptCount' .. B - 1 : og'[j] = pos' - B + j
<1> USE BAssumption
<1>1. n >= nextDecryptCount /\ Undisturbed
  <2>1. stream = 1 /\ ~short /\ ~(n < nextDecryptCount)
    BY DEF Decrypt, Undisturbed
  <2> QED
    BY <2>1 DEF Undisturbed, TypeOK
<1>2. /\ RestLen(n) \in 0 .. B - 1 /\ EncryptLen(n) \in Nat
      /\ nextDecryptCount + EncryptLen(n) + RestLen(n) = n
  BY <1>1, Lengths
<1>3. /\ pos = total + nextDecryptCount
      /\ \A j \in B - nextDecryptCount .. B - 1 : og[j] = pos - B + j
  BY <1>1 DEF LeftOverIsNext
<1>4. ASSUME NEW i \in DOMAIN used'
      PROVE  used'[i] = start' + i
  <2>1. i \in 0 .. n - 1 /\ used'[i] = KeyOf(n)[i] /\ start' = total
    BY <1>4 DEF Decrypt, KeyOf
  <2>2. CASE i < nextDecryptCount
    <3>1. used'[i] = og[(B - nextDecryptCount) + i]
      BY <2>1, <2>2 DEF KeyOf, LeftOver
    <3>2. (B - nextDecryptCount) + i \in B - nextDecryptCount .. B - 1
      BY <2>1, <2>2 DEF TypeOK
    <3>3. og[(B - nextDecryptCount) + i] = pos - B + ((B - nextDecryptCount) + i)
      BY <1>3, <3>2
    <3> QED
      BY <1>3, <2>1, <3>1, <3>3 DEF TypeOK
  <2>3. CASE ~(i < nextDecryptCount)
    <3>1. used'[i] = pos + (i - nextDecryptCount)
      BY <2>1, <2>3 DEF KeyOf
    <3> QED
      BY <1>3, <2>1, <3>1 DEF TypeOK
  <2> QED
    BY <2>2, <2>3
<1>5. CASE RestLen(n) > 0
  <2>1. /\ nextDecryptCount' = B - RestLen(n)
        /\ pos' = pos + EncryptLen(n) + B
        /\ total' = total + n
    BY <1>5 DEF Decrypt, KeepCount
  <2> DEFINE r == RestLen(n)
             e == EncryptLen(n)
  <2>4. /\ r \in Int /\ e \in Int /\ B \in Int /\ total \in Int /\ pos \in Int
        /\ nextDecryptCount \in Int
        /\ nextDecryptCount + e + r = n
        /\ nextDecryptCount' = B - r /\ pos' = pos + e + B
    BY <1>2, <2>1 DEF TypeOK
  <2> HIDE DEF r, e
  <2>2. pos' = total' + nextDecryptCount'
    BY <1>3, <2>1, <2>4
  <2>3. ASSUME NEW j \in B - nextDecryptCount' .. B - 1
        PROVE  og'[j] = pos' - B + j
    <3>1. j \in 0 .. B - 1 /\ ~(j < RestLen(n))
      BY <1>2, <2>1, <2>3
    <3>2. og'[j] = pos + e + j
      BY <1>5, <3>1 DEF Decrypt, e
    <3> QED
      BY <2>4, <3>1, <3>2
  <2> QED
    BY <1>4, <2>2, <2>3
<1>6. CASE RestLen(n) = 0
  <2>1. nextDecryptCount' = 0 /\ pos' = pos + EncryptLen(n) /\ total' = total + n
    BY <1>6 DEF Decrypt, KeepCount
  <2>2. pos' = total' + nextDecryptCount'
    BY <1>2, <1>3, <1>6, <2>1 DEF TypeOK
  <2>3. B - nextDecryptCount' .. B - 1 = {}
    BY <2>1
  <2> QED
    BY <1>4, <2>2, <2>3
<1> QED
  BY <1>2, <1>5, <1>6

(* Decrypting keeps the invariant. *)
LEMMA DecryptIInv ==
  ASSUME IInv, NEW n \in Nat, Decrypt(n)
  PROVE  IInv'
<1>1. TypeOK'
  BY DecryptTypeOK DEF IInv
<1>2. WholeBlocks'
  BY DecryptWholeBlocks DEF IInv
<1>3. LeftOverIsNext' /\ InStep'
  <2>1. CASE Undisturbed'
    BY <2>1, DecryptInStep DEF IInv, LeftOverIsNext, InStep
  <2>2. CASE ~Undisturbed'
    BY <2>2 DEF LeftOverIsNext, InStep
  <2> QED
    BY <2>1, <2>2
<1> QED
  BY <1>1, <1>2, <1>3 DEF IInv

(* A step that changes nothing keeps the invariant. *)
LEMMA StutterIInv == IInv /\ UNCHANGED vars => IInv'
  BY DEF IInv, vars, TypeOK, WholeBlocks, LeftOverIsNext, InStep, Undisturbed

-----------------------------------------------------------------------------
(* mirror_buffer keeps its place in the client's keystream: types, whole   *)
(* blocks, and the leftover being what comes next, for every block size.   *)
THEOREM Invariance == Spec => [](TypeOK /\ WholeBlocks /\ LeftOverIsNext)
<1>1. IInv /\ [Next]_vars => IInv'
  BY InitAesIInv, DecryptIInv, StutterIInv, BoundAssumption DEF Next
<1>2. IInv => TypeOK /\ WholeBlocks /\ LeftOverIsNext
  BY DEF IInv
<1> QED
  BY InitIInv, <1>1, <1>2, PTL DEF Spec

(* Every byte of every payload of mirror_buffer_decrypt meets the keystream *)
(* byte it was encrypted with.                                              *)
THEOREM StaysInStep == Spec => []InStep
<1>1. IInv /\ [Next]_vars => IInv'
  BY InitAesIInv, DecryptIInv, StutterIInv, BoundAssumption DEF Next
<1>2. IInv => InStep
  BY DEF IInv
<1> QED
  BY InitIInv, <1>1, <1>2, PTL DEF Spec

-----------------------------------------------------------------------------
(***************************************************************************)
(* Clock, for every number of samples, timeout, pause and lifetime, and    *)
(* however the clock is set.  What is inductive: a packet that was not on  *)
(* its way while the clock was set tells the truth about both clocks       *)
(* (PacketsTrue), so a clean sample is as good as its delay is short       *)
(* (SamplesTrue), and the thread has only so long to wait before it looks  *)
(* at running again (WaitIsBounded).                                       *)
(***************************************************************************)
Packet == [t0 : Int, t1 : Int, clean : BOOLEAN]

ClockTypes ==
  /\ ClockTypeOK
  /\ network \subseteq Packet /\ socket \subseteq Packet /\ answer \in Packet

(* The client wrote its time between our sending of the request and now.   *)
Honest(p) ==
  p.clean => /\ p.t0 <= now
             /\ p.t1 # 0 => p.t0 + skew <= p.t1 /\ p.t1 <= now + skew
InTime(p) == p.clean => now - p.t0 <= Lifetime

PacketsTrue ==
  /\ \A p \in network : Honest(p) /\ InTime(p) /\ (~wasSet => p.clean)
  /\ \A p \in socket : /\ Honest(p) /\ p.t1 # 0 /\ (~wasSet => p.clean)
                       /\ phase = "receive" => InTime(p)
  /\ ~wasSet => answer.clean
  /\ phase \in {"take", "store"} => Honest(answer) /\ InTime(answer) /\ answer.t1 # 0

Close(s) == 2 * Abs(s.offset - skew) <= s.delay + 1
Untouched(s) == s.delay = Far /\ s.offset = 0
SampleTrue(s) ==
  /\ s.clean => Untouched(s) \/ Close(s)
  /\ ~wasSet => s.clean /\ (Untouched(s) \/ s.delay <= Lifetime)

OffsetIsBest ==
  (\E i \in Index : data[i].delay < Far) =>
     \E i \in Index : /\ offset = data[i].offset
                      /\ \A j \in Index : data[i].delay <= data[j].delay

SamplesTrue ==
  /\ \A i \in Index : SampleTrue(data[i])
  /\ OffsetIsBest
  /\ ~wasSet => offset = 0 \/ 2 * Abs(offset - skew) <= Lifetime + 1

FrameTrue ==
  /\ frame # None => ~wasSet /\ frame <= now + skew /\ now + skew - frame <= Latency
  /\ fixed # 0 /\ ~wasSet =>
       \/ Abs(fixed + skew) <= Latency
       \/ 2 * Abs(fixed + skew) <= Lifetime + 1

(* How long the thread waits at most before it sees that it has to end.    *)
Remaining ==
  IF phase = "receive" THEN timer + Pause
  ELSE IF phase \in {"take", "store"} THEN Pause
  ELSE timer

WaitIsBounded ==
  /\ phase \notin {"receive", "pause"} => timer = 0
  /\ alive => stop = "no"
  /\ stop = "idle" => phase = "over"
  /\ stop \in {"idle", "no"} => waited = 0
  /\ \/ waited + Remaining <= Timeout + Pause
     \/ wasSet /\ \E step \in Steps : waited + Remaining <= Timeout + Pause - step

CInv == ClockTypes /\ PacketsTrue /\ SamplesTrue /\ FrameTrue /\ WaitIsBounded

LEMMA ClockConstants ==
  /\ Samples \in Nat \ {0} /\ Timeout \in Nat /\ Pause \in Nat /\ Latency \in Nat
  /\ Lifetime \in Nat /\ Skew \in Int /\ Steps \subseteq Int
  /\ Start \in Nat /\ End \in Nat /\ Far \in Nat
BY ClockAssumption DEF Far

LEMMA ClockInitInv == ClockInit => CInv
<1> SUFFICES ASSUME ClockInit PROVE CInv
  OBVIOUS
<1> USE ClockConstants DEF ClockInit
<1>1. 0 \in Index
  BY DEF Index
<1>2. NoAnswer \in Packet
  BY DEF NoAnswer, Packet
<1>3. data \in [Index -> [offset : Int, delay : Int, clean : BOOLEAN]]
  OBVIOUS
<1>4. ClockTypes
  <2>1. alive = FALSE /\ heard = FALSE /\ wasSet = FALSE
    OBVIOUS
  <2>3. now \in Int /\ skew \in Int /\ frame \in Int /\ fixed \in Int /\ offset \in Int
        /\ timer \in Nat /\ waited \in Nat
    BY DEF None
  <2>4. at \in Index
    BY <1>1
  <2>2. ClockTypeOK
    BY <1>3, <2>1, <2>3, <2>4 DEF ClockTypeOK
  <2> QED BY <1>2, <2>2 DEF ClockTypes
<1>5. PacketsTrue
  BY DEF PacketsTrue, NoAnswer
<1>6. SamplesTrue
  <2>1. \A i \in Index : data[i].offset = 0 /\ data[i].delay = Far /\ data[i].clean
    OBVIOUS
  <2>2. OffsetIsBest
    BY <2>1 DEF OffsetIsBest
  <2> QED BY <2>1, <2>2 DEF SamplesTrue, SampleTrue, Untouched
<1>7. FrameTrue
  BY DEF FrameTrue, None
<1>8. WaitIsBounded
  BY DEF WaitIsBounded, Remaining
<1> QED BY <1>4, <1>5, <1>6, <1>7, <1>8 DEF CInv

(* The half of n is n / 2 but for one. *)
LEMMA HalfIsClose ==
  ASSUME NEW n \in Int
  PROVE  Half(n) \in Int /\ 2 * Half(n) - n \in {-1, 0, 1}
BY DEF Half

(* An honest answer makes a sample whose error is at most half its delay.  *)
LEMMA AnswerIsClose ==
  ASSUME CInv, phase = "store"
  PROVE  /\ Sample(answer, now) \in [offset : Int, delay : Int, clean : BOOLEAN]
         /\ SampleTrue(Sample(answer, now))
<1> DEFINE s == Sample(answer, now)
           n == (answer.t1 - answer.t0) + (answer.t1 - now)
<1>1. /\ answer.t0 \in Int /\ answer.t1 \in Int /\ answer.clean \in BOOLEAN
      /\ now \in Int /\ skew \in Int
  BY DEF CInv, ClockTypes, ClockTypeOK, Packet
<1>2. s = [offset |-> Half(n), delay |-> now - answer.t0, clean |-> answer.clean]
  BY DEF Sample
<1>3. n \in Int /\ Half(n) \in Int /\ 2 * Half(n) - n \in {-1, 0, 1}
  BY <1>1, HalfIsClose
<1>4. s \in [offset : Int, delay : Int, clean : BOOLEAN]
  BY <1>1, <1>2, <1>3
<1>5. s.clean => Close(s)
  <2> SUFFICES ASSUME answer.clean PROVE 2 * Abs(Half(n) - skew) <= (now - answer.t0) + 1
    BY <1>2 DEF Close
  <2>1. answer.t0 <= now /\ answer.t0 + skew <= answer.t1 /\ answer.t1 <= now + skew
    BY DEF CInv, PacketsTrue, Honest
  <2>2. n - 2 * skew <= now - answer.t0 /\ 2 * skew - n <= now - answer.t0
    BY <1>1, <2>1
  <2> HIDE DEF n
  <2> QED BY <1>1, <1>3, <2>2 DEF Abs
<1>6. ~wasSet => s.clean /\ s.delay <= Lifetime
  <2> SUFFICES ASSUME ~wasSet PROVE answer.clean /\ now - answer.t0 <= Lifetime
    BY <1>2
  <2> QED BY DEF CInv, PacketsTrue, InTime
<1> QED BY <1>4, <1>5, <1>6 DEF SampleTrue

-----------------------------------------------------------------------------
LEMMA ClockTypesNext == CInv /\ [ClockNext]_clockVars => ClockTypes'
<1> SUFFICES ASSUME CInv, [ClockNext]_clockVars PROVE ClockTypes'
  OBVIOUS
<1> USE ClockConstants DEF CInv, ClockTypes, ClockTypeOK
<1>1. CASE UNCHANGED clockVars
  BY <1>1 DEF clockVars, threadVars
<1>2. CASE StartClock
  BY <1>2 DEF StartClock, InitSocket
<1>3. CASE Tick
  <2>1. now' \in Int /\ timer' \in Nat /\ waited' \in Nat /\ network' \subseteq Packet
    BY <1>3 DEF Tick
  <2> QED BY <1>3, <2>1 DEF Tick
<1>4. CASE ClockIsSet
  <2>1. PICK step \in Steps :
          /\ now' = now + step /\ skew' = skew - step
          /\ timer' = IF phase # "pause" THEN timer ELSE IF timer > step THEN timer - step ELSE 0
    BY <1>4 DEF ClockIsSet
  <2>2. now' \in Int /\ skew' \in Int /\ timer' \in Nat
    BY <2>1
  <2>3. \A p \in Packet : [p EXCEPT !.clean = FALSE] \in Packet
    BY DEF Packet
  <2>4. network' \subseteq Packet /\ socket' \subseteq Packet /\ answer' \in Packet
    BY <1>4, <2>3 DEF ClockIsSet
  <2>5. data' \in [Index -> [offset : Int, delay : Int, clean : BOOLEAN]]
    BY <1>4 DEF ClockIsSet
  <2> QED BY <1>4, <2>2, <2>4, <2>5 DEF ClockIsSet
<1>5. CASE Travel
  <2>1. \A p \in Packet : Answered(p) \in Packet
    BY DEF Packet, Answered
  <2>2. network' \subseteq Packet /\ socket' \subseteq Packet
    BY <1>5, <2>1 DEF Travel
  <2> QED BY <1>5, <2>2 DEF Travel
<1>6. CASE Request
  <2>1. [t0 |-> now, t1 |-> 0, clean |-> TRUE] \in Packet
    BY DEF Packet
  <2>2. /\ network' \subseteq Packet /\ socket' \subseteq Packet
        /\ phase' \in {"receive", "over", "pause"} /\ timer' \in Nat
    BY <1>6, <2>1 DEF Request, FlushSocket
  <2> QED BY <1>6, <2>2 DEF Request, others
<1>7. CASE Receive
  BY <1>7 DEF Receive, WaitTime, others
<1>8. CASE Take \/ Wake
  BY <1>8 DEF Take, Wake, others
<1>9. CASE Store
  <2>1. at' \in Index
    <3>1. at + 1 \in Int
      BY DEF Index
    <3> QED BY <1>9, <3>1, ModDef DEF Store, Index
  <2>2. data' = [data EXCEPT ![at'] = Sample(answer, now)]
    BY <1>9 DEF Store
  <2>3. data' \in [Index -> [offset : Int, delay : Int, clean : BOOLEAN]]
    BY <1>9, <2>1, <2>2, AnswerIsClose DEF Store
  <2>4. offset' \in Int
    BY <1>9, <2>3 DEF Store, Best
  <2>5. answer' \in Packet
    BY <1>9 DEF Store, NoAnswer, Packet
  <2> QED BY <1>9, <2>1, <2>3, <2>4, <2>5 DEF Store, WaitTime, others
<1>10. CASE StopClock
  <2>1. /\ alive' \in BOOLEAN /\ timer' \in Nat
        /\ stop' \in {"signal", "join", "done"} /\ phase' \in {phase, "test"}
    <3>1. alive' \in BOOLEAN
      BY <1>10 DEF StopClock
    <3>2. timer' \in Nat
      BY <1>10 DEF StopClock
    <3>3. stop' \in {"signal", "join", "done"} /\ phase' \in {phase, "test"}
      BY <1>10 DEF StopClock
    <3> QED BY <3>1, <3>2, <3>3
  <2> QED BY <1>10, <2>1 DEF StopClock
<1>11. CASE FrameLeaves \/ Play \/ Forget
  <2>1. frame' \in Int
    BY <1>11 DEF FrameLeaves, Play, Forget, None
  <2>2. fixed' \in Int
    BY <1>11 DEF FrameLeaves, Play, Forget, ConvertRemoteTime
  <2> QED BY <1>11, <2>1, <2>2 DEF FrameLeaves, Play, Forget, threadVars
<1> QED BY <1>1, <1>2, <1>3, <1>4, <1>5, <1>6, <1>7, <1>8, <1>9, <1>10, <1>11 DEF ClockNext

LEMMA PacketsNext == CInv /\ [ClockNext]_clockVars => PacketsTrue'
<1> SUFFICES ASSUME CInv, [ClockNext]_clockVars PROVE PacketsTrue'
  OBVIOUS
<1>t. /\ now \in Int /\ skew \in Int /\ answer \in Packet
      /\ network \subseteq Packet /\ socket \subseteq Packet
  BY DEF CInv, ClockTypes, ClockTypeOK
<1> USE ClockConstants DEF CInv, PacketsTrue
<1>1. CASE UNCHANGED <<now, skew, wasSet, phase, network, socket, answer>>
  BY <1>1 DEF Honest, InTime
<1>2. CASE StartClock
  BY <1>2 DEF StartClock, InitSocket
<1>3. CASE Tick
  <2>1. now' = now + 1 /\ UNCHANGED <<skew, wasSet, phase, socket, answer>>
        /\ (phase = "over" \/ timer > 0)
        /\ (phase = "receive" => socket = {})
        /\ network' = {packet \in network : now' - packet.t0 <= Lifetime}
    BY <1>3 DEF Tick
  <2>2. \A p \in Packet : Honest(p) => Honest(p)'
    BY <1>t, <2>1 DEF Honest, Packet
  <2>3. phase \notin {"take", "store"}
    BY <1>3, <2>1 DEF WaitIsBounded, Tick
  <2>4. \A p \in network' : Honest(p)' /\ InTime(p)' /\ (~wasSet' => p.clean)
    BY <1>t, <2>1, <2>2 DEF InTime
  <2>5. \A p \in socket' : Honest(p)' /\ p.t1 # 0 /\ (~wasSet' => p.clean)
    BY <1>t, <2>1, <2>2
  <2> QED BY <2>1, <2>3, <2>4, <2>5
<1>4. CASE ClockIsSet
  <2>1. wasSet'
    BY <1>4 DEF ClockIsSet
  <2>2. \A p \in Packet : ~[p EXCEPT !.clean = FALSE].clean /\ [p EXCEPT !.clean = FALSE].t1 = p.t1
    BY DEF Packet
  <2>3. /\ \A p \in network' : ~p.clean
        /\ \A p \in socket' : ~p.clean /\ p.t1 # 0
    <3>1. network' = {[a EXCEPT !.clean = FALSE] : a \in network}
          /\ socket' = {[a EXCEPT !.clean = FALSE] : a \in socket}
      BY <1>4 DEF ClockIsSet
    <3>2. \A p \in network' : ~p.clean
      BY <1>t, <2>2, <3>1
    <3>3. \A p \in socket' : ~p.clean /\ p.t1 # 0
      <4> SUFFICES ASSUME NEW a \in socket
                   PROVE  ~[a EXCEPT !.clean = FALSE].clean /\ [a EXCEPT !.clean = FALSE].t1 # 0
        BY <3>1
      <4>1. a \in Packet /\ a.t1 # 0
        BY <1>t
      <4> QED BY <2>2, <4>1
    <3> QED BY <3>2, <3>3
  <2>4. ~answer'.clean /\ answer'.t1 = answer.t1 /\ phase' = phase
    BY <1>t, <1>4, <2>2 DEF ClockIsSet
  <2> QED BY <2>1, <2>3, <2>4 DEF Honest, InTime
<1>5. CASE Travel
  <2>0. UNCHANGED <<now, skew, wasSet, phase, answer>>
    BY <1>5 DEF Travel
  <2>1. ASSUME NEW p \in network, p.t1 = 0, network' = (network \ {p}) \union {Answered(p)},
               socket' = socket
        PROVE  PacketsTrue'
    <3>1. Answered(p).t0 = p.t0 /\ Answered(p).clean = p.clean /\ Answered(p).t1 = now + skew
      BY <1>t DEF Answered, Packet
    <3>2. p.t0 \in Int
      BY <1>t DEF Packet
    <3>3. Honest(Answered(p)) /\ InTime(Answered(p)) /\ (~wasSet => Answered(p).clean)
      BY <1>t, <3>1, <3>2 DEF Honest, InTime
    <3> DEFINE q == Answered(p)
    <3> HIDE DEF q
    <3>4. Honest(q) /\ InTime(q) /\ (~wasSet => q.clean) /\ network' = (network \ {p}) \union {q}
      BY <2>1, <3>3 DEF q
    <3>5. \A r \in network' : Honest(r)' /\ InTime(r)' /\ (~wasSet' => r.clean)
      BY <2>0, <3>4 DEF Honest, InTime
    <3> QED BY <2>0, <2>1, <3>5 DEF Honest, InTime
  <2>2. ASSUME NEW p \in network, p.t1 # 0, network' = network \ {p}, socket' = socket \union {p}
        PROVE  PacketsTrue'
    BY <2>0, <2>2 DEF Honest, InTime
  <2> QED BY <1>5, <2>1, <2>2 DEF Travel
<1>6. CASE Request
  <2>0. UNCHANGED <<now, skew, wasSet, answer>> /\ phase' \in {"receive", "over", "pause"}
    BY <1>6 DEF Request, others
  <2>1. \A p \in network' : p \in network \/ p = [t0 |-> now, t1 |-> 0, clean |-> TRUE]
    BY <1>6 DEF Request
  <2>2. socket' = {} \/ (socket' = socket /\ phase' = "over")
    BY <1>6 DEF Request, FlushSocket
  <2>3. \A p \in network' : Honest(p) /\ InTime(p) /\ (~wasSet => p.clean)
    BY <1>t, <2>1 DEF Honest, InTime
  <2> QED BY <2>0, <2>2, <2>3 DEF Honest, InTime
<1>7. CASE Receive
  <2>0. UNCHANGED <<now, skew, wasSet, network>>
    BY <1>7 DEF Receive, others
  <2>1. ASSUME NEW a \in socket, answer' = a, socket' = socket \ {a}, phase' = "take"
        PROVE  PacketsTrue'
    BY <1>7, <2>0, <2>1 DEF Receive, Honest, InTime
  <2>2. ASSUME phase' = "pause", UNCHANGED <<answer, socket>>
        PROVE  PacketsTrue'
    BY <2>0, <2>2 DEF Honest, InTime
  <2> QED BY <1>7, <2>1, <2>2 DEF Receive
<1>8. CASE Take \/ Wake
  BY <1>8 DEF Take, Wake, others, Honest, InTime
<1>9. CASE Store
  BY <1>9 DEF Store, others, Honest, InTime, NoAnswer
<1>10. CASE StopClock
  <2>1. UNCHANGED <<now, skew, wasSet, network, socket, answer>>
        /\ (phase' = phase \/ phase' = "test")
    BY <1>10 DEF StopClock
  <2> QED BY <2>1 DEF Honest, InTime
<1>11. CASE FrameLeaves \/ Play \/ Forget
  BY <1>1, <1>11 DEF FrameLeaves, Play, Forget, threadVars
<1>12. CASE UNCHANGED clockVars
  BY <1>1, <1>12 DEF clockVars, threadVars
<1> QED BY <1>2, <1>3, <1>4, <1>5, <1>6, <1>7, <1>8, <1>9, <1>10, <1>11, <1>12 DEF ClockNext

LEMMA SamplesNext == CInv /\ [ClockNext]_clockVars => SamplesTrue'
<1> SUFFICES ASSUME CInv, [ClockNext]_clockVars PROVE SamplesTrue'
  OBVIOUS
<1> USE ClockConstants
<1>1. CASE UNCHANGED <<skew, wasSet, data, offset>>
  BY <1>1 DEF CInv, SamplesTrue, OffsetIsBest, SampleTrue, Untouched, Close
<1>2. CASE ClockIsSet
  <2>1. wasSet' /\ offset' = offset /\ data' = [i \in Index |-> [data[i] EXCEPT !.clean = FALSE]]
    BY <1>2 DEF ClockIsSet
  <2>2. \A i \in Index : data[i] \in [offset : Int, delay : Int, clean : BOOLEAN]
    BY DEF CInv, ClockTypes, ClockTypeOK
  <2>3. \A i \in Index : /\ ~data'[i].clean
                         /\ data'[i].offset = data[i].offset /\ data'[i].delay = data[i].delay
    BY <2>1, <2>2
  <2>4. OffsetIsBest'
    BY <2>1, <2>3 DEF CInv, SamplesTrue, OffsetIsBest
  <2> QED BY <2>1, <2>3, <2>4 DEF SamplesTrue, SampleTrue
<1>3. CASE Store
  <2> DEFINE s == Sample(answer, now)
  <2>1. UNCHANGED <<skew, wasSet>>
    BY <1>3 DEF Store, others
  <2>2. at' \in Index
    BY ClockTypesNext DEF ClockTypes, ClockTypeOK
  <2>3. s \in [offset : Int, delay : Int, clean : BOOLEAN] /\ SampleTrue(s)
    BY <1>3, AnswerIsClose DEF Store
  <2> HIDE DEF s
  <2>4. data' = [data EXCEPT ![at'] = s]
    BY <1>3 DEF Store, s
  <2>5. data \in [Index -> [offset : Int, delay : Int, clean : BOOLEAN]] /\ skew \in Int
    BY DEF CInv, ClockTypes, ClockTypeOK
  <2>6. \A i \in Index : data'[i] = data[i] \/ data'[i] = s
    BY <2>2, <2>4, <2>5
  <2>7. \A i \in Index : SampleTrue(data'[i])
    BY <2>3, <2>6 DEF CInv, SamplesTrue
  <2>8. \A i \in Index : SampleTrue(data[i])'
    BY <2>1, <2>7 DEF SampleTrue, Untouched, Close
  <2>9. PICK i \in Index : /\ offset' = data'[i].offset
                           /\ \A j \in Index : data'[i].delay <= data'[j].delay
    BY <1>3 DEF Store, Best
  <2>10. OffsetIsBest'
    BY <2>9 DEF OffsetIsBest
  <2>11. ASSUME ~wasSet PROVE offset' = 0 \/ 2 * Abs(offset' - skew) <= Lifetime + 1
    <3>1. data'[i].offset \in Int /\ data'[i].delay \in Int
      BY <2>3, <2>5, <2>6
    <3>2. Untouched(data'[i]) \/ (Close(data'[i]) /\ data'[i].delay <= Lifetime)
      BY <2>7, <2>11 DEF SampleTrue
    <3> QED BY <2>5, <2>9, <3>1, <3>2 DEF Untouched, Close, Abs
  <2> QED BY <2>1, <2>8, <2>10, <2>11 DEF SamplesTrue
<1> QED BY <1>1, <1>2, <1>3
        DEF ClockNext, clockVars, threadVars, StartClock, Tick, Travel, Request, Receive, Take,
            Wake, StopClock, FrameLeaves, Play, Forget, others

LEMMA FrameNext == CInv /\ [ClockNext]_clockVars => FrameTrue'
<1> SUFFICES ASSUME CInv, [ClockNext]_clockVars PROVE FrameTrue'
  OBVIOUS
<1>t. /\ now \in Int /\ skew \in Int /\ offset \in Int /\ frame \in Int /\ fixed \in Int
      /\ wasSet \in BOOLEAN
  BY DEF CInv, ClockTypes, ClockTypeOK
<1> USE ClockConstants DEF CInv, FrameTrue
<1>1. CASE UNCHANGED <<now, skew, wasSet, frame, fixed>>
  BY <1>1
<1>2. CASE Tick
  BY <1>t, <1>2 DEF Tick
<1>3. CASE ClockIsSet
  BY <1>3 DEF ClockIsSet
<1>4. CASE FrameLeaves
  BY <1>t, <1>4 DEF FrameLeaves
<1>5. CASE Play
  <2>1. frame # None /\ frame' = None /\ UNCHANGED <<now, skew, wasSet>> /\ ~wasSet
    BY <1>5 DEF Play
  <2>2. CASE fixed # 0
    BY <1>5, <2>1, <2>2 DEF Play
  <2>3. CASE fixed = 0
    <3>1. fixed' \in {now - frame, -offset} /\ (heard => offset # 0 \/ fixed' \in {0, now - frame})
          /\ (~heard => fixed' = now - frame)
      BY <1>t, <1>5, <2>3 DEF Play, ConvertRemoteTime
    <3>2. CASE fixed' = now - frame
      BY <1>t, <2>1, <3>2 DEF Abs
    <3>3. CASE fixed' = -offset
      <4>1. offset = 0 \/ 2 * Abs(offset - skew) <= Lifetime + 1
        BY <2>1 DEF SamplesTrue
      <4> QED BY <1>t, <2>1, <3>3, <4>1 DEF Abs
    <3> QED BY <3>1, <3>2, <3>3
  <2> QED BY <2>2, <2>3
<1>6. CASE Forget
  BY <1>6 DEF Forget
<1> QED BY <1>1, <1>2, <1>3, <1>4, <1>5, <1>6
        DEF ClockNext, clockVars, threadVars, StartClock, Travel, Request, Receive, Take, Store,
            Wake, StopClock, others

LEMMA WaitNext == CInv /\ [ClockNext]_clockVars => WaitIsBounded'
<1> SUFFICES ASSUME CInv, [ClockNext]_clockVars PROVE WaitIsBounded'
  OBVIOUS
<1>t. /\ timer \in Nat /\ waited \in Nat /\ alive \in BOOLEAN /\ wasSet \in BOOLEAN
  BY DEF CInv, ClockTypes, ClockTypeOK
<1> USE ClockConstants DEF CInv, WaitIsBounded
(* The bound holds on when the sum does not grow. *)
<1>m. ASSUME wasSet' = wasSet, waited' + Remaining' <= waited + Remaining,
             waited' + Remaining' \in Nat
      PROVE  \/ waited' + Remaining' <= Timeout + Pause
             \/ wasSet' /\ \E step \in Steps : waited' + Remaining' <= Timeout + Pause - step
  <2>1. waited + Remaining \in Nat
    BY <1>t DEF Remaining
  <2> QED BY <1>m, <2>1
<1>1. CASE UNCHANGED <<phase, timer, alive, stop, waited, wasSet>>
  BY <1>1 DEF Remaining
<1>2. CASE StartClock
  <2>1. waited' = 0 /\ timer' = 0 /\ phase' \in {"test", "over"} /\ stop' = "no"
    BY <1>2, <1>t DEF StartClock, ClockTypes, ClockTypeOK
  <2> QED BY <2>1 DEF Remaining
<1>3. CASE Tick
  <2>1. UNCHANGED <<phase, alive, stop, wasSet>>
        /\ (phase \notin {"receive", "pause"} => timer' = 0)
        /\ (stop \in {"idle", "no"} => waited' = 0)
    BY <1>3, <1>t DEF Tick
  <2>2. waited' + Remaining' <= waited + Remaining /\ waited' + Remaining' \in Nat
    BY <1>3, <1>t DEF Tick, Remaining
  <2> QED BY <1>m, <2>1, <2>2
<1>4. CASE ClockIsSet
  <2>1. PICK step \in Steps :
          timer' = IF phase # "pause" THEN timer ELSE IF timer > step THEN timer - step ELSE 0
    BY <1>4 DEF ClockIsSet
  <2>2. wasSet' /\ ~wasSet /\ UNCHANGED <<phase, alive, stop, waited>>
    BY <1>4 DEF ClockIsSet
  <2>3. waited + Remaining <= Timeout + Pause
    BY <2>2
  <2>4. step \in Int
    OBVIOUS
  <2>5. \/ waited' + Remaining' <= Timeout + Pause
        \/ waited' + Remaining' <= Timeout + Pause - step
    BY <1>t, <2>1, <2>2, <2>3, <2>4 DEF Remaining
  <2>6. phase' \notin {"receive", "pause"} => timer' = 0
    BY <2>1, <2>2
  <2> QED BY <2>2, <2>5, <2>6
<1>5. CASE Request
  <2>1. UNCHANGED <<alive, stop, waited, wasSet>> /\ timer = 0 /\ phase = "test"
    BY <1>5 DEF Request, others
  <2>2. CASE ~alive
    BY <1>5, <2>1, <2>2 DEF Request, Remaining
  <2>3. CASE alive
    <3>1. waited = 0
      BY <2>3
    <3> QED BY <1>5, <2>1, <2>3, <3>1 DEF Request, Remaining
  <2> QED BY <1>t, <2>2, <2>3
<1>6. CASE Receive
  <2>1. UNCHANGED <<alive, stop, waited, wasSet>>
        /\ (phase' \notin {"receive", "pause"} => timer' = 0) /\ stop # "idle"
    BY <1>6 DEF Receive, others
  <2>2. waited' + Remaining' <= waited + Remaining /\ waited' + Remaining' \in Nat
    BY <1>6, <1>t DEF Receive, Remaining, WaitTime, others
  <2> QED BY <1>m, <2>1, <2>2
<1>7. CASE Take \/ Store \/ Wake
  <2>1. UNCHANGED <<alive, stop, waited, wasSet>>
        /\ (phase' \notin {"receive", "pause"} => timer' = 0) /\ stop # "idle"
    BY <1>7 DEF Take, Store, Wake, others
  <2>2. waited' + Remaining' <= waited + Remaining /\ waited' + Remaining' \in Nat
    BY <1>7, <1>t DEF Take, Store, Wake, Remaining, WaitTime, others
  <2> QED BY <1>m, <2>1, <2>2
<1>8. CASE StopClock
  <2>1. UNCHANGED <<waited, wasSet>> /\ ~alive' /\ stop' \notin {"idle", "no"}
        /\ (phase' \notin {"receive", "pause"} => timer' = 0)
    BY <1>8 DEF StopClock
  <2>2. waited' + Remaining' <= waited + Remaining /\ waited' + Remaining' \in Nat
    BY <1>8, <1>t DEF StopClock, Remaining
  <2> QED BY <1>m, <2>1, <2>2
<1> QED BY <1>1, <1>2, <1>3, <1>4, <1>5, <1>6, <1>7, <1>8
        DEF ClockNext, clockVars, threadVars, Travel, FrameLeaves, Play, Forget

LEMMA ClockStepInv == CInv /\ [ClockNext]_clockVars => CInv'
BY ClockTypesNext, PacketsNext, SamplesNext, FrameNext, WaitNext DEF CInv

(* The offset in use is as close to the true one as the quickest exchange   *)
(* in the ring allows; the offset a session is fixed to is off by the       *)
(* latency of a frame or half the age of an answer at most; and a stop of   *)
(* the timing thread waits for one timeout and one pause at most, or longer *)
(* by as much as the clock was set back (raop_ntp_thread, raop_ntp_stop,    *)
(* audio_process).                                                          *)
THEOREM ClockKeepsTime == ClockSpec => []ClockIsTrue
<1>1. CInv => ClockIsTrue
  <2> SUFFICES ASSUME CInv PROVE ClockIsTrue
    OBVIOUS
  <2>t. /\ data \in [Index -> [offset : Int, delay : Int, clean : BOOLEAN]]
        /\ skew \in Int /\ offset \in Int /\ timer \in Nat /\ waited \in Nat
    BY DEF CInv, ClockTypes, ClockTypeOK
  <2>1. ASSUME \A i \in Index : data[i].clean, \E i \in Index : data[i].delay < Far,
               NEW k \in Index
        PROVE  2 * Abs(offset - skew) <= data[k].delay + 1
    <3>1. PICK i \in Index : /\ offset = data[i].offset
                             /\ \A j \in Index : data[i].delay <= data[j].delay
      BY <2>1 DEF CInv, SamplesTrue, OffsetIsBest
    <3>2. data[i].delay < Far
      BY <2>t, <2>1, <3>1, ClockConstants
    <3>3. Close(data[i])
      BY <2>t, <2>1, <3>2, ClockConstants DEF CInv, SamplesTrue, SampleTrue, Untouched
    <3> QED BY <2>t, <3>1, <3>3 DEF Close, Abs
  <2>2. ClockIsClose
    BY <2>1 DEF CInv, ClockTypes, FrameTrue, ClockIsClose
  <2>3. StopIsPrompt
    <3>1. Remaining \in Nat
      BY <2>t, ClockConstants DEF Remaining
    <3> QED BY <2>t, <3>1, ClockConstants DEF CInv, WaitIsBounded, StopIsPrompt
  <2> QED BY <2>2, <2>3 DEF ClockIsTrue
<1> QED BY <1>1, ClockInitInv, ClockStepInv, PTL DEF ClockSpec

-----------------------------------------------------------------------------
(***************************************************************************)
(* Recorder, for any options, times and number of files.  What is          *)
(* inductive: the codec the recorder remembers is the client's unless the  *)
(* end of a file has unset it (CodecIsKnown); a file is made for the codec *)
(* the recorder remembers and is replaced when that changes (FileIsNamed); *)
(* all stamps are taken from one time zero, which is that of the first     *)
(* picture if there was no sound before it (TracksAreTimed).               *)
(***************************************************************************)
Recordings == [exists : BOOLEAN, open : BOOLEAN, video : BOOLEAN, audio : BOOLEAN,
               alac : BOOLEAN, h265 : BOOLEAN, base : Int, firstVideo : Int,
               firstAudio : Int, started : BOOLEAN]
Clients == [alac : BOOLEAN, h265 : BOOLEAN, hears : BOOLEAN, sees : BOOLEAN]
FileTracks == [video : Int, seen : Int, audio : Int, heard : Int, silence : Int, sound : Int]

RecorderTypes ==
  /\ recording \in Recordings
  /\ audioIsAlac \in BOOLEAN /\ videoIsH265 \in BOOLEAN
  /\ closing \in {"none", "last", "engine", "audio", "video"} /\ broken \in BOOLEAN
  /\ sends \in Clients
  /\ forgotten \in [audio : BOOLEAN, video : BOOLEAN]
  /\ tracks \in FileTracks

CodecIsKnown ==
  /\ WithAudio /\ sends.hears /\ ~forgotten.audio => audioIsAlac = sends.alac
  /\ sends.sees /\ ~forgotten.video => videoIsH265 = sends.h265

FileIsNamed ==
  Writing =>
    /\ recording.exists
    /\ recording.audio => WithAudio
    /\ recording.alac = audioIsAlac
    /\ recording.h265 = videoIsH265

Ahead(t, base) == IF t > base THEN t - base ELSE 0

TracksAreTimed ==
  Writing =>
    /\ recording.base = Unset \/ recording.base \in 0 .. LastTime
    /\ tracks.video # Unset =>
         recording.base # Unset /\ tracks.video = Stamp(tracks.seen, recording.base)
    /\ tracks.audio # Unset =>
         recording.base # Unset /\ tracks.audio = Stamp(tracks.heard, recording.base)
    /\ recording.firstVideo # Unset => recording.firstVideo = recording.base
    /\ recording.started =>
         /\ recording.firstVideo # Unset /\ recording.firstAudio \in 0 .. LastTime
         /\ tracks.sound = Stamp(recording.firstAudio, recording.base)
         /\ tracks.silence = Ahead(recording.firstAudio, recording.base)
    /\ ~recording.started => tracks.silence = 0

RecInv == RecorderTypes /\ CodecIsKnown /\ FileIsNamed /\ TracksAreTimed

LEMMA WidthFacts == Width \in Nat \ {0} /\ LastTime \in Nat /\ LastTime < Width
BY RecorderAssumption

LEMMA StampFacts ==
  ASSUME NEW t \in Int, NEW b \in Int
  PROVE  Stamp(t, b) \in Nat
<1>1. t - b \in Int /\ (t - b) % Width \in 0 .. Width - 1
  BY ModDef, WidthFacts
<1> QED BY <1>1, WidthFacts DEF Stamp

LEMMA EmptyFacts ==
  Empty \in Recordings /\ ~Empty.open /\ ~Empty.exists /\ NoTracks \in FileTracks
BY DEF Empty, Recordings, Unset, NoTracks, FileTracks

(* A file that has just been made. *)
Fresh(a, h) ==
  /\ recording' \in Recordings /\ tracks' = NoTracks
  /\ recording'.exists /\ recording'.open
  /\ recording'.alac = a /\ recording'.h265 = h /\ recording'.audio = WithAudio
  /\ recording'.base = Unset /\ recording'.firstVideo = Unset /\ ~recording'.started

LEMMA StartFileFacts ==
  ASSUME NEW r \in Recordings, NEW a \in BOOLEAN, NEW h \in BOOLEAN, StartFile(r, a, h)
  PROVE  \/ r.open /\ recording' = r /\ tracks' = tracks
         \/ ~r.open /\ Fresh(a, h)
<1>1. CASE r.open
  BY <1>1 DEF StartFile
<1>2. CASE ~r.open
  <2> DEFINE v == WithVideo /\ ~a
             s == [exists |-> TRUE, open |-> TRUE, video |-> v, audio |-> WithAudio,
                   alac |-> a, h265 |-> h, base |-> Unset, firstVideo |-> Unset,
                   firstAudio |-> Unset, started |-> FALSE]
  <2>1. recording' = s /\ tracks' = NoTracks
    BY <1>2 DEF StartFile, Made, Empty
  <2>2. v \in BOOLEAN /\ WithAudio \in BOOLEAN
    BY RecorderAssumption
  <2> HIDE DEF v
  <2>3. s \in Recordings
    BY <2>2 DEF Recordings, Unset
  <2> QED BY <1>2, <2>1, <2>2, <2>3 DEF Fresh
<1> QED BY <1>1, <1>2 DEF Recordings

(* What is written to a fresh file is true of it, and nothing is written to *)
(* a file that is closed or on its way to be.                               *)
LEMMA FreshFits ==
  ASSUME Fresh(audioIsAlac', videoIsH265')
  PROVE  FileIsNamed' /\ TracksAreTimed' /\ tracks' \in FileTracks
BY EmptyFacts DEF Fresh, FileIsNamed, TracksAreTimed, Writing, NoTracks, Unset

LEMMA RecorderInitInv == RecorderInit => RecInv
<1> SUFFICES ASSUME RecorderInit PROVE RecInv
  OBVIOUS
<1>1. RecorderTypes
  <2>1. recording \in Recordings /\ tracks \in FileTracks
    BY EmptyFacts DEF RecorderInit
  <2>2. sends \in Clients /\ forgotten \in [audio : BOOLEAN, video : BOOLEAN]
    BY DEF RecorderInit, Clients
  <2> QED BY <2>1, <2>2 DEF RecorderInit, RecorderTypes
<1>2. ~Writing
  BY EmptyFacts DEF RecorderInit, Writing
<1>3. CodecIsKnown
  BY DEF RecorderInit, CodecIsKnown
<1> QED BY <1>1, <1>2, <1>3 DEF RecInv, FileIsNamed, TracksAreTimed

(* A closing that begins, or meets another. *)
LEMMA BeginCloseFits ==
  ASSUME RecInv, NEW by \in {"last", "engine", "audio", "video"}, BeginClose(by)
  PROVE  /\ closing' \in {"none", "last", "engine", "audio", "video"} /\ broken' \in BOOLEAN
         /\ UNCHANGED <<recording, tracks>>
         /\ FileIsNamed' /\ TracksAreTimed'
<1>1. /\ closing' \in {"none", "last", "engine", "audio", "video"} /\ broken' \in BOOLEAN
      /\ UNCHANGED <<recording, tracks>>
      /\ ~Writing'
  BY DEF BeginClose, RecInv, RecorderTypes, Writing
<1> QED BY <1>1 DEF FileIsNamed, TracksAreTimed

LEMMA ForgetFits ==
  ASSUME RecInv, ForgetCodecs, sends' = sends
  PROVE  /\ CodecIsKnown' /\ ~audioIsAlac' /\ ~videoIsH265'
         /\ audioIsAlac' = FALSE /\ videoIsH265' = FALSE
         /\ forgotten' \in [audio : BOOLEAN, video : BOOLEAN]
<1>1. /\ audioIsAlac' = FALSE /\ videoIsH265' = FALSE
      /\ forgotten' = [audio |-> sends.hears /\ sends.alac, video |-> sends.sees /\ sends.h265]
      /\ sends.alac \in BOOLEAN /\ sends.h265 \in BOOLEAN
  BY DEF ForgetCodecs, RecInv, RecorderTypes, Clients
<1>2. /\ forgotten' \in [audio : BOOLEAN, video : BOOLEAN]
      /\ forgotten'.audio = (sends.hears /\ sends.alac)
      /\ forgotten'.video = (sends.sees /\ sends.h265)
  BY <1>1
<1> QED BY <1>1, <1>2 DEF CodecIsKnown

LEMMA SetupAudioInv ==
  ASSUME RecInv, SetupAudio
  PROVE  RecInv'
<1>t. RecorderTypes /\ WithAudio \in BOOLEAN
  BY RecorderAssumption DEF RecInv
<1>a. PICK alac \in BOOLEAN :
        /\ sends' = [sends EXCEPT !.alac = alac, !.hears = TRUE]
        /\ IF WithAudio
           THEN ChooseAudio(alac) /\ forgotten' = [forgotten EXCEPT !.audio = FALSE]
           ELSE UNCHANGED <<recording, codecs, closing, broken, forgotten, tracks, files>>
  BY DEF SetupAudio
<1>s. /\ sends' \in Clients /\ sends'.alac = alac /\ sends'.hears
      /\ sends'.h265 = sends.h265 /\ sends'.sees = sends.sees
  BY <1>t, <1>a DEF RecorderTypes, Clients
<1>1. CASE ~WithAudio
  <2>1. UNCHANGED <<recording, audioIsAlac, videoIsH265, closing, broken, forgotten, tracks>>
    BY <1>a, <1>1 DEF codecs
  <2> QED BY <1>t, <1>s, <1>1, <2>1
          DEF RecInv, RecorderTypes, CodecIsKnown, FileIsNamed, TracksAreTimed, Writing
<1>2. CASE WithAudio
  <2>0. /\ ChooseAudio(alac) /\ forgotten' = [forgotten EXCEPT !.audio = FALSE]
        /\ audioIsAlac' = alac /\ videoIsH265' = videoIsH265
    BY <1>a, <1>2 DEF ChooseAudio
  <2>1. forgotten' \in [audio : BOOLEAN, video : BOOLEAN] /\ forgotten'.video = forgotten.video
    BY <1>t, <2>0 DEF RecorderTypes
  <2>2. CodecIsKnown'
    BY <1>s, <2>0, <2>1 DEF RecInv, CodecIsKnown
  <2>q. /\ recording' \in Recordings /\ tracks' \in FileTracks
        /\ closing' \in {"none", "last", "engine", "audio", "video"} /\ broken' \in BOOLEAN
        /\ FileIsNamed' /\ TracksAreTimed'
        => RecInv'
    BY <1>t, <1>s, <2>0, <2>1, <2>2 DEF RecInv, RecorderTypes
  <2>3. CASE AudioChanged(alac) /\ recording.open
    <3>1. BeginClose("audio")
      BY <2>0, <2>3 DEF ChooseAudio
    <3> QED BY <1>t, <3>1, <2>q, BeginCloseFits DEF RecorderTypes
  <2>4. CASE ~(AudioChanged(alac) /\ recording.open)
    <3> DEFINE left == IF AudioChanged(alac) THEN Empty ELSE recording
    <3>1. /\ IF alac THEN StartFile(left, alac, videoIsH265)
                     ELSE recording' = left /\ tracks' = tracks
          /\ closing' = closing /\ broken' = broken
      BY <2>0, <2>4 DEF ChooseAudio
    <3>2. /\ left \in Recordings
          /\ \/ ~left.open
             \/ left = recording /\ recording.open /\ ~AudioChanged(alac)
      BY <1>t, <2>4, EmptyFacts DEF RecorderTypes, Recordings
    <3> HIDE DEF left
    <3>3. CASE alac /\ ~left.open
      <4>1. Fresh(alac, videoIsH265)
        BY <1>t, <3>1, <3>2, <3>3, StartFileFacts DEF RecorderTypes
      <4>2. Fresh(audioIsAlac', videoIsH265') /\ recording' \in Recordings
        BY <4>1, <2>0 DEF Fresh
      <4> QED BY <1>t, <2>q, <3>1, <4>2, FreshFits DEF RecorderTypes
    <3>4. CASE ~alac /\ ~left.open
      <4>1. recording' = left /\ tracks' = tracks /\ ~Writing'
        BY <3>1, <3>4 DEF Writing
      <4>2. FileIsNamed' /\ TracksAreTimed'
        BY <4>1 DEF FileIsNamed, TracksAreTimed
      <4> QED BY <1>t, <2>q, <3>1, <3>2, <4>1, <4>2 DEF RecorderTypes
    <3>5. CASE left = recording /\ recording.open /\ ~AudioChanged(alac)
      <4>1. recording' = recording /\ tracks' = tracks
        <5>1. CASE alac
          BY <1>t, <3>1, <3>2, <3>5, <5>1, StartFileFacts DEF RecorderTypes
        <5>2. CASE ~alac
          BY <3>1, <3>5, <5>2
        <5> QED BY <5>1, <5>2
      <4>2. FileIsNamed' /\ TracksAreTimed'
        BY <2>0, <3>1, <3>5, <4>1
           DEF RecInv, FileIsNamed, TracksAreTimed, Writing, AudioChanged
      <4> QED BY <1>t, <2>q, <3>1, <4>1, <4>2 DEF RecorderTypes
    <3> QED BY <3>2, <3>3, <3>4, <3>5
  <2> QED BY <2>3, <2>4
<1> QED BY <1>t, <1>1, <1>2

LEMMA SetupVideoInv ==
  ASSUME RecInv, SetupVideo
  PROVE  RecInv'
<1>t. RecorderTypes
  BY DEF RecInv
<1>a. PICK h265 \in BOOLEAN :
        /\ sends' = [sends EXCEPT !.h265 = h265, !.sees = TRUE]
        /\ ChooseVideo(h265)
  BY DEF SetupVideo
<1>s. /\ sends' \in Clients /\ sends'.h265 = h265 /\ sends'.sees
      /\ sends'.alac = sends.alac /\ sends'.hears = sends.hears
  BY <1>t, <1>a DEF RecorderTypes, Clients
<1>0. /\ forgotten' = [forgotten EXCEPT !.video = FALSE]
      /\ videoIsH265' = h265 /\ audioIsAlac' = audioIsAlac
  BY <1>a DEF SetupVideo, ChooseVideo
<1>1. forgotten' \in [audio : BOOLEAN, video : BOOLEAN] /\ forgotten'.audio = forgotten.audio
  BY <1>t, <1>0 DEF RecorderTypes
<1>2. CodecIsKnown'
  BY <1>s, <1>0, <1>1 DEF RecInv, CodecIsKnown
<1>q. /\ recording' \in Recordings /\ tracks' \in FileTracks
      /\ closing' \in {"none", "last", "engine", "audio", "video"} /\ broken' \in BOOLEAN
      /\ FileIsNamed' /\ TracksAreTimed'
      => RecInv'
  BY <1>t, <1>s, <1>0, <1>1, <1>2 DEF RecInv, RecorderTypes
<1>3. CASE VideoChanged(h265)
  <2>1. BeginClose("video")
    BY <1>a, <1>3 DEF ChooseVideo
  <2> QED BY <1>t, <1>q, <2>1, BeginCloseFits DEF RecorderTypes
<1>4. CASE ~VideoChanged(h265)
  <2>1. StartFile(recording, audioIsAlac, h265) /\ closing' = closing /\ broken' = broken
    BY <1>a, <1>4 DEF ChooseVideo
  <2>2. CASE ~recording.open
    <3>1. Fresh(audioIsAlac, h265)
      BY <1>t, <2>1, <2>2, StartFileFacts DEF RecorderTypes
    <3>2. Fresh(audioIsAlac', videoIsH265') /\ recording' \in Recordings
      BY <3>1, <1>0 DEF Fresh
    <3> QED BY <1>t, <1>q, <2>1, <3>2, FreshFits DEF RecorderTypes
  <2>3. CASE recording.open
    <3>1. recording' = recording /\ tracks' = tracks
      BY <1>t, <2>1, <2>3, StartFileFacts DEF RecorderTypes
    <3>2. FileIsNamed' /\ TracksAreTimed'
      BY <1>0, <1>4, <2>1, <2>3, <3>1
         DEF RecInv, FileIsNamed, TracksAreTimed, Writing, VideoChanged
    <3> QED BY <1>t, <1>q, <2>1, <3>1, <3>2 DEF RecorderTypes
  <2> QED BY <2>2, <2>3
<1> QED BY <1>3, <1>4

(* A push changes the times of the renderer, and nothing else about it. *)
SameFile ==
  /\ recording' \in Recordings
  /\ recording'.exists = recording.exists /\ recording'.open = recording.open
  /\ recording'.audio = recording.audio /\ recording'.alac = recording.alac
  /\ recording'.h265 = recording.h265

LEMMA PushFits ==
  ASSUME RecInv, SameFile, tracks' \in FileTracks,
         UNCHANGED <<codecs, closing, broken, sends, forgotten>>,
         Writing => TracksAreTimed'
  PROVE  RecInv'
<1>1. Writing' = Writing
  BY DEF Writing, SameFile
<1>2. UNCHANGED <<audioIsAlac, videoIsH265>>
  BY DEF codecs
<1>3. TracksAreTimed'
  BY <1>1 DEF TracksAreTimed
<1> QED BY <1>1, <1>2, <1>3 DEF RecInv, RecorderTypes, CodecIsKnown, FileIsNamed, SameFile

LEMMA PushVideoInv ==
  ASSUME RecInv, NEW t \in 0 .. LastTime, PushVideo(t)
  PROVE  RecInv'
<1>t. RecorderTypes /\ t \in Nat /\ t # Unset
  BY WidthFacts DEF RecInv, Unset
<1>i. t \in Int
  BY <1>t
<1>1. /\ SameFile /\ recording'.started = recording.started
      /\ recording'.firstAudio = recording.firstAudio
      /\ IF recording.base = Unset
         THEN recording'.base = t /\ recording'.firstVideo = t
         ELSE recording'.base = recording.base /\ recording'.firstVideo = recording.firstVideo
  <2>1. recording \in Recordings
    BY <1>t DEF RecorderTypes
  <2>2. recording' = IF recording.base = Unset
                     THEN [recording EXCEPT !.base = t, !.firstVideo = t]
                     ELSE recording
    BY DEF PushVideo
  <2>3. CASE recording.base = Unset
    BY <1>i, <2>1, <2>2, <2>3 DEF Recordings, SameFile
  <2>4. CASE recording.base # Unset
    BY <2>1, <2>2, <2>4 DEF SameFile
  <2> QED BY <2>3, <2>4
<1>2. recording'.base \in Int /\ Stamp(t, recording'.base) \in Nat
  <2>1. recording'.base \in Int
    BY <1>1 DEF SameFile, Recordings
  <2> QED BY <1>i, <2>1, StampFacts
<1> DEFINE stamp == Stamp(t, recording'.base)
<1>3. /\ tracks' = IF closing = "none" THEN [tracks EXCEPT !.video = stamp, !.seen = t] ELSE tracks
      /\ UNCHANGED <<codecs, closing, broken, sends, forgotten>>
  BY DEF PushVideo
<1>4. tracks' \in FileTracks
      /\ (closing = "none" => /\ tracks'.video = stamp /\ tracks'.seen = t
                              /\ tracks'.audio = tracks.audio /\ tracks'.heard = tracks.heard
                              /\ tracks'.silence = tracks.silence /\ tracks'.sound = tracks.sound)
  <2>1. stamp \in Int /\ tracks \in FileTracks
    BY <1>t, <1>2 DEF RecorderTypes
  <2> HIDE DEF stamp
  <2>2. CASE closing = "none"
    BY <1>i, <1>3, <2>1, <2>2 DEF FileTracks
  <2>3. CASE closing # "none"
    BY <1>3, <2>1, <2>3
  <2> QED BY <2>2, <2>3
<1>5. ASSUME Writing PROVE TracksAreTimed'
  <2>1. closing = "none" /\ recording.open
    BY <1>5 DEF Writing
  <2>2. CASE recording.base = Unset
    BY <1>t, <1>1, <1>4, <1>5, <2>1, <2>2 DEF RecInv, TracksAreTimed
  <2>3. CASE recording.base # Unset
    BY <1>t, <1>1, <1>4, <1>5, <2>1, <2>3 DEF RecInv, TracksAreTimed
  <2> QED BY <2>2, <2>3
<1> QED BY <1>1, <1>3, <1>4, <1>5, PushFits

LEMMA PushAudioInv ==
  ASSUME RecInv, NEW t \in 0 .. LastTime, PushAudio(t)
  PROVE  RecInv'
<1>t. RecorderTypes /\ t \in Nat /\ t # Unset /\ tracks \in FileTracks /\ recording \in Recordings
  BY WidthFacts DEF RecInv, Unset, RecorderTypes
<1>i. t \in Int
  BY <1>t
<1> DEFINE begins == ~recording.started /\ recording.firstVideo # Unset
           base == IF recording.base = Unset THEN t ELSE recording.base
           first == IF begins THEN t ELSE recording.firstAudio
           started == recording.started \/ begins
           stamp == Stamp(t, base)
           silence == IF begins THEN tracks.silence + SilenceFor(t) ELSE tracks.silence
           sound == IF begins THEN stamp ELSE tracks.sound
<1>0. /\ base \in Int /\ first \in Int /\ started \in BOOLEAN
      /\ begins = (~recording.started /\ recording.firstVideo # Unset)
      /\ base = IF recording.base = Unset THEN t ELSE recording.base
      /\ first = IF begins THEN t ELSE recording.firstAudio
      /\ started = (recording.started \/ begins)
      /\ silence = IF begins THEN tracks.silence + SilenceFor(t) ELSE tracks.silence
      /\ sound = IF begins THEN stamp ELSE tracks.sound
      /\ stamp = Stamp(t, base)
  BY <1>t DEF Recordings
<1>1. /\ recording' = [recording EXCEPT !.base = base, !.started = started, !.firstAudio = first]
      /\ tracks' = IF closing # "none" THEN tracks
                   ELSE [tracks EXCEPT !.audio = stamp, !.heard = t, !.silence = silence, !.sound = sound]
      /\ UNCHANGED <<codecs, closing, broken, sends, forgotten>>
  BY DEF PushAudio
<1>2. stamp \in Nat /\ silence \in Int /\ sound \in Int
  <2>1. stamp \in Nat
    <3>1. base \in Int /\ stamp = Stamp(t, base)
      BY <1>0
    <3> HIDE DEF base, stamp
    <3> QED BY <1>i, <3>1, StampFacts
  <2>2. SilenceFor(t) \in Int /\ tracks.silence \in Int /\ tracks.sound \in Int
    BY <1>t DEF SilenceFor, Recordings, FileTracks
  <2> QED BY <1>0, <2>1, <2>2
<1> HIDE DEF begins, base, first, started, stamp, silence, sound
<1>3. /\ SameFile /\ recording'.base = base /\ recording'.started = started
      /\ recording'.firstAudio = first /\ recording'.firstVideo = recording.firstVideo
  BY <1>t, <1>0, <1>1 DEF Recordings, SameFile
<1>4. tracks' \in FileTracks
      /\ (closing = "none" => /\ tracks'.audio = stamp /\ tracks'.heard = t
                              /\ tracks'.video = tracks.video /\ tracks'.seen = tracks.seen
                              /\ tracks'.silence = silence /\ tracks'.sound = sound)
  <2>1. stamp \in Int
    BY <1>2
  <2>2. CASE closing = "none"
    BY <1>i, <1>t, <1>1, <1>2, <2>1, <2>2 DEF FileTracks
  <2>3. CASE closing # "none"
    BY <1>t, <1>1, <2>3
  <2> QED BY <2>2, <2>3
<1>5. ASSUME Writing PROVE TracksAreTimed'
  <2>1. closing = "none" /\ recording.open
    BY <1>5 DEF Writing
  <2>2. /\ recording'.base \in 0 .. LastTime /\ recording'.base # Unset
        /\ tracks'.audio = Stamp(tracks'.heard, recording'.base)
        /\ recording.base # Unset => recording'.base = recording.base
        /\ recording.base = Unset => recording.firstVideo = Unset
    BY <1>t, <1>0, <1>3, <1>4, <1>5, <2>1 DEF RecInv, TracksAreTimed
  <2>3. tracks'.video # Unset => tracks'.video = Stamp(tracks'.seen, recording'.base)
    BY <1>4, <1>5, <2>1, <2>2 DEF RecInv, TracksAreTimed
  <2>4. recording'.firstVideo # Unset => recording'.firstVideo = recording'.base
    BY <1>3, <1>5, <2>1, <2>2 DEF RecInv, TracksAreTimed
  <2>r. recording.started \in BOOLEAN /\ tracks.silence \in Int
    BY <1>t DEF Recordings, FileTracks
  <2>5. CASE begins
    <3>1. /\ recording'.firstVideo # Unset /\ recording'.firstAudio = t /\ recording'.started
          /\ recording.firstVideo = recording'.base /\ ~recording.started
      BY <1>0, <1>3, <2>4, <2>5
    <3>2. tracks.silence = 0
      BY <1>5, <3>1 DEF RecInv, TracksAreTimed
    <3>3. tracks'.silence = Ahead(t, recording'.base)
      BY <1>t, <1>0, <1>4, <2>1, <2>2, <2>5, <3>1, <3>2 DEF SilenceFor, Ahead
    <3>4. tracks'.sound = Stamp(t, recording'.base)
      BY <1>0, <1>3, <1>4, <2>1, <2>5
    <3> QED BY <2>2, <2>3, <2>4, <3>1, <3>3, <3>4 DEF TracksAreTimed
  <2>6. CASE ~begins
    <3>1. /\ recording'.firstAudio = recording.firstAudio /\ recording'.started = recording.started
          /\ tracks'.silence = tracks.silence /\ tracks'.sound = tracks.sound
      BY <1>0, <1>3, <1>4, <2>1, <2>6, <2>r
    <3>2. recording.started => recording'.base = recording.base
      BY <1>5, <2>2 DEF RecInv, TracksAreTimed
    <3> QED BY <1>3, <1>5, <2>2, <2>3, <2>4, <3>1, <3>2 DEF RecInv, TracksAreTimed
  <2> QED BY <2>5, <2>6
<1> QED BY <1>1, <1>3, <1>4, <1>5, PushFits

LEMMA ClosedFacts ==
  ASSUME NEW r \in Recordings
  PROVE  Closed(r) \in Recordings /\ ~Closed(r).open
<1>1. ASSUME NEW u \in Int, NEW no \in BOOLEAN, no = FALSE
      PROVE  LET c == [r EXCEPT !.open = no, !.video = no, !.audio = no, !.base = u]
             IN  c \in Recordings /\ c.open = no
  BY <1>1 DEF Recordings
<1>2. Unset \in Int
  BY DEF Unset
<1> QED BY <1>1, <1>2 DEF Closed

LEMMA StopsInv ==
  ASSUME RecInv,
         \/ \E by \in {"last", "engine"} : StopRecording(by)
         \/ EndStop \/ EndRecreate \/ StreamsEnd
  PROVE  RecInv'
<1>t. RecorderTypes
  BY DEF RecInv
<1>1. ASSUME NEW by \in {"last", "engine"}, StopRecording(by) PROVE RecInv'
  <2>1. BeginClose(by) /\ UNCHANGED <<audioIsAlac, videoIsH265, sends, forgotten>>
    BY <1>1 DEF StopRecording, codecs
  <2> QED BY <2>1, BeginCloseFits DEF RecInv, RecorderTypes, CodecIsKnown
<1>2. CASE EndStop
  <2>1. ForgetCodecs /\ recording' = Closed(recording) /\ UNCHANGED <<broken, sends, tracks>>
        /\ closing' = "none"
    BY <1>2 DEF EndStop
  <2>2. recording' \in Recordings /\ ~recording'.open
    BY <1>t, <2>1, ClosedFacts DEF RecorderTypes
  <2>3. FileIsNamed' /\ TracksAreTimed'
    BY <2>2 DEF FileIsNamed, TracksAreTimed, Writing
  <2> QED BY <1>t, <2>1, <2>2, <2>3, ForgetFits DEF RecInv, RecorderTypes
<1>3. CASE EndRecreate
  <2>1. /\ ForgetCodecs /\ UNCHANGED <<broken, sends>> /\ closing' = "none"
        /\ \/ recording' = Empty /\ tracks' = tracks
           \/ StartFile(Empty, FALSE, FALSE)
    BY <1>3 DEF EndRecreate
  <2>2. CASE recording' = Empty /\ tracks' = tracks
    <3>1. FileIsNamed' /\ TracksAreTimed' /\ recording' \in Recordings
      BY <2>2, EmptyFacts DEF FileIsNamed, TracksAreTimed, Writing
    <3> QED BY <1>t, <2>1, <2>2, <3>1, ForgetFits DEF RecInv, RecorderTypes
  <2>3. CASE StartFile(Empty, FALSE, FALSE)
    <3>1. Fresh(FALSE, FALSE)
      BY <2>3, EmptyFacts, StartFileFacts
    <3>2. audioIsAlac' = FALSE /\ videoIsH265' = FALSE
      BY <2>1 DEF ForgetCodecs
    <3>3. Fresh(audioIsAlac', videoIsH265') /\ recording' \in Recordings
      BY <3>1, <3>2 DEF Fresh
    <3> QED BY <1>t, <2>1, <3>3, FreshFits, ForgetFits DEF RecInv, RecorderTypes
  <2> QED BY <2>1, <2>2, <2>3
<1>4. CASE StreamsEnd
  <2>1. PICK hears \in {FALSE, sends.hears}, sees \in {FALSE, sends.sees} :
          sends' = [sends EXCEPT !.hears = hears, !.sees = sees]
    BY <1>4 DEF StreamsEnd
  <2>2. UNCHANGED <<recording, audioIsAlac, videoIsH265, closing, broken, forgotten, tracks>>
    BY <1>4 DEF StreamsEnd, codecs
  <2>3. /\ sends' \in Clients /\ sends'.alac = sends.alac /\ sends'.h265 = sends.h265
        /\ (sends'.hears => sends.hears) /\ (sends'.sees => sends.sees)
    BY <1>t, <2>1 DEF RecorderTypes, Clients
  <2> QED BY <2>2, <2>3 DEF RecInv, RecorderTypes, CodecIsKnown, FileIsNamed, TracksAreTimed, Writing
<1> QED BY <1>1, <1>2, <1>3, <1>4

LEMMA RecorderStepInv == RecInv /\ [RecorderNext]_recorderVars => RecInv'
<1> SUFFICES ASSUME RecInv, [RecorderNext]_recorderVars PROVE RecInv'
  OBVIOUS
<1>1. CASE UNCHANGED recorderVars
  BY <1>1 DEF recorderVars, codecs, RecInv, RecorderTypes, CodecIsKnown, FileIsNamed,
              TracksAreTimed, Writing
<1> QED BY <1>1, SetupAudioInv, SetupVideoInv, PushVideoInv, PushAudioInv, StopsInv
        DEF RecorderNext

LEMMA InvFilesAreTrue == RecInv => FilesAreTrue
<1> SUFFICES ASSUME RecInv PROVE FilesAreTrue
  OBVIOUS
<1>1. TracksAreNamed
  BY DEF RecInv, CodecIsKnown, FileIsNamed, TracksAreNamed
<1>2. OnOneTimeLine
  <2> SUFFICES ASSUME Writing, tracks.video # Unset, tracks.audio # Unset
               PROVE  Stamp(tracks.video, tracks.audio) = Stamp(tracks.seen, tracks.heard)
    BY DEF OnOneTimeLine
  <2> DEFINE v == tracks.seen
             a == tracks.heard
             b == recording.base
  <2>1. v \in Int /\ a \in Int /\ b \in Int
    BY DEF RecInv, RecorderTypes, Recordings, FileTracks
  <2>2. tracks.video = (v - b) % Width /\ tracks.audio = (a - b) % Width
    BY DEF RecInv, TracksAreTimed, Stamp
  <2> HIDE DEF v, a, b
  <2>3. v - b \in Int /\ a - b \in Int /\ (v - b) - (a - b) = v - a
    BY <2>1
  <2>4. (((v - b) % Width) - ((a - b) % Width)) % Width = ((v - b) - (a - b)) % Width
    BY <2>3, ModDifference, WidthFacts
  <2>5. Stamp(tracks.video, tracks.audio) = Stamp(v, a)
    BY <2>2, <2>3, <2>4 DEF Stamp
  <2> QED BY <2>5 DEF v, a
<1>3. SilenceFillsTheGap
  <2> SUFFICES ASSUME Writing
               PROVE  IF recording.started /\ recording.firstAudio >= recording.firstVideo
                      THEN tracks.silence = tracks.sound ELSE tracks.silence = 0
    BY DEF SilenceFillsTheGap
  <2>1. CASE recording.started
    <3> DEFINE d == recording.firstAudio - recording.base
    <3>1. /\ recording.firstVideo = recording.base /\ recording.base \in 0 .. LastTime
          /\ recording.firstAudio \in 0 .. LastTime
          /\ tracks.sound = d % Width
          /\ tracks.silence = IF recording.firstAudio > recording.base THEN d ELSE 0
      BY <2>1 DEF RecInv, TracksAreTimed, Stamp, Ahead
    <3>2. d \in Int /\ (recording.firstAudio >= recording.base => d \in 0 .. Width - 1)
      BY <3>1, WidthFacts
    <3>3. d \in 0 .. Width - 1 => d % Width = d
      BY <3>2, ModSmall, WidthFacts
    <3> QED BY <2>1, <3>1, <3>2, <3>3, WidthFacts
  <2>2. CASE ~recording.started
    BY <2>2 DEF RecInv, TracksAreTimed
  <2> QED BY <2>1, <2>2 DEF RecInv, RecorderTypes, Recordings
<1> QED BY <1>1, <1>2, <1>3 DEF FilesAreTrue

(* While a file takes buffers: what goes into it has the codec it was made *)
(* for unless the end of an earlier file unset the one in use, sound and   *)
(* picture are on one time line, and silence fills what the picture was    *)
(* ahead, whatever the streams and the threads that close files do in      *)
(* between (mux_renderer.c: choose_audio_codec, choose_video_codec,        *)
(* push_video, push_audio, stop).                                          *)
THEOREM RecordsWhatIsSent == RecorderSpec => []FilesAreTrue
BY InvFilesAreTrue, RecorderInitInv, RecorderStepInv, PTL DEF RecorderSpec
-----------------------------------------------------------------------------
(***************************************************************************)
(* Pipelines, for any options.  What is inductive is the table of pipelines *)
(* (TableFits): each codec has its place in it, the one chosen is alone;   *)
(* and a codec is known of a stream that is up, only (StreamsFit).         *)
(***************************************************************************)
Slots == {Nothing} \cup [codec : Codecs, state : States]

TableTypes == /\ pipelines \in [Ids -> Slots]
              /\ renderer \in Ids \cup {NoRenderer}
              /\ hls_video \in BOOLEAN

InPlace == \A i \in Ids : Exists(i) => /\ TypeOf(pipelines[i].codec) = i
                                       /\ pipelines[i].codec = "hls" <=> hls_video

ChosenIsAlone == renderer # NoRenderer => /\ Exists(renderer)
                                          /\ \A i \in Ids : Exists(i) => i = renderer

TableFits == TableTypes /\ InPlace /\ ChosenIsAlone

Streams == [up : BOOLEAN, codec : {"unknown", "h264", "h265"},
            suspended : BOOLEAN, doomed : BOOLEAN]

StreamsFit == mirrored \in Streams /\ (~mirrored.up => mirrored.codec = "unknown")

OptionTypes == /\ h265_support \in BOOLEAN /\ render_coverart \in BOOLEAN
               /\ nofreeze \in BOOLEAN /\ nc \in BOOLEAN
RequestTypes == /\ quit \in BOOLEAN /\ preserve \in BOOLEAN /\ close_window \in BOOLEAN
                /\ full_reset \in BOOLEAN /\ reset_httpd \in BOOLEAN
LoopTypes == /\ watched \subseteq Ids
             /\ place \in {"loop", "left", "build", "entry", "ended"}
SoundTypes == /\ audio \in {"none", "AAC-ELD", "ALAC"}
              /\ error \in {"none", "posted", "taken"}

RestTypes == /\ OptionTypes /\ RequestTypes /\ LoopTypes /\ SoundTypes
             /\ url \in BOOLEAN /\ client \in BOOLEAN
             /\ picture \in {"none", "shown", "expired"}
             /\ aborted \in {"no", "listen", "codec", "audio"}

PipelinesInv == TableFits /\ StreamsFit /\ RestTypes /\ FramesMatch

LEMMA InvPipelinesFit == PipelinesInv => PipelinesFit
<1> SUFFICES ASSUME PipelinesInv PROVE PipelinesFit
  OBVIOUS
<1>1. PipelinesTypeOK
  BY DEF PipelinesInv, TableFits, TableTypes, Slots, StreamsFit, Streams, RestTypes,
         OptionTypes, RequestTypes, LoopTypes, SoundTypes, PipelinesTypeOK
<1> QED BY <1>1 DEF PipelinesInv, TableFits, InPlace, ChosenIsAlone, PipelinesFit, Consistent

(* video_renderer_init: each pipeline in its place, with its codec.        *)
LEMMA BuiltFacts ==
  ASSUME h265_support \in BOOLEAN, render_coverart \in BOOLEAN, NEW hls \in BOOLEAN
  PROVE  /\ Built(hls) \in [Ids -> Slots]
         /\ \A i \in Ids : Built(hls)[i] # Nothing =>
              /\ TypeOf(Built(hls)[i].codec) = i
              /\ Built(hls)[i].codec = "hls" <=> hls
         /\ hls => Built(hls)[0].codec = "hls" /\ \A i \in Ids : Built(hls)[i] # Nothing => i = 0
<1>0. 0 \in Ids
  BY DEF Ids
<1>1. Wanted(hls) \subseteq Codecs
  BY DEF Wanted, Codecs
<1>2. ASSUME NEW i \in Ids
      PROVE  \/ Built(hls)[i] = Nothing /\ ~\E c \in Wanted(hls) : TypeOf(c) = i
             \/ \E c \in Wanted(hls) : TypeOf(c) = i /\ Built(hls)[i] = [codec |-> c, state |-> "PAUSED"]
  <2>1. CASE \E c \in Wanted(hls) : TypeOf(c) = i
    <3> DEFINE c == CHOOSE c \in Wanted(hls) : TypeOf(c) = i
    <3>1. c \in Wanted(hls) /\ TypeOf(c) = i
      BY <2>1
    <3>2. Built(hls)[i] = [codec |-> c, state |-> "PAUSED"]
      BY <2>1 DEF Built
    <3> QED BY <3>1, <3>2
  <2>2. CASE ~\E c \in Wanted(hls) : TypeOf(c) = i
    BY <2>2 DEF Built
  <2> QED BY <2>1, <2>2
<1>3. \A c \in Wanted(hls) : c = "hls" <=> hls
  BY DEF Wanted
<1>p. \A c \in Codecs : [codec |-> c, state |-> "PAUSED"] \in Slots
  BY DEF Slots, States
<1>4. ASSUME NEW i \in Ids PROVE Built(hls)[i] \in Slots
  <2>1. Nothing \in Slots
    BY DEF Slots
  <2> QED BY <1>1, <1>2, <1>p, <2>1
<1>5. Built(hls) \in [Ids -> Slots]
  BY <1>4 DEF Built
<1>6. hls => \A c \in Wanted(hls) : c = "hls" /\ TypeOf(c) = 0
  BY DEF Wanted, TypeOf
<1>7. hls => "hls" \in Wanted(hls) /\ TypeOf("hls") = 0
  BY DEF Wanted, TypeOf
<1>8. ASSUME NEW i \in Ids, Built(hls)[i] # Nothing
      PROVE  /\ TypeOf(Built(hls)[i].codec) = i
             /\ Built(hls)[i].codec = "hls" <=> hls
             /\ Built(hls)[i].codec \in Wanted(hls)
  <2>1. PICK c \in Wanted(hls) : TypeOf(c) = i /\ Built(hls)[i] = [codec |-> c, state |-> "PAUSED"]
    BY <1>2, <1>8
  <2>2. Built(hls)[i].codec = c
    BY <2>1
  <2>3. c = "hls" <=> hls
    BY <1>3
  <2> QED BY <2>1, <2>2, <2>3
<1>9. ASSUME hls
      PROVE  Built(hls)[0].codec = "hls" /\ \A i \in Ids : Built(hls)[i] # Nothing => i = 0
  <2>1. PICK c \in Wanted(hls) : Built(hls)[0] = [codec |-> c, state |-> "PAUSED"]
    BY <1>0, <1>2, <1>7, <1>9
  <2>2. Built(hls)[0].codec = "hls"
    <3>1. c = "hls"
      BY <1>6, <1>9
    <3>2. [codec |-> c, state |-> "PAUSED"].codec = c
      OBVIOUS
    <3> QED BY <2>1, <3>1, <3>2
  <2>3. \A i \in Ids : Built(hls)[i] # Nothing => i = 0
    BY <1>2, <1>6, <1>9
  <2> QED BY <2>2, <2>3
<1> QED BY <1>5, <1>8, <1>9

LEMMA PipelinesInitInv == PipelinesInit => PipelinesInv
<1> SUFFICES ASSUME PipelinesInit PROVE PipelinesInv
  OBVIOUS
<1>1. h265_support \in BOOLEAN /\ render_coverart \in BOOLEAN
  BY DEF PipelinesInit
<1>2. TableFits
  BY <1>1, BuiltFacts DEF PipelinesInit, TableFits, TableTypes, InPlace, ChosenIsAlone, Exists
<1>3. StreamsFit
  BY DEF PipelinesInit, StreamsFit, Streams, NoStream
<1>4. RestTypes
  BY DEF PipelinesInit, RestTypes, OptionTypes, RequestTypes, LoopTypes, SoundTypes
<1>5. FramesMatch
  BY DEF PipelinesInit, FramesMatch
<1> QED BY <1>2, <1>3, <1>4, <1>5 DEF PipelinesInv

-----------------------------------------------------------------------------
(* What a step may do to the table: put a pipeline into another state,     *)
(* build the pipelines anew, take them all away, or choose one.            *)
TableKept == /\ UNCHANGED <<renderer, hls_video>>
             /\ pipelines' \in [Ids -> Slots]
             /\ \A i \in Ids : /\ Exists(i)' <=> Exists(i)
                               /\ Exists(i) => pipelines'[i].codec = pipelines[i].codec
Rebuilt == \E hls \in BOOLEAN : BuildAll(hls)
Cleared == /\ pipelines' = [i \in Ids |-> Nothing] /\ renderer' = NoRenderer
           /\ UNCHANGED hls_video

LEMMA UnchangedTable ==
  ASSUME TableFits, UNCHANGED video
  PROVE  TableKept
BY DEF TableFits, TableTypes, video, TableKept, Exists

(* gst_element_set_state of a pipeline that is there.                      *)
LEMMA SetStateKeeps ==
  ASSUME TableFits, NEW i \in Ids, Exists(i), NEW s \in States,
         pipelines' = SetState(i, s), UNCHANGED <<renderer, hls_video>>
  PROVE  TableKept
<1>1. pipelines \in [Ids -> Slots] /\ pipelines[i] \in [codec : Codecs, state : States]
  BY DEF TableFits, TableTypes, Slots, Exists
<1> DEFINE r == [pipelines[i] EXCEPT !.state = s]
<1>2. r \in [codec : Codecs, state : States] /\ r.codec = pipelines[i].codec
  BY <1>1
<1>3. r # Nothing
  BY <1>2 DEF Nothing, Codecs
<1>4. pipelines' = [pipelines EXCEPT ![i] = r]
  BY DEF SetState
<1> HIDE DEF r
<1>5. /\ pipelines' \in [Ids -> Slots]
      /\ \A j \in Ids : pipelines'[j] = IF j = i THEN r ELSE pipelines[j]
  BY <1>1, <1>2, <1>4 DEF Slots
<1> QED BY <1>2, <1>3, <1>5 DEF TableKept, Exists

LEMMA PutKeeps ==
  ASSUME TableFits, NEW s \in States, Put(s), UNCHANGED <<renderer, hls_video>>
  PROVE  TableKept
<1>1. CASE renderer = NoRenderer
  BY <1>1, UnchangedTable DEF Put, video
<1>2. CASE renderer # NoRenderer
  <2>1. renderer \in Ids /\ Exists(renderer)
    BY <1>2 DEF TableFits, TableTypes, ChosenIsAlone
  <2> QED BY <1>2, <2>1, SetStateKeeps DEF Put
<1> QED BY <1>1, <1>2

LEMMA TableSteps ==
  ASSUME TableFits, h265_support \in BOOLEAN, render_coverart \in BOOLEAN,
         UNCHANGED options, TableKept \/ Rebuilt \/ Cleared
  PROVE  TableFits'
<1>o. \A c : TypeOf(c)' = TypeOf(c)
  BY DEF TypeOf, options
<1>1. CASE TableKept
  <2>1. TableTypes'
    BY <1>1 DEF TableFits, TableTypes, TableKept
  <2>2. InPlace'
    BY <1>o, <1>1 DEF TableFits, InPlace, TableKept
  <2>3. ChosenIsAlone'
    BY <1>1 DEF TableFits, TableTypes, ChosenIsAlone, TableKept
  <2> QED BY <2>1, <2>2, <2>3 DEF TableFits
<1>2. CASE Rebuilt
  <2>1. PICK hls \in BOOLEAN : BuildAll(hls)
    BY <1>2 DEF Rebuilt
  <2>b. pipelines' = Built(hls) /\ renderer' = (IF hls THEN 0 ELSE NoRenderer) /\ hls_video' = hls
    BY <2>1 DEF BuildAll, ChosenAtStart
  <2>2. TableTypes'
    BY <2>b, BuiltFacts DEF TableTypes, Ids
  <2>3. InPlace'
    BY <1>o, <2>b, BuiltFacts DEF InPlace, Exists
  <2>4. ChosenIsAlone'
    <3>1. CASE hls
      <4>1. Built(hls)[0].codec = "hls" /\ \A i \in Ids : Built(hls)[i] # Nothing => i = 0
        BY <3>1, BuiltFacts
      <4>2. Nothing.codec = "none"
        BY DEF Nothing
      <4>3. Built(hls)[0] # Nothing
        BY <4>1, <4>2
      <4> QED BY <3>1, <2>b, <4>1, <4>3 DEF ChosenIsAlone, Exists
    <3>2. CASE ~hls
      BY <3>2, <2>b DEF ChosenIsAlone
    <3> QED BY <3>1, <3>2
  <2> QED BY <2>2, <2>3, <2>4 DEF TableFits
<1>3. CASE Cleared
  BY <1>3 DEF Cleared, TableFits, TableTypes, InPlace, ChosenIsAlone, Exists, Slots
<1> QED BY <1>1, <1>2, <1>3

(* Frames keep to their pipeline when no stream gets a codec.              *)
NoNewCodec == mirrored'.codec \in {mirrored.codec, "unknown"}

LEMMA FramesKeep ==
  ASSUME TableFits, FramesMatch, NoNewCodec,
         h265_support \in BOOLEAN, render_coverart \in BOOLEAN,
         TableKept \/ Rebuilt \/ Cleared
  PROVE  FramesMatch'
<1>1. CASE TableKept
  BY <1>1 DEF TableKept, TableFits, TableTypes, ChosenIsAlone, FramesMatch, NoNewCodec
<1>2. CASE Rebuilt
  <2>1. PICK hls \in BOOLEAN : BuildAll(hls)
    BY <1>2 DEF Rebuilt
  <2>2. CASE hls
    BY <2>1, <2>2, BuiltFacts DEF BuildAll, ChosenAtStart, FramesMatch
  <2>3. CASE ~hls
    BY <2>1, <2>3 DEF BuildAll, ChosenAtStart, FramesMatch
  <2> QED BY <2>2, <2>3
<1>3. CASE Cleared
  BY <1>3 DEF Cleared, FramesMatch
<1> QED BY <1>1, <1>2, <1>3

(* video_renderer_choose_codec.                                            *)
LEMMA ChooseFits ==
  ASSUME TableFits, h265_support \in BOOLEAN, render_coverart \in BOOLEAN,
         ~hls_video, NEW codec \in {"h264", "h265", "jpeg"}, Choose(codec), UNCHANGED options
  PROVE  /\ TableFits'
         /\ CanChoose(codec) => renderer' # NoRenderer /\ pipelines'[renderer'].codec = codec
         /\ renderer # NoRenderer => UNCHANGED video
<1> DEFINE i == TypeOf(codec)
<1>i. i \in Ids \cup {NoRenderer}
  BY DEF TypeOf, Ids
<1>o. \A c : TypeOf(c)' = TypeOf(c)
  BY DEF TypeOf, options
<1>d. NoRenderer \notin Ids
  BY DEF NoRenderer, Ids
<1>j. \A c \in Codecs : TypeOf(c) = i /\ i # NoRenderer => c \in {codec, "hls"}
  BY DEF Codecs, TypeOf, NoRenderer
<1>1. CASE i # NoRenderer /\ Exists(i) /\ renderer = NoRenderer
  <2> DEFINE one == [codec |-> codec, state |-> "PLAYING"]
  <2>1. /\ pipelines' = [j \in Ids |-> IF j = i THEN one ELSE Nothing]
        /\ renderer' = i /\ hls_video' = hls_video
    BY <1>1 DEF Choose
  <2>2. one \in Slots /\ one.codec = codec /\ one # Nothing /\ Nothing \in Slots
    BY DEF Slots, Codecs, States, Nothing
  <2>3. i \in Ids /\ pipelines'[i] = one /\ \A j \in Ids : j # i => pipelines'[j] = Nothing
    BY <1>i, <1>1, <2>1
  <2> HIDE DEF one
  <2>4. TableTypes'
    BY <2>1, <2>2, <2>3 DEF TableFits, TableTypes
  <2>5. ChosenIsAlone'
    BY <2>1, <2>2, <2>3 DEF ChosenIsAlone, Exists
  <2>6. InPlace'
    BY <1>o, <2>1, <2>2, <2>3 DEF InPlace, Exists
  <2> QED BY <1>1, <1>d, <2>1, <2>2, <2>3, <2>4, <2>5, <2>6 DEF TableFits
<1>2. CASE ~(i # NoRenderer /\ Exists(i) /\ renderer = NoRenderer)
  <2>1. UNCHANGED video
    BY <1>2 DEF Choose
  <2>2. TableFits'
    BY <2>1, UnchangedTable, TableSteps
  <2>3. ASSUME CanChoose(codec) PROVE renderer # NoRenderer /\ pipelines[renderer].codec = codec
    <3>1. i # NoRenderer /\ Exists(i) /\ renderer = i
      BY <1>2, <2>3 DEF CanChoose
    <3>2. i \in Ids
      BY <1>i, <3>1
    <3>3. pipelines[i].codec \in Codecs
      BY <3>1, <3>2 DEF TableFits, TableTypes, Slots, Exists
    <3>4. TypeOf(pipelines[i].codec) = i /\ pipelines[i].codec # "hls"
      BY <3>1, <3>2 DEF TableFits, InPlace
    <3> QED BY <1>j, <3>1, <3>3, <3>4
  <2> QED BY <2>1, <2>2, <2>3 DEF video
<1> QED BY <1>1, <1>2

-----------------------------------------------------------------------------
(* Each action is one of those steps on the table, but for the two that    *)
(* choose a codec.                                                         *)
TableStep == UNCHANGED options /\ (TableKept \/ Rebuilt \/ Cleared)

LEMMA ActionsOnTheTable ==
  ASSUME PipelinesInv, [PipelinesNext]_pipelineVars
  PROVE  \/ TableStep /\ NoNewCodec
         \/ \E codec \in {"h264", "h265"} : SetCodec(codec) /\ ~hls_video
         \/ CoverArt /\ ~hls_video
<1> USE DEF PipelinesInv, video, options
<1>t. TableFits /\ mirrored \in Streams
  BY DEF StreamsFit
<1>u. UNCHANGED video => TableKept
  BY <1>t, UnchangedTable
<1>s. "READY" \in States /\ "PAUSED" \in States /\ "PLAYING" \in States /\ "NULL" \in States
  BY DEF States
<1>n. NoStream.codec = "unknown"
  BY DEF NoStream
<1>m. mirrored' \in {mirrored, NoStream} => NoNewCodec
  BY <1>n DEF NoNewCodec
<1>e. \A b \in BOOLEAN : /\ [mirrored EXCEPT !.suspended = b].codec = mirrored.codec
                         /\ [mirrored EXCEPT !.doomed = b].codec = mirrored.codec
                         /\ [NoStream EXCEPT !.up = b].codec = "unknown"
  BY <1>t DEF Streams, NoStream
<1>1. CASE Connect \/ Disconnect \/ RemoveMarked
  BY <1>1, <1>u, <1>m DEF Connect, Disconnect, RemoveMarked, TableStep
<1>2. CASE SetupMirror
  BY <1>2, <1>u, <1>e DEF SetupMirror, TableStep, NoNewCodec
<1>3. CASE NoHold
  <2>1. mirrored.up \in BOOLEAN
    BY <1>t DEF Streams
  <2>2. Rebuilt
    BY <1>3 DEF NoHold, Rebuilt
  <2> QED BY <1>3, <1>e, <2>1, <2>2 DEF NoHold, TableStep, NoNewCodec
<1>4. ASSUME NEW codec \in {"h264", "h265"}, SetCodec(codec), hls_video
      PROVE  TableStep /\ NoNewCodec
  BY <1>4, <1>u, <1>m DEF SetCodec, Abort, TableStep
<1>5. ASSUME NEW off \in BOOLEAN, Suspend(off) PROVE TableStep /\ NoNewCodec
  <2>1. TableKept
    BY <1>5, <1>t, <1>s, PutKeeps DEF Suspend
  <2> QED BY <1>5, <1>e, <2>1 DEF Suspend, TableStep, NoNewCodec
<1>6. ASSUME NEW lost \in BOOLEAN, MirrorFails(lost) PROVE TableStep /\ NoNewCodec
  <2>1. TableKept
    BY <1>6, <1>t, <1>s, <1>u, PutKeeps DEF MirrorFails
  <2> QED BY <1>6, <1>m, <2>1 DEF MirrorFails, ConnReset, TableStep
<1>7. ASSUME NEW ok \in BOOLEAN, Build(ok) PROVE TableStep /\ NoNewCodec
  <2>1. TableKept \/ Rebuilt
    BY <1>7, <1>u DEF Build, Rebuilt, RestTypes
  <2> QED BY <1>7, <1>m, <2>1 DEF Build, TableStep
<1>8. ASSUME NEW kind \in {"mirror", "hls", "audio"}, Teardown(kind)
      PROVE  TableStep /\ NoNewCodec
  <2>1. TableKept
    BY <1>8, <1>t, <1>s, PutKeeps DEF Teardown
  <2> QED BY <1>8, <1>m, <2>1 DEF Teardown, TableStep
<1>9. CASE CoverArt /\ hls_video
  BY <1>9, <1>u, <1>m DEF CoverArt, Abort, TableStep
<1>10. CASE CoverArtExpires \/ AirplayConnect \/ VideoPlay
  BY <1>10, <1>u, <1>m DEF CoverArtExpires, AirplayConnect, VideoPlay, TableStep
<1>11. CASE Cycle
  <2>1. CASE renderer # NoRenderer /\ pipelines[renderer].codec = "jpeg"
    <3>1. renderer \in Ids /\ Exists(renderer)
      BY <1>t, <2>1 DEF TableFits, TableTypes, ChosenIsAlone
    <3>2. TableKept
      BY <1>11, <1>t, <1>s, <2>1, <3>1, SetStateKeeps DEF Cycle
    <3> QED BY <1>11, <1>m, <3>2 DEF Cycle, TableStep
  <2>2. CASE ~(renderer # NoRenderer /\ pipelines[renderer].codec = "jpeg")
    BY <1>11, <2>2, <1>u, <1>m DEF Cycle, TableStep
  <2> QED BY <2>1, <2>2
<1>12. CASE HlsShutdown
  <2>1. TableKept
    BY <1>12, <1>t, <1>s, PutKeeps DEF HlsShutdown
  <2> QED BY <1>12, <1>m, <2>1 DEF HlsShutdown, TableStep
<1>13. CASE Eos
  <2>1. Rebuilt
    BY <1>13 DEF Eos, Rebuilt
  <2> QED BY <1>13, <1>m, <2>1 DEF Eos, TableStep
<1>14. ASSUME NEW state \in {"READY", "PAUSED", "PLAYING"}, VideoControl(state)
       PROVE  TableStep /\ NoNewCodec
  <2>1. TableKept
    BY <1>14, <1>t, <1>s, PutKeeps DEF VideoControl
  <2> QED BY <1>14, <1>m, <2>1 DEF VideoControl, TableStep
<1>15. ASSUME NEW format \in {"AAC-ELD", "ALAC"}, AudioFormat(format)
       PROVE  TableStep /\ NoNewCodec
  BY <1>15, <1>u, <1>m DEF AudioFormat, TableStep
<1>16. CASE ResetCallback \/ FeedbackCallback
  BY <1>16, <1>u, <1>m DEF ResetCallback, FeedbackCallback, TableStep
<1>17. ASSUME NEW i \in Ids, VideoError(i) PROVE TableStep /\ NoNewCodec
  <2>1. TableKept
    BY <1>17, <1>t, <1>s, SetStateKeeps DEF VideoError
  <2> QED BY <1>17, <1>m, <2>1 DEF VideoError, TableStep
<1>18. ASSUME NEW state \in {"PAUSED", "PLAYING"}, Buffering(state)
       PROVE  TableStep /\ NoNewCodec
  <2>1. 0 \in Ids
    BY DEF Ids
  <2>2. TableKept
    BY <1>18, <1>t, <1>s, <2>1, SetStateKeeps DEF Buffering
  <2> QED BY <1>18, <1>m, <2>2 DEF Buffering, TableStep
<1>19. CASE AudioFails \/ TakeAudioError
  BY <1>19, <1>u, <1>m DEF AudioFails, TakeAudioError, TableStep
<1>20. CASE AudioError
  BY <1>20, <1>u, <1>m DEF AudioError, Abort, TableStep
<1>21. CASE Relaunch
  <2>1. CASE MustRebuild
    <3>1. Cleared
      BY <1>21, <2>1 DEF Relaunch, Cleared
    <3>2. (mirrored.doomed \/ (mirrored.up /\ ~preserve)) \in BOOLEAN
      BY <1>t DEF Streams, RestTypes, RequestTypes
    <3>3. NoNewCodec
      BY <1>21, <2>1, <1>m, <1>e, <3>2 DEF Relaunch, NoNewCodec
    <3> QED BY <1>21, <3>1, <3>3 DEF Relaunch, TableStep
  <2>2. CASE ~MustRebuild
    BY <1>21, <2>2, <1>u, <1>m DEF Relaunch, TableStep
  <2> QED BY <2>1, <2>2
<1>22. CASE EnterLoop
  BY <1>22, <1>u, <1>m DEF EnterLoop, Abort, TableStep
<1>23. CASE UNCHANGED pipelineVars
  BY <1>23, <1>u, <1>m DEF pipelineVars, TableStep
<1> QED BY <1>1, <1>2, <1>3, <1>4, <1>5, <1>6, <1>7, <1>8, <1>9, <1>10, <1>11, <1>12, <1>13,
           <1>14, <1>15, <1>16, <1>17, <1>18, <1>19, <1>20, <1>21, <1>22, <1>23
        DEF PipelinesNext

LEMMA StepsKeepTheTable ==
  ASSUME PipelinesInv, [PipelinesNext]_pipelineVars
  PROVE  TableFits' /\ FramesMatch'
<1>t. TableFits /\ FramesMatch /\ h265_support \in BOOLEAN /\ render_coverart \in BOOLEAN
      /\ mirrored \in Streams /\ (~mirrored.up => mirrored.codec = "unknown")
  BY DEF PipelinesInv, RestTypes, OptionTypes, StreamsFit
<1>1. CASE TableStep /\ NoNewCodec
  BY <1>1, <1>t, TableSteps, FramesKeep DEF TableStep
<1>2. ASSUME NEW codec \in {"h264", "h265"}, SetCodec(codec), ~hls_video
      PROVE  TableFits' /\ FramesMatch'
  <2>1. Choose(codec) /\ UNCHANGED options
    BY <1>2 DEF SetCodec
  <2>2. /\ TableFits'
        /\ CanChoose(codec) => renderer' # NoRenderer /\ pipelines'[renderer'].codec = codec
    BY <1>2, <1>t, <2>1, ChooseFits
  <2>3. CASE CanChoose(codec)
    <3>1. mirrored' = [mirrored EXCEPT !.codec = codec]
      BY <1>2, <2>3 DEF SetCodec
    <3>2. mirrored'.codec = codec
      BY <1>t, <3>1 DEF Streams
    <3> QED BY <2>2, <2>3, <3>2 DEF FramesMatch
  <2>4. CASE ~CanChoose(codec)
    <3>1. mirrored' = NoStream
      BY <1>2, <2>4 DEF SetCodec, ConnReset
    <3> QED BY <2>2, <3>1 DEF FramesMatch, NoStream
  <2> QED BY <2>3, <2>4
<1>3. CASE CoverArt /\ ~hls_video
  <2>1. Choose("jpeg") /\ UNCHANGED options /\ mirrored' = mirrored /\ ~mirrored.up
    BY <1>3 DEF CoverArt
  <2>2. TableFits'
    BY <1>3, <1>t, <2>1, ChooseFits
  <2> QED BY <1>t, <2>1, <2>2 DEF FramesMatch
<1> QED BY <1>1, <1>2, <1>3, ActionsOnTheTable

LEMMA StepsKeepStreams ==
  ASSUME PipelinesInv, [PipelinesNext]_pipelineVars
  PROVE  StreamsFit'
<1> USE DEF PipelinesInv, video, options, requests, sounds
<1>t. /\ mirrored \in Streams /\ (~mirrored.up => mirrored.codec = "unknown")
      /\ mirrored.up \in BOOLEAN /\ mirrored.doomed \in BOOLEAN /\ preserve \in BOOLEAN
  BY DEF StreamsFit, Streams, RestTypes, RequestTypes
<1>n. /\ NoStream \in Streams /\ ~NoStream.up /\ NoStream.codec = "unknown"
      /\ [NoStream EXCEPT !.up = TRUE] \in Streams /\ [NoStream EXCEPT !.up = TRUE].up
  BY DEF NoStream, Streams
<1>m. mirrored' \in {mirrored, NoStream} => StreamsFit'
  BY <1>t, <1>n DEF StreamsFit
<1>e. ASSUME NEW b \in BOOLEAN,
             \/ mirrored' = [mirrored EXCEPT !.suspended = b]
             \/ mirrored' = [mirrored EXCEPT !.doomed = b]
      PROVE  StreamsFit'
  BY <1>e, <1>t DEF Streams, StreamsFit
<1>1. CASE Connect \/ Disconnect \/ RemoveMarked
  BY <1>1, <1>m DEF Connect, Disconnect, RemoveMarked
<1>2. CASE SetupMirror
  BY <1>2, <1>n DEF SetupMirror, StreamsFit
<1>3. CASE NoHold
  BY <1>3, <1>e, <1>t DEF NoHold
<1>4. ASSUME NEW codec \in {"h264", "h265"}, SetCodec(codec) PROVE StreamsFit'
  <2>1. mirrored.up
    BY <1>4 DEF SetCodec
  <2>2. CASE mirrored' = [mirrored EXCEPT !.codec = codec]
    BY <1>t, <2>1, <2>2 DEF Streams, StreamsFit
  <2>3. CASE mirrored' \in {mirrored, NoStream}
    BY <1>m, <2>3
  <2> QED BY <1>4, <2>2, <2>3 DEF SetCodec, Abort, ConnReset
<1>5. ASSUME NEW off \in BOOLEAN, Suspend(off) PROVE StreamsFit'
  BY <1>5, <1>e DEF Suspend
<1>6. ASSUME NEW lost \in BOOLEAN, MirrorFails(lost) PROVE StreamsFit'
  BY <1>6, <1>m DEF MirrorFails, ConnReset
<1>7. ASSUME NEW ok \in BOOLEAN, Build(ok) PROVE StreamsFit'
  BY <1>7, <1>m DEF Build
<1>8. ASSUME NEW kind \in {"mirror", "hls", "audio"}, Teardown(kind) PROVE StreamsFit'
  BY <1>8, <1>m DEF Teardown
<1>9. CASE CoverArt
  BY <1>9, <1>m DEF CoverArt, Abort
<1>10. CASE CoverArtExpires \/ AirplayConnect \/ VideoPlay \/ Cycle \/ HlsShutdown \/ Eos
  BY <1>10, <1>m DEF CoverArtExpires, AirplayConnect, VideoPlay, Cycle, HlsShutdown, Eos
<1>14. ASSUME NEW state \in {"READY", "PAUSED", "PLAYING"}, VideoControl(state)
       PROVE  StreamsFit'
  BY <1>14, <1>m DEF VideoControl
<1>15. ASSUME NEW format \in {"AAC-ELD", "ALAC"}, AudioFormat(format) PROVE StreamsFit'
  BY <1>15, <1>m DEF AudioFormat
<1>16. CASE ResetCallback \/ FeedbackCallback \/ AudioFails \/ TakeAudioError
  BY <1>16, <1>m DEF ResetCallback, FeedbackCallback, AudioFails, TakeAudioError
<1>17. ASSUME NEW i \in Ids, VideoError(i) PROVE StreamsFit'
  BY <1>17, <1>m DEF VideoError
<1>18. ASSUME NEW state \in {"PAUSED", "PLAYING"}, Buffering(state) PROVE StreamsFit'
  BY <1>18, <1>m DEF Buffering
<1>20. CASE AudioError \/ EnterLoop
  BY <1>20, <1>m DEF AudioError, EnterLoop, Abort
<1>21. CASE Relaunch
  <2>1. CASE mirrored' \in {mirrored, NoStream}
    BY <2>1, <1>m
  <2>2. CASE mirrored' \notin {mirrored, NoStream}
    <3>1. mirrored' = [mirrored EXCEPT !.doomed = mirrored.doomed \/ (mirrored.up /\ ~preserve)]
      BY <1>21, <2>2 DEF Relaunch
    <3>2. (mirrored.doomed \/ (mirrored.up /\ ~preserve)) \in BOOLEAN
      BY <1>t
    <3> QED BY <1>e, <3>1, <3>2
  <2> QED BY <2>1, <2>2
<1>23. CASE UNCHANGED pipelineVars
  BY <1>23, <1>m DEF pipelineVars
<1> QED BY <1>1, <1>2, <1>3, <1>4, <1>5, <1>6, <1>7, <1>8, <1>9, <1>10,
           <1>14, <1>15, <1>16, <1>17, <1>18, <1>20, <1>21, <1>23
        DEF PipelinesNext

LEMMA StepsKeepTypes ==
  ASSUME PipelinesInv, [PipelinesNext]_pipelineVars
  PROVE  RestTypes'
<1> USE DEF PipelinesInv, RestTypes
<1>o. UNCHANGED options => OptionTypes'
  BY DEF options, OptionTypes
<1>r. UNCHANGED requests => RequestTypes'
  BY DEF requests, RequestTypes
<1>l. UNCHANGED <<watched, place>> => LoopTypes'
  BY DEF LoopTypes
<1>v. Leave => LoopTypes'
  BY DEF Leave, LoopTypes
<1>s. UNCHANGED sounds => SoundTypes'
  BY DEF sounds, SoundTypes
<1>a. StopAudio => SoundTypes'
  BY DEF StopAudio, SoundTypes
<1>c. ConnReset => RequestTypes'
  BY DEF ConnReset, RequestTypes
<1>n. \A why \in {"listen", "codec", "audio"} :
         Abort(why) /\ UNCHANGED options => RestTypes'
  BY <1>o, <1>r, <1>l, <1>s DEF Abort
<1>1. CASE Connect \/ SetupMirror \/ RemoveMarked \/ AirplayConnect
  BY <1>1, <1>o, <1>r, <1>l, <1>s DEF Connect, SetupMirror, RemoveMarked, AirplayConnect
<1>2. CASE Disconnect
  BY <1>2, <1>o, <1>r, <1>l, <1>a DEF Disconnect
<1>3. CASE NoHold
  <2>1. RequestTypes'
    BY <1>3 DEF NoHold, RequestTypes
  <2> QED BY <1>3, <1>o, <1>l, <1>s, <2>1 DEF NoHold
<1>4. ASSUME NEW codec \in {"h264", "h265"}, SetCodec(codec) PROVE RestTypes'
  BY <1>4, <1>o, <1>r, <1>l, <1>s, <1>c, <1>n DEF SetCodec
<1>5. ASSUME NEW off \in BOOLEAN, Suspend(off) PROVE RestTypes'
  BY <1>5, <1>o, <1>r, <1>l, <1>s DEF Suspend
<1>6. ASSUME NEW lost \in BOOLEAN, MirrorFails(lost) PROVE RestTypes'
  <2>1. RequestTypes'
    BY <1>6, <1>c DEF MirrorFails, RequestTypes
  <2> QED BY <1>6, <1>o, <1>l, <1>s, <2>1 DEF MirrorFails
<1>7. ASSUME NEW ok \in BOOLEAN, Build(ok) PROVE RestTypes'
  <2>1. RequestTypes' /\ LoopTypes'
    BY <1>7 DEF Build, RequestTypes, LoopTypes
  <2> QED BY <1>7, <1>o, <1>s, <2>1 DEF Build
<1>8. ASSUME NEW kind \in {"mirror", "hls", "audio"}, Teardown(kind) PROVE RestTypes'
  <2>1. preserve' \in BOOLEAN
    BY <1>8 DEF Teardown, RequestTypes
  <2>2. RequestTypes'
    BY <1>8, <2>1 DEF Teardown, RequestTypes
  <2> QED BY <1>8, <1>o, <1>l, <1>s, <2>2 DEF Teardown
<1>9. CASE CoverArt
  BY <1>9, <1>o, <1>r, <1>l, <1>s, <1>n DEF CoverArt
<1>10. CASE CoverArtExpires \/ Cycle
  BY <1>10, <1>o, <1>r, <1>l, <1>s DEF CoverArtExpires, Cycle
<1>11. CASE VideoPlay \/ HlsShutdown \/ Eos
  <2>1. RequestTypes'
    BY <1>11 DEF VideoPlay, HlsShutdown, Eos, RequestTypes
  <2>2. UNCHANGED <<watched, place, picture, client, aborted, options, sounds>> /\ url' \in BOOLEAN
    BY <1>11 DEF VideoPlay, HlsShutdown, Eos
  <2> QED BY <1>o, <1>l, <1>s, <2>1, <2>2
<1>14. ASSUME NEW state \in {"READY", "PAUSED", "PLAYING"}, VideoControl(state)
       PROVE  RestTypes'
  BY <1>14, <1>o, <1>r, <1>l, <1>s DEF VideoControl
<1>15. ASSUME NEW format \in {"AAC-ELD", "ALAC"}, AudioFormat(format) PROVE RestTypes'
  <2>1. SoundTypes'
    BY <1>15 DEF AudioFormat, SoundTypes
  <2> QED BY <1>15, <1>o, <1>r, <1>l, <2>1 DEF AudioFormat
<1>16. CASE ResetCallback
  BY <1>16, <1>o, <1>r, <1>v, <1>s DEF ResetCallback
<1>17. CASE FeedbackCallback
  <2>1. RequestTypes'
    BY <1>17 DEF FeedbackCallback, RequestTypes
  <2> QED BY <1>17, <1>o, <1>v, <1>s, <2>1 DEF FeedbackCallback
<1>18. ASSUME NEW i \in Ids, VideoError(i) PROVE RestTypes'
  BY <1>18, <1>o, <1>r, <1>v, <1>s DEF VideoError
<1>19. ASSUME NEW state \in {"PAUSED", "PLAYING"}, Buffering(state) PROVE RestTypes'
  BY <1>19, <1>o, <1>r, <1>l, <1>s DEF Buffering
<1>20. CASE AudioFails \/ TakeAudioError
  <2>1. SoundTypes'
    BY <1>20 DEF AudioFails, TakeAudioError, SoundTypes
  <2> QED BY <1>20, <1>o, <1>r, <1>l, <2>1 DEF AudioFails, TakeAudioError
<1>21. CASE AudioError
  <2>1. CASE audio = "none"
    BY <1>21, <2>1, <1>n DEF AudioError
  <2>2. CASE audio # "none"
    <3>1. SoundTypes'
      BY <1>21, <2>2 DEF AudioError, SoundTypes
    <3> QED BY <1>21, <2>2, <1>o, <1>r, <1>v, <3>1 DEF AudioError
  <2> QED BY <2>1, <2>2
<1>22. CASE Relaunch
  <2>1. client' \in BOOLEAN /\ url' \in BOOLEAN
    BY <1>22 DEF Relaunch
  <2>2. LoopTypes'
    BY <1>22 DEF Relaunch, LoopTypes
  <2> QED BY <1>22, <1>o, <1>r, <1>a, <2>1, <2>2 DEF Relaunch
<1>23. CASE EnterLoop
  <2>1. CASE \E i \in Watches(url) : ~Exists(i)
    BY <1>23, <2>1, <1>n DEF EnterLoop
  <2>2. CASE ~\E i \in Watches(url) : ~Exists(i)
    <3>1. watched' = Watches(url) /\ watched' \subseteq Ids
      BY <1>23, <2>2 DEF EnterLoop, Watches, Wanted, TypeOf, Ids, NoRenderer
    <3>2. RequestTypes' /\ LoopTypes'
      BY <1>23, <2>2, <3>1 DEF EnterLoop, RequestTypes, LoopTypes, OptionTypes
    <3> QED BY <1>23, <2>2, <1>o, <1>s, <3>2 DEF EnterLoop
  <2> QED BY <2>1, <2>2
<1>24. CASE UNCHANGED pipelineVars
  BY <1>24, <1>o, <1>r, <1>l, <1>s DEF pipelineVars
<1> QED BY <1>1, <1>2, <1>3, <1>4, <1>5, <1>6, <1>7, <1>8, <1>9, <1>10, <1>11, <1>14, <1>15,
           <1>16, <1>17, <1>18, <1>19, <1>20, <1>21, <1>22, <1>23, <1>24
        DEF PipelinesNext

(* Whatever the clients, the player and the loop do, and in whatever order: *)
(* `renderer' names a pipeline that exists, alone and of the kind the loop *)
(* went by, and the frames of a stream only meet a pipeline of their codec *)
(* (video_renderer.c: video_renderer_init, _choose_codec, _destroy).       *)
THEOREM PipelinesAlwaysFit == PipelinesSpec => []PipelinesFit
<1>1. PipelinesInv /\ [PipelinesNext]_pipelineVars => PipelinesInv'
  BY StepsKeepTheTable, StepsKeepStreams, StepsKeepTypes DEF PipelinesInv
<1> QED BY <1>1, PipelinesInitInv, InvPipelinesFit, PTL DEF PipelinesSpec
=============================================================================
