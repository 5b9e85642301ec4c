-------------------------------- MODULE Clock --------------------------------
(***************************************************************************)
(* The clock of a session.  A timing thread asks the client for its time   *)
(* every three seconds (lib/raop_ntp.c) and keeps the offset of the best   *)
(* of its last samples; the streams convert the client's timestamps with   *)
(* it, and the engine fixes one offset for the rest of the session from    *)
(* the first frame it plays (xmirror.cpp, audio_process, video_process).   *)
(*                                                                         *)
(* Time is in ticks.  The local clock is CLOCK_REALTIME: it can be set.    *)
(* Requests and answers are lost and delayed; an answer may come when the  *)
(* thread has given up on it.  The client answers at once.                 *)
(***************************************************************************)
EXTENDS Integers

CONSTANTS
  Samples,    \* RAOP_NTP_DATA_COUNT
  Skew,       \* client's clock less ours, at first
  Start,      \* our clock at first
  End,        \* the time after which nothing is looked at
  Timeout,    \* the receive timeout (300 ms), in ticks
  Pause,      \* the pause between two requests (3 s), in ticks
  Latency,    \* how late a frame can be
  Lifetime,   \* how old an answer can be when it comes
  Steps       \* by how much the clock may be set, once

ASSUME ClockAssumption ==
  /\ Samples \in Nat \ {0} /\ {Timeout, Pause, Latency, Lifetime} \subseteq Nat
  /\ Skew \in Int \ {0} /\ Start + Skew > 0
  /\ Steps \subseteq Int /\ {Start, End} \subseteq Nat

Far == 4 * End          \* RAOP_NTP_MAX_DISP: a delay no answer has
None == 0               \* no frame on its way

VARIABLES
  now, skew, wasSet,    \* the two clocks
  phase, timer,         \* the timing thread: where it is, and for how long
  alive, stop, waited,  \* running; raop_ntp_stop: its step, and for how long
  network, socket,      \* requests and answers on their way; answers received
  answer,               \* the answer the thread works on
  data, at,             \* the ring of samples, data_index
  heard, offset,        \* client_time_received, sync_offset
  frame,                \* the timestamp of a frame on its way
  fixed                 \* remote_clock_offset

threadVars == <<phase, timer, network, socket, answer, data, at, heard, offset>>
clockVars == <<now, skew, wasSet, alive, stop, waited, frame, fixed, threadVars>>

NoAnswer == [t0 |-> 0, t1 |-> 0, clean |-> TRUE]
Index == 0..Samples - 1

ClockTypeOK ==
  /\ phase \in {"test", "receive", "take", "store", "pause", "over"}
  /\ timer \in Nat /\ waited \in Nat /\ now \in Int /\ skew \in Int
  /\ alive \in BOOLEAN /\ heard \in BOOLEAN /\ wasSet \in BOOLEAN
  /\ stop \in {"idle", "no", "signal", "join", "done"}
  /\ at \in Index /\ offset \in Int /\ frame \in Int /\ fixed \in Int
  /\ data \in [Index -> [offset : Int, delay : Int, clean : BOOLEAN]]

ClockInit ==
  /\ now = Start /\ skew = Skew /\ wasSet = FALSE
  /\ phase = "over" /\ timer = 0 /\ alive = FALSE /\ stop = "idle" /\ waited = 0
  /\ network = {} /\ socket = {} /\ answer = NoAnswer
  /\ data = [i \in Index |-> [offset |-> 0, delay |-> Far, clean |-> TRUE]] /\ at = 0
  /\ heard = FALSE /\ offset = 0
  /\ frame = None /\ fixed = 0

-----------------------------------------------------------------------------
(* A new socket has received nothing, and a flushed one holds nothing.     *)
InitSocket == network' = {} /\ socket' = {}
FlushSocket == socket' = {}

(* raop_ntp_start: without a socket there is no thread, and nobody is told. *)
StartClock ==
  /\ stop = "idle" /\ stop' = "no"
  /\ InitSocket
  /\ \E bound \in BOOLEAN :
       /\ alive' = bound
       /\ phase' = IF bound THEN "test" ELSE "over"
  /\ UNCHANGED <<now, skew, wasSet, timer, waited, answer, data, at, heard, offset, frame, fixed>>

(* Time passes while the thread waits, and no frame stays away too long.   *)
Tick ==
  /\ now < End /\ stop # "idle"
  /\ phase = "over" \/ timer > 0
  /\ phase = "receive" => socket = {}
  /\ frame # None => now + skew - frame < Latency
  /\ now' = now + 1
  /\ timer' = IF phase = "over" THEN 0 ELSE timer - 1
  /\ waited' = IF stop \in {"signal", "join"} /\ phase # "over" THEN waited + 1 ELSE waited
  /\ network' = {packet \in network : now' - packet.t0 <= Lifetime}
  /\ UNCHANGED <<skew, wasSet, phase, alive, stop, socket, answer, data, at, heard, offset, frame, fixed>>

(* The clock is set, while nothing is played: pthread_cond_timedwait waits *)
(* for a time on it.  A sample or an answer that began before is not clean *)
(* any more.                                                               *)
ClockIsSet ==
  /\ stop # "idle" /\ ~wasSet /\ wasSet' = TRUE /\ frame = None /\ fixed = 0
  /\ \E step \in Steps :
       /\ now' = now + step /\ skew' = skew - step
       /\ timer' = IF phase # "pause" THEN timer ELSE IF timer > step THEN timer - step ELSE 0
  /\ network' = {[a EXCEPT !.clean = FALSE] : a \in network}
  /\ socket' = {[a EXCEPT !.clean = FALSE] : a \in socket}
  /\ answer' = [answer EXCEPT !.clean = FALSE]
  /\ data' = [i \in Index |-> [data[i] EXCEPT !.clean = FALSE]]
  /\ UNCHANGED <<phase, alive, stop, waited, at, heard, offset, frame, fixed>>

-----------------------------------------------------------------------------
(* The network and the client: its answer carries our time of sending back.*)
(* A packet may stay on its way until it is too old: it is lost.           *)
Answered(request) == [request EXCEPT !.t1 = now + skew]
Travel ==
  /\ \E packet \in network :
       \/ /\ packet.t1 = 0
          /\ network' = (network \ {packet}) \union {Answered(packet)} /\ UNCHANGED socket
       \/ /\ packet.t1 # 0
          /\ network' = network \ {packet} /\ socket' = socket \union {packet}
  /\ UNCHANGED <<now, skew, wasSet, phase, timer, alive, stop, waited, answer, data, at, heard, offset, frame, fixed>>

-----------------------------------------------------------------------------
(* raop_ntp_thread.                                                        *)
others == <<now, skew, wasSet, alive, stop, waited, frame, fixed>>

(* The test of running, the flush of the socket and the request.           *)
Request ==
  /\ phase = "test" /\ timer = 0
  /\ IF ~alive THEN phase' = "over" /\ UNCHANGED <<timer, network, socket>>
     ELSE \/ /\ phase' = "receive" /\ timer' = Timeout /\ FlushSocket
             /\ network' = network \union {[t0 |-> now, t1 |-> 0, clean |-> TRUE]}
          \/ (* the request cannot be sent *)
             /\ phase' = "pause" /\ timer' = Pause /\ FlushSocket /\ UNCHANGED network
  /\ UNCHANGED <<answer, data, at, heard, offset, others>>

WaitTime == Pause

Receive ==
  /\ phase = "receive"
  /\ \/ /\ \E a \in socket : answer' = a /\ socket' = socket \ {a}
        /\ phase' = "take" /\ timer' = 0
     \/ /\ timer = 0 /\ socket = {}
        /\ phase' = "pause" /\ timer' = WaitTime /\ UNCHANGED <<answer, socket>>
  /\ UNCHANGED <<network, data, at, heard, offset, others>>

(* The flag is up before there is an offset.                               *)
Take ==
  /\ phase = "take" /\ phase' = "store" /\ heard' = TRUE
  /\ UNCHANGED <<timer, network, socket, answer, data, at, offset, others>>

(* C division.                                                             *)
Half(n) == IF n >= 0 THEN n \div 2 ELSE -((-n) \div 2)
(* One client time stands for t1 and t2.                                   *)
Sample(a, t3) == [offset |-> Half((a.t1 - a.t0) + (a.t1 - t3)), delay |-> t3 - a.t0, clean |-> a.clean]
(* qsort by delay, and its first: any of the quickest.                     *)
(* Mutant: sorted the other way.                                           *)
Worst(samples) == {s \in samples : \A other \in samples : other.delay <= s.delay}
Best(samples) == {s \in samples : \A other \in samples : s.delay <= other.delay}

Store ==
  /\ phase = "store" /\ phase' = "pause" /\ timer' = WaitTime
  /\ at' = (at + 1) % Samples
  /\ data' = [data EXCEPT ![at'] = Sample(answer, now)]
  /\ \E best \in Best({data'[i] : i \in Index}) : offset' = best.offset
  /\ answer' = NoAnswer
  /\ UNCHANGED <<network, socket, heard, others>>

Wake ==
  /\ phase = "pause" /\ timer = 0 /\ phase' = "test"
  /\ UNCHANGED <<timer, network, socket, answer, data, at, heard, offset, others>>

-----------------------------------------------------------------------------
(* raop_ntp_stop: the flag, the signal, which is lost on a thread that     *)
(* does not wait yet, and the join; nothing where no thread was started.   *)
StopClock ==
  /\ \/ /\ stop = "no" /\ frame = None /\ fixed = 0  \* the streams were joined before
        /\ stop' = (IF alive THEN "signal" ELSE "done") /\ alive' = FALSE
        /\ UNCHANGED <<phase, timer>>
     \/ /\ stop = "signal" /\ stop' = "join"
        /\ IF phase = "pause" THEN phase' = "test" /\ timer' = 0 ELSE UNCHANGED <<phase, timer>>
        /\ UNCHANGED alive
     \/ /\ stop = "join" /\ phase = "over" /\ stop' = "done"
        /\ UNCHANGED <<alive, phase, timer>>
  /\ UNCHANGED <<now, skew, wasSet, waited, network, socket, answer, data, at, heard, offset, frame, fixed>>

-----------------------------------------------------------------------------
(* A frame leaves the client, and is played.  raop_ntp_convert_remote_time *)
(* has no answer before the client was heard; 0 then means the time now.   *)
FrameLeaves ==
  /\ frame = None /\ stop = "no" /\ fixed = 0 /\ ~wasSet
  /\ frame' = now + skew
  /\ UNCHANGED <<now, skew, wasSet, alive, stop, waited, fixed, threadVars>>

ConvertRemoteTime(remote) == IF heard THEN remote - offset ELSE 0
Play ==
  /\ frame # None /\ frame' = None
  /\ LET local == ConvertRemoteTime(frame)
     IN fixed' = IF fixed # 0 THEN fixed ELSE (IF local # 0 THEN local ELSE now) - frame
  /\ UNCHANGED <<now, skew, wasSet, alive, stop, waited, threadVars>>

(* conn_destroy, video_reset.                                              *)
Forget ==
  /\ fixed # 0 /\ fixed' = 0
  /\ UNCHANGED <<now, skew, wasSet, alive, stop, waited, frame, threadVars>>

ClockNext ==
  \/ StartClock \/ Tick \/ ClockIsSet \/ Travel
  \/ Request \/ Receive \/ Take \/ Store \/ Wake \/ StopClock
  \/ FrameLeaves \/ Play \/ Forget

ClockSpec == ClockInit /\ [][ClockNext]_clockVars

-----------------------------------------------------------------------------
Abs(n) == IF n < 0 THEN -n ELSE n

(* The offset in use is as close to the true one as the quickest exchange  *)
(* in the ring allows, lost and late answers or not, and a clock that was  *)
(* set is followed once the ring holds no older sample.  While it was not, *)
(* the offset a session is fixed to is never off by more than the latency  *)
(* of a frame, or half the age of an answer: not even by a frame that      *)
(* comes between "heard" and the first offset.                             *)
ClockIsClose ==
  /\ ClockTypeOK
  /\ (\A i \in Index : data[i].clean) /\ (\E i \in Index : data[i].delay < Far) =>
       \A i \in Index : 2 * Abs(offset - skew) <= data[i].delay + 1
  /\ fixed # 0 /\ ~wasSet =>
       \/ Abs(fixed + skew) <= Latency
       \/ 2 * Abs(fixed + skew) <= Lifetime + 1

(* The thread is joined within one timeout and one pause of the stop, even *)
(* when the signal is lost, or later by as much as the clock was set back. *)
StopIsPrompt ==
  \/ waited <= Timeout + Pause
  \/ wasSet /\ \E step \in Steps : waited <= Timeout + Pause - step

ClockIsTrue == ClockIsClose /\ StopIsPrompt
==============================================================================
