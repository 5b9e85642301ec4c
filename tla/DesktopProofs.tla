--------------------------- MODULE DesktopProofs ----------------------------
(***************************************************************************)
(* Proofs about the application around the engine: the window and its      *)
(* workers, what Bonjour advertises, the update checker, the Bluetooth     *)
(* beacon, and the shape of the mirror window.                             *)
(***************************************************************************)
EXTENDS AppControl, Advertisement, UpdateChecker, Beacon, MirrorShape, Modular, SequenceTheorems,
        FiniteSetTheorems, TLAPS

-----------------------------------------------------------------------------
(***************************************************************************)
(* AppControl: the window and its workers fit, for every set of worker     *)
(* objects and every bound on timers and pending changes.                  *)
(*                                                                         *)
(* WindowFits is inductive but for one fact: while stopServer waits, the   *)
(* window has no worker of its own (Waits).  So the one it waits for is    *)
(* the only one that may still run, and restarting finds none.             *)
(*                                                                         *)
(* RunningIsShown speaks of an empty queue only.  Shown says what it is    *)
(* while signals are under way: the last one to matter is a started.       *)
(***************************************************************************)
Waits == gui = "waiting" => m_worker = None

(* A worker that has ended is still to be deleted.                         *)
Announced(q, w) == \E i \in 1 .. Len(q) : q[i] = <<"finished", w>>

WInv == TypeOK /\ Waits /\ WorkersAreAccountedFor /\ GoneWithoutThreads

WorkerStates == Alive \cup {"none", "done", "deleted"}

(* The parts of the type invariant that steps leave alone together.        *)
LifeTypes == LifeTypeOK
GuiTypes ==
  /\ gui \in {"free", "waiting", "gone"} /\ after \in {"idle", "start", "soon", "gone"}
  /\ target \in Workers \cup {None}
FlagTypes ==
  /\ m_running \in BOOLEAN /\ m_quitting \in BOOLEAN /\ m_applyWhenIdle \in BOOLEAN
  /\ session \in BOOLEAN /\ quitSoon \in BOOLEAN /\ wanted \in BOOLEAN
  /\ m_pendingChanges \in 0 .. MaxPending /\ timers \in 0 .. MaxTimers
WorkerTypes ==
  /\ m_worker \in Workers \cup {None} /\ worker \in [Workers -> WorkerStates]
  /\ told \in [Workers -> BOOLEAN] /\ attached \in [Workers -> BOOLEAN]
QueueTypes == queue \in Seq(Signals \X Workers)

-----------------------------------------------------------------------------
LEMMA TypesAre ==
  TypeOK <=> LifeTypes /\ GuiTypes /\ FlagTypes /\ WorkerTypes /\ QueueTypes
BY DEF TypeOK, LifeTypes, GuiTypes, FlagTypes, WorkerTypes, QueueTypes, WorkerStates

LEMMA TypesAreNext ==
  TypeOK' <=> LifeTypes' /\ GuiTypes' /\ FlagTypes' /\ WorkerTypes' /\ QueueTypes'
BY DEF TypeOK, LifeTypes, GuiTypes, FlagTypes, WorkerTypes, QueueTypes, WorkerStates

(* What is posted stays posted, and only its delivery takes it.            *)
LEMMA PostedStays ==
  ASSUME NEW q \in Seq(Signals \X Workers), NEW w \in Workers, NEW e \in Signals \X Workers
  PROVE  /\ Append(q, e) \in Seq(Signals \X Workers)
         /\ Announced(q, w) => Announced(Append(q, e), w)
         /\ e = <<"finished", w>> => Announced(Append(q, e), w)
<1>1. /\ Append(q, e) \in Seq(Signals \X Workers) /\ Len(Append(q, e)) = Len(q) + 1
      /\ Append(q, e)[Len(q) + 1] = e /\ \A i \in 1 .. Len(q) : Append(q, e)[i] = q[i]
      /\ Len(q) \in Nat
  BY AppendProperties, LenProperties
<1>2. ASSUME Announced(q, w)
      PROVE  Announced(Append(q, e), w)
  <2>1. PICK i \in 1 .. Len(q) : q[i] = <<"finished", w>>
    BY <1>2 DEF Announced
  <2>2. i \in 1 .. Len(Append(q, e)) /\ Append(q, e)[i] = <<"finished", w>>
    BY <1>1, <2>1
  <2> QED BY <2>2 DEF Announced
<1>3. ASSUME e = <<"finished", w>>
      PROVE  Announced(Append(q, e), w)
  <2>1. Len(q) + 1 \in 1 .. Len(Append(q, e))
    BY <1>1
  <2> QED BY <1>1, <1>3, <2>1 DEF Announced
<1> QED BY <1>1, <1>2, <1>3

LEMMA DeliveredGoes ==
  ASSUME NEW q \in Seq(Signals \X Workers), q # <<>>, NEW w \in Workers
  PROVE  /\ Head(q) \in Signals \X Workers /\ Tail(q) \in Seq(Signals \X Workers)
         /\ Announced(q, w) => Head(q) = <<"finished", w>> \/ Announced(Tail(q), w)
<1>1. /\ Head(q) \in Signals \X Workers /\ Tail(q) \in Seq(Signals \X Workers)
      /\ Len(Tail(q)) = Len(q) - 1 /\ \A i \in 1 .. Len(Tail(q)) : Tail(q)[i] = q[i + 1]
  BY HeadTailProperties
<1>2. Len(q) \in Nat /\ Head(q) = q[1]
  BY LenProperties
<1>3. ASSUME Announced(q, w), Head(q) # <<"finished", w>>
      PROVE  Announced(Tail(q), w)
  <2>1. PICK i \in 1 .. Len(q) : q[i] = <<"finished", w>>
    BY <1>3 DEF Announced
  <2>2. i - 1 \in 1 .. Len(Tail(q)) /\ Tail(q)[i - 1] = q[i]
    BY <1>1, <1>2, <1>3, <2>1
  <2> QED BY <2>1, <2>2 DEF Announced
<1> QED BY <1>1, <1>3

-----------------------------------------------------------------------------
(* What leaves workers and queue alone.                                    *)
LEMMA QuietStep ==
  ASSUME WInv, TypeOK', UNCHANGED <<worker, queue, m_worker, gui, target>>
  PROVE  WInv'
BY DEF WInv, Waits, WorkersAreAccountedFor, GoneWithoutThreads, Running

(* What a call of startServer leaves of the types.                         *)
LEMMA StartTypes ==
  ASSUME WInv, StartServer
  PROVE  WorkerTypes'
<1>1. WorkerTypes
  BY TypesAre DEF WInv
<1>2. CASE UNCHANGED <<m_worker, workerVars>>
  BY <1>1, <1>2 DEF WorkerTypes, workerVars
<1>3. ASSUME NEW w \in Workers, m_worker' = w, worker' = [Forgotten EXCEPT ![w] = "run"],
             told' = [told EXCEPT ![w] = FALSE], attached' = [attached EXCEPT ![w] = TRUE]
      PROVE  WorkerTypes'
  <2>1. Forgotten \in [Workers -> WorkerStates]
    BY <1>1 DEF WorkerTypes, Forgotten, WorkerStates
  <2>2. worker' \in [Workers -> WorkerStates]
    BY <1>3, <2>1 DEF WorkerStates, Alive
  <2> QED BY <1>1, <1>3, <2>2 DEF WorkerTypes
<1> QED BY <1>2, <1>3 DEF StartServer

(* The window starts a worker only where it has none that runs, so the new *)
(* one is alone.                                                           *)
LEMMA StartKeeps ==
  ASSUME WInv, TypeOK', StartServer, queue' = queue, gui' = "free",
         \/ gui = "free"
         \/ gui = "waiting" /\ (target # None => worker[target] \in {"done", "none"})
  PROVE  WInv'
<1>1. WorkerTypes /\ WorkerTypes' /\ Waits
  BY TypesAre, TypesAreNext DEF WInv
<1>2. ASSUME NEW v \in Workers, Running(v)
      PROVE  gui = "free" /\ v = m_worker
  BY <1>2, NoneIsNoWorker DEF WInv, Waits, WorkersAreAccountedFor, Running, Alive
<1>3. WorkersAreAccountedFor'
  <2>1. CASE UNCHANGED <<m_worker, workerVars>>
    BY <1>2, <2>1 DEF WInv, WorkersAreAccountedFor, Running, workerVars
  <2>2. ASSUME MayBeOver(m_worker), NEW w \in Workers, m_worker' = w,
               worker' = [Forgotten EXCEPT ![w] = "run"]
        PROVE  WorkersAreAccountedFor'
    <3>1. ASSUME NEW v \in Workers, v # w
          PROVE  ~Running(v)' /\ (worker'[v] = "done" => worker[v] = "done")
      <4>1. ~Running(v)
        BY <1>1, <1>2, <2>2, NoneIsNoWorker DEF MayBeOver, Running, Alive
      <4>2. worker'[v] = worker[v] \/ worker'[v] = "none"
        BY <1>1, <2>2, <3>1 DEF Forgotten, WorkerTypes
      <4> QED BY <4>1, <4>2 DEF Running, Alive
    <3>2. worker'[w] = "run"
      BY <1>1, <2>2 DEF Forgotten, WorkerTypes
    <3> QED BY <2>2, <3>1, <3>2 DEF WInv, WorkersAreAccountedFor
  <2> QED BY <2>1, <2>2 DEF StartServer
<1> QED BY <1>3 DEF WInv, Waits, GoneWithoutThreads

LEMMA StopTypes ==
  ASSUME WInv, NEW then \in {"idle", "start", "soon", "gone"}, StopServer(then)
  PROVE  LifeTypes' /\ GuiTypes' /\ WorkerTypes' /\ session' \in BOOLEAN
<1>1. LifeTypes /\ GuiTypes /\ WorkerTypes
  BY TypesAre DEF WInv
<1>2. /\ gui' = "waiting" /\ after' = then /\ m_worker' = None /\ session' = FALSE
  BY DEF StopServer
<1>3. CASE m_worker = None
  <2>1. target' = None /\ UNCHANGED <<workerVars, lifeVars>>
    BY <1>3 DEF StopServer
  <2> QED BY <1>1, <1>2, <2>1 DEF LifeTypes, LifeTypeOK, GuiTypes, WorkerTypes, workerVars, lifeVars
<1>4. CASE m_worker # None
  <2>1. m_worker \in Workers
    BY <1>1, <1>4 DEF WorkerTypes
  <2>2. attached' = [attached EXCEPT ![m_worker] = FALSE]
    BY <1>4 DEF StopServer
  <2>3. CASE target' = m_worker /\ told' = [told EXCEPT ![m_worker] = TRUE] /\ AskStop
             /\ UNCHANGED worker
    BY <1>1, <1>2, <2>1, <2>2, <2>3 DEF LifeTypes, LifeTypeOK, GuiTypes, WorkerTypes, AskStop
  <2>4. CASE target' = None /\ worker' = Forgotten /\ UNCHANGED <<told, lifeVars>>
    <3>1. Forgotten \in [Workers -> WorkerStates]
      BY <1>1 DEF WorkerTypes, Forgotten, WorkerStates
    <3> QED BY <1>1, <1>2, <2>2, <2>4, <3>1
            DEF LifeTypes, LifeTypeOK, GuiTypes, WorkerTypes, lifeVars
  <2> QED BY <1>4, <2>3, <2>4 DEF StopServer
<1> QED BY <1>3, <1>4

(* A worker that may still run when the window lets go of it is the one it *)
(* waits for.                                                              *)
LEMMA StopKeeps ==
  ASSUME WInv, TypeOK', gui = "free", queue' = queue,
         NEW then \in {"idle", "start", "soon", "gone"}, StopServer(then)
  PROVE  WInv'
<1>1. WorkerTypes /\ WorkerTypes'
  BY TypesAre, TypesAreNext DEF WInv
<1>2. gui' = "waiting" /\ m_worker' = None
  BY DEF StopServer
<1>3. WorkersAreAccountedFor'
  <2>1. CASE m_worker = None
    <3>1. UNCHANGED worker
      BY <2>1 DEF StopServer, workerVars
    <3>2. \A v \in Workers : ~Running(v)
      BY <2>1, NoneIsNoWorker DEF WInv, WorkersAreAccountedFor
    <3> QED BY <3>1, <3>2 DEF WInv, WorkersAreAccountedFor, Running
  <2>2. CASE target' = m_worker /\ UNCHANGED worker
    BY <1>2, <2>2 DEF WInv, WorkersAreAccountedFor, Running
  <2>3. CASE m_worker # None /\ MayBeOver(m_worker) /\ worker' = Forgotten
    <3>1. ASSUME NEW v \in Workers
          PROVE  ~Running(v)' /\ (worker'[v] = "done" => worker[v] = "done")
      <4>1. ~Running(v)
        BY <2>3 DEF WInv, WorkersAreAccountedFor, MayBeOver, Running, Alive
      <4>2. worker'[v] = worker[v] \/ worker'[v] = "none"
        BY <1>1, <2>3 DEF Forgotten, WorkerTypes
      <4> QED BY <4>1, <4>2 DEF Running, Alive
    <3> QED BY <3>1 DEF WInv, WorkersAreAccountedFor
  <2> QED BY <2>1, <2>2, <2>3 DEF StopServer
<1> QED BY <1>2, <1>3 DEF WInv, Waits, GoneWithoutThreads

-----------------------------------------------------------------------------
(* What the user does, and the timers.                                     *)
LEMMA QuitKeeps ==
  ASSUME WInv, NEW then \in {"soon", "gone"}, Quit(then)
  PROVE  WInv'
<1>1. LifeTypes /\ GuiTypes /\ FlagTypes /\ WorkerTypes /\ QueueTypes
  BY TypesAre DEF WInv
<1>2. gui = "free" /\ StopServer(then) /\ queue' = queue
  BY DEF Quit
<1>3. LifeTypes' /\ GuiTypes' /\ WorkerTypes' /\ session' \in BOOLEAN
  BY <1>2, StopTypes
<1>4. FlagTypes' /\ QueueTypes'
  BY <1>1, <1>3 DEF Quit, FlagTypes, QueueTypes, settings
<1>5. TypeOK'
  BY <1>3, <1>4, TypesAreNext
<1> QED BY <1>2, <1>5, StopKeeps

LEMMA RestartKeeps ==
  ASSUME WInv, gui = "free", RestartEngine
  PROVE  WInv'
<1>1. LifeTypes /\ GuiTypes /\ FlagTypes /\ WorkerTypes /\ QueueTypes
  BY TypesAre DEF WInv
<1>2. StopServer("start") /\ queue' = queue
  BY DEF RestartEngine
<1>3. LifeTypes' /\ GuiTypes' /\ WorkerTypes' /\ session' \in BOOLEAN
  BY <1>2, StopTypes
<1>4. /\ m_pendingChanges' = 0 /\ m_applyWhenIdle' = FALSE /\ wanted' = TRUE
      /\ UNCHANGED <<m_running, ending, timers, queue>>
  BY DEF RestartEngine
<1>5. 0 \in 0 .. MaxPending
  BY BoundsArePositive
<1>6. FlagTypes' /\ QueueTypes'
  BY <1>1, <1>3, <1>4, <1>5 DEF FlagTypes, QueueTypes, ending
<1>7. TypeOK'
  BY <1>3, <1>6, TypesAreNext
<1> QED BY <1>2, <1>7, StopKeeps

LEMMA ToggleKeeps ==
  ASSUME WInv, Toggle
  PROVE  WInv'
<1>1. LifeTypes /\ GuiTypes /\ FlagTypes /\ WorkerTypes /\ QueueTypes
  BY TypesAre DEF WInv
<1>2. /\ gui = "free" /\ queue' = queue /\ (wanted' <=> ~m_running)
      /\ UNCHANGED <<m_running, ending, settings, timers>>
  BY DEF Toggle
<1>3. wanted' \in BOOLEAN /\ QueueTypes'
  BY <1>1, <1>2 DEF Toggle, QueueTypes
<1>4. CASE StopServer("idle")
  <2>1. LifeTypes' /\ GuiTypes' /\ WorkerTypes' /\ session' \in BOOLEAN
    BY <1>4, StopTypes
  <2>2. FlagTypes'
    BY <1>1, <1>2, <1>3, <2>1 DEF FlagTypes, ending, settings
  <2>3. TypeOK'
    BY <1>3, <2>1, <2>2, TypesAreNext
  <2> QED BY <1>2, <1>4, <2>3, StopKeeps
<1>5. CASE StartServer /\ UNCHANGED <<lifeVars, guiVars, session>>
  <2>1. WorkerTypes'
    BY <1>5, StartTypes
  <2>2. LifeTypes' /\ GuiTypes' /\ FlagTypes'
    BY <1>1, <1>2, <1>3, <1>5
       DEF LifeTypes, LifeTypeOK, lifeVars, GuiTypes, guiVars, FlagTypes, ending, settings
  <2>3. TypeOK' /\ gui' = "free"
    BY <1>2, <1>3, <1>5, <2>1, <2>2, TypesAreNext DEF guiVars
  <2> QED BY <1>2, <1>5, <2>3, StartKeeps
<1> QED BY <1>4, <1>5 DEF Toggle

LEMMA ApplyWhenIdleKeeps ==
  ASSUME WInv, ApplyWhenIdle
  PROVE  WInv'
<1>1. LifeTypes /\ GuiTypes /\ FlagTypes /\ WorkerTypes /\ QueueTypes
  BY TypesAre DEF WInv
<1>2. LifeTypes' /\ GuiTypes' /\ WorkerTypes' /\ QueueTypes'
  BY <1>1 DEF ApplyWhenIdle, LifeTypes, LifeTypeOK, lifeVars, GuiTypes, guiVars, WorkerTypes,
              workerVars, QueueTypes
<1>3. FlagTypes'
  BY <1>1 DEF ApplyWhenIdle, FlagTypes, ending
<1>4. TypeOK'
  BY <1>2, <1>3, TypesAreNext
<1> QED BY <1>4, QuietStep DEF ApplyWhenIdle, guiVars, workerVars

LEMMA ChangeSettingKeeps ==
  ASSUME WInv, ChangeSetting
  PROVE  WInv'
<1>1. LifeTypes /\ GuiTypes /\ FlagTypes /\ WorkerTypes /\ QueueTypes
  BY TypesAre DEF WInv
<1>2. CASE RestartEngine
  BY <1>2, RestartKeeps DEF ChangeSetting
<1>3. CASE /\ ~m_running \/ (session /\ m_pendingChanges < MaxPending)
           /\ m_pendingChanges' = (IF m_running THEN m_pendingChanges + 1 ELSE 0)
           /\ UNCHANGED <<lifeVars, guiVars, m_worker, m_running, ending, m_applyWhenIdle,
                          session, timers, queue, workerVars, wanted>>
  <2>1. LifeTypes' /\ GuiTypes' /\ WorkerTypes' /\ QueueTypes'
    BY <1>1, <1>3 DEF LifeTypes, LifeTypeOK, lifeVars, GuiTypes, guiVars, WorkerTypes,
                      workerVars, QueueTypes
  <2>2. m_pendingChanges' \in 0 .. MaxPending
    BY <1>1, <1>3, BoundsArePositive DEF FlagTypes
  <2>3. FlagTypes'
    BY <1>1, <1>3, <2>2 DEF FlagTypes, ending
  <2>4. TypeOK'
    BY <2>1, <2>3, TypesAreNext
  <2> QED BY <1>3, <2>4, QuietStep DEF guiVars, workerVars
<1> QED BY <1>2, <1>3 DEF ChangeSetting

LEMMA RestartTimerKeeps ==
  ASSUME WInv, RestartTimer
  PROVE  WInv'
<1>1. LifeTypes /\ GuiTypes /\ FlagTypes /\ WorkerTypes /\ QueueTypes
  BY TypesAre DEF WInv
<1>2. /\ gui = "free" /\ timers > 0 /\ timers' = timers - 1 /\ StartServer
      /\ UNCHANGED <<lifeVars, guiVars, m_running, ending, settings, session, queue, wanted>>
  BY DEF RestartTimer
<1>3. WorkerTypes'
  BY <1>2, StartTypes
<1>4. LifeTypes' /\ GuiTypes' /\ QueueTypes' /\ queue' = queue /\ gui' = "free"
  BY <1>1, <1>2 DEF LifeTypes, LifeTypeOK, lifeVars, GuiTypes, guiVars, QueueTypes
<1>5. timers' \in 0 .. MaxTimers
  BY <1>1, <1>2, BoundsArePositive DEF FlagTypes
<1>6. FlagTypes'
  BY <1>1, <1>2, <1>5 DEF FlagTypes, ending, settings
<1>7. TypeOK'
  BY <1>3, <1>4, <1>6, TypesAreNext
<1> QED BY <1>2, <1>4, <1>7, StartKeeps

(* The mirror window comes and goes.                                       *)
LEMMA WindowKeeps ==
  ASSUME WInv, WindowOpens \/ WindowGoes
  PROVE  WInv'
<1>1. LifeTypes /\ GuiTypes /\ FlagTypes /\ WorkerTypes /\ QueueTypes
  BY TypesAre DEF WInv
<1>2. /\ session' \in BOOLEAN
      /\ UNCHANGED <<lifeVars, guiVars, m_worker, m_running, ending, settings, timers, queue,
                     workerVars, wanted>>
  BY DEF WindowOpens, WindowGoes
<1>3. LifeTypes' /\ GuiTypes' /\ WorkerTypes' /\ QueueTypes'
  BY <1>1, <1>2 DEF LifeTypes, LifeTypeOK, lifeVars, GuiTypes, guiVars, WorkerTypes,
                    workerVars, QueueTypes
<1>4. FlagTypes'
  BY <1>1, <1>2 DEF FlagTypes, ending, settings
<1>5. TypeOK'
  BY <1>3, <1>4, TypesAreNext
<1> QED BY <1>2, <1>5, QuietStep DEF guiVars, workerVars

LEMMA EngineServesKeeps ==
  ASSUME WInv, EngineServes
  PROVE  WInv'
<1>1. LifeTypes /\ GuiTypes /\ FlagTypes /\ WorkerTypes /\ QueueTypes
  BY TypesAre DEF WInv
<1>2. LifeTypes'
  BY <1>1 DEF EngineServes, Serve, LifeTypes, LifeTypeOK
<1>3. GuiTypes' /\ FlagTypes' /\ WorkerTypes' /\ QueueTypes'
  BY <1>1 DEF EngineServes, Window, GuiTypes, guiVars, FlagTypes, ending, settings, WorkerTypes,
              QueueTypes
<1>4. TypeOK'
  BY <1>2, <1>3, TypesAreNext
<1> QED BY <1>4, QuietStep DEF EngineServes, Window, guiVars

-----------------------------------------------------------------------------
(* stopServer goes on: its worker has ended, so none runs.                 *)
LEMMA ResumeKeeps ==
  ASSUME WInv, Resume
  PROVE  WInv'
<1>1. LifeTypes /\ GuiTypes /\ FlagTypes /\ WorkerTypes /\ QueueTypes
  BY TypesAre DEF WInv
<1>2. /\ gui = "waiting" /\ (target # None => worker[target] \in {"done", "none"})
      /\ m_running' = FALSE /\ target' = None /\ after' = "idle"
      /\ gui' = (IF after = "gone" THEN "gone" ELSE "free")
      /\ (quitSoon' <=> (quitSoon \/ after = "soon"))
      /\ UNCHANGED <<lifeVars, m_quitting, settings, session, timers, queue, wanted>>
  BY DEF Resume, AfterStop
<1>3. LifeTypes' /\ GuiTypes' /\ QueueTypes'
  BY <1>1, <1>2 DEF LifeTypes, LifeTypeOK, lifeVars, GuiTypes, QueueTypes
<1>4. quitSoon' \in BOOLEAN
  BY <1>1, <1>2 DEF Resume, AfterStop, FlagTypes
<1>5. FlagTypes'
  BY <1>1, <1>2, <1>4 DEF FlagTypes, settings
<1>6. CASE after = "start"
  <2>1. StartServer
    BY <1>6 DEF Resume, AfterStop
  <2>2. TypeOK'
    BY <1>3, <1>5, <2>1, StartTypes, TypesAreNext
  <2> QED BY <1>2, <1>6, <2>1, <2>2, StartKeeps
<1>7. CASE after # "start"
  <2>1. UNCHANGED <<m_worker, workerVars>>
    BY <1>7 DEF Resume, AfterStop
  <2>2. WorkerTypes'
    BY <1>1, <2>1 DEF WorkerTypes, workerVars
  <2>3. TypeOK'
    BY <1>3, <1>5, <2>2, TypesAreNext
  <2>4. ASSUME NEW v \in Workers
        PROVE  ~Running(v)
    BY <1>2, NoneIsNoWorker DEF WInv, Waits, WorkersAreAccountedFor, Running, Alive
  <2>5. WorkersAreAccountedFor' /\ GoneWithoutThreads'
    BY <1>2, <2>1, <2>4 DEF WInv, WorkersAreAccountedFor, GoneWithoutThreads, Running, workerVars
  <2>6. Waits'
    BY <1>2 DEF Waits
  <2> QED BY <2>3, <2>5, <2>6 DEF WInv
<1> QED BY <1>6, <1>7

(* A worker that is killed is announced like one that has ended.           *)
LEMMA TerminateKeeps ==
  ASSUME WInv, Terminate
  PROVE  WInv'
<1>1. LifeTypes /\ GuiTypes /\ FlagTypes /\ WorkerTypes /\ QueueTypes
  BY TypesAre DEF WInv
<1>2. /\ gui = "waiting" /\ target \in Workers
      /\ UNCHANGED <<stop, code, guiVars, m_worker, m_running, ending, settings, session, timers,
                     told, attached, wanted>>
  BY <1>1 DEF Terminate, GuiTypes
<1>3. GuiTypes' /\ FlagTypes'
  BY <1>1, <1>2 DEF GuiTypes, guiVars, FlagTypes, ending, settings
<1>4. Waits' /\ gui' = "waiting"
  BY <1>2 DEF WInv, Waits, guiVars
<1>5. CASE /\ worker' = [worker EXCEPT ![target] = "done"]
           /\ queue' = Append(queue, <<"finished", target>>)
           /\ phase' = "off"
  <2>1. <<"finished", target>> \in Signals \X Workers
    BY <1>2 DEF Signals
  <2>2. QueueTypes' /\ Announced(queue', target)
        /\ \A v \in Workers : Announced(queue, v) => Announced(queue', v)
    BY <1>1, <1>2, <1>5, <2>1, PostedStays DEF QueueTypes
  <2>3. worker' \in [Workers -> WorkerStates]
    BY <1>1, <1>5 DEF WorkerTypes, WorkerStates
  <2>4. LifeTypes' /\ WorkerTypes'
    BY <1>1, <1>2, <1>5, <2>3 DEF LifeTypes, LifeTypeOK, WorkerTypes
  <2>5. TypeOK'
    BY <1>3, <2>2, <2>4, TypesAreNext
  <2>6. ASSUME NEW v \in Workers
        PROVE  /\ Running(v)' => Running(v)
               /\ worker'[v] = "done" => v = target \/ worker[v] = "done"
    BY <1>1, <1>2, <1>5 DEF Running, Alive, WorkerTypes
  <2>7. WorkersAreAccountedFor'
    BY <1>2, <2>2, <2>6 DEF WInv, WorkersAreAccountedFor, Announced, guiVars
  <2> QED BY <1>4, <2>5, <2>7 DEF WInv, GoneWithoutThreads
<1>6. CASE worker' = [worker EXCEPT ![target] = "none"] /\ UNCHANGED <<queue, phase>>
  <2>1. worker' \in [Workers -> WorkerStates]
    BY <1>1, <1>6 DEF WorkerTypes, WorkerStates
  <2>2. LifeTypes' /\ WorkerTypes' /\ QueueTypes'
    BY <1>1, <1>2, <1>6, <2>1 DEF LifeTypes, LifeTypeOK, WorkerTypes, QueueTypes
  <2>3. TypeOK'
    BY <1>3, <2>2, TypesAreNext
  <2>4. ASSUME NEW v \in Workers
        PROVE  /\ Running(v)' => Running(v)
               /\ worker'[v] = "done" => worker[v] = "done"
    BY <1>1, <1>6 DEF Running, Alive, WorkerTypes
  <2>5. WorkersAreAccountedFor'
    BY <1>2, <1>6, <2>4 DEF WInv, WorkersAreAccountedFor, guiVars
  <2> QED BY <1>4, <2>3, <2>5 DEF WInv, GoneWithoutThreads
<1> QED BY <1>5, <1>6 DEF Terminate

(* The finished signal that is delivered is no longer owed.                *)
LEMMA DeliverKeeps ==
  ASSUME WInv, Deliver
  PROVE  WInv'
<1>1. LifeTypes /\ GuiTypes /\ FlagTypes /\ WorkerTypes /\ QueueTypes
  BY TypesAre DEF WInv
<1>2. /\ gui = "free" /\ queue # <<>> /\ queue' = Tail(queue)
      /\ UNCHANGED <<lifeVars, guiVars, m_worker, ending, told, attached, wanted>>
  BY DEF Deliver
<1>3. /\ Head(queue) \in Signals \X Workers /\ queue' \in Seq(Signals \X Workers)
      /\ \A v \in Workers : Announced(queue, v) =>
            Head(queue) = <<"finished", v>> \/ Announced(queue', v)
  BY <1>1, <1>2, DeliveredGoes DEF QueueTypes
<1>4. LifeTypes' /\ GuiTypes' /\ QueueTypes'
  BY <1>1, <1>2, <1>3 DEF LifeTypes, LifeTypeOK, lifeVars, GuiTypes, guiVars, QueueTypes
<1>5. Waits' /\ GoneWithoutThreads'
  BY <1>2 DEF Waits, GoneWithoutThreads, guiVars
<1>6. ASSUME FlagTypes', worker' \in [Workers -> WorkerStates],
             \A v \in Workers : Running(v)' => Running(v),
             \A v \in Workers : worker'[v] = "done" =>
                worker[v] = "done" /\ Head(queue) # <<"finished", v>>
      PROVE  WInv'
  <2>1. WorkerTypes'
    BY <1>1, <1>2, <1>6 DEF WorkerTypes
  <2>2. TypeOK'
    BY <1>4, <1>6, <2>1, TypesAreNext
  <2>3. WorkersAreAccountedFor'
    BY <1>2, <1>3, <1>6 DEF WInv, WorkersAreAccountedFor, Announced, guiVars
  <2> QED BY <1>5, <2>2, <2>3 DEF WInv
<1>7. CASE Head(queue)[1] = "started" /\ OnStarted
  <2>1. FlagTypes'
    BY <1>1, <1>2, <1>7 DEF OnStarted, FlagTypes, ending, settings
  <2>2. worker' = worker /\ \A v \in Workers : Head(queue) # <<"finished", v>>
    BY <1>7 DEF OnStarted
  <2> QED BY <1>1, <1>6, <2>1, <2>2 DEF WorkerTypes, Running
<1>8. CASE Head(queue)[1] = "stopped" /\ OnStopped
  <2>1. /\ m_pendingChanges' \in 0 .. MaxPending
        /\ m_applyWhenIdle' \in BOOLEAN
    BY <1>1, <1>8, BoundsArePositive DEF OnStopped, FlagTypes, settings
  <2>2. timers' \in 0 .. MaxTimers
    BY <1>1, <1>8, BoundsArePositive DEF OnStopped, FlagTypes, settings
  <2>3. FlagTypes'
    BY <1>1, <1>2, <1>8, <2>1, <2>2 DEF OnStopped, FlagTypes, ending
  <2>4. worker' = worker /\ \A v \in Workers : Head(queue) # <<"finished", v>>
    BY <1>8 DEF OnStopped
  <2> QED BY <1>1, <1>6, <2>3, <2>4 DEF WorkerTypes, Running
<1>9. CASE Head(queue)[1] = "finished" /\ OnFinished(Head(queue)[2])
  <2>1. PICK w \in Workers : Head(queue) = <<"finished", w>>
    BY <1>3, <1>9
  <2>2. /\ worker' = [worker EXCEPT ![w] = IF w = m_worker THEN "deleted" ELSE "none"]
        /\ UNCHANGED <<m_running, session, settings, timers>>
    <3>1. OnFinished(w)
      BY <1>9, <2>1
    <3> QED BY <3>1 DEF OnFinished
  <2>3. FlagTypes'
    BY <1>1, <1>2, <2>2 DEF FlagTypes, ending, settings
  <2>4. worker' \in [Workers -> WorkerStates]
    BY <1>1, <2>2 DEF WorkerTypes, WorkerStates
  <2>5. ASSUME NEW v \in Workers
        PROVE  /\ Running(v)' => Running(v)
               /\ worker'[v] = "done" => worker[v] = "done" /\ Head(queue) # <<"finished", v>>
    BY <1>1, <2>1, <2>2 DEF Running, Alive, WorkerTypes
  <2> QED BY <1>6, <2>3, <2>4, <2>5
<1> QED BY <1>7, <1>8, <1>9 DEF Deliver

-----------------------------------------------------------------------------
(* A worker goes from one place to the next.  It runs before and, but for  *)
(* its end, afterwards.                                                    *)
LEMMA OwnStep ==
  ASSUME WInv, NEW w \in Workers, NEW from \in Alive, NEW to \in Alive \cup {"done"},
         Own(w, from, to), LifeTypes', QueueTypes', UNCHANGED Window,
         \A v \in Workers : Announced(queue, v) => Announced(queue', v),
         to = "done" => Announced(queue', w)
  PROVE  WInv'
<1>1. LifeTypes /\ GuiTypes /\ FlagTypes /\ WorkerTypes /\ QueueTypes
  BY TypesAre DEF WInv
<1>2. Running(w) /\ worker' = [worker EXCEPT ![w] = to]
  BY DEF Own, Running
<1>3. worker' \in [Workers -> WorkerStates]
  BY <1>1, <1>2 DEF WorkerTypes, WorkerStates
<1>4. GuiTypes' /\ FlagTypes' /\ WorkerTypes'
  BY <1>1, <1>3 DEF Window, GuiTypes, guiVars, FlagTypes, ending, settings, WorkerTypes
<1>5. TypeOK'
  BY <1>4, TypesAreNext
<1>6. ASSUME NEW v \in Workers
      PROVE  /\ Running(v)' => Running(v)
             /\ worker'[v] = "done" => (v = w /\ to = "done") \/ worker[v] = "done"
  BY <1>1, <1>2 DEF Running, WorkerTypes
<1>7. WorkersAreAccountedFor'
  BY <1>6 DEF WInv, WorkersAreAccountedFor, Announced, Window, guiVars
<1>8. Waits' /\ GoneWithoutThreads'
  BY <1>6 DEF WInv, Waits, GoneWithoutThreads, Window, guiVars
<1> QED BY <1>5, <1>7, <1>8 DEF WInv

LEMMA PostKeeps ==
  ASSUME WInv, NEW w \in Workers, NEW signal \in Signals
  PROVE  /\ Post(w, signal) \in Seq(Signals \X Workers)
         /\ \A v \in Workers : Announced(queue, v) => Announced(Post(w, signal), v)
<1>1. queue \in Seq(Signals \X Workers) /\ <<signal, w>> \in Signals \X Workers
  BY TypesAre DEF WInv, QueueTypes
<1> QED BY <1>1, PostedStays DEF Post

LEMMA StepKeeps ==
  ASSUME WInv, NEW w \in Workers, Step(w)
  PROVE  WInv'
<1>1. LifeTypes /\ QueueTypes
  BY TypesAre DEF WInv
<1>2. CASE Begin(w)
  <2>1. /\ Own(w, "run", "loop") /\ queue' = Post(w, "started")
        /\ UNCHANGED lifeVars /\ UNCHANGED Window
    BY <1>2 DEF Begin
  <2>2. QueueTypes' /\ \A v \in Workers : Announced(queue, v) => Announced(queue', v)
    BY <2>1, PostKeeps DEF Signals, QueueTypes
  <2>3. LifeTypes'
    BY <1>1, <2>1 DEF LifeTypes, LifeTypeOK, lifeVars
  <2> QED BY <2>1, <2>2, <2>3, OwnStep DEF Alive
<1>3. CASE CallEngine(w)
  <2>1. /\ Own(w, "loop", "calling") /\ queue' = queue /\ UNCHANGED Window
        /\ Call \/ UNCHANGED lifeVars
    BY <1>3 DEF CallEngine
  <2>2. LifeTypes' /\ QueueTypes'
    BY <1>1, <2>1 DEF LifeTypes, LifeTypeOK, lifeVars, Call, QueueTypes
  <2> QED BY <2>1, <2>2, OwnStep DEF Alive
<1>4. CASE Return(w)
  <2>1. PICK to \in {"end", "loop"} : Own(w, "calling", to)
    BY <1>4 DEF Return
  <2>2. queue' = queue /\ UNCHANGED Window /\ (Fail \/ Finish)
    BY <1>4 DEF Return
  <2>3. LifeTypes' /\ QueueTypes'
    BY <1>1, <2>2 DEF LifeTypes, LifeTypeOK, Fail, Finish, QueueTypes
  <2> QED BY <2>1, <2>2, <2>3, OwnStep DEF Alive
<1>5. CASE SeeStop(w)
  <2>1. /\ Own(w, "loop", "end") /\ queue' = queue /\ UNCHANGED Window /\ UNCHANGED lifeVars
    BY <1>5 DEF SeeStop
  <2>2. LifeTypes' /\ QueueTypes'
    BY <1>1, <2>1 DEF LifeTypes, LifeTypeOK, lifeVars, QueueTypes
  <2> QED BY <2>1, <2>2, OwnStep DEF Alive
<1>6. CASE End(w)
  <2>1. /\ Own(w, "end", "done") /\ queue' = Append(Post(w, "stopped"), <<"finished", w>>)
        /\ UNCHANGED lifeVars /\ UNCHANGED Window
    BY <1>6 DEF End
  <2>2. /\ Post(w, "stopped") \in Seq(Signals \X Workers)
        /\ \A v \in Workers : Announced(queue, v) => Announced(Post(w, "stopped"), v)
        /\ <<"finished", w>> \in Signals \X Workers
    BY PostKeeps DEF Signals
  <2>3. /\ queue' \in Seq(Signals \X Workers) /\ Announced(queue', w)
        /\ \A v \in Workers : Announced(Post(w, "stopped"), v) => Announced(queue', v)
    BY <2>1, <2>2, PostedStays
  <2>4. LifeTypes' /\ QueueTypes'
    BY <1>1, <2>1, <2>3 DEF LifeTypes, LifeTypeOK, lifeVars, QueueTypes
  <2> QED BY <2>1, <2>2, <2>3, <2>4, OwnStep DEF Alive
<1> QED BY <1>2, <1>3, <1>4, <1>5, <1>6 DEF Step

-----------------------------------------------------------------------------
LEMMA WInvInit == Init => WInv
<1> SUFFICES ASSUME Init
             PROVE  WInv
  OBVIOUS
<1>1. worker = [w \in Workers |-> "none"] /\ queue = <<>> /\ gui = "free"
  BY DEF Init
<1>2. LifeTypes /\ GuiTypes
  BY DEF Init, LifeInit, LifeTypes, LifeTypeOK, GuiTypes
<1>3. FlagTypes
  <2>1. 0 \in 0 .. MaxPending /\ 0 \in 0 .. MaxTimers
    BY BoundsArePositive
  <2> QED BY <2>1 DEF Init, FlagTypes
<1>4. WorkerTypes
  BY DEF Init, WorkerTypes, WorkerStates
<1>5. QueueTypes
  BY DEF Init, QueueTypes
<1>6. TypeOK
  BY <1>2, <1>3, <1>4, <1>5, TypesAre
<1>7. \A v \in Workers : ~Running(v) /\ worker[v] # "done"
  BY <1>1 DEF Running, Alive
<1> QED BY <1>1, <1>6, <1>7 DEF WInv, Waits, WorkersAreAccountedFor, GoneWithoutThreads

LEMMA WInvNext == WInv /\ [Next]_vars => WInv'
<1> SUFFICES ASSUME WInv, [Next]_vars
             PROVE  WInv'
  OBVIOUS
<1>1. CASE User
  <2>1. CASE Toggle
    BY <2>1, ToggleKeeps
  <2>2. CASE Disconnect \/ ApplyNow
    BY <2>2, RestartKeeps DEF Disconnect, ApplyNow
  <2>3. CASE ApplyWhenIdle
    BY <2>3, ApplyWhenIdleKeeps
  <2>4. CASE ChangeSetting
    BY <2>4, ChangeSettingKeeps
  <2>5. CASE RestartApplication \/ QuitNow
    BY <2>5, QuitKeeps DEF RestartApplication, QuitNow
  <2> QED BY <1>1, <2>1, <2>2, <2>3, <2>4, <2>5 DEF User
<1>2. CASE QuitTimer
  BY <1>2, QuitKeeps DEF QuitTimer
<1>3. CASE Deliver
  BY <1>3, DeliverKeeps
<1>4. CASE RestartTimer
  BY <1>4, RestartTimerKeeps
<1>5. CASE WindowOpens \/ WindowGoes
  BY <1>5, WindowKeeps
<1>6. CASE Resume
  BY <1>6, ResumeKeeps
<1>7. CASE Terminate
  BY <1>7, TerminateKeeps
<1>8. CASE EngineServes
  BY <1>8, EngineServesKeeps
<1>9. CASE \E w \in Workers : Step(w)
  BY <1>9, StepKeeps
<1>10. CASE UNCHANGED vars
  <2>1. TypeOK'
    BY <1>10, TypesAre, TypesAreNext
       DEF WInv, vars, LifeTypes, LifeTypeOK, lifeVars, GuiTypes, guiVars, FlagTypes, ending,
           settings, WorkerTypes, workerVars, QueueTypes
  <2> QED BY <1>10, <2>1, QuietStep DEF vars, guiVars, workerVars
<1> QED BY <1>1, <1>2, <1>3, <1>4, <1>5, <1>6, <1>7, <1>8, <1>9, <1>10 DEF Next

(* Whoever runs is the window's own worker or the one it waits for, never  *)
(* both, so one worker at most is inside the engine.                       *)
LEMMA WInvFits == WInv => WindowFits
<1> SUFFICES ASSUME WInv
             PROVE  OneInEngine
  BY DEF WInv, WindowFits
<1> DEFINE Calling == {w \in Workers : worker[w] = "calling"}
<1>1. ASSUME NEW v \in Calling, NEW w \in Calling
      PROVE  v = w
  BY <1>1, NoneIsNoWorker DEF WInv, Waits, WorkersAreAccountedFor, Running, Alive
<1>2. CASE Calling = {}
  <2>1. Cardinality(Calling) = 0
    BY <1>2, FS_EmptySet
  <2> QED BY <2>1 DEF OneInEngine
<1>3. CASE Calling # {}
  <2>1. PICK w : w \in Calling
    BY <1>3
  <2>2. Calling = {w}
    BY <1>1, <2>1
  <2>3. Cardinality(Calling) = 1
    BY <2>2, FS_Singleton
  <2> QED BY <2>3 DEF OneInEngine
<1> QED BY <1>2, <1>3

(* Whatever the user does and whenever signals and timers come: at most    *)
(* one thread is inside start_xmirror, every worker that runs is the       *)
(* window's own or waited for, each one that has ended will be deleted,    *)
(* and the application ends with no engine thread behind it                *)
(* (mainwindow.cpp:2207-2288), for every set of worker objects.            *)
THEOREM Fits == Spec => []WindowFits
<1>1. WInv /\ [Next]_vars => WInv'
  BY WInvNext
<1> QED BY <1>1, WInvInit, WInvFits, PTL DEF Spec

-----------------------------------------------------------------------------
(* What the window will show once it has heard every signal.               *)
OnlyFinished(q, from) == \A j \in from .. Len(q) : q[j][1] = "finished"
StartedLast(q) == \E i \in 1 .. Len(q) : q[i][1] = "started" /\ OnlyFinished(q, i + 1)
WillShow(q) == StartedLast(q) \/ (OnlyFinished(q, 1) /\ m_running)

Begun == {"loop", "calling", "end"}
Shown == m_worker # None /\ worker[m_worker] \in Begun => WillShow(queue)
Heard == m_worker # None => attached[m_worker]

LEMMA ShownQuietly ==
  ASSUME WInv, Shown, Heard, UNCHANGED <<m_worker, worker, queue, m_running, attached>>
  PROVE  Shown' /\ Heard'
BY DEF Shown, Heard, WillShow, StartedLast, OnlyFinished

(* A worker that is new has not begun.                                     *)
LEMMA ShownOnStart ==
  ASSUME WInv, Shown, Heard, StartServer, queue' = queue, m_running' = m_running \/ m_worker = None
  PROVE  Shown' /\ Heard'
<1>1. WorkerTypes
  BY TypesAre DEF WInv
<1>2. CASE MayRun(m_worker) /\ UNCHANGED <<m_worker, workerVars>>
  BY <1>2, ShownQuietly DEF MayRun, workerVars
<1>3. ASSUME NEW w \in Workers, m_worker' = w, worker' = [Forgotten EXCEPT ![w] = "run"],
             attached' = [attached EXCEPT ![w] = TRUE]
      PROVE  Shown' /\ Heard'
  <2>1. worker'[w] = "run" /\ attached'[w]
    BY <1>1, <1>3 DEF Forgotten, WorkerTypes
  <2> QED BY <1>3, <2>1 DEF Shown, Heard, Begun
<1> QED BY <1>2, <1>3 DEF StartServer

LEMMA ShownOnDelivery ==
  ASSUME WInv, Shown, Heard, Deliver
  PROVE  Shown' /\ Heard'
<1>1. WorkerTypes /\ QueueTypes
  BY TypesAre DEF WInv
<1>2. queue # <<>> /\ queue' = Tail(queue) /\ UNCHANGED <<m_worker, attached>>
  BY DEF Deliver
<1>3. /\ Len(queue) \in Nat /\ Len(queue') = Len(queue) - 1 /\ Head(queue) = queue[1]
      /\ \A i \in 1 .. Len(queue') : queue'[i] = queue[i + 1]
  BY <1>1, <1>2, HeadTailProperties, LenProperties DEF QueueTypes
<1>4. Len(queue) > 0
  BY <1>1, <1>2, EmptySeq DEF QueueTypes
<1>5. ASSUME StartedLast(queue)
      PROVE  StartedLast(queue') \/ (OnlyFinished(queue', 1) /\ Head(queue)[1] = "started")
  <2>1. PICK i \in 1 .. Len(queue) : queue[i][1] = "started" /\ OnlyFinished(queue, i + 1)
    BY <1>5 DEF StartedLast
  <2>2. ASSUME NEW j \in i .. Len(queue'), j >= 1
        PROVE  queue'[j][1] = "finished"
    BY <1>3, <2>1, <2>2 DEF OnlyFinished
  <2>3. CASE i = 1
    BY <1>3, <2>1, <2>2, <2>3 DEF OnlyFinished
  <2>4. CASE i > 1
    <3>1. i - 1 \in 1 .. Len(queue') /\ queue'[i - 1] = queue[i]
      BY <1>3, <2>1, <2>4
    <3>2. OnlyFinished(queue', (i - 1) + 1)
      BY <2>1, <2>2, <2>4 DEF OnlyFinished
    <3> QED BY <2>1, <3>1, <3>2 DEF StartedLast
  <2> QED BY <2>1, <2>3, <2>4
<1>6. ASSUME OnlyFinished(queue, 1)
      PROVE  OnlyFinished(queue', 1) /\ Head(queue)[1] = "finished"
  BY SMTT(30), <1>3, <1>4, <1>6 DEF OnlyFinished
<1>7. ASSUME WillShow(queue)
      PROVE  WillShow(queue)'
  <2>1. CASE Head(queue)[1] = "started" /\ OnStarted
    BY <1>5, <1>6, <1>7, <2>1 DEF OnStarted, WillShow
  <2>2. CASE Head(queue)[1] = "stopped" /\ OnStopped
    BY <1>5, <1>6, <1>7, <2>2 DEF WillShow
  <2>3. CASE Head(queue)[1] = "finished" /\ OnFinished(Head(queue)[2])
    BY <1>5, <1>6, <1>7, <2>3 DEF OnFinished, WillShow
  <2> QED BY <2>1, <2>2, <2>3 DEF Deliver
<1>8. m_worker # None /\ worker'[m_worker] \in Begun => worker[m_worker] \in Begun
  <2>1. CASE OnStarted \/ OnStopped
    BY <2>1 DEF OnStarted, OnStopped
  <2>2. CASE OnFinished(Head(queue)[2])
    BY <1>1, <2>2 DEF OnFinished, WorkerTypes, Begun
  <2> QED BY <2>1, <2>2 DEF Deliver
<1> QED BY <1>2, <1>7, <1>8 DEF Shown, Heard

(* Only the window's own worker runs while the window has one; it is heard,*)
(* and says started when it begins.                                        *)
LEMMA ShownOnStep ==
  ASSUME WInv, Shown, Heard, NEW w \in Workers, Step(w)
  PROVE  Shown' /\ Heard'
<1>1. WorkerTypes /\ QueueTypes /\ GuiTypes
  BY TypesAre DEF WInv
<1>2. /\ UNCHANGED <<m_worker, m_running, attached>> /\ worker[w] \in Alive
      /\ \E to \in Begun \cup {"done"} : worker' = [worker EXCEPT ![w] = to]
  BY DEF Step, Begin, CallEngine, Return, SeeStop, End, Own, Window, Alive, Begun
<1>3. Heard'
  BY <1>2 DEF Heard
<1>4. CASE m_worker # w
  <2>1. m_worker = None
    BY <1>1, <1>2, <1>4 DEF WInv, Waits, WorkersAreAccountedFor, Running
  <2> QED BY <1>2, <1>3, <2>1 DEF Shown
<1>5. CASE m_worker = w /\ Begin(w)
  <2>1. queue' = Append(queue, <<"started", w>>)
    BY <1>5, NoneIsNoWorker DEF Begin, Post, Heard
  <2>2. /\ Len(queue) \in Nat /\ Len(queue') = Len(queue) + 1
        /\ queue'[Len(queue) + 1] = <<"started", w>>
    <3>1. <<"started", w>> \in Signals \X Workers
      BY DEF Signals
    <3> QED BY <1>1, <2>1, <3>1, AppendProperties, LenProperties DEF QueueTypes
  <2>3. StartedLast(queue')
    BY <2>2 DEF StartedLast, OnlyFinished
  <2> QED BY <1>3, <2>3 DEF Shown, WillShow
<1>6. CASE m_worker = w /\ End(w)
  <2>1. worker'[w] = "done"
    BY <1>1, <1>6 DEF End, Own, WorkerTypes
  <2> QED BY <1>2, <1>3, <1>6, <2>1 DEF Shown, Begun
<1>7. CASE m_worker = w /\ (CallEngine(w) \/ Return(w) \/ SeeStop(w))
  <2>1. queue' = queue /\ worker[w] \in Begun
    BY <1>7 DEF CallEngine, Return, SeeStop, Own, Begun
  <2> QED BY <1>2, <1>3, <1>7, <2>1, NoneIsNoWorker
          DEF Shown, WillShow, StartedLast, OnlyFinished
<1> QED BY <1>4, <1>5, <1>6, <1>7 DEF Step

LEMMA ShownNext == WInv /\ Shown /\ Heard /\ [Next]_vars => Shown' /\ Heard'
<1> SUFFICES ASSUME WInv, Shown, Heard, [Next]_vars
             PROVE  Shown' /\ Heard'
  OBVIOUS
<1>1. ASSUME NEW then \in {"idle", "start", "soon", "gone"}, StopServer(then)
      PROVE  Shown' /\ Heard'
  BY <1>1 DEF StopServer, Shown, Heard
<1>2. CASE User \/ QuitTimer
  <2>1. CASE Disconnect \/ ApplyNow \/ RestartApplication \/ QuitNow \/ QuitTimer
    BY <1>1, <2>1 DEF Disconnect, ApplyNow, RestartApplication, QuitNow, QuitTimer, Quit,
                      RestartEngine
  <2>2. CASE Toggle
    BY <1>1, <2>2, ShownOnStart DEF Toggle
  <2>3. CASE ApplyWhenIdle
    BY <2>3, ShownQuietly DEF ApplyWhenIdle, workerVars
  <2>4. CASE ChangeSetting
    BY <1>1, <2>4, ShownQuietly DEF ChangeSetting, RestartEngine, workerVars
  <2> QED BY <1>2, <2>1, <2>2, <2>3, <2>4 DEF User
<1>3. CASE Deliver
  BY <1>3, ShownOnDelivery
<1>4. CASE RestartTimer
  BY <1>4, ShownOnStart DEF RestartTimer
<1>5. CASE Resume
  <2>1. m_worker = None /\ queue' = queue
    BY <1>5 DEF Resume, AfterStop, WInv, Waits
  <2>2. StartServer \/ m_worker' = None
    BY <1>5, <2>1 DEF Resume, AfterStop
  <2> QED BY <2>1, <2>2, ShownOnStart DEF Shown, Heard
<1>6. CASE Terminate
  <2>1. m_worker' = None
    BY <1>6 DEF Terminate, WInv, Waits
  <2> QED BY <2>1 DEF Shown, Heard
<1>7. CASE \E w \in Workers : Step(w)
  BY <1>7, ShownOnStep
<1>8. CASE WindowOpens \/ WindowGoes \/ EngineServes \/ UNCHANGED vars
  BY <1>8, ShownQuietly
     DEF WindowOpens, WindowGoes, EngineServes, Window, vars, workerVars
<1> QED BY <1>2, <1>3, <1>4, <1>5, <1>6, <1>7, <1>8 DEF Next

(* Once every signal is delivered, a worker that has begun and not ended   *)
(* is shown as running, whatever late signals of earlier workers came      *)
(* before (mainwindow.cpp:2291-2292, 2483-2484).                           *)
THEOREM ShownAsRunning == Spec => []RunningIsShown
<1>1. Init => Shown /\ Heard
  BY DEF Init, Shown, Heard
<1>2. Shown => RunningIsShown
  <2> SUFFICES ASSUME Shown, gui = "free", queue = <<>>, m_worker # None,
                      worker[m_worker] \in {"loop", "calling", "end"}
               PROVE  m_running
    BY DEF RunningIsShown
  <2>1. WillShow(queue) /\ Len(queue) = 0
    BY DEF Shown, Begun
  <2> QED BY <2>1 DEF WillShow, StartedLast
<1>3. WInv /\ Shown /\ Heard /\ [Next]_vars => WInv' /\ Shown' /\ Heard'
  BY WInvNext, ShownNext
<1> QED BY <1>1, <1>2, <1>3, WInvInit, PTL DEF Spec

-----------------------------------------------------------------------------
(***************************************************************************)
(* Advertisement: what Bonjour tells devices leads to a server that can    *)
(* answer them, for any ports, options and number of starts.               *)
(*                                                                         *)
(* AdvertisementIsTrue is not inductive.  What is missing is which calls   *)
(* each step of run_xmirror has behind it (StepsEnd, StepsServe,           *)
(* StepsRegister), and that an advertisement, on the air or kept by a      *)
(* device, was made in the start it names, from a record that is kept for  *)
(* as long as the server knows it (MadeOnAir, Made).                       *)
(***************************************************************************)
Txts == [features : SUBSET Int, pw : BOOLEAN]
Ads == [service : Services \union {"none"}, port : Addresses \union {NoAddress},
        txt : Txts, start : Nat]
Steps == {"off", "start", "dnssd", "listening", "raop", "airplay", "loop", "reset", "stop",
          "unserved", "unregister", "destroy"}
Records == [features : SUBSET Int, pin_pw : 0..3, pk : BOOLEAN,
            names : {"none", "held", "freed", "freed twice"},
            record : [Services -> Txts], service : [Services -> BOOLEAN]]
Servers == [up : BOOLEAN, port : Addresses \union {NoAddress}, dnssd : BOOLEAN]

WindowTypes ==
  bonjour \in {"absent", "stopped", "running"} /\ asked \in BOOLEAN /\ missing \in BOOLEAN
Types ==
  /\ WindowTypes /\ killed \in BOOLEAN
  /\ step \in Steps /\ mode \in Modes /\ starts \in 0..MaxServed
  /\ raop \in Servers /\ dnssd \in Records
  /\ onAir \subseteq Ads /\ found \in Ads
  /\ answer.to.start \in Nat

Idle == step \in {"off", "start"}

(* Nothing is left of an engine that ended by itself; one that was         *)
(* terminated leaves its record, and no start gets past it.                *)
StepsEnd ==
  /\ Idle /\ ~killed => dnssd = NoRecord /\ raop = NoServer /\ onAir = {}
  /\ Idle /\ killed  => dnssd.names # "none"
  /\ ~Idle => /\ ~killed /\ dnssd.names # "none"
              /\ dnssd.features = Features(mode) /\ dnssd.pin_pw = mode.pin_pw

StepsServe ==
  /\ step = "dnssd" => raop = NoServer
  /\ step \in {"raop", "airplay", "loop", "reset"} => raop.dnssd
  /\ step \in {"unserved", "unregister", "destroy"} => raop = NoServer
  /\ step \in {"dnssd", "listening", "raop", "airplay"} => dnssd.names = "held"

StepsRegister ==
  /\ step \in {"dnssd", "listening", "raop"} =>
       \A s \in Services : ~dnssd.service[s] /\ dnssd.record[s] = NoTxt
  /\ step = "airplay" => ~dnssd.service["airplay"]
  /\ step = "unregister" => ~dnssd.service["raop"]
  /\ step = "destroy" => \A s \in Services : ~dnssd.service[s]

Names ==
  /\ dnssd.names # "freed twice"
  /\ \A s \in Services : dnssd.service[s] => dnssd.names = "held"

(* What is on the air is registered, and names the port of the server, if  *)
(* it is still there, and the options of this start.                       *)
MadeOnAir ==
  ~killed => \A ad \in onAir :
    /\ ad.service \in Services /\ dnssd.service[ad.service] /\ ad.start = starts
    /\ ad.port = NoAddress \/ raop.port = ad.port \/ raop = NoServer
    /\ ad.txt = Told(mode)

(* What is on the air, or a device has found: in this start its record is  *)
(* there for as long as the server may be asked for it.                    *)
Made(ad) ==
  /\ ad.start <= starts
  /\ ad.start = starts /\ ad.port # NoAddress =>
       /\ step \notin {"start", "dnssd", "listening", "raop"}
       /\ step = "airplay" => ad.service = "raop"
       /\ raop.up => raop.dnssd
       /\ raop.dnssd => /\ dnssd.names = "held" /\ ad.service \in Services
                        /\ dnssd.record[ad.service] = ad.txt /\ Txt(dnssd) = ad.txt
       /\ 1 \in ad.txt.features
AllMade == (\A ad \in onAir : Made(ad)) /\ Made(found)

RecordsAreKept ==
  raop.dnssd => \A s \in Services : dnssd.record[s] \notin {Freed, Crash}

Answered == answer.to.start <= starts /\ DevicesAreToldTheTruth

AInv ==
  /\ Types /\ StepsEnd /\ StepsServe /\ StepsRegister /\ Names
  /\ MadeOnAir /\ AllMade /\ RecordsAreKept /\ Answered

-----------------------------------------------------------------------------
(* What start_dnssd sets is a set of bits, and bit 1 is one of them in     *)
(* every mode.                                                             *)
LEMMA FeaturesType ==
  ASSUME NEW m \in Modes
  PROVE  Features(m) \in SUBSET Int /\ 1 \in Features(m)
BY DEF Features, SetFeature, AlwaysOn

(* A record made in a mode is what Told says of the mode.                  *)
LEMMA ToldType ==
  ASSUME NEW m \in Modes
  PROVE  /\ Told(m) \in Txts /\ 1 \in Told(m).features
         /\ Told(m) # Freed /\ Told(m) # Crash
<1>1. (m.pin_pw # 0) \in BOOLEAN
  OBVIOUS
<1>2. Told(m) \in Txts
  BY <1>1, FeaturesType DEF Told, Txts
<1>3. 1 \in Told(m).features
  BY FeaturesType DEF Told
<1>4. 1 \notin Freed.features /\ 1 \notin Crash.features
  BY DEF Freed, Crash
<1> QED BY <1>2, <1>3, <1>4

(* Txt depends on two fields of a record only.                             *)
LEMMA TxtIsTold ==
  ASSUME NEW m, NEW d, d.features = Features(m), d.pin_pw = m.pin_pw
  PROVE  Txt(d) = Told(m)
BY DEF Txt, Told

(* An unmade record is neither freed nor read through NULL.                *)
LEMMA NoTxtIsNone == NoTxt \in Txts /\ NoTxt # Freed /\ NoTxt # Crash
<1>1. NoTxt \in Txts
  BY DEF NoTxt, Txts
<1>2. NoTxt.features = {} /\ Freed.features # {} /\ Crash.features # {}
  BY DEF NoTxt, Freed, Crash
<1> QED BY <1>1, <1>2

LEMMA NoRecordType == NoRecord \in Records /\ NoServer \in Servers
BY NoTxtIsNone DEF NoRecord, Records, NoServer, Servers, NoAddress

LEMMA NowhereType == Nowhere \in Ads
BY NoTxtIsNone DEF Nowhere, Ads, NoAddress

(* The initial states.                                                     *)
LEMMA AInvInit == AdInit => AInv
<1> SUFFICES ASSUME AdInit PROVE AInv
  OBVIOUS
<1>1. mode \in Modes
  BY ModeAssumption DEF AdInit
<1>2. Types
  <2>1. answer.to.start = 0
    BY DEF AdInit, NoAnswer, Nowhere
  <2>2. starts \in 0..MaxServed
    BY AddressAssumption DEF AdInit
  <2>3. raop \in Servers /\ dnssd \in Records /\ found \in Ads /\ onAir \subseteq Ads
    BY NoRecordType, NowhereType DEF AdInit
  <2>4. WindowTypes /\ killed \in BOOLEAN /\ step \in Steps
    BY DEF AdInit, WindowTypes, Steps
  <2> QED BY <1>1, <2>1, <2>2, <2>3, <2>4 DEF Types
<1>3. StepsEnd /\ StepsServe /\ StepsRegister
  BY DEF AdInit, StepsEnd, StepsServe, StepsRegister, Idle
<1>4. Names
  BY DEF AdInit, Names, NoRecord
<1>5. MadeOnAir /\ AllMade
  BY DEF AdInit, MadeOnAir, AllMade, Made, Nowhere
<1>6. RecordsAreKept
  BY DEF AdInit, RecordsAreKept, NoServer
<1>7. Answered
  BY DEF AdInit, Answered, DevicesAreToldTheTruth, NoAnswer, Nowhere
<1> QED BY <1>2, <1>3, <1>4, <1>5, <1>6, <1>7 DEF AInv

(* Steps that leave the engine and the devices alone: the window looks for *)
(* Bonjour, or Bonjour forgets what it had.                                *)
LEMMA EngineRests ==
  ASSUME AInv, UNCHANGED <<engineState, device>>, onAir' \subseteq onAir, WindowTypes'
  PROVE  AInv'
<1> USE DEF engineState, device
<1>1. Types'
  BY DEF AInv, Types
<1>2. StepsEnd' /\ StepsServe' /\ StepsRegister' /\ Names' /\ RecordsAreKept'
  BY DEF AInv, StepsEnd, StepsServe, StepsRegister, Names, RecordsAreKept, Idle
<1>3. MadeOnAir'
  BY DEF AInv, MadeOnAir
<1>4. AllMade'
  BY DEF AInv, AllMade, Made
<1>5. Answered'
  BY DEF AInv, Answered, DevicesAreToldTheTruth
<1> QED BY <1>1, <1>2, <1>3, <1>4, <1>5 DEF AInv

(* A start: what was found and answered before is of an earlier one.       *)
LEMMA EngineIsStarted ==
  ASSUME AInv, StartServing, UNCHANGED <<onAir, device>>, WindowTypes'
  PROVE  AInv'
<1> USE DEF StartServing, device
<1>1. starts \in Nat /\ starts' = starts + 1 /\ starts' \in 0..MaxServed
  BY AddressAssumption DEF AInv, Types
<1>2. Types'
  BY <1>1 DEF AInv, Types, Steps
<1>3. StepsEnd' /\ StepsServe' /\ StepsRegister' /\ Names' /\ RecordsAreKept'
  BY DEF AInv, StepsEnd, StepsServe, StepsRegister, Names, RecordsAreKept, Idle
<1>4. MadeOnAir'
  BY DEF AInv, MadeOnAir, StepsEnd, Idle
<1>5. AllMade'
  BY <1>1 DEF AInv, AllMade, Made, Types, Ads
<1>6. Answered'
  BY <1>1 DEF AInv, Answered, DevicesAreToldTheTruth, Types
<1> QED BY <1>2, <1>3, <1>4, <1>5, <1>6 DEF AInv

(* Installing Bonjour does either.                                         *)
LEMMA InstallKeeps ==
  ASSUME AInv, NEW rc \in 0..2, InstallBonjour(rc), asked' \in BOOLEAN, UNCHANGED <<onAir, device>>
  PROVE  AInv'
<1>1. WindowTypes'
  BY DEF AInv, Types, WindowTypes, InstallBonjour, Install
<1>2. StartServing \/ UNCHANGED engineState
  BY DEF InstallBonjour
<1> QED BY <1>1, <1>2, EngineIsStarted, EngineRests

(* The engine's own steps change neither the window nor a device; those    *)
(* that do not begin a start leave what was answered as it was.            *)
LEMMA AnswersStay ==
  ASSUME AInv, UNCHANGED <<starts, device>>
  PROVE  Answered'
BY DEF AInv, Answered, DevicesAreToldTheTruth, device

-----------------------------------------------------------------------------
(* The steps of a start.                                                   *)
LEMMA StartDnssdKeeps == AInv /\ StartDnssd => AInv'
<1> SUFFICES ASSUME AInv, StartDnssd PROVE AInv'
  OBVIOUS
<1>1. CASE step' = "off" /\ UNCHANGED dnssd
  <2> USE <1>1 DEF StartDnssd, window, device
  <2>1. Types'
    BY DEF AInv, Types, WindowTypes, Steps
  <2>2. StepsEnd' /\ StepsServe' /\ StepsRegister' /\ Names' /\ RecordsAreKept'
    BY DEF AInv, StepsEnd, StepsServe, StepsRegister, Names, RecordsAreKept, Idle
  <2>3. MadeOnAir'
    BY DEF AInv, MadeOnAir
  <2>4. AllMade'
    BY DEF AInv, AllMade, Made
  <2> QED BY <2>1, <2>2, <2>3, <2>4, AnswersStay DEF AInv
<1>2. CASE dnssd = NoRecord /\ step' = "dnssd"
           /\ dnssd' = [InitRecord(mode) EXCEPT !.features = Features(mode)]
  <2> USE <1>2 DEF StartDnssd, window, device
  <2>1. /\ dnssd'.features = Features(mode) /\ dnssd'.pin_pw = mode.pin_pw /\ dnssd'.names = "held"
        /\ dnssd'.record = NoRecord.record /\ dnssd'.service = NoRecord.service
        /\ dnssd'.pk = FALSE
        /\ dnssd' \in Records
    <3>1. mode \in Modes /\ mode.pin_pw \in 0..3
      BY ModeAssumption DEF AInv, Types
    <3> QED BY <3>1, FeaturesType, NoRecordType DEF InitRecord, NoRecord, Records
  <2>2. ~killed /\ raop = NoServer /\ onAir = {}
    <3>1. NoRecord.names = "none"
      BY DEF NoRecord
    <3> QED BY <3>1 DEF AInv, StepsEnd, Idle
  <2>3. Types'
    BY <2>1 DEF AInv, Types, WindowTypes, Steps
  <2>4. StepsEnd' /\ StepsServe'
    BY <2>1, <2>2 DEF AInv, StepsEnd, StepsServe, Idle
  <2>5. \A s \in Services : ~dnssd'.service[s] /\ dnssd'.record[s] = NoTxt
    BY <2>1 DEF NoRecord
  <2>6. StepsRegister' /\ Names'
    BY <2>1, <2>5 DEF StepsRegister, Names
  <2>7. MadeOnAir'
    BY <2>2 DEF MadeOnAir
  <2>8. AllMade' /\ RecordsAreKept'
    BY <2>2 DEF AInv, AllMade, Made, RecordsAreKept, NoServer
  <2> QED BY <2>3, <2>4, <2>6, <2>7, <2>8, AnswersStay DEF AInv
<1> QED BY <1>1, <1>2 DEF StartDnssd

LEMMA StartRaopServerKeeps == AInv /\ StartRaopServer => AInv'
<1> SUFFICES ASSUME AInv, StartRaopServer PROVE AInv'
  OBVIOUS
<1> USE DEF StartRaopServer, window, device
<1>1. /\ raop = NoServer /\ ~killed /\ dnssd.names = "held"
      /\ \A s \in Services : ~dnssd.service[s] /\ dnssd.record[s] = NoTxt
  BY DEF AInv, StepsEnd, StepsServe, StepsRegister, Idle
<1>2. onAir = {}
  BY <1>1 DEF AInv, MadeOnAir
<1>3. raop' \in Servers /\ ~raop'.dnssd
  BY <1>1, AddressAssumption DEF AInv, Types, Servers, Bind, NoServer, NoAddress
<1>4. Types'
  BY <1>3 DEF AInv, Types, WindowTypes, Steps
<1>5. StepsEnd' /\ StepsServe' /\ StepsRegister' /\ Names'
  BY <1>1 DEF AInv, StepsEnd, StepsServe, StepsRegister, Names, Idle
<1>6. MadeOnAir'
  BY <1>2 DEF MadeOnAir
<1>7. AllMade' /\ RecordsAreKept'
  <2>1. raop.up = FALSE
    BY <1>1 DEF NoServer
  <2>2. found.start # starts \/ found.port = NoAddress
    BY DEF AInv, AllMade, Made
  <2> QED BY <1>2, <1>3, <2>2 DEF AInv, AllMade, Made, RecordsAreKept
<1> QED BY <1>4, <1>5, <1>6, <1>7, AnswersStay DEF AInv

LEMMA SetDnssdKeeps == AInv /\ SetDnssd => AInv'
<1> SUFFICES ASSUME AInv, SetDnssd PROVE AInv'
  OBVIOUS
<1> USE DEF SetDnssd, window, device
<1>1. /\ ~killed /\ dnssd.names = "held"
      /\ \A s \in Services : ~dnssd.service[s] /\ dnssd.record[s] = NoTxt
  BY DEF AInv, StepsEnd, StepsServe, StepsRegister, Idle
<1>2. onAir = {}
  BY <1>1 DEF AInv, MadeOnAir
<1>3. /\ dnssd' \in Records /\ dnssd'.record = dnssd.record /\ dnssd'.service = dnssd.service
      /\ dnssd'.names = dnssd.names /\ dnssd'.features = dnssd.features
      /\ dnssd'.pin_pw = dnssd.pin_pw
  BY DEF AInv, Types, Records
<1>4. raop' \in Servers /\ raop'.dnssd
  BY DEF AInv, Types, Servers
<1>5. Types'
  BY <1>3, <1>4 DEF AInv, Types, WindowTypes, Steps
<1>6. StepsEnd' /\ StepsServe' /\ StepsRegister' /\ Names'
  BY <1>1, <1>3, <1>4 DEF AInv, StepsEnd, StepsServe, StepsRegister, Names, Idle
<1>7. MadeOnAir'
  BY <1>2 DEF MadeOnAir
<1>8. AllMade'
  BY <1>2 DEF AInv, AllMade, Made
<1>9. RecordsAreKept'
  BY <1>1, <1>3, NoTxtIsNone DEF RecordsAreKept
<1> QED BY <1>5, <1>6, <1>7, <1>8, <1>9, AnswersStay DEF AInv

(* Registering a service makes its record anew, and puts it on the air if  *)
(* Bonjour takes it.                                                       *)
LEMMA RegisterKeeps ==
  ASSUME AInv, NEW s \in Services, NEW next, RegisterDnssd(s, next),
         (s = "raop" /\ next = "airplay") \/ (s = "airplay" /\ next = "loop")
  PROVE  AInv'
<1> USE DEF RegisterDnssd, window, device
<1>1. PICK ok \in BOOLEAN : Register(s, ok) /\ step' = IF ok \/ mode.ble THEN next ELSE "stop"
  BY DEF RegisterDnssd
<1> DEFINE new == [service |-> s, port |-> raop.port, txt |-> Txt(dnssd), start |-> starts]
<1>2. /\ step \in {"raop", "airplay"} /\ ~killed /\ raop.dnssd /\ mode \in Modes
      /\ dnssd \in Records /\ dnssd.names # "none" /\ raop \in Servers /\ starts \in Nat
  BY AddressAssumption DEF AInv, Types, StepsEnd, StepsServe, Idle, Services
<1>3. Txt(dnssd) = Told(mode) /\ Told(mode) \in Txts /\ 1 \in Told(mode).features
      /\ Told(mode) # Freed /\ Told(mode) # Crash
  BY <1>2, TxtIsTold, ToldType DEF AInv, StepsEnd, Idle, Services
<1>4. /\ dnssd' = [dnssd EXCEPT !.record[s] = Txt(dnssd), !.service[s] = ok]
      /\ onAir' = onAir \union IF ok THEN {new} ELSE {}
  BY <1>1 DEF Register
<1>5. /\ dnssd' \in Records /\ dnssd'.names = dnssd.names /\ dnssd'.features = dnssd.features
      /\ dnssd'.pin_pw = dnssd.pin_pw
      /\ dnssd'.record = [dnssd.record EXCEPT ![s] = Told(mode)]
      /\ dnssd'.service = [dnssd.service EXCEPT ![s] = ok]
  BY <1>2, <1>3, <1>4 DEF Records
<1>6. Txt(dnssd') = Txt(dnssd)
  BY <1>5 DEF Txt
<1>7. new \in Ads
  BY <1>2, <1>3 DEF Ads, Servers
<1>8. \A t \in Services \ {s} :
        dnssd'.record[t] = dnssd.record[t] /\ (dnssd'.service[t] <=> dnssd.service[t])
  <2> TAKE t \in Services \ {s}
  <2>1. dnssd.record \in [Services -> Txts] /\ dnssd.service \in [Services -> BOOLEAN]
    BY <1>2 DEF Records
  <2>2. dnssd'.record[t] = dnssd.record[t]
    BY <1>5, <2>1
  <2>3. dnssd'.service[t] <=> dnssd.service[t]
    BY <1>5, <2>1
  <2> QED BY <2>2, <2>3
<1>9. dnssd'.record[s] = Told(mode) /\ (dnssd'.service[s] <=> ok)
  BY <1>1, <1>2, <1>5 DEF Records
<1>10. dnssd.names = "held" /\ ~dnssd.service[s]
  BY <1>2 DEF AInv, StepsServe, StepsRegister, Services
<1>11. Types'
  BY <1>1, <1>4, <1>5, <1>7 DEF AInv, Types, WindowTypes, Steps
<1>12. StepsEnd'
  BY <1>1, <1>2, <1>5 DEF AInv, StepsEnd, Idle
<1>13. StepsServe'
  BY <1>1, <1>2, <1>5, <1>10 DEF StepsServe
<1>14. StepsRegister'
  BY <1>1, <1>2, <1>8 DEF AInv, StepsRegister, Services
<1>15. Names'
  BY <1>5, <1>10 DEF Names
<1>16. MadeOnAir'
  <2> SUFFICES ASSUME NEW ad \in onAir'
               PROVE  /\ ad.service \in Services /\ dnssd'.service[ad.service] /\ ad.start = starts
                      /\ ad.port = NoAddress \/ raop.port = ad.port \/ raop = NoServer
                      /\ ad.txt = Told(mode)
    BY DEF MadeOnAir, Told, Features, SetFeature
  <2>1. CASE ad \in onAir
    <3>1. ad.service \in Services /\ dnssd.service[ad.service] /\ ad.start = starts
      BY <1>2, <2>1 DEF AInv, MadeOnAir
    <3>2. ad.service # s
      BY <1>10, <3>1
    <3> QED BY <1>2, <1>8, <2>1, <3>1, <3>2 DEF AInv, MadeOnAir
  <2>2. CASE ok /\ ad = new
    BY <1>3, <1>9, <2>2
  <2> QED BY <1>4, <2>1, <2>2
<1>17. AllMade'
  <2>1. \A ad \in onAir \union {found} : Made(ad)'
    <3> SUFFICES ASSUME NEW ad \in onAir \union {found} PROVE Made(ad)'
      OBVIOUS
    <3>1. Made(ad)
      BY DEF AInv, AllMade
    <3>2. ad.start = starts /\ ad.port # NoAddress => step = "airplay" /\ ad.service = "raop"
      BY <1>2, <3>1 DEF Made
    <3> QED
      BY <1>1, <1>2, <1>5, <1>6, <1>8, <3>1, <3>2 DEF Made, Services
  <2>2. ASSUME NEW ad, ad = new, ok PROVE Made(ad)'
    <3>1. /\ ad.service = s /\ ad.txt = Told(mode) /\ ad.start = starts
          /\ step' = next
      BY <1>1, <1>3, <2>2
    <3> HIDE DEF new
    <3> QED BY <1>2, <1>3, <1>5, <1>6, <1>9, <1>10, <3>1 DEF Made
  <2>3. Made(found)' /\ \A ad \in onAir : Made(ad)'
    BY <2>1
  <2> HIDE DEF new
  <2> QED BY <1>4, <2>2, <2>3 DEF AllMade
<1>18. RecordsAreKept'
  BY <1>2, <1>3, <1>8, <1>9 DEF AInv, RecordsAreKept
<1> QED BY <1>11, <1>12, <1>13, <1>14, <1>15, <1>16, <1>17, <1>18, AnswersStay DEF AInv

-----------------------------------------------------------------------------
(* The steps of the loop, and a thread that is terminated.                 *)
LEMMA LeaveLoopKeeps == AInv /\ LeaveLoop => AInv'
<1> SUFFICES ASSUME AInv, LeaveLoop PROVE AInv'
  OBVIOUS
<1> USE DEF LeaveLoop, window, device
<1>1. Types'
  BY DEF AInv, Types, WindowTypes, Steps
<1>2. StepsEnd' /\ StepsServe' /\ StepsRegister' /\ Names' /\ RecordsAreKept'
  BY DEF AInv, StepsEnd, StepsServe, StepsRegister, Names, RecordsAreKept, Idle
<1>3. MadeOnAir'
  BY DEF AInv, MadeOnAir
<1>4. AllMade'
  BY DEF AInv, AllMade, Made
<1> QED BY <1>1, <1>2, <1>3, <1>4, AnswersStay DEF AInv

(* The server leaves its port, and has the same one when it is back; a     *)
(* server without a port was never advertised with one.                    *)
LEMMA HttpdKeeps ==
  ASSUME AInv, StopHttpd \/ StartHttpd
  PROVE  AInv'
<1>1. /\ step \in {"loop", "reset"} /\ step' \in {"loop", "reset"}
      /\ UNCHANGED <<mode, dnssd, starts, killed, bonjour, window, onAir, device>>
  BY DEF StopHttpd, StartHttpd
<1> USE <1>1 DEF window, device
<1>2. raop \in Servers /\ raop.dnssd /\ raop # NoServer
  BY DEF AInv, Types, StepsServe, NoServer
<1>3. /\ raop' \in Servers /\ raop'.dnssd = raop.dnssd
      /\ raop.port = NoAddress \/ raop'.port = raop.port
  <2>1. CASE StopHttpd
    BY <1>2, <2>1 DEF StopHttpd, Servers
  <2>2. CASE StartHttpd
    <3>1. PICK up \in BOOLEAN, p \in Bind(raop.port) : raop' = [raop EXCEPT !.up = up, !.port = p]
      BY <2>2 DEF StartHttpd
    <3> QED BY <1>2, <3>1 DEF Servers, Bind
  <2> QED BY <2>1, <2>2
<1>4. Types'
  BY <1>3 DEF AInv, Types, WindowTypes, Steps
<1>5. StepsEnd' /\ StepsServe' /\ StepsRegister' /\ Names' /\ RecordsAreKept'
  BY <1>2, <1>3 DEF AInv, StepsEnd, StepsServe, StepsRegister, Names, RecordsAreKept, Idle
<1>6. MadeOnAir'
  BY <1>2, <1>3 DEF AInv, MadeOnAir, Told, Features, SetFeature
<1>7. AllMade'
  BY <1>2, <1>3 DEF AInv, AllMade, Made
<1> QED BY <1>4, <1>5, <1>6, <1>7, AnswersStay DEF AInv

LEMMA TerminateEngineKeeps == AInv /\ TerminateEngine => AInv'
<1> SUFFICES ASSUME AInv, TerminateEngine PROVE AInv'
  OBVIOUS
<1> USE DEF TerminateEngine, window, device
<1>1. Types'
  BY DEF AInv, Types, WindowTypes, Steps
<1>2. StepsEnd' /\ StepsServe' /\ StepsRegister' /\ Names' /\ RecordsAreKept'
  BY DEF AInv, StepsEnd, StepsServe, StepsRegister, Names, RecordsAreKept, Idle
<1>3. MadeOnAir'
  BY DEF MadeOnAir
<1>4. AllMade'
  BY DEF AInv, AllMade, Made
<1> QED BY <1>1, <1>2, <1>3, <1>4, AnswersStay DEF AInv

-----------------------------------------------------------------------------
(* The end of a run.                                                       *)
LEMMA StopRaopServerKeeps == AInv /\ StopRaopServer => AInv'
<1> SUFFICES ASSUME AInv, StopRaopServer PROVE AInv'
  OBVIOUS
<1> USE DEF StopRaopServer, window, device
<1>1. ~killed /\ ~NoServer.up /\ ~NoServer.dnssd
  BY DEF AInv, StepsEnd, Idle, NoServer
<1>2. /\ dnssd' \in Records /\ dnssd'.record = dnssd.record /\ dnssd'.service = dnssd.service
      /\ dnssd'.names = dnssd.names /\ dnssd'.features = dnssd.features
      /\ dnssd'.pin_pw = dnssd.pin_pw
  BY DEF AInv, Types, Records
<1>3. Types'
  BY <1>2, NoRecordType DEF AInv, Types, WindowTypes, Steps
<1>4. StepsEnd' /\ StepsServe' /\ StepsRegister' /\ Names'
  BY <1>1, <1>2 DEF AInv, StepsEnd, StepsServe, StepsRegister, Names, Idle
<1>5. MadeOnAir'
  BY <1>1, <1>2 DEF AInv, MadeOnAir, Told, Features, SetFeature
<1>6. AllMade' /\ RecordsAreKept'
  BY <1>1 DEF AInv, AllMade, Made, RecordsAreKept
<1> QED BY <1>3, <1>4, <1>5, <1>6, AnswersStay DEF AInv

(* Unregistering a service frees the names if the other is gone: it was    *)
(* registered, so they are held until then.                                *)
LEMMA UnregisterKeeps ==
  ASSUME AInv, step \in {"unserved", "unregister"}, StopDnssd
  PROVE  AInv'
<1> USE DEF StopDnssd, window, device
<1>1. PICK s \in Services, other \in Services :
        /\ s # other /\ Unregister(s, other) /\ step' \in {"unregister", "destroy"}
        /\ step' = "unregister" => s = "raop"
        /\ step' = "destroy" => s = "airplay" /\ ~dnssd.service["raop"]
  BY DEF AInv, StepsRegister, Services
<1>2. /\ ~killed /\ raop = NoServer /\ ~NoServer.up /\ ~NoServer.dnssd
      /\ dnssd \in Records /\ dnssd.names # "none" /\ dnssd.names # "freed twice"
  BY DEF AInv, Types, StepsEnd, StepsServe, Names, Idle, NoServer
<1>3. Services = {s, other}
  BY <1>1 DEF Services
<1>4. /\ dnssd' \in Records /\ dnssd'.features = dnssd.features /\ dnssd'.pin_pw = dnssd.pin_pw
      /\ dnssd'.service[other] = dnssd.service[other] /\ ~dnssd'.service[s]
      /\ dnssd'.names \notin {"none", "freed twice"}
      /\ dnssd.service[other] => dnssd'.names = "held"
      /\ onAir' \subseteq onAir /\ \A ad \in onAir' : dnssd.service[s] => ad.service # s
  <2>1. CASE ~dnssd.service[s]
    BY <1>1, <1>2, <2>1 DEF Unregister, AInv, Names
  <2>2. CASE dnssd.service[s]
    <3>1. dnssd.names = "held"
      BY <2>2 DEF AInv, Names
    <3>2. dnssd' = [dnssd EXCEPT !.record[s] = Freed, !.service[s] = FALSE,
                                 !.names = IF LastFrees(other) THEN FreeNames(@) ELSE @]
      BY <1>1, <2>2 DEF Unregister
    <3>3. Freed \in Txts
      BY DEF Freed, Txts
    <3>4. /\ dnssd'.record = [dnssd.record EXCEPT ![s] = Freed]
          /\ dnssd'.service = [dnssd.service EXCEPT ![s] = FALSE]
          /\ dnssd'.names = IF LastFrees(other) THEN FreeNames(dnssd.names) ELSE dnssd.names
          /\ dnssd'.features = dnssd.features /\ dnssd'.pin_pw = dnssd.pin_pw
          /\ dnssd' \in Records
      BY <1>2, <3>1, <3>2, <3>3 DEF Records, FreeNames
    <3>5. dnssd'.service[other] = dnssd.service[other] /\ ~dnssd'.service[s]
      BY <1>1, <1>2, <3>4 DEF Records
    <3>6. onAir' = {ad \in onAir : ad.service # s}
      BY <1>1, <2>2 DEF Unregister
    <3> QED BY <3>1, <3>4, <3>5, <3>6 DEF LastFrees, FreeNames
  <2> QED BY <2>1, <2>2
<1>5. Types'
  BY <1>1, <1>4 DEF AInv, Types, WindowTypes, Steps
<1>6. StepsEnd'
  BY <1>1, <1>2, <1>4 DEF AInv, StepsEnd, Idle
<1>7. StepsServe'
  BY <1>1, <1>2 DEF StepsServe
<1>8. StepsRegister'
  BY <1>1, <1>3, <1>4 DEF AInv, StepsRegister, Services
<1>9. Names'
  BY <1>3, <1>4 DEF Names
<1>10. MadeOnAir'
  <2>1. ASSUME NEW ad \in onAir'
        PROVE  /\ ad.service \in Services /\ dnssd'.service[ad.service] /\ ad.start = starts
               /\ ad.port = NoAddress \/ raop.port = ad.port \/ raop = NoServer
               /\ ad.txt = Told(mode)
    BY <1>2, <1>3, <1>4 DEF AInv, MadeOnAir
  <2> QED BY <2>1 DEF MadeOnAir, Told, Features, SetFeature
<1>11. AllMade' /\ RecordsAreKept'
  BY <1>1, <1>2, <1>4 DEF AInv, AllMade, Made, RecordsAreKept
<1> QED BY <1>5, <1>6, <1>7, <1>8, <1>9, <1>10, <1>11, AnswersStay DEF AInv

(* The record goes when nothing is registered, and so nothing on the air.  *)
LEMMA DestroyKeeps ==
  ASSUME AInv, step = "destroy", StopDnssd
  PROVE  AInv'
<1> USE DEF StopDnssd, window, device
<1>1. /\ ~killed /\ raop = NoServer /\ ~NoServer.up /\ ~NoServer.dnssd
      /\ step' = "off" /\ dnssd' = NoRecord
  BY DEF AInv, StepsEnd, StepsServe, Idle, NoServer
<1>2. onAir = {}
  BY <1>1 DEF AInv, MadeOnAir, StepsRegister
<1>3. Types'
  BY <1>1, NoRecordType DEF AInv, Types, WindowTypes, Steps
<1>4. StepsEnd' /\ StepsServe' /\ StepsRegister'
  BY <1>1, <1>2 DEF AInv, StepsEnd, StepsServe, StepsRegister, Idle
<1>5. Names'
  BY <1>1 DEF Names, NoRecord
<1>6. MadeOnAir'
  BY <1>2 DEF MadeOnAir
<1>7. AllMade' /\ RecordsAreKept'
  BY <1>1, <1>2 DEF AInv, AllMade, Made, RecordsAreKept
<1> QED BY <1>3, <1>4, <1>5, <1>6, <1>7, AnswersStay DEF AInv

-----------------------------------------------------------------------------
(* What devices do.                                                        *)
LEMMA FindKeeps == AInv /\ Find => AInv'
<1> SUFFICES ASSUME AInv, Find PROVE AInv'
  OBVIOUS
<1> USE DEF Find, window, engineState
<1>1. Types'
  <2>1. NoAnswer.to.start = 0
    BY DEF NoAnswer, Nowhere
  <2> QED BY <2>1 DEF AInv, Types, WindowTypes
<1>2. StepsEnd' /\ StepsServe' /\ StepsRegister' /\ Names' /\ RecordsAreKept'
  BY DEF AInv, StepsEnd, StepsServe, StepsRegister, Names, RecordsAreKept, Idle
<1>3. MadeOnAir'
  BY DEF AInv, MadeOnAir
<1>4. AllMade'
  BY DEF AInv, AllMade, Made
<1>5. Answered'
  <2>1. NoAnswer.to.start = 0 /\ NoAnswer.kind = "none"
    BY DEF NoAnswer, Nowhere
  <2>2. starts >= 0
    BY AddressAssumption DEF AInv, Types
  <2> QED BY <2>1, <2>2 DEF Answered, DevicesAreToldTheTruth
<1> QED BY <1>1, <1>2, <1>3, <1>4, <1>5 DEF AInv

(* A device that found the service in this start is told what it found.    *)
LEMMA AskKeeps ==
  ASSUME AInv, NEW kind \in Services \union {"description"}, Ask(kind)
  PROVE  AInv'
<1> USE DEF Ask, window, engineState
<1>1. Types'
  BY DEF AInv, Types, WindowTypes, Ads
<1>2. StepsEnd' /\ StepsServe' /\ StepsRegister' /\ Names' /\ RecordsAreKept'
  BY DEF AInv, StepsEnd, StepsServe, StepsRegister, Names, RecordsAreKept, Idle
<1>3. MadeOnAir'
  BY DEF AInv, MadeOnAir
<1>4. AllMade'
  BY DEF AInv, AllMade, Made
<1>5. Answered'
  <2>1. Made(found) /\ found.start <= starts
    BY DEF AInv, AllMade, Made
  <2>2. CASE found.start # starts
    BY <2>1, <2>2 DEF Answered, DevicesAreToldTheTruth
  <2>3. CASE found.start = starts
    <3>1. /\ raop.dnssd /\ dnssd.names = "held" /\ found.service \in Services
          /\ dnssd.record[found.service] = found.txt /\ Txt(dnssd) = found.txt
          /\ 1 \in found.txt.features
      BY <2>1, <2>3 DEF Made
    <3>2. found.txt # Freed /\ found.txt # Crash
      BY <3>1 DEF Freed, Crash
    <3>3. \A s \in Services : dnssd.record[s] \notin {Freed, Crash}
      BY <3>1 DEF AInv, RecordsAreKept
    <3>4. Info(kind) = IF kind = "description" THEN found.txt ELSE dnssd.record[kind]
      BY <3>1 DEF Info
    <3>5. /\ Info(kind) \notin {Crash, Freed}
          /\ kind \in {found.service, "description"} => Info(kind) = found.txt
      BY <3>1, <3>2, <3>3, <3>4 DEF Services
    <3>6. answer'.to = found /\ answer'.kind = kind /\ answer'.got = Info(kind)
      OBVIOUS
    <3> QED BY <2>1, <3>5, <3>6 DEF Answered, DevicesAreToldTheTruth
  <2> QED BY <2>2, <2>3
<1> QED BY <1>1, <1>2, <1>3, <1>4, <1>5 DEF AInv

-----------------------------------------------------------------------------
LEMMA AInvNext == AInv /\ [AdNext]_adVars => AInv'
<1> SUFFICES ASSUME AInv, [AdNext]_adVars PROVE AInv'
  OBVIOUS
<1>1. CASE StartDnssd
  BY <1>1, StartDnssdKeeps
<1>2. CASE StartRaopServer
  BY <1>2, StartRaopServerKeeps
<1>3. CASE SetDnssd
  BY <1>3, SetDnssdKeeps
<1>4. CASE RegisterRaop
  <2>1. RegisterDnssd("raop", "airplay") /\ "raop" \in Services
    BY <1>4 DEF RegisterRaop, Services
  <2> QED BY <2>1, RegisterKeeps
<1>5. CASE RegisterAirplay
  <2>1. RegisterDnssd("airplay", "loop") /\ "airplay" \in Services
    BY <1>5 DEF RegisterAirplay, Services
  <2> QED BY <2>1, RegisterKeeps
<1>6. CASE LeaveLoop
  BY <1>6, LeaveLoopKeeps
<1>7. CASE StopHttpd \/ StartHttpd
  BY <1>7, HttpdKeeps
<1>8. CASE StopRaopServer
  BY <1>8, StopRaopServerKeeps
<1>9. CASE StopDnssd
  <2>1. step \in {"unserved", "unregister"} \/ step = "destroy"
    BY <1>9 DEF StopDnssd
  <2> QED BY <1>9, <2>1, UnregisterKeeps, DestroyKeeps
<1>10. CASE TerminateEngine
  BY <1>10, TerminateEngineKeeps
<1>11. CASE EnsureBonjour
  <2>1. asked' \in BOOLEAN /\ UNCHANGED <<onAir, device>>
    BY <1>11 DEF EnsureBonjour
  <2>2. CASE StartServing /\ missing' = FALSE /\ UNCHANGED bonjour
    BY <2>1, <2>2, EngineIsStarted DEF AInv, Types, WindowTypes
  <2>3. CASE \E rc \in 0..2 : InstallBonjour(rc)
    BY <2>1, <2>3, InstallKeeps
  <2>4. CASE missing' = TRUE /\ UNCHANGED <<bonjour, engineState>>
    BY <2>1, <2>4, EngineRests DEF AInv, Types, WindowTypes
  <2> QED BY <1>11, <2>2, <2>3, <2>4 DEF EnsureBonjour
<1>12. CASE InstallFromNotice
  BY <1>12, InstallKeeps DEF InstallFromNotice, AInv, Types, WindowTypes
<1>13. CASE StartFromTray
  BY <1>13, EngineIsStarted DEF StartFromTray, window, AInv, Types, WindowTypes
<1>14. CASE BonjourStops
  BY <1>14, EngineRests DEF BonjourStops, window, AInv, Types, WindowTypes
<1>15. CASE BonjourStarts
  BY <1>15, EngineRests DEF BonjourStarts, window, AInv, Types, WindowTypes
<1>16. CASE Find
  BY <1>16, FindKeeps
<1>17. CASE \E kind \in Services \union {"description"} : Ask(kind)
  BY <1>17, AskKeeps
<1>18. CASE UNCHANGED adVars
  BY <1>18, EngineRests DEF adVars, window, AInv, Types, WindowTypes
<1> QED
  BY <1>1, <1>2, <1>3, <1>4, <1>5, <1>6, <1>7, <1>8, <1>9, <1>10, <1>11, <1>12, <1>13, <1>14,
     <1>15, <1>16, <1>17, <1>18 DEF AdNext

(* The invariant is strong enough.                                         *)
LEMMA AInvImplies == AInv => AdvertisementIsTrue
<1> SUFFICES ASSUME AInv PROVE AdvertisementIsTrue
  OBVIOUS
<1>1. AdTypeOK
  <2>1. step \notin {"off", "start"} => dnssd # NoRecord
    BY DEF AInv, StepsEnd, Idle, NoRecord
  <2> QED BY <2>1 DEF AInv, Types, WindowTypes, AdTypeOK, Steps, Servers, Services
<1>2. OnAirIsServed
  <2>1. ~killed => \A ad \in onAir :
          /\ ad.start = starts
          /\ raop.port \in {ad.port, NoAddress} \/ ad.port = NoAddress
          /\ ad.txt = Told(mode)
    BY DEF AInv, MadeOnAir, NoServer
  <2>2. ~killed /\ step = "off" => onAir = {} /\ dnssd = NoRecord
    BY DEF AInv, StepsEnd, Idle
  <2> QED BY <2>1, <2>2 DEF OnAirIsServed
<1>3. NamesAreFreedOnce
  BY DEF AInv, Names, NamesAreFreedOnce
<1>4. DevicesAreToldTheTruth
  BY DEF AInv, Answered
<1> QED BY <1>1, <1>2, <1>3, <1>4 DEF AdvertisementIsTrue

(* Whatever fails, and in whatever order the engine, its server, Bonjour   *)
(* and the devices take their steps, what is advertised is served by the   *)
(* start that advertises it, and is told to the devices that found it:     *)
(* for all ports, all options and any number of starts.                    *)
THEOREM Advertised == AdSpec => []AdvertisementIsTrue
<1>1. AdInit => AInv
  BY AInvInit
<1>2. AInv /\ [AdNext]_adVars => AInv'
  BY AInvNext
<1>3. AInv => AdvertisementIsTrue
  BY AInvImplies
<1> QED BY <1>1, <1>2, <1>3, PTL DEF AdSpec

-----------------------------------------------------------------------------
(***************************************************************************)
(* UpdateChecker, for any versions and any size of the installer.          *)
(* OnlyTheOfferIsInstalled is inductive as it stands: from the look at the *)
(* file to the start of msiexec the checker stays where it is, so that     *)
(* only the temp folder can come between.                                  *)
(***************************************************************************)
(* The types, and the rest of the invariant, of an offer in a state.       *)
OfferTypes == /\ update \in {"Idle", "Checking", "UpToDate", "Available", "Downloading", "Ready", "Failed"}
              /\ offer \in Release \cup {NoRelease}
              /\ notified \in -1 .. MaxVersion
FileTypes == part \in [chunks : -1 .. Size, good : BOOLEAN] /\ installer \in Content
RestOfTypes == /\ reply \in {"none", "check", "download"}
               /\ cancelled \in BOOLEAN /\ writeFailed \in BOOLEAN
               /\ launch \in {"no", "checked", "started"} /\ changed \in BOOLEAN
               /\ skippedVersion \in -1 .. MaxVersion
OfferFits ==
  /\ update \in {"Available", "Downloading", "Ready"} => Newer(offer)
  /\ update = "Failed" => offer = NoRelease \/ Newer(offer)
  /\ update \in {"Downloading", "Ready"} => offer.verifiable
RequestFits ==
  /\ (reply = "check") <=> (update = "Checking")
  /\ (reply = "download") <=> (update = "Downloading")
  /\ (part # NoPart) <=> (update = "Downloading")
LaunchFits == launch # "no" => update = "Ready" /\ (~changed => installer = offer)

UpdateParts == OfferTypes /\ FileTypes /\ RestOfTypes /\ OfferFits /\ RequestFits /\ LaunchFits

LEMMA UpdatePartsAre == OnlyTheOfferIsInstalled <=> UpdateParts
BY DEF OnlyTheOfferIsInstalled, UpdateTypeOK, UpdateParts, OfferTypes,
       FileTypes, RestOfTypes, OfferFits, RequestFits, LaunchFits

LEMMA Versions ==
  /\ NoRelease.version = -1 /\ ~Newer(NoRelease)
  /\ \A r \in Release \cup {NoRelease} : r.version \in -1 .. MaxVersion
  /\ NoRelease \in Content /\ Garbage \in Content
<1>1. NoRelease.version = -1
  BY DEF NoRelease
<1> QED BY <1>1, UpdateAssumption DEF Newer, Release, Content

LEMMA SetStateTypes ==
  ASSUME UpdateParts, NEW state \in {"UpToDate", "Available", "Downloading", "Ready", "Failed"},
         NEW release \in Release \cup {NoRelease}, SetState(state, release)
  PROVE  OfferTypes' /\ update' = state /\ offer' = release
<1>1. release.version \in -1 .. MaxVersion /\ notified \in -1 .. MaxVersion
  BY Versions DEF UpdateParts, OfferTypes
<1>2. notified' \in {notified, release.version}
  BY DEF SetState, UpdateUi
<1> QED BY <1>1, <1>2 DEF SetState, OfferTypes

LEMMA UpdateInitInv == UpdateInit => UpdateParts
<1>1. -1 \in -1 .. Size /\ -1 \in -1 .. MaxVersion
  BY UpdateAssumption
<1> SUFFICES ASSUME UpdateInit PROVE UpdateParts
  OBVIOUS
<1>2. OfferTypes /\ RestOfTypes
  BY <1>1, Versions DEF UpdateInit, OfferTypes, RestOfTypes
<1>3. FileTypes
  BY <1>1, Versions DEF UpdateInit, FileTypes, NoPart
<1>4. OfferFits /\ RequestFits /\ LaunchFits
  BY DEF UpdateInit, OfferFits, RequestFits, LaunchFits
<1> QED BY <1>2, <1>3, <1>4 DEF UpdateParts

LEMMA CheckKeeps ==
  ASSUME UpdateParts, NEW again \in BOOLEAN, Check(again)
  PROVE  UpdateParts'
<1>1. -1 \in -1 .. MaxVersion
  BY UpdateAssumption
<1> QED BY <1>1 DEF Check, launchVars, UpdateParts, OfferTypes, FileTypes, RestOfTypes, OfferFits, RequestFits,
                    LaunchFits

LEMMA FinishCheckKeeps ==
  ASSUME UpdateParts, FinishCheck
  PROVE  UpdateParts'
<1>1. /\ reply = "check" /\ reply' = "none" /\ update = "Checking" /\ part = NoPart
      /\ launch = "no"
      /\ UNCHANGED <<part, installer, cancelled, writeFailed, skippedVersion, launch, changed>>
  BY DEF launchVars, FinishCheck, UpdateParts, RequestFits, LaunchFits
<1>2. FileTypes' /\ RestOfTypes' /\ LaunchFits'
  BY <1>1 DEF UpdateParts, FileTypes, RestOfTypes, LaunchFits
<1>3. PICK state \in {"UpToDate", "Available", "Failed"}, release \in Release \cup {NoRelease} :
        /\ SetState(state, release)
        /\ state = "Available" => Newer(release)
        /\ state = "Failed" => release = NoRelease
  BY DEF FinishCheck, Applied
<1>4. OfferTypes' /\ update' = state /\ offer' = release
  BY <1>3, SetStateTypes
<1> QED BY <1>1, <1>2, <1>3, <1>4 DEF UpdateParts, OfferFits, RequestFits

LEMMA DownloadKeeps ==
  ASSUME UpdateParts, Download
  PROVE  UpdateParts'
<1>1. /\ update \in {"Available", "Failed"} /\ offer.verifiable /\ installer' = NoRelease
      /\ reply = "none" /\ part = NoPart /\ launch = "no" /\ Newer(offer)
      /\ offer \in Release \cup {NoRelease}
      /\ UNCHANGED <<skippedVersion, launch, changed>>
  BY DEF launchVars, Download, CanInstallInPlace, UpdateParts, OfferTypes, OfferFits, RequestFits, LaunchFits,
         RestOfTypes, NoRelease
<1>2. CASE SetState("Failed", offer) /\ UNCHANGED <<reply, part, cancelled, writeFailed>>
  <2>1. OfferTypes' /\ update' = "Failed" /\ offer' = offer
    BY <1>1, <1>2, SetStateTypes
  <2> QED BY <1>1, <1>2, <2>1, Versions
          DEF UpdateParts, FileTypes, RestOfTypes, OfferFits, RequestFits, LaunchFits
<1>3. CASE /\ part' = [chunks |-> 0, good |-> TRUE]
           /\ cancelled' = FALSE /\ writeFailed' = FALSE
           /\ reply' = "download"
           /\ SetState("Downloading", offer)
  <2>1. OfferTypes' /\ update' = "Downloading" /\ offer' = offer
    BY <1>1, <1>3, SetStateTypes
  <2>2. part' \in [chunks : -1 .. Size, good : BOOLEAN] /\ part' # NoPart
    <3>1. 0 \in -1 .. Size
      BY UpdateAssumption
    <3>2. part'.chunks = 0 /\ NoPart.chunks = -1
      BY <1>3 DEF NoPart
    <3> QED BY <1>3, <3>1, <3>2
  <2> QED BY <1>1, <1>3, <2>1, <2>2, Versions
          DEF UpdateParts, FileTypes, RestOfTypes, OfferFits, RequestFits, LaunchFits
<1> QED BY <1>2, <1>3 DEF Download

LEMMA ReceiveKeeps ==
  ASSUME UpdateParts, Receive
  PROVE  UpdateParts'
<1>1. /\ reply = "download" /\ update = "Downloading" /\ part # NoPart
      /\ part \in [chunks : -1 .. Size, good : BOOLEAN] /\ writeFailed \in BOOLEAN
      /\ UNCHANGED <<update, offer, reply, installer, cancelled, skippedVersion, notified, launch, changed>>
  BY DEF launchVars, Receive, UpdateParts, RequestFits, FileTypes, RestOfTypes
<1>2. /\ part' \in [chunks : -1 .. Size, good : BOOLEAN] /\ part' # NoPart
      /\ writeFailed' \in BOOLEAN
  <2>1. CASE writeFailed' = TRUE /\ UNCHANGED part
    BY <1>1, <2>1
  <2>2. CASE /\ part.chunks < Size
             /\ \E good \in BOOLEAN :
                  part' = [chunks |-> part.chunks + 1, good |-> part.good /\ good]
             /\ UNCHANGED writeFailed
    <3>1. PICK good \in BOOLEAN : part' = [chunks |-> part.chunks + 1, good |-> part.good /\ good]
      BY <2>2
    <3>2. part.chunks + 1 \in 0 .. Size /\ (part.good /\ good) \in BOOLEAN
      BY <1>1, <2>2, UpdateAssumption
    <3>3. part.chunks + 1 \in -1 .. Size /\ part.chunks + 1 # -1
      BY <3>2
    <3>4. part'.chunks = part.chunks + 1 /\ NoPart.chunks = -1
      BY <3>1 DEF NoPart
    <3> QED BY <1>1, <2>2, <3>1, <3>2, <3>3, <3>4
  <2> QED BY <2>1, <2>2 DEF Receive
<1> QED BY <1>1, <1>2
        DEF UpdateParts, OfferTypes, FileTypes, RestOfTypes, OfferFits, RequestFits, LaunchFits

LEMMA FinishDownloadKeeps ==
  ASSUME UpdateParts, NEW failed \in BOOLEAN, FinishDownload(failed)
  PROVE  UpdateParts'
<1>1. /\ reply = "download" /\ reply' = "none" /\ update = "Downloading" /\ part' = NoPart
      /\ launch = "no" /\ Newer(offer) /\ offer.verifiable
      /\ offer \in Release \cup {NoRelease}
      /\ UNCHANGED <<cancelled, writeFailed, skippedVersion, launch, changed>>
  BY DEF launchVars, FinishDownload, UpdateParts, OfferTypes, RequestFits, OfferFits, LaunchFits
<1>2. PICK state \in {"Available", "Ready", "Failed"} : SetState(state, offer)
  BY DEF FinishDownload
<1>3. installer' \in {installer, NoRelease, offer}
  BY DEF FinishDownload
<1>4. OfferTypes' /\ update' = state /\ offer' = offer
  BY <1>1, <1>2, SetStateTypes
<1>5. FileTypes'
  <2>1. -1 \in -1 .. Size
    BY UpdateAssumption
  <2> QED BY <1>1, <1>3, <2>1, Versions DEF UpdateParts, FileTypes, NoPart, Content
<1> QED BY <1>1, <1>4, <1>5 DEF UpdateParts, RestOfTypes, OfferFits, RequestFits, LaunchFits

LEMMA LaunchKeeps ==
  ASSUME UpdateParts, CheckInstaller \/ StartInstaller
  PROVE  UpdateParts'
<1>1. /\ update = "Ready" /\ Newer(offer) /\ offer.verifiable
      /\ reply = "none" /\ part = NoPart /\ offer \in Release \cup {NoRelease}
      /\ changed' \in BOOLEAN
      /\ UNCHANGED <<reply, part, cancelled, writeFailed, skippedVersion>>
  BY DEF CheckInstaller, StartInstaller, UpdateParts, OfferTypes, RequestFits, OfferFits,
         LaunchFits, RestOfTypes
<1>2. CASE /\ installer = offer /\ launch' = "checked" /\ changed' = FALSE
           /\ UNCHANGED <<update, offer, notified, installer>>
  BY <1>1, <1>2
     DEF UpdateParts, OfferTypes, FileTypes, RestOfTypes, OfferFits, RequestFits, LaunchFits
<1>3. CASE SetState("Failed", offer) /\ launch' = "no" /\ installer' \in {installer, NoRelease}
  <2>1. OfferTypes' /\ update' = "Failed" /\ offer' = offer
    BY <1>1, <1>3, SetStateTypes
  <2> QED BY <1>1, <1>3, <2>1, Versions
          DEF UpdateParts, FileTypes, RestOfTypes, OfferFits, RequestFits, LaunchFits
<1>4. CASE launch = "checked" /\ launch' = "started" /\ UNCHANGED <<update, offer, notified, installer, changed>>
  BY <1>1, <1>4
     DEF UpdateParts, OfferTypes, FileTypes, RestOfTypes, OfferFits, RequestFits, LaunchFits
<1> QED BY <1>1, <1>2, <1>3, <1>4 DEF CheckInstaller, StartInstaller, FileMatches, UpdateParts,
            RestOfTypes

LEMMA UpdateStep == UpdateParts /\ [UpdateNext]_updateVars => UpdateParts'
<1> SUFFICES ASSUME UpdateParts, [UpdateNext]_updateVars PROVE UpdateParts'
  OBVIOUS
<1>1. ASSUME NEW again \in BOOLEAN, Check(again) PROVE UpdateParts'
  BY <1>1, CheckKeeps
<1>2. CASE FinishCheck
  BY <1>2, FinishCheckKeeps
<1>3. CASE OnUpdatePrimaryAction
  <2>1. CASE CancelDownload
    BY <2>1 DEF CancelDownload, launchVars, UpdateParts, OfferTypes, FileTypes, RestOfTypes, OfferFits,
                RequestFits, LaunchFits
  <2> QED BY <1>3, <2>1, DownloadKeeps, LaunchKeeps DEF OnUpdatePrimaryAction
<1>4. CASE Receive
  BY <1>4, ReceiveKeeps
<1>5. ASSUME NEW failed \in BOOLEAN, FinishDownload(failed) PROVE UpdateParts'
  BY <1>5, FinishDownloadKeeps
<1>6. CASE SkipVersion
  <2>1. offer.version \in -1 .. MaxVersion
    BY Versions DEF UpdateParts, OfferTypes
  <2> QED BY <1>6, <2>1 DEF SkipVersion, launchVars, UpdateParts, OfferTypes, FileTypes, RestOfTypes, OfferFits,
                            RequestFits, LaunchFits
<1>7. CASE TempFolderChanges
  BY <1>7, Versions DEF TempFolderChanges, UpdateParts, OfferTypes, FileTypes, RestOfTypes,
                        OfferFits, RequestFits, LaunchFits
<1>8. CASE UNCHANGED updateVars
  BY <1>8 DEF updateVars, UpdateParts, OfferTypes, FileTypes, RestOfTypes, OfferFits, RequestFits,
              LaunchFits, launchVars
<1>9. CASE StartInstaller
  BY <1>9, LaunchKeeps
<1> QED BY <1>1, <1>2, <1>3, <1>4, <1>5, <1>6, <1>7, <1>8, <1>9 DEF UpdateNext

LEMMA UpdateInvariance == UpdateSpec => []UpdateParts
<1> QED BY UpdateInitInv, UpdateStep, PTL DEF UpdateSpec

(* From the last look at the installer until msiexec has it, the file is   *)
(* the release on offer, bit for bit, unless someone else changes it in    *)
(* that time; a request is in flight, and a part file there, exactly in    *)
(* the states that say so (updatechecker.cpp).                             *)
THEOREM InstallsTheOffer == UpdateSpec => []OnlyTheOfferIsInstalled
<1>1. UpdateParts => OnlyTheOfferIsInstalled
  BY UpdatePartsAre
<1> QED BY <1>1, UpdateInvariance, PTL

(* A download that was cancelled never ends as a failure or ready to       *)
(* install (UpdateChecker::cancelDownload and finishDownload).             *)
THEOREM CancelHolds == UpdateSpec => CancelIsHonoured
<1>1. ASSUME UpdateParts, [UpdateNext]_updateVars, update = "Downloading", cancelled
      PROVE  update' \in {"Downloading", "Available"}
  <2>0. reply = "download"
    BY <1>1 DEF UpdateParts, RequestFits
  <2>1. ASSUME NEW again \in BOOLEAN, Check(again) PROVE FALSE
    BY <1>1, <2>1 DEF Check
  <2>2. CASE FinishCheck \/ SkipVersion \/ TempFolderChanges \/ Receive
    BY <1>1, <2>0, <2>2 DEF FinishCheck, SkipVersion, TempFolderChanges, Receive
  <2>3. CASE OnUpdatePrimaryAction
    BY <1>1, <2>3 DEF OnUpdatePrimaryAction, Download, CancelDownload, CheckInstaller
  <2>4. ASSUME NEW failed \in BOOLEAN, FinishDownload(failed) PROVE update' = "Available"
    BY <1>1, <2>4 DEF FinishDownload, Cancels, SetState
  <2>5. CASE UNCHANGED updateVars
    BY <1>1, <2>5 DEF updateVars
  <2>6. CASE StartInstaller
    BY <1>1, <2>6 DEF StartInstaller, UpdateParts, LaunchFits
  <2> QED BY <1>1, <2>1, <2>2, <2>3, <2>4, <2>5, <2>6 DEF UpdateNext
<1>2. UpdateParts /\ [UpdateNext]_updateVars
      => [update = "Downloading" /\ cancelled => update' \in {"Downloading", "Available"}]_updateVars
  BY <1>1
<1> QED BY <1>2, UpdateInvariance, PTL DEF UpdateSpec, CancelIsHonoured

-----------------------------------------------------------------------------
(***************************************************************************)
(* Beacon, for any ports, scripts and radios.  BeaconIsTrue speaks of the  *)
(* second poll after a change.  What is inductive: what a poll has read    *)
(* since the last poll is what the file still says (ReadsTheFile), so a    *)
(* beacon that still runs after a second poll has a live service behind it *)
(* (FollowsTheFile); whatever is on the air is either a running beacon's   *)
(* or was abandoned (OnAirRuns); and a file whose process lives is that of *)
(* the engine that runs, or of one that was terminated (FileOfEngine).     *)
(***************************************************************************)
USE DEF serving

RunsInProcess ==
  /\ running => process
  /\ seen # Unread => process
  /\ script = "none" => ~process
  /\ script \in {"none", "windows"} => seen # Orphan

OnAirRuns ==
  /\ radio # 0 => running \/ abandoned
  /\ script \in {"none", "windows"} /\ radio # 0 => radio = advertised /\ publisher

ReadsTheFile ==
  settled # 0 /\ seen # Unread =>
    IF script = "windows" THEN seen = ReadFile
    ELSE /\ bledata # Partial
         /\ seen = (IF bledata # NoFile /\ ~owner THEN Orphan ELSE bledata)

FollowsTheFile ==
  settled = 2 /\ running =>
    /\ owner /\ bledata \in Ports
    /\ script = "windows" => advertised = bledata

FileOfEngine ==
  /\ engine # 0 => owner /\ bledata \in {NoFile, Partial, engine}
  /\ engine = 0 /\ owner /\ bledata # NoFile => terminated

BInv == BeaconTypeOK /\ RunsInProcess /\ OnAirRuns /\ ReadsTheFile /\ FollowsTheFile /\ FileOfEngine

PartyTypes == /\ script \in {"none", "windows"} \union Modules /\ process \in BOOLEAN
              /\ settled \in 0 .. 2
EngineTypes == engine \in Ports \union {0} /\ owner \in BOOLEAN /\ terminated \in BOOLEAN
FileType == bledata \in Ports \union {NoFile, Partial}
SeenType == seen \in Ports \union {NoFile, Orphan, Unread}
ScriptTypes ==
  /\ running \in BOOLEAN /\ publisher \in BOOLEAN /\ stopping \in BOOLEAN /\ abandoned \in BOOLEAN
  /\ advertised \in Ports \union {0} /\ radio \in Ports \union {0}

LEMMA BeaconTypesAre ==
  BeaconTypeOK <=> PartyTypes /\ EngineTypes /\ FileType /\ SeenType /\ ScriptTypes
BY DEF BeaconTypeOK, PartyTypes, EngineTypes, FileType, SeenType, ScriptTypes

LEMMA BeaconTypesAreNext ==
  BeaconTypeOK' <=> PartyTypes' /\ EngineTypes' /\ FileType' /\ SeenType' /\ ScriptTypes'
BY DEF BeaconTypeOK, PartyTypes, EngineTypes, FileType, SeenType, ScriptTypes

(* What the numbers that are no ports have of their own.                   *)
LEMMA NoPorts ==
  /\ NoFile \notin Ports /\ Partial \notin Ports /\ Orphan \notin Ports /\ Unread \notin Ports
  /\ 0 \notin Ports /\ NoFile # Partial /\ NoFile # Orphan /\ NoFile # Unread /\ Orphan # Unread
BY BeaconAssumption DEF NoFile, Partial, Orphan, Unread

LEMMA BeaconInitInv == BeaconInit => BInv
<1> SUFFICES ASSUME BeaconInit PROVE BInv
  OBVIOUS
<1>1. BeaconTypeOK
  <2>1. PartyTypes
    <3>1. 0 \in 0 .. 2
      OBVIOUS
    <3> QED BY <3>1 DEF BeaconInit, PartyTypes
  <2>3. EngineTypes
    BY DEF BeaconInit, EngineTypes
  <2>4. FileType
    BY DEF BeaconInit, FileType
  <2>2. SeenType /\ ScriptTypes
    BY DEF BeaconInit, SeenType, ScriptTypes
  <2> QED BY <2>1, <2>2, <2>3, <2>4, BeaconTypesAre
<1>2. RunsInProcess /\ OnAirRuns /\ ReadsTheFile /\ FollowsTheFile /\ FileOfEngine
  BY NoPorts DEF BeaconInit, RunsInProcess, OnAirRuns, ReadsTheFile, FollowsTheFile, FileOfEngine
<1> QED BY <1>1, <1>2 DEF BInv

(* The engine's steps start the count of polls anew.                       *)
LEMMA EngineOfBeaconKeeps ==
  ASSUME BInv, EngineStarts \/ EngineWrites \/ EngineStops \/ EngineDies \/ OwnerEnds
  PROVE  BInv'
<1>1. BeaconUnmoved /\ settled' = 0
  BY DEF EngineStarts, EngineWrites, EngineStops, EngineDies, OwnerEnds
<1>2. EngineTypes' /\ FileType'
  BY BeaconTypesAre DEF EngineStarts, EngineWrites, EngineStops, EngineDies, OwnerEnds, serving,
                        EngineTypes, FileType, BInv
<1>5. FileOfEngine'
  BY NoPorts DEF EngineStarts, EngineWrites, EngineStops, EngineDies, OwnerEnds, serving, BInv,
                 FileOfEngine
<1>3. PartyTypes' /\ SeenType' /\ ScriptTypes'
  BY <1>1, BeaconTypesAre DEF BeaconUnmoved, scriptVars, PartyTypes, SeenType, ScriptTypes, BInv
<1>4. RunsInProcess' /\ OnAirRuns' /\ ReadsTheFile' /\ FollowsTheFile'
  BY <1>1 DEF BeaconUnmoved, scriptVars, BInv, RunsInProcess, OnAirRuns, ReadsTheFile, FollowsTheFile
<1> QED BY <1>2, <1>3, <1>4, <1>5, BeaconTypesAreNext DEF BInv

(* What leaves the engine alone keeps its file, or takes it away.          *)
LEMMA FileIsKeptOrGone ==
  ASSUME FileOfEngine, UNCHANGED <<engine, serving>>, bledata' \in {bledata, NoFile}
  PROVE  FileOfEngine'
BY DEF FileOfEngine, serving

(* The end of the process leaves nothing running, and what it leaves on    *)
(* the air is abandoned.                                                   *)
Ended == /\ process' = FALSE /\ running' = FALSE /\ advertised' = 0
         /\ ScriptTypes' /\ (radio' # 0 => abandoned')
         /\ script \in {"none", "windows"} => radio' = 0

LEMMA DiesEnds == BInv /\ process /\ Dies => Ended
<1> SUFFICES ASSUME BInv, process, Dies PROVE Ended
  OBVIOUS
<1>1. script # "none" /\ ScriptTypes /\ "windows" \in Bound
  BY BeaconTypesAre DEF BInv, RunsInProcess, Bound
<1>2. ProcessEnds /\ radio' \in {0, radio} /\ abandoned' \in BOOLEAN
      /\ (radio' # 0 => abandoned') /\ (script = "windows" => radio' = 0)
  BY <1>1 DEF Dies, ScriptTypes
<1> QED BY <1>1, <1>2 DEF ProcessEnds, Ended, ScriptTypes

LEMMA EndKeeps ==
  ASSUME BInv, Ended, seen' = Unread, UNCHANGED <<script, engine, serving>>,
         bledata' \in {bledata, NoFile}, FileType', settled' \in 0 .. 2
  PROVE  BInv'
<1>0. FileOfEngine'
  BY FileIsKeptOrGone DEF BInv
<1>1. PartyTypes' /\ EngineTypes' /\ SeenType' /\ ScriptTypes'
  BY BeaconTypesAre DEF BInv, Ended, PartyTypes, EngineTypes, SeenType
<1>2. RunsInProcess' /\ OnAirRuns' /\ ReadsTheFile' /\ FollowsTheFile'
  BY NoPorts DEF Ended, RunsInProcess, OnAirRuns, ReadsTheFile, FollowsTheFile
<1> QED BY <1>0, <1>1, <1>2, BeaconTypesAreNext DEF BInv

LEMMA StartScriptKeeps ==
  ASSUME BInv, NEW kind \in {"none", "BleuIO", "HCI"}, NEW system \in {"Windows", "Linux", "other"},
         NEW atStartup \in BOOLEAN, StartScript(kind, system, atStartup)
  PROVE  BInv'
<1>1. /\ ~process /\ process' = TRUE /\ settled' = 0 /\ seen' = Unread
      /\ UNCHANGED <<engine, bledata, serving, running, advertised, abandoned>>
      /\ stopping' \in BOOLEAN /\ publisher' \in BOOLEAN /\ radio' \in {0, radio}
  BY DEF StartScript, FindDevice
<1>2. script' \in Modules
  BY DEF StartScript, Chosen, Modules
<1>3. PartyTypes' /\ EngineTypes' /\ FileType' /\ SeenType' /\ ScriptTypes'
  BY <1>1, <1>2, BeaconTypesAre DEF BInv, PartyTypes, EngineTypes, FileType, SeenType, ScriptTypes
<1>4. RunsInProcess' /\ OnAirRuns' /\ ReadsTheFile' /\ FollowsTheFile'
  BY NoPorts, <1>1, <1>2 DEF BInv, RunsInProcess, OnAirRuns, ReadsTheFile, FollowsTheFile, Modules
<1> QED BY <1>1, <1>3, <1>4, FileIsKeptOrGone, BeaconTypesAreNext DEF BInv

LEMMA StartBeaconKeeps ==
  ASSUME BInv, StartBeacon
  PROVE  BInv'
<1>1. PartyTypes' /\ EngineTypes' /\ FileType' /\ SeenType' /\ ScriptTypes'
  BY BeaconTypesAre DEF StartBeacon, scriptVars, BInv, PartyTypes, EngineTypes, FileType, SeenType,
                        ScriptTypes
<1>2. RunsInProcess' /\ OnAirRuns' /\ ReadsTheFile' /\ FollowsTheFile'
  BY NoPorts DEF StartBeacon, scriptVars, BInv, RunsInProcess, OnAirRuns, ReadsTheFile, FollowsTheFile
<1> QED BY <1>1, <1>2, FileIsKeptOrGone, BeaconTypesAreNext DEF BInv, StartBeacon

LEMMA LookKeeps ==
  ASSUME BInv, Look
  PROVE  BInv'
<1>1. process /\ seen = Unread /\ UNCHANGED <<script, engine, bledata, serving, settled>>
  BY DEF Look
<1>2. FileType' /\ settled' \in 0 .. 2
  BY <1>1, BeaconTypesAre DEF BInv, FileType, PartyTypes
<1>3. CASE Dies /\ UNCHANGED seen
  BY <1>1, <1>2, <1>3, DiesEnds, EndKeeps
<1>4. CASE /\ UNCHANGED <<process, scriptVars>>
           /\ IF script = "windows" THEN seen' = ReadFile
              ELSE /\ bledata # Partial
                   /\ seen' = (IF bledata # NoFile /\ ~owner THEN Orphan ELSE bledata)
  <2>1. SeenType'
    BY <1>4, BeaconTypesAre DEF BInv, SeenType, FileType, ReadFile
  <2>2. PartyTypes' /\ EngineTypes' /\ ScriptTypes'
    BY <1>1, <1>4, BeaconTypesAre DEF BInv, PartyTypes, EngineTypes, ScriptTypes, scriptVars
  <2>3. OnAirRuns' /\ FollowsTheFile'
    BY <1>1, <1>4 DEF BInv, OnAirRuns, FollowsTheFile, scriptVars
  <2>5. script = "windows" => seen' # Orphan
    BY <1>4, BeaconTypesAre, NoPorts DEF BInv, FileType, ReadFile, Partial, Orphan
  <2>6. RunsInProcess'
    BY <1>1, <1>4, <2>5 DEF BInv, RunsInProcess, scriptVars
  <2>4. ReadsTheFile'
    BY <1>1, <1>4 DEF ReadsTheFile, ReadFile
  <2> QED BY <1>1, FileIsKeptOrGone, <1>2, <2>1, <2>2, <2>3, <2>4, <2>6, BeaconTypesAreNext DEF BInv
<1> QED BY <1>3, <1>4 DEF Look

-----------------------------------------------------------------------------
(* What a poll comes to: the process ends, or the beacon does not run, or  *)
(* it runs for the port that was read.                                     *)
Polled ==
  \/ Ended
  \/ /\ process' = process /\ ScriptTypes' /\ OnAirRuns'
     /\ running' => /\ seen \in Ports
                    /\ script = "windows" => advertised' = seen

LEMMA WindowsPolls ==
  ASSUME BInv, WindowsPoll, process, seen # Unread, script' = script
  PROVE  Polled /\ bledata' = bledata
<1>0. /\ script = "windows" /\ UNCHANGED <<process, bledata, abandoned>>
      /\ ScriptTypes /\ seen \in Ports \cup {NoFile} /\ OnAirRuns
  BY BeaconTypesAre DEF BInv, WindowsPoll, SeenType, RunsInProcess
<1>1. CASE seen # NoFile /\ (~running \/ seen # advertised)
  <2>1. PICK stopped \in BOOLEAN : StartAdvertising(seen, stopped)
    BY <1>0, <1>1 DEF WindowsPoll
  <2>2. CASE publisher' = TRUE /\ running' = TRUE /\ radio' = seen /\ advertised' = seen
             /\ stopping' = (stopping \/ (stopped /\ publisher))
    BY <1>0, <1>1, <2>2 DEF Polled, ScriptTypes, OnAirRuns
  <2>3. CASE /\ publisher' = FALSE /\ running' = FALSE /\ radio' = 0
             /\ advertised' = (IF stopped THEN 0 ELSE advertised)
             /\ stopping' = (stopping \/ (stopped /\ publisher))
    BY <1>0, <1>1, <2>3 DEF Polled, ScriptTypes, OnAirRuns
  <2> QED BY <1>0, <2>1, <2>2, <2>3 DEF StartAdvertising
<1>2. CASE seen # NoFile /\ running /\ seen = advertised
  <2>1. UNCHANGED <<running, publisher, radio, advertised, stopping>>
    BY <1>0, <1>2 DEF WindowsPoll
  <2> QED BY <1>0, <1>2, <2>1 DEF Polled, ScriptTypes, OnAirRuns
<1>3. CASE seen = NoFile /\ running
  <2>1. StopAdvertising
    BY <1>0, <1>3 DEF WindowsPoll
  <2> QED BY <1>0, <1>3, <2>1 DEF StopAdvertising, Polled, ScriptTypes, OnAirRuns
<1>4. CASE seen = NoFile /\ ~running
  <2>1. UNCHANGED <<running, publisher, radio, advertised, stopping>>
    BY <1>0, <1>4 DEF WindowsPoll
  <2> QED BY <1>0, <1>4, <2>1 DEF Polled, ScriptTypes, OnAirRuns
<1> QED BY <1>0, <1>1, <1>2, <1>3, <1>4

LEMMA OthersPoll ==
  ASSUME BInv, OtherPoll, process, seen # Unread, script' = script
  PROVE  Polled /\ FileType' /\ bledata' \in {bledata, NoFile} /\ (seen # Orphan => bledata' = bledata)
<1>0. /\ script \in Modules /\ ScriptTypes /\ OnAirRuns /\ script \notin {"none", "windows"}
      /\ bledata' \in IF seen = Orphan THEN {bledata, NoFile} ELSE {bledata}
  BY BeaconTypesAre DEF BInv, OtherPoll, Modules
<1>1. FileType' /\ bledata' \in {bledata, NoFile} /\ (seen # Orphan => bledata' = bledata)
  BY <1>0, BeaconTypesAre DEF BInv, FileType
<1>d. CASE Dies
  BY <1>d, <1>1, DiesEnds DEF Polled
<1>e. CASE ProcessEnds /\ abandoned' = TRUE /\ radio' \in Ports \cup {0}
  BY <1>0, <1>1, <1>e DEF ProcessEnds, Polled, Ended, ScriptTypes
<1>2. CASE seen \in Ports /\ ~running
  <2>1. WinrtOn(seen) \/ BlueZOn(seen) \/ HciOn(seen) \/ BleuIOOn(seen)
    BY <1>0, <1>2 DEF OtherPoll, StartTheBeacon, Modules
  <2>2. ASSUME NEW port \in Ports \cup {0}, On(port),
               publisher' \in {TRUE, publisher}, stopping' = stopping
        PROVE  Polled
    BY <1>0, <1>2, <2>2 DEF On, Polled, ScriptTypes, OnAirRuns
  <2>3. radio \in Ports \cup {0}
    BY <1>0 DEF ScriptTypes
  <2>4. CASE WinrtOn(seen)
    BY <1>1, <1>2, <1>d, <2>2, <2>4 DEF WinrtOn, GiveUp
  <2>5. CASE BlueZOn(seen)
    BY <1>1, <1>2, <1>d, <2>2, <2>5 DEF BlueZOn, GiveUp
  <2>6. CASE HciOn(seen)
    BY <1>1, <1>2, <1>d, <1>e, <2>2, <2>6 DEF HciOn, GiveUp
  <2>7. CASE BleuIOOn(seen)
    BY <1>1, <1>2, <1>d, <2>2, <2>3, <2>7 DEF BleuIOOn, GiveUp
  <2> QED BY <2>1, <2>4, <2>5, <2>6, <2>7
<1>3. CASE seen \notin Ports /\ running
  <2>1. WinrtOff \/ BlueZOff \/ HciOff \/ BleuIOOff
    BY <1>0, <1>3 DEF OtherPoll, StopTheBeacon, Modules
  <2>2. ASSUME process' = process, running' = FALSE, UNCHANGED advertised,
               (radio' = 0 /\ UNCHANGED abandoned) \/ (abandoned' = TRUE /\ UNCHANGED radio),
               publisher' \in BOOLEAN, stopping' \in BOOLEAN
        PROVE  Polled
    BY <1>0, <2>2 DEF Polled, ScriptTypes, OnAirRuns
  <2>3. publisher \in BOOLEAN /\ stopping \in BOOLEAN /\ radio \in Ports \cup {0}
    BY <1>0 DEF ScriptTypes
  <2>4. CASE WinrtOff
    BY <1>1, <1>d, <2>2, <2>3, <2>4 DEF WinrtOff, Off
  <2>5. CASE BlueZOff
    BY <1>1, <2>2, <2>3, <2>5 DEF BlueZOff, Off
  <2>6. CASE HciOff
    BY <1>1, <1>e, <2>2, <2>3, <2>6 DEF HciOff, Off
  <2>7. CASE BleuIOOff
    BY <1>1, <2>2, <2>3, <2>7 DEF BleuIOOff
  <2> QED BY <2>1, <2>4, <2>5, <2>6, <2>7
<1>4. CASE (seen \in Ports /\ running) \/ (seen \notin Ports /\ ~running)
  <2>1. UNCHANGED <<process, scriptVars>>
    BY <1>0, <1>4 DEF OtherPoll
  <2> QED BY <1>0, <1>1, <1>4, <2>1 DEF scriptVars, Polled, ScriptTypes, OnAirRuns
<1> QED BY <1>2, <1>3, <1>4

LEMMA TickKeeps ==
  ASSUME BInv, Tick
  PROVE  BInv'
<1>1. /\ process /\ seen # Unread /\ seen' = Unread
      /\ settled' = (IF settled < 2 THEN settled + 1 ELSE 2)
      /\ UNCHANGED <<script, engine, serving>> /\ (WindowsPoll \/ OtherPoll)
      /\ settled \in 0 .. 2
  BY BeaconTypesAre DEF Tick, BInv, PartyTypes
<1>2. settled' \in 0 .. 2 /\ (settled' = 2 => settled # 0)
  BY <1>1
<1>3. Polled /\ FileType' /\ bledata' \in {bledata, NoFile} /\ (seen # Orphan => bledata' = bledata)
  BY <1>1, WindowsPolls, OthersPoll, BeaconTypesAre DEF BInv, FileType
<1>4. CASE Ended
  BY <1>1, <1>2, <1>3, <1>4, EndKeeps
<1>5. CASE /\ process' = process /\ ScriptTypes' /\ OnAirRuns'
           /\ running' => /\ seen \in Ports
                          /\ script = "windows" => advertised' = seen
  <2>1. PartyTypes' /\ EngineTypes' /\ SeenType'
    BY <1>1, <1>2, <1>5, BeaconTypesAre DEF BInv, PartyTypes, EngineTypes, SeenType
  <2>2. RunsInProcess' /\ ReadsTheFile'
    BY <1>1, <1>5, NoPorts DEF BInv, RunsInProcess, ReadsTheFile
  <2>3. ASSUME settled' = 2, running'
        PROVE  owner /\ bledata \in Ports /\ bledata' = bledata /\ seen = bledata
    <3>1. settled # 0 /\ seen \in Ports /\ seen # Orphan /\ seen # NoFile
      BY <1>2, <1>5, <2>3, NoPorts
    <3> QED BY <1>1, <1>3, <3>1 DEF BInv, ReadsTheFile, ReadFile
  <2>4. FollowsTheFile'
    BY <1>1, <1>5, <2>3 DEF FollowsTheFile
  <2> QED BY <1>1, FileIsKeptOrGone, <1>3, <1>5, <2>1, <2>2, <2>4, BeaconTypesAreNext DEF BInv
<1> QED BY <1>3, <1>4, <1>5 DEF Polled

LEMMA InterruptKeeps ==
  ASSUME BInv, Interrupt
  PROVE  BInv'
<1>1. /\ ProcessEnds /\ script \in Modules /\ script \notin {"none", "windows"}
      /\ UNCHANGED <<script, engine, bledata, serving, seen, settled>> /\ seen' = Unread
  BY DEF Interrupt, Modules
<1>2. ScriptTypes /\ FileType /\ settled \in 0 .. 2 /\ (radio # 0 => running \/ abandoned)
  BY BeaconTypesAre DEF BInv, PartyTypes, OnAirRuns
<1>3. /\ radio' \in {0, radio} /\ abandoned' \in BOOLEAN
      /\ radio' # 0 => abandoned'
  BY <1>1, <1>2 DEF Interrupt, ScriptTypes, Modules, Bound
<1>4. Ended
  BY <1>1, <1>2, <1>3 DEF Ended, ProcessEnds, ScriptTypes
<1> QED BY <1>1, <1>2, <1>4, EndKeeps DEF FileType

LEMMA StoppedKeeps ==
  ASSUME BInv, Stopped
  PROVE  BInv'
<1>1. /\ stopping' = FALSE /\ publisher' = FALSE /\ radio' = 0
      /\ UNCHANGED <<script, process, engine, bledata, serving, seen, running, advertised, abandoned,
                     settled>>
  BY DEF Stopped
<1>2. PartyTypes' /\ EngineTypes' /\ FileType' /\ SeenType' /\ ScriptTypes'
  BY <1>1, BeaconTypesAre DEF BInv, PartyTypes, EngineTypes, FileType, SeenType, ScriptTypes
<1>3. RunsInProcess' /\ OnAirRuns' /\ ReadsTheFile' /\ FollowsTheFile'
  BY <1>1 DEF BInv, RunsInProcess, OnAirRuns, ReadsTheFile, FollowsTheFile, ReadFile
<1> QED BY <1>1, <1>2, <1>3, FileIsKeptOrGone, BeaconTypesAreNext DEF BInv

LEMMA AbortedKeeps ==
  ASSUME BInv, Aborted
  PROVE  BInv'
<1>1. process /\ UNCHANGED <<script, engine, bledata, serving, settled>>
  BY DEF Aborted
<1>2. PartyTypes /\ EngineTypes /\ FileType /\ SeenType /\ ScriptTypes
  BY BeaconTypesAre DEF BInv
<1>3. CASE script = "windows"
  <2>1. /\ radio' = 0
        /\ UNCHANGED <<process, running, advertised, publisher, stopping, abandoned, seen>>
    BY <1>3 DEF Aborted
  <2>2. PartyTypes' /\ EngineTypes' /\ FileType' /\ SeenType' /\ ScriptTypes'
    BY <1>1, <1>2, <2>1 DEF PartyTypes, EngineTypes, FileType, SeenType, ScriptTypes
  <2>3. RunsInProcess' /\ OnAirRuns' /\ ReadsTheFile' /\ FollowsTheFile'
    BY <1>1, <2>1 DEF BInv, RunsInProcess, OnAirRuns, ReadsTheFile, FollowsTheFile, ReadFile
  <2> QED BY <1>1, <2>2, <2>3, FileIsKeptOrGone, BeaconTypesAreNext DEF BInv
<1>4. CASE script # "windows"
  <2>1. Dies /\ seen' = Unread
    BY <1>4 DEF Aborted
  <2> QED BY <1>1, <1>2, <2>1, DiesEnds, EndKeeps DEF FileType, PartyTypes
<1> QED BY <1>3, <1>4

LEMMA StopBeaconKeeps ==
  ASSUME BInv, StopBeacon
  PROVE  BInv'
<1>1. process /\ Dies /\ seen' = Unread /\ UNCHANGED <<script, engine, bledata, serving, settled>>
  BY DEF StopBeacon
<1>2. FileType /\ PartyTypes
  BY BeaconTypesAre DEF BInv
<1> QED BY <1>1, <1>2, DiesEnds, EndKeeps DEF FileType, PartyTypes

LEMMA BeaconStep == BInv /\ [BeaconNext]_beaconVars => BInv'
<1> SUFFICES ASSUME BInv, [BeaconNext]_beaconVars PROVE BInv'
  OBVIOUS
<1>1. CASE EngineStarts \/ EngineWrites \/ EngineStops \/ EngineDies \/ OwnerEnds
  BY <1>1, EngineOfBeaconKeeps
<1>2. ASSUME NEW kind \in {"none", "BleuIO", "HCI"}, NEW system \in {"Windows", "Linux", "other"},
             NEW atStartup \in BOOLEAN, StartScript(kind, system, atStartup)
      PROVE  BInv'
  BY <1>2, StartScriptKeeps
<1>3. CASE UNCHANGED beaconVars
  <2>1. PartyTypes' /\ EngineTypes' /\ FileType' /\ SeenType' /\ ScriptTypes'
    BY <1>3, BeaconTypesAre DEF beaconVars, scriptVars, BInv, PartyTypes, EngineTypes, FileType,
                                SeenType, ScriptTypes
  <2>2. RunsInProcess' /\ OnAirRuns' /\ ReadsTheFile' /\ FollowsTheFile'
    BY <1>3 DEF beaconVars, scriptVars, BInv, RunsInProcess, OnAirRuns, ReadsTheFile,
                FollowsTheFile, ReadFile
  <2> QED BY <1>3, <2>1, <2>2, FileIsKeptOrGone, BeaconTypesAreNext DEF BInv, beaconVars
<1> QED BY <1>1, <1>2, <1>3, StartBeaconKeeps, StopBeaconKeeps, LookKeeps, TickKeeps, InterruptKeeps,
           StoppedKeeps, AbortedKeeps DEF BeaconNext

(* Two polls after the last change a beacon is on the air for an engine    *)
(* that runs, with the port of now if it is the Windows script's; unless   *)
(* the engine was terminated in an application that lives on, or a radio   *)
(* refused a command or outlived its process (Bluetooth_LE_beacon, both    *)
(* scripts and all four modules).                                          *)
THEOREM BeaconFollowsTheEngine == BeaconSpec => []BeaconIsTrue
<1>1. BInv => BeaconIsTrue
  <2> SUFFICES ASSUME BInv PROVE BeaconIsTrue
    OBVIOUS
  <2>1. ASSUME radio # 0, process, settled = 2, ~abandoned
        PROVE  /\ owner /\ (engine # 0 \/ terminated)
               /\ engine # 0 => bledata = engine
               /\ engine # 0 /\ script = "windows" => radio = engine
    <3>1. running /\ owner /\ bledata \in Ports /\ (script = "windows" => radio = bledata)
      BY <2>1 DEF BInv, OnAirRuns, FollowsTheFile
    <3> QED BY <3>1, NoPorts DEF BInv, FileOfEngine
  <2> QED BY <2>1 DEF BInv, BeaconIsTrue
<1> QED BY <1>1, BeaconInitInv, BeaconStep, PTL DEF BeaconSpec
-----------------------------------------------------------------------------
(***************************************************************************)
(* MirrorShape, for any pictures, monitors, frames and drags.              *)
(***************************************************************************)

(* Arithmetic.  Rounded is within half a unit of the quotient.             *)
LEMMA RoundedIs ==
  ASSUME NEW n \in Nat, NEW d \in Nat \ {0}
  PROVE  /\ Rounded(n, d) \in Nat
         /\ 2 * (d * Rounded(n, d)) - 2 * n \in (-d) .. d
<1> DEFINE a == 2 * n + d
           m == 2 * d
           q == a \div m
           r == a % m
<1>1. a \in Nat /\ m \in Nat \ {0}
  OBVIOUS
<1>2. r \in 0 .. m - 1 /\ q \in Int /\ a = m * q + r
  <2> HIDE DEF a, m
  <2> QED BY <1>1, ModDef DEF q, r
<1>3. Rounded(n, d) = q
  BY DEF Rounded
<1>4. m * q = 2 * (d * q)
  <2> HIDE DEF q
  <2> QED BY <1>2
<1>5. 2 * (d * q) - 2 * n = d - r
  <2> HIDE DEF q, r
  <2> QED BY <1>2, <1>4
<1>6. 2 * (d * q) - 2 * n \in (-d) .. d
  <2> HIDE DEF q, r
  <2> QED BY <1>2, <1>5
<1>7. q >= 0
  <2> HIDE DEF q, r, a, m
  <2> SUFFICES ASSUME q <= -1 PROVE FALSE
    BY <1>2
  <2>1. m * (-1 - q) >= 0
    BY <1>1, <1>2
  <2>2. m * q <= -m
    BY <2>1, <1>1, <1>2
  <2> QED BY <2>2, <1>1, <1>2
<1> HIDE DEF q
<1> QED BY <1>2, <1>3, <1>6, <1>7

(* A rounded quotient is no more than an integer that is no less.          *)
LEMMA RoundedAtMost ==
  ASSUME NEW n \in Nat, NEW d \in Nat \ {0}, NEW k \in Int, n <= k * d
  PROVE  Rounded(n, d) <= k
<1> DEFINE q == Rounded(n, d)
<1>1. q \in Nat /\ 2 * (d * q) - 2 * n \in (-d) .. d
  BY RoundedIs
<1> HIDE DEF q
<1> SUFFICES ASSUME q >= k + 1 PROVE FALSE
  BY <1>1 DEF q
<1>2. d * (q - (k + 1)) >= 0
  BY <1>1
<1>3. d * q >= k * d + d
  BY <1>1, <1>2
<1> QED BY <1>1, <1>3

LEMMA MaxIs ==
  ASSUME NEW a \in Int, NEW b \in Int
  PROVE  Max({a, b}) = IF a >= b THEN a ELSE b
<1> DEFINE M == IF a >= b THEN a ELSE b
<1>1. M \in {a, b} /\ \A y \in {a, b} : M >= y
  OBVIOUS
<1>2. \A x \in {a, b} : (\A y \in {a, b} : x >= y) => x = M
  OBVIOUS
<1> HIDE DEF M
<1>3. Max({a, b}) \in {a, b} /\ \A y \in {a, b} : Max({a, b}) >= y
  BY <1>1 DEF Max
<1> QED BY <1>2, <1>3 DEF M

LEMMA MinIs ==
  ASSUME NEW a \in Int, NEW b \in Int
  PROVE  Min({a, b}) = IF a <= b THEN a ELSE b
<1> DEFINE M == IF a <= b THEN a ELSE b
<1>1. M \in {a, b} /\ \A y \in {a, b} : M <= y
  OBVIOUS
<1>2. \A x \in {a, b} : (\A y \in {a, b} : x <= y) => x = M
  OBVIOUS
<1> HIDE DEF M
<1>3. Min({a, b}) \in {a, b} /\ \A y \in {a, b} : Min({a, b}) <= y
  BY <1>1 DEF Min
<1> QED BY <1>2, <1>3 DEF M

(* A picture with one side rounded has its shape. *)
LEMMA SidesFit ==
  ASSUME NEW w \in Int, NEW h \in Int, NEW p \in Nat \ {0}, NEW q \in Nat \ {0},
         \/ h \in Nat /\ w = Rounded(h * p, q)
         \/ w \in Nat /\ h = Rounded(w * q, p)
  PROVE  2 * (IF w * q - h * p < 0 THEN -(w * q - h * p) ELSE w * q - h * p) <= Max({p, q})
<1>1. Max({p, q}) = IF p >= q THEN p ELSE q
  BY MaxIs
<1>2. CASE h \in Nat /\ w = Rounded(h * p, q)
  <2>1. h * p \in Nat
    BY <1>2
  <2>2. 2 * (q * w) - 2 * (h * p) \in (-q) .. q
    BY <1>2, <2>1, RoundedIs
  <2>3. q * w = w * q
    OBVIOUS
  <2> QED BY <1>1, <2>1, <2>2, <2>3
<1>3. CASE w \in Nat /\ h = Rounded(w * q, p)
  <2>1. w * q \in Nat
    BY <1>3
  <2>2. 2 * (p * h) - 2 * (w * q) \in (-p) .. p
    BY <1>3, <2>1, RoundedIs
  <2>3. p * h = h * p
    OBVIOUS
  <2> QED BY <1>1, <2>1, <2>2, <2>3
<1> QED BY <1>2, <1>3

(* A rectangle that ends where its client area and its frame say.          *)
LEMMA FramedShape ==
  ASSUME NEW w \in Int, NEW h \in Int, NEW r \in Rectangles,
         NEW picture \in Pictures,
         r[3] - r[1] = w + Frame[1], r[4] - r[2] = h + Frame[2],
         \/ h \in Nat /\ w = Rounded(h * picture[1], picture[2])
         \/ w \in Nat /\ h = Rounded(w * picture[2], picture[1])
  PROVE  HasShape(r, picture) /\ w >= 0 /\ h >= 0 /\ IsWindow(r)
<1>1. Frame[1] \in Nat /\ Frame[2] \in Nat /\ picture[1] \in Nat \ {0} /\ picture[2] \in Nat \ {0}
  BY ShapeAssumption
<1>2. r[1] \in Int /\ r[2] \in Int /\ r[3] \in Int /\ r[4] \in Int
  BY DEF Rectangles
<1>3. ClientWidth(r) = w /\ ClientHeight(r) = h
  BY <1>1, <1>2 DEF ClientWidth, ClientHeight, Wide, High
<1>4. HasShape(r, picture)
  BY <1>1, <1>3, SidesFit DEF HasShape
<1>5. w >= 0 /\ h >= 0
  <2>1. CASE h \in Nat /\ w = Rounded(h * picture[1], picture[2])
    <3>1. h * picture[1] \in Nat
      BY <1>1, <2>1
    <3>2. Rounded(h * picture[1], picture[2]) \in Nat
      BY <1>1, <3>1, RoundedIs
    <3> QED BY <2>1, <3>2
  <2>2. CASE w \in Nat /\ h = Rounded(w * picture[2], picture[1])
    <3>1. w * picture[2] \in Nat
      BY <1>1, <2>2
    <3>2. Rounded(w * picture[2], picture[1]) \in Nat
      BY <1>1, <3>1, RoundedIs
    <3> QED BY <2>2, <3>2
  <2> QED BY <2>1, <2>2
<1> QED BY <1>3, <1>4, <1>5 DEF IsWindow

(* Every window has a nearest monitor, because no monitor shows more of a   *)
(* window than there is of it.                                             *)
LEMMA Products ==
  ASSUME NEW A \in Nat, NEW B \in Nat, NEW a \in 0 .. A, NEW b \in 0 .. B
  PROVE  a * b \in 0 .. A * B
<1>1. a * b >= 0
  OBVIOUS
<1>2. a * (B - b) >= 0
  OBVIOUS
<1>3. (A - a) * B >= 0
  OBVIOUS
<1>4. a * (B - b) = a * B - a * b /\ (A - a) * B = A * B - a * B
  OBVIOUS
<1>5. a * b \in Int /\ a * B \in Int /\ A * B \in Int
  OBVIOUS
<1> QED BY <1>1, <1>2, <1>3, <1>4, <1>5

Shared(a, b, c, d) == Max({0, Min({b, d}) - Max({a, c})})

LEMMA SharedIs ==
  ASSUME NEW a \in Int, NEW b \in Int, NEW c \in Int, NEW d \in Int, b >= a
  PROVE  /\ Shared(a, b, c, d) \in 0 .. b - a
         /\ c <= a /\ b <= d => Shared(a, b, c, d) = b - a
<1> DEFINE low == IF a >= c THEN a ELSE c
           high == IF b <= d THEN b ELSE d
<1>1. low = Max({a, c}) /\ high = Min({b, d})
  BY MaxIs, MinIs
<1>2. low \in Int /\ high \in Int /\ low >= a /\ high <= b /\ (c <= a /\ b <= d => low = a /\ high = b)
  OBVIOUS
<1> HIDE DEF low, high
<1>3. high - low \in Int /\ 0 \in Int
  BY <1>2
<1>4. Max({0, high - low}) = IF 0 >= high - low THEN 0 ELSE high - low
  BY <1>3, MaxIs
<1>5. Shared(a, b, c, d) = IF 0 >= high - low THEN 0 ELSE high - low
  BY <1>1, <1>4 DEF Shared
<1> QED BY <1>2, <1>5

LEMMA OverlapIs ==
  ASSUME NEW r \in Rectangles, NEW m \in Rectangles, Wide(r) >= 0, High(r) >= 0
  PROVE  /\ Overlap(r, m) \in 0 .. Wide(r) * High(r)
         /\ m[1] <= r[1] /\ r[3] <= m[3] /\ m[2] <= r[2] /\ r[4] <= m[4]
              => Overlap(r, m) = Wide(r) * High(r)
<1>1. /\ r[1] \in Int /\ r[2] \in Int /\ r[3] \in Int /\ r[4] \in Int
      /\ m[1] \in Int /\ m[2] \in Int /\ m[3] \in Int /\ m[4] \in Int
  BY DEF Rectangles
<1> DEFINE across == Shared(r[1], r[3], m[1], m[3])
           down == Shared(r[2], r[4], m[2], m[4])
<1>2. r[3] >= r[1] /\ r[4] >= r[2] /\ Wide(r) = r[3] - r[1] /\ High(r) = r[4] - r[2]
  BY <1>1 DEF Wide, High
<1>3. /\ across \in 0 .. Wide(r)
      /\ m[1] <= r[1] /\ r[3] <= m[3] => across = Wide(r)
  <2>1. /\ across \in 0 .. r[3] - r[1]
        /\ m[1] <= r[1] /\ r[3] <= m[3] => across = r[3] - r[1]
    <3>1. \A a, b, c, d \in Int : b >= a =>
            /\ Shared(a, b, c, d) \in 0 .. b - a
            /\ c <= a /\ b <= d => Shared(a, b, c, d) = b - a
      BY SharedIs
    <3>2. r[3] >= r[1]
      BY <1>2
    <3>3. r[1] \in Int /\ r[3] \in Int /\ m[1] \in Int /\ m[3] \in Int
      BY <1>1
    <3> QED BY <3>1, <3>2, <3>3, Zenon
  <2> HIDE DEF across
  <2> QED BY <1>2, <2>1
<1>4. /\ down \in 0 .. High(r)
      /\ m[2] <= r[2] /\ r[4] <= m[4] => down = High(r)
  <2>1. /\ down \in 0 .. r[4] - r[2]
        /\ m[2] <= r[2] /\ r[4] <= m[4] => down = r[4] - r[2]
    <3>1. \A a, b, c, d \in Int : b >= a =>
            /\ Shared(a, b, c, d) \in 0 .. b - a
            /\ c <= a /\ b <= d => Shared(a, b, c, d) = b - a
      BY SharedIs
    <3>2. r[4] >= r[2]
      BY <1>2
    <3>3. r[2] \in Int /\ r[4] \in Int /\ m[2] \in Int /\ m[4] \in Int
      BY <1>1
    <3> QED BY <3>1, <3>2, <3>3, Zenon
  <2> HIDE DEF down
  <2> QED BY <1>2, <2>1
<1>5. Overlap(r, m) = across * down
  BY DEF Overlap, Shared
<1>6. Wide(r) \in Nat /\ High(r) \in Nat
  BY <1>1, <1>2
<1> HIDE DEF across, down
<1>7. across * down \in 0 .. Wide(r) * High(r)
  BY <1>3, <1>4, <1>6, Products
<1> QED BY <1>3, <1>4, <1>5, <1>7

LEMMA WindowIs ==
  ASSUME NEW r, IsWindow(r)
  PROVE  /\ r \in Rectangles
         /\ r[1] \in Int /\ r[2] \in Int /\ r[3] \in Int /\ r[4] \in Int
         /\ Frame[1] \in Nat /\ Frame[2] \in Nat
         /\ Wide(r) = r[3] - r[1] /\ High(r) = r[4] - r[2]
         /\ Wide(r) >= Frame[1] /\ High(r) >= Frame[2] /\ Wide(r) \in Int /\ High(r) \in Int
         /\ ClientWidth(r) = r[3] - r[1] - Frame[1] /\ ClientWidth(r) \in Nat
         /\ ClientHeight(r) = r[4] - r[2] - Frame[2] /\ ClientHeight(r) \in Nat
<1>1. r[1] \in Int /\ r[2] \in Int /\ r[3] \in Int /\ r[4] \in Int /\ r \in Rectangles
  BY DEF IsWindow, Rectangles
<1>2. Frame[1] \in Nat /\ Frame[2] \in Nat
  BY ShapeAssumption
<1> QED BY <1>1, <1>2 DEF IsWindow, ClientWidth, ClientHeight, Wide, High

LEMMA NearestIs ==
  ASSUME NEW r, IsWindow(r)
  PROVE  Nearest(r) \in Monitors /\ IsWindow(Nearest(r))
<1> DEFINE area == Wide(r) * High(r)
           T == {area - Overlap(r, m) : m \in Monitors}
<1>w. r \in Rectangles /\ Wide(r) >= 0 /\ High(r) >= 0 /\ area \in Nat
  <2>1. Wide(r) \in Nat /\ High(r) \in Nat
    BY WindowIs
  <2> QED BY <2>1, WindowIs
<1>m. \A m \in Monitors : IsWindow(m) /\ Overlap(r, m) \in 0 .. area
  <2> TAKE m \in Monitors
  <2>1. IsWindow(m)
    BY ShapeAssumption
  <2>2. m \in Rectangles
    BY <2>1 DEF IsWindow
  <2> QED BY <1>w, <2>1, <2>2, OverlapIs
<1> HIDE DEF area
<1>1. T \subseteq Nat /\ T # {}
  BY <1>w, <1>m, ShapeAssumption
<1>3. PICK x \in T : \A y \in T : x <= y
  <2> HIDE DEF T
  <2> QED BY <1>1, LeastNumber
<1>4. PICK m \in Monitors : x = area - Overlap(r, m)
  OBVIOUS
<1>5. \A n \in Monitors : Overlap(r, n) <= Overlap(r, m)
  <2> TAKE n \in Monitors
  <2>1. area - Overlap(r, n) \in T
    OBVIOUS
  <2>2. Overlap(r, n) \in 0 .. area /\ Overlap(r, m) \in 0 .. area
    BY <1>m
  <2>3. x <= area - Overlap(r, n)
    BY <1>3, <2>1
  <2> QED BY <1>w, <1>4, <2>2, <2>3
<1>6. Nearest(r) \in Monitors
  BY <1>5 DEF Nearest
<1> QED BY <1>m, <1>6

(* A fit gives a window the picture's shape, on one monitor. *)
LEMMA SizeFits ==
  ASSUME NEW height \in Nat, NEW picture \in Pictures, NEW work, IsWindow(work)
  PROVE  LET size == FittedSize(height, picture, work) IN
         /\ size[1] \in 0 .. ClientWidth(work) /\ size[2] \in 0 .. ClientHeight(work)
         /\ \/ size[1] = Rounded(size[2] * picture[1], picture[2])
            \/ size[2] = Rounded(size[1] * picture[2], picture[1])
<1> DEFINE cw == ClientWidth(work)
           ch == ClientHeight(work)
           p == picture[1]
           q == picture[2]
<1>1. cw \in Nat /\ ch \in Nat /\ p \in Nat \ {0} /\ q \in Nat \ {0}
  BY WindowIs, ShapeAssumption
<1> HIDE DEF cw, ch, p, q
<1> DEFINE size == FittedSize(height, picture, work)
<1>2. size = IF height <= ch /\ height * p <= cw * q THEN <<Rounded(height * p, q), height>>
             ELSE IF cw * q <= ch * p THEN <<cw, Rounded(cw * q, p)>>
             ELSE <<Rounded(ch * p, q), ch>>
  BY DEF FittedSize, cw, ch, p, q
<1> HIDE DEF size
<1>p. height * p \in Nat /\ cw * q \in Nat /\ ch * p \in Nat
  BY <1>1
<1>3. CASE height <= ch /\ height * p <= cw * q
  <2>1. size = <<Rounded(height * p, q), height>>
    BY <1>2, <1>3
  <2>2. Rounded(height * p, q) \in Nat /\ Rounded(height * p, q) <= cw
    BY <1>1, <1>p, <1>3, RoundedIs, RoundedAtMost
  <2> QED BY <1>1, <1>3, <2>1, <2>2 DEF cw, ch, p, q, size
<1>4. CASE ~(height <= ch /\ height * p <= cw * q) /\ cw * q <= ch * p
  <2>1. size = <<cw, Rounded(cw * q, p)>>
    BY <1>2, <1>4
  <2>2. Rounded(cw * q, p) \in Nat /\ Rounded(cw * q, p) <= ch
    BY <1>1, <1>p, <1>4, RoundedIs, RoundedAtMost
  <2> QED BY <1>1, <2>1, <2>2 DEF cw, ch, p, q, size
<1>5. CASE ~(height <= ch /\ height * p <= cw * q) /\ ~(cw * q <= ch * p)
  <2>1. size = <<Rounded(ch * p, q), ch>>
    BY <1>2, <1>5
  <2>2. Rounded(ch * p, q) \in Nat /\ Rounded(ch * p, q) <= cw
    BY <1>1, <1>p, <1>5, RoundedIs, RoundedAtMost
  <2> QED BY <1>1, <2>1, <2>2 DEF cw, ch, p, q, size
<1> QED BY <1>3, <1>4, <1>5 DEF size

LEMMA ClampedIs ==
  ASSUME NEW v \in Int, NEW low \in Int, NEW high \in Int, low <= high
  PROVE  Clamped(v, low, Max({low, high})) \in low .. high
<1>1. Max({low, high}) = high
  BY MaxIs
<1>2. Min({v, high}) = IF v <= high THEN v ELSE high
  BY MinIs
<1>3. Min({v, high}) \in Int /\ Min({v, high}) <= high
  BY <1>2
<1>4. Max({low, Min({v, high})}) = IF low >= Min({v, high}) THEN low ELSE Min({v, high})
  BY <1>3, MaxIs
<1> QED BY <1>1, <1>3, <1>4 DEF Clamped

LEMMA FittedIs ==
  ASSUME NEW r, IsWindow(r), NEW picture \in Pictures
  PROVE  /\ Fitted(r, picture) \in Rectangles
         /\ IsWindow(Fitted(r, picture))
         /\ HasShape(Fitted(r, picture), picture)
         /\ \E m \in Monitors : Overlap(Fitted(r, picture), m)
                                  = Wide(Fitted(r, picture)) * High(Fitted(r, picture))
<1> DEFINE work == Nearest(r)
           size == FittedSize(ClientHeight(r), picture, work)
           width == size[1] + Frame[1]
           height == size[2] + Frame[2]
           x == Clamped((r[1] + r[3]) \div 2 - width \div 2, work[1], Max({work[1], work[3] - width}))
           y == Clamped((r[2] + r[4]) \div 2 - height \div 2, work[2], Max({work[2], work[4] - height}))
           new == <<x, y, x + width, y + height>>
<1>1. work \in Monitors /\ IsWindow(work)
  BY NearestIs
<1>2. Fitted(r, picture) = new
  BY DEF Fitted
<1> HIDE DEF work
<1>3. /\ work \in Rectangles /\ Frame[1] \in Nat /\ Frame[2] \in Nat
      /\ work[1] \in Int /\ work[2] \in Int /\ work[3] \in Int /\ work[4] \in Int
      /\ ClientWidth(work) = work[3] - work[1] - Frame[1]
      /\ ClientHeight(work) = work[4] - work[2] - Frame[2]
      /\ ClientWidth(work) \in Nat /\ ClientHeight(work) \in Nat
  BY <1>1, WindowIs
<1>4. ClientHeight(r) \in Nat /\ r[1] \in Int /\ r[2] \in Int /\ r[3] \in Int /\ r[4] \in Int
  BY WindowIs
<1>5. /\ size[1] \in 0 .. ClientWidth(work) /\ size[2] \in 0 .. ClientHeight(work)
      /\ \/ size[1] = Rounded(size[2] * picture[1], picture[2])
         \/ size[2] = Rounded(size[1] * picture[2], picture[1])
  BY <1>1, <1>4, SizeFits
<1> DEFINE sw == size[1]
           sh == size[2]
<1>6. /\ sw \in Nat /\ sh \in Nat
      /\ \/ sw = Rounded(sh * picture[1], picture[2])
         \/ sh = Rounded(sw * picture[2], picture[1])
  BY <1>3, <1>5
<1>7. /\ width \in Nat /\ height \in Nat /\ width = sw + Frame[1] /\ height = sh + Frame[2]
      /\ work[1] <= work[3] - width /\ work[2] <= work[4] - height
  BY <1>3, <1>5
<1> HIDE DEF size, width, height, sw, sh
<1>8. /\ (r[1] + r[3]) \div 2 - width \div 2 \in Int
      /\ (r[2] + r[4]) \div 2 - height \div 2 \in Int
  BY <1>4, <1>7
<1>9. x \in work[1] .. work[3] - width
  <2>1. work[3] - width \in Int
    BY <1>3, <1>7
  <2> QED BY <1>3, <1>7, <1>8, <2>1, ClampedIs
<1>10. y \in work[2] .. work[4] - height
  <2>1. work[4] - height \in Int
    BY <1>3, <1>7
  <2> QED BY <1>3, <1>7, <1>8, <2>1, ClampedIs
<1> HIDE DEF x, y
<1>11. /\ new \in Rectangles
       /\ new[1] = x /\ new[2] = y /\ new[3] = x + width /\ new[4] = y + height
  BY <1>3, <1>7, <1>9, <1>10 DEF Rectangles
<1> HIDE DEF new
<1>12. new[3] - new[1] = sw + Frame[1] /\ new[4] - new[2] = sh + Frame[2]
  BY <1>3, <1>7, <1>9, <1>10, <1>11
<1>13. HasShape(new, picture) /\ IsWindow(new)
  BY <1>6, <1>11, <1>12, FramedShape
<1>14. Wide(new) >= 0 /\ High(new) >= 0
  BY <1>3, <1>6, <1>11, <1>12 DEF Wide, High
<1>15. work[1] <= new[1] /\ new[3] <= work[3] /\ work[2] <= new[2] /\ new[4] <= work[4]
  BY <1>3, <1>7, <1>9, <1>10, <1>11
<1>16. Overlap(new, work) = Wide(new) * High(new)
  BY <1>3, <1>11, <1>14, <1>15, OverlapIs
<1> QED BY <1>1, <1>2, <1>11, <1>13, <1>16

(* A locked window keeps the picture's shape while its edge is dragged.    *)
LEMMA ConstrainedIs ==
  ASSUME NEW r, IsWindow(r), NEW picture \in Pictures, NEW edge
  PROVE  LET s == Constrained(edge, r, picture) IN
         s \in Rectangles /\ IsWindow(s) /\ HasShape(s, picture)
<1> DEFINE w == Max({Least[1], ClientWidth(r)})
           h == Max({Least[2], ClientHeight(r)})
           fromHeight == Rounded(h * picture[1], picture[2])
           fromWidth == Rounded(w * picture[2], picture[1])
           sizes == IF edge \in {"left", "right"} THEN <<w, fromWidth>>
                    ELSE IF edge \in {"top", "bottom"} \/ fromHeight >= w THEN <<fromHeight, h>>
                    ELSE <<w, fromWidth>>
           sw == sizes[1]
           sh == sizes[2]
           width == sw + Frame[1]
           height == sh + Frame[2]
           s == <<IF MovesLeft(edge) THEN r[3] - width ELSE r[1],
                  IF MovesTop(edge) THEN r[4] - height ELSE r[2],
                  IF MovesLeft(edge) THEN r[3] ELSE r[1] + width,
                  IF MovesTop(edge) THEN r[4] ELSE r[2] + height>>
<1>1. Constrained(edge, r, picture) = s
  BY DEF Constrained
<1>2. /\ r[1] \in Int /\ r[2] \in Int /\ r[3] \in Int /\ r[4] \in Int
      /\ Frame[1] \in Nat /\ Frame[2] \in Nat /\ ClientWidth(r) \in Nat /\ ClientHeight(r) \in Nat
      /\ Least[1] \in Nat /\ Least[2] \in Nat /\ picture[1] \in Nat \ {0} /\ picture[2] \in Nat \ {0}
  BY WindowIs, ShapeAssumption
<1>3. w \in Nat /\ h \in Nat
  BY <1>2, MaxIs
<1> HIDE DEF w, h
<1>4. fromHeight \in Nat /\ fromWidth \in Nat
  <2>1. h * picture[1] \in Nat /\ w * picture[2] \in Nat
    BY <1>2, <1>3
  <2> QED BY <1>2, <2>1, RoundedIs
<1>5. /\ sw \in Nat /\ sh \in Nat
      /\ \/ sw = Rounded(sh * picture[1], picture[2])
         \/ sh = Rounded(sw * picture[2], picture[1])
  <2>1. \/ sw = w /\ sh = fromWidth
        \/ sw = fromHeight /\ sh = h
    <3> HIDE DEF fromHeight, fromWidth
    <3> QED OBVIOUS
  <2> HIDE DEF sw, sh
  <2>2. CASE sw = w /\ sh = fromWidth
    BY <1>3, <1>4, <2>2
  <2>3. CASE sw = fromHeight /\ sh = h
    BY <1>3, <1>4, <2>3
  <2> QED BY <2>1, <2>2, <2>3
<1> HIDE DEF sw, sh
<1>6. width \in Nat /\ height \in Nat /\ width = sw + Frame[1] /\ height = sh + Frame[2]
  BY <1>2, <1>5
<1> HIDE DEF width, height
<1>7. s \in Rectangles
  BY <1>2, <1>6 DEF Rectangles
<1>8. s[3] - s[1] = width /\ s[4] - s[2] = height
  <2>1. s[3] - s[1] = width
    BY <1>2, <1>6
  <2>2. s[4] - s[2] = height
    BY <1>2, <1>6
  <2> QED BY <2>1, <2>2
<1> HIDE DEF s
<1>9. HasShape(s, picture) /\ IsWindow(s)
  BY <1>5, <1>6, <1>7, <1>8, FramedShape
<1> QED BY <1>1, <1>7, <1>9

-----------------------------------------------------------------------------
(* What is behind LockAgrees: a menu that disagrees with the settings has a *)
(* call in the queue that will make them agree, and the window procedure is *)
(* before the sink's exactly while the window is the one adopted.          *)
LockQueued == \E i \in 1 .. Len(calls) : calls[i][1] = "lock"
OnMonitor(r) == \E m \in Monitors : Overlap(r, m) = Wide(r) * High(r)
Final == IF moves = <<>> THEN pane.rect ELSE moves[Len(moves)]

PlacesAre ==
  /\ pane.id # 0 => IsWindow(pane.rect)
  /\ savedRect # <<>> => IsWindow(savedRect)
MovesAre == \A i \in 1 .. Len(moves) : IsWindow(moves[i]) /\ OnMonitor(moves[i])
HookIsHeld == hooked <=> IsAlive(held)
SizeIsAspect == videoSize # <<>> => aspect = videoSize
LockComes == hooked => lockFlag = lockSetting \/ LockQueued

(* What is behind ShapeIsKept: once the moves on their way are made, the    *)
(* window has the shape, unless a change of the lock is in the queue.      *)
ShapeComes ==
  IsAlive(held) /\ lockSetting /\ ~LockQueued /\ videoSize # <<>> /\ skipped = "no"
    => HasShape(Final, videoSize)

ShapeInv == /\ ShapeTypeOK /\ PlacesAre /\ MovesAre /\ HookIsHeld /\ SizeIsAspect /\ LockComes
        /\ ShapeComes

PaneTypes == /\ pane \in [id : 0 .. opened, rect : Rectangles,
                          state : {"normal", "iconic", "zoomed", "full"}]
             /\ held \in 0 .. opened /\ opened \in 0 .. MaxWindows
ShapeFlags == /\ hooked \in BOOLEAN /\ lockFlag \in BOOLEAN /\ lockSetting \in BOOLEAN
             /\ noticed \in BOOLEAN /\ hunting \in BOOLEAN /\ drags \in 0 .. MaxDrags
SizeTypes == aspect \in Pictures \union {<<>>} /\ videoSize \in Pictures \union {<<>>}
MoveTypes == moves \in Seq(Rectangles) /\ skipped \in {"no", "state", "moving"}
CallTypes == calls \in Seq(QueuedCalls)
SavedTypes == savedRect \in Rectangles \union {<<>>}

LEMMA ShapeTypesAre ==
  ShapeTypeOK <=> PaneTypes /\ ShapeFlags /\ SizeTypes /\ MoveTypes /\ CallTypes /\ SavedTypes
BY DEF ShapeTypeOK, PaneTypes, ShapeFlags, SizeTypes, MoveTypes, CallTypes, SavedTypes

LEMMA ShapeTypesAreNext ==
  ShapeTypeOK' <=> PaneTypes' /\ ShapeFlags' /\ SizeTypes' /\ MoveTypes' /\ CallTypes' /\ SavedTypes'
BY DEF ShapeTypeOK, PaneTypes, ShapeFlags, SizeTypes, MoveTypes, CallTypes, SavedTypes

(* A fit leaves moves that stay on a monitor, and the last one has the     *)
(* shape, if it did not pass the window over.                              *)
LEMMA FitIs ==
  ASSUME NEW id, NEW rect, NEW size \in Pictures \union {<<>>}, NEW locked \in BOOLEAN,
         MoveTypes, MovesAre, IsAlive(id) => IsWindow(rect), Fit(id, rect, size, locked)
  PROVE  /\ MoveTypes' /\ MovesAre'
         /\ IsAlive(id) /\ size # <<>> /\ locked /\ skipped' = "no"
              => HasShape(IF moves' = <<>> THEN rect ELSE moves'[Len(moves')], size)
<1>1. CASE ~(IsAlive(id) /\ size # <<>> /\ locked)
  <2>1. UNCHANGED <<moves, skipped>>
    BY <1>1 DEF Fit
  <2> QED BY <1>1, <2>1 DEF MoveTypes, MovesAre, OnMonitor
<1>2. CASE IsAlive(id) /\ size # <<>> /\ locked
  <2> DEFINE new == Fitted(rect, size)
  <2>1. size \in Pictures /\ IsWindow(rect) /\ FitShape(rect, size)
    BY <1>2 DEF Fit
  <2>2. new \in Rectangles /\ IsWindow(new) /\ HasShape(new, size) /\ OnMonitor(new)
    BY <2>1, FittedIs DEF OnMonitor
  <2>3. /\ skipped' = IF pane.state # "normal" THEN "state" ELSE IF moves # <<>> THEN "moving" ELSE "no"
        /\ moves' = IF pane.state = "normal" /\ new # rect THEN Append(moves, new) ELSE moves
    BY <2>1 DEF FitShape
  <2> HIDE DEF new
  <2>4. moves' \in Seq(Rectangles) /\ skipped' \in {"no", "state", "moving"}
    BY <2>2, <2>3 DEF MoveTypes
  <2>5. MovesAre'
    <3>1. CASE moves' = moves
      BY <3>1 DEF MovesAre, OnMonitor
    <3>2. CASE moves' = Append(moves, new)
      <4>1. moves \in Seq(Rectangles)
        BY DEF MoveTypes
      <4>2. /\ Len(moves') = Len(moves) + 1
            /\ \A i \in 1 .. Len(moves') : moves'[i] = IF i = Len(moves) + 1 THEN new ELSE moves[i]
        BY <3>2, <4>1, <2>2
      <4>3. \A i \in 1 .. Len(moves') : i = Len(moves) + 1 \/ i \in 1 .. Len(moves)
        BY <4>1, <4>2
      <4>4. ASSUME NEW i \in 1 .. Len(moves')
            PROVE  IsWindow(moves'[i]) /\ OnMonitor(moves'[i])
        BY <2>2, <4>2, <4>3 DEF MovesAre
      <4> QED BY <4>4 DEF MovesAre, OnMonitor
    <3> QED BY <2>3, <3>1, <3>2
  <2>6. ASSUME skipped' = "no"
        PROVE  HasShape(IF moves' = <<>> THEN rect ELSE moves'[Len(moves')], size)
    <3>1. pane.state = "normal" /\ moves = <<>>
      BY <2>3, <2>6
    <3>2. CASE new = rect
      <4>1. moves' = <<>>
        BY <2>3, <3>1, <3>2
      <4> QED BY <2>2, <3>2, <4>1
    <3>3. CASE new # rect
      <4>1. moves' = <<new>>
        BY <2>3, <3>1, <3>3
      <4>2. moves' # <<>> /\ moves'[Len(moves')] = new
        BY <4>1
      <4> QED BY <2>2, <4>2
    <3> QED BY <3>2, <3>3
  <2> QED BY <2>4, <2>5, <2>6 DEF MoveTypes
<1> QED BY <1>1, <1>2

LEMMA QueueIs ==
  ASSUME CallTypes
  PROVE  /\ calls # <<>> => \/ calls[1][1] = "size" /\ calls[1][2] \in Pictures
                            \/ calls[1][1] = "lock" /\ calls[1][2] \in BOOLEAN
         /\ calls # <<>> /\ calls' = Tail(calls)
              => /\ CallTypes'
                 /\ LockQueued /\ calls[1][1] # "lock" => LockQueued'
                 /\ LockQueued' => LockQueued
                 /\ calls[1][1] = "lock" => LockQueued
         /\ calls' = calls => CallTypes' /\ (LockQueued' <=> LockQueued)
<1>1. calls \in Seq(QueuedCalls)
  BY DEF CallTypes
<1>2. \A i \in 1 .. Len(calls) : calls[i] \in QueuedCalls
  BY <1>1
<1>3. ASSUME calls # <<>>
      PROVE  1 \in 1 .. Len(calls) /\ calls[1] \in QueuedCalls
  BY <1>1, <1>2, <1>3
<1>4. ASSUME calls # <<>>, calls' = Tail(calls)
      PROVE  /\ CallTypes'
             /\ LockQueued /\ calls[1][1] # "lock" => LockQueued'
             /\ LockQueued' => LockQueued
             /\ calls[1][1] = "lock" => LockQueued
  <2>1. /\ calls' \in Seq(QueuedCalls) /\ Len(calls') = Len(calls) - 1
        /\ \A i \in 1 .. Len(calls') : calls'[i] = calls[i + 1]
    BY <1>1, <1>4
  <2>2. Len(calls) \in Nat
    BY <1>1
  <2>3. ASSUME LockQueued, calls[1][1] # "lock"
        PROVE  LockQueued'
    <3>1. PICK i \in 1 .. Len(calls) : calls[i][1] = "lock"
      BY <2>3 DEF LockQueued
    <3>2. i - 1 \in 1 .. Len(calls') /\ calls'[i - 1] = calls[i]
      BY <2>1, <2>2, <2>3, <3>1
    <3> QED BY <3>1, <3>2 DEF LockQueued
  <2>4. ASSUME LockQueued'
        PROVE  LockQueued
    <3>1. PICK i \in 1 .. Len(calls') : calls'[i][1] = "lock"
      BY <2>4 DEF LockQueued
    <3>2. i + 1 \in 1 .. Len(calls) /\ calls'[i] = calls[i + 1]
      BY <2>1, <2>2, <3>1
    <3> QED BY <3>1, <3>2 DEF LockQueued
  <2> QED BY <1>3, <1>4, <2>1, <2>3, <2>4 DEF CallTypes, LockQueued
<1>5. calls' = calls => CallTypes' /\ (LockQueued' <=> LockQueued)
  BY DEF CallTypes, LockQueued
<1> QED BY <1>3, <1>4, <1>5 DEF QueuedCalls

LEMMA QueueGrows ==
  ASSUME CallTypes, NEW c \in QueuedCalls, calls' = Append(calls, c)
  PROVE  CallTypes' /\ (LockQueued' <=> LockQueued \/ c[1] = "lock")
<1>1. /\ calls \in Seq(QueuedCalls) /\ Len(calls) \in Nat
      /\ calls' \in Seq(QueuedCalls) /\ Len(calls') = Len(calls) + 1
      /\ \A i \in 1 .. Len(calls) : calls'[i] = calls[i]
      /\ calls'[Len(calls) + 1] = c
  BY DEF CallTypes
<1>2. \A i \in 1 .. Len(calls') : i \in 1 .. Len(calls) \/ i = Len(calls) + 1
  BY <1>1
<1>3. \A i \in 1 .. Len(calls) : i \in 1 .. Len(calls')
  BY <1>1
<1>4. Len(calls) + 1 \in 1 .. Len(calls')
  BY <1>1
<1>5. ASSUME LockQueued'
      PROVE  LockQueued \/ c[1] = "lock"
  <2>1. PICK i \in 1 .. Len(calls') : calls'[i][1] = "lock"
    BY <1>5 DEF LockQueued
  <2> QED BY <1>1, <1>2, <2>1 DEF LockQueued
<1>6. ASSUME LockQueued
      PROVE  LockQueued'
  <2>1. PICK i \in 1 .. Len(calls) : calls[i][1] = "lock"
    BY <1>6 DEF LockQueued
  <2> QED BY <1>1, <1>3, <2>1 DEF LockQueued
<1>7. ASSUME c[1] = "lock"
      PROVE  LockQueued'
  BY <1>1, <1>4, <1>7 DEF LockQueued
<1> QED BY <1>1, <1>5, <1>6, <1>7 DEF CallTypes

(* Adopting a window installs the procedure with the settings' lock and    *)
(* fits the window where it was put.                                       *)
LEMMA AdoptKeeps ==
  ASSUME ShapeInv, NEW size \in Pictures \union {<<>>}, NEW known \in Pictures \union {<<>>},
         pane.id # 0, Adopt(size, known), noticed' \in BOOLEAN
  PROVE  ShapeInv'
<1>t. PaneTypes /\ ShapeFlags /\ SizeTypes /\ MoveTypes /\ CallTypes /\ SavedTypes
  BY ShapeTypesAre DEF ShapeInv
<1> DEFINE rect == Preferred(pane.rect)
<1>1. IsWindow(rect)
  <2>1. CASE savedRect # <<>> /\ \E m \in Monitors : Overlap(savedRect, m) > 0
    BY <2>1 DEF Preferred, ShapeInv, PlacesAre
  <2>2. CASE ~(savedRect # <<>> /\ \E m \in Monitors : Overlap(savedRect, m) > 0) /\ Target \in Monitors
    <3> DEFINE w == Wide(pane.rect)
               h == High(pane.rect)
               left == Target[1] + 1
               top == Target[2] + 1
               right == left + w
               bottom == top + h
               new == <<left, top, right, bottom>>
    <3>1. rect = new
      BY <2>2 DEF Preferred
    <3>2. IsWindow(Target) /\ IsWindow(pane.rect)
      BY <2>2, ShapeAssumption DEF ShapeInv, PlacesAre
    <3>3. Target[1] \in Int /\ Target[2] \in Int
      BY <3>2, WindowIs
    <3>4. /\ w \in Int /\ h \in Int /\ w >= Frame[1] /\ h >= Frame[2]
          /\ Frame[1] \in Nat /\ Frame[2] \in Nat
      BY <3>2, WindowIs
    <3> HIDE DEF w, h
    <3>5. /\ left \in Int /\ top \in Int /\ right \in Int /\ bottom \in Int
          /\ right - left = w /\ bottom - top = h
      BY SMTT(30), <3>3, <3>4
    <3> HIDE DEF left, top, right, bottom
    <3>6. new \in Rectangles /\ new[3] - new[1] = w /\ new[4] - new[2] = h
      BY <3>5 DEF Rectangles
    <3> HIDE DEF new
    <3> QED BY <3>1, <3>4, <3>6 DEF IsWindow, ClientWidth, ClientHeight, Wide, High
  <2>3. CASE ~(savedRect # <<>> /\ \E m \in Monitors : Overlap(savedRect, m) > 0) /\ Target \notin Monitors
    BY <2>3 DEF Preferred, ShapeInv, PlacesAre
  <2> QED BY <2>1, <2>2, <2>3
<1>2. /\ held' = pane.id /\ hooked' = TRUE /\ lockFlag' = lockSetting
      /\ aspect' = (IF size # <<>> THEN size ELSE known) /\ videoSize' = size
      /\ pane' = [pane EXCEPT !.rect = rect]
      /\ Fit(pane.id, rect, size, lockSetting)
      /\ UNCHANGED <<calls, lockSetting, savedRect, hunting, opened, drags>>
  BY DEF Adopt, InstallControls, Hook
<1> HIDE DEF rect
<1>3. rect \in Rectangles
  BY <1>1 DEF IsWindow
<1>4. /\ PaneTypes' /\ pane'.id = pane.id /\ pane'.rect = rect
  BY <1>t, <1>2, <1>3 DEF PaneTypes
<1>5. IsAlive(pane.id) /\ IsAlive(held)'
  BY <1>2, <1>4 DEF IsAlive
<1>6. lockSetting \in BOOLEAN
  BY <1>t DEF ShapeFlags
<1>7. /\ MoveTypes' /\ MovesAre'
      /\ size # <<>> /\ lockSetting /\ skipped' = "no"
           => HasShape(IF moves' = <<>> THEN rect ELSE moves'[Len(moves')], size)
  BY <1>t, <1>1, <1>2, <1>5, <1>6, FitIs DEF ShapeInv
<1>8. ShapeFlags' /\ SizeTypes' /\ CallTypes' /\ SavedTypes'
  BY <1>t, <1>2 DEF ShapeFlags, SizeTypes, CallTypes, SavedTypes
<1>9. PlacesAre'
  BY <1>1, <1>2, <1>4 DEF ShapeInv, PlacesAre
<1>10. HookIsHeld' /\ SizeIsAspect' /\ LockComes'
  BY <1>2, <1>5 DEF HookIsHeld, SizeIsAspect, LockComes
<1>11. ShapeComes'
  BY <1>2, <1>4, <1>7 DEF ShapeComes, Final
<1> QED BY <1>4, <1>7, <1>8, <1>9, <1>10, <1>11, ShapeTypesAreNext DEF ShapeInv

(* A change of the lock settles what the menu and the settings disagree on. *)
LEMMA LockKeeps ==
  ASSUME ShapeInv, NEW locked \in BOOLEAN, SetMirrorAspectLock(locked),
         UNCHANGED <<pane, held, hooked, noticed, savedRect, hunting, opened, drags>>,
         CallTypes'
  PROVE  ShapeInv'
<1>t. PaneTypes /\ ShapeFlags /\ SizeTypes /\ MoveTypes /\ CallTypes /\ SavedTypes
  BY ShapeTypesAre DEF ShapeInv
<1>1. /\ lockSetting' = locked /\ lockFlag' = locked
      /\ Fit(held, pane.rect, videoSize, locked) /\ UNCHANGED <<videoSize, aspect>>
  BY DEF SetMirrorAspectLock, SetLocked
<1>2. IsAlive(held) => IsWindow(pane.rect)
  BY DEF IsAlive, ShapeInv, PlacesAre
<1>3. videoSize \in Pictures \union {<<>>}
  BY <1>t DEF SizeTypes
<1>4. /\ MoveTypes' /\ MovesAre'
      /\ IsAlive(held) /\ videoSize # <<>> /\ locked /\ skipped' = "no"
           => HasShape(IF moves' = <<>> THEN pane.rect ELSE moves'[Len(moves')], videoSize)
  BY <1>t, <1>1, <1>2, <1>3, FitIs DEF ShapeInv
<1>5. PaneTypes' /\ ShapeFlags' /\ SizeTypes' /\ SavedTypes'
  BY <1>t, <1>1 DEF PaneTypes, ShapeFlags, SizeTypes, SavedTypes
<1>6. IsAlive(held)' <=> IsAlive(held)
  BY DEF IsAlive
<1>7. PlacesAre' /\ HookIsHeld' /\ SizeIsAspect' /\ LockComes'
  BY <1>1, <1>6 DEF ShapeInv, PlacesAre, HookIsHeld, SizeIsAspect, LockComes
<1>8. ShapeComes'
  BY <1>1, <1>4, <1>6 DEF ShapeComes, Final
<1> QED BY <1>4, <1>5, <1>7, <1>8, ShapeTypesAreNext DEF ShapeInv

LEMMA SizeKeeps ==
  ASSUME ShapeInv, NEW size \in Pictures, OnVideoSizeChanged(size),
         UNCHANGED <<pane, held, hooked, noticed, savedRect, hunting, opened, drags>>,
         CallTypes', LockQueued' <=> LockQueued
  PROVE  ShapeInv'
<1>t. PaneTypes /\ ShapeFlags /\ SizeTypes /\ MoveTypes /\ CallTypes /\ SavedTypes
  BY ShapeTypesAre DEF ShapeInv
<1>1. videoSize' = size /\ UNCHANGED <<lockFlag, lockSetting>>
  BY DEF OnVideoSizeChanged
<1>2. IsAlive(held)' <=> IsAlive(held)
  BY DEF IsAlive
<1>3. PaneTypes' /\ ShapeFlags' /\ SavedTypes' /\ PlacesAre' /\ HookIsHeld' /\ LockComes'
  BY <1>t, <1>1, <1>2 DEF PaneTypes, ShapeFlags, SavedTypes, ShapeInv, PlacesAre, HookIsHeld, LockComes
<1>4. CASE size = videoSize
  <2>1. aspect' = aspect /\ UNCHANGED <<moves, skipped>>
    BY <1>4 DEF OnVideoSizeChanged
  <2>2. SizeTypes' /\ MoveTypes' /\ MovesAre' /\ SizeIsAspect'
    BY <1>t, <1>1, <1>4, <2>1 DEF SizeTypes, MoveTypes, ShapeInv, MovesAre, OnMonitor, SizeIsAspect
  <2>3. ShapeComes'
    BY <1>1, <1>2, <1>4, <2>1 DEF ShapeInv, ShapeComes, Final
  <2> QED BY <1>3, <2>2, <2>3, ShapeTypesAreNext DEF ShapeInv
<1>5. CASE size # videoSize
  <2>1. aspect' = size /\ Fit(held, pane.rect, size, lockSetting)
    BY <1>5 DEF OnVideoSizeChanged
  <2>2. IsAlive(held) => IsWindow(pane.rect)
    BY DEF IsAlive, ShapeInv, PlacesAre
  <2>3. lockSetting \in BOOLEAN
    BY <1>t DEF ShapeFlags
  <2>4. /\ MoveTypes' /\ MovesAre'
        /\ IsAlive(held) /\ size # <<>> /\ lockSetting /\ skipped' = "no"
             => HasShape(IF moves' = <<>> THEN pane.rect ELSE moves'[Len(moves')], size)
    BY <1>t, <2>1, <2>2, <2>3, FitIs DEF ShapeInv
  <2>5. SizeTypes' /\ SizeIsAspect'
    BY <1>t, <1>1, <2>1 DEF SizeTypes, SizeIsAspect
  <2>6. ShapeComes'
    BY <1>1, <1>2, <2>4 DEF ShapeComes, Final
  <2> QED BY <1>3, <2>4, <2>5, <2>6, ShapeTypesAreNext DEF ShapeInv
<1> QED BY <1>4, <1>5

LEMMA DispatchKeeps ==
  ASSUME ShapeInv, Dispatch
  PROVE  ShapeInv'
<1>t. CallTypes
  BY ShapeTypesAre DEF ShapeInv
<1>1. /\ calls # <<>> /\ calls' = Tail(calls)
      /\ UNCHANGED <<pane, held, hooked, noticed, savedRect, hunting, opened, drags>>
      /\ IF calls[1][1] = "size" THEN OnVideoSizeChanged(calls[1][2]) ELSE SetMirrorAspectLock(calls[1][2])
  BY DEF Dispatch
<1>2. /\ CallTypes'
      /\ \/ calls[1][1] = "size" /\ calls[1][2] \in Pictures
         \/ calls[1][1] = "lock" /\ calls[1][2] \in BOOLEAN
      /\ LockQueued /\ calls[1][1] # "lock" => LockQueued'
      /\ LockQueued' => LockQueued
  BY <1>t, <1>1, QueueIs
<1>3. CASE calls[1][1] = "size" /\ calls[1][2] \in Pictures
  <2>1. LockQueued' <=> LockQueued
    BY <1>2, <1>3
  <2> QED BY <1>1, <1>2, <1>3, <2>1, SizeKeeps
<1>4. CASE calls[1][1] = "lock" /\ calls[1][2] \in BOOLEAN
  <2>1. SetMirrorAspectLock(calls[1][2])
    BY <1>1, <1>4
  <2> QED BY <1>1, <1>2, <1>4, <2>1, LockKeeps
<1> QED BY <1>2, <1>3, <1>4

LEMMA SwitchLockKeeps ==
  ASSUME ShapeInv, SwitchLock
  PROVE  ShapeInv'
<1>1. CallTypes /\ ShapeFlags
  BY ShapeTypesAre DEF ShapeInv
<1>2. CallTypes' /\ (~lockSetting) \in BOOLEAN
  BY <1>1 DEF CallTypes, ShapeFlags, SwitchLock
<1>3. /\ SetMirrorAspectLock(~lockSetting)
      /\ UNCHANGED <<pane, held, hooked, noticed, savedRect, hunting, opened, drags>>
  BY DEF SwitchLock
<1> QED BY <1>2, <1>3, LockKeeps

LEMMA LooksKeep ==
  ASSUME ShapeInv, Poll \/ Notify
  PROVE  ShapeInv'
<1>t. PaneTypes /\ ShapeFlags /\ SizeTypes /\ MoveTypes /\ CallTypes /\ SavedTypes
  BY ShapeTypesAre DEF ShapeInv
<1>1. CASE Poll
  <2>1. pane.id # 0 /\ Adopt(videoSize, aspect) /\ noticed' \in BOOLEAN
    BY <1>1, <1>t DEF Poll, ShapeFlags
  <2> QED BY <1>t, <2>1, AdoptKeeps DEF SizeTypes
<1>2. CASE Notify
  <2> DEFINE isGone == held # 0 /\ ~IsAlive(held)
             size == IF isGone THEN <<>> ELSE videoSize
             known == IF isGone THEN <<>> ELSE aspect
  <2>1. noticed' \in BOOLEAN
    BY <1>2 DEF Notify
  <2>2. size \in Pictures \union {<<>>} /\ known \in Pictures \union {<<>>}
    BY <1>t DEF SizeTypes
  <2>3. CASE pane.id # 0 /\ Adopt(size, known)
    <3> HIDE DEF size, known
    <3> QED BY <2>1, <2>2, <2>3, AdoptKeeps
  <2>4. CASE /\ held' = IF isGone THEN 0 ELSE held
             /\ videoSize' = size /\ aspect' = known
             /\ UNCHANGED <<pane, hooked, lockFlag, lockSetting, calls, moves, savedRect, hunting,
                            opened, drags, skipped>>
    <3>1. held' \in 0 .. opened
      BY <1>t, <2>4 DEF PaneTypes
    <3>2. PaneTypes' /\ ShapeFlags' /\ MoveTypes' /\ CallTypes' /\ SavedTypes' /\ PlacesAre' /\ MovesAre'
      BY <1>t, <2>1, <2>4, <3>1
         DEF PaneTypes, ShapeFlags, MoveTypes, CallTypes, SavedTypes, ShapeInv, PlacesAre, MovesAre, OnMonitor
    <3>3. SizeTypes'
      BY <2>2, <2>4 DEF SizeTypes
    <3>4. IsAlive(held)' <=> IsAlive(held)
      BY <2>4 DEF IsAlive
    <3>5. HookIsHeld' /\ SizeIsAspect' /\ LockComes'
      BY <2>4, <3>4 DEF ShapeInv, HookIsHeld, SizeIsAspect, LockComes, LockQueued
    <3>6. ShapeComes'
      BY <2>4, <3>4 DEF ShapeInv, ShapeComes, Final, LockQueued
    <3> QED BY <3>2, <3>3, <3>5, <3>6, ShapeTypesAreNext DEF ShapeInv
  <2>5. \/ pane.id # 0 /\ Adopt(size, known)
        \/ /\ held' = IF isGone THEN 0 ELSE held
           /\ videoSize' = size /\ aspect' = known
           /\ UNCHANGED <<pane, hooked, lockFlag, lockSetting, calls, moves, savedRect, hunting,
                          opened, drags, skipped>>
    BY <1>2 DEF Notify
  <2> QED BY <2>3, <2>4, <2>5
<1> QED BY <1>1, <1>2

LEMMA GeometryKeeps ==
  ASSUME ShapeInv, RememberGeometry \/ StopHunting \/ StartHunting
  PROVE  ShapeInv'
<1>t. PaneTypes /\ ShapeFlags /\ SizeTypes /\ MoveTypes /\ CallTypes /\ SavedTypes
  BY ShapeTypesAre DEF ShapeInv
<1>s. Sampled \in Rectangles \union {<<>>} /\ (Sampled # <<>> => IsWindow(Sampled))
  BY <1>t DEF Sampled, PaneTypes, SavedTypes, ShapeInv, PlacesAre, IsAlive
<1>1. CASE RememberGeometry
  <2>1. /\ savedRect' = Sampled
        /\ UNCHANGED <<pane, held, hooked, aspect, lockFlag, lockSetting, videoSize, calls, noticed, moves,
                       hunting, opened, drags, skipped>>
    BY <1>1 DEF RememberGeometry
  <2>2. PaneTypes' /\ ShapeFlags' /\ SizeTypes' /\ MoveTypes' /\ CallTypes' /\ SavedTypes'
    BY <1>t, <1>s, <2>1 DEF PaneTypes, ShapeFlags, SizeTypes, MoveTypes, CallTypes, SavedTypes
  <2>3. /\ PlacesAre' /\ MovesAre' /\ HookIsHeld' /\ SizeIsAspect' /\ LockComes' /\ ShapeComes'
    BY <1>s, <2>1 DEF ShapeInv, PlacesAre, MovesAre, OnMonitor, HookIsHeld, SizeIsAspect, LockComes, ShapeComes,
                      Final, LockQueued, IsAlive
  <2> QED BY <2>2, <2>3, ShapeTypesAreNext DEF ShapeInv
<1>2. CASE StopHunting
  <2>1. /\ hunting' = FALSE /\ noticed' = FALSE /\ savedRect' = Sampled /\ hooked' = FALSE
        /\ aspect' = <<>> /\ held' = 0 /\ videoSize' = <<>>
        /\ UNCHANGED <<pane, lockFlag, lockSetting, calls, moves, opened, drags, skipped>>
    BY <1>2 DEF StopHunting, ForgetWindow, LetGo
  <2>2. 0 \in 0 .. opened
    BY <1>t DEF PaneTypes
  <2>3. PaneTypes' /\ ShapeFlags' /\ SizeTypes' /\ MoveTypes' /\ CallTypes' /\ SavedTypes'
    BY <1>t, <1>s, <2>1, <2>2 DEF PaneTypes, ShapeFlags, SizeTypes, MoveTypes, CallTypes, SavedTypes
  <2>4. ~IsAlive(held)'
    BY <2>1 DEF IsAlive
  <2>5. /\ PlacesAre' /\ MovesAre' /\ HookIsHeld' /\ SizeIsAspect' /\ LockComes' /\ ShapeComes'
    BY <1>s, <2>1, <2>4 DEF ShapeInv, PlacesAre, MovesAre, OnMonitor, HookIsHeld, SizeIsAspect, LockComes, ShapeComes
  <2> QED BY <2>3, <2>5, ShapeTypesAreNext DEF ShapeInv
<1>3. CASE StartHunting
  <2>1. /\ hunting' = TRUE
        /\ UNCHANGED <<pane, held, hooked, aspect, lockFlag, lockSetting, videoSize, calls, noticed, moves,
                       savedRect, opened, drags, skipped>>
    BY <1>3 DEF StartHunting
  <2>2. PaneTypes' /\ ShapeFlags' /\ SizeTypes' /\ MoveTypes' /\ CallTypes' /\ SavedTypes'
    BY <1>t, <2>1 DEF PaneTypes, ShapeFlags, SizeTypes, MoveTypes, CallTypes, SavedTypes
  <2>3. /\ PlacesAre' /\ MovesAre' /\ HookIsHeld' /\ SizeIsAspect' /\ LockComes' /\ ShapeComes'
    BY <2>1 DEF ShapeInv, PlacesAre, MovesAre, OnMonitor, HookIsHeld, SizeIsAspect, LockComes, ShapeComes,
                Final, LockQueued, IsAlive
  <2> QED BY <2>2, <2>3, ShapeTypesAreNext DEF ShapeInv
<1> QED BY <1>1, <1>2, <1>3

(* What the engine and the user do to the window itself.                   *)
LEMMA PaneKeeps ==
  ASSUME ShapeInv, OpenPane \/ ClosePane \/ ChangeState
  PROVE  ShapeInv'
<1>t. PaneTypes /\ ShapeFlags /\ SizeTypes /\ MoveTypes /\ CallTypes /\ SavedTypes
  BY ShapeTypesAre DEF ShapeInv
<1>1. CASE OpenPane
  <2>1. PICK r \in Places : pane' = [id |-> opened + 1, rect |-> r, state |-> "normal"]
    BY <1>1 DEF OpenPane
  <2>2. /\ opened < MaxWindows /\ opened' = opened + 1 /\ drags' = drags /\ hooked' = FALSE
        /\ noticed' = TRUE /\ skipped' = "no"
        /\ UNCHANGED <<held, aspect, lockFlag, lockSetting, videoSize, calls, moves, savedRect, hunting>>
    BY <1>1 DEF OpenPane
  <2>3. IsWindow(r) /\ r \in Rectangles
    BY ShapeAssumption DEF IsWindow
  <2>4. opened \in Nat /\ opened + 1 \in 0 .. opened + 1 /\ opened + 1 \in 0 .. MaxWindows /\ held \in 0 .. opened
    BY <1>t, <2>2, ShapeAssumption DEF PaneTypes
  <2>5. held \in 0 .. opened + 1
    BY <2>4
  <2>6. PaneTypes' /\ pane'.id = opened + 1 /\ pane'.rect = r
    BY <2>1, <2>2, <2>3, <2>4, <2>5 DEF PaneTypes
  <2>7. ShapeFlags' /\ SizeTypes' /\ MoveTypes' /\ CallTypes' /\ SavedTypes'
    BY <1>t, <2>2 DEF ShapeFlags, SizeTypes, MoveTypes, CallTypes, SavedTypes
  <2>8. ~IsAlive(held)'
    BY <2>2, <2>4, <2>6 DEF IsAlive
  <2>9. PlacesAre' /\ MovesAre' /\ HookIsHeld' /\ SizeIsAspect' /\ LockComes' /\ ShapeComes'
    BY <2>2, <2>3, <2>6, <2>8 DEF ShapeInv, PlacesAre, MovesAre, OnMonitor, HookIsHeld, SizeIsAspect, LockComes,
                                  ShapeComes
  <2> QED BY <2>6, <2>7, <2>9, ShapeTypesAreNext DEF ShapeInv
<1>2. CASE ClosePane
  <2>1. /\ pane' = [pane EXCEPT !.id = 0] /\ hooked' = FALSE /\ moves' = <<>> /\ noticed' = hunting
        /\ UNCHANGED <<held, aspect, lockFlag, lockSetting, videoSize, calls, savedRect, hunting, opened,
                       drags, skipped>>
    BY <1>2 DEF ClosePane
  <2>2. 0 \in 0 .. opened
    BY <1>t DEF PaneTypes
  <2>3. PaneTypes' /\ pane'.id = 0
    BY <1>t, <2>1, <2>2 DEF PaneTypes
  <2>4. ShapeFlags' /\ SizeTypes' /\ MoveTypes' /\ CallTypes' /\ SavedTypes' /\ MovesAre'
    <3>1. Len(moves') = 0 /\ moves' \in Seq(Rectangles)
      BY <2>1
    <3>2. MovesAre'
      BY <3>1 DEF MovesAre
    <3> QED BY <1>t, <2>1, <3>1, <3>2 DEF ShapeFlags, SizeTypes, MoveTypes, CallTypes, SavedTypes
  <2>5. ~IsAlive(held)'
    BY <2>1, <2>3 DEF IsAlive
  <2>6. PlacesAre' /\ HookIsHeld' /\ SizeIsAspect' /\ LockComes' /\ ShapeComes'
    BY <2>1, <2>3, <2>5 DEF ShapeInv, PlacesAre, HookIsHeld, SizeIsAspect, LockComes, ShapeComes
  <2> QED BY <2>3, <2>4, <2>6, ShapeTypesAreNext DEF ShapeInv
<1>3. CASE ChangeState
  <2>1. PICK s \in {"normal", "zoomed", "full"} : pane' = [pane EXCEPT !.state = s]
    BY <1>3 DEF ChangeState
  <2>2. UNCHANGED <<held, hooked, aspect, lockFlag, lockSetting, videoSize, calls, noticed, moves, savedRect,
                    hunting, opened, drags, skipped>>
    BY <1>3 DEF ChangeState
  <2>3. PaneTypes' /\ pane'.id = pane.id /\ pane'.rect = pane.rect
    BY <1>t, <2>1, <2>2 DEF PaneTypes
  <2>4. ShapeFlags' /\ SizeTypes' /\ MoveTypes' /\ CallTypes' /\ SavedTypes'
    BY <1>t, <2>2 DEF ShapeFlags, SizeTypes, MoveTypes, CallTypes, SavedTypes
  <2>5. IsAlive(held)' <=> IsAlive(held)
    BY <2>2, <2>3 DEF IsAlive
  <2>6. PlacesAre' /\ MovesAre' /\ HookIsHeld' /\ SizeIsAspect' /\ LockComes' /\ ShapeComes'
    BY <2>2, <2>3, <2>5 DEF ShapeInv, PlacesAre, MovesAre, OnMonitor, HookIsHeld, SizeIsAspect, LockComes,
                            ShapeComes, Final, LockQueued
  <2> QED BY <2>3, <2>4, <2>6, ShapeTypesAreNext DEF ShapeInv
<1> QED BY <1>1, <1>2, <1>3

LEMMA ApplyMoveKeeps ==
  ASSUME ShapeInv, ApplyMove
  PROVE  ShapeInv'
<1>t. PaneTypes /\ ShapeFlags /\ SizeTypes /\ MoveTypes /\ CallTypes /\ SavedTypes
  BY ShapeTypesAre DEF ShapeInv
<1>1. /\ moves # <<>> /\ pane' = [pane EXCEPT !.rect = moves[1]] /\ moves' = Tail(moves)
      /\ UNCHANGED <<held, hooked, aspect, lockFlag, lockSetting, videoSize, calls, noticed, savedRect,
                     hunting, opened, drags, skipped>>
  BY DEF ApplyMove
<1>2. moves \in Seq(Rectangles)
  BY <1>t DEF MoveTypes
<1>3. /\ 1 \in 1 .. Len(moves) /\ moves[1] \in Rectangles /\ Len(moves) \in Nat
      /\ moves' \in Seq(Rectangles) /\ Len(moves') = Len(moves) - 1
      /\ \A i \in 1 .. Len(moves') : moves'[i] = moves[i + 1] /\ i + 1 \in 1 .. Len(moves)
  BY <1>1, <1>2
<1>4. PaneTypes' /\ pane'.id = pane.id /\ pane'.rect = moves[1]
  BY <1>t, <1>1, <1>3 DEF PaneTypes
<1>5. ShapeFlags' /\ SizeTypes' /\ MoveTypes' /\ CallTypes' /\ SavedTypes'
  BY <1>t, <1>1, <1>3 DEF ShapeFlags, SizeTypes, MoveTypes, CallTypes, SavedTypes
<1>6. MovesAre'
  <2>1. ASSUME NEW i \in 1 .. Len(moves')
        PROVE  IsWindow(moves'[i]) /\ OnMonitor(moves'[i])
    BY <1>3 DEF ShapeInv, MovesAre
  <2> QED BY <2>1 DEF MovesAre, OnMonitor
<1>7. PlacesAre'
  BY <1>1, <1>3, <1>4 DEF ShapeInv, PlacesAre, MovesAre
<1>8. IsAlive(held)' <=> IsAlive(held)
  BY <1>1, <1>4 DEF IsAlive
<1>9. HookIsHeld' /\ SizeIsAspect' /\ LockComes'
  BY <1>1, <1>8 DEF ShapeInv, HookIsHeld, SizeIsAspect, LockComes, LockQueued
<1>10. Final' = Final
  <2>1. CASE Len(moves) = 1
    <3>1. moves' = <<>>
      BY <1>3, <2>1
    <3> QED BY <1>1, <1>4, <2>1, <3>1 DEF Final
  <2>2. CASE Len(moves) # 1
    <3>1. Len(moves') \in 1 .. Len(moves') /\ moves' # <<>>
      BY <1>3, <2>2
    <3>2. moves'[Len(moves')] = moves[Len(moves)]
      BY <1>3, <3>1
    <3> QED BY <1>1, <3>1, <3>2 DEF Final
  <2> QED BY <2>1, <2>2
<1>11. ShapeComes'
  BY <1>1, <1>8, <1>10 DEF ShapeInv, ShapeComes, LockQueued
<1> QED BY <1>4, <1>5, <1>6, <1>7, <1>9, <1>11, ShapeTypesAreNext DEF ShapeInv

LEMMA ReportKeeps ==
  ASSUME ShapeInv, ReportSize \/ MenuToggle
  PROVE  ShapeInv'
<1>t. PaneTypes /\ ShapeFlags /\ SizeTypes /\ MoveTypes /\ CallTypes /\ SavedTypes
  BY ShapeTypesAre DEF ShapeInv
<1>1. CASE ReportSize
  <2>1. PICK p \in Pictures : calls' = Append(calls, <<"size", p>>)
    BY <1>1 DEF ReportSize
  <2>2. UNCHANGED <<pane, held, hooked, aspect, lockFlag, lockSetting, videoSize, noticed, moves, savedRect,
                    hunting, opened, drags, skipped>>
    BY <1>1 DEF ReportSize
  <2>3. <<"size", p>> \in QueuedCalls /\ <<"size", p>>[1] # "lock"
    BY DEF QueuedCalls
  <2>4. CallTypes' /\ (LockQueued' <=> LockQueued)
    BY <1>t, <2>1, <2>3, QueueGrows
  <2>5. PaneTypes' /\ ShapeFlags' /\ SizeTypes' /\ MoveTypes' /\ SavedTypes'
    BY <1>t, <2>2 DEF PaneTypes, ShapeFlags, SizeTypes, MoveTypes, SavedTypes
  <2>6. PlacesAre' /\ MovesAre' /\ HookIsHeld' /\ SizeIsAspect' /\ LockComes' /\ ShapeComes'
    BY <2>2, <2>4 DEF ShapeInv, PlacesAre, MovesAre, OnMonitor, HookIsHeld, SizeIsAspect, LockComes, ShapeComes,
                      Final, IsAlive
  <2> QED BY <2>4, <2>5, <2>6, ShapeTypesAreNext DEF ShapeInv
<1>2. CASE MenuToggle
  <2>1. /\ calls' = Append(calls, <<"lock", ~lockFlag>>) /\ lockFlag' = ~lockFlag
        /\ UNCHANGED <<pane, held, hooked, aspect, lockSetting, videoSize, noticed, moves, savedRect,
                       hunting, opened, drags, skipped>>
    BY <1>2 DEF MenuToggle
  <2>2. (~lockFlag) \in BOOLEAN
    OBVIOUS
  <2>3. <<"lock", ~lockFlag>> \in QueuedCalls /\ <<"lock", ~lockFlag>>[1] = "lock"
    BY <2>2 DEF QueuedCalls
  <2>4. CallTypes' /\ LockQueued'
    BY <1>t, <2>1, <2>3, QueueGrows
  <2>5. PaneTypes' /\ ShapeFlags' /\ SizeTypes' /\ MoveTypes' /\ SavedTypes'
    BY <1>t, <2>1 DEF PaneTypes, ShapeFlags, SizeTypes, MoveTypes, SavedTypes
  <2>6. PlacesAre' /\ MovesAre' /\ HookIsHeld' /\ SizeIsAspect' /\ LockComes' /\ ShapeComes'
    BY <2>1, <2>4 DEF ShapeInv, PlacesAre, MovesAre, OnMonitor, HookIsHeld, SizeIsAspect, LockComes, ShapeComes,
                      IsAlive
  <2> QED BY <2>4, <2>5, <2>6, ShapeTypesAreNext DEF ShapeInv
<1> QED BY <1>1, <1>2

LEMMA DragKeeps ==
  ASSUME ShapeInv, DragEdge
  PROVE  ShapeInv'
<1>t. PaneTypes /\ ShapeFlags /\ SizeTypes /\ MoveTypes /\ CallTypes /\ SavedTypes
  BY ShapeTypesAre DEF ShapeInv
<1>1. /\ pane.id # 0 /\ moves = <<>> /\ drags < MaxDrags /\ drags' = drags + 1
      /\ UNCHANGED <<held, hooked, aspect, lockFlag, lockSetting, videoSize, calls, noticed, moves, savedRect,
                     hunting, opened, skipped>>
  BY DEF DragEdge, TakesInput
<1>2. PICK d \in Drags :
        LET r == Dragged(pane.rect, d)
            s == IF hooked /\ lockFlag /\ aspect # <<>> THEN Constrained(d[1], r, aspect) ELSE r
        IN /\ ClientWidth(r) > 0 /\ ClientHeight(r) > 0
           /\ pane' = [pane EXCEPT !.rect = s]
  BY DEF DragEdge
<1> DEFINE r == Dragged(pane.rect, d)
           s == IF hooked /\ lockFlag /\ aspect # <<>> THEN Constrained(d[1], r, aspect) ELSE r
<1>3. ClientWidth(r) > 0 /\ ClientHeight(r) > 0 /\ pane' = [pane EXCEPT !.rect = s]
  BY <1>2
<1>4. r \in Rectangles
  <2> DEFINE b == pane.rect
             left == IF MovesLeft(d[1]) THEN b[1] + d[2] ELSE b[1]
             top == IF MovesTop(d[1]) THEN b[2] + d[3] ELSE b[2]
             right == IF MovesLeft(d[1]) \/ d[1] \in {"top", "bottom"} THEN b[3] ELSE b[3] + d[2]
             bottom == IF MovesTop(d[1]) \/ d[1] \in {"left", "right"} THEN b[4] ELSE b[4] + d[3]
  <2>1. /\ b[1] \in Int /\ b[2] \in Int /\ b[3] \in Int /\ b[4] \in Int /\ d[2] \in Int /\ d[3] \in Int
    BY <1>t, ShapeAssumption DEF PaneTypes, Rectangles
  <2>2. r = <<left, top, right, bottom>>
    BY DEF Dragged
  <2>3. left \in Int /\ top \in Int /\ right \in Int /\ bottom \in Int
    BY <2>1
  <2> HIDE DEF r, left, top, right, bottom
  <2> QED BY <2>2, <2>3 DEF Rectangles
<1> HIDE DEF r
<1>5. IsWindow(r)
  <2>1. ClientWidth(r) >= 0 /\ ClientHeight(r) >= 0
    <3>1. r[1] \in Int /\ r[2] \in Int /\ r[3] \in Int /\ r[4] \in Int /\ Frame[1] \in Nat /\ Frame[2] \in Nat
      BY <1>4, ShapeAssumption DEF Rectangles
    <3> QED BY SMTT(30), <1>3, <3>1 DEF ClientWidth, ClientHeight, Wide, High
  <2> QED BY <1>4, <2>1 DEF IsWindow
<1>6. /\ s \in Rectangles /\ IsWindow(s)
      /\ hooked /\ lockFlag /\ aspect # <<>> => HasShape(s, aspect)
  <2>1. CASE hooked /\ lockFlag /\ aspect # <<>>
    <3>1. aspect \in Pictures
      BY <1>t, <2>1 DEF SizeTypes
    <3> QED BY <1>5, <2>1, <3>1, ConstrainedIs
  <2>2. CASE ~(hooked /\ lockFlag /\ aspect # <<>>)
    BY <1>4, <1>5, <2>2
  <2> QED BY <2>1, <2>2
<1> HIDE DEF s
<1>7. PaneTypes' /\ pane'.id = pane.id /\ pane'.rect = s
  BY <1>t, <1>1, <1>3, <1>6 DEF PaneTypes
<1>8. drags' \in 0 .. MaxDrags
  BY <1>t, <1>1, ShapeAssumption DEF ShapeFlags
<1>9. ShapeFlags' /\ SizeTypes' /\ MoveTypes' /\ CallTypes' /\ SavedTypes'
  BY <1>t, <1>1, <1>8 DEF ShapeFlags, SizeTypes, MoveTypes, CallTypes, SavedTypes
<1>10. IsAlive(held)' <=> IsAlive(held)
  BY <1>1, <1>7 DEF IsAlive
<1>11. PlacesAre' /\ MovesAre' /\ HookIsHeld' /\ SizeIsAspect' /\ LockComes'
  BY <1>1, <1>6, <1>7, <1>10 DEF ShapeInv, PlacesAre, MovesAre, OnMonitor, HookIsHeld, SizeIsAspect, LockComes,
                                 LockQueued
<1>12. ShapeComes'
  <2> SUFFICES ASSUME IsAlive(held)', lockSetting', ~LockQueued', videoSize' # <<>>
               PROVE  HasShape(Final', videoSize')
    BY DEF ShapeComes
  <2>1. hooked /\ aspect = videoSize /\ lockSetting /\ ~LockQueued
    BY <1>1, <1>10 DEF ShapeInv, HookIsHeld, SizeIsAspect, LockQueued
  <2>2. lockFlag = lockSetting
    BY <2>1 DEF ShapeInv, LockComes
  <2>3. HasShape(s, videoSize)
    BY <1>1, <1>6, <2>1, <2>2
  <2>4. Final' = s
    BY <1>1, <1>7 DEF Final
  <2> QED BY <1>1, <2>3, <2>4 DEF HasShape, ClientWidth, ClientHeight, Wide, High
<1> QED BY <1>7, <1>9, <1>11, <1>12, ShapeTypesAreNext DEF ShapeInv

LEMMA ShapeStartsRight == ShapeInit => ShapeInv
<1> SUFFICES ASSUME ShapeInit PROVE ShapeInv
  OBVIOUS
<1>1. /\ pane = [id |-> 0, rect |-> <<0, 0, 0, 0>>, state |-> "normal"] /\ held = 0 /\ hooked = FALSE
      /\ aspect = <<>> /\ lockFlag = TRUE /\ lockSetting \in BOOLEAN /\ videoSize = <<>> /\ calls = <<>>
      /\ noticed = FALSE /\ moves = <<>> /\ savedRect \in {<<>>} \union OldMonitors /\ hunting = FALSE
      /\ opened = 0 /\ drags = 0 /\ skipped = "no"
  BY DEF ShapeInit
<1>2. <<0, 0, 0, 0>> \in Rectangles /\ 0 \in 0 .. 0 /\ 0 \in 0 .. MaxWindows /\ 0 \in 0 .. MaxDrags
  BY ShapeAssumption DEF Rectangles
<1>3. PaneTypes
  BY <1>1, <1>2 DEF PaneTypes
<1>4. savedRect # <<>> => IsWindow(savedRect) /\ savedRect \in Rectangles
  BY <1>1, ShapeAssumption DEF IsWindow
<1>5. ShapeFlags /\ SizeTypes /\ MoveTypes /\ CallTypes /\ SavedTypes
  <2>1. ShapeFlags /\ SizeTypes
    BY <1>1, <1>2 DEF ShapeFlags, SizeTypes
  <2>2. <<>> \in Seq(Rectangles) /\ <<>> \in Seq(QueuedCalls)
    OBVIOUS
  <2>3. MoveTypes /\ CallTypes
    BY <1>1, <2>2 DEF MoveTypes, CallTypes
  <2>4. SavedTypes
    BY <1>1, <1>4 DEF SavedTypes
  <2> QED BY <2>1, <2>3, <2>4
<1>6. Len(moves) = 0
  BY <1>1
<1>7. ~IsAlive(held)
  BY <1>1 DEF IsAlive
<1>8. PlacesAre /\ MovesAre /\ HookIsHeld /\ SizeIsAspect /\ LockComes /\ ShapeComes
  <2>1. pane.id = 0
    BY <1>1
  <2>2. PlacesAre
    BY <1>4, <2>1 DEF PlacesAre
  <2>3. MovesAre
    BY <1>6 DEF MovesAre
  <2> QED BY <1>1, <1>7, <2>2, <2>3 DEF HookIsHeld, SizeIsAspect, LockComes, ShapeComes
<1> QED BY <1>3, <1>5, <1>8, ShapeTypesAre DEF ShapeInv

LEMMA ShapeStep == ShapeInv /\ [ShapeNext]_shapeVars => ShapeInv'
<1> SUFFICES ASSUME ShapeInv, [ShapeNext]_shapeVars PROVE ShapeInv'
  OBVIOUS
<1>1. CASE UNCHANGED shapeVars
  <2>1. UNCHANGED <<pane, held, hooked, aspect, lockFlag, lockSetting, videoSize, calls, noticed,
                    moves, savedRect, hunting, opened, drags, skipped>>
    BY <1>1 DEF shapeVars
  <2>2. PaneTypes /\ ShapeFlags /\ SizeTypes /\ MoveTypes /\ CallTypes /\ SavedTypes
    BY ShapeTypesAre DEF ShapeInv
  <2>3. PaneTypes' /\ ShapeFlags' /\ SizeTypes' /\ MoveTypes' /\ CallTypes' /\ SavedTypes'
    BY <2>1, <2>2 DEF PaneTypes, ShapeFlags, SizeTypes, MoveTypes, CallTypes, SavedTypes
  <2>4. /\ PlacesAre' /\ MovesAre' /\ HookIsHeld' /\ SizeIsAspect' /\ LockComes' /\ ShapeComes'
    BY <2>1 DEF ShapeInv, PlacesAre, MovesAre, OnMonitor, HookIsHeld, SizeIsAspect, LockComes, ShapeComes,
                Final, LockQueued, IsAlive
  <2> QED BY <2>3, <2>4, ShapeTypesAreNext DEF ShapeInv
<1> QED BY <1>1, DispatchKeeps, SwitchLockKeeps, LooksKeep, GeometryKeeps, PaneKeeps, ApplyMoveKeeps,
           ReportKeeps, DragKeeps DEF ShapeNext

(* A window that is adopted has the lock of the settings and the picture's *)
(* size once all that is queued is done; it then has the picture's shape,  *)
(* unless the last fit passed it over; and no fit asks for a place that is *)
(* not on one monitor (mirrorshape.cpp; the handlers of onVideoSizeChanged *)
(* and setMirrorAspectLock in mainwindow.cpp).                             *)
THEOREM WindowIsShaped == ShapeSpec => []MirrorIsShaped
<1>1. ShapeInv => MirrorIsShaped
  <2> SUFFICES ASSUME ShapeInv PROVE MirrorIsShaped
    OBVIOUS
  <2>1. ASSUME Settled
        PROVE  /\ hooked /\ lockFlag = lockSetting /\ (videoSize # <<>> => aspect = videoSize)
               /\ IsAlive(held) /\ ~LockQueued /\ Final = pane.rect
    <3>1. IsAlive(held) /\ calls = <<>> /\ moves = <<>>
      BY <2>1 DEF Settled
    <3>2. Len(calls) = 0
      BY <3>1
    <3>3. ~LockQueued
      BY <3>2 DEF LockQueued
    <3> QED BY <3>1, <3>3 DEF ShapeInv, HookIsHeld, LockComes, SizeIsAspect, Final
  <2>2. LockAgrees
    BY <2>1 DEF LockAgrees
  <2>3. ShapeIsKept
    BY <2>1 DEF ShapeIsKept, ShapeInv, ShapeComes
  <2>4. StaysOnMonitor
    BY DEF StaysOnMonitor, ShapeInv, MovesAre, OnMonitor
  <2> QED BY <2>2, <2>3, <2>4 DEF MirrorIsShaped, ShapeInv
<1> QED BY <1>1, ShapeStartsRight, ShapeStep, PTL DEF ShapeSpec
=============================================================================
