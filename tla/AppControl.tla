----------------------------- MODULE AppControl -----------------------------
(***************************************************************************)
(* How the application runs the engine: MainWindow on the GUI thread and   *)
(* AirPlayWorker, one thread per start, calling start_xmirror() through    *)
(* EngineLife.                                                             *)
(*                                                                         *)
(* Workers speak to the window through queued signals, delivered in order  *)
(* when the GUI thread is free.  Disconnecting a worker stops later        *)
(* signals, not those already posted.  A worker that ends deletes itself   *)
(* (finished -> deleteLater); m_worker then still holds its address.       *)
(* m_engineFailed is left out: onAirplayError alone sets it, and nothing   *)
(* is connected to onAirplayError.                                         *)
(***************************************************************************)
EXTENDS EngineLife, Sequences, FiniteSets, Integers

CONSTANTS Workers,    \* worker objects (a deleted one is used again)
          None,       \* no worker
          MaxPending, \* bound: settings changed during a session
          MaxTimers   \* bound: restarts due at the same time

ASSUME NoneIsNoWorker == None \notin Workers
ASSUME BoundsArePositive == MaxPending \in Nat \ {0} /\ MaxTimers \in Nat \ {0}

VARIABLES gui,       \* the GUI thread: "free", "waiting" in stopServer, "gone"
          after,      \* what it does when stopServer is over
          target,    \* the worker stopServer waits for
          m_worker,
          m_running,
          m_quitting,
          m_pendingChanges,
          m_applyWhenIdle,
          session,   \* m_mirrorHwnd is set
          timers,    \* restarts scheduled by onAirplayStopped
          quitSoon,  \* restartApplication's 200 ms are running
          queue,     \* signals posted to the GUI thread
          worker,    \* where each worker is
          told,      \* m_stopRequested
          attached,  \* whether its signals still reach the window
          wanted     \* history: whether the user last asked for AirPlay to run

guiVars == <<gui, after, target>>
settings == <<m_pendingChanges, m_applyWhenIdle>>
ending == <<m_quitting, quitSoon>>
workerVars == <<worker, told, attached>>
vars == <<lifeVars, guiVars, m_worker, m_running, ending, settings, session, timers, queue,
          workerVars, wanted>>

Alive == {"run", "loop", "calling", "end"}
Running(w) == worker[w] \in Alive
Signals == {"started", "stopped", "finished"}

TypeOK == /\ LifeTypeOK
          /\ gui \in {"free", "waiting", "gone"}
          /\ after \in {"idle", "start", "soon", "gone"}
          /\ {target, m_worker} \subseteq Workers \cup {None}
          /\ {m_running, m_quitting, m_applyWhenIdle, session, quitSoon, wanted} \subseteq BOOLEAN
          /\ m_pendingChanges \in 0 .. MaxPending
          /\ timers \in 0 .. MaxTimers
          /\ queue \in Seq(Signals \X Workers)
          /\ worker \in [Workers -> Alive \cup {"none", "done", "deleted"}]
          /\ told \in [Workers -> BOOLEAN] /\ attached \in [Workers -> BOOLEAN]

\* The window is up and has started nothing yet.
Init == /\ LifeInit
        /\ gui = "free" /\ after = "idle" /\ target = None
        /\ m_worker = None /\ m_running = FALSE
        /\ m_quitting = FALSE /\ quitSoon = FALSE
        /\ m_pendingChanges = 0 /\ m_applyWhenIdle = FALSE
        /\ session = FALSE /\ timers = 0 /\ queue = <<>>
        /\ worker = [w \in Workers |-> "none"]
        /\ told = [w \in Workers |-> FALSE] /\ attached = [w \in Workers |-> FALSE]
        /\ wanted = FALSE

-----------------------------------------------------------------------------
\* startServer and stopServer.

\* isRunning() of a deleted worker reads freed memory: it may say either.
MayRun(w) == w # None /\ worker[w] \in Alive \cup {"deleted"}
MayBeOver(w) == w # None => worker[w] \in {"done", "deleted"}

Forgotten == IF m_worker # None /\ worker[m_worker] = "deleted"
             THEN [worker EXCEPT ![m_worker] = "none"] ELSE worker

StartServer ==
    \/ MayRun(m_worker) /\ UNCHANGED <<m_worker, workerVars>>
    \/ /\ MayBeOver(m_worker)
       /\ \E w \in {v \in Workers : worker[v] = "none"} :
             /\ m_worker' = w
             /\ worker' = [Forgotten EXCEPT ![w] = "run"]
             /\ told' = [told EXCEPT ![w] = FALSE]
             /\ attached' = [attached EXCEPT ![w] = TRUE]

\* Up to the wait: the member is cleared, the worker detached and told to
\* stop, the engine asked to.  Repeating the request changes nothing more.
StopServer(then) ==
    /\ session' = FALSE
    /\ m_worker' = None
    /\ gui' = "waiting"
    /\ after' = then
    /\ IF m_worker = None
       THEN target' = None /\ UNCHANGED <<workerVars, lifeVars>>
       ELSE /\ attached' = [attached EXCEPT ![m_worker] = FALSE]
            /\ \/ /\ MayRun(m_worker)
                  /\ target' = m_worker
                  /\ told' = [told EXCEPT ![m_worker] = TRUE]
                  /\ AskStop
                  /\ UNCHANGED worker
               \/ /\ MayBeOver(m_worker)
                  /\ target' = None
                  /\ worker' = Forgotten
                  /\ UNCHANGED <<told, lifeVars>>

\* What stopServer does once it has waited.
AfterStop ==
    /\ target' = None /\ after' = "idle"
    /\ gui' = (IF after = "gone" THEN "gone" ELSE "free")
    /\ quitSoon' = (quitSoon \/ after = "soon")
    /\ IF after = "start" THEN StartServer ELSE UNCHANGED <<m_worker, workerVars>>
    /\ UNCHANGED <<lifeVars, m_quitting, settings, session, timers, queue, wanted>>

\* Mutant: stopServer does not wait.
ResumeAtOnce == gui = "waiting" /\ m_running' = FALSE /\ AfterStop

Resume ==
    /\ gui = "waiting"
    /\ target # None => worker[target] \in {"done", "none"}
    /\ m_running' = FALSE
    /\ AfterStop

\* Mutant: the wait has no end.
TerminateNever == gui = "waiting" /\ FALSE /\ UNCHANGED vars

\* kEngineStopTimeoutMs has passed: the thread is killed.  Only a call of the
\* engine, or a wait for a deleted object, takes that long.
Terminate ==
    /\ gui = "waiting"
    /\ target # None
    /\ \/ /\ worker[target] = "calling"
          /\ worker' = [worker EXCEPT ![target] = "done"]
          /\ queue' = Append(queue, <<"finished", target>>)
          /\ phase' = "off"
       \/ /\ worker[target] = "deleted"
          /\ worker' = [worker EXCEPT ![target] = "none"]
          /\ UNCHANGED <<queue, phase>>
    /\ UNCHANGED <<stop, code, guiVars, m_worker, m_running, ending, settings, session, timers,
                   told, attached, wanted>>

-----------------------------------------------------------------------------
\* What the user does.

\* The tray's Start and Stop.
Toggle ==
    /\ gui = "free"
    /\ wanted' = ~m_running
    /\ \/ m_running /\ StopServer("idle")
       \/ ~m_running /\ StartServer /\ UNCHANGED <<lifeVars, guiVars, session>>
    /\ UNCHANGED <<m_running, ending, settings, timers, queue>>

\* restartEngineNow: Disconnect on Home, "Apply now", or a setting that is
\* changed while nobody is connected.  Bound: some worker object is unused.
RestartEngine ==
    /\ \E w \in Workers : worker[w] = "none"
    /\ m_pendingChanges' = 0 /\ m_applyWhenIdle' = FALSE
    /\ StopServer("start")
    /\ wanted' = TRUE
    /\ UNCHANGED <<m_running, ending, timers, queue>>

Disconnect == gui = "free" /\ m_running /\ session /\ RestartEngine
ApplyNow == gui = "free" /\ m_pendingChanges > 0 /\ RestartEngine

ApplyWhenIdle ==
    /\ gui = "free" /\ m_pendingChanges > 0
    /\ m_applyWhenIdle' = TRUE
    /\ UNCHANGED <<lifeVars, guiVars, m_worker, m_running, ending, m_pendingChanges, session,
                   timers, queue, workerVars, wanted>>

ChangeSetting ==
    /\ gui = "free"
    /\ \/ m_running /\ ~session /\ RestartEngine
       \/ /\ ~m_running \/ (session /\ m_pendingChanges < MaxPending)
          /\ m_pendingChanges' = (IF m_running THEN m_pendingChanges + 1 ELSE 0)
          /\ UNCHANGED <<lifeVars, guiVars, m_worker, m_running, ending, m_applyWhenIdle,
                         session, timers, queue, workerVars, wanted>>

Quit(then) ==
    /\ gui = "free"
    /\ m_quitting' = TRUE
    /\ wanted' = FALSE
    /\ StopServer(then)
    /\ UNCHANGED <<m_running, quitSoon, settings, timers, queue>>

\* "Restart app" stops the engine and quits 200 ms later, through the destructor.
RestartApplication == Quit("soon")
QuitNow == Quit("gone")

QuitTimer == quitSoon /\ Quit("gone")

-----------------------------------------------------------------------------
\* What reaches the GUI thread.

OnStarted ==
    /\ m_running' = TRUE
    /\ session' = FALSE
    /\ UNCHANGED <<settings, timers, worker>>

OnStopped ==
    /\ m_running' = FALSE
    /\ session' = FALSE
    /\ IF m_quitting
       THEN UNCHANGED <<settings, timers>>
       ELSE /\ m_pendingChanges' = 0
            /\ m_applyWhenIdle' = (m_applyWhenIdle /\ m_pendingChanges = 0)
            /\ timers' = (IF timers < MaxTimers THEN timers + 1 ELSE timers)
    /\ UNCHANGED worker

\* deleteLater: the object goes, but m_worker may still point at it.
OnFinished(w) ==
    /\ worker' = [worker EXCEPT ![w] = IF w = m_worker THEN "deleted" ELSE "none"]
    /\ UNCHANGED <<m_running, session, settings, timers>>

Deliver ==
    /\ gui = "free"
    /\ queue # <<>>
    /\ queue' = Tail(queue)
    /\ LET signal == Head(queue) IN
         \/ signal[1] = "started" /\ OnStarted
         \/ signal[1] = "stopped" /\ OnStopped
         \/ signal[1] = "finished" /\ OnFinished(signal[2])
    /\ UNCHANGED <<lifeVars, guiVars, m_worker, ending, told, attached, wanted>>

\* A second after onAirplayStopped.
RestartTimer ==
    /\ gui = "free"
    /\ timers > 0
    /\ timers' = timers - 1
    /\ StartServer
    /\ UNCHANGED <<lifeVars, guiVars, m_running, ending, settings, session, queue, wanted>>

\* The window hook adopts the mirror window, and notices that it has gone.
WindowOpens == /\ gui = "free"
               /\ m_running /\ phase = "serving" /\ ~session
               /\ session' = TRUE
               /\ UNCHANGED <<lifeVars, guiVars, m_worker, m_running, ending, settings, timers,
                              queue, workerVars, wanted>>

WindowGoes == /\ gui = "free"
              /\ session
              /\ session' = FALSE
              /\ UNCHANGED <<lifeVars, guiVars, m_worker, m_running, ending, settings, timers,
                             queue, workerVars, wanted>>

-----------------------------------------------------------------------------
\* AirPlayWorker::run.

Own(w, from, to) == worker[w] = from /\ worker' = [worker EXCEPT ![w] = to]
Window == <<guiVars, m_worker, m_running, ending, settings, session, timers, told, attached,
            wanted>>
Post(w, signal) == IF attached[w] THEN Append(queue, <<signal, w>>) ELSE queue

\* Mutant: started is connected directly and overtakes what is posted.
BeginDirect(w) == /\ Own(w, "run", "loop")
                  /\ m_running' = (m_running \/ attached[w])
                  /\ UNCHANGED <<lifeVars, guiVars, m_worker, ending, settings, session, timers,
                                 told, attached, wanted, queue>>

Begin(w) == /\ Own(w, "run", "loop")
            /\ queue' = Post(w, "started")
            /\ UNCHANGED <<lifeVars, Window>>

\* Nothing in the call keeps a second thread out.
CallEngine(w) == /\ Own(w, "loop", "calling")
                 /\ ~told[w]
                 /\ Call \/ (phase # "off" /\ UNCHANGED lifeVars)
                 /\ UNCHANGED <<Window, queue>>

\* An error is emitted too, to nobody.
Return(w) == /\ worker[w] = "calling"
             /\ Fail \/ Finish
             /\ Own(w, "calling", IF told[w] \/ code' # 0 THEN "end" ELSE "loop")
             /\ UNCHANGED <<Window, queue>>

SeeStop(w) == /\ Own(w, "loop", "end")
              /\ told[w]
              /\ UNCHANGED <<lifeVars, Window, queue>>

\* finished reaches the worker itself, attached or not.
End(w) == /\ Own(w, "end", "done")
          /\ queue' = Append(Post(w, "stopped"), <<"finished", w>>)
          /\ UNCHANGED <<lifeVars, Window>>

EngineServes == Serve /\ UNCHANGED <<Window, queue, worker>>

-----------------------------------------------------------------------------
User == \/ Toggle \/ Disconnect \/ ApplyNow \/ ApplyWhenIdle \/ ChangeSetting
        \/ RestartApplication \/ QuitNow
Step(w) == Begin(w) \/ CallEngine(w) \/ Return(w) \/ SeeStop(w) \/ End(w)

Next == \/ User \/ QuitTimer
        \/ Deliver \/ RestartTimer \/ WindowOpens \/ WindowGoes
        \/ Resume \/ Terminate
        \/ EngineServes
        \/ \E w \in Workers : Step(w)

\* The event loop runs, timers fire (SF: the quit timer is not overtaken for
\* ever), the wait in stopServer is bounded, and threads run on -- but a call of
\* the engine only has to end when EngineLife says so: once asked to stop.
Fairness == /\ WF_vars(Deliver) /\ WF_vars(RestartTimer) /\ SF_vars(QuitTimer)
            /\ WF_vars(Resume) /\ WF_vars(Terminate)
            /\ \A w \in Workers : /\ WF_vars(Begin(w)) /\ WF_vars(CallEngine(w))
                                  /\ WF_vars(SeeStop(w)) /\ WF_vars(End(w))
                                  /\ WF_vars(stop /\ Return(w))
            /\ WF_vars(stop /\ EngineServes)

Spec == Init /\ [][Next]_vars /\ Fairness

-----------------------------------------------------------------------------
\* Properties.

\* Two threads are never inside start_xmirror, whose state is global
\* (airplayworker.cpp:66, mainwindow.cpp:2208, 2272-2283).
OneInEngine == Cardinality({w \in Workers : worker[w] = "calling"}) <= 1

\* No worker is lost: one that runs is the window's own or the one it waits
\* for, and one that has ended still gets the finished signal that deletes it
\* ("Drop only our own slots", mainwindow.cpp:2207-2288).
WorkersAreAccountedFor == \A w \in Workers :
    /\ Running(w) => w = m_worker \/ (gui = "waiting" /\ w = target)
    /\ worker[w] = "done" => \E i \in 1 .. Len(queue) : queue[i] = <<"finished", w>>

\* With every signal delivered, a worker that runs is shown as running: late
\* signals of earlier workers do not hide it (mainwindow.cpp:2291-2292,
\* 2483-2484).
RunningIsShown == gui = "free" /\ queue = <<>> /\ m_worker # None =>
    (worker[m_worker] \in {"loop", "calling", "end"} => m_running)

\* The application ends with no engine thread behind it, even if a restart came
\* due while it was quitting (mainwindow.cpp:244-251, 2608-2612).
GoneWithoutThreads == gui = "gone" => \A w \in Workers : ~Running(w)

\* The window and its workers fit: what runs is known, alone in the engine, and
\* gone with the application.
WindowFits == TypeOK /\ OneInEngine /\ WorkersAreAccountedFor /\ GoneWithoutThreads

\* Quitting ends the application, even if the worker does not end in time
\* (mainwindow.cpp:2272-2283).
QuitCompletes == m_quitting ~> gui = "gone"

\* What the code does not keep.  A call of start_xmirror that ends because of a
\* stop ends for a stop of its own worker; a setting that restarts the engine
\* leaves it running (mainwindow.h:270-271, main.cpp:683-684).
StopsAreForThisWorker == [][\A w \in Workers :
    worker[w] = "calling" /\ worker'[w] # "calling" /\ code' = 0 /\ stop => told[w]]_vars

\* An engine that failed "waits for Retry (or a settings change)"
\* (mainwindow.h:312-314): the restart timer does not start it.
TimerStarts == timers' < timers /\ m_worker' # m_worker
FailureWaits == [][TimerStarts => code = 0]_vars

\* "A deliberate stop detaches the worker's signals, so onAirplayStopped() will
\* not run" (mainwindow.cpp:2251-2252): stopped stays stopped until the user
\* starts it.
StoppedStays == [][TimerStarts => wanted]_vars

\* "... will be applied when the device disconnects" (mainwindow.cpp:2754): with
\* the engine running and nobody connected any more, they do not stay pending.
DeferredAreApplied == (m_applyWhenIdle /\ m_running /\ ~session)
                         ~> (m_pendingChanges = 0 \/ session \/ ~m_running)

\* "Engine crashes mid-session: existing auto-restart handles it"
\* (docs/SETTINGS-WINDOW-PLAN.md:365): while the user wants it and does nothing,
\* the engine is called again and again.
ComesBack == []<>(~wanted) \/ []<><<User>>_vars \/ []<>(\E w \in Workers : worker[w] = "calling")

=============================================================================
