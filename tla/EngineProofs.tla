----------------------------- MODULE EngineProofs -----------------------------
EXTENDS Engine, Settings, Modular, SequenceTheorems, TLAPS

(***************************************************************************)
(* The engine, for any options, any limit of missed feedback and any       *)
(* number of connections.                                                  *)
(*                                                                         *)
(* What is inductive: the server runs from its start to the end of the     *)
(* loop, or is asked for again (ServerIsUp); until the renderers are       *)
(* built there are no pipelines (NothingYet); and from then on pipelines   *)
(* are missing only while somebody builds them, or the main loop has yet   *)
(* to hear that it could not (CanShow).                                    *)
(***************************************************************************)
PCsUp == {"advertise", "entry", "armed", "loop", "check", "stophttpd"}
PCsAgain == {"rebuild", "build", "restart"}
PCsShown == {"listen", "advertise", "entry", "armed", "loop", "check", "stophttpd", "rebuild",
             "restart"}

Building == \E t \in Threads : At(t, "build")

ServerIsUp == /\ pc \in PCsUp => httpd
              /\ pc = "stophttpd" => reset_httpd
              /\ pc \in PCsAgain => httpd \/ reset_httpd
              /\ pc \in {"off", "init", "listen"} => ~httpd

NothingYet == pc \in {"off", "init"} => renderer = "none"

CanShow == pc \in PCsShown =>
             ~UseVideo \/ renderer # "none" \/ video_pipeline_failed \/ Building

EngineInv == /\ TypeOK
             /\ ServerIsUp
             /\ QuietWithoutServer
             /\ NothingYet
             /\ CanShow

LEMMA InvFits == EngineInv => EngineFits
BY DEF EngineInv, EngineFits, ServerIsUp, NothingYet, CanShow, ServesInLoop, QuietWithoutServer,
       ReleasedWhenOff, PCsUp, PCsShown, Building

LEMMA EngineInitInv == Init => EngineInv
<1> SUFFICES ASSUME Init PROVE EngineInv
  OBVIOUS
<1>1. TypeOK
  <2>1. cb \in [Threads -> Places]
    <3>1. "idle" \in Places
      BY DEF Places
    <3> QED BY <3>1 DEF Init
  <2>2. pc \in PCs /\ renderer \in Pipelines
    BY DEF Init, PCs, Pipelines
  <2>3. missed_feedback \in 0 .. Limit + 1 /\ open_connections \in 0 .. MaxConns
    BY LimitIsPositive, MaxConnsIsPositive DEF Init
  <2> QED BY <2>1, <2>2, <2>3 DEF Init, TypeOK
<1>2. ServerIsUp /\ QuietWithoutServer /\ NothingYet /\ CanShow
  BY DEF Init, ServerIsUp, QuietWithoutServer, NothingYet, CanShow, PCsUp, PCsAgain, PCsShown,
         AllIdle, At, Threads
<1> QED BY <1>1, <1>2 DEF EngineInv

-----------------------------------------------------------------------------
(* Types.  Most actions change a handful of variables.                     *)
LEMMA EngineTypes == TypeOK /\ [Next]_vars => TypeOK'
<1> SUFFICES ASSUME TypeOK, [Next]_vars PROVE TypeOK'
  OBVIOUS
<1> USE OptionsAreSwitches, LimitIsPositive, MaxConnsIsPositive
<1>k. /\ "off" \in PCs /\ "init" \in PCs /\ "listen" \in PCs /\ "advertise" \in PCs
      /\ "entry" \in PCs /\ "armed" \in PCs /\ "loop" \in PCs /\ "check" \in PCs
      /\ "stophttpd" \in PCs /\ "rebuild" \in PCs /\ "build" \in PCs /\ "restart" \in PCs
      /\ "finish" \in PCs /\ "fail" \in PCs
      /\ "none" \in Pipelines /\ "mirror" \in Pipelines /\ "hls" \in Pipelines
      /\ 0 \in {0, 1} /\ 1 \in {0, 1}
      /\ 0 \in 0 .. Limit + 1 /\ 0 \in 0 .. MaxConns
  BY DEF PCs, Pipelines
<1> USE DEF clients, wishes, Engine
<1> USE <1>k
<1>c. ASSUME NEW t \in Threads, NEW place \in Places, Goto(t, place)
      PROVE  cb' \in [Threads -> Places]
  BY <1>c DEF Goto, TypeOK
<1>p. ASSUME NEW place \in {"idle", "destroy", "build", "flags", "raise", "raiseThenJoin",
                            "join", "push"}
      PROVE  place \in Places
  BY DEF Places
<1>t. "engine" \in Threads /\ "httpd" \in Threads /\ "mirror" \in Threads
  BY DEF Threads
<1>1. CASE Start
  BY ZenonT(60), <1>1 DEF Start, TypeOK
<1>2. CASE InitRenderers
  BY <1>2 DEF InitRenderers, TypeOK
<1>3. CASE Listen
  <2>1. pc' \in PCs /\ code' \in {0, 1} /\ httpd' \in BOOLEAN /\ renderer' \in Pipelines
    BY <1>3 DEF Listen, TypeOK
  <2> QED BY <1>3, <2>1 DEF Listen, TypeOK
<1>4. CASE Advertise
  BY <1>4 DEF Advertise, TypeOK
<1>5. CASE EnterLoop
  BY <1>5 DEF EnterLoop, TypeOK
<1>6. CASE ArmLoop
  BY <1>6 DEF ArmLoop, TypeOK
<1>7. CASE Check
  <2>1. pc' \in PCs
    BY <1>7 DEF Check, Decide
  <2> QED BY ZenonT(60), <1>7, <2>1 DEF Check, TypeOK
<1>8. CASE StopHttpd
  BY ZenonT(60), <1>8 DEF StopHttpd, NoClients, TypeOK
<1>9. CASE DestroyOld
  BY <1>9 DEF DestroyOld, TypeOK
<1>10. CASE BuildNew
  <2>1. url' \in BOOLEAN
    BY <1>10 DEF BuildNew, TypeOK
  <2>2. pc' \in PCs /\ renderer' \in Pipelines /\ full_video_reset' \in BOOLEAN
    BY <1>10, <2>1 DEF BuildNew, TypeOK
  <2> QED BY <1>10, <2>1, <2>2 DEF BuildNew, TypeOK
<1>11. CASE Restart
  BY <1>11 DEF Restart, TypeOK
<1>12. CASE Teardown
  BY ZenonT(60), <1>12 DEF Teardown, NoClients, TypeOK
<1>13. CASE ResetCallback \/ BusQuit \/ Signal
  <2>1. CASE ResetCallback
    BY <2>1 DEF ResetCallback, QuitLoop, TypeOK
  <2>2. CASE BusQuit
    BY <2>2 DEF BusQuit, QuitLoop, TypeOK
  <2>3. CASE Signal
    BY ZenonT(60), <2>3 DEF Signal, QuitLoop, TypeOK
  <2> QED BY <1>13, <2>1, <2>2, <2>3
<1>14. CASE FeedbackCallback
  <2>1. missed_feedback' \in 0 .. Limit + 1
    BY <1>14 DEF FeedbackCallback, TypeOK
  <2>2. /\ reset_httpd' \in BOOLEAN /\ relaunch_video' \in BOOLEAN
        /\ preserve_connections' \in BOOLEAN /\ full_video_reset' \in BOOLEAN
    BY <1>14 DEF FeedbackCallback, TypeOK
  <2>3. close_window' \in BOOLEAN
    BY <1>14 DEF FeedbackCallback, TypeOK
  <2>4. pc' \in PCs
    BY <1>14 DEF FeedbackCallback, QuitLoop, TypeOK
  <2> QED BY <1>14, <2>1, <2>2, <2>3, <2>4 DEF FeedbackCallback, TypeOK
<1>15. CASE HlsEos
  <2>1. cb' \in [Threads -> Places]
    BY <1>15, <1>c, <1>p, <1>t DEF HlsEos
  <2> QED BY <1>15, <2>1 DEF HlsEos, TypeOK
<1>16. CASE Connect \/ Disconnect \/ Feedback \/ Setup
  <2>1. CASE Connect
    BY <2>1 DEF Connect, TypeOK
  <2>2. CASE Disconnect
    <3>1. mirror' \in BOOLEAN /\ open_connections' \in 0 .. MaxConns
      BY <2>2 DEF Disconnect, TypeOK
    <3> QED BY <2>2, <3>1 DEF Disconnect, TypeOK
  <2>3. CASE Feedback
    BY <2>3 DEF Feedback, TypeOK
  <2>4. CASE Setup
    BY <2>4 DEF Setup, TypeOK
  <2> QED BY <1>16, <2>1, <2>2, <2>3, <2>4
<1>17. CASE ResetNoHold
  <2>1. cb' \in [Threads -> Places]
    BY <1>17, <1>c, <1>p, <1>t DEF ResetNoHold
  <2> QED BY <1>17, <2>1 DEF ResetNoHold, TypeOK
<1>18. ASSUME NEW toHls \in BOOLEAN, ResetTeardown(toHls) PROVE TypeOK'
  <2>1. cb' \in [Threads -> Places]
    BY <1>18, <1>c, <1>p, <1>t DEF ResetTeardown
  <2> QED BY <1>18, <2>1 DEF ResetTeardown, TypeOK
<1>19. CASE ResetHls \/ VideoPlay
  <2>1. cb' \in [Threads -> Places]
    BY <1>19, <1>c, <1>p, <1>t DEF ResetHls, VideoPlay
  <2> QED BY ZenonT(60), <1>19, <2>1 DEF ResetHls, VideoPlay, TypeOK
<1>20. ASSUME NEW t \in {"httpd", "mirror"}, ConnReset(t) PROVE TypeOK'
  <2>1. cb' \in [Threads -> Places]
    BY <1>20, <1>c, <1>p, <1>t DEF ConnReset
  <2> QED BY <1>20, <2>1 DEF ConnReset, TypeOK
<1>21. CASE MirrorShutdown \/ Push \/ Pushed \/ Join
  <2>1. cb' \in [Threads -> Places]
    BY <1>21, <1>c, <1>p, <1>t DEF MirrorShutdown, Push, Pushed, Join
  <2>2. CASE MirrorShutdown
    BY <2>1, <2>2 DEF MirrorShutdown, TypeOK
  <2>3. CASE Push \/ Pushed
    BY <2>1, <2>3 DEF Push, Pushed, TypeOK
  <2>4. CASE Join
    BY ZenonT(60), <2>1, <2>4 DEF Join, TypeOK
  <2> QED BY <1>21, <2>2, <2>3, <2>4
<1>22. ASSUME NEW t \in Threads, FinishCallback(t) PROVE TypeOK'
  <2>1. cb' \in [Threads -> Places]
    BY <1>22, <1>c, <1>p DEF FinishCallback, Destroy, Build, SetFlags, Raise
  <2>2. CASE Destroy(t)
    BY <2>1, <2>2 DEF Destroy, TypeOK
  <2>3. CASE Build(t)
    <3>1. /\ renderer' \in Pipelines /\ video_pipeline_failed' \in BOOLEAN
          /\ reset_loop' \in BOOLEAN
      BY <2>3 DEF Build, TypeOK
    <3> QED BY <2>1, <2>3, <3>1 DEF Build, TypeOK
  <2>4. CASE SetFlags(t)
    BY ZenonT(60), <2>1, <2>4 DEF SetFlags, TypeOK
  <2>5. CASE Raise(t)
    BY <2>1, <2>5 DEF Raise, TypeOK
  <2> QED BY <1>22, <2>2, <2>3, <2>4, <2>5 DEF FinishCallback
<1>23. CASE StopXmirror
  BY <1>23 DEF StopXmirror, TypeOK
<1>24. CASE UNCHANGED vars
  BY <1>24 DEF vars, TypeOK
<1> QED BY <1>1, <1>2, <1>3, <1>4, <1>5, <1>6, <1>7, <1>8, <1>9, <1>10, <1>11, <1>12, <1>13,
           <1>14, <1>15, <1>16, <1>17, <1>18, <1>19, <1>20, <1>21, <1>22, <1>23, <1>24
        DEF Next, UpToLoop, AfterLoop, BeginCallback

-----------------------------------------------------------------------------
(* A callback finds the server running and leaves it so.                   *)
CallbackStep == \/ BeginCallback \/ Feedback \/ Pushed \/ Join \/ HlsEos
                \/ \E t \in Threads : FinishCallback(t)

LEMMA CallbacksHaveAServer ==
  ASSUME EngineInv, CallbackStep
  PROVE  httpd /\ httpd' = httpd /\ pc' = pc /\ (reset_httpd => reset_httpd')
<1> USE DEF EngineInv, QuietWithoutServer, AllIdle, At, Engine, clients, wishes
<1>t. "engine" \in Threads /\ "httpd" \in Threads /\ "mirror" \in Threads
  BY DEF Threads
<1>1. CASE Connect \/ Disconnect \/ Setup \/ Feedback
  BY <1>1 DEF Connect, Disconnect, Setup, Feedback, ServerRuns
<1>2. CASE ResetNoHold \/ ResetHls \/ VideoPlay
  BY <1>2 DEF ResetNoHold, ResetHls, VideoPlay, ServerRuns
<1>3. ASSUME NEW toHls \in BOOLEAN, ResetTeardown(toHls)
      PROVE  httpd /\ httpd' = httpd /\ pc' = pc /\ (reset_httpd => reset_httpd')
  BY <1>3 DEF ResetTeardown, ServerRuns
<1>4. ASSUME NEW t \in {"httpd", "mirror"}, ConnReset(t)
      PROVE  httpd /\ httpd' = httpd /\ pc' = pc /\ (reset_httpd => reset_httpd')
  BY <1>4 DEF ConnReset, ServerRuns
<1>5. CASE MirrorShutdown \/ Push
  BY <1>5 DEF MirrorShutdown, Push
<1>6. CASE Pushed \/ Join
  BY <1>6, <1>t DEF Pushed, Join
<1>7. CASE HlsEos
  BY <1>7 DEF HlsEos, Looping, ServerIsUp, PCsUp
<1>8. ASSUME NEW t \in Threads, FinishCallback(t)
      PROVE  httpd /\ httpd' = httpd /\ pc' = pc /\ (reset_httpd => reset_httpd')
  BY <1>8 DEF FinishCallback, Destroy, Build, SetFlags, Raise
<1> QED BY <1>1, <1>2, <1>3, <1>4, <1>5, <1>6, <1>7, <1>8 DEF CallbackStep, BeginCallback

LEMMA CallbacksKeepServer ==
  ASSUME EngineInv, CallbackStep
  PROVE  ServerIsUp' /\ QuietWithoutServer' /\ NothingYet'
BY CallbacksHaveAServer
   DEF EngineInv, ServerIsUp, QuietWithoutServer, NothingYet, PCsUp, PCsAgain

LEMMA EngineKeepsServer ==
  ASSUME EngineInv, [Next]_vars
  PROVE  ServerIsUp' /\ QuietWithoutServer' /\ NothingYet'

<1> USE DEF EngineInv, ServerIsUp, QuietWithoutServer, NothingYet, PCsUp, PCsAgain, AllIdle, At,
            clients, wishes
<1>1. CASE Start \/ StopXmirror
  BY <1>1 DEF Start, StopXmirror
<1>2. CASE InitRenderers
  BY <1>2 DEF InitRenderers
<1>3. CASE Listen
  BY <1>3 DEF Listen
<1>4. CASE Advertise
  BY <1>4 DEF Advertise
<1>5. CASE EnterLoop
  BY <1>5 DEF EnterLoop
<1>6. CASE ArmLoop
  BY <1>6 DEF ArmLoop
<1>7. CASE Check
  BY <1>7 DEF Check, Decide
<1>8. CASE StopHttpd
  <2>1. httpd /\ reset_httpd
    BY <1>8 DEF StopHttpd
  <2> QED BY <1>8, <2>1 DEF StopHttpd, NoClients, Joined
<1>9. CASE DestroyOld
  BY <1>9 DEF DestroyOld
<1>10. CASE BuildNew
  BY <1>10 DEF BuildNew
<1>11. CASE Restart
  BY <1>11 DEF Restart
<1>12. CASE Teardown
  BY <1>12 DEF Teardown, NoClients, Joined
<1>13. CASE ResetCallback
  BY <1>13 DEF ResetCallback, QuitLoop, Looping
<1>14. CASE FeedbackCallback
  BY <1>14 DEF FeedbackCallback, QuitLoop, Looping
<1>15. CASE BusQuit
  BY <1>15 DEF BusQuit, QuitLoop, Looping
<1>16. CASE Signal
  BY <1>16 DEF Signal, QuitLoop, Looping
<1>17. CASE UNCHANGED vars
  BY <1>17 DEF vars
<1>18. CASE CallbackStep
  BY <1>18, CallbacksKeepServer
<1> QED BY <1>1, <1>2, <1>3, <1>4, <1>5, <1>6, <1>7, <1>8, <1>9, <1>10, <1>11, <1>12, <1>13,
           <1>14, <1>15, <1>16, <1>17, <1>18
        DEF Next, UpToLoop, AfterLoop, CallbackStep

-----------------------------------------------------------------------------
(* A callback that destroys the pipelines builds them or says that it could *)
(* not, whatever the others do meanwhile.                                  *)
LEMMA BuildingIsKept ==
  ASSUME TypeOK, NEW t \in Threads, NEW place \in Places, NEW u \in Threads,
         u # t, At(u, "build"), Goto(t, place)
  PROVE  Building'
<1>1. cb'[u] = "build"
  BY DEF TypeOK, At, Goto
<1> QED BY <1>1 DEF Building, At

LEMMA CallbacksKeepCanShow ==
  ASSUME EngineInv, CallbackStep
  PROVE  CanShow'
<1> USE DEF EngineInv, Engine, clients, wishes
<1>p. /\ "idle" \in Places /\ "destroy" \in Places /\ "build" \in Places /\ "flags" \in Places
      /\ "raise" \in Places /\ "raiseThenJoin" \in Places /\ "join" \in Places
      /\ "push" \in Places
  BY DEF Places
<1>t. "engine" \in Threads /\ "httpd" \in Threads /\ "mirror" \in Threads
  BY DEF Threads
(* A step that leaves the pipelines alone: its thread is not building.     *)
<1>a. ASSUME UNCHANGED <<pc, renderer, video_pipeline_failed>>,
             NEW t \in Threads, ~At(t, "build"), NEW place \in Places, Goto(t, place)
      PROVE  CanShow'
  BY <1>a, BuildingIsKept DEF CanShow, Building
<1>b. ASSUME UNCHANGED <<pc, renderer, video_pipeline_failed, cb>>
      PROVE  CanShow'
  BY <1>b DEF CanShow, Building, At
<1>1. CASE Connect \/ Disconnect \/ Setup \/ Feedback
  BY <1>1, <1>b DEF Connect, Disconnect, Setup, Feedback
<1>2. CASE ResetNoHold \/ ResetHls \/ VideoPlay
  BY <1>2, <1>a, <1>p, <1>t DEF ResetNoHold, ResetHls, VideoPlay, ServerRuns, At
<1>3. ASSUME NEW toHls \in BOOLEAN, ResetTeardown(toHls) PROVE CanShow'
  BY <1>3, <1>a, <1>p, <1>t DEF ResetTeardown, ServerRuns, At
<1>4. ASSUME NEW t \in {"httpd", "mirror"}, ConnReset(t) PROVE CanShow'
  BY <1>4, <1>a, <1>p, <1>t DEF ConnReset, ServerRuns, At
<1>5. CASE MirrorShutdown \/ Push \/ Pushed
  BY <1>5, <1>a, <1>p, <1>t DEF MirrorShutdown, Push, Pushed, At
<1>6. CASE Join \/ HlsEos
  BY <1>6, <1>a, <1>p, <1>t DEF Join, HlsEos, Looping, At
<1>7. ASSUME NEW t \in Threads, Destroy(t) PROVE CanShow'
  <2>1. cb'[t] = "build"
    BY <1>7 DEF Destroy, Goto, TypeOK
  <2> QED BY <1>7, <2>1 DEF CanShow, Building, At
<1>8. ASSUME NEW t \in Threads, Build(t) PROVE CanShow'
  BY <1>8 DEF Build, CanShow
<1>9. ASSUME NEW t \in Threads, SetFlags(t) \/ Raise(t) PROVE CanShow'
  BY <1>9, <1>a, <1>p DEF SetFlags, Raise, At
<1> QED BY <1>1, <1>2, <1>3, <1>4, <1>5, <1>6, <1>7, <1>8, <1>9
        DEF CallbackStep, BeginCallback, FinishCallback

LEMMA EngineKeepsCanShow ==
  ASSUME EngineInv, [Next]_vars
  PROVE  CanShow'
<1> USE DEF EngineInv, CanShow, PCsShown, Building, At, clients, wishes
<1>1. CASE Start \/ StopXmirror
  BY <1>1 DEF Start, StopXmirror
<1>2. CASE InitRenderers
  BY <1>2 DEF InitRenderers
<1>3. CASE Listen
  BY <1>3 DEF Listen
<1>4. CASE Advertise
  BY <1>4 DEF Advertise
<1>5. CASE EnterLoop
  BY <1>5 DEF EnterLoop
<1>6. CASE ArmLoop
  BY <1>6 DEF ArmLoop
<1>7. CASE Check
  BY <1>7 DEF Check, Decide
<1>8. CASE StopHttpd
  BY <1>8 DEF StopHttpd
<1>9. CASE DestroyOld
  BY <1>9 DEF DestroyOld
<1>10. CASE BuildNew
  BY <1>10 DEF BuildNew
<1>11. CASE Restart
  BY <1>11 DEF Restart
<1>12. CASE Teardown
  BY <1>12 DEF Teardown
<1>13. CASE ResetCallback \/ BusQuit
  BY <1>13 DEF ResetCallback, BusQuit, QuitLoop, Looping
<1>14. CASE FeedbackCallback
  BY <1>14 DEF FeedbackCallback, QuitLoop, Looping
<1>16. CASE Signal
  BY <1>16 DEF Signal, QuitLoop, Looping
<1>17. CASE UNCHANGED vars
  BY <1>17 DEF vars
<1>18. CASE CallbackStep
  BY <1>18, CallbacksKeepCanShow
<1> QED BY <1>1, <1>2, <1>3, <1>4, <1>5, <1>6, <1>7, <1>8, <1>9, <1>10, <1>11, <1>12, <1>13,
           <1>14, <1>16, <1>17, <1>18
        DEF Next, UpToLoop, AfterLoop, CallbackStep

LEMMA EngineStepInv == EngineInv /\ [Next]_vars => EngineInv'
BY EngineTypes, EngineKeepsServer, EngineKeepsCanShow DEF EngineInv

(* In its main loop the engine listens and can show a picture unless a     *)
(* callback is about to, or it has yet to hear of a failure; nobody runs   *)
(* without the server; and a run that is over has released what it built   *)
(* (xmirror.cpp:2258-2270, 3388-3433): however the three threads           *)
(* interleave, for any options and any number of connections.              *)
THEOREM EngineIsFit == Spec => []EngineFits
<1>1. Spec => Init /\ [][Next]_vars
  BY PTL DEF Spec
<1> QED BY <1>1, EngineInitInv, EngineStepInv, InvFits, PTL

-----------------------------------------------------------------------------
(* The contract with the application, step by step.                        *)
LEMMA CallbacksKeepContract ==
  ASSUME EngineInv, CallbackStep
  PROVE  UNCHANGED <<pc, do_shutdown, code>>
<1> USE DEF Engine
<1>1. CASE Connect \/ Disconnect \/ Setup \/ Feedback
  BY <1>1 DEF Connect, Disconnect, Setup, Feedback
<1>2. CASE ResetNoHold \/ ResetHls \/ VideoPlay
  BY <1>2 DEF ResetNoHold, ResetHls, VideoPlay
<1>3. ASSUME NEW toHls \in BOOLEAN, ResetTeardown(toHls)
      PROVE  UNCHANGED <<pc, do_shutdown, code>>
  BY <1>3 DEF ResetTeardown
<1>4. ASSUME NEW t \in {"httpd", "mirror"}, ConnReset(t)
      PROVE  UNCHANGED <<pc, do_shutdown, code>>
  BY <1>4 DEF ConnReset
<1>5. CASE MirrorShutdown \/ Push \/ Pushed \/ Join \/ HlsEos
  BY <1>5 DEF MirrorShutdown, Push, Pushed, Join, HlsEos
<1>8. ASSUME NEW t \in Threads, FinishCallback(t)
      PROVE  UNCHANGED <<pc, do_shutdown, code>>
  BY <1>8 DEF FinishCallback, Destroy, Build, SetFlags, Raise
<1> QED BY <1>1, <1>2, <1>3, <1>4, <1>5, <1>8 DEF CallbackStep, BeginCallback

LEMMA StepKeepsContract ==
  ASSUME EngineInv, [Next]_vars
  PROVE  [Life!LifeNext]_(Life!lifeVars)
<1> USE DEF Life!LifeNext, Life!lifeVars
<1>1. CASE Start
  BY <1>1 DEF Start, Life!Call
<1>2. CASE InitRenderers \/ Listen
  BY <1>2 DEF InitRenderers, Listen, Life!Fail
<1>4. CASE Advertise
  BY <1>4 DEF Advertise, Life!Serve
<1>5. CASE EnterLoop \/ ArmLoop \/ Check
  BY <1>5 DEF EnterLoop, ArmLoop, Check, Decide
<1>8. CASE StopHttpd \/ DestroyOld \/ BuildNew \/ Restart
  BY <1>8 DEF StopHttpd, DestroyOld, BuildNew, Restart
<1>12. CASE Teardown
  BY <1>12 DEF Teardown, Life!Fail, Life!Finish
<1>13. CASE ResetCallback \/ BusQuit \/ FeedbackCallback \/ Signal
  BY <1>13 DEF ResetCallback, BusQuit, FeedbackCallback, Signal, QuitLoop, Looping
<1>14. CASE StopXmirror
  BY <1>14 DEF StopXmirror, Life!AskStop
<1>17. CASE UNCHANGED vars
  BY <1>17 DEF vars
<1>18. CASE CallbackStep
  BY <1>18, CallbacksKeepContract
<1> QED BY <1>1, <1>2, <1>4, <1>5, <1>8, <1>12, <1>13, <1>14, <1>17, <1>18
        DEF Next, UpToLoop, AfterLoop, CallbackStep

(* Every call of the engine runs through the phases the application counts *)
(* on, returns the code that goes with them, and the request to stop is    *)
(* never lost: the part of KeepsContract that is about steps (EngineLife,  *)
(* airplayworker.cpp:24-41).  That a stop ends the call is left to TLC.    *)
THEOREM ContractIsKept == Spec => Life!LifeInit /\ [][Life!LifeNext]_(Life!lifeVars)
<1>1. Spec => Init /\ [][Next]_vars
  BY PTL DEF Spec
<1>2. Init => Life!LifeInit
  BY DEF Init, Life!LifeInit
<1> QED BY <1>1, <1>2, EngineInitInv, EngineStepInv, StepKeepsContract, PTL

(***************************************************************************)
(* What reaches the engine of arguments.txt and of the settings, for any   *)
(* file and any number of changes and restarts.                            *)
(*                                                                         *)
(* That the file is kept needs two things: that a flag which is not on a   *)
(* line takes nothing from it (StripsNothing), and that as long as nothing *)
(* waits and nothing was restarted the globals are those of the line that  *)
(* the file and the settings make (FirstStart).                            *)
(***************************************************************************)

(* What the words of a line are made of; those of the program are strings as well. *)
AnyWord == STRING \union {"missing", "good", "no", "-n", "-nh", "-vd", "-vs", "-as", "-al", "-vsync"}

(* A flag that is not on a line takes nothing from it. *)
LEMMA StripsNothing ==
  ASSUME NEW words \in Seq(AnyWord), NEW flag, NEW takesValue,
         \A i \in 1..Len(words) : words[i] # flag
  PROVE  StripFlag(words, flag, takesValue) = words
<1> DEFINE n == Len(words)
           Rest(i) == SubSeq(words, i, n)
           Step(g, i) == IF i > n THEN <<>>
                         ELSE IF words[i] = flag THEN g[IF takesValue THEN i + 2 ELSE i + 1]
                         ELSE <<words[i]>> \o g[i + 1]
           Is(g) == g = [i \in 1..n + 2 |-> Step(g, i)]
           K == CHOOSE g : Is(g)
           rests == [i \in 1..n + 2 |-> Rest(i)]
<1>1. n \in Nat
  BY LenProperties
<1>2. \A i \in 1..n : i \in Nat /\ i + 1 \in 1..n + 2 /\ ~(i > n) /\ Rest(i) = <<words[i]>> \o Rest(i + 1)
  <2> TAKE i \in 1..n
  <2>1. n \in i..n /\ i \in 1..Len(words)
    BY <1>1
  <2>2. Rest(i) = <<words[i]>> \o Rest(i + 1)
    BY <2>1, SubSeqRecursiveFirst
  <2> HIDE DEF Rest
  <2> QED BY <1>1, <2>2
<1>3. \A i \in n + 1..n + 2 : Rest(i) = <<>> /\ i > n
  BY <1>1, SubSeqEmpty
<1> HIDE DEF Rest
<1>4. \A i \in 1..n + 2 : rests[i] = Step(rests, i)
  <2> TAKE i \in 1..n + 2
  <2>1. i \in 1..n \/ i \in n + 1..n + 2
    BY <1>1
  <2> HIDE DEF n
  <2>2. CASE i \in 1..n
    BY <2>2, <1>2 DEF n
  <2>3. CASE i \in n + 1..n + 2
    BY <2>3, <1>3
  <2> QED BY <2>1, <2>2, <2>3
<1>5. Is(rests)
  BY <1>4
<1>6. Is(K)
  BY <1>5, Zenon
<1>7. \A i \in 1..n + 2 : K[i] = Step(K, i)
  <2> DEFINE e == [i \in 1..n + 2 |-> Step(K, i)]
  <2>1. \A i \in 1..n + 2 : e[i] = Step(K, i)
    OBVIOUS
  <2>2. K = e
    BY <1>6, Zenon
  <2> HIDE DEF e, K
  <2> QED BY <2>1, <2>2
<1>8. StripFlag(words, flag, takesValue) = K[1]
  BY Zenon DEF StripFlag
<1> HIDE DEF K, Is, rests
<1> DEFINE Bad == {d \in Nat : d \in 0..n /\ K[n + 1 - d] # Rest(n + 1 - d)}
<1>9. Bad = {}
  <2> SUFFICES ASSUME Bad # {} PROVE FALSE
    OBVIOUS
  <2>1. PICK d \in Bad : \A c \in Bad : d <= c
    BY LeastNumber
  <2> DEFINE i == n + 1 - d
  <2>2. d \in Nat /\ d <= n /\ K[i] # Rest(i)
    BY <2>1, <1>1
  <2>3. CASE d = 0
    <3>1. i = n + 1 /\ i \in 1..n + 2 /\ i \in n + 1..n + 2
      BY <2>3, <1>1
    <3> HIDE DEF i
    <3>2. K[i] = <<>> /\ Rest(i) = <<>>
      BY <3>1, <1>3, <1>7
    <3> QED BY <3>2, <2>2
  <2>4. CASE d # 0
    <3>1. d - 1 \in Nat /\ d - 1 \in 0..n /\ ~(d <= d - 1) /\ n + 1 - (d - 1) = i + 1
      BY <2>2, <2>4, <1>1
    <3>2. K[i + 1] = Rest(i + 1)
      BY <3>1, <2>1
    <3>3. i \in 1..n /\ i \in 1..n + 2
      BY <2>2, <2>4, <1>1
    <3> HIDE DEF i
    <3>4. K[i] = <<words[i]>> \o K[i + 1]
      BY <3>3, <1>2, <1>7
    <3> QED BY <3>2, <3>3, <3>4, <1>2, <2>2
  <2> QED BY <2>3, <2>4
<1>10. K[1] = Rest(1)
  <2>1. n \in Nat /\ n \in 0..n /\ n + 1 - n = 1
    BY <1>1
  <2> HIDE DEF n
  <2> QED BY <2>1, <1>9
<1>11. Rest(1) = words
  BY SubSeqFull DEF Rest
<1> QED BY <1>8, <1>10, <1>11

(* Without its "-ble" a line has no words that it did not have. *)
LEMMA WithoutBleIs ==
  ASSUME NEW words \in Seq(AnyWord)
  PROVE  /\ WithoutBle(words) \in Seq(AnyWord)
         /\ \A i \in 1..Len(WithoutBle(words)) : \E j \in 1..Len(words) : WithoutBle(words)[i] = words[j]
<1> DEFINE n == Len(words)
           at == {i \in 1..n : words[i] = "-ble"}
           first == CHOOSE i \in at : \A j \in at : i <= j
           second == first < n /\ ~Dashed(words[first + 1])
           from == first + (IF second THEN 2 ELSE 1)
           u == SubSeq(words, 1, first - 1)
           v == SubSeq(words, from, n)
<1>1. n \in Nat /\ \A i \in 1..n : words[i] \in AnyWord
  BY LenProperties, ElementOfSeq
<1>2. WithoutBle(words) = IF at = {} THEN words ELSE u \o v
  BY DEF WithoutBle
<1>3. CASE at = {}
  BY <1>1, <1>2, <1>3
<1>4. CASE at # {}
  <2>1. first \in 1..n
    <3>1. at \in SUBSET Nat
      BY <1>1
    <3>2. \E i \in at : \A j \in at : i <= j
      BY <1>4, <3>1, LeastNumber
    <3>3. first \in at
      BY <3>2
    <3> HIDE DEF first
    <3> QED BY <3>3
  <2>2. from \in Nat /\ from >= 1
    <3> HIDE DEF first, second
    <3> QED BY <2>1, <1>1
  <2> HIDE DEF first, second, from
  <2>3. /\ u \in Seq(AnyWord) /\ Len(u) \in Nat
        /\ \A i \in 1..Len(u) : \E j \in 1..n : u[i] = words[j]
    <3>1. 1 \in Int /\ first - 1 \in Int /\ \A i \in 1..first - 1 : words[i] \in AnyWord
      BY <2>1, <1>1
    <3>2. /\ u \in Seq(AnyWord) /\ Len(u) = IF 1 <= first - 1 THEN first - 1 - 1 + 1 ELSE 0
          /\ \A i \in 1..first - 1 - 1 + 1 : u[i] = words[1 + i - 1]
      BY <3>1, SubSeqProperties
    <3>3. Len(u) = first - 1
      BY <3>2, <2>1, <1>1
    <3> HIDE DEF u
    <3>4. \A i \in 1..Len(u) : i \in 1..n /\ u[i] = words[i]
      BY <3>2, <3>3, <2>1, <1>1
    <3> QED BY <3>2, <3>3, <3>4, <2>1, <1>1
  <2>4. /\ v \in Seq(AnyWord) /\ Len(v) \in Nat
        /\ \A i \in 1..Len(v) : \E j \in 1..n : v[i] = words[j]
    <3>1. from \in Int /\ n \in Int /\ \A i \in from..n : words[i] \in AnyWord
      BY <2>2, <1>1
    <3>2. /\ v \in Seq(AnyWord) /\ Len(v) = IF from <= n THEN n - from + 1 ELSE 0
          /\ \A i \in 1..n - from + 1 : v[i] = words[from + i - 1]
      BY <3>1, SubSeqProperties
    <3> HIDE DEF v
    <3>3. \A i \in 1..Len(v) : from + i - 1 \in 1..n /\ v[i] = words[from + i - 1]
      BY <3>2, <2>2, <1>1
    <3> QED BY <3>2, <3>3, <2>2, <1>1
  <2> HIDE DEF u, v
  <2>5. /\ u \o v \in Seq(AnyWord) /\ Len(u \o v) = Len(u) + Len(v)
        /\ \A i \in 1..Len(u) + Len(v) :
             (u \o v)[i] = IF i <= Len(u) THEN u[i] ELSE v[i - Len(u)]
    BY <2>3, <2>4, ConcatProperties
  <2>6. \A i \in 1..Len(u \o v) : \E j \in 1..n : (u \o v)[i] = words[j]
    <3> TAKE i \in 1..Len(u \o v)
    <3>1. i \in 1..Len(u) + Len(v)
      BY <2>5
    <3>2. CASE i <= Len(u)
      <4>1. i \in 1..Len(u)
        BY <3>1, <3>2, <2>3
      <4> QED BY <3>1, <3>2, <4>1, <2>3, <2>5
    <3>3. CASE ~(i <= Len(u))
      <4>1. i - Len(u) \in 1..Len(v)
        BY <3>1, <3>3, <2>3, <2>4
      <4> QED BY <3>1, <3>3, <4>1, <2>4, <2>5
    <3> QED BY <3>2, <3>3
  <2> HIDE DEF n
  <2> QED BY <1>2, <1>4, <2>5, <2>6 DEF n
<1> QED BY <1>3, <1>4

(* With all settings at their defaults the window takes its own flags from a line, puts its "-ble" behind
   it, and that is all. *)
LEMMA DefaultsPutNothing ==
  ASSUME NEW words \in Seq(AnyWord),
         ToSet(words) \intersect OwnedByTheWindow = {}
  PROVE  Words(words, Defaults) = WithoutBle(words) \o <<"-ble", StatusFile>>
<1> DEFINE w == WithoutBle(words)
<1>1. w \in Seq(AnyWord) /\ \A i \in 1..Len(w) : w[i] \notin OwnedByTheWindow
  <2>1. DOMAIN words = 1..Len(words)
    BY LenProperties
  <2>2. \A j \in 1..Len(words) : words[j] \notin OwnedByTheWindow
    BY <2>1 DEF ToSet
  <2> QED BY <2>2, WithoutBleIs
<1> HIDE DEF w
<1>2. \A flag \in OwnedByTheWindow : \A takesValue \in BOOLEAN : StripFlag(w, flag, takesValue) = w
  BY <1>1, StripsNothing
<1>3. w \o <<>> = w
  BY <1>1, ConcatEmptySeq
<1>4. \A flag \in OwnedByTheWindow : PutFlag(w, flag, "off") = w
  BY <1>2, <1>3 DEF PutFlag
<1>5. \A flag : PutValue(w, flag, "") = w
  BY DEF PutValue
<1>6. ConnectionArgs(w, Defaults) = w
  <2>1. HideHostname(w, Defaults) = w /\ Password(w, Defaults) = w
    BY <1>2, <1>3 DEF HideHostname, Password, Defaults, OwnedByTheWindow
  <2>2. Defaults.device_name = "" /\ Defaults.pin_enabled = "off" /\ Defaults.nohold = "off"
    BY DEF Defaults
  <2>3. PutFlag(w, "-pin", "off") = w /\ PutFlag(w, "-nohold", "off") = w
    BY <1>4 DEF OwnedByTheWindow
  <2> QED BY <2>1, <2>2, <2>3, <1>5 DEF ConnectionArgs
<1>7. VideoArgs(w, Defaults) = w
  <2>1. Renderer(w, Defaults) = w
    BY <1>5 DEF Renderer, Defaults
  <2>2. /\ Defaults.hevc_enabled = "off" /\ Defaults.force_fs_enabled = "off" /\ Defaults.resolution = ""
        /\ Defaults.fps_limit = "" /\ Defaults.rotation = "" /\ Defaults.keep_window = "off"
    BY DEF Defaults
  <2>3. PutFlag(w, "-h265", "off") = w /\ PutFlag(w, "-fs", "off") = w /\ PutFlag(w, "-nc", "off") = w
    BY <1>4 DEF OwnedByTheWindow
  <2> QED BY <2>1, <2>2, <2>3, <1>5 DEF VideoArgs
<1>8. AudioArgs(w, Defaults) = w
  <2>1. AudioTiming(w, Defaults) = w /\ NoAudio(w, Defaults) = w
    BY <1>5 DEF AudioTiming, NoAudio, Defaults
  <2>2. Defaults.volume_pct = "" /\ Defaults.taper = "off"
    BY DEF Defaults
  <2>3. PutFlag(w, "-taper", "off") = w
    BY <1>4 DEF OwnedByTheWindow
  <2> QED BY <2>1, <2>2, <2>3, <1>5 DEF AudioArgs
<1>9. BehaviourArgs(w, Defaults) = w
  <2>1. Defaults.screensaver = "" /\ Defaults.reset_secs = "" /\ Defaults.fps_data = "off"
    BY DEF Defaults
  <2>2. PutFlag(w, "-FPSdata", "off") = w
    BY <1>4 DEF OwnedByTheWindow
  <2> QED BY <2>1, <2>2, <1>5 DEF BehaviourArgs
<1>10. FileArgs(words, Defaults) = w
  BY <1>6, <1>7, <1>8, <1>9 DEF FileArgs, w
<1>11. Defaults.ble_enabled = "on"
  BY DEF Defaults
<1> QED BY <1>10, <1>11 DEF Words, BleArgs, w

(* In its first start in a process the engine is what the line makes it, as long as no change waits. *)
FirstStart == restarts = 0 /\ pending = 0 /\ Running => globals = Started(Words(file, settings), Loaded)

SettingsInv == /\ file \in Seq(AnyWord) /\ restarts \in Nat /\ pending \in Nat
               /\ FirstStart

(* The lines the program has of its own are words. *)
LEMMA LinesOfProgram ==
  ASSUME NEW S,
         \A word \in {"missing", "good", "no", "-n", "-nh", "-vd", "-vs", "-as", "-al", "-vsync"} : word \in S
  PROVE  Missing \in Seq(S) /\ DefaultArguments \in Seq(S)
<1>1. Missing \in Seq(S)
  BY DEF Missing
<1>2. DefaultArguments \in Seq(S)
  BY DEF DefaultArguments
<1> QED BY <1>1, <1>2

(* The file is words, whichever it is. *)
LEMMA SettingsBegin == SettingsInit => SettingsInv
<1> SUFFICES ASSUME SettingsInit PROVE SettingsInv
  OBVIOUS
<1>1. Missing \in Seq(AnyWord) /\ DefaultArguments \in Seq(AnyWord)
  <2>1. \A word \in {"missing", "good", "no", "-n", "-nh", "-vd", "-vs", "-as", "-al", "-vsync"} :
          word \in AnyWord
    BY DEF AnyWord
  <2> HIDE DEF AnyWord
  <2> QED BY <2>1, LinesOfProgram
<1>2. Files \subseteq Seq(AnyWord)
  <2>1. STRING \subseteq AnyWord
    BY DEF AnyWord
  <2> QED BY <2>1, SeqMonotonic, SettingsAssumption
<1>3. file \in Seq(AnyWord)
  BY <1>1, <1>2
     DEF SettingsInit, ArgumentsFromFile, ActiveArguments, EnsureSettingsFile
<1> QED BY <1>3 DEF SettingsInit, SettingsInv, FirstStart

(* A step changes settings that the engine has not seen only while it is off or a change waits, and every
   restart within the process is counted. *)
LEMMA SettingsGoOn == SettingsInv /\ [SettingsNext]_settingsVars => SettingsInv'
<1> SUFFICES ASSUME SettingsInv, [SettingsNext]_settingsVars PROVE SettingsInv'
  OBVIOUS
<1>1. ASSUME NEW s, RestartEngine(s), UNCHANGED file PROVE SettingsInv'
  BY <1>1 DEF RestartEngine, SettingsInv, FirstStart
<1>2. ASSUME NEW s, SettingChanged(s) PROVE SettingsInv'
  <2>1. CASE session
    BY <1>2, <2>1 DEF SettingChanged, SettingsInv, FirstStart
  <2>2. CASE ~session /\ Running
    BY <1>1, <1>2, <2>2 DEF SettingChanged
  <2>3. CASE ~session /\ ~Running
    BY <1>2, <2>3 DEF SettingChanged, SettingsInv, FirstStart, Running
  <2> QED BY <2>1, <2>2, <2>3
<1>3. CASE ChangeSetting
  BY <1>2, <1>3 DEF ChangeSetting
<1>4. CASE ApplyPreset
  BY <1>2, <1>4 DEF ApplyPreset
<1>5. CASE ApplyPending \/ Retry
  BY <1>1, <1>5 DEF ApplyPending, Retry
<1>6. CASE DeviceMirrors \/ DeviceLeaves
  BY <1>6 DEF DeviceMirrors, DeviceLeaves, SettingsInv, FirstStart, Running
<1>7. CASE RestartApplication
  BY <1>7 DEF RestartApplication, Launch, SettingsInv, FirstStart
<1>8. CASE UNCHANGED settingsVars
  BY <1>8 DEF settingsVars, SettingsInv, FirstStart, Running
<1> QED BY <1>3, <1>4, <1>5, <1>6, <1>7, <1>8 DEF SettingsNext

(* The half of BothAreKept that is about the file, for any file and any     *)
(* number of changes and restarts: in a process's first start, with no      *)
(* setting changed, an engine that runs is what arguments.txt makes it with *)
(* the window's own "-ble" behind it (mainwindow.cpp:2031-2232), when the   *)
(* file has none of the flags the window owns.                              *)
THEOREM FileReachesEngine == SettingsSpec => []FileIsKept
<1>1. SettingsInv => FileIsKept
  BY DefaultsPutNothing DEF SettingsInv, FirstStart, FileIsKept
<1> QED BY <1>1, SettingsBegin, SettingsGoOn, PTL DEF SettingsSpec

=============================================================================
