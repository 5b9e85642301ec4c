------------------------------- MODULE Engine -------------------------------
(***************************************************************************)
(* The engine thread (xmirror.cpp: run_xmirror and main_loop) and the      *)
(* threads that call back into it.                                         *)
(*                                                                         *)
(* run_xmirror builds the renderers, starts the HTTP server, registers     *)
(* with dnssd and then goes round "reconnect": main_loop until something   *)
(* quits it, a decision, a rebuild of what has to be rebuilt, and again.   *)
(* The server thread and the mirror thread run beside it and ask for       *)
(* things by writing plain flags; a "no hold" reset even rebuilds the      *)
(* renderers on the server thread.  A callback is split where another      *)
(* thread can come in between: destroying, building, setting the flags,    *)
(* raising reset_loop.                                                     *)
(***************************************************************************)
EXTENDS Integers

CONSTANTS UseVideo,  \* use_video
          Hls,       \* hls_support
          NoHold,    \* nohold
          NoFreeze,  \* nofreeze
          NewWindow, \* new_window_closing_behavior
          Limit,     \* missed_feedback_limit
          MaxConns   \* bound: connections open at a time

ASSUME OptionsAreSwitches == /\ UseVideo \in BOOLEAN /\ Hls \in BOOLEAN /\ NoHold \in BOOLEAN
                             /\ NoFreeze \in BOOLEAN /\ NewWindow \in BOOLEAN
ASSUME LimitIsPositive == Limit \in Nat \ {0}
ASSUME MaxConnsIsPositive == MaxConns \in Nat \ {0}

VARIABLES pc,                     \* where the engine thread is
          code,                   \* what the last run_xmirror returned
          do_shutdown, reset_loop, relaunch_video, reset_httpd,
          preserve_connections, close_window, full_video_reset,
          video_pipeline_failed,
          url,                    \* whether url names an HLS video
          missed_feedback,
          eos_watch,              \* whether main_loop installed the EOS watch
          renderer,               \* which pipelines exist
          httpd,                  \* whether the server thread runs
          open_connections,
          mirror,                 \* whether a mirror thread runs
          cb                      \* where each thread is in a callback

wishes == <<relaunch_video, reset_httpd, preserve_connections, close_window>>
clients == <<httpd, open_connections, mirror>>
vars == <<pc, code, do_shutdown, reset_loop, wishes, full_video_reset, video_pipeline_failed,
          url, missed_feedback, eos_watch, renderer, clients, cb>>

\* The engine thread runs callbacks too: those of its main loop.
Threads == {"engine", "httpd", "mirror"}
Places == {"idle", "destroy", "build", "flags", "raise", "raiseThenJoin", "join", "push"}
Pipelines == {"none", "mirror", "hls"}
PCs == {"off", "init", "listen", "advertise", "entry", "armed", "loop", "check",
        "stophttpd", "rebuild", "build", "restart", "finish", "fail"}

TypeOK == /\ pc \in PCs
          /\ code \in {0, 1}
          /\ do_shutdown \in BOOLEAN /\ reset_loop \in BOOLEAN
          /\ relaunch_video \in BOOLEAN /\ reset_httpd \in BOOLEAN
          /\ preserve_connections \in BOOLEAN /\ close_window \in BOOLEAN
          /\ full_video_reset \in BOOLEAN /\ video_pipeline_failed \in BOOLEAN
          /\ url \in BOOLEAN /\ eos_watch \in BOOLEAN
          /\ httpd \in BOOLEAN /\ mirror \in BOOLEAN
          /\ missed_feedback \in 0 .. Limit + 1
          /\ renderer \in Pipelines
          /\ open_connections \in 0 .. MaxConns
          /\ cb \in [Threads -> Places]

Init == /\ pc = "off" /\ code = 0
        /\ do_shutdown = FALSE /\ reset_loop = FALSE
        /\ relaunch_video = FALSE /\ reset_httpd = FALSE
        /\ preserve_connections = FALSE /\ close_window = FALSE
        /\ full_video_reset = TRUE
        /\ video_pipeline_failed = FALSE
        /\ url = FALSE /\ missed_feedback = 0 /\ eos_watch = FALSE
        /\ renderer = "none"
        /\ httpd = FALSE /\ open_connections = 0 /\ mirror = FALSE
        /\ cb = [t \in Threads |-> "idle"]

At(t, place) == cb[t] = place
Goto(t, place) == cb' = [cb EXCEPT ![t] = place]
AllIdle == \A t \in Threads : At(t, "idle")

-----------------------------------------------------------------------------
\* The engine thread up to its main loop.

Start == /\ pc = "off"
         /\ pc' = "init"
         /\ video_pipeline_failed' = FALSE
         /\ UNCHANGED <<code, do_shutdown, reset_loop, wishes, full_video_reset, url,
                        missed_feedback, eos_watch, renderer, clients, cb>>

\* Options are parsed and the renderers built; an error leaves nothing behind.
InitRenderers ==
    /\ pc = "init"
    /\ \/ pc' = "listen" /\ renderer' = (IF UseVideo THEN "mirror" ELSE "none") /\ UNCHANGED code
       \/ pc' = "off" /\ code' = 1 /\ UNCHANGED renderer
    /\ UNCHANGED <<do_shutdown, reset_loop, wishes, full_video_reset, video_pipeline_failed,
                   url, missed_feedback, eos_watch, clients, cb>>

\* start_dnssd and start_raop_server.
Listen ==
    /\ pc = "listen"
    /\ \/ pc' = "advertise" /\ httpd' = TRUE /\ UNCHANGED <<code, renderer>>
       \/ pc' = "off" /\ code' = 1 /\ renderer' = "none" /\ UNCHANGED httpd
    /\ UNCHANGED <<do_shutdown, reset_loop, wishes, full_video_reset, video_pipeline_failed,
                   url, missed_feedback, eos_watch, open_connections, mirror, cb>>

\* register_dnssd.
Advertise ==
    /\ pc = "advertise"
    /\ pc' \in {"entry", "fail"}
    /\ UNCHANGED <<code, do_shutdown, reset_loop, wishes, full_video_reset, video_pipeline_failed,
                   url, missed_feedback, eos_watch, renderer, clients, cb>>

\* The head of main_loop takes back every request made until now.
EnterLoop ==
    /\ pc = "entry"
    /\ pc' = "armed"
    /\ close_window' = NewWindow
    /\ relaunch_video' = FALSE /\ reset_loop' = FALSE
    /\ reset_httpd' = FALSE /\ preserve_connections' = FALSE
    /\ UNCHANGED <<code, do_shutdown, full_video_reset, video_pipeline_failed, url,
                   missed_feedback, eos_watch, renderer, clients, cb>>

ArmLoop ==
    /\ pc = "armed"
    /\ pc' = "loop"
    /\ relaunch_video' = (relaunch_video \/ UseVideo)
    /\ eos_watch' = (UseVideo /\ url)
    /\ url' = (url /\ ~UseVideo)
    /\ missed_feedback' = 0
    /\ UNCHANGED <<code, do_shutdown, reset_loop, reset_httpd, preserve_connections,
                   close_window, full_video_reset, video_pipeline_failed, renderer, clients, cb>>

-----------------------------------------------------------------------------
\* The sources of the main loop.

Looping == pc = "loop" /\ At("engine", "idle")
QuitLoop == pc' = "check"

\* Mutant: only reset_loop is polled.
ResetCallbackFlagOnly ==
    /\ Looping
    /\ reset_loop
    /\ QuitLoop
    /\ UNCHANGED <<code, do_shutdown, reset_loop, wishes, full_video_reset,
                   video_pipeline_failed, url, missed_feedback, eos_watch, renderer, clients, cb>>

\* Every 100 ms.
ResetCallback ==
    /\ Looping
    /\ reset_loop \/ do_shutdown
    /\ QuitLoop
    /\ UNCHANGED <<code, do_shutdown, reset_loop, wishes, full_video_reset,
                   video_pipeline_failed, url, missed_feedback, eos_watch, renderer, clients, cb>>

\* Mutant: the loop is left without asking for a reset of the server.
FeedbackKeepsServer ==
    /\ Looping
    /\ \/ /\ open_connections = 0 /\ missed_feedback' = 0
          /\ UNCHANGED <<pc, relaunch_video, full_video_reset>>
       \/ /\ open_connections > 0 /\ missed_feedback <= Limit
          /\ missed_feedback' = missed_feedback + 1
          /\ UNCHANGED <<pc, relaunch_video, full_video_reset>>
       \/ /\ open_connections > 0 /\ missed_feedback > Limit
          /\ relaunch_video' = TRUE /\ full_video_reset' = TRUE
          /\ QuitLoop
          /\ UNCHANGED missed_feedback
    /\ UNCHANGED <<code, do_shutdown, reset_loop, reset_httpd, preserve_connections,
                   close_window, video_pipeline_failed, url, eos_watch, renderer, clients, cb>>

\* Every second: counts the seconds since the client was last heard.
FeedbackCallback ==
    /\ Looping
    /\ \/ /\ open_connections = 0 /\ missed_feedback' = 0
          /\ UNCHANGED <<pc, wishes, full_video_reset>>
       \/ /\ open_connections > 0 /\ missed_feedback <= Limit
          /\ missed_feedback' = missed_feedback + 1
          /\ UNCHANGED <<pc, wishes, full_video_reset>>
       \/ /\ open_connections > 0 /\ missed_feedback > Limit
          /\ close_window' = (close_window /\ NoFreeze)
          /\ reset_httpd' = TRUE /\ relaunch_video' = TRUE /\ full_video_reset' = TRUE
          /\ QuitLoop
          /\ UNCHANGED <<missed_feedback, preserve_connections>>
    /\ UNCHANGED <<code, do_shutdown, reset_loop, video_pipeline_failed, url, eos_watch,
                   renderer, clients, cb>>

\* An error or a closed window on the bus of a pipeline.
BusQuit ==
    /\ Looping
    /\ QuitLoop
    /\ UNCHANGED <<code, do_shutdown, reset_loop, wishes, full_video_reset,
                   video_pipeline_failed, url, missed_feedback, eos_watch, renderer, clients, cb>>

\* A console event or a signal.
Signal ==
    /\ Looping
    /\ relaunch_video' = FALSE
    /\ QuitLoop
    /\ UNCHANGED <<code, do_shutdown, reset_loop, reset_httpd, preserve_connections, close_window,
                   full_video_reset, video_pipeline_failed, url, missed_feedback, eos_watch,
                   renderer, clients, cb>>

\* The HLS video has ended: raop_handle_eos resets the video from this thread.
HlsEos ==
    /\ Looping
    /\ eos_watch /\ renderer = "hls"
    /\ Goto("engine", "destroy")
    /\ UNCHANGED <<pc, code, do_shutdown, reset_loop, wishes, full_video_reset,
                   video_pipeline_failed, url, missed_feedback, eos_watch, renderer, clients>>

-----------------------------------------------------------------------------
\* The engine thread after its main loop.

Decide(failed, stopping) ==
    \/ failed /\ pc' = "fail"
    \/ ~failed /\ (stopping \/ ~relaunch_video) /\ pc' = "finish"
    \/ ~failed /\ ~stopping /\ relaunch_video
       /\ pc' = (IF reset_httpd THEN "stophttpd" ELSE "rebuild")

Check ==
    /\ pc = "check"
    /\ Decide(video_pipeline_failed, do_shutdown)
    /\ video_pipeline_failed' = FALSE
    /\ eos_watch' = FALSE
    /\ UNCHANGED <<code, do_shutdown, reset_loop, wishes, full_video_reset, url, missed_feedback,
                   renderer, clients, cb>>

\* Mutant: the server is not waited for.
JoinedAtOnce == TRUE

\* httpd_stop joins the server thread, which on its way out destroys the
\* connections and so joins their threads.
Joined == AllIdle
NoClients == httpd' = FALSE /\ open_connections' = 0 /\ mirror' = FALSE

StopHttpd ==
    /\ pc = "stophttpd"
    /\ Joined
    /\ NoClients
    /\ pc' = "rebuild"
    /\ UNCHANGED <<code, do_shutdown, reset_loop, wishes, full_video_reset,
                   video_pipeline_failed, url, missed_feedback, eos_watch, renderer, cb>>

MustRebuild == UseVideo /\ (close_window \/ preserve_connections \/ full_video_reset)

DestroyOld ==
    /\ pc = "rebuild"
    /\ \/ MustRebuild /\ renderer' = "none" /\ pc' = "build"
       \/ ~MustRebuild /\ UNCHANGED renderer /\ pc' = "restart"
    /\ UNCHANGED <<code, do_shutdown, reset_loop, wishes, full_video_reset,
                   video_pipeline_failed, url, missed_feedback, eos_watch, clients, cb>>

BuildNew ==
    /\ pc = "build"
    /\ url' = (url /\ preserve_connections)
    /\ \/ /\ renderer' = (IF url' THEN "hls" ELSE "mirror")
          /\ full_video_reset' = FALSE
          /\ pc' = "restart"
       \/ renderer' = "none" /\ pc' = "fail" /\ UNCHANGED full_video_reset
    /\ UNCHANGED <<code, do_shutdown, reset_loop, wishes, video_pipeline_failed,
                   missed_feedback, eos_watch, clients, cb>>

Restart ==
    /\ pc = "restart"
    /\ httpd' = (httpd \/ reset_httpd)
    /\ pc' = "entry"
    /\ UNCHANGED <<code, do_shutdown, reset_loop, wishes, full_video_reset, video_pipeline_failed,
                   url, missed_feedback, eos_watch, renderer, open_connections, mirror, cb>>

\* stop_raop_server, stop_dnssd, cleanup.
Teardown ==
    /\ pc \in {"finish", "fail"}
    /\ Joined
    /\ NoClients
    /\ renderer' = "none"
    /\ pc' = "off"
    /\ code' = (IF pc = "fail" THEN 1 ELSE 0)
    /\ UNCHANGED <<do_shutdown, reset_loop, wishes, full_video_reset, video_pipeline_failed,
                   url, missed_feedback, eos_watch, cb>>

-----------------------------------------------------------------------------
\* The callbacks.  A thread that has been told to stop begins none.

ServerRuns == httpd /\ At("httpd", "idle") /\ pc \notin {"stophttpd", "finish", "fail"}
Engine == <<pc, code, do_shutdown, full_video_reset, eos_watch>>

\* conn_init, conn_destroy, conn_feedback.
Connect == /\ ServerRuns
           /\ open_connections < MaxConns
           /\ open_connections' = open_connections + 1
           /\ UNCHANGED <<Engine, reset_loop, wishes, video_pipeline_failed, url,
                          missed_feedback, renderer, httpd, mirror, cb>>

Disconnect == /\ ServerRuns
              /\ open_connections > 0
              /\ mirror /\ open_connections = 1 => At("mirror", "idle")
              /\ open_connections' = open_connections - 1
              /\ mirror' = (mirror /\ open_connections > 1)
              /\ UNCHANGED <<Engine, reset_loop, wishes, video_pipeline_failed, url,
                             missed_feedback, renderer, httpd, cb>>

Feedback == /\ ServerRuns
            /\ open_connections > 0
            /\ missed_feedback' = 0
            /\ UNCHANGED <<Engine, reset_loop, wishes, video_pipeline_failed, url, renderer,
                           clients, cb>>

\* SETUP of a mirroring stream.
Setup == /\ ServerRuns
         /\ open_connections > 0 /\ ~mirror
         /\ mirror' = TRUE
         /\ UNCHANGED <<Engine, reset_loop, wishes, video_pipeline_failed, url,
                        missed_feedback, renderer, httpd, open_connections, cb>>

\* video_reset of each type up to its last flag; what follows is in Destroy to
\* Raise.  A TEARDOWN of the stream then joins the mirror thread.
ResetNoHold ==
    /\ ServerRuns
    /\ NoHold /\ open_connections > 1
    /\ url' = (url /\ ~Hls)
    /\ Goto("httpd", IF UseVideo THEN "destroy" ELSE "flags")
    /\ UNCHANGED <<Engine, reset_loop, wishes, video_pipeline_failed, missed_feedback,
                   renderer, clients>>

ResetTeardown(toHls) ==
    /\ ServerRuns
    /\ open_connections > 0
    /\ toHls => Hls
    /\ preserve_connections' = (preserve_connections \/ toHls)
    /\ relaunch_video' = TRUE
    /\ Goto("httpd", "raiseThenJoin")
    /\ UNCHANGED <<Engine, reset_loop, reset_httpd, close_window, video_pipeline_failed, url,
                   missed_feedback, renderer, clients>>

ResetHls ==
    /\ ServerRuns
    /\ Hls /\ open_connections > 0
    /\ url' = FALSE
    /\ preserve_connections' = TRUE /\ relaunch_video' = TRUE
    /\ Goto("httpd", "raise")
    /\ UNCHANGED <<Engine, reset_loop, reset_httpd, close_window, video_pipeline_failed,
                   missed_feedback, renderer, clients>>

\* on_video_play.
VideoPlay ==
    /\ ServerRuns
    /\ Hls /\ open_connections > 0
    /\ url' = TRUE
    /\ preserve_connections' = TRUE /\ relaunch_video' = TRUE
    /\ Goto("httpd", "raise")
    /\ UNCHANGED <<Engine, reset_loop, reset_httpd, close_window, video_pipeline_failed,
                   missed_feedback, renderer, clients>>

\* conn_reset, for an HLS source that cannot be played or a lost mirror stream.
ConnReset(t) ==
    /\ \/ t = "httpd" /\ ServerRuns /\ Hls /\ open_connections > 0
       \/ t = "mirror" /\ mirror /\ At("mirror", "idle")
    /\ close_window' = (close_window /\ NoFreeze)
    /\ reset_httpd' = TRUE /\ relaunch_video' = TRUE
    /\ Goto(t, "raise")
    /\ UNCHANGED <<Engine, reset_loop, preserve_connections, video_pipeline_failed, url,
                   missed_feedback, renderer, clients>>

\* The mirror thread ends with a reset when it cannot play the codec.
MirrorShutdown ==
    /\ mirror /\ At("mirror", "idle")
    /\ relaunch_video' = TRUE
    /\ Goto("mirror", "raise")
    /\ UNCHANGED <<Engine, reset_loop, reset_httpd, preserve_connections, close_window,
                   video_pipeline_failed, url, missed_feedback, renderer, clients>>

\* video_process: the mirror thread found a renderer and hands it a frame.
Push == /\ mirror /\ At("mirror", "idle")
        /\ pc \notin {"stophttpd", "finish", "fail"}
        /\ renderer # "none"
        /\ Goto("mirror", "push")
        /\ UNCHANGED <<Engine, reset_loop, wishes, video_pipeline_failed, url,
                       missed_feedback, renderer, clients>>

Pushed == /\ At("mirror", "push")
          /\ Goto("mirror", "idle")
          /\ UNCHANGED <<Engine, reset_loop, wishes, video_pipeline_failed, url,
                         missed_feedback, renderer, clients>>

\* The rest of video_reset for a new client or the end of an HLS video.
Destroy(t) ==
    /\ At(t, "destroy")
    /\ renderer' = "none"
    /\ Goto(t, "build")
    /\ UNCHANGED <<Engine, reset_loop, wishes, video_pipeline_failed, url, missed_feedback,
                   clients>>

Build(t) ==
    /\ At(t, "build")
    /\ \/ renderer' = "mirror" /\ UNCHANGED <<video_pipeline_failed, reset_loop>>
       \/ renderer' = "none" /\ video_pipeline_failed' = TRUE /\ reset_loop' = TRUE
    /\ close_window' = FALSE
    /\ Goto(t, "flags")
    /\ UNCHANGED <<Engine, reset_httpd, relaunch_video, preserve_connections, url,
                   missed_feedback, clients>>

SetFlags(t) ==
    /\ At(t, "flags")
    /\ preserve_connections' = FALSE /\ relaunch_video' = TRUE
    /\ Goto(t, "raise")
    /\ UNCHANGED <<Engine, reset_loop, reset_httpd, close_window, video_pipeline_failed, url,
                   missed_feedback, renderer, clients>>

\* Having told of its end the mirror thread is gone.
Raise(t) ==
    /\ cb[t] \in {"raise", "raiseThenJoin"}
    /\ reset_loop' = TRUE
    /\ Goto(t, IF At(t, "raiseThenJoin") THEN "join" ELSE "idle")
    /\ mirror' = (mirror /\ t # "mirror")
    /\ UNCHANGED <<Engine, wishes, video_pipeline_failed, url, missed_feedback, renderer,
                   httpd, open_connections>>

Join == /\ At("httpd", "join") /\ At("mirror", "idle")
        /\ mirror' = FALSE
        /\ Goto("httpd", "idle")
        /\ UNCHANGED <<Engine, reset_loop, wishes, video_pipeline_failed, url, missed_feedback,
                       renderer, httpd, open_connections>>

\* stop_xmirror, from a thread of the application.
StopXmirror ==
    /\ do_shutdown' = TRUE /\ reset_loop' = TRUE
    /\ UNCHANGED <<pc, code, wishes, full_video_reset, video_pipeline_failed, url,
                   missed_feedback, eos_watch, renderer, clients, cb>>

-----------------------------------------------------------------------------
UpToLoop == InitRenderers \/ Listen \/ Advertise \/ EnterLoop \/ ArmLoop
AfterLoop == Check \/ StopHttpd \/ DestroyOld \/ BuildNew \/ Restart \/ Teardown
FinishCallback(t) == Destroy(t) \/ Build(t) \/ SetFlags(t) \/ Raise(t)
BeginCallback == \/ Connect \/ Disconnect \/ Setup
                 \/ ResetNoHold \/ ResetHls \/ VideoPlay \/ MirrorShutdown \/ Push
                 \/ \E toHls \in BOOLEAN : ResetTeardown(toHls)
                 \/ \E t \in {"httpd", "mirror"} : ConnReset(t)

Next == \/ Start \/ UpToLoop \/ AfterLoop
        \/ ResetCallback \/ FeedbackCallback \/ BusQuit \/ Signal \/ HlsEos
        \/ BeginCallback \/ Feedback \/ Pushed \/ Join
        \/ \E t \in Threads : FinishCallback(t)
        \/ StopXmirror

\* Every thread runs on, the main loop polls its timers, and no callback is
\* left half done.  Nothing is assumed of clients, of the bus or of the caller.
Fairness == /\ WF_vars(UpToLoop) /\ WF_vars(AfterLoop)
            /\ WF_vars(ResetCallback) /\ WF_vars(FeedbackCallback)
            /\ \A t \in Threads : WF_vars(FinishCallback(t))
            /\ WF_vars(Pushed) /\ WF_vars(Join)

Spec == Init /\ [][Next]_vars /\ Fairness

-----------------------------------------------------------------------------
\* Properties.

\* In its main loop the engine listens and, with video, can show it -- unless
\* a callback is rebuilding the pipelines or has reported that it could not
\* (xmirror.cpp:2258-2270, 3404-3433).
ServesInLoop == pc = "loop" => /\ httpd
                               /\ \/ ~UseVideo \/ renderer # "none"
                                  \/ video_pipeline_failed
                                  \/ \E t \in Threads : At(t, "build")

\* While the server is down nobody else runs: no connection, no mirror thread,
\* no callback half done (xmirror.cpp:3405-3407, httpd_stop).
QuietWithoutServer == ~httpd => /\ AllIdle /\ ~mirror /\ open_connections = 0

\* A run that is over has released its pipelines, whichever thread built them
\* last (xmirror.cpp:3388-3402, cleanup).
ReleasedWhenOff == pc = "off" => renderer = "none" /\ ~httpd

\* The engine's flags, its server and its pipelines fit in every state.
EngineFits == TypeOK /\ ServesInLoop /\ QuietWithoutServer /\ ReleasedWhenOff

\* A client that goes silent is dropped: with connections open and no feedback
\* and nothing else from any client or from a pipeline's bus (each quit of the
\* loop starts the count again), they do not stay open for ever
\* (xmirror.cpp:589-612).
SilentClientDropped == \/ []<>(open_connections = 0)
                       \/ []<><<BeginCallback \/ Feedback \/ BusQuit>>_vars

\* The engine keeps the contract the application relies on: in particular a
\* stop requested in any state of the run ends it.
Life == INSTANCE EngineLife WITH
            phase <- IF pc = "off" THEN "off"
                     ELSE IF pc \in {"init", "listen", "advertise"} THEN "starting"
                     ELSE "serving",
            stop <- do_shutdown
KeepsContract == Life!LifeSpec

\* What a comment says and the code does not do: "A callback thread cannot tear
\* the engine down; ask the main loop to." (xmirror.cpp:2267).  The engine does
\* end after a callback has failed to rebuild the pipelines.
FailureIsHeard == video_pipeline_failed ~> pc = "off"

\* What a comment says and the code does not do: the slot of a destroyed
\* renderer is cleared "so nothing reuses a freed pointer"
\* (video_renderer.c:787).  A frame is only pushed to pipelines that exist.
PushesToLivePipelines == At("mirror", "push") => renderer # "none"

=============================================================================
