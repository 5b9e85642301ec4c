----------------------------- MODULE EngineLife -----------------------------
(***************************************************************************)
(* What start_xmirror() and stop_xmirror() promise to the application that *)
(* embeds the engine: a call runs through starting and serving and returns *)
(* a code, and a stop request, once made, ends the call.                   *)
(*                                                                         *)
(* stop is do_shutdown.  Nothing in the code takes it back, so it stays    *)
(* set over the end of a call; the contract says so.                       *)
(***************************************************************************)

VARIABLES phase,  \* where the call of start_xmirror is; "off" between calls
          stop,   \* do_shutdown
          code    \* what the last call returned: 0, or 1 for an error

lifeVars == <<phase, stop, code>>

LifeTypeOK == /\ phase \in {"off", "starting", "serving"}
              /\ stop \in BOOLEAN
              /\ code \in {0, 1}

LifeInit == phase = "off" /\ stop = FALSE /\ code = 0

\* The application calls start_xmirror.
Call == phase = "off" /\ phase' = "starting" /\ UNCHANGED <<stop, code>>

\* The engine is registered with dnssd and enters its main loop.
Serve == phase = "starting" /\ phase' = "serving" /\ UNCHANGED <<stop, code>>

\* An option, a pipeline, a port or Bonjour fails it.
Fail == phase # "off" /\ phase' = "off" /\ code' = 1 /\ UNCHANGED stop

\* It was told to stop, or it has nothing to relaunch.
Finish == phase = "serving" /\ phase' = "off" /\ code' = 0 /\ UNCHANGED stop

\* Another thread calls stop_xmirror.
AskStop == stop' = TRUE /\ UNCHANGED <<phase, code>>

Obey == stop /\ (Serve \/ Fail \/ Finish)

LifeNext == Call \/ Serve \/ Fail \/ Finish \/ AskStop

LifeSpec == LifeInit /\ [][LifeNext]_lifeVars /\ WF_lifeVars(Obey)

\* A stop request ends the call it finds, wherever that call is
\* (airplayworker.cpp:24-41 waits for it).
StopEndsCall == stop ~> phase = "off"

=============================================================================
