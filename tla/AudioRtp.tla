------------------------------ MODULE AudioRtp ------------------------------
(***************************************************************************)
(* The audio stream of libxmirror/lib/raop_rtp.c: the thread that receives *)
(* RTP packets into the ring of RaopBuffer and plays them, the mailbox     *)
(* through which the RTSP handlers hand it volume, metadata and the like,  *)
(* and the start, stop and destroy calls of the one control thread (the    *)
(* httpd thread, which runs every RTSP handler).                           *)
(*                                                                         *)
(* A value posted to the mailbox is a number, counted up per kind; 0 is an *)
(* empty place.  A packet reaches whichever socket is open when the        *)
(* network hands it over: the UDP ports may be the same for every stream,  *)
(* so a packet sent in one stream may be received by the next.  History    *)
(* variables: posted (the last value of each kind), stream (how many       *)
(* streams were started), owner (for each slot, the stream whose thread    *)
(* received the payload it holds), heard (the stream whose thread received *)
(* the frame played last), synced (the stream's clock is known), gaveUp    *)
(* (its thread left after an error of select).                             *)
(***************************************************************************)
EXTENDS RaopBuffer

CONSTANTS Kinds,     (* kinds of values the mailbox has places for *)
          MaxPost,   (* bound: values posted of each kind          *)
          MaxStream  (* bound: streams started                     *)

ASSUME BoundAssumption == MaxPost \in Nat /\ MaxStream \in Nat

VARIABLES running, joined, sockets,               (* the life of the thread      *)
          thread,                                 (* where the thread is         *)
          control, destroying,                    (* where the control thread is *)
          no_resend, ct, initial_sync,            (* of the stream               *)
          mailbox, taken, applied,                (* by kind                     *)
          posted, stream, synced, gaveUp,         (* history                     *)
          owner, heard

ringvars == <<vars, owner, heard>>
life == <<running, joined, sockets, control, destroying>>
settings == <<no_resend, ct, stream>>
clock == <<initial_sync, synced>>
mail == <<mailbox, taken, applied, posted>>
audioVars == <<ringvars, life, thread, settings, clock, mail, gaveUp>>

NoMail == [k \in Kinds |-> 0]
NoOwner == [i \in Slot |-> 0]
Over == {"none", "gone"}   (* no thread was created, or it has returned *)

AudioInit ==
  /\ Init
  /\ running = FALSE /\ joined = TRUE /\ sockets = FALSE
  /\ thread = "none" /\ control = "idle" /\ destroying = FALSE
  /\ no_resend = FALSE /\ ct = "ALAC" /\ initial_sync = FALSE
  /\ mailbox = NoMail /\ taken = NoMail /\ applied = NoMail /\ posted = NoMail
  /\ stream = 0 /\ synced = FALSE /\ gaveUp = FALSE
  /\ owner = NoOwner /\ heard = 0

-----------------------------------------------------------------------------
(* The control thread: raop_rtp_set_volume, set_metadata, set_coverart, *)
(* remote_control_id, set_progress and flush leave a value, replacing   *)
(* the one that still waits.                                            *)
Post(k) ==
  /\ control = "idle"
  /\ posted[k] < MaxPost
  /\ posted' = [posted EXCEPT ![k] = @ + 1]
  /\ mailbox' = [mailbox EXCEPT ![k] = posted'[k]]
  /\ UNCHANGED <<ringvars, life, thread, settings, clock, taken, applied, gaveUp>>

(* raop_rtp_start_audio; it returns without effect while a thread runs or *)
(* was not joined, or when no socket can be opened.                       *)
StartAudio ==
  /\ control = "idle"
  /\ ~running /\ joined
  /\ stream < MaxStream
  /\ \E remote_port \in BOOLEAN, type \in {"ALAC", "AAC"} :
       /\ no_resend' = ~remote_port
       /\ ct' = type
  /\ sockets' = TRUE
  /\ running' = TRUE
  /\ joined' = FALSE
  /\ thread' = "top"
  /\ stream' = stream + 1
  /\ synced' = FALSE
  /\ gaveUp' = FALSE
  /\ UNCHANGED <<ringvars, control, destroying, initial_sync, mail>>

(* raop_rtp_stop: clear running, join the thread, close the sockets, empty *)
(* the ring.                                                               *)
Stop ==
  /\ control = "idle"
  /\ running /\ ~joined
  /\ running' = FALSE
  /\ control' = "joining"
  /\ UNCHANGED <<ringvars, joined, sockets, destroying, thread, settings, clock, mail, gaveUp>>

(* Mutant: the thread is not waited for. *)
JoinAtOnce ==
  /\ control = "joining"
  /\ control' = "closing"
  /\ UNCHANGED <<ringvars, running, joined, sockets, destroying, thread, settings, clock,
                 mail, gaveUp>>

Join ==
  /\ control = "joining"
  /\ thread = "gone"
  /\ control' = "closing"
  /\ UNCHANGED <<ringvars, running, joined, sockets, destroying, thread, settings, clock,
                 mail, gaveUp>>

(* Mutant: the ring is marked empty but keeps its entries. *)
CloseMarkingEmpty ==
  /\ control = "closing"
  /\ sockets' = FALSE
  /\ joined' = TRUE
  /\ control' = IF destroying THEN "freed" ELSE "idle"
  /\ is_empty' = TRUE /\ out' = NoFrame
  /\ UNCHANGED <<sent, filled, seqnum, payload, first_seqnum, last_seqnum, requested, base,
                 top, owner, heard, running, destroying, thread, settings, clock, mail,
                 gaveUp>>

Close ==
  /\ control = "closing"
  /\ sockets' = FALSE
  /\ FlushAll
  /\ owner' = NoOwner /\ heard' = 0
  /\ joined' = TRUE
  /\ control' = IF destroying THEN "freed" ELSE "idle"
  /\ UNCHANGED <<running, destroying, thread, settings, clock, mail, gaveUp>>

(* raop_rtp_destroy: stop, then free whatever stop did. *)
Destroy ==
  /\ control = "idle"
  /\ destroying' = TRUE
  /\ IF running /\ ~joined
     THEN running' = FALSE /\ control' = "joining"
     ELSE running' = running /\ control' = "freed"
  /\ UNCHANGED <<ringvars, joined, sockets, thread, settings, clock, mail, gaveUp>>

-----------------------------------------------------------------------------
(* The audio thread.  raop_rtp_process_events: under the lock it takes what *)
(* waits in the mailbox, or learns that it has to end.                      *)
TakeMail ==
  /\ thread = "top"
  /\ running
  /\ taken' = mailbox
  /\ mailbox' = NoMail
  /\ thread' = "deliver"
  /\ UNCHANGED <<ringvars, life, settings, clock, applied, posted, gaveUp>>

(* The callbacks, after the lock is released. *)
(* Mutant: the mailbox is cleared after the callbacks. *)
DeliverAndClear ==
  /\ thread = "deliver"
  /\ applied' = [k \in Kinds |-> IF taken[k] = 0 THEN applied[k] ELSE taken[k]]
  /\ taken' = NoMail
  /\ mailbox' = NoMail
  /\ thread' = "select"
  /\ UNCHANGED <<ringvars, life, settings, clock, posted, gaveUp>>

DeliverMail ==
  /\ thread = "deliver"
  /\ applied' = [k \in Kinds |-> IF taken[k] = 0 THEN applied[k] ELSE taken[k]]
  /\ taken' = NoMail
  /\ thread' = "select"
  /\ UNCHANGED <<ringvars, life, settings, clock, mailbox, posted, gaveUp>>

(* select returns: a timeout, an error, or packets on one or both sockets. *)
Timeout ==
  /\ thread = "select"
  /\ thread' = "top"
  /\ UNCHANGED <<ringvars, life, settings, clock, mail, gaveUp>>

SelectError ==
  /\ thread = "select"
  /\ thread' = "end"
  /\ gaveUp' = TRUE
  /\ UNCHANGED <<ringvars, life, settings, clock, mail>>

(* raop_buffer_enqueue of whatever packet the socket yields. *)
Receive(n) ==
  /\ Enqueue(n)
  /\ owner' = [i \in Slot |-> IF payload'[i] = payload[i] THEN owner[i] ELSE stream]
  /\ heard' = heard

(* A control packet; a data packet may be ready as well. *)
Resent ==
  /\ thread = "select"
  /\ \E n \in InFlight : Receive(n)
  /\ thread' \in {"top", "data"}
  /\ UNCHANGED <<life, settings, clock, mail, gaveUp>>

Sync ==
  /\ thread = "select"
  /\ initial_sync' = TRUE
  /\ synced' = TRUE
  /\ thread' \in {"top", "data"}
  /\ UNCHANGED <<ringvars, life, settings, mail, gaveUp>>

(* Dequeuing waits until the first sync. *)
AfterEnqueue == IF initial_sync' THEN "drain" ELSE "top"

(* A data packet.  For AAC, a known offset of the video stream stands in for *)
(* the first sync (whether it is known is the choice of `estimated').        *)
DataPacket ==
  /\ thread \in {"select", "data"}
  /\ \E estimated \in BOOLEAN :
       IF ~initial_sync /\ ct = "AAC" /\ estimated
       THEN initial_sync' = TRUE /\ synced' = TRUE
       ELSE UNCHANGED clock
  /\ \/ thread' = "top" /\ UNCHANGED ringvars   (* it carries no data *)
     \/ /\ \E n \in InFlight : Receive(n)
        /\ thread' = AfterEnqueue
  /\ UNCHANGED <<life, settings, mail, gaveUp>>

(* Play the frames raop_buffer_dequeue returns until it returns none. *)
Play ==
  /\ thread = "drain"
  /\ TakeFrame
  /\ owner' = owner /\ heard' = owner[First]
  /\ UNCHANGED <<life, thread, settings, clock, mail, gaveUp>>

EndOfDrain ==
  /\ thread = "drain"
  /\ \/ SkipFrame(no_resend) /\ UNCHANGED <<owner, heard>>
     \/ NothingToDequeue(no_resend) /\ UNCHANGED ringvars
  /\ thread' = "resend"
  /\ UNCHANGED <<life, settings, clock, mail, gaveUp>>

AskForResends ==
  /\ thread = "resend"
  /\ \/ ~no_resend /\ HandleResends /\ UNCHANGED <<owner, heard>>
     \/ (no_resend \/ ~AnyMissing) /\ UNCHANGED ringvars
  /\ thread' = "top"
  /\ UNCHANGED <<life, settings, clock, mail, gaveUp>>

(* The thread ends: it sees that running was cleared, or select has failed. *)
SeeStop ==
  /\ thread = "top"
  /\ ~running
  /\ thread' = "end"
  /\ UNCHANGED <<ringvars, life, settings, clock, mail, gaveUp>>

Return ==
  \/ /\ thread = "end"
     /\ running' = FALSE
     /\ thread' = "last"
     /\ UNCHANGED <<ringvars, joined, sockets, control, destroying, settings, clock,
                    mail, gaveUp>>
  \/ /\ thread = "last"   (* the log call after the lock *)
     /\ thread' = "gone"
     /\ UNCHANGED <<ringvars, life, settings, clock, mail, gaveUp>>

-----------------------------------------------------------------------------
ClientSends ==
  /\ Send
  /\ UNCHANGED <<owner, heard, life, thread, settings, clock, mail, gaveUp>>

ControlStep == (\E k \in Kinds : Post(k)) \/ StartAudio \/ Stop \/ Destroy
FinishStop == Join \/ Close
ThreadStep == \/ TakeMail \/ DeliverMail \/ Timeout \/ SelectError \/ Resent \/ Sync
              \/ DataPacket \/ Play \/ EndOfDrain \/ AskForResends \/ SeeStop \/ Return

AudioNext == ControlStep \/ FinishStop \/ ThreadStep \/ ClientSends

(* The operating system keeps both threads running; what the client asks *)
(* for and sends is up to the client.                                    *)
AudioSpec == /\ AudioInit /\ [][AudioNext]_audioVars
             /\ WF_audioVars(ThreadStep) /\ WF_audioVars(FinishStop)
-----------------------------------------------------------------------------
Mail == [Kinds -> 0 .. MaxPost]

AudioTypeOK ==
  /\ TypeOK
  /\ running \in BOOLEAN /\ joined \in BOOLEAN /\ sockets \in BOOLEAN /\ destroying \in BOOLEAN
  /\ no_resend \in BOOLEAN /\ initial_sync \in BOOLEAN /\ synced \in BOOLEAN /\ gaveUp \in BOOLEAN
  /\ thread \in Over \union {"top", "deliver", "select", "data", "drain", "resend", "end", "last"}
  /\ control \in {"idle", "joining", "closing", "freed"}
  /\ ct \in {"ALAC", "AAC"}
  /\ mailbox \in Mail /\ taken \in Mail /\ applied \in Mail /\ posted \in Mail
  /\ stream \in 0 .. MaxStream
  /\ owner \in [Slot -> 0 .. MaxStream] /\ heard \in 0 .. MaxStream

(* The object is freed under a thread only if that thread gave up by itself. *)
FreedAfterThread == control = "freed" /\ thread \notin Over => gaveUp

(* The parts of the stream fit: every value is one the code can hold, and  *)
(* the object outlives its thread.                                         *)
AudioFits == AudioTypeOK /\ FreedAfterThread

(* While a stream runs, every frame in the ring, and the frame played last, *)
(* was received by the thread of that very stream: nothing that the thread  *)
(* of an earlier stream left behind is heard, whatever the two streams were *)
(* doing when the one was stopped and the other started.                    *)
NoStaleFrames ==
  running =>
    /\ \A i \in Slot : payload[i] # NoFrame => owner[i] = stream
    /\ out # NoFrame => heard = stream

(* A stream plays nothing before its clock is known: the comment of the   *)
(* audio thread says that dequeuing is delayed until the first rtp sync   *)
(* has occurred.                                                          *)
StreamWaitsForSync == out # NoFrame => synced

(* A stop ends, whatever the thread is doing when it is called. *)
StopCompletes == control = "joining" ~> control \in {"idle", "freed"}

(* A posted value is applied, unless the stream ends. *)
MailIsApplied ==
  \A k \in Kinds : mailbox[k] # 0 /\ running ~> applied[k] = posted[k] \/ ~running

(* What the control thread asks of the stream's thread happens: to stop,  *)
(* and to apply what was posted.                                          *)
ControlIsServed == StopCompletes /\ MailIsApplied
=============================================================================
