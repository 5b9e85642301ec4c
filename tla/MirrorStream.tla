---------------------------- MODULE MirrorStream ----------------------------
(***************************************************************************)
(* The mirroring stream of libxmirror/lib/raop_rtp_mirror.c: the thread    *)
(* that accepts the client's TCP connection, reads packets of a header and *)
(* a payload piece by piece, and hands video to the renderer; and the      *)
(* start, stop and destroy calls of the httpd thread.                      *)
(*                                                                         *)
(* Bytes are counted in pieces: a header has H, a payload at most one      *)
(* more.  Left out: what is inside a video payload (its decryption is      *)
(* MirrorBuffer; an invalid one is marked and handed on all the same).     *)
(* History variables: link, packet, sent (the client's end), got (pieces   *)
(* of packet taken from the connection), pending (the codec packet whose   *)
(* parameter sets the next video packet may carry), paused (the thread's   *)
(* last call was video_pause), garbled (a non-conforming codec packet was  *)
(* seen) and refused (a codec packet was dropped after sps_pps was freed).    *)
(***************************************************************************)
EXTENDS Integers

CONSTANTS H,       (* pieces of a header             *)
          Times,   (* timestamps the client may send *)
          None     (* nothing                        *)

ASSUME HAssumption == H \in Nat \ {0}

VARIABLES running, joined, mirror_data_sock,   (* raop_rtp_mirror_t          *)
          control, destroying,                 (* where the httpd thread is  *)
          thread, stream_fd, holding, readstart,         (* of the thread    *)
          sps_pps, prepend_sps_pps, ntp_timestamp_nal, codec,
          video_stream_suspended, conn_reset, unsupported_codec,
          reported, told, shown, set_codec,    (* what the callbacks heard   *)
          link, packet, sent, got, pending, paused, garbled, refused

life == <<running, joined, control, destroying>>
framing == <<stream_fd, holding, readstart, link, packet, sent, got>>
params == <<sps_pps, prepend_sps_pps, ntp_timestamp_nal, pending, refused>>
play == <<codec, set_codec, video_stream_suspended, paused, garbled>>
ending == <<conn_reset, unsupported_codec>>
heard == <<reported, told>>
vars == <<life, mirror_data_sock, thread, framing, params, play, ending, heard, shown>>

Over == {"none", "gone"}
Video == [type : {"video"}, ts : Times]
Codec == [type : {"codec"}, ts : Times, codec : {"h264", "h265"},
          form : {"good", "garbled", "empty"}, suspends : BOOLEAN]
Packets == Video \union {p \in Codec : p.form = "garbled" => p.codec = "h265"}
           \union {[type |-> "report"]}
PayloadPieces(p) ==
  IF p.type = "report" \/ (p.type = "codec" /\ p.form = "empty") THEN 0 ELSE 1
Sets(p) == [ts |-> p.ts, codec |-> p.codec]
ParameterSets == [ts : Times, codec : {"h264", "h265"}]

ASSUME NoneAssumption == /\ None # "open"
                         /\ None \notin Packets /\ None \notin ParameterSets

Init ==
  /\ running = FALSE /\ joined = TRUE /\ mirror_data_sock = None
  /\ control = "idle" /\ destroying = FALSE
  /\ thread = "none" /\ stream_fd = None /\ holding = FALSE /\ readstart = 0
  /\ sps_pps = None /\ prepend_sps_pps = FALSE /\ ntp_timestamp_nal = None
  /\ codec = None /\ video_stream_suspended = FALSE
  /\ conn_reset = FALSE /\ unsupported_codec = FALSE
  /\ reported = FALSE /\ told = FALSE /\ shown = None /\ set_codec = None
  /\ link = None /\ packet = None /\ sent = 0 /\ got = 0 /\ pending = None
  /\ paused = FALSE /\ garbled = FALSE /\ refused = FALSE

-----------------------------------------------------------------------------
(* The httpd thread: raop_rtp_mirror_start, stop, destroy. *)
Start ==
  /\ control = "idle"
  /\ ~running /\ joined
  /\ running' = TRUE /\ joined' = FALSE
  /\ mirror_data_sock' = "open"
  /\ reported' = TRUE /\ told' = FALSE
  /\ thread' = "top"
  /\ conn_reset' = FALSE /\ unsupported_codec' = FALSE
  /\ UNCHANGED <<control, destroying, framing, params, play, shown>>

Stop ==
  /\ control = "idle"
  /\ \/ running /\ ~joined /\ running' = FALSE /\ control' = "joining"
        /\ destroying' \in BOOLEAN
     \/ (~running \/ joined) /\ running' = running /\ control' = "freed"
        /\ destroying' = TRUE   (* raop_rtp_mirror_destroy *)
  /\ UNCHANGED <<joined, mirror_data_sock, thread, framing, params, play, ending,
                 heard, shown>>

Join ==
  /\ control = "joining"
  /\ thread = "gone"
  /\ control' = "closing"
  /\ UNCHANGED <<running, joined, destroying, mirror_data_sock, thread, framing, params,
                 play, ending, heard, shown>>

Close ==
  /\ control = "closing"
  /\ mirror_data_sock' = None
  /\ joined' = TRUE
  /\ control' = IF destroying THEN "freed" ELSE "idle"
  /\ UNCHANGED <<running, destroying, thread, framing, params, play, ending, heard, shown>>

-----------------------------------------------------------------------------
(* The client's end of the connection. *)
Connect ==
  /\ link = None /\ mirror_data_sock = "open" /\ thread \notin {"report", "close", "gone"}
  /\ link' = "waiting"
  /\ UNCHANGED <<life, mirror_data_sock, thread, stream_fd, holding, readstart, packet,
                 sent, got, params, play, ending, heard, shown>>

SendPiece ==
  /\ link = "open"
  /\ IF packet = None
     THEN packet' \in Packets
     ELSE packet' = packet /\ sent < H + PayloadPieces(packet)
  /\ sent' = sent + 1
  /\ UNCHANGED <<life, mirror_data_sock, thread, stream_fd, holding, readstart, link,
                 got, params, play, ending, heard, shown>>

Hangup ==
  /\ link = "open"
  /\ link' \in {"closed", "reset"}
  /\ UNCHANGED <<life, mirror_data_sock, thread, stream_fd, holding, readstart, packet,
                 sent, got, params, play, ending, heard, shown>>

-----------------------------------------------------------------------------
(* The mirror thread.  Every pass begins with a look at running. *)
SeeStop ==
  /\ thread = "top" /\ ~running
  /\ thread' = "end"
  /\ shown' = None
  /\ UNCHANGED <<life, mirror_data_sock, framing, params, play, ending, heard>>

Select ==
  /\ thread = "top" /\ running
  /\ thread' = "select"
  /\ shown' = None
  /\ UNCHANGED <<life, mirror_data_sock, framing, params, play, ending, heard>>

Timeout ==
  /\ thread = "select"
  /\ thread' = "top"
  /\ UNCHANGED <<life, mirror_data_sock, framing, params, play, ending, heard, shown>>

(* select, accept or setsockopt fails. *)
SystemError ==
  /\ thread = "select"
  /\ thread' = "end"
  /\ UNCHANGED <<life, mirror_data_sock, framing, params, play, conn_reset,
                 unsupported_codec, heard, shown>>

(* Mutant: what was read of a header before the client went is kept. *)
AcceptMidHeader ==
  /\ thread = "select" /\ stream_fd = None /\ link = "waiting"
  /\ stream_fd' = "open" /\ link' = "open"
  /\ packet' = None /\ sent' = 0 /\ got' = 0
  /\ thread' = "top"
  /\ UNCHANGED <<life, mirror_data_sock, holding, readstart, params, play, ending,
                 heard, shown>>

Accept ==
  /\ thread = "select" /\ stream_fd = None /\ link = "waiting"
  /\ stream_fd' = "open" /\ link' = "open"
  /\ readstart' = 0
  /\ packet' = None /\ sent' = 0 /\ got' = 0
  /\ thread' = "top"
  /\ UNCHANGED <<life, mirror_data_sock, holding, params, play, ending, heard, shown>>

Readable ==
  /\ thread = "select" /\ stream_fd = "open"
  /\ got < sent \/ link # "open"
  /\ thread' = IF holding THEN "payload" ELSE "header"
  /\ UNCHANGED <<life, mirror_data_sock, framing, params, play, ending, heard, shown>>

(* One recv of the header or of the payload brings a piece. *)
Wanted == IF thread = "header" THEN H
          ELSE IF packet = None THEN 0 ELSE PayloadPieces(packet)

Recv ==
  /\ thread \in {"header", "payload"}
  /\ readstart < Wanted /\ got < sent
  /\ readstart' = readstart + 1 /\ got' = got + 1
  /\ UNCHANGED <<life, mirror_data_sock, thread, stream_fd, holding, link, packet, sent,
                 params, play, ending, heard, shown>>

(* It brings nothing in time: go round again and carry on from there.  This   *)
(* may happen, but nothing says that it will: SO_RCVTIMEO is given a struct    *)
(* timeval of 5000 microseconds, of which Windows reads the first word, 0, as  *)
(* `no timeout'.                                                               *)
RecvTimeout ==
  /\ thread \in {"header", "payload"}
  /\ readstart < Wanted /\ got = sent /\ link = "open"
  /\ thread' = "top"
  /\ UNCHANGED <<life, mirror_data_sock, framing, params, play, ending, heard, shown>>

HeaderDone ==
  /\ thread = "header" /\ readstart = H
  /\ holding' = TRUE /\ readstart' = 0
  /\ thread' = "payload"
  /\ UNCHANGED <<life, mirror_data_sock, stream_fd, link, packet, sent, got, params, play,
                 ending, heard, shown>>

(* The client hangs up within a header: wait for it to connect again. *)
(* Mutant: read on, although there is nothing more to come.           *)
HeaderReadOn ==
  /\ thread = "header"
  /\ readstart < H /\ got = sent /\ link = "closed"
  /\ UNCHANGED vars

HeaderClosed ==
  /\ thread = "header"
  /\ readstart < H /\ got = sent /\ link = "closed"
  /\ stream_fd' = None /\ link' = None
  /\ thread' = "top"
  /\ UNCHANGED <<life, mirror_data_sock, holding, readstart, packet, sent, got, params,
                 play, ending, heard, shown>>

(* It hangs up within a payload, or resets the connection (whether the error *)
(* is seen as ECONNRESET depends on the system).                             *)
RecvError ==
  /\ thread \in {"header", "payload"}
  /\ readstart < Wanted /\ got = sent
  /\ \/ link = "closed" /\ thread = "payload" /\ conn_reset' = conn_reset
     \/ link = "reset" /\ conn_reset' \in {conn_reset, TRUE}
  /\ thread' = "end"
  /\ UNCHANGED <<life, mirror_data_sock, framing, params, play, unsupported_codec, heard,
                 shown>>

-----------------------------------------------------------------------------
(* A whole packet was read: `switch (packet[4])', then the packet is freed. *)
Handle(type) ==
  /\ thread = "payload" /\ packet # None
  /\ readstart = PayloadPieces(packet)
  /\ packet.type = type

FreePacket ==
  /\ packet' = None /\ sent' = 0 /\ got' = 0
  /\ holding' = FALSE /\ readstart' = 0
  /\ thread' = IF unsupported_codec' THEN "end" ELSE "top"
  /\ UNCHANGED <<stream_fd, link, life, mirror_data_sock, heard>>

(* Mutant: the timestamps are not compared. *)
AnySetsApply == prepend_sps_pps
SetsApply == prepend_sps_pps /\ packet.ts = ntp_timestamp_nal

(* Mutant: the promise of parameter sets is not withdrawn. *)
HandleVideoKeepFlag ==
  /\ Handle("video")
  /\ SetsApply => sps_pps # None
  /\ shown' = [ts |-> packet.ts, codec |-> codec,
               sets |-> IF SetsApply THEN sps_pps ELSE None]
  /\ sps_pps' = IF prepend_sps_pps THEN None ELSE sps_pps
  /\ pending' = None
  /\ UNCHANGED <<prepend_sps_pps, ntp_timestamp_nal, refused, play, ending>>
  /\ FreePacket

HandleVideo ==
  /\ Handle("video")
  /\ SetsApply => sps_pps # None
  /\ shown' = [ts |-> packet.ts, codec |-> codec,
               sets |-> IF SetsApply THEN sps_pps ELSE None]
  /\ prepend_sps_pps' = FALSE
  /\ sps_pps' = IF prepend_sps_pps THEN None ELSE sps_pps
  /\ pending' = None
  /\ UNCHANGED <<ntp_timestamp_nal, refused, play, ending>>
  /\ FreePacket

(* assert(sps_pps) fails: the process aborts. *)
HandleVideoAborts ==
  /\ Handle("video")
  /\ SetsApply /\ sps_pps = None
  /\ thread' = "aborted"
  /\ UNCHANGED <<life, mirror_data_sock, framing, params, play, ending, heard, shown>>

(* Pause and resume as the client suspends its screen. *)
(* Mutant: only a resume is remembered. *)
Resume ==
  /\ video_stream_suspended' = (video_stream_suspended /\ packet.suspends)
  /\ paused' = IF packet.suspends # video_stream_suspended THEN packet.suspends ELSE paused

Suspend ==
  /\ video_stream_suspended' = packet.suspends
  /\ paused' = IF packet.suspends # video_stream_suspended THEN packet.suspends ELSE paused

HandleEmptyCodec ==
  /\ Handle("codec") /\ packet.form = "empty"
  /\ Suspend
  /\ ntp_timestamp_nal' = packet.ts
  /\ unsupported_codec' = TRUE
  /\ shown' = None
  /\ UNCHANGED <<sps_pps, prepend_sps_pps, pending, refused, codec, set_codec, garbled,
                 conn_reset>>
  /\ FreePacket

(* The first codec packet chooses the codec, which the engine may refuse. *)
CodecAccepted ==
  \/ codec = packet.codec /\ UNCHANGED <<codec, set_codec>>
  \/ codec = None /\ codec' = packet.codec /\ set_codec' = packet.codec

CodecRefused ==
  \/ codec \notin {None, packet.codec} /\ UNCHANGED <<codec, set_codec>>
  \/ codec = None /\ codec' = packet.codec /\ set_codec' = set_codec

TakeTime == ntp_timestamp_nal' = packet.ts

HandleCodec ==
  /\ Handle("codec") /\ packet.form = "good"
  /\ CodecAccepted
  /\ Suspend
  /\ TakeTime
  /\ sps_pps' = Sets(packet) /\ pending' = Sets(packet)
  /\ prepend_sps_pps' = TRUE
  /\ shown' = None
  /\ UNCHANGED <<refused, garbled, ending>>
  /\ FreePacket

(* A codec that the engine or an earlier packet rules out. *)
HandleRefusedCodec ==
  /\ Handle("codec") /\ packet.form # "empty"
  /\ CodecRefused
  /\ Suspend
  /\ TakeTime
  /\ sps_pps' = None /\ pending' = None /\ refused' = TRUE
  /\ conn_reset' = TRUE
  /\ shown' = None
  /\ UNCHANGED <<prepend_sps_pps, garbled, unsupported_codec>>
  /\ FreePacket

(* H265 parameter sets that do not parse: the renderer is paused. *)
HandleGarbledCodec ==
  /\ Handle("codec") /\ packet.form = "garbled"
  /\ CodecAccepted
  /\ video_stream_suspended' = packet.suspends
  /\ paused' = TRUE /\ garbled' = TRUE
  /\ TakeTime
  /\ sps_pps' = None /\ pending' = None /\ refused' = TRUE
  /\ shown' = None
  /\ UNCHANGED <<prepend_sps_pps, ending>>
  /\ FreePacket

HandleReport ==
  /\ Handle("report")
  /\ shown' = None
  /\ UNCHANGED <<params, play, ending>>
  /\ FreePacket

-----------------------------------------------------------------------------
(* The thread ends: the stream is closed and running cleared, then the *)
(* callbacks are told.  The thread's locals are gone.                  *)
Forget ==
  /\ stream_fd' = None /\ holding' = FALSE /\ readstart' = 0
  /\ sps_pps' = None /\ prepend_sps_pps' = FALSE /\ ntp_timestamp_nal' = None
  /\ codec' = None /\ set_codec' = None /\ video_stream_suspended' = FALSE
  /\ link' = None /\ packet' = None /\ sent' = 0 /\ got' = 0
  /\ pending' = None /\ refused' = FALSE /\ paused' = FALSE /\ garbled' = FALSE
  /\ shown' = None

Return ==
  /\ thread = "end"
  /\ running' = FALSE
  /\ Forget
  /\ thread' = "report"
  /\ UNCHANGED <<joined, control, destroying, mirror_data_sock, ending, heard>>

Tell ==
  /\ thread = "report"
  /\ reported' = FALSE
  /\ told' = conn_reset
  /\ thread' = "close"
  /\ UNCHANGED <<life, mirror_data_sock, framing, params, play, ending, shown>>

(* For an unsupported codec: close the listening socket, stop (which returns *)
(* at once, running being cleared) and ask the engine to reset the video.    *)
Leave ==
  /\ thread = "close"
  /\ mirror_data_sock' = IF unsupported_codec THEN "closed" ELSE mirror_data_sock
  /\ thread' = "gone"
  /\ UNCHANGED <<life, framing, params, play, ending, heard, shown>>

-----------------------------------------------------------------------------
Reading == \/ Accept \/ Readable \/ Recv \/ HeaderDone \/ HeaderClosed \/ RecvError
Handling == \/ HandleVideo \/ HandleVideoAborts \/ HandleEmptyCodec \/ HandleCodec
            \/ HandleRefusedCodec \/ HandleGarbledCodec \/ HandleReport
Proceed == \/ SeeStop \/ Select \/ Timeout \/ SystemError \/ Reading \/ Handling
           \/ Return \/ Tell \/ Leave
ThreadStep == Proceed \/ RecvTimeout
FinishStop == Join \/ Close
Client == Connect \/ SendPiece \/ Hangup

Next == Start \/ Stop \/ FinishStop \/ ThreadStep \/ Client

(* The operating system keeps both threads running; starting, stopping and  *)
(* sending are up to the client; a recv that finds nothing need not return. *)
Spec == Init /\ [][Next]_vars /\ WF_vars(Proceed) /\ WF_vars(FinishStop)
-----------------------------------------------------------------------------
TypeOK ==
  /\ {running, joined, destroying, holding, prepend_sps_pps, video_stream_suspended,
      conn_reset, unsupported_codec, reported, told, paused, garbled, refused}
       \subseteq BOOLEAN
  /\ mirror_data_sock \in {None, "open", "closed"} /\ stream_fd \in {None, "open"}
  /\ control \in {"idle", "joining", "closing", "freed"}
  /\ thread \in Over \union {"top", "select", "header", "payload", "end", "report",
                             "close", "aborted"}
  /\ readstart \in 0 .. H /\ got \in 0 .. sent /\ sent \in 0 .. H + 1
  /\ sps_pps \in {None} \union ParameterSets
  /\ {codec, set_codec} \subseteq {None, "h264", "h265"}
  /\ packet \in Packets \union {None}
  /\ ntp_timestamp_nal \in Times \union {None}
  /\ link \in {None, "waiting", "open", "closed", "reset"}

(* The thread and the client agree where in a packet they are, however the  *)
(* packet was cut into pieces and whenever the client hung up and connected *)
(* again.                                                                   *)
Aligned ==
  stream_fd = "open" /\ thread \notin Over =>
    got = IF holding THEN H + readstart ELSE readstart

(* A video packet goes to the renderer with the parameter sets of the last *)
(* codec packet if, and only if, that was the packet before it that counts *)
(* and has its timestamp; and nothing is shown with a codec other than the *)
(* sets'.                                                                  *)
SetsGoWithTheirFrame ==
  [][ shown' # None /\ shown' # shown =>
        /\ shown'.sets = IF pending # None /\ pending.ts = shown'.ts THEN pending ELSE None
        /\ shown'.sets # None => shown'.sets.codec = shown'.codec ]_vars

(* Parameter sets that prepend_sps_pps promises are there, until a codec *)
(* packet was dropped after they were freed.                             *)
PromisedSetsAreHeld == prepend_sps_pps /\ ~refused => sps_pps # None

(* assert(sps_pps) of the mirror thread holds. *)
SpsPpsAssertion == thread # "aborted"

(* Once the thread has decided to drop the connection it shows nothing more. *)
DropsConnection == [][conn_reset /\ shown' # shown => shown' = None]_vars

(* What the engine was last told is so: the renderer is paused while the     *)
(* client's screen is suspended, unless a codec packet was garbled, and when *)
(* the thread has ended the engine knows of a reset it saw                   *)
(* (raop_rtp_mirror.c:581-593, 645, 844-851).                                *)
EngineIsTold == /\ ~garbled => paused = video_stream_suspended
                /\ thread \in {"close", "gone"} => told = conn_reset

(* Thread, client and engine agree: about the place in the stream, and about *)
(* what is shown.                                                            *)
MirrorFits == TypeOK /\ Aligned /\ EngineIsTold

(* The thread waits in recv for the rest of a packet the client has begun. *)
Waiting == /\ thread \in {"header", "payload"}
           /\ readstart < Wanted /\ got = sent /\ link = "open"

(* A stop ends, wherever the thread is, unless the process aborts or the    *)
(* client keeps the connection and never sends the rest of a packet: stop   *)
(* waits for the thread before it closes anything, so nothing else ends     *)
(* that recv (raop_rtp_mirror_stop, raop_rtp_mirror_thread).                *)
StopCompletes ==
  control = "joining" ~>
    (control \in {"idle", "freed"} \/ thread = "aborted" \/ []Waiting)
=============================================================================
