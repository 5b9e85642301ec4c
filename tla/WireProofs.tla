----------------------------- MODULE WireProofs -----------------------------
(***************************************************************************)
(* Proofs about what comes from a client in pieces, whose ends a recv does *)
(* not see: the packets of a mirroring stream (MirrorStream), and the      *)
(* requests and answers of a connection of the server (HttpMessage).       *)
(*                                                                         *)
(* The mirror thread stays aligned with its client, keeps the parameter    *)
(* sets it promised and shows each frame with the sets that belong to it,  *)
(* for any length of a header and any timestamps.                          *)
(*                                                                         *)
(* None of it is inductive.  The framing needs to know that a thread past  *)
(* its loop has no connection, and one that reads has the part it reads    *)
(* (Places); the sets, that those held are those of the last codec packet, *)
(* with its time and its codec, as long as the loop runs (SetsAreKnown).   *)
(***************************************************************************)
EXTENDS MirrorStream, HttpMessage, Modular, SequenceTheorems, TLAPS

Loop == {"top", "select", "header", "payload"}
Off == {"none", "report", "close", "gone"}

FrameTypes ==
  /\ holding \in BOOLEAN /\ stream_fd \in {None, "open"}
  /\ readstart \in 0 .. H /\ sent \in 0 .. H + 1 /\ got \in 0 .. sent
  /\ packet \in Packets \union {None}
  /\ link \in {None, "waiting", "open", "closed", "reset"}
ParamTypes ==
  /\ prepend_sps_pps \in BOOLEAN /\ refused \in BOOLEAN
  /\ video_stream_suspended \in BOOLEAN /\ paused \in BOOLEAN /\ garbled \in BOOLEAN
  /\ sps_pps \in {None} \union ParameterSets
  /\ codec \in {None, "h264", "h265"} /\ set_codec \in {None, "h264", "h265"}
  /\ ntp_timestamp_nal \in Times \union {None}
LifeTypes ==
  /\ running \in BOOLEAN /\ joined \in BOOLEAN /\ destroying \in BOOLEAN
  /\ conn_reset \in BOOLEAN /\ unsupported_codec \in BOOLEAN
  /\ reported \in BOOLEAN /\ told \in BOOLEAN
  /\ mirror_data_sock \in {None, "open", "closed"}
  /\ control \in {"idle", "joining", "closing", "freed"}
  /\ thread \in Loop \union Off \union {"end", "aborted"}

(* A joined thread has ended.                                              *)
Joins ==
  /\ joined \/ control = "closing" => thread \in Over
  /\ thread \in {"close", "gone"} => told = conn_reset

Places ==
  /\ thread = "header" => stream_fd = "open" /\ ~holding
  /\ thread = "payload" => stream_fd = "open" /\ holding
  /\ thread \in Off => stream_fd = None
  /\ stream_fd = None => ~holding
  /\ packet = None => sent = 0

SetsAreKnown ==
  /\ thread \in Loop \union Off => pending = sps_pps
  /\ thread \in Loop /\ sps_pps # None =>
       prepend_sps_pps /\ sps_pps.ts = ntp_timestamp_nal /\ sps_pps.codec = codec
  /\ thread \in Off => sps_pps = None

LifePart == LifeTypes /\ Joins
FramePart == FrameTypes /\ Places /\ Aligned
ParamPart == /\ ParamTypes /\ SetsAreKnown /\ PromisedSetsAreHeld
             /\ ~garbled => paused = video_stream_suspended
MInv == LifePart /\ FramePart /\ ParamPart

-----------------------------------------------------------------------------
LEMMA MInvInit == Init => MInv
<1> SUFFICES ASSUME Init
             PROVE  MInv
  OBVIOUS
<1>1. LifePart
  BY DEF Init, LifePart, LifeTypes, Joins, Loop, Off, Over
<1>2. FramePart
  <2>1. 0 \in 0 .. H /\ 0 \in 0 .. H + 1 /\ 0 \in 0 .. 0
    BY HAssumption
  <2>2. FrameTypes
    BY <2>1 DEF Init, FrameTypes
  <2>3. Places /\ Aligned
    BY NoneAssumption DEF Init, Places, Aligned, Over
  <2> QED BY <2>2, <2>3 DEF FramePart
<1>3. ParamPart
  BY DEF Init, ParamPart, ParamTypes, SetsAreKnown, PromisedSetsAreHeld, Loop, Off
<1> QED BY <1>1, <1>2, <1>3 DEF MInv

(* What handling a packet does to the threads and to the framing.          *)
LEMMA Handles ==
  ASSUME Handling
  PROVE  /\ thread = "payload" /\ packet # None
         /\ \/ FreePacket
            \/ thread' = "aborted" /\ UNCHANGED <<life, mirror_data_sock, framing, ending, heard>>
         /\ UNCHANGED <<life, mirror_data_sock, heard>>
BY DEF Handling, HandleVideo, HandleVideoAborts, HandleEmptyCodec, HandleCodec, HandleRefusedCodec,
       HandleGarbledCodec, HandleReport, Handle, FreePacket

-----------------------------------------------------------------------------
(* The framing.                                                            *)
LEMMA Nothing == 0 \in 0 .. H /\ 0 \in 0 .. H + 1 /\ 0 \in 0 .. 0
BY HAssumption

LEMMA FrameStays ==
  ASSUME MInv, UNCHANGED <<stream_fd, holding, readstart, packet, sent, got>>,
         link' \in {None, "waiting", "open", "closed", "reset"},
         thread' \in {"header", "payload", "none"} => thread' = thread,
         thread' \in Off => thread \in Off,
         thread \in Over => thread' \in Over \/ stream_fd = None
  PROVE  FramePart'
BY NoneAssumption DEF MInv, FramePart, FrameTypes, Places, Aligned, Off, Over

LEMMA FrameOnSend ==
  ASSUME MInv, SendPiece
  PROVE  FramePart'
<1>1. FrameTypes /\ Places /\ Aligned
  BY DEF MInv, FramePart
<1>2. UNCHANGED <<stream_fd, holding, readstart, got, link, thread>> /\ sent' = sent + 1
  BY DEF SendPiece
<1>3. packet' \in Packets /\ sent <= H
  <2>1. CASE packet = None
    BY <1>1, <2>1, HAssumption DEF SendPiece, Places
  <2>2. CASE packet # None
    <3>1. PayloadPieces(packet) \in {0, 1}
      BY DEF PayloadPieces
    <3> QED BY <1>1, <2>2, <3>1, HAssumption DEF SendPiece, FrameTypes
  <2> QED BY <2>1, <2>2
<1>4. FrameTypes'
  BY <1>1, <1>2, <1>3, HAssumption DEF FrameTypes
<1>5. Places' /\ Aligned'
  BY <1>1, <1>2, <1>3, NoneAssumption DEF Places, Aligned
<1> QED BY <1>4, <1>5 DEF FramePart

LEMMA FrameOnRead ==
  ASSUME MInv, Reading \/ RecvTimeout
  PROVE  FramePart'
<1>1. FrameTypes /\ Places /\ Aligned
  BY DEF MInv, FramePart
<1>2. CASE Accept
  <2>1. /\ stream_fd = None /\ stream_fd' = "open" /\ link' = "open" /\ readstart' = 0
        /\ packet' = None /\ sent' = 0 /\ got' = 0 /\ thread' = "top" /\ holding' = holding
    BY <1>2 DEF Accept
  <2>2. FrameTypes'
    BY <1>1, <2>1, HAssumption DEF FrameTypes
  <2>3. Places' /\ Aligned'
    BY <1>1, <2>1, NoneAssumption DEF Places, Aligned, Off
  <2> QED BY <2>2, <2>3 DEF FramePart
<1>3. CASE Readable
  <2>1. /\ thread = "select" /\ stream_fd = "open" /\ UNCHANGED framing
        /\ thread' = IF holding THEN "payload" ELSE "header"
    BY <1>3 DEF Readable
  <2>2. FrameTypes'
    BY <1>1, <2>1 DEF FrameTypes, framing
  <2>3. Places' /\ Aligned'
    BY <1>1, <2>1, NoneAssumption DEF Places, Aligned, Off, Over, framing, FrameTypes
  <2> QED BY <2>2, <2>3 DEF FramePart
<1>4. CASE Recv
  <2>1. /\ thread \in {"header", "payload"} /\ readstart < Wanted /\ got < sent
        /\ readstart' = readstart + 1 /\ got' = got + 1
        /\ UNCHANGED <<thread, stream_fd, holding, link, packet, sent>>
    BY <1>4 DEF Recv
  <2>2. Wanted <= H /\ Wanted \in Int
    BY HAssumption DEF Wanted, PayloadPieces
  <2>3. FrameTypes'
    BY <1>1, <2>1, <2>2, HAssumption DEF FrameTypes
  <2>4. Places' /\ Aligned'
    BY <1>1, <2>1, HAssumption DEF Places, Aligned, Over, FrameTypes
  <2> QED BY <2>3, <2>4 DEF FramePart
<1>5. CASE RecvTimeout
  BY <1>1, <1>5, FrameStays DEF RecvTimeout, framing, FrameTypes, Off, Over
<1>6. CASE HeaderDone
  <2>1. /\ thread = "header" /\ readstart = H /\ holding' = TRUE /\ readstart' = 0
        /\ thread' = "payload" /\ UNCHANGED <<stream_fd, link, packet, sent, got>>
    BY <1>6 DEF HeaderDone
  <2>2. FrameTypes'
    BY <1>1, <2>1, HAssumption DEF FrameTypes
  <2>3. Places' /\ Aligned'
    BY <1>1, <2>1, HAssumption, NoneAssumption DEF Places, Aligned, Off, Over, FrameTypes
  <2> QED BY <2>2, <2>3 DEF FramePart
<1>7. CASE HeaderClosed
  <2>1. /\ thread = "header" /\ stream_fd' = None /\ link' = None /\ thread' = "top"
        /\ UNCHANGED <<holding, readstart, packet, sent, got>>
    BY <1>7 DEF HeaderClosed
  <2>2. FrameTypes'
    BY <1>1, <2>1 DEF FrameTypes
  <2>3. Places' /\ Aligned'
    BY <1>1, <2>1, NoneAssumption DEF Places, Aligned, Off
  <2> QED BY <2>2, <2>3 DEF FramePart
<1>8. CASE RecvError
  BY <1>1, <1>8, FrameStays DEF RecvError, framing, FrameTypes, Off, Over
<1> QED BY <1>2, <1>3, <1>4, <1>5, <1>6, <1>7, <1>8 DEF Reading

LEMMA FrameOnHandling ==
  ASSUME MInv, Handling
  PROVE  FramePart'
<1>1. FrameTypes /\ Places /\ Aligned
  BY DEF MInv, FramePart
<1>2. CASE FreePacket
  <2>1. /\ packet' = None /\ sent' = 0 /\ got' = 0 /\ holding' = FALSE /\ readstart' = 0
        /\ thread' \in {"end", "top"} /\ UNCHANGED <<stream_fd, link>>
    BY <1>2 DEF FreePacket
  <2>2. FrameTypes'
    BY <1>1, <2>1, Nothing DEF FrameTypes
  <2>3. Places' /\ Aligned'
    BY <1>1, <2>1 DEF Places, Aligned, Off
  <2> QED BY <2>2, <2>3 DEF FramePart
<1>3. CASE thread' = "aborted" /\ UNCHANGED framing
  <2>1. thread = "payload"
    BY Handles
  <2> QED BY <1>1, <1>3, <2>1, FrameStays DEF framing, FrameTypes, Off, Over
<1> QED BY <1>2, <1>3, Handles

LEMMA FrameOnReturn ==
  ASSUME MInv, Return
  PROVE  FramePart'
<1>1. /\ stream_fd' = None /\ holding' = FALSE /\ readstart' = 0 /\ thread' = "report"
      /\ link' = None /\ packet' = None /\ sent' = 0 /\ got' = 0
  BY DEF Return, Forget
<1>2. FrameTypes'
  BY <1>1, Nothing DEF FrameTypes
<1>3. Places' /\ Aligned'
  BY <1>1, NoneAssumption DEF Places, Aligned, Off
<1> QED BY <1>2, <1>3 DEF FramePart

LEMMA FrameNext == MInv /\ [Next]_vars => FramePart'
<1> SUFFICES ASSUME MInv, [Next]_vars
             PROVE  FramePart'
  OBVIOUS
<1>1. FrameTypes /\ Places /\ LifeTypes /\ Joins
  BY DEF MInv, FramePart, LifePart
<1>2. CASE Start
  <2>1. thread \in Over /\ thread' = "top" /\ UNCHANGED framing
    BY <1>1, <1>2 DEF Start, Joins
  <2> QED BY <1>1, <2>1, FrameStays DEF framing, FrameTypes, Places, Off, Over
<1>3. CASE Stop \/ FinishStop
  BY <1>1, <1>3, FrameStays DEF Stop, FinishStop, Join, Close, framing, FrameTypes
<1>4. CASE SeeStop \/ Select \/ Timeout \/ SystemError
  BY <1>1, <1>4, FrameStays
     DEF SeeStop, Select, Timeout, SystemError, framing, FrameTypes, Off, Over
<1>5. CASE Tell \/ Leave
  BY <1>1, <1>5, FrameStays DEF Tell, Leave, framing, FrameTypes, Places, Off, Over
<1>6. CASE Connect \/ Hangup
  BY <1>1, <1>6, FrameStays DEF Connect, Hangup, FrameTypes
<1>7. CASE UNCHANGED vars
  BY <1>1, <1>7, FrameStays DEF vars, framing, FrameTypes
<1> QED BY <1>2, <1>3, <1>4, <1>5, <1>6, <1>7, FrameOnSend, FrameOnRead, FrameOnHandling,
           FrameOnReturn DEF Next, ThreadStep, Proceed, Client

-----------------------------------------------------------------------------
(* The parameter sets and the renderer.                                    *)
LEMMA ParamsStay ==
  ASSUME MInv, UNCHANGED <<params, play>>,
         thread' \in Loop => thread \in Loop \union Off,
         thread' \in Off => thread \in Off
  PROVE  ParamPart'
BY DEF MInv, ParamPart, ParamTypes, SetsAreKnown, PromisedSetsAreHeld, params, play

(* A codec packet that chooses a codec or agrees with the one chosen.      *)
LEMMA CodecTypes ==
  ASSUME ParamTypes, packet.codec \in {"h264", "h265"}, CodecAccepted \/ CodecRefused
  PROVE  /\ codec' \in {None, "h264", "h265"} /\ set_codec' \in {None, "h264", "h265"}
         /\ CodecAccepted => codec' = packet.codec
BY DEF ParamTypes, CodecAccepted, CodecRefused

LEMMA Suspends ==
  ASSUME ParamTypes, packet.suspends \in BOOLEAN, Suspend,
         ~garbled => paused = video_stream_suspended
  PROVE  /\ video_stream_suspended' \in BOOLEAN /\ paused' \in BOOLEAN
         /\ ~garbled => paused' = video_stream_suspended'
BY DEF ParamTypes, Suspend

LEMMA CodecPackets ==
  ASSUME MInv, Handle("codec")
  PROVE  /\ packet.ts \in Times /\ packet.codec \in {"h264", "h265"}
         /\ packet.suspends \in BOOLEAN
BY DEF MInv, FramePart, FrameTypes, Handle, Packets, Video, Codec

LEMMA ParamsOnHandling ==
  ASSUME MInv, Handling
  PROVE  ParamPart'
<1>1. /\ ParamTypes /\ SetsAreKnown /\ PromisedSetsAreHeld /\ thread = "payload"
      /\ ~garbled => paused = video_stream_suspended
  BY Handles DEF MInv, ParamPart
<1>2. ASSUME FreePacket
      PROVE  thread' \in {"end", "top"} /\ (unsupported_codec' => thread' = "end")
  BY <1>2 DEF FreePacket
<1>3. CASE HandleVideo
  <2>1. /\ prepend_sps_pps' = FALSE /\ sps_pps' = (IF prepend_sps_pps THEN None ELSE sps_pps)
        /\ pending' = None /\ UNCHANGED <<ntp_timestamp_nal, refused, play>>
        /\ thread' \in {"end", "top"}
    BY <1>2, <1>3 DEF HandleVideo
  <2>2. sps_pps' = None
    BY <1>1, <2>1 DEF SetsAreKnown, Loop
  <2>3. ParamTypes'
    BY <1>1, <2>1, <2>2 DEF ParamTypes, play
  <2>4. SetsAreKnown' /\ PromisedSetsAreHeld'
    BY <2>1, <2>2 DEF SetsAreKnown, PromisedSetsAreHeld, Off
  <2> QED BY <1>1, <2>1, <2>3, <2>4 DEF ParamPart, play
<1>4. CASE HandleVideoAborts \/ HandleReport
  <2>1. UNCHANGED <<params, play>> /\ thread' \in {"aborted", "end", "top"}
    BY <1>2, <1>4 DEF HandleVideoAborts, HandleReport
  <2> QED BY <1>1, <2>1, ParamsStay DEF Loop, Off
<1>5. CASE HandleEmptyCodec
  <2>1. /\ Handle("codec") /\ Suspend /\ ntp_timestamp_nal' = packet.ts /\ thread' = "end"
        /\ UNCHANGED <<sps_pps, prepend_sps_pps, pending, refused, codec, set_codec, garbled>>
    BY <1>2, <1>5 DEF HandleEmptyCodec
  <2>2. /\ packet.ts \in Times /\ video_stream_suspended' \in BOOLEAN /\ paused' \in BOOLEAN
        /\ ~garbled => paused' = video_stream_suspended'
    BY <1>1, <2>1, CodecPackets, Suspends
  <2>3. ParamTypes'
    BY <1>1, <2>1, <2>2 DEF ParamTypes
  <2>4. SetsAreKnown' /\ PromisedSetsAreHeld'
    BY <1>1, <2>1 DEF SetsAreKnown, PromisedSetsAreHeld, Loop, Off
  <2> QED BY <2>1, <2>2, <2>3, <2>4 DEF ParamPart
<1>6. CASE HandleCodec
  <2>1. /\ Handle("codec") /\ CodecAccepted /\ Suspend /\ ntp_timestamp_nal' = packet.ts
        /\ sps_pps' = Sets(packet) /\ pending' = Sets(packet) /\ prepend_sps_pps' = TRUE
        /\ UNCHANGED <<refused, garbled>> /\ thread' \in {"end", "top"}
    BY <1>2, <1>6 DEF HandleCodec, TakeTime
  <2>2. /\ packet.ts \in Times /\ packet.codec \in {"h264", "h265"}
        /\ video_stream_suspended' \in BOOLEAN /\ paused' \in BOOLEAN
        /\ ~garbled => paused' = video_stream_suspended'
    BY <1>1, <2>1, CodecPackets, Suspends
  <2>3. /\ codec' = packet.codec /\ codec' \in {None, "h264", "h265"}
        /\ set_codec' \in {None, "h264", "h265"}
    BY <1>1, <2>1, <2>2, CodecTypes
  <2>4. /\ sps_pps' \in ParameterSets /\ sps_pps'.ts = packet.ts
        /\ sps_pps'.codec = packet.codec
    BY <2>1, <2>2 DEF Sets, ParameterSets
  <2>5. ParamTypes'
    BY <1>1, <2>1, <2>2, <2>3, <2>4 DEF ParamTypes
  <2>6. SetsAreKnown' /\ PromisedSetsAreHeld'
    BY <2>1, <2>3, <2>4, NoneAssumption DEF SetsAreKnown, PromisedSetsAreHeld, Off
  <2> QED BY <2>1, <2>2, <2>5, <2>6 DEF ParamPart
<1>7. CASE HandleRefusedCodec
  <2>1. /\ Handle("codec") /\ CodecRefused /\ Suspend /\ ntp_timestamp_nal' = packet.ts
        /\ sps_pps' = None /\ pending' = None /\ refused' = TRUE
        /\ UNCHANGED <<prepend_sps_pps, garbled>> /\ thread' \in {"end", "top"}
    BY <1>2, <1>7 DEF HandleRefusedCodec, TakeTime
  <2>2. /\ packet.ts \in Times /\ packet.codec \in {"h264", "h265"}
        /\ video_stream_suspended' \in BOOLEAN /\ paused' \in BOOLEAN
        /\ ~garbled => paused' = video_stream_suspended'
    BY <1>1, <2>1, CodecPackets, Suspends
  <2>3. codec' \in {None, "h264", "h265"} /\ set_codec' \in {None, "h264", "h265"}
    BY <1>1, <2>1, <2>2, CodecTypes
  <2>4. ParamTypes'
    BY <1>1, <2>1, <2>2, <2>3 DEF ParamTypes
  <2>5. SetsAreKnown' /\ PromisedSetsAreHeld'
    BY <2>1 DEF SetsAreKnown, PromisedSetsAreHeld
  <2> QED BY <2>1, <2>2, <2>4, <2>5 DEF ParamPart
<1>8. CASE HandleGarbledCodec
  <2>1. /\ Handle("codec") /\ CodecAccepted /\ ntp_timestamp_nal' = packet.ts
        /\ video_stream_suspended' = packet.suspends /\ paused' = TRUE /\ garbled' = TRUE
        /\ sps_pps' = None /\ pending' = None /\ refused' = TRUE
        /\ UNCHANGED prepend_sps_pps /\ thread' \in {"end", "top"}
    BY <1>2, <1>8 DEF HandleGarbledCodec, TakeTime
  <2>2. /\ packet.ts \in Times /\ packet.codec \in {"h264", "h265"}
        /\ packet.suspends \in BOOLEAN
    BY <2>1, CodecPackets
  <2>3. codec' \in {None, "h264", "h265"} /\ set_codec' \in {None, "h264", "h265"}
    BY <1>1, <2>1, <2>2, CodecTypes
  <2>4. ParamTypes'
    BY <1>1, <2>1, <2>2, <2>3 DEF ParamTypes
  <2>5. SetsAreKnown' /\ PromisedSetsAreHeld'
    BY <2>1 DEF SetsAreKnown, PromisedSetsAreHeld
  <2> QED BY <2>1, <2>4, <2>5 DEF ParamPart
<1> QED BY <1>3, <1>4, <1>5, <1>6, <1>7, <1>8 DEF Handling

LEMMA ParamsNext == MInv /\ [Next]_vars => ParamPart'
<1> SUFFICES ASSUME MInv, [Next]_vars
             PROVE  ParamPart'
  OBVIOUS
<1>1. LifeTypes /\ Joins
  BY DEF MInv, LifePart
<1>2. CASE Start
  <2>1. thread \in Off /\ thread' = "top" /\ UNCHANGED <<params, play>>
    BY <1>1, <1>2 DEF Start, Joins, Over, Off
  <2> QED BY <2>1, ParamsStay DEF Off
<1>3. CASE Stop \/ FinishStop \/ Client
  BY <1>3, ParamsStay DEF Stop, FinishStop, Join, Close, Client, Connect, SendPiece, Hangup, Loop
<1>4. CASE SeeStop \/ Select \/ Timeout \/ SystemError
  BY <1>4, ParamsStay DEF SeeStop, Select, Timeout, SystemError, Loop, Off
<1>5. CASE Reading \/ RecvTimeout
  BY <1>5, ParamsStay
     DEF Reading, Accept, Readable, Recv, RecvTimeout, HeaderDone, HeaderClosed, RecvError, Loop,
         Off
<1>6. CASE Tell \/ Leave
  BY <1>6, ParamsStay DEF Tell, Leave, Loop, Off
<1>7. CASE Return
  <2>1. /\ sps_pps' = None /\ prepend_sps_pps' = FALSE /\ ntp_timestamp_nal' = None
        /\ codec' = None /\ set_codec' = None /\ video_stream_suspended' = FALSE
        /\ pending' = None /\ refused' = FALSE /\ paused' = FALSE /\ garbled' = FALSE
        /\ thread' = "report"
    BY <1>7 DEF Return, Forget
  <2> QED BY <2>1 DEF ParamPart, ParamTypes, SetsAreKnown, PromisedSetsAreHeld
<1>8. CASE UNCHANGED vars
  BY <1>8, ParamsStay DEF vars, Loop
<1> QED BY <1>2, <1>3, <1>4, <1>5, <1>6, <1>7, <1>8, ParamsOnHandling DEF Next, ThreadStep, Proceed

-----------------------------------------------------------------------------
(* The threads, and what the callbacks are told.                           *)
LEMMA LifeNext == MInv /\ [Next]_vars => LifePart'
<1> SUFFICES ASSUME MInv, [Next]_vars
             PROVE  LifePart'
  OBVIOUS
<1>1. LifeTypes /\ Joins
  BY DEF MInv, LifePart
<1>2. CASE Start
  BY <1>1, <1>2 DEF Start, LifePart, LifeTypes, Joins, Over, Loop, Off
<1>3. CASE Stop
  BY <1>1, <1>3 DEF Stop, LifePart, LifeTypes, Joins, ending, heard
<1>4. CASE FinishStop
  BY <1>1, <1>4 DEF FinishStop, Join, Close, LifePart, LifeTypes, Joins, Over, ending, heard
<1>5. CASE Client
  BY <1>1, <1>5 DEF Client, Connect, SendPiece, Hangup, LifePart, LifeTypes, Joins, life, ending,
                    heard
<1>6. CASE SeeStop \/ Select \/ Timeout \/ SystemError
  BY <1>1, <1>6 DEF SeeStop, Select, Timeout, SystemError, LifePart, LifeTypes, Joins, life,
                    ending, heard, Over, Loop
<1>7. CASE Reading \/ RecvTimeout
  <2>1. /\ thread \in Loop /\ thread' \in Loop \union {"end"}
        /\ UNCHANGED <<life, mirror_data_sock, unsupported_codec, heard>>
    BY <1>7 DEF Reading, Accept, Readable, Recv, RecvTimeout, HeaderDone, HeaderClosed, RecvError,
                Loop, ending
  <2>2. conn_reset' \in BOOLEAN
    BY <1>1, <1>7 DEF Reading, Accept, Readable, Recv, RecvTimeout, HeaderDone, HeaderClosed,
                      RecvError, LifeTypes, ending
  <2> QED BY <1>1, <2>1, <2>2 DEF LifePart, LifeTypes, Joins, life, heard, Over, Loop
<1>8. CASE Handling
  <2>1. /\ thread = "payload" /\ thread' \in {"top", "end", "aborted"}
        /\ UNCHANGED <<life, mirror_data_sock, heard>>
    BY <1>8, Handles DEF FreePacket
  <2>2. conn_reset' \in BOOLEAN /\ unsupported_codec' \in BOOLEAN
    BY <1>1, <1>8 DEF Handling, HandleVideo, HandleVideoAborts, HandleEmptyCodec, HandleCodec,
                      HandleRefusedCodec, HandleGarbledCodec, HandleReport, ending, LifeTypes
  <2> QED BY <1>1, <2>1, <2>2 DEF LifePart, LifeTypes, Joins, life, heard, Over, Loop
<1>9. CASE Return
  BY <1>1, <1>9 DEF Return, LifePart, LifeTypes, Joins, ending, heard, Over, Off
<1>10. CASE Tell
  BY <1>1, <1>10 DEF Tell, LifePart, LifeTypes, Joins, life, ending, Over, Off
<1>11. CASE Leave
  <2>1. /\ thread = "close" /\ thread' = "gone" /\ UNCHANGED <<life, ending, heard>>
        /\ mirror_data_sock' \in {"closed", mirror_data_sock}
    BY <1>11 DEF Leave
  <2> QED BY <1>1, <2>1 DEF LifePart, LifeTypes, Joins, life, ending, heard, Over, Off
<1>12. CASE UNCHANGED vars
  BY <1>1, <1>12 DEF vars, LifePart, LifeTypes, Joins, life, ending, heard
<1> QED BY <1>2, <1>3, <1>4, <1>5, <1>6, <1>7, <1>8, <1>9, <1>10, <1>11, <1>12
   DEF Next, ThreadStep, Proceed

LEMMA MInvNext == MInv /\ [Next]_vars => MInv'
BY FrameNext, ParamsNext, LifeNext DEF MInv

LEMMA MInvFits == MInv => MirrorFits /\ PromisedSetsAreHeld
<1> SUFFICES ASSUME MInv
             PROVE  MirrorFits /\ PromisedSetsAreHeld
  OBVIOUS
<1>1. TypeOK
  BY DEF MInv, LifePart, LifeTypes, FramePart, FrameTypes, ParamPart, ParamTypes, TypeOK, Loop,
         Off, Over
<1> QED BY <1>1 DEF MInv, LifePart, Joins, FramePart, ParamPart, MirrorFits, EngineIsTold

-----------------------------------------------------------------------------
(* However packets are cut into pieces, and whenever the client hangs up   *)
(* and connects again, the thread reads headers as headers and payloads as *)
(* payloads, and the engine was told how the thread ended                  *)
(* (raop_rtp_mirror.c:300-420, 844-851): for headers of any length.        *)
THEOREM Framed == Spec => []MirrorFits
<1> QED BY MInvInit, MInvNext, MInvFits, PTL DEF Spec

(* Parameter sets that a flag promises are there, until a codec packet was *)
(* dropped after they were freed (raop_rtp_mirror.c:440).                  *)
THEOREM SetsHeld == Spec => []PromisedSetsAreHeld
<1> QED BY MInvInit, MInvNext, MInvFits, PTL DEF Spec

(* A frame is shown with the parameter sets of the codec packet before it  *)
(* if that has its timestamp, with none otherwise, and never under another *)
(* codec (raop_rtp_mirror.c:430-468).                                      *)
THEOREM SetsGo == Spec => SetsGoWithTheirFrame
<1> DEFINE Goes ==
      shown' # None /\ shown' # shown =>
        /\ shown'.sets = IF pending # None /\ pending.ts = shown'.ts THEN pending ELSE None
        /\ shown'.sets # None => shown'.sets.codec = shown'.codec
<1>1. MInv /\ [Next]_vars => [Goes]_vars
  <2> SUFFICES ASSUME MInv, Next
               PROVE  Goes
    OBVIOUS
  <2>1. CASE HandleVideo
    <3>1. /\ thread = "payload"
          /\ shown' = [ts |-> packet.ts, codec |-> codec,
                       sets |-> IF SetsApply THEN sps_pps ELSE None]
          /\ SetsApply => sps_pps # None
      BY <2>1 DEF HandleVideo, Handle
    <3>2. /\ pending = sps_pps
          /\ sps_pps # None =>
               prepend_sps_pps /\ sps_pps.ts = ntp_timestamp_nal /\ sps_pps.codec = codec
      BY <3>1 DEF MInv, ParamPart, SetsAreKnown, Loop
    <3>3. /\ shown'.ts = packet.ts /\ shown'.codec = codec
          /\ shown'.sets = IF SetsApply THEN sps_pps ELSE None
      BY <3>1
    <3> QED BY <3>1, <3>2, <3>3 DEF SetsApply
  <2>2. CASE ~HandleVideo
    <3>1. shown' = None \/ shown' = shown
      BY <2>2 DEF Next, Start, Stop, FinishStop, Join, Close, Client, Connect, SendPiece, Hangup,
                  ThreadStep, Proceed, SeeStop, Select, Timeout, SystemError, Reading, Accept, Readable,
                  Recv, RecvTimeout, HeaderDone, HeaderClosed, RecvError, Handling,
                  HandleVideoAborts, HandleEmptyCodec, HandleCodec, HandleRefusedCodec,
                  HandleGarbledCodec, HandleReport, Return, Forget, Tell, Leave
    <3> QED BY <3>1
  <2> QED BY <2>1, <2>2
<1> QED BY <1>1, MInvInit, MInvNext, PTL DEF Spec, SetsGoWithTheirFrame

(***************************************************************************)
(* The messages of a connection, for any requests and any answers, a       *)
(* buffer of any size and any protocol length.                             *)
(*                                                                         *)
(* A request is gathered by callbacks, one for each piece of a text that   *)
(* lies in what recv returned.  ReadTo says what there is of it after its  *)
(* first q bytes, in terms of the bytes and not of the reads: so much of   *)
(* the url, so many names and values, the last one as far as it goes, so   *)
(* much of the body.  Every callback takes ReadTo to the end of its piece  *)
(* (CallbackReadTo), hence every read from where the last one ended to     *)
(* where it ends itself (AddDataReadTo), wherever that is; and after the   *)
(* last byte there is what the client asked (ReadToEnd).                   *)
(*                                                                         *)
(* The answer is made once and sent in parts, so that it is enough that    *)
(* its text is one the client reads as the handler's: a head that has      *)
(* every header in it, has no empty line, and grows by lines.              *)
(***************************************************************************)

(* What a byte of a message can be part of. *)
ByteParts == {"method", "url", "blank", "protocol", "line", "name", "colon", "value", "nothing", "body",
          "reply", "status"}

(* What the characters of a message are: those of its texts, and those of the lines around them. *)
Letters == Characters \union {"G", " ", "/", ":", "?", "r", "200", "T", "L"}

(* A byte of a message. *)
MessageByte == [part : ByteParts, char : Letters]

(* The bytes of a text: one for each of its characters, all of the same part. *)
LEMMA BytesAre ==
  ASSUME NEW part \in ByteParts, NEW text \in Seq(Letters)
  PROVE  /\ Bytes(part, text) \in Seq(MessageByte) /\ Len(Bytes(part, text)) = Len(text)
         /\ \A i \in 1..Len(text) : Bytes(part, text)[i] = [part |-> part, char |-> text[i]]
<1>1. Len(text) \in Nat /\ \A i \in 1..Len(text) : text[i] \in Letters
  BY ElementOfSeq, LenProperties
<1>2. Bytes(part, text) \in [1..Len(text) -> MessageByte]
  BY <1>1 DEF Bytes, MessageByte
<1>3. Bytes(part, text) \in Seq(MessageByte)
  BY <1>1, <1>2, SeqDef
<1>4. DOMAIN Bytes(part, text) = 1..Len(text)
  BY DEF Bytes
<1>5. Len(Bytes(part, text)) = Len(text)
  BY <1>1, <1>3, <1>4, LenProperties
<1> QED BY <1>3, <1>5 DEF Bytes

(* The characters of bytes, one for each. *)
LEMMA CharsAre ==
  ASSUME NEW bytes \in Seq(MessageByte)
  PROVE  /\ Chars(bytes) \in Seq(Letters) /\ Len(Chars(bytes)) = Len(bytes)
         /\ \A i \in 1..Len(bytes) : Chars(bytes)[i] = bytes[i].char
<1>1. Len(bytes) \in Nat /\ \A i \in 1..Len(bytes) : bytes[i] \in MessageByte
  BY ElementOfSeq, LenProperties
<1>2. Chars(bytes) \in [1..Len(bytes) -> Letters]
  BY <1>1 DEF Chars, MessageByte
<1>3. Chars(bytes) \in Seq(Letters)
  BY <1>1, <1>2, SeqDef
<1>4. DOMAIN Chars(bytes) = 1..Len(bytes)
  BY DEF Chars
<1>5. Len(Chars(bytes)) = Len(bytes)
  BY <1>1, <1>3, <1>4, LenProperties
<1> QED BY <1>3, <1>5 DEF Chars

(* Parsing goes on from one byte to the next: it calls back where a piece starts, and does nothing in
   the middle of one. *)
LEMMA ParsedIs ==
  ASSUME NEW req, NEW bytes, Len(bytes) \in Nat
  PROVE  /\ Parsed(req, bytes)[0] = req
         /\ \A i \in 1..Len(bytes) :
              Parsed(req, bytes)[i] = IF Starts(bytes, i) THEN Callback(Parsed(req, bytes)[i - 1], bytes, i)
                                      ELSE Parsed(req, bytes)[i - 1]
<1> DEFINE Step(g, i) == IF i = 0 THEN req
                         ELSE IF Starts(bytes, i) THEN Callback(g[i - 1], bytes, i)
                         ELSE g[i - 1]
           Is(g, k) == g = [i \in 0..k |-> Step(g, i)]
           None1 == {k \in Nat : ~ \E g : Is(g, k)}
<1>1. \A k \in Nat : \E g : Is(g, k)
  <2> SUFFICES ASSUME None1 # {} PROVE FALSE
    OBVIOUS
  <2>1. PICK k \in None1 : \A j \in None1 : k <= j
    BY LeastNumber
  <2>2. k # 0
    <3>1. Is([i \in 0..0 |-> req], 0)
      OBVIOUS
    <3> QED BY <3>1
  <2>3. k \in Nat /\ k - 1 \in Nat /\ k - 1 \notin None1
    BY <2>1, <2>2
  <2>4. PICK g : Is(g, k - 1)
    BY <2>3
  <2> DEFINE h == [i \in 0..k |-> IF i = k THEN Step(g, k) ELSE g[i]]
  <2>5. \A i \in 0..k-1 : g[i] = Step(g, i)
    <3> DEFINE e == [i \in 0..k-1 |-> Step(g, i)]
    <3>1. \A i \in 0..k-1 : e[i] = Step(g, i)
      OBVIOUS
    <3>2. g = e
      BY <2>4, Zenon
    <3> HIDE DEF e
    <3> QED BY <3>1, <3>2
  <2>6. \A i \in 0..k : h[i] = Step(h, i)
    BY <2>2, <2>3, <2>5
  <2>7. Is(h, k)
    BY <2>6
  <2> QED BY <2>1, <2>7
<1>2. Is(Parsed(req, bytes), Len(bytes))
  <2>1. \E g : Is(g, Len(bytes))
    BY <1>1
  <2> QED BY <2>1, Zenon DEF Parsed
<1>3. \A i \in 0..Len(bytes) : Parsed(req, bytes)[i] = Step(Parsed(req, bytes), i)
  <2> DEFINE f == Parsed(req, bytes)
             e == [i \in 0..Len(bytes) |-> Step(f, i)]
  <2>1. \A i \in 0..Len(bytes) : e[i] = Step(f, i)
    OBVIOUS
  <2>2. f = e
    BY <1>2, Zenon
  <2> HIDE DEF e, f
  <2> QED BY <2>1, <2>2 DEF f
<1> HIDE DEF Is, None1
<1> QED BY <1>3

(* Joining sequences goes on from one to the next. *)
LEMMA JoinedIs ==
  ASSUME NEW parts \in Seq(Seq(MessageByte))
  PROVE  LET J == Joined(parts)
         IN /\ J[0] = <<>>
            /\ \A k \in 1..Len(parts) : J[k] = J[k - 1] \o parts[k]
            /\ \A k \in 0..Len(parts) : J[k] \in Seq(MessageByte)
<1> DEFINE Step(g, k) == IF k = 0 THEN <<>> ELSE g[k - 1] \o parts[k]
           Is(g, n) == g = [k \in 0..n |-> Step(g, k)]
           None1 == {n \in Nat : ~ \E g : Is(g, n)}
           J == Joined(parts)
<1>0. Len(parts) \in Nat /\ \A k \in 1..Len(parts) : parts[k] \in Seq(MessageByte)
  BY ElementOfSeq, LenProperties
<1>1. \A n \in Nat : \E g : Is(g, n)
  <2> SUFFICES ASSUME None1 # {} PROVE FALSE
    OBVIOUS
  <2>1. PICK n \in None1 : \A j \in None1 : n <= j
    BY LeastNumber
  <2>2. n # 0
    <3>1. Is([k \in 0..0 |-> <<>>], 0)
      OBVIOUS
    <3> QED BY <3>1
  <2>3. n \in Nat /\ n - 1 \in Nat /\ n - 1 \notin None1
    <3>1. n \in Nat /\ n - 1 \in Nat /\ ~(n <= n - 1)
      BY <2>1, <2>2
    <3> HIDE DEF None1
    <3> QED BY <2>1, <3>1
  <2>4. PICK g : Is(g, n - 1)
    BY <2>3
  <2> DEFINE h == [k \in 0..n |-> IF k = n THEN Step(g, n) ELSE g[k]]
  <2>5. \A k \in 0..n-1 : g[k] = Step(g, k)
    <3> DEFINE e == [k \in 0..n-1 |-> Step(g, k)]
    <3>1. \A k \in 0..n-1 : e[k] = Step(g, k)
      OBVIOUS
    <3>2. g = e
      BY <2>4, Zenon
    <3> HIDE DEF e
    <3> QED BY <3>1, <3>2
  <2>6. \A k \in 0..n : h[k] = Step(h, k)
    BY <2>2, <2>3, <2>5
  <2>7. Is(h, n)
    BY <2>6
  <2> QED BY <2>1, <2>7
<1>2. Is(J, Len(parts))
  <2>1. \E g : Is(g, Len(parts))
    BY <1>0, <1>1
  <2> QED BY <2>1, Zenon DEF Joined
<1>3. \A k \in 0..Len(parts) : J[k] = Step(J, k)
  <2> DEFINE e == [k \in 0..Len(parts) |-> Step(J, k)]
  <2>1. \A k \in 0..Len(parts) : e[k] = Step(J, k)
    OBVIOUS
  <2>2. J = e
    BY <1>2, Zenon
  <2> HIDE DEF e, J
  <2> QED BY <2>1, <2>2
<1> HIDE DEF Is, None1, J
<1>4. J[0] = <<>> /\ \A k \in 1..Len(parts) : J[k] = J[k - 1] \o parts[k]
  <2>1. 0 \in 0..Len(parts) /\ \A k \in 1..Len(parts) : k \in 0..Len(parts) /\ k # 0
    BY <1>0
  <2> QED BY <2>1, <1>3
<1> HIDE DEF Step
<1>5. \A k \in 0..Len(parts) : J[k] \in Seq(MessageByte)
  <2> DEFINE Bad == {k \in Nat : k \in 0..Len(parts) /\ J[k] \notin Seq(MessageByte)}
  <2> SUFFICES ASSUME Bad # {} PROVE FALSE
    BY <1>0
  <2>1. PICK k \in Bad : \A j \in Bad : k <= j
    BY LeastNumber
  <2>2. k # 0
    BY <2>1, <1>4, EmptySeq
  <2>3. k \in 1..Len(parts) /\ k - 1 \in Nat /\ k - 1 \in 0..Len(parts) /\ k - 1 \notin Bad
    BY <2>1, <2>2, <1>0
  <2>4. J[k - 1] \in Seq(MessageByte) /\ parts[k] \in Seq(MessageByte) /\ J[k] = J[k - 1] \o parts[k]
    BY <2>3, <1>0, <1>4
  <2>5. J[k] \in Seq(MessageByte)
    BY <2>4, ConcatProperties
  <2> QED BY <2>1, <2>5
<1> QED BY <1>4, <1>5 DEF J

(* Of two sequences one behind the other, where the members of each lie. *)
LEMMA ConcatIs ==
  ASSUME NEW S, NEW s \in Seq(S), NEW t \in Seq(S)
  PROVE  /\ s \o t \in Seq(S) /\ Len(s) \in Nat /\ Len(t) \in Nat
         /\ Len(s \o t) = Len(s) + Len(t)
         /\ \A i \in 1..Len(s) : (s \o t)[i] = s[i]
         /\ \A x \in 1..Len(t) : (s \o t)[Len(s) + x] = t[x]
<1>1. Len(s) \in Nat /\ Len(t) \in Nat
  BY LenProperties
<1>2. /\ s \o t \in Seq(S) /\ Len(s \o t) = Len(s) + Len(t)
      /\ \A i \in 1..Len(s) + Len(t) : (s \o t)[i] = IF i <= Len(s) THEN s[i] ELSE t[i - Len(s)]
  BY ConcatProperties
<1>3. \A i \in 1..Len(s) : (s \o t)[i] = s[i]
  BY <1>1, <1>2
<1>4. \A x \in 1..Len(t) : (s \o t)[Len(s) + x] = t[x]
  <2> TAKE x \in 1..Len(t)
  <2>1. Len(s) + x \in 1..Len(s) + Len(t) /\ ~(Len(s) + x <= Len(s)) /\ Len(s) + x - Len(s) = x
    BY <1>1
  <2> QED BY <2>1, <1>2
<1> QED BY <1>1, <1>2, <1>3, <1>4

(* The first sequences that are joined lie at the start of more of them. *)
LEMMA JoinedGrows ==
  ASSUME NEW parts \in Seq(Seq(MessageByte))
  PROVE  LET J == Joined(parts) IN
         /\ \A k \in 0..Len(parts) : J[k] \in Seq(MessageByte) /\ Len(J[k]) \in Nat
         /\ Len(J[0]) = 0
         /\ \A k \in 1..Len(parts) : Len(J[k]) = Len(J[k - 1]) + Len(parts[k])
         /\ \A j, k \in 0..Len(parts) :
              j <= k => /\ Len(J[j]) <= Len(J[k])
                        /\ \A i \in 1..Len(J[j]) : J[k][i] = J[j][i]
         /\ \A k \in 1..Len(parts) : \A x \in 1..Len(parts[k]) :
              J[Len(parts)][Len(J[k - 1]) + x] = parts[k][x]
         /\ \A i \in 1..Len(J[Len(parts)]) :
              \E k \in 1..Len(parts) : \E x \in 1..Len(parts[k]) : i = Len(J[k - 1]) + x
<1> DEFINE Q == Len(parts)
           J == Joined(parts)
<1>0. Q \in Nat /\ \A k \in 1..Q : parts[k] \in Seq(MessageByte) /\ Len(parts[k]) \in Nat
  BY ElementOfSeq, LenProperties
<1>1. J[0] = <<>> /\ (\A k \in 1..Q : J[k] = J[k - 1] \o parts[k]) /\ \A k \in 0..Q : J[k] \in Seq(MessageByte)
  BY JoinedIs
<1> HIDE DEF Q, J
<1>2. \A k \in 0..Q : J[k] \in Seq(MessageByte) /\ Len(J[k]) \in Nat
  BY <1>1, LenProperties
<1>3. Len(J[0]) = 0
  BY <1>1, EmptySeq
<1>4. \A k \in 1..Q : /\ Len(J[k]) = Len(J[k - 1]) + Len(parts[k])
                      /\ \A i \in 1..Len(J[k - 1]) : J[k][i] = J[k - 1][i]
                      /\ \A x \in 1..Len(parts[k]) : J[k][Len(J[k - 1]) + x] = parts[k][x]
  <2> TAKE k \in 1..Q
  <2>1. k \in 1..Q /\ k - 1 \in 0..Q
    BY <1>0
  <2>2. J[k - 1] \in Seq(MessageByte) /\ parts[k] \in Seq(MessageByte) /\ J[k] = J[k - 1] \o parts[k]
    BY <2>1, <1>0, <1>1
  <2> DEFINE s == J[k - 1]
             t == parts[k]
  <2>3. s \in Seq(MessageByte) /\ t \in Seq(MessageByte) /\ J[k] = s \o t
    BY <2>2
  <2> HIDE DEF s, t
  <2>4. /\ Len(s \o t) = Len(s) + Len(t)
        /\ \A i \in 1..Len(s) : (s \o t)[i] = s[i]
        /\ \A x \in 1..Len(t) : (s \o t)[Len(s) + x] = t[x]
    BY <2>3, ConcatIs
  <2> QED BY <2>3, <2>4 DEF s, t
<1>5. \A j, k \in 0..Q : j <= k => /\ Len(J[j]) <= Len(J[k])
                                   /\ \A i \in 1..Len(J[j]) : J[k][i] = J[j][i]
  <2> TAKE j \in 0..Q
  <2> DEFINE Kept(k) == Len(J[j]) <= Len(J[k]) /\ \A i \in 1..Len(J[j]) : J[k][i] = J[j][i]
             Bad == {k \in Nat : k \in j..Q /\ ~Kept(k)}
  <2>1. Bad = {}
    <3> SUFFICES ASSUME Bad # {} PROVE FALSE
      OBVIOUS
    <3>1. PICK k \in Bad : \A l \in Bad : k <= l
      BY LeastNumber
    <3>2. Kept(j)
      BY <1>2
    <3>3. k # j /\ k \in 1..Q /\ k - 1 \in 0..Q /\ k - 1 \in Nat /\ k - 1 \in j..Q /\ k - 1 \notin Bad
      <4>1. k \in Nat /\ k \in j..Q /\ ~Kept(k)
        BY <3>1
      <4>2. k # j
        BY <4>1, <3>2
      <4> HIDE DEF Kept
      <4>3. k \in 1..Q /\ k - 1 \in 0..Q /\ k - 1 \in Nat /\ k - 1 \in j..Q
        BY <4>1, <4>2, <1>0
      <4>4. k - 1 \notin Bad
        <5>1. ~(k <= k - 1)
          BY <4>1
        <5> QED BY <5>1, <3>1
      <4> QED BY <4>2, <4>3, <4>4
    <3>4. Kept(k - 1)
      BY <3>3
    <3>5. /\ Len(J[k]) = Len(J[k - 1]) + Len(parts[k])
          /\ \A i \in 1..Len(J[k - 1]) : J[k][i] = J[k - 1][i]
      BY <3>3, <1>4
    <3>6. Len(J[j]) \in Nat /\ Len(J[k - 1]) \in Nat /\ Len(J[k]) \in Nat /\ Len(parts[k]) \in Nat
      BY <3>3, <1>0, <1>2
    <3>7. Len(J[j]) <= Len(J[k]) /\ \A i \in 1..Len(J[j]) : i \in 1..Len(J[k - 1])
      <4> DEFINE a == Len(J[j])
                 b == Len(J[k - 1])
                 c == Len(J[k])
                 d == Len(parts[k])
      <4>1. a \in Nat /\ b \in Nat /\ c \in Nat /\ d \in Nat /\ a <= b /\ c = b + d
        BY <3>4, <3>5, <3>6
      <4> HIDE DEF a, b, c, d
      <4>2. a <= c /\ \A i \in 1..a : i \in 1..b
        BY <4>1
      <4> QED BY <4>2 DEF a, b, c
    <3>8. Kept(k)
      BY <3>4, <3>5, <3>7
    <3> QED BY <3>1, <3>8
  <2>2. \A k \in 0..Q : j <= k => Kept(k)
    BY <2>1, <1>0
  <2> QED BY <2>2
<1>6. \A k \in 1..Q : \A x \in 1..Len(parts[k]) : J[Q][Len(J[k - 1]) + x] = parts[k][x]
  <2> TAKE k \in 1..Q
  <2> TAKE x \in 1..Len(parts[k])
  <2>1. k \in 0..Q /\ Q \in 0..Q /\ k <= Q /\ k - 1 \in 0..Q
    BY <1>0
  <2>2. Len(J[k - 1]) + x \in 1..Len(J[k])
    <3>1. /\ Len(J[k - 1]) \in Nat /\ Len(J[k]) \in Nat /\ Len(parts[k]) \in Nat
          /\ Len(J[k]) = Len(J[k - 1]) + Len(parts[k])
      BY <2>1, <1>0, <1>2, <1>4
    <3> DEFINE b == Len(J[k - 1])
               c == Len(J[k])
               d == Len(parts[k])
    <3>2. b \in Nat /\ c \in Nat /\ d \in Nat /\ c = b + d /\ x \in 1..d
      BY <3>1
    <3> HIDE DEF b, c, d
    <3>3. b + x \in 1..c
      BY <3>2
    <3> QED BY <3>3 DEF b, c
  <2>3. J[Q][Len(J[k - 1]) + x] = J[k][Len(J[k - 1]) + x]
    BY <2>1, <2>2, <1>5
  <2> QED BY <2>3, <1>4
<1>7. \A i \in 1..Len(J[Q]) : \E k \in 1..Q : \E x \in 1..Len(parts[k]) : i = Len(J[k - 1]) + x
  <2> TAKE i \in 1..Len(J[Q])
  <2> DEFINE Reached == {k \in Nat : k \in 0..Q /\ i <= Len(J[k])}
  <2>1. Q \in Reached
    BY <1>0, <1>2
  <2>2. PICK k \in Reached : \A l \in Reached : k <= l
    BY <2>1, LeastNumber
  <2>3. k # 0
    BY <2>2, <1>3
  <2>4. k \in 1..Q /\ k - 1 \in 0..Q /\ k - 1 \in Nat /\ k - 1 \notin Reached
    BY <2>2, <2>3, <1>0
  <2>5. Len(J[k - 1]) < i /\ i <= Len(J[k]) /\ Len(J[k - 1]) \in Nat /\ Len(J[k]) = Len(J[k - 1]) + Len(parts[k]) /\ i \in Nat
    <3>1. /\ Len(J[k - 1]) \in Nat /\ Len(J[k]) \in Nat
          /\ Len(J[k]) = Len(J[k - 1]) + Len(parts[k])
      BY <2>4, <2>2, <1>0, <1>2, <1>4
    <3>2. ~(i <= Len(J[k - 1])) /\ i <= Len(J[k]) /\ i \in Nat
      <4>1. i \in Nat
        BY <1>2, <1>0
      <4> QED BY <4>1, <2>4, <2>2
    <3> DEFINE b == Len(J[k - 1])
               c == Len(J[k])
    <3>3. b \in Nat /\ c \in Nat /\ c = b + Len(parts[k]) /\ ~(i <= b) /\ i <= c /\ i \in Nat
      BY <3>1, <3>2
    <3> HIDE DEF b, c
    <3>4. b < i /\ i <= c /\ b \in Nat /\ c = b + Len(parts[k]) /\ i \in Nat
      BY <3>3
    <3> QED BY <3>4 DEF b, c
  <2>6. i - Len(J[k - 1]) \in 1..Len(parts[k]) /\ i = Len(J[k - 1]) + (i - Len(J[k - 1]))
    <3>1. Len(parts[k]) \in Nat
      BY <2>4, <1>0
    <3> DEFINE b == Len(J[k - 1])
               c == Len(J[k])
               d == Len(parts[k])
    <3>2. b \in Nat /\ b < i /\ i <= c /\ c = b + d /\ d \in Nat /\ i \in Nat
      BY <3>1, <2>5
    <3> HIDE DEF b, c, d
    <3>3. i - b \in 1..d /\ i = b + (i - b)
      BY <3>2
    <3> QED BY <3>3 DEF b, d
  <2> QED BY <2>4, <2>6
<1> QED BY <1>0, <1>2, <1>3, <1>4, <1>5, <1>6, <1>7 DEF Q, J

(* A sequence of one. *)
LEMMA OneIs ==
  ASSUME NEW S, NEW c \in S
  PROVE  <<c>> \in Seq(S) /\ Len(<<c>>) = 1 /\ <<c>>[1] = c
OBVIOUS

(* The byte of a text of one character. *)
LEMMA ByteIs ==
  ASSUME NEW part \in ByteParts, NEW c \in Letters
  PROVE  /\ Bytes(part, <<c>>) \in Seq(MessageByte) /\ Len(Bytes(part, <<c>>)) = 1
         /\ Bytes(part, <<c>>)[1] = [part |-> part, char |-> c]
         /\ Bytes(part, <<c>>)[1].part = part /\ Bytes(part, <<c>>)[1].char = c
<1> DEFINE text == <<c>>
<1>1. text \in Seq(Letters) /\ Len(text) = 1 /\ text[1] = c
  BY OneIs
<1> HIDE DEF text
<1>2. Bytes(part, text) \in Seq(MessageByte) /\ Len(Bytes(part, text)) = Len(text)
      /\ \A i \in 1..Len(text) : Bytes(part, text)[i] = [part |-> part, char |-> text[i]]
  BY <1>1, BytesAre
<1>3. Bytes(part, text)[1] = [part |-> part, char |-> c]
  BY <1>1, <1>2
<1> QED BY <1>1, <1>2, <1>3 DEF text

(* A text is made of characters a message can have. *)
LEMMA TextIs ==
  ASSUME NEW s \in Seq(Characters)
  PROVE  s \in Seq(Letters)
BY SeqMonotonic DEF Letters

(* How many bytes of a request there are before the blank behind its url. *)
UrlEnd(r) == 2 + Len(r.url)

(* ... before the end of its first line, with it. *)
LineEnd(r) == UrlEnd(r) + ProtocolSize + 2

(* The names and values of a request, as bytes. *)
HeaderParts(r) == [k \in 1..Len(r.headers) |-> HeaderPart(k, r.headers[k])]

(* How many bytes the first k names and values have. *)
HeadersTo(r, k) == Len(Joined(HeaderParts(r))[k])

(* Names have odd numbers, and values even ones. *)
WordPart(k) == IF k % 2 = 1 THEN "name" ELSE "value"

(* What MessageAssumption says of a request: its texts, and that the url and the names are not empty. *)
LEMMA RequestIs ==
  ASSUME NEW r \in Requests
  PROVE  /\ r.url \in Seq(Letters) /\ Len(r.url) \in Nat \ {0}
         /\ r.protocol \in Seq(Letters) /\ Len(r.protocol) = ProtocolSize
         /\ r.headers \in Seq(Seq(Letters)) /\ Len(r.headers) \in Nat
         /\ r.body \in Seq(Letters) /\ Len(r.body) \in Nat
         /\ ProtocolSize \in Nat \ {0}
         /\ UrlEnd(r) \in Nat /\ LineEnd(r) \in Nat
         /\ \A k \in 1..Len(r.headers) :
              /\ r.headers[k] \in Seq(Letters) /\ Len(r.headers[k]) \in Nat
              /\ k % 2 = 1 => Len(r.headers[k]) # 0
<1>1. r \in [url : Seq(Characters), protocol : Seq(Characters),
             headers : Seq(Seq(Characters)), body : Seq(Characters)]
  BY MessageAssumption
<1>2. /\ r.url # <<>> /\ Len(r.protocol) = ProtocolSize
      /\ \A i \in 1..Len(r.headers) : i % 2 = 1 => r.headers[i] # <<>>
      /\ ProtocolSize \in Nat \ {0}
  <2>1. \A q \in Requests : /\ q.url # <<>> /\ Len(q.protocol) = ProtocolSize
                            /\ \A i \in 1..Len(q.headers) : i % 2 = 1 => q.headers[i] # <<>>
    BY MessageAssumption
  <2>2. ProtocolSize \in Nat \ {0}
    BY MessageAssumption
  <2> QED BY <2>1, <2>2
<1>3. /\ r.url \in Seq(Characters) /\ r.protocol \in Seq(Characters)
      /\ r.headers \in Seq(Seq(Characters)) /\ r.body \in Seq(Characters)
  BY <1>1
<1>4. /\ Len(r.url) \in Nat \ {0} /\ Len(r.headers) \in Nat /\ Len(r.body) \in Nat
      /\ \A k \in 1..Len(r.headers) : r.headers[k] \in Seq(Characters)
  BY <1>2, <1>3, EmptySeq, LenProperties, ElementOfSeq
<1>5. \A k \in 1..Len(r.headers) :
              /\ r.headers[k] \in Seq(Letters) /\ Len(r.headers[k]) \in Nat
              /\ k % 2 = 1 => Len(r.headers[k]) # 0
  BY <1>2, <1>4, TextIs, EmptySeq, LenProperties
<1>6. r.headers \in Seq(Seq(Letters))
  <2>1. \A s \in Seq(Characters) : s \in Seq(Letters)
    BY TextIs
  <2>2. Seq(Characters) \subseteq Seq(Letters)
    BY <2>1
  <2> QED BY <2>2, <1>3, SeqMonotonic
<1> QED BY <1>2, <1>3, <1>4, <1>5, <1>6, TextIs DEF UrlEnd, LineEnd

(* The same of one of its names and values. *)
LEMMA HeaderTextIs ==
  ASSUME NEW r \in Requests, NEW k \in 1..Len(r.headers)
  PROVE  /\ k \in Nat /\ r.headers[k] \in Seq(Letters) /\ Len(r.headers[k]) \in Nat
         /\ k % 2 = 1 => Len(r.headers[k]) # 0
<1>1. Len(r.headers) \in Nat
  BY RequestIs
<1>2. \A j \in 1..Len(r.headers) :
              /\ r.headers[j] \in Seq(Letters) /\ Len(r.headers[j]) \in Nat
              /\ j % 2 = 1 => Len(r.headers[j]) # 0
  BY RequestIs
<1> HIDE DEF Letters
<1> QED BY <1>1, <1>2

(* A name or a value as bytes: its characters, and one byte that ends it. *)
LEMMA HeaderPartIs ==
  ASSUME NEW k \in Nat, NEW text \in Seq(Letters), k % 2 = 1 => Len(text) # 0
  PROVE  LET part == HeaderPart(k, text)
         IN /\ part \in Seq(MessageByte) /\ Len(part) = Len(text) + 1 /\ Len(text) \in Nat
            /\ \A x \in 1..Len(text) : part[x] = [part |-> WordPart(k), char |-> text[x]]
            /\ part[Len(text) + 1].part =
                 IF k % 2 = 1 THEN "colon" ELSE IF Len(text) = 0 THEN "nothing" ELSE "line"
<1>0. Len(text) \in Nat /\ (Len(text) = 0 <=> text = <<>>)
  BY LenProperties, EmptySeq
<1>2. ":" \in Letters /\ "/" \in Letters /\ {"name", "value", "colon", "nothing", "line"} \subseteq ByteParts
  BY DEF Letters, ByteParts
<1>3. CASE k % 2 = 1
  <2> DEFINE s == Bytes("name", text)
             t == Bytes("colon", <<":">>)
  <2>1. s \in Seq(MessageByte) /\ Len(s) = Len(text) /\ \A x \in 1..Len(text) : s[x] = [part |-> "name", char |-> text[x]]
    BY <1>2, BytesAre
  <2>2. t \in Seq(MessageByte) /\ Len(t) = 1 /\ t[1].part = "colon"
    <3>1. "colon" \in ByteParts /\ ":" \in Letters
      BY <1>2
    <3> QED BY <3>1, ByteIs
  <2>3. HeaderPart(k, text) = s \o t
    BY <1>3 DEF HeaderPart
  <2> HIDE DEF s, t
  <2>4. /\ s \o t \in Seq(MessageByte) /\ Len(s \o t) = Len(s) + Len(t)
        /\ \A i \in 1..Len(s) : (s \o t)[i] = s[i]
        /\ \A x \in 1..Len(t) : (s \o t)[Len(s) + x] = t[x]
    <3>1. s \in Seq(MessageByte) /\ t \in Seq(MessageByte)
      BY <2>1, <2>2
    <3> QED BY <3>1, ConcatIs
  <2> QED BY <2>1, <2>2, <2>3, <2>4, <1>0, <1>3 DEF WordPart
<1>4. CASE k % 2 # 1 /\ text = <<>>
  <2>1. HeaderPart(k, text) = Bytes("nothing", <<"/">>)
    BY <1>4 DEF HeaderPart
  <2>2. Bytes("nothing", <<"/">>) \in Seq(MessageByte) /\ Len(Bytes("nothing", <<"/">>)) = 1
        /\ Bytes("nothing", <<"/">>)[1].part = "nothing"
    <3>1. "nothing" \in ByteParts /\ "/" \in Letters
      BY <1>2
    <3> QED BY <3>1, ByteIs
  <2> QED BY <2>1, <2>2, <1>0, <1>4
<1>5. CASE k % 2 # 1 /\ text # <<>>
  <2> DEFINE s == Bytes("value", text)
             t == BlankLine
  <2>1. s \in Seq(MessageByte) /\ Len(s) = Len(text) /\ \A x \in 1..Len(text) : s[x] = [part |-> "value", char |-> text[x]]
    BY <1>2, BytesAre
  <2>2. t \in Seq(MessageByte) /\ Len(t) = 1 /\ t[1].part = "line"
    <3>1. "line" \in ByteParts /\ "/" \in Letters
      BY <1>2
    <3> QED BY <3>1, ByteIs DEF BlankLine
  <2>3. HeaderPart(k, text) = s \o t
    BY <1>5 DEF HeaderPart
  <2> HIDE DEF s, t
  <2>4. /\ s \o t \in Seq(MessageByte) /\ Len(s \o t) = Len(s) + Len(t)
        /\ \A i \in 1..Len(s) : (s \o t)[i] = s[i]
        /\ \A x \in 1..Len(t) : (s \o t)[Len(s) + x] = t[x]
    <3>1. s \in Seq(MessageByte) /\ t \in Seq(MessageByte)
      BY <2>1, <2>2
    <3> QED BY <3>1, ConcatIs
  <2> QED BY <2>1, <2>2, <2>3, <2>4, <1>0, <1>5 DEF WordPart
<1> QED BY <1>3, <1>4, <1>5

(* All names and values, as bytes. *)
LEMMA HeaderPartsAre ==
  ASSUME NEW r \in Requests
  PROVE  /\ HeaderParts(r) \in Seq(Seq(MessageByte)) /\ Len(HeaderParts(r)) = Len(r.headers)
         /\ \A k \in 1..Len(r.headers) : HeaderParts(r)[k] = HeaderPart(k, r.headers[k])
<1>1. Len(r.headers) \in Nat
  BY RequestIs
<1>2. \A k \in 1..Len(r.headers) : HeaderPart(k, r.headers[k]) \in Seq(MessageByte)
  <2> TAKE k \in 1..Len(r.headers)
  <2>1. k \in Nat /\ r.headers[k] \in Seq(Letters) /\ (k % 2 = 1 => Len(r.headers[k]) # 0)
    BY HeaderTextIs
  <2> QED BY <2>1, HeaderPartIs
<1>3. HeaderParts(r) \in [1..Len(r.headers) -> Seq(MessageByte)]
  BY <1>2 DEF HeaderParts
<1>4. HeaderParts(r) \in Seq(Seq(MessageByte)) /\ DOMAIN HeaderParts(r) = 1..Len(r.headers)
  BY <1>1, <1>3, SeqDef
<1>5. Len(HeaderParts(r)) = Len(r.headers)
  BY <1>1, <1>4, LenProperties
<1> QED BY <1>4, <1>5 DEF HeaderParts

(* Where the names and values of a request lie, one behind the other. *)
LEMMA HeadersLie ==
  ASSUME NEW r \in Requests
  PROVE  LET K == Len(r.headers)
             all == Joined(HeaderParts(r))[K]
         IN /\ \A k \in 0..K : HeadersTo(r, k) \in Nat
            /\ HeadersTo(r, 0) = 0
            /\ \A k \in 1..K : HeadersTo(r, k) = HeadersTo(r, k - 1) + Len(r.headers[k]) + 1
            /\ \A j, k \in 0..K : j <= k => HeadersTo(r, j) <= HeadersTo(r, k)
            /\ all \in Seq(MessageByte) /\ Len(all) = HeadersTo(r, K)
            /\ \A k \in 1..K : \A x \in 1..Len(r.headers[k]) + 1 :
                 all[HeadersTo(r, k - 1) + x] = HeaderPart(k, r.headers[k])[x]
            /\ \A i \in 1..HeadersTo(r, K) :
                 \E k \in 1..K : \E x \in 1..Len(r.headers[k]) + 1 : i = HeadersTo(r, k - 1) + x
<1> DEFINE K == Len(r.headers)
           P == HeaderParts(r)
           J == Joined(P)
<1>1. P \in Seq(Seq(MessageByte)) /\ Len(P) = K /\ K \in Nat
  BY HeaderPartsAre, RequestIs
<1>2. \A k \in 1..K : P[k] = HeaderPart(k, r.headers[k]) /\ Len(P[k]) = Len(r.headers[k]) + 1 /\ Len(r.headers[k]) \in Nat
  <2> TAKE k \in 1..K
  <2>1. k \in Nat /\ r.headers[k] \in Seq(Letters) /\ (k % 2 = 1 => Len(r.headers[k]) # 0)
    BY HeaderTextIs
  <2>2. P[k] = HeaderPart(k, r.headers[k])
    BY HeaderPartsAre
  <2> QED BY <2>1, <2>2, HeaderPartIs
<1>3. \A k \in 0..K : HeadersTo(r, k) = Len(J[k])
  BY DEF HeadersTo
<1> HIDE DEF K, P
<1>4. /\ \A k \in 0..Len(P) : J[k] \in Seq(MessageByte) /\ Len(J[k]) \in Nat
      /\ Len(J[0]) = 0
      /\ \A k \in 1..Len(P) : Len(J[k]) = Len(J[k - 1]) + Len(P[k])
      /\ \A j, k \in 0..Len(P) :
              j <= k => /\ Len(J[j]) <= Len(J[k])
                        /\ \A i \in 1..Len(J[j]) : J[k][i] = J[j][i]
      /\ \A k \in 1..Len(P) : \A x \in 1..Len(P[k]) : J[Len(P)][Len(J[k - 1]) + x] = P[k][x]
      /\ \A i \in 1..Len(J[Len(P)]) : \E k \in 1..Len(P) : \E x \in 1..Len(P[k]) : i = Len(J[k - 1]) + x
  BY <1>1, JoinedGrows, Zenon
<1> HIDE DEF J
<1>5. \A k \in 1..K : k - 1 \in 0..K /\ k \in 0..K
  BY <1>1
<1>6. 0 \in 0..K /\ K \in 0..K
  BY <1>1
<1>7. \A k \in 0..K : HeadersTo(r, k) \in Nat
  BY <1>1, <1>3, <1>4
<1>8. HeadersTo(r, 0) = 0
  BY <1>3, <1>4, <1>6
<1>9. \A k \in 1..K : HeadersTo(r, k) = HeadersTo(r, k - 1) + Len(r.headers[k]) + 1
  <2> TAKE k \in 1..K
  <2>3. Len(J[k]) = Len(J[k - 1]) + Len(P[k])
    BY <1>1, <1>4
  <2>1. HeadersTo(r, k) = HeadersTo(r, k - 1) + (Len(r.headers[k]) + 1)
    BY <2>3, <1>2, <1>3, <1>5
  <2>2. HeadersTo(r, k - 1) \in Nat /\ Len(r.headers[k]) \in Nat
    BY <1>2, <1>5, <1>7
  <2> QED BY <2>1, <2>2
<1>10. \A j, k \in 0..K : j <= k => HeadersTo(r, j) <= HeadersTo(r, k)
  BY <1>1, <1>3, <1>4
<1>11. J[K] \in Seq(MessageByte) /\ Len(J[K]) = HeadersTo(r, K)
  BY <1>1, <1>3, <1>4, <1>6
<1>12. \A k \in 1..K : \A x \in 1..Len(r.headers[k]) + 1 :
                 J[K][HeadersTo(r, k - 1) + x] = HeaderPart(k, r.headers[k])[x]
  <2> TAKE k \in 1..K
  <2>1. P[k] = HeaderPart(k, r.headers[k]) /\ Len(P[k]) = Len(r.headers[k]) + 1 /\ HeadersTo(r, k - 1) = Len(J[k - 1])
    BY <1>2, <1>3, <1>5
  <2>2. \A x \in 1..Len(P[k]) : J[K][Len(J[k - 1]) + x] = P[k][x]
    BY <1>1, <1>4
  <2> QED BY <2>1, <2>2
<1>13. \A i \in 1..HeadersTo(r, K) :
                 \E k \in 1..K : \E x \in 1..Len(r.headers[k]) + 1 : i = HeadersTo(r, k - 1) + x
  <2> TAKE i \in 1..HeadersTo(r, K)
  <2>1. i \in 1..Len(J[Len(P)])
    BY <1>1, <1>3, <1>6
  <2>2. PICK k \in 1..Len(P) : \E x \in 1..Len(P[k]) : i = Len(J[k - 1]) + x
    BY <2>1, <1>4
  <2> QED BY <2>2, <1>1, <1>2, <1>3, <1>5
<1> QED BY <1>7, <1>8, <1>9, <1>10, <1>11, <1>12, <1>13 DEF K, P, J

(* A sequence of two. *)
LEMMA TwoAre ==
  ASSUME NEW S, NEW c \in S, NEW d \in S
  PROVE  <<c, d>> \in Seq(S) /\ Len(<<c, d>>) = 2 /\ <<c, d>>[1] = c /\ <<c, d>>[2] = d
OBVIOUS

(* The first line of a request: where its url, the blank and its protocol lie. *)
LEMMA RequestLineIs ==
  ASSUME NEW r \in Requests
  PROVE  LET line == RequestLine(r)
         IN /\ line \in Seq(MessageByte) /\ Len(line) = LineEnd(r)
            /\ \A y \in 1..2 : line[y].part = "method"
            /\ \A x \in 1..Len(r.url) : line[2 + x] = [part |-> "url", char |-> r.url[x]]
            /\ line[UrlEnd(r) + 1].part = "blank"
            /\ \A x \in 1..ProtocolSize :
                 line[UrlEnd(r) + 1 + x] = [part |-> "protocol", char |-> r.protocol[x]]
            /\ line[LineEnd(r)].part = "line"
<1> DEFINE a == Bytes("method", <<"G", " ">>)
           b == Bytes("url", r.url)
           c == Bytes("blank", <<" ">>)
           d == Bytes("protocol", r.protocol)
           e == BlankLine
           u == Len(r.url)
           s == ProtocolSize
<1>0. /\ {"method", "url", "blank", "protocol", "line"} \subseteq ByteParts
      /\ "G" \in Letters /\ " " \in Letters /\ "/" \in Letters
  BY DEF ByteParts, Letters
<1>1. a \in Seq(MessageByte) /\ Len(a) = 2 /\ \A y \in 1..2 : a[y].part = "method"
  <2> DEFINE text == <<"G", " ">>
  <2>1. text \in Seq(Letters) /\ Len(text) = 2
    BY <1>0, TwoAre
  <2> HIDE DEF text
  <2>2. /\ Bytes("method", text) \in Seq(MessageByte) /\ Len(Bytes("method", text)) = Len(text)
        /\ \A i \in 1..Len(text) : Bytes("method", text)[i] = [part |-> "method", char |-> text[i]]
    BY <1>0, <2>1, BytesAre
  <2>3. /\ Bytes("method", text) \in Seq(MessageByte) /\ Len(Bytes("method", text)) = 2
        /\ \A y \in 1..2 : Bytes("method", text)[y].part = "method"
    BY <2>1, <2>2
  <2> QED BY <2>3 DEF text
<1>2. b \in Seq(MessageByte) /\ Len(b) = u /\ \A x \in 1..u : b[x] = [part |-> "url", char |-> r.url[x]]
  BY <1>0, RequestIs, BytesAre
<1>3. c \in Seq(MessageByte) /\ Len(c) = 1 /\ c[1].part = "blank"
  BY <1>0, ByteIs
<1>4. d \in Seq(MessageByte) /\ Len(d) = s /\ \A x \in 1..s : d[x] = [part |-> "protocol", char |-> r.protocol[x]]
  <2>1. r.protocol \in Seq(Letters) /\ Len(r.protocol) = s
    BY RequestIs
  <2> QED BY <1>0, <2>1, BytesAre
<1>5. e \in Seq(MessageByte) /\ Len(e) = 1 /\ e[1].part = "line"
  BY <1>0, ByteIs DEF BlankLine
<1>6. u \in Nat /\ s \in Nat /\ UrlEnd(r) = 2 + u /\ LineEnd(r) = 2 + u + s + 2
  BY RequestIs DEF UrlEnd, LineEnd
<1>7. RequestLine(r) = (((a \o b) \o c) \o d) \o e
  BY DEF RequestLine
<1> HIDE DEF a, b, c, d, e, u, s
<1> DEFINE ab == a \o b
<1>8. /\ ab \in Seq(MessageByte) /\ Len(ab) = 2 + u
      /\ \A y \in 1..2 : ab[y].part = "method"
      /\ \A x \in 1..u : ab[2 + x] = [part |-> "url", char |-> r.url[x]]
  <2>0. a \in Seq(MessageByte) /\ b \in Seq(MessageByte)
    BY <1>1, <1>2
  <2>1. /\ a \o b \in Seq(MessageByte) /\ Len(a \o b) = Len(a) + Len(b)
        /\ \A i \in 1..Len(a) : (a \o b)[i] = a[i]
        /\ \A x \in 1..Len(b) : (a \o b)[Len(a) + x] = b[x]
    BY <2>0, ConcatIs
  <2> QED BY <2>1, <1>1, <1>2, <1>6
<1> HIDE DEF ab
<1> DEFINE abc == ab \o c
<1>9. /\ abc \in Seq(MessageByte) /\ Len(abc) = 2 + u + 1
      /\ \A y \in 1..2 : abc[y].part = "method"
      /\ \A x \in 1..u : abc[2 + x] = [part |-> "url", char |-> r.url[x]]
      /\ abc[2 + u + 1].part = "blank"
  <2>0. ab \in Seq(MessageByte) /\ c \in Seq(MessageByte)
    BY <1>3, <1>8
  <2>1. /\ ab \o c \in Seq(MessageByte) /\ Len(ab \o c) = Len(ab) + Len(c)
        /\ \A i \in 1..Len(ab) : (ab \o c)[i] = ab[i]
        /\ \A x \in 1..Len(c) : (ab \o c)[Len(ab) + x] = c[x]
    BY <2>0, ConcatIs
  <2>2. \A y \in 1..2 : y \in 1..Len(ab)
    BY <1>8, <1>6
  <2>3. \A x \in 1..u : 2 + x \in 1..Len(ab)
    BY <1>8, <1>6
  <2> QED BY <2>1, <2>2, <2>3, <1>3, <1>8, <1>6
<1> HIDE DEF abc
<1> DEFINE abcd == abc \o d
<1>10. /\ abcd \in Seq(MessageByte) /\ Len(abcd) = 2 + u + 1 + s
       /\ \A y \in 1..2 : abcd[y].part = "method"
       /\ \A x \in 1..u : abcd[2 + x] = [part |-> "url", char |-> r.url[x]]
       /\ abcd[2 + u + 1].part = "blank"
       /\ \A x \in 1..s : abcd[2 + u + 1 + x] = [part |-> "protocol", char |-> r.protocol[x]]
  <2>0. abc \in Seq(MessageByte) /\ d \in Seq(MessageByte)
    BY <1>4, <1>9
  <2>1. /\ abc \o d \in Seq(MessageByte) /\ Len(abc \o d) = Len(abc) + Len(d)
        /\ \A i \in 1..Len(abc) : (abc \o d)[i] = abc[i]
        /\ \A x \in 1..Len(d) : (abc \o d)[Len(abc) + x] = d[x]
    BY <2>0, ConcatIs
  <2>2. (\A y \in 1..2 : y \in 1..Len(abc)) /\ (\A x \in 1..u : 2 + x \in 1..Len(abc)) /\ 2 + u + 1 \in 1..Len(abc)
    BY <1>9, <1>6
  <2> QED BY <2>1, <2>2, <1>4, <1>9, <1>6
<1> HIDE DEF abcd
<1> DEFINE all == abcd \o e
<1>11. /\ all \in Seq(MessageByte) /\ Len(all) = 2 + u + 1 + s + 1
       /\ \A y \in 1..2 : all[y].part = "method"
       /\ \A x \in 1..u : all[2 + x] = [part |-> "url", char |-> r.url[x]]
       /\ all[2 + u + 1].part = "blank"
       /\ \A x \in 1..s : all[2 + u + 1 + x] = [part |-> "protocol", char |-> r.protocol[x]]
       /\ all[2 + u + 1 + s + 1].part = "line"
  <2>0. abcd \in Seq(MessageByte) /\ e \in Seq(MessageByte)
    BY <1>5, <1>10
  <2>1. /\ abcd \o e \in Seq(MessageByte) /\ Len(abcd \o e) = Len(abcd) + Len(e)
        /\ \A i \in 1..Len(abcd) : (abcd \o e)[i] = abcd[i]
        /\ \A x \in 1..Len(e) : (abcd \o e)[Len(abcd) + x] = e[x]
    BY <2>0, ConcatIs
  <2>2. /\ (\A y \in 1..2 : y \in 1..Len(abcd)) /\ (\A x \in 1..u : 2 + x \in 1..Len(abcd)) /\ 2 + u + 1 \in 1..Len(abcd)
        /\ \A x \in 1..s : 2 + u + 1 + x \in 1..Len(abcd)
    <3> DEFINE n == Len(abcd)
    <3>1. n = 2 + u + 1 + s
      BY <1>10
    <3> HIDE DEF n
    <3>2. /\ (\A y \in 1..2 : y \in 1..n) /\ (\A x \in 1..u : 2 + x \in 1..n) /\ 2 + u + 1 \in 1..n
      BY <3>1, <1>6
    <3>3. \A x \in 1..s : 2 + u + 1 + x \in 1..n
      BY <3>1, <1>6
    <3> QED BY <3>2, <3>3 DEF n
  <2> QED BY <2>1, <2>2, <1>5, <1>10, <1>6
<1>12. RequestLine(r) = all
  BY <1>7 DEF ab, abc, abcd
<1> HIDE DEF all
<1> DEFINE U == UrlEnd(r)
           L == LineEnd(r)
<1>13. U \in Nat /\ L \in Nat /\ U = 2 + u /\ L = 2 + u + 1 + s + 1
  BY <1>6
<1> HIDE DEF U, L
<1>14. /\ all \in Seq(MessageByte) /\ Len(all) = L
       /\ \A y \in 1..2 : all[y].part = "method"
       /\ \A x \in 1..u : all[2 + x] = [part |-> "url", char |-> r.url[x]]
       /\ all[U + 1].part = "blank"
       /\ \A x \in 1..s : all[U + 1 + x] = [part |-> "protocol", char |-> r.protocol[x]]
       /\ all[L].part = "line"
  BY <1>11, <1>13
<1> QED BY <1>12, <1>14 DEF U, L, u, s

(* The bytes of a request: where everything the client asks lies. *)
LEMMA RequestLies ==
  ASSUME NEW r \in Requests
  PROVE  LET B == RequestBytes(r)
             K == Len(r.headers)
             L == LineEnd(r)
             Z == HeadersTo(r, K)
         IN /\ B \in Seq(MessageByte) /\ Len(B) = L + Z + 1 + Len(r.body)
            /\ \A y \in 1..2 : B[y].part = "method"
            /\ \A x \in 1..Len(r.url) : B[2 + x] = [part |-> "url", char |-> r.url[x]]
            /\ B[UrlEnd(r) + 1].part = "blank"
            /\ \A x \in 1..ProtocolSize :
                 B[UrlEnd(r) + 1 + x] = [part |-> "protocol", char |-> r.protocol[x]]
            /\ B[L].part = "line"
            /\ \A k \in 1..K : \A x \in 1..Len(r.headers[k]) + 1 :
                 B[L + HeadersTo(r, k - 1) + x] = HeaderPart(k, r.headers[k])[x]
            /\ B[L + Z + 1].part = "line"
            /\ \A x \in 1..Len(r.body) : B[L + Z + 1 + x] = [part |-> "body", char |-> r.body[x]]
<1> DEFINE K == Len(r.headers)
           L == LineEnd(r)
           Z == HeadersTo(r, K)
           U == UrlEnd(r)
           u == Len(r.url)
           s == ProtocolSize
           a == RequestLine(r)
           b == Joined(HeaderParts(r))[K]
           c == BlankLine
           d == Bytes("body", r.body)
           y == Len(r.body)
<1>1. /\ a \in Seq(MessageByte) /\ Len(a) = L
      /\ \A i \in 1..2 : a[i].part = "method"
      /\ \A x \in 1..u : a[2 + x] = [part |-> "url", char |-> r.url[x]]
      /\ a[U + 1].part = "blank"
      /\ \A x \in 1..s : a[U + 1 + x] = [part |-> "protocol", char |-> r.protocol[x]]
      /\ a[L].part = "line"
  BY RequestLineIs, Zenon
<1>2. L \in Nat /\ Z \in Nat /\ y \in Nat /\ u \in Nat /\ s \in Nat /\ U \in Nat /\ K \in Nat /\ U = 2 + u /\ L = U + s + 2
  BY RequestIs, HeadersLie DEF UrlEnd, LineEnd
<1>3. b \in Seq(MessageByte) /\ Len(b) = Z
  BY HeadersLie
<1>4. \A k \in 1..K : \A x \in 1..Len(r.headers[k]) + 1 :
        /\ HeadersTo(r, k - 1) + x \in 1..Z /\ HeadersTo(r, k - 1) \in Nat
        /\ b[HeadersTo(r, k - 1) + x] = HeaderPart(k, r.headers[k])[x]
  <2> TAKE k \in 1..K
  <2>0. k - 1 \in 0..K /\ k \in 0..K /\ K \in 0..K /\ k <= K
    BY <1>2
  <2>1. HeadersTo(r, k - 1) \in Nat /\ HeadersTo(r, k) \in Nat /\ HeadersTo(r, k) <= Z
    BY <2>0, HeadersLie
  <2>2. HeadersTo(r, k) = HeadersTo(r, k - 1) + Len(r.headers[k]) + 1 /\ Len(r.headers[k]) \in Nat
    BY HeadersLie, HeaderTextIs
  <2>3. \A x \in 1..Len(r.headers[k]) + 1 : HeadersTo(r, k - 1) + x \in 1..Z
    <3> DEFINE p == HeadersTo(r, k - 1)
               q == HeadersTo(r, k)
               l == Len(r.headers[k])
    <3>1. p \in Nat /\ q \in Nat /\ l \in Nat /\ q = p + l + 1 /\ q <= Z /\ Z \in Nat
      BY <2>1, <2>2, <1>2
    <3> HIDE DEF p, q, l, Z
    <3>2. \A x \in 1..l + 1 : p + x \in 1..Z
      BY <3>1
    <3> QED BY <3>2 DEF p, l
  <2>4. \A x \in 1..Len(r.headers[k]) + 1 : b[HeadersTo(r, k - 1) + x] = HeaderPart(k, r.headers[k])[x]
    BY HeadersLie
  <2> QED BY <2>1, <2>3, <2>4
<1>5. c \in Seq(MessageByte) /\ Len(c) = 1 /\ c[1].part = "line"
  <2>1. "line" \in ByteParts /\ "/" \in Letters
    BY DEF ByteParts, Letters
  <2> QED BY <2>1, ByteIs DEF BlankLine
<1>6. d \in Seq(MessageByte) /\ Len(d) = y /\ \A x \in 1..y : d[x] = [part |-> "body", char |-> r.body[x]]
  <2>1. "body" \in ByteParts
    BY DEF ByteParts
  <2> QED BY <2>1, RequestIs, BytesAre
<1>7. RequestBytes(r) = ((a \o b) \o c) \o d
  <2>1. Len(HeaderParts(r)) = K
    BY HeaderPartsAre
  <2> QED BY <2>1 DEF RequestBytes, HeaderParts
<1> HIDE DEF K, L, Z, U, u, s, a, b, c, d, y
<1>8. /\ \A i \in 1..2 : i \in 1..L
      /\ \A x \in 1..u : 2 + x \in 1..L
      /\ U + 1 \in 1..L
      /\ \A x \in 1..s : U + 1 + x \in 1..L
      /\ L \in 1..L
  BY <1>2
<1> DEFINE ab == a \o b
<1>9. /\ ab \in Seq(MessageByte) /\ Len(ab) = L + Z
      /\ \A i \in 1..2 : ab[i].part = "method"
      /\ \A x \in 1..u : ab[2 + x] = [part |-> "url", char |-> r.url[x]]
      /\ ab[U + 1].part = "blank"
      /\ \A x \in 1..s : ab[U + 1 + x] = [part |-> "protocol", char |-> r.protocol[x]]
      /\ ab[L].part = "line"
      /\ \A k \in 1..K : \A x \in 1..Len(r.headers[k]) + 1 :
           ab[L + HeadersTo(r, k - 1) + x] = HeaderPart(k, r.headers[k])[x]
  <2>0. a \in Seq(MessageByte) /\ b \in Seq(MessageByte)
    BY <1>1, <1>3
  <2>1. /\ a \o b \in Seq(MessageByte) /\ Len(a \o b) = Len(a) + Len(b)
        /\ \A i \in 1..Len(a) : (a \o b)[i] = a[i]
        /\ \A x \in 1..Len(b) : (a \o b)[Len(a) + x] = b[x]
    BY <2>0, ConcatIs
  <2>2. \A k \in 1..K : \A x \in 1..Len(r.headers[k]) + 1 :
           ab[L + HeadersTo(r, k - 1) + x] = HeaderPart(k, r.headers[k])[x]
    <3> TAKE k \in 1..K
    <3> TAKE x \in 1..Len(r.headers[k]) + 1
    <3> DEFINE i == HeadersTo(r, k - 1)
    <3>1. i + x \in 1..Z /\ i \in Nat /\ b[i + x] = HeaderPart(k, r.headers[k])[x]
      BY <1>4
    <3>2. Len(r.headers[k]) \in Nat
      BY HeaderTextIs DEF K
    <3> HIDE DEF i
    <3>3. L + (i + x) = L + i + x /\ ab[L + (i + x)] = b[i + x]
      BY <3>1, <3>2, <2>1, <1>1, <1>2, <1>3
    <3> QED BY <3>1, <3>3 DEF i
  <2> QED BY <2>1, <2>2, <1>1, <1>2, <1>3, <1>8
<1> HIDE DEF ab
<1> DEFINE M == L + Z
<1>10. /\ M \in Nat
       /\ \A i \in 1..2 : i \in 1..M
       /\ \A x \in 1..u : 2 + x \in 1..M
       /\ U + 1 \in 1..M
       /\ \A x \in 1..s : U + 1 + x \in 1..M
       /\ L \in 1..M
       /\ \A k \in 1..K : \A x \in 1..Len(r.headers[k]) + 1 : L + HeadersTo(r, k - 1) + x \in 1..M
  <2>1. \A k \in 1..K : \A x \in 1..Len(r.headers[k]) + 1 : L + HeadersTo(r, k - 1) + x \in 1..M
    <3> TAKE k \in 1..K
    <3> TAKE x \in 1..Len(r.headers[k]) + 1
    <3>1. HeadersTo(r, k - 1) + x \in 1..Z /\ HeadersTo(r, k - 1) \in Nat /\ Len(r.headers[k]) \in Nat
      BY <1>4, HeaderTextIs DEF K
    <3> QED BY <3>1, <1>2
  <2> QED BY <2>1, <1>2, <1>8
<1> DEFINE abc == ab \o c
<1>11. /\ abc \in Seq(MessageByte) /\ Len(abc) = M + 1 /\ abc[M + 1].part = "line"
       /\ \A i \in 1..M : abc[i] = ab[i]
  <2>0. ab \in Seq(MessageByte) /\ c \in Seq(MessageByte)
    BY <1>5, <1>9
  <2>1. /\ ab \o c \in Seq(MessageByte) /\ Len(ab \o c) = Len(ab) + Len(c)
        /\ \A i \in 1..Len(ab) : (ab \o c)[i] = ab[i]
        /\ \A x \in 1..Len(c) : (ab \o c)[Len(ab) + x] = c[x]
    BY <2>0, ConcatIs
  <2> QED BY <2>1, <1>5, <1>9, <1>10
<1> HIDE DEF abc
<1> DEFINE all == abc \o d
<1>12. /\ all \in Seq(MessageByte) /\ Len(all) = M + 1 + y /\ all[M + 1].part = "line"
       /\ \A i \in 1..M : all[i] = ab[i]
       /\ \A x \in 1..y : all[M + 1 + x] = [part |-> "body", char |-> r.body[x]]
  <2>0. abc \in Seq(MessageByte) /\ d \in Seq(MessageByte)
    BY <1>6, <1>11
  <2>1. /\ abc \o d \in Seq(MessageByte) /\ Len(abc \o d) = Len(abc) + Len(d)
        /\ \A i \in 1..Len(abc) : (abc \o d)[i] = abc[i]
        /\ \A x \in 1..Len(d) : (abc \o d)[Len(abc) + x] = d[x]
    BY <2>0, ConcatIs
  <2> HIDE DEF M
  <2>2. M + 1 \in 1..Len(abc) /\ \A i \in 1..M : i \in 1..Len(abc)
    BY <1>10, <1>11
  <2> QED BY <2>1, <2>2, <1>6, <1>11, <1>10
<1>13. RequestBytes(r) = all
  BY <1>7 DEF ab, abc
<1> HIDE DEF all
<1>14. /\ \A i \in 1..2 : all[i].part = "method"
       /\ \A x \in 1..u : all[2 + x] = [part |-> "url", char |-> r.url[x]]
       /\ all[U + 1].part = "blank"
       /\ \A x \in 1..s : all[U + 1 + x] = [part |-> "protocol", char |-> r.protocol[x]]
       /\ all[L].part = "line"
  <2> HIDE DEF M
  <2>1. \A i \in 1..M : all[i] = ab[i]
    BY <1>12
  <2>2. (\A i \in 1..2 : all[i].part = "method") /\ all[U + 1].part = "blank" /\ all[L].part = "line"
    BY <2>1, <1>9, <1>10
  <2>3. \A x \in 1..u : all[2 + x] = [part |-> "url", char |-> r.url[x]]
    BY <2>1, <1>9, <1>10
  <2>4. \A x \in 1..s : all[U + 1 + x] = [part |-> "protocol", char |-> r.protocol[x]]
    BY <2>1, <1>9, <1>10
  <2> QED BY <2>2, <2>3, <2>4
<1>15. \A k \in 1..K : \A x \in 1..Len(r.headers[k]) + 1 :
           all[L + HeadersTo(r, k - 1) + x] = HeaderPart(k, r.headers[k])[x]
  <2> HIDE DEF M
  <2> QED BY <1>9, <1>10, <1>12
<1> QED BY <1>12, <1>13, <1>14, <1>15 DEF M, K, L, Z, U, u, s, y

(* The bytes from a place to the end of its piece are all of one part. *)
LEMMA PieceEndIs ==
  ASSUME NEW bytes \in Seq(MessageByte), NEW at \in 1..Len(bytes)
  PROVE  /\ PieceEnd(bytes, at) \in at..Len(bytes)
         /\ \A k \in at..PieceEnd(bytes, at) : bytes[k].part = bytes[at].part
         /\ PieceEnd(bytes, at) < Len(bytes) => bytes[PieceEnd(bytes, at) + 1].part # bytes[at].part
<1> DEFINE Q == Len(bytes)
           Ends(j) == /\ \A k \in at..j : bytes[k].part = bytes[at].part
                      /\ j < Q => bytes[j + 1].part # bytes[at].part
           Other == {k \in Nat : k \in at..Q /\ bytes[k].part # bytes[at].part}
<1>1. Q \in Nat /\ at \in Nat /\ at <= Q
  BY LenProperties
<1> HIDE DEF Q
<1>2. \E j \in at..Q : Ends(j)
  <2>1. CASE Other = {}
    <3>1. \A k \in at..Q : bytes[k].part = bytes[at].part
      BY <2>1, <1>1
    <3> QED BY <3>1, <1>1
  <2>2. CASE Other # {}
    <3>1. PICK k \in Other : \A l \in Other : k <= l
      BY <2>2, LeastNumber
    <3>2. k # at /\ k \in at..Q /\ k \in Nat /\ bytes[k].part # bytes[at].part
      BY <3>1
    <3>3. k - 1 \in at..Q /\ (k - 1) + 1 = k
      BY <3>2, <1>1
    <3>4. \A l \in at..k - 1 : bytes[l].part = bytes[at].part
      <4> TAKE l \in at..k - 1
      <4>1. l \in Nat /\ l \in at..Q /\ ~(k <= l)
        BY <3>2, <1>1
      <4> QED BY <4>1, <3>1
    <3>5. Ends(k - 1)
      BY <3>2, <3>3, <3>4
    <3> QED BY <3>3, <3>5
  <2> QED BY <2>1, <2>2
<1>3. PieceEnd(bytes, at) = CHOOSE j \in at..Q : Ends(j)
  BY DEF PieceEnd, Q
<1>4. PieceEnd(bytes, at) \in at..Q /\ Ends(PieceEnd(bytes, at))
  <2> HIDE DEF Ends
  <2> QED BY <1>2, <1>3
<1> QED BY <1>4 DEF Q

(* From one byte to the next, the piece ends, or is the same. *)
LEMMA PieceEndGoes ==
  ASSUME NEW bytes \in Seq(MessageByte), NEW i \in 1..Len(bytes), i > 1
  PROVE  /\ i - 1 \in 1..Len(bytes)
         /\ Starts(bytes, i) => PieceEnd(bytes, i - 1) = i - 1
         /\ ~Starts(bytes, i) => PieceEnd(bytes, i - 1) = PieceEnd(bytes, i)
<1> DEFINE Q == Len(bytes)
           d == PieceEnd(bytes, i - 1)
           e == PieceEnd(bytes, i)
<1>1. Q \in Nat /\ i \in Nat /\ i <= Q /\ i - 1 \in 1..Q /\ (i - 1) + 1 = i
  BY LenProperties
<1>2. /\ d \in i - 1..Q
      /\ \A k \in i - 1..d : bytes[k].part = bytes[i - 1].part
      /\ d < Q => bytes[d + 1].part # bytes[i - 1].part
  BY <1>1, PieceEndIs
<1>3. /\ e \in i..Q
      /\ \A k \in i..e : bytes[k].part = bytes[i].part
      /\ e < Q => bytes[e + 1].part # bytes[i].part
  BY PieceEndIs
<1> HIDE DEF Q, d, e
<1>4. ASSUME Starts(bytes, i) PROVE d = i - 1
  <2>1. bytes[i - 1].part # bytes[i].part
    BY <1>4, <1>1 DEF Starts
  <2> SUFFICES ASSUME d # i - 1 PROVE FALSE
    OBVIOUS
  <2>2. i \in i - 1..d
    BY <1>1, <1>2
  <2> QED BY <2>1, <2>2, <1>2
<1>5. ASSUME ~Starts(bytes, i) PROVE d = e
  <2>1. bytes[i - 1].part = bytes[i].part
    BY <1>5, <1>1 DEF Starts
  <2>2. ~(d < e)
    <3> SUFFICES ASSUME d < e PROVE FALSE
      OBVIOUS
    <3>1. d < Q /\ d + 1 \in i..e
      BY <1>1, <1>2, <1>3
    <3> QED BY <3>1, <2>1, <1>2, <1>3
  <2>3. ~(e < d)
    <3> SUFFICES ASSUME e < d PROVE FALSE
      OBVIOUS
    <3>1. e < Q /\ e + 1 \in i - 1..d
      BY <1>1, <1>2, <1>3
    <3> QED BY <3>1, <2>1, <1>2, <1>3
  <2> QED BY <2>2, <2>3, <1>1, <1>2, <1>3
<1> QED BY <1>1, <1>4, <1>5 DEF Q, d, e

(* The first n characters of a text, when it has so many. *)
Told(text, n) == SubSeq(text, 1, IF n < 0 THEN 0 ELSE IF n > Len(text) THEN Len(text) ELSE n)

(* Before the text nothing of it was told, and behind its end all of it. *)
LEMMA ToldIs ==
  ASSUME NEW text \in Seq(Letters), NEW n \in Int
  PROVE  /\ Told(text, n) \in Seq(Letters)
         /\ n <= 0 => Told(text, n) = <<>>
         /\ n >= Len(text) => Told(text, n) = text
<1> DEFINE c == IF n < 0 THEN 0 ELSE IF n > Len(text) THEN Len(text) ELSE n
<1>1. Len(text) \in Nat /\ \A i \in 1..Len(text) : text[i] \in Letters
  BY LenProperties, ElementOfSeq
<1>2. c \in 0..Len(text)
  BY <1>1
<1>3. Told(text, n) = SubSeq(text, 1, c)
  BY DEF Told
<1>4. c \in Int /\ \A i \in 1..c : text[i] \in Letters
  BY <1>1, <1>2
<1>5. n <= 0 => c = 0
  BY <1>1
<1>6. n >= Len(text) => c = Len(text)
  BY <1>1
<1> HIDE DEF c
<1>7. SubSeq(text, 1, c) \in Seq(Letters) /\ Len(SubSeq(text, 1, c)) = c
      /\ \A i \in 1..c : SubSeq(text, 1, c)[i] = text[i]
  <2>1. /\ SubSeq(text, 1, c) \in Seq(Letters)
        /\ Len(SubSeq(text, 1, c)) = IF 1 <= c THEN c - 1 + 1 ELSE 0
        /\ \A i \in 1..c - 1 + 1 : SubSeq(text, 1, c)[i] = text[1 + i - 1]
    BY <1>4, SubSeqProperties
  <2> QED BY <2>1, <1>1, <1>2
<1>8. ASSUME n <= 0 PROVE Told(text, n) = <<>>
  BY <1>8, <1>5, <1>3, <1>7, EmptySeq
<1>9. ASSUME n >= Len(text) PROVE Told(text, n) = text
  BY <1>9, <1>6, <1>3, <1>7, SeqEqual
<1> QED BY <1>3, <1>7, <1>8, <1>9

(* What was told and the piece that follows is what is told behind the piece. *)
LEMMA ToldMore ==
  ASSUME NEW text \in Seq(Letters), NEW a \in Nat, NEW b \in Nat, a <= b, b <= Len(text)
  PROVE  Told(text, a) \o SubSeq(text, a + 1, b) = Told(text, b)
<1>1. Len(text) \in Nat
  BY LenProperties
<1>2. Told(text, a) = SubSeq(text, 1, a) /\ Told(text, b) = SubSeq(text, 1, b)
  BY <1>1 DEF Told
<1>3. 1 \in 1..Len(text) + 1 /\ a \in 1 - 1..Len(text) /\ b \in a..Len(text)
  BY <1>1
<1> QED BY <1>2, <1>3, ConcatAdjacentSubSeq

(* The characters of a piece that lies in a text are the characters of the text. *)
LEMMA PieceText ==
  ASSUME NEW bytes \in Seq(MessageByte), NEW s \in 1..Len(bytes), NEW e \in s..Len(bytes),
         NEW text \in Seq(Letters), NEW x \in Nat \ {0}, x + e - s <= Len(text),
         \A k \in 0..e - s : bytes[s + k].char = text[x + k]
  PROVE  Chars(SubSeq(bytes, s, e)) = SubSeq(text, x, x + e - s)
<1> DEFINE u == SubSeq(bytes, s, e)
           v == SubSeq(text, x, x + e - s)
           n == e - s + 1
<1>1. /\ Len(bytes) \in Nat /\ \A i \in 1..Len(bytes) : bytes[i] \in MessageByte
      /\ Len(text) \in Nat /\ \A i \in 1..Len(text) : text[i] \in Letters
  BY LenProperties, ElementOfSeq
<1>2. s \in Int /\ e \in Int /\ x \in Int /\ x + e - s \in Int /\ n \in Nat /\ s <= e
  BY <1>1
<1>3. u \in Seq(MessageByte) /\ Len(u) = n /\ \A i \in 1..n : u[i] = bytes[s + i - 1]
  <2>1. \A i \in s..e : bytes[i] \in MessageByte
    BY <1>1
  <2>2. /\ u \in Seq(MessageByte) /\ Len(u) = IF s <= e THEN e - s + 1 ELSE 0
        /\ \A i \in 1..e - s + 1 : u[i] = bytes[s + i - 1]
    BY <2>1, <1>2, SubSeqProperties
  <2> QED BY <2>2, <1>2
<1>4. v \in Seq(Letters) /\ Len(v) = n /\ \A i \in 1..n : v[i] = text[x + i - 1]
  <2> DEFINE y == x + e - s
  <2>1. y \in Int /\ x <= y /\ y - x + 1 = n /\ \A i \in x..y : text[i] \in Letters
    BY <1>1, <1>2
  <2> HIDE DEF y
  <2>2. /\ SubSeq(text, x, y) \in Seq(Letters) /\ Len(SubSeq(text, x, y)) = IF x <= y THEN y - x + 1 ELSE 0
        /\ \A i \in 1..y - x + 1 : SubSeq(text, x, y)[i] = text[x + i - 1]
    BY <2>1, <1>2, SubSeqProperties
  <2>3. SubSeq(text, x, y) \in Seq(Letters) /\ Len(SubSeq(text, x, y)) = n
        /\ \A i \in 1..n : SubSeq(text, x, y)[i] = text[x + i - 1]
    BY <2>1, <2>2
  <2> QED BY <2>3 DEF y
<1>5. \A i \in 1..n : u[i].char = v[i]
  <2> TAKE i \in 1..n
  <2>1. i - 1 \in 0..e - s /\ s + i - 1 = s + (i - 1) /\ x + i - 1 = x + (i - 1)
    BY <1>1, <1>2
  <2> QED BY <2>1, <1>3, <1>4
<1> HIDE DEF u, v, n
<1>6. Chars(u) \in Seq(Letters) /\ Len(Chars(u)) = n /\ \A i \in 1..n : Chars(u)[i] = u[i].char
  BY <1>3, CharsAre
<1>7. \A i \in 1..n : Chars(u)[i] = v[i]
  BY <1>5, <1>6
<1>8. Chars(u) = v
  BY <1>4, <1>6, <1>7, SeqEqual
<1> QED BY <1>8 DEF u, v

(* What http_request_add_data makes of a request. *)
RequestSoFar == [url : Seq(Letters), protocol : Seq(Letters), headers : Seq(Seq(Letters)), index : Nat,
            body : Seq(Letters), reverse : {FALSE}]

(* The strings there are after n bytes of the names and values of r: the m of them that have begun, each
   as far as it goes, and the last one's number. *)
HeadersReadTo(headers, index, r, n, m) ==
  /\ m > 0 => HeadersTo(r, m - 1) < n
  /\ m < Len(r.headers) => n <= HeadersTo(r, m)
  /\ Len(headers) = m
  /\ index = IF m = 0 THEN 0 ELSE m - 1
  /\ \A j \in 1..m : headers[j] = Told(r.headers[j], n - HeadersTo(r, j - 1))

(* How many bytes of a request there are before its body. *)
HeadEndOf(r) == LineEnd(r) + HeadersTo(r, Len(r.headers)) + 1

(* What there is of the request r after its first q bytes: of the url, the headers and the body what lies
   in those bytes, whatever the reads were. *)
ReadTo(req, r, q) ==
  /\ req \in RequestSoFar
  /\ req.url = Told(r.url, q - 2)
  /\ req.body = Told(r.body, q - HeadEndOf(r))
  /\ \E m \in 0..Len(r.headers) : HeadersReadTo(req.headers, req.index, r, q - LineEnd(r), m)

(* The lengths of what a request is made of. *)
LEMMA SizesAre ==
  ASSUME NEW r \in Requests
  PROVE  LET K == Len(r.headers)
             L == LineEnd(r)
             Z == HeadersTo(r, K)
         IN /\ K \in Nat /\ L \in Nat /\ Z \in Nat /\ HeadEndOf(r) = L + Z + 1 /\ HeadEndOf(r) \in Nat
            /\ UrlEnd(r) = 2 + Len(r.url) /\ UrlEnd(r) \in Nat
            /\ L = UrlEnd(r) + ProtocolSize + 2 /\ ProtocolSize \in Nat \ {0}
            /\ Len(r.url) \in Nat \ {0} /\ Len(r.body) \in Nat /\ Len(r.url) + 2 < L
            /\ Len(RequestBytes(r)) = HeadEndOf(r) + Len(r.body)
            /\ r.url \in Seq(Letters) /\ r.body \in Seq(Letters)
<1> DEFINE K == Len(r.headers)
           L == LineEnd(r)
           E == HeadEndOf(r)
           Z == HeadersTo(r, K)
           U == UrlEnd(r)
           u == Len(r.url)
           z == Len(r.body)
           b == Len(RequestBytes(r))
<1>1. K \in Nat /\ u \in Nat \ {0} /\ z \in Nat /\ ProtocolSize \in Nat \ {0} /\ L \in Nat /\ U \in Nat
  BY RequestIs
<1>2. U = 2 + u /\ L = U + ProtocolSize + 2 /\ E = L + Z + 1
  BY DEF UrlEnd, LineEnd, HeadEndOf
<1>3. Z \in Nat
  <2>1. K \in 0..K
    BY <1>1
  <2> QED BY <2>1, HeadersLie
<1>4. b = L + Z + 1 + z
  BY RequestLies
<1>5. r.url \in Seq(Letters) /\ r.body \in Seq(Letters)
  BY RequestIs
<1> HIDE DEF K, L, E, Z, U, u, z, b
<1>6. E \in Nat /\ u + 2 < L /\ b = E + z
  BY <1>1, <1>2, <1>3, <1>4
<1> QED BY <1>1, <1>2, <1>3, <1>5, <1>6 DEF K, L, E, Z, U, u, z, b

(* A new request is what there is of a request before its first byte. *)
LEMMA ReadToStart ==
  ASSUME NEW r \in Requests
  PROVE  ReadTo(NewRequest, r, 0)
<1> DEFINE K == Len(r.headers)
           L == LineEnd(r)
<1>1. K \in Nat /\ L \in Nat /\ HeadEndOf(r) \in Nat /\ HeadersTo(r, 0) = 0
  BY RequestIs, HeadersLie DEF HeadEndOf
<1>2. NewRequest \in RequestSoFar
  BY EmptySeq DEF NewRequest, RequestSoFar
<1>3. Told(r.url, 0 - 2) = <<>>
  BY RequestIs, ToldIs
<1>4. Told(r.body, 0 - HeadEndOf(r)) = <<>>
  BY <1>1, RequestIs, ToldIs
<1>5. HeadersReadTo(<<>>, 0, r, 0 - L, 0)
  BY <1>1, EmptySeq DEF HeadersReadTo
<1> QED BY <1>1, <1>2, <1>3, <1>4, <1>5 DEF ReadTo, NewRequest

(* After the last byte it is what the client asked. *)
LEMMA ReadToEnd ==
  ASSUME NEW r \in Requests, NEW req, ReadTo(req, r, Len(RequestBytes(r)))
  PROVE  req.url = r.url /\ req.headers = r.headers /\ req.body = r.body
<1> DEFINE K == Len(r.headers)
           L == LineEnd(r)
           E == HeadEndOf(r)
           q == Len(RequestBytes(r))
<1>1. K \in Nat /\ L \in Nat /\ E \in Nat /\ E = L + HeadersTo(r, K) + 1 /\ HeadersTo(r, K) \in Nat
  BY RequestIs, HeadersLie DEF HeadEndOf
<1>2. q = E + Len(r.body) /\ Len(r.body) \in Nat /\ L = Len(r.url) + 2 + ProtocolSize + 2
      /\ Len(r.url) \in Nat /\ ProtocolSize \in Nat
  BY RequestLies, RequestIs DEF HeadEndOf, LineEnd, UrlEnd
<1> DEFINE u == Len(r.url)
           y == Len(r.body)
           Z == HeadersTo(r, K)
<1>0. /\ q \in Nat /\ L \in Nat /\ E \in Nat /\ K \in Nat /\ u \in Nat /\ y \in Nat /\ Z \in Nat
      /\ q - 2 >= u /\ q - E >= y /\ Z < q - L /\ q - L \in Int
  <2> HIDE DEF K, L, E, q, u, y, Z
  <2>1. E \in Nat /\ L \in Nat /\ Z \in Nat /\ K \in Nat /\ E = L + Z + 1
    BY <1>1 DEF Z
  <2>2. q = E + y /\ y \in Nat /\ L = u + 2 + ProtocolSize + 2 /\ u \in Nat /\ ProtocolSize \in Nat
    BY <1>2 DEF y, u
  <2> QED BY <2>1, <2>2
<1> HIDE DEF K, L, E, q, Z
<1>3. req.url = r.url
  <2>1. q - 2 \in Int /\ q - 2 >= Len(r.url)
    BY <1>0
  <2> QED BY <2>1, RequestIs, ToldIs DEF ReadTo, q
<1>4. req.body = r.body
  <2>1. q - E \in Int /\ q - E >= Len(r.body)
    BY <1>0
  <2> QED BY <2>1, RequestIs, ToldIs DEF ReadTo, q, E
<1>5. PICK m \in 0..K : HeadersReadTo(req.headers, req.index, r, q - L, m)
  BY DEF ReadTo, K, L, q
<1>6. \A j \in 0..K : HeadersTo(r, j) < q - L /\ HeadersTo(r, j) \in Nat
  <2> TAKE j \in 0..K
  <2>1. K \in 0..K /\ j <= K
    BY <1>1
  <2>2. HeadersTo(r, j) <= HeadersTo(r, K) /\ HeadersTo(r, j) \in Nat
    BY <2>1, HeadersLie DEF K
  <2> DEFINE h == HeadersTo(r, j)
  <2>3. h \in Nat /\ h <= Z
    BY <2>2 DEF Z
  <2> HIDE DEF h
  <2>4. h < q - L
    BY <2>3, <1>0
  <2> QED BY <2>3, <2>4 DEF h
<1>7. m = K
  <2>1. m \in Nat /\ m <= K
    BY <1>1, <1>5
  <2>2. ~(m < K)
    <3> SUFFICES ASSUME m < K PROVE FALSE
      OBVIOUS
    <3>1. q - L <= HeadersTo(r, m)
      BY <1>5 DEF HeadersReadTo, K
    <3> DEFINE h == HeadersTo(r, m)
    <3>2. h \in Nat /\ h < q - L /\ q - L <= h
      BY <3>1, <1>6, <1>5
    <3> HIDE DEF h
    <3> QED BY <3>2, <1>0
  <2> QED BY <2>1, <2>2, <1>1
<1>8. Len(req.headers) = K /\ \A j \in 1..K : req.headers[j] = Told(r.headers[j], q - L - HeadersTo(r, j - 1))
  BY <1>5, <1>7 DEF HeadersReadTo
<1>9. \A j \in 1..K : req.headers[j] = r.headers[j]
  <2> TAKE j \in 1..K
  <2>1. j \in 0..K /\ j - 1 \in 0..K
    BY <1>1
  <2>2. HeadersTo(r, j) = HeadersTo(r, j - 1) + Len(r.headers[j]) + 1
    BY HeadersLie DEF K
  <2>3. r.headers[j] \in Seq(Letters) /\ Len(r.headers[j]) \in Nat
    BY HeaderTextIs DEF K
  <2>4. q - L - HeadersTo(r, j - 1) \in Int /\ q - L - HeadersTo(r, j - 1) >= Len(r.headers[j])
    <3> DEFINE h == HeadersTo(r, j)
               g == HeadersTo(r, j - 1)
               l == Len(r.headers[j])
    <3>1. h \in Nat /\ g \in Nat /\ l \in Nat /\ h = g + l + 1 /\ h < q - L
      BY <2>1, <2>2, <2>3, <1>6
    <3> HIDE DEF h, g, l
    <3>2. q - L - g \in Int /\ q - L - g >= l
      BY <3>1, <1>0
    <3> QED BY <3>2 DEF g, l
  <2> QED BY <2>3, <2>4, <1>8, ToldIs
<1>10. req.headers \in Seq(Seq(Letters)) /\ r.headers \in Seq(Seq(Letters))
  BY RequestIs DEF ReadTo, RequestSoFar
<1>11. req.headers = r.headers
  BY <1>8, <1>9, <1>10, SeqEqual DEF K
<1> QED BY <1>3, <1>4, <1>11

(* The parts llhttp calls back for, besides the end of a url. *)
TextParts == {"url", "name", "value", "nothing", "body"}

(* Each name or value, with what ends it, has a byte or more. *)
LEMMA HeadersGrow ==
  ASSUME NEW r \in Requests, NEW j \in 0..Len(r.headers), NEW k \in 0..Len(r.headers), j < k
  PROVE  HeadersTo(r, j) < HeadersTo(r, k)
<1> DEFINE K == Len(r.headers)
<1>1. K \in Nat
  BY RequestIs
<1>2. k \in 1..K /\ k - 1 \in 0..K /\ j <= k - 1 /\ k \in 0..K
  BY <1>1
<1>3. HeadersTo(r, j) <= HeadersTo(r, k - 1) /\ HeadersTo(r, j) \in Nat /\ HeadersTo(r, k - 1) \in Nat
  BY <1>2, HeadersLie
<1>4. HeadersTo(r, k) = HeadersTo(r, k - 1) + Len(r.headers[k]) + 1 /\ Len(r.headers[k]) \in Nat
  BY <1>2, HeadersLie, HeaderTextIs
<1> DEFINE a == HeadersTo(r, j)
           b == HeadersTo(r, k - 1)
           c == HeadersTo(r, k)
           d == Len(r.headers[k])
<1>5. a \in Nat /\ b \in Nat /\ d \in Nat /\ a <= b /\ c = b + d + 1
  BY <1>3, <1>4
<1> HIDE DEF a, b, c, d
<1>6. a < c
  BY <1>5
<1> QED BY <1>6 DEF a, c

(* The bytes of one name or value, and the byte behind them. *)
LEMMA HeaderByte ==
  ASSUME NEW r \in Requests, NEW k \in 1..Len(r.headers)
  PROVE  LET B == RequestBytes(r)
             at == LineEnd(r) + HeadersTo(r, k - 1)
             text == r.headers[k]
         IN /\ \A x \in 1..Len(text) : B[at + x] = [part |-> WordPart(k), char |-> text[x]]
            /\ B[at + Len(text) + 1].part =
                 IF k % 2 = 1 THEN "colon" ELSE IF Len(text) = 0 THEN "nothing" ELSE "line"
            /\ B[at + 1].part \in {"name", "value", "nothing"}
            /\ at \in Nat /\ Len(text) \in Nat
            /\ at + Len(text) + 1 = LineEnd(r) + HeadersTo(r, k)
            /\ at + Len(text) + 1 < HeadEndOf(r)
<1> DEFINE B == RequestBytes(r)
           g == HeadersTo(r, k - 1)
           h == HeadersTo(r, k)
           text == r.headers[k]
           n == Len(text)
           L == LineEnd(r)
           K == Len(r.headers)
           Z == HeadersTo(r, K)
           part == HeaderPart(k, text)
<1>1. /\ k \in Nat /\ text \in Seq(Letters) /\ n \in Nat
      /\ k % 2 = 1 => n # 0
  BY HeaderTextIs
<1>2. /\ \A x \in 1..n : part[x] = [part |-> WordPart(k), char |-> text[x]]
      /\ part[n + 1].part = IF k % 2 = 1 THEN "colon" ELSE IF n = 0 THEN "nothing" ELSE "line"
  BY <1>1, HeaderPartIs
<1>3. \A x \in 1..n + 1 : B[L + g + x] = part[x]
  BY RequestLies
<1>4. K \in Nat /\ L \in Nat
  BY RequestIs
<1>5. g \in Nat /\ h \in Nat /\ Z \in Nat /\ h = g + n + 1 /\ h <= Z
  <2>1. k - 1 \in 0..K /\ k \in 0..K /\ K \in 0..K /\ k <= K
    BY <1>4
  <2> QED BY <2>1, HeadersLie
<1>6. HeadEndOf(r) = L + Z + 1
  BY DEF HeadEndOf
<1>7. (k % 2 = 1) \in BOOLEAN /\ WordPart(k) \in {"name", "value"}
  BY DEF WordPart
<1> HIDE DEF B, g, h, text, n, L, K, Z, part
<1>8. n + 1 \in 1..n + 1 /\ L + g + (n + 1) = L + g + n + 1
  BY <1>1, <1>4, <1>5
<1>9. B[L + g + 1].part \in {"name", "value", "nothing"}
  <2>1. B[L + g + 1] = part[1]
    BY <1>1, <1>3
  <2>2. CASE n = 0
    BY <2>1, <2>2, <1>1, <1>2
  <2>3. CASE n # 0
    <3>1. part[1] = [part |-> WordPart(k), char |-> text[1]]
      BY <2>3, <1>1, <1>2
    <3> QED BY <2>1, <3>1, <1>7
  <2> QED BY <2>2, <2>3
<1>10. \A x \in 1..n : B[L + g + x] = [part |-> WordPart(k), char |-> text[x]]
  <2>1. \A x \in 1..n : x \in 1..n + 1
    BY <1>1
  <2> QED BY <2>1, <1>2, <1>3
<1>11. B[L + g + n + 1].part = IF k % 2 = 1 THEN "colon" ELSE IF n = 0 THEN "nothing" ELSE "line"
  <2>1. B[L + g + (n + 1)] = part[n + 1]
    BY <1>3, <1>8
  <2> QED BY <2>1, <1>2, <1>8
<1>12. /\ L + g \in Nat /\ n \in Nat /\ L + g + n + 1 = L + h /\ L + g + n + 1 < L + Z + 1
  BY <1>1, <1>4, <1>5
<1> QED BY <1>6, <1>9, <1>10, <1>11, <1>12 DEF B, g, h, text, n, L, K, Z

(* Nothing becomes of the strings while no name or value goes on. *)
LEMMA HeadersStay ==
  ASSUME NEW r \in Requests, NEW headers, NEW index, NEW m \in 0..Len(r.headers),
         NEW n \in Int, NEW o \in Int, n <= o,
         HeadersReadTo(headers, index, r, n, m),
         m < Len(r.headers) => o <= HeadersTo(r, m),
         \A j \in 1..m : Told(r.headers[j], n - HeadersTo(r, j - 1)) = Told(r.headers[j], o - HeadersTo(r, j - 1))
  PROVE  HeadersReadTo(headers, index, r, o, m)
<1>1. Len(r.headers) \in Nat
  BY RequestIs
<1>2. ASSUME m > 0 PROVE HeadersTo(r, m - 1) < o
  <2>1. m - 1 \in 0..Len(r.headers)
    BY <1>1, <1>2
  <2>2. HeadersTo(r, m - 1) \in Nat /\ HeadersTo(r, m - 1) < n
    BY <2>1, <1>2, HeadersLie DEF HeadersReadTo
  <2> QED BY <2>2
<1> QED BY <1>2 DEF HeadersReadTo

(* A byte that is of no text changes nothing. *)
LEMMA ReadToSame ==
  ASSUME NEW r \in Requests, NEW req, NEW a \in Nat \ {0}, NEW e \in Nat,
         a <= e, e <= Len(RequestBytes(r)), ReadTo(req, r, a - 1),
         \A y \in a..e : RequestBytes(r)[y].part \notin TextParts
  PROVE  ReadTo(req, r, e)
<1> DEFINE B == RequestBytes(r)
           K == Len(r.headers)
           L == LineEnd(r)
           E == HeadEndOf(r)
           u == Len(r.url)
           z == Len(r.body)
<1>1. /\ u \in Nat \ {0} /\ z \in Nat /\ K \in Nat /\ L \in Nat /\ E \in Nat /\ Len(B) = E + z
      /\ r.url \in Seq(Letters) /\ r.body \in Seq(Letters)
  BY SizesAre
<1>2. /\ \A x \in 1..u : B[2 + x].part = "url"
      /\ \A x \in 1..z : B[E + x].part = "body"
  <2>1. \A x \in 1..u : B[2 + x] = [part |-> "url", char |-> r.url[x]]
    BY RequestLies
  <2>2. \A x \in 1..z : B[E + x] = [part |-> "body", char |-> r.body[x]]
    BY RequestLies DEF HeadEndOf
  <2> HIDE DEF B, E
  <2>3. \A x \in 1..u : B[2 + x].part = "url"
    <3> TAKE x \in 1..u
    <3>1. B[2 + x] = [part |-> "url", char |-> r.url[x]]
      BY <2>1
    <3> QED BY <3>1
  <2>4. \A x \in 1..z : B[E + x].part = "body"
    <3> TAKE x \in 1..z
    <3>1. B[E + x] = [part |-> "body", char |-> r.body[x]]
      BY <2>2
    <3> QED BY <3>1
  <2> QED BY <2>3, <2>4
<1>3. \A y \in a..e : B[y].part \notin {"url", "name", "value", "nothing", "body"}
  BY DEF TextParts
<1>4. req \in RequestSoFar /\ req.url = Told(r.url, a - 1 - 2) /\ req.body = Told(r.body, a - 1 - E)
  BY DEF ReadTo
<1>5. PICK m \in 0..K : HeadersReadTo(req.headers, req.index, r, a - 1 - L, m)
  BY DEF ReadTo
<1>6. e <= E + z
  BY <1>1
<1> HIDE DEF B, K, L, E, u, z
<1>7. Told(r.url, a - 1 - 2) = Told(r.url, e - 2)
  <2>1. CASE a - 3 >= u
    <3>1. a - 1 - 2 \in Int /\ e - 2 \in Int /\ a - 1 - 2 >= u /\ e - 2 >= u
      BY <2>1, <1>1
    <3>2. Told(r.url, a - 1 - 2) = r.url /\ Told(r.url, e - 2) = r.url
      BY <3>1, <1>1, ToldIs DEF u
    <3> QED BY <3>2
  <2>2. CASE a - 3 < u
    <3>1. ~(a >= 3)
      <4> SUFFICES ASSUME a >= 3 PROVE FALSE
        OBVIOUS
      <4>1. a - 2 \in 1..u /\ 2 + (a - 2) = a /\ a \in a..e
        BY <2>2, <1>1
      <4> QED BY <4>1, <1>2, <1>3
    <3>2. ~(e >= 3)
      <4> SUFFICES ASSUME e >= 3 PROVE FALSE
        OBVIOUS
      <4>1. 1 \in 1..u /\ 2 + 1 \in a..e
        BY <3>1, <1>1
      <4> QED BY <4>1, <1>2, <1>3
    <3>3. a - 1 - 2 \in Int /\ e - 2 \in Int /\ a - 1 - 2 <= 0 /\ e - 2 <= 0
      BY <3>1, <3>2
    <3>4. Told(r.url, a - 1 - 2) = <<>> /\ Told(r.url, e - 2) = <<>>
      BY <3>3, <1>1, ToldIs
    <3> QED BY <3>4
  <2> QED BY <2>1, <2>2, <1>1
<1>8. Told(r.body, a - 1 - E) = Told(r.body, e - E)
  <2>1. ~(e > E)
    <3> SUFFICES ASSUME e > E PROVE FALSE
      OBVIOUS
    <3>1. e - E \in 1..z /\ E + (e - E) = e /\ e \in a..e
      BY <1>1, <1>6
    <3> QED BY <3>1, <1>2, <1>3
  <2>2. a - 1 - E \in Int /\ e - E \in Int /\ a - 1 - E <= 0 /\ e - E <= 0
    BY <2>1, <1>1
  <2>3. Told(r.body, a - 1 - E) = <<>> /\ Told(r.body, e - E) = <<>>
    BY <2>2, <1>1, ToldIs
  <2> QED BY <2>3
<1> DEFINE n == a - 1 - L
           o == e - L
<1>9. n \in Int /\ o \in Int /\ n <= o
  BY <1>1
<1>10. m \in Nat /\ m \in 0..K
  BY <1>1
<1>11. ASSUME m < K PROVE o <= HeadersTo(r, m)
  <2> DEFINE h == HeadersTo(r, m)
             k == m + 1
  <2>1. k \in 1..K /\ k - 1 = m
    BY <1>1, <1>10, <1>11
  <2>2. B[L + HeadersTo(r, k - 1) + 1].part \in {"name", "value", "nothing"}
    BY <2>1, HeaderByte DEF B, K, L
  <2>3. n <= h /\ h \in Nat
    BY <1>5, <1>11, HeadersLie DEF HeadersReadTo, K
  <2> SUFFICES ASSUME ~(o <= h) PROVE FALSE
    OBVIOUS
  <2> HIDE DEF h
  <2>4. L + h + 1 \in a..e
    BY <2>3, <1>1
  <2>5. B[L + h + 1].part \in {"name", "value", "nothing"}
    BY <2>1, <2>2 DEF h
  <2> QED BY <2>4, <2>5, <1>3
<1>12. ASSUME NEW j \in 1..m
       PROVE  Told(r.headers[j], n - HeadersTo(r, j - 1)) = Told(r.headers[j], o - HeadersTo(r, j - 1))
  <2> DEFINE g == HeadersTo(r, j - 1)
             f == HeadersTo(r, m - 1)
             l == Len(r.headers[j])
  <2>1. j \in 1..K /\ m > 0 /\ j - 1 \in 0..K /\ m - 1 \in 0..K /\ j - 1 <= m - 1
    BY <1>1, <1>10
  <2>2. g \in Nat /\ f \in Nat /\ g <= f /\ f < n
    <3>1. f < n
      BY <1>5, <2>1 DEF HeadersReadTo
    <3> QED BY <3>1, <2>1, HeadersLie DEF K
  <2>3. r.headers[j] \in Seq(Letters) /\ l \in Nat /\ \A x \in 1..l : B[L + g + x].part = WordPart(j)
    <3>1. r.headers[j] \in Seq(Letters) /\ l \in Nat
      BY <2>1, HeaderTextIs DEF K
    <3>2. \A x \in 1..l : B[L + g + x] = [part |-> WordPart(j), char |-> r.headers[j][x]]
      BY <2>1, HeaderByte DEF K, B, L
    <3> HIDE DEF l, g
    <3>3. \A x \in 1..l : B[L + g + x].part = WordPart(j)
      <4> TAKE x \in 1..l
      <4>1. B[L + g + x] = [part |-> WordPart(j), char |-> r.headers[j][x]]
        BY <3>2
      <4> QED BY <4>1
    <3> QED BY <3>1, <3>3
  <2>4. WordPart(j) \in {"name", "value"}
    BY DEF WordPart
  <2> HIDE DEF g, f, l
  <2>5. n - g >= l
    <3> SUFFICES ASSUME ~(n - g >= l) PROVE FALSE
      OBVIOUS
    <3>1. (n - g) + 1 \in 1..l /\ L + g + ((n - g) + 1) = a /\ a \in a..e
      BY <2>2, <2>3, <1>1
    <3> QED BY <3>1, <2>3, <2>4, <1>3
  <2>6. n - g \in Int /\ o - g \in Int /\ o - g >= l
    BY <2>2, <2>3, <2>5, <1>9, <1>1
  <2>7. Told(r.headers[j], n - g) = r.headers[j] /\ Told(r.headers[j], o - g) = r.headers[j]
    BY <2>3, <2>5, <2>6, ToldIs DEF l
  <2> QED BY <2>7 DEF g
<1>13. HeadersReadTo(req.headers, req.index, r, o, m)
  <2> HIDE DEF n, o
  <2>1. HeadersReadTo(req.headers, req.index, r, n, m)
    BY <1>5 DEF n
  <2> QED BY <2>1, <1>9, <1>10, <1>11, <1>12, HeadersStay DEF K
<1> QED BY <1>4, <1>7, <1>8, <1>13 DEF ReadTo, K, L, E

(* A piece of the url brings the request to the end of the piece. *)
LEMMA UrlStep ==
  ASSUME NEW r \in Requests, NEW req, NEW x \in 1..Len(r.url), NEW y \in x..Len(r.url),
         ReadTo(req, r, 1 + x), NEW protocol \in Seq(Letters)
  PROVE  ReadTo([req EXCEPT !.url = @ \o SubSeq(r.url, x, y), !.protocol = protocol], r, 2 + y)
<1> DEFINE K == Len(r.headers)
           L == LineEnd(r)
           E == HeadEndOf(r)
           u == Len(r.url)
           new == [req EXCEPT !.url = @ \o SubSeq(r.url, x, y), !.protocol = protocol]
<1>0. /\ K \in Nat /\ L \in Nat /\ E \in Nat /\ u \in Nat /\ u + 2 < L /\ L < E /\ HeadersTo(r, 0) = 0
      /\ r.url \in Seq(Letters) /\ r.body \in Seq(Letters)
  <2>1. 0 \in 0..K
    BY SizesAre
  <2>2. HeadersTo(r, 0) = 0
    BY <2>1, HeadersLie
  <2>3. L < E
    BY SizesAre
  <2> QED BY <2>2, <2>3, SizesAre
<1>1. /\ req \in RequestSoFar /\ req.url = Told(r.url, (1 + x) - 2) /\ req.body = Told(r.body, (1 + x) - E)
  BY DEF ReadTo
<1>2. PICK m \in 0..K : HeadersReadTo(req.headers, req.index, r, (1 + x) - L, m)
  BY DEF ReadTo
<1>3. x \in Nat \ {0} /\ y \in Nat /\ x <= y /\ y <= u
  BY <1>0
<1>4. req.url \o SubSeq(r.url, x, y) = Told(r.url, (2 + y) - 2)
  <2>1. /\ x - 1 \in Nat /\ (1 + x) - 2 = x - 1 /\ (x - 1) + 1 = x /\ (2 + y) - 2 = y /\ x - 1 <= y /\ y <= Len(r.url)
    BY <1>3
  <2>2. Told(r.url, x - 1) \o SubSeq(r.url, (x - 1) + 1, y) = Told(r.url, y)
    <3>1. x - 1 \in Nat /\ y \in Nat
      BY <2>1, <1>3
    <3> QED BY <3>1, <2>1, <1>0, ToldMore
  <2> QED BY <2>1, <2>2, <1>1
<1>5. Told(r.url, (2 + y) - 2) \in Seq(Letters)
  <2>1. (2 + y) - 2 \in Int
    BY <1>3
  <2> QED BY <2>1, <1>0, ToldIs
<1>6. Told(r.body, (1 + x) - E) = Told(r.body, (2 + y) - E)
  <2>1. (1 + x) - E \in Int /\ (2 + y) - E \in Int /\ (1 + x) - E <= 0 /\ (2 + y) - E <= 0
    <3>1. x \in Nat /\ y \in Nat /\ x <= y /\ y <= u /\ u + 2 < L /\ L < E /\ u \in Nat /\ L \in Nat /\ E \in Nat
      BY <1>0, <1>3
    <3> HIDE DEF E, L, u
    <3> QED BY <3>1
  <2>2. Told(r.body, (1 + x) - E) = <<>> /\ Told(r.body, (2 + y) - E) = <<>>
    BY <2>1, <1>0, ToldIs
  <2> QED BY <2>2
<1>7. /\ new \in RequestSoFar /\ new.url = req.url \o SubSeq(r.url, x, y) /\ new.body = req.body
      /\ new.headers = req.headers /\ new.index = req.index
  BY <1>1, <1>4, <1>5 DEF RequestSoFar
<1>8. HeadersReadTo(req.headers, req.index, r, (2 + y) - L, m)
  <2> DEFINE n == (1 + x) - L
             o == (2 + y) - L
  <2>1. n \in Int /\ o \in Int /\ n <= o /\ n <= 0 /\ o <= 0
    <3>1. x \in Nat /\ y \in Nat /\ x <= y /\ y <= u /\ u + 2 < L /\ u \in Nat /\ L \in Nat
      BY <1>0, <1>3
    <3> HIDE DEF L, u
    <3> QED BY <3>1
  <2>2. m = 0
    <3> SUFFICES ASSUME m # 0 PROVE FALSE
      OBVIOUS
    <3>1. m > 0 /\ m - 1 \in 0..K
      BY <1>0
    <3>2. HeadersTo(r, m - 1) \in Nat /\ HeadersTo(r, m - 1) < n
      BY <3>1, <1>2, HeadersLie DEF HeadersReadTo
    <3> QED BY <3>2, <2>1
  <2>3. m < K => o <= HeadersTo(r, m)
    BY <2>1, <2>2, <1>0
  <2>4. \A j \in 1..m : Told(r.headers[j], n - HeadersTo(r, j - 1)) = Told(r.headers[j], o - HeadersTo(r, j - 1))
    BY <2>2
  <2> HIDE DEF n, o
  <2>5. HeadersReadTo(req.headers, req.index, r, n, m)
    BY <1>2 DEF n
  <2>6. HeadersReadTo(req.headers, req.index, r, o, m)
    BY <2>1, <2>3, <2>4, <2>5, <1>2, HeadersStay
  <2> QED BY <2>6 DEF o
<1> HIDE DEF new
<1>9. ReadTo(new, r, 2 + y)
  BY <1>1, <1>4, <1>6, <1>7, <1>8 DEF ReadTo
<1> QED BY <1>9 DEF new

(* So does a piece of the body. *)
LEMMA BodyStep ==
  ASSUME NEW r \in Requests, NEW req, NEW x \in 1..Len(r.body), NEW y \in x..Len(r.body),
         ReadTo(req, r, HeadEndOf(r) + x - 1)
  PROVE  ReadTo(OnBody(req, SubSeq(r.body, x, y)), r, HeadEndOf(r) + y)
<1> DEFINE K == Len(r.headers)
           L == LineEnd(r)
           E == HeadEndOf(r)
           Z == HeadersTo(r, K)
           u == Len(r.url)
           z == Len(r.body)
           new == OnBody(req, SubSeq(r.body, x, y))
<1>0. /\ K \in Nat /\ L \in Nat /\ E \in Nat /\ u \in Nat /\ u + 2 < L /\ E = L + Z + 1 /\ Z \in Nat /\ z \in Nat
      /\ r.url \in Seq(Letters) /\ r.body \in Seq(Letters)
  BY SizesAre
<1>1. /\ req \in RequestSoFar /\ req.url = Told(r.url, (E + x - 1) - 2) /\ req.body = Told(r.body, (E + x - 1) - E)
  BY DEF ReadTo
<1>2. PICK m \in 0..K : HeadersReadTo(req.headers, req.index, r, (E + x - 1) - L, m)
  BY DEF ReadTo
<1>3. x \in Nat \ {0} /\ y \in Nat /\ x <= y /\ y <= z
  BY <1>0
<1>4. req.body \o SubSeq(r.body, x, y) = Told(r.body, (E + y) - E)
  <2>1. /\ x - 1 \in Nat /\ (E + x - 1) - E = x - 1 /\ (x - 1) + 1 = x /\ (E + y) - E = y /\ x - 1 <= y /\ y <= Len(r.body)
    BY <1>0, <1>3
  <2>2. Told(r.body, x - 1) \o SubSeq(r.body, (x - 1) + 1, y) = Told(r.body, y)
    <3>1. x - 1 \in Nat /\ y \in Nat
      BY <2>1, <1>3
    <3> QED BY <3>1, <2>1, <1>0, ToldMore
  <2> QED BY <2>1, <2>2, <1>1
<1>5. Told(r.body, (E + y) - E) \in Seq(Letters)
  <2>1. (E + y) - E \in Int
    BY <1>0, <1>3
  <2> QED BY <2>1, <1>0, ToldIs
<1>6. Told(r.url, (E + x - 1) - 2) = Told(r.url, (E + y) - 2)
  <2>1. (E + x - 1) - 2 \in Int /\ (E + y) - 2 \in Int /\ (E + x - 1) - 2 >= u /\ (E + y) - 2 >= u
    <3> HIDE DEF E, u, L, z, Z, K
    <3> QED BY <1>0, <1>3
  <2>2. Told(r.url, (E + x - 1) - 2) = r.url /\ Told(r.url, (E + y) - 2) = r.url
    BY <2>1, <1>0, ToldIs
  <2> QED BY <2>2
<1>7. /\ new \in RequestSoFar /\ new.body = req.body \o SubSeq(r.body, x, y) /\ new.url = req.url
      /\ new.headers = req.headers /\ new.index = req.index
  BY <1>1, <1>4, <1>5 DEF RequestSoFar, OnBody
<1>8. HeadersReadTo(req.headers, req.index, r, (E + y) - L, m)
  <2> DEFINE n == (E + x - 1) - L
             o == (E + y) - L
  <2>1. n \in Int /\ o \in Int /\ n <= o /\ n > Z
    <3> HIDE DEF E, u, L, z, Z, K
    <3> QED BY <1>0, <1>3
  <2>2. m = K
    <3> SUFFICES ASSUME m # K PROVE FALSE
      OBVIOUS
    <3>1. m < K /\ m \in 0..K /\ K \in 0..K /\ m <= K
      BY <1>0
    <3>2. HeadersTo(r, m) <= Z /\ HeadersTo(r, m) \in Nat
      BY <3>1, HeadersLie
    <3>3. n <= HeadersTo(r, m)
      BY <3>1, <1>2 DEF HeadersReadTo
    <3> QED BY <3>2, <3>3, <2>1, <1>0
  <2>3. ASSUME NEW j \in 1..m
        PROVE  Told(r.headers[j], n - HeadersTo(r, j - 1)) = Told(r.headers[j], o - HeadersTo(r, j - 1))
    <3> DEFINE g == HeadersTo(r, j - 1)
               h == HeadersTo(r, j)
               l == Len(r.headers[j])
    <3>1. j \in 1..K /\ j \in 0..K /\ j - 1 \in 0..K /\ K \in 0..K /\ j <= K
      BY <2>2, <1>0
    <3>2. h <= Z /\ h \in Nat /\ g \in Nat /\ h = g + l + 1
      BY <3>1, HeadersLie
    <3>3. r.headers[j] \in Seq(Letters) /\ l \in Nat
      BY <3>1, HeaderTextIs
    <3> HIDE DEF g, h, l, n, o, Z
    <3>4. n - g \in Int /\ o - g \in Int /\ n - g >= l /\ o - g >= l
      BY <3>2, <3>3, <2>1, <1>0
    <3>5. Told(r.headers[j], n - g) = r.headers[j] /\ Told(r.headers[j], o - g) = r.headers[j]
      BY <3>3, <3>4, ToldIs DEF l
    <3> QED BY <3>5 DEF g
  <2> HIDE DEF n, o
  <2>4. m < K => o <= HeadersTo(r, m)
    BY <2>2, <1>0
  <2>5. HeadersReadTo(req.headers, req.index, r, n, m)
    BY <1>2 DEF n
  <2>6. HeadersReadTo(req.headers, req.index, r, o, m)
    BY <2>1, <2>3, <2>4, <2>5, <1>2, HeadersStay
  <2> QED BY <2>6 DEF o
<1> HIDE DEF new
<1>9. ReadTo(new, r, E + y)
  BY <1>1, <1>4, <1>6, <1>7, <1>8 DEF ReadTo
<1> QED BY <1>9 DEF new

(* Of two numbers that follow, one is even and one is odd. *)
LEMMA ParityTurns ==
  ASSUME NEW k \in Nat \ {0}
  PROVE  k % 2 \in {0, 1} /\ (k % 2 = 1 => (k - 1) % 2 = 0) /\ (k % 2 = 0 => (k - 1) % 2 = 1)
OBVIOUS

(* The number of a string before and after a piece of it: on_header_field for a name, on_header_value for
   a value. *)
IndexFor(k, index) == IF k % 2 = 1 THEN NameIndex(index) ELSE ValueIndex(index)

(* The last string grows, and the others stay. *)
LEMMA ExtendedIs ==
  ASSUME NEW headers \in Seq(Seq(Letters)), NEW k \in 1..Len(headers), NEW text \in Seq(Letters)
  PROVE  /\ Extended(headers, k - 1, text) \in Seq(Seq(Letters))
         /\ Len(Extended(headers, k - 1, text)) = Len(headers)
         /\ \A j \in 1..Len(headers) :
              Extended(headers, k - 1, text)[j] = IF j = k THEN headers[k] \o text ELSE headers[j]
<1> DEFINE n == Len(headers)
           S == Seq(Letters)
           e == headers[k] \o text
           t == [headers EXCEPT ![k] = e]
<1>1. n \in Nat /\ headers \in [1..n -> S] /\ k \in 1..n
  BY LenProperties
<1>2. headers[k] \in Seq(Letters)
  BY <1>1
<1>3. e \in S
  BY <1>2, ConcatProperties
<1>4. Extended(headers, k - 1, text) = t
  <2>1. k - 1 < n /\ (k - 1) + 1 = k
    BY <1>1
  <2> QED BY <2>1 DEF Extended
<1> HIDE DEF n, S, e
<1>5. t \in [1..n -> S] /\ \A j \in 1..n : t[j] = IF j = k THEN e ELSE headers[j]
  BY <1>1, <1>3
<1> HIDE DEF t
<1>6. t \in Seq(S)
  BY <1>1, <1>5, SeqDef
<1>7. DOMAIN t = 1..n /\ DOMAIN t = 1..Len(t) /\ Len(t) \in Nat
  BY <1>5, <1>6, LenProperties
<1>8. Len(t) = n
  BY <1>1, <1>7
<1> QED BY <1>4, <1>5, <1>6, <1>8 DEF n, S, e

(* A piece of a name or a value goes to the string it belongs to, whether it is its first piece or not:
   NameIndex and ValueIndex tell the one from the other, because names and values take turns and a name
   is never empty. *)
LEMMA HeaderStep ==
  ASSUME NEW r \in Requests, NEW headers \in Seq(Seq(Letters)), NEW index, NEW m \in 0..Len(r.headers),
         NEW k \in 1..Len(r.headers), NEW x \in 1..Len(r.headers[k]) + 1,
         NEW n \in Int, n = HeadersTo(r, k - 1) + x - 1, HeadersReadTo(headers, index, r, n, m),
         NEW o \in Int, n < o, o <= HeadersTo(r, k),
         NEW text \in Seq(Letters),
         Told(r.headers[k], x - 1) \o text = Told(r.headers[k], o - HeadersTo(r, k - 1))
  PROVE  LET i == IndexFor(k, index)
         IN /\ i \in Nat /\ Extended(headers, i, text) \in Seq(Seq(Letters))
            /\ HeadersReadTo(Extended(headers, i, text), i, r, o, k)
<1> DEFINE K == Len(r.headers)
           g == HeadersTo(r, k - 1)
           h == HeadersTo(r, k)
           l == Len(r.headers[k])
<1>0. /\ K \in Nat /\ k \in Nat \ {0} /\ k <= K /\ m \in Nat /\ m <= K /\ k \in 0..K /\ k - 1 \in 0..K /\ m \in 0..K
  <2>1. K \in Nat
    BY RequestIs
  <2> HIDE DEF K
  <2>2. k \in 1..K /\ m \in 0..K
    BY DEF K
  <2> QED BY <2>1, <2>2
<1>1. g \in Nat /\ h \in Nat /\ l \in Nat /\ h = g + l + 1 /\ x \in Nat \ {0} /\ x <= l + 1
      /\ r.headers[k] \in Seq(Letters)
  <2>1. g \in Nat /\ h \in Nat /\ h = g + l + 1
    BY <1>0, HeadersLie
  <2>2. l \in Nat /\ r.headers[k] \in Seq(Letters)
    BY HeaderTextIs
  <2> QED BY <2>1, <2>2
<1>2. m > 0 => m - 1 \in 0..K /\ HeadersTo(r, m - 1) < n /\ HeadersTo(r, m - 1) \in Nat
  <2> SUFFICES ASSUME m > 0 PROVE m - 1 \in 0..K /\ HeadersTo(r, m - 1) < n /\ HeadersTo(r, m - 1) \in Nat
    OBVIOUS
  <2>1. m - 1 \in 0..K
    BY <1>0
  <2> QED BY <2>1, HeadersLie DEF HeadersReadTo
<1>3. m < K => n <= HeadersTo(r, m) /\ HeadersTo(r, m) \in Nat
  BY <1>0, HeadersLie DEF HeadersReadTo
<1>4. n = g + x - 1 /\ n >= g /\ n < h
  <2>1. n = g + x - 1
    OBVIOUS
  <2>2. g \in Nat /\ h \in Nat /\ l \in Nat /\ h = g + l + 1 /\ x \in Nat \ {0} /\ x <= l + 1
    BY <1>1
  <2> HIDE DEF g, h, l
  <2>5. x - 1 >= 0 /\ x - 1 < l + 1 /\ x - 1 \in Nat
    BY <2>2
  <2>3. n >= g
    BY <2>1, <2>2, <2>5
  <2>4. n < h
    BY <2>1, <2>2, <2>5
  <2> QED BY <2>1, <2>3, <2>4
<1>5. m = IF x = 1 THEN k - 1 ELSE k
  <2>1. ~(m > k)
    <3> SUFFICES ASSUME m > k PROVE FALSE
      OBVIOUS
    <3>1. m > 0 /\ k <= m - 1
      BY <1>0
    <3>2. h <= HeadersTo(r, m - 1)
      BY <3>1, <1>0, <1>2, HeadersLie
    <3> DEFINE z == HeadersTo(r, m - 1)
    <3>3. h <= z /\ z < n /\ n < h /\ z \in Nat /\ h \in Nat
      BY <3>1, <3>2, <1>1, <1>2, <1>4
    <3> HIDE DEF z, h
    <3> QED BY <3>3
  <2>2. ~(m < k - 1)
    <3> SUFFICES ASSUME m < k - 1 PROVE FALSE
      OBVIOUS
    <3>1. m < K
      BY <1>0
    <3>2. HeadersTo(r, m) < g
      BY <1>0, HeadersGrow
    <3> QED BY <3>1, <3>2, <1>1, <1>3, <1>4
  <2>3. x = 1 => m # k
    <3> SUFFICES ASSUME x = 1, m = k PROVE FALSE
      OBVIOUS
    <3>1. g < n
      BY <1>0, <1>2
    <3> QED BY <3>1, <1>1, <1>4
  <2>4. x # 1 => m # k - 1
    <3> SUFFICES ASSUME x # 1, m = k - 1 PROVE FALSE
      OBVIOUS
    <3>1. n <= g
      BY <1>0, <1>3
    <3> QED BY <3>1, <1>1, <1>4
  <2> QED BY <2>1, <2>2, <2>3, <2>4, <1>0
<1>6. Len(headers) = m /\ index = IF m = 0 THEN 0 ELSE m - 1
  BY DEF HeadersReadTo
<1>7. IndexFor(k, index) = k - 1
  <2>1. CASE x = 1
    <3>1. index = IF k = 1 THEN 0 ELSE k - 2
      BY <2>1, <1>0, <1>5, <1>6
    <3>2. CASE k = 1
      BY <3>1, <3>2 DEF IndexFor, NameIndex, ValueIndex
    <3>3. CASE k # 1
      <4>1. index = k - 2 /\ k - 2 \in Nat /\ (k - 2) % 2 = k % 2 /\ k % 2 \in {0, 1} /\ (k - 2) + 1 = k - 1
        BY <3>1, <3>3, <1>0
      <4> QED BY <4>1 DEF IndexFor, NameIndex, ValueIndex
    <3> QED BY <3>2, <3>3
  <2>2. CASE x # 1
    <3>1. index = k - 1
      BY <2>2, <1>0, <1>5, <1>6
    <3>2. k % 2 \in {0, 1} /\ (k % 2 = 1 => (k - 1) % 2 = 0) /\ (k % 2 = 0 => (k - 1) % 2 = 1) /\ k - 1 \in Nat
      BY <1>0, ParityTurns
    <3> QED BY <3>1, <3>2 DEF IndexFor, NameIndex, ValueIndex
  <2> QED BY <2>1, <2>2
<1> DEFINE new == Extended(headers, k - 1, text)
<1>8. new \in Seq(Seq(Letters)) /\ Len(new) = k
      /\ (\A j \in 1..k - 1 : new[j] = headers[j])
      /\ new[k] = Told(r.headers[k], o - g)
  <2>1. CASE x = 1
    <3>1. new = Append(headers, text) /\ Len(headers) = k - 1
      BY <2>1, <1>0, <1>5, <1>6 DEF Extended
    <3>2. /\ Append(headers, text) \in Seq(Seq(Letters))
          /\ Len(Append(headers, text)) = Len(headers) + 1
          /\ \A j \in 1..Len(headers) : Append(headers, text)[j] = headers[j]
          /\ Append(headers, text)[Len(headers) + 1] = text
      BY AppendProperties
    <3>3. text = Told(r.headers[k], o - g)
      <4>1. Told(r.headers[k], x - 1) = <<>>
        <5>1. x - 1 \in Int /\ x - 1 <= 0
          BY <2>1
        <5> QED BY <5>1, <1>1, ToldIs
      <4>2. <<>> \o text = text
        BY ConcatEmptySeq
      <4> QED BY <4>1, <4>2
    <3> HIDE DEF new, g
    <3>4. (k - 1) + 1 = k /\ Len(headers) + 1 = k
      BY <3>1, <1>0
    <3> QED BY <3>1, <3>2, <3>3, <3>4
  <2>2. CASE x # 1
    <3>1. Len(headers) = k /\ k - 1 < Len(headers) /\ (k - 1) + 1 = k /\ k \in 1..Len(headers)
      BY <2>2, <1>0, <1>5, <1>6
    <3>5. /\ new \in Seq(Seq(Letters)) /\ Len(new) = Len(headers)
          /\ \A j \in 1..Len(headers) : new[j] = IF j = k THEN headers[k] \o text ELSE headers[j]
      BY <3>1, ExtendedIs
    <3>6. headers[k] = Told(r.headers[k], x - 1)
      <4>1. headers[k] = Told(r.headers[k], n - g)
        BY <2>2, <1>5, <1>0 DEF HeadersReadTo
      <4>2. n - g = x - 1
        BY <1>1, <1>4
      <4> QED BY <4>1, <4>2
    <3>7. headers[k] \o text = Told(r.headers[k], o - g)
      BY <3>6
    <3> HIDE DEF new, g
    <3> QED BY <3>1, <3>5, <3>7, <1>0
  <2> QED BY <2>1, <2>2
<1>9. ASSUME NEW j \in 1..k - 1
      PROVE  headers[j] = Told(r.headers[j], o - HeadersTo(r, j - 1))
  <2> DEFINE p == HeadersTo(r, j - 1)
             q == HeadersTo(r, j)
             c == Len(r.headers[j])
  <2>1. j \in 1..K /\ j - 1 \in 0..K /\ j \in 0..K /\ j <= k - 1 /\ j \in 1..m
    BY <1>0, <1>5
  <2>2. p \in Nat /\ q \in Nat /\ q = p + c + 1 /\ q <= g
    BY <2>1, <1>0, HeadersLie
  <2>3. r.headers[j] \in Seq(Letters) /\ c \in Nat
    BY <2>1, HeaderTextIs
  <2>4. headers[j] = Told(r.headers[j], n - p)
    BY <2>1 DEF HeadersReadTo
  <2> HIDE DEF p, q, c, g, h
  <2>5. n - p \in Int /\ o - p \in Int /\ n - p >= c /\ o - p >= c
    <3>1. n >= g /\ g \in Nat /\ n < o /\ n \in Int /\ o \in Int
      BY <1>1, <1>4
    <3>2. n - p \in Int /\ o - p \in Int
      BY <3>1, <2>2
    <3>3. n >= p + c + 1 /\ o >= p + c + 1
      BY <3>1, <2>2, <2>3
    <3>4. n \in Int /\ o \in Int /\ p \in Int /\ c \in Int
      BY <3>1, <2>2, <2>3
    <3> QED BY <3>2, <3>3, <3>4, SMTT(20)
  <2>6. Told(r.headers[j], n - p) = r.headers[j] /\ Told(r.headers[j], o - p) = r.headers[j]
    BY <2>3, <2>5, ToldIs DEF c
  <2> QED BY <2>4, <2>6 DEF p
<1>10. \A j \in 1..k : new[j] = Told(r.headers[j], o - HeadersTo(r, j - 1))
  <2> TAKE j \in 1..k
  <2>1. CASE j = k
    BY <2>1, <1>8
  <2>2. CASE j # k
    <3>1. j \in 1..k - 1
      BY <2>2, <1>0
    <3> HIDE DEF new
    <3> QED BY <3>1, <1>8, <1>9
  <2> QED BY <2>1, <2>2
<1>11. HeadersReadTo(new, k - 1, r, o, k)
  <2>1. g < o
    BY <1>1, <1>4
  <2> HIDE DEF new
  <2> QED BY <2>1, <1>0, <1>8, <1>10 DEF HeadersReadTo
<1>12. k - 1 \in Nat
  BY <1>0
<1> QED BY <1>7, <1>8, <1>11, <1>12

(* The bytes on_url copies as the protocol. *)
CopiedFrom(bytes, j) ==
  [i \in 1..ProtocolSize |-> IF j + i <= Len(bytes) THEN bytes[j + i].char ELSE "?"]

(* There are ProtocolSize of them, those that were not read among them. *)
LEMMA CopiedIs ==
  ASSUME NEW bytes \in Seq(MessageByte), NEW j \in Nat, ProtocolSize \in Nat
  PROVE  /\ CopiedFrom(bytes, j) \in Seq(Letters) /\ Len(CopiedFrom(bytes, j)) = ProtocolSize
         /\ \A i \in 1..ProtocolSize :
              CopiedFrom(bytes, j)[i] = IF j + i <= Len(bytes) THEN bytes[j + i].char ELSE "?"
<1> DEFINE t == CopiedFrom(bytes, j)
           v(i) == IF j + i <= Len(bytes) THEN bytes[j + i].char ELSE "?"
<1>1. Len(bytes) \in Nat /\ \A i \in 1..Len(bytes) : bytes[i] \in MessageByte
  BY LenProperties, ElementOfSeq
<1>2. \A i \in 1..ProtocolSize : v(i) \in Letters
  <2> TAKE i \in 1..ProtocolSize
  <2>1. CASE j + i <= Len(bytes)
    <3>1. j + i \in 1..Len(bytes)
      BY <2>1, <1>1
    <3>2. bytes[j + i].char \in Letters
      BY <3>1, <1>1 DEF MessageByte
    <3> QED BY <2>1, <3>2
  <2>2. CASE ~(j + i <= Len(bytes))
    BY <2>2 DEF Letters
  <2> QED BY <2>1, <2>2
<1>3. t = [i \in 1..ProtocolSize |-> v(i)]
  BY DEF CopiedFrom
<1> HIDE DEF v, t
<1>4. t \in [1..ProtocolSize -> Letters]
  BY <1>2, <1>3
<1>5. t \in Seq(Letters)
  BY <1>4, SeqDef
<1>6. DOMAIN t = 1..ProtocolSize /\ DOMAIN t = 1..Len(t) /\ Len(t) \in Nat
  BY <1>4, <1>5, LenProperties
<1>7. Len(t) = ProtocolSize
  BY <1>6
<1>8. \A i \in 1..ProtocolSize : t[i] = v(i)
  BY <1>3
<1> QED BY <1>5, <1>7, <1>8 DEF t, v

(* on_url with its copy named. *)
LEMMA OnUrlIs ==
  ASSUME NEW req, NEW bytes, NEW at, NEW text
  PROVE  OnUrl(req, bytes, at, text) =
           [req EXCEPT !.url = @ \o text, !.protocol = CopiedFrom(bytes, at + Len(text))]
BY DEF OnUrl, CopiedFrom

(* Where a byte of a request lies: outside all texts, or in the url, a name, a value or the body. *)
LEMMA WhereIs ==
  ASSUME NEW r \in Requests, NEW y \in 1..Len(RequestBytes(r))
  PROVE  LET B == RequestBytes(r)
             L == LineEnd(r)
             K == Len(r.headers)
         IN \/ B[y].part \notin TextParts /\ (B[y].part = "blank" => y = UrlEnd(r) + 1)
            \/ \E x \in 1..Len(r.url) : y = 2 + x
            \/ \E k \in 1..K : \E x \in 1..Len(r.headers[k]) : y = L + HeadersTo(r, k - 1) + x
            \/ \E k \in 1..K : k % 2 # 1 /\ Len(r.headers[k]) = 0 /\ y = L + HeadersTo(r, k - 1) + 1
            \/ \E x \in 1..Len(r.body) : y = HeadEndOf(r) + x
<1> DEFINE B == RequestBytes(r)
           L == LineEnd(r)
           K == Len(r.headers)
           Z == HeadersTo(r, K)
           U == UrlEnd(r)
           u == Len(r.url)
           s == ProtocolSize
           z == Len(r.body)
<1>1. /\ L \in Nat /\ K \in Nat /\ u \in Nat /\ s \in Nat /\ z \in Nat /\ U = 2 + u /\ L = U + s + 2
      /\ HeadEndOf(r) = L + Z + 1
  BY RequestIs DEF UrlEnd, LineEnd, HeadEndOf
<1>2. Z \in Nat
  <2>1. K \in 0..K
    BY <1>1
  <2> QED BY <2>1, HeadersLie
<1>3. Len(B) = L + Z + 1 + z
  BY RequestLies
<1>4. /\ \A i \in 1..2 : B[i].part = "method"
      /\ B[U + 1].part = "blank" /\ B[L].part = "line" /\ B[L + Z + 1].part = "line"
  BY RequestLies
<1>5. \A x \in 1..s : B[U + 1 + x].part = "protocol"
  <2> TAKE x \in 1..s
  <2>1. B[U + 1 + x] = [part |-> "protocol", char |-> r.protocol[x]]
    BY RequestLies
  <2> QED BY <2>1
<1> HIDE DEF B, L, K, Z, U, u, s, z
<1>6. y \in Nat /\ 1 <= y /\ y <= L + Z + 1 + z
  BY <1>1, <1>2, <1>3 DEF B
<1>7. CASE y <= L
  <2>1. CASE y \in 1..2
    BY <2>1, <1>4 DEF TextParts, B
  <2>2. CASE y > 2 /\ y <= 2 + u
    <3>1. y - 2 \in 1..u /\ y = 2 + (y - 2)
      BY <2>2, <1>1, <1>6
    <3> QED BY <3>1 DEF u
  <2>3. CASE y = U + 1 \/ y = L
    BY <2>3, <1>4 DEF TextParts, B, U
  <2>4. CASE y > U + 1 /\ y < L
    <3>1. y - U - 1 \in 1..s /\ y = U + 1 + (y - U - 1)
      BY <2>4, <1>1, <1>6
    <3>2. B[y].part = "protocol"
      BY <3>1, <1>5
    <3> QED BY <3>2 DEF TextParts, B
  <2>5. \/ y \in 1..2
        \/ y > 2 /\ y <= 2 + u
        \/ y = U + 1
        \/ y = L
        \/ y > U + 1 /\ y < L
    <3>1. y \in Nat /\ 1 <= y /\ y <= L /\ U = 2 + u /\ L = U + s + 2 /\ u \in Nat /\ s \in Nat
      BY <1>1, <1>6, <1>7
    <3> QED BY <3>1
  <2> QED BY <2>1, <2>2, <2>3, <2>4, <2>5
<1>8. CASE y > L /\ y <= L + Z
  <2>1. y - L \in 1..Z
    BY <1>8, <1>1, <1>2, <1>6
  <2>2. PICK k \in 1..K : \E x \in 1..Len(r.headers[k]) + 1 : y - L = HeadersTo(r, k - 1) + x
    BY <2>1, HeadersLie DEF Z, K
  <2>3. PICK x \in 1..Len(r.headers[k]) + 1 : y - L = HeadersTo(r, k - 1) + x
    BY <2>2
  <2> DEFINE g == HeadersTo(r, k - 1)
             l == Len(r.headers[k])
  <2>4. g \in Nat /\ l \in Nat
    <3>1. k - 1 \in 0..K
      BY <1>1
    <3> QED BY <3>1, HeadersLie, HeaderTextIs DEF K
  <2>5. y = L + g + x /\ x \in Nat /\ 1 <= x /\ x <= l + 1
    <3>1. y - L = g + x /\ y \in Nat /\ L \in Nat /\ g \in Nat /\ l \in Nat /\ x \in 1..l + 1
      BY <2>3, <2>4, <1>1, <1>6
    <3> HIDE DEF g, l
    <3>2. x \in Nat /\ 1 <= x /\ x <= l + 1
      BY <3>1
    <3>3. y = L + g + x
      BY <3>1, <3>2
    <3> QED BY <3>2, <3>3
  <2>6. CASE x <= l
    <3>1. x \in 1..l
      BY <2>4, <2>5, <2>6
    <3> QED BY <3>1, <2>5 DEF K, L
  <2>7. CASE x = l + 1
    <3>5. y = L + g + x /\ x = l + 1 /\ L \in Nat /\ g \in Nat /\ l \in Nat
      BY <2>4, <2>5, <2>7, <1>1
    <3>1. y = L + g + l + 1
      <4> HIDE DEF g, l
      <4> QED BY <3>5
    <3>2. B[y].part = IF k % 2 = 1 THEN "colon" ELSE IF l = 0 THEN "nothing" ELSE "line"
      BY <3>1, HeaderByte DEF B, L, K
    <3>3. CASE k % 2 # 1 /\ l = 0
      <4>1. y = L + g + 1
        BY <3>1, <3>3, <2>4, <1>1
      <4> QED BY <4>1, <3>3 DEF K, L
    <3>4. CASE ~(k % 2 # 1 /\ l = 0)
      <4>1. B[y].part \in {"colon", "line"}
        BY <3>2, <3>4
      <4> QED BY <4>1 DEF TextParts, B
    <3> QED BY <3>3, <3>4
  <2>8. x <= l \/ x = l + 1
    BY <2>4, <2>5
  <2> QED BY <2>6, <2>7, <2>8
<1>9. CASE y = L + Z + 1
  BY <1>9, <1>4 DEF TextParts, B
<1>10. CASE y > L + Z + 1
  <2>1. y - (L + Z + 1) \in 1..z /\ y = L + Z + 1 + (y - (L + Z + 1))
    BY <1>10, <1>1, <1>2, <1>6
  <2> QED BY <2>1, <1>1 DEF z
<1> QED BY <1>7, <1>8, <1>9, <1>10, <1>1, <1>2, <1>6

(* The piece is what a text has between two places. *)
Follows(piece, text, x, y) == Told(text, x) \o piece = Told(text, y)

(* A piece of a name or value brings the request to the end of the piece. *)
LEMMA HeaderReadTo ==
  ASSUME NEW r \in Requests, NEW req, NEW k \in 1..Len(r.headers), NEW x \in 1..Len(r.headers[k]) + 1,
         NEW a \in Nat \ {0}, NEW e \in Nat, a <= e,
         a = LineEnd(r) + HeadersTo(r, k - 1) + x, e <= LineEnd(r) + HeadersTo(r, k),
         ReadTo(req, r, a - 1),
         NEW text \in Seq(Letters),
         Follows(text, r.headers[k], x - 1, (e - LineEnd(r)) - HeadersTo(r, k - 1))
  PROVE  ReadTo([req EXCEPT !.index = IndexFor(k, @), !.headers = Extended(@, IndexFor(k, req.index), text)], r, e)
<1> DEFINE K == Len(r.headers)
           L == LineEnd(r)
           E == HeadEndOf(r)
           Z == HeadersTo(r, K)
           g == HeadersTo(r, k - 1)
           h == HeadersTo(r, k)
           l == Len(r.headers[k])
           u == Len(r.url)
           i == IndexFor(k, req.index)
           new == [req EXCEPT !.index = IndexFor(k, @), !.headers = Extended(@, IndexFor(k, req.index), text)]
<1>0. /\ K \in Nat /\ L \in Nat /\ E \in Nat /\ u \in Nat /\ u + 2 < L /\ E = L + Z + 1 /\ Z \in Nat
      /\ r.url \in Seq(Letters) /\ r.body \in Seq(Letters)
  BY SizesAre
<1>1. g \in Nat /\ h \in Nat /\ h <= Z /\ l \in Nat /\ r.headers[k] \in Seq(Letters)
  <2>1. k - 1 \in 0..K /\ k \in 0..K /\ K \in 0..K /\ k <= K
    <3>1. K \in Nat /\ k \in 1..K
      BY <1>0
    <3> HIDE DEF K
    <3> QED BY <3>1
  <2> QED BY <2>1, HeadersLie, HeaderTextIs
<1>2. /\ req \in RequestSoFar /\ req.url = Told(r.url, a - 1 - 2) /\ req.body = Told(r.body, a - 1 - E)
  BY DEF ReadTo
<1>3. PICK m \in 0..K : HeadersReadTo(req.headers, req.index, r, a - 1 - L, m)
  BY DEF ReadTo
<1>4. a \in Nat /\ e \in Nat /\ a <= e /\ a = L + g + x /\ e <= L + h /\ x \in Nat /\ 1 <= x /\ x <= l + 1
  BY <1>1
<1> DEFINE n == a - 1 - L
           o == e - L
<1>5. /\ n \in Int /\ n = g + x - 1 /\ o \in Int /\ n < o /\ o <= h
      /\ a - 1 - 2 \in Int /\ e - 2 \in Int /\ a - 1 - 2 >= u /\ e - 2 >= u
      /\ a - 1 - E \in Int /\ e - E \in Int /\ a - 1 - E <= 0 /\ e - E <= 0
  <2> HIDE DEF K, L, E, Z, g, h, l, u
  <2>1. /\ L \in Nat /\ E \in Nat /\ Z \in Nat /\ g \in Nat /\ h \in Nat /\ u \in Nat
        /\ u + 2 < L /\ E = L + Z + 1 /\ h <= Z
    BY <1>0, <1>1
  <2>2. a = L + g + x /\ e <= L + h /\ x \in Nat \ {0}
    BY <1>4
  <2>3. a \in Nat \ {0} /\ e \in Nat /\ a <= e
    OBVIOUS
  <2>4. n \in Int /\ n = g + x - 1 /\ o \in Int /\ n < o /\ o <= h
    <3>0. (L + g + x) - 1 - L = g + x - 1
      BY <2>1, <2>2
    <3>1. n = g + x - 1
      BY <3>0, <2>2
    <3>2. n \in Int /\ o \in Int
      BY <2>1, <2>3
    <3>3. n < o
      BY <2>1, <2>3
    <3>4. o <= h
      BY <2>1, <2>2, <2>3
    <3> QED BY <3>1, <3>2, <3>3, <3>4
  <2>5. a - 1 - 2 \in Int /\ e - 2 \in Int /\ a - 1 - 2 >= u /\ e - 2 >= u
    <3>1. a >= L + 1
      BY <2>1, <2>2
    <3>2. a >= u + 4 /\ e >= u + 4
      BY <3>1, <2>1, <2>3
    <3>3. L \in Nat /\ u \in Nat /\ a \in Nat /\ e \in Nat
      BY <2>1, <2>3
    <3>4. a - 1 - 2 = a - 3 /\ a - 3 >= u /\ e - 2 >= u
      BY <3>2, <3>3, SMTT(20)
    <3> QED BY <3>3, <3>4
  <2>6. a - 1 - E \in Int /\ e - E \in Int
    BY <2>1, <2>3
  <2>7. a - 1 - E <= 0
    BY <2>1, <2>2, <2>3
  <2>8. e - E <= 0
    BY <2>1, <2>2, <2>3
  <2> QED BY <2>4, <2>5, <2>6, <2>7, <2>8
<1>6. Told(r.url, a - 1 - 2) = Told(r.url, e - 2)
  <2>1. Told(r.url, a - 1 - 2) = r.url /\ Told(r.url, e - 2) = r.url
    BY <1>0, <1>5, ToldIs
  <2> QED BY <2>1
<1>7. Told(r.body, a - 1 - E) = Told(r.body, e - E)
  <2>1. Told(r.body, a - 1 - E) = <<>> /\ Told(r.body, e - E) = <<>>
    BY <1>0, <1>5, ToldIs
  <2> QED BY <2>1
<1>8. i \in Nat /\ Extended(req.headers, i, text) \in Seq(Seq(Letters))
      /\ HeadersReadTo(Extended(req.headers, i, text), i, r, o, k)
  <2>1. req.headers \in Seq(Seq(Letters))
    BY <1>2 DEF RequestSoFar
  <2>2. HeadersReadTo(req.headers, req.index, r, n, m)
    BY <1>3
  <2>3. Told(r.headers[k], x - 1) \o text = Told(r.headers[k], o - HeadersTo(r, k - 1))
    BY DEF Follows
  <2> HIDE DEF n, o
  <2> QED BY <2>1, <2>2, <2>3, <1>5, HeaderStep
<1>9. new \in RequestSoFar /\ new.url = req.url /\ new.body = req.body /\ new.index = i
      /\ new.headers = Extended(req.headers, i, text)
  <2> HIDE DEF i
  <2>1. new = [req EXCEPT !.index = i, !.headers = Extended(req.headers, i, text)]
    BY <1>2 DEF i, RequestSoFar
  <2> HIDE DEF new
  <2> QED BY <2>1, <1>2, <1>8 DEF RequestSoFar
<1> HIDE DEF new, i
<1>10. HeadersReadTo(new.headers, new.index, r, e - L, k)
  BY <1>8, <1>9
<1>11. ReadTo(new, r, e)
  BY <1>2, <1>6, <1>7, <1>9, <1>10 DEF ReadTo
<1> QED BY <1>11 DEF new

(* The bytes that are read lie in the request behind its first p. *)
CutFrom(r, seg, p) ==
  /\ seg \in Seq(MessageByte) /\ p \in Nat /\ p + Len(seg) <= Len(RequestBytes(r))
  /\ \A i \in 1..Len(seg) : seg[i] = RequestBytes(r)[p + i]

(* A piece of them, from s to f, lies in the request, and is of one part there. *)
PieceIn(B, seg, p, s, f) ==
  /\ f \in s..Len(seg) /\ f \in Nat /\ s \in Nat \ {0} /\ p \in Nat
  /\ p + s \in 1..Len(B) /\ p + f \in Nat /\ p + s <= p + f /\ p + f <= Len(B)
  /\ p + s \in Nat \ {0} /\ B[p + s] = seg[s]
  /\ \A y \in p + s..p + f : B[y].part = seg[s].part
  /\ \A k \in 0..f - s : seg[s + k] = B[p + s + k]

(* Each piece of what was read does. *)
LEMMA PieceLies ==
  ASSUME NEW r \in Requests, NEW seg, NEW p, CutFrom(r, seg, p), NEW s \in 1..Len(seg)
  PROVE  PieceIn(RequestBytes(r), seg, p, s, PieceEnd(seg, s))
<1> DEFINE B == RequestBytes(r)
           f == PieceEnd(seg, s)
           Q == Len(seg)
           M == Len(B)
<1>1. /\ seg \in Seq(MessageByte) /\ p \in Nat /\ p + Q <= M /\ \A i \in 1..Q : seg[i] = B[p + i]
  BY DEF CutFrom
<1>2. Q \in Nat /\ M \in Nat
  BY <1>1, LenProperties, RequestLies
<1>3. f \in s..Q /\ \A k \in s..f : seg[k].part = seg[s].part
  BY <1>1, PieceEndIs
<1> HIDE DEF B, f, Q, M
<1>4. s \in 1..Q
  BY DEF Q
<1>5. /\ f \in Nat /\ s \in Nat \ {0} /\ s <= f /\ f <= Q
  BY <1>2, <1>3, <1>4
<1>6. \A y \in p + s..p + f : B[y].part = seg[s].part
  <2> TAKE y \in p + s..p + f
  <2>1. y - p \in s..f /\ y - p \in 1..Q /\ p + (y - p) = y
    BY <1>1, <1>2, <1>5
  <2>2. seg[y - p] = B[y]
    BY <2>1, <1>1
  <2> QED BY <2>1, <2>2, <1>3
<1>7. \A k \in 0..f - s : seg[s + k] = B[p + s + k]
  <2> TAKE k \in 0..f - s
  <2>1. s + k \in 1..Q /\ p + (s + k) = p + s + k
    BY <1>1, <1>2, <1>5
  <2> QED BY <2>1, <1>1
<1>8. /\ p + s \in 1..M /\ p + f \in Nat /\ p + s <= p + f /\ p + f <= M /\ p + s \in Nat \ {0}
  BY <1>1, <1>2, <1>5
<1>9. B[p + s] = seg[s]
  BY <1>1, <1>4
<1> QED BY <1>1, <1>3, <1>5, <1>6, <1>7, <1>8, <1>9 DEF B, f, Q, M, PieceIn

(* The call for a piece of the url brings the request to the end of the piece. *)
LEMMA UrlCallback ==
  ASSUME NEW r \in Requests, NEW seg, NEW p, CutFrom(r, seg, p), NEW s \in 1..Len(seg), NEW req,
         ReadTo(req, r, (p + s) - 1), NEW x \in 1..Len(r.url), p + s = 2 + x
  PROVE  ReadTo(Callback(req, seg, s), r, p + PieceEnd(seg, s))
<1> DEFINE B == RequestBytes(r)
           f == PieceEnd(seg, s)
           u == Len(r.url)
           y == x + f - s
           text == Chars(SubSeq(seg, s, f))
           copied == CopiedFrom(seg, s + Len(text))
<1>1. /\ f \in s..Len(seg) /\ f \in Nat /\ s \in Nat \ {0} /\ p \in Nat /\ B[p + s] = seg[s]
      /\ p + s <= p + f
      /\ \A k \in p + s..p + f : B[k].part = seg[s].part
      /\ \A k \in 0..f - s : seg[s + k] = B[p + s + k]
  <2>1. PieceIn(B, seg, p, s, f)
    BY PieceLies
  <2> HIDE DEF B, f
  <2> QED BY <2>1 DEF PieceIn
<1>2. /\ \A k \in 1..u : B[2 + k] = [part |-> "url", char |-> r.url[k]]
      /\ B[UrlEnd(r) + 1].part = "blank"
  BY RequestLies
<1>3. u \in Nat /\ UrlEnd(r) = 2 + u /\ r.url \in Seq(Letters) /\ ProtocolSize \in Nat
  BY SizesAre
<1>4. seg \in Seq(MessageByte) /\ x \in Nat \ {0} /\ x <= u
  <2>1. seg \in Seq(MessageByte)
    BY DEF CutFrom
  <2>2. x \in 1..u
    OBVIOUS
  <2> HIDE DEF u
  <2>3. x \in Nat \ {0} /\ x <= u
    BY <2>2, <1>3
  <2> QED BY <2>1, <2>3
<1> HIDE DEF f, B, u
<1>5. seg[s].part = "url"
  <2>1. B[2 + x] = [part |-> "url", char |-> r.url[x]]
    BY <1>2 DEF u
  <2>2. seg[s] = [part |-> "url", char |-> r.url[x]]
    BY <2>1, <1>1
  <2> QED BY <2>2
<1>6. y \in x..u
  <2>1. ~(y > u)
    <3> SUFFICES ASSUME y > u PROVE FALSE
      OBVIOUS
    <3>1. UrlEnd(r) + 1 \in p + s..p + f
      BY <1>1, <1>3, <1>4
    <3> QED BY <3>1, <1>1, <1>2, <1>5
  <2>2. s \in Nat /\ f \in Nat /\ s <= f /\ x \in Nat /\ u \in Nat
    BY <1>1, <1>3, <1>4
  <2>3. y \in Int /\ x <= y /\ y <= u
    BY <2>1, <2>2
  <2> HIDE DEF y
  <2> QED BY <2>2, <2>3
<1>7. \A k \in 0..f - s : seg[s + k].char = r.url[x + k]
  <2> TAKE k \in 0..f - s
  <2>1. x + k \in 1..u /\ p + s + k = 2 + (x + k)
    BY <1>1, <1>3, <1>4, <1>6
  <2>2. B[2 + (x + k)] = [part |-> "url", char |-> r.url[x + k]]
    BY <2>1, <1>2
  <2>3. seg[s + k] = [part |-> "url", char |-> r.url[x + k]]
    BY <2>1, <2>2, <1>1
  <2> QED BY <2>3
<1>8. text = SubSeq(r.url, x, y)
  <2>1. x + f - s <= Len(r.url)
    BY <1>6, <1>3 DEF u
  <2> QED BY <2>1, <1>1, <1>3, <1>4, <1>7, PieceText
<1>9. copied \in Seq(Letters)
  <2>1. text \in Seq(Letters)
    <3>1. x \in Int /\ y \in Int /\ \A k \in x..y : r.url[k] \in Letters
      BY <1>3, <1>4, <1>6, ElementOfSeq DEF u
    <3>2. SubSeq(r.url, x, y) \in Seq(Letters)
      <4> HIDE DEF y
      <4> QED BY <3>1, SubSeqProperties
    <3> QED BY <3>2, <1>8
  <2>2. s + Len(text) \in Nat
    <3>1. Len(text) \in Nat
      BY <2>1, LenProperties
    <3> HIDE DEF text
    <3> QED BY <3>1, <1>1
  <2> HIDE DEF text
  <2> QED BY <2>2, <1>3, <1>4, CopiedIs
<1>10. Callback(req, seg, s) = [req EXCEPT !.url = @ \o text, !.protocol = copied]
  <2>1. Callback(req, seg, s) = OnUrl(req, seg, s, text)
    BY <1>5 DEF Callback, f
  <2> HIDE DEF text
  <2> QED BY <2>1, OnUrlIs
<1>11. p + f = 2 + y /\ (p + s) - 1 = 1 + x
  BY <1>1, <1>4
<1>12. x \in 1..Len(r.url) /\ y \in x..Len(r.url) /\ ReadTo(req, r, 1 + x)
  BY <1>6, <1>11 DEF u
<1> HIDE DEF y, text, copied
<1>13. ReadTo([req EXCEPT !.url = @ \o SubSeq(r.url, x, y), !.protocol = copied], r, 2 + y)
  BY <1>9, <1>12, UrlStep
<1> QED BY <1>8, <1>10, <1>11, <1>13 DEF f

(* So does the call for a piece of the body. *)
LEMMA BodyCallback ==
  ASSUME NEW r \in Requests, NEW seg, NEW p, CutFrom(r, seg, p), NEW s \in 1..Len(seg), NEW req,
         ReadTo(req, r, (p + s) - 1), NEW x \in 1..Len(r.body), p + s = HeadEndOf(r) + x
  PROVE  ReadTo(Callback(req, seg, s), r, p + PieceEnd(seg, s))
<1> DEFINE B == RequestBytes(r)
           f == PieceEnd(seg, s)
           z == Len(r.body)
           E == HeadEndOf(r)
           y == x + f - s
           text == Chars(SubSeq(seg, s, f))
<1>1. /\ f \in s..Len(seg) /\ f \in Nat /\ s \in Nat \ {0} /\ p \in Nat /\ B[p + s] = seg[s]
      /\ p + s <= p + f /\ p + f <= Len(B)
      /\ \A k \in 0..f - s : seg[s + k] = B[p + s + k]
  <2>1. PieceIn(B, seg, p, s, f)
    BY PieceLies
  <2> HIDE DEF B, f
  <2> QED BY <2>1 DEF PieceIn
<1>2. \A k \in 1..z : B[E + k] = [part |-> "body", char |-> r.body[k]]
  BY RequestLies DEF HeadEndOf
<1>3. z \in Nat /\ E \in Nat /\ Len(B) = E + z /\ r.body \in Seq(Letters)
  BY SizesAre
<1>4. seg \in Seq(MessageByte) /\ x \in Nat \ {0} /\ x <= z
  <2>1. seg \in Seq(MessageByte)
    BY DEF CutFrom
  <2>2. x \in 1..z
    OBVIOUS
  <2> HIDE DEF z
  <2>3. x \in Nat \ {0} /\ x <= z
    BY <2>2, <1>3
  <2> QED BY <2>1, <2>3
<1> HIDE DEF f, B, z, E
<1>5. seg[s].part = "body"
  <2>1. B[E + x] = [part |-> "body", char |-> r.body[x]]
    BY <1>2 DEF z
  <2>2. seg[s] = [part |-> "body", char |-> r.body[x]]
    BY <2>1, <1>1 DEF E
  <2> QED BY <2>2
<1>0. p + s = E + x
  BY DEF E
<1>6. y \in x..z
  <2>1. p + f <= E + z /\ p + s = E + x
    BY <1>0, <1>1, <1>3
  <2>2. s \in Nat /\ f \in Nat /\ s <= f /\ p \in Nat /\ E \in Nat /\ z \in Nat /\ x \in Nat
    BY <1>1, <1>3, <1>4
  <2>3. x + f - s <= z
    BY <2>1, <2>2
  <2>4. x <= x + f - s /\ x + f - s \in Int
    BY <2>2
  <2> QED BY <2>2, <2>3, <2>4
<1>7. \A k \in 0..f - s : seg[s + k].char = r.body[x + k]
  <2> TAKE k \in 0..f - s
  <2>1. x + k \in 1..z /\ p + s + k = E + (x + k)
    <3>1. /\ s \in Nat /\ f \in Nat /\ p \in Nat /\ E \in Nat /\ z \in Nat /\ x \in Nat /\ k \in Nat
          /\ x >= 1 /\ k <= f - s
      BY <1>1, <1>3, <1>4
    <3>2. x + (f - s) <= z
      BY <1>0, <1>1, <1>3, <3>1
    <3> QED BY <1>0, <3>1, <3>2
  <2>2. B[E + (x + k)] = [part |-> "body", char |-> r.body[x + k]]
    BY <2>1, <1>2
  <2>3. seg[s + k] = [part |-> "body", char |-> r.body[x + k]]
    BY <2>1, <2>2, <1>1
  <2> QED BY <2>3
<1>8. text = SubSeq(r.body, x, y)
  <2>1. x + f - s <= Len(r.body)
    BY <1>6, <1>3 DEF z
  <2> QED BY <2>1, <1>1, <1>3, <1>4, <1>7, PieceText
<1>10. Callback(req, seg, s) = OnBody(req, text)
  BY <1>5 DEF Callback, f
<1>11. p + f = E + y /\ (p + s) - 1 = E + x - 1
  BY <1>0, <1>1, <1>3, <1>4
<1>12. x \in 1..Len(r.body) /\ y \in x..Len(r.body) /\ ReadTo(req, r, E + x - 1)
  BY <1>6, <1>11 DEF z
<1> HIDE DEF y, text
<1>13. ReadTo(OnBody(req, SubSeq(r.body, x, y)), r, E + y)
  BY <1>12, BodyStep DEF E
<1> QED BY <1>8, <1>10, <1>11, <1>13 DEF f

(* on_header_field and on_header_value, by the number of the string. *)
LEMMA OnHeaderIs ==
  ASSUME NEW req, NEW text, NEW k \in Nat
  PROVE  LET new == [req EXCEPT !.index = IndexFor(k, @), !.headers = Extended(@, IndexFor(k, req.index), text)]
         IN /\ k % 2 = 1 => OnHeaderField(req, text) = new
            /\ k % 2 # 1 => OnHeaderValue(req, text) = new
<1>1. ASSUME k % 2 = 1
      PROVE  OnHeaderField(req, text) =
               [req EXCEPT !.index = IndexFor(k, @), !.headers = Extended(@, IndexFor(k, req.index), text)]
  BY <1>1 DEF OnHeaderField, IndexFor
<1>2. ASSUME k % 2 # 1
      PROVE  OnHeaderValue(req, text) =
               [req EXCEPT !.index = IndexFor(k, @), !.headers = Extended(@, IndexFor(k, req.index), text)]
  BY <1>2 DEF OnHeaderValue, IndexFor
<1> QED BY <1>1, <1>2

(* So does the call for a piece of a name or of a value. *)
LEMMA WordCallback ==
  ASSUME NEW r \in Requests, NEW seg, NEW p, CutFrom(r, seg, p), NEW s \in 1..Len(seg), NEW req,
         ReadTo(req, r, (p + s) - 1), NEW k \in 1..Len(r.headers), NEW x \in 1..Len(r.headers[k]),
         p + s = LineEnd(r) + HeadersTo(r, k - 1) + x
  PROVE  ReadTo(Callback(req, seg, s), r, p + PieceEnd(seg, s))
<1> DEFINE B == RequestBytes(r)
           f == PieceEnd(seg, s)
           L == LineEnd(r)
           g == HeadersTo(r, k - 1)
           h == HeadersTo(r, k)
           word == r.headers[k]
           l == Len(word)
           y == x + f - s
           text == Chars(SubSeq(seg, s, f))
           new == [req EXCEPT !.index = IndexFor(k, @), !.headers = Extended(@, IndexFor(k, req.index), text)]
<1>1. /\ f \in s..Len(seg) /\ f \in Nat /\ s \in Nat \ {0} /\ p \in Nat /\ B[p + s] = seg[s]
      /\ p + s <= p + f /\ p + s \in Nat \ {0} /\ p + f \in Nat
      /\ \A i \in p + s..p + f : B[i].part = seg[s].part
      /\ \A i \in 0..f - s : seg[s + i] = B[p + s + i]
  <2>1. PieceIn(B, seg, p, s, f)
    BY PieceLies
  <2> HIDE DEF B, f
  <2> QED BY <2>1 DEF PieceIn
<1>2. /\ \A i \in 1..l : B[L + g + i] = [part |-> WordPart(k), char |-> word[i]]
      /\ B[L + g + l + 1].part = IF k % 2 = 1 THEN "colon" ELSE IF l = 0 THEN "nothing" ELSE "line"
      /\ L + g \in Nat /\ L + g + l + 1 = L + h
  BY HeaderByte
<1>3. L \in Nat /\ g \in Nat /\ h \in Nat /\ l \in Nat /\ word \in Seq(Letters) /\ k \in Nat
  <2>1. L \in Nat /\ Len(r.headers) \in Nat
    BY SizesAre
  <2>2. k \in 1..Len(r.headers) /\ k \in 0..Len(r.headers) /\ k - 1 \in 0..Len(r.headers)
    BY <2>1
  <2> QED BY <2>1, <2>2, HeadersLie, HeaderTextIs
<1>4. seg \in Seq(MessageByte) /\ x \in Nat \ {0} /\ x <= l
  <2>1. seg \in Seq(MessageByte)
    BY DEF CutFrom
  <2>2. x \in 1..l
    OBVIOUS
  <2> HIDE DEF l
  <2>3. x \in Nat \ {0} /\ x <= l
    BY <2>2, <1>3
  <2> QED BY <2>1, <2>3
<1>0. p + s = L + g + x
  OBVIOUS
<1>a. x \in 1..l
  OBVIOUS
<1> HIDE DEF f, B, L, g, h, l, word
<1>5. seg[s].part = WordPart(k)
  <2>1. B[L + g + x] = [part |-> WordPart(k), char |-> word[x]]
    BY <1>2, <1>a
  <2>2. seg[s] = [part |-> WordPart(k), char |-> word[x]]
    BY <2>1, <1>0, <1>1
  <2> QED BY <2>2
<1>6. WordPart(k) \notin {"colon", "nothing", "line"} /\ (k % 2 = 1 => WordPart(k) = "name")
      /\ (k % 2 # 1 => WordPart(k) = "value")
  BY DEF WordPart
<1>7. y \in x..l
  <2>1. ~(y > l)
    <3> SUFFICES ASSUME y > l PROVE FALSE
      OBVIOUS
    <3>4. /\ s \in Nat /\ f \in Nat /\ p \in Nat /\ L \in Nat /\ g \in Nat /\ x \in Nat /\ l \in Nat
          /\ x <= l /\ p + s = L + g + x /\ x + f - s > l
      BY <1>0, <1>1, <1>3, <1>4
    <3>5. L + g + l + 1 >= p + s /\ L + g + l + 1 \in Int
      BY <3>4
    <3>6. L + g + l + 1 <= p + f
      BY <3>4
    <3>1. L + g + l + 1 \in p + s..p + f
      BY <3>4, <3>5, <3>6
    <3>2. B[L + g + l + 1].part = WordPart(k)
      BY <3>1, <1>1, <1>5
    <3>3. B[L + g + l + 1].part \in {"colon", "nothing", "line"}
      BY <1>2
    <3> QED BY <3>2, <3>3, <1>6
  <2>2. s \in Nat /\ f \in Nat /\ s <= f /\ x \in Nat /\ l \in Nat
    BY <1>1, <1>3, <1>4
  <2>3. y \in Int /\ x <= y /\ y <= l
    BY <2>1, <2>2
  <2> HIDE DEF y
  <2> QED BY <2>2, <2>3
<1>8. \A i \in 0..f - s : seg[s + i].char = word[x + i]
  <2> TAKE i \in 0..f - s
  <2>1. x + i \in 1..l /\ p + s + i = L + g + (x + i)
    <3>1. s \in Nat /\ f \in Nat /\ L \in Nat /\ g \in Nat /\ x \in Nat \ {0} /\ x + f - s <= l /\ l \in Nat
      BY <1>1, <1>3, <1>4, <1>7
    <3>2. i \in Nat /\ i <= f - s
      BY <3>1
    <3>3. x + i <= l
      BY <3>1, <3>2
    <3> QED BY <3>1, <3>2, <3>3, <1>0, <1>1
  <2>2. B[L + g + (x + i)] = [part |-> WordPart(k), char |-> word[x + i]]
    BY <2>1, <1>2
  <2>3. seg[s + i] = [part |-> WordPart(k), char |-> word[x + i]]
    BY <2>1, <2>2, <1>1
  <2> QED BY <2>3
<1>9. text = SubSeq(word, x, y)
  <2>1. x + f - s <= Len(word)
    BY <1>7, <1>3 DEF l
  <2>2. f \in s..Len(seg) /\ s \in 1..Len(seg) /\ seg \in Seq(MessageByte) /\ word \in Seq(Letters) /\ x \in Nat \ {0}
    BY <1>1, <1>3, <1>4
  <2> QED BY <2>1, <2>2, <1>8, PieceText
<1>10. text \in Seq(Letters)
  <2>1. x \in Int /\ y \in Int /\ \A i \in x..y : word[i] \in Letters
    BY <1>3, <1>4, <1>7, ElementOfSeq DEF l
  <2>2. SubSeq(word, x, y) \in Seq(Letters)
    <3> HIDE DEF y
    <3> QED BY <2>1, SubSeqProperties
  <2> QED BY <2>2, <1>9
<1>11. Callback(req, seg, s) = new
  <2>1. CASE k % 2 = 1
    <3>1. Callback(req, seg, s) = OnHeaderField(req, text)
      BY <2>1, <1>5, <1>6 DEF Callback, f
    <3> QED BY <3>1, <2>1, <1>3, OnHeaderIs
  <2>2. CASE k % 2 # 1
    <3>1. Callback(req, seg, s) = OnHeaderValue(req, text)
      BY <2>2, <1>5, <1>6 DEF Callback, f
    <3> QED BY <3>1, <2>2, <1>3, OnHeaderIs
  <2> QED BY <2>1, <2>2
<1>12. Follows(text, word, x - 1, ((p + f) - L) - g)
  <2>1. x - 1 \in Nat /\ (x - 1) + 1 = x /\ y \in Nat /\ x - 1 <= y /\ y <= Len(word)
    BY <1>3, <1>4, <1>7 DEF l
  <2>2. ((p + f) - L) - g = y
    <3>1. p + s = L + g + x /\ s \in Nat /\ f \in Nat /\ L \in Nat /\ g \in Nat /\ x \in Nat /\ p \in Nat
      BY <1>0, <1>1, <1>3, <1>4
    <3> QED BY <3>1
  <2> HIDE DEF y, text
  <2>3. Told(word, x - 1) \o SubSeq(word, (x - 1) + 1, y) = Told(word, y)
    BY <2>1, <1>3, ToldMore
  <2> QED BY <2>1, <2>2, <2>3, <1>9 DEF Follows
<1>13. x \in 1..l + 1 /\ p + f <= L + h
  <2>1. s \in Nat /\ f \in Nat /\ x \in Nat \ {0} /\ l \in Nat /\ x + f - s <= l /\ p \in Nat /\ L \in Nat /\ g \in Nat
    BY <1>1, <1>3, <1>4, <1>7
  <2>2. p + s = L + g + x /\ L + h = L + g + l + 1
    BY <1>0, <1>2
  <2>3. x \in 1..l + 1
    BY <1>4, <1>3
  <2>4. p + f <= L + g + l + 1
    BY <2>1, <2>2
  <2> QED BY <2>2, <2>3, <2>4
<1> DEFINE a == p + s
           e == p + f
<1>14. a \in Nat \ {0} /\ e \in Nat /\ a <= e /\ a = L + g + x /\ e <= L + h /\ ReadTo(req, r, a - 1)
  BY <1>0, <1>1, <1>13
<1>15. Follows(text, word, x - 1, (e - L) - g)
  BY <1>12
<1> HIDE DEF a, e, text
<1>16. ReadTo(new, r, e)
  BY <1>10, <1>13, <1>14, <1>15, HeaderReadTo DEF word, l, L, g, h
<1> QED BY <1>11, <1>16 DEF e, f

(* So does the call for a value that is empty. *)
LEMMA NothingCallback ==
  ASSUME NEW r \in Requests, NEW seg, NEW p, CutFrom(r, seg, p), NEW s \in 1..Len(seg), NEW req,
         ReadTo(req, r, (p + s) - 1), NEW k \in 1..Len(r.headers), k % 2 # 1, Len(r.headers[k]) = 0,
         p + s = LineEnd(r) + HeadersTo(r, k - 1) + 1
  PROVE  ReadTo(Callback(req, seg, s), r, p + PieceEnd(seg, s))
<1> DEFINE B == RequestBytes(r)
           f == PieceEnd(seg, s)
           K == Len(r.headers)
           L == LineEnd(r)
           g == HeadersTo(r, k - 1)
           h == HeadersTo(r, k)
           word == r.headers[k]
           l == Len(word)
           new == [req EXCEPT !.index = IndexFor(k, @), !.headers = Extended(@, IndexFor(k, req.index), <<>>)]
<1>1. /\ f \in s..Len(seg) /\ f \in Nat /\ s \in Nat \ {0} /\ p \in Nat /\ B[p + s] = seg[s]
      /\ p + s <= p + f /\ p + s \in Nat \ {0} /\ p + f \in Nat
      /\ \A i \in p + s..p + f : B[i].part = seg[s].part
  <2>1. PieceIn(B, seg, p, s, f)
    BY PieceLies
  <2> HIDE DEF B, f
  <2> QED BY <2>1 DEF PieceIn
<1>2. /\ B[L + g + l + 1].part = IF k % 2 = 1 THEN "colon" ELSE IF l = 0 THEN "nothing" ELSE "line"
      /\ L + g \in Nat /\ L + g + l + 1 = L + h
  BY HeaderByte
<1>3. L \in Nat /\ g \in Nat /\ h \in Nat /\ l = 0 /\ word \in Seq(Letters) /\ k \in Nat /\ K \in Nat
  <2>1. L \in Nat /\ Len(r.headers) \in Nat
    BY SizesAre
  <2>2. k \in 1..Len(r.headers) /\ k \in 0..Len(r.headers) /\ k - 1 \in 0..Len(r.headers)
    BY <2>1
  <2> QED BY <2>1, <2>2, HeadersLie, HeaderTextIs
<1>0. p + s = L + g + 1 /\ k % 2 # 1
  OBVIOUS
<1>4. B[L + h + 1].part # "nothing"
  <2>1. CASE k = K
    <3>1. B[L + HeadersTo(r, K) + 1].part = "line"
      BY RequestLies
    <3> QED BY <2>1, <3>1
  <2>2. CASE k # K
    <3> DEFINE j == k + 1
    <3>7. k \in 1..K
      BY DEF K
    <3>1. j \in 1..K /\ j - 1 = k
      <4>1. k \in Nat /\ K \in Nat
        BY <1>3
      <4> HIDE DEF K
      <4> QED BY <3>7, <2>2, <4>1
    <3>2. j % 2 = 1
      <4>1. k \in Nat /\ k % 2 # 1
        BY <1>0, <1>3
      <4> QED BY <4>1
    <3>3. Len(r.headers[j]) \in Nat /\ Len(r.headers[j]) # 0 /\ 1 \in 1..Len(r.headers[j])
      <4>1. Len(r.headers[j]) \in Nat /\ Len(r.headers[j]) # 0
        BY <3>1, <3>2, HeaderTextIs
      <4> QED BY <4>1
    <3>4. B[L + HeadersTo(r, j - 1) + 1] = [part |-> WordPart(j), char |-> r.headers[j][1]]
      BY <3>1, <3>3, HeaderByte
    <3>5. WordPart(j) = "name"
      BY <3>2 DEF WordPart
    <3> HIDE DEF j, B
    <3>6. B[L + h + 1] = [part |-> "name", char |-> r.headers[j][1]]
      BY <3>1, <3>4, <3>5
    <3> QED BY <3>6
  <2> QED BY <2>1, <2>2
<1> HIDE DEF f, B, L, g, h, l, K
<1>5. seg[s].part = "nothing"
  <2>1. L + g + l + 1 = L + g + 1
    BY <1>3
  <2>2. B[L + g + 1].part = "nothing"
    BY <2>1, <1>0, <1>2, <1>3
  <2> QED BY <2>2, <1>0, <1>1
<1>6. p + f = p + s
  <2>1. L + h = p + s
    BY <1>0, <1>2, <1>3
  <2>2. ~(p + f > p + s)
    <3> SUFFICES ASSUME p + f > p + s PROVE FALSE
      OBVIOUS
    <3>1. p + s + 1 \in p + s..p + f /\ p + s + 1 = L + h + 1
      BY <2>1, <1>1, <1>3
    <3> QED BY <3>1, <1>1, <1>4, <1>5
  <2> QED BY <2>2, <1>1
<1>7. Callback(req, seg, s) = new
  <2>1. Callback(req, seg, s) = OnHeaderValue(req, <<>>)
    BY <1>5 DEF Callback
  <2> QED BY <2>1, <1>0, <1>3, OnHeaderIs
<1>8. <<>> \in Seq(Letters)
  BY EmptySeq
<1> DEFINE a == p + s
           e == p + f
<1>9. a \in Nat \ {0} /\ e \in Nat /\ a <= e /\ a = L + g + 1 /\ e <= L + h /\ ReadTo(req, r, a - 1)
  <2>1. L + h = L + g + 1
    BY <1>2, <1>3
  <2> QED BY <2>1, <1>0, <1>1, <1>3, <1>6
<1>10. Follows(<<>>, word, 1 - 1, (e - L) - g)
  <2>1. (e - L) - g = 1
    BY <1>9, <1>3, <1>6
  <2>2. Told(word, 1 - 1) = <<>> /\ Told(word, 1) = word /\ word = <<>>
    <3>1. word = <<>> /\ word \in Seq(Letters) /\ Len(word) = 0
      BY <1>3, EmptySeq DEF l
    <3>2. 1 - 1 <= 0 /\ 1 - 1 \in Int /\ 1 \in Int /\ 1 >= Len(word)
      BY <3>1
    <3>3. Told(word, 1 - 1) = <<>>
      BY <3>1, <3>2, ToldIs
    <3>4. Told(word, 1) = word
      BY <3>1, <3>2, ToldIs
    <3> QED BY <3>1, <3>3, <3>4
  <2>3. <<>> \o <<>> = <<>>
    BY <1>8, ConcatEmptySeq
  <2> QED BY <2>1, <2>2, <2>3 DEF Follows
<1>11. 1 \in 1..l + 1
  BY <1>3
<1> HIDE DEF a, e
<1>12. ReadTo(new, r, e)
  BY <1>8, <1>9, <1>10, <1>11, HeaderReadTo DEF l, L, g, h
<1> QED BY <1>7, <1>12 DEF e, f

(* For a piece of anything else there is no call, but for the end of a url a read began behind, which adds
   nothing to it. *)
LEMMA OtherCallback ==
  ASSUME NEW r \in Requests, NEW seg, NEW p, CutFrom(r, seg, p), NEW s \in 1..Len(seg), NEW req,
         ReadTo(req, r, (p + s) - 1), RequestBytes(r)[p + s].part \notin TextParts
  PROVE  ReadTo(Callback(req, seg, s), r, p + PieceEnd(seg, s))
<1> DEFINE B == RequestBytes(r)
           f == PieceEnd(seg, s)
           a == p + s
           e == p + f
<1>1. /\ B[a] = seg[s] /\ s \in Nat /\ a \in Nat \ {0} /\ e \in Nat /\ a <= e /\ e <= Len(B)
      /\ \A i \in a..e : B[i].part = seg[s].part
  <2>1. PieceIn(B, seg, p, s, f)
    BY PieceLies
  <2> HIDE DEF B, f
  <2> QED BY <2>1 DEF PieceIn
<1>2. seg[s].part \notin TextParts
  BY <1>1
<1>3. \A i \in a..e : B[i].part \notin TextParts
  BY <1>1, <1>2
<1>4. ReadTo(req, r, a - 1)
  OBVIOUS
<1> HIDE DEF f, a, e
<1>5. ReadTo(req, r, e)
  BY <1>1, <1>3, <1>4, ReadToSame
<1>6. CASE seg[s].part = "blank" /\ s = 1
  <2> DEFINE copied == CopiedFrom(seg, s + Len(<<>>))
             new == [req EXCEPT !.url = @ \o <<>>, !.protocol = copied]
  <2>1. Callback(req, seg, s) = new
    <3>1. Callback(req, seg, s) = OnUrl(req, seg, s, <<>>)
      BY <1>6 DEF Callback
    <3> QED BY <3>1, OnUrlIs
  <2>2. copied \in Seq(Letters)
    <3>1. s + Len(<<>>) \in Nat
      BY <1>1, EmptySeq
    <3>2. seg \in Seq(MessageByte) /\ ProtocolSize \in Nat
      BY SizesAre DEF CutFrom
    <3> QED BY <3>1, <3>2, CopiedIs
  <2> HIDE DEF copied
  <2>3. req \in RequestSoFar
    BY <1>5 DEF ReadTo
  <2>4. req.url \o <<>> = req.url
    <3>1. req.url \in Seq(Letters)
      BY <2>3 DEF RequestSoFar
    <3> QED BY <3>1, ConcatEmptySeq
  <2>5. /\ new \in RequestSoFar /\ new.url = req.url /\ new.body = req.body
        /\ new.headers = req.headers /\ new.index = req.index
    BY <2>2, <2>3, <2>4 DEF RequestSoFar
  <2> HIDE DEF new
  <2>6. ReadTo(new, r, e)
    BY <1>5, <2>5 DEF ReadTo
  <2> QED BY <2>1, <2>6 DEF e, f
<1>7. CASE ~(seg[s].part = "blank" /\ s = 1)
  <2>1. Callback(req, seg, s) = req
    BY <1>7, <1>2 DEF Callback, TextParts
  <2> QED BY <2>1, <1>5 DEF e, f
<1> QED BY <1>6, <1>7

(* Whatever the piece is, its call brings the request to the end of the piece. *)
LEMMA CallbackReadTo ==
  ASSUME NEW r \in Requests, NEW seg, NEW p, CutFrom(r, seg, p), NEW s \in 1..Len(seg), NEW req,
         ReadTo(req, r, (p + s) - 1)
  PROVE  ReadTo(Callback(req, seg, s), r, p + PieceEnd(seg, s))
<1> DEFINE B == RequestBytes(r)
           L == LineEnd(r)
           K == Len(r.headers)
<1>1. p + s \in 1..Len(B)
  BY PieceLies DEF PieceIn
<1>2. \/ B[p + s].part \notin TextParts /\ (B[p + s].part = "blank" => p + s = UrlEnd(r) + 1)
      \/ \E x \in 1..Len(r.url) : p + s = 2 + x
      \/ \E k \in 1..K : \E x \in 1..Len(r.headers[k]) : p + s = L + HeadersTo(r, k - 1) + x
      \/ \E k \in 1..K : k % 2 # 1 /\ Len(r.headers[k]) = 0 /\ p + s = L + HeadersTo(r, k - 1) + 1
      \/ \E x \in 1..Len(r.body) : p + s = HeadEndOf(r) + x
  BY <1>1, WhereIs
<1>3. CASE B[p + s].part \notin TextParts
  BY <1>3, OtherCallback
<1>4. ASSUME NEW x \in 1..Len(r.url), p + s = 2 + x
      PROVE  ReadTo(Callback(req, seg, s), r, p + PieceEnd(seg, s))
  BY <1>4, UrlCallback
<1>5. ASSUME NEW k \in 1..K, NEW x \in 1..Len(r.headers[k]), p + s = L + HeadersTo(r, k - 1) + x
      PROVE  ReadTo(Callback(req, seg, s), r, p + PieceEnd(seg, s))
  BY <1>5, WordCallback
<1>6. ASSUME NEW k \in 1..K, k % 2 # 1, Len(r.headers[k]) = 0, p + s = L + HeadersTo(r, k - 1) + 1
      PROVE  ReadTo(Callback(req, seg, s), r, p + PieceEnd(seg, s))
  BY <1>6, NothingCallback
<1>7. ASSUME NEW x \in 1..Len(r.body), p + s = HeadEndOf(r) + x
      PROVE  ReadTo(Callback(req, seg, s), r, p + PieceEnd(seg, s))
  BY <1>7, BodyCallback
<1> QED BY <1>2, <1>3, <1>4, <1>5, <1>6, <1>7

(* After each byte that was read, the request is what there is of it at the end of that byte's piece. *)
LEMMA ParsedReadTo ==
  ASSUME NEW r \in Requests, NEW seg, NEW p, CutFrom(r, seg, p), NEW req, ReadTo(req, r, p)
  PROVE  \A i \in 1..Len(seg) : ReadTo(Parsed(req, seg)[i], r, p + PieceEnd(seg, i))
<1> DEFINE P == Parsed(req, seg)
           Q == Len(seg)
           Fine(i) == ReadTo(P[i], r, p + PieceEnd(seg, i))
           Bad == {i \in Nat : i \in 1..Q /\ ~Fine(i)}
<1>1. seg \in Seq(MessageByte) /\ Q \in Nat /\ p \in Nat
  <2>1. seg \in Seq(MessageByte) /\ p \in Nat
    BY DEF CutFrom
  <2> QED BY <2>1, LenProperties
<1>2. /\ P[0] = req
      /\ \A i \in 1..Q : P[i] = IF Starts(seg, i) THEN Callback(P[i - 1], seg, i) ELSE P[i - 1]
  BY <1>1, ParsedIs
<1> HIDE DEF P
<1>3. Bad = {}
  <2> SUFFICES ASSUME Bad # {} PROVE FALSE
    OBVIOUS
  <2>1. PICK i \in Bad : \A j \in Bad : i <= j
    BY LeastNumber
  <2>2. i \in 1..Q /\ i \in Nat /\ ~Fine(i)
    BY <2>1
  <2>3. CASE Starts(seg, i)
    <3>1. P[i] = Callback(P[i - 1], seg, i)
      BY <2>2, <2>3, <1>2
    <3>2. ReadTo(P[i - 1], r, (p + i) - 1)
      <4>1. CASE i = 1
        <5>1. (p + i) - 1 = p /\ i - 1 = 0
          BY <4>1, <1>1
        <5> QED BY <5>1, <1>2
      <4>2. CASE i # 1
        <5>1. i > 1 /\ i - 1 \in 1..Q /\ i - 1 \in Nat /\ i - 1 \notin Bad
          <6>1. i > 1 /\ i - 1 \in 1..Q /\ i - 1 \in Nat /\ ~(i <= i - 1)
            BY <4>2, <2>2, <1>1
          <6> HIDE DEF Bad
          <6> QED BY <6>1, <2>1
        <5>2. Fine(i - 1)
          BY <5>1
        <5>3. PieceEnd(seg, i - 1) = i - 1
          BY <5>1, <2>2, <2>3, <1>1, PieceEndGoes
        <5>4. p + (i - 1) = (p + i) - 1
          BY <2>2, <1>1
        <5> QED BY <5>2, <5>3, <5>4
      <4> QED BY <4>1, <4>2
    <3>3. ReadTo(Callback(P[i - 1], seg, i), r, p + PieceEnd(seg, i))
      BY <3>2, <2>2, CallbackReadTo
    <3> QED BY <3>1, <3>3, <2>2
  <2>4. CASE ~Starts(seg, i)
    <3>1. P[i] = P[i - 1]
      BY <2>2, <2>4, <1>2
    <3>2. i # 1
      BY <2>4 DEF Starts
    <3>3. i > 1 /\ i - 1 \in 1..Q /\ i - 1 \in Nat /\ i - 1 \notin Bad
      <4>1. i > 1 /\ i - 1 \in 1..Q /\ i - 1 \in Nat /\ ~(i <= i - 1)
        BY <3>2, <2>2, <1>1
      <4> HIDE DEF Bad
      <4> QED BY <4>1, <2>1
    <3>4. Fine(i - 1)
      BY <3>3
    <3>5. PieceEnd(seg, i - 1) = PieceEnd(seg, i)
      BY <3>3, <2>2, <2>4, <1>1, PieceEndGoes
    <3> QED BY <3>1, <3>4, <3>5, <2>2
  <2> QED BY <2>3, <2>4
<1>4. \A i \in 1..Q : i \in Nat
  BY <1>1
<1> QED BY <1>3, <1>4 DEF P

(* No byte behind the url is of a url, and none but the one behind it is the blank. *)
LEMMA UrlWhere ==
  ASSUME NEW r \in Requests, NEW y \in 1..Len(RequestBytes(r))
  PROVE  /\ RequestBytes(r)[y].part = "url" => y <= UrlEnd(r)
         /\ RequestBytes(r)[y].part = "blank" => y = UrlEnd(r) + 1
<1> DEFINE B == RequestBytes(r)
           K == Len(r.headers)
           L == LineEnd(r)
           Goal == (B[y].part = "url" => y <= UrlEnd(r)) /\ (B[y].part = "blank" => y = UrlEnd(r) + 1)
<1>1. \/ B[y].part \notin TextParts /\ (B[y].part = "blank" => y = UrlEnd(r) + 1)
      \/ \E x \in 1..Len(r.url) : y = 2 + x
      \/ \E k \in 1..K : \E x \in 1..Len(r.headers[k]) : y = L + HeadersTo(r, k - 1) + x
      \/ \E k \in 1..K : k % 2 # 1 /\ Len(r.headers[k]) = 0 /\ y = L + HeadersTo(r, k - 1) + 1
      \/ \E x \in 1..Len(r.body) : y = HeadEndOf(r) + x
  BY WhereIs
<1>2. ASSUME B[y].part \notin TextParts /\ (B[y].part = "blank" => y = UrlEnd(r) + 1) PROVE Goal
  BY <1>2 DEF TextParts
<1>3. ASSUME NEW x \in 1..Len(r.url), y = 2 + x PROVE Goal
  <2>1. y <= UrlEnd(r)
    BY <1>3, SizesAre
  <2>2. B[2 + x] = [part |-> "url", char |-> r.url[x]]
    BY RequestLies
  <2>3. B[y].part = "url"
    BY <2>2, <1>3
  <2> QED BY <2>1, <2>3
<1>4. ASSUME NEW k \in 1..K, NEW x \in 1..Len(r.headers[k]), y = L + HeadersTo(r, k - 1) + x PROVE Goal
  <2>1. B[L + HeadersTo(r, k - 1) + x] = [part |-> WordPart(k), char |-> r.headers[k][x]]
    BY HeaderByte
  <2>2. B[y].part = WordPart(k)
    BY <2>1, <1>4
  <2> QED BY <2>2 DEF WordPart
<1>5. ASSUME NEW k \in 1..K, y = L + HeadersTo(r, k - 1) + 1 PROVE Goal
  <2>1. B[L + HeadersTo(r, k - 1) + 1].part \in {"name", "value", "nothing"}
    BY HeaderByte
  <2> QED BY <2>1, <1>5
<1>6. ASSUME NEW x \in 1..Len(r.body), y = HeadEndOf(r) + x PROVE Goal
  <2>1. B[HeadEndOf(r) + x] = [part |-> "body", char |-> r.body[x]]
    BY RequestLies DEF HeadEndOf
  <2>2. B[y].part = "body"
    BY <2>1, <1>6
  <2> QED BY <2>2
<1>7. Goal
  <2> HIDE DEF Goal, B, K, L
  <2> QED BY <1>1, <1>2, <1>3, <1>4, <1>5, <1>6, Zenon
<1> QED BY <1>7

(* Only on_url touches the protocol. *)
LEMMA CallbackKeeps ==
  ASSUME NEW req \in RequestSoFar, NEW bytes, NEW at, bytes[at].part # "url", ~(bytes[at].part = "blank" /\ at = 1)
  PROVE  Callback(req, bytes, at).protocol = req.protocol
<1> DEFINE text == Chars(SubSeq(bytes, at, PieceEnd(bytes, at)))
<1>1. Callback(req, bytes, at) \in {OnHeaderField(req, text), OnHeaderValue(req, text),
                                   OnHeaderValue(req, <<>>), OnBody(req, text), req}
  BY DEF Callback
<1> HIDE DEF text
<1>2. /\ OnHeaderField(req, text).protocol = req.protocol
      /\ OnHeaderValue(req, text).protocol = req.protocol
      /\ OnHeaderValue(req, <<>>).protocol = req.protocol
      /\ OnBody(req, text).protocol = req.protocol
  BY DEF OnHeaderField, OnHeaderValue, OnBody, RequestSoFar
<1> QED BY <1>1, <1>2

(* on_url copies the protocol when what was read goes on to the protocol's end. *)
LEMMA CopiedRight ==
  ASSUME NEW r \in Requests, NEW seg, NEW p, CutFrom(r, seg, p), NEW j \in Nat, p + j = UrlEnd(r) + 1,
         p + Len(seg) > UrlEnd(r) + ProtocolSize
  PROVE  CopiedFrom(seg, j) = r.protocol
<1> DEFINE B == RequestBytes(r)
           Q == Len(seg)
           U == UrlEnd(r)
           S == ProtocolSize
<1>1. seg \in Seq(MessageByte) /\ Q \in Nat /\ p \in Nat /\ \A i \in 1..Q : seg[i] = B[p + i]
  <2>1. seg \in Seq(MessageByte) /\ p \in Nat /\ \A i \in 1..Q : seg[i] = B[p + i]
    BY DEF CutFrom
  <2> QED BY <2>1, LenProperties
<1>2. U \in Nat /\ S \in Nat
  BY SizesAre
<1>3. \A x \in 1..S : B[U + 1 + x] = [part |-> "protocol", char |-> r.protocol[x]]
  BY RequestLies
<1>4. r.protocol \in Seq(Letters) /\ Len(r.protocol) = S
  BY RequestIs
<1>5. /\ CopiedFrom(seg, j) \in Seq(Letters) /\ Len(CopiedFrom(seg, j)) = S
      /\ \A i \in 1..S : CopiedFrom(seg, j)[i] = IF j + i <= Q THEN seg[j + i].char ELSE "?"
  BY <1>1, <1>2, CopiedIs
<1>0. p + j = U + 1 /\ p + Q > U + S /\ j \in Nat
  OBVIOUS
<1> HIDE DEF B, Q, U, S
<1>6. \A i \in 1..S : CopiedFrom(seg, j)[i] = r.protocol[i]
  <2> TAKE i \in 1..S
  <2>1. j + i \in 1..Q /\ j + i <= Q /\ p + (j + i) = U + 1 + i
    BY <1>0, <1>1, <1>2
  <2>2. seg[j + i] = B[U + 1 + i]
    BY <2>1, <1>1
  <2>3. seg[j + i] = [part |-> "protocol", char |-> r.protocol[i]]
    BY <2>2, <1>3
  <2>4. seg[j + i].char = r.protocol[i]
    BY <2>3
  <2> QED BY <2>1, <2>4, <1>5
<1> QED BY <1>4, <1>5, <1>6, SeqEqual

(* Reads that begin behind the url leave the protocol as it is. *)
LEMMA ProtocolStays ==
  ASSUME NEW r \in Requests, NEW seg, NEW p, CutFrom(r, seg, p), NEW req, ReadTo(req, r, p), p > UrlEnd(r)
  PROVE  \A i \in 1..Len(seg) : Parsed(req, seg)[i].protocol = req.protocol
<1> DEFINE P == Parsed(req, seg)
           Q == Len(seg)
           U == UrlEnd(r)
           B == RequestBytes(r)
           Bad == {i \in Nat : i \in 1..Q /\ P[i].protocol # req.protocol}
<1>1. seg \in Seq(MessageByte) /\ Q \in Nat /\ p \in Nat /\ (\A i \in 1..Q : seg[i] = B[p + i]) /\ p + Q <= Len(B)
  <2>1. seg \in Seq(MessageByte) /\ p \in Nat /\ (\A i \in 1..Q : seg[i] = B[p + i]) /\ p + Q <= Len(B)
    BY DEF CutFrom
  <2> QED BY <2>1, LenProperties
<1>2. /\ P[0] = req
      /\ \A i \in 1..Q : P[i] = IF Starts(seg, i) THEN Callback(P[i - 1], seg, i) ELSE P[i - 1]
  BY <1>1, ParsedIs
<1>3. (\A i \in 1..Q : P[i] \in RequestSoFar) /\ req \in RequestSoFar
  BY ParsedReadTo DEF ReadTo
<1>4. U \in Nat /\ Len(B) \in Nat /\ p > U
  BY SizesAre
<1> HIDE DEF P, Q, U
<1>5. \A i \in 1..Q : P[i - 1] \in RequestSoFar /\ (P[i - 1].protocol = req.protocol => P[i].protocol = req.protocol)
  <2> TAKE i \in 1..Q
  <2>1. P[i - 1] \in RequestSoFar
    <3>1. CASE i = 1
      BY <3>1, <1>2, <1>3
    <3>2. CASE i # 1
      <4>1. i - 1 \in 1..Q
        BY <3>2, <1>1
      <4> QED BY <4>1, <1>3
    <3> QED BY <3>1, <3>2
  <2>2. p + i \in 1..Len(B) /\ seg[i] = B[p + i] /\ ~(p + i <= U + 1)
    BY <1>1, <1>4
  <2>3. seg[i].part \notin {"url", "blank"}
    <3>1. B[p + i].part # "url" /\ B[p + i].part # "blank"
      BY <2>2, <1>1, <1>4, UrlWhere DEF U
    <3> QED BY <3>1, <2>2
  <2>4. Callback(P[i - 1], seg, i).protocol = P[i - 1].protocol
    BY <2>1, <2>3, CallbackKeeps
  <2> QED BY <2>1, <2>4, <1>2
<1>6. Bad = {}
  <2> SUFFICES ASSUME Bad # {} PROVE FALSE
    OBVIOUS
  <2>1. PICK i \in Bad : \A j \in Bad : i <= j
    BY LeastNumber
  <2>2. i \in 1..Q /\ i \in Nat /\ P[i].protocol # req.protocol
    BY <2>1
  <2>3. P[i - 1].protocol = req.protocol
    <3>1. CASE i = 1
      BY <3>1, <1>2
    <3>2. CASE i # 1
      <4>1. i - 1 \in 1..Q /\ i - 1 \in Nat /\ ~(i <= i - 1)
        BY <3>2, <2>2, <1>1
      <4>2. i - 1 \notin Bad
        <5> HIDE DEF Bad
        <5> QED BY <4>1, <2>1
      <4> QED BY <4>1, <4>2
    <3> QED BY <3>1, <3>2
  <2> QED BY <2>2, <2>3, <1>5
<1>7. \A i \in 1..Q : i \in Nat
  BY <1>1
<1> QED BY <1>6, <1>7 DEF P, Q

(* A read that begins in the url, or before it, and ends behind the protocol brings the protocol. *)
LEMMA ProtocolComes ==
  ASSUME NEW r \in Requests, NEW seg, NEW p, CutFrom(r, seg, p), NEW req, ReadTo(req, r, p),
         p <= UrlEnd(r), p + Len(seg) > UrlEnd(r) + ProtocolSize
  PROVE  \A i \in 1..Len(seg) :
            p + PieceEnd(seg, i) >= UrlEnd(r) => Parsed(req, seg)[i].protocol = r.protocol
<1> DEFINE P == Parsed(req, seg)
           Q == Len(seg)
           U == UrlEnd(r)
           B == RequestBytes(r)
           f(i) == PieceEnd(seg, i)
           Fine(i) == p + f(i) >= U => P[i].protocol = r.protocol
           Bad == {i \in Nat : i \in 1..Q /\ ~Fine(i)}
<1>1. seg \in Seq(MessageByte) /\ Q \in Nat /\ p \in Nat
  <2>1. seg \in Seq(MessageByte) /\ p \in Nat
    BY DEF CutFrom
  <2> QED BY <2>1, LenProperties
<1>2. /\ P[0] = req
      /\ \A i \in 1..Q : P[i] = IF Starts(seg, i) THEN Callback(P[i - 1], seg, i) ELSE P[i - 1]
  BY <1>1, ParsedIs
<1>3. (\A i \in 1..Q : P[i] \in RequestSoFar) /\ req \in RequestSoFar
  BY ParsedReadTo DEF ReadTo
<1>4. U \in Nat /\ U >= 3 /\ U = 2 + Len(r.url) /\ Len(r.url) \in Nat
  <2> DEFINE n == Len(r.url)
  <2>1. n \in Nat \ {0} /\ U = 2 + n
    BY RequestIs DEF UrlEnd
  <2> HIDE DEF n, U
  <2>2. U \in Nat /\ U >= 3
    BY <2>1
  <2> QED BY <2>1, <2>2 DEF n
<1>5. B[3].part = "url" /\ B[U + 1].part = "blank" /\ \A i \in 1..2 : B[i].part = "method"
  <2>1. 1 \in 1..Len(r.url)
    <3>1. Len(r.url) \in Nat \ {0}
      BY RequestIs
    <3> QED BY <3>1
  <2>2. B[2 + 1] = [part |-> "url", char |-> r.url[1]]
    BY <2>1, RequestLies
  <2>3. B[3].part = "url"
    BY <2>2
  <2>4. B[U + 1].part = "blank" /\ \A i \in 1..2 : B[i].part = "method"
    BY RequestLies
  <2> QED BY <2>3, <2>4
<1>6. p <= U /\ p + Q > U + ProtocolSize
  OBVIOUS
<1>7. \A i \in 1..Q :
        /\ i \in Nat /\ f(i) \in Nat /\ i <= f(i) /\ p + i \in 1..Len(B)
        /\ B[p + i] = seg[i]
        /\ \A y \in p + i..p + f(i) : B[y].part = seg[i].part
  <2> TAKE i \in 1..Q
  <2>1. PieceIn(B, seg, p, i, f(i))
    BY PieceLies
  <2> HIDE DEF B, f
  <2>2. f(i) \in i..Len(seg) /\ i \in Nat /\ f(i) \in Nat
    BY <2>1 DEF PieceIn
  <2>3. i <= f(i)
    BY <2>2
  <2> QED BY <2>1, <2>2, <2>3 DEF PieceIn
<1>8. \A i \in 1..Q : i > 1 => /\ i - 1 \in 1..Q
                               /\ Starts(seg, i) => f(i - 1) = i - 1
                               /\ ~Starts(seg, i) => f(i - 1) = f(i)
  BY <1>1, PieceEndGoes
<1> HIDE DEF P, Q, U, f
<1>11. \A i \in 1..Q : \A z \in Nat : z >= p + i /\ z <= p + f(i) => z \in p + i..p + f(i)
  <2> TAKE i \in 1..Q
  <2> DEFINE e == f(i)
  <2>1. i \in Nat /\ e \in Nat /\ p \in Nat
    BY <1>1, <1>7
  <2> HIDE DEF e
  <2>2. \A z \in Nat : z >= p + i /\ z <= p + e => z \in p + i..p + e
    BY <2>1
  <2> QED BY <2>2 DEF e
<1>9. Bad = {}
  <2> SUFFICES ASSUME Bad # {} PROVE FALSE
    OBVIOUS
  <2>1. PICK i \in Bad : \A j \in Bad : i <= j
    BY LeastNumber
  <2>2. i \in 1..Q /\ i \in Nat /\ ~Fine(i) /\ p + f(i) >= U
    BY <2>1
  <2>3. ASSUME i # 1 PROVE i - 1 \in 1..Q /\ i > 1 /\ Fine(i - 1) /\ P[i - 1] \in RequestSoFar
    <3>1. i - 1 \in 1..Q /\ i - 1 \in Nat /\ ~(i <= i - 1) /\ i > 1
      BY <2>3, <2>2, <1>1
    <3>2. i - 1 \notin Bad
      <4> HIDE DEF Bad
      <4> QED BY <3>1, <2>1
    <3> QED BY <3>1, <3>2, <1>3
  <2>4. P[i - 1] \in RequestSoFar
    <3>1. CASE i = 1
      BY <3>1, <1>2, <1>3
    <3>2. CASE i # 1
      BY <3>2, <2>3
    <3> QED BY <3>1, <3>2
  <2>5. CASE ~Starts(seg, i)
    <3>1. i # 1
      BY <2>5 DEF Starts
    <3>2. P[i] = P[i - 1] /\ f(i - 1) = f(i)
      BY <3>1, <2>2, <2>3, <2>5, <1>2, <1>8
    <3> QED BY <3>1, <3>2, <2>2, <2>3
  <2>6. CASE Starts(seg, i) /\ seg[i].part = "url"
    <3> DEFINE text == Chars(SubSeq(seg, i, f(i)))
               j == i + Len(text)
    <3>1. P[i] = Callback(P[i - 1], seg, i)
      BY <2>2, <2>6, <1>2
    <3>2. Callback(P[i - 1], seg, i) = OnUrl(P[i - 1], seg, i, text)
      BY <2>6 DEF Callback, f
    <3>3. Len(text) = f(i) - i + 1
      <4>1. f(i) \in i..Len(seg) /\ \A k \in i..f(i) : seg[k] \in MessageByte
        <5>1. f(i) \in i..Len(seg)
          BY <2>2, <1>1, PieceEndIs DEF f, Q
        <5>2. \A k \in i..f(i) : k \in 1..Len(seg)
          BY <5>1, <2>2, <1>1 DEF Q
        <5> QED BY <5>1, <5>2, <1>1, ElementOfSeq
      <4>2. i \in Int /\ f(i) \in Int /\ i <= f(i)
        BY <2>2, <1>7
      <4>3. /\ SubSeq(seg, i, f(i)) \in Seq(MessageByte)
            /\ Len(SubSeq(seg, i, f(i))) = IF i <= f(i) THEN f(i) - i + 1 ELSE 0
        BY <4>1, <4>2, SubSeqProperties
      <4> QED BY <4>2, <4>3, CharsAre
    <3>4. ~(p + f(i) > U)
      <4> SUFFICES ASSUME p + f(i) > U PROVE FALSE
        OBVIOUS
      <4>1. p + i <= U
        BY <2>2, <2>6, <1>7, UrlWhere DEF U
      <4> DEFINE e == f(i)
      <4>3. i \in Nat /\ e \in Nat /\ p \in Nat /\ U \in Nat /\ p + e > U
        BY <2>2, <1>1, <1>4, <1>7
      <4> HIDE DEF e
      <4>4. U + 1 \in Nat /\ U + 1 >= p + i /\ U + 1 <= p + e
        BY <4>1, <4>3
      <4>2. U + 1 \in p + i..p + f(i)
        BY <4>4, <2>2, <1>11 DEF e
      <4> QED BY <4>2, <2>2, <2>6, <1>5, <1>7
    <3>5. p + f(i) = U
      <4> DEFINE e == f(i)
      <4>1. e \in Nat /\ p \in Nat /\ U \in Nat /\ p + e >= U /\ ~(p + e > U)
        BY <3>4, <2>2, <1>1, <1>4, <1>7
      <4> HIDE DEF e
      <4>2. p + e = U
        BY <4>1
      <4> QED BY <4>2 DEF e
    <3>6. j \in Nat /\ p + j = U + 1
      <4>1. i \in Nat /\ f(i) \in Nat /\ i <= f(i)
        BY <2>2, <1>7
      <4> HIDE DEF text
      <4>2. j = f(i) + 1
        BY <4>1, <3>3
      <4> DEFINE e == f(i)
      <4>3. e \in Nat /\ p \in Nat /\ U \in Nat /\ p + e = U /\ j = e + 1
        BY <4>1, <4>2, <3>5, <1>1, <1>4
      <4> HIDE DEF e, j
      <4> QED BY <4>3
    <3>7. CopiedFrom(seg, j) = r.protocol
      <4> HIDE DEF j
      <4> QED BY <3>6, <1>6, CopiedRight DEF Q, U
    <3> HIDE DEF text
    <3>8. P[i] = [P[i - 1] EXCEPT !.url = @ \o text, !.protocol = r.protocol]
      BY <3>1, <3>2, <3>7, OnUrlIs
    <3>9. P[i].protocol = r.protocol
      BY <3>8, <2>4 DEF RequestSoFar
    <3> QED BY <3>9, <2>2
  <2>7. CASE Starts(seg, i) /\ seg[i].part = "blank" /\ i = 1
    <3>1. P[i] = Callback(P[i - 1], seg, i)
      BY <2>2, <2>7, <1>2
    <3>2. Callback(P[i - 1], seg, i) = OnUrl(P[i - 1], seg, i, <<>>)
      BY <2>7 DEF Callback
    <3>3. p + i = U + 1
      BY <2>2, <2>7, <1>7, UrlWhere DEF U
    <3>4. i + Len(<<>>) = i
      BY <2>2, EmptySeq
    <3>5. CopiedFrom(seg, i + Len(<<>>)) = r.protocol
      BY <3>3, <3>4, <2>2, <1>6, CopiedRight DEF Q, U
    <3>6. P[i] = [P[i - 1] EXCEPT !.url = @ \o <<>>, !.protocol = r.protocol]
      BY <3>1, <3>2, <3>5, OnUrlIs
    <3>7. P[i].protocol = r.protocol
      BY <3>6, <2>4 DEF RequestSoFar
    <3> QED BY <3>7, <2>2
  <2>8. CASE Starts(seg, i) /\ seg[i].part # "url" /\ ~(seg[i].part = "blank" /\ i = 1)
    <3>1. P[i].protocol = P[i - 1].protocol
      BY <2>2, <2>4, <2>8, <1>2, CallbackKeeps
    <3>2. ~(p + i <= U)
      <4> SUFFICES ASSUME p + i <= U PROVE FALSE
        OBVIOUS
      <4>1. p + i <= 2
        <5> SUFFICES ASSUME ~(p + i <= 2) PROVE FALSE
          OBVIOUS
        <5>1. (p + i) - 2 \in 1..Len(r.url) /\ 2 + ((p + i) - 2) = p + i
          BY <2>2, <1>1, <1>4
        <5>2. B[2 + ((p + i) - 2)] = [part |-> "url", char |-> r.url[(p + i) - 2]]
          BY <5>1, RequestLies
        <5>3. B[p + i].part = "url"
          BY <5>1, <5>2
        <5> QED BY <5>3, <2>2, <2>8, <1>7
      <4>5. p + i \in 1..2
        <5>1. i \in Nat /\ p \in Nat /\ 1 <= i
          BY <2>2, <1>1
        <5> QED BY <5>1, <4>1
      <4>6. 3 \in p + i..p + f(i)
        <5> DEFINE e == f(i)
        <5>1. i \in Nat /\ e \in Nat /\ p \in Nat /\ U \in Nat /\ U >= 3 /\ p + e >= U
          BY <2>2, <1>1, <1>4, <1>7
        <5> HIDE DEF e
        <5>2. 3 \in Nat /\ 3 >= p + i /\ 3 <= p + e
          BY <4>1, <5>1
        <5> QED BY <5>2, <2>2, <1>11 DEF e
      <4>2. 3 \in p + i..p + f(i) /\ p + i \in 1..2
        BY <4>5, <4>6
      <4>3. B[3].part = seg[i].part /\ B[p + i] = seg[i]
        BY <4>2, <2>2, <1>7
      <4> QED BY <4>2, <4>3, <1>5
    <3>3. i # 1
      <4> SUFFICES ASSUME i = 1 PROVE FALSE
        OBVIOUS
      <4>1. p + i = U + 1
        BY <3>2, <1>1, <1>4, <1>6
      <4> QED BY <4>1, <2>2, <2>8, <1>5, <1>7
    <3>4. f(i - 1) = i - 1
      BY <3>3, <2>2, <2>3, <2>8, <1>8
    <3>5. p + f(i - 1) >= U
      BY <3>2, <3>4, <2>2, <1>1, <1>4
    <3>6. P[i - 1].protocol = r.protocol
      BY <3>3, <3>5, <2>3
    <3> QED BY <3>1, <3>6, <2>2
  <2> QED BY <2>5, <2>6, <2>7, <2>8
<1>10. \A i \in 1..Q : i \in Nat
  BY <1>1
<1> QED BY <1>9, <1>10 DEF P, Q, U, f

(* However recv cuts a request, http_request_add_data takes what there was before the read to what there
   is behind it; and what it does to the protocol. *)
LEMMA AddDataReadTo ==
  ASSUME NEW r \in Requests, NEW seg, NEW p, CutFrom(r, seg, p), Len(seg) > 0, NEW req, ReadTo(req, r, p)
  PROVE  /\ ReadTo(AddData(req, seg), r, p + Len(seg))
         /\ p > UrlEnd(r) => AddData(req, seg).protocol = req.protocol
         /\ (p <= UrlEnd(r) /\ p + Len(seg) > UrlEnd(r) + ProtocolSize) =>
              AddData(req, seg).protocol = r.protocol
<1> DEFINE Q == Len(seg)
<1>1. Q \in 1..Q /\ Q \in Nat /\ seg \in Seq(MessageByte) /\ p \in Nat
  <2>1. seg \in Seq(MessageByte) /\ p \in Nat
    BY DEF CutFrom
  <2>2. Q \in Nat
    BY <2>1, LenProperties
  <2> QED BY <2>1, <2>2
<1>2. PieceEnd(seg, Q) = Q
  <2>1. PieceEnd(seg, Q) \in Q..Q
    BY <1>1, PieceEndIs
  <2> QED BY <2>1, <1>1
<1>3. ReadTo(Parsed(req, seg)[Q], r, p + Q)
  <2>1. ReadTo(Parsed(req, seg)[Q], r, p + PieceEnd(seg, Q))
    BY <1>1, ParsedReadTo
  <2> QED BY <2>1, <1>2
<1>4. ASSUME p > UrlEnd(r) PROVE Parsed(req, seg)[Q].protocol = req.protocol
  BY <1>1, <1>4, ProtocolStays
<1>5. ASSUME p <= UrlEnd(r), p + Q > UrlEnd(r) + ProtocolSize PROVE Parsed(req, seg)[Q].protocol = r.protocol
  <2>1. p + PieceEnd(seg, Q) >= UrlEnd(r)
    <3>1. UrlEnd(r) \in Nat /\ ProtocolSize \in Nat
      BY SizesAre
    <3> HIDE DEF Q
    <3> QED BY <3>1, <1>1, <1>2, <1>5
  <2> QED BY <2>1, <1>1, <1>5, ProtocolComes
<1> QED BY <1>3, <1>4, <1>5 DEF AddData

(* The characters a header of an answer can have. *)
Slashless == Letters \ {"/"}

(* The characters of a header's line. *)
LineText(name, value) == ((name \o <<":">>) \o value) \o <<"/">>

(* The characters of bytes that follow each other. *)
LEMMA CharsJoin ==
  ASSUME NEW s \in Seq(MessageByte), NEW t \in Seq(MessageByte)
  PROVE  Chars(s \o t) = Chars(s) \o Chars(t)
<1> DEFINE u == Chars(s \o t)
           v == Chars(s) \o Chars(t)
           m == Len(s)
           n == Len(t)
<1>1. /\ s \o t \in Seq(MessageByte) /\ m \in Nat /\ n \in Nat /\ Len(s \o t) = m + n
      /\ \A i \in 1..m : (s \o t)[i] = s[i]
      /\ \A x \in 1..n : (s \o t)[m + x] = t[x]
  BY ConcatIs
<1>2. /\ Chars(s) \in Seq(Letters) /\ Len(Chars(s)) = m /\ \A i \in 1..m : Chars(s)[i] = s[i].char
      /\ Chars(t) \in Seq(Letters) /\ Len(Chars(t)) = n /\ \A i \in 1..n : Chars(t)[i] = t[i].char
  BY CharsAre
<1>3. /\ u \in Seq(Letters) /\ Len(u) = m + n /\ \A i \in 1..m + n : u[i] = (s \o t)[i].char
  BY <1>1, CharsAre
<1>4. /\ v \in Seq(Letters) /\ Len(v) = m + n
      /\ \A i \in 1..m : v[i] = Chars(s)[i]
      /\ \A x \in 1..n : v[m + x] = Chars(t)[x]
  <2> DEFINE cs == Chars(s)
             ct == Chars(t)
  <2>1. cs \in Seq(Letters) /\ ct \in Seq(Letters) /\ Len(cs) = m /\ Len(ct) = n
    BY <1>2
  <2> HIDE DEF cs, ct, m, n
  <2>2. /\ cs \o ct \in Seq(Letters) /\ Len(cs \o ct) = Len(cs) + Len(ct)
        /\ \A i \in 1..Len(cs) : (cs \o ct)[i] = cs[i]
        /\ \A x \in 1..Len(ct) : (cs \o ct)[Len(cs) + x] = ct[x]
    <3>1. cs \in Seq(Letters) /\ ct \in Seq(Letters)
      BY <2>1
    <3> QED BY <3>1, ConcatIs
  <2>3. v = cs \o ct
    BY DEF cs, ct
  <2> HIDE DEF v
  <2>4. /\ v \in Seq(Letters) /\ Len(v) = m + n
        /\ \A i \in 1..m : v[i] = cs[i]
        /\ \A x \in 1..n : v[m + x] = ct[x]
    BY <2>1, <2>2, <2>3
  <2> QED BY <2>4 DEF cs, ct
<1> HIDE DEF u, v, m, n
<1>5. \A i \in 1..m + n : u[i] = v[i]
  <2> TAKE i \in 1..m + n
  <2>1. CASE i \in 1..m
    <3>1. u[i] = (s \o t)[i].char /\ (s \o t)[i] = s[i]
      BY <2>1, <1>1, <1>3
    <3>2. v[i] = Chars(s)[i] /\ Chars(s)[i] = s[i].char
      BY <2>1, <1>2, <1>4
    <3> QED BY <3>1, <3>2
  <2>2. CASE i \notin 1..m
    <3> DEFINE x == i - m
    <3>1. x \in 1..n /\ m + x = i
      BY <2>2, <1>1
    <3> HIDE DEF x
    <3>2. u[m + x] = (s \o t)[m + x].char /\ (s \o t)[m + x] = t[x]
      BY <3>1, <1>1, <1>3
    <3>3. v[m + x] = Chars(t)[x] /\ Chars(t)[x] = t[x].char
      BY <3>1, <1>2, <1>4
    <3> QED BY <3>1, <3>2, <3>3
  <2> QED BY <2>1, <2>2
<1> QED BY <1>3, <1>4, <1>5, SeqEqual DEF u, v

(* The characters of a text's bytes are the text. *)
LEMMA CharsOf ==
  ASSUME NEW part \in ByteParts, NEW text \in Seq(Letters)
  PROVE  Bytes(part, text) \in Seq(MessageByte) /\ Chars(Bytes(part, text)) = text
<1> DEFINE b == Bytes(part, text)
           n == Len(text)
<1>1. b \in Seq(MessageByte) /\ Len(b) = n /\ \A i \in 1..n : b[i] = [part |-> part, char |-> text[i]]
  BY BytesAre
<1> HIDE DEF b
<1>2. Chars(b) \in Seq(Letters) /\ Len(Chars(b)) = n /\ \A i \in 1..n : Chars(b)[i] = b[i].char
  BY <1>1, CharsAre
<1>3. \A i \in 1..n : Chars(b)[i] = text[i]
  <2> TAKE i \in 1..n
  <2>1. b[i] = [part |-> part, char |-> text[i]]
    BY <1>1
  <2>2. b[i].char = text[i]
    BY <2>1
  <2>3. Chars(b)[i] = b[i].char
    BY <1>1, <1>2
  <2> QED BY <2>2, <2>3
<1>4. Chars(b) = text
  BY <1>2, <1>3, SeqEqual
<1> QED BY <1>1, <1>4 DEF b

(* No line ends in a name or a value. *)
LEMMA WordIs ==
  ASSUME NEW s \in Seq(Slashless)
  PROVE  s \in Seq(Letters) /\ Len(s) \in Nat /\ \A i \in 1..Len(s) : s[i] # "/"
<1>1. s \in Seq(Letters)
  BY SeqMonotonic DEF Slashless
<1>2. Len(s) \in Nat /\ \A i \in 1..Len(s) : s[i] \in Slashless
  BY LenProperties, ElementOfSeq
<1> QED BY <1>1, <1>2 DEF Slashless

(* A header's line: it ends with its only line's end, and begins with its name. *)
LEMMA LineIs ==
  ASSUME NEW name \in Seq(Slashless), NEW value \in Seq(Slashless)
  PROVE  LET l == LineText(name, value) IN
         /\ l \in Seq(Letters) /\ Len(l) \in Nat /\ Len(l) = Len(name) + Len(value) + 2 /\ Len(l) >= 2
         /\ \A i \in 1..Len(l) : l[i] = "/" <=> i = Len(l)
         /\ \A i \in 1..Len(name) : l[i] = name[i]
         /\ HeaderLine(name, value) \in Seq(MessageByte) /\ Chars(HeaderLine(name, value)) = l
<1> DEFINE a == name \o <<":">>
           b == a \o value
           l == b \o <<"/">>
<1>1. /\ name \in Seq(Letters) /\ Len(name) \in Nat /\ \A i \in 1..Len(name) : name[i] # "/"
      /\ value \in Seq(Letters) /\ Len(value) \in Nat /\ \A i \in 1..Len(value) : value[i] # "/"
  BY WordIs
<1>2. /\ <<":">> \in Seq(Letters) /\ Len(<<":">>) = 1 /\ <<":">>[1] = ":"
      /\ <<"/">> \in Seq(Letters) /\ Len(<<"/">>) = 1 /\ <<"/">>[1] = "/"
  BY OneIs DEF Letters
<1> DEFINE colon == <<":">>
           slash == <<"/">>
<1> HIDE DEF colon, slash
<1>3. /\ a \in Seq(Letters) /\ Len(a) = Len(name) + 1 /\ Len(a) \in Nat
      /\ \A i \in 1..Len(name) : a[i] = name[i]
      /\ a[Len(name) + 1] = ":"
  <2>1. /\ name \o colon \in Seq(Letters) /\ Len(name \o colon) = Len(name) + Len(colon)
        /\ \A i \in 1..Len(name) : (name \o colon)[i] = name[i]
        /\ \A x \in 1..Len(colon) : (name \o colon)[Len(name) + x] = colon[x]
    <3>1. name \in Seq(Letters) /\ colon \in Seq(Letters)
      BY <1>1, <1>2 DEF colon
    <3> QED BY <3>1, ConcatIs
  <2>2. Len(colon) = 1 /\ colon[1] = ":"
    BY <1>2 DEF colon
  <2>3. a = name \o colon
    BY DEF colon
  <2> HIDE DEF a
  <2>4. 1 \in 1..Len(colon)
    BY <2>2
  <2>5. a[Len(name) + 1] = ":"
    BY <2>1, <2>2, <2>3, <2>4
  <2> QED BY <2>1, <2>2, <2>3, <2>5, <1>1
<1> HIDE DEF a
<1>4. /\ b \in Seq(Letters) /\ Len(b) = Len(a) + Len(value) /\ Len(b) \in Nat
      /\ \A i \in 1..Len(a) : b[i] = a[i]
      /\ \A x \in 1..Len(value) : b[Len(a) + x] = value[x]
  <2>1. /\ b \in Seq(Letters) /\ Len(b) = Len(a) + Len(value)
        /\ \A i \in 1..Len(a) : b[i] = a[i]
        /\ \A x \in 1..Len(value) : b[Len(a) + x] = value[x]
    <3>1. a \in Seq(Letters) /\ value \in Seq(Letters)
      BY <1>1, <1>3
    <3> QED BY <3>1, ConcatIs
  <2> HIDE DEF b
  <2> QED BY <2>1, <1>1, <1>3
<1> HIDE DEF b
<1>5. /\ l \in Seq(Letters) /\ Len(l) = Len(b) + 1 /\ Len(l) \in Nat
      /\ \A i \in 1..Len(b) : l[i] = b[i]
      /\ l[Len(b) + 1] = "/"
  <2>1. /\ b \o slash \in Seq(Letters) /\ Len(b \o slash) = Len(b) + Len(slash)
        /\ \A i \in 1..Len(b) : (b \o slash)[i] = b[i]
        /\ \A x \in 1..Len(slash) : (b \o slash)[Len(b) + x] = slash[x]
    <3>1. b \in Seq(Letters) /\ slash \in Seq(Letters)
      BY <1>4, <1>2 DEF slash
    <3> QED BY <3>1, ConcatIs
  <2>2. Len(slash) = 1 /\ slash[1] = "/"
    BY <1>2 DEF slash
  <2>3. l = b \o slash
    BY DEF slash
  <2> HIDE DEF l
  <2>4. 1 \in 1..Len(slash)
    BY <2>2
  <2>5. l[Len(b) + 1] = "/"
    BY <2>1, <2>2, <2>3, <2>4
  <2> QED BY <2>1, <2>2, <2>3, <2>5, <1>4
<1> HIDE DEF l
<1>6. Len(l) = Len(name) + Len(value) + 2 /\ Len(l) >= 2
  <2> DEFINE x == Len(name)
             y == Len(value)
  <2>1. x \in Nat /\ y \in Nat /\ Len(l) = ((x + 1) + y) + 1
    BY <1>1, <1>3, <1>4, <1>5
  <2> HIDE DEF x, y
  <2>2. Len(l) = x + y + 2 /\ Len(l) >= 2
    BY <2>1
  <2> QED BY <2>2 DEF x, y
<1>7. \A i \in 1..Len(b) : l[i] # "/"
  <2> TAKE i \in 1..Len(b)
  <2>1. l[i] = b[i]
    BY <1>5
  <2>2. CASE i \in 1..Len(name)
    <3>1. i \in 1..Len(a)
      BY <2>2, <1>1, <1>3
    <3> QED BY <3>1, <2>1, <2>2, <1>1, <1>3, <1>4
  <2>3. CASE i = Len(name) + 1
    <3>1. i \in 1..Len(a) /\ a[i] = ":"
      BY <2>3, <1>1, <1>3
    <3> QED BY <3>1, <2>1, <1>4
  <2>4. CASE i > Len(name) + 1
    <3> DEFINE x == i - Len(a)
    <3>1. x \in 1..Len(value) /\ Len(a) + x = i
      BY <2>4, <1>1, <1>3, <1>4
    <3> HIDE DEF x
    <3>2. b[Len(a) + x] = value[x] /\ value[x] # "/"
      BY <3>1, <1>1, <1>4
    <3> QED BY <3>1, <3>2, <2>1
  <2>5. i \in Nat /\ i >= 1
    BY <1>4
  <2> QED BY <2>2, <2>3, <2>4, <2>5, <1>1
<1>8. \A i \in 1..Len(l) : l[i] = "/" <=> i = Len(l)
  <2> TAKE i \in 1..Len(l)
  <2>1. i \in 1..Len(b) \/ i = Len(b) + 1
    BY <1>4, <1>5
  <2>2. ASSUME i \in 1..Len(b) PROVE i # Len(l)
    BY <2>2, <1>4, <1>5
  <2> QED BY <2>1, <2>2, <1>5, <1>7
<1>9. \A i \in 1..Len(name) : l[i] = name[i]
  <2> TAKE i \in 1..Len(name)
  <2>1. i \in 1..Len(a) /\ i \in 1..Len(b)
    BY <1>1, <1>3, <1>4
  <2> QED BY <2>1, <1>3, <1>4, <1>5
<1>10. HeaderLine(name, value) \in Seq(MessageByte) /\ Chars(HeaderLine(name, value)) = l
  <2> DEFINE bn == Bytes("name", name)
             bc == Bytes("colon", colon)
             bv == Bytes("value", value)
             bl == Bytes("line", slash)
  <2>1. /\ bn \in Seq(MessageByte) /\ Chars(bn) = name
        /\ bc \in Seq(MessageByte) /\ Chars(bc) = colon
        /\ bv \in Seq(MessageByte) /\ Chars(bv) = value
        /\ bl \in Seq(MessageByte) /\ Chars(bl) = slash
    BY <1>1, <1>2, CharsOf DEF ByteParts, colon, slash
  <2>2. HeaderLine(name, value) = ((bn \o bc) \o bv) \o bl
    BY DEF HeaderLine, colon, slash
  <2> HIDE DEF bn, bc, bv, bl
  <2>3. bn \o bc \in Seq(MessageByte) /\ Chars(bn \o bc) = a
    <3>1. bn \in Seq(MessageByte) /\ bc \in Seq(MessageByte)
      BY <2>1
    <3>2. bn \o bc \in Seq(MessageByte) /\ Chars(bn \o bc) = Chars(bn) \o Chars(bc)
      BY <3>1, ConcatIs, CharsJoin
    <3> QED BY <3>2, <2>1 DEF a, colon
  <2>4. (bn \o bc) \o bv \in Seq(MessageByte) /\ Chars((bn \o bc) \o bv) = b
    BY <2>1, <2>3, ConcatIs, CharsJoin DEF b
  <2>5. ((bn \o bc) \o bv) \o bl \in Seq(MessageByte) /\ Chars(((bn \o bc) \o bv) \o bl) = l
    BY <2>1, <2>4, ConcatIs, CharsJoin DEF l, slash
  <2> QED BY <2>2, <2>5
<1>11. LineText(name, value) = l
  BY DEF LineText, l, b, a
<1> QED BY <1>5, <1>6, <1>8, <1>9, <1>10, <1>11

(* The head of an answer: lines, none of them empty, and the last one ended. *)
IsHead(h) == /\ h \in Seq(Letters) /\ Len(h) \in Nat \ {0} /\ h[Len(h)] = "/"
             /\ \A i \in 1..Len(h) - 1 : h[i] # "/" \/ h[i + 1] # "/"

(* What HeaderIn looks for: a line's end and the header's line. *)
LEMMA LineInIs ==
  ASSUME NEW name \in Seq(Slashless), NEW value \in Seq(Slashless)
  PROVE  LET line == <<"/">> \o name \o <<":">> \o value \o <<"/">> IN
         /\ line \in Seq(Letters) /\ Len(line) = Len(LineText(name, value)) + 1
         /\ line[1] = "/"
         /\ \A x \in 1..Len(LineText(name, value)) : line[1 + x] = LineText(name, value)[x]
<1> DEFINE slash == <<"/">>
           colon == <<":">>
           l == LineText(name, value)
           line == (((slash \o name) \o colon) \o value) \o slash
<1>1. name \in Seq(Letters) /\ value \in Seq(Letters)
  BY WordIs
<1>2. slash \in Seq(Letters) /\ colon \in Seq(Letters) /\ Len(slash) = 1 /\ slash[1] = "/"
  BY OneIs DEF Letters
<1>3. <<"/">> \o name \o <<":">> \o value \o <<"/">> = line
  OBVIOUS
<1>4. l = ((name \o colon) \o value) \o slash
  BY DEF LineText
<1> HIDE DEF slash, colon
<1>5. name \o colon \in Seq(Letters)
  BY <1>1, <1>2, ConcatProperties
<1>6. (name \o colon) \o value \in Seq(Letters)
  BY <1>1, <1>5, ConcatProperties
<1>7. l \in Seq(Letters)
  BY <1>2, <1>4, <1>6, ConcatProperties
<1>8. (slash \o name) \o colon = slash \o (name \o colon)
  BY <1>1, <1>2, ConcatAssociative
<1>9. (slash \o (name \o colon)) \o value = slash \o ((name \o colon) \o value)
  <2> DEFINE nc == name \o colon
  <2>1. slash \in Seq(Letters) /\ nc \in Seq(Letters) /\ value \in Seq(Letters)
    BY <1>1, <1>2, <1>5
  <2> HIDE DEF nc
  <2>2. (slash \o nc) \o value = slash \o (nc \o value)
    BY <2>1, ConcatAssociative
  <2> QED BY <2>2 DEF nc
<1>10. (slash \o ((name \o colon) \o value)) \o slash = slash \o (((name \o colon) \o value) \o slash)
  <2> DEFINE ncv == (name \o colon) \o value
  <2>1. slash \in Seq(Letters) /\ ncv \in Seq(Letters)
    BY <1>2, <1>6
  <2> HIDE DEF ncv
  <2>2. (slash \o ncv) \o slash = slash \o (ncv \o slash)
    BY <2>1, ConcatAssociative
  <2> QED BY <2>2 DEF ncv
<1>11. line = slash \o l
  BY <1>4, <1>8, <1>9, <1>10
<1> HIDE DEF l, line
<1>12. /\ slash \o l \in Seq(Letters) /\ Len(slash \o l) = Len(slash) + Len(l)
       /\ Len(slash) \in Nat /\ Len(l) \in Nat
       /\ \A i \in 1..Len(slash) : (slash \o l)[i] = slash[i]
       /\ \A x \in 1..Len(l) : (slash \o l)[Len(slash) + x] = l[x]
  <2>1. slash \in Seq(Letters) /\ l \in Seq(Letters)
    BY <1>2, <1>7
  <2> QED BY <2>1, ConcatIs
<1>13. /\ line \in Seq(Letters) /\ Len(line) = Len(l) + 1
       /\ line[1] = "/"
       /\ \A x \in 1..Len(l) : line[1 + x] = l[x]
  BY <1>2, <1>11, <1>12
<1> QED BY <1>3, <1>13 DEF l

(* A header is in a head where its line follows a line's end ... *)
LEMMA HeaderThere ==
  ASSUME NEW name \in Seq(Slashless), NEW value \in Seq(Slashless), NEW head \in Seq(Letters),
         NEW i \in Nat \ {0}, i + Len(LineText(name, value)) <= Len(head), head[i] = "/",
         \A x \in 1..Len(LineText(name, value)) : head[i + x] = LineText(name, value)[x]
  PROVE  HeaderIn(head, name, value)
<1> DEFINE l == LineText(name, value)
           line == <<"/">> \o name \o <<":">> \o value \o <<"/">>
           n == Len(l)
           e == i + Len(line) - 1
           s == SubSeq(head, i, e)
<1>1. /\ line \in Seq(Letters) /\ Len(line) = n + 1
      /\ line[1] = "/" /\ \A x \in 1..n : line[1 + x] = l[x]
  BY LineInIs
<1>2. n \in Nat /\ Len(head) \in Nat /\ \A k \in 1..Len(head) : head[k] \in Letters
  BY LineIs, LenProperties, ElementOfSeq
<1> HIDE DEF line
<1>3. i + n <= Len(head) /\ head[i] = "/" /\ \A x \in 1..n : head[i + x] = l[x]
  OBVIOUS
<1> HIDE DEF n
<1>4. e = i + n
  BY <1>1, <1>2
<1> HIDE DEF e
<1>5. \A k \in i..e : head[k] \in Letters
  BY <1>2, <1>3, <1>4
<1>6. e \in Int /\ i \in Int /\ i <= e /\ (e - i) + 1 = n + 1
  BY <1>2, <1>4
<1>7. /\ s \in Seq(Letters) /\ Len(s) = n + 1
      /\ \A k \in 1..n + 1 : s[k] = head[(i + k) - 1]
  <2>1. /\ s \in Seq(Letters) /\ Len(s) = (IF i <= e THEN e - i + 1 ELSE 0)
        /\ \A k \in 1..(e - i + 1) : s[k] = head[i + k - 1]
    BY <1>5, <1>6, SubSeqProperties
  <2> HIDE DEF s
  <2>2. e - i + 1 = n + 1
    BY <1>2, <1>4
  <2> QED BY <2>1, <2>2, <1>6
<1> HIDE DEF s
<1>8. \A k \in 1..n + 1 : s[k] = line[k]
  <2> TAKE k \in 1..n + 1
  <2>1. CASE k = 1
    <3>1. (i + k) - 1 = i /\ 1 \in 1..n + 1
      BY <2>1, <1>2
    <3> QED BY <3>1, <2>1, <1>1, <1>3, <1>7
  <2>2. CASE k # 1
    <3> DEFINE x == k - 1
    <3>1. x \in 1..n /\ 1 + x = k /\ (i + k) - 1 = i + x
      BY <2>2, <1>2
    <3> HIDE DEF x
    <3> QED BY <3>1, <1>1, <1>3, <1>7
  <2> QED BY <2>1, <2>2
<1>9. s = line
  <2>1. s \in Seq(Letters) /\ line \in Seq(Letters) /\ Len(s) = Len(line) /\ Len(s) = n + 1
    BY <1>1, <1>7
  <2>2. \A k \in 1..Len(s) : s[k] = line[k]
    BY <2>1, <1>8
  <2> QED BY <2>1, <2>2, SeqEqual
<1>10. i \in 1..(Len(head) - Len(line) + 1)
  <2> DEFINE m == Len(head)
             k == Len(line)
  <2>1. m \in Nat /\ k = n + 1 /\ i + n <= m
    BY <1>1, <1>2, <1>3
  <2> HIDE DEF m, k
  <2>2. i \in 1..(m - k + 1)
    BY <2>1, <1>2
  <2> QED BY <2>2 DEF m, k
<1> QED BY <1>9, <1>10, Zenon DEF s, e, line, HeaderIn

(* ... and only there. *)
LEMMA HeaderFound ==
  ASSUME NEW name \in Seq(Slashless), NEW value \in Seq(Slashless), NEW head \in Seq(Letters),
         HeaderIn(head, name, value)
  PROVE  \E i \in Nat \ {0} :
           /\ i + Len(LineText(name, value)) <= Len(head) /\ head[i] = "/"
           /\ \A x \in 1..Len(LineText(name, value)) : head[i + x] = LineText(name, value)[x]
<1> DEFINE l == LineText(name, value)
           line == <<"/">> \o name \o <<":">> \o value \o <<"/">>
           n == Len(l)
<1>1. /\ line \in Seq(Letters) /\ Len(line) = n + 1
      /\ line[1] = "/" /\ \A x \in 1..n : line[1 + x] = l[x]
  BY LineInIs
<1>2. n \in Nat /\ Len(head) \in Nat /\ \A k \in 1..Len(head) : head[k] \in Letters
  BY LineIs, LenProperties, ElementOfSeq
<1>3. PICK i \in 1..(Len(head) - Len(line) + 1) : SubSeq(head, i, i + Len(line) - 1) = line
  BY Zenon DEF HeaderIn
<1> HIDE DEF line, n
<1> DEFINE e == i + Len(line) - 1
           s == SubSeq(head, i, e)
           m == Len(head)
<1>4. e = i + n /\ i \in Nat \ {0} /\ i + n <= m
  BY <1>1, <1>2
<1>5. s = line
  BY <1>3
<1> HIDE DEF e, m
<1>6. \A k \in i..e : head[k] \in Letters
  BY <1>2, <1>4 DEF m
<1>7. e \in Int /\ i \in Int
  BY <1>2, <1>4
<1>8. \A k \in 1..n + 1 : s[k] = head[(i + k) - 1]
  <2>1. \A k \in 1..(e - i + 1) : s[k] = head[i + k - 1]
    BY <1>6, <1>7, SubSeqProperties
  <2> HIDE DEF s
  <2>2. e - i + 1 = n + 1
    BY <1>2, <1>4
  <2> QED BY <2>1, <2>2, <1>4, <1>2
<1> HIDE DEF s
<1>9. head[i] = "/"
  <2>1. 1 \in 1..n + 1 /\ (i + 1) - 1 = i
    BY <1>2, <1>4
  <2> QED BY <2>1, <1>8, <1>5, <1>1
<1>10. \A x \in 1..n : head[i + x] = l[x]
  <2> TAKE x \in 1..n
  <2>1. 1 + x \in 1..n + 1 /\ (i + (1 + x)) - 1 = i + x
    BY <1>2, <1>4
  <2> QED BY <2>1, <1>8, <1>5, <1>1
<1> QED BY <1>4, <1>9, <1>10 DEF n, m

(* What follows a head takes none of its headers away. *)
LEMMA HeaderStaysIn ==
  ASSUME NEW name \in Seq(Slashless), NEW value \in Seq(Slashless), NEW h \in Seq(Letters),
         NEW t \in Seq(Letters), HeaderIn(h, name, value)
  PROVE  HeaderIn(h \o t, name, value)
<1> DEFINE l == LineText(name, value)
           n == Len(l)
           m == Len(h)
           X == h \o t
<1>1. PICK i \in Nat \ {0} : /\ i + n <= m /\ h[i] = "/"
                             /\ \A x \in 1..n : h[i + x] = l[x]
  BY HeaderFound
<1>2. n \in Nat
  BY LineIs
<1>3. /\ X \in Seq(Letters) /\ m \in Nat /\ Len(t) \in Nat /\ Len(X) = m + Len(t)
      /\ \A k \in 1..m : X[k] = h[k]
  BY ConcatIs
<1> HIDE DEF X, m, n
<1>4. i + n <= Len(X) /\ X[i] = "/"
  <2>1. i \in 1..m
    BY <1>1, <1>2, <1>3
  <2>2. i + n <= Len(X)
    BY <1>1, <1>2, <1>3
  <2> QED BY <2>1, <2>2, <1>1, <1>3
<1>5. \A x \in 1..n : X[i + x] = l[x]
  <2> TAKE x \in 1..n
  <2>1. i + x \in 1..m
    BY <1>1, <1>2, <1>3
  <2> QED BY <2>1, <1>1, <1>3
<1>6. HeaderIn(X, name, value)
  BY <1>3, <1>4, <1>5, HeaderThere DEF n
<1> QED BY <1>6 DEF X

(* http_response_add_header leaves a head, with the header in it. *)
LEMMA HeadGrows ==
  ASSUME NEW name \in Seq(Slashless), NEW value \in Seq(Slashless), NEW h, IsHead(h)
  PROVE  IsHead(h \o LineText(name, value)) /\ HeaderIn(h \o LineText(name, value), name, value)
<1> DEFINE l == LineText(name, value)
           n == Len(l)
           m == Len(h)
           X == h \o l
<1>1. /\ l \in Seq(Letters) /\ n \in Nat /\ n >= 2
      /\ \A i \in 1..n : l[i] = "/" <=> i = n
  BY LineIs
<1>2. /\ h \in Seq(Letters) /\ m \in Nat \ {0} /\ h[m] = "/"
      /\ \A i \in 1..m - 1 : h[i] # "/" \/ h[i + 1] # "/"
  BY DEF IsHead
<1>3. /\ X \in Seq(Letters) /\ Len(X) = m + n
      /\ \A i \in 1..m : X[i] = h[i]
      /\ \A x \in 1..n : X[m + x] = l[x]
  <2>1. h \in Seq(Letters) /\ l \in Seq(Letters)
    BY <1>1, <1>2
  <2> QED BY <2>1, ConcatIs
<1> HIDE DEF X, m, n, l
<1>4. X[Len(X)] = "/" /\ Len(X) \in Nat \ {0}
  <2>1. n \in 1..n /\ m + n \in Nat \ {0}
    BY <1>1, <1>2
  <2> QED BY <2>1, <1>1, <1>3
<1>5. \A i \in 1..Len(X) - 1 : X[i] # "/" \/ X[i + 1] # "/"
  <2> TAKE i \in 1..Len(X) - 1
  <2>0. i \in Nat /\ i >= 1 /\ i < m + n
    BY <1>1, <1>2, <1>3
  <2>1. CASE i < m
    <3>1. i \in 1..m - 1 /\ i \in 1..m /\ i + 1 \in 1..m
      BY <2>0, <2>1, <1>2
    <3> QED BY <3>1, <1>2, <1>3
  <2>2. CASE i = m
    <3>1. 1 \in 1..n /\ 1 # n /\ i + 1 = m + 1
      BY <2>2, <1>1
    <3> QED BY <3>1, <1>1, <1>3
  <2>3. CASE i > m
    <3> DEFINE x == i - m
    <3>1. x \in 1..n /\ x # n /\ m + x = i
      BY <2>0, <2>3, <1>1, <1>2
    <3> HIDE DEF x
    <3> QED BY <3>1, <1>1, <1>3
  <2> QED BY <2>0, <2>1, <2>2, <2>3, <1>2
<1>6. HeaderIn(X, name, value)
  <2>1. m + Len(l) <= Len(X) /\ X[m] = "/" /\ m \in Nat \ {0}
    <3>1. m \in 1..m
      BY <1>2
    <3> QED BY <3>1, <1>1, <1>2, <1>3 DEF n
  <2>2. \A x \in 1..Len(l) : X[m + x] = l[x]
    BY <1>3 DEF n
  <2> QED BY <2>1, <2>2, <1>3, HeaderThere DEF l
<1> QED BY <1>3, <1>4, <1>5, <1>6 DEF X, l, IsHead

(* The client finds the end of the head at the blank line, and not before it. *)
LEMMA HeadEndIs ==
  ASSUME NEW h, IsHead(h), NEW t \in Seq(Letters)
  PROVE  LET X == (h \o <<"/">>) \o t IN
         /\ X \in Seq(Letters) /\ Len(X) \in Nat /\ Len(h) <= Len(X)
         /\ HeadEnd(X) = Len(h)
         /\ SubSeq(X, 1, Len(h)) = h
         /\ SubSeq(X, Len(h) + 2, Len(X)) = t
<1> DEFINE slash == <<"/">>
           g == h \o slash
           X == g \o t
           m == Len(h)
           n == Len(t)
<1>1. /\ h \in Seq(Letters) /\ m \in Nat \ {0} /\ h[m] = "/"
      /\ \A i \in 1..m - 1 : h[i] # "/" \/ h[i + 1] # "/"
  BY DEF IsHead
<1>2. slash \in Seq(Letters) /\ Len(slash) = 1 /\ slash[1] = "/"
  BY OneIs DEF Letters
<1> HIDE DEF slash
<1>3. /\ g \in Seq(Letters) /\ Len(g) = m + 1
      /\ \A i \in 1..m : g[i] = h[i]
      /\ g[m + 1] = "/"
  <2>1. h \in Seq(Letters) /\ slash \in Seq(Letters)
    BY <1>1, <1>2
  <2>2. /\ g \in Seq(Letters) /\ Len(g) = m + Len(slash)
        /\ \A i \in 1..m : g[i] = h[i]
        /\ \A x \in 1..Len(slash) : g[m + x] = slash[x]
    BY <2>1, ConcatIs
  <2> HIDE DEF g, m
  <2> QED BY <2>2, <1>2
<1> HIDE DEF g
<1>4. /\ X \in Seq(Letters) /\ Len(X) = (m + 1) + n /\ n \in Nat
      /\ \A i \in 1..m + 1 : X[i] = g[i]
      /\ \A x \in 1..n : X[(m + 1) + x] = t[x]
  <2>1. g \in Seq(Letters) /\ t \in Seq(Letters)
    BY <1>3
  <2>2. /\ X \in Seq(Letters) /\ Len(X) = Len(g) + n /\ n \in Nat
        /\ \A i \in 1..Len(g) : X[i] = g[i]
        /\ \A x \in 1..n : X[Len(g) + x] = t[x]
    BY <2>1, ConcatIs
  <2> HIDE DEF X, m, n
  <2> QED BY <2>2, <1>3
<1> HIDE DEF X, m, n
<1>5. \A i \in 1..m : X[i] = h[i]
  <2> TAKE i \in 1..m
  <2>1. i \in 1..m + 1
    BY <1>1
  <2> QED BY <2>1, <1>3, <1>4
<1>6. X[m + 1] = "/" /\ X[m] = "/"
  <2>1. m + 1 \in 1..m + 1 /\ m \in 1..m
    BY <1>1
  <2> QED BY <2>1, <1>1, <1>3, <1>4, <1>5
<1>7. Len(X) \in Nat /\ m <= Len(X) /\ m \in 1..Len(X) - 1
  BY <1>1, <1>4
<1>8. HeadEnd(X) = m
  <2> DEFINE ends == {i \in 1..(Len(X) - 1) : X[i] = "/" /\ X[i + 1] = "/"}
  <2>1. m \in ends
    BY <1>6, <1>7
  <2>2. \A i \in ends : m <= i
    <3> TAKE i \in ends
    <3> SUFFICES ASSUME ~(m <= i) PROVE FALSE
      OBVIOUS
    <3>1. i \in Nat /\ i >= 1 /\ X[i] = "/" /\ X[i + 1] = "/"
      BY <1>7
    <3>2. i \in 1..m - 1 /\ i \in 1..m /\ i + 1 \in 1..m
      BY <3>1, <1>1
    <3> QED BY <3>1, <3>2, <1>1, <1>5
  <2>3. \A i \in ends : i \in Nat
    BY <1>7
  <2> HIDE DEF ends
  <2>4. Min(ends) = m
    <3> DEFINE Least(x) == x \in ends /\ \A y \in ends : x <= y
    <3>1. Least(m)
      BY <2>1, <2>2
    <3>2. \A x : Least(x) => x = m
      BY <2>1, <2>2, <2>3
    <3>3. Min(ends) = CHOOSE x \in ends : \A y \in ends : x <= y
      BY Zenon DEF Min
    <3>4. Min(ends) \in ends /\ \A y \in ends : Min(ends) <= y
      BY <3>1, <3>3, Zenon
    <3> QED BY <3>2, <3>4
  <2>5. ends # {}
    BY <2>1
  <2>6. HeadEnd(X) = IF ends = {} THEN Len(X) + 1 ELSE Min(ends)
    BY Zenon DEF HeadEnd, ends
  <2> QED BY <2>4, <2>5, <2>6
<1>9. SubSeq(X, 1, m) = h
  <2> DEFINE s == SubSeq(X, 1, m)
  <2>1. /\ s \in Seq(Letters) /\ Len(s) = m
        /\ \A k \in 1..m : s[k] = X[k]
    <3>1. \A k \in 1..m : X[k] \in Letters
      BY <1>1, <1>5, ElementOfSeq DEF m
    <3>2. 1 \in Int /\ m \in Int /\ 1 <= m /\ m - 1 + 1 = m /\ \A k \in 1..m : (1 + k) - 1 = k
      BY <1>1
    <3>3. /\ s \in Seq(Letters) /\ Len(s) = (IF 1 <= m THEN m - 1 + 1 ELSE 0)
          /\ \A k \in 1..m - 1 + 1 : s[k] = X[1 + k - 1]
      BY <3>1, <3>2, SubSeqProperties
    <3> HIDE DEF s
    <3> QED BY <3>2, <3>3
  <2> HIDE DEF s
  <2>2. s = h
    BY <2>1, <1>1, <1>5, SeqEqual DEF m
  <2> QED BY <2>2 DEF s
<1>10. SubSeq(X, m + 2, Len(X)) = t
  <2> DEFINE a == m + 2
             z == Len(X)
             s == SubSeq(X, a, z)
  <2>1. a \in Nat /\ z \in Nat /\ z - a + 1 = n /\ z = (m + 1) + n /\ a = (m + 1) + 1
    BY <1>1, <1>4
  <2>2. \A k \in a..z : X[k] \in Letters
    <3>1. \A k \in 1..z : X[k] \in Letters
      BY <1>4, ElementOfSeq
    <3>2. \A k \in a..z : k \in 1..z
      BY <2>1, <1>1
    <3> QED BY <3>1, <3>2
  <2>3. \A k \in 1..n : (a + k) - 1 = (m + 1) + k
    BY <2>1, <1>1, <1>4
  <2> HIDE DEF a, z
  <2>4. /\ s \in Seq(Letters) /\ Len(s) = (IF a <= z THEN z - a + 1 ELSE 0)
        /\ \A k \in 1..z - a + 1 : s[k] = X[a + k - 1]
    <3>1. a \in Int /\ z \in Int
      BY <2>1
    <3> QED BY <3>1, <2>2, SubSeqProperties
  <2> HIDE DEF s
  <2>5. Len(s) = n
    BY <2>1, <2>4, <1>1, <1>4
  <2>6. \A k \in 1..n : s[k] = t[k]
    <3> TAKE k \in 1..n
    <3>2. a + k - 1 = (a + k) - 1 /\ k \in 1..z - a + 1
      BY <2>1, <1>4
    <3>1. s[k] = X[(a + k) - 1]
      BY <3>2, <2>4
    <3> QED BY <3>1, <2>3, <1>4
  <2>7. s = t
    BY <2>4, <2>5, <2>6, SeqEqual DEF n
  <2> QED BY <2>7 DEF s, a, z
<1> QED BY <1>4, <1>7, <1>8, <1>9, <1>10 DEF X, g, slash, m

(* The first k headers are in the text. *)
HeadersThere(text, headers, k) == \A j \in 1..k : HeaderIn(text, headers[j][1], headers[j][2])

(* What MessageAssumption says of an answer. *)
LEMMA AnswerIs ==
  ASSUME NEW a \in Answers
  PROVE  /\ a.headers \in Seq(Seq(Slashless) \X Seq(Slashless))
         /\ Len(a.headers) \in Nat
         /\ \A k \in 1..Len(a.headers) : a.headers[k][1] \in Seq(Slashless) /\ a.headers[k][2] \in Seq(Slashless)
         /\ a.body \in Seq(Letters) /\ Digits(Len(a.body)) \in Seq(Slashless)
<1> DEFINE W == Seq(Characters \ {"/"})
<1>1. a.headers \in Seq(W \X W) /\ a.body \in Seq(Characters) /\ Numerals[Len(a.body)] \in W
  BY MessageAssumption
<1>2. W \subseteq Seq(Slashless)
  BY SeqMonotonic DEF Slashless, Letters
<1> HIDE DEF W
<1>3. W \X W \subseteq Seq(Slashless) \X Seq(Slashless)
  BY <1>2
<1>4. a.headers \in Seq(Seq(Slashless) \X Seq(Slashless))
  BY <1>1, <1>3, SeqMonotonic
<1>5. /\ Len(a.headers) \in Nat
      /\ \A k \in 1..Len(a.headers) : a.headers[k] \in Seq(Slashless) \X Seq(Slashless)
  BY <1>4, LenProperties, ElementOfSeq
<1> QED BY <1>1, <1>2, <1>4, <1>5, TextIs DEF Digits

(* http_response_init and the handler's headers make a head with all of them. *)
LEMMA ResponseIs ==
  ASSUME NEW a \in Answers
  PROVE  /\ Response(a) \in Seq(MessageByte) /\ IsHead(Chars(Response(a)))
         /\ HeadersThere(Chars(Response(a)), a.headers, Len(a.headers))
<1> DEFINE K == Len(a.headers)
           line(k) == HeaderLine(a.headers[k][1], a.headers[k][2])
           text(k) == LineText(a.headers[k][1], a.headers[k][2])
           lines == [k \in 1..K |-> line(k)]
           status == Bytes("status", <<"200", "/">>)
           J(k) == Joined(lines)[k]
           D(k) == status \o J(k)
           Good(k) == /\ D(k) \in Seq(MessageByte) /\ IsHead(Chars(D(k)))
                      /\ HeadersThere(Chars(D(k)), a.headers, k)
           Bad == {k \in Nat : k \in 0..K /\ ~Good(k)}
<1>1. /\ K \in Nat
      /\ \A k \in 1..K : a.headers[k][1] \in Seq(Slashless) /\ a.headers[k][2] \in Seq(Slashless)
  BY AnswerIs
<1>2. \A k \in 1..K : /\ line(k) \in Seq(MessageByte) /\ Chars(line(k)) = text(k)
                      /\ text(k) \in Seq(Letters)
  BY <1>1, LineIs
<1>3. lines \in Seq(Seq(MessageByte)) /\ Len(lines) = K /\ \A k \in 1..K : lines[k] = line(k)
  <2>1. lines \in [1..K -> Seq(MessageByte)]
    BY <1>2
  <2>2. lines \in Seq(Seq(MessageByte))
    BY <2>1, <1>1, SeqDef
  <2>3. DOMAIN lines = 1..K
    OBVIOUS
  <2>4. Len(lines) = K
    BY <2>2, <2>3, <1>1, LenProperties
  <2> QED BY <2>2, <2>4
<1> HIDE DEF lines
<1>4. /\ J(0) = <<>>
      /\ \A k \in 1..K : J(k) = J(k - 1) \o line(k)
      /\ \A k \in 0..K : J(k) \in Seq(MessageByte)
  BY <1>3, JoinedIs
<1>5. status \in Seq(MessageByte) /\ Chars(status) = <<"200", "/">>
  <2>1. <<"200", "/">> \in Seq(Letters)
    BY DEF Letters
  <2> QED BY <2>1, CharsOf DEF ByteParts
<1>6. IsHead(<<"200", "/">>)
  <2> DEFINE s == <<"200", "/">>
  <2>1. s \in Seq(Letters) /\ Len(s) = 2 /\ s[1] = "200" /\ s[2] = "/"
    BY DEF Letters
  <2> HIDE DEF s
  <2>2. \A i \in 1..Len(s) - 1 : s[i] # "/"
    <3>1. \A i \in 1..Len(s) - 1 : i = 1
      BY <2>1
    <3> QED BY <2>1, <3>1
  <2>3. IsHead(s)
    BY <2>1, <2>2 DEF IsHead
  <2> QED BY <2>3 DEF s
<1>7. Good(0)
  <2>1. D(0) = status
    BY <1>4, <1>5, ConcatEmptySeq
  <2>2. HeadersThere(Chars(D(0)), a.headers, 0)
    BY DEF HeadersThere
  <2> QED BY <2>1, <2>2, <1>5, <1>6
<1> HIDE DEF status, J, K
<1>8. \A k \in 1..K : Good(k - 1) => Good(k)
  <2> TAKE k \in 1..K
  <2> DEFINE l == line(k)
             d == D(k - 1)
             name == a.headers[k][1]
             value == a.headers[k][2]
  <2>1. /\ name \in Seq(Slashless) /\ value \in Seq(Slashless)
        /\ l \in Seq(MessageByte) /\ Chars(l) = LineText(name, value) /\ LineText(name, value) \in Seq(Letters)
    BY <1>1, <1>2
  <2>2. D(k) = d \o l
    <3>1. k - 1 \in 0..K
      BY <1>1
    <3>2. status \in Seq(MessageByte) /\ J(k - 1) \in Seq(MessageByte)
      BY <3>1, <1>4, <1>5
    <3>3. J(k) = J(k - 1) \o l
      BY <1>4
    <3>4. D(k) = status \o (J(k - 1) \o l)
      BY <3>3
    <3> HIDE DEF l
    <3> DEFINE j == J(k - 1)
    <3>6. status \in Seq(MessageByte) /\ j \in Seq(MessageByte) /\ l \in Seq(MessageByte)
      BY <3>2, <2>1
    <3> HIDE DEF j
    <3>7. (status \o j) \o l = status \o (j \o l)
      BY <3>6, ConcatAssociative, SMTT(30)
    <3>5. (status \o J(k - 1)) \o l = status \o (J(k - 1) \o l)
      BY <3>7 DEF j
    <3> QED BY <3>4, <3>5
  <2> HAVE Good(k - 1)
  <2>3. d \in Seq(MessageByte) /\ IsHead(Chars(d)) /\ HeadersThere(Chars(d), a.headers, k - 1)
    OBVIOUS
  <2> HIDE DEF d, l, D
  <2>4. D(k) \in Seq(MessageByte) /\ Chars(D(k)) = Chars(d) \o LineText(name, value)
    <3>1. d \in Seq(MessageByte) /\ l \in Seq(MessageByte)
      BY <2>1, <2>3
    <3>2. d \o l \in Seq(MessageByte) /\ Chars(d \o l) = Chars(d) \o Chars(l)
      BY <3>1, CharsJoin, ConcatProperties
    <3> QED BY <3>2, <2>1, <2>2
  <2>5. IsHead(Chars(D(k))) /\ HeaderIn(Chars(D(k)), name, value)
    BY <2>1, <2>3, <2>4, HeadGrows
  <2>6. HeadersThere(Chars(D(k)), a.headers, k)
    <3> SUFFICES ASSUME NEW j \in 1..k PROVE HeaderIn(Chars(D(k)), a.headers[j][1], a.headers[j][2])
      BY DEF HeadersThere
    <3>1. CASE j = k
      BY <3>1, <2>5
    <3>2. CASE j # k
      <4>1. j \in 1..k - 1 /\ j \in 1..K
        BY <3>2, <1>1
      <4>2. HeaderIn(Chars(d), a.headers[j][1], a.headers[j][2])
        BY <4>1, <2>3 DEF HeadersThere
      <4>3. Chars(d) \in Seq(Letters) /\ LineText(name, value) \in Seq(Letters)
        BY <2>1, <2>3, CharsAre
      <4>4. a.headers[j][1] \in Seq(Slashless) /\ a.headers[j][2] \in Seq(Slashless)
        BY <4>1, <1>1
      <4> QED BY <4>2, <4>3, <4>4, <2>4, HeaderStaysIn
    <3> QED BY <3>1, <3>2
  <2> QED BY <2>4, <2>5, <2>6 DEF D
<1> HIDE DEF Good
<1>9. Bad = {}
  <2> SUFFICES ASSUME Bad # {} PROVE FALSE
    OBVIOUS
  <2>1. PICK k \in Bad : \A j \in Bad : k <= j
    BY LeastNumber
  <2>2. k \in Nat /\ k \in 0..K /\ ~Good(k)
    BY <2>1
  <2>3. k # 0
    BY <2>2, <1>7
  <2>4. k \in 1..K /\ k - 1 \in Nat /\ k - 1 \in 0..K /\ ~(k <= k - 1)
    BY <2>2, <2>3, <1>1
  <2>5. k - 1 \notin Bad
    <3> HIDE DEF Bad
    <3> QED BY <2>1, <2>4
  <2> QED BY <2>2, <2>4, <2>5, <1>8
<1>10. Good(K)
  BY <1>1, <1>9
<1>11. Response(a) = D(K)
  <2>1. Response(a) = Bytes("status", <<"200", "/">>) \o Joined(lines)[Len(lines)]
    BY Zenon DEF Response, lines, K
  <2> QED BY <2>1, <1>3 DEF status, J
<1> QED BY <1>10, <1>11 DEF Good, K

(* http_response_finish sees a Content-Type that was set. *)
LEMMA TypeIsTold ==
  ASSUME NEW data \in Seq(MessageByte), NEW value \in Seq(Slashless), HeaderIn(Chars(data), ContentType, value)
  PROVE  HasType(data)
<1> DEFINE name == ContentType
           l == LineText(name, value)
           c == Chars(data)
           m == Len(data)
<1>1. name \in Seq(Slashless) /\ Len(name) = 1 /\ name[1] = "T"
  BY OneIs DEF ContentType, Slashless, Letters
<1>2. c \in Seq(Letters) /\ Len(c) = m /\ m \in Nat /\ \A i \in 1..m : c[i] = data[i].char /\ data[i] \in MessageByte
  BY CharsAre, ElementOfSeq, LenProperties
<1>3. PICK i \in Nat \ {0} : /\ i + Len(l) <= Len(c) /\ c[i] = "/"
                             /\ \A x \in 1..Len(l) : c[i + x] = l[x]
  BY <1>1, <1>2, HeaderFound
<1>4. Len(l) \in Nat /\ Len(l) >= 2 /\ \A x \in 1..Len(name) : l[x] = name[x]
  BY <1>1, LineIs
<1> HIDE DEF l, c, m, name
<1> DEFINE k == i + 1
           s == SubSeq(data, k, k)
<1>5. k \in 1..m /\ k \in 1..m - 1 /\ 1 \in 1..Len(l) /\ 1 \in 1..Len(name)
  BY <1>1, <1>2, <1>3, <1>4
<1>6. c[k] = "T"
  BY <1>1, <1>3, <1>4, <1>5
<1>7. k \in Int /\ data[k] \in MessageByte /\ data[k].char = "T"
  BY <1>2, <1>5, <1>6
<1> HIDE DEF k
<1>8. s \in Seq(MessageByte) /\ Len(s) = 1 /\ s[1] = data[k]
  <2>1. \A j \in k..k : data[j] \in MessageByte
    BY <1>7
  <2>2. /\ s \in Seq(MessageByte) /\ Len(s) = (IF k <= k THEN k - k + 1 ELSE 0)
        /\ \A j \in 1..k - k + 1 : s[j] = data[k + j - 1]
    BY <1>7, <2>1, SubSeqProperties
  <2> HIDE DEF s
  <2>3. 1 \in 1..k - k + 1 /\ k + 1 - 1 = k /\ k - k + 1 = 1 /\ k <= k
    BY <1>7
  <2> QED BY <2>2, <2>3
<1> HIDE DEF s
<1>9. Chars(s) = <<"T">>
  <2>1. Chars(s) \in Seq(Letters) /\ Len(Chars(s)) = 1 /\ Chars(s)[1] = "T"
    <3>1. Chars(s) \in Seq(Letters) /\ Len(Chars(s)) = Len(s) /\ \A j \in 1..Len(s) : Chars(s)[j] = s[j].char
      BY <1>8, CharsAre
    <3>2. 1 \in 1..Len(s)
      BY <1>8
    <3> QED BY <3>1, <3>2, <1>7, <1>8
  <2> DEFINE t == <<"T">>
             u == Chars(s)
  <2>2. t \in Seq(Letters) /\ Len(t) = 1 /\ t[1] = "T"
    BY OneIs DEF Letters
  <2> HIDE DEF t, u
  <2>3. u \in Seq(Letters) /\ Len(u) = Len(t) /\ \A j \in 1..Len(u) : u[j] = t[j]
    BY <2>1, <2>2 DEF u
  <2>4. u = t
    BY <2>2, <2>3, SeqEqual
  <2> QED BY <2>4 DEF u, t
<1>10. k \in 1..(Len(data) - Len(ContentType)) /\ k + Len(ContentType) - 1 = k
  BY <1>1, <1>5, <1>7 DEF m, name
<1> QED BY <1>9, <1>10, Zenon DEF HasType, s, ContentType

(* What http_response_finish makes is, to the client, the answer of the handler. *)
LEMMA AnswerWhole ==
  ASSUME NEW a \in Answers
  PROVE  /\ FinishResponse(Response(a), a.body) \in Seq(MessageByte)
         /\ IsAnswer(Chars(FinishResponse(Response(a), a.body)), a)
<1> DEFINE K == Len(a.headers)
           data == Response(a)
           d == Chars(data)
           digits == Digits(Len(a.body))
           slash == <<"/">>
           F == FinishResponse(data, a.body)
<1>1. /\ K \in Nat
      /\ \A k \in 1..K : a.headers[k][1] \in Seq(Slashless) /\ a.headers[k][2] \in Seq(Slashless)
      /\ a.body \in Seq(Letters) /\ digits \in Seq(Slashless)
  BY AnswerIs
<1>2. data \in Seq(MessageByte) /\ IsHead(d) /\ HeadersThere(d, a.headers, K) /\ d \in Seq(Letters)
  BY ResponseIs, CharsAre
<1>3. BlankLine \in Seq(MessageByte) /\ Chars(BlankLine) = slash /\ slash \in Seq(Letters)
  <2>1. slash \in Seq(Letters)
    BY OneIs DEF Letters
  <2> QED BY <2>1, CharsOf DEF ByteParts, BlankLine
<1>4. ContentLength \in Seq(Slashless)
  BY OneIs DEF ContentLength, Slashless, Letters
<1> HIDE DEF data, d, digits, slash, K
<1>5. ASSUME NEW h, IsHead(h), HeadersThere(h, a.headers, K),
             \/ HeaderIn(h, ContentLength, digits)
             \/ a.body = <<>> /\ \A i \in 1..K : a.headers[i][1] # ContentType
      PROVE  IsAnswer((h \o slash) \o a.body, a)
  <2> DEFINE X == (h \o slash) \o a.body
             e == HeadEnd(X)
  <2>1. /\ X \in Seq(Letters) /\ Len(X) \in Nat /\ Len(h) <= Len(X)
        /\ e = Len(h)
        /\ SubSeq(X, 1, Len(h)) = h
        /\ SubSeq(X, Len(h) + 2, Len(X)) = a.body
    BY <1>1, <1>5, HeadEndIs DEF slash
  <2> HIDE DEF X, e
  <2>2. SubSeq(X, 1, e) = h /\ SubSeq(X, e + 2, Len(X)) = a.body /\ e <= Len(X)
    BY <2>1
  <2>3. \A i \in 1..Len(a.headers) : HeaderIn(h, a.headers[i][1], a.headers[i][2])
    BY <1>5 DEF HeadersThere, K
  <2>4. IsAnswer(X, a)
    BY <2>2, <2>3, <1>5, Zenon DEF IsAnswer, e, digits, K
  <2> QED BY <2>4 DEF X
<1>6. CASE a.body = <<>> /\ ~HasType(data)
  <2>1. F = data \o BlankLine
    BY <1>6, Zenon DEF FinishResponse
  <2>2. F \in Seq(MessageByte) /\ Chars(F) = d \o slash
    BY <2>1, <1>2, <1>3, CharsJoin, ConcatProperties DEF d
  <2>3. \A i \in 1..K : a.headers[i][1] # ContentType
    <3> SUFFICES ASSUME NEW i \in 1..K, a.headers[i][1] = ContentType PROVE FALSE
      OBVIOUS
    <3>1. HeaderIn(d, ContentType, a.headers[i][2]) /\ a.headers[i][2] \in Seq(Slashless)
      BY <1>1, <1>2 DEF HeadersThere
    <3> QED BY <3>1, <1>2, <1>6, TypeIsTold DEF d
  <2>4. (d \o slash) \o a.body = d \o slash
    BY <1>2, <1>3, <1>6, ConcatProperties, ConcatEmptySeq
  <2>5. IsAnswer((d \o slash) \o a.body, a)
    BY <2>3, <1>2, <1>5, <1>6
  <2>6. IsAnswer(Chars(F), a)
    BY <2>2, <2>4, <2>5
  <2> QED BY <2>2, <2>6 DEF data
<1>7. CASE ~(a.body = <<>> /\ ~HasType(data))
  <2> DEFINE line == HeaderLine(ContentLength, digits)
             text == LineText(ContentLength, digits)
             body == Bytes("body", a.body)
  <2>1. F = ((data \o line) \o BlankLine) \o body
    BY <1>7, Zenon DEF FinishResponse, AddHeader, digits
  <2>2. line \in Seq(MessageByte) /\ Chars(line) = text /\ text \in Seq(Letters)
    BY <1>1, <1>4, LineIs
  <2>3. body \in Seq(MessageByte) /\ Chars(body) = a.body
    BY <1>1, CharsOf DEF ByteParts
  <2> HIDE DEF line, body
  <2>4. data \o line \in Seq(MessageByte) /\ Chars(data \o line) = d \o text
    BY <2>2, <1>2, CharsJoin, ConcatProperties DEF d
  <2>5. /\ (data \o line) \o BlankLine \in Seq(MessageByte)
        /\ Chars((data \o line) \o BlankLine) = (d \o text) \o slash
    BY <2>4, <1>3, CharsJoin, ConcatProperties
  <2>6. F \in Seq(MessageByte) /\ Chars(F) = ((d \o text) \o slash) \o a.body
    BY <2>1, <2>3, <2>5, CharsJoin, ConcatProperties
  <2>7. IsHead(d \o text) /\ HeaderIn(d \o text, ContentLength, digits)
    BY <1>1, <1>2, <1>4, HeadGrows
  <2>8. HeadersThere(d \o text, a.headers, K)
    <3> SUFFICES ASSUME NEW i \in 1..K PROVE HeaderIn(d \o text, a.headers[i][1], a.headers[i][2])
      BY DEF HeadersThere
    <3>1. /\ HeaderIn(d, a.headers[i][1], a.headers[i][2])
          /\ a.headers[i][1] \in Seq(Slashless) /\ a.headers[i][2] \in Seq(Slashless)
      BY <1>1, <1>2 DEF HeadersThere
    <3> QED BY <3>1, <2>2, <1>2, HeaderStaysIn
  <2>9. IsAnswer(((d \o text) \o slash) \o a.body, a)
    <3> HIDE DEF text
    <3> QED BY <2>7, <2>8, <1>5
  <2>10. IsAnswer(Chars(F), a)
    BY <2>6, <2>9
  <2> QED BY <2>6, <2>10 DEF data
<1> QED BY <1>6, <1>7

(* The request of a connection whose client answers. *)
Reversed == [NewRequest EXCEPT !.reverse = TRUE]

(* The characters of an answer. *)
AnswerText(a) == Chars(FinishResponse(Response(a), a.body))

(* What is on its way are bytes, and characters at the client. *)
MessageTypes ==
  /\ wire \in Seq(MessageByte) /\ outgoing \in Seq(MessageByte) /\ arrived \in Seq(Letters)

(* The client waits for its answer: p bytes of its request were read, and req is what there is of them.
   After the url, the protocol is right, or a read ended inside it. *)
ReadSoFar(req, p) ==
  /\ asked \in Requests /\ handed = NoMessage /\ replied = NoMessage
  /\ arrived = <<>> /\ outgoing = <<>> /\ wire # <<>>
  /\ CutFrom(asked, wire, p) /\ p + Len(wire) = Len(RequestBytes(asked))
  /\ ReadTo(req, asked, p)
  /\ p > UrlEnd(asked) => torn \/ req.protocol = asked.protocol

(* The connection is between two messages, or an answer of the client comes, or a request does. *)
BetweenMessages ==
  \/ incoming = NoMessage /\ (wire = <<>> \/ wire[1].part = "reply")
  \/ incoming = NoMessage /\ ReadSoFar(NewRequest, 0)
  \/ incoming = Reversed
  \/ incoming \in RequestSoFar /\ \E p \in Nat : ReadSoFar(incoming, p)

(* raop was called with what the client asked. *)
HandedRight ==
  handed # NoMessage =>
    /\ handed.url = asked.url /\ handed.headers = asked.headers /\ handed.body = asked.body
    /\ torn \/ handed.protocol = asked.protocol

(* What arrived of an answer and what is still to be sent are the answer. *)
RepliedRight ==
  replied # NoMessage => replied \in Answers /\ arrived \o Chars(outgoing) = AnswerText(replied)

(* The inductive invariant.  What is promised of a request when it is whole says nothing of the reads
   before; ReadSoFar says of each of them where in the request it ended and what there is up to there. *)
MessageInv == MessageTypes /\ BetweenMessages /\ HandedRight /\ RepliedRight

(* No request is taken for none, and none of a client that asks for one of a client that answers. *)
LEMMA NoMessageIs ==
  /\ NoMessage \notin RequestSoFar /\ NoMessage # Reversed
  /\ Reversed.reverse /\ \A q \in RequestSoFar : ~q.reverse
<1>1. NoMessage # Reversed
  <2>1. DOMAIN NoMessage = {"none"} /\ "none" \notin DOMAIN Reversed
    BY DEF NoMessage, Reversed, NewRequest
  <2> QED BY <2>1
<1>2. \A q \in RequestSoFar : "none" \notin DOMAIN q
  BY DEF RequestSoFar
<1>3. "none" \in DOMAIN NoMessage
  BY DEF NoMessage
<1>4. Reversed.reverse
  BY DEF Reversed, NewRequest
<1>5. \A q \in RequestSoFar : ~q.reverse
  BY DEF RequestSoFar
<1> QED BY <1>1, <1>2, <1>3, <1>4, <1>5

(* The smaller of two numbers. *)
LEMMA LeastOfTwo ==
  ASSUME NEW a \in Int, NEW b \in Int
  PROVE  Min({a, b}) <= a /\ Min({a, b}) <= b
<1> DEFINE S == {a, b}
<1>1. Min(S) = CHOOSE x \in S : \A y \in S : x <= y
  BY Zenon DEF Min
<1>2. \E x \in S : \A y \in S : x <= y
  BY a <= b \/ b <= a
<1>3. \A y \in S : Min(S) <= y
  BY <1>1, <1>2, Zenon
<1> QED BY <1>3

(* What was read and what is left. *)
LEMMA WireSplits ==
  ASSUME NEW bytes \in Seq(MessageByte), NEW n \in 1..Len(bytes)
  PROVE  /\ SubSeq(bytes, 1, n) \in Seq(MessageByte) /\ Len(SubSeq(bytes, 1, n)) = n
         /\ \A i \in 1..n : SubSeq(bytes, 1, n)[i] = bytes[i]
         /\ SubSeq(bytes, n + 1, Len(bytes)) \in Seq(MessageByte)
         /\ Len(SubSeq(bytes, n + 1, Len(bytes))) = Len(bytes) - n
         /\ \A i \in 1..Len(bytes) - n : SubSeq(bytes, n + 1, Len(bytes))[i] = bytes[n + i]
         /\ SubSeq(bytes, 1, n) \o SubSeq(bytes, n + 1, Len(bytes)) = bytes
<1> DEFINE Q == Len(bytes)
           s == SubSeq(bytes, 1, n)
           t == SubSeq(bytes, n + 1, Q)
<1>1. Q \in Nat /\ \A i \in 1..Q : bytes[i] \in MessageByte
  BY LenProperties, ElementOfSeq
<1>2. n \in Nat /\ n >= 1 /\ n <= Q /\ n + 1 \in Int
  BY <1>1
<1> HIDE DEF Q
<1>3. s \in Seq(MessageByte) /\ Len(s) = n /\ \A i \in 1..n : s[i] = bytes[i]
  <2>1. \A i \in 1..n : bytes[i] \in MessageByte
    BY <1>1, <1>2
  <2>2. /\ s \in Seq(MessageByte) /\ Len(s) = (IF 1 <= n THEN n - 1 + 1 ELSE 0)
        /\ \A i \in 1..n - 1 + 1 : s[i] = bytes[1 + i - 1]
    BY <1>2, <2>1, SubSeqProperties
  <2> HIDE DEF s
  <2>3. n - 1 + 1 = n /\ \A i \in 1..n : 1 + i - 1 = i
    BY <1>2
  <2> QED BY <2>2, <2>3, <1>2
<1>4. t \in Seq(MessageByte) /\ Len(t) = Q - n /\ \A i \in 1..Q - n : t[i] = bytes[n + i]
  <2> DEFINE m == n + 1
  <2>0. m \in Nat /\ m = n + 1
    BY <1>2
  <2>4. t = SubSeq(bytes, m, Q)
    OBVIOUS
  <2> HIDE DEF m, t
  <2>1. \A i \in m..Q : bytes[i] \in MessageByte
    BY <1>1, <1>2, <2>0
  <2>2. /\ t \in Seq(MessageByte) /\ Len(t) = (IF m <= Q THEN Q - m + 1 ELSE 0)
        /\ \A i \in 1..Q - m + 1 : t[i] = bytes[m + i - 1]
    BY <1>1, <2>0, <2>1, <2>4, SubSeqProperties
  <2>3. /\ Q - m + 1 = Q - n /\ \A i \in 1..Q - n : m + i - 1 = n + i
        /\ ~(m <= Q) => Q - n = 0
    BY <1>1, <1>2, <2>0
  <2> QED BY <2>2, <2>3, <1>2
<1>5. s \o t = bytes
  <2>1. 1 \in 1..Q + 1 /\ n \in 1 - 1..Q /\ Q \in n..Q
    BY <1>1, <1>2
  <2>2. s \o t = SubSeq(bytes, 1, Q)
    BY <2>1, ConcatAdjacentSubSeq DEF Q
  <2> QED BY <2>2, SubSeqFull DEF Q
<1> QED BY <1>3, <1>4, <1>5 DEF Q

(* A read takes the bytes behind the last one, and the request to what there is behind them. *)
LEMMA NextReading ==
  ASSUME MessageTypes, NEW req, NEW p \in Nat, ReadSoFar(req, p), NEW n \in 1..Len(wire),
         wire' = SubSeq(wire, n + 1, Len(wire)),
         torn' = (torn \/ Position(n) \in (UrlEnd(asked) + 1)..(UrlEnd(asked) + ProtocolSize)),
         UNCHANGED <<arrived, asked>>
  PROVE  LET parsed == AddData(req, SubSeq(wire, 1, n)) IN
         /\ wire' \in Seq(MessageByte) /\ p + n \in Nat
         /\ ReadTo(parsed, asked, p + n)
         /\ p + n > UrlEnd(asked) => torn' \/ parsed.protocol = asked.protocol
         /\ n < Len(wire) => /\ wire' # <<>> /\ CutFrom(asked, wire', p + n)
                             /\ p + n + Len(wire') = Len(RequestBytes(asked))
         /\ ~(n < Len(wire)) => wire' = <<>> /\ p + n = Len(RequestBytes(asked))
<1> DEFINE seg == SubSeq(wire, 1, n)
           rest == SubSeq(wire, n + 1, Len(wire))
           Q == Len(wire)
           B == RequestBytes(asked)
           M == Len(B)
           U == UrlEnd(asked)
           S == ProtocolSize
           parsed == AddData(req, seg)
<1>1. wire \in Seq(MessageByte) /\ asked \in Requests
  BY DEF MessageTypes, ReadSoFar
<1>2. /\ seg \in Seq(MessageByte) /\ Len(seg) = n /\ \A i \in 1..n : seg[i] = wire[i]
      /\ rest \in Seq(MessageByte) /\ Len(rest) = Q - n /\ \A i \in 1..Q - n : rest[i] = wire[n + i]
  BY <1>1, WireSplits
<1>3. /\ p + Q = M /\ ReadTo(req, asked, p) /\ (p > U => torn \/ req.protocol = asked.protocol)
      /\ \A i \in 1..Q : wire[i] = B[p + i]
  BY DEF ReadSoFar, CutFrom
<1>4. Q \in Nat /\ M \in Nat /\ U \in Nat /\ S \in Nat
  <2>1. U \in Nat /\ S \in Nat
    BY <1>1, SizesAre
  <2>2. Q \in Nat
    BY <1>1, LenProperties
  <2>3. M \in Nat
    BY <2>2, <1>3
  <2> QED BY <2>1, <2>2, <2>3
<1>5. wire' = rest
  OBVIOUS
<1>6. torn' = (torn \/ (M - Q) + n \in (U + 1)..(U + S))
  BY DEF Position
<1> HIDE DEF seg, rest, Q, B, M, U, S
<1>7. n \in Nat /\ n >= 1 /\ n <= Q /\ p + n \in Nat /\ (M - Q) + n = p + n
  <2>1. n \in 1..Q
    BY DEF Q
  <2> QED BY <2>1, <1>3, <1>4
<1>8. CutFrom(asked, seg, p)
  <2>1. p + n <= M
    BY <1>3, <1>4, <1>7
  <2>2. \A i \in 1..n : seg[i] = B[p + i]
    <3> TAKE i \in 1..n
    <3>1. i \in 1..Q
      BY <1>4, <1>7
    <3> QED BY <3>1, <1>2, <1>3
  <2> QED BY <2>1, <2>2, <1>2 DEF CutFrom, M, B
<1>9. /\ ReadTo(parsed, asked, p + n)
      /\ p > U => parsed.protocol = req.protocol
      /\ (p <= U /\ p + n > U + S) => parsed.protocol = asked.protocol
  <2>1. Len(seg) > 0
    BY <1>2, <1>7
  <2> HIDE DEF parsed
  <2>2. /\ ReadTo(parsed, asked, p + Len(seg))
        /\ p > UrlEnd(asked) => parsed.protocol = req.protocol
        /\ (p <= UrlEnd(asked) /\ p + Len(seg) > UrlEnd(asked) + ProtocolSize) =>
             parsed.protocol = asked.protocol
    BY <2>1, <1>1, <1>3, <1>8, AddDataReadTo DEF parsed
  <2> QED BY <2>2, <1>2 DEF U, S
<1> HIDE DEF parsed
<1>10. ASSUME p + n > U PROVE torn' \/ parsed.protocol = asked.protocol
  <2>1. CASE p > U
    BY <2>1, <1>3, <1>6, <1>9
  <2>2. CASE p <= U /\ p + n > U + S
    BY <2>2, <1>9
  <2>3. CASE p <= U /\ ~(p + n > U + S)
    <3>1. p + n \in (U + 1)..(U + S)
      BY <2>3, <1>4, <1>7, <1>10
    <3> QED BY <3>1, <1>6, <1>7
  <2> QED BY <2>1, <2>2, <2>3, <1>4
<1>11. ASSUME n < Q PROVE rest # <<>> /\ CutFrom(asked, rest, p + n) /\ p + n + Len(rest) = M
  <2>1. Len(rest) # 0
    BY <1>2, <1>4, <1>7, <1>11
  <2>2. rest # <<>>
    BY <2>1, EmptySeq
  <2>3. p + n + Len(rest) = M
    BY <1>2, <1>3, <1>4, <1>7
  <2>4. p + n + Len(rest) <= M
    BY <2>3, <1>4
  <2>5. \A i \in 1..Len(rest) : rest[i] = B[(p + n) + i]
    <3> TAKE i \in 1..Len(rest)
    <3>1. i \in 1..Q - n
      BY <1>2
    <3>2. n + i \in 1..Q /\ p + (n + i) = (p + n) + i
      BY <3>1, <1>4, <1>7
    <3> QED BY <3>1, <3>2, <1>2, <1>3
  <2>6. CutFrom(asked, rest, p + n)
    BY <2>4, <2>5, <1>2, <1>7 DEF CutFrom, M, B
  <2> QED BY <2>2, <2>3, <2>6
<1>12. ASSUME ~(n < Q) PROVE rest = <<>> /\ p + n = M
  <2>1. n = Q /\ p + n = M
    BY <1>3, <1>4, <1>7, <1>12
  <2>2. Len(rest) = 0
    BY <2>1, <1>2, <1>4
  <2> QED BY <2>1, <2>2, <1>2, EmptySeq
<1> QED BY <1>2, <1>5, <1>7, <1>9, <1>10, <1>11, <1>12 DEF seg, Q, B, M, U, parsed

(* A read of a request keeps the invariant: the request goes on, or is whole, is handed to raop and
   answered. *)
LEMMA ParseKeeps ==
  ASSUME MessageInv, NEW req, NEW p \in Nat, ReadSoFar(req, p), NEW n \in 1..Len(wire),
         Read(n), Parse(req, n), UNCHANGED <<arrived, asked, linked, exchanges>>
  PROVE  MessageInv'
<1> DEFINE parsed == AddData(req, SubSeq(wire, 1, n))
           M == Len(RequestBytes(asked))
           q == p + n
<1>1. /\ torn' = (torn \/ Position(n) \in (UrlEnd(asked) + 1)..(UrlEnd(asked) + ProtocolSize))
      /\ IF n < Len(wire)
         THEN incoming' = parsed /\ UNCHANGED <<handed, replied, outgoing>>
         ELSE /\ incoming' = NoMessage
              /\ handed' = Accessed(parsed)
              /\ \E a \in Answers : /\ replied' = a
                                    /\ outgoing' = FinishResponse(Response(a), a.body)
  BY DEF Parse, UrlEnd
<1>2. /\ wire' \in Seq(MessageByte) /\ q \in Nat
      /\ ReadTo(parsed, asked, q)
      /\ q > UrlEnd(asked) => torn' \/ parsed.protocol = asked.protocol
      /\ n < Len(wire) => wire' # <<>> /\ CutFrom(asked, wire', q) /\ q + Len(wire') = M
      /\ ~(n < Len(wire)) => wire' = <<>> /\ q = M
  BY <1>1, NextReading DEF MessageInv, Read
<1>3. /\ asked \in Requests /\ handed = NoMessage /\ replied = NoMessage
      /\ arrived = <<>> /\ outgoing = <<>>
  BY DEF ReadSoFar
<1>4. parsed \in RequestSoFar
  BY <1>2 DEF ReadTo
<1>5. arrived' = <<>> /\ asked' = asked
  BY <1>3
<1> HIDE DEF parsed, M, q
<1>6. CASE n < Len(wire)
  <2>1. incoming' = parsed /\ handed' = NoMessage /\ replied' = NoMessage /\ outgoing' = <<>>
    BY <1>1, <1>3, <1>6
  <2>2. MessageTypes'
    BY <2>1, <1>2, <1>5, EmptySeq DEF MessageTypes
  <2>6. PICK z \in Nat : z = q
    BY <1>2
  <2>3. ReadSoFar(incoming, z)'
    <3>1. /\ wire' # <<>> /\ CutFrom(asked', wire', z) /\ z + Len(wire') = Len(RequestBytes(asked'))
          /\ ReadTo(incoming', asked', z)
          /\ z > UrlEnd(asked') => torn' \/ incoming'.protocol = asked'.protocol
      BY <2>1, <2>6, <1>2, <1>5, <1>6 DEF M
    <3>2. asked' \in Requests
      BY <1>3, <1>5
    <3> QED BY <3>1, <3>2, <2>1, <1>5 DEF ReadSoFar
  <2>4. BetweenMessages'
    <3>1. incoming' \in RequestSoFar
      BY <2>1, <1>4
    <3>2. \E z1 \in Nat : ReadSoFar(incoming, z1)'
      BY <2>3
    <3> QED BY <3>1, <3>2 DEF BetweenMessages
  <2>5. HandedRight' /\ RepliedRight'
    BY <2>1 DEF HandedRight, RepliedRight
  <2> QED BY <2>2, <2>4, <2>5 DEF MessageInv
<1>7. CASE ~(n < Len(wire))
  <2>1. PICK a \in Answers : replied' = a /\ outgoing' = FinishResponse(Response(a), a.body)
    BY <1>1, <1>7
  <2>2. incoming' = NoMessage /\ handed' = parsed /\ wire' = <<>> /\ q = M
    BY <1>1, <1>2, <1>4, <1>7, NoMessageIs DEF Accessed, parsed
  <2>3. outgoing' \in Seq(MessageByte)
    BY <2>1, AnswerWhole
  <2>4. MessageTypes'
    BY <2>3, <1>2, <1>5, EmptySeq DEF MessageTypes
  <2>5. BetweenMessages'
    BY <2>2 DEF BetweenMessages
  <2>6. HandedRight'
    <3>1. parsed.url = asked.url /\ parsed.headers = asked.headers /\ parsed.body = asked.body
      BY <2>2, <1>2, <1>3, ReadToEnd DEF M
    <3>2. q > UrlEnd(asked)
      <4> DEFINE U == UrlEnd(asked)
                 y == Len(asked.body)
                 Z == HeadersTo(asked, Len(asked.headers))
                 S == ProtocolSize
      <4>1. /\ HeadEndOf(asked) = LineEnd(asked) + Z + 1 /\ U \in Nat /\ y \in Nat /\ Z \in Nat
            /\ LineEnd(asked) = U + S + 2 /\ S \in Nat
            /\ M = HeadEndOf(asked) + y
        BY <1>3, SizesAre DEF M
      <4> HIDE DEF U, y, Z, S
      <4>2. M = (((U + S + 2) + Z) + 1) + y
        BY <4>1
      <4>3. M > U
        BY <4>1, <4>2
      <4> QED BY <4>3, <2>2 DEF U
    <3>3. torn' \/ parsed.protocol = asked.protocol
      BY <3>2, <1>2
    <3> QED BY <3>1, <3>3, <2>2, <1>5 DEF HandedRight
  <2>7. RepliedRight'
    <3> DEFINE t == Chars(outgoing')
    <3>1. t = AnswerText(a) /\ t \in Seq(Letters)
      BY <2>1, <2>3, CharsAre DEF AnswerText
    <3>2. <<>> \o t = t
      BY <3>1, ConcatEmptySeq
    <3>3. arrived' \o t = AnswerText(a)
      BY <3>1, <3>2, <1>5
    <3>4. AnswerText(replied)' = AnswerText(a)
      BY <2>1 DEF AnswerText
    <3> QED BY <3>3, <3>4, <2>1 DEF RepliedRight
  <2> QED BY <2>4, <2>5, <2>6, <2>7 DEF MessageInv
<1> QED BY <1>6, <1>7

(* The client sends a request. *)
LEMMA SendsRight ==
  ASSUME MessageInv, ClientSends
  PROVE  MessageInv'
<1>1. PICK r \in Requests : asked' = r /\ wire' = RequestBytes(r)
  BY DEF ClientSends
<1>2. /\ arrived' = <<>> /\ handed' = NoMessage /\ replied' = NoMessage /\ torn' = FALSE
      /\ incoming' = NoMessage /\ outgoing' = <<>>
  BY DEF ClientSends
<1> DEFINE B == RequestBytes(r)
<1>3. B \in Seq(MessageByte) /\ Len(B) \in Nat \ {0}
  <2> DEFINE Z == HeadersTo(r, Len(r.headers))
             y == Len(r.body)
             U == UrlEnd(r)
             S == ProtocolSize
  <2>1. B \in Seq(MessageByte)
    BY RequestLies
  <2>2. /\ HeadEndOf(r) = LineEnd(r) + Z + 1 /\ U \in Nat /\ y \in Nat /\ Z \in Nat
        /\ LineEnd(r) = U + S + 2 /\ S \in Nat
        /\ Len(B) = HeadEndOf(r) + y
    BY SizesAre
  <2> HIDE DEF Z, y, U, S
  <2>3. Len(B) = (((U + S + 2) + Z) + 1) + y
    BY <2>2
  <2>4. Len(B) \in Nat \ {0}
    BY <2>2, <2>3
  <2> QED BY <2>1, <2>4
<1>4. MessageTypes'
  BY <1>1, <1>2, <1>3, EmptySeq DEF MessageTypes
<1>5. CutFrom(r, B, 0) /\ 0 + Len(B) = Len(B) /\ B # <<>>
  <2>1. \A i \in 1..Len(B) : 0 + i = i
    BY <1>3
  <2>2. 0 + Len(B) = Len(B) /\ 0 + Len(B) <= Len(B)
    BY <1>3
  <2>3. B # <<>>
    BY <1>3, EmptySeq
  <2> HIDE DEF B
  <2> QED BY <1>3, <2>1, <2>2, <2>3 DEF CutFrom, B
<1>6. ReadTo(NewRequest, r, 0) /\ ~(0 > UrlEnd(r))
  BY ReadToStart, SizesAre
<1>7. ReadSoFar(NewRequest, 0)'
  BY <1>1, <1>2, <1>5, <1>6 DEF ReadSoFar
<1>8. BetweenMessages'
  BY <1>2, <1>7 DEF BetweenMessages
<1> QED BY <1>2, <1>4, <1>8 DEF MessageInv, HandedRight, RepliedRight

(* The client answers an event. *)
LEMMA RepliesRight ==
  ASSUME MessageInv, ClientReplies
  PROVE  MessageInv'
<1> DEFINE text == [i \in 1..(ProtocolSize + 1) |-> "r"]
           b == Bytes("reply", text)
<1>1. /\ wire = <<>> /\ wire' = b
      /\ UNCHANGED <<incoming, outgoing, arrived, asked, handed, replied, torn>>
  BY DEF ClientReplies
<1>2. text \in Seq(Letters) /\ Len(text) \in Nat /\ Len(text) >= 1
  <2>1. ProtocolSize \in Nat \ {0}
    BY MessageAssumption
  <2>2. ProtocolSize + 1 \in Nat /\ ProtocolSize + 1 >= 1
    BY <2>1
  <2> DEFINE n == ProtocolSize + 1
  <2> HIDE DEF n
  <2>3. text \in [1..(ProtocolSize + 1) -> Letters]
    BY DEF Letters
  <2>4. text \in Seq(Letters)
    BY <2>2, <2>3, SeqDef
  <2>5. DOMAIN text = 1..(ProtocolSize + 1)
    OBVIOUS
  <2>6. Len(text) = ProtocolSize + 1
    BY <2>2, <2>4, <2>5, LenProperties
  <2> QED BY <2>2, <2>4, <2>6
<1> HIDE DEF text
<1>3. b \in Seq(MessageByte) /\ b[1].part = "reply"
  <2>1. /\ b \in Seq(MessageByte)
        /\ \A i \in 1..Len(text) : b[i] = [part |-> "reply", char |-> text[i]]
    BY <1>2, BytesAre DEF ByteParts
  <2>2. 1 \in 1..Len(text)
    BY <1>2
  <2>3. b[1] = [part |-> "reply", char |-> text[1]]
    BY <2>1, <2>2
  <2>4. b[1].part = "reply"
    BY <2>3
  <2> QED BY <2>1, <2>4
<1> HIDE DEF b
<1>4. incoming = NoMessage \/ incoming = Reversed
  BY <1>1 DEF MessageInv, BetweenMessages, ReadSoFar
<1>5. MessageTypes'
  BY <1>1, <1>3 DEF MessageInv, MessageTypes
<1>6. BetweenMessages'
  BY <1>1, <1>3, <1>4 DEF BetweenMessages
<1>7. HandedRight' /\ RepliedRight'
  <2>1. /\ handed' = handed /\ asked' = asked /\ torn' = torn
        /\ replied' = replied /\ arrived' = arrived /\ outgoing' = outgoing
    BY <1>1
  <2>2. HandedRight /\ RepliedRight
    BY DEF MessageInv
  <2> QED BY <2>1, <2>2 DEF HandedRight, RepliedRight, AnswerText
<1> QED BY <1>5, <1>6, <1>7 DEF MessageInv

(* A read ends where the wire ends, or before. *)
LEMMA ReadsEnd ==
  ASSUME MessageTypes, NEW k \in Nat \ {0}, NEW n \in k..Min({BufferSize, Len(wire)})
  PROVE  n \in 1..Len(wire) /\ Len(wire) \in Nat
<1> DEFINE L == Len(wire)
           m == Min({BufferSize, L})
<1>1. L \in Nat /\ BufferSize \in Nat
  BY MessageAssumption, LenProperties DEF MessageTypes
<1> HIDE DEF L
<1>2. m <= L /\ m \in {BufferSize, L}
  <2>1. m <= L
    <3>1. BufferSize \in Int /\ L \in Int
      BY <1>1
    <3> QED BY <3>1, LeastOfTwo
  <2>2. \E x \in {BufferSize, L} : \A y \in {BufferSize, L} : x <= y
    BY <1>1, BufferSize <= L \/ L <= BufferSize
  <2>3. m = CHOOSE x \in {BufferSize, L} : \A y \in {BufferSize, L} : x <= y
    BY Zenon DEF Min
  <2>4. m \in {BufferSize, L}
    BY <2>2, <2>3, Zenon
  <2> QED BY <2>1, <2>4
<1>3. n \in k..m
  BY DEF L
<1> HIDE DEF m
<1>4. m \in Nat
  BY <1>1, <1>2
<1>5. n \in 1..L
  BY <1>1, <1>2, <1>3, <1>4
<1> QED BY <1>1, <1>5 DEF L

(* The first read of a message. *)
LEMMA FirstReadRight ==
  ASSUME MessageInv, ReadFirst
  PROVE  MessageInv'
<1>1. incoming = NoMessage /\ UNCHANGED <<arrived, asked, linked, exchanges>>
  BY DEF ReadFirst
<1>2. PICK n \in ProtocolSize..Min({BufferSize, Len(wire)}) :
        /\ Read(n)
        /\ IF wire[1].part = "reply"
           THEN /\ incoming' = [NewRequest EXCEPT !.reverse = TRUE]
                /\ UNCHANGED <<handed, replied, outgoing, torn>>
           ELSE Parse(NewRequest, n)
  BY DEF ReadFirst
<1>3. ProtocolSize \in Nat \ {0} /\ MessageTypes
  BY MessageAssumption DEF MessageInv
<1>4. n \in 1..Len(wire) /\ Len(wire) \in Nat
  BY <1>3, ReadsEnd
<1>5. wire # <<>>
  BY <1>4, EmptySeq
<1>6. CASE wire[1].part = "reply"
  <2>1. incoming' = Reversed /\ UNCHANGED <<handed, replied, outgoing, torn>>
    BY <1>2, <1>6 DEF Reversed
  <2>2. wire' \in Seq(MessageByte)
    BY <1>2, <1>3, <1>4, WireSplits DEF Read, MessageTypes
  <2>3. MessageTypes'
    BY <2>1, <2>2, <1>1, <1>3 DEF MessageTypes
  <2>4. BetweenMessages'
    BY <2>1 DEF BetweenMessages
  <2>5. HandedRight' /\ RepliedRight'
    <3>1. /\ handed' = handed /\ asked' = asked /\ torn' = torn
          /\ replied' = replied /\ arrived' = arrived /\ outgoing' = outgoing
      BY <2>1, <1>1
    <3>2. HandedRight /\ RepliedRight
      BY DEF MessageInv
    <3> QED BY <3>1, <3>2 DEF HandedRight, RepliedRight, AnswerText
  <2> QED BY <2>3, <2>4, <2>5 DEF MessageInv
<1>7. CASE wire[1].part # "reply"
  <2>1. ReadSoFar(NewRequest, 0)
    BY <1>1, <1>5, <1>7, NoMessageIs DEF MessageInv, BetweenMessages
  <2>2. Parse(NewRequest, n)
    BY <1>2, <1>7
  <2> QED BY <2>1, <2>2, <1>1, <1>2, <1>4, ParseKeeps
<1> QED BY <1>6, <1>7

(* The next reads of it. *)
LEMMA MoreReadRight ==
  ASSUME MessageInv, ReadMore
  PROVE  MessageInv'
<1>1. incoming # NoMessage /\ UNCHANGED <<arrived, asked, linked, exchanges>>
  BY DEF ReadMore
<1>2. PICK n \in 1..Min({BufferSize, Len(wire)}) :
        /\ Read(n)
        /\ IF incoming.reverse THEN UNCHANGED <<incoming, handed, replied, outgoing, torn>>
                               ELSE Parse(incoming, n)
  BY DEF ReadMore
<1>3. MessageTypes
  BY DEF MessageInv
<1>4. n \in 1..Len(wire) /\ Len(wire) \in Nat
  <2> DEFINE one == 1
  <2>1. one \in Nat \ {0} /\ n \in one..Min({BufferSize, Len(wire)})
    OBVIOUS
  <2> HIDE DEF one
  <2> QED BY <2>1, <1>3, ReadsEnd
<1>5. CASE incoming = Reversed
  <2>1. UNCHANGED <<incoming, handed, replied, outgoing, torn>>
    BY <1>2, <1>5, NoMessageIs
  <2>2. wire' \in Seq(MessageByte)
    BY <1>2, <1>3, <1>4, WireSplits DEF Read, MessageTypes
  <2>3. MessageTypes'
    BY <2>1, <2>2, <1>1, <1>3 DEF MessageTypes
  <2>4. BetweenMessages'
    BY <2>1, <1>5 DEF BetweenMessages
  <2>5. HandedRight' /\ RepliedRight'
    <3>1. /\ handed' = handed /\ asked' = asked /\ torn' = torn
          /\ replied' = replied /\ arrived' = arrived /\ outgoing' = outgoing
      BY <2>1, <1>1
    <3>2. HandedRight /\ RepliedRight
      BY DEF MessageInv
    <3> QED BY <3>1, <3>2 DEF HandedRight, RepliedRight, AnswerText
  <2> QED BY <2>3, <2>4, <2>5 DEF MessageInv
<1>6. CASE incoming # Reversed
  <2>1. incoming \in RequestSoFar /\ \E p \in Nat : ReadSoFar(incoming, p)
    BY <1>1, <1>6 DEF MessageInv, BetweenMessages
  <2>2. PICK p \in Nat : ReadSoFar(incoming, p)
    BY <2>1
  <2>3. Parse(incoming, n)
    BY <2>1, <1>2, NoMessageIs
  <2> QED BY <2>2, <2>3, <1>1, <1>2, <1>4, ParseKeeps
<1> QED BY <1>5, <1>6

(* send takes a part of the answer. *)
LEMMA SentRight ==
  ASSUME MessageInv, Send
  PROVE  MessageInv'
<1>1. PICK n \in 1..Len(outgoing) :
        /\ arrived' = arrived \o Chars(SubSeq(outgoing, 1, n))
        /\ outgoing' = SubSeq(outgoing, n + 1, Len(outgoing))
  BY DEF Send
<1>2. outgoing # <<>> /\ UNCHANGED <<wire, incoming, asked, handed, replied, torn>>
  BY DEF Send
<1> DEFINE s == SubSeq(outgoing, 1, n)
           t == SubSeq(outgoing, n + 1, Len(outgoing))
<1>3. outgoing \in Seq(MessageByte) /\ arrived \in Seq(Letters) /\ wire \in Seq(MessageByte)
  BY DEF MessageInv, MessageTypes
<1>4. s \in Seq(MessageByte) /\ t \in Seq(MessageByte) /\ s \o t = outgoing
  BY <1>3, WireSplits
<1>5. arrived' = arrived \o Chars(s) /\ outgoing' = t
  BY <1>1
<1> HIDE DEF s, t
<1>6. Chars(s) \in Seq(Letters) /\ Chars(t) \in Seq(Letters) /\ Chars(s) \o Chars(t) = Chars(outgoing)
  <2>1. Chars(s \o t) = Chars(s) \o Chars(t)
    BY <1>4, CharsJoin
  <2> QED BY <2>1, <1>4, CharsAre
<1>7. MessageTypes'
  <2>1. arrived \o Chars(s) \in Seq(Letters)
    BY <1>3, <1>6, ConcatProperties
  <2> QED BY <2>1, <1>2, <1>3, <1>4, <1>5 DEF MessageTypes
<1>8. BetweenMessages'
  BY <1>2 DEF MessageInv, BetweenMessages, ReadSoFar
<1>9. HandedRight'
  <2>1. handed' = handed /\ asked' = asked /\ torn' = torn
    BY <1>2
  <2> QED BY <2>1 DEF MessageInv, HandedRight
<1>10. RepliedRight'
  <2> SUFFICES ASSUME replied' # NoMessage
               PROVE  replied' \in Answers /\ arrived' \o Chars(outgoing') = AnswerText(replied')
    BY DEF RepliedRight, AnswerText
  <2>1. replied \in Answers /\ arrived \o Chars(outgoing) = AnswerText(replied) /\ replied' = replied
    BY <1>2 DEF MessageInv, RepliedRight
  <2> DEFINE cs == Chars(s)
             ct == Chars(t)
  <2>2. cs \in Seq(Letters) /\ ct \in Seq(Letters)
    BY <1>6
  <2>3. arrived' \o Chars(outgoing') = (arrived \o cs) \o ct
    BY <1>5
  <2>4. cs \o ct = Chars(outgoing)
    BY <1>6
  <2> HIDE DEF cs, ct
  <2>6. arrived \in Seq(Letters) /\ cs \in Seq(Letters) /\ ct \in Seq(Letters)
    BY <2>2, <1>3
  <2>5. (arrived \o cs) \o ct = arrived \o (cs \o ct)
    BY <2>6, ConcatAssociative, SMTT(30)
  <2> QED BY <2>1, <2>3, <2>4, <2>5
<1> QED BY <1>7, <1>8, <1>9, <1>10 DEF MessageInv

(* The connection is lost. *)
LEMMA LostRight ==
  ASSUME MessageInv, Lost
  PROVE  MessageInv'
<1>1. /\ incoming' = NoMessage /\ wire' = <<>> /\ outgoing' = <<>> /\ replied' = NoMessage
      /\ UNCHANGED <<arrived, asked, handed, torn>>
  BY DEF Lost, RemoveConnection
<1>2. MessageTypes'
  BY <1>1, EmptySeq DEF MessageInv, MessageTypes
<1>3. BetweenMessages'
  BY <1>1 DEF BetweenMessages
<1>4. HandedRight'
  BY <1>1 DEF MessageInv, HandedRight
<1>5. RepliedRight'
  BY <1>1 DEF RepliedRight
<1> QED BY <1>2, <1>3, <1>4, <1>5 DEF MessageInv

(* The invariant holds of every state. *)
LEMMA MessageInvIs ==
  MessageSpec => []MessageInv
<1>1. MessageInit => MessageInv
  BY EmptySeq DEF MessageInit, MessageInv, MessageTypes, BetweenMessages, HandedRight, RepliedRight
<1>2. MessageInv /\ [MessageNext]_messageVars => MessageInv'
  <2> SUFFICES ASSUME MessageInv, [MessageNext]_messageVars PROVE MessageInv'
    OBVIOUS
  <2>1. CASE ClientSends
    BY <2>1, SendsRight
  <2>2. CASE ClientReplies
    BY <2>2, RepliesRight
  <2>3. CASE ReadFirst
    BY <2>3, FirstReadRight
  <2>4. CASE ReadMore
    BY <2>4, MoreReadRight
  <2>5. CASE Send
    BY <2>5, SentRight
  <2>6. CASE Lost
    BY <2>6, LostRight
  <2>7. CASE UNCHANGED messageVars
    <3>1. /\ wire' = wire /\ incoming' = incoming /\ outgoing' = outgoing /\ arrived' = arrived
          /\ asked' = asked /\ handed' = handed /\ replied' = replied /\ torn' = torn
      BY <2>7 DEF messageVars
    <3>2. MessageTypes' /\ BetweenMessages' /\ HandedRight' /\ RepliedRight'
      BY <3>1 DEF MessageInv, MessageTypes, BetweenMessages, ReadSoFar, HandedRight, RepliedRight, AnswerText
    <3> QED BY <3>2 DEF MessageInv
  <2> QED BY <2>1, <2>2, <2>3, <2>4, <2>5, <2>6, <2>7 DEF MessageNext
<1> QED BY <1>1, <1>2, PTL DEF MessageSpec

(* It says that messages arrive whole. *)
LEMMA WholeFromInv ==
  ASSUME MessageInv
  PROVE  MessagesArriveWhole
<1>1. RequestsArriveWhole
  BY DEF MessageInv, HandedRight, RequestsArriveWhole
<1>2. AnswersArriveWhole
  <2> SUFFICES ASSUME replied # NoMessage, outgoing = <<>> PROVE IsAnswer(arrived, replied)
    BY DEF AnswersArriveWhole
  <2>1. replied \in Answers /\ arrived \o Chars(outgoing) = AnswerText(replied) /\ arrived \in Seq(Letters)
    BY DEF MessageInv, RepliedRight, MessageTypes
  <2>2. Chars(outgoing) = <<>>
    <3>1. <<>> \in Seq(MessageByte) /\ Len(<<>>) = 0
      BY EmptySeq
    <3>2. Chars(<<>>) \in Seq(Letters) /\ Len(Chars(<<>>)) = 0
      BY <3>1, CharsAre
    <3> QED BY <3>2, EmptySeq
  <2>3. arrived = AnswerText(replied)
    BY <2>1, <2>2, ConcatEmptySeq
  <2> QED BY <2>1, <2>3, AnswerWhole DEF AnswerText
<1> QED BY <1>1, <1>2 DEF MessagesArriveWhole

(* Whatever requests and answers there are, however recv cuts the one and send the other: raop gets the
   url, the headers and the body the client sent, with the protocol unless a read ended inside it, and the
   client the answer its handler made, with its end (httpd_thread, http_request_add_data,
   http_response_finish). *)
THEOREM MessagesAreWhole == MessageSpec => []MessagesArriveWhole
<1>1. MessageInv => MessagesArriveWhole
  BY WholeFromInv
<1> QED BY <1>1, MessageInvIs, PTL

=============================================================================
