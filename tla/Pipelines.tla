------------------------------ MODULE Pipelines ------------------------------
(***************************************************************************)
(* The GStreamer pipelines: video_renderer.c, audio_renderer.c and the     *)
(* callbacks of xmirror.cpp that drive them, between one pass of main_loop *)
(* and the next.                                                           *)
(*                                                                         *)
(* Until a stream has told its codec there is a pipeline for each codec    *)
(* that may come; the first choice destroys the others, and `renderer'     *)
(* stays with the one chosen until all of them are built again.  A video   *)
(* of HLS has a pipeline of its own, and no others beside it.  main_loop   *)
(* puts a watch on the bus of each pipeline there should be.               *)
(*                                                                         *)
(* The callbacks come from the server thread and the mirror thread; each   *)
(* is one step here, and so is each stage of the engine thread after its   *)
(* loop (Engine has the steps of the callbacks themselves).  A stream that *)
(* was marked to be removed goes on until the server thread removes it.    *)
(***************************************************************************)
EXTENDS Integers

VARIABLES h265_support, render_coverart,
          nofreeze, nc,    \* options; nc is ~new_window_closing_behavior
          pipelines,       \* renderer_type[]
          renderer,        \* the one chosen
          hls_video,
          url,             \* is there a video for the player?
          watched,         \* the pipelines whose bus main_loop watches
          place,           \* where the engine thread is
          quit,            \* reset_loop
          preserve, close_window, full_reset, reset_httpd,
          client,          \* is a RAOP client connected?
          mirrored,          \* the mirror stream
          picture,         \* coverart_artist
          audio,           \* the format of the audio renderer
          error,           \* an error of the audio pipeline, on its way
          aborted          \* what has stopped the process

options == <<h265_support, render_coverart, nofreeze, nc>>
video == <<pipelines, renderer, hls_video>>
requests == <<quit, preserve, close_window, full_reset, reset_httpd>>
sounds == <<audio, error>>
pipelineVars == <<options, video, url, watched, place, requests, client, mirrored, picture, sounds,
          aborted>>

Ids == 0 .. 2  \* NCODECS pipelines
Nothing == [codec |-> "none", state |-> "none"]
NoRenderer == -1
NoStream == [up |-> FALSE, codec |-> "unknown", suspended |-> FALSE, doomed |-> FALSE]

Codecs == {"h264", "h265", "jpeg", "hls"}
States == {"READY", "PAUSED", "PLAYING", "NULL"}

PipelinesTypeOK ==
    /\ pipelines \in [Ids -> {Nothing} \cup [codec : Codecs, state : States]]
    /\ renderer \in Ids \cup {NoRenderer}
    /\ watched \subseteq Ids
    /\ place \in {"loop", "left", "build", "entry", "ended"}
    /\ hls_video \in BOOLEAN /\ url \in BOOLEAN /\ client \in BOOLEAN
    /\ quit \in BOOLEAN /\ preserve \in BOOLEAN /\ close_window \in BOOLEAN
    /\ full_reset \in BOOLEAN /\ reset_httpd \in BOOLEAN
    /\ mirrored \in [up : BOOLEAN, codec : {"unknown", "h264", "h265"},
                     suspended : BOOLEAN, doomed : BOOLEAN]
    /\ picture \in {"none", "shown", "expired"}
    /\ audio \in {"none", "AAC-ELD", "ALAC"} /\ error \in {"none", "posted", "taken"}
    /\ aborted \in {"no", "listen", "codec", "audio"}

\* The pipelines of video_renderer_init: h264 first, then those there are
\* options for, or the player alone.
TypeOf(codec) ==
    CASE codec \in {"hls", "h264"} -> 0
      [] codec = "h265" -> IF h265_support THEN 1 ELSE NoRenderer
      [] codec = "jpeg" -> IF ~render_coverart THEN NoRenderer
                           ELSE IF h265_support THEN 2 ELSE 1

Wanted(hls) == IF hls THEN {"hls"}
               ELSE {c \in {"h264", "h265", "jpeg"} : TypeOf(c) # NoRenderer}

Built(hls) ==
    [i \in Ids |->
        IF \E c \in Wanted(hls) : TypeOf(c) = i
        THEN [codec |-> CHOOSE c \in Wanted(hls) : TypeOf(c) = i, state |-> "PAUSED"]
        ELSE Nothing]

Exists(i) == pipelines[i] # Nothing
SetState(i, state) == [pipelines EXCEPT ![i].state = state]

PipelinesInit ==
    /\ h265_support \in BOOLEAN /\ render_coverart \in BOOLEAN
    /\ nofreeze \in BOOLEAN /\ nc \in BOOLEAN
    /\ pipelines = Built(FALSE) /\ renderer = NoRenderer /\ hls_video = FALSE
    /\ url = FALSE /\ watched = {} /\ place = "entry"
    /\ quit = FALSE /\ preserve = FALSE /\ close_window = FALSE
    /\ full_reset = TRUE /\ reset_httpd = FALSE
    /\ client = FALSE /\ mirrored = NoStream /\ picture = "none"
    /\ audio = "none" /\ error = "none"
    /\ aborted = "no"

Runs == aborted = "no" /\ place # "ended"
Abort(why) == /\ aborted' = why
              /\ UNCHANGED <<video, url, watched, place, requests, client, mirrored, picture,
                             sounds>>

-----------------------------------------------------------------------------
\* video_renderer_stop, _pause and _resume: nothing without a renderer.
Put(state) == pipelines' = (IF renderer = NoRenderer THEN pipelines
                            ELSE SetState(renderer, state))

\* `renderer' after video_renderer_init and _start.
ChosenAtStart(hls) == IF hls THEN 0 ELSE NoRenderer

\* video_renderer_destroy, _init and _start.
BuildAll(hls) == /\ pipelines' = Built(hls)
                 /\ renderer' = ChosenAtStart(hls)
                 /\ hls_video' = hls

\* Mutant: that another codec plays is not told.
AlwaysChosen(codec) == TRUE

\* video_renderer_choose_codec, and what it returns.
CanChoose(codec) ==
    LET i == TypeOf(codec)
    IN  i # NoRenderer /\ Exists(i) /\ renderer \in {i, NoRenderer}

Choose(codec) ==
    LET i == TypeOf(codec)
    IN  IF i # NoRenderer /\ Exists(i) /\ renderer = NoRenderer
        THEN /\ pipelines' = [j \in Ids |-> IF j = i THEN [codec |-> codec, state |-> "PLAYING"]
                                            ELSE Nothing]
             /\ renderer' = i /\ UNCHANGED hls_video
        ELSE UNCHANGED video

\* conn_reset, called by the mirror thread at its end.
ConnReset ==
    /\ close_window' = (close_window /\ nofreeze)
    /\ reset_httpd' = TRUE /\ quit' = TRUE
    /\ mirrored' = NoStream
    /\ UNCHANGED <<preserve, full_reset>>

-----------------------------------------------------------------------------
\* Clients.

Connect == /\ Runs /\ place = "loop" /\ ~client
           /\ client' = TRUE
           /\ UNCHANGED <<options, video, url, watched, place, requests, mirrored, picture,
                          sounds, aborted>>

\* audio_renderer_stop; what is on the bus of a pipeline goes as it is set to NULL.
StopAudio == audio' = "none" /\ error' = (IF error = "posted" THEN "none" ELSE error)

\* conn_destroy of the last connection.
Disconnect == /\ Runs /\ client
              /\ client' = FALSE /\ mirrored' = NoStream
              /\ StopAudio
              /\ UNCHANGED <<options, video, url, watched, place, requests, picture, aborted>>

SetupMirror == /\ Runs /\ client /\ ~mirrored.up
               /\ mirrored' = [NoStream EXCEPT !.up = TRUE]
               /\ UNCHANGED <<options, video, url, watched, place, requests, client, picture,
                              sounds, aborted>>

\* video_set_codec.  A client that may not send h265 sends an empty packet.
SetCodec(codec) ==
    /\ Runs /\ mirrored.up /\ mirrored.codec = "unknown"
    /\ codec = "h265" => h265_support
    /\ UNCHANGED options
    /\ IF hls_video THEN Abort("codec")
       ELSE /\ Choose(codec)
            /\ IF CanChoose(codec)
               THEN mirrored' = [mirrored EXCEPT !.codec = codec] /\ UNCHANGED requests
               ELSE ConnReset
            /\ UNCHANGED <<url, watched, place, client, picture, sounds, aborted>>

\* The client locks its screen and comes back.
Suspend(off) ==
    /\ Runs /\ mirrored.up /\ mirrored.codec # "unknown" /\ mirrored.suspended # off
    /\ mirrored' = [mirrored EXCEPT !.suspended = off]
    /\ Put(IF off THEN "PAUSED" ELSE "PLAYING")
    /\ UNCHANGED <<options, renderer, hls_video, url, watched, place, requests, client,
                   picture, sounds, aborted>>

\* A stream without a codec this program knows, or a connection that broke.
MirrorFails(lost) ==
    /\ Runs /\ mirrored.up
    /\ IF lost THEN ConnReset /\ UNCHANGED pipelines
       ELSE /\ Put("NULL") /\ mirrored' = NoStream /\ quit' = TRUE
            /\ UNCHANGED <<preserve, close_window, full_reset, reset_httpd>>
    /\ UNCHANGED <<options, renderer, hls_video, url, watched, place, client, picture, sounds,
                   aborted>>

\* TEARDOWN of the mirror stream, or of the audio stream where there is cover
\* art: video_reset.
Teardown(kind) ==
    /\ Runs /\ client
    /\ kind \in {"mirror", "hls"} => mirrored.up
    /\ kind = "audio" => render_coverart
    /\ Put("NULL") /\ quit' = TRUE
    /\ preserve' = (preserve \/ kind = "hls")
    /\ mirrored' = (IF kind = "audio" THEN mirrored ELSE NoStream)
    /\ UNCHANGED <<options, renderer, hls_video, url, watched, place, close_window, full_reset,
                   reset_httpd, client, picture, sounds, aborted>>

\* Another client takes over.
NoHold ==
    /\ Runs /\ client
    /\ BuildAll(FALSE)
    /\ url' = FALSE /\ close_window' = FALSE /\ preserve' = FALSE /\ quit' = TRUE
    /\ mirrored' = [mirrored EXCEPT !.doomed = mirrored.up]
    /\ UNCHANGED <<options, watched, place, full_reset, reset_httpd, client, picture, sounds,
                   aborted>>

RemoveMarked ==
    /\ Runs /\ mirrored.doomed
    /\ mirrored' = NoStream
    /\ UNCHANGED <<options, video, url, watched, place, requests, client, picture, sounds,
                   aborted>>

\* audio_set_coverart; a client that mirrors sends none.
CoverArt ==
    /\ Runs /\ client /\ render_coverart /\ ~mirrored.up
    /\ UNCHANGED options
    /\ IF hls_video THEN Abort("codec")
       ELSE /\ Choose("jpeg")
            /\ picture' = "shown"
            /\ UNCHANGED <<url, watched, place, requests, client, mirrored, sounds, aborted>>

\* A title of another artist has come without a picture.
CoverArtExpires ==
    /\ Runs /\ picture = "shown"
    /\ picture' = "expired"
    /\ UNCHANGED <<options, video, url, watched, place, requests, client, mirrored, sounds,
                   aborted>>

\* A connection for HLS stops the streams of the client.
AirplayConnect ==
    /\ Runs /\ mirrored.up
    /\ mirrored' = NoStream
    /\ UNCHANGED <<options, video, url, watched, place, requests, client, picture, sounds,
                   aborted>>

\* on_video_play.
VideoPlay ==
    /\ Runs
    /\ url' = TRUE /\ preserve' = TRUE /\ quit' = TRUE
    /\ UNCHANGED <<options, video, watched, place, close_window, full_reset, reset_httpd,
                   client, mirrored, picture, sounds, aborted>>

\* on_video_rate, _scrub, _stop and _playlist_remove.
VideoControl(state) ==
    /\ Runs /\ hls_video
    /\ Put(state)
    /\ UNCHANGED <<options, renderer, hls_video, url, watched, place, requests, client, mirrored,
                   picture, sounds, aborted>>

\* TEARDOWN of everything: RESET_TYPE_HLS_SHUTDOWN where there is HLS.
HlsShutdown ==
    /\ Runs
    /\ mirrored' = NoStream
    /\ Put("NULL") /\ url' = FALSE /\ preserve' = TRUE /\ quit' = TRUE
    /\ UNCHANGED <<options, renderer, hls_video, watched, place, close_window, full_reset,
                   reset_httpd, client, picture, sounds, aborted>>

\* audio_get_format: audio_renderer_start.
AudioFormat(format) ==
    /\ Runs /\ client /\ audio # format
    /\ audio' = format /\ error' = (IF error = "posted" THEN "none" ELSE error)
    /\ UNCHANGED <<options, video, url, watched, place, requests, client, mirrored, picture,
                   aborted>>

-----------------------------------------------------------------------------
\* The main loop.

Looping == Runs /\ place = "loop"
Leave == place' = "left" /\ watched' = {}

ResetCallback == /\ Looping /\ quit
                 /\ Leave
                 /\ UNCHANGED <<options, video, url, requests, client, mirrored, picture, sounds,
                                aborted>>

FeedbackCallback ==
    /\ Looping /\ client
    /\ close_window' = (close_window /\ nofreeze)
    /\ reset_httpd' = TRUE /\ full_reset' = TRUE
    /\ Leave
    /\ UNCHANGED <<options, video, url, quit, preserve, client, mirrored, picture, sounds,
                   aborted>>

\* An error on the bus of a mirror pipeline, or the window of any was closed.
VideoError(i) ==
    /\ Looping /\ i \in watched /\ Exists(i)
    /\ pipelines' = SetState(i, "READY")
    /\ Leave
    /\ UNCHANGED <<options, renderer, hls_video, url, requests, client, mirrored, picture,
                   sounds, aborted>>

\* The player's buffer runs low or is full.
Buffering(state) ==
    /\ Looping /\ hls_video /\ 0 \in watched /\ Exists(0)
    /\ pipelines' = SetState(0, state)
    /\ UNCHANGED <<options, renderer, hls_video, url, watched, place, requests, client, mirrored,
                   picture, sounds, aborted>>

\* The end of an HLS video, as the watch for it sees it.
Eos == /\ Looping /\ hls_video /\ 0 \in watched
       /\ BuildAll(FALSE)
       /\ close_window' = FALSE /\ preserve' = FALSE /\ quit' = TRUE
       /\ UNCHANGED <<options, url, watched, place, full_reset, reset_httpd, client, mirrored,
                      picture, sounds, aborted>>

\* progress_callback: video_renderer_cycle.
Cycle == /\ Looping /\ picture = "expired"
         /\ picture' = "none"
         /\ IF renderer # NoRenderer /\ pipelines[renderer].codec = "jpeg"
            THEN pipelines' = SetState(renderer, "PLAYING") ELSE UNCHANGED pipelines
         /\ UNCHANGED <<options, renderer, hls_video, url, watched, place, requests, client,
                        mirrored, sounds, aborted>>

AudioFails == /\ Looping /\ audio # "none" /\ error = "none"
              /\ error' = "posted"
              /\ UNCHANGED <<options, video, url, watched, place, requests, client, mirrored,
                             picture, audio, aborted>>

\* The main loop takes the message off the bus, and goes by `renderer' then.
TakeAudioError == /\ Looping /\ error = "posted"
                  /\ error' = "taken"
                  /\ UNCHANGED <<options, video, url, watched, place, requests, client, mirrored,
                                 picture, audio, aborted>>

AudioError ==
    /\ Looping /\ error = "taken"
    /\ UNCHANGED options
    /\ IF audio = "none" THEN Abort("audio")
       ELSE /\ error' = "none" /\ Leave
            /\ UNCHANGED <<video, url, requests, client, mirrored, picture, audio, aborted>>

-----------------------------------------------------------------------------
\* After the loop; without video there is none of this.

MustRebuild == close_window \/ preserve \/ full_reset

Relaunch ==
    /\ Runs /\ place = "left"
    /\ StopAudio
    /\ client' = (client /\ ~reset_httpd)
    /\ IF MustRebuild
       THEN /\ place' = "build"
            /\ pipelines' = [i \in Ids |-> Nothing] /\ renderer' = NoRenderer
            /\ url' = (url /\ preserve)
            /\ mirrored' = IF reset_httpd THEN NoStream
                         ELSE [mirrored EXCEPT !.doomed = @ \/ (mirrored.up /\ ~preserve)]
       ELSE /\ place' = "entry"
            /\ mirrored' = (IF reset_httpd THEN NoStream ELSE mirrored)
            /\ UNCHANGED <<pipelines, renderer, url>>
    /\ UNCHANGED <<options, hls_video, watched, requests, picture, aborted>>

Build(ok) ==
    /\ Runs /\ place = "build"
    /\ IF ok THEN BuildAll(url) /\ full_reset' = FALSE /\ place' = "entry"
             ELSE /\ place' = "ended" /\ UNCHANGED <<video, full_reset>>
    /\ UNCHANGED <<options, url, watched, quit, preserve, close_window, reset_httpd, client,
                   mirrored, picture, sounds, aborted>>

\* The buses that main_loop listens to, by the options and url.
Watches(hls) == {TypeOf(c) : c \in Wanted(hls)}

EnterLoop ==
    /\ Runs /\ place = "entry"
    /\ UNCHANGED options
    /\ IF \E i \in Watches(url) : ~Exists(i) THEN Abort("listen")
       ELSE /\ place' = "loop" /\ watched' = Watches(url)
            /\ url' = FALSE
            /\ quit' = FALSE /\ preserve' = FALSE /\ reset_httpd' = FALSE
            /\ close_window' = ~nc
            /\ picture' = "none"
            /\ UNCHANGED <<video, full_reset, client, mirrored, sounds, aborted>>

PipelinesNext ==
    \/ Connect \/ Disconnect \/ SetupMirror \/ NoHold \/ RemoveMarked
    \/ \E codec \in {"h264", "h265"} : SetCodec(codec)
    \/ \E on \in BOOLEAN : Suspend(on) \/ MirrorFails(on) \/ Build(on)
    \/ \E kind \in {"mirror", "hls", "audio"} : Teardown(kind)
    \/ CoverArt \/ CoverArtExpires \/ Cycle
    \/ AirplayConnect \/ VideoPlay \/ HlsShutdown \/ Eos
    \/ \E state \in {"READY", "PAUSED", "PLAYING"} : VideoControl(state)
    \/ \E format \in {"AAC-ELD", "ALAC"} : AudioFormat(format)
    \/ ResetCallback \/ FeedbackCallback
    \/ \E i \in Ids : VideoError(i)
    \/ \E state \in {"PAUSED", "PLAYING"} : Buffering(state)
    \/ AudioFails \/ TakeAudioError \/ AudioError
    \/ Relaunch \/ EnterLoop

PipelinesSpec == PipelinesInit /\ [][PipelinesNext]_pipelineVars

-----------------------------------------------------------------------------
\* `renderer' is a pipeline that exists, a mirror pipeline that was chosen is
\* alone, and a player never shares the table.
Consistent ==
    /\ PipelinesTypeOK
    /\ renderer # NoRenderer =>
         /\ Exists(renderer)
         /\ \A i \in Ids : Exists(i) => i = renderer
    /\ \A i \in Ids : Exists(i) => (pipelines[i].codec = "hls" <=> hls_video)

\* A frame only ever goes to a pipeline of its own codec: although `renderer' is
\* chosen once, by whichever comes first, a stream's or a picture's, and a
\* stream may outlive the pipelines it was chosen with.
FramesMatch ==
    mirrored.codec # "unknown" /\ renderer # NoRenderer
        => pipelines[renderer].codec \in {mirrored.codec, "hls"}

\* Frames meet a pipeline that is there and that can decode them.
PipelinesFit == Consistent /\ FramesMatch

\* video_renderer_listen asserts that the pipeline it is to listen to is there.
ListensToWhatIsThere == aborted # "listen"

=============================================================================
