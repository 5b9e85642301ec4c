------------------------------ MODULE Recorder ------------------------------
(***************************************************************************)
(* Recording to a file (libxmirror/renderers/mux_renderer.c).              *)
(*                                                                         *)
(* Four threads use one renderer and no lock.  The thread of the mirroring *)
(* stream chooses the video codec and pushes frames; the server thread     *)
(* chooses the audio codec and stops the recording with the last           *)
(* connection, before the streams of that connection are stopped           *)
(* (raop.c:552); the audio thread pushes its packets; the engine's loop    *)
(* stops the recording before it starts over, with the server running or   *)
(* not.                                                                    *)
(*                                                                         *)
(* Closing a file waits for its pipeline, up to 5 seconds, so it has two   *)
(* steps.  What a thread meets that closes a file while another does is    *)
(* undefined, and the model ends there (broken).  Choosing a codec, making *)
(* a file and pushing a buffer do not wait for anything and are one step   *)
(* each; what a push may find in an object that is freed under it is left  *)
(* out.                                                                    *)
(***************************************************************************)
EXTENDS Integers

CONSTANTS
    WithAudio, WithVideo,   \* use_audio, use_video
    Width,                  \* 2^64: what a GstClockTime counts to before it wraps
    LastTime,               \* bound: times of the client's clock
    MaxFiles                \* bound: files that are started

VARIABLES
    recording,      \* renderer, with its pipeline while open
    audioIsAlac,    \* audio_is_alac
    videoIsH265,    \* video_is_h265
    closing,        \* who is in mux_renderer_stop and for what
    broken,         \* two threads have closed one file
    sends,          \* the client's side: what it sends, and whether it does
    forgotten,      \* history: codecs in use that the end of a file has unset
    tracks,         \* the newest stamp of each track, when that buffer was made,
                    \* the silence put in and the stamp of the sound behind it
    files           \* file_count

codecs == <<audioIsAlac, videoIsH265>>
recorderVars == <<recording, codecs, closing, broken, sends, forgotten, tracks, files>>

Unset == -1     \* GST_CLOCK_TIME_NONE

ASSUME RecorderAssumption == /\ LastTime \in Nat /\ MaxFiles \in Nat
                             /\ Width \in Nat /\ LastTime < Width
                             /\ WithAudio \in BOOLEAN /\ WithVideo \in BOOLEAN
                             /\ WithAudio \/ WithVideo

Empty == [exists |-> FALSE, open |-> FALSE, video |-> FALSE, audio |-> FALSE, alac |-> FALSE,
          h265 |-> FALSE, base |-> Unset, firstVideo |-> Unset, firstAudio |-> Unset,
          started |-> FALSE]
NoTracks == [video |-> Unset, seen |-> Unset, audio |-> Unset, heard |-> Unset,
             silence |-> 0, sound |-> Unset]

\* mux_renderer_start: an open file goes on.  A new one has no picture when the
\* audio is ALAC.
Made(alac, h265) ==
    [Empty EXCEPT !.exists = TRUE, !.open = TRUE, !.alac = alac, !.h265 = h265,
                  !.video = WithVideo /\ ~alac, !.audio = WithAudio]

StartFile(r, alac, h265) ==
    \/ r.open /\ recording' = r /\ UNCHANGED <<tracks, files>>
    \/ /\ ~r.open /\ files < MaxFiles
       /\ recording' = Made(alac, h265)
       /\ tracks' = NoTracks /\ files' = files + 1

\* mux_renderer_stop: the tracks get their end, and the thread waits for it.
BeginClose(by) ==
    /\ IF closing = "none" THEN closing' = by /\ UNCHANGED broken
                           ELSE broken' = TRUE /\ UNCHANGED closing
    /\ UNCHANGED <<recording, tracks, files>>

\* What it leaves: the struct with its own codecs.
Closed(r) == [r EXCEPT !.open = FALSE, !.video = FALSE, !.audio = FALSE, !.base = Unset]

\* The codecs chosen are forgotten with the file, also those chosen meanwhile.
ForgetCodecs ==
    /\ audioIsAlac' = FALSE /\ videoIsH265' = FALSE
    /\ forgotten' = [audio |-> sends.hears /\ sends.alac, video |-> sends.sees /\ sends.h265]

-----------------------------------------------------------------------------
\* Mutant: a change is taken for more of the same.
NeverChanged(alac) == FALSE

\* Whether the codec asks for a renderer of its own.
AudioChanged(alac) == recording.exists /\ recording.alac # alac

VideoChanged(h265) == recording.open /\ recording.h265 # h265

\* mux_renderer_choose_audio_codec.  A renderer without a pipeline is freed at once.
ChooseAudio(alac) ==
    /\ audioIsAlac' = alac /\ UNCHANGED videoIsH265
    /\ IF AudioChanged(alac) /\ recording.open THEN BeginClose("audio")
       ELSE /\ LET left == IF AudioChanged(alac) THEN Empty ELSE recording
               IN  IF alac THEN StartFile(left, alac, videoIsH265)
                   ELSE recording' = left /\ UNCHANGED <<tracks, files>>
            /\ UNCHANGED <<closing, broken>>

\* mux_renderer_choose_video_codec
ChooseVideo(h265) ==
    /\ videoIsH265' = h265 /\ UNCHANGED audioIsAlac
    /\ IF VideoChanged(h265) THEN BeginClose("video")
       ELSE StartFile(recording, audioIsAlac, h265) /\ UNCHANGED <<closing, broken>>

ServerIsFree == ~broken /\ closing \notin {"last", "audio"}
MirrorIsFree == ~broken /\ closing # "video"

\* audio_get_format: the client sets up an audio stream.
SetupAudio ==
    /\ ServerIsFree
    /\ \E alac \in BOOLEAN :
        /\ sends' = [sends EXCEPT !.alac = alac, !.hears = TRUE]
        /\ IF WithAudio
           THEN ChooseAudio(alac) /\ forgotten' = [forgotten EXCEPT !.audio = FALSE]
           ELSE UNCHANGED <<recording, codecs, closing, broken, forgotten, tracks, files>>

\* video_set_codec: a codec packet of the mirrored picture.
SetupVideo ==
    /\ MirrorIsFree
    /\ \E h265 \in BOOLEAN :
        /\ sends' = [sends EXCEPT !.h265 = h265, !.sees = TRUE]
        /\ ChooseVideo(h265)
    /\ forgotten' = [forgotten EXCEPT !.video = FALSE]

\* A stamp is a difference of unsigned times.
Stamp(t, base) == (t - base) % Width

\* mux_renderer_push_video: the first buffer of a file is its time zero.  A file
\* that is being closed takes no buffer any more.
PushVideo(t) ==
    /\ MirrorIsFree /\ sends.sees
    /\ recording.open /\ recording.video
    /\ recording' = IF recording.base = Unset
                    THEN [recording EXCEPT !.base = t, !.firstVideo = t]
                    ELSE recording
    /\ tracks' = IF closing = "none"
                 THEN [tracks EXCEPT !.video = Stamp(t, recording'.base), !.seen = t]
                 ELSE tracks
    /\ UNCHANGED <<codecs, closing, broken, sends, forgotten, files>>

\* Silence fills the time by which the first sound is behind the first picture.
SilenceFor(t) == IF t > recording.firstVideo THEN t - recording.firstVideo ELSE 0

\* mux_renderer_push_audio
PushAudio(t) ==
    /\ ~broken /\ sends.hears
    /\ recording.open /\ recording.audio
    /\ LET begins == ~recording.started /\ recording.firstVideo # Unset
           base == IF recording.base = Unset THEN t ELSE recording.base
       IN /\ recording' = [recording EXCEPT !.base = base, !.started = @ \/ begins,
                                            !.firstAudio = IF begins THEN t ELSE @]
          /\ tracks' = IF closing # "none" THEN tracks
                       ELSE [tracks EXCEPT !.audio = Stamp(t, base), !.heard = t,
                                           !.silence = IF begins THEN @ + SilenceFor(t) ELSE @,
                                           !.sound = IF begins THEN Stamp(t, base) ELSE @]
    /\ UNCHANGED <<codecs, closing, broken, sends, forgotten, files>>

\* The end of the last connection ("last"), and a new pass of the engine's loop.
StopRecording(by) ==
    /\ ~broken /\ closing # by
    /\ by = "last" => ServerIsFree
    /\ recording.open /\ BeginClose(by)
    /\ UNCHANGED <<codecs, sends, forgotten>>

EndStop ==
    /\ ~broken /\ closing \in {"last", "engine"}
    /\ recording' = Closed(recording) /\ ForgetCodecs /\ closing' = "none"
    /\ UNCHANGED <<broken, sends, tracks, files>>

\* The rest of a choice of codec: the renderer goes, and one is made with the
\* codecs of the moment; for sound only if the new codec is ALAC.
EndRecreate ==
    /\ ~broken /\ closing \in {"audio", "video"}
    /\ ForgetCodecs /\ closing' = "none"
    /\ IF closing = "audio" /\ ~sends.alac
       THEN recording' = Empty /\ UNCHANGED <<tracks, files>>
       ELSE StartFile(Empty, FALSE, FALSE)
    /\ UNCHANGED <<broken, sends>>

\* The threads of the streams are joined: of one by TEARDOWN, of both with their
\* connection.
StreamsEnd ==
    /\ ServerIsFree /\ MirrorIsFree
    /\ \E hears \in {FALSE, sends.hears}, sees \in {FALSE, sends.sees} :
         sends' = [sends EXCEPT !.hears = hears, !.sees = sees]
    /\ UNCHANGED <<recording, codecs, closing, broken, forgotten, tracks, files>>

RecorderInit ==
    /\ recording = Empty
    /\ audioIsAlac = FALSE /\ videoIsH265 = FALSE
    /\ closing = "none" /\ broken = FALSE
    /\ sends = [alac |-> FALSE, h265 |-> FALSE, hears |-> FALSE, sees |-> FALSE]
    /\ forgotten = [audio |-> FALSE, video |-> FALSE]
    /\ tracks = NoTracks
    /\ files = 0

RecorderNext ==
    \/ SetupAudio \/ SetupVideo
    \/ \E t \in 0 .. LastTime : PushVideo(t) \/ PushAudio(t)
    \/ \E by \in {"last", "engine"} : StopRecording(by)
    \/ EndStop \/ EndRecreate \/ StreamsEnd

RecorderSpec == RecorderInit /\ [][RecorderNext]_recorderVars

-----------------------------------------------------------------------------
Writing == recording.open /\ closing = "none" /\ ~broken

\* What is written has the codec that the file was made for, unless the end of an
\* earlier file has unset the codec while it was in use.
TracksAreNamed ==
    Writing =>
        /\ recording.audio /\ sends.hears /\ ~forgotten.audio => recording.alac = sends.alac
        /\ recording.video /\ sends.sees /\ ~forgotten.video => recording.h265 = sends.h265

\* Sound and picture are stamped on one time line, whichever came first and
\* however old the other is: two stamps are as far apart as their buffers.
OnOneTimeLine ==
    Writing /\ tracks.video # Unset /\ tracks.audio # Unset
        => Stamp(tracks.video, tracks.audio) = Stamp(tracks.seen, tracks.heard)

\* Silence reaches from the first picture to the first sound behind it; where the
\* sound is the older one there is none.
SilenceFillsTheGap ==
    Writing =>
        IF recording.started /\ recording.firstAudio >= recording.firstVideo
        THEN tracks.silence = tracks.sound
        ELSE tracks.silence = 0

\* A file says what is in it, as far as the codecs were not forgotten, and keeps
\* sound and picture together.
FilesAreTrue == TracksAreNamed /\ OnOneTimeLine /\ SilenceFillsTheGap

\* What the recorder logs ("Audio codec changed, recreating mux renderer"): the
\* new file is made for the new codec.  It is not: closing the old file forgets
\* the codec that was just chosen.
RecreatedForTheCodec ==
    Writing =>
        /\ recording.audio /\ sends.hears => recording.alac = sends.alac
        /\ recording.video /\ sends.sees => recording.h265 = sends.h265

=============================================================================
