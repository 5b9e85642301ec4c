# XMirror in TLA+

XMirror shows the screen and plays the sound of an iPhone, iPad or Mac on a Windows PC. This directory models
it in TLA+, checks the models with TLC and proves part of what they promise with TLAPS. Paths below are
paths of the repository (`libxmirror/...` is the receiver library, `src/...` the Windows application; `lib/` is
short for `libxmirror/lib/`); line numbers in comments and in `PROJECT.json` refer to the same commit.

## 1. The system

One process, several threads. The **GUI thread** (`src/mainwindow.cpp`) starts one **worker thread**
(`src/airplayworker.cpp`) per run of the engine; the worker calls `start_xmirror()`, and that thread becomes the
**engine thread** (`libxmirror/xmirror.cpp`): it parses its command line, builds the GStreamer pipelines, starts the
**server thread** (`lib/httpd.c`), registers two services with Bonjour and waits in a GLib main loop. The server
thread runs every RTSP and HTTP handler (`lib/raop.c`, `raop_handlers.h`, `http_handlers.h`) and keeps, for each
connection, up to three services with threads of their own: the clock (`raop_ntp.c`), the audio stream
(`raop_rtp.c`) and the mirroring stream (`raop_rtp_mirror.c`). Threads below call back into the engine; engine and
application talk through plain flags. A Bluetooth beacon is a process of its own that reads a file of the engine's.

| component | state | operations | what is hard | module |
|---|---|---|---|---|
| audio ring, `raop_buffer.c` | slots, window of 16-bit sequence numbers | enqueue, dequeue, resends, flush | the wrap; packets late, early, repeated, lost; a payload leaked or overwritten | `RaopBuffer` implements `PlayoutWindow` |
| audio stream, `raop_rtp.c` | running/joined, mailbox, sync state | start, stop, destroy; post volume, metadata, progress, flush; receive, sync, play | handlers against the audio thread; a second stream on the same object | `AudioRtp` |
| video decryption, `mirror_buffer.c` | place in an AES-CTR stream, leftover keystream | init, decrypt | payloads that are no whole blocks; one wrong byte garbles all that follow | `MirrorBuffer` |
| mirroring stream, `raop_rtp_mirror.c` | connection, bytes read so far, parameter sets, codec | start, stop, destroy; accept, read, handle each packet type, end | short reads, hang-ups and reconnects anywhere; codec changes | `MirrorStream` |
| clock, `raop_ntp.c` | eight samples, offset | timing thread, stop, conversions | lost, late and crossing answers; a wall clock that is set; a signal between test and wait | `Clock` |
| engine, `xmirror.cpp` | pipelines, server, a dozen flags | start, main loop and its sources, callbacks, rebuild, stop | three threads write the flags and rebuild the pipelines without a lock; requests between two loops | `Engine` implements `EngineLife` |
| renderers, `video_renderer.c`, `audio_renderer.c` | pipelines per codec, the chosen one, HLS | choose, render, watch, reset, rebuild | a codec chosen before a rebuild; mirroring into an HLS pipeline | `Pipelines` |
| recorder, `mux_renderer.c` | codecs, file, first timestamps | choose, push, stop | a codec that changes while a file is open | `Recorder` |
| server and connections, `httpd.c`, `raop.c`, `raop_handlers.h` | slots, marks, each slot's services | accept, read, remove, mark, start, stop; identify, SETUP, TEARDOWN, reverse | marks from another thread, takeover by a new client, teardown order | `Server` |
| HTTP messages, `http_request.c`, `http_response.c`, `httpd.c` | parser state, fields, body; answer buffer | receive in pieces, add, finish | requests cut anywhere by `recv`; a field in several callbacks | `HttpMessage` |
| pairing and password, `pairing.c`, `raop_handlers.h` | session per connection; PIN, nonce, password and counters shared by all | pair-setup, -verify, -pin; digest; register | clients that leave half-way and come back; a restart | `ClientAuth` |
| HLS video, `airplay_video.c`, `http_handlers.h`, `fcup_request.h` | playlist slots, current video, next media playlist | play, FCUP answers, action, remove, end of stream | answers matched by order, interrupted downloads | `HlsPlaylists` implements `VideoLibrary`; texts in `PlaylistText` |
| advertisement, `dnssd.c`, `mdns_responder.cpp` | two registered services, their records | register, unregister, set features; install Bonjour | half-failed starts, Bonjour that comes and goes, /info before there is anything to tell | `Advertisement` |
| beacon, `Bluetooth_LE_beacon/` | the file, the radio | poll, start, stop | a half-written file, a dead engine, late reports of the radio | `Beacon` |
| application, `mainwindow.cpp`, `airplayworker.cpp` | current worker, pending changes, timers, queued signals | start, stop, restart, defer, quit; what a worker signals | signals of a dead worker, restart timers, a worker that does not end | `AppControl` over `EngineLife` |
| settings and options, `mainwindow.cpp`, `xmirror.cpp` | settings, `arguments.txt`, the engine's globals | change, preset, apply, reset; parse | two sources of one command line; globals that outlive a run | `Settings` over `EngineOptions` |
| mirror window, `mirrorshape.cpp`, `mainwindow.cpp` | aspect, hook, saved places | hook, drag, rotate, find, save | the picture rotates while a resize is pending; monitors that go | `MirrorShape` |
| update checker, `updatechecker.cpp` | state, reply, file | check, download, cancel, launch | cancel against completion; a file that changes after it was verified | `UpdateChecker` |
| cryptography, llhttp, logging, themes, scripts | | | | section 8 |

Interactions: `Server` starts and stops what `AudioRtp`, `MirrorStream` and `Clock` model, and is started and stopped
by what `Engine` models; `AudioRtp` drives `RaopBuffer` (composed: every ring action of `AudioRtp` is one of the
ring's); `MirrorStream` hands each payload to `MirrorBuffer` and each frame or reset to `Engine`, which drives
`Pipelines`; `AppControl` calls the engine through its contract `EngineLife`; `Settings` makes the command line that
`EngineOptions` parses (composed); `HlsPlaylists` keeps the texts `PlaylistText` rewrites; `Advertisement` and
`Beacon` tell devices where `Server` listens.

## 2. The modules

Every module is translated from the source named in its head, one action per handler or per step that another
thread can come between. History variables are named in the module's head. Operators under a comment "Mutant"
are plausible mistakes; they are used by no action and serve to show that each property can fail.

**RaopBuffer.** The ring of `raop_buffer.c`. A payload is the number of its audio frame; frame *n* travels with
sequence number *n* % W. `Enqueue`, `Dequeue`, `HandleResends`, `FlushAll` are the four operations, `Send` is the
client. The network delivers any sent frame any number of times in any order; a packet is at most half the
sequence space late (`InFlight`), without which no receiver could tell old from new. `PlayoutWindow` says what
the ring promises without slots and without wrapping numbers, and `ImplementsWindow` is the refinement.

**AudioRtp.** The audio thread's pass (`TakeMail`, `DeliverMail`, `select`, `Resent`, `Sync`, `DataPacket`, `Play`,
`AskForResends`) against the control thread's `Post`, `StartAudio`, `Stop`, `Join`, `Close`, `Destroy`. The ring is that
of `RaopBuffer`, action by action. A socket takes what reaches its port, and the ports may be fixed (`raop.c:782`), so a
packet sent during one stream may be received by the next, and is then played there; `owner` and `heard` remember which
stream's thread received what, so that `NoStaleFrames` is about what is left over in the receiver, not on the network.

**MirrorBuffer.** A keystream byte is abstracted to its index, so "decrypted with the right byte" becomes an
equation between indices. `KeyOf(n)` is the sequence of indices a payload of *n* bytes meets, with C's quotient and
remainder, both rounding towards zero.

**MirrorStream.** Bytes are counted in pieces: a header has H, a payload at most one. The thread's loop is cut at
each `recv`; the client sends any of the packet types in pieces, hangs up and reconnects at will. A `recv` that finds
nothing may time out and need not: the time-out is set with a `struct timeval` (`raop_rtp_mirror.c:260`), of which
Windows reads the first word, and 0 is no time-out there (`raop_ntp.c:226` has the branch for it). Parameter sets,
the promise to prepend them, timestamps, codec choice, suspension and the three ways the thread ends are kept;
the contents of a payload are not.

**Clock.** One timing thread against a network that loses, delays and crosses answers, a client whose clock is ahead
or behind by `Skew`, a wall clock that is set during the run, and a stop. Ticks stand for time; `Best` is the sample
the thread trusts, `fixed` the offset a stream has taken.

**EngineLife, Engine.** `EngineLife` is the contract of `start_xmirror`/`stop_xmirror`. `Engine` is `run_xmirror`
and `main_loop` with every source of the loop, the callbacks of the server and mirror threads, and the
"reconnect" decisions. A callback is cut where another thread can interleave: destroying, building, writing the
flags, raising `reset_loop`.

**Pipelines, Recorder.** The same engine seen from its renderers: which pipelines exist, which one plays, what the
watches on their buses do, under every combination of the options that decide on a rebuild; and the files
`mux_renderer` writes. Frames are one at a time: a GStreamer element is what its caller gets from it. The recorder has
four threads and no lock: sound and picture are stamped by clocks of their own, in any order, and closing a file, which
waits up to 5 s, has two steps between which the others go on. Two threads that close one file at once are undefined
behaviour, and the model ends there (`broken`).

**Server.** The rounds of the server thread, slot by slot (removing, accepting, serving), the walk of the engine
thread that marks connections, and the handlers reduced to what they do to connections and services. A request is
refused, incomplete or broken as well as obeyed; which handler runs is the request's choice and not the connection's
kind, as in `raop.c:403-476`. `conn_destroy` is one step per service, because each waits for a thread.

**HttpMessage.** A request is a sequence of bytes, each a character and what it is part of (method, url, protocol, a
header's name or value, body), that `recv` cuts anywhere; llhttp calls back once for each piece of a part that lies in
what was read, and with an empty piece for a url that the last read ended and for a value that is empty. An answer is
what the handler adds until it is finished, and goes out in parts of any size.

**ClientAuth.** The PIN, the nonce, the random password and its count, which the receiver has once, against sessions,
which each connection has. PINs and nonces are numbered; a proof or a signature fits or does not. No handler looks at
whether another exchange came first, or at the option it belongs to, so the clients may call any of them; only the second
step of an exchange needs its first. A PIN that was taken is 0 in the code, so four zeros are what the next proof is
compared with: that is in the model, and excepted from `CredentialsWorkOnce`.

**VideoLibrary, HlsPlaylists, PlaylistText.** A video is a uuid with its table of media uris; a playlist is a uri. The
client plays, is interrupted, answers FCUP requests late or never. A connection has one session id for all it plays
(`raop.c:398`), so the session check (`http_handlers.h:486`) lets a late answer to an earlier play pass, and it is filed
at the place the current video has reached; the history field `from` remembers which download alone has filled a slot,
and is 0 once anything else was filed in it. `VideoLibrary` is a set of videos of which one may be current; the slots
implement it. `PlaylistText` has what is done to the text: lines are tokens, a url is a prefix
and a rest, and expansion is done entry by entry, with the sizes the code computes beforehand.

**Advertisement.** The engine's steps from `dnssd_init` to `dnssd_destroy`, each of which may fail; what Bonjour keeps
on the air; a device that asks /info with what it found at any earlier time; and the window that installs Bonjour.

**Beacon.** The writer of the file, the two scripts that poll it and the four modules that drive a radio; a command
to a radio may fail, and its status may come late. The engine stops, crashes with its process, or is terminated in a
process that lives on.

**AppControl.** The window on the GUI thread and up to |Workers| worker objects, each a thread that runs the
engine in a loop. Queued signals are one FIFO; disconnecting a worker stops later signals, not posted ones. A
deleted worker's address may be in use again, so `MayRun` of a dangling pointer answers either way.

**EngineOptions, Settings.** Every option of `parse_arguments` is a record of what it does with its next word and what
it assigns; `ParseArguments` folds them over a line. `Settings` has the controls of every page, the line they make of
`arguments.txt` (the window's own `-ble` at its end included), and the globals a second start in the same process finds.

**MirrorShape.** Integer geometry of `mirrorshape.cpp` as the code computes it, the window procedure, the timer that
finds the mirror window, saved places and the monitors they were saved on. Resizes are asynchronous.

**UpdateChecker.** The states of the checker and of its reply, the temporary folder anybody may write to, also between
the last look at the installer and its start, and the window that drives it.

**The proofs.** `AudioProofs` is about `AudioRtp` and the `RaopBuffer` in it; `WireProofs` about what a client sends in
pieces, `MirrorStream` and `HttpMessage`; `EngineProofs` about `Engine` and the line it is started with, `Settings`;
`HlsPlaylistsProofs` about the module it is named after; `ServerProofs` about `Server` and `ClientAuth`; `PartsProofs`
about what a stream passes through: `MirrorBuffer`, `Clock`, `Recorder`, `Pipelines`; `DesktopProofs` about the
application and what surrounds the engine: `AppControl`, `Advertisement`, `UpdateChecker`, `Beacon`, `MirrorShape`.
`Modular` has what they share: `%` with a modulus that is a parameter, and the least number of a set.

**MC modules.** `MCxxx` gives the constants of `xxx` that no configuration file can express. Two of them put modules
that share no state side by side and let one of them run in each behaviour: `MCEngineParts` and `MCDesktop`. This is
the disjoint union of their behaviours, so that each is checked as it would be alone.

## 3. What the runs check

| run | instance | distinct states | properties |
|---|---|---|---|
| `audio_ring` | ring of 4, sequence numbers mod 16, 15 frames over the wrap | 63,981 | `RingOK` (types; each slot owns the frame that hashes to it; the window never longer than the ring), `InOrder`, `EnqueueIsRight` (no payload leaked, no useful frame dropped), `RequestsAreMissing`, `ImplementsWindow` (refinement of `PlayoutWindow`) |
| `audio_thread` | ring of 2, numbers mod 8, two streams, two posts | 184,656 | `AudioFits` (the object is freed after its thread), `NoStaleFrames` (a stream plays only what its own thread has received), `ControlIsServed` (a stop completes, mail is applied) |
| `mirror_stream` | headers of 2 pieces, two timestamps | 903,561 | `MirrorFits` (framing stays aligned, the engine is told how the thread ended), `PromisedSetsAreHeld`, `SetsGoWithTheirFrame`, `StopCompletes` (unless the client leaves a packet unfinished for ever) |
| `engine` | every option that adds behaviour on, two connections, limit of one second | 598,554 | `EngineFits` (serves in its loop, quiet without its server, all released when off), `KeepsContract` (refinement of `EngineLife`), `SilentClientDropped` |
| `app` | three worker objects, one pending change, one timer | 687,406 | `WindowFits` (one thread in the engine, every worker accounted for, no thread outlives the application), `RunningIsShown`, `QuitCompletes` |
| `server` | two slots, HLS supported, with and without "no hold", services on one connection at a time | 707,785 | `ServerFits` (one mirroring client, the clock outlives the streams, no service outlives its connection), `MarkedAreRemoved`, `StopReturns` |
| `hls` | three slots, three videos, two sessions, three downloads | 2,297,891 | `LibraryIsTrue` (slots consistent, room for one more, media under their own uri), `PlaysWhatIsThere`, `IsLibrary` (refinement of `VideoLibrary`) |
| `auth` | two clients, three attempts each, three PINs, three nonces, a byte of eight, all four modes | 1,976,802 | `AccountsAreTrue` (who is in the register has paired; a random password is shown three times at most), `CredentialsWorkOnce` |
| `engine_parts` | `MirrorBuffer`, `Clock`, `HttpMessage`, `PlaylistText`, `Recorder`, `Pipelines` side by side | 2,041,921 | `InStep`, `ClockIsTrue`, `MessagesArriveWhole`, `PlaylistsAreTrue`, `FilesAreTrue`, `PipelinesFit` |
| `desktop` | `UpdateChecker`, `Settings`, `Beacon`, `MirrorShape`, `Advertisement` side by side | 1,305,532 | `OnlyTheOfferIsInstalled`, `CancelIsHonoured`, `BeaconIsTrue`, `BothAreKept`, `MirrorIsShaped`, `AdvertisementIsTrue` |
| `app_stop`, `beacon_port` | as `app`; two ports | | refuted, see section 6 |

A module's type invariant is a conjunct of its first property, so that a run has no property that only says what a
variable's type is.

**Why these bounds.** The ring needs room for a frame in the middle of the window (L = 4), a sequence space four
times as long, so that "early", "late" and "far ahead" are all different, and enough frames to go once round the
ring after the wrap. The audio thread's properties need two streams and a ring that can be full. Two pieces cut a
header; two timestamps agree or differ; the mirror client is otherwise unbounded. Two connections are a client and
its successor; the engine's other state is finite by itself. Three workers are the current one, the one just stopped
and one that has ended but is not deleted. Two slots hold a client and the one that replaces it, or mirroring
beside media; `MaxServed` lets one of them at a time begin services, beside one that is being torn down, and `RtspKinds`
has clients ask for streams on connections of two of the kinds, the usual one and one it was not meant for. Three playlist
slots are the video that plays, the advertisement that interrupted it and the one whose
download begins, the three cases `LibraryIsTrue` has to keep apart (room for one more means that two are kept, so the
third video is the one that drops another); two sessions are the one an answer is let in by and the one it is not. Two
clients are one that has a PIN displayed and one that makes it stale, and each may leave and come back; `Byte` is 256 in
the code and small here so that the count of failures wraps.

In `engine_parts`: blocks of 4 with payloads up to two blocks and one byte meet every remainder with every
leftover; the clock's answers are late by 0 to 2 ticks, its wall clock is set by up to the skew, and a buffer of two
samples is one that is refreshed and one that ages; an answer buffer of eight bytes has to grow, and a second
exchange meets what the first left; a recording has three files, so that one is between a first and a last, and stamps
that wrap at eight (2^64 in the code, `Width`), so that an older buffer's does. In `desktop`:
two versions, ports, sizes and starts, since each hazard is that of something left over from the one before.
Bounds are constants or named in the guards that use them (`MaxFrame`, `MaxTotal`, `MaxPost`, `MaxStream`,
`MaxConns`, `MaxPending`, `MaxTimers`, `MaxPlays`, `MaxAttempts`, `MaxPins`, `MaxNonces`, `LastTime`, `Exchanges`,
`MaxFiles`, `MaxVersion`, `MaxChanges`, `MaxRestarts`, `MaxWindows`, `MaxCalls`, `MaxDrags`, `MaxMoves`, and `MaxServed`
of the server and of the advertisement); the mirror stream has none. The options of `Advertisement` (32 of them) are sampled
in `desktop`; alone and with all of them it has 12.9 million states and keeps its property as well.

Deadlock is checked for the engine and the server, which never come to rest. Every other part may: the audio
object is freed, an assertion aborts the process, the bytes or plays the bound allows have been used up, the
application has ended.

## 4. Fairness

Weak fairness for threads that the operating system keeps running: the audio, mirror and server threads, each
callback once begun, the engine's main loop with its timers (100 ms and 1 s) and the joins of threads that have
ended. `select` has a time-out everywhere, so a thread waiting in it goes on; the `recv` of the mirror stream need not
have one, so nothing is assumed of it, and `StopCompletes` says what that costs: a stop that finds the thread waiting for
the rest of a packet waits as long as the client keeps the connection without sending it. Nothing is assumed of clients,
of the bus of a pipeline or of the user. In `AppControl` the event loop delivers, timers fire, and the wait for a
worker is bounded by `kEngineStopTimeoutMs`; the quit timer has strong fairness, because its handler is only
briefly disabled while the GUI thread waits in a stop. A call of the engine has to end only where `EngineLife` says
so: after it was asked to stop. The other modules state no fairness: their properties are safety properties, and
what has to happen in them eventually (an FCUP answer, a reply of the network, a press of a button) depends on
somebody outside the program.

## 5. What is proved

Each theorem is `Spec => []Inv` or `Spec => [][A]_vars` for every value of the constants their assumptions allow, where
the run of section 3 has one small instance. An invariant is seldom inductive as it stands; what has to be added, and
why, is said for each.

**The audio ring** (`AudioProofs`), for every ring length L that divides W, every W with W/2 >= 2L (2^16 in the source),
every first sequence number and every number of frames:

- `Invariance`: `RingOK`, that is types, `HeldInWindow` and `WindowOK`. `WindowOK` alone is not inductive: that a frame
  leaves the window past the last one delivered needs to know which frames the slots hold. `HeldInWindow` adds it: a
  slot owns a payload exactly while it is filled, and that frame lies in the window, under its own number and in the
  slot that number hashes to. The key lemma is `CmpFrames`: on frames less than half the sequence space apart, the
  code's subtraction in 16 bits is the difference of the frame numbers.
- `Ordered`, `EnqueueKeepsFrames`, `RequestsMissing`: frames are delivered in the order they were sent, none twice
  (`InOrder`); a packet is discarded only if its frame is held already or lies before the window, and none overwrites a
  payload that a slot still owns (`EnqueueIsRight`); what a resend request names is missing and older than a frame that
  has come (`RequestsAreMissing`).
- `Refinement`: the ring implements `PlayoutWindow`; each action maps to one of the window's or to a stutter.

**The audio stream** (`AudioProofs`), for any number of streams and any kinds of mail:

- `ObjectOutlivesThread`: `AudioFits`. The strengthening `LifeOK` ties the thread to the calls of the control thread: the
  ring is empty while no stream is open, only a thread that was told to stop or gave up is past its loop, and a
  stream that is neither running nor joined gave up.
- `StreamsAreSeparate`: `NoStaleFrames`. With `LifeOK`, it is enough that each frame a slot owns, and the one played last,
  was received by the thread of the stream that was started last (`Fresh`): whoever stops a stream waits for its thread
  and empties the ring after it.

**The mirroring stream** (`WireProofs`), for headers of any length and any timestamps:

- `Framed`: `MirrorFits`. A position in the stream is only meaningful while there is a connection, so the strengthening
  says where the thread has one and whether it reads a header or a payload there (`Places`).
- `SetsHeld`, `SetsGo`: `PromisedSetsAreHeld` and `SetsGoWithTheirFrame`. As long as the thread is in its loop the sets it
  holds are those of the last codec packet, with its timestamp and its codec (`SetsAreKnown`). The packet without sets
  breaks that by taking the timestamp alone, but the thread leaves its loop with it.

**Video decryption** (`PartsProofs`), for every block size and every payload length:

- `Invariance`: types, `WholeBlocks` (the cipher is only asked for whole blocks) and `LeftOverIsNext` (between
  payloads the receiver is ahead by exactly the leftover, and the leftover is the end of the last block).
- `StaysInStep`: each byte is decrypted with the keystream byte it was encrypted with. `InStep` needs the other two
  to be inductive: it speaks of the last payload only.

Both speak of the time before a payload shorter than the leftover and before a second initialisation
(`Undisturbed`); section 6 says what happens then.

**The clock** (`PartsProofs`), for any number of samples, any timeout, pause and lifetime of a packet, and any steps by
which the wall clock is set:

- `ClockKeepsTime`: `ClockIsTrue`. A packet that was not on its way while the clock was set tells the truth about both
  clocks (`PacketsTrue`: the time in it lies between its sending and now), so a clean sample is off by half its delay at
  most (`SamplesTrue`). For the stop, `WaitIsBounded` adds to the time waited what the thread may still wait at its place
  in the loop.

**The messages of a connection** (`WireProofs`), for any requests and answers, a buffer of any size and a protocol of
any length:

- `MessagesAreWhole`: `MessagesArriveWhole`. The property speaks of a request that is whole and of an answer that has
  gone out; the strengthening `MessageInv` says what there is in between. `ReadTo(req, r, q)` is the request as far as
  its first q bytes make it, said of the bytes and not of the reads: so much of the url, so many names and values, the
  last one as far as it goes, so much of the body, and the number of the string that `headers_index` has reached. Each
  callback takes `ReadTo` to the end of its piece (`CallbackReadTo`), so a read takes it from where the last one ended
  to where it ends itself, wherever that is (`AddDataReadTo`: an induction over the bytes read, as the absence of a
  least byte where it fails), and after the last byte there is what the client asked (`ReadToEnd`). The protocol is
  the client's once it was read, unless a read ended between the url and the protocol's last byte. Of the answer, what
  has arrived and what is still to go are together the text `FinishResponse` made; that a client reads it as the
  handler's is a property of that text: it grows by lines none of which is empty, so its head ends at the one blank
  line.

**The engine** (`EngineProofs`), for any options, any number of connections and any limit of missed feedback:

- `EngineIsFit`: `EngineFits`. The strengthening says that the server runs from its start to the end of the loop, or was
  asked for again (`ServerIsUp`), that there are no pipelines before they are built (`NothingYet`), and that from then on
  they are missing only while a thread is about to build them or the loop has yet to hear that it could not (`CanShow`).
  A callback begins only while the server runs, and the server is stopped only when no callback is under way
  (`QuietWithoutServer`): this is what keeps one thread's rebuild from another's.
- `ContractIsKept`: the engine starts like `EngineLife`, and each of its steps is one of `EngineLife` or changes nothing
  there. This is `KeepsContract` without its fairness, which is left to TLC.

**The line the engine is started with** (`EngineProofs`), for any `arguments.txt` and any number of changes and restarts:

- `FileReachesEngine`: `FileIsKept`, the half of `BothAreKept` that is about the file. A flag that is not on a line takes
  nothing from it (`StripsNothing`, about the recursive function in `StripFlag`), so with every setting at its default
  the window puts nothing but its `-ble` on the line and takes nothing but its own flags and the file's `-ble`
  (`DefaultsPutNothing`); and as long as nothing waits and nothing was restarted the globals are those of the line that
  file and settings make (`FirstStart`). The theorem is about files without the flags the window owns, and about an
  engine that runs: a file that ends in an option which takes any word (`-rc`) takes `-ble` itself, and is refused.

**The renderers** (`PartsProofs`), for any options:

- `PipelinesAlwaysFit`: `PipelinesFit`. Each pipeline has its place in the table and the chosen one is alone in it
  (`TableFits`); a codec is known only of a stream that is up (`StreamsFit`). All actions but two move the table in one of
  four ways (kept, rebuilt, cleared, one chosen), which is where the proof splits.

**The recorder** (`PartsProofs`), with and without sound and picture:

- `RecordsWhatIsSent`: `FilesAreTrue`. The codec the recorder remembers is the client's unless the end of a file has unset
  it while it was in use (`CodecIsKnown`, with the history `forgotten`); a file is made for the codec that is remembered
  and replaced when that changes (`FileIsNamed`); all stamps of a file are taken from one time zero, that of its first
  buffer, and silence is put in only behind a picture (`TracksAreTimed`). A stamp that is older than the zero wraps
  (`mux_renderer.c:273`), so what is proved of sound against picture is modulo the width of a time.

**The server** (`ServerProofs`), for every number of slots:

- `Fits`: `ServerFits`, whatever kind of connection a request comes on. Two kinds of facts strengthen it: where the server
  thread is in its round (`Rounds`: a round
  starts, and the loop is left, with the first slot) and what a connection still has at each step of its removal
  (`Removing`: the slot is freed when all it had is gone). A client that mirrors or plays audio while the one before
  it leaves is then the only one that stays.

**Pairing and passwords** (`ServerProofs`), for any set of clients and any number of PINs, passwords and nonces:

- `AccountsAreKept`: `AccountsAreTrue`. What is missing is that whoever has been through a pair-setup-pin on this connection
  counts as paired, since that is when the register is written (`PairedHere`). Nothing is claimed of who is verified or
  admitted without being in the register: the first request of a pair-verify is looked up once, and SETUP asks for none.
- `CredentialsAreSpent`: `CredentialsWorkOnce`. Numbers only grow and what is used is taken away: a PIN that was made, its
  verifier or a nonce that is held has let nobody in yet (`PinsAreSpent`, `NoncesAreSpent`). The zeros that stand for no
  PIN are excepted, in the property as in the theorem.

**HLS video** (`HlsPlaylistsProofs`), for any number of slots, videos, sessions and downloads, and tables of any length:

- `Kept`: `LibraryIsTrue`. An answer is filed by the place its download has reached, not by what was asked, so the
  strengthening `HInv` has two halves. One is about the questions (`AsksPart`): no two are of the same download, and each is
  about the place that the video of its download has reached, if that is still stored (`Expected`). The other is about
  each table (`Sound`): entries before the place are `Done`, which is to say they lead to their playlist, and those
  behind it are untouched. Both say nothing of a video that was given an answer to another download (`from` is 0); what
  `LibraryIsTrue` says of the slots, of what is current and of the room for one more holds of those as well.
- `Whole`: `PlaysWhatIsThere`, because at the end of a table every entry is `Done`, with the same exception.
- `Implements`: `IsLibrary`. Each step is one of `VideoLibrary` or changes nothing there. A new video is its `Fetch`: a slot is
  free afterwards, so what was kept counts two less than the slots.

**The application** (`DesktopProofs`), for every set of worker objects and every bound on timers and pending changes:

- `Fits`: `WindowFits`. The strengthening is `Waits`: while `stopServer` waits, the window has no worker of its own. So
  every worker that runs is either the window's or the one waited for, never both, and one at most is in the engine.
- `ShownAsRunning`: `RunningIsShown`, which speaks of an empty queue. `Shown` says what holds while signals are under
  way: if the window's worker has begun, the last signal that matters in the queue is its "started". It is kept because
  a worker that the window has let go of is detached, so its "stopped" cannot come later.

**Around the engine** (`DesktopProofs`), for all ports, options, versions, sizes, pictures, monitors and numbers of starts:

- `Advertised`: `AdvertisementIsTrue`. The strengthening says which calls each step of `run_xmirror` has behind it
  (`StepsEnd`, `StepsServe`, `StepsRegister`), and that an advertisement, on the air (`MadeOnAir`) or kept by a device
  (`Made`), was made in the start it names, from a record that is kept as long as the server knows it.
- `BeaconFollowsTheEngine`: `BeaconIsTrue`. What the script read at its last poll is what the file still says if nothing
  has changed since (`ReadsTheFile`), so a beacon that still runs after a second poll has a file whose process lives
  (`FollowsTheFile`); that file is the running engine's, or that of one that was terminated in its process (`FileOfEngine`);
  and what is on the air is a running beacon's or was abandoned (`OnAirRuns`). The scripts look for a process, so the
  terminated engine is an exception of the property; so are radios that refuse a command or outlive their script. That a
  live service is advertised is not claimed: a late STOPPED, taken for that of a successor, leaves it off the air.
- `InstallsTheOffer`, `CancelHolds`: `OnlyTheOfferIsInstalled`, which is inductive as it stands, and `CancelIsHonoured`. What
  is on offer is what is started, unless the file changes between the last look at it (`updatechecker.cpp:362`) and the
  use that is made of it.
- `WindowIsShaped`: `MirrorIsShaped`. A menu that disagrees with the settings has a call in the queue that will make them
  agree (`LockComes`), and once the moves on their way are made the window has the shape (`ShapeComes`), unless such a
  call is still to come. Underneath is arithmetic: a rounded quotient is off by half a unit, so a fitted or a dragged
  window has the picture's shape up to the rounding of one side, and it has a nearest monitor and lies on it (`FittedIs`,
  `ConstrainedIs`).

The assumptions are the named ASSUMEs on constants, which TLC evaluates in every run, and in `RaopBuffer` the guards of
`Send` and `InFlight`. They are types for the most part. Those that say more: L divides W, W is even and at least four
times L (32 and 2^16 in the source); the client's clock is not exactly ours, and positive (0 stands for "no time" in the
code); a password may be tried as often as a byte can count; a recorder records sound, pictures or both, and no time is
as large as a time may be; a session id is not the sign for none; a monitor has an area, and no window a negative one; a request has a url, a value for each name, and no name is empty (llhttp refuses or
supplies the rest); no header of an answer, nor a length written out, has a line's end in it;
`arguments.txt` is a sequence of words.

**Only model-checked.**

- Liveness, which is out of the prover's reach: `ControlIsServed`, `StopCompletes`, `SilentClientDropped`, `QuitCompletes`,
  `MarkedAreRemoved`, `StopReturns`, and the fairness of `KeepsContract`.
- `PlaylistsAreTrue`: texts are cut and expanded by folds and by `SelectSeq`, whose arguments are operators, and the
  library's theorems about those cannot be instantiated here.
- The other half of `BothAreKept`, `SettingsAreFollowed`. It asks that each option of the file which the window removes
  together with its value, or which takes whatever follows, has a value (`IsComplete`): `-pw` as the last word takes the
  `-pin` the window puts behind it along, and `-vol` swallows the window's first flag. The run has the shipped file and
  four hand-written ones, the last of which is not complete. TLC's `:>` and `@@`, of which the table of options is made,
  are unknown to the provers.

## 6. Where the code and its words part

Two runs that TLC refutes, with the lines in `PROJECT.json` under "findings":

- `app_stop`, `StopsAreForThisWorker`: `do_shutdown` is never cleared, so after one stop no later run lasts.
- `beacon_port`, `PortIsFollowed`: the script keeps the port it advertises in a local variable and never sees it change.

Stated in the modules and refuted in the course of the work, but not kept as runs:

- `AudioRtp!StreamWaitsForSync`: a second audio stream on one connection plays before its own first sync.
- `MirrorStream!SpsPpsAssertion`: a refused codec packet frees the parameter sets but not the promise of them.
  `DropsConnection`: a thread that has decided to drop the connection finishes its packet first.
- `Engine!FailureIsHeard`: a callback that could not rebuild the pipelines asks the main loop to end; between two
  loops the request is cleared on entry and the engine runs on without pipelines. `PushesToLivePipelines`: a frame may
  be pushed while a "no hold" takeover has the pipelines torn down.
- `AppControl!FailureWaits`: nothing is connected to `onAirplayError`, so a failed engine is restarted by the timer.
  `StoppedStays`, `ComesBack`, `DeferredAreApplied`: consequences of `app_stop`, of a restart timer that outlives a stop,
  and of deferred changes that are only applied when a window goes.
- `Server!AirPlayStopsServices`: a media client is to stop the mirroring client's services, but the clock is
  stopped only if there is an audio stream.
- `HlsPlaylists!NeverAborts`: an action or `setProperty` asserts that a video is current (`http_handlers.h:471`,
  `raop.c:880`) and one may not be. Release builds (`build.ps1:278`) compile `assert` out and go on with index -1.
- `ClientAuth!NoncesAreUsedOnce`: the nonce is made inside an `assert` (`raop_handlers.h:729`), so a release build
  keeps the one it has.
- `Pipelines!ListensToWhatIsThere`: the assertion of `video_renderer.c:1195` fails when the main loop is re-entered
  without a rebuild after a codec was chosen (`-nc` with `-h265` or `-ca`), and on a race with the end of HLS.
- `Recorder!RecreatedForTheCodec`: the stop inside the re-creation resets the codec just chosen
  (`mux_renderer.c:188`, `:315`).
- `Settings!RestartAppliesSettings`: options that only switch something on keep it on in the next start of the same
  process, since the engine's globals are not reset (`mainwindow.cpp:2623` says the restart applies them).
- `MirrorShape!NoBarsWhenItRotates`: a second rotation while the first resize is pending (`mirrorshape.cpp:204`).

The keystream of `MirrorBuffer` slips for good if a payload is shorter than the leftover, because C's remainder of
a negative number is negative (`RestLen`), and the leftover of an old cipher survives `mirror_buffer_init_aes`.
Nothing in the source says that clients may do either, so this is a precondition and not a finding.

What can go wrong in this code and is hard to test is listed, each at its line, under "hazards" in `PROJECT.json`.
Lesser things met on the way, most of them visible in the modules as the behaviour that is modelled:

- audio: after an error of `select` the object can neither be stopped properly nor started again
  (`raop_rtp.c:461`); a second cover art overwrites the first without freeing it (`:764`); a resend request before
  the first control packet has no address (`:223`);
- mirroring: the time-out of `recv` is in the form of Unix (`raop_rtp_mirror.c:260`); stop against a thread that ends by itself (`raop_rtp_mirror.c:940`), a socket closed twice (`:854`) or not
  at all (`:314`), a garbled codec packet pauses the renderer and nothing resumes it (`:656`);
- clock: `client_time_received` is set before the offset it announces (`raop_ntp.c:327`, `:376`), which is harmless
  only because an offset of 0 is retried; a stop's signal can be lost, for one time-out and one pause at most; setting
  the wall clock back lengthens the waits;
- engine: `relaunch_video` set by a callback between two loops is cleared on entry (`xmirror.cpp:734`);
  `video_process` adds the clock offset again on each retry (`:2477`); a failed `start_dnssd` returns before
  `engine_error` is set (`:3348`);
- renderers: mirroring or cover art while an HLS pipeline is in place aborts (`video_renderer.c:1068`); the bus
  callback of the audio pipeline reads a pointer `audio_renderer_stop` clears; positions beyond 2147 s overflow;
- recorder: `conn_destroy` stops it before the threads that feed it (`raop.c:552`), so the codecs are unset while they still
  push; AAC is never recorded without a video codec packet; sound before the first picture fixes the time zero and is
  given no silence, and a buffer older than that gets a stamp that wraps (`mux_renderer.c:273`);
- server: an error of `select` ends the server for good and nobody is told (`httpd.c:424`); a second SETUP overwrites the
  pointers of running services (`raop_handlers.h:902`); a TEARDOWN naming streams 96 and 110 stops one (`:1271`);
- HTTP: the protocol is copied from behind the url although it may not have been read yet (`http_request.c:57`); a
  pipelined request would be appended to the one before; an invalid CSeq gets no answer at all;
- HLS: a late answer is filed in whatever video is current in its session (`http_handlers.h:679`); a new play request deletes a download that has only begun as an advertisement (`http_handlers.h:806`); a video
  asked for again while half downloaded plays at once (`:783`); the reverse connection may be gone
  (`fcup_request.h:77`); a language list of one entry divides by zero (`airplay_video.c:397`); the branch for a
  duration of -1 is dead;
- pairing: one PIN for all connections, which is 0 once it was taken (`raop_handlers.h:330`); a digest without a nonce reads through NULL;
- advertisement: a terminated engine leaves its record, and no later one starts in the process; `raop_start_httpd`'s
  result is ignored, so a service may be advertised where nothing listens; `sf` is overwritten later in the same record,
  so only `pw` tells a PIN from none; an installation of Bonjour that was accepted but failed explains nothing
  (`mainwindow.cpp:2881` against the comment at `:2864`);
- beacon: a half-written file ends the script; `finally: exit(err)` ends it whenever a startup file exists; the radios
  of two of the four modules go on after the process;
- options: `-reset` as the last word reads past `argv`; `-hls 1` and an invalid `-vol` are accepted in silence; the
  screensaver setting makes the engine refuse to start on Windows (`mainwindow.cpp:851`); the window accepts
  resolutions that the engine refuses (`:611`); flags of a switch are stripped from `arguments.txt` when it is off, its
  default, although the comment at `:2051` says verbatim; `-pw` alone takes the flag behind it along; turning the
  Bluetooth discovery off leaves the status file to the next engine of the same process;
- application: deferred settings wait for an event that the end of a session does not produce (`mainwindow.cpp:2495`),
  a started signal posted before a stop (`:2291`); `download()` after a failed check uses the release of an earlier one
  (`updatechecker.cpp:241`), the file is hashed again before launch (`:357`); the saved window procedure is cleared
  while it may be running (`mirrorshape.cpp:148`).

## 7. State of the plan

Done, in the order of importance for a mirroring session: audio ring, decryption, both streams, engine, application,
server; then HLS video, pairing, the clock, the renderers and the recorder, HTTP messages, advertisement, beacon,
settings and options, the mirror window, the update checker. What a next step would take up:

1. Proofs: what the expansion of one entry does to a playlist, and what one word does to the engine's options, as
   lemmas for `SettingsAreFollowed`, with their inductions laid out as that of `AddDataReadTo`: as the absence of a least
   number where they fail. The second needs a table of options without `:>` and `@@`.
2. Compositions: `Pipelines` under `Engine` (which now has pipelines that are there or not), `ClientAuth` under `Server`.
3. The widths of times: nanoseconds in 64 bits and the NTP seconds that wrap in 2036, as operators.

## 8. What is not modelled, and what is assumed

- Formats: plists, the syntax of HTTP, decoded audio and video, the cryptography and FairPlay. They are functions of
  their input; where one can fail, the failure is an alternative of the action that calls it. `srp_new_user` fails for
  one client in 128 by construction; this is such an alternative.
- `llhttp` is vendored and generated: `HttpMessage` has when it calls back. It may stop at any byte; that `http_request.c:57`
  then copies bytes that have not come is excluded by `torn`, since what the copy has is undefined.
- GStreamer, Qt, Bonjour and the sockets: modelled as their callers see them, by what a call may return or later
  report. Qt is taken to deliver signals posted before a `disconnect()`. Launch strings, caps and sinks are left out,
  and so is which decoder is chosen (`xmirror.cpp:2180-2244`).
- `Terminate` of `AppControl` and `TerminateEngine` of `Advertisement` abstract what becomes of a killed thread's other resources.
- `-reset 0`, which switches the feedback limit off, is left out of `Engine`; the configuration file of Unix
  (`read_config_file`) is left out of `EngineOptions`.
- In `Server`, clients do not stall in the middle of the first eight bytes of a request (`httpd.c:501` would wait for
  them, and with it every other client); services whose pointers a second SETUP overwrites are not followed.
- In `HlsPlaylists`, a master playlist that names no media is excluded: its table would not be initialised.
- Two hazards have no property: an earlier stream's first sync (`raop_rtp.c:617`, refuted as `StreamWaitsForSync`)
  and the test of a slot by the engine thread (`httpd.c:344`), where no order of steps that matters was found.
- Painting, themes, wording, logging, dead code and build scripts: no behaviour over time, or none the receiver
  depends on.
