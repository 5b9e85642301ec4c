---------------------------- MODULE HlsPlaylists ----------------------------
(***************************************************************************)
(* The playlists of HLS videos: the slots of raop_t.airplay_video, the     *)
(* requests of http_handlers.h that fill, resume and drop them, the FCUP   *)
(* requests by which the server downloads a master playlist and then its   *)
(* media playlists from the client, and the media player that is given the *)
(* result.                                                                 *)
(*                                                                         *)
(* Two threads meet here.  The server thread runs the handlers; the engine *)
(* thread loads the player, and its 100 ms watch for the end of the stream *)
(* drops the current video.  POST /action fetches the current video first  *)
(* and uses it after it has parsed the request, so it has two steps.       *)
(*                                                                         *)
(* A connection has one X-Apple-Session-ID for all its requests, so the    *)
(* session check of POST /action stops answers that come over a connection *)
(* with another id, and lets through a late answer to what an earlier play *)
(* request on the same connection asked for: it is filed at the place the  *)
(* video that is current by now has reached.  As history, a slot keeps     *)
(* which download alone has filled it.  A media playlist is named by its   *)
(* uri.  Positions and languages are left out.                             *)
(***************************************************************************)
EXTENDS Integers, Sequences, FiniteSets, TLC

CONSTANTS Max,      \* MAX_AIRPLAY_VIDEO
          Uuids, Uris, Tables,
          Long,     \* uris of playlists of at least 90 seconds
          None, Master,
          Sessions, \* the X-Apple-Session-IDs of the clients' connections
          MaxPlays  \* bound: downloads that are begun

ASSUME MaxAssumption == Max \in Nat /\ Max >= 2 /\ MaxPlays \in Nat
ASSUME SessionsAssumption == Sessions # {} /\ None \notin Sessions
ASSUME NoneAssumption == None \notin Uuids \cup Uris /\ Master \notin Uris \cup {None}
ASSUME TableAssumption == Tables \subseteq Seq(Uris) \ {<<>>}

VARIABLES slots, current,
          plays,    \* how many downloads were begun
          ptth,     \* is there a reverse connection?
          asked,    \* FCUP requests the client has not answered
          handling, \* the action request being handled
          wanted,   \* url: the video the player is to load
          loaded,   \* has the player loaded a video?
          eos,      \* renderer->eos
          alive     \* FALSE when the process has crashed

client == <<plays, ptth, asked>>
player == <<wanted, loaded, eos>>
vars == <<slots, current, client, handling, player, alive>>

Slots == 0 .. Max - 1
NoVideo == -1

\* from (history): the download of this video, and 0 from when an answer to
\* something else has been filed here.
Free == [uuid |-> None, session |-> None, from |-> 0, located |-> FALSE,
         uris |-> <<>>, next |-> 0, media |-> <<>>]
Idle == [kind |-> "none", at |-> NoVideo, session |-> None, from |-> 0, of |-> None]

Filled(s) == {i \in Slots : s[i].uuid # None}

TypeOK ==
    /\ \A i \in Slots : /\ slots[i].uuid \in Uuids \cup {None}
                        /\ slots[i].session \in Sessions \cup {None}
                        /\ slots[i].from \in 0 .. plays
                        /\ slots[i].uris \in Tables \cup {<<>>}
                        /\ slots[i].next \in 0 .. Len(slots[i].uris)
    /\ DOMAIN slots = Slots
    /\ current \in Slots \cup {NoVideo}
    /\ plays \in 0 .. MaxPlays
    /\ \A a \in asked : /\ a.session \in Sessions /\ a.from \in 0 .. plays
                        /\ a.of \in Uris \cup {Master}
    /\ handling.kind \in {"none", "refused", "remove", "answer"}
    /\ handling.at \in Slots \cup {NoVideo}
    /\ wanted \in Uuids \cup {None}
    /\ loaded \in BOOLEAN /\ ptth \in BOOLEAN /\ eos \in BOOLEAN /\ alive \in BOOLEAN

Init ==
    /\ slots = [i \in Slots |-> Free] /\ current = NoVideo
    /\ plays = 0 /\ ptth = FALSE /\ asked = {}
    /\ handling = Idle
    /\ wanted = None /\ loaded = FALSE /\ eos = FALSE
    /\ alive = TRUE

Crash == alive' = FALSE /\ UNCHANGED <<slots, current, client, handling, player>>

-----------------------------------------------------------------------------
\* raop_destroy_airplay_video, of the slots in gone.
Destroyed(gone) == [i \in Slots |-> IF i \in gone THEN Free ELSE slots[i]]

CurrentWithout(gone) == IF current \in gone THEN NoVideo ELSE current

\* A request goes out only where there is a connection to send it on; the
\* result of send() is not looked at.
FcupRequest(v, what) ==
    asked' = (IF ptth THEN asked \cup {[session |-> v.session, from |-> v.from, of |-> what]}
                      ELSE asked)

\* on_video_play: url.append() of a location that was never set is a crash.
OnVideoPlay(v) == IF v.located THEN wanted' = v.uuid /\ alive' = TRUE
                               ELSE alive' = FALSE /\ UNCHANGED wanted

\* get_duration: that of the first media playlist, 0 before it has come.
IsLong(v) == v.uuid # None /\ v.uris # <<>> /\ v.media[1].text \in Long

\* Mutant: room is made only when the table is overfull.
IsFullLate(count) == count > Max

IsFull(count) == count = Max

Evicted(i) == (i + 1) % Max

\* The slots after a request for a new video: short playlists are taken for
\* advertisements and go, the video takes the first free slot, and if that was
\* the last one its neighbour is evicted.
Placed(v) ==
    LET kept == {i \in Slots : IsLong(slots[i])}
        id == CHOOSE i \in Slots \ kept : \A j \in Slots \ kept : i <= j
        evicted == IF IsFull(Cardinality(kept) + 1) THEN {Evicted(id)} ELSE {}
    IN  [at |-> id,
         slots |-> [i \in Slots |-> IF i \in evicted THEN Free
                                    ELSE IF i = id THEN v
                                    ELSE IF i \in kept THEN slots[i] ELSE Free]]

\* POST /play of a uuid that is stored: at once, whatever is stored of it.
PlayStored(i, session) ==
    /\ alive /\ handling = Idle
    /\ slots[i].uuid # None
    /\ slots' = [slots EXCEPT ![i].session = session]
    /\ current' = i
    /\ OnVideoPlay(slots[i])
    /\ UNCHANGED <<client, handling, loaded, eos>>

\* POST /play of a new uuid.  A request that lacks its location, or has one of
\* another form, has filled a slot by the time it is refused.
PlayNew(u, session, complete) ==
    /\ alive /\ handling = Idle /\ plays < MaxPlays
    /\ \A i \in Slots : slots[i].uuid # u
    /\ plays' = plays + 1
    /\ IF \A i \in Slots : IsLong(slots[i])
       THEN alive' = FALSE /\ UNCHANGED <<slots, current, asked>>
       ELSE LET v == [Free EXCEPT !.uuid = u, !.session = session, !.from = plays',
                                  !.located = complete]
                p == Placed(v)
            IN  /\ slots' = p.slots /\ current' = p.at
                /\ IF complete THEN FcupRequest(v, Master)
                               ELSE UNCHANGED asked
                /\ UNCHANGED alive
    /\ UNCHANGED <<ptth, handling, player>>

-----------------------------------------------------------------------------
\* POST /reverse makes the one connection that FCUP requests go out on.
Reverse == /\ alive /\ handling = Idle /\ ~ptth
           /\ ptth' = TRUE
           /\ UNCHANGED <<slots, current, plays, asked, handling, player, alive>>

\* The client goes away, or the server closes its connections: after a refused
\* play request, a reset, a teardown.
ConnectionsLost ==
    /\ alive /\ handling = Idle /\ ptth
    /\ ptth' = FALSE /\ asked' = {}
    /\ UNCHANGED <<slots, current, plays, handling, player, alive>>

\* POST /action begins: without a current video the first use of the pointer
\* that hls_get_current_video returns is a crash, assertion or not.
Begin(kind, session, from, of) ==
    /\ alive /\ handling = Idle
    /\ IF current = NoVideo THEN Crash
       ELSE /\ handling' = [kind |-> kind, at |-> current,
                            session |-> session, from |-> from, of |-> of]
            /\ UNCHANGED <<slots, current, plays, ptth, player, alive>>
            /\ asked' = asked \ {[session |-> session, from |-> from, of |-> of]}

BeginRefused == Begin("refused", None, 0, None)
BeginRemove == \E u \in Uuids, s \in Sessions : Begin("remove", s, 0, u)
BeginAnswer == \E a \in asked : Begin("answer", a.session, a.from, a.of)

IsOfSession(v) == v.session = handling.session

\* What the request finds in the slot it fetched: the engine thread may have
\* freed it since.
Finish(kind, Effect(_)) ==
    /\ alive /\ handling.kind = kind
    /\ IF slots[handling.at] = Free THEN Crash
       ELSE /\ handling' = Idle
            /\ UNCHANGED <<plays, ptth, loaded, eos>>
            /\ IF IsOfSession(slots[handling.at])
               THEN Effect(slots[handling.at])
               ELSE UNCHANGED <<slots, current, asked, wanted, alive>>

\* A request that is malformed or of a type that does nothing.
FinishRefused ==
    Finish("refused", LAMBDA v : UNCHANGED <<slots, current, asked, wanted, alive>>)

\* playlistRemove: only the current video is put aside, and it stays stored.
FinishRemove ==
    Finish("remove", LAMBDA v :
        /\ current' = (IF current # NoVideo /\ slots[current].uuid = handling.of
                       THEN NoVideo ELSE current)
        /\ UNCHANGED <<slots, asked, wanted, alive>>)

-----------------------------------------------------------------------------
\* The video an answer is filed in: any that is current, whatever was asked.
FiledIn(v) == IF handling.from = v.from THEN v ELSE [v EXCEPT !.from = 0]

\* create_media_data_store: entries that hold nothing and stand for themselves.
Tabled(v, uris) ==
    [v EXCEPT !.uris = uris, !.next = 0,
              !.media = [n \in 1 .. Len(uris) |-> [num |-> n, text |-> None]]]

HasMore(v) == v.next < Len(v.uris)

\* Mutant: a playlist that came twice is not stored, nor pointed to.
StoredOnce(v, text) ==
    IF \E i \in 1 .. v.next - 1 : v.uris[i] = v.uris[v.next] THEN v
    ELSE [v EXCEPT !.media[v.next].text = text]

\* Mutant: the next number, not the one before it, is that of the answer.
StoredAtNext(v, text) ==
    IF HasMore(v) THEN [v EXCEPT !.media[v.next + 1].text = text] ELSE v

\* store_media_playlist, at the entry before next_uri whatever was answered.  A
\* uri that the table lists twice is stored once, and found by its number.
Stored(v, text) ==
    LET same == {i \in 1 .. v.next - 1 : v.uris[i] = v.uris[v.next]}
    IN  IF v.next = 0 \/ v.media[v.next].text # None THEN v
        ELSE IF same = {} THEN [v EXCEPT !.media[v.next].text = text]
        ELSE [v EXCEPT !.media[v.next].num = CHOOSE i \in same : \A j \in same : i <= j]

\* Ask for the next media playlist or, when there is none, play.
Continue(v) ==
    IF HasMore(v)
    THEN /\ FcupRequest(v, v.uris[v.next + 1])
         /\ slots' = [slots EXCEPT ![handling.at] = [v EXCEPT !.next = @ + 1]]
         /\ UNCHANGED <<wanted, alive>>
    ELSE /\ slots' = [slots EXCEPT ![handling.at] = v]
         /\ OnVideoPlay(v)
         /\ UNCHANGED asked

FinishMaster ==
    /\ handling.of = Master
    /\ Finish("answer", LAMBDA v :
          /\ \E uris \in Tables : Continue(Tabled(FiledIn(v), uris))
          /\ UNCHANGED current)

FinishMedia ==
    /\ handling.of # Master
    /\ Finish("answer", LAMBDA v :
          /\ Continue(Stored(FiledIn(v), handling.of))
          /\ UNCHANGED current)

\* POST /setProperty: the stored languages need a video; the properties that
\* are only acknowledged crash without one in a build that has assertions.
SetProperty(stores) ==
    /\ alive /\ handling = Idle /\ current = NoVideo
    /\ alive' \in (IF stores THEN {FALSE} ELSE BOOLEAN)
    /\ UNCHANGED <<slots, current, client, handling, player>>

\* All videos go: a mirror stream is set up (with the player left as it is), a
\* client takes over, or a teardown ends the player.
DestroyAll(reset) ==
    /\ alive /\ handling = Idle
    /\ slots' = Destroyed(Slots) /\ current' = CurrentWithout(Slots)
    /\ IF reset THEN wanted' = None /\ loaded' = FALSE
                ELSE UNCHANGED <<wanted, loaded>>
    /\ UNCHANGED <<client, handling, eos, alive>>

-----------------------------------------------------------------------------
\* The engine thread takes the url when it goes round its loop.
Load == /\ alive /\ wanted # None
        /\ loaded' = TRUE /\ wanted' = None /\ eos' = FALSE
        /\ UNCHANGED <<slots, current, client, handling, alive>>

EndOfStream == /\ alive /\ loaded /\ ~eos
               /\ eos' = TRUE
               /\ UNCHANGED <<slots, current, client, handling, wanted, loaded, alive>>

\* video_eos_watch_callback and raop_handle_eos, which ends the video that is
\* current by now.  Without one it is stopped by its assertion, or where there
\* are none destroys every slot.
EosWatch ==
    /\ alive /\ eos
    /\ eos' = FALSE /\ loaded' = FALSE
    /\ IF current = NoVideo
       THEN /\ alive' \in BOOLEAN
            /\ slots' = (IF alive' THEN Destroyed(Slots) ELSE slots)
            /\ UNCHANGED current
       ELSE /\ slots' = Destroyed({current})
            /\ current' = NoVideo
            /\ UNCHANGED alive
    /\ UNCHANGED <<client, handling, wanted>>

Next ==
    \/ \E i \in Slots, s \in Sessions : PlayStored(i, s)
    \/ \E u \in Uuids, s \in Sessions, complete \in BOOLEAN : PlayNew(u, s, complete)
    \/ Reverse \/ ConnectionsLost
    \/ BeginRefused \/ BeginRemove \/ BeginAnswer
    \/ FinishRefused \/ FinishRemove \/ FinishMaster \/ FinishMedia
    \/ \E on \in BOOLEAN : SetProperty(on) \/ DestroyAll(on)
    \/ Load \/ EndOfStream \/ EosWatch

Spec == Init /\ [][Next]_vars

-----------------------------------------------------------------------------
\* The current video is one that is stored, and a uuid names one slot: what
\* get_playlist_by_uuid and hls_get_current_video rely on.
Consistent ==
    /\ TypeOK
    /\ current # NoVideo => slots[current].uuid # None
    /\ \A i, j \in Filled(slots) : slots[i].uuid = slots[j].uuid => i = j

\* There is always a free slot, so the assertions of a play request hold: room
\* is made while the last slot is taken, and a playlist that grows past 90
\* seconds later does not take one.
RoomForOneMore == Cardinality(Filled(slots)) < Max

\* A playlist is stored under the uri it was asked for, although an answer is
\* filed by its place in the sequence: videos may be dropped, resumed in another
\* session and played in turns while an answer is on its way.  A video that was
\* given an answer to another download is excepted: nothing keeps that answer
\* from its place.
MediaUnderItsUri ==
    \A i \in Slots : slots[i].from # 0 =>
        \A n \in 1 .. Len(slots[i].media) :
            slots[i].media[n].text \in {None, slots[i].uris[n]}

\* All three, of a library that clients fill, drop and resume as they like.
LibraryIsTrue == Consistent /\ RoomForOneMore /\ MediaUnderItsUri

\* get_media_playlist: the entry its num points to of the first with the uri.
Served(v, uri) ==
    LET n == CHOOSE n \in 1 .. Len(v.uris) : /\ v.uris[n] = uri
                                             /\ \A m \in 1 .. n - 1 : v.uris[m] # uri
    IN  v.media[v.media[n].num].text

\* The download is over when every entry has its playlist or one that stands
\* for it.
Downloaded(v) == /\ v.uris # <<>>
                 /\ \A n \in 1 .. Len(v.uris) : v.media[v.media[n].num].text = v.uris[n]

\* The player is started at the end of a download only when it can be given
\* every playlist of the table, those the table lists twice too.  A video that
\* was given an answer to another download is excepted.
PlaysWhatIsThere ==
    [][(/\ handling.kind = "answer" /\ wanted' \notin {wanted, None}
        /\ slots'[handling.at].from # 0)
        => /\ Downloaded(slots'[handling.at])
           /\ \A n \in 1 .. Len(slots'[handling.at].uris) :
                LET uri == slots'[handling.at].uris[n]
                IN  Served(slots'[handling.at], uri) = uri]_vars

\* The slots are a library that never fills up.
Library == INSTANCE VideoLibrary
             WITH Size <- Max,
                  library <- {slots[i].uuid : i \in Filled(slots)},
                  current <- IF current = NoVideo THEN None ELSE slots[current].uuid
IsLibrary == Library!Spec

=============================================================================
