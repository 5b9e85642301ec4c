------------------------------- MODULE Server -------------------------------
(***************************************************************************)
(* The HTTP server (httpd.c) and the connections it keeps (raop.c,         *)
(* raop_handlers.h): one thread that goes round select(), a table of       *)
(* slots, and behind each slot the services a client set up: the clock     *)
(* (raop_ntp), the audio stream (raop_rtp) and the mirror stream           *)
(* (raop_rtp_mirror), which have threads of their own.                     *)
(*                                                                         *)
(* The engine thread starts and stops the server and marks connections for *)
(* removal while the server thread uses the table; neither takes a lock.   *)
(* So the rounds of the server thread go slot by slot, and the engine's    *)
(* walk over the table has its test and its write apart.                   *)
(*                                                                         *)
(* A request is what it makes the server do.  Pairing, the digest and the  *)
(* HLS handlers' own state are left out; that they refuse is not.          *)
(***************************************************************************)
EXTENDS Integers, FiniteSets

CONSTANTS N,          \* max_connections
          HlsSupport, \* hls_support
          MaxServed,  \* bound: connections that have services at a time
          RtspKinds   \* bound: kinds of connection on which clients ask for streams

ASSUME SlotsAreSome == N \in Nat \ {0}
ASSUME HlsSupportIsSwitch == HlsSupport \in BOOLEAN

VARIABLES nohold,    \* the option; set once
          running, joined,
          pc,        \* where the server thread is; "off" when there is none
          slot,      \* the slot it has come to
          stage,     \* how far it is with that slot
          calls,     \* clients select() found waiting to be accepted
          fds,       \* rfds: slots, and 0 for the listening sockets; what is yet to be looked at
          connected, type,
          marked,    \* pending_remove
          service,   \* what each slot's client has set up
          engine,    \* what the engine thread does to the server
          walk       \* the slot its walk has come to

thread == <<running, joined, pc>>
position == <<slot, stage>>
polled == <<calls, fds>>
table == <<connected, type>>
walker == <<engine, walk>>
vars == <<nohold, thread, position, polled, table, marked, service, walker>>

Slots == 1 .. N
Listeners == 0
MaxCalls == 2  \* one each for IPv4 and IPv6
Media == {"airplay", "ptth", "hls"}
Types == {"unknown", "raop"} \cup Media
Removal == {"rtp", "mirror", "ntp", "free"}

Ntp == {"none", "ready", "running"}
Streams == Ntp \cup {"over"}  \* a thread that ended by itself and was not joined

TypeOK == /\ nohold \in BOOLEAN /\ running \in BOOLEAN /\ joined \in BOOLEAN
          /\ pc \in {"off", "top", "scan", "select", "accept", "serve", "end", "over"}
          /\ slot \in 1 .. N + 1
          /\ stage \in {"next", "handle", "streams"} \cup Removal
          /\ calls \in 0 .. MaxCalls
          /\ fds \subseteq Slots \cup {Listeners}
          /\ connected \in [Slots -> BOOLEAN]
          /\ type \in [Slots -> Types]
          /\ marked \in [Slots -> BOOLEAN]
          /\ service \in [Slots -> [ntp : Ntp, rtp : Streams, mirror : Streams]]
          /\ engine \in {"idle", "join", "test", "mark"}
          /\ walk \in Slots

Nothing == [ntp |-> "none", rtp |-> "none", mirror |-> "none"]

Init == /\ nohold \in BOOLEAN
        /\ running = FALSE /\ joined = TRUE /\ pc = "off"
        /\ slot = 1 /\ stage = "next" /\ calls = 0 /\ fds = {}
        /\ connected = [c \in Slots |-> FALSE]
        /\ type = [c \in Slots |-> "unknown"]
        /\ marked = [c \in Slots |-> FALSE]
        /\ service = [c \in Slots |-> Nothing]
        /\ engine = "idle" /\ walk = 1

Open == {c \in Slots : connected[c]}
OfType(kinds) == {c \in Open : type[c] \in kinds}
Marking(slots) == [c \in Slots |-> marked[c] \/ c \in slots]
Leaving(c) == marked[c] \/ (slot = c /\ stage \in Removal)
Stopped(state) == IF state = "running" THEN "ready" ELSE state

-----------------------------------------------------------------------------
\* The engine thread.

\* httpd_start, by an engine whose server was joined; the sockets may fail.
StartServer ==
    /\ engine = "idle" /\ ~running /\ joined
    /\ running' = TRUE /\ joined' = FALSE /\ pc' = "top"
    /\ UNCHANGED <<nohold, position, polled, table, marked, service, walker>>

\* httpd_stop asks and waits.
StopServer ==
    /\ engine = "idle" /\ running /\ ~joined
    /\ running' = FALSE /\ engine' = "join"
    /\ UNCHANGED <<nohold, joined, pc, position, polled, table, marked, service, walk>>

JoinServer ==
    /\ engine = "join" /\ pc = "over"
    /\ joined' = TRUE /\ pc' = "off" /\ engine' = "idle"
    /\ UNCHANGED <<nohold, running, position, polled, table, marked, service, walk>>

\* A server thread that ended by itself is never joined: only raop_destroy
\* and raop_init make a server that can be started.
ReplaceServer ==
    /\ engine = "idle" /\ ~running /\ ~joined /\ pc = "over"
    /\ joined' = TRUE /\ pc' = "off"
    /\ UNCHANGED <<nohold, running, position, polled, table, marked, service, walker>>

\* raop_remove_known_connections, while the server thread goes on.
BeginWalk ==
    /\ engine = "idle"
    /\ engine' = "test" /\ walk' = 1
    /\ UNCHANGED <<nohold, thread, position, polled, table, marked, service>>

Known == OfType(Types \ {"unknown"})

WalkOn == IF walk = N THEN engine' = "idle" /\ walk' = 1
                      ELSE engine' = "test" /\ walk' = walk + 1

WalkTest ==
    /\ engine = "test"
    /\ \/ walk \in Known /\ engine' = "mark" /\ UNCHANGED walk
       \/ walk \notin Known /\ WalkOn
    /\ UNCHANGED <<nohold, thread, position, polled, table, marked, service>>

WalkMark ==
    /\ engine = "mark"
    /\ marked' = Marking({walk})
    /\ WalkOn
    /\ UNCHANGED <<nohold, thread, position, polled, table, service>>

EngineThread == StartServer \/ StopServer \/ JoinServer \/ ReplaceServer
                \/ BeginWalk \/ WalkTest \/ WalkMark

-----------------------------------------------------------------------------
\* The rounds of the server thread.

\* Mutant: the thread does not look at running.
RoundAnyway == /\ pc = "top"
               /\ pc' = "scan"
               /\ fds' = (IF Open # Slots THEN {Listeners} ELSE {})
               /\ UNCHANGED <<nohold, running, joined, position, calls, table, marked, service, walker>>

Round == /\ pc = "top"
         /\ pc' = (IF running THEN "scan" ELSE "end")
         /\ fds' = (IF Open # Slots THEN {Listeners} ELSE {})
         /\ UNCHANGED <<nohold, running, joined, position, calls, table, marked, service, walker>>

At(place) == pc = place /\ stage = "next" /\ slot \in Slots
Past(place) == pc = place /\ slot = N + 1
Advance == slot' = slot + 1 /\ stage' = "next"

\* httpd_remove_connection takes the mark back before it has finished.
Remove(c) == /\ stage' = "rtp"
             /\ marked' = [marked EXCEPT ![c] = FALSE]
             /\ UNCHANGED <<slot, service, type>>

\* Mutant: only a client that says something is looked at for removal.
ScanForData == /\ At("scan")
               /\ Advance
               /\ fds' = (IF connected[slot] THEN fds \cup {slot} ELSE fds)
               /\ UNCHANGED <<nohold, thread, calls, table, marked, service, walker>>

ScanSlot ==
    /\ At("scan")
    /\ \/ /\ ~connected[slot]
          /\ Advance /\ UNCHANGED <<fds, marked, type, service>>
       \/ /\ connected[slot] /\ marked[slot]
          /\ Remove(slot) /\ UNCHANGED fds
       \/ /\ connected[slot] /\ ~marked[slot]
          /\ fds' = fds \cup {slot}
          /\ Advance /\ UNCHANGED <<marked, type, service>>
    /\ UNCHANGED <<nohold, thread, calls, connected, walker>>

ScanDone ==
    /\ Past("scan")
    /\ pc' = "select" /\ slot' = 1
    /\ UNCHANGED <<nohold, running, joined, stage, polled, table, marked, service, walker>>

\* select() times out, fails, or says who has something for us.
Select ==
    /\ pc = "select"
    /\ \/ pc' \in {"top", "end"} /\ fds' = {} /\ UNCHANGED calls
       \/ /\ fds' \in SUBSET (fds \ {Listeners})
          /\ calls' \in (IF Listeners \in fds THEN 0 .. MaxCalls ELSE {0})
          /\ pc' = "accept"
    /\ UNCHANGED <<nohold, running, joined, position, table, marked, service, walker>>

\* httpd_accept_connection: an error in accept() ends the server, one in
\* making the connection ends the round.
Accept ==
    /\ pc = "accept" /\ calls > 0 /\ Open # Slots
    /\ \/ \E c \in Slots \ Open :
            /\ \A d \in Slots \ Open : c <= d
            /\ connected' = [connected EXCEPT ![c] = TRUE]
            /\ marked' = [marked EXCEPT ![c] = FALSE]
            /\ calls' = calls - 1
            /\ UNCHANGED <<type, pc, fds>>
       \/ pc' \in {"top", "end"} /\ calls' = 0 /\ fds' = {} /\ UNCHANGED <<table, marked>>
    /\ UNCHANGED <<nohold, running, joined, position, service, walker>>

AcceptDone ==
    /\ pc = "accept" /\ (calls = 0 \/ Open = Slots)
    /\ pc' = "serve" /\ calls' = 0
    /\ UNCHANGED <<nohold, running, joined, position, fds, table, marked, service, walker>>

NothingToServe ==
    /\ At("serve") /\ ~(connected[slot] /\ slot \in fds)
    /\ Advance
    /\ UNCHANGED <<nohold, thread, polled, table, marked, service, walker>>

ServeDone ==
    /\ Past("serve")
    /\ pc' = "top" /\ slot' = 1 /\ fds' = {}
    /\ UNCHANGED <<nohold, running, joined, stage, calls, table, marked, service, walker>>

\* Leaving the loop, the thread removes who is left and says that it is over.
EndSlot ==
    /\ At("end")
    /\ \/ connected[slot] /\ Remove(slot)
       \/ ~connected[slot] /\ Advance /\ UNCHANGED <<marked, type, service>>
    /\ UNCHANGED <<nohold, thread, polled, connected, walker>>

EndDone ==
    /\ Past("end")
    /\ running' = FALSE /\ pc' = "over" /\ slot' = 1
    /\ fds' = {} /\ calls' = 0
    /\ UNCHANGED <<nohold, joined, stage, table, marked, service, walker>>

\* conn_destroy takes the services down one after the other; each stop joins
\* the service's thread, and the clock goes last because the streams use it.
DestroyService ==
    /\ stage \in {"rtp", "mirror", "ntp"}
    /\ LET next == CASE stage = "rtp" -> "mirror" [] stage = "mirror" -> "ntp" [] OTHER -> "free"
       IN  /\ service' = [service EXCEPT ![slot][stage] = "none"]
           /\ stage' = next
    /\ UNCHANGED <<nohold, thread, slot, polled, table, marked, walker>>

FreeSlot ==
    /\ stage = "free"
    /\ connected' = [connected EXCEPT ![slot] = FALSE]
    /\ type' = [type EXCEPT ![slot] = "unknown"]
    /\ Advance
    /\ UNCHANGED <<nohold, thread, polled, marked, service, walker>>

-----------------------------------------------------------------------------
\* One client's turn: its data is read and, when a request is complete,
\* conn_request identifies the connection and calls the handler.

Turn == At("serve") /\ connected[slot] /\ slot \in fds
Served == /\ fds' = fds \ {slot}
          /\ UNCHANGED <<nohold, thread, calls, connected, walker>>
Answer == Advance /\ UNCHANGED <<type, marked, service>>
ToHandler == stage' = "handle" /\ UNCHANGED slot

\* The request is not complete, a reverse response, refused for its headers,
\* of no known kind, or for a service that is switched off.
NoRequest == Turn /\ Answer /\ Served

\* The client hung up, recv() failed, or llhttp does not understand it.
ReadFails == Turn /\ Remove(slot) /\ Served

\* It is known what the connection is for, or the request does not tell: it
\* has neither CSeq, session id nor Host (and video streaming is supported).
KnownConnection == /\ Turn /\ (type[slot] # "unknown" \/ HlsSupport)
                   /\ ToHandler /\ UNCHANGED <<type, marked, service>>
                   /\ Served

Identified(kind) == type' = [type EXCEPT ![slot] = kind] /\ ToHandler

\* Mutant: the new client is admitted before the old one is gone.
IdentifyAnyRaop ==
    /\ Turn /\ type[slot] = "unknown"
    /\ Identified("raop") /\ UNCHANGED <<marked, service>>
    /\ Served

\* A client that mirrors or plays audio: one at a time, unless "no hold"
\* has the new one replace all the others.
IdentifyRaop ==
    /\ Turn /\ type[slot] = "unknown"
    /\ \/ /\ OfType({"raop"}) = {}
          /\ Identified("raop") /\ UNCHANGED marked
       \/ /\ OfType({"raop"}) # {} /\ nohold
          /\ marked' = Marking(Known) /\ Identified("raop")
       \/ /\ OfType({"raop"}) # {} /\ ~nohold
          /\ Advance /\ UNCHANGED <<type, marked>>
    /\ UNCHANGED service
    /\ Served

\* A client that plays video from the net: the first mirroring client's
\* services are stopped, the clock only if there is an audio stream.
SilencedForMedia(s) ==
    [s EXCEPT !.mirror = Stopped(s.mirror), !.rtp = Stopped(s.rtp),
              !.ntp = IF s.rtp # "none" THEN Stopped(s.ntp) ELSE s.ntp]

IdentifyAirPlay ==
    /\ Turn /\ type[slot] = "unknown" /\ HlsSupport
    /\ Identified("airplay")
    /\ service' = [c \in Slots |->
                     IF c \in OfType({"raop"}) /\ \A d \in OfType({"raop"}) : c <= d
                     THEN SilencedForMedia(service[c]) ELSE service[c]]
    /\ UNCHANGED <<marked>>
    /\ Served

\* The local media player fetches a playlist.
IdentifyHls ==
    /\ Turn /\ type[slot] = "unknown" /\ HlsSupport
    /\ Identified("hls")
    /\ UNCHANGED <<marked, service>>
    /\ Served

-----------------------------------------------------------------------------
\* The handlers.  The protocol, method and URL of a request choose its
\* handler; the code does not look at the kind of connection it came on.

Handling == pc = "serve" /\ stage = "handle"
Streaming == Handling /\ type[slot] \in RtspKinds
Mine == service[slot]

\* Requests that concern neither the table nor a service; SETUP that answers
\* 401, or for a client that is not admitted.
HandleOther == Handling /\ Answer /\ Served

\* pair-verify with a wrong signature, /play that fails.
HandleAndHangUp == Handling /\ Remove(slot) /\ Served

\* SETUP with keys: new services in place of whatever was there (the threads
\* of those, if any ran, go on with nobody to stop them; only what the
\* connection points to is followed here).  The clock's socket may fail.
HandleSetupKeys ==
    /\ Streaming
    /\ Cardinality({c \in Slots \ {slot} : service[c] # Nothing}) < MaxServed
    /\ \E clock \in {"ready", "running"} :
         service' = [service EXCEPT ![slot] = [ntp |-> clock, rtp |-> "ready", mirror |-> "ready"]]
    /\ stage' = "streams"
    /\ UNCHANGED <<slot, type, marked>>
    /\ Served

HandleSetupStreams ==
    /\ Streaming
    /\ stage' = "streams"
    /\ UNCHANGED <<slot, type, marked, service>>
    /\ Served

\* One entry of the array of streams: its service starts, or stays as it is
\* when it cannot, runs already or was not joined.
SetupStream ==
    /\ pc = "serve" /\ stage = "streams"
    /\ \E s \in {"rtp", "mirror"} :
         \/ /\ Mine[s] = "ready"
            /\ service' = [service EXCEPT ![slot][s] = "running"]
            /\ UNCHANGED <<slot, stage, type, marked>>
         \/ Mine[s] = "none" /\ Remove(slot)
    /\ Served

SetupUnknownStream == /\ pc = "serve" /\ stage = "streams"
                      /\ Remove(slot) /\ Served

SetupDone == /\ pc = "serve" /\ stage = "streams"
             /\ Answer /\ Served

\* TEARDOWN of one stream.
HandleTeardownStream ==
    /\ Streaming
    /\ \E s \in {"rtp", "mirror"} :
         service' = [service EXCEPT ![slot][s] = Stopped(Mine[s])]
    /\ Advance /\ UNCHANGED <<type, marked>>
    /\ Served

\* TEARDOWN without streams: both go, the clock stays, and if a media player
\* is connected so do the connections for media.
HandleTeardown ==
    /\ Streaming
    /\ service' = [service EXCEPT ![slot].rtp = "none", ![slot].mirror = "none"]
    /\ marked' = (IF OfType({"hls"}) # {} THEN Marking(OfType(Media)) ELSE marked)
    /\ Advance /\ UNCHANGED <<type>>
    /\ Served

\* POST /reverse turns the connection round.
HandleReverse ==
    /\ Handling
    /\ type' = [type EXCEPT ![slot] = "ptth"]
    /\ Advance /\ UNCHANGED <<marked, service>>
    /\ Served

\* GET /playback-info after the end of the video: this connection is closed
\* and the others for media are marked.
HandleFinished ==
    /\ Handling
    /\ marked' = [Marking(OfType(Media)) EXCEPT ![slot] = FALSE]
    /\ stage' = "rtp"
    /\ UNCHANGED <<slot, type, service>>
    /\ Served

\* A service's thread meets a socket error or the client's goodbye.
ServiceEnds(c, s) ==
    /\ service[c][s] = "running"
    /\ service' = [service EXCEPT ![c][s] = "over"]
    /\ UNCHANGED <<nohold, thread, position, polled, table, marked, walker>>

Handle == \/ HandleOther \/ HandleAndHangUp
          \/ HandleSetupKeys \/ HandleSetupStreams
          \/ SetupStream \/ SetupUnknownStream \/ SetupDone
          \/ HandleTeardownStream \/ HandleTeardown
          \/ HandleReverse \/ HandleFinished

ServerThread ==
    \/ Round \/ ScanSlot \/ ScanDone \/ Select \/ Accept \/ AcceptDone
    \/ NothingToServe \/ ServeDone \/ EndSlot \/ EndDone
    \/ DestroyService \/ FreeSlot
    \/ NoRequest \/ ReadFails \/ KnownConnection
    \/ IdentifyRaop \/ IdentifyAirPlay \/ IdentifyHls
    \/ Handle

Next == \/ EngineThread
        \/ ServerThread
        \/ \E c \in Slots, s \in {"rtp", "mirror"} : ServiceEnds(c, s)

\* select() times out after a second, so the server thread never sleeps for
\* good; an engine that waits for it returns once it has ended.
Spec == Init /\ [][Next]_vars /\ WF_vars(ServerThread) /\ WF_vars(JoinServer)

-----------------------------------------------------------------------------
\* There is one client that mirrors or plays audio; with "no hold" there may
\* be others, all of them on their way out (raop.c:270-286).
OneMaster ==
    \A c, d \in OfType({"raop"}) :
        c # d => nohold /\ (Leaving(c) \/ Leaving(d))

\* A stream's thread reads the clock, so a connection that has a stream has
\* its clock, through every teardown and through its own removal, where the
\* thread may still be running (raop.c:556-566, raop_handlers.h:1290-1299).
ClockOutlivesStreams ==
    \A c \in Slots :
        service[c].ntp = "none" => service[c].rtp = "none" /\ service[c].mirror = "none"

\* What a client set up goes with its connection, whoever ends it, and a
\* server that was joined has no connection left (httpd.c:207-246, 620-651).
NothingOutlivesConnection ==
    /\ \A c \in Slots \ Open : service[c] = Nothing
    /\ pc = "off" => Open = {}

\* Connections, their kinds and their services fit, round after round.
ServerFits == TypeOK /\ OneMaster /\ ClockOutlivesStreams /\ NothingOutlivesConnection

\* A connection marked for removal is removed even if its client never sends
\* anything again, whatever other clients do meanwhile (httpd.c:403-411).
MarkedAreRemoved ==
    \A c \in Slots : (c \in Open /\ marked[c]) ~> ~(c \in Open /\ marked[c])

\* Stopping the server ends, with clients connected or not
\* (httpd.c:719-737).
StopReturns == engine = "join" ~> engine = "idle"

\* raop.c:298: "airplay video has been requested: shut down any running RAOP
\* udp services".
AirPlayStopsServices ==
    [][\A c, d \in Slots :
         (type[c] # "airplay" /\ type'[c] = "airplay" /\ type[d] = "raop")
           => "running" \notin {service'[d].ntp, service'[d].rtp, service'[d].mirror}]_vars

=============================================================================
