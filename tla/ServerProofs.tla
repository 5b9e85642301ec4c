---------------------------- MODULE ServerProofs ----------------------------
(***************************************************************************)
(* Proofs about the HTTP server (Server) and about how clients get in      *)
(* (ClientAuth).                                                           *)
(*                                                                         *)
(* Server: connections, their kinds and their services fit, for any number *)
(* of slots (N is max_connections, 12 in the source).                      *)
(*                                                                         *)
(* ServerFits is not inductive.  Two kinds of facts are missing: where the *)
(* server thread is in a round (Rounds), since it may only start one, or   *)
(* leave the loop, with the first slot; and what a connection still has at *)
(* each step of its removal (Removing), since conn_destroy frees the slot  *)
(* when all that it had is gone.                                           *)
(***************************************************************************)
EXTENDS Server, ClientAuth, TLAPS

Joined == joined <=> pc = "off"

(* The scan, the turns and the end go from slot to slot, and all else is   *)
(* done before the first of them; a turn is only taken in "serve".         *)
Rounds ==
  /\ pc \notin {"scan", "serve", "end"} => slot = 1 /\ stage = "next"
  /\ stage \in {"handle", "streams"} => pc = "serve"
  /\ stage # "next" => slot \in Slots /\ connected[slot]
  /\ pc = "end" => \A c \in Slots : c < slot => ~connected[c]
  /\ pc \in {"over", "off"} => \A c \in Slots : ~connected[c]

(* The kind and the services of a connection go before its slot is free.   *)
FreeSlots == \A c \in Slots : ~connected[c] => type[c] = "unknown" /\ service[c] = Nothing

Removing ==
  /\ stage \in {"mirror", "ntp", "free"} => service[slot].rtp = "none"
  /\ stage \in {"ntp", "free"} => service[slot].mirror = "none"
  /\ stage = "free" => service[slot].ntp = "none"

SInv == /\ TypeOK /\ Joined /\ Rounds /\ FreeSlots /\ Removing
        /\ OneMaster /\ ClockOutlivesStreams

-----------------------------------------------------------------------------
(* The masters stay one if none is added and none that leaves comes back.  *)
LEMMA MastersStay ==
  ASSUME OneMaster, nohold' = nohold,
         \A c \in Slots : connected'[c] /\ type'[c] = "raop" =>
           connected[c] /\ type[c] = "raop" /\ (Leaving(c) => Leaving(c)')
  PROVE  OneMaster'
BY DEF OneMaster, OfType, Open

LEMMA SInvInit == Init => SInv
<1> SUFFICES ASSUME Init PROVE SInv
  OBVIOUS
<1> USE SlotsAreSome DEF Init
<1>1. TypeOK
  <2>1. Nothing \in [ntp : Ntp, rtp : Streams, mirror : Streams]
    BY DEF Nothing, Ntp, Streams
  <2>2. service \in [Slots -> [ntp : Ntp, rtp : Streams, mirror : Streams]]
    BY <2>1
  <2>3. slot \in 1 .. N + 1 /\ walk \in Slots /\ calls \in 0 .. MaxCalls
    BY DEF MaxCalls, Slots
  <2> QED BY <2>2, <2>3 DEF TypeOK, Types
<1>2. Joined /\ Rounds /\ Removing
  BY DEF Joined, Rounds, Removing
<1>3. FreeSlots
  BY DEF FreeSlots
<1>4. OneMaster
  BY DEF OneMaster, OfType, Open
<1>5. ClockOutlivesStreams
  BY DEF ClockOutlivesStreams, Nothing
<1> QED BY <1>1, <1>2, <1>3, <1>4, <1>5 DEF SInv

-----------------------------------------------------------------------------
(* Steps that touch neither connections nor services, and where the thread *)
(* stays on its place, or passes from one that has seen the last slot to   *)
(* the first slot of the next.  Marks may be added.                        *)
LEMMA TableRests ==
  ASSUME SInv, TypeOK', Joined', Rounds', UNCHANGED <<nohold, table, service>>,
         \A c \in Slots : marked[c] => marked'[c],
         stage' = stage, slot' = slot \/ stage = "next"
  PROVE  SInv'
<1>1. FreeSlots' /\ ClockOutlivesStreams'
  BY DEF SInv, FreeSlots, ClockOutlivesStreams, table, Nothing
<1>2. Removing'
  BY DEF SInv, Removing
<1>3. OneMaster'
  BY MastersStay DEF SInv, Leaving, Removal, table
<1> QED BY <1>1, <1>2, <1>3 DEF SInv

(* The engine thread.                                                      *)
LEMMA EngineThreadKeeps == SInv /\ EngineThread => SInv'
<1> SUFFICES ASSUME SInv, EngineThread PROVE SInv'
  OBVIOUS
<1> USE SlotsAreSome DEF thread, position, polled, table, walker
<1>1. CASE StartServer \/ StopServer \/ JoinServer \/ ReplaceServer
  <2> USE <1>1 DEF StartServer, StopServer, JoinServer, ReplaceServer
  <2>1. TypeOK'
    BY DEF SInv, TypeOK
  <2>2. Joined' /\ Rounds'
    BY DEF SInv, Joined, Rounds
  <2> QED BY <2>1, <2>2, TableRests
<1>2. CASE BeginWalk \/ WalkTest
  <2> USE <1>2 DEF BeginWalk, WalkTest, WalkOn
  <2>0. walk' \in Slots
    BY DEF SInv, TypeOK, Slots
  <2>1. TypeOK'
    BY <2>0 DEF SInv, TypeOK
  <2>2. Joined' /\ Rounds'
    BY DEF SInv, Joined, Rounds, Known, OfType, Open
  <2> QED BY <2>1, <2>2, TableRests
<1>3. CASE WalkMark
  <2> USE <1>3 DEF WalkMark, WalkOn
  <2>1. marked' \in [Slots -> BOOLEAN] /\ \A c \in Slots : marked[c] => marked'[c]
    BY DEF SInv, TypeOK, Marking
  <2>2. walk' \in Slots
    BY DEF SInv, TypeOK, Slots
  <2>3. TypeOK'
    BY <2>1, <2>2 DEF SInv, TypeOK
  <2>4. Joined' /\ Rounds'
    BY DEF SInv, Joined, Rounds
  <2> QED BY <2>1, <2>3, <2>4, TableRests
<1> QED BY <1>1, <1>2, <1>3 DEF EngineThread

-----------------------------------------------------------------------------
(* The rounds.                                                             *)
LEMMA RoundKeeps ==
  ASSUME SInv, Round \/ ScanDone \/ AcceptDone \/ ServeDone \/ NothingToServe
  PROVE  SInv'
<1> USE SlotsAreSome DEF thread, position, polled, table, walker, Round, ScanDone, AcceptDone,
        ServeDone, NothingToServe, At, Past, Advance
<1>1. stage' = stage /\ (slot' = slot \/ stage = "next")
  BY DEF SInv, TypeOK, Rounds, Slots
<1>2. /\ slot' \in 1 .. N + 1 /\ calls' \in 0 .. MaxCalls
  BY DEF SInv, TypeOK, Slots, MaxCalls
<1>3. TypeOK'
  <2>1. fds' \subseteq Slots \cup {Listeners}
    BY DEF SInv, TypeOK
  <2> QED BY <1>1, <1>2, <2>1 DEF SInv, TypeOK
<1>4. Joined' /\ Rounds'
  BY <1>1 DEF SInv, TypeOK, Joined, Rounds, Slots
<1> QED BY <1>1, <1>3, <1>4, TableRests

LEMMA SelectKeeps == SInv /\ Select => SInv'
<1> SUFFICES ASSUME SInv, Select PROVE SInv'
  OBVIOUS
<1> USE SlotsAreSome DEF position, polled, table, walker, Select
<1>1. fds' \subseteq Slots \cup {Listeners} /\ calls' \in 0 .. MaxCalls
  BY DEF SInv, TypeOK, MaxCalls
<1>2. TypeOK'
  BY <1>1 DEF SInv, TypeOK
<1>3. Joined' /\ Rounds'
  BY DEF SInv, TypeOK, Joined, Rounds, Slots
<1> QED BY <1>2, <1>3, TableRests

LEMMA EndDoneKeeps == SInv /\ EndDone => SInv'
<1> SUFFICES ASSUME SInv, EndDone PROVE SInv'
  OBVIOUS
<1> USE SlotsAreSome DEF thread, position, polled, table, walker, EndDone, Past
<1>1. stage = "next"
  BY DEF SInv, Rounds, Slots
<1>2. TypeOK'
  <2>1. slot' \in 1 .. N + 1 /\ calls' \in 0 .. MaxCalls /\ fds' \subseteq Slots \cup {Listeners}
    BY DEF MaxCalls
  <2> QED BY <1>1, <2>1 DEF SInv, TypeOK
<1>3. Joined' /\ Rounds'
  BY <1>1 DEF SInv, TypeOK, Joined, Rounds, Slots
<1> QED BY <1>1, <1>2, <1>3, TableRests

(* A client that is accepted is of no kind yet and has nothing.            *)
LEMMA AcceptKeeps == SInv /\ Accept => SInv'
<1> SUFFICES ASSUME SInv, Accept PROVE SInv'
  OBVIOUS
<1> USE SlotsAreSome DEF thread, position, polled, table, walker, Accept
<1>1. CASE pc' \in {"top", "end"} /\ calls' = 0 /\ fds' = {} /\ UNCHANGED <<table, marked>>
  <2> USE <1>1
  <2>1. TypeOK'
    BY DEF SInv, TypeOK, MaxCalls
  <2>2. Joined' /\ Rounds'
    BY DEF SInv, TypeOK, Joined, Rounds, Slots
  <2> QED BY <2>1, <2>2, TableRests
<1>2. CASE \E c \in Slots \ Open :
             /\ connected' = [connected EXCEPT ![c] = TRUE]
             /\ marked' = [marked EXCEPT ![c] = FALSE]
             /\ calls' = calls - 1
             /\ UNCHANGED <<type, pc, fds>>
  <2>1. PICK c \in Slots \ Open :
             /\ connected' = [connected EXCEPT ![c] = TRUE]
             /\ marked' = [marked EXCEPT ![c] = FALSE]
             /\ calls' = calls - 1
             /\ UNCHANGED <<type, pc, fds>>
    BY <1>2
  <2>2. TypeOK'
    BY <2>1 DEF SInv, TypeOK, MaxCalls
  <2>3. Joined' /\ Rounds' /\ Removing' /\ ClockOutlivesStreams'
    BY <2>1 DEF SInv, TypeOK, Joined, Rounds, Removing, ClockOutlivesStreams, Slots
  <2>4. FreeSlots'
    BY <2>1 DEF SInv, TypeOK, FreeSlots, Slots
  <2>5. type[c] = "unknown"
    BY <2>1 DEF SInv, FreeSlots, Open
  <2>6. \A d \in Slots \ {c} : connected'[d] = connected[d] /\ marked'[d] = marked[d]
    BY <2>1 DEF SInv, TypeOK
  <2>7. OneMaster'
    BY <2>1, <2>5, <2>6, MastersStay DEF SInv, Leaving
  <2> QED BY <2>2, <2>3, <2>4, <2>7 DEF SInv
<1> QED BY <1>1, <1>2

-----------------------------------------------------------------------------
(* A removal begins: the mark is taken back, but the slot is being         *)
(* removed, so its client still is on its way out.                         *)
LEMMA RemoveKeeps ==
  ASSUME SInv, slot \in Slots, connected[slot], stage \notin Removal, Remove(slot),
         pc \in {"scan", "serve", "end"},
         fds' \subseteq fds,
         UNCHANGED <<nohold, thread, calls, connected, walker>>
  PROVE  SInv'
<1> USE DEF thread, walker, Remove
<1>1. marked' \in [Slots -> BOOLEAN]
  BY DEF SInv, TypeOK
<1>2. TypeOK'
  BY <1>1 DEF SInv, TypeOK, Removal
<1>3. Joined' /\ Rounds'
  BY DEF SInv, Joined, Rounds, Removal
<1>4. FreeSlots' /\ ClockOutlivesStreams' /\ Removing'
  BY DEF SInv, FreeSlots, ClockOutlivesStreams, Removing, Nothing
<1>5. \A c \in Slots : Leaving(c) => Leaving(c)'
  <2> SUFFICES ASSUME NEW c \in Slots, Leaving(c) PROVE Leaving(c)'
    OBVIOUS
  <2>1. CASE c = slot
    BY <2>1 DEF Leaving, Removal
  <2>2. CASE c # slot
    BY <2>2 DEF Leaving, SInv, TypeOK
  <2> QED BY <2>1, <2>2
<1>6. OneMaster'
  BY <1>5, MastersStay DEF SInv
<1> QED BY <1>2, <1>3, <1>4, <1>6 DEF SInv

(* A slot that is not being removed is left for the next one.              *)
LEMMA AdvanceKeeps ==
  ASSUME SInv, slot \in Slots, stage \notin Removal, Advance,
         pc = "end" => ~connected[slot],
         fds' \subseteq Slots \cup {Listeners}, pc \in {"scan", "serve", "end"},
         UNCHANGED <<nohold, thread, calls, table, marked, service, walker>>
  PROVE  SInv'
<1> USE SlotsAreSome DEF thread, table, walker, Advance
<1>1. slot' \in 1 .. N + 1
  BY DEF SInv, TypeOK, Slots
<1>2. TypeOK'
  BY <1>1 DEF SInv, TypeOK
<1>3. Rounds'
  BY DEF SInv, TypeOK, Rounds, Slots
<1>4. Joined' /\ FreeSlots' /\ ClockOutlivesStreams' /\ Removing'
  BY DEF SInv, Joined, FreeSlots, ClockOutlivesStreams, Removing, Nothing
<1>5. OneMaster'
  BY MastersStay DEF SInv, Leaving
<1> QED BY <1>2, <1>3, <1>4, <1>5 DEF SInv

LEMMA ScanSlotKeeps == SInv /\ ScanSlot => SInv'
<1> SUFFICES ASSUME SInv, ScanSlot PROVE SInv'
  OBVIOUS
<1>1. /\ pc = "scan" /\ slot \in Slots /\ stage \notin Removal
      /\ UNCHANGED <<nohold, thread, calls, connected, walker>>
  BY DEF ScanSlot, At, Removal
<1>2. CASE /\ fds' = fds \/ fds' = fds \cup {slot}
           /\ Advance /\ UNCHANGED <<marked, type, service>>
  <2>1. fds' \subseteq Slots \cup {Listeners}
    BY <1>1, <1>2 DEF SInv, TypeOK
  <2> QED BY <1>1, <1>2, <2>1, AdvanceKeeps DEF table
<1>3. CASE connected[slot] /\ Remove(slot) /\ UNCHANGED fds
  BY <1>1, <1>3, RemoveKeeps
<1> QED BY <1>2, <1>3 DEF ScanSlot

LEMMA EndSlotKeeps == SInv /\ EndSlot => SInv'
<1> SUFFICES ASSUME SInv, EndSlot PROVE SInv'
  OBVIOUS
<1>1. /\ pc = "end" /\ slot \in Slots /\ stage \notin Removal
      /\ UNCHANGED <<nohold, thread, polled, connected, walker>>
  BY DEF EndSlot, At, Removal
<1>2. CASE ~connected[slot] /\ Advance /\ UNCHANGED <<marked, type, service>>
  <2>1. fds' \subseteq Slots \cup {Listeners}
    BY <1>1 DEF SInv, TypeOK, polled
  <2> QED BY <1>1, <1>2, <2>1, AdvanceKeeps DEF table, polled
<1>3. CASE connected[slot] /\ Remove(slot)
  BY <1>1, <1>3, RemoveKeeps DEF polled
<1> QED BY <1>2, <1>3 DEF EndSlot

(* conn_destroy: a service is gone with its stage, the clock after the     *)
(* streams.                                                                *)
LEMMA DestroyServiceKeeps == SInv /\ DestroyService => SInv'
<1> SUFFICES ASSUME SInv, DestroyService PROVE SInv'
  OBVIOUS
<1> USE SlotsAreSome DEF thread, polled, table, walker, DestroyService
<1>1. slot \in Slots /\ connected[slot] /\ pc \in {"scan", "serve", "end"}
  BY DEF SInv, Rounds
<1> DEFINE S == [ntp : Ntp, rtp : Streams, mirror : Streams]
<1>2. service \in [Slots -> S] /\ service' = [service EXCEPT ![slot][stage] = "none"]
  BY DEF SInv, TypeOK
<1>3. /\ service' \in [Slots -> S]
      /\ \A c \in Slots \ {slot} : service'[c] = service[c]
      /\ stage = "rtp" => /\ stage' = "mirror" /\ service'[slot].rtp = "none"
                          /\ service'[slot].ntp = service[slot].ntp
                          /\ service'[slot].mirror = service[slot].mirror
      /\ stage = "mirror" => /\ stage' = "ntp" /\ service'[slot].mirror = "none"
                             /\ service'[slot].ntp = service[slot].ntp
                             /\ service'[slot].rtp = service[slot].rtp
      /\ stage = "ntp" => /\ stage' = "free" /\ service'[slot].ntp = "none"
                          /\ service'[slot].rtp = service[slot].rtp
                          /\ service'[slot].mirror = service[slot].mirror
  <2>1. CASE stage = "rtp"
    BY <1>1, <1>2, <2>1 DEF Ntp, Streams
  <2>2. CASE stage = "mirror"
    BY <1>1, <1>2, <2>2 DEF Ntp, Streams
  <2>3. CASE stage = "ntp"
    BY <1>1, <1>2, <2>3 DEF Ntp, Streams
  <2> QED BY <2>1, <2>2, <2>3
<1>4. stage' \in {"mirror", "ntp", "free"} /\ stage \in Removal
  BY DEF Removal
<1>5. TypeOK'
  BY <1>3, <1>4 DEF SInv, TypeOK, Removal
<1>6. Joined' /\ Rounds'
  BY <1>1, <1>4 DEF SInv, Joined, Rounds
<1>7. FreeSlots'
  BY <1>1, <1>3 DEF SInv, FreeSlots
<1>8. Removing'
  BY <1>3 DEF SInv, Removing
<1>9. ClockOutlivesStreams'
  BY <1>3 DEF SInv, ClockOutlivesStreams, Removing
<1>10. OneMaster'
  BY <1>4, MastersStay DEF SInv, Leaving, Removal
<1> QED BY <1>5, <1>6, <1>7, <1>8, <1>9, <1>10 DEF SInv

LEMMA FreeSlotKeeps == SInv /\ FreeSlot => SInv'
<1> SUFFICES ASSUME SInv, FreeSlot PROVE SInv'
  OBVIOUS
<1> USE SlotsAreSome DEF thread, polled, table, walker, FreeSlot, Advance
<1>1. slot \in Slots /\ connected[slot] /\ pc \in {"scan", "serve", "end"}
  BY DEF SInv, Rounds
<1>2. service[slot] = Nothing
  <2>1. service[slot] \in [ntp : Ntp, rtp : Streams, mirror : Streams]
    BY <1>1 DEF SInv, TypeOK
  <2> QED BY <2>1 DEF SInv, Removing, Nothing
<1>3. /\ connected' \in [Slots -> BOOLEAN] /\ type' \in [Slots -> Types]
      /\ slot' \in 1 .. N + 1
  BY <1>1 DEF SInv, TypeOK, Types, Slots
<1>4. /\ ~connected'[slot] /\ type'[slot] = "unknown"
      /\ \A c \in Slots \ {slot} : connected'[c] = connected[c] /\ type'[c] = type[c]
  BY <1>1 DEF SInv, TypeOK
<1>5. TypeOK'
  BY <1>3 DEF SInv, TypeOK
<1>6. Joined' /\ Removing' /\ ClockOutlivesStreams'
  BY DEF SInv, Joined, Removing, ClockOutlivesStreams
<1>7. Rounds'
  BY <1>1, <1>4 DEF SInv, TypeOK, Rounds, Slots
<1>8. FreeSlots'
  BY <1>2, <1>4 DEF SInv, FreeSlots
<1>9. OneMaster'
  BY <1>4, MastersStay DEF SInv, Leaving
<1> QED BY <1>5, <1>6, <1>7, <1>8, <1>9 DEF SInv

-----------------------------------------------------------------------------
(* Turns and handlers.  What one of them does to connections that are      *)
(* there is left to be shown of it: that types, clocks and masters still   *)
(* fit.                                                                    *)
Services == [ntp : Ntp, rtp : Streams, mirror : Streams]
GoesOn == Advance \/ (slot' = slot /\ stage' \in {"handle", "streams", "rtp"})
OnlyOpen == \A c \in Slots : ~connected[c] => type'[c] = type[c] /\ service'[c] = service[c]

LEMMA ServedKeeps ==
  ASSUME SInv, Served, pc = "serve", slot \in Slots, connected[slot], stage \notin Removal, GoesOn,
         marked' \in [Slots -> BOOLEAN], type' \in [Slots -> Types],
         service' \in [Slots -> Services], OnlyOpen, ClockOutlivesStreams', OneMaster'
  PROVE  SInv'
<1> USE SlotsAreSome DEF Served, thread, polled, walker, GoesOn, Advance
<1>1. slot' \in 1 .. N + 1
  BY DEF SInv, TypeOK, Slots
<1>2. TypeOK'
  BY <1>1 DEF SInv, TypeOK, Removal, Services
<1>3. Joined' /\ Removing'
  BY DEF SInv, Joined, Removing
<1>4. Rounds'
  BY DEF SInv, TypeOK, Rounds, Slots
<1>5. FreeSlots'
  BY DEF SInv, FreeSlots, OnlyOpen
<1> QED BY <1>2, <1>3, <1>4, <1>5 DEF SInv

(* Where a turn and a handler find the thread.                             *)
LEMMA TurnPlace ==
  ASSUME SInv, Turn
  PROVE  pc = "serve" /\ slot \in Slots /\ connected[slot] /\ stage = "next" /\ stage \notin Removal
BY DEF Turn, At, Removal

LEMMA HandlerPlace ==
  ASSUME SInv, stage \in {"handle", "streams"}
  PROVE  pc = "serve" /\ slot \in Slots /\ connected[slot] /\ stage \notin Removal
BY DEF SInv, Rounds, Removal

(* Marks and kinds a step leaves alone, or adds to, leave the masters.     *)
LEMMA SameMasters ==
  ASSUME SInv, Served, stage \notin Removal, \A c \in Slots : marked[c] => marked'[c],
         \A c \in Slots : type'[c] = "raop" => type[c] = "raop"
  PROVE  OneMaster'
BY MastersStay DEF SInv, Served, Leaving

LEMMA SameClocks == SInv /\ service' = service => ClockOutlivesStreams'
BY DEF SInv, ClockOutlivesStreams

LEMMA AnswerKeeps ==
  ASSUME SInv, Served, Answer, pc = "serve", slot \in Slots, connected[slot], stage \notin Removal
  PROVE  SInv'
<1>1. fds' \subseteq Slots \cup {Listeners}
  BY DEF SInv, TypeOK, Served, polled
<1> QED BY <1>1, AdvanceKeeps DEF Served, Answer, polled, table

(* Reading a client, and identifying it.                                   *)
LEMMA ReadKeeps == SInv /\ (NoRequest \/ ReadFails \/ KnownConnection) => SInv'
<1> SUFFICES ASSUME SInv, NoRequest \/ ReadFails \/ KnownConnection PROVE SInv'
  OBVIOUS
<1>1. Turn /\ Served
  BY DEF NoRequest, ReadFails, KnownConnection
<1>2. CASE NoRequest
  BY <1>1, <1>2, TurnPlace, AnswerKeeps DEF NoRequest
<1>3. CASE ReadFails
  BY <1>1, <1>3, TurnPlace, RemoveKeeps DEF ReadFails, Served, polled
<1>4. CASE KnownConnection
  <2>1. GoesOn /\ UNCHANGED <<type, marked, service>>
    BY <1>4 DEF KnownConnection, ToHandler, GoesOn
  <2>2. OneMaster' /\ ClockOutlivesStreams' /\ OnlyOpen
    BY <1>1, <2>1, TurnPlace, SameMasters, SameClocks DEF OnlyOpen
  <2>3. marked' \in [Slots -> BOOLEAN] /\ type' \in [Slots -> Types] /\ service' \in [Slots -> Services]
    BY <2>1 DEF SInv, TypeOK, Services
  <2> QED BY <1>1, <2>1, <2>2, <2>3, TurnPlace, ServedKeeps
<1> QED BY <1>2, <1>3, <1>4

(* Only a client that finds no other, or has all others marked, becomes a  *)
(* master.                                                                 *)
LEMMA IdentifyRaopKeeps == SInv /\ IdentifyRaop => SInv'
<1> SUFFICES ASSUME SInv, IdentifyRaop PROVE SInv'
  OBVIOUS
<1>1. Turn /\ Served /\ type[slot] = "unknown" /\ UNCHANGED service
  BY DEF IdentifyRaop
<1>2. pc = "serve" /\ slot \in Slots /\ connected[slot] /\ stage \notin Removal
  BY <1>1, TurnPlace
<1>3. ClockOutlivesStreams'
  BY <1>1, SameClocks
<1>4. CASE Advance /\ UNCHANGED <<type, marked>>
  BY <1>1, <1>2, <1>4, AnswerKeeps DEF Answer
<1>5. CASE /\ Identified("raop")
           /\ \/ OfType({"raop"}) = {} /\ UNCHANGED marked
              \/ nohold /\ marked' = Marking(Known)
  <2>1. /\ type' = [type EXCEPT ![slot] = "raop"] /\ stage' = "handle" /\ slot' = slot
    BY <1>5 DEF Identified, ToHandler
  <2>2. marked' \in [Slots -> BOOLEAN] /\ type' \in [Slots -> Types] /\ service' \in [Slots -> Services]
    BY <1>1, <1>5, <2>1 DEF SInv, TypeOK, Marking, Types, Services
  <2>3. OnlyOpen
    BY <1>1, <1>2, <2>1 DEF SInv, TypeOK, OnlyOpen
  <2>4. \A c \in Slots \ {slot} : type'[c] = type[c]
    BY <2>1 DEF SInv, TypeOK
  <2>5. connected' = connected /\ nohold' = nohold
    BY <1>1 DEF Served
  <2>6. OneMaster'
    <3>1. CASE OfType({"raop"}) = {}
      <4>1. \A c \in Slots : ~(connected[c] /\ type[c] = "raop")
        BY <3>1 DEF OfType, Open
      <4>2. \A c \in Slots : connected'[c] /\ type'[c] = "raop" => c = slot
        BY <2>4, <2>5, <4>1
      <4> QED BY <4>2 DEF OneMaster, OfType, Open
    <3>2. CASE nohold /\ marked' = Marking(Known)
      <4>1. \A c \in Slots : connected[c] /\ type[c] = "raop" => marked'[c]
        BY <3>2 DEF Marking, Known, OfType, Open, Types
      <4>2. \A c \in Slots \ {slot} : connected'[c] /\ type'[c] = "raop" => Leaving(c)'
        BY <2>4, <2>5, <4>1 DEF Leaving
      <4>3. nohold'
        BY <2>5, <3>2
      <4> QED BY <4>2, <4>3 DEF OneMaster, OfType, Open
    <3> QED BY <1>5, <3>1, <3>2
  <2> QED BY <1>1, <1>2, <1>3, <2>1, <2>2, <2>3, <2>6, ServedKeeps DEF GoesOn
<1> QED BY <1>4, <1>5 DEF IdentifyRaop

(* A client for media is no master; the services it silences keep their    *)
(* clocks.                                                                 *)
LEMMA IdentifyMediaKeeps == SInv /\ (IdentifyAirPlay \/ IdentifyHls) => SInv'
<1> SUFFICES ASSUME SInv, IdentifyAirPlay \/ IdentifyHls PROVE SInv'
  OBVIOUS
<1>1. PICK kind \in {"airplay", "hls"} :
        Turn /\ Served /\ Identified(kind) /\ UNCHANGED marked
  BY DEF IdentifyAirPlay, IdentifyHls
<1>2. pc = "serve" /\ slot \in Slots /\ connected[slot] /\ stage \notin Removal
  BY <1>1, TurnPlace
<1>3. type' = [type EXCEPT ![slot] = kind] /\ stage' = "handle" /\ slot' = slot
  BY <1>1 DEF Identified, ToHandler
<1>4. type' \in [Slots -> Types] /\ marked' \in [Slots -> BOOLEAN]
  BY <1>1, <1>3 DEF SInv, TypeOK, Types, Media
<1>5. OneMaster'
  <2>1. \A c \in Slots : type'[c] = "raop" => type[c] = "raop"
    BY <1>2, <1>3 DEF SInv, TypeOK
  <2> QED BY <1>1, <1>2, <2>1, SameMasters
<1>6. \A c \in Slots :
        /\ service'[c] = service[c] \/ (connected[c] /\ service'[c] = SilencedForMedia(service[c]))
  BY DEF IdentifyAirPlay, IdentifyHls, OfType, Open
<1>7. ASSUME NEW s \in Services
      PROVE  /\ SilencedForMedia(s) \in Services
             /\ s.ntp # "none" => SilencedForMedia(s).ntp # "none"
             /\ s.rtp = "none" => SilencedForMedia(s).rtp = "none"
             /\ s.mirror = "none" => SilencedForMedia(s).mirror = "none"
  BY DEF SilencedForMedia, Stopped, Services, Ntp, Streams
<1>8. \A c \in Slots : service[c] \in Services
  BY DEF SInv, TypeOK, Services
<1>9. service' \in [Slots -> Services]
  <2>1. service' = service \/ service' = [c \in Slots |-> service'[c]]
    BY DEF IdentifyAirPlay, IdentifyHls
  <2>2. \A c \in Slots : service'[c] \in Services
    BY <1>6, <1>7, <1>8
  <2>3. service \in [Slots -> Services]
    BY DEF SInv, TypeOK, Services
  <2> QED BY <2>1, <2>2, <2>3
<1>10. OnlyOpen
  BY <1>2, <1>3, <1>6 DEF SInv, TypeOK, OnlyOpen
<1>11. ClockOutlivesStreams'
  BY <1>6, <1>7, <1>8 DEF SInv, ClockOutlivesStreams
<1> QED BY <1>1, <1>2, <1>3, <1>4, <1>5, <1>9, <1>10, <1>11, ServedKeeps DEF GoesOn

-----------------------------------------------------------------------------
(* The handlers that neither add a master nor touch a service.             *)
LEMMA HandleOtherKeeps ==
  SInv /\ (HandleOther \/ HandleAndHangUp \/ SetupUnknownStream \/ SetupDone) => SInv'
<1> SUFFICES ASSUME SInv, HandleOther \/ HandleAndHangUp \/ SetupUnknownStream \/ SetupDone
             PROVE  SInv'
  OBVIOUS
<1>1. Served /\ stage \in {"handle", "streams"} /\ (Answer \/ Remove(slot))
  BY DEF HandleOther, HandleAndHangUp, SetupUnknownStream, SetupDone, Handling
<1>2. pc = "serve" /\ slot \in Slots /\ connected[slot] /\ stage \notin Removal
  BY <1>1, HandlerPlace
<1> QED BY <1>1, <1>2, AnswerKeeps, RemoveKeeps DEF Served, polled

(* The handlers that change what one connection has: a stream is only      *)
(* there with a clock.                                                     *)
LEMMA OwnServiceKeeps ==
  ASSUME SInv, Served, stage \in {"handle", "streams"}, GoesOn,
         \A c \in Slots : marked[c] => marked'[c], marked' \in [Slots -> BOOLEAN],
         type' = type, NEW s \in Services, service' = [service EXCEPT ![slot] = s],
         s.ntp = "none" => s.rtp = "none" /\ s.mirror = "none"
  PROVE  SInv'
<1>1. pc = "serve" /\ slot \in Slots /\ connected[slot] /\ stage \notin Removal
  BY HandlerPlace
<1>2. type' \in [Slots -> Types] /\ service' \in [Slots -> Services]
  BY DEF SInv, TypeOK, Services
<1>3. /\ service'[slot] = s
      /\ \A c \in Slots \ {slot} : service'[c] = service[c]
  BY <1>1 DEF SInv, TypeOK
<1>4. OnlyOpen
  BY <1>1, <1>3 DEF OnlyOpen
<1>5. ClockOutlivesStreams'
  BY <1>3 DEF SInv, ClockOutlivesStreams
<1>6. OneMaster'
  BY <1>1, SameMasters
<1> QED BY <1>1, <1>2, <1>4, <1>5, <1>6, ServedKeeps

(* What a connection has after an EXCEPT on one of its services.           *)
LEMMA OneService ==
  ASSUME SInv, slot \in Slots, NEW part \in {"rtp", "mirror"}, NEW state \in Streams,
         service' = [service EXCEPT ![slot][part] = state]
  PROVE  \E s \in Services :
           /\ service' = [service EXCEPT ![slot] = s]
           /\ s.ntp = service[slot].ntp
           /\ part = "rtp" => s.rtp = state /\ s.mirror = service[slot].mirror
           /\ part = "mirror" => s.mirror = state /\ s.rtp = service[slot].rtp
<1>1. service \in [Slots -> Services]
  BY DEF SInv, TypeOK, Services
<1>2. CASE part = "rtp"
  <2> DEFINE s == [service[slot] EXCEPT !.rtp = state]
  <2>1. s \in Services
    BY <1>1 DEF Services
  <2>2. service' = [service EXCEPT ![slot] = s]
    BY <1>1, <1>2
  <2>3. s.ntp = service[slot].ntp /\ s.rtp = state /\ s.mirror = service[slot].mirror
    BY <1>1 DEF Services
  <2> QED BY <1>2, <2>1, <2>2, <2>3
<1>3. CASE part = "mirror"
  <2> DEFINE s == [service[slot] EXCEPT !.mirror = state]
  <2>1. s \in Services
    BY <1>1 DEF Services
  <2>2. service' = [service EXCEPT ![slot] = s]
    BY <1>1, <1>3
  <2>3. s.ntp = service[slot].ntp /\ s.mirror = state /\ s.rtp = service[slot].rtp
    BY <1>1 DEF Services
  <2> QED BY <1>3, <2>1, <2>2, <2>3
<1> QED BY <1>2, <1>3

LEMMA SetupKeysKeeps == SInv /\ HandleSetupKeys => SInv'
<1> SUFFICES ASSUME SInv, HandleSetupKeys PROVE SInv'
  OBVIOUS
<1>1. PICK clock \in {"ready", "running"} :
        service' = [service EXCEPT ![slot] = [ntp |-> clock, rtp |-> "ready", mirror |-> "ready"]]
  BY DEF HandleSetupKeys
<1>2. [ntp |-> clock, rtp |-> "ready", mirror |-> "ready"] \in Services
  BY DEF Services, Ntp, Streams
<1>3. Served /\ stage = "handle" /\ GoesOn /\ UNCHANGED <<type, marked>>
  BY DEF HandleSetupKeys, Streaming, Handling, GoesOn
<1>4. marked' \in [Slots -> BOOLEAN]
  BY <1>3 DEF SInv, TypeOK
<1> QED BY <1>1, <1>2, <1>3, <1>4, OwnServiceKeeps

LEMMA SetupStreamsKeeps == SInv /\ (HandleSetupStreams \/ HandleReverse \/ HandleFinished) => SInv'
<1> SUFFICES ASSUME SInv, HandleSetupStreams \/ HandleReverse \/ HandleFinished PROVE SInv'
  OBVIOUS
<1>1. Served /\ stage = "handle" /\ GoesOn /\ UNCHANGED service
  BY DEF HandleSetupStreams, HandleReverse, HandleFinished, Streaming, Handling, GoesOn
<1>2. pc = "serve" /\ slot \in Slots /\ connected[slot] /\ stage \notin Removal
  BY <1>1, HandlerPlace
<1>3. ClockOutlivesStreams' /\ service' \in [Slots -> Services]
  BY <1>1, SameClocks DEF SInv, TypeOK, Services
<1>4. marked' \in [Slots -> BOOLEAN] /\ type' \in [Slots -> Types]
  BY DEF SInv, TypeOK, Types, Media, Marking, HandleSetupStreams, HandleReverse, HandleFinished
<1>5. OnlyOpen
  BY <1>1, <1>2 DEF SInv, TypeOK, OnlyOpen, HandleSetupStreams, HandleReverse, HandleFinished
<1>6. \A c \in Slots : type'[c] = "raop" => type[c] = "raop" /\ (Leaving(c) => Leaving(c)')
  <2>1. CASE HandleSetupStreams \/ HandleReverse
    BY <1>2, <2>1 DEF SInv, TypeOK, HandleSetupStreams, HandleReverse, Leaving
  <2>2. CASE HandleFinished
    <3>1. type' = type
      BY <2>2 DEF HandleFinished
    <3>2. \A c \in Slots \ {slot} : marked[c] => marked'[c]
      BY <1>2, <2>2 DEF HandleFinished, Marking
    <3>3. slot' = slot /\ stage' = "rtp"
      BY <2>2 DEF HandleFinished
    <3>4. \A c \in Slots \ {slot} : Leaving(c) => Leaving(c)'
      BY <1>1, <1>2, <3>2 DEF Leaving, Removal
    <3>5. \A c \in Slots : c = slot => Leaving(c)'
      BY <3>3 DEF Leaving, Removal
    <3>6. \A c \in Slots : Leaving(c) => Leaving(c)'
      BY <3>4, <3>5
    <3> QED BY <3>1, <3>6
  <2> QED BY <1>1, <2>1, <2>2
<1>7. OneMaster'
  BY <1>1, <1>6, MastersStay DEF SInv, Served
<1> QED BY <1>1, <1>2, <1>3, <1>4, <1>5, <1>7, ServedKeeps

LEMMA SetupStreamKeeps == SInv /\ SetupStream => SInv'
<1> SUFFICES ASSUME SInv, SetupStream PROVE SInv'
  OBVIOUS
<1>1. Served /\ stage = "streams"
  BY DEF SetupStream
<1>2. pc = "serve" /\ slot \in Slots /\ connected[slot] /\ stage \notin Removal
  BY <1>1, HandlerPlace
<1>3. CASE Remove(slot)
  BY <1>1, <1>2, <1>3, RemoveKeeps DEF Served, polled
<1>4. ASSUME NEW part \in {"rtp", "mirror"}, service[slot][part] = "ready",
             service' = [service EXCEPT ![slot][part] = "running"],
             UNCHANGED <<slot, stage, type, marked>>
      PROVE  SInv'
  <2>1. PICK s \in Services :
          /\ service' = [service EXCEPT ![slot] = s]
          /\ s.ntp = service[slot].ntp
    BY <1>2, <1>4, OneService DEF Ntp, Streams
  <2>2. service[slot].rtp = "ready" \/ service[slot].mirror = "ready"
    BY <1>4
  <2>3. s.ntp # "none"
    BY <1>2, <2>1, <2>2 DEF SInv, ClockOutlivesStreams
  <2>4. marked' \in [Slots -> BOOLEAN] /\ GoesOn
    BY <1>1, <1>4 DEF SInv, TypeOK, GoesOn
  <2> QED BY <1>1, <1>4, <2>1, <2>3, <2>4, OwnServiceKeeps
<1> QED BY <1>3, <1>4 DEF SetupStream, Mine

LEMMA TeardownStreamKeeps == SInv /\ HandleTeardownStream => SInv'
<1> SUFFICES ASSUME SInv, HandleTeardownStream PROVE SInv'
  OBVIOUS
<1>1. Served /\ stage = "handle" /\ GoesOn /\ UNCHANGED <<type, marked>>
  BY DEF HandleTeardownStream, Streaming, Handling, GoesOn
<1>2. pc = "serve" /\ slot \in Slots /\ connected[slot] /\ stage \notin Removal
  BY <1>1, HandlerPlace
<1>3. PICK part \in {"rtp", "mirror"} :
        service' = [service EXCEPT ![slot][part] = Stopped(service[slot][part])]
  BY DEF HandleTeardownStream, Mine
<1>4. service[slot] \in Services
  BY <1>2 DEF SInv, TypeOK, Services
<1>5. /\ Stopped(service[slot][part]) \in Streams
      /\ service[slot][part] = "none" => Stopped(service[slot][part]) = "none"
  BY <1>4 DEF Stopped, Services, Ntp, Streams
<1>6. PICK s \in Services :
        /\ service' = [service EXCEPT ![slot] = s]
        /\ s.ntp = service[slot].ntp
        /\ part = "rtp" => s.rtp = Stopped(service[slot][part]) /\ s.mirror = service[slot].mirror
        /\ part = "mirror" => s.mirror = Stopped(service[slot][part]) /\ s.rtp = service[slot].rtp
  BY <1>2, <1>3, <1>5, OneService
<1>7. s.ntp = "none" => s.rtp = "none" /\ s.mirror = "none"
  <2>1. CASE part = "rtp"
    BY <1>2, <1>5, <1>6, <2>1 DEF SInv, ClockOutlivesStreams
  <2>2. CASE part = "mirror"
    BY <1>2, <1>5, <1>6, <2>2 DEF SInv, ClockOutlivesStreams
  <2> QED BY <2>1, <2>2
<1>8. marked' \in [Slots -> BOOLEAN]
  BY <1>1 DEF SInv, TypeOK
<1> QED BY <1>1, <1>6, <1>7, <1>8, OwnServiceKeeps

LEMMA TeardownKeeps == SInv /\ HandleTeardown => SInv'
<1> SUFFICES ASSUME SInv, HandleTeardown PROVE SInv'
  OBVIOUS
<1>1. Served /\ stage = "handle" /\ GoesOn /\ UNCHANGED type
  BY DEF HandleTeardown, Streaming, Handling, GoesOn
<1>2. pc = "serve" /\ slot \in Slots /\ connected[slot] /\ stage \notin Removal
  BY <1>1, HandlerPlace
<1> DEFINE s == [service[slot] EXCEPT !.rtp = "none", !.mirror = "none"]
<1>3. service \in [Slots -> Services]
  BY DEF SInv, TypeOK, Services
<1>4. s \in Services /\ s.rtp = "none" /\ s.mirror = "none"
  BY <1>2, <1>3 DEF Services, Ntp, Streams
<1>5. service' = [service EXCEPT ![slot] = s]
  BY <1>2, <1>3 DEF HandleTeardown
<1>6. marked' \in [Slots -> BOOLEAN] /\ \A c \in Slots : marked[c] => marked'[c]
  BY DEF HandleTeardown, Marking, SInv, TypeOK
<1> HIDE DEF s
<1> QED BY <1>1, <1>4, <1>5, <1>6, OwnServiceKeeps

(* A service that ends by itself is still there.                           *)
LEMMA ServiceEndsKeeps ==
  ASSUME SInv, NEW c \in Slots, NEW part \in {"rtp", "mirror"}, ServiceEnds(c, part)
  PROVE  SInv'
<1> USE DEF ServiceEnds, thread, position, polled, table, walker
<1>1. service \in [Slots -> Services]
  BY DEF SInv, TypeOK, Services
<1>2. /\ service' \in [Slots -> Services]
      /\ \A d \in Slots \ {c} : service'[d] = service[d]
      /\ service'[c].ntp = service[c].ntp
      /\ service[c].rtp = "none" => service'[c].rtp = "none"
      /\ service[c].mirror = "none" => service'[c].mirror = "none"
  <2>1. CASE part = "rtp"
    BY <1>1, <2>1 DEF Services, Streams, Ntp
  <2>2. CASE part = "mirror"
    BY <1>1, <2>2 DEF Services, Streams, Ntp
  <2> QED BY <2>1, <2>2
<1>3. service[c].rtp # "none" \/ service[c].mirror # "none"
  OBVIOUS
<1>4. service[c] # Nothing
  BY <1>3 DEF Nothing
<1>5. TypeOK'
  BY <1>2 DEF SInv, TypeOK, Services
<1>6. Joined' /\ Rounds'
  BY DEF SInv, Joined, Rounds
<1>7. FreeSlots'
  BY <1>2, <1>4 DEF SInv, FreeSlots
<1>8. Removing'
  <2>1. stage \in {"mirror", "ntp", "free"} => slot \in Slots
    BY DEF SInv, Rounds
  <2> QED BY <1>2, <2>1 DEF SInv, Removing
<1>9. ClockOutlivesStreams'
  BY <1>2 DEF SInv, ClockOutlivesStreams
<1>10. OneMaster'
  BY MastersStay DEF SInv, Leaving
<1> QED BY <1>5, <1>6, <1>7, <1>8, <1>9, <1>10 DEF SInv

-----------------------------------------------------------------------------
LEMMA SInvNext == SInv /\ [Next]_vars => SInv'
<1> SUFFICES ASSUME SInv, [Next]_vars PROVE SInv'
  OBVIOUS
<1>1. CASE EngineThread
  BY <1>1, EngineThreadKeeps
<1>2. CASE Round \/ ScanDone \/ AcceptDone \/ NothingToServe \/ ServeDone
  BY <1>2, RoundKeeps
<1>3. CASE ScanSlot \/ Select \/ Accept \/ EndSlot \/ EndDone
  BY <1>3, ScanSlotKeeps, SelectKeeps, AcceptKeeps, EndSlotKeeps, EndDoneKeeps
<1>4. CASE DestroyService \/ FreeSlot
  BY <1>4, DestroyServiceKeeps, FreeSlotKeeps
<1>5. CASE NoRequest \/ ReadFails \/ KnownConnection
  BY <1>5, ReadKeeps
<1>6. CASE IdentifyRaop \/ IdentifyAirPlay \/ IdentifyHls
  BY <1>6, IdentifyRaopKeeps, IdentifyMediaKeeps
<1>7. CASE Handle
  BY <1>7, HandleOtherKeeps, SetupKeysKeeps, SetupStreamsKeeps, SetupStreamKeeps,
     TeardownStreamKeeps, TeardownKeeps DEF Handle
<1>8. CASE \E c \in Slots, part \in {"rtp", "mirror"} : ServiceEnds(c, part)
  BY <1>8, ServiceEndsKeeps
<1>9. CASE UNCHANGED vars
  <2> USE <1>9 DEF vars, thread, position, polled, table, walker
  <2>1. TypeOK' /\ Joined' /\ Rounds'
    BY DEF SInv, TypeOK, Joined, Rounds
  <2> QED BY <2>1, TableRests
<1> QED
  BY <1>1, <1>2, <1>3, <1>4, <1>5, <1>6, <1>7, <1>8, <1>9 DEF Next, ServerThread

LEMMA SInvImplies == SInv => ServerFits
BY DEF SInv, ServerFits, NothingOutlivesConnection, FreeSlots, Rounds, Open

(* For any number of slots: one client at a time mirrors or plays audio,   *)
(* but for those that leave; a stream has its clock for as long as it      *)
(* lasts, its removal included; and when a connection is closed, or the    *)
(* server joined, nothing of what was set up remains.                      *)
THEOREM Fits == Spec => []ServerFits
<1>1. Init => SInv
  BY SInvInit
<1>2. SInv /\ [Next]_vars => SInv'
  BY SInvNext
<1>3. SInv => ServerFits
  BY SInvImplies
<1> QED BY <1>1, <1>2, <1>3, PTL DEF Spec

-----------------------------------------------------------------------------
(***************************************************************************)
(* ClientAuth, for any set of clients and any number of PINs and nonces.   *)
(*                                                                         *)
(* AccountsAreTrue is not inductive: who has paired on this connection is  *)
(* in `paired' (PairedHere), and what is held now, a PIN that was made, its *)
(* verifier or a nonce, has not let anyone in before (PinsAreSpent,        *)
(* NoncesAreSpent): numbers only grow, and what is used is taken away.     *)
(***************************************************************************)
OptionsFit ==
  /\ fixed => pin_pw = "pin" /\ made >= 1
  /\ listed => pin_pw = "pin"
  /\ ~checked => issued <= 1

Held ==
  /\ nonce # NoNumber \/ random_pw # NoPw => HasPassword
  /\ random_pw # NoPw => pin_pw = "random"
  /\ saved \subseteq registered
  /\ who = Nobody => conn = NewConn

PairedHere ==
  /\ conn.stage = "proved" => conn.srp >= 0
  /\ conn.pair_setup => who \in paired
  /\ registered \subseteq paired

PinsAreSpent ==
  /\ \A n \in Nat : UsePin(n) \in used => n <= made
  /\ ~fixed => /\ pin # 0 => UsePin(pin) \notin used
               /\ conn.srp > 0 => UsePin(conn.srp) \notin used /\ conn.srp # pin

NoncesAreSpent ==
  /\ \A n \in Nat : Use(n) \in used => n <= issued
  /\ checked /\ nonce # 0 => Use(nonce) \notin used

AuthInv == /\ AuthTypeOK /\ OptionsFit /\ Held /\ PairedHere
           /\ DisplaysAreCounted /\ PinsAreSpent /\ NoncesAreSpent

Conns == [status : Statuses, srp : -1 .. made, stage : Stages,
          pair_setup : BOOLEAN, authenticated : BOOLEAN]

LEMMA InvAccounts == AuthInv => AccountsAreTrue
BY DEF AuthInv, Held, PairedHere, AccountsAreTrue, Consistent, RegisteredHavePaired, NoSrp

LEMMA KindsDiffer ==
  \A n, m : /\ Use(n) # UsePin(m)
            /\ Use(n) = Use(m) => n = m
            /\ UsePin(n) = UsePin(m) => n = m
<1> TAKE n, m
<1>1. /\ Use(n).kind = "nonce" /\ UsePin(m).kind = "pin"
      /\ Use(n).number = n /\ UsePin(n).number = n
      /\ Use(m).number = m /\ UsePin(m).number = m
  BY DEF Use, UsePin
<1> QED BY <1>1

LEMMA NewConnFacts ==
  /\ made \in Nat => NewConn \in Conns
  /\ NewConn.status = "initial" /\ NewConn.stage = "new" /\ NewConn.srp = NoSrp
  /\ ~NewConn.pair_setup /\ ~NewConn.authenticated
<1>1. made \in Nat => -1 \in -1 .. made
  OBVIOUS
<1> QED BY <1>1 DEF NewConn, Conns, Statuses, Stages, NoSrp

LEMMA AuthInitInv == AuthInit => AuthInv
<1> SUFFICES ASSUME AuthInit PROVE AuthInv
  OBVIOUS
<1>m. made \in {0, 1} /\ pin = made /\ made \in 0 .. MaxPins
  BY AuthBounds DEF AuthInit
<1>1. AuthTypeOK
  <2>1. conn \in Conns
    BY <1>m, NewConnFacts DEF AuthInit
  <2>2. random_pw \in [pw : 0 .. made, for : Clients \cup {Nobody}]
    BY <1>m DEF AuthInit, NoPw, NoNumber
  <2>3. known \in [Clients -> 0 .. issued]
    BY DEF AuthInit, NoNumber
  <2>4. issued \in 0 .. MaxNonces /\ nonce \in 0 .. issued /\ displayed \in 0 .. made
        /\ pin \in 0 .. made /\ auth_fail_count \in 0 .. Byte - 1
    BY <1>m, AuthBounds DEF AuthInit, NoNumber
  <2> QED BY <1>m, <2>1, <2>2, <2>3, <2>4 DEF AuthInit, AuthTypeOK, Conns
<1>2. OptionsFit /\ Held /\ DisplaysAreCounted /\ PinsAreSpent /\ NoncesAreSpent
  BY <1>m, NewConnFacts DEF AuthInit, OptionsFit, Held, DisplaysAreCounted, PinsAreSpent, NoncesAreSpent,
         NoNumber, NoSrp
<1>3. PairedHere
  BY NewConnFacts DEF AuthInit, PairedHere
<1> QED BY <1>1, <1>2, <1>3 DEF AuthInv

-----------------------------------------------------------------------------
(* Types, group by group: most actions leave most groups alone.            *)
OptionTypes == /\ pin_pw \in {"none", "pin", "password", "random"}
               /\ fixed \in BOOLEAN /\ listed \in BOOLEAN /\ checked \in BOOLEAN
PinTypes == made \in 0 .. MaxPins /\ pin \in 0 .. made /\ displayed \in 0 .. made
NonceTypes == /\ issued \in 0 .. MaxNonces /\ nonce \in 0 .. issued
              /\ known \in [Clients -> 0 .. issued]
PasswordTypes == /\ random_pw \in [pw : 0 .. made, for : Clients \cup {Nobody}]
                 /\ auth_fail_count \in 0 .. Byte - 1
ConnTypes == who \in Clients \cup {Nobody} /\ conn \in Conns
RegisterTypes == registered \subseteq Clients /\ saved \subseteq Clients /\ paired \subseteq Clients

LEMMA TypeGroups ==
  AuthTypeOK <=> /\ OptionTypes /\ PinTypes /\ NonceTypes /\ PasswordTypes /\ ConnTypes
                 /\ RegisterTypes /\ alive \in BOOLEAN
BY DEF AuthTypeOK, OptionTypes, PinTypes, NonceTypes, PasswordTypes, ConnTypes, Conns,
       RegisterTypes

(* Every step that the protocol does on a connection, field by field.      *)
ConnIs(c, status, srp, at, pair_setup, authenticated) ==
  /\ c.status = status /\ c.srp = srp /\ c.stage = at
  /\ c.pair_setup = pair_setup /\ c.authenticated = authenticated

LEMMA SetupPin1Conn ==
  ASSUME AuthInv, PairSetupPin1
  PROVE  /\ conn' \in Conns'
         /\ \/ ConnIs(conn', conn.status, pin, "salted", conn.pair_setup, conn.authenticated)
            \/ ConnIs(conn', conn.status, NoSrp, "new", conn.pair_setup, conn.authenticated)
<1>1. AuthTypeOK /\ made' = made /\ conn \in Conns /\ made \in Nat /\ pin \in 0 .. made
  BY TypeGroups DEF AuthInv, PairSetupPin1, ConnTypes, PinTypes
<1>2. PICK ok \in BOOLEAN :
         conn' = [conn EXCEPT !.srp = IF ok THEN pin ELSE NoSrp,
                              !.stage = IF ok THEN "salted" ELSE "new"]
  BY DEF PairSetupPin1
<1>3. "salted" \in Stages /\ "new" \in Stages /\ NoSrp \in -1 .. made /\ pin \in -1 .. made
  BY <1>1 DEF Stages, NoSrp
<1>4. CASE ok
  <2>1. conn' = [conn EXCEPT !.srp = pin, !.stage = "salted"]
    BY <1>2, <1>4
  <2> QED BY <1>1, <1>3, <2>1 DEF Conns, ConnIs
<1>5. CASE ~ok
  <2>1. conn' = [conn EXCEPT !.srp = NoSrp, !.stage = "new"]
    BY <1>2, <1>5
  <2> QED BY <1>1, <1>3, <2>1 DEF Conns, ConnIs
<1> QED BY <1>4, <1>5

LEMMA SetupPin2Conn ==
  ASSUME AuthInv, PairSetupPin2
  PROVE  /\ conn' \in Conns'
         /\ \/ /\ conn.srp >= 0
               /\ ConnIs(conn', conn.status, conn.srp, "proved", conn.pair_setup, conn.authenticated)
            \/ ConnIs(conn', conn.status, NoSrp, "new", conn.pair_setup, conn.authenticated)
<1>1. AuthTypeOK /\ made' = made /\ conn \in Conns /\ made \in Nat /\ displayed \in 0 .. made
  BY TypeGroups DEF AuthInv, PairSetupPin2, pins, ConnTypes, PinTypes
<1>2. PICK typed \in {displayed, Zeros, Mistyped} :
            conn' = IF ProofIsValid(typed)
                    THEN [conn EXCEPT !.stage = "proved"]
                    ELSE [conn EXCEPT !.stage = "new", !.srp = NoSrp]
  BY DEF PairSetupPin2
<1>3. "proved" \in Stages /\ "new" \in Stages /\ NoSrp \in -1 .. made /\ conn.srp \in -1 .. made
  BY <1>1 DEF Stages, NoSrp, Conns
<1>4. CASE ProofIsValid(typed)
  <2>1. conn' = [conn EXCEPT !.stage = "proved"]
    BY <1>2, <1>4
  <2>2. conn.srp >= 0
    BY <1>1, <1>2, <1>3, <1>4 DEF ProofIsValid, Mistyped, Zeros
  <2> QED BY <1>1, <1>3, <2>1, <2>2 DEF Conns, ConnIs
<1>5. CASE ~ProofIsValid(typed)
  <2>1. conn' = [conn EXCEPT !.stage = "new", !.srp = NoSrp]
    BY <1>2, <1>5
  <2> QED BY <1>1, <1>3, <2>1 DEF Conns, ConnIs
<1> QED BY <1>4, <1>5

LEMMA SetupPin3Conn ==
  ASSUME AuthInv, PairSetupPin3
  PROVE  conn' \in Conns' /\ ConnIs(conn', "setup", NoSrp, "new", TRUE, conn.authenticated)
<1>1. AuthTypeOK /\ made' = made /\ conn \in Conns /\ made \in Nat
  BY TypeGroups DEF AuthInv, PairSetupPin3, pins, ConnTypes, PinTypes
<1>2. "new" \in Stages /\ "setup" \in Statuses /\ NoSrp \in -1 .. made
  BY <1>1 DEF Stages, Statuses, NoSrp
<1> DEFINE c == ConfirmPairSetup(conn)
<1>3. c \in Conns /\ ConnIs(c, conn.status, NoSrp, conn.stage, TRUE, conn.authenticated)
  BY <1>1, <1>2 DEF ConfirmPairSetup, Conns, ConnIs
<1>4. conn' = [c EXCEPT !.status = "setup", !.stage = "new"]
  BY DEF PairSetupPin3
<1> HIDE DEF c
<1> QED BY <1>1, <1>2, <1>3, <1>4 DEF Conns, ConnIs

LEMMA SetupConn ==
  ASSUME AuthInv, PairSetup
  PROVE  /\ conn' \in Conns'
         /\ ConnIs(conn', "setup", conn.srp, conn.stage, conn.pair_setup, conn.authenticated)
<1>1. AuthTypeOK /\ made' = made /\ conn \in Conns
  BY TypeGroups DEF AuthInv, PairSetup, pins, ConnTypes
<1>2. conn' = [conn EXCEPT !.status = "setup"] /\ "setup" \in Statuses
  BY DEF PairSetup, Statuses
<1> QED BY <1>1, <1>2 DEF Conns, ConnIs

LEMMA Verify1Conn ==
  ASSUME AuthInv, PairVerify1
  PROVE  /\ conn' \in Conns'
         /\ \/ conn' = conn
            \/ ConnIs(conn', "handshake", conn.srp, "verifying", conn.pair_setup, conn.authenticated)
            \/ ConnIs(conn', "handshake", conn.srp, "new", conn.pair_setup, conn.authenticated)
<1>1. AuthTypeOK /\ made' = made /\ conn \in Conns
  BY TypeGroups DEF AuthInv, PairVerify1, pins, ConnTypes
<1>2. "handshake" \in Statuses /\ "verifying" \in Stages /\ "new" \in Stages
  BY DEF Statuses, Stages
<1>3. \/ conn' = conn
      \/ conn' = [conn EXCEPT !.status = "handshake", !.stage = "verifying"]
      \/ conn' = [conn EXCEPT !.status = "handshake", !.stage = "new"]
  BY DEF PairVerify1
<1>4. CASE conn' = conn
  BY <1>1, <1>4 DEF Conns
<1>5. CASE conn' = [conn EXCEPT !.status = "handshake", !.stage = "verifying"]
  BY <1>1, <1>2, <1>5 DEF Conns, ConnIs
<1>6. CASE conn' = [conn EXCEPT !.status = "handshake", !.stage = "new"]
  BY <1>1, <1>2, <1>6 DEF Conns, ConnIs
<1> QED BY <1>3, <1>4, <1>5, <1>6

LEMMA Verify2Conn ==
  ASSUME AuthInv, PairVerify2
  PROVE  /\ conn' \in Conns'
         /\ ConnIs(conn', "finished", conn.srp, "new", conn.pair_setup, conn.authenticated)
<1>1. AuthTypeOK /\ made' = made /\ conn \in Conns
  BY TypeGroups DEF AuthInv, PairVerify2, pins, ConnTypes
<1>2. conn' = [conn EXCEPT !.status = "finished", !.stage = "new"]
      /\ "finished" \in Statuses /\ "new" \in Stages
  BY DEF PairVerify2, Statuses, Stages
<1> QED BY <1>1, <1>2 DEF Conns, ConnIs

-----------------------------------------------------------------------------
(* A password is kept, or made and then new.                               *)
LEMMA PasswordFacts ==
  ASSUME AuthInv, NEW p \in {NoPw, random_pw}, Password(p), Connected
  PROVE  /\ made' \in 0 .. MaxPins /\ made' >= made /\ pin' = pin
         /\ random_pw' \in [pw : 0 .. made', for : Clients \cup {Nobody}]
         /\ \/ /\ random_pw' = p /\ made' = made
               /\ pin_pw = "password" \/ p # NoPw
            \/ /\ random_pw' # random_pw /\ random_pw' # NoPw /\ p = NoPw
               /\ pin_pw # "password"
<1>1. /\ made \in 0 .. MaxPins /\ who \in Clients
      /\ random_pw \in [pw : 0 .. made, for : Clients \cup {Nobody}]
  BY TypeGroups DEF AuthInv, PinTypes, PasswordTypes, ConnTypes, Connected
<1>2. NoPw \in [pw : 0 .. made, for : Clients \cup {Nobody}] /\ NoPw.for = Nobody
  BY <1>1 DEF NoPw, NoNumber
<1>3. CASE pin_pw = "password" \/ p # NoPw
  BY <1>1, <1>2, <1>3, AuthBounds DEF Password
<1>4. CASE ~(pin_pw = "password" \/ p # NoPw)
  <2>1. /\ made < MaxPins /\ made' = made + 1 /\ pin' = pin
        /\ random_pw' = [pw |-> made', for |-> who]
    BY <1>4 DEF Password
  <2>2. random_pw'.for = who /\ random_pw'.pw = made'
    BY <2>1
  <2>3. random_pw.pw \in 0 .. made
    BY <1>1
  <2>4. random_pw' # NoPw
    BY <1>1, <1>2, <2>2, NobodyAssumption
  <2>5. random_pw' # random_pw
    <3>1. made' # random_pw.pw
      BY <1>1, <2>1, <2>3
    <3> QED BY <2>2, <3>1
  <2>6. made' \in 0 .. MaxPins /\ made' >= made
    BY <1>1, <2>1, AuthBounds
  <2>7. made' \in 0 .. made'
    BY <2>6
  <2>8. random_pw' \in [pw : 0 .. made', for : Clients \cup {Nobody}]
    BY <1>1, <2>1, <2>7
  <2> QED BY <1>4, <2>1, <2>4, <2>5, <2>6, <2>8
<1> QED BY <1>3, <1>4

LEMMA ChallengeFacts ==
  ASSUME AuthInv, Challenge, Connected
  PROVE  /\ NonceTypes' /\ nonce' = issued' /\ issued' >= issued
         /\ IF checked THEN issued' = issued + 1 ELSE issued' = 1
<1>1. /\ issued \in 0 .. MaxNonces /\ known \in [Clients -> 0 .. issued] /\ who \in Clients
      /\ ~checked => issued <= 1
  BY TypeGroups DEF AuthInv, NonceTypes, ConnTypes, Connected, OptionsFit
<1>2. /\ IF checked THEN issued < MaxNonces /\ issued' = issued + 1 ELSE issued' = 1
      /\ nonce' = issued' /\ known' = [known EXCEPT ![who] = issued']
  BY DEF Challenge, MakeNonce
<1>3. issued' \in 0 .. MaxNonces /\ issued' >= issued
  BY <1>1, <1>2, AuthBounds
<1>4. nonce' \in 0 .. issued'
  BY <1>2, <1>3
<1>5. \A c \in Clients : known'[c] \in 0 .. issued'
  <2>1. \A c \in Clients : known[c] \in 0 .. issued' /\ issued' \in 0 .. issued'
    BY <1>1, <1>3
  <2> QED BY <1>1, <1>2, <2>1
<1>6. known' \in [Clients -> 0 .. issued']
  BY <1>1, <1>2, <1>5
<1> QED BY <1>2, <1>3, <1>4, <1>6 DEF NonceTypes

(* A SETUP with an answer: three ways it may go.                           *)
Crashes == /\ alive' = FALSE
           /\ UNCHANGED <<options, pins, nonces, passwords, who, conn, register, used>>
Verified(c) == /\ known[c] = nonce /\ nonce # NoNumber
               /\ conn' = [conn EXCEPT !.authenticated = TRUE]
               /\ nonce' = NoNumber /\ random_pw' = NoPw
               /\ used' = used \cup {Use(known[c])}
               /\ Admit
               /\ UNCHANGED <<options, pins, issued, known, auth_fail_count, shows, who, alive>>
Rejected(p, fails) ==
               /\ Password(p) /\ Challenge
               /\ p \in {NoPw, random_pw}
               /\ pin_pw = "random" => fails = (IF p = NoPw THEN 0 ELSE auth_fail_count)
               /\ fails \in 0 .. Byte - 1
               /\ auth_fail_count' = fails
               /\ shows' = (IF random_pw' = random_pw THEN shows ELSE 0)
               /\ UNCHANGED <<options, displayed, who, conn, register, used, alive>>

LEMMA RemainderRange ==
  ASSUME NEW a \in Int, NEW m \in Nat \ {0}
  PROVE  a % m \in 0 .. m - 1
OBVIOUS

LEMMA AnswerCases ==
  ASSUME AuthInv, NEW right \in BOOLEAN, SetupAnswers(right)
  PROVE  Connected /\ (Crashes \/ Verified(who) \/ \E p, fails : Rejected(p, fails))
<1>1. Connected
  BY DEF SetupAnswers
<1> DEFINE p == StillGood(random_pw)
           verified == IF pin_pw = "password" THEN right
                       ELSE right /\ p # NoPw /\ p.pw = displayed
           fails == IF pin_pw = "random" /\ p = NoPw THEN 0 ELSE auth_fail_count
           counted == IF verified \/ pin_pw = "random" THEN fails ELSE (fails + 1) % Byte
<1>2. /\ UNCHANGED <<options, who>>
      /\ IF verified /\ nonce = NoNumber
         THEN alive' = FALSE /\ UNCHANGED <<pins, nonces, passwords, conn, register, used>>
         ELSE IF verified /\ NonceIsFresh(who)
         THEN /\ conn' = [conn EXCEPT !.authenticated = TRUE]
              /\ nonce' = NoNumber /\ random_pw' = NoPw
              /\ used' = used \cup {Use(known[who])}
              /\ Admit
              /\ UNCHANGED <<pins, issued, known, auth_fail_count, shows, alive>>
         ELSE /\ Password(p) /\ Challenge
              /\ auth_fail_count' = counted
              /\ shows' = (IF random_pw' = random_pw THEN shows ELSE 0)
              /\ UNCHANGED <<displayed, conn, register, used, alive>>
  BY DEF SetupAnswers
<1>3. p \in {NoPw, random_pw}
  BY DEF StillGood
<1>4. auth_fail_count \in 0 .. Byte - 1
  BY TypeGroups DEF AuthInv, PasswordTypes
<1>5. fails \in 0 .. Byte - 1
  BY <1>4, AuthBounds
<1>6. counted \in 0 .. Byte - 1
  <2>1. fails + 1 \in Int /\ Byte \in Nat \ {0}
    BY <1>5, AuthBounds
  <2>2. (fails + 1) % Byte \in 0 .. Byte - 1
    BY <2>1, RemainderRange
  <2> QED BY <1>5, <2>2
<1>7. pin_pw = "random" => counted = (IF p = NoPw THEN 0 ELSE auth_fail_count)
  OBVIOUS
<1> HIDE DEF p, verified, fails, counted
<1>8. CASE verified /\ nonce = NoNumber
  BY <1>1, <1>2, <1>8 DEF Crashes
<1>9. CASE verified /\ nonce # NoNumber /\ NonceIsFresh(who)
  BY <1>1, <1>2, <1>9 DEF Verified, NonceIsFresh
<1>10. CASE ~verified \/ (nonce # NoNumber /\ ~NonceIsFresh(who))
  BY <1>1, <1>2, <1>3, <1>6, <1>7, <1>10 DEF Rejected
<1> QED BY <1>8, <1>9, <1>10

LEMMA AsksFacts ==
  ASSUME AuthInv, SetupAsks
  PROVE  /\ Connected /\ Challenge /\ HasPassword
         /\ \E p \in {NoPw, random_pw} :
              /\ Password(p)
              /\ p # NoPw => auth_fail_count < MaxAttempts
              /\ IF pin_pw = "random"
                 THEN /\ displayed' = random_pw'.pw
                      /\ auth_fail_count' = (IF random_pw' = random_pw THEN auth_fail_count ELSE 0) + 1
                      /\ shows' = (IF random_pw' = random_pw THEN shows ELSE 0) + 1
                 ELSE UNCHANGED <<displayed, auth_fail_count, shows>>
         /\ UNCHANGED <<options, who, conn, register, used, alive>>
<1> DEFINE p == StillGood(KeptFor(who))
<1>1. p \in {NoPw, random_pw} /\ (p # NoPw => auth_fail_count < MaxAttempts)
  <2>1. auth_fail_count \in 0 .. Byte - 1
    BY TypeGroups DEF AuthInv, PasswordTypes
  <2> QED BY <2>1, AuthBounds DEF StillGood, KeptFor
<1>2. Password(p)
  BY DEF SetupAsks
<1> HIDE DEF p
<1> QED BY <1>1, <1>2 DEF SetupAsks, NeedsPassword, DisplayPin

-----------------------------------------------------------------------------
LEMMA PasswordsStay ==
  ASSUME AuthTypeOK, UNCHANGED <<random_pw, auth_fail_count>>, made' \in Nat, made' >= made
  PROVE  PasswordTypes'
<1>1. random_pw \in [pw : 0 .. made, for : Clients \cup {Nobody}] /\ auth_fail_count \in 0 .. Byte - 1
      /\ made \in Nat
  BY TypeGroups DEF PasswordTypes, PinTypes
<1>2. \A n \in 0 .. made : n \in 0 .. made'
  BY <1>1
<1>3. random_pw \in [pw : 0 .. made', for : Clients \cup {Nobody}]
  BY <1>1, <1>2
<1> QED BY <1>1, <1>3 DEF PasswordTypes

LEMMA ConnStays ==
  ASSUME AuthTypeOK, UNCHANGED <<who, conn>>, made' \in Nat, made' >= made
  PROVE  ConnTypes'
<1>1. conn \in Conns /\ who \in Clients \cup {Nobody} /\ made \in Nat
  BY TypeGroups DEF ConnTypes, PinTypes
<1>2. \A n \in -1 .. made : n \in -1 .. made'
  BY <1>1
<1>3. conn' \in Conns'
  BY <1>1, <1>2 DEF Conns
<1> QED BY <1>1, <1>3 DEF ConnTypes

LEMMA AuthTypesKept ==
  ASSUME AuthInv, [AuthNext]_authVars
  PROVE  AuthTypeOK'
<1>t. /\ AuthTypeOK /\ OptionTypes /\ PinTypes /\ NonceTypes /\ PasswordTypes /\ ConnTypes
      /\ RegisterTypes /\ alive \in BOOLEAN /\ made \in Nat
  BY TypeGroups DEF AuthInv, PinTypes
<1>g. /\ OptionTypes' /\ PinTypes' /\ NonceTypes' /\ PasswordTypes' /\ ConnTypes'
      /\ RegisterTypes' /\ alive' \in BOOLEAN
      => AuthTypeOK'
  BY DEF AuthTypeOK, OptionTypes, PinTypes, NonceTypes, PasswordTypes, ConnTypes, Conns,
         RegisterTypes
<1>o. UNCHANGED options => OptionTypes'
  BY <1>t DEF options, OptionTypes
<1>p. UNCHANGED pins => PinTypes' /\ made' \in Nat /\ made' >= made
  BY <1>t DEF pins, PinTypes
<1>n. UNCHANGED nonces => NonceTypes'
  BY <1>t DEF nonces, NonceTypes
<1>w. UNCHANGED passwords /\ made' \in Nat /\ made' >= made => PasswordTypes'
  BY <1>t, PasswordsStay DEF passwords
<1>c. UNCHANGED <<who, conn>> /\ made' \in Nat /\ made' >= made => ConnTypes'
  BY <1>t, ConnStays
<1>e. conn' = NewConn /\ who' \in Clients \cup {Nobody} /\ made' \in Nat => ConnTypes'
  <2>1. made' \in Nat => NewConn \in Conns'
    BY DEF NewConn, Conns, Statuses, Stages, NoSrp
  <2> QED BY <2>1 DEF ConnTypes
<1>r. UNCHANGED register => RegisterTypes'
  BY <1>t DEF register, RegisterTypes
<1>a. Connected /\ Admit => RegisterTypes'
  BY <1>t, <1>r DEF Connected, Admit, RegisterClient, RegisterTypes, ConnTypes
<1>k. conn' \in Conns' /\ who' = who => ConnTypes'
  BY <1>t DEF ConnTypes
<1>1. ASSUME NEW d \in Clients, Connect(d) PROVE AuthTypeOK'
  BY <1>1, <1>t, <1>o, <1>p, <1>n, <1>w, <1>e, <1>r, <1>g DEF Connect
<1>2. CASE Disconnect
  BY <1>2, <1>t, <1>o, <1>p, <1>n, <1>w, <1>e, <1>r, <1>g DEF Disconnect
<1>3. CASE Restart
  <2>1. OptionTypes'
    BY <1>3, <1>o DEF Restart
  <2>2. PinTypes' /\ made' = made
    BY <1>3, <1>t DEF Restart, PinTypes, AuthInv, OptionsFit
  <2>3. NonceTypes'
    BY <1>3, <1>t DEF Restart, NonceTypes, NoNumber
  <2>4. PasswordTypes'
    <3>1. NoPw \in [pw : 0 .. made, for : Clients \cup {Nobody}]
      BY <1>t DEF NoPw, NoNumber
    <3> QED BY <1>3, <2>2, <3>1, AuthBounds DEF Restart, PasswordTypes
  <2>5. ConnTypes'
    BY <1>3, <1>t, <1>e, <2>2 DEF Restart
  <2>6. RegisterTypes'
    BY <1>3, <1>t DEF Restart, RegisterTypes
  <2> QED BY <1>3, <1>t, <2>1, <2>2, <2>3, <2>4, <2>5, <2>6, <1>g DEF Restart
<1>4. CASE PairPinStart
  <2>1. PinTypes' /\ made' \in Nat /\ made' >= made
    BY <1>4, <1>t, AuthBounds DEF PairPinStart, DisplayPin, PinTypes
  <2> QED BY <1>4, <1>t, <1>o, <1>n, <1>w, <1>c, <1>r, <2>1, <1>g DEF PairPinStart
<1>5. CASE PairSetupPin1
  <2>1. PinTypes' /\ made' \in Nat /\ made' >= made
    BY <1>5, <1>t DEF PairSetupPin1, TakePin, Zeros, PinTypes
  <2> QED BY <1>5, <1>t, <1>o, <1>n, <1>w, <1>k, <1>r, <2>1, SetupPin1Conn, <1>g
          DEF PairSetupPin1
<1>6. CASE PairSetupPin2
  BY <1>6, <1>t, <1>o, <1>p, <1>n, <1>w, <1>k, <1>r, SetupPin2Conn, <1>g DEF PairSetupPin2
<1>7. CASE PairSetupPin3
  <2>1. RegisterTypes'
    BY <1>7, <1>t DEF PairSetupPin3, RegisterTypes, Connected, ConnTypes
  <2> QED BY <1>7, <1>t, <1>o, <1>p, <1>n, <1>w, <1>k, <2>1, SetupPin3Conn, <1>g
          DEF PairSetupPin3
<1>8. CASE PairSetup
  BY <1>8, <1>t, <1>o, <1>p, <1>n, <1>w, <1>k, <1>r, SetupConn, <1>g DEF PairSetup
<1>9. CASE PairVerify1
  BY <1>9, <1>t, <1>o, <1>p, <1>n, <1>w, <1>k, <1>r, Verify1Conn, <1>g DEF PairVerify1
<1>10. CASE PairVerify2
  BY <1>10, <1>t, <1>o, <1>p, <1>n, <1>w, <1>k, <1>r, Verify2Conn, <1>g DEF PairVerify2
<1>11. CASE SetupAdmitted
  BY <1>11, <1>t, <1>o, <1>p, <1>n, <1>w, <1>c, <1>a, <1>g DEF SetupAdmitted
<1>12. CASE SetupAsks
  <2>0. /\ Connected /\ Challenge /\ HasPassword
        /\ UNCHANGED <<options, who, conn, register, used, alive>>
    BY <1>12, AsksFacts
  <2>1. PICK p \in {NoPw, random_pw} :
              /\ Password(p)
              /\ p # NoPw => auth_fail_count < MaxAttempts
              /\ IF pin_pw = "random"
                 THEN /\ displayed' = random_pw'.pw
                      /\ auth_fail_count' = (IF random_pw' = random_pw THEN auth_fail_count ELSE 0) + 1
                      /\ shows' = (IF random_pw' = random_pw THEN shows ELSE 0) + 1
                 ELSE UNCHANGED <<displayed, auth_fail_count, shows>>
    BY <1>12, AsksFacts
  <2>2. /\ made' \in 0 .. MaxPins /\ made' >= made /\ pin' = pin
        /\ random_pw' \in [pw : 0 .. made', for : Clients \cup {Nobody}]
        /\ random_pw' = random_pw /\ pin_pw = "random" => p = random_pw /\ p # NoPw
    BY <2>0, <2>1, PasswordFacts
  <2>3. NonceTypes'
    BY <2>0, ChallengeFacts
  <2>4. displayed' \in 0 .. made'
    BY <1>t, <2>1, <2>2 DEF PinTypes
  <2>5. pin' \in 0 .. made'
    BY <1>t, <2>2 DEF PinTypes
  <2>6. auth_fail_count' \in 0 .. Byte - 1
    BY <1>t, <2>1, <2>2, AuthBounds DEF PasswordTypes
  <2>7. PinTypes' /\ PasswordTypes' /\ made' \in Nat
    BY <2>2, <2>4, <2>5, <2>6, AuthBounds DEF PinTypes, PasswordTypes
  <2> QED BY <1>t, <1>o, <1>c, <1>r, <2>0, <2>2, <2>3, <2>7, <1>g
<1>13. ASSUME NEW right \in BOOLEAN, SetupAnswers(right) PROVE AuthTypeOK'
  <2>1. CASE Crashes
    BY <2>1, <1>t, <1>o, <1>p, <1>n, <1>w, <1>c, <1>r, <1>g DEF Crashes
  <2>2. CASE Connected /\ Verified(who)
    <3>1. conn' \in Conns' /\ made' = made
      BY <2>2, <1>t DEF Verified, ConnTypes, Conns, pins
    <3>2. NonceTypes'
      BY <2>2, <1>t DEF Verified, NonceTypes, NoNumber
    <3>3. PasswordTypes'
      <4>1. NoPw \in [pw : 0 .. made, for : Clients \cup {Nobody}]
        BY <1>t DEF NoPw, NoNumber
      <4> QED BY <2>2, <1>t, <3>1, <4>1 DEF Verified, PasswordTypes
    <3> QED BY <2>2, <1>t, <1>o, <1>p, <1>k, <1>a, <3>1, <3>2, <3>3, <1>g DEF Verified
  <2>3. ASSUME Connected, NEW p, NEW fails, Rejected(p, fails) PROVE AuthTypeOK'
    <3>1. /\ made' \in 0 .. MaxPins /\ made' >= made /\ pin' = pin
          /\ random_pw' \in [pw : 0 .. made', for : Clients \cup {Nobody}]
      BY <2>3, PasswordFacts DEF Rejected
    <3>2. NonceTypes'
      BY <2>3, ChallengeFacts DEF Rejected
    <3>3. PinTypes' /\ made' \in Nat
      BY <2>3, <1>t, <3>1, AuthBounds DEF Rejected, PinTypes
    <3>4. PasswordTypes'
      BY <2>3, <3>1 DEF Rejected, PasswordTypes
    <3> QED BY <2>3, <1>t, <1>o, <1>c, <1>r, <3>1, <3>2, <3>3, <3>4, <1>g DEF Rejected
  <2> QED BY <1>13, <2>1, <2>2, <2>3, AnswerCases
<1>14. CASE UNCHANGED authVars
  BY <1>14, <1>t, <1>o, <1>p, <1>n, <1>w, <1>c, <1>r, <1>g DEF authVars
<1> QED BY <1>1, <1>2, <1>3, <1>4, <1>5, <1>6, <1>7, <1>8, <1>9, <1>10, <1>11, <1>12, <1>13, <1>14
        DEF AuthNext

-----------------------------------------------------------------------------
(* What a step does to the numbers, whichever it is.                       *)
AsksWith(p) == /\ Password(p)
               /\ p # NoPw => auth_fail_count < MaxAttempts
               /\ IF pin_pw = "random"
                  THEN /\ displayed' = random_pw'.pw
                       /\ auth_fail_count' = (IF random_pw' = random_pw THEN auth_fail_count ELSE 0) + 1
                       /\ shows' = (IF random_pw' = random_pw THEN shows ELSE 0) + 1
                  ELSE UNCHANGED <<displayed, auth_fail_count, shows>>

LEMMA OptionsKept ==
  ASSUME AuthInv, [AuthNext]_authVars
  PROVE  OptionsFit' /\ options' = options
<1>0. /\ OptionsFit /\ made \in Nat /\ issued \in Nat
  BY TypeGroups DEF AuthInv, PinTypes, NonceTypes
<1>q. options' = options /\ made' >= made /\ (~checked => issued' <= 1) /\ made' \in Nat
      => OptionsFit'
  BY <1>0 DEF OptionsFit, options
<1>1. ASSUME NEW d \in Clients, Connect(d) PROVE OptionsFit' /\ options' = options
  BY <1>1, <1>0, <1>q DEF Connect, pins, nonces, OptionsFit
<1>2. CASE Disconnect \/ PairSetupPin2 \/ PairSetupPin3
  BY <1>2, <1>0, <1>q DEF Disconnect, PairSetupPin2, PairSetupPin3, pins, nonces, OptionsFit
<1>8. CASE Restart
  BY <1>8, <1>0, <1>q DEF Restart, OptionsFit
<1>9. CASE PairSetupPin1
  BY <1>9, <1>0, <1>q DEF PairSetupPin1, nonces, OptionsFit
<1>3. CASE PairPinStart
  BY <1>3, <1>0, <1>q DEF PairPinStart, nonces, OptionsFit
<1>4. CASE PairSetup \/ PairVerify1 \/ PairVerify2 \/ SetupAdmitted
  BY <1>4, <1>0, <1>q DEF PairSetup, PairVerify1, PairVerify2, SetupAdmitted, pins, nonces, OptionsFit
<1>5. CASE SetupAsks
  BY <1>5, <1>0, <1>q, AsksFacts, PasswordFacts, ChallengeFacts DEF OptionsFit
<1>6. ASSUME NEW right \in BOOLEAN, SetupAnswers(right) PROVE OptionsFit' /\ options' = options
  <2>1. CASE Crashes \/ Verified(who)
    BY <2>1, <1>0, <1>q DEF Crashes, Verified, pins, nonces, OptionsFit
  <2>2. ASSUME Connected, NEW p, NEW fails, Rejected(p, fails)
        PROVE  OptionsFit' /\ options' = options
    BY <2>2, <1>0, <1>q, PasswordFacts, ChallengeFacts DEF Rejected, OptionsFit
  <2> QED BY <1>6, <2>1, <2>2, AnswerCases
<1>7. CASE UNCHANGED authVars
  BY <1>7, <1>0, <1>q DEF authVars, pins, nonces, OptionsFit
<1> QED BY <1>1, <1>2, <1>3, <1>4, <1>5, <1>6, <1>7, <1>8, <1>9 DEF AuthNext

LEMMA HeldKept ==
  ASSUME AuthInv, [AuthNext]_authVars
  PROVE  Held'
<1>0. Held /\ AuthTypeOK
  BY DEF AuthInv
<1>o. options' = options
  BY OptionsKept
<1>h. HasPassword' = HasPassword /\ pin_pw' = pin_pw
  BY <1>o DEF HasPassword, options
<1>f. /\ UNCHANGED <<nonce, random_pw, saved, registered>>
      /\ (who' = who /\ who # Nobody) \/ who' # Nobody \/ conn' = NewConn \/ UNCHANGED <<who, conn>>
      => Held'
  BY <1>0, <1>h DEF Held
<1>r. Admit => saved' \subseteq registered'
  BY <1>0 DEF Held, Admit, RegisterClient, register
<1>1. ASSUME NEW d \in Clients, Connect(d) PROVE Held'
  BY <1>1, <1>f, NobodyAssumption DEF Connect, nonces, passwords, register
<1>2. CASE Disconnect
  BY <1>2, <1>f DEF Disconnect, nonces, passwords, register
<1>3. CASE Restart
  BY <1>3, <1>0, <1>h DEF Restart, Held
<1>4. CASE PairPinStart \/ PairSetupPin1 \/ PairSetupPin2 \/ PairSetupPin3
  BY <1>4, <1>f DEF PairPinStart, PairSetupPin1, PairSetupPin2, PairSetupPin3, Connected,
                    nonces, passwords, register
<1>5. CASE PairSetup \/ PairVerify1 \/ PairVerify2
  BY <1>5, <1>f DEF PairSetup, PairVerify1, PairVerify2, Connected, nonces, passwords, register
<1>6. CASE SetupAdmitted
  BY <1>6, <1>0, <1>h, <1>r DEF SetupAdmitted, Connected, Held, nonces, passwords
<1>7. CASE SetupAsks
  <2>0. /\ Connected /\ HasPassword /\ UNCHANGED <<who, conn, register>>
    BY <1>7, AsksFacts
  <2>1. PICK p \in {NoPw, random_pw} : Password(p)
    BY <1>7, AsksFacts
  <2>2. random_pw' # NoPw => pin_pw = "random"
    BY <1>0, <2>0, <2>1, PasswordFacts DEF Held, HasPassword
  <2> QED BY <1>0, <1>h, <2>0, <2>2 DEF Held, register, Connected
<1>8. ASSUME NEW right \in BOOLEAN, SetupAnswers(right) PROVE Held'
  <2>h. HasPassword
    BY <1>8 DEF SetupAnswers, NeedsPassword
  <2>1. CASE Crashes
    BY <2>1, <1>f DEF Crashes, nonces, passwords, register
  <2>2. CASE Connected /\ Verified(who)
    BY <2>2, <1>0, <1>h, <1>r DEF Verified, Held, Connected
  <2>3. ASSUME Connected, NEW p, NEW fails, Rejected(p, fails) PROVE Held'
    <3>1. random_pw' # NoPw => pin_pw = "random"
      BY <1>0, <2>h, <2>3, PasswordFacts DEF Held, HasPassword, Rejected
    <3> QED BY <1>0, <1>h, <2>h, <2>3, <3>1 DEF Held, Rejected, register, Connected
  <2> QED BY <1>8, <2>1, <2>2, <2>3, AnswerCases
<1>9. CASE UNCHANGED authVars
  BY <1>9, <1>f DEF authVars, nonces, passwords, register
<1> QED BY <1>1, <1>2, <1>3, <1>4, <1>5, <1>6, <1>7, <1>8, <1>9 DEF AuthNext

LEMMA CountsKept ==
  ASSUME AuthInv, [AuthNext]_authVars
  PROVE  DisplaysAreCounted'
<1>0. DisplaysAreCounted /\ AuthTypeOK /\ Held /\ auth_fail_count \in 0 .. Byte - 1
  BY TypeGroups DEF AuthInv, PasswordTypes
<1>f. UNCHANGED passwords => DisplaysAreCounted'
  BY <1>0 DEF DisplaysAreCounted, passwords
<1>1. ASSUME NEW d \in Clients, Connect(d) PROVE DisplaysAreCounted'
  BY <1>1, <1>f DEF Connect
<1>2. CASE Disconnect \/ PairPinStart \/ PairSetupPin1 \/ PairSetupPin2 \/ PairSetupPin3
  BY <1>2, <1>f DEF Disconnect, PairPinStart, PairSetupPin1, PairSetupPin2, PairSetupPin3
<1>3. CASE Restart
  BY <1>3 DEF Restart, DisplaysAreCounted
<1>5. CASE PairSetup \/ PairVerify1 \/ PairVerify2 \/ SetupAdmitted
  BY <1>5, <1>f DEF PairSetup, PairVerify1, PairVerify2, SetupAdmitted
<1>7. CASE SetupAsks
  <2>0. Connected
    BY <1>7, AsksFacts
  <2>1. PICK p \in {NoPw, random_pw} : AsksWith(p)
    BY <1>7, AsksFacts DEF AsksWith
  <2>2. /\ \/ random_pw' = p
           \/ random_pw' # random_pw
        /\ random_pw' # NoPw => \/ random_pw' = p /\ p = random_pw
                                \/ random_pw' # random_pw
    BY <2>0, <2>1, PasswordFacts DEF AsksWith
  <2>3. random_pw' # NoPw => pin_pw = "random"
    BY <1>0, <1>7, <2>0, <2>1, PasswordFacts DEF Held, AsksWith, SetupAsks, NeedsPassword, HasPassword
  <2>4. CASE random_pw' # NoPw /\ random_pw' = random_pw
    <3>1. /\ auth_fail_count' = auth_fail_count + 1 /\ shows' = shows + 1
          /\ auth_fail_count < MaxAttempts /\ auth_fail_count = shows
      BY <1>0, <2>1, <2>2, <2>3, <2>4 DEF AsksWith, DisplaysAreCounted
    <3> QED BY <1>0, <3>1, AuthBounds DEF DisplaysAreCounted
  <2>5. CASE random_pw' # NoPw /\ random_pw' # random_pw
    <3>1. auth_fail_count' = 1 /\ shows' = 1
      BY <2>1, <2>3, <2>5 DEF AsksWith
    <3> QED BY <3>1, AuthBounds DEF DisplaysAreCounted
  <2>6. CASE random_pw' = NoPw
    BY <2>6 DEF DisplaysAreCounted
  <2> QED BY <2>4, <2>5, <2>6
<1>8. ASSUME NEW right \in BOOLEAN, SetupAnswers(right) PROVE DisplaysAreCounted'
  <2>1. CASE Crashes
    BY <2>1, <1>f DEF Crashes
  <2>2. CASE Verified(who)
    BY <2>2 DEF Verified, DisplaysAreCounted
  <2>3. ASSUME Connected, NEW p, NEW fails, Rejected(p, fails) PROVE DisplaysAreCounted'
    <3>1. random_pw' # NoPw => pin_pw = "random"
      BY <1>0, <1>8, <2>3, PasswordFacts DEF Held, HasPassword, Rejected, SetupAnswers, NeedsPassword
    <3>2. /\ auth_fail_count' = fails /\ shows' = (IF random_pw' = random_pw THEN shows ELSE 0)
          /\ pin_pw = "random" => fails = (IF p = NoPw THEN 0 ELSE auth_fail_count)
      BY <2>3 DEF Rejected
    <3>3. \/ random_pw' = p /\ (pin_pw = "password" \/ p # NoPw) /\ p \in {NoPw, random_pw}
          \/ random_pw' # random_pw /\ p = NoPw
      BY <2>3, PasswordFacts DEF Rejected
    <3>4. CASE random_pw' = NoPw
      BY <3>4 DEF DisplaysAreCounted
    <3>5. CASE random_pw' # NoPw /\ random_pw' = random_pw
      BY <1>0, <3>1, <3>2, <3>3, <3>5 DEF DisplaysAreCounted
    <3>6. CASE random_pw' # NoPw /\ random_pw' # random_pw
      <4>1. auth_fail_count' = 0 /\ shows' = 0
        BY <3>1, <3>2, <3>3, <3>6
      <4> QED BY <4>1, AuthBounds DEF DisplaysAreCounted
    <3> QED BY <3>4, <3>5, <3>6
  <2> QED BY <1>8, <2>1, <2>2, <2>3, AnswerCases
<1>9. CASE UNCHANGED authVars
  BY <1>9, <1>f DEF authVars
<1> QED BY <1>1, <1>2, <1>3, <1>5, <1>7, <1>8, <1>9 DEF AuthNext

LEMMA PairedKept ==
  ASSUME AuthInv, [AuthNext]_authVars
  PROVE  PairedHere'
<1>0. PairedHere /\ AuthTypeOK /\ OptionsFit
  BY DEF AuthInv
<1>o. listed' = listed
  BY OptionsKept DEF options
<1>f. UNCHANGED <<who, conn, register>> => PairedHere'
  BY <1>0, <1>o DEF PairedHere, register
<1>e. conn' = NewConn /\ registered' \in {registered, saved} /\ paired' = paired => PairedHere'
  BY <1>0, <1>o, NewConnFacts DEF PairedHere, AuthInv, Held
<1>a. /\ Admit /\ who' = who
      /\ conn'.stage = conn.stage /\ conn'.srp = conn.srp
      /\ conn'.status = conn.status /\ conn'.pair_setup = conn.pair_setup
      => PairedHere'
  <2>1. Admit => /\ registered \subseteq registered' /\ registered' \subseteq paired
                 /\ paired' = paired
    BY <1>0 DEF Admit, RegisterClient, register, PairedHere
  <2> QED BY <1>0, <1>o, <2>1 DEF PairedHere
<1>1. ASSUME NEW d \in Clients, Connect(d) PROVE PairedHere'
  BY <1>1, <1>e DEF Connect, register
<1>2. CASE Disconnect
  BY <1>2, <1>e DEF Disconnect, register
<1>3. CASE Restart
  BY <1>3, <1>e DEF Restart
<1>4. CASE PairPinStart
  BY <1>4, <1>f DEF PairPinStart
<1>5. CASE PairSetupPin1
  BY <1>5, <1>0, <1>o, SetupPin1Conn DEF PairSetupPin1, register, ConnIs, PairedHere
<1>6. CASE PairSetupPin2
  BY <1>6, <1>0, <1>o, SetupPin2Conn DEF PairSetupPin2, register, ConnIs, PairedHere
<1>7. CASE PairSetupPin3
  BY <1>7, <1>0, <1>o, SetupPin3Conn DEF PairSetupPin3, ConnIs, PairedHere
<1>8. CASE PairSetup
  BY <1>8, <1>0, <1>o, SetupConn DEF PairSetup, register, ConnIs, PairedHere, OptionsFit
<1>9. CASE PairVerify1
  <2>1. UNCHANGED <<who, register>>
    BY <1>9 DEF PairVerify1
  <2>2. CASE conn' = conn
    BY <2>1, <2>2, <1>f
  <2>3. CASE conn'.stage \in {"verifying", "new"} /\ conn'.pair_setup = conn.pair_setup
    BY <1>0, <2>1, <2>3 DEF register, PairedHere
  <2> QED BY <1>9, <2>2, <2>3, Verify1Conn DEF ConnIs
<1>10. CASE PairVerify2
  BY <1>10, <1>0, <1>o, Verify2Conn DEF PairVerify2, register, ConnIs, PairedHere
<1>11. CASE SetupAdmitted
  BY <1>11, <1>a DEF SetupAdmitted
<1>12. CASE SetupAsks
  BY <1>12, <1>f, AsksFacts
<1>13. ASSUME NEW right \in BOOLEAN, SetupAnswers(right) PROVE PairedHere'
  <2>1. CASE Crashes
    BY <2>1, <1>f DEF Crashes
  <2>2. CASE Verified(who)
    <3>1. conn \in Conns
      BY <1>0, TypeGroups DEF ConnTypes
    <3>2. /\ conn'.stage = conn.stage /\ conn'.srp = conn.srp
          /\ conn'.status = conn.status /\ conn'.pair_setup = conn.pair_setup
      BY <2>2, <3>1 DEF Verified, Conns
    <3> QED BY <2>2, <3>2, <1>a DEF Verified
  <2>3. ASSUME NEW p, NEW fails, Rejected(p, fails) PROVE PairedHere'
    BY <2>3, <1>f DEF Rejected
  <2> QED BY <1>13, <2>1, <2>2, <2>3, AnswerCases
<1>14. CASE UNCHANGED authVars
  BY <1>14, <1>f DEF authVars
<1> QED BY <1>1, <1>2, <1>3, <1>4, <1>5, <1>6, <1>7, <1>8, <1>9, <1>10, <1>11, <1>12, <1>13, <1>14
        DEF AuthNext

LEMMA PinsKept ==
  ASSUME AuthInv, [AuthNext]_authVars
  PROVE  PinsAreSpent'
<1>0. /\ PinsAreSpent /\ AuthTypeOK /\ OptionsFit /\ PairedHere /\ conn \in Conns
      /\ made \in Nat /\ pin \in 0 .. made /\ conn.srp \in -1 .. made
  BY TypeGroups DEF AuthInv, ConnTypes, PinTypes, Conns
<1>o. fixed' = fixed
  BY OptionsKept DEF options
<1>s. ASSUME UNCHANGED <<used, pin>>, made' \in Nat, made' >= made,
             conn'.srp = conn.srp \/ conn'.srp = NoSrp
      PROVE  PinsAreSpent'
  BY <1>0, <1>o, <1>s DEF PinsAreSpent, NoSrp
<1>1. ASSUME NEW d \in Clients, Connect(d) PROVE PinsAreSpent'
  BY <1>1, <1>0, <1>s, NewConnFacts DEF Connect, pins
<1>2. CASE Disconnect
  BY <1>2, <1>0, <1>s, NewConnFacts DEF Disconnect, pins
<1>3. CASE Restart
  BY <1>3, <1>0, <1>o, NewConnFacts DEF Restart, PinsAreSpent, NoSrp
<1>4. CASE PairPinStart
  <2>1. UNCHANGED <<used, conn>> /\ (UNCHANGED <<pin, made>> \/ (made' = made + 1 /\ pin' = made'))
    BY <1>4 DEF PairPinStart
  <2>2. CASE UNCHANGED <<pin, made>>
    BY <1>0, <1>s, <2>1, <2>2
  <2>3. CASE made' = made + 1 /\ pin' = made'
    <3>1. made' \in Nat /\ made' > made /\ pin' \in Nat
      BY <1>0, <2>3
    <3>2. UsePin(made') \notin used
      BY <1>0, <3>1 DEF PinsAreSpent
    <3> QED BY <1>0, <1>o, <2>1, <2>3, <3>1, <3>2 DEF PinsAreSpent
  <2> QED BY <2>1, <2>2, <2>3
<1>5. CASE PairSetupPin1
  <2>1. UNCHANGED <<used, made>> /\ (~fixed => pin' = 0) /\ (conn'.srp = pin \/ conn'.srp = NoSrp)
    BY <1>5, SetupPin1Conn DEF PairSetupPin1, ConnIs, TakePin, Zeros
  <2> QED BY <1>0, <1>o, <2>1 DEF PinsAreSpent, NoSrp
<1>6. CASE PairSetupPin2
  BY <1>6, <1>0, <1>s, SetupPin2Conn DEF PairSetupPin2, ConnIs, pins
<1>7. CASE PairSetupPin3
  <2>1. /\ UNCHANGED <<pin, made>> /\ used' = used \cup {UsePin(conn.srp)} /\ conn'.srp = NoSrp
        /\ conn.srp >= 0
    BY <1>7, <1>0, SetupPin3Conn DEF PairSetupPin3, ConnIs, pins, PairedHere
  <2> QED BY <1>0, <1>o, <2>1, KindsDiffer DEF PinsAreSpent, NoSrp
<1>8. CASE PairSetup
  BY <1>8, <1>0, <1>s, SetupConn DEF PairSetup, ConnIs, pins
<1>9. CASE PairVerify1
  BY <1>9, <1>0, <1>s, Verify1Conn DEF PairVerify1, ConnIs, pins
<1>10. CASE PairVerify2
  BY <1>10, <1>0, <1>s, Verify2Conn DEF PairVerify2, ConnIs, pins
<1>11. CASE SetupAdmitted
  BY <1>11, <1>0, <1>s DEF SetupAdmitted, pins
<1>12. CASE SetupAsks
  <2>1. PICK p \in {NoPw, random_pw} : Password(p)
    BY <1>12, AsksFacts
  <2>2. Connected /\ UNCHANGED <<conn, used>>
    BY <1>12, AsksFacts
  <2>3. made' \in Nat /\ made' >= made /\ pin' = pin
    BY <2>1, <2>2, PasswordFacts
  <2> QED BY <2>2, <2>3, <1>s
<1>13. ASSUME NEW right \in BOOLEAN, SetupAnswers(right) PROVE PinsAreSpent'
  <2>1. CASE Crashes
    BY <2>1, <1>0, <1>s DEF Crashes, pins
  <2>2. CASE Verified(who)
    <3>1. conn'.srp = conn.srp
      BY <2>2, <1>0 DEF Verified, Conns
    <3>2. UNCHANGED <<pin, made>> /\ used' = used \cup {Use(known[who])}
      BY <2>2 DEF Verified, pins
    <3>3. \A n : UsePin(n) \in used' <=> UsePin(n) \in used
      BY <3>2, KindsDiffer
    <3> QED BY <1>0, <1>o, <3>1, <3>2, <3>3 DEF PinsAreSpent
  <2>3. ASSUME Connected, NEW p, NEW fails, Rejected(p, fails) PROVE PinsAreSpent'
    <3>1. UNCHANGED <<conn, used>>
      BY <2>3 DEF Rejected
    <3>2. made' \in Nat /\ made' >= made /\ pin' = pin
      BY <2>3, PasswordFacts DEF Rejected
    <3> QED BY <3>1, <3>2, <1>s
  <2> QED BY <1>13, <2>1, <2>2, <2>3, AnswerCases
<1>14. CASE UNCHANGED authVars
  BY <1>14, <1>0, <1>s DEF authVars, pins
<1> QED BY <1>1, <1>2, <1>3, <1>4, <1>5, <1>6, <1>7, <1>8, <1>9, <1>10, <1>11, <1>12, <1>13, <1>14
        DEF AuthNext

LEMMA NoncesKept ==
  ASSUME AuthInv, [AuthNext]_authVars
  PROVE  NoncesAreSpent'
<1>0. NoncesAreSpent /\ AuthTypeOK /\ issued \in Nat /\ nonce \in 0 .. issued
      /\ (who \in Clients => known[who] \in 0 .. issued)
  BY TypeGroups DEF AuthInv, NonceTypes
<1>o. checked' = checked
  BY OptionsKept DEF options
<1>f. UNCHANGED <<nonces, used>> => NoncesAreSpent'
  BY <1>0, <1>o DEF NoncesAreSpent, nonces
<1>c. Challenge /\ Connected /\ UNCHANGED used => NoncesAreSpent'
  <2> SUFFICES ASSUME Challenge, Connected, UNCHANGED used PROVE NoncesAreSpent'
    OBVIOUS
  <2>1. /\ issued' \in Nat /\ nonce' = issued' /\ issued' >= issued
        /\ checked => issued' = issued + 1
    BY ChallengeFacts DEF NonceTypes
  <2> QED BY <1>0, <1>o, <2>1 DEF NoncesAreSpent
<1>1. ASSUME NEW d \in Clients, Connect(d) PROVE NoncesAreSpent'
  BY <1>1, <1>f DEF Connect
<1>2. CASE Disconnect \/ PairPinStart \/ PairSetupPin1 \/ PairSetupPin2
  BY <1>2, <1>f DEF Disconnect, PairPinStart, PairSetupPin1, PairSetupPin2
<1>3. CASE Restart
  BY <1>3, <1>0, <1>o DEF Restart, NoncesAreSpent, NoNumber
<1>4. CASE PairSetupPin3
  <2>1. UNCHANGED nonces /\ \A n : Use(n) \in used' <=> Use(n) \in used
    BY <1>4, KindsDiffer DEF PairSetupPin3
  <2> QED BY <1>0, <1>o, <2>1 DEF NoncesAreSpent, nonces
<1>5. CASE PairSetup \/ PairVerify1 \/ PairVerify2 \/ SetupAdmitted
  BY <1>5, <1>f DEF PairSetup, PairVerify1, PairVerify2, SetupAdmitted
<1>6. CASE SetupAsks
  BY <1>6, <1>c, AsksFacts
<1>7. ASSUME NEW right \in BOOLEAN, SetupAnswers(right) PROVE NoncesAreSpent'
  <2>1. CASE Crashes
    BY <2>1, <1>f DEF Crashes
  <2>2. CASE Connected /\ Verified(who)
    <3>1. /\ nonce' = 0 /\ issued' = issued /\ used' = used \cup {Use(nonce)}
      BY <2>2 DEF Verified, NoNumber
    <3> QED BY <1>0, <1>o, <3>1, KindsDiffer DEF NoncesAreSpent
  <2>3. ASSUME Connected, NEW p, NEW fails, Rejected(p, fails) PROVE NoncesAreSpent'
    BY <2>3, <1>c DEF Rejected
  <2> QED BY <1>7, <2>1, <2>2, <2>3, AnswerCases
<1>8. CASE UNCHANGED authVars
  BY <1>8, <1>f DEF authVars
<1> QED BY <1>1, <1>2, <1>3, <1>4, <1>5, <1>6, <1>7, <1>8 DEF AuthNext

LEMMA AuthStep == AuthInv /\ [AuthNext]_authVars => AuthInv'
BY AuthTypesKept, OptionsKept, HeldKept, CountsKept, PairedKept, PinsKept, NoncesKept
   DEF AuthInv

LEMMA AuthInvariance == AuthSpec => []AuthInv
<1>1. AuthInit => AuthInv
  BY AuthInitInv
<1>2. AuthInv /\ [AuthNext]_authVars => AuthInv'
  BY AuthStep
<1> QED BY <1>1, <1>2, PTL DEF AuthSpec

-----------------------------------------------------------------------------
(* What the receiver keeps for all clients at once is true of each: who is *)
(* in the register has paired with a PIN, the file is never ahead of it,   *)
(* and the count of a random password's displays is their number, MaxAttempts *)
(* at most (pairing.c and the pair-* and SETUP handlers of raop_handlers.h). *)
THEOREM AccountsAreKept == AuthSpec => []AccountsAreTrue
BY AuthInvariance, InvAccounts, PTL

LEMMA PinStep ==
  ASSUME AuthInv, [AuthNext]_authVars, NEW c \in Clients,
         c \in paired', conn'.pair_setup, ~conn.pair_setup
  PROVE  fixed \/ conn.srp = Zeros \/ UsePin(conn.srp) \notin used
<1>0. PinsAreSpent /\ PairedHere /\ conn \in Conns
  BY TypeGroups DEF AuthInv, ConnTypes
<1>s. conn'.pair_setup # conn.pair_setup /\ conn' # conn /\ conn' # NewConn
  BY NewConnFacts
<1>1. ASSUME NEW d \in Clients, Connect(d) PROVE FALSE
  BY <1>1, <1>s DEF Connect
<1>2. CASE Disconnect \/ Restart \/ PairPinStart
  BY <1>2, <1>s DEF Disconnect, Restart, PairPinStart
<1>3. CASE PairSetupPin1
  BY <1>3, <1>s, SetupPin1Conn DEF ConnIs
<1>4. CASE PairSetupPin2
  BY <1>4, <1>s, SetupPin2Conn DEF ConnIs
<1>5. CASE PairSetupPin3
  <2>1. conn.srp >= 0 /\ conn.srp \in Int
    BY <1>0, <1>5 DEF PairSetupPin3, PairedHere, Conns
  <2> QED BY <1>0, <2>1 DEF PinsAreSpent, Zeros
<1>6. CASE PairSetup
  BY <1>6, <1>s, SetupConn DEF ConnIs
<1>7. CASE PairVerify1
  BY <1>7, <1>s, Verify1Conn DEF ConnIs
<1>8. CASE PairVerify2
  BY <1>8, <1>s, Verify2Conn DEF ConnIs
<1>9. CASE SetupAdmitted
  BY <1>9, <1>s DEF SetupAdmitted
<1>10. CASE SetupAsks
  BY <1>10, <1>s, AsksFacts
<1>11. ASSUME NEW right \in BOOLEAN, SetupAnswers(right) PROVE FALSE
  <2>1. CASE Crashes
    BY <2>1, <1>s DEF Crashes
  <2>2. CASE Verified(who)
    <3>1. conn'.pair_setup = conn.pair_setup
      BY <2>2, <1>0 DEF Verified, Conns
    <3> QED BY <3>1, <1>s
  <2>3. ASSUME NEW p, NEW fails, Rejected(p, fails) PROVE FALSE
    BY <2>3, <1>s DEF Rejected
  <2> QED BY <1>11, <2>1, <2>2, <2>3, AnswerCases
<1>12. CASE UNCHANGED authVars
  BY <1>12, <1>s DEF authVars
<1> QED BY <1>1, <1>2, <1>3, <1>4, <1>5, <1>6, <1>7, <1>8, <1>9, <1>10, <1>11, <1>12 DEF AuthNext

LEMMA NonceStep ==
  ASSUME AuthInv, [AuthNext]_authVars, conn'.authenticated, ~conn.authenticated
  PROVE  known[who] = nonce /\ (checked => Use(nonce) \notin used)
<1>0. NoncesAreSpent /\ conn \in Conns
  BY TypeGroups DEF AuthInv, ConnTypes
<1>s. conn'.authenticated # conn.authenticated /\ conn' # conn /\ conn' # NewConn
  BY NewConnFacts
<1>1. ASSUME NEW d \in Clients, Connect(d) PROVE FALSE
  BY <1>1, <1>s DEF Connect
<1>2. CASE Disconnect \/ Restart \/ PairPinStart
  BY <1>2, <1>s DEF Disconnect, Restart, PairPinStart
<1>3. CASE PairSetupPin1
  BY <1>3, <1>s, SetupPin1Conn DEF ConnIs
<1>4. CASE PairSetupPin2
  BY <1>4, <1>s, SetupPin2Conn DEF ConnIs
<1>5. CASE PairSetupPin3
  BY <1>5, <1>s, SetupPin3Conn DEF ConnIs
<1>6. CASE PairSetup
  BY <1>6, <1>s, SetupConn DEF ConnIs
<1>7. CASE PairVerify1
  BY <1>7, <1>s, Verify1Conn DEF ConnIs
<1>8. CASE PairVerify2
  BY <1>8, <1>s, Verify2Conn DEF ConnIs
<1>9. CASE SetupAdmitted
  BY <1>9, <1>s DEF SetupAdmitted
<1>10. CASE SetupAsks
  BY <1>10, <1>s, AsksFacts
<1>11. ASSUME NEW right \in BOOLEAN, SetupAnswers(right)
       PROVE  known[who] = nonce /\ (checked => Use(nonce) \notin used)
  <2>1. CASE Crashes
    BY <2>1, <1>s DEF Crashes
  <2>2. CASE Verified(who)
    BY <2>2, <1>0 DEF Verified, NoncesAreSpent, NoNumber
  <2>3. ASSUME NEW p, NEW fails, Rejected(p, fails) PROVE FALSE
    BY <2>3, <1>s DEF Rejected
  <2> QED BY <1>11, <2>1, <2>2, <2>3, AnswerCases
<1>12. CASE UNCHANGED authVars
  BY <1>12, <1>s DEF authVars
<1> QED BY <1>1, <1>2, <1>3, <1>4, <1>5, <1>6, <1>7, <1>8, <1>9, <1>10, <1>11, <1>12 DEF AuthNext

(* A PIN made for one display pairs one client once, and an answer lets in the *)
(* client whose challenge it answers and, where nonces are made, once (the *)
(* handlers of pair-setup-pin, and of SETUP with its digest).  The four    *)
(* zeros that stand for no PIN are excepted.                               *)
THEOREM CredentialsAreSpent == AuthSpec => CredentialsWorkOnce
<1>1. AuthInv /\ [AuthNext]_authVars
      => [\A c \in Clients : c \in paired' /\ conn'.pair_setup /\ ~conn.pair_setup
            => fixed \/ conn.srp = Zeros \/ UsePin(conn.srp) \notin used]_authVars
  BY PinStep
<1>2. AuthInv /\ [AuthNext]_authVars
      => [conn'.authenticated /\ ~conn.authenticated
            => /\ known[who] = nonce
               /\ checked => Use(nonce) \notin used]_authVars
  BY NonceStep
<1> QED BY <1>1, <1>2, AuthInvariance, PTL DEF AuthSpec, CredentialsWorkOnce, PinPairsOnce, NonceAdmitsOnce
=============================================================================
