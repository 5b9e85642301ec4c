---------------------------- MODULE Advertisement ----------------------------
(***************************************************************************)
(* How devices find this computer (libxmirror/lib/dnssd.c, and what        *)
(* xmirror.cpp makes of it): the engine registers two services, RAOP and   *)
(* AirPlay, with Bonjour, each with a TXT record and the port its server   *)
(* listens on, and answers /info from the same data.  The window offers to *)
(* install Bonjour when it is absent (mainwindow.cpp, mdns_responder.cpp). *)
(*                                                                         *)
(* The engine's thread, the server's thread, Bonjour's own process and the *)
(* devices are four parties: the server listens before it has its data,    *)
(* Bonjour comes and goes without a word to the engine, and a device asks  *)
(* when it likes, with what it found at any time.                          *)
(***************************************************************************)
EXTENDS Integers

CONSTANTS Addresses,  \* the ports the system may give the server, positive
          Modes,      \* the options of a start that matter here
          MaxServed   \* starts of the engine: a bound
ASSUME AddressAssumption == Addresses \subseteq Nat \ {0} /\ MaxServed \in Nat
ASSUME ModeAssumption ==
  Modes \subseteq [hls : BOOLEAN, hevc : BOOLEAN, pin_pw : 0..3, ble : BOOLEAN] /\ Modes # {}

Services == {"raop", "airplay"}
NoAddress == 0
NoTxt == [features |-> {}, pw |-> FALSE]  \* a record that was not made yet
Freed == [features |-> {-1}, pw |-> FALSE]
Crash == [features |-> {-2}, pw |-> FALSE]
NoRecord ==               \* dnssd is NULL
  [features |-> {}, pin_pw |-> 0, pk |-> FALSE, names |-> "none",
   record |-> [s \in Services |-> NoTxt], service |-> [s \in Services |-> FALSE]]
Nowhere == [service |-> "none", port |-> NoAddress, txt |-> NoTxt, start |-> 0]

VARIABLES bonjour,        \* the service: "absent", "stopped" or "running"
          asked, missing, \* the window has looked for it; m_bonjourMissing
          step,           \* where run_xmirror is
          mode,           \* its options
          dnssd,
          raop,           \* is it there, its port, and does it know dnssd?
          onAir,          \* what Bonjour tells devices
          found,          \* what a device found last
          answer,         \* and what it was told
          starts, killed  \* history: of the engine's thread

engineState == <<step, mode, dnssd, raop, starts, killed>>
window == <<asked, missing>>
device == <<found, answer>>
adVars == <<bonjour, window, engineState, onAir, device>>

NoServer == [up |-> FALSE, port |-> NoAddress, dnssd |-> FALSE]
NoAnswer == [to |-> Nowhere, kind |-> "none", got |-> NoTxt]

-----------------------------------------------------------------------------
(* dnssd_set_airplay_features: one bit of the sixty-four.                  *)
SetFeature(features, bit, on) == IF on THEN features \union {bit} ELSE features \ {bit}

(* The bits start_dnssd sets, and those it sets as the options say: HLS is *)
(* 0 and 4, H.265 is 42, and 27 has clients pair with a PIN.               *)
AlwaysOn == {1, 2, 5, 6, 7, 25, 28, 30} \union 9..22
Features(m) ==
  LET hls == SetFeature(SetFeature(AlwaysOn, 0, m.hls), 4, m.hls)
  IN SetFeature(SetFeature(hls, 42, m.hevc), 27, m.pin_pw = 1)

(* What a record says: the features, and whether there is a PIN or a       *)
(* password.  (It also says "sf" and "flags", the same in every mode.)     *)
Txt(d) == [features |-> d.features, pw |-> d.pin_pw # 0]

(* dnssd_init: the library may be missing.                                 *)
InitRecord(m) ==
  [NoRecord EXCEPT !.features = AlwaysOn, !.pin_pw = m.pin_pw, !.names = "held"]

StartServing ==
  /\ step = "off" /\ starts < MaxServed
  /\ step' = "start" /\ starts' = starts + 1
  /\ mode' \in Modes
  /\ UNCHANGED <<dnssd, raop, killed>>

(* A record that is still there is refused.                                *)
StartDnssd ==
  /\ step = "start"
  /\ \/ step' = "off" /\ UNCHANGED dnssd
     \/ /\ dnssd = NoRecord /\ step' = "dnssd"
        /\ dnssd' = [InitRecord(mode) EXCEPT !.features = Features(mode)]
  /\ UNCHANGED <<mode, raop, starts, killed, bonjour, window, onAir, device>>

(* netutils_init_socket: the port that is asked for, or any.               *)
Bind(port) == IF port = NoAddress THEN Addresses ELSE {port}

(* start_raop_server: raop_init2, then the server, whose failure to listen *)
(* goes unnoticed.                                                         *)
StartRaopServer ==
  /\ step = "dnssd"
  /\ \/ step' = "unserved" /\ UNCHANGED raop
     \/ /\ step' = "listening"
        /\ raop' \in [up : {TRUE}, port : Bind(NoAddress) \union {NoAddress}, dnssd : {FALSE}]
  /\ UNCHANGED <<mode, dnssd, starts, killed, bonjour, window, onAir, device>>

(* raop_set_dnssd: each gets what it needs of the other.                   *)
SetDnssd ==
  /\ step = "listening"
  /\ raop' = [raop EXCEPT !.dnssd = TRUE]
  /\ dnssd' = [dnssd EXCEPT !.pk = TRUE]
  /\ step' = "raop"
  /\ UNCHANGED <<mode, starts, killed, bonjour, window, onAir, device>>

(* dnssd_register_raop and dnssd_register_airplay: the record is made,     *)
(* then Bonjour is asked, which may refuse and does when it is not there.  *)
Register(s, ok) ==
  /\ dnssd.pk
  /\ ok => bonjour = "running"
  /\ dnssd' = [dnssd EXCEPT !.record[s] = Txt(dnssd), !.service[s] = ok]
  /\ onAir' = onAir \union
       IF ok THEN {[service |-> s, port |-> raop.port, txt |-> Txt(dnssd), start |-> starts]} ELSE {}

(* register_dnssd: a refusal ends the start, unless there is a beacon.     *)
RegisterDnssd(s, next) ==
  /\ step = s
  /\ \E ok \in BOOLEAN :
       /\ Register(s, ok)
       /\ step' = IF ok \/ mode.ble THEN next ELSE "stop"
  /\ UNCHANGED <<mode, raop, starts, killed, bonjour, window, device>>
RegisterRaop == RegisterDnssd("raop", "airplay")
RegisterAirplay == RegisterDnssd("airplay", "loop")

(* The loop ends, to be stopped or for a reset that has the server leave   *)
(* its port and take it again: the services stay registered.               *)
LeaveLoop ==
  /\ step = "loop" /\ step' = "stop"
  /\ UNCHANGED <<mode, dnssd, raop, starts, killed, bonjour, window, onAir, device>>
StopHttpd ==
  /\ step = "loop" /\ step' = "reset" /\ raop' = [raop EXCEPT !.up = FALSE]
  /\ UNCHANGED <<mode, dnssd, starts, killed, bonjour, window, onAir, device>>
StartHttpd ==
  /\ step = "reset" /\ step' = "loop"
  /\ \E up \in BOOLEAN, p \in Bind(raop.port) : raop' = [raop EXCEPT !.up = up, !.port = p]
  /\ UNCHANGED <<mode, dnssd, starts, killed, bonjour, window, onAir, device>>

-----------------------------------------------------------------------------
(* stop_raop_server: the thread is joined, and the public key is freed.    *)
StopRaopServer ==
  /\ step = "stop" /\ step' = "unserved" /\ raop' = NoServer
  /\ dnssd' = [dnssd EXCEPT !.pk = FALSE]
  /\ UNCHANGED <<mode, starts, killed, bonjour, window, onAir, device>>

(* Whoever finds the other service gone frees the names of both.           *)
(* Mutant: each frees them.                                                *)
EachFrees(other) == TRUE
LastFrees(other) == ~dnssd.service[other]

FreeNames(names) == IF names = "held" THEN "freed" ELSE "freed twice"

(* dnssd_unregister_raop and dnssd_unregister_airplay: nothing to do for a *)
(* service that was not registered.                                        *)
Unregister(s, other) ==
  IF ~dnssd.service[s] THEN UNCHANGED <<dnssd, onAir>>
  ELSE /\ dnssd' = [dnssd EXCEPT !.record[s] = Freed, !.service[s] = FALSE,
                                 !.names = IF LastFrees(other) THEN FreeNames(@) ELSE @]
       /\ onAir' = {ad \in onAir : ad.service # s}

(* stop_dnssd: RAOP, then AirPlay, then the rest.                          *)
StopDnssd ==
  /\ \/ step = "unserved" /\ step' = "unregister" /\ Unregister("raop", "airplay")
     \/ step = "unregister" /\ step' = "destroy" /\ Unregister("airplay", "raop")
     \/ step = "destroy" /\ step' = "off" /\ dnssd' = NoRecord /\ UNCHANGED onAir
  /\ UNCHANGED <<mode, raop, starts, killed, bonjour, window, device>>

(* The window terminates a thread that does not stop in time; the server's *)
(* thread and what was registered are left as they are.                    *)
TerminateEngine ==
  /\ step \notin {"off", "start"} /\ step' = "off" /\ killed' = TRUE
  /\ UNCHANGED <<mode, dnssd, raop, starts, bonjour, window, onAir, device>>

-----------------------------------------------------------------------------
(* isBonjourServicePresent: it need not be running.                        *)
Present == bonjour # "absent"

(* launchMdnsResponder: as this user or, if it must, elevated; what it     *)
(* returns says whether the installer was run, and how it ended.           *)
Install(rc) ==
  /\ rc \in {0, 1, 2}
  /\ bonjour' \in IF rc = 1 THEN {bonjour} ELSE {bonjour, "running"}

(* installBonjourService: the server is started when the service is there. *)
InstallBonjour(rc) ==
  /\ Install(rc)
  /\ IF rc = 0 /\ Present'
     THEN missing' = FALSE /\ IF step = "off" THEN StartServing ELSE UNCHANGED engineState
     ELSE UNCHANGED <<missing, engineState>>

(* ensureBonjourServiceInstalled, when the application starts; startServer *)
(* after an installation finds its thread running.                         *)
EnsureBonjour ==
  /\ ~asked /\ asked' = TRUE
  /\ \/ Present /\ StartServing /\ missing' = FALSE /\ UNCHANGED bonjour
     \/ ~Present /\ \E rc \in 0..2 : InstallBonjour(rc)
     \/ ~Present /\ missing' = TRUE /\ UNCHANGED <<bonjour, engineState>>
  /\ UNCHANGED <<onAir, device>>
InstallFromNotice ==
  /\ missing /\ \E rc \in 0..2 : InstallBonjour(rc)
  /\ UNCHANGED <<asked, onAir, device>>

(* The tray's switch does not look whether Bonjour is missing.             *)
StartFromTray ==
  /\ asked /\ StartServing
  /\ UNCHANGED <<bonjour, window, onAir, device>>

(* Bonjour stops, or is removed, and is started again: it remembers nobody.*)
BonjourStops ==
  /\ bonjour = "running" /\ bonjour' \in {"stopped", "absent"} /\ onAir' = {}
  /\ UNCHANGED <<window, engineState, device>>
BonjourStarts ==
  /\ bonjour = "stopped" /\ bonjour' = "running"
  /\ UNCHANGED <<window, engineState, onAir, device>>

(* A device keeps what it finds.                                           *)
Find ==
  /\ found' \in onAir /\ answer' = NoAnswer
  /\ UNCHANGED <<bonjour, window, engineState, onAir>>

(* raop_handler_info: a record that is asked for, or a description with    *)
(* the name and the features.  Without dnssd it reads through NULL.        *)
Info(kind) ==
  IF ~raop.dnssd THEN Crash
  ELSE IF kind = "description" THEN
    (IF dnssd.names = "held" THEN Txt(dnssd) ELSE Freed)
  ELSE dnssd.record[kind]
Ask(kind) ==
  /\ raop.up /\ found.port = raop.port /\ found.port # NoAddress
  /\ answer' = [to |-> found, kind |-> kind, got |-> Info(kind)]
  /\ UNCHANGED <<bonjour, window, engineState, onAir, found>>

AdInit ==
  /\ bonjour \in {"absent", "stopped", "running"}
  /\ asked = FALSE /\ missing = FALSE
  /\ step = "off" /\ mode = CHOOSE m \in Modes : TRUE
  /\ dnssd = NoRecord /\ raop = NoServer /\ onAir = {} /\ starts = 0 /\ killed = FALSE
  /\ found = Nowhere /\ answer = NoAnswer

AdNext ==
  \/ StartDnssd \/ StartRaopServer \/ SetDnssd \/ RegisterRaop \/ RegisterAirplay
  \/ LeaveLoop \/ StopHttpd \/ StartHttpd \/ StopRaopServer \/ StopDnssd \/ TerminateEngine
  \/ EnsureBonjour \/ InstallFromNotice \/ StartFromTray
  \/ BonjourStops \/ BonjourStarts
  \/ Find \/ \E kind \in Services \union {"description"} : Ask(kind)

AdSpec == AdInit /\ [][AdNext]_adVars

-----------------------------------------------------------------------------
AdTypeOK ==
  /\ bonjour \in {"absent", "stopped", "running"}
  /\ {asked, missing, killed} \subseteq BOOLEAN
  /\ raop.port \in Addresses \union {NoAddress} /\ starts \in 0..MaxServed
  /\ step \in {"off", "start", "dnssd", "listening", "loop", "reset", "stop",
               "unserved", "unregister", "destroy"} \union Services
  /\ step \notin {"off", "start"} => dnssd # NoRecord

(* What a device should be told of a start with these options.             *)
Told(m) == [features |-> Features(m), pw |-> m.pin_pw # 0]

(* What is on the air leads to a server of this start with these options,  *)
(* for as long as it listens at all; an engine that is off is not on the   *)
(* air, whichever step of its start failed.                                *)
OnAirIsServed ==
  \/ killed
  \/ /\ step = "off" => onAir = {} /\ dnssd = NoRecord
     /\ \A ad \in onAir :
          /\ ad.start = starts
          /\ raop.port \in {ad.port, NoAddress} \/ ad.port = NoAddress
          /\ ad.txt = Told(mode)

(* Registering, failing and stopping in any order free the names once, and *)
(* keep them when nothing was registered.                                  *)
NamesAreFreedOnce ==
  dnssd # NoRecord =>
    /\ dnssd.names # "freed twice"
    /\ (\E s \in Services : dnssd.service[s]) => dnssd.names = "held"

(* A device is told what was on the air when it found the service, though  *)
(* the server listens before it has anything to tell; only one that comes  *)
(* back with what it found at an earlier start can come too early, which   *)
(* crashes the engine when the port is the same.                           *)
DevicesAreToldTheTruth ==
  answer.to.start = starts /\ answer.kind # "none" =>
    /\ answer.got \notin {Crash, Freed}
    /\ answer.kind \in {answer.to.service, "description"} => answer.got = answer.to.txt

AdvertisementIsTrue ==
  AdTypeOK /\ OnAirIsServed /\ NamesAreFreedOnce /\ DevicesAreToldTheTruth
===============================================================================
