-------------------------------- MODULE Beacon --------------------------------
(***************************************************************************)
(* The Bluetooth LE beacons (libxmirror/Bluetooth_LE_beacon): a process    *)
(* that looks once a second at a file the engine writes (port, process id, *)
(* process name) and advertises that port while the process lives.  There  *)
(* are two scripts: xmirror-beacon-windows.py, which the application       *)
(* starts and kills with its server, and xmirror-beacon.py, which a user   *)
(* runs with one of four modules for the radio.                            *)
(*                                                                         *)
(* The engine, the beacon and the radio are three parties: the file can    *)
(* change between a look and what follows from it, a status of the radio   *)
(* can come late, and a command to it can fail.                            *)
(***************************************************************************)
EXTENDS Integers

CONSTANT Ports        \* the ports the engine may listen on, positive
ASSUME BeaconAssumption == Ports \subseteq Nat \ {0}

NoFile  == 0
Partial == -1         \* opened for writing, nothing flushed
Orphan  == -2         \* read: the file of a process that is gone
Unread  == -3

Modules == {"winrt", "BlueZ", "HCI", "BleuIO"}
(* The radio of these stops advertising with the process.                  *)
Bound == {"windows", "winrt", "BlueZ"}

VARIABLES
  script,      \* which beacon this machine runs, "none" before the first start
  process,     \* it is running
  engine,      \* the port the engine serves, 0 when it does not
  bledata,     \* what the file says
  owner,       \* the process named in the file is alive
  terminated,  \* history: the engine's thread was terminated in it
  seen,        \* what the poll under way has read
  running,     \* is_running, beacon_is_running
  advertised,  \* advertised_port of the Windows script
  publisher,   \* publisher, or BlueZ's ad_manager, is not None
  stopping,    \* a stopped publisher has yet to report STOPPED
  radio,       \* the port on the air, 0 for none
  abandoned,   \* a command failed, or the process died, with the radio on
  settled      \* polls since the engine or its file last changed, up to 2

scriptVars == <<running, advertised, publisher, stopping, radio, abandoned>>
serving == <<owner, terminated>>
beaconVars == <<script, process, engine, bledata, serving, seen, settled, scriptVars>>

BeaconTypeOK ==
  /\ script \in {"none", "windows"} \union Modules
  /\ process \in BOOLEAN /\ owner \in BOOLEAN /\ terminated \in BOOLEAN /\ running \in BOOLEAN
  /\ publisher \in BOOLEAN /\ stopping \in BOOLEAN /\ abandoned \in BOOLEAN
  /\ engine \in Ports \union {0} /\ advertised \in Ports \union {0} /\ radio \in Ports \union {0}
  /\ bledata \in Ports \union {NoFile, Partial}
  /\ seen \in Ports \union {NoFile, Orphan, Unread}
  /\ settled \in 0..2

BeaconInit ==
  /\ script = "none" /\ process = FALSE
  /\ engine = 0 /\ bledata = NoFile /\ seen = Unread
  /\ owner = FALSE /\ terminated = FALSE
  /\ running = FALSE /\ advertised = 0 /\ publisher = FALSE /\ stopping = FALSE
  /\ radio = 0 /\ abandoned = FALSE /\ settled = 0

-----------------------------------------------------------------------------
(* The engine: write_bledata when it starts, in two steps a reader can     *)
(* tell apart; cleanup removes the file; a crash, or a thread that had to  *)
(* be terminated in a process that lives on, leaves it.                    *)
BeaconUnmoved == UNCHANGED <<script, process, seen, scriptVars>>

EngineStarts ==
  /\ engine = 0 /\ engine' \in Ports
  /\ bledata' = Partial /\ owner' = TRUE /\ terminated' = FALSE
  /\ settled' = 0 /\ BeaconUnmoved
EngineWrites ==
  /\ engine # 0 /\ bledata = Partial
  /\ bledata' = engine /\ settled' = 0 /\ UNCHANGED <<engine, serving>> /\ BeaconUnmoved
EngineStops ==
  /\ engine # 0 /\ bledata # Partial
  /\ engine' = 0 /\ bledata' = NoFile /\ settled' = 0 /\ UNCHANGED serving /\ BeaconUnmoved
EngineDies ==
  /\ engine # 0 /\ engine' = 0
  /\ owner' \in BOOLEAN /\ terminated' = owner'
  /\ settled' = 0 /\ UNCHANGED bledata /\ BeaconUnmoved
(* The application ends after its engine.                                  *)
OwnerEnds ==
  /\ engine = 0 /\ owner
  /\ owner' = FALSE /\ terminated' = FALSE
  /\ settled' = 0 /\ UNCHANGED <<engine, bledata>> /\ BeaconUnmoved

-----------------------------------------------------------------------------
(* The process ends, with or without a word to the radio.                  *)
ProcessEnds ==
  /\ process' = FALSE /\ running' = FALSE /\ publisher' = FALSE
  /\ advertised' = 0 /\ stopping' = FALSE
Dies ==
  /\ ProcessEnds
  /\ IF script \in Bound THEN radio' = 0 /\ UNCHANGED abandoned
     ELSE abandoned' = (abandoned \/ radio # 0) /\ UNCHANGED radio

(* parse_params: which module the words and the platform choose.  With a   *)
(* startup file the script never starts: the `finally` of its reading      *)
(* exits, whatever was read.                                               *)
Chosen(type, platform) ==
  IF type # "none" THEN type
  ELSE CASE platform = "Windows" -> "winrt" [] platform = "Linux" -> "BlueZ" [] OTHER -> "BleuIO"

(* The look for an HCI device resets it: what was on the air goes off.     *)
FindDevice(onAir) == IF script' = "HCI" THEN 0 ELSE onAir

(* The start.  A first test of the radio leaves the STOPPED of its         *)
(* publisher behind.                                                       *)
StartScript(type, platform, startupFile) ==
  /\ ~process /\ ~startupFile
  /\ script \in {"none", Chosen(type, platform)}
  /\ script' = Chosen(type, platform) /\ process' = TRUE
  /\ stopping' \in {FALSE, script' = "winrt"}
  /\ publisher' = stopping'
  /\ radio' = FindDevice(radio)
  /\ settled' = 0 /\ seen' = Unread
  /\ UNCHANGED <<engine, bledata, serving, running, advertised, abandoned>>

(* startBluetoothBeacon and stopBluetoothBeacon of the application.        *)
StartBeacon ==
  /\ ~process /\ script \in {"none", "windows"}
  /\ script' = "windows" /\ process' = TRUE /\ settled' = 0 /\ seen' = Unread
  /\ UNCHANGED <<engine, bledata, serving, scriptVars>>
StopBeacon ==
  /\ process /\ script = "windows"
  /\ Dies /\ seen' = Unread /\ UNCHANGED <<script, engine, bledata, serving, settled>>

-----------------------------------------------------------------------------
(* read_ble_file and the first half of check_file_exists.  A file cut      *)
(* short counts as none in the first and kills the second, which does not  *)
(* catch struct.error.                                                     *)
(* Mutant: the process named in the file is not looked for.                *)
ReadAny == IF bledata = Partial THEN NoFile ELSE bledata
ReadFile == IF bledata = Partial \/ ~owner THEN NoFile ELSE bledata

Look ==
  /\ process /\ seen = Unread
  /\ IF script = "windows" THEN seen' = ReadFile /\ UNCHANGED <<process, scriptVars>>
     ELSE IF bledata = Partial THEN Dies /\ UNCHANGED seen
     ELSE /\ seen' = (IF bledata # NoFile /\ ~owner THEN Orphan ELSE bledata)
          /\ UNCHANGED <<process, scriptVars>>
  /\ UNCHANGED <<script, engine, bledata, serving, settled>>

(* start_advertising; `stopped` says that stop_advertising went before.    *)
StartAdvertising(port, stopped) ==
  \/ /\ publisher' = TRUE /\ running' = TRUE /\ radio' = port /\ advertised' = port
     /\ stopping' = (stopping \/ (stopped /\ publisher))
  \/ /\ publisher' = FALSE /\ running' = FALSE /\ radio' = 0
     /\ advertised' = (IF stopped THEN 0 ELSE advertised)
     /\ stopping' = (stopping \/ (stopped /\ publisher))
StopAdvertising ==
  /\ publisher' = FALSE /\ running' = FALSE /\ advertised' = 0
  /\ stopping' = (stopping \/ publisher)
  /\ radio' = IF publisher THEN 0 ELSE radio

(* The rest of a turn of the Windows script's loop.                        *)
WindowsPoll ==
  /\ script = "windows" /\ UNCHANGED <<process, bledata, abandoned>>
  /\ CASE seen # NoFile /\ ~running -> StartAdvertising(seen, FALSE)
       [] seen # NoFile /\ running /\ seen # advertised -> StartAdvertising(seen, TRUE)
       [] seen = NoFile /\ running -> StopAdvertising
       [] OTHER -> UNCHANGED <<running, publisher, radio, advertised, stopping>>

-----------------------------------------------------------------------------
(* setup_beacon and beacon_on of each module, and start_beacon, which      *)
(* gives up when no port comes back; advertised_port is a local of it.     *)
On(port) == running' = TRUE /\ radio' = port /\ UNCHANGED <<process, advertised, abandoned>>
GiveUp == Dies

WinrtOn(port) ==
  \/ On(port) /\ publisher' = TRUE /\ UNCHANGED stopping
  \/ GiveUp
BlueZOn(port) ==
  \/ On(port) /\ publisher' = TRUE /\ UNCHANGED stopping
  \/ (* register_ad_error_cb comes from the main loop, too late to be seen *)
     /\ On(0) /\ UNCHANGED <<publisher, stopping>>
  \/ GiveUp
HciOn(port) ==
  \/ On(port) /\ UNCHANGED <<publisher, stopping>>
  \/ (* the parameters were refused and the old ones switched on *)
     /\ ProcessEnds /\ abandoned' = TRUE /\ radio' \in Ports
  \/ GiveUp
(* The `return` in the `finally` of beacon_on swallows its SystemExit.     *)
BleuIOOn(port) ==
  \/ On(port) /\ UNCHANGED <<publisher, stopping>>
  \/ On(radio) /\ UNCHANGED <<publisher, stopping>>
  \/ GiveUp

StartTheBeacon(port) ==
  CASE script = "winrt"  -> WinrtOn(port)
    [] script = "BlueZ"  -> BlueZOn(port)
    [] script = "HCI"    -> HciOn(port)
    [] script = "BleuIO" -> BleuIOOn(port)

(* beacon_off, and stop_beacon.  winrt stops a publisher its callback may  *)
(* have cleared; hcitool raises; BleuIO prints its error and goes on.      *)
Off == running' = FALSE /\ radio' = 0 /\ UNCHANGED <<process, advertised, abandoned>>
WinrtOff ==
  IF publisher THEN Off /\ stopping' = TRUE /\ UNCHANGED publisher ELSE Dies
BlueZOff == Off /\ publisher' = FALSE /\ UNCHANGED stopping
HciOff ==
  \/ Off /\ UNCHANGED <<publisher, stopping>>
  \/ ProcessEnds /\ abandoned' = TRUE /\ UNCHANGED radio
BleuIOOff ==
  /\ UNCHANGED <<process, advertised, publisher, stopping>> /\ running' = FALSE
  /\ \/ radio' = 0 /\ UNCHANGED abandoned
     \/ abandoned' = TRUE /\ UNCHANGED radio
StopTheBeacon ==
  CASE script = "winrt"  -> WinrtOff
    [] script = "BlueZ"  -> BlueZOff
    [] script = "HCI"    -> HciOff
    [] script = "BleuIO" -> BleuIOOff

(* The second half of check_file_exists, then check_pending.  An orphan is *)
(* removed by its name: whatever has that name by now.  A running beacon   *)
(* keeps its port, for check_port compares with None.                      *)
OtherPoll ==
  /\ script \in Modules
  /\ bledata' \in IF seen = Orphan THEN {bledata, NoFile} ELSE {bledata}
  /\ IF seen \in Ports /\ ~running THEN StartTheBeacon(seen)
     ELSE IF seen \notin Ports /\ running THEN StopTheBeacon
     ELSE UNCHANGED <<process, scriptVars>>

Tick ==
  /\ process /\ seen # Unread /\ seen' = Unread
  /\ WindowsPoll \/ OtherPoll
  /\ settled' = IF settled < 2 THEN settled + 1 ELSE 2
  /\ UNCHANGED <<script, engine, serving>>

(* Ctrl+C between two polls of xmirror-beacon.py.                          *)
Interrupt ==
  /\ process /\ script \in Modules /\ seen = Unread
  /\ ProcessEnds
  /\ IF running /\ (script \in {"HCI", "BleuIO"})
     THEN \/ radio' = 0 /\ UNCHANGED abandoned
          \/ abandoned' = TRUE /\ UNCHANGED radio
     ELSE /\ radio' = (IF script \in Bound THEN 0 ELSE radio) /\ UNCHANGED abandoned
  /\ UNCHANGED <<script, engine, bledata, serving, seen, settled>>

(* on_status_changed: STOPPED, of whichever publisher, clears the one the  *)
(* script holds, and the last reference to it with that.                   *)
Stopped ==
  /\ process /\ script \in {"windows", "winrt"}
  /\ stopping \/ publisher
  /\ stopping' = FALSE /\ publisher' = FALSE /\ radio' = 0
  /\ UNCHANGED <<script, process, engine, bledata, serving, seen, running, advertised, abandoned, settled>>
(* ABORTED, or BlueZ's Release: os._exit; the Windows script ignores it.   *)
Aborted ==
  /\ process /\ publisher /\ radio # 0
  /\ IF script = "windows"
     THEN /\ radio' = 0
          /\ UNCHANGED <<process, running, advertised, publisher, stopping, abandoned, seen>>
     ELSE Dies /\ seen' = Unread
  /\ UNCHANGED <<script, engine, bledata, serving, settled>>

BeaconNext ==
  \/ EngineStarts \/ EngineWrites \/ EngineStops \/ EngineDies \/ OwnerEnds
  \/ \E type \in {"none", "BleuIO", "HCI"}, platform \in {"Windows", "Linux", "other"}, startupFile \in BOOLEAN :
       StartScript(type, platform, startupFile)
  \/ StartBeacon \/ StopBeacon
  \/ Look \/ Tick \/ Interrupt \/ Stopped \/ Aborted

BeaconSpec == BeaconInit /\ [][BeaconNext]_beaconVars

-----------------------------------------------------------------------------
(* Two polls after the last change a beacon is on the air for an engine    *)
(* that runs and whose file says its port: no crash of it, no file removed *)
(* or half written keeps a dead one on it, and the Windows script is on    *)
(* the air with the port of now.  The beacons know an engine by its        *)
(* process, so one whose thread was terminated in an application that      *)
(* lives on stays on the air with it; and a radio that refuses a command,  *)
(* or outlives its script, may stay on.                                    *)
BeaconIsTrue ==
  /\ BeaconTypeOK
  /\ radio # 0 /\ process /\ settled = 2 /\ ~abandoned =>
       /\ owner /\ (engine # 0 \/ terminated)
       /\ engine # 0 => bledata = engine
       /\ engine # 0 /\ script = "windows" => radio = engine

(* "xmirror is active, and beacon is running but is advertising a          *)
(* different port, so shut it down" (xmirror-beacon.py:154).               *)
PortIsFollowed ==
  radio # 0 /\ process /\ settled = 2 /\ ~abandoned => radio = bledata
===============================================================================
