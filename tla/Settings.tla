------------------------------ MODULE Settings ------------------------------
(***************************************************************************)
(* From the settings window to the engine's globals (src/mainwindow.cpp):  *)
(* the controls write QSettings, a start reads arguments.txt, puts the     *)
(* settings over it, and hands the words to the engine in this process.    *)
(* The engine's globals live as long as the process: only a restart of the *)
(* application gives them their first values again.                        *)
(***************************************************************************)
EXTENDS EngineOptions, FiniteSets, SequencesExt

CONSTANTS Files,        \* the arguments.txt there may be, as sequences of words
          MaxChanged,   \* how many settings differ from their defaults at a time
          MaxChanges,   \* how many changes one process sees
          MaxRestarts   \* how often one process restarts its engine

VARIABLES
  file,      \* the words of the arguments.txt in force
  settings,  \* QSettings: a value for every key
  pending,   \* m_pendingChanges: changes the engine has not seen
  session,   \* isSessionActive()
  globals,   \* the globals of the engine
  changes,   \* changes made in this process (a bound)
  restarts   \* starts of the engine in this process after the first

(* A file is read as words.                                                *)
ASSUME SettingsAssumption == Files \subseteq Seq(STRING)

settingsVars == <<file, settings, pending, session, globals, changes, restarts>>

-----------------------------------------------------------------------------
(* What the controls of each page can write.  A line edit holds any text,  *)
(* "" when empty; a spin box at its special value is "" as well.           *)
Switch == {"on", "off"}

ConnectionPage == [device_name |-> {"", "good"}, hide_hostname |-> Switch, pin_enabled |-> Switch,
                   password_enabled |-> Switch, password |-> {"", "good"}, nohold |-> Switch]
AudioPage      == [audio_mode |-> {"", "stable", "responsive"}, volume_pct |-> {"", "good"},
                   taper |-> Switch, no_audio |-> Switch]
VideoPage      == [renderer_mode |-> {"auto", "other"}, hevc_enabled |-> Switch, force_fs_enabled |-> Switch,
                   fps_limit |-> {"", "good"}, rotation |-> {"", "good"}, keep_window |-> Switch]
(* The window takes five digits a side; the engine takes four.             *)
ResolutionBox  == [resolution |-> {"", "good", "bad"}]
BehaviourPage  == [screensaver |-> {"", "good"}, reset_secs |-> {"", "good"}, fps_data |-> Switch,
                   ble_enabled |-> Switch]

Defaults ==
  [device_name |-> "", hide_hostname |-> "on", pin_enabled |-> "off", password_enabled |-> "off",
   password |-> "", nohold |-> "off", audio_mode |-> "", volume_pct |-> "", taper |-> "off",
   no_audio |-> "off", renderer_mode |-> "auto", hevc_enabled |-> "off", force_fs_enabled |-> "off",
   resolution |-> "", fps_limit |-> "", rotation |-> "", keep_window |-> "off",
   screensaver |-> "", reset_secs |-> "", fps_data |-> "off", ble_enabled |-> "on"]

Offered == ConnectionPage @@ AudioPage @@ VideoPage @@ ResolutionBox @@ BehaviourPage
Changed(s) == {key \in DOMAIN s : s[key] # Defaults[key]}

-----------------------------------------------------------------------------
(* stripFlag: every occurrence of a flag goes, and the word behind it when *)
(* the flag takes a value.                                                 *)
StripFlag(words, flag, takesValue) ==
  LET kept[i \in 1..Len(words) + 2] ==
        IF i > Len(words) THEN <<>>
        ELSE IF words[i] = flag THEN kept[IF takesValue THEN i + 2 ELSE i + 1]
        ELSE <<words[i]>> \o kept[i + 1]
  IN kept[1]

(* A switch removes its flag and puts it back when it is on; a value       *)
(* replaces the option's, and only when there is one.                      *)
PutFlag(words, flag, value) ==
  StripFlag(words, flag, FALSE) \o IF value = "on" THEN <<flag>> ELSE <<>>
PutValue(words, flag, value) ==
  IF value = "" THEN words ELSE StripFlag(words, flag, TRUE) \o <<flag, value>>

HideHostname(words, s) ==
  IF s.hide_hostname = "off" THEN StripFlag(words, "-nh", FALSE) ELSE words
Password(words, s) ==
  StripFlag(words, "-pw", TRUE) \o
    IF s.password_enabled = "on" /\ s.password # "" THEN <<"-pw", s.password>> ELSE <<>>
Renderer(words, s) ==
  PutValue(words, "-vs", IF s.renderer_mode = "auto" THEN "" ELSE s.renderer_mode)
NoAudio(words, s) ==
  PutValue(words, "-as", IF s.no_audio = "on" THEN "0" ELSE "")

(* "stable" replaces only a last "-vsync no"; a number is a trim to keep.  *)
Unsynchronised(words) ==
  LET at == {i \in 1..Len(words) : words[i] = "-vsync"}
  IN at # {} /\ LET last == CHOOSE i \in at : \A j \in at : j <= i
                IN last < Len(words) /\ words[last + 1] = "no"
(* Mutant: only "responsive" is put on the line.                           *)
AudioTimingOnce(words, s) ==
  IF s.audio_mode = "responsive" /\ ~Unsynchronised(words) THEN words \o <<"-vsync", "no">> ELSE words
AudioTiming(words, s) ==
  IF s.audio_mode = "responsive" THEN PutValue(words, "-vsync", "no")
  ELSE IF s.audio_mode = "stable" /\ Unsynchronised(words) THEN PutValue(words, "-vsync", "0")
  ELSE words

(* applyRendererAndFullscreenArgs, page by page in its order.              *)
ConnectionArgs(words, s) ==
  LET named == HideHostname(PutValue(words, "-n", s.device_name), s)
  IN PutFlag(Password(PutFlag(named, "-pin", s.pin_enabled), s), "-nohold", s.nohold)
VideoArgs(words, s) ==
  LET codec  == PutFlag(PutFlag(words, "-h265", s.hevc_enabled), "-fs", s.force_fs_enabled)
      size   == PutValue(Renderer(codec, s), "-s", s.resolution)
  IN PutFlag(PutValue(PutValue(size, "-fps", s.fps_limit), "-r", s.rotation), "-nc", s.keep_window)
AudioArgs(words, s) ==
  NoAudio(PutFlag(AudioTiming(PutValue(words, "-vol", s.volume_pct), s), "-taper", s.taper), s)
BehaviourArgs(words, s) ==
  PutFlag(PutValue(PutValue(words, "-scrsv", s.screensaver), "-reset", s.reset_secs),
          "-FPSdata", s.fps_data)

(* startServer: a "-ble" of the file goes, with its value if it has one.   *)
WithoutBle(words) ==
  LET at == {i \in 1..Len(words) : words[i] = "-ble"}
      first == CHOOSE i \in at : \A j \in at : i <= j
      second == first < Len(words) /\ ~Dashed(words[first + 1])
  IN IF at = {} THEN words
     ELSE SubSeq(words, 1, first - 1) \o SubSeq(words, first + (IF second THEN 2 ELSE 1), Len(words))
(* Last of all the window puts its own: <appData>/xmirror_status.ble, a    *)
(* file that can be written.                                               *)
StatusFile == "other"
BleArgs(words, s) == words \o IF s.ble_enabled = "on" THEN <<"-ble", StatusFile>> ELSE <<>>
FileArgs(f, s) ==
  BehaviourArgs(AudioArgs(VideoArgs(ConnectionArgs(WithoutBle(f), s), s), s), s)
Words(f, s) == BleArgs(FileArgs(f, s), s)

-----------------------------------------------------------------------------
(* The machine's arguments.txt goes before the user's, which is written    *)
(* when there is neither; one that cannot be read counts for the defaults. *)
Missing == <<"missing">>
DefaultArguments ==
  <<"-n", "good", "-nh", "-vd", "good", "-vs", "good", "-as", "good", "-al", "good", "-vsync", "no">>

EnsureSettingsFile(machine, user) ==
  IF machine = Missing /\ user = Missing THEN DefaultArguments ELSE user
ActiveArguments(machine, user) == IF machine # Missing THEN machine ELSE user
ArgumentsFromFile(machine, user, readable) ==
  IF readable THEN ActiveArguments(machine, EnsureSettingsFile(machine, user)) ELSE DefaultArguments

(* The application starts, by itself or after "Reset settings".            *)
Launch(s) ==
  /\ settings' = s
  /\ globals' = Started(Words(file', s), Loaded)
  /\ changes' = 0 /\ restarts' = 0 /\ pending' = 0 /\ session' = FALSE

SettingsInit ==
  /\ \E machine \in Files \union {Missing}, user \in Files \union {Missing}, readable \in BOOLEAN :
       file = ArgumentsFromFile(machine, user, readable)
  /\ settings = Defaults
  /\ globals = Started(Words(file, Defaults), Loaded)
  /\ changes = 0 /\ restarts = 0 /\ pending = 0 /\ session = FALSE

(* restartEngineNow: stop, then start with what arguments.txt and the      *)
(* settings say now, on the globals as they are.                           *)
RestartEngine(s) ==
  /\ restarts < MaxRestarts
  /\ globals' = Started(Words(file, s), globals)
  /\ restarts' = restarts + 1 /\ pending' = 0 /\ session' = FALSE

Running == globals["refused"] = "off"

(* markEngineSettingChanged: at once when nobody is mirroring, offered for *)
(* later otherwise; an engine that is not running reads it at its start.   *)
SettingChanged(s) ==
  /\ settings' = s
  /\ Cardinality(Changed(s)) <= MaxChanged
  /\ changes < MaxChanges /\ changes' = changes + 1
  /\ IF session THEN pending' = pending + 1 /\ UNCHANGED <<session, globals, restarts>>
     ELSE IF Running THEN RestartEngine(s)
     ELSE pending' = 0 /\ UNCHANGED <<session, globals, restarts>>
  /\ UNCHANGED file

(* A control of a page: it reports a change only when there is one.        *)
ChangeSetting ==
  \E key \in DOMAIN settings : \E value \in Offered[key] \ {settings[key]} :
    /\ SettingChanged([settings EXCEPT ![key] = value])

(* The cards of the home page: four settings in one change.                *)
Preset == {[audio_mode |-> "responsive", hevc_enabled |-> "off", resolution |-> ""],
           [audio_mode |-> "stable", hevc_enabled |-> "off", resolution |-> ""],
           [audio_mode |-> "stable", hevc_enabled |-> "on", resolution |-> "good"]}
ApplyPreset ==
  \E preset \in Preset :
    /\ \E key \in DOMAIN preset : settings[key] # preset[key]
    /\ SettingChanged([key \in DOMAIN settings |->
         IF key \in DOMAIN preset THEN preset[key]
         ELSE IF key = "fps_limit" THEN "" ELSE settings[key]])

(* The bar that offers to apply what is waiting.                           *)
DeferralBarIsShown == pending > 0
ApplyPending == DeferralBarIsShown /\ RestartEngine(settings) /\ UNCHANGED <<file, settings, changes>>

Retry == ~Running /\ RestartEngine(settings) /\ UNCHANGED <<file, settings, changes>>

DeviceMirrors ==
  /\ Running /\ ~session /\ session' = TRUE
  /\ UNCHANGED <<file, settings, pending, globals, changes, restarts>>
DeviceLeaves ==
  /\ session /\ pending = 0 /\ session' = FALSE
  /\ UNCHANGED <<file, settings, pending, globals, changes, restarts>>

(* restartApplication, a new login, or resetSettingsToDefaults.            *)
RestartApplication ==
  /\ restarts > 0 /\ UNCHANGED file
  /\ \E s \in {settings, Defaults} : Launch(s)

SettingsNext ==
  \/ ChangeSetting \/ ApplyPreset \/ ApplyPending \/ Retry
  \/ DeviceMirrors \/ DeviceLeaves \/ RestartApplication
SettingsSpec == SettingsInit /\ [][SettingsNext]_settingsVars

-----------------------------------------------------------------------------
(* What each setting promises of the globals, in the words of its row.     *)
Promised(key, s) ==
  CASE key = "device_name" -> s[key] # "" =>
         globals["server_name"] = (IF globals["do_append_hostname"] = "on" THEN s[key] \o "@host" ELSE s[key])
    [] key = "pin_enabled" -> s[key] = "on" =>
         globals["pin_pw"] = (IF s.password_enabled = "on" /\ s.password # "" THEN "password" ELSE "pin")
    [] key = "password_enabled" -> s[key] = "on" /\ s.password # "" =>
         globals["pin_pw"] = "password" /\ globals["password"] = s.password
    [] key = "nohold" -> s[key] = "on" => globals["nohold"] = "on"
    [] key = "volume_pct" -> s[key] # "" => globals["initial_volume"] = s[key]
    [] key = "taper" -> s[key] = "on" => globals["taper_volume"] = "on"
    [] key = "no_audio" -> s[key] = "on" => globals["use_audio"] = "off"
    [] key = "renderer_mode" -> s[key] # "auto" => globals["videosink"] = s[key]
    [] key = "hevc_enabled" -> s[key] = "on" => globals["h265_support"] = "on"
    [] key = "force_fs_enabled" -> s[key] = "on" => globals["fullscreen"] = "on"
    [] key = "resolution" -> s[key] # "" => globals["display_size"] = s[key]
    [] key = "fps_limit" -> s[key] # "" => globals["display_fps"] = s[key]
    [] key = "rotation" -> s[key] # "" => globals["videorotate"] = s[key]
    [] key = "keep_window" -> s[key] = "on" => globals["new_window_closing_behavior"] = "off"
    [] key = "reset_secs" -> s[key] # "" => globals["missed_feedback_limit"] = s[key]
    [] key = "fps_data" -> s[key] = "on" => globals["show_client_FPS_data"] = "on"
    [] key = "audio_mode" -> s[key] # "" => globals["video_sync"] = (IF s[key] = "stable" THEN "on" ELSE "off")
    [] key = "ble_enabled" ->
         IF s[key] = "on" THEN globals["ble_filename"] = StatusFile
         ELSE "-ble" \notin ToSet(WithoutBle(file)) => globals["ble_filename"] = "off"
    [] OTHER -> TRUE

(* What the window puts on a line, and takes from it with the word behind, *)
(* is its own only when no option of the file waits for its value there.   *)
TakeTheNext == {o \in DOMAIN Options : Options[o].next = "any"} \union
               {"-pw", "-n", "-s", "-vs", "-fps", "-r", "-as", "-vsync", "-scrsv"}
IsComplete(words) ==
  \A i \in 1..Len(words) :
    words[i] \in TakeTheNext => i < Len(words) /\ ~Dashed(words[i + 1])

(* An engine that runs with nothing pending does what the settings say, on *)
(* a file none of whose options lacks its value: the file's own options are*)
(* found and removed wherever they are, and what is put behind them is     *)
(* parsed last (mainwindow.cpp:2031-2232).  A restart within the process   *)
(* can lose two: "Stable" where the file says nothing of -vsync and the    *)
(* discovery turned off put nothing on the line.                           *)
SettingsAreFollowed ==
  Running /\ pending = 0 /\ IsComplete(file) =>
    \A key \in Changed(settings) \union {"ble_enabled"} :
      (restarts > 0 /\ key \in {"audio_mode", "ble_enabled"}) \/ Promised(key, settings)

(* In a process's first start a setting touches its own options alone:     *)
(* with none changed, an engine that runs is what the file makes it with   *)
(* the window's "-ble" behind it, in place of the file's own.  This is     *)
(* asked of files without the flags the window owns: a switch takes its    *)
(* flag from the line when it is off, its default, against the "verbatim"  *)
(* of mainwindow.cpp:2051.                                                 *)
OwnedByTheWindow == {"-pin", "-pw", "-nohold", "-h265", "-fs", "-nc", "-taper", "-FPSdata"}
FileIsKept ==
  Running /\ restarts = 0 /\ pending = 0 /\ settings = Defaults /\ ToSet(file) \intersect OwnedByTheWindow = {} =>
    globals = Started(WithoutBle(file) \o <<"-ble", StatusFile>>, Loaded)

(* Neither the settings nor the file are lost on the way to the engine. *)
BothAreKept == SettingsAreFollowed /\ FileIsKept

(* "The engine must be restarted to pick it up" (mainwindow.cpp:2623): a   *)
(* restart gives what a fresh start with these settings gives.             *)
RestartAppliesSettings ==
  Running /\ pending = 0 => globals = Started(Words(file, settings), Loaded)
=============================================================================
