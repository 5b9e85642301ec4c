--------------------------- MODULE EngineOptions ---------------------------
(***************************************************************************)
(* The command line of the engine (libxmirror/xmirror.cpp, parse_arguments *)
(* and the preparation in run_xmirror).  The engine's options are C        *)
(* globals: each option assigns some of them, and an option that cannot be *)
(* obeyed ends the start (engine_fail).                                    *)
(*                                                                         *)
(* A word of the command line is the name of an option, "-dashed" (a value *)
(* that begins with a dash), or one of a few values: "good" and "other"    *)
(* are well formed for every option that checks its value (a number in     *)
(* range, a writable file), "bad" is not; "0" is the sink that is none,    *)
(* "no" the word that turns some options off.  A global holds such a       *)
(* value, "on", "off", or "" where the code leaves it empty.               *)
(***************************************************************************)
EXTENDS Integers, Sequences, TLC

Numbers == {"good", "other", "0"}
Valid   == {"good", "other"}
Values  == Numbers \union {"no", "bad"}
Absent  == "absent"            \* there is no next word
Arguments == Values \union {Absent}

(* An option is a record: `next` is what it does with the next word, and   *)
(* `sets` what it assigns for each argument.  It never looks at the word;  *)
(* it must be there and not be dashed; it may be there; it is taken        *)
(* whatever it is; or it is taken only if it says "no", or "no" or a       *)
(* number.  (A "-reset" that ends the line reads past it: no caller here   *)
(* writes one, and it counts as refused.)                                  *)

Refusal == "refused" :> "on"   \* engine_fail(option_error(arg))

Flag(assigned) == [next |-> "never", sets |-> [a \in Arguments |-> assigned]]
Refused        == Flag(Refusal)
Text(global)   == [next |-> "must",
                   sets |-> [a \in Arguments |-> IF a = Absent THEN Refusal ELSE global :> a]]
Checked(global) == [next |-> "must",
                    sets |-> [a \in Arguments |-> IF a \in Valid THEN global :> a ELSE Refusal]]
(* With a well-formed value, and without one.                              *)
Maybe(global, always, absent) ==
  [next |-> "may",
   sets |-> [a \in Arguments |-> IF a = Absent THEN absent
                                 ELSE IF a \in Valid THEN (global :> a) @@ always
                                 ELSE Refusal]]
OnUnlessNo(global, on, off) ==
  [next |-> "no", sets |-> [a \in Arguments |-> global :> (IF a = "no" THEN off ELSE on)]]
Synchronise(global, delay) ==
  [next |-> "no or number",
   sets |-> [a \in Arguments |->
               IF a = "no" THEN global :> "off"
               ELSE IF a \in Numbers THEN (global :> "on") @@ (delay :> a)
               ELSE IF a = "bad" THEN Refusal    \* a second or more
               ELSE global :> "on"]]

-----------------------------------------------------------------------------
(* parse_arguments, in the order of its tests.                             *)
ClientOptions ==
  ("-rc"       :> [next |-> "any", sets |-> [a \in Arguments |-> <<>>]]) @@
  ("-allow"    :> Text("allowed_clients")) @@
  ("-block"    :> Text("blocked_clients")) @@
  ("-restrict" :> OnUnlessNo("restrict_clients", "on", "off")) @@
  ("-n"        :> Text("server_name")) @@
  ("-nh"       :> Flag("do_append_hostname" :> "off"))

TimingOptions ==
  ("-async" :> Synchronise("audio_sync", "audio_delay_alac")) @@
  ("-vsync" :> Synchronise("video_sync", "audio_delay_aac")) @@
  ("-scrsv" :> [next |-> "must", sets |-> [a \in Arguments |-> Refusal]])  \* not built with D-Bus

DisplayOptions ==
  ("-s"   :> Checked("display_size")) @@
  ("-fps" :> Checked("display_fps")) @@
  ("-o"   :> Flag("display_overscanned" :> "on")) @@
  ("-f"   :> Checked("videoflip")) @@
  ("-r"   :> Checked("videorotate"))

(* "-p tcp n" and "-p udp n" stand for "-p n": the words are one value.    *)
AddressOptions ==
  ("-p" :> Maybe("ports", <<>>, "ports" :> "legacy")) @@
  ("-m" :> Maybe("mac_address", "use_random_hw_addr" :> "off", "use_random_hw_addr" :> "on")) @@
  ("-a" :> Flag("use_audio" :> "off")) @@
  ("-d" :> Maybe("suppress_packet_debug_data", "debug_log" :> "on",
                 ("debug_log" :> "toggled") @@ ("suppress_packet_debug_data" :> "off"))) @@
  ("-h" :> Refused) @@ ("-v" :> Refused)

PluginOptions ==
  ("-vp" :> Text("video_parser")) @@
  ("-vd" :> Text("video_decoder")) @@
  ("-vc" :> Text("video_converter")) @@
  ("-vs" :> Text("videosink")) @@
  ("-as" :> Text("audiosink")) @@
  ("-t"  :> Refused) @@ ("-rpi" :> Refused) @@
  ("-nc" :> OnUnlessNo("new_window_closing_behavior", "off", "on")) @@
  ("-avdec" :> Flag(("video_parser" :> "h264parse") @@ ("video_decoder" :> "avdec_h264") @@
                    ("video_converter" :> "videoconvert"))) @@
  ("-v4l2"  :> Flag(("video_decoder" :> "v4l2h264dec") @@ ("video_converter" :> "v4l2convert")))

ScreenOptions ==
  ("-fs"      :> Flag("fullscreen" :> "on")) @@
  ("-FPSdata" :> Flag("show_client_FPS_data" :> "on")) @@
  ("-reset"   :> [next |-> "any",
                  sets |-> [a \in Arguments |-> IF a \in Numbers THEN "missed_feedback_limit" :> a
                                                ELSE Refusal]])

OutputOptions ==
  ("-vrtp" :> Text("rtp_pipeline")) @@
  ("-artp" :> Text("audio_rtp_pipeline")) @@
  ("-vdmp" :> Maybe("video_dumpfile_name", "dump_video" :> "on", "dump_video" :> "on")) @@
  ("-mp4"  :> Maybe("mux_filename", "mux_to_file" :> "on", "mux_to_file" :> "on")) @@
  ("-admp" :> Maybe("audio_dumpfile_name", "dump_audio" :> "on", "dump_audio" :> "on"))

FileOptions ==
  ("-ca"  :> Maybe("coverart_filename", "render_coverart" :> "off", "render_coverart" :> "on")) @@
  ("-md"  :> Checked("metadata_filename")) @@
  ("-ble" :> Maybe("ble_filename", <<>>, "ble_filename" :> "home"))

AccessOptions ==
  ("-bt709"  :> Flag("bt709_fix" :> "on")) @@
  ("-srgb"   :> OnUnlessNo("srgb_fix", "on", "off")) @@
  ("-nohold" :> Flag("nohold" :> "on")) @@
  ("-al"     :> Checked("audiodelay")) @@
  ("-pin"    :> Maybe("pin", ("setup_legacy_pairing" :> "on") @@ ("pin_pw" :> "pin"),
                      ("setup_legacy_pairing" :> "on") @@ ("pin_pw" :> "pin"))) @@
  ("-reg"    :> Maybe("pairing_register", "registration_list" :> "on",
                      ("registration_list" :> "on") @@ ("pairing_register" :> ""))) @@
  ("-key"    :> Maybe("keyfile", <<>>, "keyfile" :> "0")) @@
  ("-pw"     :> Maybe("password", ("setup_legacy_pairing" :> "off") @@ ("pin_pw" :> "password"),
                      ("setup_legacy_pairing" :> "off") @@ ("pin_pw" :> "random"))) @@
  ("-dacp"   :> Maybe("dacpfile", <<>>, "dacpfile" :> "home"))

(* A "-vol" out of range is taken and changes nothing.                     *)
SoundOptions ==
  ("-taper" :> Flag("taper_volume" :> "on")) @@
  ("-db"    :> [next |-> "any", sets |-> [a \in Arguments |-> IF a \in Valid THEN "db" :> a ELSE Refusal]]) @@
  ("-vol"   :> [next |-> "any",
                sets |-> [a \in Arguments |-> IF a = Absent THEN Refusal
                                              ELSE IF a \in Numbers THEN "initial_volume" :> a
                                              ELSE <<>>]]) @@
  ("-hls"   :> Maybe("playbin_version", "hls_support" :> "on", "hls_support" :> "on")) @@
  ("-lang"  :> Maybe("lang", <<>>, "lang" :> "")) @@
  ("-h265"  :> Flag("h265_support" :> "on")) @@
  ("-nofreeze" :> Flag("nofreeze" :> "on"))

Options == ClientOptions @@ TimingOptions @@ DisplayOptions @@ AddressOptions @@ PluginOptions @@
           ScreenOptions @@ OutputOptions @@ FileOptions @@ AccessOptions @@ SoundOptions

DashedWords == DOMAIN Options \union {"-dashed"}
Dashed(word) == word \in DashedWords

-----------------------------------------------------------------------------
(* The globals as the program is loaded.  `refused` is engine_error;       *)
(* `use_video` and the two derived names are set by Prepare.               *)
Loaded ==
  LET assigned == UNION {DOMAIN Options[o].sets[a] : o \in DOMAIN Options, a \in Arguments}
      empty == [g \in assigned |-> "off"]
  IN ("server_name" :> "XMirror") @@ ("do_append_hostname" :> "on") @@ ("video_sync" :> "on") @@
     ("new_window_closing_behavior" :> "on") @@ ("use_audio" :> "on") @@ ("use_video" :> "on") @@
     ("videosink" :> "autovideosink") @@ ("audiosink" :> "autoaudiosink") @@
     ("display_size" :> "") @@ ("pin_pw" :> "none") @@ ("video_parser" :> "h264parse") @@
     ("video_converter" :> "videoconvert") @@ ("bt709_fix" :> "off") @@ ("srgb_fix" :> "off") @@
     ("h265_support" :> "off") @@ ("refused" :> "off") @@ empty

(* An assignment reaches the globals; "-d" alone flips its own.            *)
Assign(globals, assigned) ==
  [g \in DOMAIN globals |->
     IF g \notin DOMAIN assigned THEN globals[g]
     ELSE IF assigned[g] # "toggled" THEN assigned[g]
     ELSE IF globals[g] = "on" THEN "off" ELSE "on"]

(* The word an option finds behind it, as far as it lets it be its value.  *)
Takes(option, word) ==
  CASE option.next = "never" -> FALSE
    [] option.next \in {"must", "may"} -> word # Absent /\ ~Dashed(word)
    [] option.next = "any" -> word # Absent
    [] option.next = "no" -> word = "no"
    [] OTHER -> word \in {"no", "bad"} \union Numbers

(* One turn of the loop; `parse` is where it stands and what it has set.   *)
Obey(words, parse) ==
  LET word == words[parse.at]
      next == IF parse.at < Len(words) THEN words[parse.at + 1] ELSE Absent
  IN IF word \notin DOMAIN Options
     THEN [at |-> parse.at + 1, globals |-> Assign(parse.globals, Refusal)]
     ELSE LET option == Options[word]
              taken == Takes(option, next)
              argument == IF ~taken THEN Absent ELSE IF next \in Values THEN next ELSE "bad"
          IN [at |-> parse.at + (IF taken THEN 2 ELSE 1),
              globals |-> Assign(parse.globals, option.sets[argument])]

Turn(words, parse) ==
  IF parse.at > Len(words) \/ parse.globals["refused"] = "on" THEN parse ELSE Obey(words, parse)

ParseArguments(words, globals) ==
  LET parsed[n \in 0..Len(words)] ==
        IF n = 0 THEN [at |-> 1, globals |-> globals] ELSE Turn(words, parsed[n - 1])
  IN parsed[Len(words)].globals

(* run_xmirror between the parsing and the renderers: sinks that are none, *)
(* the fixes appended to the pipeline elements, the name of the machine,   *)
(* and the default picture size.  All of it lands in the same globals.     *)
Prepare(globals) ==
  LET novideo == globals["videosink"] = "0"
      video == ~novideo /\ globals["use_video"] = "on"
      changed ==
        (IF globals["audiosink"] = "0"
         THEN ("use_audio" :> "off") @@ ("dump_audio" :> "off") ELSE <<>>) @@
        (IF novideo
         THEN ("use_video" :> "off") @@ ("videosink" :> "fakesink") @@ ("display_fps" :> "one")
         ELSE <<>>) @@
        (IF globals["bt709_fix"] = "on" /\ video
         THEN "video_parser" :> (globals["video_parser"] \o " ! bt709") ELSE <<>>) @@
        (IF globals["srgb_fix"] = "on" /\ video
         THEN "video_converter" :> (globals["video_converter"] \o " ! srgb") ELSE <<>>) @@
        (IF globals["do_append_hostname"] = "on"
         THEN "server_name" :> (globals["server_name"] \o "@host") ELSE <<>>) @@
        (IF globals["display_size"] = ""
         THEN "display_size" :> (IF globals["h265_support"] = "on" THEN "3840x2160" ELSE "1920x1080")
         ELSE <<>>)
  IN Assign(globals, changed)

(* What a start makes of a command line: the globals it found, assigned.   *)
(* engine_error is cleared first (xmirror.cpp:3450).                       *)
Started(words, globals) ==
  LET parsed == ParseArguments(words, Assign(globals, "refused" :> "off"))
  IN IF parsed["refused"] = "on" THEN parsed ELSE Prepare(parsed)
=============================================================================
