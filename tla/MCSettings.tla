------------------------------ MODULE MCSettings ------------------------------
EXTENDS Settings
(* Beside the shipped line: hand-written ones that meet what the window does; the
   last ends in an option that waits for a value. *)
SampleFiles == {
  <<"-vsync", "other", "-r", "other", "-ble", "good", "-s", "good">>,
  <<"-nohold", "-pin", "-fps", "other", "-reset", "0", "-d">>,
  <<"-pw", "good", "-nh", "-vol", "bad", "-nc", "-bt709">>,
  <<"-srgb", "-nh", "-vsync">>}
===============================================================================
