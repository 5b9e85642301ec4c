SPECIFICATION AudioSpec
CONSTANTS
  L = 2
  W = 8
  Origin = 6
  MaxFrame = 9
  Kinds = {volume}
  MaxPost = 2
  MaxStream = 2
INVARIANTS
  AudioFits
  NoStaleFrames
PROPERTIES
  ControlIsServed
CHECK_DEADLOCK FALSE
