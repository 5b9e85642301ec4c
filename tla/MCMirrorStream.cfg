SPECIFICATION Spec
CONSTANTS
  H = 2
  Times = {t1, t2}
  None = None
INVARIANTS
  MirrorFits
  PromisedSetsAreHeld
PROPERTIES
  SetsGoWithTheirFrame
  StopCompletes
CHECK_DEADLOCK FALSE
