SPECIFICATION DesktopSpec
CONSTANTS
  MaxVersion = 2
  Size = 2
  Ports = {1, 2}
  Files <- SampleFiles
  MaxChanged = 2
  MaxChanges = 1
  MaxRestarts = 2
  Pictures <- SamplePictures
  Monitors <- SampleMonitors
  OldMonitors <- SampleOld
  Target <- SampleTarget
  Frame <- SampleFrame
  Least <- SampleLeast
  Places <- SamplePlaces
  Drags <- SampleDrags
  MaxWindows = 2
  MaxCalls = 1
  MaxDrags = 1
  MaxMoves = 2
  Addresses = {1, 2}
  Modes <- SampleModes
  MaxServed = 2
INVARIANTS
  OnlyTheOfferIsInstalled
  BeaconIsTrue
  BothAreKept
  MirrorIsShaped
  AdvertisementIsTrue
PROPERTIES
  CancelIsHonoured
CHECK_DEADLOCK FALSE
