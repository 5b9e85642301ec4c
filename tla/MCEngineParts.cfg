SPECIFICATION PartsSpec
CONSTANTS
  B = 4
  MaxLen = 9
  MaxTotal = 20
  Samples = 2
  Skew <- SkewOfClient
  Start = 10
  End = 13
  Timeout = 1
  Pause = 1
  Latency = 2
  Lifetime = 3
  Steps <- StepsOfClock
  Characters <- SampleCharacters
  Numerals <- SampleNumerals
  Requests <- SampleRequests
  Answers <- SampleAnswers
  BufferSize = 8
  ProtocolSize = 3
  Exchanges = 2
  Masters <- SampleMasters
  Medias <- SampleMedias
  Preferred <- SamplePreferred
  WithAudio = TRUE
  WithVideo = TRUE
  LastTime = 2
  Width = 8
  MaxFiles = 3
INVARIANTS
  InStep
  ClockIsTrue
  MessagesArriveWhole
  PlaylistsAreTrue
  FilesAreTrue
  PipelinesFit
CHECK_DEADLOCK FALSE
