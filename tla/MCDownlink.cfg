SPECIFICATION FairSpec
CONSTANTS
  RecvCap = 2
  FrameBytes = 2
  BytesPerMs = 2
  ChunkSizes = {1, 3}
  MaxResponses = 2
  MaxSpeech = 1
  MaxDeltas = 3
INVARIANTS ItemAccounted ReportWithinHeard ToldUnlessFinished StaleAtMostOneChunk
PROPERTIES PlayedOut DownlinkEnds
CHECK_DEADLOCK FALSE
