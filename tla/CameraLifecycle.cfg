SPECIFICATION FairSpec
CONSTANTS
  preview = preview
  snapshot = snapshot
  blob = blob
  NoBuffer = NoBuffer
  Streams <- TwoStreams
  Mapped <- MCMapped
  Internal <- None
  Source <- MCSource
  Jpeg <- OneJpeg
  ControlOps <- AllOps
  MaxRequests = 2
  MetadataFrames = {1}
  MaxMetadata = 1
  MaxMetadataPackIndex = 4
  StartCanFail = TRUE
  GetBufferCanFail = FALSE
INVARIANTS
  TypeOK
  NothingPendingAtConfigure
  QueuedOnlyWhileRunning
  PackIndicesGrow
PROPERTIES
  FlushingAcceptsNothing
  FlushReturns
  RequestsAreAnswered
