SPECIFICATION Spec
CONSTANTS
  preview = preview
  snapshot = snapshot
  blob = blob
  NoBuffer = NoBuffer
  Streams <- ThreeStreams
  Mapped <- MCMapped
  Internal <- OnlyBlob
  Source <- MCSource
  Jpeg <- TwoJpegs
  ControlOps <- AllOps
  MaxRequests = 1
  MetadataFrames = {}
  MaxMetadata = 0
  MaxMetadataPackIndex = 4
  StartCanFail = FALSE
  GetBufferCanFail = TRUE
INVARIANTS
  StreamsHaveBuffers
CHECK_DEADLOCK FALSE
