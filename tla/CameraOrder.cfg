SPECIFICATION Spec
CONSTANTS
  preview = preview
  snapshot = snapshot
  blob = blob
  NoBuffer = NoBuffer
  Streams <- ThreeStreams
  Mapped <- MCMapped
  Internal <- OnlyBlob
  Source <- MCSource
  Jpeg <- TwoJpegs
  ControlOps <- Configure
  MaxRequests = 2
  MetadataFrames = {}
  MaxMetadata = 0
  MaxMetadataPackIndex = 5
  StartCanFail = FALSE
  GetBufferCanFail = FALSE
INVARIANTS
  NoDanglingReference
PROPERTIES
  ImplementsContract
