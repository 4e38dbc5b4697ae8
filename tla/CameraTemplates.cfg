SPECIFICATION SpecParts
CONSTANTS
  Parts = {"capabilities"}
  Modes <- MCModes
  gainMin = 1
  gainMax = 12
  gainDef = 5
  Means = {1, 150, 190, 200, 210, 230, 260, 400, 1023}
  Bayer <- MCBayer
  NV12 <- MCNV12
  NV21 <- MCNV21
  MinSize <- MCMinSize
  Captures <- MCCaptures
  Requested <- MCRequested
  MaxConfigs = 2
  MaxAsked = 2
  RequestedStreams <- MCRequestedStreams
  ToPixelFormat <- MCToPixelFormat
  Blob <- MCBlob
  Ycbcr <- MCYcbcr
  MaxStreams = 4
  MaxOutputs = 2
  InputFormats <- MCInputFormats
  BayerOrder <- MCBayerOrder
  InputSizes <- MCInputSizes
  OutputSizes <- MCOutputSizes
  MinInput = 2
  Align = 4
  One = 65536
  Other <- MCOther
  HalPlanes <- MCHalPlanes
  Boards <- MCBoards
  Devices <- MCDevices
  Wanted <- MCWanted
  MaxChanges = 1
  NotThere = None
  NoNumber = None
  NoReply = None
  Callbacks <- MCCallbacks
  Buffers <- MCBuffers
  BufferSizes <- MCBufferSizes
  Semiplanar <- MCSemiplanar
  Mjpeg <- MCMjpeg
  None = None
INVARIANT
  OnlyRegisteredIsRead
CHECK_DEADLOCK FALSE
