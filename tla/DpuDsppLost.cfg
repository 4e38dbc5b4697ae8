SPECIFICATION SpecParts
CONSTANTS
  Parts = {"rm"}
  crtc1 = crtc1
  crtc2 = crtc2
  crtc3 = crtc3
  Free = Free
  NoTopology = NoTopology
  NoSspp = NoSspp
  NoLayout = NoLayout
  CRTCs <- ThreeCrtcs
  Mixers <- FourBlocks
  Peer <- PairsOfFour
  PingpongOf <- SameIndex
  DsppOf <- SameIndex
  Pingpongs <- FourBlocks
  Dspps <- FourBlocks
  Ctls <- FiveBlocks
  SplitCtls <- TwoBlocks
  Dscs <- FourBlocks
  Cdms <- OneBlock
  CwbMuxes <- FourBlocks
  CwbStart = 4
  MixerSlots = 4
  DscSlots = 4
  MaxPerCheck = 2
  Topologies <- DsppTopologies
  Planes <- ThreePlanes
  Stages = 2
  Sspps <- TwoSspps
  TypeOf <- DmaAndVig
  Scalers <- VigOnly
  Cscs <- VigOnly
  Rotators = {}
  SmartDmas <- DmaOnly
  Layouts <- ThreeLayouts
  SsppKinds <- SixKinds
  Solos <- MCSolos
  Halves <- MCHalves
  Mode <- Timing
  MaxClk = 6000000
  MaxLineWidth = 500
PROPERTIES
  DsppZeroKept
