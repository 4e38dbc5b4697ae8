SPECIFICATION SpecParts
CONSTANTS
  Parts = {"pipelines"}
  r1 = r1
  r2 = r2
  r3 = r3
  viewfinder = viewfinder
  still = still
  Requests <- ThreeRequests
  Streams <- TwoStreams
  kNumInternalBuffers = 3
  null = null
  s1 = s1
  s2 = s2
  a = a
  x = x
  v1 = v1
  v2 = v2
  Graphs <- SmallGraphs
INVARIANTS
  SingleOptionFound
