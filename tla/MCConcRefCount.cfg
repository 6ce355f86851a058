CONSTANTS
  v1 = v1
  v2 = v2
  a1 = a1
  a2 = a2
  a3 = a3
  bad = bad
  g1 = g1
  g2 = g2
  Goroutines <- MCGoroutines
  MaxRequests = 2
  VipKeys <- MCVipKeys
  V6Vips = {}
  VipPortProto <- MCVipPortProto
  Addrs <- MCAddrs2
  InvalidAddrs = {}
  V6Addrs = {}
  AddrHash <- MCAddrHash
  MurmurHash3 <- MCMurmur
  MaxVips = 1
  MaxReals = 2
  RingSize = 2
  Weights = {2}
  VipFlagBits = {}
  RealFlagInputs = {{}}
  MaxBatch = 1
  DistinctBatches = TRUE
  FailableMaps = {}
  MaxBpfFailures = 0
SPECIFICATION ConcSpec
INVARIANT RefCountsExactWhenQuiescent
