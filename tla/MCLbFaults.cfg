CONSTANTS
  v1 = v1
  v2 = v2
  a1 = a1
  a2 = a2
  a3 = a3
  bad = bad
  VipKeys <- MCVipKeys
  V6Vips = {}
  VipPortProto <- MCVipPortProto
  Addrs <- MCAddrsWithBad
  InvalidAddrs = {bad}
  V6Addrs = {}
  AddrHash <- MCAddrHash
  MurmurHash3 <- MCMurmur
  MaxVips = 2
  MaxReals = 1
  RingSize = 2
  Weights = {2}
  VipFlagBits = {"NO_LRU"}
  RealFlagInputs = {{}, {"LOCAL_REAL"}}
  MaxBatch = 2
  DistinctBatches = TRUE
  FailableMaps = {"VipMap", "Reals", "ChRings"}
  MaxBpfFailures = 1
SPECIFICATION RetrySpec
SYMMETRY VipSymmetry
INVARIANT NumsPartitioned
INVARIANT RefCountsExact
PROPERTY FailuresCounted
PROPERTY ImplementsRegistry
