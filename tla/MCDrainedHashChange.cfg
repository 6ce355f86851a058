CONSTANTS
  v1 = v1
  v2 = v2
  a1 = a1
  a2 = a2
  a3 = a3
  bad = bad
  VipKeys <- MCVipKeys
  V6Vips = {}
  VipPortProto <- MCVipPortProto
  Addrs <- MCAddrs2
  InvalidAddrs = {}
  V6Addrs = {}
  AddrHash <- MCAddrHash
  MurmurHash3 <- MCMurmur
  MaxVips = 2
  MaxReals = 2
  RingSize = 3
  Weights = {0, 2}
  VipFlagBits = {}
  RealFlagInputs = {{}}
  MaxBatch = 2
  DistinctBatches = TRUE
  FailableMaps = {}
  MaxBpfFailures = 0
SPECIFICATION Spec
SYMMETRY VipSymmetry
INVARIANT RingMatchesWeighted
