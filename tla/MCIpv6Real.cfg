CONSTANTS
  v1 = v1
  v2 = v2
  a1 = a1
  a2 = a2
  a3 = a3
  bad = bad
  VipKeys <- MCVipKeys
  V6Vips = {}
  VipPortProto <- MCVipPortProto
  Addrs <- MCAddrs2
  InvalidAddrs = {}
  V6Addrs = {a2}
  AddrHash <- MCAddrHash
  MurmurHash3 <- MCMurmur
  MaxVips = 2
  MaxReals = 2
  RingSize = 2
  Weights = {0, 2}
  VipFlagBits = {}
  RealFlagInputs = {{}}
  MaxBatch = 2
  DistinctBatches = TRUE
  FailableMaps = {}
  MaxBpfFailures = 0
SPECIFICATION Spec
SYMMETRY VipSymmetry
INVARIANT RealFamilyKept
