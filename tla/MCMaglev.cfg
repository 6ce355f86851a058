CONSTANTS
  MurmurHash3 <- MCMurmur
  RingSize = 5
  MaxEndpoints = 3
  Weights = {1, 2, 3}
SPECIFICATION Spec
INVARIANT TypeOK
INVARIANT RingFull
INVARIANT FrontLoadedV1
INVARIANT SmoothedV2
INVARIANT UnitWeightsAgree
CHECK_DEADLOCK FALSE
