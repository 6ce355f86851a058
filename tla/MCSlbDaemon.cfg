CONSTANTS
  k1 = k1
  k2 = k2
  k3 = k3
  k4 = k4
  HcKeys <- MCHcKeys
  macA = macA
  macB = macB
  eui64 = eui64
  garbage = garbage
  zeroMac = zeroMac
  MacInputs <- MCMacInputs
  MacLength <- MCMacLength
  ZeroMac <- zeroMac
  v1 = v1
  v2 = v2
  badVip = badVip
  r1 = r1
  badAddr = badAddr
  VipKeys <- MCVipKeys
  BadVipArg <- badVip
  Addrs <- MCAddrs
  InvalidAddrs = {badAddr}
  MaxReals = 1
  Weights = {1}
  VipFlagTable <- MCVipFlagTable
  RealFlagTable <- MCRealFlagTable
  FlagArgs <- MCFlagArgs
  MaxVips = 4
SPECIFICATION SessionSpec
SYMMETRY KeySymmetry
CHECK_DEADLOCK FALSE
INVARIANT TypeOK
INVARIANT HcNumsPartitioned
INVARIANT ServingMapsRegistered
INVARIANT MacAnswered
