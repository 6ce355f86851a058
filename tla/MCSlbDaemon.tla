---------------------------- MODULE MCSlbDaemon ----------------------------
(* Instantiates SlbSession (and with it SlbDaemon) for TLC: health-check   *)
(* keys, ChangeMac requests carrying two valid MACs, an 8-byte EUI-64 that *)
(* net.ParseMAC accepts and ChangeMac refuses, and an unparseable string,  *)
(* and slbc commands on two VIPs and two backends, one of them an address *)
(* ParseIP rejects, with known, empty and unknown flag names.             *)
EXTENDS SlbSession
CONSTANTS k1, k2, k3, k4, macA, macB, eui64, garbage, zeroMac,
          v1, v2, badVip, r1, badAddr
MCHcKeys == {k1, k2, k3, k4}
KeySymmetry == Permutations(MCHcKeys)
MCMacInputs == {macA, macB, eui64, garbage}
MCMacLength == (macA :> 6) @@ (macB :> 6) @@ (eui64 :> 8) @@ (garbage :> 0)
MCVipKeys == {v1, v2}
MCAddrs == {r1, badAddr}
MCVipFlagTable == "NO_LRU" :> "NO_LRU"
MCRealFlagTable == "LOCAL_REAL" :> "LOCAL_REAL"
MCFlagArgs == {"", "NO_LRU", "LOCAL_REAL", "bogus"}
=============================================================================
