--------------------------- MODULE MCConcurrentLb ---------------------------
(***************************************************************************)
(* Instantiates ConcurrentLb for TLC with the model values and hash       *)
(* stand-ins of MCFlomeshLb and two handler goroutines.                    *)
(***************************************************************************)
EXTENDS ConcurrentLb

CONSTANTS v1, v2, a1, a2, a3, bad, g1, g2

MCVipKeys == {v1, v2}
MCAddrs2 == {a1, a2}
MCGoroutines == {g1, g2}
MCVipPortProto == [vk \in MCVipKeys |-> 80]
MCAddrHash == (a1 :> 11) @@ (a2 :> 12) @@ (a3 :> 13) @@ (bad :> 14)
MCMurmur(h, seed, seed2) ==
  IF seed = kHashSeed2 THEN (h * 7) % 5 ELSE (h * 3) % 4
=============================================================================
