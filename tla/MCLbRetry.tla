----------------------------- MODULE MCLbRetry -----------------------------
(***************************************************************************)
(* Instantiates LbRetry for TLC with the model values and hash stand-ins  *)
(* of MCFlomeshLb.  The liveness runs use no symmetry.                    *)
(***************************************************************************)
EXTENDS LbRetry

CONSTANTS v1, v2, a1, a2, a3, bad

MCVipKeys == {v1, v2}
MCAddrs2 == {a1, a2}
MCAddrsWithBad == {a1, a2, bad}
VipSymmetry == Permutations(MCVipKeys)
MCVipPortProto == [vk \in MCVipKeys |-> 80]
MCAddrHash == (a1 :> 11) @@ (a2 :> 12) @@ (a3 :> 13) @@ (bad :> 14)
MCMurmur(h, seed, seed2) ==
  IF seed = kHashSeed2 THEN (h * 7) % 5 ELSE (h * 3) % 4
=============================================================================
