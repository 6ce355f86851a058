---------------------------- MODULE MCFlomeshLb ----------------------------
(***************************************************************************)
(* Instantiates FlomeshLb for TLC: small sets of VIPs and addresses as    *)
(* model values, a prime ring of 3 slots, and fixed stand-ins for the     *)
(* two hash functions the code calls (fnv-64a of an address, MurmurHash3).*)
(***************************************************************************)
EXTENDS FlomeshLb

CONSTANTS v1, v2, a1, a2, a3, bad

MCVipKeys == {v1, v2}
MCAddrs == {a1, a2, a3}
MCAddrs2 == {a1, a2}
MCAddrsWithBad == {a1, a2, bad}
VipSymmetry == Permutations(MCVipKeys)
MCVipPortProto == [vk \in MCVipKeys |-> 80]

\* Distinct, non-zero address hashes; their order is the order
\* getEndpoints sorts the reals in.
MCAddrHash == (a1 :> 11) @@ (a2 :> 12) @@ (a3 :> 13) @@ (bad :> 14)

\* MurmurHash3 stand-in: spreads the address hashes (and the hash 0 a real
\* keeps until it gets a weight) over offsets and skips of a 3-slot ring.
MCMurmur(h, seed, seed2) ==
  IF seed = kHashSeed2 THEN (h * 7) % 5 ELSE (h * 3) % 4
=============================================================================
