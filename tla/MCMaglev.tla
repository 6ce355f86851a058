------------------------------ MODULE MCMaglev ------------------------------
(***************************************************************************)
(* Checks the ring builders of Maglev over every small input: the state   *)
(* is the endpoint list handed to GenerateHashRing, built one endpoint at *)
(* a time, and the invariants are evaluated on both rings of every list.  *)
(*                                                                         *)
(* An endpoint's hash h stands for every (offset, skip) pair: MCMurmur    *)
(* decodes h so that, over Pairs consecutive hashes, genMaglevPermutation *)
(* yields each offset in 0..RingSize-1 with each skip in 1..RingSize-1.   *)
(* Endpoint k gets a hash in k*Pairs..(k+1)*Pairs-1, so the list is       *)
(* sorted by hash (as getEndpoints sorts it) and any pair can sit at any  *)
(* position.                                                               *)
(***************************************************************************)
EXTENDS Maglev, TLC

CONSTANTS RingSize, MaxEndpoints, Weights

ASSUME RingSize \in Nat /\ RingSize > 2
\* maglev only covers the ring when every skip is coprime with its size.
ASSUME \A d \in 2..RingSize - 1 : RingSize % d # 0
ASSUME Weights \subseteq Nat \ {0}

VARIABLE eps

Pairs == RingSize * (RingSize - 1)

MCMurmur(h, seed, seed2) ==
  IF seed = kHashSeed2 THEN h % Pairs ELSE (h % Pairs) \div RingSize

Init == eps = <<>>

AddEndpoint ==
  /\ Len(eps) < MaxEndpoints
  /\ \E p \in 0..Pairs - 1, w \in Weights :
       eps' = Append(eps, [num |-> Len(eps), weight |-> w,
                           hash |-> Len(eps) * Pairs + p])

Next == AddEndpoint

Spec == Init /\ [][Next]_eps

Ring1 == GenerateHashRing(Maglev, eps, RingSize)
Ring2 == GenerateHashRing(MaglevV2, eps, RingSize)

Nums == {eps[i].num : i \in DOMAIN eps}
TotalWeight == LET RECURSIVE S(_) S(k) == IF k = 0 THEN 0 ELSE eps[k].weight + S(k - 1)
               IN  S(Len(eps))

TypeOK ==
  /\ eps \in Seq([num : Nat, weight : Weights, hash : Nat])
  /\ Len(eps) <= MaxEndpoints
  /\ \A r \in {Ring1, Ring2} : r \in [0..RingSize - 1 -> Nums \cup {NoReal}]

\* Coverage: with at least one endpoint, both builders stop only when every
\* ring slot holds an endpoint's num (the runs == ringSize exit of
\* GenerateHashRing), and no slot holds anything else.
RingFull ==
  Len(eps) > 0 =>
    \A r \in {Ring1, Ring2} : \A p \in DOMAIN r : r[p] \in Nums

\* Front-loaded weighting (maglevHashV1): when the weights fit in the ring,
\* endpoint i holds weight[i] slots from the first scan plus the same
\* number t of later one-slot scans as every other endpoint, give or take
\* the last, partial scan.
FrontLoadedV1 ==
  (Len(eps) > 1 /\ TotalWeight <= RingSize) =>
    \E t \in 0..RingSize :
      \A i \in DOMAIN eps :
        SlotCount(Ring1, eps[i].num) - eps[i].weight \in {t, t + 1}

\* Smoothed weighting (maglevHashV2): after k scans endpoint i has claimed
\* floor(k * weight / maxWeight) slots; the ring fills during some scan k,
\* so each endpoint's count lies between its count after k-1 and k scans.
SmoothedV2 ==
  Len(eps) > 1 =>
    LET M == MaxWeight(eps) IN
    \E k \in 1..RingSize :
      \A i \in DOMAIN eps :
        SlotCount(Ring2, eps[i].num) \in
          ((k - 1) * eps[i].weight) \div M .. (k * eps[i].weight) \div M

\* With every weight 1 both versions are plain maglev: one claim per
\* endpoint per scan, so they must build the same ring.
UnitWeightsAgree ==
  (\A i \in DOMAIN eps : eps[i].weight = 1) => Ring1 = Ring2
=============================================================================
