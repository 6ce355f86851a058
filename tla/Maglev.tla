------------------------------- MODULE Maglev -------------------------------
(***************************************************************************)
(* The consistent-hash ring builders of src/pkg/ch: maglevHashV1          *)
(* (front-loaded weights) and maglevHashV2 (smoothed weights), as pure    *)
(* operators.  An endpoint is a record [num, weight, hash]; a ring is a   *)
(* function from 0..ringSize-1 to a backend num, or NoReal (-1) for a     *)
(* slot nobody claimed.  The loops of GenerateHashRing are RECURSIVE      *)
(* operators over a record holding the loop variables (result, next,      *)
(* weight, cumWeight, runs).                                              *)
(*                                                                         *)
(* MurmurHash3, which genMaglevPermutation calls, is not part of the      *)
(* repository: it is a CONSTANT operator, given by the MC module.         *)
(***************************************************************************)
EXTENDS Integers, Sequences, FiniteSets

CONSTANT MurmurHash3(_, _, _)

\* The seeds of genMaglevPermutation.  kHashSeed3 (2718281828) is beyond
\* TLC's integers; the seeds only tell the two mixes apart, so they are
\* kept as names.
kHashSeed0 == "kHashSeed0"
kHashSeed1 == "kHashSeed1"
kHashSeed2 == "kHashSeed2"
kHashSeed3 == "kHashSeed3"

\* ch.HashFunction values.
Maglev   == "Maglev"
MaglevV2 == "MaglevV2"
HashFunctions == {Maglev, MaglevV2}

\* Ring value of a slot no endpoint has claimed.
NoReal == -1

\* genMaglevPermutation: where endpoint e starts probing, and its stride.
Offset(e, ringSize) == MurmurHash3(e.hash, kHashSeed2, kHashSeed0) % ringSize
Skip(e, ringSize)   == (MurmurHash3(e.hash, kHashSeed3, kHashSeed1) % (ringSize - 1)) + 1

\* Ring position of endpoint e's probe number nx.
Slot(e, nx, ringSize) == (Offset(e, ringSize) + nx * Skip(e, ringSize)) % ringSize

\* The inner "for result[cur] >= 0 { next[i] += 1 }" loop: the first probe
\* number from nx on whose slot is still free.
RECURSIVE FreeProbe(_, _, _, _)
FreeProbe(result, e, nx, ringSize) ==
  IF result[Slot(e, nx, ringSize)] >= 0
  THEN FreeProbe(result, e, nx + 1, ringSize)
  ELSE nx

\* Endpoint e (index i) claims its next free slot: result[cur] = num,
\* next[i] += 1, runs++.
Claim(st, e, i, ringSize) ==
  LET nx  == FreeProbe(st.result, e, st.next[i], ringSize)
  IN  [st EXCEPT !.result[Slot(e, nx, ringSize)] = e.num,
                 !.next[i] = nx + 1,
                 !.runs = @ + 1]

\* Mutant: the ring is allocated one slot too long.
EmptyRingLong(ringSize) == [p \in 0..ringSize |-> NoReal]

EmptyRing(ringSize) == [p \in 0..ringSize - 1 |-> NoReal]

\* The loop variables when the scanning starts.
StartState(eps, ringSize) ==
  [result |-> EmptyRing(ringSize),
   next   |-> [i \in DOMAIN eps |-> 0],
   weight |-> [i \in DOMAIN eps |-> eps[i].weight],
   cum    |-> [i \in DOMAIN eps |-> 0],
   runs   |-> 0]

MaxWeight(eps) ==
  LET ws == {eps[i].weight : i \in DOMAIN eps}
  IN  CHOOSE m \in ws : \A w \in ws : m >= w

\* The branches both versions share: no endpoint leaves the ring empty, a
\* single endpoint takes every slot whatever its weight.
TrivialRing(eps, ringSize) ==
  IF Len(eps) = 0 THEN EmptyRing(ringSize)
  ELSE [p \in 0..ringSize - 1 |-> eps[1].num]

\* Mutant: the scan stops one claim early (runs = ringSize - 1).
RECURSIVE ScanV2StopEarly(_, _, _, _, _)
ScanV2StopEarly(st, eps, i, maxWeight, ringSize) ==
  IF st.runs = ringSize - 1 THEN st.result
  ELSE IF i > Len(eps) THEN ScanV2StopEarly(st, eps, 1, maxWeight, ringSize)
  ELSE LET cum == st.cum[i] + eps[i].weight
       IN  IF cum >= maxWeight
           THEN ScanV2StopEarly(Claim([st EXCEPT !.cum[i] = cum - maxWeight], eps[i], i, ringSize),
                       eps, i + 1, maxWeight, ringSize)
           ELSE ScanV2StopEarly([st EXCEPT !.cum[i] = cum], eps, i + 1, maxWeight, ringSize)

\* Mutant: cumWeight[i] -= maxWeight is missing.
RECURSIVE ScanV2NoSubtract(_, _, _, _, _)
ScanV2NoSubtract(st, eps, i, maxWeight, ringSize) ==
  IF st.runs = ringSize THEN st.result
  ELSE IF i > Len(eps) THEN ScanV2NoSubtract(st, eps, 1, maxWeight, ringSize)
  ELSE LET cum == st.cum[i] + eps[i].weight
       IN  IF cum >= maxWeight
           THEN ScanV2NoSubtract(Claim([st EXCEPT !.cum[i] = cum], eps[i], i, ringSize),
                       eps, i + 1, maxWeight, ringSize)
           ELSE ScanV2NoSubtract([st EXCEPT !.cum[i] = cum], eps, i + 1, maxWeight, ringSize)

\* Mutant: endpoints[i].Weight = 1 is missing, every scan claims the full weight.
RECURSIVE ScanV1NoReset(_, _, _, _, _)
ScanV1NoReset(st, eps, i, j, ringSize) ==
  IF st.runs = ringSize THEN st.result
  ELSE IF i > Len(eps) THEN ScanV1NoReset(st, eps, 1, 0, ringSize)
  ELSE IF j < st.weight[i]
       THEN ScanV1NoReset(Claim(st, eps[i], i, ringSize), eps, i, j + 1, ringSize)
       ELSE ScanV1NoReset(st, eps, i + 1, 0, ringSize)

\* Mutant: the weight loop runs j <= weight.
RECURSIVE ScanV1Inclusive(_, _, _, _, _)
ScanV1Inclusive(st, eps, i, j, ringSize) ==
  IF st.runs = ringSize THEN st.result
  ELSE IF i > Len(eps) THEN ScanV1Inclusive(st, eps, 1, 0, ringSize)
  ELSE IF j <= st.weight[i]
       THEN ScanV1Inclusive(Claim(st, eps[i], i, ringSize), eps, i, j + 1, ringSize)
       ELSE ScanV1Inclusive([st EXCEPT !.weight[i] = 1], eps, i + 1, 0, ringSize)

(***************************************************************************)
(* maglevHashV1: endpoint i claims weight[i] slots in a scan, then its    *)
(* weight is reset to 1 for every later scan; stop when runs = ringSize.  *)
(***************************************************************************)
RECURSIVE ScanV1(_, _, _, _, _)
ScanV1(st, eps, i, j, ringSize) ==
  IF st.runs = ringSize THEN st.result
  ELSE IF i > Len(eps) THEN ScanV1(st, eps, 1, 0, ringSize)
  ELSE IF j < st.weight[i]
       THEN ScanV1(Claim(st, eps[i], i, ringSize), eps, i, j + 1, ringSize)
       ELSE ScanV1([st EXCEPT !.weight[i] = 1], eps, i + 1, 0, ringSize)

GenerateHashRingV1(eps, ringSize) ==
  IF Len(eps) <= 1 THEN TrivialRing(eps, ringSize)
  ELSE ScanV1(StartState(eps, ringSize), eps, 1, 0, ringSize)

(***************************************************************************)
(* maglevHashV2: each scan adds weight[i] to cumWeight[i]; when it        *)
(* reaches the maximum weight, endpoint i claims one slot and the maximum *)
(* is subtracted.                                                          *)
(***************************************************************************)
RECURSIVE ScanV2(_, _, _, _, _)
ScanV2(st, eps, i, maxWeight, ringSize) ==
  IF st.runs = ringSize THEN st.result
  ELSE IF i > Len(eps) THEN ScanV2(st, eps, 1, maxWeight, ringSize)
  ELSE LET cum == st.cum[i] + eps[i].weight
       IN  IF cum >= maxWeight
           THEN ScanV2(Claim([st EXCEPT !.cum[i] = cum - maxWeight], eps[i], i, ringSize),
                       eps, i + 1, maxWeight, ringSize)
           ELSE ScanV2([st EXCEPT !.cum[i] = cum], eps, i + 1, maxWeight, ringSize)

GenerateHashRingV2(eps, ringSize) ==
  IF Len(eps) <= 1 THEN TrivialRing(eps, ringSize)
  ELSE ScanV2(StartState(eps, ringSize), eps, 1, MaxWeight(eps), ringSize)

\* ch.Make: MaglevV2 selects V2, anything else V1.
GenerateHashRing(hfunc, eps, ringSize) ==
  IF hfunc = MaglevV2 THEN GenerateHashRingV2(eps, ringSize)
  ELSE GenerateHashRingV1(eps, ringSize)

\* How many slots of ring r endpoint num holds.
SlotCount(r, num) == Cardinality({p \in DOMAIN r : r[p] = num})
=============================================================================
