------------------------------ MODULE LbStats ------------------------------
(***************************************************************************)
(* The per-CPU statistics of the dataplane and getLbStats, which every    *)
(* FlomeshLb statistics getter calls (src/pkg/slb/Lb.go).  A Stats or     *)
(* RealsStats entry is one LbStats {V1 packets, V2 bytes} per possible    *)
(* CPU; the dataplane adds to the entry of the CPU a packet arrives on.   *)
(* getLbStats asks adapter.GetPossibleCpus for the CPU count, looks the   *)
(* entry up and sums it.  The dataplane is BPF code outside src/: its     *)
(* counting is modelled from what the maps hold, without wrap-around      *)
(* (uint64 counters bounded by MaxCount here).                            *)
(*                                                                         *)
(* In this repository the server's statistics handlers panic "implement  *)
(* me", so no RPC reaches these getters; they are checked as the library  *)
(* functions they are.                                                    *)
(***************************************************************************)
EXTENDS Naturals, FiniteSets, Folds, Functions

CONSTANTS NrCpus,     \* the CPU count the possible-CPUs file gives
          Sizes,      \* packet sizes in bytes
          MaxCount,   \* bound on each CPU's byte counter in a run
          ReadsMayFail \* whether reading the CPU count or the entry may fail

Cpus == 1..NrCpus
Zero == [v1 |-> 0, v2 |-> 0]

VARIABLES percpu,  \* the LbStats of each CPU in the entry read
          got,     \* what the last getLbStats returned
          lookedUp \* whether that call summed a lookup (history, not code)

vars == <<percpu, got, lookedUp>>

Init == /\ percpu = [c \in Cpus |-> Zero]
        /\ got = Zero
        /\ lookedUp = FALSE

\* A packet of `size' bytes counted on CPU c.
Count(c, size) ==
  /\ percpu[c].v2 + size <= MaxCount
  /\ percpu' = [percpu EXCEPT ![c] = [v1 |-> @.v1 + 1, v2 |-> @.v2 + size]]
  /\ UNCHANGED <<got, lookedUp>>

\* The loop over the looked-up per-CPU values.
SumStats(stats) ==
  FoldFunction(LAMBDA s, acc : [v1 |-> acc.v1 + s.v1, v2 |-> acc.v2 + s.v1],
               Zero, stats)

\* The results GetPossibleCpus may give: the count; 0 and a nil error when
\* the file does not parse (the inner err shadows the outer one); 0 and
\* the read error.
PossibleCpus ==
  {[n |-> NrCpus, err |-> FALSE]}
  \cup (IF ReadsMayFail THEN {[n |-> 0, err |-> FALSE], [n |-> 0, err |-> TRUE]} ELSE {})

\* Whether BpfMapLookupElement finds the entry.
LookupOutcomes == IF ReadsMayFail THEN BOOLEAN ELSE {TRUE}

\* Whether getLbStats sums a lookup: not on a GetPossibleCpus error, on
\* fewer than one CPU, or on a failed lookup (which also counts a failed
\* BPF call).
LookupSummed(pc, lookupOk) == ~pc.err /\ pc.n >= 1 /\ lookupOk

\* What getLbStats returns: zeros unless the lookup was summed.
LbStatsResult(pc, lookupOk) ==
  IF LookupSummed(pc, lookupOk) THEN SumStats(percpu) ELSE Zero

GetLbStats ==
  /\ \E pc \in PossibleCpus, lookupOk \in LookupOutcomes :
       /\ got' = LbStatsResult(pc, lookupOk)
       /\ lookedUp' = LookupSummed(pc, lookupOk)
  /\ UNCHANGED percpu

Next == \/ \E c \in Cpus, size \in Sizes : Count(c, size)
        \/ GetLbStats

Spec == Init /\ [][Next]_vars
-----------------------------------------------------------------------------

\* The reference totals, CPU by CPU.
RECURSIVE TotalFrom(_, _, _)
TotalFrom(f, field, c) == IF c > NrCpus THEN 0 ELSE f[c][field] + TotalFrom(f, field, c + 1)

\* A read that summed a lookup.
Sampled == lookedUp' /\ UNCHANGED percpu

\* A getLbStats that looked the entry up returns, as V2, the bytes of every
\* possible CPU (LbStats.V2 is the byte counter the dataplane keeps).
BytesSummed == [][Sampled => got'.v2 = TotalFrom(percpu, "v2", 1)]_vars

\* Successive statistics samples never go back: the dataplane's counters
\* only grow, and a poller (such as slbc's ShowLruStats, which subtracts
\* uint64 samples) must be able to tell a missed sample from a real one.
SamplesNeverGoBack == [][got'.v1 >= got.v1]_vars
=============================================================================
