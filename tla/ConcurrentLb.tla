---------------------------- MODULE ConcurrentLb ----------------------------
(***************************************************************************)
(* FlomeshLb behind the gRPC server of src/pkg/slb/server: grpc-go runs   *)
(* every RPC in a goroutine of its own (NewGrpc caps them only by         *)
(* MaxConcurrentStreams), and neither the server nor FlomeshLb takes a    *)
(* lock.  ModifyRealsForVip is split where another request can come in:  *)
(*   Begin   the lookup of `entry' and the curReals snapshot;             *)
(*   Step    one iteration of the loop over the request's reals;          *)
(*   Finish  entry.batchRealsUpdate and programHashRing.                  *)
(* Each step is taken as atomic.  The other handlers stay atomic actions. *)
(*                                                                         *)
(* `entry' is a *Vip.  When DelVip deletes the VIP while a goroutine still *)
(* holds the pointer, the goroutine goes on with the orphaned Vip: its    *)
(* updates land on an object no map names, and programHashRing still     *)
(* writes the ChRings slots of the num the orphan carries.                *)
(***************************************************************************)
EXTENDS FlomeshLb

CONSTANTS Goroutines,  \* the handler goroutines that run ModifyRealsForVip
          MaxRequests  \* bound on the ModifyRealsForVip requests of a run

VARIABLES req,    \* Goroutines -> the state of the handler each one runs
          begun   \* the ModifyRealsForVip requests begun so far

allVars == <<vars, req, begun>>

Idle == [pc |-> "idle"]

\* The locals of a running ModifyRealsForVip: the request, the loop index,
\* curReals, ureals, and the entry when DelVip has orphaned it (else the
\* entry is the live vips[vk]).
Running(action, batch, vk, curReals) ==
  [pc |-> "loop", action |-> action, batch |-> batch, vk |-> vk, i |-> 1,
   curReals |-> curReals, ureals |-> <<>>, orphan |-> FALSE, entry |-> Idle]

\* The Vip the goroutine's `entry' points to.
Entry(r) == IF r.orphan THEN r.entry ELSE vips[r.vk]

\* entry, exists := lb.vips[*vip]; curReals := entry.getReals()
Begin(g, action, batch, vk) ==
  /\ req[g] = Idle
  /\ begun < MaxRequests
  /\ vk \in DOMAIN vips
  /\ req' = [req EXCEPT ![g] = Running(action, batch, vk, DOMAIN vips[vk].reals)]
  /\ begun' = begun + 1
  /\ UNCHANGED vars

\* One pass of `for _, r := range reals' on the shared registry.
Step(g) ==
  LET r == req[g] IN
  /\ r.pc = "loop"
  /\ r.i <= Len(r.batch)
  /\ \E ok \in Outcomes("Reals") :
       LET S == ModifyStep(r.action, [curReals |-> r.curReals, ureals |-> r.ureals] @@ Registry,
                           r.batch[r.i], ok)
       IN /\ S.bpfFailedCalls <= MaxBpfFailures
          /\ reals' = S.reals
          /\ numToReals' = S.numToReals
          /\ realNums' = S.realNums
          /\ dpReals' = S.dpReals
          /\ bpfFailedCalls' = S.bpfFailedCalls
          /\ req' = [req EXCEPT ![g] = [r EXCEPT !.i = @ + 1, !.curReals = S.curReals,
                                                 !.ureals = S.ureals]]
  /\ UNCHANGED <<vipNums, vips, dpVips, dpRing, begun>>

\* chPositions := entry.batchRealsUpdate(ureals);
\* lb.programHashRing(chPositions, entry.num); return true
Finish(g) ==
  LET r == req[g]
      v == Entry(r)
      G == FoldLeft(ApplyUpdate, [reals |-> v.reals, changed |-> FALSE], r.ureals)
  IN /\ r.pc = "loop"
     /\ r.i > Len(r.batch)
     /\ \E eps \in ChangedEndpoints(G) :
          LET v2 == [v EXCEPT !.reals = G.reals, !.chRing = NewChRing(v, eps)] IN
          /\ IF r.orphan
             THEN UNCHANGED vips
             ELSE vips' = [vips EXCEPT ![r.vk] = v2]
          /\ ProgramHashRing(v.chRing, v2.chRing, v.num, bpfFailedCalls)
     /\ req' = [req EXCEPT ![g] = Idle]
     /\ UNCHANGED <<vipNums, realNums, reals, numToReals, dpVips, dpReals, begun>>

\* DelVip, run while goroutines hold the entry it deletes: they keep the
\* object as it was when it left lb.vips.
DelVipRacing(vk) ==
  /\ DelVip(vk)
  /\ req' = [g \in Goroutines |->
               IF req[g] # Idle /\ ~req[g].orphan /\ req[g].vk = vk
               THEN [req[g] EXCEPT !.orphan = TRUE, !.entry = vips[vk]]
               ELSE req[g]]
  /\ UNCHANGED begun

\* The handlers that stay atomic.
OtherHandler ==
  /\ \/ \E vk \in VipKeys, f \in SUBSET VipFlagBits : AddVip(vk, f)
     \/ \E vk \in VipKeys, f \in SUBSET VipFlagBits, set \in BOOLEAN : ModifyVip(vk, f, set)
     \/ \E a \in Addrs, f \in RealFlagInputs, set \in BOOLEAN : ModifyReal(a, f, set)
     \/ \E vk \in VipKeys, h \in HashFunctions : ChangeHashFunctionForVip(vk, h)
  /\ UNCHANGED <<req, begun>>

ConcInit == Init /\ req = [g \in Goroutines |-> Idle] /\ begun = 0

ConcNext ==
  \/ \E g \in Goroutines, vk \in VipKeys :
       \/ \E b \in Batches : Begin(g, ADD, b, vk)
       \/ \E b \in DelBatches : Begin(g, DEL, b, vk)
  \/ \E g \in Goroutines : Step(g) \/ Finish(g)
  \/ \E vk \in VipKeys : DelVipRacing(vk)
  \/ OtherHandler

ConcSpec == ConcInit /\ [][ConcNext]_allVars
-----------------------------------------------------------------------------

\* No handler is in the middle of a ModifyRealsForVip.
Quiescent == \A g \in Goroutines : req[g] = Idle

\* Once the handlers in flight have returned, a real's refCount is again
\* the number of VIPs holding it: two ModifyRealsForVip that add the same
\* real, each checking its own curReals snapshot, must not both count it.
RefCountsExactWhenQuiescent == Quiescent => RefCountsExact

\* Once the handlers in flight have returned, the dataplane mirrors memory:
\* a ModifyRealsForVip whose VIP was deleted under it must not program
\* ChRings slots of a num a new VIP now owns.
MirrorsWhenQuiescent == Quiescent => DataplaneMirrors
=============================================================================
