----------------------------- MODULE FlomeshLb -----------------------------
(***************************************************************************)
(* The control plane of src/pkg/slb (FlomeshLb, Vip): the VIP table, the  *)
(* real (backend) registry with its reference counts, the FIFO pools of   *)
(* VIP and real numbers (stack.Stack used with PushBack/PopFront), each   *)
(* VIP's consistent-hash ring and the three dataplane maps the control    *)
(* plane writes (VipMap, Reals, ChRings).                                 *)
(*                                                                         *)
(* Every RPC handler is one atomic action: the server calls them one at a *)
(* time here (MC modules may add concurrency).  The loops over a request's *)
(* reals are folds over the request.  Go maps are TLA+ functions whose    *)
(* domain is the set of present keys.                                      *)
(*                                                                         *)
(* The configuration is the one NewL4SlbControlServer builds:             *)
(* disableForwarding and testing are false, so every early return on      *)
(* them is dead and every dataplane write happens.  A dataplane write may *)
(* fail, for a map in FailableMaps, until lbStats.bpfFailedCalls reaches *)
(* MaxBpfFailures; the handler then carries on as the code does.          *)
(***************************************************************************)
EXTENDS Maglev, SequencesExt, Functions, TLC

CONSTANTS
  VipKeys,         \* the VipKey values requests name
  V6Vips,          \* VipKeys whose address is IPv6
  VipPortProto,    \* VipKeys -> the (port, proto) part of the key
  Addrs,           \* the real addresses requests name
  InvalidAddrs,    \* addresses net.ParseIP rejects
  V6Addrs,         \* IPv6 real addresses
  AddrHash,        \* IPAddress.hash(): fnv-64a of the address, Addrs -> Nat
  MaxVips,         \* config.maxVips
  MaxReals,        \* config.maxReals
  RingSize,        \* config.chRingSize
  Weights,         \* weights a request may carry
  VipFlagBits,     \* VIP flag names (NO_SPORT, NO_LRU, ...)
  RealFlagInputs,  \* flag sets a request may carry for a real
  MaxBatch,        \* most reals in one ModifyRealsForVip request
  DistinctBatches, \* TRUE: no request names the same address twice
  FailableMaps,    \* the dataplane maps whose writes may fail
  MaxBpfFailures   \* bound on lbStats.bpfFailedCalls: failures a run may see

ASSUME InvalidAddrs \subseteq Addrs /\ V6Addrs \subseteq Addrs \ InvalidAddrs
ASSUME V6Vips \subseteq VipKeys
ASSUME \A a \in Addrs : AddrHash[a] \in Nat \ {0}
ASSUME MaxVips \in Nat /\ MaxReals \in Nat /\ RingSize \in Nat \ {0, 1}
ASSUME DistinctBatches \in BOOLEAN /\ MaxBpfFailures \in Nat
ASSUME FailableMaps \subseteq {"VipMap", "Reals", "ChRings"}

VARIABLES
  vipNums,     \* free VIP numbers, oldest first (lb.vipNums)
  realNums,    \* free real numbers, oldest first (lb.realNums)
  vips,        \* VipKey -> Vip (lb.vips)
  reals,       \* address -> RealMeta [num, refCount, flags] (lb.reals)
  numToReals,  \* real num -> address (lb.numToReals)
  dpVips,      \* dataplane VipMap: VipDefinition -> [vipNum, flags]
  dpReals,     \* dataplane Reals: real num -> [addr, flags]
  dpRing,      \* dataplane ChRings: vipNum * RingSize + pos -> real num
  bpfFailedCalls  \* lb.lbStats.bpfFailedCalls: dataplane writes that failed

vars == <<vipNums, realNums, vips, reals, numToReals, dpVips, dpReals, dpRing,
          bpfFailedCalls>>

V6DADDR == "V6DADDR"
ADD == "ADD"
DEL == "DEL"

VipNumSet  == 0..MaxVips - 1
RealNumSet == 0..MaxReals - 1
Positions  == 0..RingSize - 1

\* An empty Go map.
EmptyMap == [x \in {} |-> 0]

\* Go's map assignment m[k] = v and delete(m, k).
Put(m, k, v) == (k :> v) @@ m
Delete(m, k) == Restrict(m, DOMAIN m \ {k})

\* stack.Stack as the code uses it, a FIFO queue: PushBack appends a
\* released number, PopFront removes the oldest one (Head reads it).
PushBack(pool, n) == Append(pool, n)
PopFront(pool) == Tail(pool)

\* Outcomes a write to dataplane map m may have: BpfUpdateMap or
\* BpfMapDeleteElement returns an error (FALSE) or not.
Outcomes(m) ==
  IF m \in FailableMaps /\ bpfFailedCalls < MaxBpfFailures THEN BOOLEAN ELSE {TRUE}

\* The increment of bpfFailedCalls that follows a failed write.
Failed(ok) == IF ok THEN 0 ELSE 1

\* vipKeyToVipDefinition: an IPv4 VIP is copied in; for an IPv6 VIP the
\* code passes the nil ip4Addr to SetVip6, which leaves the address zero.
VipDefinition(vk) ==
  IF vk \in V6Vips THEN <<"zero-address", VipPortProto[vk]>> ELSE <<vk>>

\* The BeAddr record updateRealsMap writes: SetAddr copies the address and,
\* for an IPv6 one, sets flags = V6DADDR; SetFlags then assigns the
\* caller's flags, from which V6DADDR has been cleared.
SetAddr(a) == [addr |-> a, flags |-> IF a \in V6Addrs THEN {V6DADDR} ELSE {}]
BeAddr(a, flags) == [SetAddr(a) EXCEPT !.flags = flags \ {V6DADDR}]

\* NewVip: every ring slot -1, no reals.
NewVip(num, flags, hfunc) ==
  [num |-> num, flags |-> flags, hfunc |-> hfunc,
   chRing |-> [p \in Positions |-> NoReal], reals |-> EmptyMap]

\* The orders sort.Sort may leave a set of endpoints in: ascending hash,
\* equal hashes in any order (sort.Sort is not stable and the input comes
\* from a map iteration).
SortedByHash(E) ==
  {s \in SetToSeqs(E) : IsSorted(s, LAMBDA x, y : x.hash <= y.hash)}

(***************************************************************************)
(* The real registry: increaseRefCountForReal and decreaseRefCountForReal *)
(* on a record S holding reals, numToReals, realNums and dpReals.         *)
(***************************************************************************)

\* increaseRefCountForReal on an address already known.
IncRefCount(S, a) == [S EXCEPT !.reals[a].refCount = @ + 1]

\* increaseRefCountForReal on a new address with a free num: pop the
\* oldest num, record it both ways, push the real to the dataplane (ok is
\* the outcome of updateRealsMap).  No RealsIdCallback is ever set by the
\* server, so the callback is not called.
NewRealMeta(S, a, flags, ok) ==
  LET rnum == Head(S.realNums)
      f    == flags \ {V6DADDR}
  IN  [S EXCEPT !.realNums   = PopFront(@),
                !.numToReals = Put(@, rnum, a),
                !.reals      = Put(@, a, [num |-> rnum, refCount |-> 1, flags |-> f]),
                !.dpReals    = IF ok THEN Put(@, rnum, BeAddr(a, f)) ELSE @,
                !.bpfFailedCalls = @ + Failed(ok)]

\* Mutant: the freed num is not pushed back to the pool.
DecreaseRefCountNoRecycle(S, a) ==
  IF a \notin DOMAIN S.reals THEN S
  ELSE LET e == S.reals[a] IN
       IF e.refCount - 1 = 0
       THEN [S EXCEPT !.reals = Delete(@, a), !.numToReals = Delete(@, e.num)]
       ELSE [S EXCEPT !.reals[a].refCount = @ - 1]

\* Mutant: the zero test reads the count before the decrement.
DecreaseRefCountLate(S, a) ==
  IF a \notin DOMAIN S.reals THEN S
  ELSE LET e == S.reals[a] IN
       IF e.refCount = 0
       THEN [S EXCEPT !.realNums   = PushBack(@, e.num),
                      !.reals      = Delete(@, a),
                      !.numToReals = Delete(@, e.num)]
       ELSE [S EXCEPT !.reals[a].refCount = @ - 1]

\* decreaseRefCountForReal: at zero the num goes back to the pool and both
\* maps forget the real.
DecreaseRefCount(S, a) ==
  IF a \notin DOMAIN S.reals THEN S
  ELSE LET e == S.reals[a] IN
       IF e.refCount - 1 = 0
       THEN [S EXCEPT !.realNums   = PushBack(@, e.num),
                      !.reals      = Delete(@, a),
                      !.numToReals = Delete(@, e.num)]
       ELSE [S EXCEPT !.reals[a].refCount = @ - 1]

Registry == [reals |-> reals, numToReals |-> numToReals,
             realNums |-> realNums, dpReals |-> dpReals,
             bpfFailedCalls |-> bpfFailedCalls]

(***************************************************************************)
(* Vip: getEndpoints, getRealsAndWeight and calculateHashRing.            *)
(***************************************************************************)

\* Mutant: a new weight is stored but realsChanged is not set.
ApplyUpdateNoChange(G, u) ==
  IF u.action = DEL
  THEN [reals |-> Delete(G.reals, u.num), changed |-> TRUE]
  ELSE [reals |-> Put(G.reals, u.num, [weight |-> u.weight, hash |-> u.hash]),
        changed |-> G.changed]

\* One UpdateReal applied to the VIP's reals by getEndpoints; G is
\* [reals, changed].  A DEL always counts as a change; an ADD creates the
\* entry with weight 0 and takes the new weight and hash only if the
\* weight differs.
ApplyUpdate(G, u) ==
  IF u.action = DEL
  THEN [reals |-> Delete(G.reals, u.num), changed |-> TRUE]
  ELSE LET cur == IF u.num \in DOMAIN G.reals THEN G.reals[u.num]
                  ELSE [weight |-> 0, hash |-> 0]
       IN  IF cur.weight # u.weight
           THEN [reals |-> Put(G.reals, u.num, [weight |-> u.weight, hash |-> u.hash]),
                 changed |-> TRUE]
           ELSE [reals |-> Put(G.reals, u.num, cur), changed |-> G.changed]

\* The endpoint set of a VIP's reals map.
EndpointSet(vr) ==
  {[num |-> n, weight |-> vr[n].weight, hash |-> vr[n].hash] : n \in DOMAIN vr}

\* getEndpoints after the updates: nothing when no real changed, else the
\* reals of non-zero weight sorted by hash.
ChangedEndpoints(G) ==
  IF G.changed
  THEN SortedByHash({e \in EndpointSet(G.reals) : e.weight # 0})
  ELSE {<<>>}

\* calculateHashRing: with no endpoint the ring is left as it was, else it
\* becomes the generated ring (every differing slot is copied over).
NewChRing(v, eps) ==
  IF Len(eps) > 0 THEN GenerateHashRing(v.hfunc, eps, RingSize) ELSE v.chRing

\* Mutant: the key/value loop stops one short (i < updateSize - 1).
ProgramHashRingSkipLast(old, new, vnum, failed) ==
  LET delta == SetToSortSeq({p \in Positions : new[p] # old[p]}, <)
  IN  /\ dpRing' = [key \in {vnum * RingSize + delta[i] : i \in 1..Len(delta) - 1} |->
                      new[key - vnum * RingSize]] @@ dpRing
      /\ bpfFailedCalls' = failed

\* Mutant: BpfUpdateMapBatch drops the numUpdated # count check, so a
\* batch that wrote only a prefix counts as a success.
ProgramHashRingUncounted(old, new, vnum, failed) ==
  LET delta == SetToSortSeq({p \in Positions : new[p] # old[p]}, <)
      done  == IF "ChRings" \in FailableMaps /\ failed < MaxBpfFailures
               THEN 0..Len(delta) ELSE {Len(delta)}
  IN  \E k \in done :
        /\ dpRing' = [key \in {vnum * RingSize + delta[i] : i \in 1..k} |->
                        new[key - vnum * RingSize]] @@ dpRing
        /\ bpfFailedCalls' = failed + (IF k = 0 THEN 1 ELSE 0)

\* programHashRing: the slots where the ring changed, in position order,
\* written in one BpfUpdateMapBatch under key vipNum * chRingSize + pos.  A
\* batch that writes fewer than all (numUpdated # count) is an error, and
\* bpfFailedCalls, `failed' before the call, goes up by one.  Nothing is
\* sent for an empty delta.
ProgramHashRing(old, new, vnum, failed) ==
  LET delta == SetToSortSeq({p \in Positions : new[p] # old[p]}, <)
      done  == IF "ChRings" \in FailableMaps /\ failed < MaxBpfFailures
               THEN 0..Len(delta) ELSE {Len(delta)}
  IN  \E k \in done :
        /\ dpRing' = [key \in {vnum * RingSize + delta[i] : i \in 1..k} |->
                        new[key - vnum * RingSize]] @@ dpRing
        /\ bpfFailedCalls' = failed + (IF k < Len(delta) THEN 1 ELSE 0)

(***************************************************************************)
(* The handlers.                                                           *)
(***************************************************************************)

\* AddVip: fails (no change) when the pool is empty or the key exists.
AddVip(vk, flags) ==
  /\ Len(vipNums) # 0
  /\ vk \notin DOMAIN vips
  /\ LET vipNum == Head(vipNums) IN
     /\ vipNums' = PopFront(vipNums)
     /\ vips' = Put(vips, vk, NewVip(vipNum, flags, Maglev))
     /\ \E ok \in Outcomes("VipMap") :
          /\ dpVips' = IF ok THEN Put(dpVips, VipDefinition(vk), [vipNum |-> vipNum, flags |-> flags])
                       ELSE dpVips
          /\ bpfFailedCalls' = bpfFailedCalls + Failed(ok)
  /\ UNCHANGED <<realNums, reals, numToReals, dpReals, dpRing>>

\* DelVip: release every real the VIP holds, return its num, delete the
\* VipMap entry and the VIP.  The ring entries in ChRings stay.
DelVip(vk) ==
  /\ vk \in DOMAIN vips
  /\ LET entry == vips[vk]
         Release(S, rnum) ==
           IF rnum \in DOMAIN S.numToReals THEN DecreaseRefCount(S, S.numToReals[rnum])
           ELSE S   \* numToReals yields "", which is no real
         S == FoldSet(LAMBDA rnum, acc : Release(acc, rnum), Registry, DOMAIN entry.reals)
     IN  /\ reals' = S.reals
         /\ numToReals' = S.numToReals
         /\ realNums' = S.realNums
         /\ vipNums' = PushBack(vipNums, entry.num)
         /\ \E ok \in Outcomes("VipMap") :
              /\ dpVips' = IF ok THEN Delete(dpVips, VipDefinition(vk)) ELSE dpVips
              /\ bpfFailedCalls' = bpfFailedCalls + Failed(ok)
         /\ vips' = Delete(vips, vk)
  /\ UNCHANGED <<dpReals, dpRing>>

\* ModifyVip: set or clear VIP flags and push the VipMeta again.
ModifyVip(vk, flag, set) ==
  /\ vk \in DOMAIN vips
  /\ LET fl == IF set THEN vips[vk].flags \cup flag ELSE vips[vk].flags \ flag IN
     /\ vips' = [vips EXCEPT ![vk].flags = fl]
     /\ \E ok \in Outcomes("VipMap") :
          /\ dpVips' = IF ok THEN Put(dpVips, VipDefinition(vk), [vipNum |-> vips[vk].num, flags |-> fl])
                       ELSE dpVips
          /\ bpfFailedCalls' = bpfFailedCalls + Failed(ok)
  /\ UNCHANGED <<vipNums, realNums, reals, numToReals, dpReals, dpRing>>

\* ModifyReal: set or clear a known real's flags, keeping V6DADDR out of
\* the caller's bits, and push the real again.
ModifyReal(a, flags, set) ==
  /\ a \notin InvalidAddrs
  /\ a \in DOMAIN reals
  /\ LET f  == flags \ {V6DADDR}
         fl == IF set THEN reals[a].flags \cup f ELSE reals[a].flags \ f
     IN  /\ reals' = [reals EXCEPT ![a].flags = fl]
         /\ \E ok \in Outcomes("Reals") :
              /\ dpReals' = IF ok THEN Put(dpReals, reals[a].num, BeAddr(a, fl)) ELSE dpReals
              /\ bpfFailedCalls' = bpfFailedCalls + Failed(ok)
  /\ UNCHANGED <<vipNums, realNums, vips, numToReals, dpVips, dpRing>>

\* Mutant: the ADD of a known real increments its refCount without
\* checking curReals.
ModifyStepAlwaysInc(action, S, r, ok) ==
  LET a == r.address IN
  IF a \in InvalidAddrs THEN S
  ELSE IF action = DEL
  THEN IF a \notin DOMAIN S.reals \/ S.reals[a].num \notin S.curReals THEN S
       ELSE [DecreaseRefCount(S, a) EXCEPT
               !.ureals = Append(@, [action |-> DEL, num |-> S.reals[a].num,
                                     weight |-> 0, hash |-> 0])]
  ELSE LET upd(n) == [action |-> ADD, num |-> n, weight |-> r.weight, hash |-> AddrHash[a]]
       IN  IF a \in DOMAIN S.reals
           THEN [IncRefCount(S, a) EXCEPT !.curReals = @ \cup {S.reals[a].num},
                                          !.ureals = Append(@, upd(S.reals[a].num))]
           ELSE IF S.realNums = <<>> THEN S
           ELSE [NewRealMeta(S, a, r.flags, ok) EXCEPT
                   !.ureals = Append(@, upd(Head(S.realNums)))]

\* Mutant: a DEL releases the real without checking that the VIP holds it.
ModifyStepDelUnchecked(action, S, r, ok) ==
  LET a == r.address IN
  IF a \in InvalidAddrs THEN S
  ELSE IF action = DEL
  THEN IF a \notin DOMAIN S.reals THEN S
       ELSE [DecreaseRefCount(S, a) EXCEPT
               !.ureals = Append(@, [action |-> DEL, num |-> S.reals[a].num,
                                     weight |-> 0, hash |-> 0])]
  ELSE LET upd(n) == [action |-> ADD, num |-> n, weight |-> r.weight, hash |-> AddrHash[a]]
       IN  IF a \in DOMAIN S.reals
           THEN LET n  == S.reals[a].num
                    S1 == IF n \notin S.curReals
                          THEN [IncRefCount(S, a) EXCEPT !.curReals = @ \cup {n}]
                          ELSE S
                IN  [S1 EXCEPT !.ureals = Append(@, upd(n))]
           ELSE IF S.realNums = <<>> THEN S
           ELSE [NewRealMeta(S, a, r.flags, ok) EXCEPT
                   !.ureals = Append(@, upd(Head(S.realNums)))]

\* One iteration of ModifyRealsForVip's loop over the request's reals,
\* on S = Registry plus curReals (the VIP's real nums read before the
\* loop, grown when a known real is added) and ureals (the UpdateReals
\* built so far).  ok is the outcome of this real's updateRealsMap.
ModifyStep(action, S, r, ok) ==
  LET a == r.address IN
  IF a \in InvalidAddrs THEN S
  ELSE IF action = DEL
  THEN IF a \notin DOMAIN S.reals \/ S.reals[a].num \notin S.curReals THEN S
       ELSE [DecreaseRefCount(S, a) EXCEPT
               !.ureals = Append(@, [action |-> DEL, num |-> S.reals[a].num,
                                     weight |-> 0, hash |-> 0])]
  ELSE LET upd(n) == [action |-> ADD, num |-> n, weight |-> r.weight, hash |-> AddrHash[a]]
       IN  IF a \in DOMAIN S.reals
           THEN LET n  == S.reals[a].num
                    S1 == IF n \notin S.curReals
                          THEN [IncRefCount(S, a) EXCEPT !.curReals = @ \cup {n}]
                          ELSE S
                IN  [S1 EXCEPT !.ureals = Append(@, upd(n))]
           ELSE IF S.realNums = <<>> THEN S   \* rnum == maxReals: exhausted
           ELSE [NewRealMeta(S, a, r.flags, ok) EXCEPT
                   !.ureals = Append(@, upd(Head(S.realNums)))]

\* The reals lists a request may carry.
NewReals == [address : Addrs, weight : Weights, flags : RealFlagInputs]
Batches ==
  {b \in UNION {[1..n -> NewReals] : n \in 1..MaxBatch} :
     DistinctBatches => \A i, j \in DOMAIN b : i # j => b[i].address # b[j].address}

\* The DEL path never reads a real's weight or flags: one value of each
\* stands for all.
DelBatches ==
  {b \in Batches : \A i \in DOMAIN b :
     b[i].weight = Min(Weights) /\ b[i].flags = CHOOSE f \in RealFlagInputs : TRUE}

\* ModifyRealsForVip (and AddRealForVip / DelRealForVip, which call it
\* with one real): update the registry real by real, apply the updates to
\* the VIP (batchRealsUpdate) and program the changed ring slots.
ModifyRealsForVip(action, batch, vk) ==
  /\ vk \in DOMAIN vips
  /\ \E oks \in [DOMAIN batch -> Outcomes("Reals")] :
     LET v  == vips[vk]
         S0 == [curReals |-> DOMAIN v.reals, ureals |-> <<>>] @@ Registry
         S  == FoldLeft(LAMBDA acc, i : ModifyStep(action, acc, batch[i], oks[i]),
                        S0, [i \in DOMAIN batch |-> i])
         G  == FoldLeft(ApplyUpdate, [reals |-> v.reals, changed |-> FALSE], S.ureals)
     IN  /\ S.bpfFailedCalls <= MaxBpfFailures
         /\ \E eps \in ChangedEndpoints(G) :
           LET ring == NewChRing(v, eps) IN
           /\ vips' = [vips EXCEPT ![vk].reals = G.reals, ![vk].chRing = ring]
           /\ ProgramHashRing(v.chRing, ring, v.num, S.bpfFailedCalls)
           /\ reals' = S.reals
           /\ numToReals' = S.numToReals
           /\ realNums' = S.realNums
           /\ dpReals' = S.dpReals
  /\ UNCHANGED <<vipNums, dpVips>>

\* ChangeHashFunctionForVip: switch the builder and recompute the ring
\* from getRealsAndWeight, i.e. from every real of the VIP, weight 0 too.
ChangeHashFunctionForVip(vk, hfunc) ==
  /\ vk \in DOMAIN vips
  /\ LET v == [vips[vk] EXCEPT !.hfunc = hfunc] IN
     \E eps \in SortedByHash(EndpointSet(v.reals)) :
       LET ring == NewChRing(v, eps) IN
       /\ vips' = [vips EXCEPT ![vk] = [v EXCEPT !.chRing = ring]]
       /\ ProgramHashRing(v.chRing, ring, v.num, bpfFailedCalls)
  /\ UNCHANGED <<vipNums, realNums, reals, numToReals, dpVips, dpReals>>

Init ==
  /\ vipNums = [i \in 1..MaxVips |-> i - 1]
  /\ realNums = [i \in 1..MaxReals |-> i - 1]
  /\ vips = EmptyMap
  /\ reals = EmptyMap
  /\ numToReals = EmptyMap
  /\ dpVips = EmptyMap
  /\ dpReals = EmptyMap
  /\ dpRing = EmptyMap
  /\ bpfFailedCalls = 0

Next ==
  \/ \E vk \in VipKeys, f \in SUBSET VipFlagBits : AddVip(vk, f)
  \/ \E vk \in VipKeys : DelVip(vk)
  \/ \E vk \in VipKeys, f \in SUBSET VipFlagBits, set \in BOOLEAN : ModifyVip(vk, f, set)
  \/ \E a \in Addrs, f \in RealFlagInputs, set \in BOOLEAN : ModifyReal(a, f, set)
  \/ \E vk \in VipKeys, b \in Batches : ModifyRealsForVip(ADD, b, vk)
  \/ \E vk \in VipKeys, b \in DelBatches : ModifyRealsForVip(DEL, b, vk)
  \/ \E vk \in VipKeys, h \in HashFunctions : ChangeHashFunctionForVip(vk, h)

Spec == Init /\ [][Next]_vars

-----------------------------------------------------------------------------
RealNum == RealNumSet \cup {NoReal}

TypeOK ==
  /\ vipNums \in Seq(VipNumSet) /\ realNums \in Seq(RealNumSet)
  /\ DOMAIN vips \subseteq VipKeys
  /\ \A vk \in DOMAIN vips :
       /\ vips[vk].num \in VipNumSet
       /\ vips[vk].flags \subseteq VipFlagBits
       /\ vips[vk].hfunc \in HashFunctions
       /\ vips[vk].chRing \in [Positions -> RealNum]
       /\ DOMAIN vips[vk].reals \subseteq RealNumSet
       /\ \A n \in DOMAIN vips[vk].reals : vips[vk].reals[n].weight \in Weights
  /\ DOMAIN reals \subseteq Addrs \ InvalidAddrs
  /\ \A a \in DOMAIN reals :
       reals[a] \in [num : RealNumSet, refCount : Nat \ {0}, flags : SUBSET UNION RealFlagInputs]
  /\ numToReals \in [DOMAIN numToReals -> Addrs] /\ DOMAIN numToReals \subseteq RealNumSet
  /\ DOMAIN dpReals \subseteq RealNumSet
  /\ DOMAIN dpRing \subseteq 0..(MaxVips * RingSize - 1)
  /\ bpfFailedCalls \in 0..MaxBpfFailures

\* Every VIP num and every real num is either in its free pool, once, or
\* held by exactly one VIP / one real, never both: the pools are refilled
\* by DelVip and decreaseRefCountForReal and drained by AddVip and
\* increaseRefCountForReal, and numToReals is the inverse of reals.
NumsPartitioned ==
  /\ IsInjective(vipNums) /\ IsInjective(realNums)
  /\ \A v1, v2 \in DOMAIN vips : v1 # v2 => vips[v1].num # vips[v2].num
  /\ Range(vipNums) \cup {vips[vk].num : vk \in DOMAIN vips} = VipNumSet
  /\ Range(vipNums) \cap {vips[vk].num : vk \in DOMAIN vips} = {}
  /\ Range(realNums) \cup DOMAIN numToReals = RealNumSet
  /\ Range(realNums) \cap DOMAIN numToReals = {}
  /\ \A a \in DOMAIN reals : reals[a].num \in DOMAIN numToReals /\ numToReals[reals[a].num] = a
  /\ \A n \in DOMAIN numToReals : numToReals[n] \in DOMAIN reals

\* Reference counting of reals shared by VIPs (ModifyRealsForVip, DelVip):
\* every real a VIP holds is a known real, and a real's refCount is the
\* number of VIPs holding it, so its num is recycled exactly when the last
\* VIP lets it go.
RefCountsExact ==
  /\ \A vk \in DOMAIN vips : DOMAIN vips[vk].reals \subseteq DOMAIN numToReals
  /\ \A a \in DOMAIN reals :
       reals[a].refCount =
         Cardinality({vk \in DOMAIN vips : reals[a].num \in DOMAIN vips[vk].reals})

\* The reals of a VIP that take part in its ring (weight > 0).
Weighted(vk) == {e \in EndpointSet(vips[vk].reals) : e.weight > 0}

\* The ring a VIP keeps is the maglev ring of its weighted reals, built by
\* its current hash function, whenever it has such reals and no drained
\* (weight 0) one: the incremental diff of calculateHashRing, the change
\* detection of getEndpoints and the sort by hash never leave it stale.
RingMatchesReals ==
  \A vk \in DOMAIN vips :
    (Weighted(vk) # {} /\ Weighted(vk) = EndpointSet(vips[vk].reals)) =>
      \E eps \in SortedByHash(Weighted(vk)) :
        vips[vk].chRing = GenerateHashRing(vips[vk].hfunc, eps, RingSize)

\* When no dataplane write fails, the dataplane mirrors the control plane:
\* each VIP's VipMap entry with its current flags, the Reals record
\* (address and flags) of every allocated num, and
\* every ring slot a VIP has assigned.
DataplaneMirrors ==
  /\ \A vk \in DOMAIN vips :
       /\ VipDefinition(vk) \in DOMAIN dpVips
       /\ dpVips[VipDefinition(vk)] = [vipNum |-> vips[vk].num, flags |-> vips[vk].flags]
       /\ \A p \in Positions :
            vips[vk].chRing[p] # NoReal =>
              /\ vips[vk].num * RingSize + p \in DOMAIN dpRing
              /\ dpRing[vips[vk].num * RingSize + p] = vips[vk].chRing[p]
  /\ \A n \in DOMAIN numToReals :
       n \in DOMAIN dpReals /\ dpReals[n] = BeAddr(numToReals[n], reals[numToReals[n]].flags)

\* Every slot of a VIP's ring is -1 or names a real the VIP holds
\* (spec: "every occupied slot holds a currently-allocated backend num or
\* -1").  calculateHashRing leaves the ring as it was when getEndpoints
\* returns no endpoint, e.g. after the VIP's last weighted real is deleted.
RingNamesLiveReals ==
  \A vk \in DOMAIN vips : \A p \in Positions :
    vips[vk].chRing[p] \in {NoReal} \cup DOMAIN vips[vk].reals

\* A VIP with weighted reals keeps the ring of exactly those reals, drained
\* (weight 0) reals left out, as getEndpoints builds it; this is what
\* recalculateHashRing, called by ChangeHashFunctionForVip, must build too.
RingMatchesWeighted ==
  \A vk \in DOMAIN vips :
    Weighted(vk) # {} =>
      \E eps \in SortedByHash(Weighted(vk)) :
        vips[vk].chRing = GenerateHashRing(vips[vk].hfunc, eps, RingSize)

\* The Reals entry of an IPv6 real carries the V6DADDR family bit and that
\* of an IPv4 real does not (spec: the bit "is derived from the address's
\* own family"); updateRealsMap sets it in SetAddr, then SetFlags.
RealFamilyKept ==
  \A n \in DOMAIN numToReals :
    n \in DOMAIN dpReals =>
      (V6DADDR \in dpReals[n].flags <=> numToReals[n] \in V6Addrs)

\* Once DelVip has run, no ChRings slot of a free VIP num still names a
\* real, and a VIP's slots hold only its own ring: a new VIP that reuses
\* the num must not be served by the ring of the deleted one.
DataplaneRingReclaimed ==
  \A key \in DOMAIN dpRing :
    LET n == key \div RingSize IN
    \/ \E vk \in DOMAIN vips : vips[vk].num = n /\ vips[vk].chRing[key % RingSize] = dpRing[key]
    \/ dpRing[key] = NoReal

(***************************************************************************)
(* Refinement: the controller implements VipRegistry.  A service is a VIP *)
(* with its flags and, for each real num it holds, the address numToReals *)
(* names and the weight it keeps; a backend's flags are its RealMeta's.   *)
(***************************************************************************)

\* The addresses of the real nums VIP vk holds, with their weights.
ServiceReals(vk) ==
  LET held == DOMAIN vips[vk].reals \cap DOMAIN numToReals IN
  [a \in {numToReals[n] : n \in held} |->
     vips[vk].reals[CHOOSE n \in held : numToReals[n] = a].weight]

Services == [vk \in DOMAIN vips |-> [flags |-> vips[vk].flags, reals |-> ServiceReals(vk)]]

Abstract == INSTANCE VipRegistry
              WITH services <- Services,
                   backendFlags <- [a \in DOMAIN reals |-> reals[a].flags]

\* Every handler step is a step of the registry spec.md promises, or
\* leaves it unchanged: pools, nums, reference counts, rings and the
\* dataplane stay invisible to callers.  A VIP is refused only at MaxVips
\* VIPs, a new real only at MaxReals reals in use, a refused or invalid
\* entry does not stop its batch, a DEL releases only what the VIP holds,
\* and a real is forgotten exactly when no VIP holds it.
ImplementsRegistry == Abstract!Spec
=============================================================================
