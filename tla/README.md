# TLA+ models of l4slb

These modules model the control plane of the l4slb layer-4 load balancer, the
Go code under `src/`. TLC checks every run listed in `PROJECT.json`.

## The system

- **Consistent hashing** (`src/pkg/ch`) builds maglev rings.
  - `genMaglevPermutation` gives each endpoint an offset and a skip from MurmurHash3.
  - `maglevHashV1` lets endpoint *i* claim `weight[i]` slots in its first scan and one slot in every later scan.
  - `maglevHashV2` adds weights up across scans and claims a slot when the running sum reaches the largest weight.
  - `ch.Make` picks the builder: MaglevV2, or V1 for any other value.
- **Id pools** (`src/pkg/stack`) hand out VIP numbers and real numbers.
  - The controller fills them with `0..max-1`, takes ids with `PopFront` and returns them with `PushBack`.
  - This makes each pool a FIFO queue.
- **The controller** is `FlomeshLb` (`src/pkg/slb/Lb.go`, `types.go`). It keeps:
  - `vips`: VipKey → Vip;
  - `reals`: address → {num, refCount, flags};
  - `numToReals`, the inverse of `reals`.
- **The VIP** (`src/pkg/slb/LbVip.go`) holds its reals (num → {weight, hash}) and its ring.
  - `getEndpoints` applies a batch of updates.
  - When anything changed, it returns the reals of non-zero weight, sorted by hash.
  - `calculateHashRing` rebuilds the ring and returns the slots that changed.
- **The dataplane** is three BPF maps, written through `src/pkg/bpf/adapter`:
  - VipMap (VipDefinition → {vipNum, flags});
  - Reals (real num → BeAddr);
  - ChRings (vipNum·ringSize + pos → real num).
- **The gRPC server** (`src/pkg/slb/server`) translates each request and calls the controller.
  - The calls that reach it are AddVip, DelVip, AddRealForVip and ModifyRealsForVip.
  - ModifyVip, ModifyReal, DelRealForVip, the statistics and the health-check RPCs panic with "implement me".
  - grpc-go runs every request in a goroutine of its own, and the controller has no lock.
- **The daemon** (`src/cmd/slbd`, `Server.Start`, `progs/*/Load`, `root.Attach`) loads the BPF programs, registers their maps in the adapter's map registry, and then serves gRPC. A write to a map nobody registered fails with "not found map".
- **Health-check keys** (`AddHcKey`, `DelHcKey`) keep their own id pool and push to HcKeyMap. No RPC calls them yet.
- **Statistics** (`getLbStats` and the `Get...Stats` getters) read a per-CPU entry of Stats or RealsStats and sum it.
- **The command-line client** (`src/pkg/cli/slbc.go`) sends one gRPC request per command. Its four statistics pollers would loop forever, printing the difference of successive counters; in this repository their first RPC panics the daemon. Three of them then end through checkError; ShowLruStats keeps retrying without sleeping.

How the parts interact:
- A ModifyRealsForVip request resolves each real in the registry, which may allocate a num and write Reals.
- Each resolved real becomes an UpdateReal for the VIP.
- The VIP rebuilds its ring with the VIP's builder.
- `programHashRing` writes the changed slots to ChRings in one batch.
- DelVip releases every real the VIP holds and returns the VIP num.

## Modules

| Module | Models | State and actions |
|---|---|---|
| `Maglev` | `ch/*.go` | Pure operators, no state. `Offset`/`Skip` are genMaglevPermutation. `FreeProbe` and `Claim` are the probe loop and slot claim. `ScanV1`/`ScanV2` are the two `for {}` loops, written as RECURSIVE operators over a record of the loop variables. `GenerateHashRing` is `ch.Make` plus the build. MurmurHash3 is not in the repository, so it is a CONSTANT operator. |
| `MCMaglev` | (checker) | The state is an endpoint list that grows by one endpoint per step. The invariants look at both rings built from each list. |
| `DequeSpec` | (abstract) | What `stack.Stack` promises: a sequence `items` with PushBack, PushFront, PopBack and PopFront. An empty pop returns nil. |
| `StackList` | `stack/stack.go` | The doubly linked list itself. `heap` maps addresses to nodes {value, prev, next}, with 0 as nil; `top`, `bot`, `length`, and `ret` for the value a pop returns. Each method is one action. |
| `FlomeshLb` | `slb/Lb.go`, `LbVip.go`, `types.go`, `server.go`, `bpf/adapter` | The controller (described below). |
| `LbRetry` | `Lb.go` handler results, plus the caller of spec.md | FlomeshLb with a caller that retries every request whose handler returned false after a failed push. |
| `ConcurrentLb` | `server/grpc.go`, `Lb.go` ModifyRealsForVip | FlomeshLb with goroutines. ModifyRealsForVip is split into Begin, Step and Finish, interleaved with the other handlers. |
| `VipRegistry` | (abstract; spec.md §4.3, §5, §7) | What the controller promises: `services` (VipKey -> [flags, reals: address -> weight]) and `backendFlags` (address -> flags for every backend in use). AddVip, DelVip, ModifyVip, ModifyReal and ModifyRealsForVip, with no ids, pools, rings or dataplane. |
| `SlbDaemon` | `cmd/slbd`, `server.Start`, `root.go`, `balancer.go`, `healthchecking.go`, `adapter/bpf.go`, `Lb.go` hc keys and MAC, `server.go` ChangeMac and the stub handlers | Startup phases, the map registry, and AddHcKey/DelHcKey with HcKeyMap. `ChangeMac` is Server.ChangeMac (ParseMAC, the 6-byte check) with `LbChangeMac`, FlomeshLb.ChangeMac: `ctlMac` (ctlValues[kMacAddrPos], what `GetMac` reports) is set before the CtlArray write `dpCtlMac`, which may fail; `macAnswer` is the reply. `PanicVipRpc` and `PanicStatsRpc` are the handlers that panic "implement me": the daemon exits. |
| `SlbSession` | `cmd/slbc/main.go`, `cli/slbc.go` commands, `server.go` AddVip/DelVip/ModifyRealsForVip | EXTENDS `SlbDaemon` and composes it with `Registry == INSTANCE VipRegistry` as the service table. Each slbc invocation is one action: `SlbcAddService` (-A), `SlbcEditService` (-E), `SlbcDelService` (-D), `SlbcUpdateServerForVip` (-a/-e/-d), `SlbcChangeMac`, `SlbcGetMac`, `SlbcListOrClear` (-l, -C, and -s, -s -sum, which start with GetAllVips), `SlbcStatsOrHc` (hc, QUIC, -s -icmp) and `SlbcLruStats` (-s -lru, which retries forever on an RPC error). `slbcExit` is "looping" after -s -lru. `ParseToVip` and `FlagKnown` are the argument checks (log.Fatal, or return before any RPC). `Call` is an RPC to a handler that answers; `CallStub` is one to a handler that panics; `OrRefused` is a handler's false answer. `slbcExit` is how slbc ended. |
| `LbStats` | `Lb.go` getLbStats, `adapter.GetPossibleCpus` | Per-CPU counters, which the dataplane increments, and the reads of them. The statistics RPC handlers panic, so no RPC reaches getLbStats in this repository; it is checked as a library function. |
| `MCFlomeshLb`, `MCLbRetry`, `MCConcurrentLb`, `MCSlbDaemon` (which instantiates `SlbSession`), `MCStackList` | (checker) | Model values, the fnv and Murmur stand-ins, and symmetry sets. The `.cfg` files choose the bounds. |

`FlomeshLb` state:
- `vipNums` and `realNums` are sequences: the FIFO pools that StackList is shown to implement.
- `vips` is a function whose domain is the present VipKeys. Each entry is a record [num, flags, hfunc, chRing, reals].
- `reals` and `numToReals` are the registry.
- `dpVips`, `dpReals` and `dpRing` are the three BPF maps.
- `bpfFailedCalls` is `lbStats.bpfFailedCalls`.

`FlomeshLb` actions. Every handler is one action that includes every call it makes:
- `AddVip`;
- `DelVip`, which folds `decreaseRefCountForReal` over the VIP's reals;
- `ModifyVip`;
- `ModifyReal`;
- `ModifyRealsForVip`, for ADD and for DEL;
- `ChangeHashFunctionForVip`.

`ModifyRealsForVip` is built from these pieces:
- The request loop is a `FoldLeft` of `ModifyStep` over the request. `ModifyStep` carries the registry, `curReals` and the UpdateReals built so far.
- `getEndpoints` is a fold of `ApplyUpdate`, followed by `ChangedEndpoints`.
- `NewChRing` is `calculateHashRing`.
- `ProgramHashRing` writes the delta to `dpRing`.

How the code's details appear in the model:
- `sort.Sort` is not stable and reads a map in random order, so the model allows every hash-sorted order (`SortedByHash`).
- The configuration is the one `NewL4SlbControlServer` builds, so `testing` and `disableForwarding` are false and `enableHc` is true.
- The encodings that matter are modelled by what they produce:
  - `VipDefinition`: an IPv6 VIP is converted with a nil address;
  - `SetAddr`/`BeAddr`: SetFlags overwrites the family bit.

**Fault model.** `FailableMaps` names the maps whose writes may fail, and `MaxBpfFailures` bounds the failures in a run.
- A failed single write changes nothing and increments `bpfFailedCalls`.
- A failed `BpfUpdateMapBatch` may have written any prefix of the batch, because the adapter reports a short count as an error.
- Every handler carries on exactly as its code does after a failure.
- A handler's result is read off the step: `updateVipMap` returns false exactly when it increments `bpfFailedCalls`.

**Concurrency** (`ConcurrentLb`). A goroutine's `req` record holds the locals of its ModifyRealsForVip: the request, the loop index, `curReals`, `ureals`, and the `entry` pointer.
- `Begin` is the lookup and the `curReals` snapshot. `Step` is one loop iteration on the shared registry. `Finish` is `batchRealsUpdate` plus `programHashRing`.
- When `DelVipRacing` deletes a VIP, every goroutine that holds it keeps the deleted object as an orphan. Its updates land on that object, and its `programHashRing` still uses the old num.
- Correctness is stated at quiescent states, where no handler is in flight.

**Refinement** (`FlomeshLb` → `VipRegistry`). `services <- Services` keeps each VIP's flags and, for every real num it holds that numToReals still names, that address with its weight; `backendFlags <- [a \in DOMAIN reals |-> reals[a].flags]`. `ImplementsRegistry == Abstract!Spec` says every controller step is a registry step or leaves the table alone: ids, rings and the dataplane are invisible, a refused or skipped entry changes nothing, a backend is in use exactly while a service holds it, and a failed push never changes the table. It is checked in `lb_faults`, where pools run out, ParseIP rejects, pushes fail and the caller retries.

**Refinement** (`StackList` → `DequeSpec`). The mapping is `items <- Walk(bot, length)`, the values met walking `next` from `bot`. `ImplementsDeque == Deque!Spec` is checked as a temporal property. `LinksAgree` checks that the backward walk from `top` gives the same list reversed.

## Runs

Passing runs:

| Run | What it checks |
|---|---|
| `maglev_rings` | Every list of up to 3 endpoints with weights 1–3, over every offset/skip pair of a 5-slot ring. Both builders fill every slot (`RingFull`). V1 front-loads the weights (`FrontLoadedV1`). V2 smooths them (`SmoothedV2`). V1 = V2 on unit weights (`UnitWeightsAgree`). |
| `lb_core` | 2 VIPs, 2 addresses, a 2-slot ring, weights {0, 2}, batches of up to 2, both hash functions, no failures. Checks `NumsPartitioned` (each id is free once or held by one owner), `RefCountsExact`, `RingMatchesReals` (a fully weighted VIP has exactly the maglev ring of its reals) and `DataplaneMirrors`. |
| `stack_refines_deque` | Up to 5 nodes and 2 values, with every method. Checks `LinksAgree` and the refinement `ImplementsDeque`. |
| `lb_faults` | One failure allowed on any of the three maps. One real id for two addresses, plus an address ParseIP rejects. VIP and real flags, batches of 2, and the caller's retries. Checks `NumsPartitioned` and `RefCountsExact` under failures and exhaustion, and `FailuresCounted`: a step that puts the dataplane out of step with memory always increments `bpfFailedCalls`. Also checks `ImplementsRegistry`, the refinement of `VipRegistry`. |
| `daemon_startup` | `SessionSpec`: every startup path, each load, attach and serve step succeeding or failing, then AddHcKey/DelHcKey on 4 keys and 4 ids, and slbc commands on 2 VIPs, a valid and a ParseIP-rejected backend (MaxReals 1), an unparseable VIP argument, and empty, known and unknown flag names. ChangeMac with two valid MACs, an 8-byte EUI-64 (ParseMAC accepts it, ChangeMac refuses it) and an unparseable string; every CtlArray write may fail; the stub RPCs end the daemon. Checks `ServingMapsRegistered`, `HcNumsPartitioned` and `MacAnswered`: when ChangeMac answered true, CtlArray holds the MAC GetMac reports, and the two differ only after a false answer. |

Violation runs, each a finding in `PROJECT.json`:

| Run | Property | What TLC finds |
|---|---|---|
| `stale_ring_after_last_delete` | `RingNamesLiveReals` | A VIP's only real is added, then deleted. The ring still names it, because calculateHashRing skips an empty endpoint list. |
| `drained_real_after_hash_change` | `RingMatchesWeighted` | One weighted real and one drained real, then ChangeHashFunctionForVip to V1. The drained real, which sorts first, gets a slot. |
| `retry_add_vip_never_converges` | `DataplaneConverges` | AddVip's VipMap push fails. The VIP stays in memory, so the caller's retry is refused as "already existing", and the dataplane never converges, even under a weakly fair retry. |
| `concurrent_orphan_ring` | `MirrorsWhenQuiescent` | DelVip runs while a ModifyRealsForVip on the same VIP is in flight, and AddVip then reuses the num. The orphaned request writes ChRings slots that now belong to the new VIP. |
| `ring_not_reclaimed_after_delvip` | `DataplaneRingReclaimed` | DelVip returns the num and deletes the VipMap entry but leaves the ChRings slots, which spec.md says are reclaimed. |
| `ipv6_real_family_lost` | `RealFamilyKept` | BeAddr's SetFlags overwrites the V6DADDR bit SetAddr set, so the Reals entry of an IPv6 real lacks it. |
| `stats_bytes_are_packets` | `BytesSummed` | getLbStats adds each CPU's V1 (packets) into V2, so the byte total it returns is the packet total (after one packet of 3 bytes). |

Other divergences TLC shows with the cfgs kept beside these runs. They are recorded as hazards in `PROJECT.json`:

| Cfg | Property | What TLC finds |
|---|---|---|
| `MCIpv6Vip.cfg` | `DataplaneMirrors` | Two IPv6 VIPs on the same port and protocol share one VipMap key. |
| `MCDupBatch.cfg` | `RefCountsExact` | One ADD request that names an address twice counts it twice. |
| `MCUnreportedRing.cfg` | `DataplaneConverges` | A partial ChRings batch is only counted: ModifyRealsForVip returns true and nothing is retried. |
| `MCConcRefCount.cfg` | `RefCountsExactWhenQuiescent` | DelVip during an in-flight ADD leaves the added real with a refCount no VIP accounts for. |
| `MCHcKeyMap.cfg` | `HcKeyMapMirrors` | Start never calls the healthchecking Load, so HcKeyMap is unregistered and AddHcKey never reaches the dataplane. |
| `MCStatsZeroSample.cfg` | `SamplesNeverGoBack` | A failed lookup or CPU count returns zeros that look like a real sample. |

Every property of a passing run has a mutant in `PROJECT.json`: a plausible bug in the mapped code that TLC catches under the run's cfg.

## Bounds

- **Controller.** The controller's behaviours need two VIPs sharing a real. Two addresses and two VIPs are enough to reach sharing and release, num reuse through the FIFO pool, mixed drained and weighted reals, and batches of two.
- **Ring size.** The ring has 2 slots in `lb_core`. Probing across larger rings is checked exhaustively in `maglev_rings` instead.
- **Faults.** `lb_faults` uses one real id, so exhaustion and failures meet. Its single failure can hit any of the three maps, including a partial batch. A second failure adds no new kind of step.
- **Concurrency.** One VIP and two goroutines are enough for every race that matters: two ModifyRealsForVip on one VIP, and DelVip then AddVip under an in-flight request. `MaxRequests` bounds the requests begun, so the run is finite.
- **Statistics.** 2 CPUs whose counters reach 2 let a read see one CPU's count and not the other's.
- **Session.** Two VIPs and one valid backend with MaxReals 1 reach every handler answer slbc can get (applied, refused, skipped entry); each command is one step because slbc makes at most one RPC that answers. Symmetry over the four hc keys is sound: nothing else names them.
- **Stack.** Five nodes are enough for every mix of pushes and pops at both ends.

## Fairness

- `ConcurrentLb` states no liveness: its runs check safety at quiescent states, so no goroutine step is assumed fair.
- In `LbRetry`, `Retry(r)` is weakly fair: spec.md says callers retry failed pushes.
- User requests (AddVip, DelVip, Begin, ...) are never fair, because nobody has to send them.
- No symmetry is used in the runs that check liveness (only `retry_add_vip_never_converges`).
- `CHECK_DEADLOCK FALSE` appears only in `MCMaglev.cfg`, whose list stops growing at its bound, and in the `MCSlbDaemon` cfgs, because the daemon may exit (`log.Fatal` during startup, or a panicking handler).

## Not modelled

- **I/O and formatting.** BPF program loading internals, the generated bpf2go bindings, gw.go, pktcntr and the irq/topology parsers. These are I/O, flag parsing and formatting, with no control state.
- **What the stub handlers should do.** ModifyVip, ModifyReal, DelRealForVip, GetAllVips, the statistics, QUIC and health-checker RPCs panic "implement me", and grpc-go does not recover, so `SlbDaemon` ends the daemon on such a call. FlomeshLb's own ModifyVip and ModifyReal, which no RPC reaches in this repository, are still modelled as actions. The statistics pollers' rate arithmetic is not modelled: every statistics RPC panics, so no poller ever gets a sample.
- **Concurrent ChangeMac calls.** ChangeMac is one step. Two concurrent calls race on ctlValues without a lock, the same missing lock `ConcurrentLb` shows for ModifyRealsForVip; see the hazard note.
- **Features, QUIC mapping, the read-only getters.** The features are never set (directHealthchecking stays false, so ChangeMac skips HcPcktMacs), the QUIC handlers panic, and the getters change nothing.
- **The int64 → int32 → uint32 weight conversion** of slbc and the server happens before the controller; the models take converted weights.
- **The uint32 wrap of the maglev probe at 65537 slots.** It needs rings TLC cannot build; see the hazard note.
- **The uint16/uint8 truncation in `translateVipObject`.** It happens before the controller; the models start from truncated keys.
- **slbc output.** The listing and printing of replies are left out; `UpdateReal` (ModifyReal) is never called by slbc's main. A command that the controller refuses still exits normally, with nothing logged: `slbcExit` is "ok" either way.
- **Time in the pollers.** `SlbcLruStats` leaves slbc looping, but the model has no time, so the missing sleep before ShowLruStats' `continue` (a busy loop against a dead server) is a hazard note.
- **Restart.** The in-memory tables are not persisted, so a restarted daemon starts empty while pinned maps may remain. No pinning is done in the code, so the model has no restart.

## Plan for later work

1. Compose `SlbDaemon` with `FlomeshLb` itself rather than `VipRegistry`, so that the handlers write the registered maps.
2. Split ChangeMac into its SetMac, marshal and syscall steps under `ConcurrentLb` to check the race of two calls.
3. Run ModifyRealsForVip on two VIPs that share a real, under `ConcurrentLb`, with larger bounds.
