----------------------------- MODULE SlbDaemon -----------------------------
(***************************************************************************)
(* The slbd daemon's startup and the BPF map registry it fills, with the  *)
(* health-check key operations of FlomeshLb that write through it.        *)
(*                                                                         *)
(* adapter.maps (src/pkg/bpf/adapter/bpf.go) names the maps a write can    *)
(* reach; each progs package's Load registers its maps with              *)
(* BpfAddKnownMap.  main builds the server (NewFlomeshLb fills the pools) *)
(* and calls Server.Start: RemoveMemlock, root.Load, root.Attach (which   *)
(* attaches XDP and calls balancer.Load), NewGrpc and GrpcServe.  Every   *)
(* failure on that path ends the process through log.Fatal, except the    *)
(* two `log.Fatal().Err(err)' calls of Start, whose event is never sent   *)
(* without a Msg: whether they exit depends on the logger, which is not   *)
(* in the repository, so both outcomes are allowed.                       *)
(*                                                                         *)
(* AddHcKey and DelHcKey keep the hckeys table and the hcKeyNums pool and *)
(* push to HcKeyMap through updateHcKeyMap.  Keys are IPv4 here, so       *)
(* vipKeyToVipDefinition is the key itself.  lbStats.bpfFailedCalls,      *)
(* which only statistics read, is left out.                               *)
(*                                                                         *)
(* ChangeMac is the RPC with FlomeshLb.ChangeMac: the MAC goes into       *)
(* ctlValues before it is written to CtlArray, and stays there when the   *)
(* write fails.  The handlers that panic "implement me" end the daemon.   *)
(***************************************************************************)
EXTENDS Naturals, Sequences, SequencesExt, Functions, TLC

CONSTANTS HcKeys,    \* the VipKeys requests name as health-check keys
          MaxVips,   \* config.maxVips, also the size of the hc key pool
          MacInputs, \* the strings ChangeMac requests carry
          MacLength, \* MacInputs -> bytes net.ParseMAC yields, 0 on error
          ZeroMac    \* the all-zero MAC of a fresh CtlValue and CtlArray

VARIABLES phase,       \* where main is: "start", "rootLoaded", "attached",
                       \* "serving" or "exited"
          registered,  \* DOMAIN adapter.maps: the map names known
          hcKeyNums,   \* free hc key numbers, oldest first (lb.hcKeyNums)
          hckeys,      \* VipKey -> hc key num (lb.hckeys)
          dpHcKeys,    \* dataplane HcKeyMap: VipDefinition -> hc key num
          ctlMac,      \* lb.ctlValues[kMacAddrPos]: the MAC GetMac reports
          dpCtlMac,    \* dataplane CtlArray[kMacAddrPos]
          macAnswer    \* the reply of the last ChangeMac, "none" before one

macVars == <<ctlMac, dpCtlMac, macAnswer>>
vars == <<phase, registered, hcKeyNums, hckeys, dpHcKeys, ctlMac, dpCtlMac, macAnswer>>

\* The maps each Load registers with BpfAddKnownMap.
RootLoadMaps == {"RootArray"}
BalancerLoadMaps ==
  {"ChRings", "CtlArray", "FallbackCache", "FallbackGlru", "GlobalLruMaps",
   "LpmSrcV4", "LpmSrcV6", "LruMapping", "LruMissStats", "LruMissStatsVip",
   "Reals", "RealsStats", "ServerIdMap", "Stats", "VipMap"}
HealthcheckingLoadMaps ==
  {"HcCtrlMap", "HcRealsMap", "HcStatsMap", "HcKeyMap", "HcPcktMacs",
   "HcPcktSrcsMap", "PerHckeyStats"}

\* BpfAddKnownMap for each name.
AddKnownMaps(names) == registered \cup names

\* BpfUpdateMap and BpfMapDeleteElement fail with "not found map" unless
\* getMapByName finds the map.
MapFound(name) == name \in registered

EmptyMap == [x \in {} |-> 0]

\* NewL4SlbControlServer: NewFlomeshLb with enableHc, so hcKeyNums holds
\* 0..maxVips-1; adapter.maps starts empty.
Init == /\ phase = "start"
        /\ registered = {}
        /\ hcKeyNums = [i \in 1..MaxVips |-> i - 1]
        /\ hckeys = EmptyMap
        /\ dpHcKeys = EmptyMap
        /\ ctlMac = ZeroMac /\ dpCtlMac = ZeroMac
        /\ macAnswer = "none"

\* RemoveMemlock and root.Load: on success RootArray is registered; on a
\* failure `log.Fatal().Err(err)' may or may not end the process.
RootLoad ==
  /\ phase = "start"
  /\ \/ /\ registered' = AddKnownMaps(RootLoadMaps)
        /\ phase' = "rootLoaded"
     \/ /\ phase' \in {"rootLoaded", "exited"}
        /\ UNCHANGED registered
  /\ UNCHANGED <<hcKeyNums, hckeys, dpHcKeys, macVars>>

\* Mutant: the error of balancer.Load is dropped and Attach goes on.
AttachIgnoresLoadError ==
  /\ phase = "rootLoaded"
  /\ \/ /\ "RootArray" \in registered
        /\ registered' \in {registered, AddKnownMaps(BalancerLoadMaps)}
        /\ phase' = "attached"
     \/ /\ phase' = "exited"
        /\ UNCHANGED registered
  /\ UNCHANGED <<hcKeyNums, hckeys, dpHcKeys, macVars>>

\* root.Attach: AttachXDP of objs.XdpRoot fails (Fatal) when root.Load did
\* not load it, or the interface is missing; then balancer.Load registers
\* the balancer maps, and a failed Load or RootArray.Put is Fatal.
Attach ==
  /\ phase = "rootLoaded"
  /\ \/ /\ "RootArray" \in registered
        /\ registered' = AddKnownMaps(BalancerLoadMaps)
        /\ phase' = "attached"
     \/ /\ "RootArray" \in registered
        /\ registered' = AddKnownMaps(BalancerLoadMaps)
        /\ phase' = "exited"          \* RootArray.Put failed
     \/ /\ phase' = "exited"          \* no interface, attach or Load failed
        /\ UNCHANGED registered
  /\ UNCHANGED <<hcKeyNums, hckeys, dpHcKeys, macVars>>

\* NewGrpc, RegisterSlbServiceServer and GrpcServe; a Listen error makes
\* Start return an error and main calls log.Fatal.
Serve ==
  /\ phase = "attached"
  /\ phase' \in {"serving", "exited"}
  /\ UNCHANGED <<registered, hcKeyNums, hckeys, dpHcKeys, macVars>>

\* updateHcKeyMap: BpfUpdateMap (ADD) or BpfMapDeleteElement (DEL) of the
\* key's VipDefinition in HcKeyMap; a write to a map not found changes
\* nothing.
UpdateHcKeyMap(action, k, num) ==
  dpHcKeys' = IF ~MapFound("HcKeyMap") THEN dpHcKeys
              ELSE IF action = "ADD" THEN (k :> num) @@ dpHcKeys
              ELSE Restrict(dpHcKeys, DOMAIN dpHcKeys \ {k})

\* AddHcKey: fails when the pool is empty or the key exists; else takes
\* the oldest num, records it and pushes it (returning the push's result).
AddHcKey(k) ==
  /\ phase = "serving"
  /\ Len(hcKeyNums) # 0
  /\ k \notin DOMAIN hckeys
  /\ hcKeyNums' = Tail(hcKeyNums)
  /\ hckeys' = (k :> Head(hcKeyNums)) @@ hckeys
  /\ UpdateHcKeyMap("ADD", k, Head(hcKeyNums))
  /\ UNCHANGED <<phase, registered, macVars>>

\* Mutant: the key, not its num, is pushed on the interface{} pool.
DelHcKeyPushesKey(k) ==
  /\ phase = "serving"
  /\ k \in DOMAIN hckeys
  /\ hcKeyNums' = Append(hcKeyNums, k)
  /\ hckeys' = Restrict(hckeys, DOMAIN hckeys \ {k})
  /\ UpdateHcKeyMap("DEL", k, 0)
  /\ UNCHANGED <<phase, registered, macVars>>

\* Mutant: the num of a deleted key is not returned to the pool.
DelHcKeyNoRecycle(k) ==
  /\ phase = "serving"
  /\ k \in DOMAIN hckeys
  /\ hckeys' = Restrict(hckeys, DOMAIN hckeys \ {k})
  /\ UpdateHcKeyMap("DEL", k, 0)
  /\ UNCHANGED <<phase, registered, hcKeyNums, macVars>>

\* DelHcKey: fails for an unknown key; else returns its num to the pool,
\* forgets it and deletes it from HcKeyMap.
DelHcKey(k) ==
  /\ phase = "serving"
  /\ k \in DOMAIN hckeys
  /\ hcKeyNums' = Append(hcKeyNums, hckeys[k])
  /\ hckeys' = Restrict(hckeys, DOMAIN hckeys \ {k})
  /\ UpdateHcKeyMap("DEL", k, 0)
  /\ UNCHANGED <<phase, registered, macVars>>

\* helpers.ConvertMacToUint is net.ParseMAC: the bytes of a 6-, 8- or
\* 20-byte address, or an error (length 0 here).
ConvertMacToUint(m) == MacLength[m]

\* GetMac: the first six bytes of ctlValues[kMacAddrPos], which only a
\* 6-byte SetMac writes.
GetMac == ctlMac

\* Mutant: the error of the CtlArray write is logged but true is returned.
LbChangeMacIgnoresWriteError(m) ==
  /\ ctlMac' = m
  /\ \/ /\ MapFound("CtlArray") /\ dpCtlMac' = m
     \/ UNCHANGED dpCtlMac
  /\ macAnswer' = "success"

\* FlomeshLb.ChangeMac on 6 parsed bytes, with testing and
\* disableForwarding false (the config defaults): SetMac first, then the
\* CtlArray write of key kMacAddrPos; a failed write (map not found, or
\* the kernel refusing it) counts bpfFailedCalls and returns false with
\* the new MAC kept in ctlValues.  features.directHealthchecking is never
\* set, so the HcPcktMacs write is skipped.
LbChangeMac(m) ==
  /\ ctlMac' = m
  /\ \/ /\ MapFound("CtlArray") /\ dpCtlMac' = m /\ macAnswer' = "success"
     \/ /\ UNCHANGED dpCtlMac /\ macAnswer' = "failure"

\* Server.ChangeMac: a string ParseMAC rejects, and (in FlomeshLb.ChangeMac)
\* one that is not 6 bytes long, answer false and change nothing.
ChangeMac(m) ==
  /\ phase = "serving"
  /\ IF ConvertMacToUint(m) = 6 THEN LbChangeMac(m)
     ELSE macAnswer' = "failure" /\ UNCHANGED <<ctlMac, dpCtlMac>>
  /\ UNCHANGED <<phase, registered, hcKeyNums, hckeys, dpHcKeys>>

\* GetAllVips, ModifyVip, ModifyReal, GetVipFlags and GetRealFlags panic
\* with "implement me"; grpc-go does not recover a handler's panic, so
\* the call ends slbd.
PanicVipRpc ==
  /\ phase = "serving"
  /\ phase' = "exited"
  /\ UNCHANGED <<registered, hcKeyNums, hckeys, dpHcKeys, macVars>>

\* GetRealsForVip, the QUIC mapping, statistics and health-checker RPCs
\* panic the same way.
PanicStatsRpc ==
  /\ phase = "serving"
  /\ phase' = "exited"
  /\ UNCHANGED <<registered, hcKeyNums, hckeys, dpHcKeys, macVars>>

Next == \/ RootLoad \/ Attach \/ Serve
        \/ \E k \in HcKeys : AddHcKey(k) \/ DelHcKey(k)
        \/ \E m \in MacInputs : ChangeMac(m)
        \/ PanicVipRpc \/ PanicStatsRpc

Spec == Init /\ [][Next]_vars

-----------------------------------------------------------------------------
Phases == {"start", "rootLoaded", "attached", "serving", "exited"}
HcNums == 0..MaxVips - 1

TypeOK ==
  /\ phase \in Phases
  /\ registered \subseteq RootLoadMaps \cup BalancerLoadMaps \cup HealthcheckingLoadMaps
  /\ hcKeyNums \in Seq(HcNums)
  /\ DOMAIN hckeys \subseteq HcKeys /\ hckeys \in [DOMAIN hckeys -> HcNums]
  /\ DOMAIN dpHcKeys \subseteq HcKeys /\ dpHcKeys \in [DOMAIN dpHcKeys -> HcNums]
  /\ {ctlMac, dpCtlMac} \subseteq MacInputs \cup {ZeroMac}
  /\ macAnswer \in {"none", "success", "failure"}

\* Every hc key num is either free, once, or held by exactly one key:
\* AddHcKey pops from hcKeyNums and DelHcKey pushes the num back.
HcNumsPartitioned ==
  /\ IsInjective(hcKeyNums) /\ IsInjective(hckeys)
  /\ Range(hcKeyNums) \cup Range(hckeys) = HcNums
  /\ Range(hcKeyNums) \cap Range(hckeys) = {}

\* Once the daemon serves requests, every map FlomeshLb's handlers write
\* (VipMap, Reals, ChRings) is registered: Start loads the balancer in
\* root.Attach before it opens the gRPC listener.
ServingMapsRegistered ==
  phase = "serving" => {"VipMap", "Reals", "ChRings"} \subseteq registered

\* Every hc key the controller holds is in HcKeyMap under its num, as the
\* dataplane's health checks need (spec: each health-key slot is pushed to
\* the dataplane).
HcKeyMapMirrors ==
  \A k \in DOMAIN hckeys : k \in DOMAIN dpHcKeys /\ dpHcKeys[k] = hckeys[k]

\* A ChangeMac that answered true left CtlArray holding the MAC GetMac
\* reports, and the two differ only after a ChangeMac answered false (its
\* MAC kept in ctlValues, the dataplane's older one in place): the
\* write-after-SetMac order of FlomeshLb.ChangeMac and its error return.
MacAnswered ==
  /\ macAnswer = "success" => dpCtlMac = GetMac
  /\ dpCtlMac # GetMac => macAnswer = "failure"
=============================================================================
