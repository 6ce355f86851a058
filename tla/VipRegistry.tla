---------------------------- MODULE VipRegistry ----------------------------
(***************************************************************************)
(* What the load-balancer controller promises its callers (spec.md §4.3, *)
(* §5, §7), with no ids, pools, rings or dataplane: the table of virtual  *)
(* services, each with its flags and the weight of every backend address  *)
(* it forwards to, and the flags of every backend in use.                 *)
(*                                                                         *)
(*  - AddVip creates a service when the key is new and fewer than MaxVips *)
(*    exist; DelVip drops it.                                              *)
(*  - An ADD request gives each valid address it names the request's      *)
(*    weight on the service.  An address no service uses yet is admitted  *)
(*    only while fewer than MaxReals backends are in use, and takes the   *)
(*    request's flags without the address-family bit; others keep theirs. *)
(*    Entries are applied in order and a refused one does not stop the    *)
(*    batch.                                                               *)
(*  - A DEL request removes each address the service holds.               *)
(*  - A backend is in use exactly while some service holds it.            *)
(*  - A failed dataplane write changes none of this.                      *)
(***************************************************************************)
EXTENDS FiniteSets, SequencesExt

CONSTANTS VipKeys, Addrs, InvalidAddrs, MaxVips, MaxReals, Weights,
          VipFlagBits, RealFlagInputs, MaxBatch, DistinctBatches

VARIABLES services,      \* VipKey -> [flags, reals : address -> weight]
          backendFlags   \* address -> flags, for every backend in use

regVars == <<services, backendFlags>>

FamilyBit == "V6DADDR"

\* A request's list of reals: MaxBatch entries at most.
RealEntries == [address : Addrs, weight : Weights, flags : RealFlagInputs]
RealLists ==
  {b \in UNION {[1..n -> RealEntries] : n \in 1..MaxBatch} :
     DistinctBatches => \A i, j \in DOMAIN b : i # j => b[i].address # b[j].address}

\* The addresses some service of table t holds.
InUse(t) == UNION {DOMAIN t[vk].reals : vk \in DOMAIN t}

\* The backend flags once table t is in place: a backend no service holds
\* any more is gone.
KeepInUse(t, bf) == Restrict(bf, InUse(t))

Init == services = [vk \in {} |-> 0] /\ backendFlags = [a \in {} |-> {}]

AddVip(vk, flags) ==
  /\ vk \notin DOMAIN services
  /\ Cardinality(DOMAIN services) < MaxVips
  /\ services' = (vk :> [flags |-> flags, reals |-> [a \in {} |-> 0]]) @@ services
  /\ UNCHANGED backendFlags

DelVip(vk) ==
  /\ vk \in DOMAIN services
  /\ services' = Restrict(services, DOMAIN services \ {vk})
  /\ backendFlags' = KeepInUse(services', backendFlags)

ModifyVip(vk, flags, set) ==
  /\ vk \in DOMAIN services
  /\ services' = [services EXCEPT ![vk].flags = IF set THEN @ \cup flags ELSE @ \ flags]
  /\ UNCHANGED backendFlags

ModifyReal(a, flags, set) ==
  /\ a \in DOMAIN backendFlags
  /\ backendFlags' = [backendFlags EXCEPT ![a] =
                        IF set THEN @ \cup (flags \ {FamilyBit})
                             ELSE @ \ (flags \ {FamilyBit})]
  /\ UNCHANGED services

\* One entry of an ADD request, on acc = [reals (the service's), flags
\* (every backend's)].
AddEntry(acc, r) ==
  LET a == r.address IN
  IF a \in InvalidAddrs THEN acc
  ELSE IF a \in DOMAIN acc.flags
  THEN [acc EXCEPT !.reals = (a :> r.weight) @@ @]
  ELSE IF Cardinality(DOMAIN acc.flags) >= MaxReals THEN acc
  ELSE [reals |-> (a :> r.weight) @@ acc.reals,
        flags |-> (a :> r.flags \ {FamilyBit}) @@ acc.flags]

\* One entry of a DEL request.
DelEntry(acc, r) ==
  [acc EXCEPT !.reals = Restrict(@, DOMAIN @ \ {r.address})]

\* The request's entries applied in order, from the first.
RECURSIVE Apply(_, _, _)
Apply(action, acc, batch) ==
  IF batch = <<>> THEN acc
  ELSE Apply(action,
             IF action = "ADD" THEN AddEntry(acc, Head(batch)) ELSE DelEntry(acc, Head(batch)),
             Tail(batch))

ModifyRealsForVip(action, batch, vk) ==
  /\ vk \in DOMAIN services
  /\ LET acc == Apply(action, [reals |-> services[vk].reals, flags |-> backendFlags], batch)
     IN  /\ services' = [services EXCEPT ![vk].reals = acc.reals]
         /\ backendFlags' = KeepInUse(services', acc.flags)

Next ==
  \/ \E vk \in VipKeys, f \in SUBSET VipFlagBits : AddVip(vk, f)
  \/ \E vk \in VipKeys : DelVip(vk)
  \/ \E vk \in VipKeys, f \in SUBSET VipFlagBits, set \in BOOLEAN : ModifyVip(vk, f, set)
  \/ \E a \in Addrs, f \in RealFlagInputs, set \in BOOLEAN : ModifyReal(a, f, set)
  \/ \E vk \in VipKeys, act \in {"ADD", "DEL"}, b \in RealLists :
       ModifyRealsForVip(act, b, vk)

Spec == Init /\ [][Next]_regVars
=============================================================================
