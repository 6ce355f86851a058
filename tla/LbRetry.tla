------------------------------ MODULE LbRetry ------------------------------
(***************************************************************************)
(* FlomeshLb with a caller that follows the failure contract of spec.md:  *)
(* a dataplane write failure is "reported to the caller", and "callers are *)
(* expected to retry failed pushes", after which "the dataplane converges *)
(* on retry".  The caller here retries every request whose handler         *)
(* returned false after a failed push, until the handler returns true.    *)
(*                                                                         *)
(* Of the handlers, only AddVip and ModifyVip return the result of their  *)
(* push (return lb.updateVipMap(...)).  DelVip, ModifyReal,               *)
(* ModifyRealsForVip and ChangeHashFunctionForVip return true whatever    *)
(* updateVipMap, updateRealsMap or programHashRing did, so their failures *)
(* only raise lbStats.bpfFailedCalls and nothing is retried.              *)
(***************************************************************************)
EXTENDS FlomeshLb

VARIABLE pending   \* the requests whose failed push the caller will retry

allVars == <<vars, pending>>

\* The requests whose handler returns updateVipMap's result.
Request == [op : {"AddVip"}, vk : VipKeys, flags : SUBSET VipFlagBits]
           \cup [op : {"ModifyVip"}, vk : VipKeys, flags : SUBSET VipFlagBits,
                 set : BOOLEAN]

\* updateVipMap's result, read off the step: it returns false exactly in
\* the branches that do lb.lbStats.bpfFailedCalls++.
UpdateVipMapOk == bpfFailedCalls' = bpfFailedCalls

\* The handler a request names, run once.
Handle(r) ==
  IF r.op = "AddVip" THEN AddVip(r.vk, r.flags) ELSE ModifyVip(r.vk, r.flags, r.set)

\* The caller sends a request.  A handler that got past its early returns
\* and then returned false has failed its push: the caller keeps it.
Call(r) ==
  /\ Handle(r)
  /\ pending' = IF UpdateVipMapOk THEN pending ELSE pending \cup {r}

\* A request the caller learns nothing from.
CallOther ==
  /\ \/ \E vk \in VipKeys : DelVip(vk)
     \/ \E a \in Addrs, f \in RealFlagInputs, set \in BOOLEAN : ModifyReal(a, f, set)
     \/ \E vk \in VipKeys, b \in Batches : ModifyRealsForVip(ADD, b, vk)
     \/ \E vk \in VipKeys, b \in DelBatches : ModifyRealsForVip(DEL, b, vk)
     \/ \E vk \in VipKeys, h \in HashFunctions : ChangeHashFunctionForVip(vk, h)
  /\ UNCHANGED pending

\* The caller sends a failed request again; a true result ends its retries.
\* A retried AddVip finds the key present and returns false at once,
\* without a step: the caller is left retrying it.
Retry(r) ==
  /\ r \in pending
  /\ Handle(r)
  /\ pending' = IF UpdateVipMapOk THEN pending \ {r} ELSE pending

RetryInit == Init /\ pending = {}

RetryNext ==
  \/ \E r \in Request : Call(r)
  \/ CallOther
  \/ \E r \in Request : Retry(r)

RetrySpec == RetryInit /\ [][RetryNext]_allVars

\* The caller retries for as long as it has a failed request: the retry
\* is weakly fair.  The other requests come from users and need not come.
FairRetrySpec == RetrySpec /\ \A r \in Request : WF_allVars(Retry(r))

-----------------------------------------------------------------------------

\* Every step of a handler that leaves a dataplane map out of step with
\* memory, where it was in step before, counts a failed BPF call: the
\* batch size check in BpfUpdateMapBatch and the bpfFailedCalls++ after
\* each map write leave no divergence the statistics do not show.
FailuresCounted ==
  [][DataplaneMirrors /\ ~DataplaneMirrors' => bpfFailedCalls' > bpfFailedCalls]_allVars

\* spec.md: the dataplane converges on retry.  Whenever it does not mirror
\* memory, it does so again later, given a caller that retries every
\* request reported as failed.
DataplaneConverges == ~DataplaneMirrors ~> DataplaneMirrors
=============================================================================
