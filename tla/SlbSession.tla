----------------------------- MODULE SlbSession -----------------------------
(***************************************************************************)
(* An operator driving slbd with the slbc command-line client            *)
(* (src/cmd/slbc/main.go, src/pkg/cli/slbc.go).  Each slbc invocation is  *)
(* one step: main picks one command from its flags, the command parses    *)
(* its arguments and makes its RPCs, and the process exits, through       *)
(* checkError's log.Fatal when an RPC returns an error.                   *)
(*                                                                         *)
(* The daemon is SlbDaemon.  The handlers slbc reaches that the controller*)
(* implements (AddVip, DelVip, ModifyRealsForVip) act on the service      *)
(* table through VipRegistry, the abstraction FlomeshLb is checked to     *)
(* implement (ImplementsRegistry in lb_faults).  A request the controller *)
(* refuses leaves the table alone and answers false, which slbc only      *)
(* leaves unlogged.  Every other command slbc offers except the MAC ones  *)
(* reaches a handler that panics "implement me" and ends slbd: -E         *)
(* (ModifyVip), -l and -C (GetAllVips), the health-check, QUIC and        *)
(* statistics commands.  grpc.Dial does not wait for a connection, so a   *)
(* command run while slbd is not serving fails at its first RPC.          *)
(*                                                                         *)
(* Weights are taken after slbc's int64 -> int32 and the server's         *)
(* int32 -> uint32 conversions.  Once slbd has exited the table is gone   *)
(* with the process; services keeps its last value, which nothing reads.  *)
(***************************************************************************)
EXTENDS SlbDaemon

CONSTANTS VipKeys,       \* the -t/-u arguments parseToVip accepts
          BadVipArg,     \* one it cannot split into address and port
          Addrs,         \* the -r addresses slbc sends
          InvalidAddrs,  \* those ParseIP rejects on the server
          MaxReals,      \* config.maxReals
          Weights,       \* the -w weights, as the server receives them
          VipFlagTable,  \* vipFlagTranslationTable: -vf name -> flag
          RealFlagTable, \* realFlagTranslationTable: -rf name -> flag
          FlagArgs       \* the -vf/-rf strings typed, "" and unknown ones included

VARIABLES services, backendFlags,  \* the controller's table (VipRegistry)
          slbcExit                 \* how the last slbc ended: "none",
                                   \* "ok" (printed "exiting"), "fatal",
                                   \* or "looping" (still retrying)

Registry == INSTANCE VipRegistry
              WITH VipFlagBits <- Range(VipFlagTable),
                   RealFlagInputs <- {{}} \cup {{f} : f \in Range(RealFlagTable)},
                   MaxBatch <- 1, DistinctBatches <- TRUE

regVars == <<services, backendFlags>>
sessionVars == <<vars, regVars, slbcExit>>

\* checkError: log.Fatal ends slbc; nothing reached the daemon.
Fatal == slbcExit' = "fatal" /\ UNCHANGED <<vars, regVars>>

\* A command that returns before any RPC: main prints "exiting".
NoRpc == slbcExit' = "ok" /\ UNCHANGED <<vars, regVars>>

\* parseToVip: a malformed -t/-u argument, or a port strconv cannot
\* parse, is log.Fatal.
ParseToVip(va) == va # BadVipArg

\* The flag lookup of AddOrModifyService and UpdateServerForVip: "" is no
\* flag, a name missing from the table is logged and the command returns.
FlagKnown(table, s) == s = "" \/ s \in DOMAIN table
ParseFlags(table, s) == IF s = "" THEN {} ELSE {table[s]}

\* A handler's answer: the request applied, or refused with nothing changed
\* and false returned (exists, missing, or the pool is full).
OrRefused(A) == A \/ (~ENABLED A /\ UNCHANGED regVars)

\* Server.AddVip, Server.DelVip and Server.ModifyRealsForVip on the table.
ServerAddVip(vk, f) == OrRefused(Registry!AddVip(vk, f)) /\ UNCHANGED vars
ServerDelVip(vk) == OrRefused(Registry!DelVip(vk)) /\ UNCHANGED vars
ServerModifyRealsForVip(act, batch, vk) ==
  OrRefused(Registry!ModifyRealsForVip(act, batch, vk)) /\ UNCHANGED vars

\* One RPC to a handler that answers: the answer reaches slbc, which exits
\* normally; with slbd not serving the RPC fails and checkError is fatal.
Call(handler) ==
  IF phase = "serving" THEN handler /\ slbcExit' = "ok" ELSE Fatal

\* One RPC to a handler that panics: slbd exits, and slbc's RPC fails.
CallStub(panic) ==
  IF phase = "serving" THEN panic /\ slbcExit' = "fatal" /\ UNCHANGED regVars
  ELSE Fatal

\* slbc -change_mac m: ChangeMac, logging whether the MAC changed.
SlbcChangeMac(m) == Call(ChangeMac(m) /\ UNCHANGED regVars)

\* slbc -list_mac: GetMac, read-only.
SlbcGetMac == Call(UNCHANGED <<vars, regVars>>)

\* slbc -A -vf s: AddOrModifyService with modify false, then UpdateService
\* ADD_VIP.
SlbcAddService(va, s) ==
  IF ~ParseToVip(va) THEN Fatal
  ELSE IF ~FlagKnown(VipFlagTable, s) THEN NoRpc
  ELSE Call(ServerAddVip(va, ParseFlags(VipFlagTable, s)))

\* slbc -E -vf s [-unset]: UpdateService MODIFY_VIP calls ModifyVip, which
\* panics.
SlbcEditService(va, s) ==
  IF ~ParseToVip(va) THEN Fatal
  ELSE IF ~FlagKnown(VipFlagTable, s) THEN NoRpc
  ELSE CallStub(PanicVipRpc)

\* slbc -D: DelService, UpdateService DEL_VIP.
SlbcDelService(va) ==
  IF ~ParseToVip(va) THEN Fatal ELSE Call(ServerDelVip(va))

\* parseToReal: one entry with the request's address, weight and flags.
ParseToReal(a, w, f) == [address |-> a, weight |-> w, flags |-> f]

\* slbc -a/-e (ADD) and -d (DEL): UpdateServerForVip sends a one-real
\* ModifyRealsForVip.
SlbcUpdateServerForVip(va, a, w, s, delete) ==
  IF ~ParseToVip(va) THEN Fatal
  ELSE IF ~FlagKnown(RealFlagTable, s) THEN NoRpc
  ELSE Call(ServerModifyRealsForVip(IF delete THEN "DEL" ELSE "ADD",
                                    <<ParseToReal(a, w, ParseFlags(RealFlagTable, s))>>,
                                    va))

\* slbc -l, -C, -s and -s -sum: List, ClearAll, ShowPerVipStats and
\* ShowSumStats start with GetAllVips, which panics; its checkError ends
\* slbc.
SlbcListOrClear == CallStub(PanicVipRpc)

\* slbc -new_hc, -del_hc, -list_hc, -quic_mapping, -list_qm and -s -icmp:
\* the first RPC of each (health checkers, QUIC mapping, GetIcmpTooBigStats)
\* panics, and checkError ends slbc.
SlbcStatsOrHc == CallStub(PanicStatsRpc)

\* slbc -s -lru: ShowLruStats' GetLruStats panics, or fails when slbd is
\* not serving; the error only `continue's the loop, before its sleep, so
\* slbc keeps calling and never ends.
SlbcLruStats ==
  /\ IF phase = "serving" THEN PanicStatsRpc ELSE UNCHANGED vars
  /\ slbcExit' = "looping"
  /\ UNCHANGED regVars

SessionInit == Init /\ Registry!Init /\ slbcExit = "none"

\* main: one slbc invocation, or a step of slbd itself (startup, and the
\* handlers other clients reach).
SessionNext ==
  \/ Next /\ UNCHANGED <<regVars, slbcExit>>
  \/ \E m \in MacInputs : SlbcChangeMac(m)
  \/ SlbcGetMac
  \/ \E va \in VipKeys \cup {BadVipArg}, s \in FlagArgs :
       SlbcAddService(va, s) \/ SlbcEditService(va, s)
  \/ \E va \in VipKeys \cup {BadVipArg} : SlbcDelService(va)
  \/ \E va \in VipKeys \cup {BadVipArg}, a \in Addrs, w \in Weights, s \in FlagArgs,
        delete \in BOOLEAN :
       SlbcUpdateServerForVip(va, a, w, s, delete)
  \/ SlbcListOrClear
  \/ SlbcStatsOrHc
  \/ SlbcLruStats

SessionSpec == SessionInit /\ [][SessionNext]_sessionVars
=============================================================================
