-------------------------- MODULE FleetHistoryProofs --------------------------
(***************************************************************************)
(* Command histories and recorded annotations, for every set of machines   *)
(* and nodes and any number of mishaps: a node is rebooted only for a      *)
(* config it has carried out, a provisioned machine has its own config on  *)
(* its node, a providerID never changes, and a failed machine's node is    *)
(* gone.                                                                   *)
(***************************************************************************)
EXTENDS KairosFleetMachineProofs

-----------------------------------------------------------------------------
(* The steps, sorted by what they touch. *)

\* Every step is one of a pass, of the cache or the API server, or of a node, or
\* leaves the objects, the pass and AuroraBoot alone.
LEMMA StepKinds ==
  ASSUME [OpenNext]_vars
  PROVE  \/ reconcileNormal \/ reconcileDelete \/ PatchObject \/ PatchStatus \/ Interrupted
         \/ \E m \in Machines : Reconcile(m) \/ Sync(m) \/ UserDelete(m) \/ Move(m)
         \/ \E n \in Nodes : NodeStep(n) /\ UNCHANGED <<apiVars, passVars>>
         \/ UNCHANGED <<store, cache, passVars, fleetVars, tampered>>
<1>1. CASE UNCHANGED vars \/ Disconnect \/ Reconnect \/ Tick \/ Elsewhere
  BY <1>1 DEF vars, Elsewhere, Disconnect, Reconnect, Tick, worldVars, apiVars
<1>2. CASE \E m \in Machines :
             Ignore(m) \/ MachineEvent(m) \/ PublishBootstrap(m) \/ Unpause(m) \/ Pause(m)
  BY <1>2 DEF Ignore, MachineEvent, PublishBootstrap, Unpause, Pause, worldVars
<1>3. Crash => Interrupted
  BY DEF Crash, Interrupted
<1> QED BY <1>1, <1>2, <1>3 DEF OpenNext, Next, Core, Worker

\* A normal pass leaves the objects alone, in the store and in the cache.
LEMMA NormalFrame ==
  ASSUME reconcileNormal
  PROVE  /\ UNCHANGED <<store, cache, who, base, tampered>>
         /\ pc \in {"normal", "readReboot"} /\ pc' \in {"readReboot", "patch"}
<1> USE DEF Claiming, Applying, Rebooting, Rejoining, Return, apiVars
<1>1. CASE WaitForBootstrap \/ WaitForConnection \/ ClaimNode \/ WaitForCapacity \/ ClaimError
  BY <1>1 DEF WaitForBootstrap, WaitForConnection, ClaimNode, WaitForCapacity, ClaimError,
              Ends, Fails, Replies, LosesReply
<1>2. CASE HoldApply \/ ApplyCloudConfig \/ ApplyError \/ ApplyFailed \/ AwaitApply
           \/ HoldReboot \/ RequestReboot \/ RebootError
  BY <1>2 DEF HoldApply, ApplyCloudConfig, ApplyError, ApplyFailed, AwaitApply, HoldReboot,
              RequestReboot, RebootError, Ends, Fails, Replies, LosesReply
<1>3. CASE NodeMissing \/ GetNodeError \/ AwaitRejoin \/ AskReboot \/ RebootFailed
           \/ RebootPending \/ Provision
  BY <1>3 DEF NodeMissing, GetNodeError, AwaitRejoin, AskReboot, RebootFailed,
              RebootPending, Provision, Ends, Fails, Replies, worldVars
<1> QED BY <1>1, <1>2, <1>3 DEF reconcileNormal

\* So does a delete pass.
LEMMA DeleteFrame ==
  ASSUME reconcileDelete
  PROVE  /\ UNCHANGED <<store, cache, who, base, tampered, phase, cmds, staged>>
         /\ pc = "delete" /\ pc' = "patch"
         /\ \/ obj' = obj \/ obj' = [obj EXCEPT !.finalizer = FALSE]
BY DEF reconcileDelete, DeleteUnclaimed, DeleteUnreachable, ReleaseNode, ReleaseMismatch,
       ReleaseMissing, DeleteError, DropFinalizer, Fails, LosesReply, Return, apiVars,
       fleetVars

\* The steps that change a command history, or a staged config.
LEMMA CommandSteps ==
  ASSUME [OpenNext]_vars
  PROVE  \/ UNCHANGED <<cmds, staged>>
         \/ \E n \in Nodes : NodeStep(n) /\ UNCHANGED <<apiVars, passVars>>
         \/ ApplyCloudConfig
         \/ RequestReboot
<1>1. CASE \E m \in Machines : Reconcile(m) \/ Sync(m) \/ UserDelete(m) \/ Move(m)
  BY <1>1 DEF Reconcile, Sync, UserDelete, Move, worldVars, fleetVars
<1>2. CASE PatchObject \/ PatchStatus \/ Interrupted \/ UNCHANGED fleetVars
  BY <1>2 DEF PatchObject, PatchStatus, Interrupted, Restart, worldVars, fleetVars
<1>3. CASE reconcileNormal /\ ~ApplyCloudConfig /\ ~RequestReboot
  BY <1>3 DEF reconcileNormal, WaitForBootstrap, WaitForConnection, ClaimNode,
       WaitForCapacity, ClaimError, HoldApply, ApplyError, ApplyFailed, AwaitApply,
       HoldReboot, RebootError, NodeMissing, GetNodeError, AwaitRejoin, AskReboot,
       RebootFailed, RebootPending, Provision, Ends, Fails, worldVars, fleetVars
<1> QED BY <1>1, <1>2, <1>3, StepKinds, DeleteFrame

\* What a command whose phase changes leaves alone.
LEMMA SetPhaseFacts ==
  ASSUME FleetTypeOK, NEW n \in Nodes, NEW i \in DOMAIN cmds[n],
         NEW p \in CommandPhases, cmds' = [cmds EXCEPT ![n][i].phase = p]
  PROVE  /\ \A k \in Nodes : DOMAIN cmds'[k] = DOMAIN cmds[k]
         /\ \A k \in Nodes : \A j \in DOMAIN cmds[k] :
              /\ cmds'[k][j].kind = cmds[k][j].kind
              /\ cmds'[k][j].by = cmds[k][j].by
              /\ cmds'[k][j].at = cmds[k][j].at
              /\ cmds'[k][j].phase = IF k = n /\ j = i THEN p ELSE cmds[k][j].phase
<1>1. \A k \in Nodes : cmds[k] \in Seq(Command)
  BY DEF FleetTypeOK
<1>2. \A k \in Nodes : \A j \in DOMAIN cmds[k] : cmds[k][j] \in Command
  BY <1>1
<1>3. \A k \in Nodes : k # n => cmds'[k] = cmds[k]
  BY DEF FleetTypeOK
<1>4. cmds'[n] = [cmds[n] EXCEPT ![i].phase = p]
  BY DEF FleetTypeOK
<1>5. /\ cmds'[n][i] = [cmds[n][i] EXCEPT !.phase = p]
      /\ DOMAIN cmds'[n] = DOMAIN cmds[n]
      /\ \A j \in DOMAIN cmds[n] : j # i => cmds'[n][j] = cmds[n][j]
  BY <1>1, <1>4
<1>6. /\ cmds'[n][i].kind = cmds[n][i].kind
      /\ cmds'[n][i].by = cmds[n][i].by
      /\ cmds'[n][i].at = cmds[n][i].at
      /\ cmds'[n][i].phase = p
  BY <1>2, <1>5 DEF Command
<1> QED BY <1>3, <1>5, <1>6

\* What a queued command adds.
LEMMA ServeCommandFacts ==
  ASSUME FleetTypeOK, NEW n \in Nodes, NEW k \in Kinds, NEW m \in Machines,
         ServeCommand(n, k, m)
  PROVE  /\ \A x \in Nodes : x # n => cmds'[x] = cmds[x]
         /\ Len(cmds[n]) \in Nat
         /\ DOMAIN cmds[n] = 1..Len(cmds[n])
         /\ DOMAIN cmds'[n] = 1..(Len(cmds[n]) + 1)
         /\ \A j \in DOMAIN cmds[n] : cmds'[n][j] = cmds[n][j]
         /\ cmds'[n][Len(cmds[n]) + 1].kind = k
         /\ cmds'[n][Len(cmds[n]) + 1].by = m
         /\ cmds'[n][Len(cmds[n]) + 1].phase = "Pending"
         /\ cmds'[n][Len(cmds[n]) + 1].at = now
<1> DEFINE c == [kind |-> k, by |-> m, phase |-> "Pending", at |-> now]
<1>1. cmds[n] \in Seq(Command) /\ c \in Command
  BY DEF FleetTypeOK, Command, CommandPhases
<1>2. cmds'[n] = Append(cmds[n], c) /\ \A x \in Nodes : x # n => cmds'[x] = cmds[x]
  BY DEF FleetTypeOK, ServeCommand
<1>3. /\ Len(cmds[n]) \in Nat
      /\ DOMAIN cmds[n] = 1..Len(cmds[n])
      /\ DOMAIN cmds'[n] = 1..(Len(cmds[n]) + 1)
      /\ \A j \in DOMAIN cmds[n] : cmds'[n][j] = cmds[n][j]
      /\ cmds'[n][Len(cmds[n]) + 1] = c
  BY <1>1, <1>2
<1> QED BY <1>2, <1>3

\* The steps of a node on its commands, reduced to the phase they set.
LEMMA NodeCommands ==
  ASSUME NEW n \in Nodes, NodeStep(n)
  PROVE  \/ UNCHANGED <<cmds, staged>>
         \/ \E i \in DOMAIN cmds[n], p \in CommandPhases :
              /\ cmds' = [cmds EXCEPT ![n][i].phase = p]
              /\ \/ i \in NextCommand(n) /\ cmds[n][i].kind = "apply" /\ p = "Completed"
                    /\ staged' = [staged EXCEPT ![n] = cmds[n][i].by]
                 \/ i \in NextCommand(n) /\ p = "Running" /\ UNCHANGED staged
                 \/ /\ cmds[n][i].phase \in {"Pending", "Running"}
                    /\ p = "Failed" /\ UNCHANGED staged
<1>1. CASE ExecuteApply(n)
  BY <1>1 DEF ExecuteApply, NextCommand, CommandPhases
<1>2. CASE ExecuteReboot(n)
  BY <1>2 DEF ExecuteReboot, NextCommand, CommandPhases
<1>3. CASE FailCommand(n)
  BY <1>3 DEF FailCommand, CommandPhases
<1>4. CASE Boot(n) \/ Heartbeat(n) \/ MarkOffline(n) \/ Outage(n) \/ Vanish(n)
           \/ OperatorRelease(n)
  BY <1>4 DEF Boot, Heartbeat, MarkOffline, Outage, Vanish, OperatorRelease
<1> QED BY <1>1, <1>2, <1>3, <1>4 DEF NodeStep

\* Once a delete pass may run, none is undone: deletion is never taken back.
LEMMA GuardedShrinks ==
  ASSUME TypeOK, ClaimInv, [OpenNext]_vars
  PROVE  \A m \in Machines : Guarded(m)' => Guarded(m)
<1>1. \A m \in Machines : Live(m) => Guarded(m)
  BY DEF ClaimInv, Guarded
<1>2. CASE reconcileNormal \/ reconcileDelete
  BY <1>2, NormalFrame, DeleteFrame DEF Guarded
<1>3. CASE PatchObject \/ PatchStatus
  BY <1>3 DEF PatchObject, PatchStatus, EndPass, Guarded
<1>4. CASE Interrupted
  BY <1>1, <1>4 DEF Interrupted, Restart, EndPass, Guarded, Live
<1>5. ASSUME NEW k \in Machines, Reconcile(k) \/ Sync(k) \/ UserDelete(k) \/ Move(k)
      PROVE  \A m \in Machines : Guarded(m)' => Guarded(m)
  <2>1. CASE Reconcile(k)
    BY <2>1 DEF Reconcile, Guarded
  <2>2. CASE Sync(k)
    BY <1>1, <2>2 DEF Sync, passVars, Guarded, Live, TypeOK
  <2>3. CASE UserDelete(k)
    BY <2>3 DEF UserDelete, passVars, Guarded
  <2>4. CASE Move(k)
    BY <1>1, <2>4 DEF Move, passVars, Guarded, Live, TypeOK
  <2> QED BY <1>5, <2>1, <2>2, <2>3, <2>4
<1>6. CASE \/ \E n \in Nodes : NodeStep(n) /\ UNCHANGED <<apiVars, passVars>>
           \/ UNCHANGED <<store, cache, passVars, fleetVars, tampered>>
  BY <1>6 DEF apiVars, passVars, Guarded
<1> QED BY <1>2, <1>3, <1>4, <1>5, <1>6, StepKinds

\* Command histories only grow: what a command is, whose it is, when it was
\* sent and how it ended stay.
LEMMA HistoryKept ==
  ASSUME TypeOK, [OpenNext]_vars, NEW n \in Nodes, NEW i \in DOMAIN cmds[n]
  PROVE  /\ i \in DOMAIN cmds'[n]
         /\ cmds'[n][i].kind = cmds[n][i].kind
         /\ cmds'[n][i].by = cmds[n][i].by
         /\ cmds'[n][i].at = cmds[n][i].at
         /\ cmds[n][i].phase \in {"Completed", "Failed"} => cmds'[n][i].phase = cmds[n][i].phase
<1>0. FleetTypeOK
  BY DEF TypeOK
<1>1. CASE UNCHANGED <<cmds, staged>>
  BY <1>1
<1>2. ASSUME NEW k \in Nodes, NodeStep(k)
      PROVE  /\ i \in DOMAIN cmds'[n]
             /\ cmds'[n][i].kind = cmds[n][i].kind
             /\ cmds'[n][i].by = cmds[n][i].by
             /\ cmds'[n][i].at = cmds[n][i].at
             /\ cmds[n][i].phase \in {"Completed", "Failed"} => cmds'[n][i].phase = cmds[n][i].phase
  <2>1. CASE UNCHANGED <<cmds, staged>>
    BY <2>1
  <2>2. ASSUME NEW j \in DOMAIN cmds[k], NEW p \in CommandPhases,
               cmds' = [cmds EXCEPT ![k][j].phase = p],
               cmds[k][j].phase \notin {"Completed", "Failed"}
        PROVE  /\ i \in DOMAIN cmds'[n]
               /\ cmds'[n][i].kind = cmds[n][i].kind
               /\ cmds'[n][i].by = cmds[n][i].by
               /\ cmds'[n][i].at = cmds[n][i].at
               /\ cmds[n][i].phase \in {"Completed", "Failed"} => cmds'[n][i].phase = cmds[n][i].phase
    BY <1>0, <2>2, SetPhaseFacts
  <2> QED BY <1>2, <2>1, <2>2, NodeCommands DEF NextCommand
<1>3. CASE ApplyCloudConfig \/ RequestReboot
  <2>1. /\ obj.nodeID \in Nodes /\ who \in Machines
        /\ \E k \in Kinds : ServeCommand(obj.nodeID, k, who)
    BY <1>3 DEF ApplyCloudConfig, RequestReboot, Applying, Rebooting, Kinds, TypeOK,
                Object, MaybeNode
  <2>2. PICK k \in Kinds : ServeCommand(obj.nodeID, k, who)
    BY <2>1
  <2> QED BY <1>0, <2>1, <2>2, ServeCommandFacts
<1> QED BY <1>1, <1>2, <1>3, CommandSteps

\* The steps that change a claim.
LEMMA ClaimSteps ==
  ASSUME [OpenNext]_vars
  PROVE  \/ UNCHANGED <<claim, tampered>>
         \/ ClaimNode
         \/ ReleaseNode
         \/ \E n \in Nodes : OperatorRelease(n) /\ UNCHANGED <<apiVars, passVars>>
<1>1. CASE \E m \in Machines : Reconcile(m) \/ Sync(m) \/ UserDelete(m) \/ Move(m)
  BY <1>1 DEF Reconcile, Sync, UserDelete, Move, worldVars, fleetVars
<1>2. CASE \/ PatchObject \/ PatchStatus \/ Interrupted
           \/ UNCHANGED <<store, cache, passVars, fleetVars, tampered>>
  BY <1>2 DEF PatchObject, PatchStatus, Interrupted, Restart, worldVars, fleetVars
<1>3. CASE reconcileNormal /\ ~ClaimNode
  <2>1. UNCHANGED tampered
    BY <1>3, NormalFrame
  <2> QED BY <1>3, <2>1
      DEF reconcileNormal, WaitForBootstrap, WaitForConnection, ApplyCloudConfig,
       WaitForCapacity, ClaimError, HoldApply, ApplyError, ApplyFailed, AwaitApply,
       HoldReboot, RequestReboot, RebootError, NodeMissing, GetNodeError, AwaitRejoin,
       AskReboot, RebootFailed, RebootPending, Provision, Ends, Fails, worldVars, fleetVars
<1>4. CASE reconcileDelete /\ ~ReleaseNode
  <2>1. UNCHANGED tampered
    BY <1>4, DeleteFrame
  <2> QED BY <1>4, <2>1 DEF reconcileDelete, DeleteUnclaimed, DeleteUnreachable,
       ReleaseMismatch, ReleaseMissing, DeleteError, Fails, fleetVars
<1>5. ASSUME NEW n \in Nodes, NodeStep(n), ~OperatorRelease(n)
      PROVE  UNCHANGED <<claim, tampered>>
  BY <1>5 DEF NodeStep, ExecuteApply, ExecuteReboot, FailCommand, Boot, Heartbeat,
       MarkOffline, Outage, Vanish
<1> QED BY <1>1, <1>2, <1>3, <1>4, <1>5, StepKinds

\* A machine that no delete pass has seen keeps every node it holds, unless an
\* operator releases it.
LEMMA HoldsOn ==
  ASSUME TypeOK, ClaimInv, [OpenNext]_vars, NEW n \in Nodes, n \notin tampered',
         NEW m \in Machines, Guarded(m), HeldBy(n, m)
  PROVE  HeldBy(n, m)' /\ n \notin tampered
<1>1. CASE UNCHANGED <<claim, tampered>>
  BY <1>1 DEF HeldBy
<1>2. CASE ClaimNode
  <2>1. UNCHANGED tampered
    BY <1>2, NormalFrame DEF reconcileNormal
  <2>2. PICK k \in Claimable(claimKeyFor(who, obj)) :
          claim' = [claim EXCEPT ![k] = claimKeyFor(who, obj)]
    BY <1>2 DEF ClaimNode, ServeClaim
  <2>3. claim[k] = claimKeyFor(who, obj) \/ claim[k] = None
    BY <2>2 DEF Claimable
  <2> QED BY <2>1, <2>2, <2>3 DEF HeldBy, TypeOK, FleetTypeOK
<1>3. CASE ReleaseNode
  <2>1. UNCHANGED tampered /\ pc = "delete"
    BY <1>3, DeleteFrame DEF reconcileDelete
  <2>2. /\ claim' = [claim EXCEPT ![obj.nodeID] = None]
        /\ claim[obj.nodeID] \in {claimKeyFor(who, obj), None}
    BY <1>3 DEF ReleaseNode, ServeRelease, Releasable
  <2>3. m # who
    BY <2>1 DEF ClaimInv, Guarded
  <2>4. claimKeyFor(who, obj)[1] = who
    BY <2>1, GoneAssumption DEF ClaimInv, OwnKey, claimKeyFor, TypeOK
  <2> QED BY <2>1, <2>2, <2>3, <2>4 DEF HeldBy, TypeOK, FleetTypeOK
<1>4. ASSUME NEW k \in Nodes, OperatorRelease(k) PROVE HeldBy(n, m)' /\ n \notin tampered
  BY <1>4 DEF OperatorRelease, HeldBy, TypeOK, FleetTypeOK
<1> QED BY <1>1, <1>2, <1>3, <1>4, ClaimSteps

\* A pass sends commands only to the node its machine holds; what is sent is
\* pending.
LEMMA SendFacts ==
  ASSUME TypeOK, ClaimInv, ApplyCloudConfig \/ RequestReboot
  PROVE  /\ obj.nodeID \in Nodes /\ who \in Machines
         /\ obj.nodeID \in tampered \/ HeldBy(obj.nodeID, who)
         /\ UNCHANGED <<claim, staged, tampered, phase, who>>
         /\ ServeCommand(obj.nodeID, IF ApplyCloudConfig THEN "apply" ELSE "reboot", who)
<1>1. /\ pc = "normal" /\ obj.nodeID # None /\ UNCHANGED <<claim, staged, phase>>
      /\ ServeCommand(obj.nodeID, IF ApplyCloudConfig THEN "apply" ELSE "reboot", who)
  BY DEF ApplyCloudConfig, RequestReboot, Applying, Rebooting
<1>2. who \in Machines /\ obj \in Object /\ obj.nodeID \in Nodes
  BY <1>1 DEF TypeOK, Object, MaybeNode
<1>3. Owns(who, obj)
  BY <1>1 DEF ClaimInv
<1>4. UNCHANGED <<tampered, who>>
  BY NormalFrame DEF reconcileNormal
<1> QED BY <1>1, <1>2, <1>3, <1>4, GoneAssumption DEF Owns

\* Initially only legacy machines have sent commands, each to the node it holds.
LEMMA HistoryInit == ASSUME CoreInit PROVE HistoryInv
<1>1. PICK held \in [Legacy -> Nodes], left \in [Legacy -> Left] : Adopts(held, left)
  BY Adopted
<1> SUFFICES ASSUME NEW n \in Nodes PROVE InOrder(n) /\ LastStaged(n) /\ SoleSender(n)
  BY DEF HistoryInv
<1>2. CASE \E l \in Legacy : held[l] = n
  <2>1. PICK l \in Legacy : held[l] = n
    BY <1>2
  <2>2. /\ l \in Machines /\ left[l] \in Left
        /\ HeldBy(n, l) /\ cmds[n] = LeftCommands(l, left[l])
        /\ left[l] = "rebooting" => staged[n] = l
    BY <1>1, <2>1, LegacyAssumption DEF Adopts
  <2>3. \A i \in DOMAIN cmds[n] : cmds[n][i].by = l
    BY <2>2, LeftFacts
  <2>4. CASE left[l] # "rebooting"
    <3>1. DOMAIN cmds[n] = {1} /\ cmds[n][1].phase # "Completed"
      BY <2>2, <2>4, LeftFacts
    <3> QED BY <2>2, <2>3, <3>1 DEF InOrder, LastStaged, SoleSender
  <2>5. CASE left[l] = "rebooting"
    <3>1. /\ DOMAIN cmds[n] = {1, 2} /\ cmds[n][1].phase = "Completed"
          /\ cmds[n][2].kind = "reboot" /\ staged[n] = l
      BY <2>2, <2>5, LeftFacts
    <3> QED BY <2>2, <2>3, <3>1 DEF InOrder, LastStaged, SoleSender
  <2> QED BY <2>4, <2>5
<1>3. CASE ~\E l \in Legacy : held[l] = n
  <2>1. cmds[n] = <<>>
    BY <1>1, <1>3 DEF Adopts
  <2>2. DOMAIN cmds[n] = {}
    BY <2>1
  <2> QED BY <2>2 DEF InOrder, LastStaged, SoleSender
<1> QED BY <1>2, <1>3

\* No step breaks the order in which agents work, or what it says of the staged
\* config, or lets two machines send to one node.
LEMMA HistoryNext ==
  ASSUME TypeOK, ClaimInv, HistoryInv, [OpenNext]_vars
  PROVE  HistoryInv'
<1>0. FleetTypeOK /\ \A n \in Nodes : \A i \in DOMAIN cmds[n] : cmds[n][i] \in Command
  BY DEF TypeOK, FleetTypeOK
<1> SUFFICES ASSUME NEW n \in Nodes
             PROVE  /\ InOrder(n)' /\ LastStaged(n)'
                    /\ n \notin tampered' => SoleSender(n)'
  BY DEF HistoryInv
<1>1. InOrder(n) /\ LastStaged(n) /\ (n \notin tampered => SoleSender(n))
  BY DEF HistoryInv
<1>2. ASSUME NEW m \in Machines, n \notin tampered', Guarded(m)',
             NEW i \in DOMAIN cmds[n], cmds[n][i].by = m
      PROVE  /\ HeldBy(n, m)'
             /\ \A j \in DOMAIN cmds[n] : i < j => cmds[n][j].by = m
  <2>1. Guarded(m)
    BY <1>2, GuardedShrinks
  <2>2. n \notin tampered
    BY <1>2, ClaimSteps, NormalFrame, DeleteFrame
    DEF reconcileNormal, reconcileDelete, OperatorRelease
  <2>3. HeldBy(n, m) /\ \A j \in DOMAIN cmds[n] : i < j => cmds[n][j].by = m
    BY <1>1, <1>2, <2>1, <2>2 DEF SoleSender
  <2> QED BY <1>2, <2>1, <2>3, HoldsOn
<1>3. CASE cmds'[n] = cmds[n] /\ staged'[n] = staged[n]
  <2>1. InOrder(n)' /\ LastStaged(n)'
    BY <1>1, <1>3 DEF InOrder, LastStaged
  <2>2. n \notin tampered' => SoleSender(n)'
    BY <1>0, <1>2, <1>3 DEF SoleSender, Command
  <2> QED BY <2>1, <2>2
<1>4. ASSUME NEW k \in Nodes, NodeStep(k),
             ~(cmds'[n] = cmds[n] /\ staged'[n] = staged[n])
      PROVE  /\ InOrder(n)' /\ LastStaged(n)'
             /\ n \notin tampered' => SoleSender(n)'
  <2>1. PICK i \in DOMAIN cmds[k], p \in CommandPhases :
          /\ cmds' = [cmds EXCEPT ![k][i].phase = p]
          /\ \/ i \in NextCommand(k) /\ cmds[k][i].kind = "apply" /\ p = "Completed"
                /\ staged' = [staged EXCEPT ![k] = cmds[k][i].by]
             \/ i \in NextCommand(k) /\ p = "Running" /\ UNCHANGED staged
             \/ /\ cmds[k][i].phase \in {"Pending", "Running"}
                /\ p = "Failed" /\ UNCHANGED staged
    BY <1>4, NodeCommands
  <2>2. k = n
    BY <1>0, <1>4, <2>1 DEF FleetTypeOK
  <2>3. /\ DOMAIN cmds'[n] = DOMAIN cmds[n]
        /\ \A j \in DOMAIN cmds[n] :
             /\ cmds'[n][j].kind = cmds[n][j].kind
             /\ cmds'[n][j].by = cmds[n][j].by
             /\ cmds'[n][j].phase = IF j = i THEN p ELSE cmds[n][j].phase
    <3>0. cmds' = [cmds EXCEPT ![k][i].phase = p]
      BY <2>1
    <3>1. /\ \A x \in Nodes : DOMAIN cmds'[x] = DOMAIN cmds[x]
          /\ \A x \in Nodes : \A j \in DOMAIN cmds[x] :
               /\ cmds'[x][j].kind = cmds[x][j].kind
               /\ cmds'[x][j].by = cmds[x][j].by
               /\ cmds'[x][j].at = cmds[x][j].at
               /\ cmds'[x][j].phase = IF x = k /\ j = i THEN p ELSE cmds[x][j].phase
      BY <1>0, <3>0, SetPhaseFacts
    <3> QED BY <2>2, <3>1
  <2>4. DOMAIN cmds[n] = 1..Len(cmds[n]) /\ Len(cmds[n]) \in Nat
    BY <1>0 DEF FleetTypeOK
  <2>5. i \in NextCommand(n) => \A j \in DOMAIN cmds[n] : j < i => cmds[n][j].phase # "Pending"
    BY <2>4 DEF NextCommand
  <2>6. p # "Pending" /\ (p # "Failed" => i \in NextCommand(n))
    BY <2>1, <2>2
  <2>7. InOrder(n)'
    BY <1>1, <2>1, <2>2, <2>3, <2>5, <2>6 DEF InOrder
  <2>8. LastStaged(n)'
    <3>1. CASE p = "Completed"
      <4>1. staged'[n] = cmds[n][i].by /\ i \in NextCommand(n)
        BY <1>0, <2>1, <2>2, <3>1 DEF FleetTypeOK
      <4>2. \A j \in DOMAIN cmds[n] : i < j => cmds[n][j].phase # "Completed"
        BY <1>1, <4>1 DEF InOrder, NextCommand
      <4>3. \A j \in DOMAIN cmds[n] : cmds'[n][j].phase = "Completed" => j <= i
        BY <2>1, <2>2, <2>3, <2>4, <4>2
      <4> QED BY <2>1, <2>2, <2>3, <4>1, <4>3 DEF LastStaged
    <3>2. CASE p # "Completed"
      <4>1. staged'[n] = staged[n]
        BY <2>1, <3>2
      <4> QED BY <1>1, <2>3, <3>2, <4>1 DEF LastStaged
    <3> QED BY <3>1, <3>2
  <2>9. n \notin tampered' => SoleSender(n)'
    BY <1>0, <1>2, <2>3 DEF SoleSender, Command
  <2> QED BY <2>7, <2>8, <2>9
<1>5. CASE ApplyCloudConfig \/ RequestReboot
  <2>1. /\ who \in Machines
        /\ obj.nodeID \in tampered \/ HeldBy(obj.nodeID, who)
        /\ UNCHANGED <<claim, staged, tampered, who>>
        /\ obj.nodeID # n => cmds'[n] = cmds[n]
    BY <1>0, <1>5, SendFacts, ServeCommandFacts DEF Kinds
  <2>2. CASE obj.nodeID # n
    BY <1>3, <2>1, <2>2
  <2>3. CASE obj.nodeID = n
    <3>1. PICK L \in Nat :
          /\ DOMAIN cmds[n] = 1..L /\ DOMAIN cmds'[n] = 1..(L + 1)
          /\ \A j \in DOMAIN cmds[n] : cmds'[n][j] = cmds[n][j]
          /\ cmds'[n][L + 1].by = who
          /\ cmds'[n][L + 1].phase = "Pending"
      BY <1>0, <1>5, <2>3, SendFacts, ServeCommandFacts DEF Kinds
    <3>2. InOrder(n)'
      <4>1. \A i \in DOMAIN cmds'[n] : i \in DOMAIN cmds[n] \/ i = L + 1
        BY <3>1
      <4>2. \A i \in DOMAIN cmds[n] : ~(L + 1 < i)
        BY <3>1
      <4> QED BY <1>1, <3>1, <4>1, <4>2 DEF InOrder
    <3>3. LastStaged(n)'
      BY <1>1, <2>1, <3>1 DEF LastStaged
    <3>4. ASSUME NEW m \in Machines, n \notin tampered', Guarded(m)',
                 NEW i \in DOMAIN cmds'[n], cmds'[n][i].by = m
          PROVE  /\ HeldBy(n, m)'
                 /\ \A j \in DOMAIN cmds'[n] : i < j => cmds'[n][j].by = m
      <4>1. HeldBy(n, who)'
        BY <2>1, <2>3, <3>4 DEF HeldBy
      <4>2. CASE i = L + 1
        BY <2>1, <3>1, <3>4, <4>1, <4>2
      <4>3. CASE i \in DOMAIN cmds[n]
        <5>1. HeldBy(n, m)' /\ \A j \in DOMAIN cmds[n] : i < j => cmds[n][j].by = m
          BY <1>2, <3>1, <3>4, <4>3
        <5>2. m = who
          BY <2>1, <4>1, <5>1 DEF HeldBy
        <5>3. ASSUME NEW j \in DOMAIN cmds'[n], i < j PROVE cmds'[n][j].by = m
          <6>1. CASE j = L + 1
            BY <3>1, <5>2, <6>1
          <6>2. CASE j \in DOMAIN cmds[n]
            BY <3>1, <5>1, <5>3, <6>2
          <6>3. j = L + 1 \/ j \in DOMAIN cmds[n]
            BY <3>1, <5>3
          <6> QED BY <6>1, <6>2, <6>3
        <5> QED BY <5>1, <5>3
      <4> QED BY <3>1, <3>4, <4>2, <4>3
    <3>5. \A i \in DOMAIN cmds'[n] : cmds'[n][i].by \in Machines
      BY <1>0, <2>1, <3>1 DEF Command
    <3> QED BY <3>2, <3>3, <3>4, <3>5 DEF SoleSender
  <2> QED BY <2>2, <2>3
<1> QED BY <1>3, <1>4, <1>5, CommandSteps

-----------------------------------------------------------------------------
(* What passes record *)

\* What views refer to stays: commands with their kind and machine, and that a node
\* is gone.
LEMMA FactsStay ==
  ASSUME TypeOK, TypeOK', [OpenNext]_vars, NEW m \in Machines
  PROVE  /\ \A id \in Nodes \X Nat : OwnApply(m, id) => OwnApply(m, id)'
         /\ \A n \in Nodes, k \in Kinds :
              Sent(m, n, k, CommandPhases) => Sent(m, n, k, CommandPhases)'
         /\ \A n \in Nodes : cmds[n] # <<>> /\ cmds[n][1].by = m =>
                               cmds'[n] # <<>> /\ cmds'[n][1].by = m
         /\ \A n \in Nodes : ~Exists(n) => ~Exists(n)'
         /\ \A n \in Nodes : cmds[n] # <<>> /\ Inherited(m, n) => Inherited(m, n)'
<1>0. \A n \in Nodes : cmds[n] \in Seq(Command) /\ cmds'[n] \in Seq(Command)
  BY DEF TypeOK, FleetTypeOK
<1>1. ASSUME NEW id \in Nodes \X Nat, OwnApply(m, id) PROVE OwnApply(m, id)'
  BY <1>1, HistoryKept DEF OwnApply
<1>2. ASSUME NEW n \in Nodes, NEW k \in Kinds, Sent(m, n, k, CommandPhases)
      PROVE  Sent(m, n, k, CommandPhases)'
  <2>1. PICK i \in DOMAIN cmds[n] : cmds[n][i].kind = k /\ cmds[n][i].by = m
    BY <1>2 DEF Sent
  <2>2. i \in DOMAIN cmds'[n] /\ cmds'[n][i].kind = k /\ cmds'[n][i].by = m
    BY <2>1, HistoryKept
  <2>3. cmds'[n][i] \in Command
    BY <1>0, <2>2
  <2> QED BY <2>2, <2>3 DEF Sent, Command
<1>3. ASSUME NEW n \in Nodes, cmds[n] # <<>>, cmds[n][1].by = m
      PROVE  cmds'[n] # <<>> /\ cmds'[n][1].by = m
  <2>1. 1 \in DOMAIN cmds[n]
    BY <1>0, <1>3
  <2>2. 1 \in DOMAIN cmds'[n] /\ cmds'[n][1].by = m
    BY <1>3, <2>1, HistoryKept
  <2> QED BY <1>0, <2>2
<1>4. ASSUME NEW n \in Nodes, ~Exists(n) PROVE ~Exists(n)'
  <2>1. CASE \E x \in Nodes : NodeStep(x)
    BY <1>4, <2>1 DEF Exists, NodeStep, ExecuteApply, ExecuteReboot, FailCommand, Boot,
         Heartbeat, MarkOffline, Outage, Vanish, OperatorRelease, TypeOK, FleetTypeOK
  <2>2. CASE reconcileNormal
    <3>1. UNCHANGED phase
      BY <2>2 DEF reconcileNormal, WaitForBootstrap, WaitForConnection, ClaimNode,
       ApplyCloudConfig, WaitForCapacity, ClaimError, HoldApply, ApplyError, ApplyFailed,
       AwaitApply, HoldReboot, RequestReboot, RebootError, NodeMissing, GetNodeError,
       AwaitRejoin, AskReboot, RebootFailed, RebootPending, Provision, Ends, Fails,
       worldVars, fleetVars
    <3> QED BY <1>4, <3>1 DEF Exists
  <2>3. CASE \/ PatchObject \/ PatchStatus \/ Interrupted
             \/ \E x \in Machines : Reconcile(x) \/ Sync(x) \/ UserDelete(x) \/ Move(x)
             \/ UNCHANGED <<store, cache, passVars, fleetVars, tampered>>
    BY <1>4, <2>3 DEF PatchObject, PatchStatus, Interrupted, Restart, Reconcile, Sync, UserDelete,
         Move, worldVars, fleetVars, Exists
  <2> QED BY <1>4, <2>1, <2>2, <2>3, StepKinds, DeleteFrame DEF Exists
<1>5. ASSUME NEW n \in Nodes, cmds[n] # <<>>, Inherited(m, n) PROVE Inherited(m, n)'
  <2>1. 1 \in DOMAIN cmds[n]
    BY <1>0, <1>5
  <2> QED BY <1>5, <2>1, HistoryKept DEF Inherited
<1> QED BY <1>1, <1>2, <1>3, <1>4, <1>5

\* Passes that change nothing but retry-not-before, the finalizer and a lost
\* readiness record nothing new.
LEMMA QuietPass ==
  ASSUME TypeOK, Witnessed(who, base), pc # "idle", UNCHANGED <<who, base>>,
         pc' \in {"patch", "patchStatus"},
         obj'.uid = base.uid, obj'.deleting = base.deleting, obj'.nodeID = base.nodeID,
         obj'.applied = base.applied, obj'.applyCmd = base.applyCmd,
         obj'.rebootAt = base.rebootAt, obj'.providerID = base.providerID,
         obj'.failure = base.failure, obj'.provisioned => base.provisioned
  PROVE  PassInv'
<1>1. base # None
  BY GoneAssumption DEF TypeOK
<1>2. base.nodeID = None => ~Begun(base)
  BY <1>1 DEF Witnessed
<1>3. base.nodeID = None => ~Begun(obj')
  BY <1>2 DEF Begun
<1> QED BY <1>3 DEF PassInv, Begun

\* A pass that has not returned yet has changed nothing.
LEMMA FreshPass ==
  ASSUME TypeOK, PassInv, pc \in {"normal", "readReboot", "delete"}
  PROVE  /\ obj \in Object /\ base \in Object /\ who \in Machines
         /\ obj.uid = base.uid /\ obj.deleting = base.deleting
         /\ obj.nodeID = base.nodeID /\ obj.claimKey = base.claimKey
         /\ obj.applied = base.applied /\ obj.applyCmd = base.applyCmd
         /\ obj.rebootAt = base.rebootAt /\ obj.rebootCmd = base.rebootCmd
         /\ obj.notBefore = base.notBefore
         /\ obj.providerID = base.providerID
         /\ obj.failure = base.failure /\ obj.provisioned = base.provisioned
         /\ obj.finalizer
<1>1. obj \in Object /\ base \in Object /\ who \in Machines
  BY DEF TypeOK
<1>2. obj = [base EXCEPT !.finalizer = TRUE]
  BY DEF PassInv
<1> QED BY <1>1, <1>2 DEF Object

\* What reconcileNormal may leave in the object it returns.
LEMMA NormalPass ==
  ASSUME TypeOK, RecordInv, PassInv, reconcileNormal
  PROVE  PassInv'
<1> USE DEF Claiming, Applying, Rebooting, Rejoining, Return, notReady
<1>1. /\ obj \in Object /\ base \in Object /\ who \in Machines
      /\ obj.uid = base.uid /\ obj.deleting = base.deleting
      /\ obj.nodeID = base.nodeID
      /\ obj.applied = base.applied /\ obj.applyCmd = base.applyCmd
      /\ obj.rebootAt = base.rebootAt
      /\ obj.providerID = base.providerID
      /\ obj.failure = base.failure /\ obj.provisioned = base.provisioned
  BY NormalFrame, FreshPass
<1>2. UNCHANGED <<who, base>> /\ pc # "idle" /\ pc \in {"normal", "readReboot"}
  BY NormalFrame
<1>3. Witnessed(who, base)
  BY <1>2 DEF RecordInv
<1>4. ASSUME NEW o, obj' = o, pc' = "patch",
             o \in {obj, notReady(obj), [obj EXCEPT !.notBefore = None]}
      PROVE  PassInv'
  <2>1. /\ o.uid = obj.uid /\ o.deleting = obj.deleting /\ o.nodeID = obj.nodeID
        /\ o.applied = obj.applied /\ o.applyCmd = obj.applyCmd
        /\ o.rebootAt = obj.rebootAt /\ o.providerID = obj.providerID
        /\ o.failure = obj.failure /\ (o.provisioned => obj.provisioned)
    BY <1>1, <1>4 DEF Object
  <2> QED BY <1>1, <1>2, <1>3, <1>4, <2>1, QuietPass
<1>5. CASE \/ WaitForBootstrap \/ WaitForConnection \/ WaitForCapacity \/ ClaimError
           \/ HoldApply \/ ApplyError \/ AwaitApply \/ HoldReboot \/ RebootError
           \/ GetNodeError \/ AwaitRejoin \/ RebootPending
  BY <1>4, <1>5
  DEF WaitForBootstrap, WaitForConnection, WaitForCapacity, ClaimError, HoldApply,
      ApplyError, AwaitApply, HoldReboot, RebootError, GetNodeError, AwaitRejoin,
      RebootPending, Ends, Fails, Replies
<1>6. CASE ClaimNode
  <2>1. PICK n \in Claimable(claimKeyFor(who, obj)) :
          \/ Replies(notReady([obj EXCEPT !.nodeID = n,
                                 !.claimKey = claimKeyFor(who, obj)]), FALSE)
          \/ LosesReply(obj)
    BY <1>6 DEF ClaimNode
  <2>2. CASE LosesReply(obj)
    BY <1>4, <2>2 DEF LosesReply
  <2>3. CASE Replies(notReady([obj EXCEPT !.nodeID = n,
                                 !.claimKey = claimKeyFor(who, obj)]), FALSE)
    <3>1. base.nodeID = None /\ base # None
      BY <1>1, <1>6, GoneAssumption DEF ClaimNode
    <3>2. ~Begun(base)
      BY <1>3, <3>1 DEF Witnessed
    <3>3. /\ pc' = "patch"
          /\ obj'.uid = base.uid /\ obj'.deleting = base.deleting
          /\ obj'.applied = base.applied /\ obj'.applyCmd = base.applyCmd
          /\ obj'.rebootAt = base.rebootAt /\ obj'.providerID = base.providerID
          /\ obj'.failure = base.failure /\ obj'.provisioned = FALSE
      BY <1>1, <2>3 DEF Replies, Object
    <3>4. ~Begun(obj)'
      BY <3>2, <3>3 DEF Begun
    <3> QED BY <1>2, <3>1, <3>3, <3>4 DEF PassInv, Begun
  <2> QED BY <2>1, <2>2, <2>3
<1>7. CASE ApplyCloudConfig
  <2>1. CASE LosesReply([obj EXCEPT !.notBefore = None])
    BY <1>4, <2>1 DEF LosesReply
  <2>2. CASE Replies(notReady([obj EXCEPT !.notBefore = None, !.applied = TRUE,
                                 !.applyCmd = NextID(obj.nodeID)]), TRUE)
    <3>1. base.nodeID \in Nodes /\ ~base.applied /\ base # None
      BY <1>1, <1>7, GoneAssumption DEF ApplyCloudConfig, Object, MaybeNode
    <3>2. ServeCommand(base.nodeID, "apply", who) /\ FleetTypeOK
      BY <1>1, <1>7 DEF ApplyCloudConfig, TypeOK
    <3>3. /\ pc' = "patch"
          /\ obj'.uid = base.uid /\ obj'.deleting = base.deleting
          /\ obj'.nodeID = base.nodeID
          /\ obj'.applied /\ obj'.applyCmd = NextID(base.nodeID)
          /\ obj'.rebootAt = base.rebootAt /\ obj'.providerID = base.providerID
          /\ obj'.failure = base.failure /\ obj'.provisioned = FALSE
      BY <1>1, <2>2 DEF Replies, Object
    <3>4. OwnApply(who, obj.applyCmd)'
      <4>1. obj'.applyCmd[1] = base.nodeID /\ obj'.applyCmd[2] = Len(cmds[base.nodeID]) + 1
        BY <3>3 DEF NextID
      <4>2. /\ Len(cmds[base.nodeID]) + 1 \in DOMAIN cmds'[base.nodeID]
            /\ cmds'[base.nodeID][Len(cmds[base.nodeID]) + 1].kind = "apply"
            /\ cmds'[base.nodeID][Len(cmds[base.nodeID]) + 1].by = who
        BY <1>1, <3>1, <3>2, ServeCommandFacts DEF Kinds
      <4> QED BY <1>2, <4>1, <4>2 DEF OwnApply
    <3>5. NextID(base.nodeID) # None
      BY <3>1, <3>2, NoneAssumption DEF NextID, FleetTypeOK
    <3>6. base.applyCmd # NextID(base.nodeID)
      <4> SUFFICES ASSUME base.applyCmd = NextID(base.nodeID) PROVE FALSE
        OBVIOUS
      <4>1. OwnApply(who, base.applyCmd)
        BY <1>3, <3>1, <3>5 DEF Witnessed
      <4>2. base.applyCmd[1] = base.nodeID /\ base.applyCmd[2] = Len(cmds[base.nodeID]) + 1
        BY DEF NextID
      <4>3. Len(cmds[base.nodeID]) + 1 \notin DOMAIN cmds[base.nodeID]
        BY <3>1, <3>2 DEF FleetTypeOK
      <4> QED BY <4>1, <4>2, <4>3 DEF OwnApply
    <3>7. base.nodeID # None
      BY <3>1, NoneAssumption
    <3> QED BY <1>2, <3>1, <3>3, <3>5, <3>6, <3>7, <3>4 DEF PassInv
  <2> QED BY <1>7, <2>1, <2>2 DEF ApplyCloudConfig
<1>8. CASE ApplyFailed
  <2>1. base.nodeID # None /\ base.applied
    BY <1>1, <1>8 DEF ApplyFailed
  <2>2. /\ pc' = "patch"
        /\ obj'.uid = base.uid /\ obj'.deleting = base.deleting
        /\ obj'.nodeID = base.nodeID
        /\ ~obj'.applied /\ obj'.applyCmd = None
        /\ obj'.rebootAt = base.rebootAt /\ obj'.providerID = base.providerID
        /\ ~obj'.failure /\ ~obj'.provisioned
    BY <1>1, <1>8 DEF ApplyFailed, Ends, Replies, openRetryWindow, Object
  <2> QED BY <1>2, <2>1, <2>2 DEF PassInv
<1>9. CASE RequestReboot
  <2>1. CASE LosesReply([obj EXCEPT !.notBefore = None])
    BY <1>4, <2>1 DEF LosesReply
  <2>2. CASE Replies(notReady([obj EXCEPT !.notBefore = None, !.rebootAt = Stamp(now),
                                 !.rebootCmd = NextID(obj.nodeID)]), TRUE)
    <3>1. base.nodeID \in Nodes /\ base.applied
      BY <1>1, <1>9 DEF RequestReboot, Object, MaybeNode
    <3>2. ServeCommand(base.nodeID, "reboot", who) /\ FleetTypeOK
      BY <1>1, <1>9 DEF RequestReboot, TypeOK
    <3>3. /\ pc' = "patch"
          /\ obj'.uid = base.uid /\ obj'.deleting = base.deleting
          /\ obj'.nodeID = base.nodeID
          /\ obj'.applied = base.applied /\ obj'.applyCmd = base.applyCmd
          /\ obj'.providerID = base.providerID
          /\ obj'.failure = base.failure /\ obj'.provisioned = FALSE
      BY <1>1, <2>2 DEF Replies, Object
    <3>4. Sent(who, base.nodeID, "reboot", CommandPhases)'
      <4>1. PICK L \in Nat :
              /\ DOMAIN cmds'[base.nodeID] = 1..(L + 1)
              /\ cmds'[base.nodeID][L + 1].kind = "reboot"
              /\ cmds'[base.nodeID][L + 1].by = who
              /\ cmds'[base.nodeID][L + 1].phase = "Pending"
        BY <1>1, <3>1, <3>2, ServeCommandFacts DEF Kinds
      <4>2. L + 1 \in DOMAIN cmds'[base.nodeID]
        BY <4>1
      <4> QED BY <1>2, <4>1, <4>2 DEF Sent, CommandPhases
    <3>5. base.nodeID # None
      BY <3>1, NoneAssumption
    <3> QED BY <1>2, <3>1, <3>3, <3>4, <3>5 DEF PassInv
  <2> QED BY <1>9, <2>1, <2>2 DEF RequestReboot
<1>10. CASE NodeMissing
  <2>1. /\ base.nodeID # None /\ base.rebootAt # None
        /\ ~Exists(base.nodeID)' \/ "stray404" \in Mishaps
    BY <1>1, <1>2, <1>10 DEF NodeMissing, NotFound, Mishap, fleetVars, Exists
  <2>2. /\ pc' = "patch"
        /\ obj'.uid = base.uid /\ obj'.deleting = base.deleting
        /\ obj'.nodeID = base.nodeID
        /\ obj'.applied = base.applied /\ obj'.applyCmd = base.applyCmd
        /\ obj'.rebootAt = base.rebootAt /\ obj'.providerID = base.providerID
        /\ obj'.failure /\ ~obj'.provisioned
    BY <1>1, <1>10 DEF NodeMissing, Object
  <2> QED BY <1>2, <2>1, <2>2 DEF PassInv
<1>11. CASE AskReboot
  <2>1. /\ UNCHANGED <<who, base, obj>> /\ pc' = "readReboot"
        /\ pc = "normal" /\ base.nodeID # None /\ base.applied /\ base.rebootAt # None
    BY <1>1, <1>11 DEF AskReboot
  <2>2. obj = [base EXCEPT !.finalizer = TRUE]
    BY <2>1 DEF PassInv
  <2>3. obj' = [base' EXCEPT !.finalizer = TRUE]
    BY <2>1, <2>2
  <2> QED BY <1>1, <2>1, <2>3 DEF PassInv
<1>12. CASE RebootFailed
  <2>1. base.nodeID # None
    BY <1>12 DEF RebootFailed, PassInv
  <2>2. /\ pc' = "patch"
        /\ obj'.uid = base.uid /\ obj'.deleting = base.deleting
        /\ obj'.nodeID = base.nodeID
        /\ obj'.applied = base.applied /\ obj'.applyCmd = base.applyCmd
        /\ obj'.rebootAt = None /\ obj'.providerID = base.providerID
        /\ obj'.failure = base.failure /\ ~obj'.provisioned
    BY <1>1, <1>12 DEF RebootFailed, Ends, Replies, openRetryWindow, Object
  <2> QED BY <1>2, <2>1, <2>2 DEF PassInv
<1>13. CASE Provision
  <2>1. base.nodeID # None /\ base.rebootAt # None
    BY <1>1, <1>13 DEF Provision
  <2>2. /\ pc' = "patch"
        /\ obj'.uid = base.uid /\ obj'.deleting = base.deleting
        /\ obj'.nodeID = base.nodeID
        /\ obj'.applied = base.applied /\ obj'.applyCmd = base.applyCmd
        /\ obj'.rebootAt = base.rebootAt /\ obj'.providerID = base.nodeID
        /\ obj'.failure = base.failure
    BY <1>1, <1>13 DEF Provision, Ends, Replies, Object
  <2> QED BY <1>2, <2>1, <2>2 DEF PassInv
<1> QED BY <1>5, <1>6, <1>7, <1>8, <1>9, <1>10, <1>11, <1>12, <1>13 DEF reconcileNormal

\* A pass that goes on, whatever happens around it.
LEMMA PassStays ==
  ASSUME TypeOK, TypeOK', RecordInv, PassInv, [OpenNext]_vars, UNCHANGED <<who, base, obj>>,
         pc' = pc \/ (pc = "patch" /\ pc' = "patchStatus")
  PROVE  PassInv'
<1> SUFFICES ASSUME pc # "idle" PROVE PassInv'
  BY DEF PassInv
<1>1. who \in Machines /\ base \in Object /\ obj \in Object /\ base # None
  BY GoneAssumption DEF TypeOK
<1>2. base.applied \/ base.rebootAt # None => base.nodeID \in Nodes
  BY <1>1 DEF RecordInv, Witnessed, Begun, Object, MaybeNode
<1>3. obj.applyCmd # None => obj.applyCmd \in Nodes \X Nat
  BY <1>1 DEF Object, MaybeID
<1>4. /\ obj.applyCmd # None /\ OwnApply(who, obj.applyCmd) => OwnApply(who, obj.applyCmd)'
      /\ base.applied /\ Sent(who, base.nodeID, "reboot", CommandPhases)
           => Sent(who, base.nodeID, "reboot", CommandPhases)'
      /\ base.rebootAt # None /\ ~Exists(base.nodeID) => ~Exists(base.nodeID)'
  <2>1. ASSUME obj.applyCmd # None, OwnApply(who, obj.applyCmd)
        PROVE  OwnApply(who, obj.applyCmd)'
    BY <1>1, <1>3, <2>1, HistoryKept DEF OwnApply
  <2>2. ASSUME base.applied, Sent(who, base.nodeID, "reboot", CommandPhases)
        PROVE  Sent(who, base.nodeID, "reboot", CommandPhases)'
    <3>1. PICK i \in DOMAIN cmds[base.nodeID] :
            cmds[base.nodeID][i].kind = "reboot" /\ cmds[base.nodeID][i].by = who
      BY <2>2 DEF Sent
    <3>2. /\ i \in DOMAIN cmds'[base.nodeID] /\ cmds'[base.nodeID][i].kind = "reboot"
          /\ cmds'[base.nodeID][i].by = who
      BY <1>2, <2>2, <3>1, HistoryKept
    <3>3. cmds'[base.nodeID][i].phase \in CommandPhases
      <4>1. cmds'[base.nodeID] \in Seq(Command)
        BY <1>2, <2>2 DEF TypeOK, FleetTypeOK
      <4>2. cmds'[base.nodeID][i] \in Command
        BY <3>2, <4>1
      <4> QED BY <4>2 DEF Command
    <3> QED BY <3>2, <3>3 DEF Sent
  <2>3. ASSUME base.rebootAt # None, ~Exists(base.nodeID) PROVE ~Exists(base.nodeID)'
    <3>1. \A n \in Nodes : phase[n] = "Missing" => phase'[n] = "Missing"
      BY <1>1, FactsStay DEF Exists
    <3> QED BY <1>2, <2>3, <3>1 DEF Exists
  <2> QED BY <2>1, <2>2, <2>3
<1>5. Begun(obj)' <=> Begun(obj)
  BY DEF Begun
<1> QED BY <1>4, <1>5 DEF PassInv

\* No step makes a pass change more than its steps allow.
LEMMA PassNext ==
  ASSUME TypeOK, TypeOK', RecordInv, PassInv, [OpenNext]_vars
  PROVE  PassInv'
<1>1. CASE reconcileNormal
  BY <1>1, NormalPass
<1>2. CASE reconcileDelete
  <2>1. /\ pc = "delete" /\ pc' = "patch" /\ UNCHANGED <<who, base>>
        /\ \/ obj' = obj \/ obj' = [obj EXCEPT !.finalizer = FALSE]
    BY <1>2, DeleteFrame
  <2>2. obj \in Object /\ Witnessed(who, base)
    BY <2>1 DEF TypeOK, RecordInv
  <2>3. /\ obj'.uid = obj.uid /\ obj'.deleting = obj.deleting /\ obj'.nodeID = obj.nodeID
        /\ obj'.applied = obj.applied /\ obj'.applyCmd = obj.applyCmd
        /\ obj'.rebootAt = obj.rebootAt /\ obj'.providerID = obj.providerID
        /\ obj'.failure = obj.failure /\ obj'.provisioned = obj.provisioned
    BY <2>1, <2>2 DEF Object
  <2> QED BY <2>1, <2>2, <2>3, FreshPass, QuietPass
<1>3. CASE PatchObject
  BY <1>3, PassStays DEF PatchObject
<1>4. CASE PatchStatus \/ Interrupted
  BY <1>4 DEF PatchStatus, Interrupted, Restart, EndPass, PassInv
<1>5. ASSUME NEW m \in Machines, Reconcile(m) PROVE PassInv'
  <2>1. /\ cache[m] \in Object /\ cache[m] # None
        /\ who' = m /\ base' = cache[m] /\ obj' = [cache[m] EXCEPT !.finalizer = TRUE]
        /\ pc' = IF cache[m].deleting THEN "delete" ELSE "normal"
    BY <1>5 DEF Reconcile, TypeOK
  <2>2. /\ obj'.uid = base'.uid /\ obj'.deleting = base'.deleting
        /\ obj'.nodeID = base'.nodeID
        /\ obj'.applied = base'.applied /\ obj'.applyCmd = base'.applyCmd
        /\ obj'.rebootAt = base'.rebootAt /\ obj'.providerID = base'.providerID
        /\ obj'.failure = base'.failure /\ obj'.provisioned = base'.provisioned
    BY <2>1 DEF Object
  <2>3. base'.nodeID = None => ~Begun(obj)'
    BY <2>1, <2>2 DEF RecordInv, Witnessed, Begun
  <2> QED BY <2>1, <2>2, <2>3 DEF PassInv
<1>6. CASE \/ \E m \in Machines : Sync(m) \/ UserDelete(m) \/ Move(m)
           \/ \E n \in Nodes : NodeStep(n) /\ UNCHANGED <<apiVars, passVars>>
           \/ UNCHANGED <<store, cache, passVars, fleetVars, tampered>>
  <2>1. UNCHANGED <<who, base, obj>> /\ pc' = pc
    BY <1>6 DEF Sync, UserDelete, Move, passVars
  <2> QED BY <2>1, PassStays
<1> QED BY <1>1, <1>2, <1>3, <1>4, <1>5, <1>6, StepKinds

\* What every field of the stored object becomes when a pass writes metadata.
LEMMA PatchFields ==
  ASSUME TypeOK, pc = "patch", store[who] # None
  PROVE  /\ patched \in Object /\ obj \in Object /\ base \in Object
         /\ store[who] \in Object /\ who \in Machines
         /\ patched.uid = store[who].uid
         /\ patched.deleting = store[who].deleting
         /\ patched.finalizer = merged("finalizer")
         /\ patched.nodeID = IF obj.nodeID # base.nodeID THEN obj.nodeID ELSE store[who].nodeID
         /\ patched.claimKey =
              IF obj.claimKey # base.claimKey THEN obj.claimKey ELSE store[who].claimKey
         /\ patched.applied =
              IF obj.applied # base.applied THEN obj.applied ELSE store[who].applied
         /\ patched.applyCmd =
              IF obj.applyCmd # base.applyCmd THEN obj.applyCmd ELSE store[who].applyCmd
         /\ patched.rebootAt =
              IF obj.rebootAt # base.rebootAt THEN obj.rebootAt ELSE store[who].rebootAt
         /\ patched.providerID =
              IF obj.providerID # base.providerID
                THEN obj.providerID ELSE store[who].providerID
         /\ patched.provisioned = store[who].provisioned
         /\ patched.failure = store[who].failure
<1>1. patched \in Object
  BY PatchFacts
<1>2. obj \in Object /\ base \in Object /\ store[who] \in Object /\ who \in Machines
  BY DEF TypeOK
<1> QED BY <1>1, <1>2 DEF patched, merged, Object

\* A machine that has a node for good keeps it: the store never loses a node.
LEMMA SettledStays ==
  ASSUME TypeOK, RecordInv, [OpenNext]_vars, NEW m \in Machines, Settled(m)
  PROVE  Settled(m)'
<1>1. store[m] # None => store[m].nodeID # None
  BY DEF Settled, RecordInv
<1>2. CASE reconcileNormal \/ reconcileDelete
  BY <1>2, NormalFrame, DeleteFrame DEF Settled
<1>3. CASE PatchObject \/ PatchStatus
  BY <1>3 DEF PatchObject, PatchStatus, EndPass, Settled
<1>4. CASE Interrupted
  BY <1>1, <1>4 DEF Interrupted, Restart, EndPass, Settled
<1>5. ASSUME NEW k \in Machines, Reconcile(k) \/ Sync(k) \/ UserDelete(k) \/ Move(k)
      PROVE  Settled(m)'
  <2>1. CASE Reconcile(k)
    BY <2>1 DEF Reconcile, Settled
  <2>2. CASE Sync(k)
    BY <1>1, <2>2 DEF Sync, passVars, Settled, TypeOK
  <2>3. CASE UserDelete(k)
    BY <2>3 DEF UserDelete, passVars, Settled
  <2>4. CASE Move(k)
    <3>1. /\ UNCHANGED <<pc, who, base>> /\ store[k] \in Object
          /\ cache' = [cache EXCEPT ![k] =
                         WithStatus([store[k] EXCEPT !.uid = @ + 1], FALSE, FALSE)]
      BY <2>4 DEF Move, passVars, TypeOK
    <3>2. WithStatus([store[k] EXCEPT !.uid = @ + 1], FALSE, FALSE).nodeID = store[k].nodeID
      BY <3>1 DEF WithStatus, Object
    <3>3. \/ cache'[m] = cache[m]
          \/ cache'[m].nodeID = store[m].nodeID /\ store[m] # None
      BY <3>1, <3>2, GoneAssumption DEF TypeOK
    <3> QED BY <1>1, <3>1, <3>3 DEF Settled
  <2> QED BY <1>5, <2>1, <2>2, <2>3, <2>4
<1>6. CASE \/ \E n \in Nodes : NodeStep(n) /\ UNCHANGED <<apiVars, passVars>>
           \/ UNCHANGED <<store, cache, passVars, fleetVars, tampered>>
  BY <1>6 DEF apiVars, passVars, Settled
<1> QED BY <1>2, <1>3, <1>4, <1>5, <1>6, StepKinds

\* Inherited, in the next state, for a node that is given.
InheritedNext(m, n) == m \in Legacy /\ cmds'[n][1].phase = "Failed"

\* Witnessed, in the next state, for a view that is given.
WitnessedNext(m, o) ==
    o # None =>
        /\ Begun(o) => Settled(m)' /\ o.nodeID # None
        /\ o.applyCmd # None =>
            /\ o.applyCmd[2] \in DOMAIN cmds'[o.applyCmd[1]]
            /\ cmds'[o.applyCmd[1]][o.applyCmd[2]].kind = "apply"
            /\ cmds'[o.applyCmd[1]][o.applyCmd[2]].by = m
        /\ o.applied /\ o.applyCmd = None => m \in Legacy
        /\ o.rebootAt # None \/ o.provisioned =>
            \E i \in DOMAIN cmds'[o.nodeID] :
                /\ cmds'[o.nodeID][i].kind = "reboot"
                /\ cmds'[o.nodeID][i].by = m
                /\ cmds'[o.nodeID][i].phase \in CommandPhases
        /\ o.providerID \in {None, o.nodeID}
        /\ o.failure /\ "stray404" \notin Mishaps =>
            phase'[o.nodeID] = "Missing" \/ InheritedNext(m, o.nodeID)
        /\ m \in Legacy =>
            o.nodeID # None /\ cmds'[o.nodeID] # <<>> /\ cmds'[o.nodeID][1].by = m

\* What a view records stays true.
LEMMA WitnessStays ==
  ASSUME TypeOK, TypeOK', RecordInv, [OpenNext]_vars, NEW m \in Machines,
         NEW o \in Object \cup {None}, Witnessed(m, o)
  PROVE  WitnessedNext(m, o)
<1> SUFFICES ASSUME o # None, o \in Object PROVE WitnessedNext(m, o)
  BY DEF WitnessedNext
<1>1. Begun(o) => Settled(m)' /\ o.nodeID # None
  BY SettledStays DEF Witnessed
<1>2. ASSUME o.applyCmd # None
      PROVE  /\ o.applyCmd[2] \in DOMAIN cmds'[o.applyCmd[1]]
             /\ cmds'[o.applyCmd[1]][o.applyCmd[2]].kind = "apply"
             /\ cmds'[o.applyCmd[1]][o.applyCmd[2]].by = m
  <2>1. o.applyCmd[1] \in Nodes /\ OwnApply(m, o.applyCmd)
    BY <1>2 DEF Witnessed, Object, MaybeID
  <2> QED BY <2>1, HistoryKept DEF OwnApply
<1>3. ASSUME o.rebootAt # None \/ o.provisioned
      PROVE  \E i \in DOMAIN cmds'[o.nodeID] :
                /\ cmds'[o.nodeID][i].kind = "reboot"
                /\ cmds'[o.nodeID][i].by = m
                /\ cmds'[o.nodeID][i].phase \in CommandPhases
  <2>1. o.nodeID \in Nodes
    BY <1>3 DEF Witnessed, Begun, Object, MaybeNode
  <2>2. PICK i \in DOMAIN cmds[o.nodeID] :
          cmds[o.nodeID][i].kind = "reboot" /\ cmds[o.nodeID][i].by = m
    BY <1>3 DEF Witnessed, Sent
  <2>3. /\ i \in DOMAIN cmds'[o.nodeID] /\ cmds'[o.nodeID][i].kind = "reboot"
        /\ cmds'[o.nodeID][i].by = m
    BY <2>1, <2>2, HistoryKept
  <2>4. cmds'[o.nodeID] \in Seq(Command)
    BY <2>1 DEF TypeOK, FleetTypeOK
  <2>5. cmds'[o.nodeID][i] \in Command
    BY <2>3, <2>4
  <2> QED BY <2>3, <2>5 DEF Command
<1>4. ASSUME o.failure, "stray404" \notin Mishaps
      PROVE  phase'[o.nodeID] = "Missing" \/ InheritedNext(m, o.nodeID)
  <2>1. o.nodeID \in Nodes /\ (~Exists(o.nodeID) \/ Inherited(m, o.nodeID))
    BY <1>4 DEF Witnessed, Begun, Object, MaybeNode
  <2>2. \A n \in Nodes : phase[n] = "Missing" => phase'[n] = "Missing"
    BY FactsStay DEF Exists
  <2>3. CASE Inherited(m, o.nodeID)
    <3>1. cmds[o.nodeID] # <<>>
      BY <2>3 DEF Witnessed, Inherited
    <3>2. Inherited(m, o.nodeID)'
      BY <2>1, <2>3, <3>1, FactsStay
    <3> QED BY <3>2 DEF Inherited, InheritedNext
  <2> QED BY <2>1, <2>2, <2>3 DEF Exists
<1>5. ASSUME m \in Legacy
      PROVE  o.nodeID # None /\ cmds'[o.nodeID] # <<>> /\ cmds'[o.nodeID][1].by = m
  <2>1. o.nodeID \in Nodes /\ cmds[o.nodeID] # <<>> /\ cmds[o.nodeID][1].by = m
    BY <1>5 DEF Witnessed, Object, MaybeNode
  <2> QED BY <2>1, FactsStay, NoneAssumption
<1> QED BY <1>1, <1>2, <1>3, <1>4, <1>5 DEF Witnessed, WitnessedNext

\* The stored, the cached and the read object of the next state.
LEMMA NextViews ==
  ASSUME NEW m \in Machines, NEW o, WitnessedNext(m, o)
  PROVE  /\ store'[m] = o => Witnessed(m, store[m])'
         /\ cache'[m] = o => Witnessed(m, cache[m])'
         /\ who' = m /\ base' = o => Witnessed(who, base)'
<1>1. ASSUME store'[m] = o PROVE Witnessed(m, store[m])'
  BY <1>1 DEF Witnessed, WitnessedNext, OwnApply, Sent, Exists, Begun, Inherited,
     InheritedNext
<1>2. ASSUME cache'[m] = o PROVE Witnessed(m, cache[m])'
  BY <1>2 DEF Witnessed, WitnessedNext, OwnApply, Sent, Exists, Begun, Inherited,
     InheritedNext
<1>3. ASSUME who' = m, base' = o PROVE Witnessed(who, base)'
  BY <1>3 DEF Witnessed, WitnessedNext, OwnApply, Sent, Exists, Begun, Inherited,
     InheritedNext
<1> QED BY <1>1, <1>2, <1>3

\* A metadata write merges what the pass recorded into what is stored, and the
\* result is still witnessed: this is where stale reads and merge patches meet.
LEMMA PatchWitnessed ==
  ASSUME TypeOK, TypeOK', RecordInv, PassInv, [OpenNext]_vars, PatchObject, store[who] # None
  PROVE  /\ WitnessedNext(who, patched)
         /\ Settled(who) => patched.nodeID = store[who].nodeID
         /\ store[who].nodeID # None => patched.nodeID # None
<1> DEFINE s == store[who]
<1>1. /\ pc = "patch" /\ UNCHANGED <<who, base, obj, cmds, phase, cache>>
      /\ pc' = "patchStatus"
  BY DEF PatchObject, worldVars, fleetVars
<1>2. /\ patched \in Object /\ obj \in Object /\ base \in Object /\ s \in Object
      /\ who \in Machines /\ base # None
      /\ patched.nodeID = IF obj.nodeID # base.nodeID THEN obj.nodeID ELSE s.nodeID
      /\ patched.applied = IF obj.applied # base.applied THEN obj.applied ELSE s.applied
      /\ patched.applyCmd = IF obj.applyCmd # base.applyCmd THEN obj.applyCmd ELSE s.applyCmd
      /\ patched.rebootAt = IF obj.rebootAt # base.rebootAt THEN obj.rebootAt ELSE s.rebootAt
      /\ patched.providerID =
           IF obj.providerID # base.providerID THEN obj.providerID ELSE s.providerID
      /\ patched.provisioned = s.provisioned
      /\ patched.failure = s.failure
  BY <1>1, PatchFields, GoneAssumption
<1>3. Witnessed(who, s) /\ Witnessed(who, base)
  BY <1>1, <1>2 DEF RecordInv
<1>4. WitnessedNext(who, s) /\ WitnessedNext(who, base)
  BY <1>2, <1>3, WitnessStays
<1>5. CASE base.nodeID = None
  <2>1. ~Settled(who) /\ ~Begun(base) /\ ~Begun(s) /\ ~Begun(obj) /\ who \notin Legacy
    BY <1>1, <1>2, <1>3, <1>5 DEF Settled, Witnessed, PassInv
  <2>2. ~Begun(patched)
    BY <1>2, <2>1 DEF Begun
  <2>3. WitnessedNext(who, patched)
    BY <2>1, <2>2 DEF WitnessedNext, Begun
  <2>4. s.nodeID # None => patched.nodeID # None
    BY <1>2, <1>5
  <2> QED BY <2>1, <2>3, <2>4
<1>6. CASE base.nodeID # None
  <2>1. patched.nodeID = s.nodeID /\ obj.nodeID = base.nodeID
    BY <1>1, <1>2, <1>6 DEF PassInv
  <2>2. Settled(who) /\ Settled(who)'
    BY <1>1, <1>2, <1>6, SettledStays DEF RecordInv
  <2>3. s.nodeID # None
    BY <1>2, <2>2 DEF RecordInv, Settled
  <2>4. Begun(base) => s.nodeID = base.nodeID
    BY <1>1 DEF RecordInv
  <2>5. /\ patched.applyCmd # None =>
             /\ patched.applyCmd[2] \in DOMAIN cmds'[patched.applyCmd[1]]
             /\ cmds'[patched.applyCmd[1]][patched.applyCmd[2]].kind = "apply"
             /\ cmds'[patched.applyCmd[1]][patched.applyCmd[2]].by = who
        /\ patched.applied /\ patched.applyCmd = None => who \in Legacy
    BY <1>1, <1>2, <1>3 DEF PassInv, Witnessed, OwnApply
  <2>6. patched.rebootAt # None \/ patched.provisioned =>
          \E i \in DOMAIN cmds'[patched.nodeID] :
             /\ cmds'[patched.nodeID][i].kind = "reboot"
             /\ cmds'[patched.nodeID][i].by = who
             /\ cmds'[patched.nodeID][i].phase \in CommandPhases
    <3>1. CASE s.rebootAt # None \/ s.provisioned
      BY <1>2, <1>4, <2>1, <3>1 DEF WitnessedNext
    <3>2. CASE ~(s.rebootAt # None \/ s.provisioned) /\ patched.rebootAt # None
      <4>1. base.applied /\ Sent(who, base.nodeID, "reboot", CommandPhases)
        BY <1>1, <1>2, <3>2 DEF PassInv
      <4>2. patched.nodeID = base.nodeID
        BY <2>1, <2>4, <4>1 DEF Begun
      <4> QED BY <1>1, <4>1, <4>2 DEF Sent
    <3> QED BY <1>2, <3>1, <3>2
  <2>7. patched.providerID \in {None, patched.nodeID}
    <3>1. CASE obj.providerID # base.providerID
      BY <1>1, <1>2, <2>1, <2>4, <3>1 DEF PassInv, Begun
    <3>2. CASE obj.providerID = base.providerID
      BY <1>2, <1>3, <2>1, <3>2 DEF Witnessed
    <3> QED BY <3>1, <3>2
  <2>8. patched.failure /\ "stray404" \notin Mishaps =>
          phase'[patched.nodeID] = "Missing" \/ InheritedNext(who, patched.nodeID)
    BY <1>2, <1>4, <2>1 DEF WitnessedNext
  <2>9. who \in Legacy =>
          /\ patched.nodeID # None /\ cmds'[patched.nodeID] # <<>>
          /\ cmds'[patched.nodeID][1].by = who
    BY <1>2, <1>4, <2>1 DEF WitnessedNext
  <2>10. WitnessedNext(who, patched)
    BY <2>1, <2>2, <2>3, <2>5, <2>6, <2>7, <2>8, <2>9 DEF WitnessedNext
  <2> QED BY <2>1, <2>3, <2>10
<1> QED BY <1>5, <1>6

\* A pass in progress keeps what it read.
LEMMA PassViews ==
  ASSUME TypeOK, TypeOK', RecordInv, [OpenNext]_vars, pc # "idle", UNCHANGED <<who, base>>
  PROVE  /\ Witnessed(who, base)'
         /\ base'.nodeID # None => Settled(who)'
<1>1. who \in Machines /\ base \in Object
  BY DEF TypeOK
<1>2. PICK w \in Machines : w = who
  BY <1>1
<1>3. WitnessedNext(w, base)
  BY <1>1, <1>2, WitnessStays DEF RecordInv
<1>4. Witnessed(who, base)'
  BY <1>2, <1>3, NextViews
<1>5. base.nodeID # None => Settled(w)'
  BY <1>2, SettledStays DEF RecordInv
<1> QED BY <1>2, <1>4, <1>5 DEF Settled

\* Steps of a pass, or of a node, that leave every view as it is.
LEMMA SameViews ==
  ASSUME TypeOK, TypeOK', RecordInv, [OpenNext]_vars,
         UNCHANGED <<store, cache>>,
         (pc' = "idle") \/ (pc # "idle" /\ pc' # "idle" /\ UNCHANGED <<who, base>>)
  PROVE  RecordInv'
<1>1. ASSUME NEW m \in Machines
      PROVE  /\ cache'[m] = None => store'[m] = None
             /\ Witnessed(m, store[m])' /\ Witnessed(m, cache[m])'
             /\ cache'[m] # None /\ store'[m] # None =>
                  /\ cache'[m].nodeID # None => store'[m].nodeID # None
                  /\ Begun(cache[m])' => store'[m].nodeID = cache'[m].nodeID
  <2>1. WitnessedNext(m, store[m]) /\ WitnessedNext(m, cache[m])
    BY WitnessStays DEF RecordInv, TypeOK
  <2> QED BY <2>1, NextViews DEF RecordInv, Begun
<1>2. ASSUME pc' # "idle"
      PROVE  /\ Witnessed(who, base)'
             /\ base'.nodeID # None => Settled(who)'
             /\ Begun(base)' /\ store'[who'] # None => store'[who'].nodeID = base'.nodeID
  BY <1>2, PassViews DEF RecordInv, Begun
<1> QED BY <1>1, <1>2 DEF RecordInv

\* Every step keeps the records witnessed.
LEMMA RecordNext ==
  ASSUME TypeOK, TypeOK', RecordInv, PassInv, [OpenNext]_vars
  PROVE  RecordInv'
<1>0. \A m \in Machines : WitnessedNext(m, store[m]) /\ WitnessedNext(m, cache[m])
  BY WitnessStays DEF RecordInv, TypeOK
<1>1. CASE reconcileNormal \/ reconcileDelete
  <2>1. UNCHANGED <<store, cache>> /\ UNCHANGED <<who, base>> /\ pc # "idle" /\ pc' # "idle"
    BY <1>1, NormalFrame, DeleteFrame
  <2> QED BY <2>1, SameViews
<1>2. CASE \/ \E n \in Nodes : NodeStep(n) /\ UNCHANGED <<apiVars, passVars>>
           \/ UNCHANGED <<store, cache, passVars, fleetVars, tampered>>
  <2>1. UNCHANGED <<store, cache>> /\ UNCHANGED <<who, base>> /\ pc' = pc
    BY <1>2 DEF apiVars, passVars
  <2> QED BY <2>1, SameViews
<1>3. CASE PatchObject
  <2>1. /\ UNCHANGED <<who, base, obj, cache>> /\ pc = "patch" /\ pc' = "patchStatus"
        /\ who \in Machines /\ base \in Object
    BY <1>3 DEF PatchObject, TypeOK
  <2>2. CASE UNCHANGED store
    <3>1. UNCHANGED <<store, cache>> /\ UNCHANGED <<who, base>>
      BY <2>1, <2>2
    <3> QED BY <2>1, <3>1, SameViews
  <2>3. CASE store[who] # None /\ store' = [store EXCEPT ![who] = Stored(patched)]
    <3>1. PICK w \in Machines : w = who
      BY <2>1
    <3>2. PICK p \in Object : p = patched
      BY <2>1, <2>3, PatchFields
    <3>3. /\ store'[w] \in {None, p}
          /\ \A m \in Machines : m # w => store'[m] = store[m]
          /\ store[w] # None
      BY <2>1, <2>3, <3>1, <3>2 DEF Stored, TypeOK
    <3>4. /\ WitnessedNext(w, p)
          /\ Settled(w) => p.nodeID = store[w].nodeID
          /\ store[w].nodeID # None => p.nodeID # None
      <4>1. /\ WitnessedNext(who, patched)
            /\ Settled(who) => patched.nodeID = store[who].nodeID
            /\ store[who].nodeID # None => patched.nodeID # None
        BY <1>3, <2>3, PatchWitnessed
      <4> QED BY <2>1, <3>1, <3>2, <4>1 DEF WitnessedNext, Settled
    <3>5. WitnessedNext(w, None)
      BY DEF WitnessedNext
    <3>6. ASSUME NEW m \in Machines
          PROVE  /\ cache'[m] = None => store'[m] = None
                 /\ Witnessed(m, store[m])' /\ Witnessed(m, cache[m])'
                 /\ cache'[m] # None /\ store'[m] # None =>
                      /\ cache'[m].nodeID # None => store'[m].nodeID # None
                      /\ Begun(cache[m])' => store'[m].nodeID = cache'[m].nodeID
      <4>1. Witnessed(m, store[m])' /\ Witnessed(m, cache[m])'
        BY <1>0, <2>1, <3>3, <3>4, <3>5, NextViews
      <4>2. cache[m] # None /\ Begun(cache[m]) => Settled(m)
        BY DEF RecordInv, Witnessed
      <4> QED BY <2>1, <3>3, <3>4, <4>1, <4>2 DEF RecordInv, Begun
    <3>7. /\ Witnessed(who, base)'
          /\ base'.nodeID # None => Settled(who)'
          /\ Begun(base)' /\ store'[who'] # None => store'[who'].nodeID = base'.nodeID
      <4>1. UNCHANGED <<who, base>> /\ pc # "idle"
        BY <2>1
      <4>2. Witnessed(who, base)' /\ (base'.nodeID # None => Settled(who)')
        BY <4>1, PassViews
      <4>5. Begun(base) => Settled(w) /\ store[w].nodeID = base.nodeID
        BY <2>1, <3>1, <3>3, GoneAssumption DEF RecordInv, Witnessed
      <4> QED BY <2>1, <3>1, <3>3, <3>4, <4>2, <4>5 DEF Begun
    <3> QED BY <3>6, <3>7 DEF RecordInv
  <2> QED BY <1>3, <2>2, <2>3 DEF PatchObject
<1>4. CASE PatchStatus
  <2>1. UNCHANGED cache /\ pc = "patchStatus" /\ pc' = "idle" /\ who \in Machines
    BY <1>4 DEF PatchStatus, EndPass, TypeOK
  <2>2. CASE UNCHANGED store
    BY <2>1, <2>2, SameViews
  <2>3. CASE /\ store[who] # None
             /\ store' = [store EXCEPT ![who] =
                   WithStatus(@, merged("provisioned"), merged("failure"))]
    <3>1. PICK w \in Machines : w = who
      BY <2>1
    <3>2. obj \in Object /\ base \in Object /\ store[w] \in Object
      BY <2>1, <2>3, <3>1 DEF TypeOK
    <3>3. PICK p : p = WithStatus(store[w], merged("provisioned"), merged("failure"))
      OBVIOUS
    <3>4. /\ store'[w] = p /\ store[w] # None
          /\ \A m \in Machines : m # w => store'[m] = store[m]
      BY <2>1, <2>3, <3>1, <3>3 DEF TypeOK
    <3>5. /\ p.nodeID = store[w].nodeID /\ p.applied = store[w].applied
          /\ p.applyCmd = store[w].applyCmd /\ p.rebootAt = store[w].rebootAt
          /\ p.providerID = store[w].providerID
          /\ p.provisioned = merged("provisioned")
          /\ p.failure = merged("failure")
      BY <3>2, <3>3 DEF WithStatus, Object
    <3>6. /\ p.provisioned => store[w].provisioned \/ (obj.provisioned /\ ~base.provisioned)
          /\ p.failure => store[w].failure \/ (obj.failure /\ ~base.failure)
      BY <3>1, <3>2, <3>5 DEF merged, Object
    <3>7. WitnessedNext(w, store[w]) /\ WitnessedNext(w, base)
      BY <1>0, <2>1, <3>1, <3>2, WitnessStays DEF RecordInv
    <3>8. (obj.provisioned /\ ~base.provisioned) \/ (obj.failure /\ ~base.failure) =>
            /\ base.rebootAt # None
            /\ store[w].nodeID = base.nodeID /\ base.nodeID # None /\ Settled(w)'
      <4>1. ASSUME base.rebootAt # None
            PROVE  store[w].nodeID = base.nodeID /\ base.nodeID # None /\ Settled(w)
        BY <2>1, <3>1, <3>2, <3>4, <4>1, GoneAssumption DEF RecordInv, Witnessed, Begun
      <4>2. (obj.provisioned /\ ~base.provisioned) \/ (obj.failure /\ ~base.failure) =>
              base.rebootAt # None
        BY <2>1 DEF PassInv
      <4> QED BY <4>1, <4>2, SettledStays
    <3>9. obj.failure /\ ~base.failure /\ "stray404" \notin Mishaps =>
            phase'[base.nodeID] = "Missing"
      BY <1>4, <2>1 DEF PassInv, PatchStatus, worldVars, fleetVars, Exists
    <3>10. WitnessedNext(w, p)
      <4>1. Begun(p) => Settled(w)' /\ p.nodeID # None
        BY <3>4, <3>5, <3>6, <3>7, <3>8 DEF WitnessedNext, Begun
      <4>2. p.rebootAt # None \/ p.provisioned =>
              \E i \in DOMAIN cmds'[p.nodeID] :
                 /\ cmds'[p.nodeID][i].kind = "reboot"
                 /\ cmds'[p.nodeID][i].by = w
                 /\ cmds'[p.nodeID][i].phase \in CommandPhases
        <5>1. CASE store[w].rebootAt # None \/ store[w].provisioned
          BY <3>4, <3>5, <3>7, <5>1 DEF WitnessedNext
        <5>2. CASE obj.provisioned /\ ~base.provisioned
          BY <3>2, <3>5, <3>7, <3>8, <5>2, GoneAssumption DEF WitnessedNext
        <5> QED BY <3>5, <3>6, <5>1, <5>2
      <4>3. p.failure /\ "stray404" \notin Mishaps =>
              phase'[p.nodeID] = "Missing" \/ InheritedNext(w, p.nodeID)
        BY <3>4, <3>5, <3>6, <3>7, <3>8, <3>9 DEF WitnessedNext
      <4> QED BY <3>4, <3>5, <3>7, <4>1, <4>2, <4>3 DEF WitnessedNext
    <3>11. ASSUME NEW m \in Machines
           PROVE  /\ cache'[m] = None => store'[m] = None
                  /\ Witnessed(m, store[m])' /\ Witnessed(m, cache[m])'
                  /\ cache'[m] # None /\ store'[m] # None =>
                       /\ cache'[m].nodeID # None => store'[m].nodeID # None
                       /\ Begun(cache[m])' => store'[m].nodeID = cache'[m].nodeID
      <4>1. Witnessed(m, store[m])' /\ Witnessed(m, cache[m])'
        BY <1>0, <2>1, <3>4, <3>10, NextViews
      <4> QED BY <2>1, <3>4, <3>5, <4>1 DEF RecordInv, Begun
    <3> QED BY <2>1, <3>11 DEF RecordInv
  <2> QED BY <1>4, <2>2, <2>3 DEF PatchStatus
<1>5. CASE Interrupted
  <2>1. cache' = store /\ UNCHANGED store /\ pc' = "idle"
    BY <1>5 DEF Interrupted, Restart, EndPass
  <2>2. ASSUME NEW m \in Machines PROVE Witnessed(m, store[m])' /\ Witnessed(m, cache[m])'
    BY <1>0, <2>1, NextViews
  <2> QED BY <2>1, <2>2 DEF RecordInv
<1>6. ASSUME NEW k \in Machines, Reconcile(k) PROVE RecordInv'
  <2>1. /\ UNCHANGED <<store, cache>> /\ cache[k] # None
        /\ who' = k /\ base' = cache[k] /\ pc' # "idle" /\ pc = "idle"
    BY <1>6 DEF Reconcile, worldVars
  <2>2. ASSUME NEW m \in Machines PROVE Witnessed(m, store[m])' /\ Witnessed(m, cache[m])'
    BY <1>0, <2>1, NextViews
  <2>3. Witnessed(who, base)'
    BY <1>0, <2>1, NextViews
  <2>4. base'.nodeID # None => Settled(who)'
    BY <2>1 DEF Settled
  <2> QED BY <2>1, <2>2, <2>3, <2>4 DEF RecordInv, Begun
<1>7. ASSUME NEW k \in Machines, Sync(k) PROVE RecordInv'
  <2>1. /\ UNCHANGED <<store, pc, who, base>> /\ cache'[k] = store[k]
        /\ \A m \in Machines : m # k => cache'[m] = cache[m]
    BY <1>7 DEF Sync, worldVars, passVars, TypeOK
  <2>2. ASSUME NEW m \in Machines PROVE Witnessed(m, store[m])' /\ Witnessed(m, cache[m])'
    BY <1>0, <2>1, <2>2, NextViews
  <2>3. UNCHANGED <<who, base>>
    BY <2>1
  <2>4. pc # "idle" => Witnessed(who, base)' /\ (base'.nodeID # None => Settled(who)')
    BY <2>3, PassViews
  <2> QED BY <2>1, <2>2, <2>4 DEF RecordInv, Begun
<1>8. ASSUME NEW k \in Machines, UserDelete(k) PROVE RecordInv'
  <2>1. PICK p : p = [store[k] EXCEPT !.deleting = TRUE]
    OBVIOUS
  <2>2. /\ UNCHANGED <<cache, pc, who, base>> /\ store'[k] \in {None, p}
        /\ store[k] \in Object /\ store[k] # None
        /\ \A m \in Machines : m # k => store'[m] = store[m]
    BY <1>8, <2>1 DEF UserDelete, Stored, worldVars, passVars, TypeOK
  <2>3. /\ p.nodeID = store[k].nodeID /\ p.applied = store[k].applied
        /\ p.applyCmd = store[k].applyCmd /\ p.rebootAt = store[k].rebootAt
        /\ p.providerID = store[k].providerID /\ p.provisioned = store[k].provisioned
        /\ p.failure = store[k].failure
    BY <2>1, <2>2 DEF Object
  <2>4. WitnessedNext(k, p) /\ WitnessedNext(k, None)
    BY <1>0, <2>2, <2>3 DEF WitnessedNext, Begun
  <2>5. ASSUME NEW m \in Machines PROVE Witnessed(m, store[m])' /\ Witnessed(m, cache[m])'
    BY <1>0, <2>2, <2>4, NextViews
  <2>6. UNCHANGED <<who, base>>
    BY <2>2
  <2>7. pc # "idle" => Witnessed(who, base)' /\ (base'.nodeID # None => Settled(who)')
    BY <2>6, PassViews
  <2>8. \A m \in Machines : store'[m] # None =>
          store[m] # None /\ store'[m].nodeID = store[m].nodeID
    BY <2>2, <2>3
  <2>9. pc # "idle" => who \in Machines
    BY DEF TypeOK
  <2> QED BY <2>2, <2>5, <2>7, <2>8, <2>9 DEF RecordInv, Begun
<1>9. ASSUME NEW k \in Machines, Move(k) PROVE RecordInv'
  <2>1. PICK p : p = WithStatus([store[k] EXCEPT !.uid = @ + 1], FALSE, FALSE)
    OBVIOUS
  <2>2. /\ pc' = "idle" /\ store'[k] = p /\ cache'[k] = p
        /\ store[k] \in Object /\ store[k] # None
        /\ \A m \in Machines : m # k => store'[m] = store[m] /\ cache'[m] = cache[m]
    BY <1>9, <2>1 DEF Move, passVars, TypeOK
  <2>3. /\ p.nodeID = store[k].nodeID /\ p.applied = store[k].applied
        /\ p.applyCmd = store[k].applyCmd /\ p.rebootAt = store[k].rebootAt
        /\ p.providerID = store[k].providerID /\ ~p.provisioned /\ ~p.failure
    BY <2>1, <2>2 DEF WithStatus, Object
  <2>4. WitnessedNext(k, p)
    BY <1>0, <2>2, <2>3 DEF WitnessedNext, Begun
  <2>5. ASSUME NEW m \in Machines PROVE Witnessed(m, store[m])' /\ Witnessed(m, cache[m])'
    BY <1>0, <2>2, <2>4, NextViews
  <2>6. store'[k] # None
    <3>1. [store[k] EXCEPT !.uid = @ + 1] \in Object
      BY <2>2 DEF Object
    <3>2. p \in Object
      BY <2>1, <3>1, WithStatusFacts
    <3> QED BY <2>2, <3>2, GoneAssumption
  <2>7. ASSUME NEW m \in Machines
        PROVE  /\ cache'[m] = None => store'[m] = None
               /\ cache'[m] # None /\ store'[m] # None =>
                    /\ cache'[m].nodeID # None => store'[m].nodeID # None
                    /\ Begun(cache[m])' => store'[m].nodeID = cache'[m].nodeID
    BY <2>2, <2>6 DEF RecordInv, Begun
  <2> QED BY <2>2, <2>5, <2>7 DEF RecordInv
<1> QED BY <1>1, <1>2, <1>3, <1>4, <1>5, <1>6, <1>7, <1>8, <1>9, StepKinds

\* Initially nothing is recorded but what the legacy machines have been through.
LEMMA RecordInit == ASSUME CoreInit PROVE RecordInv /\ PassInv
<1>1. PICK held \in [Legacy -> Nodes], left \in [Legacy -> Left] : Adopts(held, left)
  BY Adopted
<1>2. pc = "idle" /\ cache = store
  BY DEF CoreInit
<1>3. ASSUME NEW m \in Machines
      PROVE  store[m] # None /\ Witnessed(m, store[m])
  <2>1. CASE m \in Legacy
    <3>1. PICK n \in Nodes, stage \in Left : n = held[m] /\ stage = left[m]
      BY <2>1
    <3>2. store[m] = Claimed(n, stage) /\ cmds[n] = LeftCommands(m, stage)
      BY <1>1, <2>1, <3>1 DEF Adopts
    <3>3. /\ store[m] # None /\ store[m].nodeID = n
          /\ store[m].applied /\ store[m].applyCmd = None
          /\ store[m].rebootAt # None => stage = "rebooting"
          /\ store[m].providerID = None /\ ~store[m].provisioned
          /\ store[m].failure => stage = "refused"
      BY <3>2, ClaimedFacts
    <3>4. /\ 1 \in DOMAIN cmds[n] /\ cmds[n] # <<>> /\ cmds[n][1].by = m
          /\ stage = "refused" => cmds[n][1].phase = "Failed"
      <4>1. DOMAIN cmds[n] # {}
        BY <3>2, LeftFacts
      <4> QED BY <3>2, <4>1, LeftFacts
    <3>5. stage = "rebooting" => Sent(m, n, "reboot", CommandPhases)
      BY <3>2, LeftFacts DEF Sent, CommandPhases
    <3>6. Settled(m)
      BY <1>2, <3>3, NoneAssumption DEF Settled
    <3>7. n # None
      BY NoneAssumption
    <3> QED BY <2>1, <3>3, <3>4, <3>5, <3>6, <3>7 DEF Witnessed, Begun, Inherited
  <2>2. CASE m \notin Legacy
    BY <1>1, <2>2, NewFacts DEF Adopts, Witnessed, Begun
  <2> QED BY <2>1, <2>2
<1> QED BY <1>2, <1>3 DEF RecordInv, PassInv

-----------------------------------------------------------------------------
(* The theorems *)

\* The history, record and pass invariants together are inductive, given the types
\* and ClaimInv: what every view records of a node has happened to it, through any
\* stale read, merge patch and repeated pass (reconcileNormal, the deferred patch).
LEMMA OpenRecords == OpenSpec => []ConfigInv
<1>1. CoreInit => ConfigInv
  BY HistoryInit, RecordInit DEF ConfigInv
<1>2. ASSUME TypeOK, TypeOK', ClaimInv, ConfigInv, [OpenNext]_vars PROVE ConfigInv'
  BY <1>2, HistoryNext, RecordNext, PassNext DEF ConfigInv
<1> QED BY <1>1, <1>2, OpenTypes, OpenClaims, PTL DEF OpenSpec

\* So what the annotations say can be relied on in every reachable state.
THEOREM RecordsWitnessed == Spec => []ConfigInv
BY SpecIsOpen, OpenRecords, PTL

\* The reboot of step 4 finds the machine's own apply-cloud-config carried out.
LEMMA RebootJustified ==
  ASSUME TypeOK, ClaimInv, ConfigInv, RequestReboot,
         ~(obj.nodeID \in tampered /\ who \in Legacy)
  PROVE  \E j \in DOMAIN cmds[obj.nodeID] :
            /\ cmds[obj.nodeID][j].kind = "apply"
            /\ cmds[obj.nodeID][j].by = who
            /\ cmds[obj.nodeID][j].phase = "Completed"
<1> DEFINE n == obj.nodeID
<1>1. /\ pc = "normal" /\ n # None /\ obj.applied
      /\ "Completed" \in commandState(n, obj.applyCmd, "apply")
  BY DEF RequestReboot, Rebooting, applyState
<1>2. /\ who \in Machines /\ n \in Nodes /\ base # None
      /\ base.nodeID = n /\ base.applied /\ base.applyCmd = obj.applyCmd
  BY <1>1, FreshPass, GoneAssumption DEF ConfigInv, Object, MaybeNode
<1>3. Witnessed(who, base)
  BY <1>1 DEF ConfigInv, RecordInv
<1>4. PICK i \in selected(n, obj.applyCmd, "apply") : cmds[n][i].phase = "Completed"
  BY <1>1 DEF commandState
<1>5. CASE obj.applyCmd # None
  <2>1. i \in DOMAIN cmds[n] /\ obj.applyCmd = <<n, i>>
    BY <1>4, <1>5 DEF selected
  <2>2. OwnApply(who, obj.applyCmd)
    BY <1>2, <1>3, <1>5 DEF Witnessed
  <2> QED BY <1>4, <2>1, <2>2 DEF OwnApply
<1>6. CASE obj.applyCmd = None
  <2>1. i \in DOMAIN cmds[n] /\ cmds[n][i].kind = "apply"
    BY <1>4, <1>6 DEF selected
  <2>2. who \in Legacy /\ cmds[n] # <<>> /\ cmds[n][1].by = who
    BY <1>2, <1>3, <1>6 DEF Witnessed
  <2>3. SoleSender(n)
    BY <1>2, <2>2 DEF ConfigInv, HistoryInv
  <2>4. Guarded(who)
    BY <1>1 DEF ClaimInv, Guarded
  <2>5. 1 \in DOMAIN cmds[n] /\ (i = 1 \/ 1 < i)
    BY <1>2, <2>1, <2>2 DEF TypeOK, FleetTypeOK
  <2>6. cmds[n][i].by = who
    BY <2>1, <2>2, <2>3, <2>4, <2>5 DEF SoleSender
  <2> QED BY <1>4, <2>1, <2>6
<1> QED BY <1>5, <1>6

\* In any manager, a reboot comes after the config it is for.
LEMMA OpenReboots == OpenSpec => []RebootFollowsApply
<1>1. CoreInit => RebootFollowsApply
  <2> SUFFICES ASSUME CoreInit PROVE RebootFollowsApply
    OBVIOUS
  <2>1. PICK held \in [Legacy -> Nodes], left \in [Legacy -> Left] : Adopts(held, left)
    BY Adopted
  <2> SUFFICES ASSUME NEW n \in Nodes, NEW i \in DOMAIN cmds[n], cmds[n][i].kind = "reboot"
               PROVE  \E j \in 1..(i - 1) :
                        /\ cmds[n][j].kind = "apply"
                        /\ cmds[n][j].by = cmds[n][i].by
                        /\ cmds[n][j].phase = "Completed"
    BY DEF RebootFollowsApply
  <2>2. cmds[n] # <<>>
    OBVIOUS
  <2>3. PICK l \in Legacy : held[l] = n
    BY <2>1, <2>2 DEF Adopts
  <2>4. l \in Machines /\ left[l] \in Left /\ cmds[n] = LeftCommands(l, left[l])
    BY <2>1, <2>3, LegacyAssumption DEF Adopts
  <2>5. i = 2 /\ left[l] = "rebooting"
    BY <2>4, LeftFacts
  <2> QED BY <2>4, <2>5, LeftFacts
<1>2. ASSUME TypeOK, ClaimInv, ConfigInv, RebootFollowsApply, [OpenNext]_vars
      PROVE  RebootFollowsApply'
  <2> SUFFICES ASSUME NEW n \in Nodes, NEW i \in DOMAIN cmds'[n],
                      cmds'[n][i].kind = "reboot",
                      ~(n \in tampered' /\ cmds'[n][i].by \in Legacy)
               PROVE  \E j \in 1..(i - 1) :
                        /\ cmds'[n][j].kind = "apply"
                        /\ cmds'[n][j].by = cmds'[n][i].by
                        /\ cmds'[n][j].phase = "Completed"
    BY DEF RebootFollowsApply
  <2>0. FleetTypeOK /\ Len(cmds[n]) \in Nat /\ DOMAIN cmds[n] = 1..Len(cmds[n])
    BY <1>2 DEF TypeOK, FleetTypeOK
  <2>1. tampered \subseteq tampered'
    BY <1>2, ClaimSteps, NormalFrame, DeleteFrame
    DEF reconcileNormal, reconcileDelete, OperatorRelease
  <2>2. CASE i \in DOMAIN cmds[n]
    <3>1. cmds[n][i].kind = "reboot" /\ cmds[n][i].by = cmds'[n][i].by
      BY <1>2, <2>2, HistoryKept
    <3>2. PICK j \in 1..(i - 1) :
            /\ cmds[n][j].kind = "apply"
            /\ cmds[n][j].by = cmds[n][i].by
            /\ cmds[n][j].phase = "Completed"
      BY <1>2, <2>1, <2>2, <3>1 DEF RebootFollowsApply
    <3>3. j \in DOMAIN cmds[n]
      BY <2>0, <2>2
    <3> QED BY <1>2, <3>1, <3>2, <3>3, HistoryKept
  <2>3. CASE i \notin DOMAIN cmds[n]
    <3>1. ApplyCloudConfig \/ RequestReboot
      <4>1. ~UNCHANGED cmds
        BY <2>3
      <4>2. ASSUME NEW k \in Nodes, NodeStep(k) PROVE FALSE
        <5>1. PICK x \in DOMAIN cmds[k], p \in CommandPhases :
                cmds' = [cmds EXCEPT ![k][x].phase = p]
          BY <4>1, <4>2, NodeCommands
        <5>2. \A y \in Nodes : DOMAIN cmds'[y] = DOMAIN cmds[y]
          BY <2>0, <5>1, SetPhaseFacts
        <5> QED BY <2>3, <5>2
      <4> QED BY <1>2, <4>1, <4>2, CommandSteps
    <3>2. /\ obj.nodeID \in Nodes /\ who \in Machines /\ UNCHANGED tampered
          /\ ServeCommand(obj.nodeID, IF ApplyCloudConfig THEN "apply" ELSE "reboot", who)
      BY <1>2, <3>1, SendFacts
    <3>3. PICK k \in Kinds : /\ ServeCommand(obj.nodeID, k, who)
                             /\ ApplyCloudConfig => k = "apply"
      BY <3>2 DEF Kinds
    <3>4. n = obj.nodeID /\ i = Len(cmds[n]) + 1
      BY <2>0, <2>3, <3>2, <3>3, ServeCommandFacts
    <3>5. /\ cmds'[n][i].kind = k /\ cmds'[n][i].by = who
          /\ \A j \in DOMAIN cmds[n] : cmds'[n][j] = cmds[n][j]
      BY <2>0, <3>2, <3>3, <3>4, ServeCommandFacts
    <3>6. RequestReboot /\ ~(obj.nodeID \in tampered /\ who \in Legacy)
      BY <3>1, <3>2, <3>3, <3>4, <3>5
    <3>7. PICK j \in DOMAIN cmds[n] :
            /\ cmds[n][j].kind = "apply" /\ cmds[n][j].by = who
            /\ cmds[n][j].phase = "Completed"
      BY <1>2, <3>4, <3>6, RebootJustified
    <3>8. j \in 1..(i - 1)
      BY <2>0, <3>4
    <3> QED BY <3>5, <3>7, <3>8
  <2> QED BY <2>2, <2>3
<1> QED BY <1>1, <1>2, OpenTypes, OpenClaims, OpenRecords, PTL DEF OpenSpec

\* A reboot is only ever queued after the same machine's apply-cloud-config was
\* carried out on that node, whatever was stale, lost, moved or restarted.
THEOREM RebootsFollowApplies == Spec => []RebootFollowsApply
BY SpecIsOpen, OpenReboots, PTL

\* In any manager, the node of a provisioned machine has that machine's config.
LEMMA OpenConfig == OpenSpec => []ProvisionedHasConfig
<1>1. TypeOK /\ ClaimInv /\ ConfigInv /\ RebootFollowsApply => ProvisionedHasConfig
  <2> SUFFICES ASSUME TypeOK, ClaimInv, ConfigInv, RebootFollowsApply,
                      NEW m \in Machines, Live(m), store[m].provisioned,
                      store[m].nodeID \notin tampered
               PROVE  staged[store[m].nodeID] = m
    BY DEF ProvisionedHasConfig
  <2> DEFINE n == store[m].nodeID
  <2>1. store[m] # None /\ store[m] \in Object /\ Guarded(m)
    BY DEF Live, TypeOK, ClaimInv, Guarded
  <2>2. n \in Nodes /\ Sent(m, n, "reboot", CommandPhases)
    BY <2>1 DEF ConfigInv, RecordInv, Witnessed, Begun, Object, MaybeNode
  <2>3. PICK i \in DOMAIN cmds[n] : cmds[n][i].kind = "reboot" /\ cmds[n][i].by = m
    BY <2>2 DEF Sent
  <2>4. PICK j \in 1..(i - 1) :
          cmds[n][j].kind = "apply" /\ cmds[n][j].by = m /\ cmds[n][j].phase = "Completed"
    BY <2>2, <2>3 DEF RebootFollowsApply
  <2>5. j \in DOMAIN cmds[n] /\ \A k \in DOMAIN cmds[n] : j <= k => j < k \/ j = k
    BY <2>2, <2>3, <2>4 DEF TypeOK, FleetTypeOK
  <2>6. PICK k \in DOMAIN cmds[n] : j <= k /\ cmds[n][k].by = staged[n]
    BY <2>2, <2>4, <2>5 DEF ConfigInv, HistoryInv, LastStaged
  <2>7. SoleSender(n)
    BY <2>2 DEF ConfigInv, HistoryInv
  <2>8. cmds[n][k].by = m
    BY <2>1, <2>4, <2>5, <2>6, <2>7 DEF SoleSender
  <2> QED BY <2>6, <2>8
<1> QED BY <1>1, OpenTypes, OpenClaims, OpenRecords, OpenReboots, PTL

\* A machine reported provisioned has its own cloud-config on its node.
THEOREM ConfigInPlace == Spec => []ProvisionedHasConfig
BY SpecIsOpen, OpenConfig, PTL

\* The steps that change a stored object.
LEMMA StoreSteps ==
  ASSUME [OpenNext]_vars
  PROVE  \/ UNCHANGED store
         \/ PatchObject
         \/ PatchStatus
         \/ \E m \in Machines : UserDelete(m) \/ Move(m)
<1>1. CASE \E m \in Machines : Reconcile(m) \/ Sync(m)
  BY <1>1 DEF Reconcile, Sync
<1>2. CASE Interrupted
  BY <1>2 DEF Interrupted, Restart
<1> QED BY <1>1, <1>2, StepKinds, NormalFrame, DeleteFrame DEF apiVars

\* What a step may do to a stored object outside the pass's metadata write.
LEMMA StoreFacts ==
  ASSUME TypeOK, NEW m \in Machines, store[m] # None, store'[m] # None,
         PatchStatus \/ \E k \in Machines : UserDelete(k) \/ Move(k)
  PROVE  /\ store'[m].nodeID = store[m].nodeID
         /\ store'[m].claimKey = store[m].claimKey
         /\ store'[m].providerID = store[m].providerID
<1>1. store[m] \in Object
  BY DEF TypeOK
<1>2. CASE PatchStatus
  <2>1. \/ store'[m] = store[m]
        \/ store'[m] = WithStatus(store[m], merged("provisioned"), merged("failure"))
    BY <1>2 DEF PatchStatus, TypeOK
  <2> QED BY <1>1, <2>1 DEF WithStatus, Object
<1>3. ASSUME NEW k \in Machines, UserDelete(k)
      PROVE  /\ store'[m].nodeID = store[m].nodeID
             /\ store'[m].claimKey = store[m].claimKey
             /\ store'[m].providerID = store[m].providerID
  <2>1. store'[m] = store[m] \/ store'[m] = [store[m] EXCEPT !.deleting = TRUE]
    BY <1>3 DEF UserDelete, Stored, TypeOK
  <2> QED BY <1>1, <2>1 DEF Object
<1>4. ASSUME NEW k \in Machines, Move(k)
      PROVE  /\ store'[m].nodeID = store[m].nodeID
             /\ store'[m].claimKey = store[m].claimKey
             /\ store'[m].providerID = store[m].providerID
  <2>1. \/ store'[m] = store[m]
        \/ store'[m] = WithStatus([store[m] EXCEPT !.uid = @ + 1], FALSE, FALSE)
    BY <1>4 DEF Move, TypeOK
  <2> QED BY <1>1, <2>1 DEF WithStatus, Object
<1> QED BY <1>2, <1>3, <1>4

\* In any manager, a published providerID stays.
LEMMA OpenProviderID == OpenSpec => ProviderIDImmutable
<1> DEFINE A == \A m \in Machines :
                  store[m] # None /\ store[m].providerID # None /\ store'[m] # None =>
                    store'[m].providerID = store[m].providerID
<1>1. ASSUME TypeOK, ConfigInv, [OpenNext]_vars PROVE A
  <2>1. CASE UNCHANGED store
    BY <2>1
  <2>2. CASE PatchStatus \/ \E m \in Machines : UserDelete(m) \/ Move(m)
    BY <1>1, <2>2, StoreFacts
  <2>3. CASE PatchObject
    <3> SUFFICES ASSUME store[who] # None, store[who].providerID # None,
                        store'[who] = patched
                 PROVE  patched.providerID = store[who].providerID
      BY <1>1, <2>3 DEF PatchObject, Stored, TypeOK
    <3>1. /\ pc = "patch" /\ who \in Machines
          /\ patched.providerID = IF obj.providerID # base.providerID
                                    THEN obj.providerID ELSE store[who].providerID
      BY <1>1, <2>3, PatchFields DEF PatchObject
    <3>2. store[who].providerID = store[who].nodeID
      BY <1>1, <3>1 DEF ConfigInv, RecordInv, Witnessed
    <3>3. obj.providerID # base.providerID => obj.providerID = store[who].nodeID
      BY <1>1, <3>1 DEF ConfigInv, PassInv, RecordInv, Begun
    <3> QED BY <3>1, <3>2, <3>3
  <2> QED BY <1>1, <2>1, <2>2, <2>3, StoreSteps
<1> QED BY <1>1, OpenTypes, OpenRecords, PTL DEF OpenSpec, ProviderIDImmutable

\* A providerID, once published, never changes: not even passes that start from a
\* stale object publish another one.
THEOREM ProviderIDKept == Spec => ProviderIDImmutable
BY SpecIsOpen, OpenProviderID, PTL
=============================================================================
