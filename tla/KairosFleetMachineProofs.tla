---------------------- MODULE KairosFleetMachineProofs ----------------------
(***************************************************************************)
(* For every set of machines and nodes, any number of mishaps and any      *)
(* retry window: the types hold, two live machines never record the same   *)
(* node, and commands only go to a node the sender holds.                  *)
(***************************************************************************)
EXTENDS FleetMachineProperties, TLAPS

-----------------------------------------------------------------------------
(* The machines as a part of the manager.  Nothing they promise rests on who *)
(* else runs there: another controller may take the connection away, use up  *)
(* mishaps and go down together with them (FleetProvider).                   *)

Interrupted == Mishap("crash") /\ Restart

Elsewhere ==
    /\ UNCHANGED <<worldVars, store, cache, queue, bootstrap, admitted, passVars>>
    /\ spent' \in Nat

OpenNext == Next \/ ((Interrupted \/ Elsewhere) /\ connected' \in BOOLEAN)

OpenSpec == CoreInit /\ connected \in BOOLEAN /\ [][OpenNext]_vars

\* The machines by themselves are a case of it.
LEMMA SpecIsOpen == Spec => OpenSpec
<1>1. Init => CoreInit /\ connected \in BOOLEAN
  BY DEF Init
<1>2. [Next]_vars => [OpenNext]_vars
  BY DEF OpenNext
<1> QED BY <1>1, <1>2, PTL DEF Spec, OpenSpec

-----------------------------------------------------------------------------
(* The operators the actions are built from. *)

\* RFC3339 stamps are times.
LEMMA StampType == ASSUME NEW t \in Nat PROVE Stamp(t) \in Nat
BY TicksAssumption DEF Stamp

\* notReady touches the status only.
LEMMA NotReadyFacts ==
  ASSUME NEW o \in Object
  PROVE  /\ notReady(o) \in Object
         /\ notReady(o).nodeID = o.nodeID
         /\ notReady(o).claimKey = o.claimKey
BY DEF notReady, Object

\* openRetryWindow touches retry-not-before only.
LEMMA RetryWindowFacts ==
  ASSUME FleetTypeOK, NEW o \in Object
  PROVE  /\ openRetryWindow(o) \in Object
         /\ openRetryWindow(o).nodeID = o.nodeID
         /\ openRetryWindow(o).claimKey = o.claimKey
<1>1. Stamp(now + RetryWindow) \in MaybeTime
  BY StampType, TimeAssumption DEF FleetTypeOK, MaybeTime
<1> QED BY <1>1 DEF openRetryWindow, Object

\* The key a machine presents is a key.
LEMMA KeyType ==
  ASSUME NEW m \in Machines, NEW o \in Object
  PROVE  claimKeyFor(m, o) \in Keys
BY DEF claimKeyFor, Object, Keys

\* The ID AuroraBoot answers a command with is an ID.
LEMMA NextIDType ==
  ASSUME FleetTypeOK, NEW n \in Nodes
  PROVE  NextID(n) \in MaybeID
BY DEF FleetTypeOK, NextID, MaybeID

\* A queued command keeps the history well-formed.
LEMMA ServeCommandType ==
  ASSUME FleetTypeOK, NEW n \in Nodes, NEW k \in Kinds, NEW m \in Machines,
         ServeCommand(n, k, m)
  PROVE  cmds' \in [Nodes -> Seq(Command)]
<1> DEFINE c == [kind |-> k, by |-> m, phase |-> "Pending", at |-> now]
<1>1. c \in Command
  BY DEF FleetTypeOK, Command, CommandPhases
<1>2. Append(cmds[n], c) \in Seq(Command)
  BY <1>1 DEF FleetTypeOK
<1> QED BY <1>2 DEF FleetTypeOK, ServeCommand

\* So does a command whose phase changes.
LEMMA SetPhaseType ==
  ASSUME FleetTypeOK, NEW n \in Nodes, NEW i \in DOMAIN cmds[n],
         NEW p \in CommandPhases, cmds' = [cmds EXCEPT ![n][i].phase = p]
  PROVE  /\ cmds' \in [Nodes -> Seq(Command)]
         /\ \A k \in Nodes : Len(cmds'[k]) = Len(cmds[k])
<1>1. cmds[n] \in Seq(Command) /\ cmds[n][i] \in Command
  BY DEF FleetTypeOK
<1>2. [cmds[n][i] EXCEPT !.phase = p] \in Command
  BY <1>1 DEF Command
<1>3. [cmds[n] EXCEPT ![i].phase = p] \in Seq(Command)
  BY <1>1, <1>2
<1>4. Len([cmds[n] EXCEPT ![i].phase = p]) = Len(cmds[n])
  BY <1>1, <1>3
<1> QED BY <1>3, <1>4 DEF FleetTypeOK

\* The objects the API server keeps.
LEMMA StoredType ==
  ASSUME NEW o \in Object PROVE Stored(o) \in Object \cup {None}
BY DEF Stored

\* Setting the status fields leaves an object, and its metadata, as they were.
LEMMA WithStatusFacts ==
  ASSUME NEW o \in Object, NEW p \in BOOLEAN, NEW f \in BOOLEAN
  PROVE  /\ WithStatus(o, p, f) \in Object
         /\ WithStatus(o, p, f).nodeID = o.nodeID
         /\ WithStatus(o, p, f).claimKey = o.claimKey
         /\ WithStatus(o, p, f).deleting = o.deleting
         /\ WithStatus(o, p, f).provisioned = p
         /\ WithStatus(o, p, f).failure = f
BY DEF WithStatus, Object

-----------------------------------------------------------------------------
(* Types *)

\* A pass that returns a well-formed object.
LEMMA ReturnType ==
  ASSUME TypeOK, pc # "idle", NEW o \in Object, NEW r \in BOOLEAN, Return(o, r),
         outcome' \in Outcomes, spent' \in Nat,
         claim' \in [Nodes -> Keys \cup {None}], cmds' \in [Nodes -> Seq(Command)],
         UNCHANGED <<phase, heartbeat, staged, running>>
  PROVE  TypeOK'
BY DEF TypeOK, FleetTypeOK, Return, apiVars, gateVars

\* A mishap is counted.
LEMMA MishapType == ASSUME FleetTypeOK, NEW k, Mishap(k) PROVE spent' \in Nat
BY DEF FleetTypeOK, Mishap

\* Neither answer that counts as "not found" loses the count.
LEMMA NotFoundType == ASSUME FleetTypeOK, NEW n, NotFound(n) PROVE spent' \in Nat
BY MishapType DEF FleetTypeOK, NotFound

\* A pass that ends without touching AuroraBoot keeps the types.
LEMMA EndsType ==
  ASSUME TypeOK, pc # "idle", NEW o \in Object, NEW r \in BOOLEAN, Ends(o, r)
  PROVE  TypeOK'
BY ReturnType DEF Ends, Replies, TypeOK, FleetTypeOK, fleetVars

\* So does one that ends with a failed request.
LEMMA FailsType ==
  ASSUME TypeOK, pc # "idle", NEW o \in Object, Fails(o)
  PROVE  TypeOK'
BY ReturnType, MishapType DEF Fails, TypeOK, FleetTypeOK, fleetVars

\* So does one that drops the finalizer, given the claims it leaves behind.
LEMMA DropFinalizerType ==
  ASSUME TypeOK, pc # "idle", NEW how \in Outcomes, DropFinalizer(how),
         spent' \in Nat, claim' \in [Nodes -> Keys \cup {None}],
         UNCHANGED <<phase, heartbeat, cmds, staged, running>>
  PROVE  TypeOK'
<1>1. [obj EXCEPT !.finalizer = FALSE] \in Object
  BY DEF TypeOK, Object
<1> QED BY <1>1, ReturnType DEF DropFinalizer, TypeOK, FleetTypeOK

\* Every step of the pass, one by one.
LEMMA NormalType == ASSUME TypeOK, reconcileNormal PROVE TypeOK'
<1> USE DEF Claiming, Applying, Rebooting, Rejoining
<1>0. /\ pc # "idle" /\ who \in Machines /\ obj \in Object /\ FleetTypeOK
      /\ notReady(obj) \in Object
  <2>1. pc \in {"normal", "readReboot"}
    BY DEF reconcileNormal, WaitForBootstrap, WaitForConnection, ClaimNode,
           WaitForCapacity, ClaimError, HoldApply, ApplyCloudConfig, ApplyError,
           ApplyFailed, AwaitApply, HoldReboot, RequestReboot, RebootError,
           NodeMissing, GetNodeError, AwaitRejoin, AskReboot, RebootFailed,
           RebootPending, Provision
  <2> QED BY <2>1, NotReadyFacts DEF TypeOK
<1>1. CASE WaitForBootstrap
  BY <1>0, <1>1, EndsType DEF WaitForBootstrap
<1>2. CASE WaitForConnection
  BY <1>0, <1>2, EndsType, FailsType DEF WaitForConnection
<1>3. CASE ClaimNode
  <2>1. PICK n \in Claimable(claimKeyFor(who, obj)) :
          /\ ServeClaim(n, claimKeyFor(who, obj))
          /\ \/ Replies(notReady([obj EXCEPT !.nodeID = n,
                                    !.claimKey = claimKeyFor(who, obj)]), FALSE)
             \/ LosesReply(obj)
    BY <1>3 DEF ClaimNode
  <2>2. n \in Nodes /\ claimKeyFor(who, obj) \in Keys
    BY <1>0, KeyType DEF Claimable
  <2>3. claim' \in [Nodes -> Keys \cup {None}]
    BY <1>0, <2>1, <2>2 DEF ServeClaim, FleetTypeOK
  <2>4. [obj EXCEPT !.nodeID = n, !.claimKey = claimKeyFor(who, obj)] \in Object
    BY <1>0, <2>2 DEF Object, MaybeNode
  <2> QED BY <1>0, <1>3, <2>1, <2>3, <2>4, NotReadyFacts, ReturnType, MishapType
      DEF ClaimNode, Replies, LosesReply, TypeOK, FleetTypeOK
<1>4. CASE WaitForCapacity
  BY <1>0, <1>4, EndsType DEF WaitForCapacity
<1>5. CASE ClaimError
  BY <1>0, <1>5, FailsType DEF ClaimError
<1>6. CASE HoldApply
  BY <1>0, <1>6, EndsType DEF HoldApply
<1>7. CASE ApplyCloudConfig
  <2>1. obj.nodeID \in Nodes
    BY <1>0, <1>7 DEF ApplyCloudConfig, Object, MaybeNode
  <2>2. cmds' \in [Nodes -> Seq(Command)]
    BY <1>0, <1>7, <2>1, ServeCommandType DEF ApplyCloudConfig, Kinds
  <2>3. /\ [obj EXCEPT !.notBefore = None, !.applied = TRUE,
                       !.applyCmd = NextID(obj.nodeID)] \in Object
        /\ [obj EXCEPT !.notBefore = None] \in Object
    BY <1>0, <2>1, NextIDType DEF Object, MaybeTime
  <2> QED BY <1>0, <1>7, <2>2, <2>3, NotReadyFacts, ReturnType, MishapType
      DEF ApplyCloudConfig, Replies, LosesReply, TypeOK, FleetTypeOK
<1>8. CASE ApplyError
  <2>1. [obj EXCEPT !.notBefore = None] \in Object
    BY <1>0 DEF Object, MaybeTime
  <2> QED BY <1>0, <1>8, <2>1, EndsType, FailsType DEF ApplyError
<1>9. CASE ApplyFailed
  <2>1. [obj EXCEPT !.failure = FALSE, !.applied = FALSE, !.applyCmd = None] \in Object
    BY <1>0 DEF Object, MaybeID
  <2> QED BY <1>0, <1>9, <2>1, NotReadyFacts, RetryWindowFacts, EndsType DEF ApplyFailed
<1>10. CASE AwaitApply
  BY <1>0, <1>10, EndsType, FailsType DEF AwaitApply
<1>11. CASE HoldReboot
  BY <1>0, <1>11, EndsType DEF HoldReboot
<1>12. CASE RequestReboot
  <2>1. obj.nodeID \in Nodes
    BY <1>0, <1>12 DEF RequestReboot, Object, MaybeNode
  <2>2. cmds' \in [Nodes -> Seq(Command)]
    BY <1>0, <1>12, <2>1, ServeCommandType DEF RequestReboot, Kinds
  <2>3. Stamp(now) \in MaybeTime
    BY <1>0, StampType DEF FleetTypeOK, MaybeTime
  <2>4. /\ [obj EXCEPT !.notBefore = None, !.rebootAt = Stamp(now),
                       !.rebootCmd = NextID(obj.nodeID)] \in Object
        /\ [obj EXCEPT !.notBefore = None] \in Object
    BY <1>0, <2>1, <2>3, NextIDType DEF Object, MaybeTime
  <2> QED BY <1>0, <1>12, <2>2, <2>4, NotReadyFacts, ReturnType, MishapType
      DEF RequestReboot, Replies, LosesReply, TypeOK, FleetTypeOK
<1>13. CASE RebootError
  <2>1. [obj EXCEPT !.notBefore = None] \in Object
    BY <1>0 DEF Object, MaybeTime
  <2> QED BY <1>0, <1>13, <2>1, FailsType DEF RebootError
<1>14. CASE NodeMissing
  <2>1. [obj EXCEPT !.failure = TRUE] \in Object
    BY <1>0 DEF Object
  <2>2. spent' \in Nat
    BY <1>0, <1>14, NotFoundType DEF NodeMissing
  <2> QED BY <1>0, <1>14, <2>1, <2>2, NotReadyFacts, ReturnType
      DEF NodeMissing, TypeOK, FleetTypeOK, fleetVars
<1>15. CASE GetNodeError
  BY <1>0, <1>15, FailsType DEF GetNodeError
<1>16. CASE AwaitRejoin
  BY <1>0, <1>16, EndsType DEF AwaitRejoin
<1>17. CASE AskReboot
  BY <1>0, <1>17
  DEF AskReboot, TypeOK, FleetTypeOK, fleetVars, worldVars, apiVars, gateVars
<1>18. CASE RebootFailed
  <2>1. [obj EXCEPT !.rebootAt = None, !.rebootCmd = None] \in Object
    BY <1>0 DEF Object, MaybeTime, MaybeID
  <2> QED BY <1>0, <1>18, <2>1, NotReadyFacts, RetryWindowFacts, EndsType DEF RebootFailed
<1>19. CASE RebootPending
  BY <1>0, <1>19, EndsType, FailsType DEF RebootPending
<1>20. CASE Provision
  <2>1. [obj EXCEPT !.providerID = obj.nodeID, !.provisioned = TRUE] \in Object
    BY <1>0 DEF Object
  <2> QED BY <1>0, <1>20, <2>1, EndsType DEF Provision
<1> QED BY <1>1, <1>2, <1>3, <1>4, <1>5, <1>6, <1>7, <1>8, <1>9, <1>10, <1>11, <1>12,
           <1>13, <1>14, <1>15, <1>16, <1>17, <1>18, <1>19, <1>20 DEF reconcileNormal

\* Every branch of reconcileDelete keeps the types.
LEMMA DeleteType == ASSUME TypeOK, reconcileDelete PROVE TypeOK'
<1>0. pc # "idle" /\ who \in Machines /\ obj \in Object /\ FleetTypeOK
  <2>1. pc = "delete"
    BY DEF reconcileDelete, DeleteUnclaimed, DeleteUnreachable, ReleaseNode,
           ReleaseMismatch, ReleaseMissing, DeleteError
  <2> QED BY <2>1 DEF TypeOK
<1>1. ASSUME NEW how \in Outcomes, DropFinalizer(how), UNCHANGED fleetVars,
             spent' \in Nat
      PROVE  TypeOK'
  BY <1>0, <1>1, DropFinalizerType DEF FleetTypeOK, fleetVars
<1>2. CASE ReleaseNode
  <2>1. claim' \in [Nodes -> Keys \cup {None}]
    BY <1>0, <1>2 DEF ReleaseNode, ServeRelease, FleetTypeOK
  <2>2. CASE DropFinalizer("released") /\ UNCHANGED spent
    BY <1>0, <1>2, <2>1, <2>2, DropFinalizerType DEF ReleaseNode, Outcomes, FleetTypeOK
  <2>3. CASE LosesReply(obj)
    BY <1>0, <1>2, <2>1, <2>3, ReturnType, MishapType
    DEF ReleaseNode, LosesReply, TypeOK, FleetTypeOK
  <2> QED BY <1>2, <2>2, <2>3 DEF ReleaseNode
<1>3. CASE DeleteUnclaimed
  BY <1>0, <1>1, <1>3 DEF DeleteUnclaimed, Outcomes, FleetTypeOK
<1>4. CASE DeleteUnreachable
  BY <1>0, <1>1, <1>4 DEF DeleteUnreachable, Outcomes, FleetTypeOK
<1>5. CASE ReleaseMismatch
  BY <1>0, <1>1, <1>5 DEF ReleaseMismatch, Outcomes, FleetTypeOK
<1>6. CASE ReleaseMissing
  BY <1>0, <1>1, <1>6, NotFoundType DEF ReleaseMissing, Outcomes
<1>7. CASE DeleteError
  BY <1>0, <1>7, FailsType DEF DeleteError
<1> QED BY <1>2, <1>3, <1>4, <1>5, <1>6, <1>7 DEF reconcileDelete

\* What a metadata write leaves behind: deletionTimestamp and UID are the server's,
\* the node and the key come from the pass or stay.
LEMMA PatchFacts ==
  ASSUME TypeOK, pc = "patch", store[who] # None
  PROVE  /\ patched \in Object
         /\ patched.deleting = store[who].deleting
         /\ patched.nodeID \in {obj.nodeID, store[who].nodeID}
         /\ patched.claimKey \in {obj.claimKey, store[who].claimKey}
<1>1. obj \in Object /\ base \in Object /\ store[who] \in Object /\ who \in Machines
  BY DEF TypeOK
<1>2. /\ merged("finalizer") \in BOOLEAN
      /\ merged("nodeID") \in MaybeNode
      /\ merged("nodeID") \in {obj.nodeID, store[who].nodeID}
      /\ merged("claimKey") \in Keys \cup {None}
      /\ merged("claimKey") \in {obj.claimKey, store[who].claimKey}
      /\ merged("applied") \in BOOLEAN
      /\ merged("applyCmd") \in MaybeID
      /\ merged("rebootAt") \in MaybeTime
      /\ merged("rebootCmd") \in MaybeID
      /\ merged("notBefore") \in MaybeTime
      /\ merged("providerID") \in MaybeNode
  BY <1>1 DEF merged, Object
<1> QED BY <1>1, <1>2 DEF Object, patched

\* The metadata and spec write of patchHelper.Patch keeps the types.
LEMMA PatchObjectType == ASSUME TypeOK, PatchObject PROVE TypeOK'
<1>1. who \in Machines /\ pc = "patch" /\ base \in Object /\ obj \in Object
  BY DEF TypeOK, PatchObject
<1>2. store' \in [Machines -> Object \cup {None}]
  BY <1>1, PatchFacts, StoredType DEF PatchObject, TypeOK
<1>3. spent' \in Nat /\ again' \in BOOLEAN
  BY MishapType DEF PatchObject, TypeOK, FleetTypeOK
<1> QED BY <1>1, <1>2, <1>3
    DEF PatchObject, TypeOK, FleetTypeOK, worldVars, fleetVars, gateVars

\* What the status write stores: an object with the metadata the store had.
LEMMA StatusFacts ==
  ASSUME TypeOK, pc = "patchStatus", store[who] # None,
         NEW o, o = WithStatus(store[who], merged("provisioned"), merged("failure"))
  PROVE  /\ o \in Object
         /\ o.nodeID = store[who].nodeID
         /\ o.claimKey = store[who].claimKey
         /\ o.deleting = store[who].deleting
<1>1. obj \in Object /\ base \in Object /\ store[who] \in Object
  BY DEF TypeOK
<1>2. merged("provisioned") \in BOOLEAN /\ merged("failure") \in BOOLEAN
  BY <1>1 DEF merged, Object
<1> QED BY <1>1, <1>2, WithStatusFacts

\* The status write of patchHelper.Patch keeps the types.
LEMMA PatchStatusType == ASSUME TypeOK, PatchStatus PROVE TypeOK'
<1>1. who \in Machines /\ pc = "patchStatus"
  BY DEF TypeOK, PatchStatus
<1>2. store' \in [Machines -> Object \cup {None}]
  BY <1>1, StatusFacts DEF PatchStatus, TypeOK
<1>3. spent' \in Nat /\ queue' \in SUBSET Machines
  BY <1>1, MishapType DEF PatchStatus, TypeOK, FleetTypeOK
<1> QED BY <1>2, <1>3
    DEF PatchStatus, EndPass, TypeOK, FleetTypeOK, worldVars, fleetVars, gateVars, Outcomes

\* The machines' own steps, the cache and the rest of the management cluster.
LEMMA ClusterType ==
  ASSUME TypeOK, NEW m \in Machines,
         \/ Ignore(m) \/ Reconcile(m) \/ Sync(m) \/ MachineEvent(m)
         \/ PublishBootstrap(m) \/ Unpause(m) \/ Pause(m) \/ UserDelete(m) \/ Move(m)
  PROVE  TypeOK'
<1> USE DEF worldVars, fleetVars, apiVars, gateVars, passVars
<1>0. \A k : Mishap(k) => spent' \in Nat
  BY MishapType DEF TypeOK
<1>1. CASE Ignore(m)
  BY <1>0, <1>1 DEF Ignore, TypeOK, FleetTypeOK
<1>2. CASE Reconcile(m)
  <2>1. cache[m] \in Object
    BY <1>2 DEF Reconcile, TypeOK
  <2>2. [cache[m] EXCEPT !.finalizer = TRUE] \in Object
    BY <2>1 DEF Object
  <2>3. spent' \in Nat
    BY <1>0, <1>2 DEF Reconcile, TypeOK, FleetTypeOK
  <2> QED BY <1>2, <2>1, <2>2, <2>3 DEF Reconcile, TypeOK, FleetTypeOK, Outcomes
<1>3. CASE Sync(m)
  BY <1>3 DEF Sync, TypeOK, FleetTypeOK
<1>4. CASE MachineEvent(m)
  BY <1>4 DEF MachineEvent, Enqueue, TypeOK, FleetTypeOK
<1>5. CASE PublishBootstrap(m)
  BY <1>5 DEF PublishBootstrap, Enqueue, TypeOK, FleetTypeOK
<1>6. CASE Unpause(m)
  BY <1>0, <1>6 DEF Unpause, Enqueue, TypeOK, FleetTypeOK
<1>7. CASE Pause(m)
  BY <1>0, <1>7 DEF Pause, TypeOK, FleetTypeOK
<1>8. CASE UserDelete(m)
  <2>1. [store[m] EXCEPT !.deleting = TRUE] \in Object
    BY <1>8 DEF UserDelete, TypeOK, Object
  <2> QED BY <1>8, <2>1, StoredType DEF UserDelete, TypeOK, FleetTypeOK
<1>9. CASE Move(m)
  <2>1. [store[m] EXCEPT !.uid = @ + 1] \in Object
    BY <1>9 DEF Move, TypeOK, Object
  <2>2. WithStatus([store[m] EXCEPT !.uid = @ + 1], FALSE, FALSE) \in Object
    BY <2>1, WithStatusFacts
  <2>3. store' \in [Machines -> Object \cup {None}]
    BY <1>9, <2>2 DEF Move, TypeOK
  <2>4. cache' \in [Machines -> Object \cup {None}]
    BY <1>9, <2>3 DEF Move, TypeOK
  <2> QED BY <1>0, <1>9, <2>3, <2>4 DEF Move, TypeOK, FleetTypeOK
<1> QED BY <1>1, <1>2, <1>3, <1>4, <1>5, <1>6, <1>7, <1>8, <1>9

\* A restart of the manager keeps the types.
LEMMA RestartType ==
  ASSUME TypeOK, spent' \in Nat, connected' \in BOOLEAN, Restart PROVE TypeOK'
<1>1. queue' \in SUBSET Machines
  BY DEF Restart
<1> QED BY <1>1
    DEF Restart, EndPass, TypeOK, FleetTypeOK, worldVars, fleetVars, gateVars, Outcomes

\* The connection and the clock keep the types.
LEMMA ConnectionType ==
  ASSUME TypeOK, Disconnect \/ Reconnect \/ Tick PROVE TypeOK'
<1>1. spent' \in Nat
  BY MishapType DEF Disconnect, Reconnect, Tick, TypeOK, FleetTypeOK
<1>2. now' \in Nat
  BY DEF Disconnect, Reconnect, Tick, TypeOK, FleetTypeOK, worldVars
<1> QED BY <1>1, <1>2 DEF Disconnect, Reconnect, Tick, TypeOK, FleetTypeOK, worldVars,
    fleetVars, apiVars, gateVars, passVars

\* AuroraBoot's nodes.
LEMMA NodeType ==
  ASSUME TypeOK, NEW n \in Nodes, NodeStep(n), UNCHANGED <<apiVars, passVars>>
  PROVE  TypeOK'
<1> USE DEF FleetTypeOK, Phases
<1>0. FleetTypeOK /\ \A k : Mishap(k) => spent' \in Nat
  BY MishapType DEF TypeOK
<1>1. CASE ExecuteApply(n)
  <2>1. PICK i \in NextCommand(n) :
          /\ cmds' = [cmds EXCEPT ![n][i].phase = "Completed"]
          /\ staged' = [staged EXCEPT ![n] = cmds[n][i].by]
    BY <1>1 DEF ExecuteApply
  <2>0. i \in DOMAIN cmds[n] /\ cmds[n] \in Seq(Command)
    BY <1>0, <2>1 DEF NextCommand
  <2>2. i \in DOMAIN cmds[n] /\ cmds[n][i].by \in Machines
    <3>1. cmds[n][i] \in Command
      BY <2>0
    <3> QED BY <2>0, <3>1 DEF Command
  <2>3. cmds' \in [Nodes -> Seq(Command)]
    BY <1>0, <2>1, <2>2, SetPhaseType DEF CommandPhases
  <2> QED BY <1>0, <1>1, <2>1, <2>2, <2>3
      DEF ExecuteApply, TypeOK, apiVars, gateVars, passVars
<1>2. CASE ExecuteReboot(n)
  <2>1. PICK i \in NextCommand(n) : cmds' = [cmds EXCEPT ![n][i].phase = "Running"]
    BY <1>2 DEF ExecuteReboot
  <2>2. cmds' \in [Nodes -> Seq(Command)]
    BY <1>0, <2>1, SetPhaseType DEF NextCommand, CommandPhases
  <2> QED BY <1>0, <1>2, <2>2 DEF ExecuteReboot, TypeOK, apiVars, gateVars, passVars
<1>3. CASE FailCommand(n)
  <2>1. PICK i \in DOMAIN cmds[n] : cmds' = [cmds EXCEPT ![n][i].phase = "Failed"]
    BY <1>3 DEF FailCommand
  <2>2. cmds' \in [Nodes -> Seq(Command)]
    BY <1>0, <2>1, SetPhaseType DEF CommandPhases
  <2> QED BY <1>0, <1>3, <2>2 DEF FailCommand, TypeOK, apiVars, gateVars, passVars
<1>4. CASE Boot(n) \/ Heartbeat(n) \/ MarkOffline(n)
  BY <1>0, <1>4 DEF Boot, Heartbeat, MarkOffline, TypeOK, apiVars, gateVars, passVars
<1>5. CASE Outage(n) \/ Vanish(n) \/ OperatorRelease(n)
  BY <1>0, <1>5 DEF Outage, Vanish, OperatorRelease, TypeOK, apiVars, gateVars, passVars
<1> QED BY <1>1, <1>2, <1>3, <1>4, <1>5 DEF NodeStep

\* A machine of this build has recorded nothing.
LEMMA NewFacts ==
  /\ New \in Object /\ New # None
  /\ ~New.deleting /\ New.nodeID = None /\ New.claimKey = None
  /\ ~New.applied /\ New.applyCmd = None /\ New.rebootAt = None
  /\ New.providerID = None /\ ~New.provisioned /\ ~New.failure
<1>1. New \in Object
  BY DEF New, Object, MaybeTime, MaybeID, MaybeNode
<1> QED BY <1>1, GoneAssumption DEF New

\* A machine of an earlier build names its node and has its config handed over.
LEMMA ClaimedFacts ==
  ASSUME NEW n \in Nodes, NEW stage \in Left
  PROVE  /\ Claimed(n, stage) \in Object /\ Claimed(n, stage) # None
         /\ Claimed(n, stage).uid = 0 /\ ~Claimed(n, stage).deleting
         /\ Claimed(n, stage).finalizer
         /\ Claimed(n, stage).nodeID = n /\ Claimed(n, stage).claimKey = None
         /\ Claimed(n, stage).applied /\ Claimed(n, stage).applyCmd = None
         /\ Claimed(n, stage).rebootAt # None => stage = "rebooting"
         /\ Claimed(n, stage).providerID = None /\ ~Claimed(n, stage).provisioned
         /\ Claimed(n, stage).failure => stage = "refused"
<1>1. Claimed(n, stage) \in Object
  BY NewFacts DEF Claimed, Object, MaybeNode, MaybeTime
<1>2. Claimed(n, stage) # None
  BY <1>1, GoneAssumption
<1> QED BY <1>1, <1>2 DEF Claimed, New

\* What an earlier build has sent to the node of machine m.
LEMMA LeftFacts ==
  ASSUME NEW m \in Machines, NEW stage \in Left
  PROVE  /\ LeftCommands(m, stage) \in Seq(Command)
         /\ DOMAIN LeftCommands(m, stage) = IF stage = "rebooting" THEN {1, 2} ELSE {1}
         /\ \A i \in DOMAIN LeftCommands(m, stage) : LeftCommands(m, stage)[i].by = m
         /\ LeftCommands(m, stage)[1].kind = "apply"
         /\ LeftCommands(m, stage)[1].phase = "Failed" <=> stage = "refused"
         /\ LeftCommands(m, stage)[1].phase = "Completed" <=> stage = "rebooting"
         /\ stage = "rebooting" => LeftCommands(m, stage)[2].kind = "reboot"
                                   /\ LeftCommands(m, stage)[2].phase = "Pending"
<1> DEFINE sent(k, p) == [kind |-> k, phase |-> p, at |-> 0, by |-> m]
           c(p) == sent("apply", p)
           r == sent("reboot", "Pending")
<1>1. /\ \A p \in CommandPhases : c(p) \in Command /\ c(p).kind = "apply"
                                  /\ c(p).by = m /\ c(p).phase = p
      /\ r \in Command /\ r.kind = "reboot" /\ r.by = m /\ r.phase = "Pending"
  BY DEF Command, Kinds, CommandPhases
<1>2. CASE stage = "handed"
  <2>1. LeftCommands(m, stage) = <<c("Pending")>>
    BY <1>2 DEF LeftCommands
  <2>2. c("Pending") \in Command /\ c("Pending").kind = "apply" /\ c("Pending").by = m
        /\ c("Pending").phase = "Pending"
    BY <1>1 DEF CommandPhases
  <2> HIDE DEF c
  <2>3. /\ LeftCommands(m, stage) \in Seq(Command)
        /\ DOMAIN LeftCommands(m, stage) = {1} /\ LeftCommands(m, stage)[1] = c("Pending")
    BY <2>1, <2>2
  <2> QED BY <1>2, <2>2, <2>3
<1>3. CASE stage = "refused"
  <2>1. LeftCommands(m, stage) = <<c("Failed")>>
    BY <1>3 DEF LeftCommands
  <2>2. c("Failed") \in Command /\ c("Failed").kind = "apply" /\ c("Failed").by = m
        /\ c("Failed").phase = "Failed"
    BY <1>1 DEF CommandPhases
  <2> HIDE DEF c
  <2>3. /\ LeftCommands(m, stage) \in Seq(Command)
        /\ DOMAIN LeftCommands(m, stage) = {1} /\ LeftCommands(m, stage)[1] = c("Failed")
    BY <2>1, <2>2
  <2> QED BY <1>3, <2>2, <2>3
<1>4. CASE stage = "rebooting"
  <2>1. LeftCommands(m, stage) = <<c("Completed"), r>>
    BY <1>4 DEF LeftCommands
  <2>2. /\ c("Completed") \in Command /\ c("Completed").kind = "apply"
        /\ c("Completed").by = m /\ c("Completed").phase = "Completed"
        /\ r \in Command /\ r.kind = "reboot" /\ r.by = m /\ r.phase = "Pending"
    BY <1>1 DEF CommandPhases
  <2> HIDE DEF c, r
  <2>3. /\ LeftCommands(m, stage) \in Seq(Command)
        /\ DOMAIN LeftCommands(m, stage) = {1, 2}
        /\ LeftCommands(m, stage)[1] = c("Completed") /\ LeftCommands(m, stage)[2] = r
    BY <2>1, <2>2
  <2> QED BY <1>4, <2>2, <2>3
<1> QED BY <1>2, <1>3, <1>4, LeftAssumption DEF Stages

\* Machine l was left at left[l] with node held[l]; nothing else has begun.
Adopts(held, left) ==
    /\ \A m \in Machines : m \notin Legacy => store[m] = New
    /\ \A l \in Legacy :
        /\ store[l] = Claimed(held[l], left[l])
        /\ claim[held[l]] = <<l, 0>>
        /\ HeldBy(held[l], l)
        /\ cmds[held[l]] = LeftCommands(l, left[l])
        /\ left[l] = "rebooting" => staged[held[l]] = l
    /\ \A n \in Nodes : (\A l \in Legacy : held[l] # n) => claim[n] = None /\ cmds[n] = <<>>

\* That is how the manager starts.
LEMMA Adopted ==
  ASSUME CoreInit
  PROVE  \E held \in [Legacy -> Nodes], left \in [Legacy -> Left] : Adopts(held, left)
<1>1. PICK held \in [Legacy -> Nodes], left \in [Legacy -> Left] :
        /\ \A l1, l2 \in Legacy : held[l1] = held[l2] => l1 = l2
        /\ store = [m \in Machines |->
                      IF m \in Legacy THEN Claimed(held[m], left[m]) ELSE New]
        /\ claim = [n \in Nodes |->
                      IF \E l \in Legacy : held[l] = n
                        THEN <<CHOOSE l \in Legacy : held[l] = n, 0>> ELSE None]
        /\ cmds = [n \in Nodes |->
                     IF \E l \in Legacy : held[l] = n
                       THEN LET l == CHOOSE l \in Legacy : held[l] = n
                            IN  LeftCommands(l, left[l])
                       ELSE <<>>]
        /\ staged = [n \in Nodes |->
                       IF \E l \in Legacy : held[l] = n /\ left[l] = "rebooting"
                         THEN CHOOSE l \in Legacy : held[l] = n ELSE None]
  BY DEF CoreInit
<1>2. ASSUME NEW l \in Legacy
      PROVE  /\ store[l] = Claimed(held[l], left[l])
             /\ claim[held[l]] = <<l, 0>>
             /\ HeldBy(held[l], l)
             /\ cmds[held[l]] = LeftCommands(l, left[l])
             /\ left[l] = "rebooting" => staged[held[l]] = l
  <2>1. (CHOOSE x \in Legacy : held[x] = held[l]) = l
    BY <1>1
  <2>2. l \in Machines /\ held[l] \in Nodes /\ <<l, 0>> \in Machines \X Nat
    BY LegacyAssumption
  <2>3. /\ store[l] = Claimed(held[l], left[l])
        /\ claim[held[l]] = <<l, 0>>
        /\ left[l] = "rebooting" => staged[held[l]] = l
    BY <1>1, <2>1, <2>2
  <2>4. cmds[held[l]] = LeftCommands(l, left[l])
    BY <1>1, <2>1, <2>2
  <2> QED BY <2>2, <2>3, <2>4, NoneAssumption DEF HeldBy
<1>3. ASSUME NEW n \in Nodes, \A l \in Legacy : held[l] # n
      PROVE  claim[n] = None /\ cmds[n] = <<>>
  BY <1>1, <1>3
<1>4. \A m \in Machines : m \notin Legacy => store[m] = New
  BY <1>1
<1>5. Adopts(held, left)
  BY <1>2, <1>3, <1>4 DEF Adopts
<1> QED BY <1>1, <1>5

\* The initial state is well-typed.
LEMMA TypeInit == CoreInit /\ connected \in BOOLEAN => TypeOK
<1> SUFFICES ASSUME CoreInit, connected \in BOOLEAN PROVE TypeOK
  OBVIOUS
<1>1. PICK held \in [Legacy -> Nodes], left \in [Legacy -> Left] : Adopts(held, left)
  BY Adopted
<1>2. /\ DOMAIN store = Machines /\ DOMAIN claim = Nodes /\ DOMAIN cmds = Nodes
      /\ store = [m \in Machines |-> store[m]]
      /\ claim = [n \in Nodes |-> claim[n]] /\ cmds = [n \in Nodes |-> cmds[n]]
  BY DEF CoreInit
<1>3. ASSUME NEW m \in Machines PROVE store[m] \in Object
  <2>1. CASE m \in Legacy
    <3>1. store[m] = Claimed(held[m], left[m]) /\ held[m] \in Nodes /\ left[m] \in Left
      BY <1>1, <2>1 DEF Adopts
    <3> QED BY <3>1, ClaimedFacts
  <2>2. CASE m \notin Legacy
    BY <1>1, <2>2, NewFacts DEF Adopts
  <2> QED BY <2>1, <2>2
<1>4. \A n \in Nodes : claim[n] \in Keys \cup {None} /\ cmds[n] \in Seq(Command)
  <2> TAKE n \in Nodes
  <2>1. CASE \E l \in Legacy : held[l] = n
    <3>1. PICK l \in Legacy : held[l] = n
      BY <2>1
    <3>2. /\ claim[n] = <<l, 0>> /\ cmds[n] = LeftCommands(l, left[l])
          /\ l \in Machines /\ left[l] \in Left
      BY <1>1, <3>1, LegacyAssumption DEF Adopts
    <3>3. LeftCommands(l, left[l]) \in Seq(Command)
      BY <3>2, LeftFacts
    <3>4. <<l, 0>> \in Keys
      BY <3>2 DEF Keys
    <3> QED BY <3>2, <3>3, <3>4
  <2>2. CASE \A l \in Legacy : held[l] # n
    <3>1. claim[n] = None /\ cmds[n] = <<>>
      BY <1>1, <2>2 DEF Adopts
    <3> QED BY <3>1
  <2> QED BY <2>1, <2>2
<1>5. staged \in [Nodes -> Machines \cup {None}]
  <2>1. PICK f \in [Legacy -> Nodes], g \in [Legacy -> Left] :
          staged = [n \in Nodes |->
                      IF \E l \in Legacy : f[l] = n /\ g[l] = "rebooting"
                        THEN CHOOSE l \in Legacy : f[l] = n ELSE None]
    BY DEF CoreInit
  <2>2. \A n \in Nodes : (\E l \in Legacy : f[l] = n /\ g[l] = "rebooting") =>
                          (CHOOSE l \in Legacy : f[l] = n) \in Machines
    BY LegacyAssumption
  <2> QED BY <2>1, <2>2
<1>6. store \in [Machines -> Object \cup {None}]
  BY <1>2, <1>3
<1>7. claim \in [Nodes -> Keys \cup {None}] /\ cmds \in [Nodes -> Seq(Command)]
  BY <1>2, <1>4
<1>9. FleetTypeOK
  BY <1>5, <1>7 DEF CoreInit, FleetTypeOK, Phases
<1>10. cache \in [Machines -> Object \cup {None}]
  BY <1>6 DEF CoreInit
<1>11. /\ queue \in SUBSET Machines
       /\ bootstrap \in [Machines -> BOOLEAN]
       /\ admitted \in [Machines -> BOOLEAN]
  BY DEF CoreInit
<1>12. /\ connected \in BOOLEAN /\ again \in BOOLEAN /\ outcome \in Outcomes
       /\ pc = "idle" /\ who = None /\ base = None /\ obj = None
  BY DEF CoreInit, Outcomes
<1> QED BY <1>6, <1>9, <1>10, <1>11, <1>12 DEF TypeOK

\* Every step keeps the types.
LEMMA TypeNext == TypeOK /\ [OpenNext]_vars => TypeOK'
<1> SUFFICES ASSUME TypeOK, [OpenNext]_vars PROVE TypeOK'
  OBVIOUS
<1>1. CASE UNCHANGED vars
  BY <1>1 DEF vars, worldVars, fleetVars, apiVars, gateVars, passVars, TypeOK, FleetTypeOK
<1>2. CASE Worker
  BY <1>2, NormalType, DeleteType, PatchObjectType, PatchStatusType DEF Worker
<1>3. CASE Crash \/ (Interrupted /\ connected' \in BOOLEAN)
  <2>1. spent' \in Nat /\ connected' \in BOOLEAN /\ Restart
    BY <1>3, MishapType DEF Crash, Interrupted, TypeOK
  <2> QED BY <2>1, RestartType
<1>4. CASE Elsewhere /\ connected' \in BOOLEAN
  BY <1>4 DEF Elsewhere, worldVars, fleetVars, passVars, TypeOK, FleetTypeOK
<1> QED BY <1>1, <1>2, <1>3, <1>4, ClusterType, ConnectionType, NodeType
    DEF OpenNext, Next, Core

\* The types hold in any manager.
LEMMA OpenTypes == OpenSpec => []TypeOK
BY TypeInit, TypeNext, PTL DEF OpenSpec

\* Every variable keeps its type, whatever the passes, the nodes and the users do.
THEOREM TypeCorrect == Spec => []TypeOK
BY SpecIsOpen, OpenTypes, PTL

-----------------------------------------------------------------------------
(* The claims *)

\* A pass that leaves AuroraBoot's claims and the recorded node and key alone.
LEMMA QuietReturn ==
  ASSUME TypeOK, ClaimInv, pc \in {"normal", "readReboot", "delete"},
         NEW o \in Object, NEW r, Return(o, r), claim' = claim,
         o.nodeID = obj.nodeID, o.claimKey = obj.claimKey
  PROVE  ClaimInv'
<1>1. UNCHANGED <<store, cache, who, base, tampered, claim>> /\ obj' = o /\ pc' = "patch"
  BY DEF Return, apiVars
<1>2. who \in Machines /\ obj \in Object
  BY DEF TypeOK
<1>3. \A m \in Machines : Guarded(m)' <=> Guarded(m)
  BY <1>1 DEF Guarded
<1>4. OwnKey(who, obj)' /\ (~base.deleting => Owns(who, obj)')
  BY <1>1, <1>2, GoneAssumption DEF ClaimInv, OwnKey, Owns, HeldBy
<1> QED BY <1>1, <1>3, <1>4 DEF ClaimInv, OwnKey, Owns, HeldBy, Live

\* The same for a pass that ends, or whose request fails.
LEMMA QuietEnds ==
  ASSUME TypeOK, ClaimInv, pc \in {"normal", "readReboot", "delete"},
         NEW o \in Object, NEW r, o.nodeID = obj.nodeID, o.claimKey = obj.claimKey,
         Ends(o, r) \/ Fails(o)
  PROVE  ClaimInv'
BY QuietReturn DEF Ends, Replies, Fails, fleetVars

\* A claim under a key of m takes no node from another machine.
LEMMA ClaimNodeInv == ASSUME TypeOK, ClaimInv, ClaimNode PROVE ClaimInv'
<1> DEFINE key == claimKeyFor(who, obj)
<1>0. /\ pc = "normal" /\ who \in Machines /\ obj \in Object /\ FleetTypeOK
      /\ ~base.deleting
  BY DEF ClaimNode, Claiming, TypeOK, ClaimInv
<1>1. PICK n \in Claimable(key) :
        /\ ServeClaim(n, key)
        /\ \/ Replies(notReady([obj EXCEPT !.nodeID = n, !.claimKey = key]), FALSE)
           \/ LosesReply(obj)
  BY DEF ClaimNode
<1>2. n \in Nodes /\ claim[n] \in {key, None} /\ key \in Keys
  BY <1>0, KeyType DEF Claimable
<1>3. key[1] = who
  BY <1>0, GoneAssumption DEF ClaimInv, OwnKey, claimKeyFor
<1>4. claim' = [claim EXCEPT ![n] = key]
  BY <1>1 DEF ServeClaim
<1>5. \A k \in Nodes, m \in Machines : HeldBy(k, m) => HeldBy(k, m)'
  BY <1>0, <1>2, <1>3, <1>4 DEF HeldBy, FleetTypeOK
<1>6. HeldBy(n, who)'
  <2>1. key # None
    BY <1>2, NoneAssumption DEF Keys
  <2>2. claim'[n] = key
    BY <1>0, <1>2, <1>4 DEF FleetTypeOK
  <2>3. UNCHANGED who
    BY <1>1 DEF Replies, LosesReply, Return
  <2> QED BY <1>3, <2>1, <2>2, <2>3 DEF HeldBy
<1>7. UNCHANGED <<store, cache, who, base, tampered>> /\ pc' = "patch"
  BY <1>1 DEF Replies, LosesReply, Return, apiVars
<1>8. \A m \in Machines : Guarded(m)' <=> Guarded(m)
  BY <1>0, <1>7 DEF Guarded
<1>9. OwnKey(who, obj)' /\ Owns(who, obj)'
  <2>1. CASE obj' = obj
    BY <1>0, <1>5, <1>7, <2>1 DEF ClaimInv, OwnKey, Owns, Object, MaybeNode
  <2>2. CASE obj' = notReady([obj EXCEPT !.nodeID = n, !.claimKey = key])
    <3>1. [obj EXCEPT !.nodeID = n, !.claimKey = key] \in Object
      BY <1>0, <1>2 DEF Object, MaybeNode
    <3>2. obj'.nodeID = n /\ obj'.claimKey = key
      BY <1>0, <2>2, <3>1, NotReadyFacts DEF Object
    <3> QED BY <1>3, <1>6, <1>7, <3>2 DEF OwnKey, Owns
  <2> QED BY <1>1, <2>1, <2>2 DEF Replies, LosesReply, Return
<1>10. ASSUME NEW m \in Machines, Guarded(m)
       PROVE  Owns(m, store[m])' /\ Owns(m, cache[m])'
  BY <1>5, <1>7, <1>10 DEF ClaimInv, Owns, TypeOK, Object, MaybeNode
<1> QED BY <1>0, <1>7, <1>8, <1>9, <1>10 DEF ClaimInv, OwnKey, Live

\* The other steps of reconcileNormal keep the recorded node and key.
LEMMA NormalInv == ASSUME TypeOK, ClaimInv, reconcileNormal PROVE ClaimInv'
<1> USE DEF Claiming, Applying, Rebooting, Rejoining
<1>0. /\ pc \in {"normal", "readReboot"} /\ who \in Machines /\ obj \in Object
      /\ FleetTypeOK /\ notReady(obj) \in Object
      /\ notReady(obj).nodeID = obj.nodeID /\ notReady(obj).claimKey = obj.claimKey
  <2>1. pc \in {"normal", "readReboot"}
    BY DEF reconcileNormal, WaitForBootstrap, WaitForConnection, ClaimNode,
           WaitForCapacity, ClaimError, HoldApply, ApplyCloudConfig, ApplyError,
           ApplyFailed, AwaitApply, HoldReboot, RequestReboot, RebootError,
           NodeMissing, GetNodeError, AwaitRejoin, AskReboot, RebootFailed,
           RebootPending, Provision
  <2> QED BY <2>1, NotReadyFacts DEF TypeOK
<1>1. CASE ClaimNode
  BY <1>1, ClaimNodeInv
<1>2. CASE WaitForBootstrap \/ WaitForConnection \/ WaitForCapacity \/ ClaimError
  BY <1>0, <1>2, QuietEnds
  DEF WaitForBootstrap, WaitForConnection, WaitForCapacity, ClaimError
<1>3. CASE HoldApply \/ AwaitApply \/ HoldReboot \/ GetNodeError \/ AwaitRejoin
           \/ RebootPending
  BY <1>0, <1>3, QuietEnds
  DEF HoldApply, AwaitApply, HoldReboot, GetNodeError, AwaitRejoin, RebootPending
<1>4. CASE ApplyCloudConfig
  <2> DEFINE o1 == [obj EXCEPT !.notBefore = None, !.applied = TRUE,
                               !.applyCmd = NextID(obj.nodeID)]
             o2 == [obj EXCEPT !.notBefore = None]
  <2>1. obj.nodeID \in Nodes
    BY <1>0, <1>4 DEF ApplyCloudConfig, Object, MaybeNode
  <2>2. /\ o1 \in Object /\ o1.nodeID = obj.nodeID /\ o1.claimKey = obj.claimKey
        /\ o2 \in Object /\ o2.nodeID = obj.nodeID /\ o2.claimKey = obj.claimKey
    BY <1>0, <2>1, NextIDType DEF Object, MaybeTime
  <2>3. claim' = claim /\ (Return(notReady(o1), TRUE) \/ Return(o2, TRUE))
    BY <1>4 DEF ApplyCloudConfig, Replies, LosesReply
  <2> HIDE DEF o1, o2
  <2> QED BY <1>0, <2>2, <2>3, NotReadyFacts, QuietReturn
<1>5. CASE ApplyError \/ RebootError
  <2>1. /\ [obj EXCEPT !.notBefore = None] \in Object
        /\ [obj EXCEPT !.notBefore = None].nodeID = obj.nodeID
        /\ [obj EXCEPT !.notBefore = None].claimKey = obj.claimKey
    BY <1>0 DEF Object, MaybeTime
  <2> QED BY <1>0, <1>5, <2>1, QuietEnds DEF ApplyError, RebootError
<1>6. CASE ApplyFailed
  <2> DEFINE o1 == [obj EXCEPT !.failure = FALSE, !.applied = FALSE, !.applyCmd = None]
  <2>1. o1 \in Object /\ o1.nodeID = obj.nodeID /\ o1.claimKey = obj.claimKey
    BY <1>0 DEF Object, MaybeID
  <2>2. Ends(openRetryWindow(notReady(o1)), TRUE)
    BY <1>6 DEF ApplyFailed
  <2> HIDE DEF o1
  <2> QED BY <1>0, <2>1, <2>2, NotReadyFacts, RetryWindowFacts, QuietEnds
<1>7. CASE RequestReboot
  <2> DEFINE o1 == [obj EXCEPT !.notBefore = None, !.rebootAt = Stamp(now),
                               !.rebootCmd = NextID(obj.nodeID)]
             o2 == [obj EXCEPT !.notBefore = None]
  <2>1. obj.nodeID \in Nodes /\ Stamp(now) \in MaybeTime
    BY <1>0, <1>7, StampType DEF RequestReboot, Object, MaybeNode, MaybeTime, FleetTypeOK
  <2>2. /\ o1 \in Object /\ o1.nodeID = obj.nodeID /\ o1.claimKey = obj.claimKey
        /\ o2 \in Object /\ o2.nodeID = obj.nodeID /\ o2.claimKey = obj.claimKey
    BY <1>0, <2>1, NextIDType DEF Object, MaybeTime
  <2>3. claim' = claim /\ (Return(notReady(o1), TRUE) \/ Return(o2, TRUE))
    BY <1>7 DEF RequestReboot, Replies, LosesReply
  <2> HIDE DEF o1, o2
  <2> QED BY <1>0, <2>2, <2>3, NotReadyFacts, QuietReturn
<1>8. CASE NodeMissing
  <2> DEFINE o1 == [obj EXCEPT !.failure = TRUE]
  <2>1. o1 \in Object /\ o1.nodeID = obj.nodeID /\ o1.claimKey = obj.claimKey
    BY <1>0 DEF Object
  <2>2. Return(notReady(o1), FALSE) /\ claim' = claim
    BY <1>8 DEF NodeMissing, fleetVars
  <2> HIDE DEF o1
  <2> QED BY <1>0, <2>1, <2>2, NotReadyFacts, QuietReturn
<1>9. CASE AskReboot
  BY <1>0, <1>9 DEF AskReboot, ClaimInv, Owns, OwnKey, HeldBy, Guarded, Live, worldVars,
                    fleetVars, apiVars
<1>10. CASE RebootFailed
  <2> DEFINE o1 == [obj EXCEPT !.rebootAt = None, !.rebootCmd = None]
  <2>1. o1 \in Object /\ o1.nodeID = obj.nodeID /\ o1.claimKey = obj.claimKey
    BY <1>0 DEF Object, MaybeTime, MaybeID
  <2>2. Ends(openRetryWindow(notReady(o1)), TRUE)
    BY <1>10 DEF RebootFailed
  <2> HIDE DEF o1
  <2> QED BY <1>0, <2>1, <2>2, NotReadyFacts, RetryWindowFacts, QuietEnds
<1>11. CASE Provision
  <2> DEFINE o1 == [obj EXCEPT !.providerID = obj.nodeID, !.provisioned = TRUE]
  <2>1. o1 \in Object /\ o1.nodeID = obj.nodeID /\ o1.claimKey = obj.claimKey
    BY <1>0 DEF Object
  <2>2. Ends(o1, FALSE)
    BY <1>11 DEF Provision
  <2> HIDE DEF o1
  <2> QED BY <1>0, <2>1, <2>2, QuietEnds
<1> QED BY <1>1, <1>2, <1>3, <1>4, <1>5, <1>6, <1>7, <1>8, <1>9, <1>10, <1>11
    DEF reconcileNormal

\* A release frees a node of the machine being deleted only, and only once its
\* deletion has reached the cache.
LEMMA DeleteInv == ASSUME TypeOK, ClaimInv, reconcileDelete PROVE ClaimInv'
<1> DEFINE o1 == [obj EXCEPT !.finalizer = FALSE]
<1>0. /\ pc = "delete" /\ who \in Machines /\ obj \in Object /\ FleetTypeOK
      /\ base.deleting
  <2>1. pc = "delete"
    BY DEF reconcileDelete, DeleteUnclaimed, DeleteUnreachable, ReleaseNode,
           ReleaseMismatch, ReleaseMissing, DeleteError
  <2> QED BY <2>1 DEF TypeOK, ClaimInv
<1>1. o1 \in Object /\ o1.nodeID = obj.nodeID /\ o1.claimKey = obj.claimKey
  BY <1>0 DEF Object
<1>2. ASSUME NEW how, DropFinalizer(how), claim' = claim PROVE ClaimInv'
  <2>1. Return(o1, FALSE)
    BY <1>2 DEF DropFinalizer
  <2> HIDE DEF o1
  <2> QED BY <1>0, <1>1, <1>2, <2>1, QuietReturn
<1>3. CASE ReleaseNode
  <2> DEFINE n == obj.nodeID
             key == claimKeyFor(who, obj)
  <2>1. n \in Nodes /\ claim[n] \in {key, None} /\ claim' = [claim EXCEPT ![n] = None]
    BY <1>0, <1>3 DEF ReleaseNode, Releasable, ServeRelease, Object, MaybeNode
  <2>2. key[1] = who
    BY <1>0, GoneAssumption DEF ClaimInv, OwnKey, claimKeyFor
  <2>3. /\ UNCHANGED <<store, cache, who, base, tampered>> /\ pc' = "patch"
        /\ obj' \in {obj, o1}
    BY <1>3 DEF ReleaseNode, DropFinalizer, LosesReply, Return, apiVars
  <2>4. \A k \in Nodes, m \in Machines : HeldBy(k, m) /\ m # who => HeldBy(k, m)'
    BY <1>0, <2>1, <2>2 DEF HeldBy, FleetTypeOK
  <2>5. \A m \in Machines : Guarded(m)' => Guarded(m) /\ m # who
    BY <1>0, <2>3 DEF Guarded, ClaimInv
  <2>6. OwnKey(who, obj)'
    BY <1>0, <1>1, <2>3, GoneAssumption DEF ClaimInv, OwnKey
  <2>7. ASSUME NEW m \in Machines, Guarded(m)'
        PROVE  Owns(m, store[m])' /\ Owns(m, cache[m])'
    BY <2>3, <2>4, <2>5, <2>7 DEF ClaimInv, Owns, TypeOK, Object, MaybeNode
  <2> QED BY <1>0, <2>3, <2>6, <2>7 DEF ClaimInv, OwnKey, Live
<1>4. CASE DeleteUnclaimed \/ DeleteUnreachable \/ ReleaseMismatch \/ ReleaseMissing
  BY <1>2, <1>4
  DEF DeleteUnclaimed, DeleteUnreachable, ReleaseMismatch, ReleaseMissing, fleetVars
<1>5. CASE DeleteError
  BY <1>0, <1>5, QuietEnds DEF DeleteError
<1> QED BY <1>3, <1>4, <1>5 DEF reconcileDelete

\* A write of the pass stores a node and a key that the pass, or the store, had.
LEMMA PatchObjectInv == ASSUME TypeOK, ClaimInv, PatchObject PROVE ClaimInv'
<1>1. /\ who \in Machines /\ pc = "patch" /\ pc' = "patchStatus" /\ obj \in Object
      /\ UNCHANGED <<claim, tampered, cache, who, base, obj>>
  BY DEF TypeOK, PatchObject, worldVars, fleetVars
<1>2. \A m \in Machines : Guarded(m)' <=> Guarded(m)
  BY <1>1 DEF Guarded
<1>3. CASE UNCHANGED store
  BY <1>1, <1>2, <1>3 DEF ClaimInv, Owns, OwnKey, HeldBy, Live
<1>4. CASE store[who] # None /\ store' = [store EXCEPT ![who] = Stored(patched)]
  <2>1. /\ store'[who] \in {None, patched}
        /\ \A m \in Machines \ {who} : store'[m] = store[m]
    BY <1>1, <1>4 DEF Stored, TypeOK
  <2>2. /\ patched.deleting = store[who].deleting
        /\ patched.nodeID \in {obj.nodeID, store[who].nodeID}
        /\ patched.claimKey \in {obj.claimKey, store[who].claimKey}
    BY <1>1, <1>4, PatchFacts
  <2>3. Live(who)' => Live(who)
    BY <1>1, <1>4, <2>1, <2>2 DEF Live
  <2>4. OwnKey(who, store[who])'
    BY <1>1, <1>4, <2>1, <2>2, GoneAssumption DEF ClaimInv, OwnKey
  <2>5. Guarded(who) => Owns(who, store[who])'
    <3>1. Guarded(who) => ~base.deleting
      BY <1>1 DEF Guarded, ClaimInv
    <3> QED BY <1>1, <1>4, <2>1, <2>2, <3>1, GoneAssumption DEF ClaimInv, Owns, HeldBy
  <2> QED BY <1>1, <1>2, <2>1, <2>3, <2>4, <2>5 DEF ClaimInv, Owns, OwnKey, HeldBy, Live
<1> QED BY <1>3, <1>4 DEF PatchObject

\* The status write touches neither node nor key.
LEMMA PatchStatusInv == ASSUME TypeOK, ClaimInv, PatchStatus PROVE ClaimInv'
<1>1. /\ who \in Machines /\ pc = "patchStatus" /\ pc' = "idle"
      /\ UNCHANGED <<claim, tampered, cache>>
  BY DEF TypeOK, PatchStatus, EndPass, worldVars, fleetVars
<1>2. \A m \in Machines : Guarded(m)' => Guarded(m)
  BY <1>1 DEF Guarded
<1>3. CASE UNCHANGED store
  BY <1>1, <1>2, <1>3 DEF ClaimInv, Owns, OwnKey, HeldBy, Live
<1>4. CASE /\ store[who] # None
           /\ store' = [store EXCEPT ![who] =
                 WithStatus(@, merged("provisioned"), merged("failure"))]
  <2> DEFINE o1 == WithStatus(store[who], merged("provisioned"), merged("failure"))
  <2>1. store'[who] = o1 /\ \A m \in Machines \ {who} : store'[m] = store[m]
    BY <1>1, <1>4 DEF TypeOK
  <2>2. /\ o1 \in Object
        /\ o1.nodeID = store[who].nodeID
        /\ o1.claimKey = store[who].claimKey
        /\ o1.deleting = store[who].deleting
    BY <1>1, <1>4, StatusFacts
  <2> HIDE DEF o1
  <2> QED BY <1>1, <1>2, <1>4, <2>1, <2>2 DEF ClaimInv, Owns, OwnKey, HeldBy, Live
<1> QED BY <1>3, <1>4 DEF PatchStatus

\* A restart leaves the claims alone and only refreshes the cache.
LEMMA RestartInv == ASSUME TypeOK, ClaimInv, Restart PROVE ClaimInv'
<1>1. /\ cache' = store /\ pc' = "idle"
      /\ UNCHANGED <<claim, tampered, store>>
  BY DEF Restart, EndPass, worldVars, fleetVars
<1>2. \A m \in Machines : Guarded(m)' => Live(m)
  BY <1>1 DEF Guarded, Live
<1>3. \A m \in Machines : Live(m) => Guarded(m)
  BY DEF ClaimInv, Guarded
<1> QED BY <1>1, <1>2, <1>3 DEF ClaimInv, Owns, OwnKey, HeldBy, Live

\* The machines' own steps and the cache.
LEMMA ClusterInv ==
  ASSUME TypeOK, ClaimInv, NEW m \in Machines,
         \/ Ignore(m) \/ Reconcile(m) \/ Sync(m) \/ MachineEvent(m)
         \/ PublishBootstrap(m) \/ Unpause(m) \/ Pause(m) \/ UserDelete(m) \/ Move(m)
  PROVE  ClaimInv'
<1>1. CASE \/ Ignore(m) \/ MachineEvent(m) \/ PublishBootstrap(m) \/ Unpause(m)
           \/ Pause(m)
  <2>1. UNCHANGED <<claim, tampered, store, cache, pc, who, base, obj>>
    BY <1>1 DEF Ignore, MachineEvent, PublishBootstrap, Unpause, Pause, worldVars,
                fleetVars, passVars
  <2> QED BY <2>1 DEF ClaimInv, Owns, OwnKey, HeldBy, Live, Guarded
<1>2. CASE Reconcile(m)
  <2>1. /\ UNCHANGED <<claim, tampered, store, cache>> /\ pc = "idle"
        /\ who' = m /\ base' = cache[m] /\ obj' = [cache[m] EXCEPT !.finalizer = TRUE]
        /\ pc' = IF cache[m].deleting THEN "delete" ELSE "normal"
        /\ cache[m] \in Object
    BY <1>2 DEF Reconcile, TypeOK, worldVars, fleetVars
  <2>2. obj'.nodeID = cache[m].nodeID /\ obj'.claimKey = cache[m].claimKey
    BY <2>1 DEF Object
  <2>3. \A k \in Machines : Guarded(k)' <=> Guarded(k)
    BY <2>1, GoneAssumption DEF Guarded
  <2>4. OwnKey(m, obj') /\ (~cache[m].deleting => Owns(m, obj'))
    BY <2>1, <2>2, GoneAssumption DEF ClaimInv, OwnKey, Owns, Guarded
  <2> QED BY <2>1, <2>3, <2>4 DEF ClaimInv, Owns, OwnKey, HeldBy, Live
<1>3. CASE Sync(m)
  <2>1. /\ UNCHANGED <<claim, tampered, store, pc, who, base, obj>>
        /\ cache'[m] = store[m]
        /\ \A k \in Machines \ {m} : cache'[k] = cache[k]
    BY <1>3 DEF Sync, TypeOK, worldVars, fleetVars, passVars
  <2>2. \A k \in Machines : Guarded(k)' => Guarded(k)
    BY <2>1 DEF Guarded, ClaimInv, Live
  <2> QED BY <2>1, <2>2 DEF ClaimInv, Owns, OwnKey, HeldBy, Live, TypeOK
<1>4. CASE UserDelete(m)
  <2>1. /\ UNCHANGED <<claim, tampered, cache, pc, who, base, obj>>
        /\ store'[m] = Stored([store[m] EXCEPT !.deleting = TRUE])
        /\ \A k \in Machines \ {m} : store'[k] = store[k]
        /\ store[m] \in Object
    BY <1>4 DEF UserDelete, TypeOK, worldVars, fleetVars, gateVars, passVars
  <2>2. \/ store'[m] = None
        \/ /\ store'[m].deleting
           /\ store'[m].nodeID = store[m].nodeID
           /\ store'[m].claimKey = store[m].claimKey
    BY <2>1 DEF Stored, Object
  <2>3. ~Live(m)'
    BY <2>2 DEF Live
  <2>4. OwnKey(m, store[m])' /\ (Guarded(m) => Owns(m, store[m])')
    BY <2>1, <2>2, GoneAssumption DEF ClaimInv, OwnKey, Owns, HeldBy
  <2>5. \A k \in Machines : Guarded(k)' <=> Guarded(k)
    BY <2>1 DEF Guarded
  <2> QED BY <2>1, <2>3, <2>4, <2>5 DEF ClaimInv, Owns, OwnKey, HeldBy, Live
<1>5. CASE Move(m)
  <2> DEFINE o1 == WithStatus([store[m] EXCEPT !.uid = @ + 1], FALSE, FALSE)
  <2>1. /\ [store[m] EXCEPT !.uid = @ + 1] \in Object
        /\ [store[m] EXCEPT !.uid = @ + 1].nodeID = store[m].nodeID
        /\ [store[m] EXCEPT !.uid = @ + 1].claimKey = store[m].claimKey
        /\ [store[m] EXCEPT !.uid = @ + 1].deleting = store[m].deleting
    BY <1>5 DEF Move, TypeOK, Object
  <2>2. /\ o1 \in Object
        /\ o1.nodeID = store[m].nodeID
        /\ o1.claimKey = store[m].claimKey
        /\ o1.deleting = store[m].deleting
    BY <2>1, WithStatusFacts
  <2>3. /\ UNCHANGED <<claim, tampered, pc>> /\ pc = "idle"
        /\ store[m] # None /\ ~store[m].deleting
        /\ store'[m] = o1 /\ cache'[m] = o1
        /\ \A k \in Machines \ {m} : store'[k] = store[k] /\ cache'[k] = cache[k]
    BY <1>5 DEF Move, TypeOK, worldVars, fleetVars, passVars
  <2> HIDE DEF o1
  <2>4. Guarded(m)
    BY <2>3 DEF ClaimInv, Live, Guarded
  <2>5. \A k \in Machines : Guarded(k)' => Guarded(k)
    BY <2>3, <2>4 DEF Guarded
  <2>6. /\ OwnKey(m, store[m])' /\ OwnKey(m, cache[m])'
        /\ Owns(m, store[m])' /\ Owns(m, cache[m])'
    BY <2>2, <2>3, <2>4 DEF ClaimInv, OwnKey, Owns, HeldBy
  <2> QED BY <2>2, <2>3, <2>5, <2>6, GoneAssumption
      DEF ClaimInv, Owns, OwnKey, HeldBy, Live
<1> QED BY <1>1, <1>2, <1>3, <1>4, <1>5

\* The nodes change no claim; an operator's release is remembered.
LEMMA NodeInv ==
  ASSUME TypeOK, ClaimInv, NEW n \in Nodes, NodeStep(n), UNCHANGED <<apiVars, passVars>>
  PROVE  ClaimInv'
<1>1. /\ UNCHANGED <<store, cache, pc, who, base, obj>>
      /\ \/ UNCHANGED <<claim, tampered>>
         \/ claim' = [claim EXCEPT ![n] = None] /\ tampered' = tampered \cup {n}
  BY DEF NodeStep, ExecuteApply, ExecuteReboot, FailCommand, Boot, Heartbeat, MarkOffline,
         Outage, Vanish, OperatorRelease, apiVars, passVars
<1>2. ASSUME NEW k \in Nodes, NEW m \in Machines, k \in tampered \/ HeldBy(k, m)
      PROVE  k \in tampered' \/ HeldBy(k, m)'
  BY <1>1, <1>2 DEF HeldBy, TypeOK, FleetTypeOK
<1>3. ASSUME NEW m \in Machines, NEW o \in Object \cup {None}, Owns(m, o)
      PROVE  o # None /\ o.nodeID # None => o.nodeID \in tampered' \/ HeldBy(o.nodeID, m)'
  BY <1>2, <1>3 DEF Owns, Object, MaybeNode
<1>4. \A m \in Machines : Guarded(m)' <=> Guarded(m)
  BY <1>1 DEF Guarded
<1> QED BY <1>1, <1>3, <1>4 DEF ClaimInv, Owns, OwnKey, Live, TypeOK

\* Initially only legacy machines name a node, and they hold it.
LEMMA ClaimInit == CoreInit => ClaimInv
<1> SUFFICES ASSUME CoreInit PROVE ClaimInv
  OBVIOUS
<1>1. PICK held \in [Legacy -> Nodes], left \in [Legacy -> Left] : Adopts(held, left)
  BY Adopted
<1>2. pc = "idle" /\ cache = store
  BY DEF CoreInit
<1>3. ASSUME NEW m \in Machines
      PROVE  /\ store[m] # None /\ ~store[m].deleting
             /\ OwnKey(m, store[m]) /\ Owns(m, store[m])
  BY <1>1, NewFacts, ClaimedFacts DEF Adopts, OwnKey, Owns
<1> QED BY <1>2, <1>3 DEF ClaimInv, Live

\* Every step preserves the inductive invariant.
LEMMA ClaimNext == TypeOK /\ ClaimInv /\ [OpenNext]_vars => ClaimInv'
<1> SUFFICES ASSUME TypeOK, ClaimInv, [OpenNext]_vars PROVE ClaimInv'
  OBVIOUS
<1>1. CASE \/ UNCHANGED vars
           \/ Disconnect \/ Reconnect \/ Tick \/ Elsewhere
  <2>1. UNCHANGED <<claim, tampered, store, cache, pc, who, base, obj>>
    BY <1>1 DEF vars, Elsewhere, Disconnect, Reconnect, Tick, worldVars, fleetVars, apiVars, passVars
  <2> QED BY <2>1 DEF ClaimInv, Owns, OwnKey, HeldBy, Live, Guarded
<1>2. CASE Worker
  BY <1>2, NormalInv, DeleteInv, PatchObjectInv, PatchStatusInv DEF Worker
<1>3. CASE Crash \/ Interrupted
  BY <1>3, RestartInv DEF Crash, Interrupted
<1> QED BY <1>1, <1>2, <1>3, ClusterInv, NodeInv DEF OpenNext, Next, Core

\* So it holds in any manager.
LEMMA OpenClaims == OpenSpec => []ClaimInv
BY OpenTypes, ClaimInit, ClaimNext, PTL DEF OpenSpec

\* The inductive invariant holds in every reachable state.
THEOREM ClaimsHeld == Spec => []ClaimInv
BY SpecIsOpen, OpenClaims, PTL

\* What a machine that no delete pass has seen names, it holds, and a node has one
\* holder.
LEMMA OneHolder == ClaimInv => NodeExclusive
<1> SUFFICES ASSUME ClaimInv, NEW m1 \in Machines, NEW m2 \in Machines, m1 # m2,
                    Live(m1), Live(m2), store[m1].nodeID = store[m2].nodeID,
                    store[m1].nodeID # None
             PROVE  store[m1].nodeID \in tampered
  BY DEF NodeExclusive
<1>1. Guarded(m1) /\ Guarded(m2)
  BY DEF ClaimInv, Guarded
<1> QED BY <1>1 DEF ClaimInv, Owns, HeldBy, Live

\* Two live machines never record the same node, for any number of machines and
\* nodes and any mixture of crashes, lost replies, stale reads and moves.
THEOREM Exclusive == Spec => []NodeExclusive
BY OneHolder, ClaimsHeld, PTL

\* In any manager, commands only go to a node that the machine they are sent for
\* holds.
LEMMA OpenCommands == OpenSpec => CommandsToOwnNode
<1> DEFINE A == \A n \in Nodes :
                  Len(cmds'[n]) > Len(cmds[n]) =>
                    n \in tampered \/ HeldBy(n, cmds'[n][Len(cmds'[n])].by)
<1>1. ASSUME TypeOK, ClaimInv, [OpenNext]_vars PROVE [A]_vars
  <2>1. CASE UNCHANGED cmds
    BY <1>1, <2>1 DEF TypeOK, FleetTypeOK
  <2>2. ASSUME pc = "normal", obj.nodeID # None, NEW k,
               ServeCommand(obj.nodeID, k, who)
        PROVE  A
    <3> DEFINE n == obj.nodeID
               c == [kind |-> k, by |-> who, phase |-> "Pending", at |-> now]
    <3>1. /\ n \in Nodes /\ who \in Machines /\ obj # None /\ cmds[n] \in Seq(Command)
      BY <1>1, <2>2, GoneAssumption DEF TypeOK, FleetTypeOK, Object, MaybeNode
    <3>2. n \in tampered \/ HeldBy(n, who)
      BY <1>1, <2>2, <3>1 DEF ClaimInv, Owns
    <3>3. /\ cmds'[n] = Append(cmds[n], c)
          /\ \A x \in Nodes \ {n} : cmds'[x] = cmds[x]
      BY <1>1, <2>2, <3>1 DEF ServeCommand, TypeOK, FleetTypeOK
    <3>4. cmds'[n][Len(cmds'[n])] = c
      BY <3>1, <3>3
    <3>5. \A x \in Nodes \ {n} : ~(Len(cmds'[x]) > Len(cmds[x]))
      BY <3>3 DEF TypeOK, FleetTypeOK
    <3> QED BY <3>2, <3>4, <3>5
  <2>3. ASSUME NEW n \in Nodes, NodeStep(n) PROVE A
    <3>1. \/ UNCHANGED cmds
          \/ \E i \in DOMAIN cmds[n], p \in CommandPhases :
                cmds' = [cmds EXCEPT ![n][i].phase = p]
      BY <2>3 DEF NodeStep, ExecuteApply, ExecuteReboot, FailCommand, Boot, Heartbeat,
                  MarkOffline, Outage, Vanish, OperatorRelease, NextCommand, CommandPhases
    <3>2. \A x \in Nodes : Len(cmds'[x]) = Len(cmds[x])
      BY <1>1, <3>1, SetPhaseType DEF TypeOK
    <3> QED BY <3>2 DEF TypeOK, FleetTypeOK
  <2>4. \/ UNCHANGED cmds
        \/ \E n \in Nodes : NodeStep(n)
        \/ /\ pc = "normal" /\ obj.nodeID # None
           /\ \E k \in Kinds : ServeCommand(obj.nodeID, k, who)
    <3>1. CASE \/ UNCHANGED vars \/ Crash \/ Disconnect \/ Reconnect \/ Tick
               \/ Interrupted \/ Elsewhere
      BY <3>1 DEF vars, Interrupted, Elsewhere, Crash, Restart, Disconnect, Reconnect, Tick, worldVars, fleetVars
    <3>2. CASE \E m \in Machines :
                 \/ Ignore(m) \/ Reconcile(m) \/ Sync(m) \/ MachineEvent(m)
                 \/ PublishBootstrap(m) \/ Unpause(m) \/ Pause(m) \/ UserDelete(m)
                 \/ Move(m)
      BY <3>2 DEF Ignore, Reconcile, Sync, MachineEvent, PublishBootstrap, Unpause, Pause,
                  UserDelete, Move, worldVars, fleetVars
    <3>3. CASE PatchObject \/ PatchStatus \/ reconcileDelete
      BY <3>3 DEF PatchObject, PatchStatus, reconcileDelete, DeleteUnclaimed,
           DeleteUnreachable, ReleaseNode, ReleaseMismatch, ReleaseMissing, DeleteError,
           Fails, worldVars, fleetVars
    <3>4. CASE ApplyCloudConfig \/ RequestReboot
      BY <3>4 DEF ApplyCloudConfig, RequestReboot, Applying, Rebooting, Kinds
    <3>5. CASE reconcileNormal /\ ~ApplyCloudConfig /\ ~RequestReboot
      BY <3>5 DEF reconcileNormal, WaitForBootstrap, WaitForConnection, ClaimNode,
           WaitForCapacity, ClaimError, HoldApply, ApplyError, ApplyFailed, AwaitApply,
           HoldReboot, RebootError, NodeMissing, GetNodeError, AwaitRejoin, AskReboot,
           RebootFailed, RebootPending, Provision, Ends, Fails, worldVars, fleetVars
    <3> QED BY <1>1, <3>1, <3>2, <3>3, <3>4, <3>5 DEF OpenNext, Next, Core, Worker
  <2> QED BY <2>1, <2>2, <2>3, <2>4
<1> QED BY <1>1, OpenTypes, OpenClaims, PTL DEF OpenSpec, CommandsToOwnNode

\* Commands only go to a node that the machine they are sent for holds.
THEOREM CommandsOwned == Spec => CommandsToOwnNode
BY SpecIsOpen, OpenCommands, PTL
=============================================================================
