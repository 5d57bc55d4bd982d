--------------------------- MODULE FleetFreshProofs ---------------------------
(***************************************************************************)
(* What holds once every pass reads its own earlier writes ("stale" is not *)
(* among the mishaps): a machine that has its providerID is left alone, a  *)
(* deleted machine has given its node back, a failed one is not reported   *)
(* provisioned, and a release is refused only where the code says so.      *)
(* Crashes, lost replies, failed patches, moves and operators stay.        *)
(***************************************************************************)
EXTENDS FleetHistoryProofs

-----------------------------------------------------------------------------
(* What the world may do to a view *)

\* Consistent after the step, for a view that may itself be of after the step.
ConsistentNext(m, o) ==
    /\ o.failure /\ "stray404" \notin Mishaps => ~o.provisioned \/ InheritedNext(m, o.nodeID)
    /\ o.providerID # None =>
        o.applied /\ o.rebootAt # None /\ heartbeat'[o.nodeID] > o.rebootAt
    /\ o.nodeID # None =>
        /\ m \in Legacy \/ o.claimKey # None
        /\ claim'[o.nodeID] # None /\ claim'[o.nodeID][1] = m =>
            claim'[o.nodeID] = claimKeyFor(m, o) \/ LegacyMoved(m, o)

\* The clock never runs backwards, and heartbeats follow it.
LEMMA ClockSteps ==
  ASSUME TypeOK, [OpenNext]_vars
  PROVE  /\ now' \in {now, now + 1}
         /\ \A n \in Nodes : heartbeat'[n] = heartbeat[n] \/ heartbeat'[n] = now
<1>1. CASE \/ UNCHANGED vars \/ Disconnect \/ Reconnect \/ Tick
           \/ Crash \/ Interrupted \/ Elsewhere
  BY <1>1 DEF vars, Disconnect, Reconnect, Tick, Crash, Interrupted, Elsewhere, Restart,
              worldVars, apiVars, fleetVars
<1>2. CASE \E m \in Machines :
             \/ Ignore(m) \/ Reconcile(m) \/ Sync(m) \/ MachineEvent(m)
             \/ PublishBootstrap(m) \/ Unpause(m) \/ Pause(m) \/ UserDelete(m) \/ Move(m)
  BY <1>2 DEF Ignore, Reconcile, Sync, MachineEvent, PublishBootstrap, Unpause, Pause,
              UserDelete, Move, worldVars, fleetVars
<1>3. CASE PatchObject \/ PatchStatus
  BY <1>3 DEF PatchObject, PatchStatus, worldVars, fleetVars
<1>4. CASE reconcileDelete
  BY <1>4 DEF reconcileDelete, DeleteUnclaimed, DeleteUnreachable, ReleaseNode,
       ReleaseMismatch, ReleaseMissing, DeleteError, DropFinalizer, LosesReply, Fails, Return,
       fleetVars
<1>5. CASE reconcileNormal
  <2>1. UNCHANGED heartbeat
    BY <1>5 DEF reconcileNormal, WaitForBootstrap, WaitForConnection, ClaimNode,
       ApplyCloudConfig, WaitForCapacity, ClaimError, HoldApply, ApplyError, ApplyFailed,
       AwaitApply, HoldReboot, RequestReboot, RebootError, NodeMissing, GetNodeError,
       AwaitRejoin, AskReboot, RebootFailed, RebootPending, Provision, Ends, Fails,
       worldVars, fleetVars
  <2>2. UNCHANGED now
    BY <1>5 DEF reconcileNormal, WaitForBootstrap, WaitForConnection, ClaimNode,
       ApplyCloudConfig, WaitForCapacity, ClaimError, HoldApply, ApplyError, ApplyFailed,
       AwaitApply, HoldReboot, RequestReboot, RebootError, NodeMissing, GetNodeError,
       AwaitRejoin, AskReboot, RebootFailed, RebootPending, Provision, Ends, Fails, Replies,
       LosesReply, Return, worldVars
  <2> QED BY <2>1, <2>2
<1>6. ASSUME NEW k \in Nodes, NodeStep(k)
      PROVE  /\ UNCHANGED now
             /\ \A n \in Nodes : heartbeat'[n] = heartbeat[n] \/ heartbeat'[n] = now
  BY <1>6 DEF NodeStep, ExecuteApply, ExecuteReboot, FailCommand, Boot, Heartbeat,
              MarkOffline, Outage, Vanish, OperatorRelease, TypeOK, FleetTypeOK
<1> QED BY <1>1, <1>2, <1>3, <1>4, <1>5, <1>6 DEF OpenNext, Next, Core, Worker

\* A heartbeat never goes back and never runs ahead of the clock.
LEMMA BeatsGrow ==
  ASSUME TypeOK, TypeOK', [OpenNext]_vars, \A n \in Nodes : heartbeat[n] <= now
  PROVE  \A n \in Nodes : heartbeat[n] <= heartbeat'[n] /\ heartbeat'[n] <= now'
<1>1. now \in Nat /\ \A n \in Nodes : heartbeat[n] \in Nat
  BY DEF TypeOK, FleetTypeOK
<1> QED BY <1>1, ClockSteps

\* Only a claim of its own gives a machine a node, or another key for one.
LEMMA ClaimsKept ==
  ASSUME TypeOK, ClaimInv, [OpenNext]_vars, NEW n \in Nodes, NEW m \in Machines,
         ~(ClaimNode /\ who = m), claim'[n] # None, claim'[n][1] = m
  PROVE  HeldBy(n, m) /\ claim'[n] = claim[n]
<1>1. CASE UNCHANGED claim
  BY <1>1 DEF HeldBy
<1>2. CASE ClaimNode
  <2>1. pc = "normal" /\ who # m
    BY <1>2 DEF ClaimNode, Claiming
  <2>2. claimKeyFor(who, obj)[1] = who
    BY <2>1, GoneAssumption DEF TypeOK, ClaimInv, OwnKey, claimKeyFor
  <2>3. PICK k \in Nodes : claim' = [claim EXCEPT ![k] = claimKeyFor(who, obj)]
    BY <1>2 DEF ClaimNode, ServeClaim, Claimable
  <2> QED BY <2>1, <2>2, <2>3 DEF HeldBy, TypeOK, FleetTypeOK
<1>3. CASE ReleaseNode
  BY <1>3 DEF ReleaseNode, ServeRelease, HeldBy, TypeOK, FleetTypeOK
<1>4. CASE \E k \in Nodes : OperatorRelease(k)
  BY <1>4 DEF OperatorRelease, HeldBy, TypeOK, FleetTypeOK
<1> QED BY <1>1, <1>2, <1>3, <1>4, ClaimSteps

\* A view of a legacy machine names the node that an earlier build sent commands to.
Adopting(o) == o.nodeID # None /\ cmds[o.nodeID] # <<>>

\* A view stays consistent, whatever happens around it, unless its machine claims.
LEMMA ConsistentStays ==
  ASSUME TypeOK, TypeOK', ClaimInv, [OpenNext]_vars, \A n \in Nodes : heartbeat[n] <= now,
         NEW m \in Machines, NEW o \in Object, Consistent(m, o),
         o.providerID \in {None, o.nodeID}, m \in Legacy => Adopting(o),
         ClaimNode /\ who = m => o.nodeID = None
  PROVE  ConsistentNext(m, o)
<1>1. ASSUME o.nodeID # None, claim'[o.nodeID] # None, claim'[o.nodeID][1] = m
      PROVE  claim'[o.nodeID] = claimKeyFor(m, o) \/ LegacyMoved(m, o)
  <2>1. o.nodeID \in Nodes
    BY <1>1 DEF Object, MaybeNode
  <2>2. HeldBy(o.nodeID, m) /\ claim'[o.nodeID] = claim[o.nodeID]
    BY <1>1, <2>1, ClaimsKept
  <2> QED BY <1>1, <2>2 DEF Consistent
<1>2. ASSUME o.providerID # None
      PROVE  o.applied /\ o.rebootAt # None /\ heartbeat'[o.nodeID] > o.rebootAt
  <2>1. o.nodeID \in Nodes /\ o.applied /\ o.rebootAt \in Nat /\ o.rebootAt # None
        /\ heartbeat[o.nodeID] > o.rebootAt
    BY <1>2 DEF Consistent, Object, MaybeNode, MaybeTime
  <2>2. heartbeat[o.nodeID] \in Nat /\ heartbeat'[o.nodeID] \in Nat
    BY <2>1 DEF TypeOK, FleetTypeOK
  <2> QED BY <2>1, <2>2, BeatsGrow
<1>3. ASSUME Inherited(m, o.nodeID) PROVE InheritedNext(m, o.nodeID)
  <2>1. m \in Legacy /\ o.nodeID \in Nodes /\ cmds[o.nodeID] # <<>>
    BY <1>3 DEF Inherited, Adopting, Object, MaybeNode
  <2> QED BY <1>3, <2>1, FactsStay DEF Inherited, InheritedNext
<1> QED BY <1>1, <1>2, <1>3 DEF Consistent, ConsistentNext

-----------------------------------------------------------------------------
(* What passes do to the object they return *)

\* The providerID of a pass's object is that of its node, and a legacy machine's node
\* the one it always had.
LEMMA OwnProvider ==
  ASSUME TypeOK, RecordInv, PassInv, pc # "idle"
  PROVE  /\ obj \in Object /\ who \in Machines /\ obj.providerID \in {None, obj.nodeID}
         /\ who \in Legacy => Adopting(obj) /\ obj.nodeID = base.nodeID
<1>1. /\ obj \in Object /\ base \in Object /\ base # None /\ who \in Machines
      /\ Witnessed(who, base)
  BY GoneAssumption DEF TypeOK, RecordInv
<1>2. /\ obj.providerID # base.providerID =>
           base.rebootAt # None /\ obj.providerID = base.nodeID
      /\ base.nodeID # None => obj.nodeID = base.nodeID
  BY DEF PassInv
<1> QED BY <1>1, <1>2 DEF Witnessed, Begun, Adopting

\* A pass that has not returned, and that makes no claim, leaves a consistent
\* object: it has a providerID only after the node rejoined, and reports it
\* provisioned only without a failure.
LEMMA NormalConsistent ==
  ASSUME TypeOK, TypeOK', ClaimInv, ConfigInv, FreshInv, [OpenNext]_vars,
         reconcileNormal, ~ClaimNode
  PROVE  /\ ConsistentNext(who, obj') /\ obj'.finalizer
         /\ pc' = "readReboot" => obj'.providerID = None
<1> USE DEF Claiming, Applying, Rebooting, Rejoining, Return, notReady
<1>1. /\ obj \in Object /\ base \in Object /\ who \in Machines /\ obj.finalizer
      /\ obj.nodeID = base.nodeID /\ obj.rebootAt = base.rebootAt
      /\ obj.applied = base.applied /\ obj.failure = base.failure
      /\ base # None
  BY NormalFrame, FreshPass, GoneAssumption DEF ConfigInv
<1>2. pc # "idle" /\ pc \in {"normal", "readReboot"}
  BY NormalFrame
<1>3. /\ Consistent(who, obj) /\ obj.providerID \in {None, obj.nodeID}
      /\ who \in Legacy => Adopting(obj)
  BY <1>2, OwnProvider DEF FreshInv, ConfigInv
<1>4. ConsistentNext(who, obj)
  BY <1>1, <1>3, ConsistentStays DEF FreshInv
<1>5. ASSUME NEW o \in Object, obj' = o, pc' = "patch", o.finalizer = obj.finalizer,
             o.nodeID = obj.nodeID, o.claimKey = obj.claimKey, o.uid = obj.uid,
             o.providerID = obj.providerID,
             obj.providerID = None \/ (o.applied = obj.applied /\ o.rebootAt = obj.rebootAt),
             o.failure => obj.failure, o.provisioned => obj.provisioned
      PROVE  /\ ConsistentNext(who, obj') /\ obj'.finalizer
             /\ pc' = "readReboot" => obj'.providerID = None
  BY <1>1, <1>4, <1>5 DEF ConsistentNext, claimKeyFor, LegacyMoved
<1>6. obj' \in Object
  BY NormalFrame DEF TypeOK
<1>7. CASE \/ WaitForBootstrap \/ WaitForConnection \/ WaitForCapacity \/ ClaimError
           \/ HoldApply \/ ApplyError \/ AwaitApply \/ HoldReboot \/ RebootError
           \/ GetNodeError \/ AwaitRejoin \/ RebootPending
  <2>1. pc' = "patch" /\ obj' \in {obj, notReady(obj), [obj EXCEPT !.notBefore = None]}
    BY <1>7 DEF WaitForBootstrap, WaitForConnection, WaitForCapacity, ClaimError, HoldApply,
      ApplyError, AwaitApply, HoldReboot, RebootError, GetNodeError, AwaitRejoin,
      RebootPending, Ends, Fails, Replies
  <2>2. /\ obj'.finalizer = obj.finalizer
        /\ obj'.nodeID = obj.nodeID /\ obj'.claimKey = obj.claimKey /\ obj'.uid = obj.uid
        /\ obj'.providerID = obj.providerID
        /\ obj'.applied = obj.applied /\ obj'.rebootAt = obj.rebootAt
        /\ (obj'.failure => obj.failure) /\ (obj'.provisioned => obj.provisioned)
    BY <1>1, <2>1 DEF Object
  <2> QED BY <1>5, <1>6, <2>1, <2>2
<1>8. CASE ApplyCloudConfig
  <2>1. obj.providerID = None
    BY <1>3, <1>8 DEF ApplyCloudConfig, Consistent
  <2>2. pc' = "patch"
    BY <1>8 DEF ApplyCloudConfig, Replies, LosesReply
  <2>3. /\ obj'.finalizer = obj.finalizer
        /\ obj'.nodeID = obj.nodeID /\ obj'.claimKey = obj.claimKey /\ obj'.uid = obj.uid
        /\ obj'.providerID = obj.providerID
        /\ (obj'.failure => obj.failure) /\ (obj'.provisioned => obj.provisioned)
    BY <1>1, <1>8 DEF ApplyCloudConfig, Replies, LosesReply, Object
  <2> QED BY <1>5, <1>6, <2>1, <2>2, <2>3
<1>9. CASE ApplyFailed
  <2>1. obj.providerID = None
    BY <1>3, <1>9 DEF ApplyFailed, Consistent
  <2>2. pc' = "patch"
    BY <1>9 DEF ApplyFailed, Ends, Replies
  <2>3. /\ obj'.finalizer = obj.finalizer
        /\ obj'.nodeID = obj.nodeID /\ obj'.claimKey = obj.claimKey /\ obj'.uid = obj.uid
        /\ obj'.providerID = obj.providerID
        /\ (obj'.failure => obj.failure) /\ (obj'.provisioned => obj.provisioned)
    BY <1>1, <1>9 DEF ApplyFailed, Ends, Replies, openRetryWindow, Object
  <2> QED BY <1>5, <1>6, <2>1, <2>2, <2>3
<1>10. CASE RequestReboot
  <2>1. obj.providerID = None
    BY <1>3, <1>10 DEF RequestReboot, Consistent
  <2>2. pc' = "patch"
    BY <1>10 DEF RequestReboot, Replies, LosesReply
  <2>3. /\ obj'.finalizer = obj.finalizer
        /\ obj'.nodeID = obj.nodeID /\ obj'.claimKey = obj.claimKey /\ obj'.uid = obj.uid
        /\ obj'.providerID = obj.providerID
        /\ (obj'.failure => obj.failure) /\ (obj'.provisioned => obj.provisioned)
    BY <1>1, <1>10 DEF RequestReboot, Replies, LosesReply, Object
  <2> QED BY <1>5, <1>6, <2>1, <2>2, <2>3
<1>11. CASE RebootFailed
  <2>1. obj.providerID = None
    BY <1>11 DEF RebootFailed, FreshInv
  <2>2. pc' = "patch"
    BY <1>11 DEF RebootFailed, Ends, Replies
  <2>3. /\ obj'.finalizer = obj.finalizer
        /\ obj'.nodeID = obj.nodeID /\ obj'.claimKey = obj.claimKey /\ obj'.uid = obj.uid
        /\ obj'.providerID = obj.providerID
        /\ (obj'.failure => obj.failure) /\ (obj'.provisioned => obj.provisioned)
    BY <1>1, <1>11 DEF RebootFailed, Ends, Replies, openRetryWindow, Object
  <2> QED BY <1>5, <1>6, <2>1, <2>2, <2>3
<1>12. CASE NodeMissing
  <2>1. /\ pc' = "patch" /\ obj'.finalizer = obj.finalizer
        /\ obj'.nodeID = obj.nodeID /\ obj'.claimKey = obj.claimKey /\ obj'.uid = obj.uid
        /\ obj'.providerID = obj.providerID
        /\ obj'.applied = obj.applied /\ obj'.rebootAt = obj.rebootAt
        /\ ~obj'.provisioned
    BY <1>1, <1>12 DEF NodeMissing, Object
  <2> QED BY <1>1, <1>4, <2>1 DEF ConsistentNext, claimKeyFor, LegacyMoved
<1>13. CASE AskReboot
  <2>1. /\ UNCHANGED obj /\ obj.rebootAt # None
        /\ ~(ReportedOnline(obj.nodeID) /\ heartbeat[obj.nodeID] > obj.rebootAt)
        /\ ReportedOnline(obj.nodeID)
    BY <1>13 DEF AskReboot, rejoinedAfterReboot
  <2>2. obj.providerID = None
    BY <1>3, <2>1 DEF Consistent
  <2> QED BY <1>1, <1>4, <2>1, <2>2
<1>14. CASE Provision
  <2>1. /\ obj.nodeID # None /\ obj.applied /\ obj.rebootAt # None
        /\ ReportedOnline(obj.nodeID) /\ heartbeat[obj.nodeID] > obj.rebootAt
        /\ UNCHANGED heartbeat
    BY <1>14 DEF Provision, rejoinedAfterReboot, Ends, fleetVars
  <2>2. /\ pc' = "patch" /\ obj'.finalizer = obj.finalizer
        /\ obj'.nodeID = obj.nodeID /\ obj'.claimKey = obj.claimKey /\ obj'.uid = obj.uid
        /\ obj'.applied = obj.applied /\ obj'.rebootAt = obj.rebootAt
        /\ obj'.failure = obj.failure
    BY <1>1, <1>14 DEF Provision, Ends, Replies, Object
  <2>3. "stray404" \in Mishaps \/ ~obj.failure \/ InheritedNext(who, obj.nodeID)
    <3>1. Witnessed(who, base) /\ UNCHANGED cmds
      BY <1>2, <1>14 DEF ConfigInv, RecordInv, Provision, Ends, fleetVars
    <3> QED BY <1>1, <2>1, <3>1
        DEF Witnessed, Inherited, InheritedNext, Exists, ReportedOnline
  <2> QED BY <1>1, <1>4, <2>1, <2>2, <2>3 DEF ConsistentNext, claimKeyFor, LegacyMoved
<1> QED BY <1>7, <1>8, <1>9, <1>10, <1>11, <1>12, <1>13, <1>14 DEF reconcileNormal

\* A claim, whose reply arrives or not, leaves an object with the key of its node.
LEMMA ClaimConsistent ==
  ASSUME TypeOK, TypeOK', ClaimInv, ConfigInv, FreshInv, [OpenNext]_vars, ClaimNode
  PROVE  ConsistentNext(who, obj') /\ obj'.finalizer /\ pc' = "patch"
<1> USE DEF Return, notReady
<1>1. /\ obj \in Object /\ who \in Machines /\ obj.finalizer
      /\ obj.nodeID = None /\ pc = "normal"
  BY FreshPass DEF ConfigInv, ClaimNode, Claiming
<1>2. Consistent(who, obj) /\ obj.providerID = None /\ who \notin Legacy
  <2>1. /\ obj.providerID \in {None, obj.nodeID} /\ Consistent(who, obj)
        /\ who \notin Legacy
    BY <1>1, OwnProvider DEF ConfigInv, FreshInv, Adopting
  <2> QED BY <1>1, <2>1
<1> DEFINE key == claimKeyFor(who, obj)
<1>3. key \in Keys /\ key # None
  <2>1. key \in Keys
    BY <1>1 DEF claimKeyFor, Object, Keys
  <2> QED BY <2>1, NoneAssumption DEF Keys
<1> HIDE DEF key
<1>4. PICK n \in Nodes :
        /\ claim' = [claim EXCEPT ![n] = key]
        /\ pc' = "patch"
        /\ \/ obj' = notReady([obj EXCEPT !.nodeID = n, !.claimKey = key])
           \/ obj' = obj
  BY DEF ClaimNode, Claimable, ServeClaim, Replies, LosesReply, key
<1>5. CASE obj' = obj
  BY <1>1, <1>2, <1>4, <1>5 DEF Consistent, ConsistentNext, Inherited
<1>6. CASE obj' = notReady([obj EXCEPT !.nodeID = n, !.claimKey = key])
  <2>1. /\ obj'.finalizer /\ obj'.nodeID = n /\ obj'.claimKey = key
        /\ obj'.providerID = None /\ ~obj'.provisioned
    BY <1>1, <1>2, <1>3, <1>6 DEF Object
  <2>2. claim'[n] = key
    BY <1>4 DEF TypeOK, FleetTypeOK
  <2> QED BY <1>3, <1>4, <2>1, <2>2 DEF ConsistentNext, claimKeyFor
<1> QED BY <1>4, <1>5, <1>6

\* A delete pass drops the finalizer only where its node is let go.
LEMMA DeleteLetsGo ==
  ASSUME TypeOK, TypeOK', ClaimInv, ConfigInv, FreshInv, [OpenNext]_vars, reconcileDelete
  PROVE  /\ ConsistentNext(who, obj')
         /\ ~obj'.finalizer =>
             \/ base.nodeID = None \/ ~HeldBy(base.nodeID, who)' \/ outcome' = "unreachable"
             \/ ~Exists(base.nodeID)' \/ LegacyMoved(who, base)
             \/ outcome' = "missing" /\ "stray404" \in Mishaps
<1>1. /\ obj \in Object /\ who \in Machines /\ obj.finalizer /\ pc = "delete"
      /\ obj.nodeID = base.nodeID /\ obj.claimKey = base.claimKey /\ obj.uid = base.uid
      /\ UNCHANGED <<who, base, phase>>
      /\ obj' = obj \/ obj' = [obj EXCEPT !.finalizer = FALSE]
  BY FreshPass, DeleteFrame DEF ConfigInv
<1>2. /\ Consistent(who, obj) /\ obj.providerID \in {None, obj.nodeID}
      /\ who \in Legacy => Adopting(obj)
  BY <1>1, OwnProvider DEF FreshInv, ConfigInv
<1>3. ~ClaimNode
  BY <1>1 DEF ClaimNode, Claiming
<1>4. ConsistentNext(who, obj)
  BY <1>1, <1>2, <1>3, ConsistentStays DEF FreshInv
<1>5. /\ obj'.nodeID = obj.nodeID /\ obj'.claimKey = obj.claimKey /\ obj'.uid = obj.uid
      /\ obj'.providerID = obj.providerID /\ obj'.applied = obj.applied
      /\ obj'.rebootAt = obj.rebootAt /\ obj'.failure = obj.failure
      /\ obj'.provisioned = obj.provisioned
  BY <1>1 DEF Object
<1>6. ConsistentNext(who, obj')
  BY <1>4, <1>5 DEF ConsistentNext, claimKeyFor, LegacyMoved
<1>7. CASE DeleteUnclaimed \/ DeleteUnreachable
  BY <1>1, <1>6, <1>7 DEF DeleteUnclaimed, DeleteUnreachable, DropFinalizer
<1>8. CASE ReleaseNode
  <2>1. claim' = [claim EXCEPT ![obj.nodeID] = None] /\ obj.nodeID \in Nodes
    BY <1>1, <1>8 DEF ReleaseNode, ServeRelease, Object, MaybeNode
  <2>2. claim'[base'.nodeID] = None
    BY <1>1, <2>1 DEF TypeOK, FleetTypeOK
  <2> QED BY <1>6, <2>2 DEF HeldBy
<1>9. CASE ReleaseMismatch
  <2>1. /\ claim[obj.nodeID] \notin {claimKeyFor(who, obj), None} /\ obj.nodeID # None
        /\ UNCHANGED claim
    BY <1>9 DEF ReleaseMismatch, Mismatched, fleetVars
  <2>2. ~HeldBy(obj.nodeID, who) \/ LegacyMoved(who, obj)
    BY <1>2, <2>1 DEF Consistent
  <2>3. ~HeldBy(base.nodeID, who)' \/ LegacyMoved(who, base)
    BY <1>1, <2>1, <2>2 DEF HeldBy, LegacyMoved
  <2> QED BY <1>6, <2>3
<1>10. CASE ReleaseMissing
  <2>1. /\ phase[obj.nodeID] = "Missing" \/ "stray404" \in Mishaps
        /\ outcome' = "missing"
    BY <1>10 DEF ReleaseMissing, NotFound, Mishap, Exists, DropFinalizer
  <2>2. ~Exists(base.nodeID)' \/ (outcome' = "missing" /\ "stray404" \in Mishaps)
    BY <1>1, <2>1 DEF Exists
  <2> QED BY <1>6, <2>2
<1>11. CASE DeleteError
  BY <1>1, <1>6, <1>11 DEF DeleteError, Fails, Return
<1> QED BY <1>7, <1>8, <1>9, <1>10, <1>11 DEF reconcileDelete

-----------------------------------------------------------------------------
(* The invariant *)

\* A fresh pass's metadata write leaves exactly the object it returned.
LEMMA PatchWritesAll ==
  ASSUME TypeOK, AsRead, pc = "patch", store[who] # None
  PROVE  patched \in Object /\ SameMeta(patched, obj)
<1>1. SameMeta(store[who], base)
  BY DEF AsRead
<1>2. patched \in Object /\ obj \in Object /\ base \in Object /\ store[who] \in Object
  BY PatchFields
<1> QED BY <1>1, <1>2 DEF SameMeta, patched, merged, Object

\* The stored object of another machine, or of one that is not written to.
LEMMA StoredStays ==
  ASSUME TypeOK, TypeOK', ClaimInv, ConfigInv, FreshInv, [OpenNext]_vars, NEW m \in Machines,
         store[m] # None
  PROVE  ConsistentNext(m, store[m])
<1>1. /\ store[m] \in Object /\ Consistent(m, store[m])
      /\ store[m].providerID \in {None, store[m].nodeID}
      /\ m \in Legacy => Adopting(store[m])
  BY DEF TypeOK, FreshInv, ConfigInv, RecordInv, Witnessed, Adopting
<1>2. ASSUME ClaimNode, who = m PROVE store[m].nodeID = None
  <2>1. pc = "normal" /\ obj.nodeID = None
    BY <1>2 DEF ClaimNode, Claiming
  <2>2. base.nodeID = None
    BY <2>1, FreshPass DEF ConfigInv
  <2> QED BY <1>2, <2>1, <2>2 DEF FreshInv, AsRead, SameMeta
<1> QED BY <1>1, <1>2, ConsistentStays DEF FreshInv

\* A legacy machine's pass works on the node that its stored object names.
LEMMA LegacyNode ==
  ASSUME TypeOK, ConfigInv, FreshInv, pc # "idle", who \in Legacy, store[who] # None
  PROVE  obj.nodeID = store[who].nodeID
<1>1. obj.nodeID = base.nodeID
  BY OwnProvider DEF ConfigInv
<1>2. store[who].nodeID \in {base.nodeID, obj.nodeID}
  BY DEF FreshInv, AsRead, SameMeta
<1> QED BY <1>1, <1>2

\* Every stored object stays consistent, and keeps its finalizer while it names a
\* node.
LEMMA StoreConsistent ==
  ASSUME TypeOK, TypeOK', ClaimInv, ConfigInv, FreshInv, [OpenNext]_vars,
         NEW m \in Machines, store'[m] # None
  PROVE  ConsistentNext(m, store'[m]) /\ (store'[m].nodeID # None => store'[m].finalizer)
<1> DEFINE p == store'[m]
<1>1. CASE store'[m] = store[m]
  BY <1>1, StoredStays DEF FreshInv
<1>2. ASSUME store[m] # None, p.nodeID = store[m].nodeID, p.claimKey = store[m].claimKey,
             p.providerID = store[m].providerID, p.applied = store[m].applied,
             p.rebootAt = store[m].rebootAt, p.finalizer = store[m].finalizer,
             p.uid = store[m].uid \/ p.uid > 0,
             p.failure /\ "stray404" \notin Mishaps =>
                ~p.provisioned \/ InheritedNext(m, p.nodeID)
      PROVE  ConsistentNext(m, p) /\ (p.nodeID # None => p.finalizer)
  <2>1. ConsistentNext(m, store[m]) /\ (store[m].nodeID # None => store[m].finalizer)
    BY <1>2, StoredStays DEF FreshInv
  <2> QED BY <1>2, <2>1 DEF ConsistentNext, claimKeyFor, LegacyMoved
<1>3. CASE PatchStatus /\ store'[m] # store[m]
  <2>1. /\ who = m /\ store[m] # None /\ store[m] \in Object /\ pc = "patchStatus"
        /\ store'[m] = WithStatus(store[m], merged("provisioned"), merged("failure"))
    BY <1>3 DEF PatchStatus, TypeOK
  <2>2. merged("provisioned") = obj.provisioned /\ merged("failure") = obj.failure
    BY <2>1 DEF FreshInv, AsRead, merged
  <2>3. /\ p.nodeID = store[m].nodeID /\ p.claimKey = store[m].claimKey
        /\ p.providerID = store[m].providerID /\ p.applied = store[m].applied
        /\ p.rebootAt = store[m].rebootAt /\ p.finalizer = store[m].finalizer
        /\ p.uid = store[m].uid /\ p.provisioned = obj.provisioned /\ p.failure = obj.failure
    BY <2>1, <2>2 DEF WithStatus, Object
  <2>4. Consistent(m, obj) /\ UNCHANGED cmds
    BY <1>3, <2>1 DEF FreshInv, PatchStatus, worldVars, fleetVars
  <2>5. m \in Legacy => obj.nodeID = p.nodeID
    BY <2>1, <2>3, LegacyNode
  <2> QED BY <1>2, <2>1, <2>3, <2>4, <2>5 DEF Consistent, Inherited, InheritedNext
<1>4. ASSUME NEW k \in Machines, UserDelete(k), store'[m] # store[m]
      PROVE  ConsistentNext(m, p) /\ (p.nodeID # None => p.finalizer)
  <2>1. /\ store[m] # None /\ store[m] \in Object
        /\ p = [store[m] EXCEPT !.deleting = TRUE]
    BY <1>4 DEF UserDelete, Stored, TypeOK
  <2>2. /\ p.nodeID = store[m].nodeID /\ p.claimKey = store[m].claimKey
        /\ p.providerID = store[m].providerID /\ p.applied = store[m].applied
        /\ p.rebootAt = store[m].rebootAt /\ p.finalizer = store[m].finalizer
        /\ p.uid = store[m].uid
        /\ p.provisioned = store[m].provisioned /\ p.failure = store[m].failure
    BY <2>1 DEF Object
  <2>3. Consistent(m, store[m]) /\ UNCHANGED cmds
    BY <1>4, <2>1 DEF FreshInv, UserDelete, worldVars, fleetVars
  <2> QED BY <1>2, <2>1, <2>2, <2>3 DEF Consistent, Inherited, InheritedNext
<1>5. ASSUME NEW k \in Machines, Move(k), store'[m] # store[m]
      PROVE  ConsistentNext(m, p) /\ (p.nodeID # None => p.finalizer)
  <2>1. /\ store[m] # None /\ store[m] \in Object
        /\ p = WithStatus([store[m] EXCEPT !.uid = @ + 1], FALSE, FALSE)
    BY <1>5 DEF Move, TypeOK
  <2>2. /\ p.nodeID = store[m].nodeID /\ p.claimKey = store[m].claimKey
        /\ p.providerID = store[m].providerID /\ p.applied = store[m].applied
        /\ p.rebootAt = store[m].rebootAt /\ p.finalizer = store[m].finalizer
        /\ p.uid = store[m].uid + 1 /\ ~p.provisioned
    BY <2>1 DEF WithStatus, Object
  <2>3. p.uid > 0
    <3>1. store[m].uid \in Nat
      BY <2>1 DEF Object
    <3> QED BY <2>2, <3>1
  <2> QED BY <1>2, <2>1, <2>2, <2>3
<1>6. CASE PatchObject /\ store'[m] # store[m]
  <2>1. /\ who = m /\ store[m] # None /\ pc = "patch"
        /\ store'[m] = Stored(patched) /\ UNCHANGED <<claim, heartbeat, cmds>>
    BY <1>6 DEF PatchObject, TypeOK, worldVars, fleetVars
  <2>2. p = patched /\ ~(p.deleting /\ ~p.finalizer)
    BY <2>1 DEF Stored
  <2>3. /\ SameMeta(p, obj) /\ p.uid = base.uid /\ obj.uid = base.uid
        /\ p.deleting = store[m].deleting
        /\ p.provisioned = store[m].provisioned /\ p.failure = store[m].failure
    BY <2>1, <2>2, PatchWritesAll, PatchFields DEF FreshInv, AsRead, ConfigInv, PassInv
  <2>4. Consistent(m, obj) /\ Consistent(m, store[m])
    BY <2>1 DEF FreshInv
  <2>5. ConsistentNext(m, p)
    <3>1. m \in Legacy => p.nodeID = store[m].nodeID
      BY <2>1, <2>3, LegacyNode DEF SameMeta
    <3> QED BY <2>1, <2>3, <2>4, <3>1
        DEF Consistent, ConsistentNext, SameMeta, claimKeyFor, LegacyMoved, HeldBy,
            Inherited, InheritedNext
  <2>6. p.finalizer
    <3> SUFFICES ASSUME ~p.finalizer PROVE FALSE
      OBVIOUS
    <3>1. ~obj.finalizer
      BY <2>3 DEF SameMeta
    <3>2. store[m].deleting
      BY <2>1, <3>1 DEF FreshInv, AsRead
    <3> QED BY <2>2, <2>3, <3>2
  <2> QED BY <2>5, <2>6
<1> QED BY <1>1, <1>3, <1>4, <1>5, <1>6, StoreSteps

\* A fresh read stays one: nobody but the pass writes what it may write.
LEMMA StaysAsRead ==
  ASSUME "stale" \notin Mishaps, TypeOK, ConfigInv, AsRead, [OpenNext]_vars
  PROVE  AsRead'
<1>1. CASE UNCHANGED <<store, who, base, obj, pc>>
  BY <1>1 DEF AsRead, SameMeta
<1>2. CASE reconcileNormal \/ reconcileDelete
  BY <1>2, NormalFrame, DeleteFrame DEF AsRead, SameMeta
<1>3. CASE PatchStatus \/ Interrupted
  BY <1>3 DEF PatchStatus, Interrupted, Restart, EndPass, AsRead
<1>4. CASE PatchObject
  <2>0. PICK w \in Machines : w = who
    BY <1>4 DEF PatchObject, TypeOK
  <2>1. /\ pc = "patch" /\ pc' = "patchStatus" /\ UNCHANGED <<who, base, obj>>
    BY <1>4 DEF PatchObject
  <2>2. CASE store'[w] = store[w]
    BY <2>0, <2>1, <2>2 DEF AsRead, SameMeta
  <2>3. CASE store'[w] # store[w] /\ store'[w] # None
    <3>1. store[w] # None /\ store'[w] = patched
      BY <1>4, <2>0, <2>3 DEF PatchObject, Stored, TypeOK
    <3>2. /\ SameMeta(patched, obj) /\ patched.uid = store[w].uid
          /\ patched.deleting = store[w].deleting
          /\ patched.provisioned = store[w].provisioned /\ patched.failure = store[w].failure
      BY <2>0, <2>1, <3>1, PatchWritesAll, PatchFields
    <3>3. SameMeta(store'[w], obj')
      BY <2>1, <3>1, <3>2 DEF SameMeta
    <3>4. /\ store'[w].uid = base'.uid
          /\ base'.deleting => store'[w].deleting
          /\ store'[w].provisioned = base'.provisioned /\ store'[w].failure = base'.failure
      BY <2>0, <2>1, <3>1, <3>2 DEF AsRead
    <3> QED BY <2>0, <2>1, <3>3, <3>4 DEF AsRead, SameMeta
  <2> QED BY <2>0, <2>1, <2>2, <2>3 DEF AsRead
<1>5. ASSUME NEW m \in Machines, Reconcile(m) PROVE AsRead'
  <2>1. cache[m] = store[m] /\ who' = m /\ base' = store[m] /\ UNCHANGED store
    BY <1>5 DEF Reconcile, Mishap
  <2> QED BY <2>1 DEF AsRead, SameMeta
<1>6. ASSUME NEW m \in Machines, UserDelete(m) PROVE AsRead'
  <2>1. UNCHANGED <<who, base, obj, pc>>
    BY <1>6 DEF UserDelete, passVars
  <2> SUFFICES ASSUME pc # "idle", store'[who] # None PROVE AsRead'
    BY <2>1 DEF AsRead
  <2>2. who \in Machines
    BY DEF TypeOK
  <2>3. CASE who # m
    BY <1>6, <2>1, <2>2, <2>3 DEF UserDelete, AsRead, SameMeta, TypeOK
  <2>4. CASE who = m
    <3>1. /\ store[m] # None /\ store[m] \in Object
          /\ store'[m] = [store[m] EXCEPT !.deleting = TRUE]
      BY <1>6, <2>4 DEF UserDelete, Stored, TypeOK
    <3>2. /\ store'[m].deleting /\ store'[m].uid = store[m].uid
          /\ store'[m].provisioned = store[m].provisioned
          /\ store'[m].failure = store[m].failure
          /\ SameMeta(store'[m], store[m])
      BY <3>1 DEF SameMeta, Object
    <3> QED BY <2>1, <2>4, <3>1, <3>2 DEF AsRead, SameMeta
  <2> QED BY <2>3, <2>4
<1>7. ASSUME NEW m \in Machines, Move(m) PROVE AsRead'
  BY <1>7 DEF Move, passVars, AsRead
<1>8. ASSUME NEW m \in Machines, Sync(m) PROVE AsRead'
  BY <1>1, <1>8 DEF Sync, passVars
<1>9. CASE \/ \E n \in Nodes : NodeStep(n) /\ UNCHANGED <<apiVars, passVars>>
           \/ UNCHANGED <<store, cache, passVars, fleetVars, tampered>>
  BY <1>1, <1>9 DEF apiVars, passVars
<1> QED BY <1>2, <1>3, <1>4, <1>5, <1>6, <1>7, <1>8, <1>9, StepKinds

\* The object of a pass stays consistent, and without a finalizer only where the
\* node was let go.
LEMMA PassConsistent ==
  ASSUME "stale" \notin Mishaps, TypeOK, TypeOK', ClaimInv, ConfigInv, FreshInv,
         [OpenNext]_vars, pc' # "idle"
  PROVE  /\ Consistent(who, obj)'
         /\ pc' = "readReboot" => obj'.providerID = None
         /\ ~obj'.finalizer =>
             base'.deleting /\ pc' \in {"patch", "patchStatus"} /\ LetGo(who, base)'
<1>1. ASSUME NEW w \in Machines, who' = w, ConsistentNext(w, obj') PROVE Consistent(who, obj)'
  BY <1>1 DEF ConsistentNext, Consistent, HeldBy, LegacyMoved, claimKeyFor, Inherited,
              InheritedNext
<1>2. CASE reconcileNormal
  <2>1. /\ ConsistentNext(who, obj') /\ obj'.finalizer
        /\ pc' = "readReboot" => obj'.providerID = None
    BY <1>2, NormalConsistent, ClaimConsistent
  <2>2. who' = who /\ who \in Machines
    BY <1>2, NormalFrame DEF TypeOK
  <2> QED BY <1>1, <2>1, <2>2
<1>3. CASE reconcileDelete
  <2>1. /\ ConsistentNext(who, obj')
        /\ ~obj'.finalizer =>
             \/ base.nodeID = None \/ ~HeldBy(base.nodeID, who)' \/ outcome' = "unreachable"
             \/ ~Exists(base.nodeID)' \/ LegacyMoved(who, base)
             \/ outcome' = "missing" /\ "stray404" \in Mishaps
    BY <1>3, DeleteLetsGo
  <2>2. /\ who' = who /\ who \in Machines /\ pc = "delete" /\ pc' = "patch" /\ base' = base
        /\ base.deleting
    BY <1>3, DeleteFrame DEF TypeOK, ClaimInv
  <2>3. ~obj'.finalizer => LetGo(who, base)'
    BY <2>1, <2>2 DEF LetGo, LegacyMoved
  <2> QED BY <1>1, <2>1, <2>2, <2>3
<1>4. ASSUME NEW m \in Machines, Reconcile(m)
      PROVE  /\ Consistent(who, obj)' /\ obj'.finalizer /\ pc' # "readReboot"
  <2>1. /\ store[m] # None /\ store[m] \in Object /\ who' = m
        /\ obj' = [store[m] EXCEPT !.finalizer = TRUE] /\ pc' # "readReboot"
    BY <1>4 DEF Reconcile, Mishap, TypeOK
  <2>2. /\ obj'.nodeID = store[m].nodeID /\ obj'.claimKey = store[m].claimKey
        /\ obj'.uid = store[m].uid /\ obj'.providerID = store[m].providerID
        /\ obj'.applied = store[m].applied /\ obj'.rebootAt = store[m].rebootAt
        /\ obj'.failure = store[m].failure /\ obj'.provisioned = store[m].provisioned
        /\ obj'.finalizer
    BY <2>1 DEF Object
  <2>3. ConsistentNext(m, store[m])
    BY <2>1, StoredStays
  <2>4. ConsistentNext(m, obj')
    BY <2>2, <2>3 DEF ConsistentNext, claimKeyFor, LegacyMoved
  <2> QED BY <1>1, <2>1, <2>2, <2>4
<1>5. ASSUME UNCHANGED <<who, base, obj, outcome>>, ~ClaimNode, pc # "idle",
             pc' = pc \/ (pc = "patch" /\ pc' = "patchStatus")
      PROVE  /\ Consistent(who, obj)'
             /\ pc' = "readReboot" => obj'.providerID = None
             /\ ~obj'.finalizer =>
                 base'.deleting /\ pc' \in {"patch", "patchStatus"} /\ LetGo(who, base)'
  <2>1. /\ obj \in Object /\ who \in Machines /\ obj.providerID \in {None, obj.nodeID}
        /\ Consistent(who, obj) /\ (who \in Legacy => Adopting(obj))
    BY <1>5, OwnProvider DEF ConfigInv, FreshInv
  <2>2. ConsistentNext(who, obj)
    BY <1>5, <2>1, ConsistentStays DEF FreshInv
  <2>3. Consistent(who, obj)'
    BY <1>1, <1>5, <2>1, <2>2
  <2>4. base \in Object
    BY <1>5 DEF TypeOK
  <2>5. ASSUME LetGo(who, base) PROVE LetGo(who, base)'
    <3>1. CASE \/ base.nodeID = None \/ outcome = "unreachable" \/ LegacyMoved(who, base)
               \/ outcome = "missing" /\ "stray404" \in Mishaps
      BY <1>5, <3>1 DEF LetGo, LegacyMoved
    <3>2. CASE base.nodeID # None /\ ~HeldBy(base.nodeID, who)
      <4>1. base.nodeID \in Nodes
        BY <2>4, <3>2 DEF Object, MaybeNode
      <4>2. ~(claim'[base.nodeID] # None /\ claim'[base.nodeID][1] = who)
        BY <1>5, <2>1, <3>2, <4>1, ClaimsKept
      <4>3. ~HeldBy(base.nodeID, who)'
        BY <1>5, <4>2 DEF HeldBy
      <4> QED BY <4>3 DEF LetGo
    <3>3. CASE base.nodeID # None /\ ~Exists(base.nodeID)
      <4>1. base.nodeID \in Nodes
        BY <2>4, <3>3 DEF Object, MaybeNode
      <4>2. \A n \in Nodes : phase[n] = "Missing" => phase'[n] = "Missing"
        BY <2>1, FactsStay DEF Exists
      <4>3. ~Exists(base.nodeID)'
        BY <1>5, <3>3, <4>1, <4>2 DEF Exists
      <4> QED BY <4>3 DEF LetGo
    <3> QED BY <2>5, <3>1, <3>2, <3>3 DEF LetGo
  <2> QED BY <1>5, <2>3, <2>5 DEF FreshInv
<1>6. CASE PatchObject
  <2>1. ~ClaimNode
    BY <1>6 DEF PatchObject, ClaimNode, Claiming
  <2> QED BY <1>5, <1>6, <2>1 DEF PatchObject
<1>7. CASE \/ \E m \in Machines : Sync(m) \/ UserDelete(m) \/ Move(m)
           \/ \E n \in Nodes : NodeStep(n) /\ UNCHANGED <<apiVars, passVars>>
           \/ UNCHANGED <<store, cache, passVars, fleetVars, tampered>>
  <2>1. UNCHANGED <<pc, who, base, obj, outcome>>
    BY <1>7 DEF Sync, UserDelete, Move, passVars
  <2>2. ~ClaimNode
    BY <2>1, NormalFrame DEF reconcileNormal, ClaimNode, Claiming
  <2> QED BY <1>5, <2>1, <2>2
<1>8. CASE PatchStatus \/ Interrupted
  BY <1>8 DEF PatchStatus, Interrupted, Restart, EndPass
<1> QED BY <1>2, <1>3, <1>4, <1>6, <1>7, <1>8, StepKinds

\* Initially everything is consistent: only legacy machines name a node, under the
\* key of their first UID.
LEMMA FreshInit == ASSUME CoreInit PROVE FreshInv
<1>1. PICK held \in [Legacy -> Nodes], left \in [Legacy -> Left] : Adopts(held, left)
  BY Adopted
<1>2. pc = "idle" /\ now = 0 /\ heartbeat = [n \in Nodes |-> 0]
  BY DEF CoreInit
<1>3. ASSUME NEW m \in Machines
      PROVE  Consistent(m, store[m]) /\ (store[m].nodeID # None => store[m].finalizer)
  <2>1. CASE m \in Legacy
    <3>1. PICK n \in Nodes, stage \in Left : n = held[m] /\ stage = left[m]
      BY <2>1
    <3>2. store[m] = Claimed(n, stage) /\ claim[n] = <<m, 0>>
      BY <1>1, <2>1, <3>1 DEF Adopts
    <3>3. /\ store[m].nodeID = n /\ store[m].finalizer /\ store[m].claimKey = None
          /\ store[m].uid = 0 /\ store[m].providerID = None /\ ~store[m].provisioned
      BY <3>2, ClaimedFacts
    <3> QED BY <2>1, <3>2, <3>3 DEF Consistent, claimKeyFor
  <2>2. CASE m \notin Legacy
    BY <1>1, <2>2, NewFacts DEF Adopts, Consistent
  <2> QED BY <2>1, <2>2
<1>4. \A n \in Nodes : heartbeat[n] <= now
  BY <1>2
<1> QED BY <1>2, <1>3, <1>4 DEF FreshInv, AsRead

\* Every step preserves it.
LEMMA FreshNext ==
  ASSUME "stale" \notin Mishaps, TypeOK, TypeOK', ClaimInv, ConfigInv, FreshInv, [OpenNext]_vars
  PROVE  FreshInv'
<1>1. AsRead'
  BY StaysAsRead DEF FreshInv
<1>2. \A n \in Nodes : heartbeat'[n] <= now'
  BY BeatsGrow DEF FreshInv
<1>3. ASSUME NEW m \in Machines, store'[m] # None
      PROVE  Consistent(m, store[m])' /\ (store'[m].nodeID # None => store'[m].finalizer)
  BY <1>3, StoreConsistent
  DEF Consistent, ConsistentNext, HeldBy, claimKeyFor, LegacyMoved, Inherited, InheritedNext
<1> QED BY <1>1, <1>2, <1>3, PassConsistent DEF FreshInv

\* In any manager, fresh reads keep views and passes consistent.
LEMMA OpenFresh == ASSUME "stale" \notin Mishaps PROVE OpenSpec => []FreshInv
<1>1. CoreInit => FreshInv
  BY FreshInit
<1>2. TypeOK /\ TypeOK' /\ ClaimInv /\ ConfigInv /\ FreshInv /\ [OpenNext]_vars => FreshInv'
  BY FreshNext
<1> QED BY <1>1, <1>2, OpenTypes, OpenClaims, OpenRecords, PTL DEF OpenSpec

\* With every pass reading its own writes, views and passes stay consistent, for
\* every set of machines and nodes and any number of the other mishaps.
THEOREM FreshReads == ASSUME "stale" \notin Mishaps PROVE Spec => []FreshInv
BY SpecIsOpen, OpenFresh, PTL

-----------------------------------------------------------------------------
(* The theorems *)

\* A failureReason is there only for a node that is gone, or from an earlier build,
\* stale reads or not, as long as every 404 is AuroraBoot's own.
THEOREM FailedNodesAreGone ==
  ASSUME "stray404" \notin Mishaps
  PROVE  Spec => [](\A m \in Machines :
                      Live(m) /\ store[m].failure =>
                        ~Exists(store[m].nodeID) \/ Inherited(m, store[m].nodeID))
<1>1. ConfigInv => \A m \in Machines :
                     Live(m) /\ store[m].failure =>
                       ~Exists(store[m].nodeID) \/ Inherited(m, store[m].nodeID)
  BY DEF ConfigInv, RecordInv, Witnessed, Live
<1> QED BY <1>1, RecordsWitnessed, PTL

\* With fresh reads, the node of a failed machine is gone and the machine is not
\* reported provisioned, unless the failure is an earlier build's.
THEOREM FailuresAreReal ==
  ASSUME "stale" \notin Mishaps, "stray404" \notin Mishaps
  PROVE  Spec => []FailureMeansGone
<1>1. ConfigInv /\ FreshInv => FailureMeansGone
  BY DEF ConfigInv, RecordInv, Witnessed, Live, FreshInv, Consistent, FailureMeansGone
<1> QED BY <1>1, RecordsWitnessed, FreshReads, PTL

\* In any manager, a machine that reads its own writes leaves its node alone.
LEMMA OpenSettled ==
  ASSUME "stale" \notin Mishaps
  PROVE  OpenSpec => SettledIsLeftAlone
<1> DEFINE A == \A n \in Nodes :
                  Len(cmds'[n]) > Len(cmds[n]) =>
                    LET m == cmds'[n][Len(cmds'[n])].by
                    IN  store[m] = None \/ store[m].providerID = None
<1>1. ASSUME TypeOK, ClaimInv, ConfigInv, FreshInv, [OpenNext]_vars PROVE A
  <2>0. FleetTypeOK /\ \A n \in Nodes : Len(cmds[n]) \in Nat
    BY <1>1 DEF TypeOK, FleetTypeOK
  <2>1. CASE UNCHANGED cmds
    BY <2>0, <2>1
  <2>2. ASSUME NEW k \in Nodes, NodeStep(k), ~UNCHANGED cmds PROVE A
    <3>1. PICK i \in DOMAIN cmds[k], p \in CommandPhases :
            cmds' = [cmds EXCEPT ![k][i].phase = p]
      BY <2>2, NodeCommands
    <3>2. \A n \in Nodes : Len(cmds'[n]) = Len(cmds[n])
      BY <2>0, <3>1, SetPhaseType
    <3> QED BY <2>0, <3>2
  <2>3. CASE ApplyCloudConfig \/ RequestReboot
    <3> DEFINE n == obj.nodeID
    <3>1. /\ n \in Nodes /\ who \in Machines /\ pc = "normal"
          /\ ServeCommand(n, IF ApplyCloudConfig THEN "apply" ELSE "reboot", who)
          /\ ~obj.applied \/ obj.rebootAt = None
      BY <1>1, <2>3, SendFacts DEF ApplyCloudConfig, RequestReboot, Applying, Rebooting
    <3>2. PICK k \in Kinds : ServeCommand(n, k, who)
      BY <3>1 DEF Kinds
    <3>3. store[who] = None \/ store[who].providerID = None
      <4>1. Consistent(who, obj) /\ obj.providerID = base.providerID
        BY <1>1, <3>1, FreshPass DEF FreshInv, ConfigInv
      <4>2. base.providerID = None
        BY <3>1, <4>1 DEF Consistent
      <4> QED BY <1>1, <3>1, <4>2 DEF FreshInv, AsRead, SameMeta
    <3>4. \A x \in Nodes : x # n => cmds'[x] = cmds[x]
      BY <2>0, <3>1, <3>2, ServeCommandFacts
    <3>5. cmds'[n][Len(cmds'[n])].by = who
      <4> DEFINE c == [kind |-> k, by |-> who, phase |-> "Pending", at |-> now]
      <4>1. cmds[n] \in Seq(Command) /\ c \in Command
        BY <2>0, <3>1 DEF FleetTypeOK, Command, CommandPhases
      <4>2. cmds'[n] = Append(cmds[n], c) /\ c.by = who
        BY <2>0, <3>1, <3>2 DEF ServeCommand, FleetTypeOK
      <4> HIDE DEF c
      <4>3. cmds'[n][Len(cmds'[n])] = c
        BY <4>1, <4>2
      <4> QED BY <4>2, <4>3
    <3> QED BY <2>0, <3>3, <3>4, <3>5
  <2> QED BY <1>1, <2>1, <2>2, <2>3, CommandSteps
<1> QED BY <1>1, OpenTypes, OpenClaims, OpenRecords, OpenFresh, PTL
    DEF OpenSpec, SettledIsLeftAlone

\* With fresh reads, no command is queued for a machine that has its providerID.
THEOREM SettledStaysAlone ==
  ASSUME "stale" \notin Mishaps
  PROVE  Spec => SettledIsLeftAlone
BY SpecIsOpen, OpenSettled, PTL

\* In any manager, stale reads or not, passes leave other machines' nodes alone.
LEMMA OpenOwnNode == OpenSpec => ReleasesOwnNode
<1> DEFINE A == \A n \in Nodes :
                  pc' # pc /\ claim[n] # None /\ claim'[n] # claim[n] => HeldBy(n, who)
<1>1. ASSUME TypeOK, ClaimInv, [OpenNext]_vars PROVE A
  <2>1. CASE UNCHANGED claim
    BY <2>1
  <2>2. CASE ClaimNode
    <3>1. PICK k \in Nodes : /\ claim' = [claim EXCEPT ![k] = claimKeyFor(who, obj)]
                             /\ claim[k] \in {claimKeyFor(who, obj), None}
      BY <2>2 DEF ClaimNode, ServeClaim, Claimable
    <3> QED BY <1>1, <3>1 DEF TypeOK, FleetTypeOK
  <2>3. CASE ReleaseNode
    <3>1. /\ pc = "delete"
          /\ claim' = [claim EXCEPT ![obj.nodeID] = None]
          /\ claim[obj.nodeID] \in {claimKeyFor(who, obj), None}
      BY <2>3, DeleteFrame
      DEF reconcileDelete, ReleaseNode, ServeRelease, Releasable
    <3>2. claimKeyFor(who, obj)[1] = who
      BY <1>1, <3>1, GoneAssumption DEF TypeOK, ClaimInv, OwnKey, claimKeyFor
    <3> QED BY <1>1, <3>1, <3>2 DEF HeldBy, TypeOK, FleetTypeOK
  <2>4. CASE UNCHANGED passVars
    BY <2>4 DEF passVars
  <2> QED BY <1>1, <2>1, <2>2, <2>3, <2>4, ClaimSteps
<1> QED BY <1>1, OpenTypes, OpenClaims, PTL DEF OpenSpec, ReleasesOwnNode

\* No pass takes a node from another machine, with any mishaps: not even after an
\* operator released the node behind the provider's back and it was claimed anew.
THEOREM OnlyOwnNodes == Spec => ReleasesOwnNode
BY SpecIsOpen, OpenOwnNode, PTL

\* When an object that recorded a node goes away, one of the branches that let go
\* of nodes has run.
LEMMA GoneStep ==
  ASSUME TypeOK, ClaimInv, ConfigInv, FreshInv, [OpenNext]_vars,
         NEW m \in Machines, store[m] # None, store'[m] = None, store[m].nodeID # None
  PROVE  who = m /\ LetGo(m, store[m])
<1>0. store[m] \in Object /\ store[m].finalizer
  BY DEF TypeOK, FreshInv
<1>1. CASE PatchStatus
  <2>1. /\ who = m
        /\ store'[m] = WithStatus(store[m], merged("provisioned"), merged("failure"))
    BY <1>1 DEF PatchStatus, TypeOK
  <2>2. merged("provisioned") \in BOOLEAN /\ merged("failure") \in BOOLEAN
    BY <1>0, <1>1, <2>1 DEF merged, TypeOK, Object, PatchStatus
  <2> QED BY <1>0, <2>1, <2>2, WithStatusFacts, GoneAssumption
<1>2. ASSUME NEW k \in Machines, UserDelete(k) PROVE FALSE
  <2>1. store'[m] = Stored([store[m] EXCEPT !.deleting = TRUE])
    BY <1>2 DEF UserDelete, TypeOK
  <2>2. /\ [store[m] EXCEPT !.deleting = TRUE] \in Object
        /\ [store[m] EXCEPT !.deleting = TRUE].finalizer
    BY <1>0 DEF Object
  <2> QED BY <2>1, <2>2, GoneAssumption DEF Stored
<1>3. ASSUME NEW k \in Machines, Move(k) PROVE FALSE
  <2> DEFINE o == [store[m] EXCEPT !.uid = @ + 1]
  <2>1. o \in Object
    BY <1>0 DEF Object
  <2>2. store'[m] = WithStatus(o, FALSE, FALSE)
    BY <1>3 DEF Move, TypeOK
  <2> HIDE DEF o
  <2>3. WithStatus(o, FALSE, FALSE) \in Object
    BY <2>1 DEF WithStatus, Object
  <2> QED BY <2>2, <2>3, GoneAssumption
<1>4. CASE PatchObject
  <2>1. who = m /\ pc = "patch" /\ Stored(patched) = None
    BY <1>4 DEF PatchObject, TypeOK
  <2>2. patched \in Object /\ SameMeta(patched, obj)
    BY <2>1, PatchWritesAll DEF FreshInv
  <2>3. ~obj.finalizer
    BY <2>1, <2>2, GoneAssumption DEF Stored, SameMeta
  <2>4. LetGo(who, base) /\ SameMeta(store[m], base) /\ store[m].uid = base.uid
    BY <2>1, <2>3 DEF FreshInv, AsRead
  <2> QED BY <2>1, <2>4 DEF LetGo, SameMeta, LegacyMoved
<1> QED BY <1>1, <1>2, <1>3, <1>4, StoreSteps

\* In any manager, with fresh reads and no stray 404, nodes are given back.
LEMMA OpenGone ==
  ASSUME "stale" \notin Mishaps, "stray404" \notin Mishaps
  PROVE  OpenSpec => GoneMeansReleased
<1> DEFINE A == \A m \in Machines :
                  store[m] # None /\ store'[m] = None /\ store[m].nodeID # None =>
                    \/ ~HeldBy(store[m].nodeID, m)
                    \/ outcome = "unreachable"
                    \/ ~Exists(store[m].nodeID)
                    \/ LegacyMoved(m, store[m])
<1>1. ASSUME TypeOK, ClaimInv, ConfigInv, FreshInv, [OpenNext]_vars PROVE A
  BY <1>1, GoneStep DEF LetGo
<1> QED BY <1>1, OpenTypes, OpenClaims, OpenRecords, OpenFresh, PTL
    DEF OpenSpec, GoneMeansReleased

\* With fresh reads and no stray 404, an object that goes away has given its node
\* back, or one of reconcileDelete's logged exceptions applies.
THEOREM GoneIsReleased ==
  ASSUME "stale" \notin Mishaps, "stray404" \notin Mishaps
  PROVE  Spec => GoneMeansReleased
BY SpecIsOpen, OpenGone, PTL

-----------------------------------------------------------------------------
(* Refused releases *)

\* The mishaps that can make a pass repeat a release: a read that misses it, a
\* reply, a write or a pass that is lost after it.
Repeats == {"stale", "lost", "patch", "crash"}

\* Where no release is repeated, a machine holds its node to the end.
LEMMA HandNext ==
  ASSUME Mishaps \cap Repeats = {}, TypeOK, TypeOK', ClaimInv, ConfigInv, FreshInv, HandInv,
         [OpenNext]_vars
  PROVE  HandInv'
<1>0. "stale" \notin Mishaps /\ "lost" \notin Mishaps /\ "patch" \notin Mishaps
      /\ "crash" \notin Mishaps
  BY DEF Repeats
\* The claim of a machine that does not release in this step.
<1>1. ASSUME NEW m \in Machines, NEW n \in Nodes, n \in tampered \/ HeldBy(n, m),
             ~(ReleaseNode /\ who = m)
      PROVE  n \in tampered' \/ (claim'[n] # None /\ claim'[n][1] = m)
  <2>1. CASE UNCHANGED <<claim, tampered>>
    BY <1>1, <2>1 DEF HeldBy
  <2>2. CASE ClaimNode
    <3>1. UNCHANGED tampered /\ pc = "normal"
      BY <2>2, NormalFrame DEF reconcileNormal, ClaimNode, Claiming
    <3>2. PICK k \in Nodes : /\ claim' = [claim EXCEPT ![k] = claimKeyFor(who, obj)]
                             /\ claim[k] \in {claimKeyFor(who, obj), None}
      BY <2>2 DEF ClaimNode, ServeClaim, Claimable
    <3> QED BY <1>1, <3>1, <3>2 DEF HeldBy, TypeOK, FleetTypeOK
  <2>3. CASE ReleaseNode
    <3>1. UNCHANGED tampered /\ pc = "delete" /\ who # m
      BY <1>1, <2>3, DeleteFrame DEF reconcileDelete
    <3>2. /\ claim' = [claim EXCEPT ![obj.nodeID] = None]
          /\ claim[obj.nodeID] \in {claimKeyFor(who, obj), None}
      BY <2>3 DEF ReleaseNode, ServeRelease, Releasable
    <3>3. claimKeyFor(who, obj)[1] = who
      BY <3>1, GoneAssumption DEF TypeOK, ClaimInv, OwnKey, claimKeyFor
    <3> QED BY <1>1, <3>1, <3>2, <3>3 DEF HeldBy, TypeOK, FleetTypeOK
  <2>4. CASE \E k \in Nodes : OperatorRelease(k)
    BY <1>1, <2>4 DEF OperatorRelease, HeldBy, TypeOK, FleetTypeOK
  <2> QED BY <2>1, <2>2, <2>3, <2>4, ClaimSteps
<1>2. ASSUME NEW m \in Machines, store[m] # None, store[m].nodeID # None,
             ~PatchObject, ~PatchStatus
      PROVE  \/ store[m].nodeID \in tampered'
             \/ claim'[store[m].nodeID] # None /\ claim'[store[m].nodeID][1] = m
             \/ who' = m /\ pc' = "patch" /\ ~obj'.finalizer
  <2>1. store[m].nodeID \in Nodes
    BY <1>2 DEF TypeOK, Object, MaybeNode
  <2>2. CASE ReleaseNode /\ who = m
    <3>1. DropFinalizer("released") /\ pc = "delete"
      BY <1>0, <2>2 DEF ReleaseNode, LosesReply, Mishap
    <3>2. obj \in Object
      BY <3>1 DEF TypeOK
    <3>3. ~obj'.finalizer /\ pc' = "patch" /\ who' = m
      BY <2>2, <3>1, <3>2 DEF DropFinalizer, Return, Object
    <3> QED BY <3>3
  <2>3. CASE store[m].nodeID \in tampered \/ HeldBy(store[m].nodeID, m)
    BY <1>1, <2>1, <2>2, <2>3
  <2>4. CASE who = m /\ pc = "patch" /\ ~obj.finalizer
    <3>1. ~reconcileNormal /\ ~reconcileDelete
      BY <2>4, NormalFrame, DeleteFrame
    <3>2. UNCHANGED <<who, pc, obj>>
      BY <1>0, <1>2, <2>4, <3>1, StepKinds
      DEF Interrupted, Mishap, Reconcile, Sync, UserDelete, Move, passVars
    <3> QED BY <2>4, <3>2
  <2> QED BY <1>2, <2>3, <2>4 DEF HandInv
\* A node that a step puts into a stored object.
<1>3. ASSUME NEW m \in Machines, store'[m] # None, store'[m].nodeID # None
      PROVE  \/ store'[m].nodeID \in tampered' \/ HeldBy(store[m].nodeID, m)'
             \/ who' = m /\ pc' = "patch" /\ ~obj'.finalizer
  <2>1. CASE UNCHANGED store /\ ~PatchObject /\ ~PatchStatus
    BY <1>2, <1>3, <2>1 DEF HeldBy
  <2>2. CASE \E k \in Machines : UserDelete(k) \/ Move(k)
    <3>1. store[m] # None
      BY <1>3, <2>2 DEF UserDelete, Move, TypeOK
    <3>2. store'[m].nodeID = store[m].nodeID
      BY <1>3, <2>2, <3>1, StoreFacts
    <3>3. ~PatchObject /\ ~PatchStatus
      BY <2>2 DEF UserDelete, Move, PatchObject, PatchStatus, EndPass, passVars
    <3> QED BY <1>2, <1>3, <3>1, <3>2, <3>3 DEF HeldBy
  <2>3. CASE PatchStatus
    <3>1. store[m] # None /\ UNCHANGED <<claim, tampered>> /\ pc = "patchStatus"
      BY <1>3, <2>3 DEF PatchStatus, worldVars, fleetVars, TypeOK
    <3>2. store'[m].nodeID = store[m].nodeID
      BY <1>3, <2>3, <3>1, StoreFacts
    <3> QED BY <1>3, <3>1, <3>2 DEF HandInv, HeldBy
  <2>4. CASE PatchObject
    <3>1. /\ pc = "patch" /\ UNCHANGED <<claim, tampered>> /\ who \in Machines
          /\ m # who => store'[m] = store[m]
          /\ store[m] # None
      BY <1>3, <2>4 DEF PatchObject, worldVars, fleetVars, TypeOK
    <3>2. CASE m # who
      BY <1>3, <3>1, <3>2 DEF HandInv, HeldBy
    <3>3. CASE m = who /\ ~obj.finalizer
      <4>1. base.deleting /\ SameMeta(store[m], base) /\ store[m].deleting
        BY <3>1, <3>3 DEF FreshInv, AsRead
      <4>2. obj \in Object /\ base \in Object /\ store[m] \in Object
        BY <3>1 DEF TypeOK
      <4>3. patched \in Object /\ SameMeta(patched, obj) /\ patched.deleting
        BY <3>1, <3>3, <4>1, PatchWritesAll, PatchFields DEF FreshInv
      <4>4. Stored(patched) = None
        BY <3>3, <4>3 DEF Stored, SameMeta
      <4>5. store[m].nodeID = None
        <5> SUFFICES ASSUME store[m].nodeID # None PROVE FALSE
          OBVIOUS
        <5>1. base.finalizer
          BY <3>1, <3>3, <4>1 DEF FreshInv, SameMeta
        <5>2. WithStatus(obj, base.provisioned, base.failure).finalizer = obj.finalizer
          BY <4>2 DEF WithStatus, Object
        <5>3. metaChanged
          BY <3>3, <5>1, <5>2 DEF metaChanged
        <5>4. store' = [store EXCEPT ![who] = Stored(patched)]
          BY <1>0, <2>4, <3>1, <3>3, <5>3 DEF PatchObject, Mishap
        <5> QED BY <1>3, <3>1, <3>3, <4>4, <5>4 DEF TypeOK
      <4>6. store'[m] = store[m] \/ store'[m] = Stored(patched)
        BY <2>4, <3>1, <3>3 DEF PatchObject, TypeOK
      <4> QED BY <1>3, <4>4, <4>5, <4>6
    <3>4. CASE m = who /\ obj.finalizer
      <4>1. store'[m] = store[m] \/ store'[m] = patched
        BY <1>3, <2>4, <3>1, <3>4 DEF PatchObject, Stored, TypeOK
      <4>2. CASE store'[m].nodeID = store[m].nodeID
        BY <1>3, <3>1, <3>4, <4>2 DEF HandInv, HeldBy
      <4>3. CASE store'[m].nodeID # store[m].nodeID
        <5>1. store'[m].nodeID = obj.nodeID /\ obj.nodeID # base.nodeID
          BY <3>1, <3>4, <4>1, <4>3, PatchFields
        <5>2. ~base.deleting
          BY <3>1, <5>1 DEF HandInv
        <5>3. obj # None /\ Owns(m, obj)
          BY <3>1, <3>4, <5>2, GoneAssumption DEF ClaimInv, TypeOK
        <5> QED BY <1>3, <3>1, <5>1, <5>3 DEF Owns, HeldBy
      <4> QED BY <4>2, <4>3
    <3> QED BY <3>2, <3>3, <3>4
  <2> QED BY <2>1, <2>2, <2>3, <2>4, StoreSteps
\* The second and third part.
<1>4. /\ pc' # "idle" /\ base'.deleting =>
           obj'.nodeID = base'.nodeID /\ (pc' # "patchStatus" => store'[who'] # None)
      /\ pc' \notin {"patch", "patchStatus"} => outcome' = "none"
  <2>1. CASE reconcileNormal
    <3>1. UNCHANGED <<who, base>> /\ ~base.deleting /\ pc' \in {"readReboot", "patch"}
      BY <2>1, NormalFrame DEF ClaimInv
    <3>2. pc' = "readReboot" => outcome' = outcome /\ pc = "normal"
      BY <2>1 DEF reconcileNormal, WaitForBootstrap, WaitForConnection, ClaimNode,
       ApplyCloudConfig, WaitForCapacity, ClaimError, HoldApply, ApplyError, ApplyFailed,
       AwaitApply, HoldReboot, RequestReboot, RebootError, NodeMissing, GetNodeError,
       AwaitRejoin, AskReboot, RebootFailed, RebootPending, Provision, Ends, Fails, Replies,
       LosesReply, Return, Rejoining
    <3> QED BY <3>1, <3>2 DEF HandInv
  <2>2. CASE reconcileDelete
    <3>1. /\ UNCHANGED <<who, base, store>> /\ pc = "delete" /\ pc' = "patch"
          /\ obj \in Object /\ obj.nodeID = base.nodeID
          /\ obj' = obj \/ obj' = [obj EXCEPT !.finalizer = FALSE]
      BY <2>2, DeleteFrame, FreshPass DEF ConfigInv
    <3>2. obj'.nodeID = obj.nodeID
      BY <3>1 DEF Object
    <3> QED BY <3>1, <3>2 DEF HandInv
  <2>3. CASE PatchObject
    BY <2>3 DEF PatchObject, HandInv
  <2>4. CASE PatchStatus \/ Interrupted
    BY <2>4 DEF PatchStatus, Interrupted, Restart, EndPass
  <2>5. ASSUME NEW m \in Machines, Reconcile(m)
        PROVE  /\ obj'.nodeID = base'.nodeID /\ store'[who'] # None /\ outcome' = "none"
    <3>1. /\ store[m] # None /\ store[m] \in Object /\ who' = m /\ base' = store[m]
          /\ obj' = [store[m] EXCEPT !.finalizer = TRUE] /\ UNCHANGED store
          /\ outcome' = "none"
      BY <1>0, <2>5 DEF Reconcile, Mishap, TypeOK
    <3>2. obj'.nodeID = base'.nodeID
      BY <3>1 DEF Object
    <3> QED BY <3>1, <3>2
  <2>6. CASE UNCHANGED <<store, passVars>>
    BY <2>6 DEF passVars, HandInv
  <2>7. ASSUME NEW m \in Machines, UserDelete(m) \/ Move(m)
        PROVE  /\ pc' # "idle" /\ base'.deleting =>
                    obj'.nodeID = base'.nodeID /\ (pc' # "patchStatus" => store'[who'] # None)
               /\ pc' \notin {"patch", "patchStatus"} => outcome' = "none"
    <3>1. UNCHANGED passVars /\ \A k \in Machines : k # m => store'[k] = store[k]
      BY <2>7 DEF UserDelete, Move, TypeOK
    <3>2. ASSUME pc # "idle", base.deleting PROVE who \in Machines /\ (who # m \/ store[who] = None)
      BY <2>7, <3>2 DEF TypeOK, UserDelete, Move, FreshInv, AsRead
    <3> QED BY <3>1, <3>2 DEF passVars, HandInv
  <2> QED BY <2>1, <2>2, <2>3, <2>4, <2>5, <2>6, <2>7, StepKinds DEF Sync, apiVars
<1> QED BY <1>3, <1>4 DEF HandInv

\* Initially no pass runs, and every legacy machine holds its node.
LEMMA HandInit == ASSUME CoreInit PROVE HandInv
<1>1. pc = "idle" /\ outcome = "none" /\ ClaimInv
  BY ClaimInit DEF CoreInit
<1>2. \A m \in Machines : store[m] # None => ~store[m].deleting
  <2>1. PICK held \in [Legacy -> Nodes], left \in [Legacy -> Left] : Adopts(held, left)
    BY Adopted
  <2> QED BY <2>1, NewFacts, ClaimedFacts DEF Adopts
<1>3. \A m \in Machines : store[m] # None => Guarded(m)
  BY <1>1, <1>2 DEF ClaimInv, Guarded, Live
<1> QED BY <1>1, <1>3 DEF HandInv, ClaimInv, Owns

\* A refused release has one of the two explanations of its branch, now and for the
\* rest of the pass.
LEMMA MismatchNext ==
  ASSUME "stale" \notin Mishaps, TypeOK, ClaimInv, ConfigInv, FreshInv, HandInv,
         MismatchExplained, [OpenNext]_vars
  PROVE  MismatchExplained'
<1>1. tampered \subseteq tampered'
  BY ClaimSteps, NormalFrame, DeleteFrame DEF reconcileNormal, reconcileDelete, OperatorRelease
<1>2. CASE UNCHANGED <<who, obj, outcome>>
  BY <1>1, <1>2 DEF MismatchExplained, LegacyMoved
<1>3. CASE reconcileNormal
  <2>1. pc \in {"normal", "readReboot"}
    BY <1>3, NormalFrame
  <2>2. outcome = "none"
    BY <2>1 DEF HandInv
  <2>3. UNCHANGED outcome
    BY <1>3 DEF reconcileNormal, WaitForBootstrap, WaitForConnection, ClaimNode,
       ApplyCloudConfig, WaitForCapacity, ClaimError, HoldApply, ApplyError, ApplyFailed,
       AwaitApply, HoldReboot, RequestReboot, RebootError, NodeMissing, GetNodeError,
       AwaitRejoin, AskReboot, RebootFailed, RebootPending, Provision, Ends, Fails, Replies,
       LosesReply
  <2> QED BY <2>2, <2>3 DEF MismatchExplained
<1>4. CASE reconcileDelete
  <2>1. pc = "delete" /\ outcome = "none"
    BY <1>4, DeleteFrame DEF HandInv
  <2>2. CASE ReleaseMismatch
    <3>1. /\ claim[obj.nodeID] \notin {claimKeyFor(who, obj), None} /\ obj.nodeID # None
          /\ obj' = [obj EXCEPT !.finalizer = FALSE] /\ UNCHANGED <<who, tampered>>
      BY <2>2 DEF ReleaseMismatch, Mismatched, DropFinalizer, Return
    <3>2. /\ obj \in Object /\ who \in Machines /\ obj.nodeID = base.nodeID
          /\ base.deleting
      BY <2>1, FreshPass DEF ConfigInv, ClaimInv
    <3>3. store[who] # None /\ store[who].nodeID = obj.nodeID
      BY <2>1, <3>2 DEF HandInv, FreshInv, AsRead, SameMeta
    <3>4. obj.nodeID \in tampered \/ HeldBy(obj.nodeID, who)
      BY <2>1, <3>1, <3>2, <3>3 DEF HandInv
    <3>5. obj.nodeID \in tampered \/ LegacyMoved(who, obj)
      BY <2>1, <3>1, <3>4 DEF FreshInv, Consistent
    <3>6. obj'.nodeID = obj.nodeID /\ obj'.claimKey = obj.claimKey /\ obj'.uid = obj.uid
      BY <3>1, <3>2 DEF Object
    <3> QED BY <3>1, <3>5, <3>6 DEF MismatchExplained, LegacyMoved
  <2>3. CASE ~ReleaseMismatch
    <3>1. outcome' # "mismatch"
      BY <1>4, <2>1, <2>3 DEF reconcileDelete, DeleteUnclaimed, DeleteUnreachable,
           ReleaseNode, ReleaseMissing, DeleteError, DropFinalizer, LosesReply, Fails
    <3> QED BY <3>1 DEF MismatchExplained
  <2> QED BY <2>2, <2>3
<1>5. CASE PatchStatus \/ Interrupted \/ \E m \in Machines : Reconcile(m)
  BY <1>5 DEF PatchStatus, Interrupted, Restart, EndPass, Reconcile, MismatchExplained
<1>6. CASE \/ PatchObject
           \/ \E m \in Machines : Sync(m) \/ UserDelete(m) \/ Move(m)
           \/ \E n \in Nodes : NodeStep(n) /\ UNCHANGED <<apiVars, passVars>>
           \/ UNCHANGED <<store, cache, passVars, fleetVars, tampered>>
  BY <1>2, <1>6 DEF PatchObject, Sync, UserDelete, Move, passVars
<1> QED BY <1>3, <1>4, <1>5, <1>6, StepKinds

\* Where no release is repeated, a machine holds the node it names, or is in the pass
\* that lets it go (ReleaseNode, PatchObject).
LEMMA OpenHands ==
  ASSUME Mishaps \cap Repeats = {}
  PROVE  OpenSpec => []HandInv
<1>1. "stale" \notin Mishaps
  BY DEF Repeats
<1>2. CoreInit => HandInv
  BY HandInit
<1>3. /\ TypeOK /\ TypeOK' /\ ClaimInv /\ ConfigInv /\ FreshInv /\ HandInv /\ [OpenNext]_vars
      => HandInv'
  BY HandNext
<1> QED BY <1>1, <1>2, <1>3, OpenTypes, OpenClaims, OpenRecords, OpenFresh, PTL DEF OpenSpec

\* So a machine never names a node that it has already given back.
THEOREM HandsKept ==
  ASSUME Mishaps \cap Repeats = {}
  PROVE  Spec => []HandInv
BY SpecIsOpen, OpenHands, PTL

\* In any manager, a release that is refused has its explanation.
LEMMA OpenMismatches ==
  ASSUME Mishaps \cap Repeats = {}
  PROVE  OpenSpec => []MismatchExplained
<1>1. "stale" \notin Mishaps
  BY DEF Repeats
<1>2. CoreInit => MismatchExplained
  <2>1. CoreInit => outcome = "none"
    BY DEF CoreInit
  <2> QED BY <2>1 DEF MismatchExplained
<1>3. /\ TypeOK /\ ClaimInv /\ ConfigInv /\ FreshInv /\ HandInv /\ MismatchExplained
      /\ [OpenNext]_vars
      => MismatchExplained'
  BY <1>1, MismatchNext
<1> QED BY <1>1, <1>2, <1>3, OpenTypes, OpenClaims, OpenRecords, OpenFresh, OpenHands,
    PTL DEF OpenSpec

\* Where no release is repeated, a release is refused only for a node an operator
\* gave away or for a moved machine of an earlier build.
THEOREM MismatchesExplained ==
  ASSUME Mishaps \cap Repeats = {}
  PROVE  Spec => []MismatchExplained
BY SpecIsOpen, OpenMismatches, PTL
=============================================================================
