------------------------- MODULE FleetProviderProofs -------------------------
(***************************************************************************)
(* Proofs about the manager with both controllers: the machines keep every *)
(* promise they make by themselves, and a cluster that is taken down in    *)
(* Cluster API's order gives its nodes back.                               *)
(***************************************************************************)
EXTENDS FleetProvider, FleetPacingProofs, FleetPoolProofs

-----------------------------------------------------------------------------
(* The KairosFleetCluster *)

\* The updates of a KairosFleetCluster by passes and by Cluster API: only a delete
\* touches its deletionTimestamp.
LEMMA KfcUpdates ==
  ASSUME NEW o \in C!Object
  PROVE  /\ \A f \in BOOLEAN : /\ [o EXCEPT !.finalizer = f] \in C!Object
                               /\ [o EXCEPT !.finalizer = f].deleting = o.deleting
         /\ [o EXCEPT !.owner = TRUE] \in C!Object
         /\ [o EXCEPT !.owner = TRUE].deleting = o.deleting
         /\ [o EXCEPT !.deleting = TRUE, !.generation = @ + 1] \in C!Object
         /\ \A p \in BOOLEAN, c \in C!Condition \cup {None} :
                /\ [o EXCEPT !.provisioned = p, !.ready = c] \in C!Object
                /\ [o EXCEPT !.provisioned = p, !.ready = c].deleting = o.deleting
         /\ \A r \in C!Reasons : C!setCondition(o, r) \in C!Object
<1>1. \A f \in BOOLEAN : /\ [o EXCEPT !.finalizer = f] \in C!Object
                         /\ [o EXCEPT !.finalizer = f].deleting = o.deleting
  BY DEF C!Object
<1>2. [o EXCEPT !.owner = TRUE] \in C!Object /\ [o EXCEPT !.owner = TRUE].deleting = o.deleting
  BY DEF C!Object
<1>3. [o EXCEPT !.deleting = TRUE, !.generation = @ + 1] \in C!Object
  <2>1. ASSUME NEW g \in Nat PROVE [o EXCEPT !.deleting = TRUE, !.generation = g] \in C!Object
    BY DEF C!Object
  <2>2. o.generation + 1 \in Nat
    BY DEF C!Object
  <2> QED BY <2>1, <2>2
<1>4. ASSUME NEW p \in BOOLEAN, NEW c \in C!Condition \cup {None}
      PROVE  /\ [o EXCEPT !.provisioned = p, !.ready = c] \in C!Object
             /\ [o EXCEPT !.provisioned = p, !.ready = c].deleting = o.deleting
  BY DEF C!Object
<1>5. ASSUME NEW r \in C!Reasons PROVE C!setCondition(o, r) \in C!Object
  BY DEF C!setCondition, C!Object, C!Condition
<1> QED BY <1>1, <1>2, <1>3, <1>4, <1>5

\* A pass over the KairosFleetCluster changes neither the Secret nor the cache, and
\* removes the object only if it is being deleted.
LEMMA KfcWorker ==
  ASSUME C!TypeOK, C!Worker
  PROVE  /\ C!TypeOK'
         /\ UNCHANGED <<kfcCache, secret>>
         /\ kfc = None => kfc' = None
         /\ kfc' = None \/ kfc'.deleting => kfc = None \/ kfc.deleting
<1>0. \A k : C!Mishap(k) => spent' \in Nat
  BY DEF C!Mishap, C!TypeOK
<1>1. ASSUME kfcPc = "reconcile", NEW o \in C!Object, NEW r \in BOOLEAN, C!Return(o, r),
             spent' \in Nat
      PROVE  C!TypeOK' /\ UNCHANGED <<kfc, kfcCache, secret>>
  BY <1>1 DEF C!TypeOK, C!Return
<1>2. kfcPc # "idle" => kfcObj \in C!Object /\ kfcBase \in C!Object
  BY DEF C!TypeOK
<1>3. CASE C!ReconcileDelete
  BY <1>1, <1>2, <1>3, KfcUpdates DEF C!ReconcileDelete, C!TypeOK
<1>4. CASE C!ConnectionNotReady
  <2>1. spent' \in Nat
    BY <1>0, <1>4 DEF C!ConnectionNotReady, C!TypeOK
  <2> QED BY <1>1, <1>2, <1>4, <2>1, KfcUpdates DEF C!ConnectionNotReady, C!Reasons
<1>5. CASE C!WaitForEndpoint
  BY <1>1, <1>2, <1>5, KfcUpdates DEF C!WaitForEndpoint, C!Reasons, C!TypeOK
<1>6. CASE C!Provision
  BY <1>1, <1>2, <1>6, KfcUpdates DEF C!Provision, C!Reasons, C!TypeOK
<1>7. CASE C!PatchObject
  <2>1. spent' \in Nat /\ kfcAgain' \in BOOLEAN
    BY <1>0, <1>7 DEF C!PatchObject, C!TypeOK
  <2>2. kfcObj.finalizer \in BOOLEAN
    BY <1>2, <1>7 DEF C!PatchObject, C!Object
  <2>3. kfc # None => /\ [kfc EXCEPT !.finalizer = kfcObj.finalizer] \in C!Object
                      /\ [kfc EXCEPT !.finalizer = kfcObj.finalizer].deleting = kfc.deleting
    BY <2>2, KfcUpdates DEF C!TypeOK
  <2>4. \/ kfc' = kfc
        \/ kfc # None /\ kfc.deleting /\ kfc' = None
        \/ kfc # None /\ kfc' = [kfc EXCEPT !.finalizer = kfcObj.finalizer]
    BY <1>7, <2>3 DEF C!PatchObject, C!Stored
  <2>5. kfc' \in C!Object \cup {None}
    BY <2>3, <2>4 DEF C!TypeOK
  <2>6. /\ kfc = None => kfc' = None
        /\ kfc' = None \/ kfc'.deleting => kfc = None \/ kfc.deleting
    BY <2>3, <2>4, NoClusterAssumption
  <2> QED BY <1>2, <1>7, <2>1, <2>5, <2>6 DEF C!PatchObject, C!TypeOK
<1>8. CASE C!PatchStatus
  <2>1. spent' \in Nat /\ kfcQueued' \in BOOLEAN
    BY <1>0, <1>8 DEF C!PatchStatus, C!TypeOK
  <2>2. kfcObj \in C!Object /\ (kfc # None => kfc \in C!Object)
    BY <1>2, <1>8 DEF C!PatchStatus, C!TypeOK
  <2>3. /\ kfcObj.provisioned \in BOOLEAN /\ kfcObj.ready \in C!Condition \cup {None}
        /\ kfc # None => kfc.provisioned \in BOOLEAN /\ kfc.ready \in C!Condition \cup {None}
    BY <2>2 DEF C!Object
  <2>4. \/ kfc' = kfc
        \/ /\ kfc # None
           /\ \E p \in BOOLEAN, c \in C!Condition \cup {None} :
                kfc' = [kfc EXCEPT !.provisioned = p, !.ready = c]
    BY <1>8, <2>3 DEF C!PatchStatus
  <2>5. /\ kfc' \in C!Object \cup {None}
        /\ kfc = None => kfc' = None
        /\ kfc # None => kfc' # None /\ kfc'.deleting = kfc.deleting
    <3>1. CASE kfc' = kfc
      BY <3>1 DEF C!TypeOK
    <3>2. CASE kfc' # kfc
      <4>1. PICK p \in BOOLEAN, c \in C!Condition \cup {None} :
              kfc' = [kfc EXCEPT !.provisioned = p, !.ready = c]
        BY <2>4, <3>2
      <4>2. kfc # None /\ kfc \in C!Object
        BY <2>2, <2>4, <3>2
      <4>3. kfc' \in C!Object /\ kfc'.deleting = kfc.deleting
        BY <4>1, <4>2, KfcUpdates
      <4> QED BY <4>2, <4>3, NoClusterAssumption
    <3> QED BY <3>1, <3>2
  <2> QED BY <1>8, <2>1, <2>5 DEF C!PatchStatus, C!EndPass, C!TypeOK
<1> QED BY <1>3, <1>4, <1>5, <1>6, <1>7, <1>8 DEF C!Worker

\* So do the queue, the cache and Cluster API's ownership; the cache is only ever
\* replaced by what is stored.
LEMMA KfcSide ==
  ASSUME C!TypeOK, C!Ignore \/ C!Reconcile \/ C!Worker \/ C!Sync \/ C!SetOwner
  PROVE  /\ C!TypeOK'
         /\ UNCHANGED secret
         /\ kfcCache' \in {kfcCache, kfc}
         /\ kfc' # kfc => UNCHANGED kfcCache
         /\ kfc = None => kfc' = None
         /\ kfc' = None \/ kfc'.deleting => kfc = None \/ kfc.deleting
<1>1. CASE C!Ignore
  BY <1>1 DEF C!Ignore, C!TypeOK, C!passVars
<1>2. CASE C!Reconcile
  <2>1. spent' \in Nat
    BY <1>2 DEF C!Reconcile, C!Mishap, C!TypeOK
  <2>2. kfcCache \in C!Object /\ [kfcCache EXCEPT !.finalizer = TRUE] \in C!Object
    BY <1>2, KfcUpdates DEF C!Reconcile, C!Admitted, C!TypeOK
  <2> QED BY <1>2, <2>1, <2>2 DEF C!Reconcile, C!TypeOK
<1>3. CASE C!Worker
  BY <1>3, KfcWorker
<1>4. CASE C!Sync
  BY <1>4 DEF C!Sync, C!TypeOK, C!passVars
<1>5. CASE C!SetOwner
  <2>1. kfc' \in C!Object /\ kfc'.deleting = kfc.deleting /\ kfc # None
    BY <1>5, KfcUpdates DEF C!SetOwner, C!TypeOK
  <2> QED BY <1>5, <2>1, NoClusterAssumption DEF C!SetOwner, C!TypeOK, C!passVars
<1> QED BY <1>1, <1>2, <1>3, <1>4, <1>5

\* A restart reads the cache afresh.
LEMMA KfcRestart ==
  ASSUME C!TypeOK, spent' \in Nat, C!Restart
  PROVE  C!TypeOK' /\ kfcCache' = kfc /\ UNCHANGED <<kfc, secret>>
BY DEF C!Restart, C!EndPass, C!TypeOK

\* A delete, and a change of the Secret.
LEMMA KfcEdits ==
  ASSUME C!TypeOK, spent' \in Nat, C!Delete \/ \E s \in C!Secrets : C!PutSecret(s)
  PROVE  C!TypeOK' /\ UNCHANGED kfcCache
<1>1. CASE C!Delete
  <2>1. [kfc EXCEPT !.deleting = TRUE, !.generation = @ + 1] \in C!Object
    BY <1>1, KfcUpdates DEF C!Delete, C!TypeOK
  <2>2. kfc' \in C!Object \cup {None}
    BY <1>1, <2>1 DEF C!Delete, C!Stored
  <2> QED BY <1>1, <2>2 DEF C!Delete, C!TypeOK, C!passVars
<1>2. CASE \E s \in C!Secrets : C!PutSecret(s)
  BY <1>2 DEF C!PutSecret, C!TypeOK, C!passVars
<1> QED BY <1>1, <1>2
-----------------------------------------------------------------------------
(* The manager as an environment of its machines *)

\* No step of the machines' side touches the connection.
LEMMA CoreKeepsConnection ==
  ASSUME Core \/ \E m \in Machines : PublishBootstrap(m) \/ UserDelete(m)
  PROVE  UNCHANGED connected
<1> USE DEF apiVars, gateVars
<1>1. CASE reconcileNormal
  BY <1>1 DEF reconcileNormal, WaitForBootstrap, WaitForConnection, ClaimNode,
     WaitForCapacity, ClaimError, HoldApply, ApplyCloudConfig, ApplyError, ApplyFailed,
     AwaitApply, HoldReboot, RequestReboot, RebootError, NodeMissing, GetNodeError,
     AwaitRejoin, AskReboot, RebootFailed, RebootPending, Provision, Ends, Fails,
     LosesReply, Replies, Return
<1>2. CASE reconcileDelete
  BY <1>2 DEF reconcileDelete, DeleteUnclaimed, DeleteUnreachable, ReleaseNode,
     ReleaseMismatch, ReleaseMissing, DeleteError, DropFinalizer, Fails, LosesReply, Return
<1>3. CASE PatchObject \/ PatchStatus \/ Tick
  BY <1>3 DEF PatchObject, PatchStatus, Tick
<1>4. CASE \E m \in Machines : \/ Ignore(m) \/ Reconcile(m) \/ Sync(m) \/ MachineEvent(m)
                               \/ PublishBootstrap(m) \/ UserDelete(m)
  BY <1>4 DEF Ignore, Reconcile, Sync, MachineEvent, PublishBootstrap, UserDelete
<1>5. CASE \E n \in Nodes : NodeStep(n) /\ UNCHANGED <<apiVars, passVars>>
  BY <1>5
<1> QED BY <1>1, <1>2, <1>3, <1>4, <1>5 DEF Core, Worker

\* The steps of the manager: a step of the machines, one of the cluster's controller
\* or of what drives it, or a restart of both.
LEMMA ProviderKinds ==
  ASSUME [ProviderNext]_providerVars
  PROVE  \/ Next /\ UNCHANGED <<connected, kfcVars, orderVars>>
         \/ /\ C!Ignore \/ C!Reconcile \/ C!Worker \/ C!Sync \/ C!SetOwner
            /\ connected' = Connected' /\ UNCHANGED <<machineVars, orderVars>>
         \/ ManagerCrash
         \/ TeardownInfrastructure
         \/ OutOfOrder
         \/ ProvideToken
         \/ UNCHANGED <<vars, kfcVars, disorder>>
<1>1. CASE MachineSide(Core)
  BY <1>1, CoreKeepsConnection DEF MachineSide, Next
<1>2. CASE \E m \in Machines : Bootstrap(m) \/ TeardownMachine(m)
  BY <1>2, CoreKeepsConnection DEF Bootstrap, TeardownMachine, MachineSide, Next
<1>3. CASE ClusterSide(C!Ignore \/ C!Reconcile \/ C!Worker \/ C!Sync) \/ ClusterSide(C!SetOwner)
  BY <1>3 DEF ClusterSide
<1>4. CASE DeleteCluster
  BY <1>4 DEF DeleteCluster
<1>5. CASE UNCHANGED providerVars
  BY <1>5 DEF providerVars, orderVars
<1> QED BY <1>1, <1>2, <1>3, <1>4, <1>5 DEF ProviderNext

\* To the machines, every step of the manager is one of theirs, one taken elsewhere or
\* a restart; the KairosFleetCluster stays well-formed.
LEMMA ProviderStep ==
  ASSUME TypeOK, C!TypeOK, [ProviderNext]_providerVars
  PROVE  [OpenNext]_vars /\ C!TypeOK'
<1>0. /\ spent \in Nat /\ Connected' \in BOOLEAN
      /\ \A k : Mishap(k) => spent' \in Nat
  BY MishapType DEF TypeOK, FleetTypeOK, Connected
<1>1. ASSUME UNCHANGED machineVars, connected' = Connected', spent' \in Nat
      PROVE  [OpenNext]_vars
  BY <1>0, <1>1 DEF OpenNext, Elsewhere, machineVars
<1>2. CASE Next /\ UNCHANGED <<connected, kfcVars, orderVars>>
  <2>1. [OpenNext]_vars
    BY <1>2 DEF OpenNext
  <2>2. spent' \in Nat
    BY <2>1, TypeNext DEF TypeOK, FleetTypeOK
  <2>3. C!TypeOK'
    BY <1>2, <2>2 DEF C!TypeOK, kfcVars
  <2> QED BY <2>1, <2>3
<1>3. CASE /\ C!Ignore \/ C!Reconcile \/ C!Worker \/ C!Sync \/ C!SetOwner
           /\ connected' = Connected' /\ UNCHANGED <<machineVars, orderVars>>
  <2>1. C!TypeOK'
    BY <1>3, KfcSide
  <2> QED BY <1>1, <1>3, <2>1 DEF C!TypeOK
<1>4. CASE ManagerCrash
  <2>1. spent' \in Nat
    BY <1>0, <1>4 DEF ManagerCrash
  <2> QED BY <1>0, <1>4, <2>1, KfcRestart DEF ManagerCrash, OpenNext, Interrupted
<1>5. CASE TeardownInfrastructure
  <2>1. UNCHANGED spent /\ C!Delete /\ connected' = Connected' /\ UNCHANGED machineVars
    BY <1>5 DEF TeardownInfrastructure, ClusterSide, C!UserDelete
  <2> QED BY <1>0, <1>1, <2>1, KfcEdits
<1>6. CASE OutOfOrder
  <2>1. /\ spent' \in Nat /\ connected' = Connected' /\ UNCHANGED machineVars
        /\ C!Delete \/ \E s \in C!Secrets : C!PutSecret(s)
    BY <1>0, <1>6 DEF OutOfOrder, C!Secrets
  <2> QED BY <1>1, <2>1, KfcEdits
<1>7. CASE ProvideToken
  <2>1. /\ UNCHANGED spent /\ connected' = Connected' /\ UNCHANGED machineVars
        /\ \E s \in C!Secrets : C!PutSecret(s)
    BY <1>7 DEF ProvideToken, ClusterSide, C!Secrets
  <2> QED BY <1>0, <1>1, <2>1, KfcEdits
<1>8. CASE UNCHANGED <<vars, kfcVars, disorder>>
  <2>1. UNCHANGED spent /\ UNCHANGED kfcVars
    BY <1>8 DEF vars
  <2>2. C!TypeOK'
    BY <2>1 DEF C!TypeOK, kfcVars
  <2> QED BY <1>8, <2>2
<1> QED BY <1>2, <1>3, <1>4, <1>5, <1>6, <1>7, <1>8, ProviderKinds

\* The manager starts with well-formed objects.
LEMMA ProviderStarts ==
  ASSUME ProviderInit
  PROVE  CoreInit /\ connected \in BOOLEAN /\ TypeOK /\ C!TypeOK
<1>1. PICK e \in BOOLEAN :
        kfc = [owner |-> FALSE, deleting |-> FALSE, finalizer |-> FALSE,
               generation |-> 1, endpoint |-> e, provisioned |-> FALSE, ready |-> None]
  BY DEF ProviderInit, C!Init
<1>2. kfc \in C!Object
  BY <1>1 DEF C!Object
<1>3. C!TypeOK
  BY <1>2 DEF ProviderInit, C!Init, C!TypeOK, C!Secrets
<1>4. CoreInit /\ connected \in BOOLEAN
  BY DEF ProviderInit, Connected
<1> QED BY <1>3, <1>4, TypeInit

\* Both controllers' objects stay well-formed side by side.
LEMMA ProviderTypes == ProviderSpec => [](TypeOK /\ C!TypeOK)
<1>1. TypeOK /\ C!TypeOK /\ [ProviderNext]_providerVars => TypeOK' /\ C!TypeOK'
  BY ProviderStep, TypeNext
<1>2. ProviderInit => TypeOK /\ C!TypeOK
  BY ProviderStarts
<1> QED BY <1>1, <1>2, PTL DEF ProviderSpec

\* The manager gives its machines no more to cope with than OpenSpec does.
LEMMA ProviderIsOpen == ProviderSpec => OpenSpec
<1>1. TypeOK /\ C!TypeOK /\ [ProviderNext]_providerVars => [OpenNext]_vars
  BY ProviderStep
<1>2. ProviderInit => CoreInit /\ connected \in BOOLEAN
  BY ProviderStarts
<1> QED BY <1>1, <1>2, ProviderTypes, PTL DEF ProviderSpec, OpenSpec
-----------------------------------------------------------------------------
(* Taking a cluster down in order *)

\* An object that is gone stays gone.
LEMMA GoneStays ==
  ASSUME TypeOK, [OpenNext]_vars, NEW m \in Machines, store[m] = None
  PROVE  store'[m] = None
<1>1. CASE PatchObject
  BY <1>1 DEF PatchObject, TypeOK
<1>2. CASE PatchStatus
  BY <1>2 DEF PatchStatus, TypeOK
<1>3. ASSUME NEW k \in Machines, UserDelete(k) \/ Move(k) PROVE store'[m] = None
  BY <1>3 DEF UserDelete, Move, TypeOK
<1> QED BY <1>1, <1>2, <1>3, StoreSteps

\* Nothing but the claim brings a node on record: every other step copies what is
\* recorded already.
LEMMA RecordedByClaim ==
  ASSUME TypeOK, ConfigInv, [OpenNext]_vars, ~NodeOnRecord, NodeOnRecord'
  PROVE  ClaimNode
<1> SUFFICES ASSUME ~ClaimNode PROVE FALSE
  OBVIOUS
<1>1. \A m \in Machines : /\ store[m] # None => store[m] \in Object /\ store[m].nodeID = None
                          /\ cache[m] # None => cache[m] \in Object /\ cache[m].nodeID = None
  BY DEF NodeOnRecord, Recorded, TypeOK
<1>2. pc # "idle" => /\ who \in Machines /\ obj \in Object /\ base \in Object
                     /\ obj.nodeID = None /\ base.nodeID = None
  BY GoneAssumption DEF NodeOnRecord, Recorded, TypeOK
<1>3. ASSUME UNCHANGED <<store, cache, base>>, ~Recorded(obj') PROVE FALSE
  BY <1>3 DEF NodeOnRecord, Recorded
<1>4. CASE reconcileNormal
  <2>1. pc # "readReboot" /\ pc # "idle"
    BY <1>2, <1>4, NormalFrame DEF ConfigInv, PassInv
  <2>2. \/ WaitForBootstrap \/ WaitForConnection \/ WaitForCapacity \/ ClaimError
    BY <1>2, <1>4, <2>1 DEF reconcileNormal, HoldApply, ApplyCloudConfig, ApplyError,
       ApplyFailed, AwaitApply, HoldReboot, RequestReboot, RebootError, NodeMissing,
       GetNodeError, AwaitRejoin, AskReboot, RebootFailed, RebootPending, Provision,
       Applying, Rebooting, Rejoining
  <2>3. obj' \in {obj, notReady(obj)}
    BY <2>2 DEF WaitForBootstrap, WaitForConnection, WaitForCapacity, ClaimError, Ends,
       Fails, Replies, Return
  <2>4. ~Recorded(obj')
    BY <1>2, <2>1, <2>3, NotReadyFacts DEF Recorded
  <2> QED BY <1>3, <1>4, <2>4, NormalFrame
<1>5. CASE reconcileDelete
  <2>1. [obj EXCEPT !.finalizer = FALSE].nodeID = obj.nodeID
    BY <1>2, <1>5, DeleteFrame DEF Object
  <2>2. ~Recorded(obj')
    BY <1>2, <1>5, <2>1, DeleteFrame DEF Recorded
  <2> QED BY <1>3, <1>5, <2>2, DeleteFrame
<1>6. ASSUME UNCHANGED <<cache>>,
             \A m \in Machines : store'[m] # None => store[m] # None /\ store'[m].nodeID = None,
             \/ UNCHANGED <<base, obj>>
             \/ base' = None /\ obj' = None
      PROVE  FALSE
  BY <1>6 DEF NodeOnRecord, Recorded
<1>7. CASE PatchObject
  <2>1. ASSUME NEW m \in Machines, store'[m] # None
        PROVE  store[m] # None /\ store'[m].nodeID = None
    <3>1. pc = "patch" /\ store[m] # None
      BY <1>7, <2>1, GoneStays DEF PatchObject
    <3>2. CASE store'[m] = store[m]
      BY <1>1, <3>1, <3>2
    <3>3. CASE store'[m] # store[m]
      <4>1. m = who /\ store'[m] = patched
        BY <1>7, <2>1, <3>3 DEF PatchObject, Stored, TypeOK
      <4> QED BY <1>1, <1>2, <3>1, <4>1, PatchFacts
    <3> QED BY <3>2, <3>3
  <2> QED BY <1>6, <1>7, <2>1 DEF PatchObject
<1>8. CASE PatchStatus
  <2>1. ASSUME NEW m \in Machines, store'[m] # None
        PROVE  store[m] # None /\ store'[m].nodeID = None
    BY <1>1, <1>8, <2>1, GoneStays, StoreFacts
  <2> QED BY <1>6, <1>8, <2>1 DEF PatchStatus, EndPass
<1>9. CASE Interrupted
  BY <1>1, <1>9 DEF Interrupted, Restart, EndPass, NodeOnRecord, Recorded
<1>10. ASSUME NEW m \in Machines, Reconcile(m) PROVE FALSE
  <2>1. cache[m] \in Object /\ cache[m].nodeID = None
    BY <1>1, <1>10 DEF Reconcile
  <2>2. [cache[m] EXCEPT !.finalizer = TRUE].nodeID = None
    BY <2>1 DEF Object
  <2> QED BY <1>1, <1>10, <2>1, <2>2 DEF Reconcile, NodeOnRecord, Recorded
<1>11. ASSUME NEW m \in Machines, Sync(m) PROVE FALSE
  <2>1. \A k \in Machines : cache'[k] \in {cache[k], store[k]}
    BY <1>11 DEF Sync, TypeOK
  <2>2. UNCHANGED <<store, base, obj>>
    BY <1>11 DEF Sync, passVars
  <2> QED BY <1>1, <2>1, <2>2 DEF NodeOnRecord, Recorded
<1>12. ASSUME NEW m \in Machines, UserDelete(m) \/ Move(m) PROVE FALSE
  <2>1. ASSUME NEW k \in Machines, store'[k] # None
        PROVE  store[k] # None /\ store'[k].nodeID = None
    BY <1>1, <1>12, <2>1, GoneStays, StoreFacts
  <2>2. UNCHANGED <<base, obj>> /\ \A k \in Machines : cache'[k] \in {cache[k], store'[k]}
    BY <1>12 DEF UserDelete, Move, passVars, TypeOK
  <2> QED BY <1>1, <2>1, <2>2 DEF NodeOnRecord, Recorded
<1>13. CASE \E n \in Nodes : NodeStep(n) /\ UNCHANGED <<apiVars, passVars>>
  BY <1>13 DEF NodeOnRecord, Recorded, apiVars, passVars
<1>14. CASE UNCHANGED <<store, cache, passVars, fleetVars, tampered>>
  BY <1>14 DEF NodeOnRecord, Recorded, passVars
<1> QED BY <1>4, <1>5, <1>7, <1>8, <1>9, <1>10, <1>11, <1>12, <1>13, <1>14, StepKinds

\* A pass gives up for want of a connection in one branch only, and is then the one in
\* progress until it ends.
LEMMA GivesUp ==
  ASSUME TypeOK, [OpenNext]_vars, outcome' = "unreachable"
  PROVE  \/ DeleteUnreachable
         \/ outcome = "unreachable" /\ UNCHANGED who /\ (pc # "idle" => pc' # "idle")
<1>1. CASE reconcileNormal
  BY <1>1, NormalFrame DEF reconcileNormal, WaitForBootstrap, WaitForConnection, ClaimNode,
     WaitForCapacity, ClaimError, HoldApply, ApplyCloudConfig, ApplyError, ApplyFailed,
     AwaitApply, HoldReboot, RequestReboot, RebootError, NodeMissing, GetNodeError,
     AwaitRejoin, AskReboot, RebootFailed, RebootPending, Provision, Ends, Fails,
     LosesReply, Replies
<1>2. CASE reconcileDelete
  BY <1>2, DeleteFrame DEF reconcileDelete, DeleteUnclaimed, ReleaseNode,
     ReleaseMismatch, ReleaseMissing, DeleteError, DropFinalizer, Fails, LosesReply
<1>3. CASE PatchObject
  BY <1>3 DEF PatchObject
<1>4. CASE PatchStatus \/ Interrupted
  BY <1>4 DEF PatchStatus, Interrupted, Restart, EndPass
<1>5. ASSUME NEW m \in Machines, Reconcile(m) \/ Sync(m) \/ UserDelete(m) \/ Move(m)
      PROVE  outcome = "unreachable" /\ UNCHANGED who /\ (pc # "idle" => pc' # "idle")
  BY <1>5 DEF Reconcile, Sync, UserDelete, Move, passVars
<1>6. CASE \/ \E n \in Nodes : NodeStep(n) /\ UNCHANGED <<apiVars, passVars>>
           \/ UNCHANGED <<store, cache, passVars, fleetVars, tampered>>
  BY <1>6 DEF passVars
<1> QED BY <1>1, <1>2, <1>3, <1>4, <1>5, <1>6, StepKinds
\* The order is kept by a step of the machines: what is gone stays gone, a node comes on
\* record with a connection only, and a pass without one finds no machine left.
LEMMA OrderMachines ==
  ASSUME TypeOK, ConfigInv, OrderInv, Next, UNCHANGED <<connected, kfcVars, orderVars>>
  PROVE  OrderInv'
<1>1. [OpenNext]_vars
  BY DEF OpenNext
<1>2. UNCHANGED <<kfc, kfcCache, secret, disorder>> /\ (connected = Connected)'
  BY DEF kfcVars, orderVars, OrderInv, Connected
<1>3. ASSUME ~disorder, NodeOnRecord' PROVE secret = "token"
  <2>1. NodeOnRecord \/ ClaimNode
    BY <1>1, <1>3, RecordedByClaim
  <2>2. CASE NodeOnRecord
    BY <1>3, <2>2 DEF OrderInv
  <2>3. CASE ClaimNode
    BY <2>3 DEF ClaimNode, Claiming, OrderInv, Connected
  <2> QED BY <2>1, <2>2, <2>3
<1>4. ASSUME ~disorder, outcome' = "unreachable" PROVE pc' # "idle" /\ store'[who'] = None
  <2>1. \/ DeleteUnreachable
        \/ outcome = "unreachable" /\ UNCHANGED who /\ (pc # "idle" => pc' # "idle")
    BY <1>1, <1>4, GivesUp
  <2>2. CASE outcome = "unreachable" /\ UNCHANGED who /\ (pc # "idle" => pc' # "idle")
    <3>1. pc # "idle" /\ store[who] = None
      BY <1>4, <2>2 DEF OrderInv
    <3>2. who \in Machines
      BY <3>1 DEF TypeOK
    <3> QED BY <1>1, <2>2, <3>1, <3>2, GoneStays
  <2>3. CASE DeleteUnreachable
    <3>1. /\ pc = "delete" /\ obj.nodeID # None /\ ~connected
          /\ reconcileDelete
      BY <2>3 DEF DeleteUnreachable, reconcileDelete
    <3>2. obj \in Object /\ who \in Machines
      BY <3>1 DEF TypeOK
    <3>3. NodeOnRecord
      BY <3>1, <3>2, GoneAssumption DEF NodeOnRecord, Recorded
    <3>4. kfc = None
      BY <1>4, <3>1, <3>3 DEF OrderInv, Connected
    <3>5. store[who] = None
      BY <1>4, <3>2, <3>4 DEF OrderInv
    <3> QED BY <3>1, <3>5, DeleteFrame
  <2> QED BY <2>1, <2>2, <2>3
<1>5. ~disorder /\ (kfc = None \/ kfc.deleting) => \A m \in Machines : store'[m] = None
  BY <1>1, GoneStays DEF OrderInv
<1>6. ~disorder => (kfcCache = None => kfc = None)
  BY DEF OrderInv
<1> QED BY <1>2, <1>3, <1>4, <1>5, <1>6 DEF OrderInv
\* It is kept by every other step: the cache follows the object, Cluster API deletes the
\* KairosFleetCluster last, and only somebody else's delete takes the token away.
LEMMA OrderNext ==
  ASSUME TypeOK, C!TypeOK, ConfigInv, OrderInv, [ProviderNext]_providerVars
  PROVE  OrderInv'
<1>1. CASE Next /\ UNCHANGED <<connected, kfcVars, orderVars>>
  BY <1>1, OrderMachines
<1>2. ASSUME UNCHANGED <<machineVars, disorder>>, connected' = Connected',
             ~disorder =>
               /\ kfcCache' = None => kfc' = None
               /\ kfc' = None \/ kfc'.deleting => \A m \in Machines : store[m] = None
               /\ NodeOnRecord => secret' = "token"
      PROVE  OrderInv'
  BY <1>2 DEF OrderInv, NodeOnRecord, Recorded, machineVars, passVars
<1>3. CASE /\ C!Ignore \/ C!Reconcile \/ C!Worker \/ C!Sync \/ C!SetOwner
           /\ connected' = Connected' /\ UNCHANGED <<machineVars, orderVars>>
  <2>1. /\ UNCHANGED secret
        /\ kfcCache' \in {kfcCache, kfc}
        /\ kfc = None => kfc' = None
        /\ kfc' = None \/ kfc'.deleting => kfc = None \/ kfc.deleting
    BY <1>3, KfcSide
  <2> QED BY <1>2, <1>3, <2>1 DEF OrderInv, orderVars
<1>4. CASE ManagerCrash
  <2>1. /\ kfcCache' = kfc /\ UNCHANGED <<kfc, secret, disorder>> /\ connected' = Connected'
    BY <1>4 DEF ManagerCrash, C!Restart, orderVars
  <2>2. /\ UNCHANGED store /\ cache' = store /\ base' = None /\ obj' = None
        /\ outcome' = "none"
    BY <1>4 DEF ManagerCrash, Restart, EndPass
  <2>3. NodeOnRecord' => NodeOnRecord
    BY <2>2 DEF NodeOnRecord, Recorded
  <2> QED BY <2>1, <2>2, <2>3 DEF OrderInv
<1>5. CASE TeardownInfrastructure
  <2>1. /\ kfc # None /\ UNCHANGED <<kfcCache, secret>>
        /\ connected' = Connected' /\ UNCHANGED <<machineVars, orderVars>>
        /\ \A m \in Machines : store[m] = None
    BY <1>5 DEF TeardownInfrastructure, ClusterSide, C!UserDelete, C!Delete
  <2> QED BY <1>2, <2>1 DEF OrderInv, orderVars
<1>6. CASE OutOfOrder
  BY <1>6 DEF OutOfOrder, OrderInv
<1>7. CASE ProvideToken
  <2>1. /\ secret' = "token" /\ UNCHANGED <<kfc, kfcCache>>
        /\ connected' = Connected' /\ UNCHANGED <<machineVars, orderVars>>
    BY <1>7 DEF ProvideToken, ClusterSide, C!PutSecret
  <2> QED BY <1>2, <2>1 DEF OrderInv, orderVars
<1>8. CASE UNCHANGED <<vars, kfcVars, disorder>>
  <2>1. UNCHANGED <<kfc, kfcCache, secret, connected, store, cache, pc, who, base, obj,
                    outcome, disorder>>
    BY <1>8 DEF vars, kfcVars, apiVars, gateVars, passVars
  <2> QED BY <2>1 DEF OrderInv, Connected, NodeOnRecord, Recorded
<1> QED BY <1>1, <1>3, <1>4, <1>5, <1>6, <1>7, <1>8, ProviderKinds

\* The manager starts in order: the KairosFleetCluster is there, and what an earlier
\* build has claimed, it has claimed with the token.
LEMMA OrderInit == ASSUME ProviderInit PROVE OrderInv
<1>1. PICK e \in BOOLEAN :
        kfc = [owner |-> FALSE, deleting |-> FALSE, finalizer |-> FALSE,
               generation |-> 1, endpoint |-> e, provisioned |-> FALSE, ready |-> None]
  BY DEF ProviderInit, C!Init
<1>2. kfc # None /\ ~kfc.deleting /\ kfcCache = kfc
  <2>1. kfc \in C!Object
    BY <1>1 DEF C!Object
  <2>2. kfcCache = kfc
    BY DEF ProviderInit, C!Init
  <2> QED BY <1>1, <2>1, <2>2, NoClusterAssumption
<1>3. NodeOnRecord => Legacy # {}
  <2> SUFFICES ASSUME Legacy = {} PROVE ~NodeOnRecord
    OBVIOUS
  <2>1. CoreInit
    BY DEF ProviderInit
  <2>2. store = [m \in Machines |-> New] /\ cache = store /\ base = None /\ obj = None
    BY <2>1 DEF CoreInit
  <2> QED BY <2>2 DEF NodeOnRecord, Recorded, New
<1>4. connected = Connected /\ outcome = "none" /\ (Legacy # {} => secret = "token")
  BY DEF ProviderInit, CoreInit
<1> QED BY <1>2, <1>3, <1>4 DEF OrderInv

\* For any number of machines, nodes and mishaps: until somebody takes the
\* KairosFleetCluster or its Secret away, the cluster outlives its machines, in the
\* cache too, and whoever has recorded a node can reach AuroraBoot (OrderInv).
THEOREM OrderKept == ProviderSpec => []OrderInv
<1>1. TypeOK /\ C!TypeOK /\ ConfigInv /\ OrderInv /\ [ProviderNext]_providerVars => OrderInv'
  BY OrderNext
<1>2. ProviderInit => OrderInv
  BY OrderInit
<1> QED BY <1>1, <1>2, ProviderTypes, ProviderIsOpen, OpenRecords, PTL DEF ProviderSpec

\* A delete pass that has read what is stored works on an object that is there: a
\* deleted object goes away with its finalizer only.
DeletesWhatIsThere == pc = "delete" => store[who] # None

\* Every step keeps it so.
LEMMA ThereNext ==
  ASSUME "stale" \notin Mishaps, TypeOK, ClaimInv, FreshInv, DeletesWhatIsThere,
         [OpenNext]_vars
  PROVE  DeletesWhatIsThere'
<1> SUFFICES ASSUME pc' = "delete" PROVE store'[who'] # None
  BY DEF DeletesWhatIsThere
<1>1. ASSUME NEW m \in Machines, Reconcile(m) PROVE store'[who'] # None
  BY <1>1 DEF Reconcile, Mishap
<1>2. ASSUME UNCHANGED <<store, who, pc>> PROVE store'[who'] # None
  BY <1>2 DEF DeletesWhatIsThere
<1>3. ASSUME NEW m \in Machines, UserDelete(m) PROVE store'[who'] # None
  <2>1. pc = "delete" /\ who' = who
    BY <1>3 DEF UserDelete, passVars
  <2>2. who \in Machines /\ store[who] # None /\ store[who].deleting
    BY <2>1 DEF TypeOK, DeletesWhatIsThere, ClaimInv, FreshInv, AsRead
  <2>3. m # who
    BY <1>3, <2>2 DEF UserDelete
  <2> QED BY <1>3, <2>1, <2>2, <2>3 DEF UserDelete, TypeOK
<1>4. ASSUME NEW m \in Machines, Move(m) PROVE FALSE
  BY <1>4 DEF Move, passVars
<1>5. ASSUME NEW m \in Machines, Sync(m) PROVE store'[who'] # None
  BY <1>2, <1>5 DEF Sync, passVars
<1>6. CASE reconcileNormal \/ reconcileDelete
  BY <1>6, NormalFrame, DeleteFrame
<1>7. CASE PatchObject \/ PatchStatus \/ Interrupted
  BY <1>7 DEF PatchObject, PatchStatus, Interrupted, Restart, EndPass
<1>8. CASE \/ \E n \in Nodes : NodeStep(n) /\ UNCHANGED <<apiVars, passVars>>
           \/ UNCHANGED <<store, cache, passVars, fleetVars, tampered>>
  BY <1>2, <1>8 DEF apiVars, passVars
<1> QED BY <1>1, <1>3, <1>4, <1>5, <1>6, <1>7, <1>8, StepKinds

\* The disorder is remembered.
LEMMA DisorderStays == [ProviderNext]_providerVars /\ disorder => disorder'
BY ProviderKinds DEF orderVars, ManagerCrash, TeardownInfrastructure, ClusterSide,
   OutOfOrder, ProvideToken

\* The pass that would give up has an object in hand that is gone; a fresh one has not.
LEMMA ReachableNext ==
  ASSUME TypeOK, OrderInv', DeletesWhatIsThere, ReachableInOrder, [OpenNext]_vars,
         [ProviderNext]_providerVars
  PROVE  ReachableInOrder'
<1> SUFFICES ASSUME outcome' = "unreachable", ~disorder' PROVE FALSE
  BY DEF ReachableInOrder
<1>1. DeleteUnreachable
  BY GivesUp, DisorderStays DEF ReachableInOrder
<1>2. reconcileDelete /\ pc = "delete"
  BY <1>1 DEF reconcileDelete, DeleteUnreachable
<1>3. store'[who'] = store[who] /\ store[who] # None
  BY <1>2, DeleteFrame DEF DeletesWhatIsThere
<1> QED BY <1>3 DEF OrderInv

\* When passes read what is stored, no delete pass of a cluster that is taken down in
\* order gives up its node for want of a connection, whichever requests and patches fail
\* and whenever the manager restarts (ReachableInOrder).
THEOREM ReachableWhenFresh ==
  ASSUME "stale" \notin Mishaps
  PROVE  ProviderSpec => []ReachableInOrder
<1>1. TypeOK /\ ClaimInv /\ FreshInv /\ DeletesWhatIsThere /\ [OpenNext]_vars
        => DeletesWhatIsThere'
  BY ThereNext
<1>2. /\ TypeOK /\ OrderInv' /\ DeletesWhatIsThere /\ ReachableInOrder /\ [OpenNext]_vars
      /\ [ProviderNext]_providerVars
      => ReachableInOrder'
  BY ReachableNext
<1>3. ProviderInit => DeletesWhatIsThere /\ ReachableInOrder
  BY DEF ProviderInit, CoreInit, DeletesWhatIsThere, ReachableInOrder
<1>4. OpenSpec => [][OpenNext]_vars
  BY PTL DEF OpenSpec
<1>5. OpenSpec => []FreshInv
  BY OpenFresh
<1>6. ProviderSpec => []DeletesWhatIsThere
  BY <1>1, <1>3, <1>4, <1>5, ProviderIsOpen, OpenTypes, OpenClaims, PTL DEF ProviderSpec
<1> QED BY <1>2, <1>3, <1>4, <1>6, OrderKept, ProviderIsOpen, OpenTypes, PTL DEF ProviderSpec

\* Taken down in order, a cluster gives back every node: a machine goes away with its
\* node free, gone, or claimed under a key that a move has lost, or on AuroraBoot's
\* word that there is no such node (ReleasedInOrder).
THEOREM NodesReturned ==
  ASSUME "stale" \notin Mishaps
  PROVE  ProviderSpec => ReleasedInOrder
<1> DEFINE Step == \A m \in Machines :
                     store[m] # None /\ store'[m] = None /\ store[m].nodeID # None =>
                       \/ disorder
                       \/ ~HeldBy(store[m].nodeID, m)
                       \/ outcome = "missing" \/ ~Exists(store[m].nodeID)
                       \/ LegacyMoved(m, store[m])
<1>1. ASSUME TypeOK, ClaimInv, ConfigInv, FreshInv, OrderInv, [OpenNext]_vars
      PROVE  Step
  BY <1>1, GoneStep DEF LetGo, OrderInv
<1>2. OpenSpec => [][OpenNext]_vars
  BY PTL DEF OpenSpec
<1>3. OpenSpec => []FreshInv
  BY OpenFresh
<1> QED BY <1>1, <1>2, <1>3, OrderKept, ProviderIsOpen, OpenTypes, OpenClaims, OpenRecords,
        PTL DEF ReleasedInOrder
-----------------------------------------------------------------------------
(* What the machines promise, the manager keeps *)

\* With the cluster's controller beside them, the connection coming and going as that
\* controller, Cluster API and the operator make it, and restarts of both at once: nodes
\* are exclusive, commands go to the sender's own node, no reboot precedes its apply,
\* a provisioned machine has its config, a providerID stays, and the pool of nodes
\* behaves as NodePool says (reconcileNormal, reconcileDelete).
THEOREM ManagerKeepsPromises ==
  ProviderSpec => /\ [](NodeExclusive /\ RebootFollowsApply /\ ProvisionedHasConfig)
                  /\ CommandsToOwnNode
                  /\ ProviderIDImmutable
                  /\ ImplementsPool
BY ProviderIsOpen, OpenClaims, OneHolder, OpenReboots, OpenConfig, OpenCommands,
   OpenProviderID, OpenPool, PTL

\* When passes read what is stored, a machine with a providerID is left alone
\* (reconcileNormal).
THEOREM ManagerLeavesAlone ==
  ASSUME "stale" \notin Mishaps
  PROVE  ProviderSpec => SettledIsLeftAlone
<1>1. OpenSpec => SettledIsLeftAlone
  BY OpenSettled
<1> QED BY <1>1, ProviderIsOpen, PTL

\* When no mishap makes a pass repeat itself, a refused release has one of its two
\* explanations (reconcileDelete).
THEOREM ManagerExplainsMismatches ==
  ASSUME Mishaps \cap Repeats = {}
  PROVE  ProviderSpec => []MismatchExplained
<1>1. OpenSpec => []MismatchExplained
  BY OpenMismatches
<1> QED BY <1>1, ProviderIsOpen, PTL

\* And where no machine was claimed by an earlier build, retries keep their distance
\* (retryNotBeforeAnnotation).
THEOREM ManagerPacesRetries ==
  ASSUME Mishaps \cap Repeats = {}, Legacy = {}
  PROVE  ProviderSpec => []PacedRetries
<1>1. OpenSpec => []PacedRetries
  BY OpenRetries
<1> QED BY <1>1, ProviderIsOpen, PTL
=============================================================================
