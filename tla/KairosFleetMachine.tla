-------------------------- MODULE KairosFleetMachine --------------------------
(***************************************************************************)
(* KairosFleetMachineReconciler (internal/controller/                      *)
(* kairosfleetmachine_controller.go) against the Kubernetes API, its own   *)
(* informer cache and AuroraBoot.                                          *)
(*                                                                         *)
(* One worker reconciles the queued machines one at a time                 *)
(* (SetupWithManager leaves MaxConcurrentReconciles at 1).  A pass reads   *)
(* the object from the cache, makes one request that changes AuroraBoot,   *)
(* edits its copy, and leaves through the deferred patchHelper.Patch: one  *)
(* write for metadata and spec, then one for status, each a merge patch of *)
(* what the pass changed.  Users, nodes, the cache and crashes interleave  *)
(* between those steps.                                                    *)
(***************************************************************************)
EXTENDS AuroraBoot

CONSTANTS
    Legacy,       \* machines an earlier build claimed and configured
    Left,         \* how far it may have got with them: some of Stages
    RetryWindow,  \* retryCloudConfigRequeue and retryRebootRequeue, in ticks
    FreeTime      \* the clock runs this far even when nothing waits for it

ASSUME LegacyAssumption == Legacy \subseteq Machines
ASSUME TimeAssumption == RetryWindow \in Nat /\ FreeTime \in Nat

VARIABLES
    store,      \* store[m]: the object in the API server, None once it is gone
    cache,      \* cache[m]: the version the informer cache serves
    queue,      \* machines waiting in the work queue
    bootstrap,  \* bootstrap[m]: machine.spec.bootstrap.dataSecretName is set
    admitted,   \* admitted[m]: owner and cluster resolve and nothing is paused
    connected,  \* the KairosFleetCluster and its Secret give a connection
    pc,         \* where the worker is
    who,        \* the machine it reconciles
    base,       \* patchHelper's copy: the object as the pass read it
    obj,        \* the object as the pass leaves it
    again,      \* the pass asks to be run again (RequeueAfter or an error)
    outcome     \* how a delete pass came to drop the finalizer

worldVars == <<fleetVars, now, tampered>>
gateVars == <<bootstrap, admitted, connected>>
apiVars == <<store, cache, queue, gateVars>>
passVars == <<pc, who, base, obj, again, outcome>>
vars == <<worldVars, spent, apiVars, passVars>>

-----------------------------------------------------------------------------
(* The object: the annotations, spec and status fields the passes use.  The *)
(* Ready condition and the addresses mirror provisioned and are left out.   *)

MaybeTime == Nat \cup {None}
MaybeID == (Nodes \X Nat) \cup {None}
MaybeNode == Nodes \cup {None}

Object ==
    [uid         : Nat,                  \* metadata.uid, counted per machine
     deleting    : BOOLEAN,              \* metadata.deletionTimestamp
     finalizer   : BOOLEAN,
     nodeID      : MaybeNode,
     claimKey    : Keys \cup {None},
     applied     : BOOLEAN,              \* cloud-config-applied
     applyCmd    : MaybeID,              \* cloud-config-command-id
     rebootAt    : MaybeTime,            \* reboot-requested-at
     rebootCmd   : MaybeID,              \* reboot-command-id
     notBefore   : MaybeTime,            \* retry-not-before
     providerID  : MaybeNode,
     provisioned : BOOLEAN,
     failure     : BOOLEAN]              \* status.failureReason

ASSUME GoneAssumption == None \notin Object

New ==
    [uid |-> 0, deleting |-> FALSE, finalizer |-> FALSE, nodeID |-> None,
     claimKey |-> None, applied |-> FALSE, applyCmd |-> None, rebootAt |-> None,
     rebootCmd |-> None, notBefore |-> None, providerID |-> None,
     provisioned |-> FALSE, failure |-> FALSE]

\* apply-cloud-config handed to AuroraBoot; refused by the node, which an earlier
\* build recorded as a failureReason; or carried out, and the reboot requested.
Stages == {"handed", "refused", "rebooting"}

ASSUME LeftAssumption == Left \subseteq Stages

\* An earlier build recorded neither the claim key nor command IDs.
Claimed(n, left) ==
    [New EXCEPT !.finalizer = TRUE, !.nodeID = n, !.applied = TRUE,
                !.rebootAt = IF left = "rebooting" THEN 0 ELSE None,
                !.failure = (left = "refused")]

LeftCommands(m, left) ==
    LET sent(kind, p) == [kind |-> kind, phase |-> p, at |-> 0, by |-> m]
    IN  CASE left = "handed"  -> <<sent("apply", "Pending")>>
          [] left = "refused" -> <<sent("apply", "Failed")>>
          [] OTHER -> <<sent("apply", "Completed"), sent("reboot", "Pending")>>

\* Mutants of claimKeyFor: one key for all machines; the UID, whatever is recorded.
OneKey(m, o) == <<CHOOSE x \in Machines : TRUE, 0>>
UIDKey(m, o) == <<m, o.uid>>

claimKeyFor(m, o) == IF o.claimKey # None THEN o.claimKey ELSE <<m, o.uid>>

retryHeld(o) == o.notBefore # None /\ o.notBefore > now

\* Mutants: no window (RequeueAfter alone); the window opens backwards.
NoRetryWindow(o) == o
PastRetryWindow(o) == [o EXCEPT !.notBefore = Stamp(now) - RetryWindow]

openRetryWindow(o) == [o EXCEPT !.notBefore = Stamp(now + RetryWindow)]

\* Mutant: a machine that is not ready loses its providerID.
notReadyUnset(o) == [o EXCEPT !.provisioned = FALSE, !.providerID = None]

notReady(o) == [o EXCEPT !.provisioned = FALSE]

rejoinedAfterReboot(o) ==
    /\ ReportedOnline(o.nodeID)
    /\ o.rebootAt # None
    /\ heartbeat[o.nodeID] > o.rebootAt

\* commandState reads the recorded command, or without an ID the most recently
\* created one of the kind; of equally old ones the first listed stays.  A node
\* that is missing cannot be asked, which reads as "not yet".
selected(n, id, kind) ==
    IF id # None
      THEN {i \in DOMAIN cmds[n] : <<n, i>> = id}
      ELSE {i \in DOMAIN cmds[n] :
              /\ cmds[n][i].kind = kind
              /\ \A j \in DOMAIN cmds[n] :
                    cmds[n][j].kind = kind /\ j # i =>
                        \/ cmds[n][j].at < cmds[n][i].at
                        \/ cmds[n][j].at = cmds[n][i].at /\ i < j}

commandState(n, id, kind) ==
    IF Exists(n) THEN {cmds[n][i].phase : i \in selected(n, id, kind)} ELSE {}

Outcomes == {"none", "unclaimed", "released", "missing", "mismatch", "unreachable"}

TypeOK ==
    /\ FleetTypeOK
    /\ store \in [Machines -> Object \cup {None}]
    /\ cache \in [Machines -> Object \cup {None}]
    /\ queue \in SUBSET Machines
    /\ bootstrap \in [Machines -> BOOLEAN]
    /\ admitted \in [Machines -> BOOLEAN]
    /\ connected \in BOOLEAN
    /\ again \in BOOLEAN
    /\ outcome \in Outcomes
    /\ \/ pc = "idle" /\ who = None /\ base = None /\ obj = None
       \/ /\ pc \in {"normal", "readReboot", "delete", "patch", "patchStatus"}
          /\ who \in Machines /\ base \in Object /\ obj \in Object

\* The Machine controller has created the objects and set their owner.  A machine
\* of this build starts unclaimed; a legacy one holds a node of its own.
CoreInit ==
    /\ \E held \in [Legacy -> Nodes], left \in [Legacy -> Left] :
        /\ \A l1, l2 \in Legacy : held[l1] = held[l2] => l1 = l2
        /\ store = [m \in Machines |-> IF m \in Legacy THEN Claimed(held[m], left[m]) ELSE New]
        /\ claim = [n \in Nodes |->
                      IF \E l \in Legacy : held[l] = n
                        THEN <<CHOOSE l \in Legacy : held[l] = n, 0>> ELSE None]
        /\ cmds = [n \in Nodes |->
                     IF \E l \in Legacy : held[l] = n
                       THEN LET l == CHOOSE l \in Legacy : held[l] = n
                            IN  LeftCommands(l, left[l])
                       ELSE <<>>]
        /\ staged = [n \in Nodes |->
                       IF \E l \in Legacy : held[l] = n /\ left[l] = "rebooting"
                         THEN CHOOSE l \in Legacy : held[l] = n ELSE None]
    /\ cache = store
    /\ queue = Machines
    /\ bootstrap = [m \in Machines |-> m \in Legacy]
    /\ admitted = [m \in Machines |-> TRUE]
    /\ pc = "idle" /\ who = None /\ base = None /\ obj = None
    /\ again = FALSE /\ outcome = "none"
    /\ phase = [n \in Nodes |-> "Online"]
    /\ heartbeat = [n \in Nodes |-> 0]
    /\ running = [n \in Nodes |-> None]
    /\ now = 0 /\ tampered = {} /\ spent = 0

Init == CoreInit /\ connected = TRUE

-----------------------------------------------------------------------------
(* Reconcile *)

\* NotFound, no owner, no cluster, paused: the pass ends with nothing queued.  An
\* error of the cluster lookup is swallowed the same way ("lookup").
Ignore(m) ==
    /\ pc = "idle" /\ m \in queue
    /\ \/ (cache[m] = None \/ ~admitted[m]) /\ UNCHANGED spent
       \/ cache[m] # None /\ admitted[m] /\ Mishap("lookup")
    /\ queue' = queue \ {m}
    /\ UNCHANGED <<worldVars, store, cache, gateVars, passVars>>

\* Mutant: a machine with a failureReason is taken for lost and left alone.
ReconcileUnlessFailed(m) ==
    /\ pc = "idle" /\ m \in queue
    /\ cache[m] # None /\ admitted[m] /\ cache[m] = store[m]
    /\ ~cache[m].failure \/ cache[m].deleting
    /\ queue' = queue \ {m}
    /\ who' = m
    /\ base' = cache[m]
    /\ obj' = [cache[m] EXCEPT !.finalizer = TRUE]
    /\ pc' = IF cache[m].deleting THEN "delete" ELSE "normal"
    /\ again' = FALSE /\ outcome' = "none"
    /\ UNCHANGED <<worldVars, spent, store, cache, gateVars>>

\* The cache may lag behind the store ("stale").
Reconcile(m) ==
    /\ pc = "idle" /\ m \in queue
    /\ cache[m] # None /\ admitted[m]
    /\ \/ cache[m] = store[m] /\ UNCHANGED spent
       \/ cache[m] # store[m] /\ Mishap("stale")
    /\ queue' = queue \ {m}
    /\ who' = m
    /\ base' = cache[m]
    /\ obj' = [cache[m] EXCEPT !.finalizer = TRUE]
    /\ pc' = IF cache[m].deleting THEN "delete" ELSE "normal"
    /\ again' = FALSE /\ outcome' = "none"
    /\ UNCHANGED <<worldVars, store, cache, gateVars>>

\* return: the deferred patch comes next.
Return(o, retry) ==
    /\ obj' = o
    /\ again' = retry
    /\ pc' = "patch"
    /\ UNCHANGED <<apiVars, who, base, now, tampered>>

\* A request that fails before it reaches AuroraBoot ("error"), and one whose
\* effect stands although the reply is lost ("lost"): both return the error.
Fails(o) ==
    /\ Mishap("error")
    /\ Return(o, TRUE)
    /\ UNCHANGED <<fleetVars, outcome>>

LosesReply(o) == Mishap("lost") /\ Return(o, TRUE) /\ UNCHANGED outcome

Replies(o, retry) == Return(o, retry) /\ UNCHANGED <<spent, outcome>>

\* IsNotFound goes by the status alone, so a 404 that does not come from AuroraBoot
\* (a proxy in front of it, "stray404") counts as the node missing, too.
NotFound(n) ==
    \/ ~Exists(n) /\ UNCHANGED spent
    \/ Exists(n) /\ Mishap("stray404")

\* A pass that changes nothing in AuroraBoot.
Ends(o, retry) == Replies(o, retry) /\ UNCHANGED fleetVars

-----------------------------------------------------------------------------
(* reconcileNormal *)

Claiming == pc = "normal" /\ bootstrap[who] /\ connected /\ obj.nodeID = None
Applying == pc = "normal" /\ bootstrap[who] /\ connected /\ obj.nodeID # None
            /\ ~obj.applied
Rebooting == pc = "normal" /\ bootstrap[who] /\ connected /\ obj.nodeID # None
             /\ obj.applied /\ obj.rebootAt = None
Rejoining == pc = "normal" /\ bootstrap[who] /\ connected /\ obj.nodeID # None
             /\ obj.applied /\ obj.rebootAt # None

\* 1. No bootstrap data yet: the Machine watch brings the machine back.
WaitForBootstrap ==
    /\ pc = "normal" /\ ~bootstrap[who]
    /\ Ends(notReady(obj), FALSE)

\* fleetClientFor
WaitForConnection ==
    /\ pc = "normal" /\ bootstrap[who]
    /\ \/ ~connected /\ Ends(notReady(obj), TRUE)
       \/ connected /\ Fails(notReady(obj))

\* 2. Claim.  No requeue: the watch on the object brings it back.
ClaimNode ==
    /\ Claiming
    /\ \E n \in Claimable(claimKeyFor(who, obj)) :
        /\ ServeClaim(n, claimKeyFor(who, obj))
        /\ \/ Replies(notReady([obj EXCEPT !.nodeID = n,
                                           !.claimKey = claimKeyFor(who, obj)]), FALSE)
           \/ LosesReply(obj)
    /\ UNCHANGED <<phase, heartbeat, cmds, staged, running>>

\* Mutant: NoCapacity without a requeue.
WaitForCapacityOnce ==
    /\ Claiming
    /\ Claimable(claimKeyFor(who, obj)) = {}
    /\ Ends(notReady(obj), FALSE)

WaitForCapacity ==
    /\ Claiming
    /\ Claimable(claimKeyFor(who, obj)) = {}
    /\ Ends(notReady(obj), TRUE)

\* GroupNotFound is waited out; any other error is returned.
ClaimError ==
    /\ Claiming
    /\ \E o \in {obj, notReady(obj)} : Fails(o)

\* 3. Apply.  retry-not-before is dropped before the requests that can fail.
HoldApply ==
    /\ Applying /\ retryHeld(obj)
    /\ Ends(obj, TRUE)

ApplyCloudConfig ==
    /\ Applying /\ ~retryHeld(obj)
    /\ Exists(obj.nodeID)
    /\ ServeCommand(obj.nodeID, "apply", who)
    /\ \/ Replies(notReady([obj EXCEPT !.notBefore = None, !.applied = TRUE,
                                       !.applyCmd = NextID(obj.nodeID)]), TRUE)
       \/ LosesReply([obj EXCEPT !.notBefore = None])
    /\ UNCHANGED <<claim, phase, heartbeat, staged, running>>

\* The bootstrap secret cannot be read, or the node is gone (404).
ApplyError ==
    /\ Applying /\ ~retryHeld(obj)
    /\ \/ /\ ~Exists(obj.nodeID)
          /\ Ends([obj EXCEPT !.notBefore = None], TRUE)
       \/ Exists(obj.nodeID) /\ Fails([obj EXCEPT !.notBefore = None])

\* 4. Read the apply back, then reboot.
applyState == commandState(obj.nodeID, obj.applyCmd, "apply")

ApplyFailed ==
    /\ Rebooting /\ "Failed" \in applyState
    /\ Ends(openRetryWindow(notReady(
                 [obj EXCEPT !.failure = FALSE, !.applied = FALSE, !.applyCmd = None])),
               TRUE)

\* Mutant: the wait for the apply without a requeue.
AwaitApplyOnce ==
    /\ Rebooting /\ applyState \cap {"Completed", "Failed"} = {}
    /\ Ends(notReady(obj), FALSE)

\* A list error reads as "not yet" too.
AwaitApply ==
    /\ Rebooting
    /\ \/ /\ applyState \cap {"Completed", "Failed"} = {}
          /\ Ends(notReady(obj), TRUE)
       \/ applyState \cap {"Completed", "Failed"} # {} /\ Fails(notReady(obj))

HoldReboot ==
    /\ Rebooting /\ "Completed" \in applyState /\ retryHeld(obj)
    /\ Ends(obj, TRUE)

\* Mutant: the reboot does not wait for the apply to complete.
RebootAtOnce ==
    /\ Rebooting /\ ~retryHeld(obj)
    /\ Exists(obj.nodeID)
    /\ ServeCommand(obj.nodeID, "reboot", who)
    /\ Replies(notReady([obj EXCEPT !.notBefore = None, !.rebootAt = Stamp(now),
                                    !.rebootCmd = NextID(obj.nodeID)]), TRUE)
    /\ UNCHANGED <<claim, phase, heartbeat, staged, running>>

RequestReboot ==
    /\ Rebooting /\ "Completed" \in applyState /\ ~retryHeld(obj)
    /\ ServeCommand(obj.nodeID, "reboot", who)
    /\ \/ Replies(notReady([obj EXCEPT !.notBefore = None, !.rebootAt = Stamp(now),
                                       !.rebootCmd = NextID(obj.nodeID)]), TRUE)
       \/ LosesReply([obj EXCEPT !.notBefore = None])
    /\ UNCHANGED <<claim, phase, heartbeat, staged, running>>

\* A 404 of the second request, the node deleted since the first, is returned, too.
RebootError ==
    /\ Rebooting /\ "Completed" \in applyState /\ ~retryHeld(obj)
    /\ Fails([obj EXCEPT !.notBefore = None])

\* 5. Wait for the node to rejoin.
NodeMissing ==
    /\ Rejoining /\ NotFound(obj.nodeID)
    /\ Return(notReady([obj EXCEPT !.failure = TRUE]), FALSE)
    /\ UNCHANGED <<fleetVars, outcome>>

\* Mutant: any error of GetNode counts as the node missing.
FailOnAnyError == Rejoining /\ Fails(notReady([obj EXCEPT !.failure = TRUE]))

GetNodeError == Rejoining /\ Fails(obj)

AwaitRejoin ==
    /\ Rejoining /\ Exists(obj.nodeID) /\ ~rejoinedAfterReboot(obj)
    /\ ~ReportedOnline(obj.nodeID)
    /\ Ends(notReady(obj), TRUE)

\* rebootFailed asks for the commands in a second request.
AskReboot ==
    /\ Rejoining /\ ~rejoinedAfterReboot(obj)
    /\ ReportedOnline(obj.nodeID)
    /\ pc' = "readReboot"
    /\ UNCHANGED <<worldVars, spent, apiVars, who, base, obj, again, outcome>>

rebootState == commandState(obj.nodeID, obj.rebootCmd, "reboot")

RebootFailed ==
    /\ pc = "readReboot" /\ "Failed" \in rebootState
    /\ Ends(openRetryWindow(notReady(
                 [obj EXCEPT !.rebootAt = None, !.rebootCmd = None])), TRUE)

RebootPending ==
    /\ pc = "readReboot"
    /\ \/ "Failed" \notin rebootState /\ Ends(notReady(obj), TRUE)
       \/ "Failed" \in rebootState /\ Fails(notReady(obj))

\* Mutant: the reboot markers are tidied away once the machine is provisioned.
ProvisionTidily ==
    /\ Rejoining /\ rejoinedAfterReboot(obj)
    /\ Ends([obj EXCEPT !.providerID = obj.nodeID, !.provisioned = TRUE,
                           !.rebootAt = None, !.rebootCmd = None], FALSE)

\* 6. Provisioned.
Provision ==
    /\ Rejoining /\ rejoinedAfterReboot(obj)
    /\ Ends([obj EXCEPT !.providerID = obj.nodeID, !.provisioned = TRUE], FALSE)

reconcileNormal ==
    \/ WaitForBootstrap \/ WaitForConnection
    \/ ClaimNode \/ WaitForCapacity \/ ClaimError
    \/ HoldApply \/ ApplyCloudConfig \/ ApplyError
    \/ ApplyFailed \/ AwaitApply \/ HoldReboot \/ RequestReboot \/ RebootError
    \/ NodeMissing \/ GetNodeError \/ AwaitRejoin
    \/ AskReboot \/ RebootFailed \/ RebootPending
    \/ Provision

-----------------------------------------------------------------------------
(* reconcileDelete *)

\* RemoveFinalizer; how records the branch that led there.
DropFinalizer(how) ==
    /\ Return([obj EXCEPT !.finalizer = FALSE], FALSE)
    /\ outcome' = how

DeleteUnclaimed ==
    /\ pc = "delete" /\ obj.nodeID = None
    /\ DropFinalizer("unclaimed")
    /\ UNCHANGED <<fleetVars, spent>>

\* Mutant: an unresolvable connection is waited for.
DeleteWaits ==
    /\ pc = "delete" /\ obj.nodeID # None /\ ~connected
    /\ Ends(obj, TRUE)

\* isPermanentlyUnresolvable: nothing is left to release the node with.
DeleteUnreachable ==
    /\ pc = "delete" /\ obj.nodeID # None /\ ~connected
    /\ DropFinalizer("unreachable")
    /\ UNCHANGED <<fleetVars, spent>>

\* Mutant: the release asks for the node under whatever key holds it.
ReleaseTheirs ==
    /\ pc = "delete" /\ obj.nodeID # None /\ connected
    /\ Exists(obj.nodeID)
    /\ ServeRelease(obj.nodeID)
    /\ DropFinalizer("released")
    /\ UNCHANGED <<spent, phase, heartbeat, cmds, staged, running>>

ReleaseNode ==
    /\ pc = "delete" /\ obj.nodeID # None /\ connected
    /\ Releasable(obj.nodeID, claimKeyFor(who, obj))
    /\ ServeRelease(obj.nodeID)
    /\ \/ DropFinalizer("released") /\ UNCHANGED spent
       \/ LosesReply(obj)
    /\ UNCHANGED <<phase, heartbeat, cmds, staged, running>>

ReleaseMismatch ==
    /\ pc = "delete" /\ obj.nodeID # None /\ connected
    /\ Mismatched(obj.nodeID, claimKeyFor(who, obj))
    /\ DropFinalizer("mismatch")
    /\ UNCHANGED <<fleetVars, spent>>

ReleaseMissing ==
    /\ pc = "delete" /\ obj.nodeID # None /\ connected
    /\ NotFound(obj.nodeID)
    /\ DropFinalizer("missing")
    /\ UNCHANGED fleetVars

\* Mutant: a failed release does not keep the finalizer.
DeleteAnyway ==
    /\ pc = "delete" /\ obj.nodeID # None
    /\ Mishap("error")
    /\ Return([obj EXCEPT !.finalizer = FALSE], FALSE)
    /\ outcome' = "released"
    /\ UNCHANGED fleetVars

\* Mutant: any error of the connection is taken for a permanent one.
DeleteGivesUp ==
    /\ pc = "delete" /\ obj.nodeID # None
    /\ Mishap("error")
    /\ DropFinalizer("unreachable")
    /\ UNCHANGED fleetVars

\* A transient read error of the connection, or a failed request.
DeleteError ==
    /\ pc = "delete" /\ obj.nodeID # None
    /\ Fails(obj)

reconcileDelete ==
    \/ DeleteUnclaimed \/ DeleteUnreachable \/ ReleaseNode
    \/ ReleaseMismatch \/ ReleaseMissing \/ DeleteError

-----------------------------------------------------------------------------
(* patchHelper.Patch, deferred by every pass.  Each write carries only the   *)
(* fields the pass changed; what others wrote meanwhile stays.               *)

merged(f) == IF obj[f] # base[f] THEN obj[f] ELSE store[who][f]

WithStatus(o, p, f) == [o EXCEPT !.provisioned = p, !.failure = f]

metaChanged == WithStatus(obj, base.provisioned, base.failure) # base
statusChanged == obj.provisioned # base.provisioned \/ obj.failure # base.failure

patched ==
    [uid |-> store[who].uid, deleting |-> store[who].deleting,
     finalizer |-> merged("finalizer"), nodeID |-> merged("nodeID"),
     claimKey |-> merged("claimKey"), applied |-> merged("applied"),
     applyCmd |-> merged("applyCmd"), rebootAt |-> merged("rebootAt"),
     rebootCmd |-> merged("rebootCmd"), notBefore |-> merged("notBefore"),
     providerID |-> merged("providerID"),
     provisioned |-> store[who].provisioned, failure |-> store[who].failure]

\* The API server removes an object whose last finalizer goes.
Stored(o) == IF o.deleting /\ ~o.finalizer THEN None ELSE o

PatchObject ==
    /\ pc = "patch"
    /\ \/ /\ metaChanged /\ store[who] # None
          /\ store' = [store EXCEPT ![who] = Stored(patched)]
          /\ UNCHANGED <<again, spent>>
       \/ /\ metaChanged
          /\ (store[who] = None /\ UNCHANGED spent) \/ Mishap("patch")
          /\ again' = TRUE /\ UNCHANGED store
       \/ ~metaChanged /\ UNCHANGED <<store, again, spent>>
    /\ pc' = "patchStatus"
    /\ UNCHANGED <<worldVars, cache, queue, gateVars, who, base, obj, outcome>>

EndPass ==
    /\ pc' = "idle" /\ who' = None /\ base' = None /\ obj' = None
    /\ again' = FALSE /\ outcome' = "none"

PatchStatus ==
    /\ pc = "patchStatus"
    /\ LET requeued(retry) == queue' = IF retry THEN queue \cup {who} ELSE queue
       IN  \/ /\ statusChanged /\ store[who] # None
              /\ store' = [store EXCEPT ![who] =
                    WithStatus(@, merged("provisioned"), merged("failure"))]
              /\ requeued(again) /\ UNCHANGED spent
           \/ /\ statusChanged
              /\ (store[who] = None /\ UNCHANGED spent) \/ Mishap("patch")
              /\ requeued(TRUE) /\ UNCHANGED store
           \/ /\ ~statusChanged
              /\ requeued(again) /\ UNCHANGED <<store, spent>>
    /\ EndPass
    /\ UNCHANGED <<worldVars, cache, gateVars>>

Worker == reconcileNormal \/ reconcileDelete \/ PatchObject \/ PatchStatus

\* The manager restarts, or another replica takes over: the pass is lost, the
\* cache is read afresh and every object is queued.
Restart ==
    /\ EndPass
    /\ cache' = store
    /\ queue' = {m \in Machines : store[m] # None}
    /\ UNCHANGED <<worldVars, store, bootstrap, admitted>>

Crash == pc # "idle" /\ Mishap("crash") /\ Restart /\ UNCHANGED connected

-----------------------------------------------------------------------------
(* The rest of the management cluster. *)

\* A watch event of the object: the cache advances and the machine is queued.
Sync(m) ==
    /\ cache[m] # store[m]
    /\ cache' = [cache EXCEPT ![m] = store[m]]
    /\ queue' = queue \cup {m}
    /\ UNCHANGED <<worldVars, spent, store, gateVars, passVars>>

\* Any event of the owner Machine queues its infrastructure object.
Enqueue(m) == queue' = queue \cup {m}

MachineEvent(m) ==
    /\ store[m] # None /\ m \notin queue
    /\ Enqueue(m)
    /\ UNCHANGED <<worldVars, spent, store, cache, gateVars, passVars>>

PublishBootstrap(m) ==
    /\ ~bootstrap[m]
    /\ bootstrap' = [bootstrap EXCEPT ![m] = TRUE]
    /\ Enqueue(m)
    /\ UNCHANGED <<worldVars, spent, store, cache, admitted, connected, passVars>>

\* A pause, of the object or of its Cluster, and its end.  There is no watch on
\* Clusters: the end of the Cluster's pause queues the machine only if the object
\* or its Machine has an event, too ("unwatched": neither has).
Unpause(m) ==
    /\ ~admitted[m]
    /\ admitted' = [admitted EXCEPT ![m] = TRUE]
    /\ \/ Enqueue(m) /\ UNCHANGED spent
       \/ Mishap("unwatched") /\ UNCHANGED queue
    /\ UNCHANGED <<worldVars, store, cache, bootstrap, connected, passVars>>

Pause(m) ==
    /\ admitted[m]
    /\ Mishap("pause")
    /\ admitted' = [admitted EXCEPT ![m] = FALSE]
    /\ UNCHANGED <<worldVars, store, cache, queue, bootstrap, connected, passVars>>

UserDelete(m) ==
    /\ store[m] # None /\ ~store[m].deleting
    /\ store' = [store EXCEPT ![m] = Stored([@ EXCEPT !.deleting = TRUE])]
    /\ UNCHANGED <<worldVars, spent, cache, queue, gateVars, passVars>>

\* The KairosFleetCluster or its Secret is deleted, or loses url or token.
Disconnect ==
    /\ connected
    /\ Mishap("disconnect")
    /\ connected' = FALSE
    /\ UNCHANGED <<worldVars, store, cache, queue, bootstrap, admitted, passVars>>

Reconnect ==
    /\ ~connected
    /\ connected' = TRUE
    /\ UNCHANGED <<worldVars, spent, store, cache, queue, bootstrap, admitted,
                   passVars>>

\* clusterctl move, or a backup restored: a new UID, metadata and spec kept,
\* status dropped.  Machines move while they are paused.
Move(m) ==
    /\ pc = "idle"
    /\ store[m] # None /\ ~store[m].deleting
    /\ Mishap("move")
    /\ store' = [store EXCEPT ![m] =
                    WithStatus([store[m] EXCEPT !.uid = @ + 1], FALSE, FALSE)]
    /\ cache' = [cache EXCEPT ![m] = store'[m]]
    /\ queue' = queue \cup {m}
    /\ UNCHANGED <<worldVars, gateVars, passVars>>

\* The clock runs to FreeTime, and on while a recorded time lies ahead.
Tick ==
    /\ \/ now < FreeTime
       \/ \E m \in Machines :
            /\ store[m] # None
            /\ \/ store[m].rebootAt # None /\ store[m].rebootAt >= now
               \/ store[m].notBefore # None /\ store[m].notBefore > now
    /\ now' = now + 1
    /\ UNCHANGED <<fleetVars, tampered, spent, apiVars, passVars>>

\* The controller with its queue and cache, the clock and the nodes.
Core ==
    \/ \E m \in Machines : Ignore(m) \/ Reconcile(m) \/ Sync(m) \/ MachineEvent(m)
    \/ Worker
    \/ Tick
    \/ \E n \in Nodes : NodeStep(n) /\ UNCHANGED <<apiVars, passVars>>

Next ==
    \/ Core
    \/ \E m \in Machines :
        PublishBootstrap(m) \/ Unpause(m) \/ Pause(m) \/ UserDelete(m) \/ Move(m)
    \/ Crash
    \/ Disconnect
    \/ Reconnect

Spec == Init /\ [][Next]_vars

\* The work queue is first-in first-out, so no queued machine is passed over for
\* ever; a pass runs to its end; watches deliver; agents poll, report and come back
\* up; time passes.
CoreFairness ==
    /\ \A m \in Machines : SF_vars(Reconcile(m)) /\ WF_vars(Sync(m))
    /\ WF_vars(Worker)
    /\ WF_vars(Tick)
    /\ \A n \in Nodes :
        /\ WF_vars(ExecuteApply(n) /\ UNCHANGED <<apiVars, passVars>>)
        /\ WF_vars(ExecuteReboot(n) /\ UNCHANGED <<apiVars, passVars>>)
        /\ WF_vars(Boot(n) /\ UNCHANGED <<apiVars, passVars>>)
        /\ WF_vars(Heartbeat(n) /\ UNCHANGED <<apiVars, passVars>>)

\* Bootstrap data is published, and pauses end.
Fairness ==
    /\ CoreFairness
    /\ \A m \in Machines : WF_vars(PublishBootstrap(m)) /\ WF_vars(Unpause(m))

FairSpec == Spec /\ Fairness
=============================================================================
