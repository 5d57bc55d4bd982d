-------------------------- MODULE KairosFleetCluster --------------------------
(***************************************************************************)
(* KairosFleetClusterReconciler (internal/controller/                      *)
(* kairosfleetcluster_controller.go): one KairosFleetCluster, the Secret   *)
(* with its admin token, and the operator who edits both.  A pass reads    *)
(* the object from the cache, judges the connection and the endpoint, and  *)
(* leaves through the deferred patchHelper.Patch, metadata first and then  *)
(* status, as in KairosFleetMachine.                                       *)
(***************************************************************************)
EXTENDS Naturals

CONSTANTS
    None,        \* the object is gone, or has no condition yet
    MaxEdits,    \* spec updates and deletes of the object (metadata.generation)
    Mishaps,     \* the kinds of mishap a run admits
    MaxMishaps   \* and how many of them it admits together

ASSUME EditsAssumption == MaxEdits \in Nat

VARIABLES
    store,    \* the object in the API server
    cache,    \* the version the informer cache serves
    queued,   \* the object waits in the work queue
    paused,   \* the Cluster or the object is paused
    secret,   \* the admin-token Secret
    pc,       \* where the worker is
    base,     \* patchHelper's copy
    obj,      \* the object as the pass leaves it
    again,    \* the pass asks to be run again
    spent     \* mishaps so far

passVars == <<pc, base, obj, again>>
vars == <<store, cache, queued, paused, secret, passVars, spent>>

Reasons == {"AuroraBootConnectionNotReady", "WaitingForControlPlaneEndpoint",
            "Provisioned"}

\* The Ready condition: its reason (it is True for "Provisioned" only) and its
\* observedGeneration.
Condition == [reason : Reasons, observed : Nat]

Object ==
    [owner       : BOOLEAN,   \* the Cluster controller has set its owner reference
     deleting    : BOOLEAN,
     finalizer   : BOOLEAN,
     generation  : Nat,
     endpoint    : BOOLEAN,   \* spec.controlPlaneEndpoint.host is set
     provisioned : BOOLEAN,
     ready       : Condition \cup {None}]

ASSUME GoneAssumption == None \notin Object /\ None \notin Condition

Secrets == {"absent", "empty", "token"}

TypeOK ==
    /\ store \in Object \cup {None}
    /\ cache \in Object \cup {None}
    /\ queued \in BOOLEAN
    /\ paused \in BOOLEAN
    /\ secret \in Secrets
    /\ again \in BOOLEAN
    /\ spent \in Nat
    /\ \/ pc = "idle" /\ base = None /\ obj = None
       \/ pc \in {"reconcile", "patch", "patchStatus"} /\ base \in Object /\ obj \in Object

\* Created with or without its endpoint and its Secret.
Init ==
    /\ \E e \in BOOLEAN :
        store = [owner |-> FALSE, deleting |-> FALSE, finalizer |-> FALSE,
                 generation |-> 1, endpoint |-> e, provisioned |-> FALSE, ready |-> None]
    /\ cache = store
    /\ secret \in {"absent", "token"}
    /\ queued = TRUE /\ paused = FALSE
    /\ pc = "idle" /\ base = None /\ obj = None /\ again = FALSE
    /\ spent = 0

Mishap(kind) == /\ kind \in Mishaps
                /\ spent < MaxMishaps
                /\ spent' = spent + 1

-----------------------------------------------------------------------------
(* Reconcile *)

Admitted == cache # None /\ cache.owner /\ ~paused

\* NotFound, no owner yet, paused.
Ignore ==
    /\ pc = "idle" /\ queued /\ ~Admitted
    /\ queued' = FALSE
    /\ UNCHANGED <<store, cache, paused, secret, passVars, spent>>

Reconcile ==
    /\ pc = "idle" /\ queued /\ Admitted
    /\ \/ cache = store /\ UNCHANGED spent
       \/ cache # store /\ Mishap("stale")
    /\ queued' = FALSE
    /\ base' = cache
    /\ obj' = [cache EXCEPT !.finalizer = TRUE]
    /\ pc' = "reconcile"
    /\ again' = FALSE
    /\ UNCHANGED <<store, cache, paused, secret>>

Return(o, retry) ==
    /\ obj' = o
    /\ again' = retry
    /\ pc' = "patch"
    /\ UNCHANGED <<store, cache, queued, paused, secret, base>>

\* Mutants: observedGeneration is left out; it is that of the object as it is now.
setConditionUnstamped(o, reason) ==
    [o EXCEPT !.ready = [reason |-> reason, observed |-> None],
              !.provisioned = (reason = "Provisioned")]
setConditionLatest(o, reason) ==
    [o EXCEPT !.ready = [reason |-> reason, observed |-> IF store = None
                            THEN o.generation ELSE store.generation],
              !.provisioned = (reason = "Provisioned")]

\* setCondition stamps the generation of the object the pass read.
setCondition(o, reason) ==
    [o EXCEPT !.ready = [reason |-> reason, observed |-> o.generation],
              !.provisioned = (reason = "Provisioned")]

\* Mutant: the connection is resolved before the delete branch, and waited for.
ReconcileDeleteConnected ==
    /\ pc = "reconcile" /\ base.deleting
    /\ \/ secret = "token" /\ Return([obj EXCEPT !.finalizer = FALSE], FALSE)
       \/ secret # "token" /\ Return(obj, TRUE)
    /\ UNCHANGED spent

\* Nothing to tear down: machines release their own nodes.
ReconcileDelete ==
    /\ pc = "reconcile" /\ base.deleting
    /\ Return([obj EXCEPT !.finalizer = FALSE], FALSE)
    /\ UNCHANGED spent

\* Mutant: the next pass is left to a watch, but Secrets are not watched.
ConnectionNotReadyOnce ==
    /\ pc = "reconcile" /\ ~base.deleting
    /\ \/ secret # "token" /\ UNCHANGED spent
       \/ secret = "token" /\ Mishap("error")
    /\ Return(setCondition(obj, "AuroraBootConnectionNotReady"), FALSE)

\* Mutant: the status is left as it was.
ConnectionNotReadySilently ==
    /\ pc = "reconcile" /\ ~base.deleting
    /\ \/ secret # "token" /\ UNCHANGED spent
       \/ secret = "token" /\ Mishap("error")
    /\ Return(obj, TRUE)

\* resolveFleetClient fails: no Secret, no token in it, or a read error.
ConnectionNotReady ==
    /\ pc = "reconcile" /\ ~base.deleting
    /\ \/ secret # "token" /\ UNCHANGED spent
       \/ secret = "token" /\ Mishap("error")
    /\ Return(setCondition(obj, "AuroraBootConnectionNotReady"), TRUE)

\* Mutant: the wait for the endpoint leaves the status as it was.
WaitForEndpointSilently ==
    /\ pc = "reconcile" /\ ~base.deleting /\ secret = "token" /\ ~obj.endpoint
    /\ Return(obj, FALSE)
    /\ UNCHANGED spent

WaitForEndpoint ==
    /\ pc = "reconcile" /\ ~base.deleting /\ secret = "token" /\ ~obj.endpoint
    /\ Return(setCondition(obj, "WaitingForControlPlaneEndpoint"), FALSE)
    /\ UNCHANGED spent

\* Mutant: the endpoint is not asked for.
ProvisionAnyway ==
    /\ pc = "reconcile" /\ ~base.deleting /\ secret = "token"
    /\ Return(setCondition(obj, "Provisioned"), FALSE)
    /\ UNCHANGED spent

Provision ==
    /\ pc = "reconcile" /\ ~base.deleting /\ secret = "token" /\ obj.endpoint
    /\ Return(setCondition(obj, "Provisioned"), FALSE)
    /\ UNCHANGED spent

-----------------------------------------------------------------------------
(* patchHelper.Patch *)

Stored(o) == IF o.deleting /\ ~o.finalizer THEN None ELSE o

PatchObject ==
    /\ pc = "patch"
    /\ LET changed == obj.finalizer # base.finalizer
       IN  \/ /\ changed /\ store # None
              /\ store' = Stored([store EXCEPT !.finalizer = obj.finalizer])
              /\ UNCHANGED <<again, spent>>
           \/ /\ changed
              /\ (store = None /\ UNCHANGED spent) \/ Mishap("patch")
              /\ again' = TRUE /\ UNCHANGED store
           \/ ~changed /\ UNCHANGED <<store, again, spent>>
    /\ pc' = "patchStatus"
    /\ UNCHANGED <<cache, queued, paused, secret, base, obj>>

EndPass == pc' = "idle" /\ base' = None /\ obj' = None /\ again' = FALSE

PatchStatus ==
    /\ pc = "patchStatus"
    /\ LET changed == obj.provisioned # base.provisioned \/ obj.ready # base.ready
           merged(f) == IF obj[f] # base[f] THEN obj[f] ELSE store[f]
       IN  \/ /\ changed /\ store # None
              /\ store' = [store EXCEPT !.provisioned = merged("provisioned"),
                                        !.ready = merged("ready")]
              /\ queued' = (queued \/ again) /\ UNCHANGED spent
           \/ /\ changed
              /\ (store = None /\ UNCHANGED spent) \/ Mishap("patch")
              /\ queued' = TRUE /\ UNCHANGED store
           \/ /\ ~changed
              /\ queued' = (queued \/ again) /\ UNCHANGED <<store, spent>>
    /\ EndPass
    /\ UNCHANGED <<cache, paused, secret>>

Worker ==
    \/ ReconcileDelete \/ ConnectionNotReady \/ WaitForEndpoint \/ Provision
    \/ PatchObject \/ PatchStatus

Restart ==
    /\ EndPass
    /\ cache' = store
    /\ queued' = (store # None)
    /\ UNCHANGED <<store, paused, secret>>

Crash == pc # "idle" /\ Mishap("crash") /\ Restart

-----------------------------------------------------------------------------
(* The operator and the rest of the management cluster. *)

\* A watch event of the object.
Sync ==
    /\ cache # store
    /\ cache' = store
    /\ queued' = TRUE
    /\ UNCHANGED <<store, paused, secret, passVars, spent>>

\* Any event of the Cluster queues its infrastructure object.
ClusterEvent ==
    /\ store # None /\ ~queued
    /\ queued' = TRUE
    /\ UNCHANGED <<store, cache, paused, secret, passVars, spent>>

SetOwner ==
    /\ store # None /\ ~store.owner
    /\ store' = [store EXCEPT !.owner = TRUE]
    /\ UNCHANGED <<cache, queued, paused, secret, passVars, spent>>

Pause ==
    /\ ~paused /\ Mishap("pause")
    /\ paused' = TRUE
    /\ UNCHANGED <<store, cache, queued, secret, passVars>>

Unpause ==
    /\ paused
    /\ paused' = FALSE
    /\ queued' = TRUE
    /\ UNCHANGED <<store, cache, secret, passVars, spent>>

EditEndpoint ==
    /\ store # None /\ store.generation < MaxEdits
    /\ \E e \in BOOLEAN \ {store.endpoint} :
        store' = [store EXCEPT !.endpoint = e, !.generation = @ + 1]
    /\ UNCHANGED <<cache, queued, paused, secret, passVars, spent>>

Delete ==
    /\ store # None /\ ~store.deleting
    /\ store' = Stored([store EXCEPT !.deleting = TRUE, !.generation = @ + 1])
    /\ UNCHANGED <<cache, queued, paused, secret, passVars>>

UserDelete == Delete /\ UNCHANGED spent

\* The Secret is created, emptied, filled or deleted.  No watch reports it.
PutSecret(s) ==
    /\ secret # s
    /\ secret' = s
    /\ UNCHANGED <<store, cache, queued, paused, passVars>>

EditSecret == \E s \in Secrets : PutSecret(s) /\ UNCHANGED spent

Next ==
    \/ Ignore \/ Reconcile \/ Worker \/ Crash \/ Sync \/ ClusterEvent \/ SetOwner
    \/ Pause \/ Unpause \/ EditEndpoint \/ UserDelete \/ EditSecret

Spec == Init /\ [][Next]_vars

\* A queued object is reconciled, a pass ends, watches deliver.
ControllerFairness == WF_vars(Reconcile) /\ WF_vars(Worker) /\ WF_vars(Sync)

\* The Cluster controller sets the owner, pauses end.
Fairness == ControllerFairness /\ WF_vars(SetOwner) /\ WF_vars(Unpause)

FairSpec == Spec /\ Fairness

-----------------------------------------------------------------------------
(* Properties *)

\* A Ready condition that is True and up to date (observedGeneration is the
\* generation of the object) is about a spec with an endpoint, also when the pass
\* that wrote it worked on an older version of the object (setCondition).
CurrentVerdict ==
    store # None /\ store.ready # None =>
        (store.ready.reason = "Provisioned" /\ store.ready.observed = store.generation
            => store.endpoint)

\* Two versions of the object of the same generation have the same spec, and
\* the older version has no newer generation.
Older(o) ==
    o # None /\ store # None =>
        /\ o.generation =< store.generation
        /\ o.generation = store.generation => o.endpoint = store.endpoint

\* A view's condition is about the spec of its generation, or an earlier one's.
Witnessed(o) ==
    o # None /\ o.ready # None =>
        /\ o.ready.observed =< o.generation
        /\ o.ready.reason = "Provisioned" /\ o.ready.observed = o.generation => o.endpoint

\* Why CurrentVerdict holds: the copies a pass works on (Reconcile, patchHelper)
\* are older versions, and each carries a condition about its own spec.
VerdictInv ==
    /\ Witnessed(store) /\ Witnessed(cache) /\ Older(cache)
    /\ pc # "idle" =>
        /\ Witnessed(obj) /\ Older(base)
        /\ obj.generation = base.generation /\ obj.endpoint = base.endpoint

\* "Waiting for a valid AuroraBoot connection", "Waiting for spec.controlPlaneEndpoint
\* to be set": once both are there to stay, the cluster is reported provisioned for
\* good, although nothing watches the Secret; provisioned and the Ready condition
\* then agree, whatever finitely many failures and stale reads preceded.
EventuallyReady ==
    <>[](secret = "token" /\ store # None /\ ~store.deleting /\ store.endpoint) =>
        <>[](/\ store # None /\ store.provisioned
             /\ store.ready = [reason |-> "Provisioned", observed |-> store.generation])

\* "status.initialization.provisioned gates on it being set": with the endpoint
\* gone for good the cluster does not stay provisioned.
GatedOnEndpoint ==
    <>[](store # None /\ ~store.deleting /\ ~store.endpoint) => 
        <>[](store # None /\ ~store.provisioned)

\* "The admin-token Secret must exist": a cluster whose token has gone for good does
\* not stay reported provisioned.  No watch and no requeue looks after the Secret of
\* a provisioned cluster; this rests on events that keep coming, at the latest from
\* the resync of the informer cache.
GatedOnConnection ==
    WF_vars(ClusterEvent) =>
        (<>[](secret # "token" /\ store # None /\ ~store.deleting) =>
            <>[](store # None /\ ~store.provisioned))

\* Deletion of the cluster completes, with or without its Secret.
ClusterDeletionCompletes ==
    (store # None /\ store.deleting) ~> store = None
=============================================================================
