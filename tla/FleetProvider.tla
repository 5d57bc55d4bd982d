---------------------------- MODULE FleetProvider ----------------------------
(***************************************************************************)
(* The provider as one manager runs it: KairosFleetMachine for the         *)
(* machines and KairosFleetCluster for the cluster they belong to.  The    *)
(* two controllers share the process, the informer cache and AuroraBoot's  *)
(* admin token, and never call each other: a machine pass reads the cached *)
(* KairosFleetCluster and its Secret (fleetClientFor), and Cluster API,    *)
(* outside this repository, drives both sides.  Pauses, moves, the         *)
(* deletion of single machines and edits of the endpoint are left to the   *)
(* modules of the parts.                                                   *)
(***************************************************************************)
EXTENDS FleetMachineProperties

VARIABLES
    kfc, kfcCache, kfcQueued,           \* the KairosFleetCluster, as in its module
    kfcPaused, secret,
    kfcPc, kfcBase, kfcObj, kfcAgain,
    teardown,    \* the Cluster is being deleted
    disorder     \* the cluster or its Secret was deleted before its machines

C == INSTANCE KairosFleetCluster WITH
        store <- kfc, cache <- kfcCache, queued <- kfcQueued, paused <- kfcPaused,
        pc <- kfcPc, base <- kfcBase, obj <- kfcObj, again <- kfcAgain,
        MaxEdits <- 0

ASSUME NoClusterAssumption == None \notin C!Object

kfcVars == <<kfc, kfcCache, kfcQueued, kfcPaused, secret, kfcPc, kfcBase, kfcObj, kfcAgain>>
orderVars == <<teardown, disorder>>
machineVars == <<worldVars, store, cache, queue, bootstrap, admitted, passVars>>
providerVars == <<vars, kfcVars, orderVars>>

\* fleetClientFor and fleetClientForDelete succeed.
Connected == kfcCache # None /\ secret = "token"

\* What an earlier build has claimed, it has claimed with the token.
ProviderInit ==
    /\ C!Init /\ kfc.endpoint
    /\ CoreInit
    /\ Legacy # {} => secret = "token"
    /\ connected = Connected
    /\ teardown = FALSE /\ disorder = FALSE

\* A step of the machines' side, of the cluster's side.
MachineSide(A) == A /\ UNCHANGED <<kfcVars, orderVars>>
ClusterSide(A) == A /\ connected' = Connected' /\ UNCHANGED <<machineVars, orderVars>>

\* Both controllers go down together.
ManagerCrash ==
    /\ pc # "idle" \/ kfcPc # "idle"
    /\ Mishap("crash")
    /\ C!Restart
    /\ Restart
    /\ connected' = Connected'
    /\ UNCHANGED orderVars

-----------------------------------------------------------------------------
(* Cluster API and the operator *)

\* Bootstrap data waits for the infrastructure cluster.
Bootstrap(m) ==
    /\ kfc # None /\ kfc.provisioned
    /\ MachineSide(PublishBootstrap(m))

DeleteCluster ==
    /\ ~teardown
    /\ teardown' = TRUE
    /\ UNCHANGED <<vars, kfcVars, disorder>>

\* The Cluster controller deletes the machines, and the infrastructure cluster
\* once they are gone.
TeardownMachine(m) == teardown /\ MachineSide(UserDelete(m))

TeardownInfrastructure ==
    /\ teardown /\ \A m \in Machines : store[m] = None
    /\ ClusterSide(C!UserDelete)

\* Somebody deletes the KairosFleetCluster, or its Secret, first.
OutOfOrder ==
    /\ Mishap("disorder")
    /\ disorder' = TRUE
    /\ C!Delete \/ (secret = "token" /\ C!PutSecret("absent"))
    /\ connected' = Connected'
    /\ UNCHANGED <<machineVars, teardown>>

ProvideToken == ClusterSide(C!PutSecret("token") /\ UNCHANGED spent)

ProviderNext ==
    \/ MachineSide(Core)
    \/ ClusterSide(C!Ignore \/ C!Reconcile \/ C!Worker \/ C!Sync)
    \/ ClusterSide(C!SetOwner)
    \/ ManagerCrash
    \/ \E m \in Machines : Bootstrap(m) \/ TeardownMachine(m)
    \/ DeleteCluster \/ TeardownInfrastructure
    \/ OutOfOrder \/ ProvideToken

ProviderSpec == ProviderInit /\ [][ProviderNext]_providerVars

\* Besides what the parts assume, the informers resync: controller-runtime's cache
\* reports every object again after ten hours (main.go leaves SyncPeriod alone), so
\* an object that nothing else brings back is queued at last.  Cluster API goes on
\* with what it has begun.
ProviderFairness ==
    /\ CoreFairness
    /\ C!ControllerFairness /\ WF_providerVars(ClusterSide(C!SetOwner))
    /\ \A m \in Machines :
        /\ WF_providerVars(MachineSide(MachineEvent(m)))
        /\ WF_providerVars(Bootstrap(m))
        /\ WF_providerVars(TeardownMachine(m))
    /\ WF_providerVars(TeardownInfrastructure)

FairProviderSpec == ProviderSpec /\ ProviderFairness

-----------------------------------------------------------------------------
(* Properties *)

\* While the cluster is taken down in Cluster API's order and its Secret stays, no
\* delete pass finds AuroraBoot unreachable and gives up the release, although the
\* KairosFleetCluster drops its own finalizer without looking at the machines
\* (reconcileDelete, fleetClientForDelete).
ReachableInOrder == outcome = "unreachable" => disorder

\* A node is on record: in an object, in the cache or in a pass.
Recorded(o) == o # None /\ o.nodeID # None
NodeOnRecord ==
    \/ \E m \in Machines : Recorded(store[m]) \/ Recorded(cache[m])
    \/ Recorded(base) \/ Recorded(obj)

\* Why ReachableInOrder holds.  The KairosFleetCluster is there, and in the cache, as
\* long as one of its machines is; a node was claimed with a token, which only
\* somebody else takes away; so a delete pass that gives up has read an object that
\* is gone already (fleetClientForDelete).
OrderInv ==
    /\ connected = Connected
    /\ ~disorder =>
        /\ kfcCache = None => kfc = None
        /\ kfc = None \/ kfc.deleting => \A m \in Machines : store[m] = None
        /\ NodeOnRecord => secret = "token"
        /\ outcome = "unreachable" => pc # "idle" /\ store[who] = None

\* Taken down in order, a cluster gives back every node it had: when a machine that
\* recorded a node goes away, the node is free, AuroraBoot has answered that there is
\* no such node, or the machine has lost its claim key in a move (reconcileDelete).
ReleasedInOrder ==
    [][\A m \in Machines :
        store[m] # None /\ store'[m] = None /\ store[m].nodeID # None =>
            \/ disorder
            \/ ~HeldBy(store[m].nodeID, m)
            \/ outcome = "missing" \/ ~Exists(store[m].nodeID)
            \/ LegacyMoved(m, store[m])]_providerVars

\* A Cluster that is deleted goes away with its machines, in whatever order its
\* parts are deleted, with the Secret or without it, and even if a failed lookup of
\* the Cluster ends a pass with nothing queued (Reconcile).
TeardownCompletes ==
    teardown ~> (kfc = None /\ \A m \in Machines : store[m] = None)

\* With a token and an endpoint that stay, every machine is provisioned in the
\* end, whichever side starts first and whatever is misreported on the way: also a
\* machine marked failed for a 404 that was not AuroraBoot's.
FleetComesUp ==
    <>[](secret = "token" /\ kfc # None /\ ~kfc.deleting /\ kfc.endpoint) =>
        \A m \in Machines :
            <>[](Live(m) => store[m].provisioned \/ Claimable(KeyOf(m)) = {})
=============================================================================
