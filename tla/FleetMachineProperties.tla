---------------------- MODULE FleetMachineProperties ----------------------
(***************************************************************************)
(* What the reconciler of KairosFleetMachine promises, and three promises  *)
(* of the repository's comments and docs that its code does not keep.      *)
(***************************************************************************)
EXTENDS KairosFleetMachine

Live(m) == store[m] # None /\ ~store[m].deleting
HeldBy(n, m) == claim[n] # None /\ claim[n][1] = m
KeyOf(m) == claimKeyFor(m, store[m])

\* Two machines that are not being deleted never record the same node (node-id,
\* reconcileNormal step 2), whatever is lost, stale, moved or restarted, unless
\* an operator released that node behind the provider's back.
NodeExclusive ==
    \A m1, m2 \in Machines :
        m1 # m2 /\ Live(m1) /\ Live(m2) /\ store[m1].nodeID = store[m2].nodeID =>
            store[m1].nodeID \in tampered \cup {None}

\* A view of machine m names a node only while m holds its claim.
Owns(m, o) ==
    o # None /\ o.nodeID # None => o.nodeID \in tampered \/ HeldBy(o.nodeID, m)

\* A view of machine m records no other machine's claim key.
OwnKey(m, o) == o # None /\ o.claimKey # None => o.claimKey[1] = m

\* No delete pass of m has run yet: its cached object is live, or the pass in
\* progress read it live.
Guarded(m) ==
    \/ cache[m] # None /\ ~cache[m].deleting
    \/ pc # "idle" /\ who = m /\ ~base.deleting

\* Why NodeExclusive holds.  Deletion is seen in the store, then in the cache, then
\* by a pass, never the other way round; only a pass that saw it releases; so until
\* then everything that names a node of m (the stored object, the cached one, the
\* copy a pass works on) names one that m holds.
ClaimInv ==
    /\ \A m \in Machines :
        /\ cache[m] = None \/ cache[m].deleting => ~Live(m)
        /\ OwnKey(m, store[m]) /\ OwnKey(m, cache[m])
        /\ Guarded(m) => Owns(m, store[m]) /\ Owns(m, cache[m])
    /\ pc # "idle" =>
        /\ OwnKey(who, obj)
        /\ ~base.deleting => Owns(who, obj)
        /\ base.deleting => cache[who] = None \/ cache[who].deleting
    /\ pc = "delete" => base.deleting
    /\ pc \in {"normal", "readReboot"} => ~base.deleting

\* ApplyCloudConfig and Reboot are only ever sent to a node the sender holds the
\* claim of: no pass configures or reboots another machine's node, or one already
\* returned to the group.
CommandsToOwnNode ==
    [][\A n \in Nodes :
        Len(cmds'[n]) > Len(cmds[n]) =>
            n \in tampered \/ HeldBy(n, cmds'[n][Len(cmds'[n])].by)]_vars

\* No reboot is queued before the node has carried out an apply-cloud-config of
\* the same machine (step 4): a node never reboots into somebody else's config.
\* Exempt is a machine that recorded no command ID and so goes by the newest
\* apply-cloud-config of its node, once an operator has given that node away.
RebootFollowsApply ==
    \A n \in Nodes : \A i \in DOMAIN cmds[n] :
        /\ cmds[n][i].kind = "reboot"
        /\ ~(n \in tampered /\ cmds[n][i].by \in Legacy)
        => \E j \in 1..(i - 1) :
                /\ cmds[n][j].kind = "apply"
                /\ cmds[n][j].by = cmds[n][i].by
                /\ cmds[n][j].phase = "Completed"

\* A machine that is reported provisioned has its own cloud-config, and no other
\* machine's, on the node it names (steps 3 to 6).
ProvisionedHasConfig ==
    \A m \in Machines :
        Live(m) /\ store[m].provisioned /\ store[m].nodeID \notin tampered =>
            staged[store[m].nodeID] = m

\* Node n has a command of that kind by machine m, in one of the given phases.
Sent(m, n, kind, phases) ==
    \E i \in DOMAIN cmds[n] :
        cmds[n][i].kind = kind /\ cmds[n][i].by = m /\ cmds[n][i].phase \in phases

\* id names an apply-cloud-config that was queued for m.
OwnApply(m, id) ==
    /\ id[2] \in DOMAIN cmds[id[1]]
    /\ cmds[id[1]][id[2]].kind = "apply"
    /\ cmds[id[1]][id[2]].by = m

\* The agent of a node works through its commands in order.
InOrder(n) ==
    \A i, j \in DOMAIN cmds[n] :
        i < j /\ cmds[n][i].phase = "Pending" => cmds[n][j].phase \in {"Pending", "Failed"}

\* The staged config is that of the last apply-cloud-config carried out.
LastStaged(n) ==
    \A i \in DOMAIN cmds[n] :
        cmds[n][i].kind = "apply" /\ cmds[n][i].phase = "Completed" =>
            \E j \in DOMAIN cmds[n] : i <= j /\ cmds[n][j].by = staged[n]

\* A machine that has sent a command to a node holds it, and no other machine sends
\* it any, until a delete pass of that machine.
SoleSender(n) ==
    \A i \in DOMAIN cmds[n] :
        Guarded(cmds[n][i].by) =>
            /\ HeldBy(n, cmds[n][i].by)
            /\ \A j \in DOMAIN cmds[n] : i < j => cmds[n][j].by = cmds[n][i].by

\* Why a node only ever carries the config of its machine, until an operator gives
\* it away.
HistoryInv ==
    \A n \in Nodes :
        InOrder(n) /\ LastStaged(n) /\ (n \notin tampered => SoleSender(n))

\* No view that a pass can still start from lacks a node: the next pass of m, and
\* the one in progress, do not claim.
Settled(m) ==
    /\ cache[m] # None => cache[m].nodeID # None
    /\ pc # "idle" /\ who = m => base.nodeID # None

Begun(o) ==
    \/ o.applied \/ o.applyCmd # None \/ o.rebootAt # None
    \/ o.providerID # None \/ o.provisioned \/ o.failure

\* An earlier build recorded the failure of its apply on n as the machine's own.
Inherited(m, n) == m \in Legacy /\ cmds[n][1].phase = "Failed"

\* What a view of m records has happened: to the node it names, and past the point
\* where m might still change nodes.
Witnessed(m, o) ==
    o # None =>
        /\ Begun(o) => Settled(m) /\ o.nodeID # None
        /\ o.applyCmd # None => OwnApply(m, o.applyCmd)
        /\ o.applied /\ o.applyCmd = None => m \in Legacy
        /\ o.rebootAt # None \/ o.provisioned => Sent(m, o.nodeID, "reboot", CommandPhases)
        /\ o.providerID \in {None, o.nodeID}
        /\ o.failure /\ "stray404" \notin Mishaps =>
            ~Exists(o.nodeID) \/ Inherited(m, o.nodeID)
        /\ m \in Legacy =>
            o.nodeID # None /\ cmds[o.nodeID] # <<>> /\ cmds[o.nodeID][1].by = m

\* Why the annotations can be trusted although every pass may start from a stale
\* read and writes only the fields it changed: the stored, the cached and the read
\* object may name different nodes only until a command has been recorded.
RecordInv ==
    /\ \A m \in Machines :
        /\ cache[m] = None => store[m] = None
        /\ Witnessed(m, store[m]) /\ Witnessed(m, cache[m])
        /\ cache[m] # None /\ store[m] # None =>
            /\ cache[m].nodeID # None => store[m].nodeID # None
            /\ Begun(cache[m]) => store[m].nodeID = cache[m].nodeID
    /\ pc # "idle" =>
        /\ Witnessed(who, base)
        /\ base.nodeID # None => Settled(who)
        /\ Begun(base) /\ store[who] # None => store[who].nodeID = base.nodeID

\* What one pass may change, in the order its steps allow: a node is recorded only
\* where there was none, an apply only with its command, a reboot only after the
\* apply, the providerID and the terminal states only after the reboot.
PassInv ==
    pc # "idle" =>
        /\ obj.uid = base.uid /\ obj.deleting = base.deleting
        /\ pc \notin {"patch", "patchStatus"} => obj = [base EXCEPT !.finalizer = TRUE]
        /\ pc = "readReboot" => base.nodeID # None /\ base.applied /\ base.rebootAt # None
        /\ IF base.nodeID = None
             THEN ~Begun(obj)
             ELSE obj.nodeID = base.nodeID
        /\ \/ obj.applied = base.applied /\ obj.applyCmd = base.applyCmd
           \/ /\ obj.applied /\ ~base.applied
              /\ obj.applyCmd \notin {None, base.applyCmd} /\ OwnApply(who, obj.applyCmd)
           \/ ~obj.applied /\ base.applied /\ obj.applyCmd = None
        /\ obj.rebootAt \notin {None, base.rebootAt} =>
            base.applied /\ Sent(who, base.nodeID, "reboot", CommandPhases)
        /\ obj.providerID # base.providerID =>
            base.rebootAt # None /\ obj.providerID = base.nodeID
        /\ obj.provisioned /\ ~base.provisioned => base.rebootAt # None
        /\ obj.failure /\ ~base.failure =>
            base.rebootAt # None /\ ("stray404" \notin Mishaps => ~Exists(base.nodeID))

\* Why ProvisionedHasConfig, RebootFollowsApply and ProviderIDImmutable hold, with
\* stale reads, crashes, lost replies and moves: the node's history, what the views
\* record of it, and what a pass may add to the record (reconcileNormal).
ConfigInv == HistoryInv /\ RecordInv /\ PassInv

\* An earlier build claimed for m, which has since been moved: its claim key is lost.
LegacyMoved(m, o) == m \in Legacy /\ o.claimKey = None /\ o.uid > 0

\* o and p differ in their UID, deletion and status at most.
SameMeta(o, p) ==
    /\ o.finalizer = p.finalizer /\ o.nodeID = p.nodeID /\ o.claimKey = p.claimKey
    /\ o.applied = p.applied /\ o.applyCmd = p.applyCmd
    /\ o.rebootAt = p.rebootAt /\ o.rebootCmd = p.rebootCmd
    /\ o.notBefore = p.notBefore /\ o.providerID = p.providerID

\* A fresh pass patches what it has read.
AsRead ==
    pc # "idle" /\ store[who] # None =>
        /\ store[who].uid = base.uid
        /\ base.deleting => store[who].deleting
        /\ store[who].provisioned = base.provisioned /\ store[who].failure = base.failure
        /\ \/ SameMeta(store[who], base)
           \/ pc = "patchStatus" /\ SameMeta(store[who], obj)

\* What the fields of a view of m say about each other and about its node: it has
\* the key its node is claimed under, and a providerID only once the node rejoined.
Consistent(m, o) ==
    /\ o.failure /\ "stray404" \notin Mishaps => ~o.provisioned \/ Inherited(m, o.nodeID)
    /\ o.providerID # None =>
        o.applied /\ o.rebootAt # None /\ heartbeat[o.nodeID] > o.rebootAt
    /\ o.nodeID # None =>
        /\ m \in Legacy \/ o.claimKey # None
        /\ HeldBy(o.nodeID, m) => claim[o.nodeID] = claimKeyFor(m, o) \/ LegacyMoved(m, o)

\* The branches of reconcileDelete that may drop the finalizer.
LetGo(m, o) ==
    \/ o.nodeID = None \/ ~HeldBy(o.nodeID, m) \/ outcome = "unreachable"
    \/ ~Exists(o.nodeID) \/ LegacyMoved(m, o)
    \/ outcome = "missing" /\ "stray404" \in Mishaps

\* Why a pass that reads its own earlier writes neither repeats a finished step nor
\* forgets a node.
FreshInv ==
    /\ AsRead
    /\ \A n \in Nodes : heartbeat[n] <= now
    /\ \A m \in Machines :
        store[m] # None =>
            Consistent(m, store[m]) /\ (store[m].nodeID # None => store[m].finalizer)
    /\ pc # "idle" =>
        /\ Consistent(who, obj)
        /\ pc = "readReboot" => obj.providerID = None
        /\ ~obj.finalizer =>
            base.deleting /\ pc \in {"patch", "patchStatus"} /\ LetGo(who, base)

\* "Immutable once set" (spec.providerID): step 6 never publishes another ID.
ProviderIDImmutable ==
    [][\A m \in Machines :
        store[m] # None /\ store[m].providerID # None /\ store'[m] # None =>
            store'[m].providerID = store[m].providerID]_vars

\* Once a machine has its providerID, it never again queues a command: no restart,
\* move or late failure report bounces a node that has joined.  That needs passes
\* that read their own earlier writes: a pass that starts before the last write has
\* reached the cache, and meets the late failure of the reboot, bounces it.
SettledIsLeftAlone ==
    [][\A n \in Nodes :
        Len(cmds'[n]) > Len(cmds[n]) =>
            LET m == cmds'[n][Len(cmds'[n])].by
            IN  store[m] = None \/ store[m].providerID = None]_vars

\* When an object that recorded a node goes away, the node is back in the group
\* (reconcileDelete).  The exceptions are the ones its branches log: no way left to
\* reach AuroraBoot, a node that is gone, and a legacy machine that was moved and
\* so has lost the key it claimed with.  A stale read is a further way to lose a
\* node: a pass that read the object before its node-id was written finds nothing
\* to release.
GoneMeansReleased ==
    [][\A m \in Machines :
        store[m] # None /\ store'[m] = None /\ store[m].nodeID # None =>
            \/ ~HeldBy(store[m].nodeID, m)
            \/ outcome = "unreachable"
            \/ ~Exists(store[m].nodeID)
            \/ LegacyMoved(m, store[m])]_vars

\* "Set only on a terminal, unrecoverable failure: a claimed node that disappears
\* from AuroraBoot entirely" (status.failureReason): as long as every 404 is
\* AuroraBoot's own, a failed machine is one whose node is gone, and it is not
\* provisioned, whatever passes, retries and moves came before (fail, step 5).
\* Exempt is what an earlier build called a failure.
FailureMeansGone ==
    \A m \in Machines :
        Live(m) /\ store[m].failure =>
            \/ ~Exists(store[m].nodeID) /\ ~store[m].provisioned
            \/ Inherited(m, store[m].nodeID)

\* As long as no release has to be repeated, a delete pass is refused with
\* ClaimMismatch in the two situations the branch names: the node was released out
\* of band and claimed by another, or the machine was claimed before keys were
\* recorded and has since been moved.  (A release that took effect, but whose reply
\* or patch was lost, is the third: by the time it is repeated, another machine may
\* have claimed the node.)
MismatchExplained ==
    outcome = "mismatch" =>
        \/ obj.nodeID \in tampered
        \/ LegacyMoved(who, obj)

\* A pass takes a node from no machine but its own, neither to claim nor to release
\* it: whoever names a node that an operator has released and another machine has
\* claimed since, goes without it (reconcileDelete's release under the claim key).
ReleasesOwnNode ==
    [][\A n \in Nodes :
        pc' # pc /\ claim[n] # None /\ claim'[n] # claim[n] => HeldBy(n, who)]_vars

\* Why MismatchExplained holds: as long as no release has to be repeated, a machine
\* holds the node it names until the pass that released the node removes it.
HandInv ==
    /\ \A m \in Machines :
        store[m] # None /\ store[m].nodeID # None =>
            \/ store[m].nodeID \in tampered \/ HeldBy(store[m].nodeID, m)
            \/ who = m /\ pc = "patch" /\ ~obj.finalizer
    /\ pc # "idle" /\ base.deleting =>
        obj.nodeID = base.nodeID /\ (pc # "patchStatus" => store[who] # None)
    /\ pc \notin {"patch", "patchStatus"} => outcome = "none"

\* A node sees a second command of a kind only after the first has failed, and
\* then RetryWindow later, short of the second the stamp rounds off
\* (retryNotBeforeAnnotation): events do not make the controller retry faster.
PacedRetries ==
    \A n \in Nodes : \A i, j \in DOMAIN cmds[n] :
        i < j /\ cmds[n][i].kind = cmds[n][j].kind /\ cmds[n][i].by = cmds[n][j].by =>
            /\ cmds[n][i].phase = "Failed"
            /\ cmds[n][j].at + TicksPerSecond > cmds[n][i].at + RetryWindow

\* What a view of m knows of the commands its node got for m: the one it has
\* recorded is under way; all others have failed, and no new one is due before the
\* retry window of the last of them has passed.
Paced(m, o) ==
    LET standing(kind) == IF kind = "apply" THEN o.applied ELSE o.rebootAt # None
        recorded(kind) == IF kind = "apply" THEN o.applyCmd ELSE o.rebootCmd
        due == IF o.notBefore = None THEN now ELSE o.notBefore
    IN  IF o.nodeID = None
          THEN \A n \in Nodes : \A i \in DOMAIN cmds[n] : cmds[n][i].by # m
          ELSE \A i \in DOMAIN cmds[o.nodeID] :
                 LET c == cmds[o.nodeID][i]
                 IN  c.by = m =>
                        \/ c.phase = "Failed" /\ due + TicksPerSecond > c.at + RetryWindow
                        \/ /\ standing(c.kind)
                           /\ c.phase = "Failed" \/ recorded(c.kind) = <<o.nodeID, i>>

\* Why PacedRetries holds: between two passes the stored object, and during a pass
\* the object it works on, accounts for every command sent for the machine.
PaceInv ==
    /\ \A n \in Nodes : \A i \in DOMAIN cmds[n] : cmds[n][i].at <= now
    /\ \A m \in Machines :
        store[m] # None /\ ~(who = m /\ pc = "patch") => Paced(m, store[m])
    /\ pc \notin {"idle", "patchStatus"} => Paced(who, obj)

\* A deletion always completes: the finalizer does not outlive what can fail, as
\* long as the end of a pause comes with an event.
DeletionCompletes ==
    \A m \in Machines : (store[m] # None /\ store[m].deleting) ~> store[m] = None

\* With a connection that lasts, a machine ends up provisioned, with no failureReason
\* left, an earlier build's included, and stays so unless it is deleted, whatever
\* finitely many failures, restarts, stale reads and refusals come in between; only
\* a group without a node for it keeps it waiting, or a pause that ends without an
\* event.
EventuallyProvisioned ==
    <>[]connected =>
        \A m \in Machines :
            <>[](Live(m) => \/ store[m].provisioned /\ ~store[m].failure
                            \/ Claimable(KeyOf(m)) = {})

\* status.initialization.provisioned: "a node has been claimed, its bootstrap
\* cloud-config applied, and it has booted its active image and reported ready".
ProvisionedMeansBooted ==
    \A m \in Machines :
        Live(m) /\ store[m].provisioned => running[store[m].nodeID] = m

\* The finalizer "allows the controller to release the claimed AuroraBoot node
\* before the KairosFleetMachine is removed": no claim outlives its machine.
NoLeakedClaim ==
    \A m \in Machines, n \in Nodes : store[m] = None /\ pc = "idle" => ~HeldBy(n, m)

\* "A claimed node that disappears from AuroraBoot entirely is still a terminal
\* failure: status.failureReason and failureMessage are set."
MissingNodeFails ==
    \A m \in Machines :
        (Live(m) /\ store[m].nodeID # None /\ ~store[m].provisioned
                /\ phase[store[m].nodeID] = "Missing")
            ~> (~Live(m) \/ store[m].failure)
=============================================================================
