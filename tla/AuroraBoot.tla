------------------------------ MODULE AuroraBoot ------------------------------
(***************************************************************************)
(* The AuroraBoot fleet server and the phonehome agents of its nodes, as   *)
(* the provider uses them through fleet.Client (internal/fleet).  Neither  *)
(* is part of this repository: what a request does is taken from the calls *)
(* in internal/fleet/http.go, from the doc comments of fleet.Client and    *)
(* from the test server internal/controller/fakeauroraboot_test.go.        *)
(*                                                                         *)
(* All machines draw from one group.  A claim key is the pair of a machine *)
(* and the UID its object had when it claimed, so keys of different        *)
(* machines never collide and a moved machine has a new key.               *)
(***************************************************************************)
EXTENDS Naturals, Sequences

CONSTANTS
    Machines,       \* the KairosFleetMachine objects
    Nodes,          \* the nodes registered in the group
    None,           \* absent annotation, unclaimed node, deleted object
    TicksPerSecond, \* clock ticks in the second RFC3339 stamps round down to
    Mishaps,        \* the kinds of mishap a run admits
    MaxMishaps      \* and how many of them it admits together

ASSUME TicksAssumption == TicksPerSecond \in Nat \ {0}
ASSUME NoneAssumption == /\ None \notin Machines
                         /\ None \notin Nodes
                         /\ None \notin Nat
                         /\ None \notin Machines \X Nat
                         /\ None \notin Nodes \X Nat

VARIABLES
    claim,      \* claim[n]: the key node n is claimed under, or None
    phase,      \* phase[n]: see Phases
    heartbeat,  \* heartbeat[n]: when n last reported; 0 until it first does
    cmds,       \* cmds[n]: every command ever queued for n, oldest first
    staged,     \* staged[n]: whose cloud-config lies in n's /oem
    running,    \* running[n]: whose cloud-config n booted with
    now,        \* the clock, in ticks
    tampered,   \* nodes an operator released behind the provider's back
    spent       \* mishaps so far

fleetVars == <<claim, phase, heartbeat, cmds, staged, running>>

\* AuroraBoot reports Online until it misses heartbeats: a node that went down
\* is "Away" (still reported Online) before it is reported Offline.  A Missing
\* node was deleted from AuroraBoot; it answers 404 and never comes back.
Phases == {"Online", "Away", "Offline", "Missing"}
ReportedOnline(n) == phase[n] \in {"Online", "Away"}
Exists(n) == phase[n] # "Missing"

Kinds == {"apply", "reboot"}
CommandPhases == {"Pending", "Running", "Completed", "Failed"}
Keys == Machines \X Nat

\* "Failed" stands for both terminal failures, Failed and Expired; by is the
\* machine the command was queued for (AuroraBoot does not record it).
Command == [kind : Kinds, by : Machines, phase : CommandPhases, at : Nat]

\* Something goes wrong: one unit of the run's budget.
Mishap(kind) == /\ kind \in Mishaps
                /\ spent < MaxMishaps
                /\ spent' = spent + 1

\* time.Format(time.RFC3339) drops the fraction of the second.
Stamp(t) == TicksPerSecond * (t \div TicksPerSecond)

FleetTypeOK ==
    /\ claim \in [Nodes -> Keys \cup {None}]
    /\ phase \in [Nodes -> Phases]
    /\ heartbeat \in [Nodes -> Nat]
    /\ cmds \in [Nodes -> Seq(Command)]
    /\ staged \in [Nodes -> Machines \cup {None}]
    /\ running \in [Nodes -> Machines \cup {None}]
    /\ now \in Nat
    /\ tampered \in SUBSET Nodes
    /\ spent \in Nat

-----------------------------------------------------------------------------
(* Requests: what a call that reaches the server changes there. *)

\* POST groups/{id}/claim is idempotent on the key: the node already held under
\* it, else any unclaimed one.
Claimable(key) ==
    LET held == {n \in Nodes : Exists(n) /\ claim[n] = key}
    IN  IF held # {} THEN held ELSE {n \in Nodes : Exists(n) /\ claim[n] = None}

ServeClaim(n, key) == claim' = [claim EXCEPT ![n] = key]

\* POST nodes/{id}/release: an unclaimed node is left as it is (released:false),
\* a node under another key is refused with ClaimMismatch.
Releasable(n, key) == Exists(n) /\ claim[n] \in {key, None}
Mismatched(n, key) == Exists(n) /\ claim[n] \notin {key, None}

ServeRelease(n) == claim' = [claim EXCEPT ![n] = None]

\* POST nodes/{id}/commands
ServeCommand(n, kind, m) ==
    cmds' = [cmds EXCEPT ![n] =
                Append(@, [kind |-> kind, by |-> m, phase |-> "Pending", at |-> now])]

\* The ID AuroraBoot gives the next command of node n.
NextID(n) == <<n, Len(cmds[n]) + 1>>

-----------------------------------------------------------------------------
(* The nodes.  The agent of a running node takes its commands in order. *)

NextCommand(n) ==
    {i \in DOMAIN cmds[n] :
        /\ cmds[n][i].phase = "Pending"
        /\ \A j \in 1..(i - 1) : cmds[n][j].phase # "Pending"}

\* apply-cloud-config writes the config to /oem and completes.
ExecuteApply(n) ==
    \E i \in NextCommand(n) :
        /\ phase[n] = "Online"
        /\ cmds[n][i].kind = "apply"
        /\ cmds' = [cmds EXCEPT ![n][i].phase = "Completed"]
        /\ staged' = [staged EXCEPT ![n] = cmds[n][i].by]
        /\ UNCHANGED <<claim, phase, heartbeat, running, now, tampered, spent>>

\* reboot takes the node down mid-command: it never reports Completed.
ExecuteReboot(n) ==
    \E i \in NextCommand(n) :
        /\ phase[n] = "Online"
        /\ cmds[n][i].kind = "reboot"
        /\ cmds' = [cmds EXCEPT ![n][i].phase = "Running"]
        /\ phase' = [phase EXCEPT ![n] = "Away"]
        /\ UNCHANGED <<claim, heartbeat, staged, running, now, tampered, spent>>

\* The node's phonehome policy refuses a command, or AuroraBoot expires it.
FailCommand(n) ==
    \E i \in DOMAIN cmds[n] :
        /\ cmds[n][i].phase \in {"Pending", "Running"}
        /\ Mishap("refuse")
        /\ cmds' = [cmds EXCEPT ![n][i].phase = "Failed"]
        /\ UNCHANGED <<claim, phase, heartbeat, staged, running, now, tampered>>

\* A boot picks up whatever cloud-config is staged, and phones home.
Boot(n) ==
    /\ phase[n] \in {"Away", "Offline"}
    /\ phase' = [phase EXCEPT ![n] = "Online"]
    /\ heartbeat' = [heartbeat EXCEPT ![n] = now]
    /\ running' = [running EXCEPT ![n] = staged[n]]
    /\ UNCHANGED <<claim, cmds, staged, now, tampered, spent>>

Heartbeat(n) ==
    /\ phase[n] = "Online"
    /\ heartbeat[n] < now
    /\ heartbeat' = [heartbeat EXCEPT ![n] = now]
    /\ UNCHANGED <<claim, phase, cmds, staged, running, now, tampered, spent>>

MarkOffline(n) ==
    /\ phase[n] = "Away"
    /\ phase' = [phase EXCEPT ![n] = "Offline"]
    /\ UNCHANGED <<claim, heartbeat, cmds, staged, running, now, tampered, spent>>

\* The node goes down of itself, is deleted from AuroraBoot, or is released by
\* an operator in AuroraBoot's own UI.
Outage(n) ==
    /\ phase[n] = "Online"
    /\ Mishap("outage")
    /\ phase' = [phase EXCEPT ![n] = "Away"]
    /\ UNCHANGED <<claim, heartbeat, cmds, staged, running, now, tampered>>

Vanish(n) ==
    /\ Exists(n)
    /\ Mishap("vanish")
    /\ phase' = [phase EXCEPT ![n] = "Missing"]
    /\ UNCHANGED <<claim, heartbeat, cmds, staged, running, now, tampered>>

OperatorRelease(n) ==
    /\ Exists(n)
    /\ claim[n] # None
    /\ Mishap("tamper")
    /\ claim' = [claim EXCEPT ![n] = None]
    /\ tampered' = tampered \cup {n}
    /\ UNCHANGED <<phase, heartbeat, cmds, staged, running, now>>

NodeStep(n) ==
    \/ ExecuteApply(n)
    \/ ExecuteReboot(n)
    \/ FailCommand(n)
    \/ Boot(n)
    \/ Heartbeat(n)
    \/ MarkOffline(n)
    \/ Outage(n)
    \/ Vanish(n)
    \/ OperatorRelease(n)
=============================================================================
