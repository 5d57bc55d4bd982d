------------------------------ MODULE FleetPool ------------------------------
(***************************************************************************)
(* KairosFleetMachine implements NodePool: the claims of AuroraBoot are    *)
(* the holders, the command histories tell what was handed over, carried   *)
(* out and rebooted for, and the stored objects tell who serves with what. *)
(***************************************************************************)
EXTENDS FleetMachineProperties

ASSUME RetiredAssumption == "retired" \notin Nodes \cup {None}

Holder == [n \in Nodes |-> IF claim[n] = None THEN None ELSE claim[n][1]]

Serving == [m \in Machines |-> IF Live(m) THEN store[m].nodeID ELSE "retired"]

\* The pairs of a machine and a node that has a command of that kind by it, in one
\* of the given phases.
Commanded(kind, phases) ==
    {mn \in Machines \X Nodes : Sent(mn[1], mn[2], kind, phases)}

Pool == INSTANCE NodePool WITH
            Retired <- "retired",
            holder <- Holder,
            loose <- tampered,
            serving <- Serving,
            handed <- Commanded("apply", CommandPhases),
            configured <- Commanded("apply", {"Completed"}),
            rebooted <- Commanded("reboot", CommandPhases),
            ready <- {m \in Machines : Live(m) /\ store[m].provisioned}

\* Claims, commands and recorded state together keep the promise of NodePool, step
\* by step: a pass takes only a free node, records and commands only a node its
\* machine holds, reboots it only for a config it has carried out, reports ready
\* only a machine whose recorded node it rebooted, and gives a node back only when
\* its machine is being deleted (reconcileNormal, reconcileDelete).
ImplementsPool == Pool!Spec
=============================================================================
