------------------------------- MODULE NodePool -------------------------------
(***************************************************************************)
(* What the provider promises about the nodes of a group, with no API      *)
(* server, cache, queue, command history or clock in sight: a node is free *)
(* or held by one machine; only its holder works on it; it is handed a     *)
(* cloud-config, carries it out, is rebooted, and then serves; and it is   *)
(* taken from its holder only once that machine has retired.  A node that  *)
(* an operator released behind the provider's back is loose, and exempt.   *)
(***************************************************************************)
CONSTANTS
    Machines,
    Nodes,
    None,       \* a free node, a machine without a node
    Retired     \* what a machine serves with once it is being deleted, or gone

VARIABLES
    holder,     \* holder[n]: the machine that holds n, or None
    loose,      \* nodes an operator has released
    serving,    \* serving[m]: the node m has recorded, None, or Retired
    handed,     \* pairs <<m, n>>: m has handed its cloud-config to n
    configured, \* of these, the ones that n has carried out
    rebooted,   \* of these, the ones that m has asked to reboot n for
    ready       \* machines reported provisioned

poolVars == <<holder, loose, serving, handed, configured, rebooted, ready>>

MayUse(m, n) == holder[n] = m \/ n \in loose

\* A pool may be taken over with nodes held, recorded, handed their config,
\* configured and rebooted.
Init ==
    /\ holder \in [Nodes -> Machines \cup {None}]
    /\ serving \in [Machines -> Nodes \cup {None, Retired}]
    /\ handed \in SUBSET (Machines \X Nodes)
    /\ \A m \in Machines, n \in Nodes :
        serving[m] = n \/ <<m, n>> \in handed => holder[n] = m
    /\ configured \in SUBSET handed
    /\ rebooted \in SUBSET configured
    /\ loose = {} /\ ready = {}

Take(m, n) ==
    /\ holder[n] = None
    /\ holder' = [holder EXCEPT ![n] = m]
    /\ UNCHANGED <<loose, serving, handed, configured, rebooted, ready>>

Return(m, n) ==
    /\ holder[n] = m
    /\ serving[m] = Retired \/ n \in loose
    /\ holder' = [holder EXCEPT ![n] = None]
    /\ UNCHANGED <<loose, serving, handed, configured, rebooted, ready>>

Loosen(n) ==
    /\ holder' = [holder EXCEPT ![n] = None]
    /\ loose' = loose \cup {n}
    /\ UNCHANGED <<serving, handed, configured, rebooted, ready>>

Record(m, n) ==
    /\ serving[m] # Retired
    /\ MayUse(m, n)
    /\ serving' = [serving EXCEPT ![m] = n]
    /\ UNCHANGED <<holder, loose, handed, configured, rebooted, ready>>

Retire(m) ==
    /\ serving' = [serving EXCEPT ![m] = Retired]
    /\ ready' = ready \ {m}
    /\ UNCHANGED <<holder, loose, handed, configured, rebooted>>

HandConfig(m, n) ==
    /\ MayUse(m, n)
    /\ handed' = handed \cup {<<m, n>>}
    /\ UNCHANGED <<holder, loose, serving, configured, rebooted, ready>>

\* The node does this in its own time: its holder may have changed since.
CarryOut(m, n) ==
    /\ <<m, n>> \in handed
    /\ configured' = configured \cup {<<m, n>>}
    /\ UNCHANGED <<holder, loose, serving, handed, rebooted, ready>>

Reboot(m, n) ==
    /\ MayUse(m, n)
    /\ <<m, n>> \in configured \/ n \in loose
    /\ rebooted' = rebooted \cup {<<m, n>>}
    /\ UNCHANGED <<holder, loose, serving, handed, configured, ready>>

MarkReady(m) ==
    /\ <<m, serving[m]>> \in rebooted
    /\ ready' = ready \cup {m}
    /\ UNCHANGED <<holder, loose, serving, handed, configured, rebooted>>

MarkNotReady(m) ==
    /\ ready' = ready \ {m}
    /\ UNCHANGED <<holder, loose, serving, handed, configured, rebooted>>

Next ==
    \/ \E m \in Machines, n \in Nodes :
        \/ Take(m, n) \/ Return(m, n) \/ Record(m, n)
        \/ HandConfig(m, n) \/ CarryOut(m, n) \/ Reboot(m, n)
    \/ \E n \in Nodes : Loosen(n)
    \/ \E m \in Machines : Retire(m) \/ MarkReady(m) \/ MarkNotReady(m)

Spec == Init /\ [][Next]_poolVars
=============================================================================
