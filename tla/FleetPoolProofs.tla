--------------------------- MODULE FleetPoolProofs ---------------------------
(***************************************************************************)
(* KairosFleetMachine implements NodePool, for every set of machines and   *)
(* nodes and any number of mishaps: every step of the detailed             *)
(* specification is a step of the pool or leaves it alone.                 *)
(***************************************************************************)
EXTENDS FleetPool, FleetHistoryProofs

ReadySet == {m \in Machines : Live(m) /\ store[m].provisioned}

Handed == Commanded("apply", CommandPhases)
Configured == Commanded("apply", {"Completed"})
Rebooted == Commanded("reboot", CommandPhases)

\* Holding a claim is being the holder.
LEMMA HolderFacts ==
  ASSUME TypeOK, NEW n \in Nodes
  PROVE  /\ Holder[n] = IF claim[n] = None THEN None ELSE claim[n][1]
         /\ \A m \in Machines : Holder[n] = m <=> HeldBy(n, m)
BY NoneAssumption DEF Holder, HeldBy

\* The mapped claims and histories follow their variables.
LEMMA SamePool ==
  /\ UNCHANGED claim => Holder' = Holder
  /\ UNCHANGED cmds => Handed' = Handed /\ Configured' = Configured /\ Rebooted' = Rebooted
  /\ UNCHANGED store => Serving' = Serving /\ ReadySet' = ReadySet
<1>1. UNCHANGED claim => Holder' = Holder
  BY DEF Holder
<1>2. UNCHANGED cmds => Handed' = Handed /\ Configured' = Configured /\ Rebooted' = Rebooted
  BY DEF Handed, Configured, Rebooted, Commanded, Sent
<1>3. UNCHANGED store => Serving' = Serving /\ ReadySet' = ReadySet
  BY DEF Serving, ReadySet, Live
<1> QED BY <1>1, <1>2, <1>3

\* A machine whose object a delete pass has read is not live.
LEMMA DeletedNotLive ==
  ASSUME TypeOK, ClaimInv, pc # "idle", base.deleting
  PROVE  ~Live(who)
BY DEF ClaimInv, TypeOK

\* The steps that change one part of the mapped state leave the others alone.
LEMMA OnePart ==
  ASSUME [OpenNext]_vars
  PROVE  \/ UNCHANGED <<claim, tampered, cmds, store>>
         \/ UNCHANGED <<claim, tampered, store>>
            /\ \/ ApplyCloudConfig \/ RequestReboot
               \/ \E n \in Nodes : NodeStep(n)
         \/ UNCHANGED <<cmds, store>>
            /\ (ClaimNode \/ ReleaseNode \/ \E n \in Nodes : OperatorRelease(n))
         \/ UNCHANGED <<claim, tampered, cmds>>
            /\ (PatchObject \/ PatchStatus \/ \E m \in Machines : UserDelete(m) \/ Move(m))
<1>1. CASE PatchObject \/ PatchStatus \/ \E m \in Machines : UserDelete(m) \/ Move(m)
  BY <1>1 DEF PatchObject, PatchStatus, UserDelete, Move, worldVars, fleetVars
<1>2. CASE UNCHANGED store /\ (ClaimNode \/ ReleaseNode)
  BY <1>2 DEF ClaimNode, ReleaseNode
<1>3. CASE UNCHANGED store /\ \E n \in Nodes : OperatorRelease(n)
  BY <1>3 DEF OperatorRelease
<1>4. CASE UNCHANGED <<store, claim, tampered>>
  BY <1>4, CommandSteps
<1> QED BY <1>1, <1>2, <1>3, <1>4, StoreSteps, ClaimSteps

\* A claim takes a free node or finds the machine's own; a release gives back the
\* node of a machine that has retired; an operator's release makes a node loose.
LEMMA ClaimRefines ==
  ASSUME TypeOK, ClaimInv, UNCHANGED <<cmds, store>>,
         ClaimNode \/ ReleaseNode \/ \E n \in Nodes : OperatorRelease(n)
  PROVE  \/ Holder' = Holder /\ UNCHANGED tampered
         \/ /\ \E n \in Nodes : Holder[n] = None /\ Holder' = [Holder EXCEPT ![n] = who]
            /\ UNCHANGED tampered /\ who \in Machines
         \/ /\ \E n \in Nodes : Holder[n] = who /\ Holder' = [Holder EXCEPT ![n] = None]
            /\ UNCHANGED tampered /\ who \in Machines /\ ~Live(who)
         \/ \E n \in Nodes :
                Holder' = [Holder EXCEPT ![n] = None] /\ tampered' = tampered \cup {n}
<1>1. ASSUME NEW n \in Nodes, NEW k \in Keys \cup {None}, claim' = [claim EXCEPT ![n] = k]
      PROVE  Holder' = [Holder EXCEPT ![n] = IF k = None THEN None ELSE k[1]]
  BY <1>1 DEF Holder, TypeOK, FleetTypeOK
<1>2. CASE ClaimNode
  <2>1. /\ pc = "normal" /\ UNCHANGED tampered
    BY <1>2, NormalFrame DEF reconcileNormal, ClaimNode, Claiming
  <2>2. /\ who \in Machines /\ claimKeyFor(who, obj) \in Keys
        /\ claimKeyFor(who, obj)[1] = who
    BY <2>1, GoneAssumption DEF TypeOK, ClaimInv, OwnKey, claimKeyFor, Object, Keys
  <2>3. PICK n \in Nodes : /\ claim' = [claim EXCEPT ![n] = claimKeyFor(who, obj)]
                           /\ claim[n] \in {claimKeyFor(who, obj), None}
    BY <1>2 DEF ClaimNode, ServeClaim, Claimable
  <2>4. claimKeyFor(who, obj) # None
    BY <2>2, NoneAssumption DEF Keys
  <2>5. Holder' = [Holder EXCEPT ![n] = who]
    BY <1>1, <2>2, <2>3, <2>4
  <2>6. CASE claim[n] = None
    BY <2>1, <2>2, <2>5, <2>6, HolderFacts
  <2>7. CASE claim[n] = claimKeyFor(who, obj)
    <3>1. Holder[n] = who
      BY <2>2, <2>4, <2>7, HolderFacts
    <3> QED BY <2>1, <2>5, <3>1 DEF Holder
  <2> QED BY <2>3, <2>6, <2>7
<1>3. CASE ReleaseNode
  <2>1. /\ pc = "delete" /\ UNCHANGED tampered /\ obj.nodeID # None
    BY <1>3, DeleteFrame DEF reconcileDelete, ReleaseNode
  <2>2. /\ who \in Machines /\ obj.nodeID \in Nodes
        /\ claimKeyFor(who, obj)[1] = who /\ ~Live(who)
    BY <2>1, GoneAssumption, DeletedNotLive
    DEF TypeOK, ClaimInv, OwnKey, claimKeyFor, Object, MaybeNode
  <2>3. /\ claim' = [claim EXCEPT ![obj.nodeID] = None]
        /\ claim[obj.nodeID] \in {claimKeyFor(who, obj), None}
    BY <1>3 DEF ReleaseNode, ServeRelease, Releasable
  <2>4. Holder' = [Holder EXCEPT ![obj.nodeID] = None]
    BY <1>1, <2>2, <2>3
  <2>5. CASE claim[obj.nodeID] = None
    <3>1. Holder[obj.nodeID] = None
      BY <2>2, <2>5, HolderFacts
    <3> QED BY <2>1, <2>4, <3>1 DEF Holder
  <2>6. CASE claim[obj.nodeID] # None
    <3>1. Holder[obj.nodeID] = who
      BY <2>2, <2>3, <2>6, HolderFacts
    <3> QED BY <2>1, <2>2, <2>4, <3>1
  <2> QED BY <2>5, <2>6
<1>4. CASE \E n \in Nodes : OperatorRelease(n)
  BY <1>1, <1>4 DEF OperatorRelease
<1> QED BY <1>2, <1>3, <1>4

\* A command is sent only to a node its machine may use, a reboot only for a config
\* carried out; the agent carries out what was handed over.
LEMMA CommandRefines ==
  ASSUME TypeOK, ClaimInv, ConfigInv, [OpenNext]_vars,
         \/ ApplyCloudConfig \/ RequestReboot \/ \E n \in Nodes : NodeStep(n)
  PROVE  \/ Handed' = Handed /\ Configured' = Configured /\ Rebooted' = Rebooted
         \/ \E m \in Machines, n \in Nodes :
              /\ Holder[n] = m \/ n \in tampered
              /\ Handed' = Handed \cup {<<m, n>>}
              /\ Configured' = Configured /\ Rebooted' = Rebooted
         \/ \E m \in Machines, n \in Nodes :
              /\ <<m, n>> \in Handed
              /\ Configured' = Configured \cup {<<m, n>>}
              /\ Handed' = Handed /\ Rebooted' = Rebooted
         \/ \E m \in Machines, n \in Nodes :
              /\ Holder[n] = m \/ n \in tampered
              /\ <<m, n>> \in Configured \/ n \in tampered
              /\ Rebooted' = Rebooted \cup {<<m, n>>}
              /\ Handed' = Handed /\ Configured' = Configured
<1>0. FleetTypeOK
  BY DEF TypeOK
<1>1. CASE ApplyCloudConfig \/ RequestReboot
  <2> DEFINE n == obj.nodeID
  <2>1. /\ n \in Nodes /\ who \in Machines
        /\ n \in tampered \/ HeldBy(n, who)
        /\ ServeCommand(n, IF ApplyCloudConfig THEN "apply" ELSE "reboot", who)
    BY <1>1, SendFacts
  <2>2. Holder[n] = who \/ n \in tampered
    BY <2>1, HolderFacts
  <2> HIDE DEF n
  <2>3. ASSUME NEW k \in Kinds, ServeCommand(n, k, who)
        PROVE  \A m \in Machines, x \in Nodes, kind \in Kinds, phases \in SUBSET CommandPhases :
                 Sent(m, x, kind, phases)' <=>
                    \/ Sent(m, x, kind, phases)
                    \/ m = who /\ x = n /\ kind = k /\ "Pending" \in phases
    <3> SUFFICES ASSUME NEW m \in Machines, NEW x \in Nodes, NEW kind \in Kinds,
                        NEW phases \in SUBSET CommandPhases
                 PROVE  Sent(m, x, kind, phases)' <=>
                          \/ Sent(m, x, kind, phases)
                          \/ m = who /\ x = n /\ kind = k /\ "Pending" \in phases
      OBVIOUS
    <3>1. CASE x # n
      BY <1>0, <2>1, <2>3, <3>1, ServeCommandFacts DEF Sent
    <3>2. CASE x = n
      <4>1. /\ Len(cmds[n]) \in Nat
            /\ DOMAIN cmds[n] = 1..Len(cmds[n])
            /\ DOMAIN cmds'[n] = 1..(Len(cmds[n]) + 1)
            /\ \A j \in DOMAIN cmds[n] : cmds'[n][j] = cmds[n][j]
            /\ cmds'[n][Len(cmds[n]) + 1].kind = k
            /\ cmds'[n][Len(cmds[n]) + 1].by = who
            /\ cmds'[n][Len(cmds[n]) + 1].phase = "Pending"
        BY <1>0, <2>1, <2>3, ServeCommandFacts
      <4>2. \A j : j \in DOMAIN cmds'[n] <=> j \in DOMAIN cmds[n] \/ j = Len(cmds[n]) + 1
        BY <4>1
      <4> QED BY <3>2, <4>1, <4>2 DEF Sent
    <3> QED BY <3>1, <3>2
  <2>4. CASE ApplyCloudConfig
    <3>1. /\ "apply" \in Kinds /\ "reboot" \in Kinds /\ "apply" # "reboot"
          /\ {"Completed"} \subseteq CommandPhases /\ "Pending" \in CommandPhases
      BY DEF Kinds, CommandPhases
    <3>2. \A m \in Machines, x \in Nodes :
            /\ Sent(m, x, "apply", CommandPhases)' <=>
                 Sent(m, x, "apply", CommandPhases) \/ (m = who /\ x = n)
            /\ Sent(m, x, "apply", {"Completed"})' <=> Sent(m, x, "apply", {"Completed"})
            /\ Sent(m, x, "reboot", CommandPhases)' <=> Sent(m, x, "reboot", CommandPhases)
      BY <2>1, <2>3, <2>4, <3>1
    <3>3. /\ Handed' = Handed \cup {<<who, n>>}
          /\ Configured' = Configured /\ Rebooted' = Rebooted
      BY <2>1, <3>2 DEF Handed, Configured, Rebooted, Commanded
    <3> QED BY <2>1, <2>2, <3>3
  <2>5. CASE ~ApplyCloudConfig
    <3>1. /\ "apply" \in Kinds /\ "reboot" \in Kinds /\ "apply" # "reboot"
          /\ {"Completed"} \subseteq CommandPhases /\ "Pending" \in CommandPhases
      BY DEF Kinds, CommandPhases
    <3>2. \A m \in Machines, x \in Nodes :
            /\ Sent(m, x, "reboot", CommandPhases)' <=>
                 Sent(m, x, "reboot", CommandPhases) \/ (m = who /\ x = n)
            /\ Sent(m, x, "apply", {"Completed"})' <=> Sent(m, x, "apply", {"Completed"})
            /\ Sent(m, x, "apply", CommandPhases)' <=> Sent(m, x, "apply", CommandPhases)
      BY <2>1, <2>3, <2>5, <3>1
    <3>3. /\ Rebooted' = Rebooted \cup {<<who, n>>}
          /\ Configured' = Configured /\ Handed' = Handed
      BY <2>1, <3>2 DEF Handed, Configured, Rebooted, Commanded
    <3>4. n \in tampered \/ Sent(who, n, "apply", {"Completed"})
      BY <1>1, <2>5, RebootJustified DEF Sent, n
    <3>5. <<who, n>> \in Configured \/ n \in tampered
      BY <2>1, <3>4 DEF Configured, Commanded
    <3> QED BY <2>1, <2>2, <3>3, <3>5
  <2> QED BY <2>4, <2>5
<1>2. ASSUME NEW k \in Nodes, NodeStep(k), ~UNCHANGED cmds
      PROVE  /\ Handed' = Handed /\ Rebooted' = Rebooted
             /\ \/ Configured' = Configured
                \/ \E m \in Machines :
                     <<m, k>> \in Handed /\ Configured' = Configured \cup {<<m, k>>}
  <2>1. PICK i \in DOMAIN cmds[k], p \in CommandPhases :
          /\ cmds' = [cmds EXCEPT ![k][i].phase = p]
          /\ cmds[k][i].phase # "Completed"
          /\ p = "Completed" => cmds[k][i].kind = "apply"
    BY <1>2, NodeCommands DEF NextCommand
  <2>2. /\ \A x \in Nodes : DOMAIN cmds'[x] = DOMAIN cmds[x]
        /\ \A x \in Nodes : \A j \in DOMAIN cmds[x] :
             /\ cmds'[x][j].kind = cmds[x][j].kind
             /\ cmds'[x][j].by = cmds[x][j].by
             /\ cmds'[x][j].at = cmds[x][j].at
             /\ cmds'[x][j].phase = IF x = k /\ j = i THEN p ELSE cmds[x][j].phase
    <3>1. cmds' = [cmds EXCEPT ![k][i].phase = p]
      BY <2>1
    <3> QED BY <1>0, <3>1, SetPhaseFacts
  <2>3. \A x \in Nodes : \A j \in DOMAIN cmds[x] :
          cmds[x][j].phase \in CommandPhases /\ cmds[x][j].by \in Machines
    <3>1. \A x \in Nodes : cmds[x] \in Seq(Command)
      BY <1>0 DEF FleetTypeOK
    <3>2. \A x \in Nodes : \A j \in DOMAIN cmds[x] : cmds[x][j] \in Command
      BY <3>1
    <3> QED BY <3>2 DEF Command
  <2>4. \A m \in Machines, x \in Nodes :
          /\ Sent(m, x, "apply", CommandPhases)' <=> Sent(m, x, "apply", CommandPhases)
          /\ Sent(m, x, "reboot", CommandPhases)' <=> Sent(m, x, "reboot", CommandPhases)
    BY <2>2, <2>3 DEF Sent
  <2>5. Handed' = Handed /\ Rebooted' = Rebooted
    BY <2>4 DEF Handed, Rebooted, Commanded
  <2>6. CASE p # "Completed"
    <3>1. \A m \in Machines, x \in Nodes :
            Sent(m, x, "apply", {"Completed"})' <=> Sent(m, x, "apply", {"Completed"})
      BY <2>1, <2>2, <2>6 DEF Sent
    <3> QED BY <2>5, <3>1 DEF Configured, Commanded
  <2>7. CASE p = "Completed"
    <3> DEFINE b == cmds[k][i].by
    <3>0. b \in Machines
      BY <2>3
    <3>1. \A m \in Machines, x \in Nodes :
            Sent(m, x, "apply", {"Completed"})' <=>
              Sent(m, x, "apply", {"Completed"}) \/ (m = b /\ x = k)
      BY <2>1, <2>2, <2>7 DEF Sent
    <3>2. Configured' = Configured \cup {<<b, k>>}
      BY <3>0, <3>1 DEF Configured, Commanded
    <3>3. <<b, k>> \in Handed
      BY <2>1, <2>3, <2>7, <3>0 DEF Handed, Commanded, Sent
    <3> QED BY <2>5, <3>0, <3>2, <3>3
  <2> QED BY <2>6, <2>7
<1> QED BY <1>1, <1>2, SamePool

\* A write to the object of one machine leaves the others' part of the pool alone.
LEMMA OneObject ==
  ASSUME NEW k \in Machines, \A m \in Machines : m # k => store'[m] = store[m]
  PROVE  /\ Serving' = [Serving EXCEPT ![k] = Serving'[k]]
         /\ Serving'[k] = Serving[k] => Serving' = Serving
         /\ k \in ReadySet' => ReadySet' = ReadySet \cup {k}
         /\ k \notin ReadySet' => ReadySet' = ReadySet \ {k}
         /\ Serving[k] = IF Live(k) THEN store[k].nodeID ELSE "retired"
         /\ Serving'[k] = IF Live(k)' THEN store'[k].nodeID ELSE "retired"
         /\ k \in ReadySet <=> Live(k) /\ store[k].provisioned
         /\ k \in ReadySet' <=> Live(k)' /\ store'[k].provisioned
<1>1. \A m \in Machines : m # k => (Live(m)' <=> Live(m))
  BY DEF Live
<1> QED BY <1>1 DEF Serving, ReadySet

\* A pass records only a node its machine may use and reports ready only a machine
\* whose recorded node it rebooted; a deletion retires the machine, a move drops
\* its status.
LEMMA StoreRefines ==
  ASSUME TypeOK, TypeOK', ClaimInv, ConfigInv,
         PatchObject \/ PatchStatus \/ \E m \in Machines : UserDelete(m) \/ Move(m)
  PROVE  \/ Serving' = Serving /\ ReadySet' = ReadySet
         \/ \E m \in Machines, n \in Nodes :
              /\ Serving[m] # "retired" /\ (Holder[n] = m \/ n \in tampered)
              /\ Serving' = [Serving EXCEPT ![m] = n] /\ ReadySet' = ReadySet
         \/ \E m \in Machines :
              Serving' = [Serving EXCEPT ![m] = "retired"] /\ ReadySet' = ReadySet \ {m}
         \/ \E m \in Machines :
              /\ <<m, Serving[m]>> \in Rebooted
              /\ ReadySet' = ReadySet \cup {m} /\ Serving' = Serving
         \/ \E m \in Machines : ReadySet' = ReadySet \ {m} /\ Serving' = Serving
<1>1. CASE UNCHANGED store
  BY <1>1, SamePool
<1>2. CASE PatchObject /\ ~UNCHANGED store
  <2>0. PICK w \in Machines : w = who
    BY <1>2 DEF PatchObject, TypeOK
  <2>1. /\ pc = "patch" /\ store[w] # None
        /\ store'[w] = Stored(patched)
        /\ \A m \in Machines : m # w => store'[m] = store[m]
    BY <1>2, <2>0 DEF PatchObject, TypeOK
  <2>2. /\ patched.nodeID = IF obj.nodeID # base.nodeID
                              THEN obj.nodeID ELSE store[w].nodeID
        /\ patched.deleting = store[w].deleting
        /\ patched.provisioned = store[w].provisioned
        /\ patched \in Object
    BY <2>0, <2>1, PatchFields
  <2>3. CASE ~Live(w)
    <3>1. ~Live(w)'
      BY <2>0, <2>1, <2>2, <2>3 DEF Live, Stored
    <3> QED BY <2>0, <2>1, <2>3, <3>1, OneObject
  <2>4. CASE Live(w)
    <3>1. store'[w] = patched /\ Live(w)'
      BY <2>0, <2>1, <2>2, <2>4, GoneAssumption DEF Live, Stored
    <3>2. ReadySet' = ReadySet
      BY <2>0, <2>1, <2>2, <2>4, <3>1, OneObject
    <3>3. CASE obj.nodeID = base.nodeID
      BY <2>0, <2>1, <2>2, <2>4, <3>1, <3>2, <3>3, OneObject
    <3>4. CASE obj.nodeID # base.nodeID
      <4>1. base.nodeID = None /\ ~base.deleting
        BY <2>0, <2>1, <2>4, <3>4, DeletedNotLive DEF ConfigInv, PassInv
      <4>2. obj \in Object /\ obj # None /\ obj.nodeID \in Nodes
        BY <2>0, <2>1, <3>4, <4>1, GoneAssumption DEF TypeOK, Object, MaybeNode
      <4>3. obj.nodeID \in tampered \/ HeldBy(obj.nodeID, w)
        BY <2>0, <2>1, <4>1, <4>2, NoneAssumption DEF ClaimInv, Owns
      <4>4. Holder[obj.nodeID] = w \/ obj.nodeID \in tampered
        BY <2>0, <2>1, <4>2, <4>3, HolderFacts
      <4>5. Serving[w] = store[w].nodeID /\ store[w].nodeID \in Nodes \cup {None}
        BY <2>0, <2>1, <2>4, OneObject DEF TypeOK, Object, MaybeNode
      <4>6. Serving[w] # "retired"
        BY <4>5, RetiredAssumption
      <4>7. Serving' = [Serving EXCEPT ![w] = obj.nodeID]
        BY <2>0, <2>1, <2>2, <3>1, <3>4, OneObject
      <4> QED BY <2>0, <2>1, <3>2, <4>2, <4>4, <4>6, <4>7
    <3> QED BY <3>3, <3>4
  <2> QED BY <2>3, <2>4
<1>3. CASE PatchStatus /\ ~UNCHANGED store
  <2>0. PICK w \in Machines : w = who
    BY <1>3 DEF PatchStatus, TypeOK
  <2>1. /\ pc = "patchStatus" /\ store[w] # None
        /\ store'[w] = WithStatus(store[w], merged("provisioned"), merged("failure"))
        /\ \A m \in Machines : m # w => store'[m] = store[m]
    BY <1>3, <2>0 DEF PatchStatus, TypeOK
  <2>2. /\ store'[w].nodeID = store[w].nodeID
        /\ store'[w].deleting = store[w].deleting
        /\ store'[w].provisioned = merged("provisioned")
        /\ store'[w] # None
    <3>1. store[w] \in Object
      BY <2>0, <2>1 DEF TypeOK
    <3>2. merged("provisioned") \in BOOLEAN /\ merged("failure") \in BOOLEAN
      BY <2>0, <2>1, <3>1 DEF merged, TypeOK, Object
    <3> QED BY <2>0, <2>1, <3>1, <3>2, WithStatusFacts, GoneAssumption
  <2>3. Live(w)' <=> Live(w)
    BY <2>0, <2>1, <2>2 DEF Live
  <2>4. Serving' = Serving
    BY <2>0, <2>1, <2>2, <2>3, OneObject
  <2>5. CASE w \notin ReadySet'
    <3>1. ReadySet' = ReadySet \ {w}
      BY <2>1, <2>5, OneObject
    <3> QED BY <2>4, <3>1
  <2>6. CASE w \in ReadySet' /\ w \in ReadySet
    <3>1. ReadySet' = ReadySet
      BY <2>1, <2>6, OneObject
    <3> QED BY <2>4, <3>1
  <2>7. CASE w \in ReadySet' /\ w \notin ReadySet
    <3>1. Live(w) /\ obj.provisioned /\ ~base.provisioned
      BY <2>0, <2>1, <2>2, <2>3, <2>7, OneObject DEF merged, TypeOK, Object
    <3>2. /\ base.rebootAt # None /\ base # None
          /\ Witnessed(w, base) /\ store[w].nodeID = base.nodeID
      BY <2>0, <2>1, <3>1, GoneAssumption DEF ConfigInv, PassInv, RecordInv, Begun, TypeOK
    <3>3. Sent(w, store[w].nodeID, "reboot", CommandPhases) /\ store[w].nodeID # None
      BY <3>2 DEF Witnessed, Begun
    <3>4. store[w].nodeID \in Nodes /\ Serving[w] = store[w].nodeID
      BY <2>0, <2>1, <3>1, <3>3, OneObject DEF TypeOK, Object, MaybeNode
    <3>5. <<w, Serving[w]>> \in Rebooted
      BY <2>0, <2>1, <3>3, <3>4 DEF Rebooted, Commanded
    <3> QED BY <2>0, <2>1, <2>4, <2>7, <3>5, OneObject
  <2> QED BY <2>5, <2>6, <2>7
<1>4. ASSUME NEW k \in Machines, UserDelete(k)
      PROVE  Serving' = [Serving EXCEPT ![k] = "retired"] /\ ReadySet' = ReadySet \ {k}
  <2>1. /\ store'[k] = Stored([store[k] EXCEPT !.deleting = TRUE]) /\ store[k] \in Object
        /\ \A m \in Machines : m # k => store'[m] = store[m]
    BY <1>4 DEF UserDelete, TypeOK
  <2>2. ~Live(k)'
    BY <2>1 DEF Live, Stored, Object
  <2> QED BY <2>1, <2>2, OneObject
<1>5. ASSUME NEW k \in Machines, Move(k)
      PROVE  ReadySet' = ReadySet \ {k} /\ Serving' = Serving
  <2>1. /\ store'[k] = WithStatus([store[k] EXCEPT !.uid = @ + 1], FALSE, FALSE)
        /\ store[k] \in Object /\ Live(k)
        /\ \A m \in Machines : m # k => store'[m] = store[m]
    BY <1>5 DEF Move, Live, TypeOK
  <2> DEFINE o == [store[k] EXCEPT !.uid = @ + 1]
  <2>2. o \in Object /\ o.nodeID = store[k].nodeID /\ o.deleting = store[k].deleting
    BY <2>1 DEF Object
  <2> HIDE DEF o
  <2>3. store'[k] = WithStatus(o, FALSE, FALSE)
    BY <2>1 DEF o
  <2>4. /\ store'[k].nodeID = store[k].nodeID /\ ~store'[k].provisioned
        /\ store'[k].deleting = store[k].deleting /\ store'[k] # None
    <3>1. WithStatus(o, FALSE, FALSE) \in Object
      BY <2>2 DEF WithStatus, Object
    <3>2. store'[k] # None
      BY <2>3, <3>1, GoneAssumption
    <3> QED BY <2>2, <2>3, <3>2 DEF WithStatus, Object
  <2>5. Live(k)'
    BY <2>1, <2>4 DEF Live
  <2> QED BY <2>1, <2>4, <2>5, OneObject
<1> QED BY <1>1, <1>2, <1>3, <1>4, <1>5

-----------------------------------------------------------------------------
(* The refinement *)

\* Initially only legacy machines hold, serve with and have handed a config to a
\* node, and it is the same one.
LEMMA PoolInit == ASSUME CoreInit, connected \in BOOLEAN PROVE Pool!Init
<1>1. PICK held \in [Legacy -> Nodes], left \in [Legacy -> Left] : Adopts(held, left)
  BY Adopted
<1>2. TypeOK /\ tampered = {}
  BY TypeInit DEF CoreInit
<1>3. ASSUME NEW l \in Legacy
      PROVE  /\ held[l] \in Nodes /\ l \in Machines /\ left[l] \in Left
             /\ Holder[held[l]] = l
             /\ cmds[held[l]] = LeftCommands(l, left[l])
  BY <1>1, LegacyAssumption, NoneAssumption DEF Adopts, HeldBy, Holder
<1>4. ASSUME NEW n \in Nodes, \A l \in Legacy : held[l] # n
      PROVE  cmds[n] = <<>> /\ Holder[n] = None
  BY <1>1, <1>4 DEF Adopts, Holder
<1>5. Holder \in [Nodes -> Machines \cup {None}]
  <2>1. \A n \in Nodes : Holder[n] \in Machines \cup {None}
    BY <1>3, <1>4
  <2> QED BY <2>1 DEF Holder
<1>6. ASSUME NEW m \in Machines
      PROVE  /\ m \in Legacy => Serving[m] \in {held[m], "retired"}
             /\ m \notin Legacy => Serving[m] \in {None, "retired"}
             /\ ~store[m].provisioned
  <2>1. CASE m \in Legacy
    <3>1. store[m] = Claimed(held[m], left[m]) /\ held[m] \in Nodes /\ left[m] \in Left
      BY <1>1, <2>1 DEF Adopts
    <3>2. store[m].nodeID = held[m] /\ ~store[m].provisioned
      BY <3>1, ClaimedFacts
    <3> QED BY <2>1, <3>2 DEF Serving
  <2>2. CASE m \notin Legacy
    BY <1>1, <2>2, NewFacts DEF Adopts, Serving
  <2> QED BY <2>1, <2>2
<1>7. Serving \in [Machines -> Nodes \cup {None, "retired"}]
  <2>1. \A m \in Machines : Serving[m] \in Nodes \cup {None, "retired"}
    BY <1>3, <1>6
  <2> QED BY <2>1 DEF Serving
<1>8. ASSUME NEW m \in Machines, NEW n \in Nodes, Serving[m] = n PROVE Holder[n] = m
  BY <1>3, <1>6, <1>8, RetiredAssumption, NoneAssumption
\* Only an earlier build has sent anything, and rebooted only what had its config.
<1>9. ASSUME NEW m \in Machines, NEW n \in Nodes, NEW kind, NEW phases,
             Sent(m, n, kind, phases)
      PROVE  /\ Holder[n] = m
             /\ Sent(m, n, "apply", CommandPhases)
             /\ kind = "reboot" => Sent(m, n, "apply", {"Completed"})
  <2>1. PICK i \in DOMAIN cmds[n] :
          cmds[n][i].kind = kind /\ cmds[n][i].by = m /\ cmds[n][i].phase \in phases
    BY <1>9 DEF Sent
  <2>2. PICK l \in Legacy : held[l] = n
    BY <1>4, <2>1
  <2>3. l \in Machines /\ left[l] \in Left /\ cmds[n] = LeftCommands(l, left[l])
    BY <1>3, <2>2
  <2>4. /\ l = m /\ 1 \in DOMAIN cmds[n] /\ cmds[n][1].by = m
        /\ cmds[n][1].kind = "apply"
        /\ cmds[n][i].kind = "reboot" => cmds[n][1].phase = "Completed"
    BY <2>1, <2>3, LeftFacts
  <2>5. cmds[n][1].phase \in CommandPhases
    <3>1. cmds[n] \in Seq(Command)
      BY <1>2 DEF TypeOK, FleetTypeOK
    <3>2. cmds[n][1] \in Command
      BY <2>4, <3>1
    <3> QED BY <3>2 DEF Command
  <2>6. Sent(m, n, "apply", {cmds[n][1].phase})
    BY <2>4 DEF Sent
  <2>7. Sent(m, n, "apply", CommandPhases)
    BY <2>5, <2>6 DEF Sent
  <2>8. kind = "reboot" => Sent(m, n, "apply", {"Completed"})
    BY <2>1, <2>4, <2>6
  <2>9. Holder[n] = m
    BY <1>3, <2>2, <2>4
  <2> QED BY <2>7, <2>8, <2>9
<1>10. Configured \subseteq Handed
  BY <1>9 DEF Configured, Handed, Commanded
<1>11. Rebooted \subseteq Configured
  BY <1>9 DEF Rebooted, Configured, Commanded
<1>12. /\ Handed \in SUBSET (Machines \X Nodes)
       /\ \A m \in Machines, n \in Nodes : <<m, n>> \in Handed => Holder[n] = m
  BY <1>9 DEF Handed, Commanded
<1>13. ReadySet = {}
  BY <1>6 DEF ReadySet
<1> QED BY <1>2, <1>5, <1>7, <1>8, <1>10, <1>11, <1>12, <1>13
    DEF Pool!Init, Handed, Configured, Rebooted, ReadySet

\* Every step of the provider is a step of the pool, or none.
LEMMA PoolNext ==
  ASSUME TypeOK, TypeOK', ClaimInv, ConfigInv, [OpenNext]_vars
  PROVE  [Pool!Next]_(Pool!poolVars)
<1> USE DEF Pool!poolVars, Handed, Configured, Rebooted, ReadySet
<1>1. CASE UNCHANGED <<claim, tampered, cmds, store>>
  BY <1>1, SamePool
<1>2. CASE /\ UNCHANGED <<claim, tampered, store>>
           /\ \/ ApplyCloudConfig \/ RequestReboot
              \/ \E n \in Nodes : NodeStep(n)
  BY <1>2, SamePool, CommandRefines
  DEF Pool!Next, Pool!HandConfig, Pool!CarryOut, Pool!Reboot, Pool!MayUse
<1>3. CASE /\ UNCHANGED <<cmds, store>>
           /\ (ClaimNode \/ ReleaseNode \/ \E n \in Nodes : OperatorRelease(n))
  BY <1>3, SamePool, ClaimRefines DEF Pool!Next, Pool!Take, Pool!Return, Pool!Loosen, Serving
<1>4. CASE /\ UNCHANGED <<claim, tampered, cmds>>
           /\ (PatchObject \/ PatchStatus \/ \E m \in Machines : UserDelete(m) \/ Move(m))
  BY <1>4, SamePool, StoreRefines
  DEF Pool!Next, Pool!Record, Pool!Retire, Pool!MarkReady, Pool!MarkNotReady, Pool!MayUse
<1> QED BY <1>1, <1>2, <1>3, <1>4, OnePart

\* So do the machines of any manager.
LEMMA OpenPool == OpenSpec => ImplementsPool
BY PoolInit, PoolNext, OpenTypes, OpenClaims, OpenRecords, PTL
DEF OpenSpec, ImplementsPool, Pool!Spec

\* KairosFleetMachine implements NodePool, whatever is lost, stale, moved, deleted
\* or restarted, and for every number of machines and nodes.
THEOREM PoolImplemented == Spec => ImplementsPool
BY SpecIsOpen, OpenPool, PTL
=============================================================================
