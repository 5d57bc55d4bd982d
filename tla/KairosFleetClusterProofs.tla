----------------------- MODULE KairosFleetClusterProofs -----------------------
(***************************************************************************)
(* Proofs about KairosFleetCluster: its types, and that an up-to-date      *)
(* Ready condition is about the spec it stands beside, for any number of   *)
(* edits, stale reads, failed patches and restarts.                        *)
(***************************************************************************)
EXTENDS KairosFleetCluster, TLAPS

\* A condition set by a pass is a condition, and nothing else but provisioned changes.
LEMMA SetConditionFacts ==
  ASSUME NEW o \in Object, NEW r \in Reasons
  PROVE  /\ setCondition(o, r) \in Object
         /\ setCondition(o, r).ready = [reason |-> r, observed |-> o.generation]
         /\ setCondition(o, r).generation = o.generation
         /\ setCondition(o, r).endpoint = o.endpoint
BY DEF setCondition, Object, Condition

\* The updates of an object by passes and users, field by field.
LEMMA UpdateTypes ==
  ASSUME NEW o \in Object
  PROVE  /\ \A f \in BOOLEAN : [o EXCEPT !.finalizer = f] \in Object
         /\ [o EXCEPT !.owner = TRUE] \in Object
         /\ \A e \in BOOLEAN :
                [o EXCEPT !.endpoint = e, !.generation = @ + 1] \in Object
         /\ [o EXCEPT !.deleting = TRUE, !.generation = @ + 1] \in Object
         /\ \A p \in BOOLEAN, c \in Condition \cup {None} :
                [o EXCEPT !.provisioned = p, !.ready = c] \in Object
<1>1. \A f \in BOOLEAN : [o EXCEPT !.finalizer = f] \in Object
  BY DEF Object
<1>2. [o EXCEPT !.owner = TRUE] \in Object
  BY DEF Object
<1>3. ASSUME NEW e \in BOOLEAN
      PROVE  [o EXCEPT !.endpoint = e, !.generation = @ + 1] \in Object
  <2>1. ASSUME NEW g \in Nat PROVE [o EXCEPT !.endpoint = e, !.generation = g] \in Object
    BY DEF Object
  <2>2. o.generation + 1 \in Nat
    BY DEF Object
  <2> QED BY <2>1, <2>2
<1>4. [o EXCEPT !.deleting = TRUE, !.generation = @ + 1] \in Object
  <2>1. ASSUME NEW g \in Nat PROVE [o EXCEPT !.deleting = TRUE, !.generation = g] \in Object
    BY DEF Object
  <2>2. o.generation + 1 \in Nat
    BY DEF Object
  <2> QED BY <2>1, <2>2
<1>5. ASSUME NEW p \in BOOLEAN, NEW c \in Condition \cup {None}
      PROVE  [o EXCEPT !.provisioned = p, !.ready = c] \in Object
  BY DEF Object
<1> QED BY <1>1, <1>2, <1>3, <1>4, <1>5

\* A mishap is counted.
LEMMA MishapType == ASSUME spent \in Nat, NEW k, Mishap(k) PROVE spent' \in Nat
BY DEF Mishap

\* A pass that returns a well-formed object keeps the types.
LEMMA ReturnType ==
  ASSUME TypeOK, pc = "reconcile", NEW o \in Object, NEW r \in BOOLEAN,
         Return(o, r), spent' \in Nat
  PROVE  TypeOK'
BY DEF TypeOK, Return

\* The steps of the worker keep the types.
LEMMA WorkerType == ASSUME TypeOK, Worker PROVE TypeOK'
<1>1. CASE ReconcileDelete
  <2>1. [obj EXCEPT !.finalizer = FALSE] \in Object
    BY <1>1, UpdateTypes DEF ReconcileDelete, TypeOK
  <2> QED BY <1>1, <2>1, ReturnType DEF ReconcileDelete, TypeOK
<1>2. CASE ConnectionNotReady
  <2>1. spent' \in Nat
    BY <1>2, MishapType DEF ConnectionNotReady, TypeOK
  <2>2. obj \in Object
    BY <1>2 DEF ConnectionNotReady, TypeOK
  <2> QED BY <1>2, <2>1, <2>2, SetConditionFacts, ReturnType DEF ConnectionNotReady, Reasons
<1>3. CASE WaitForEndpoint
  <2>1. obj \in Object /\ spent' \in Nat
    BY <1>3 DEF WaitForEndpoint, TypeOK
  <2> QED BY <1>3, <2>1, SetConditionFacts, ReturnType DEF WaitForEndpoint, Reasons
<1>4. CASE Provision
  <2>1. obj \in Object /\ spent' \in Nat
    BY <1>4 DEF Provision, TypeOK
  <2> QED BY <1>4, <2>1, SetConditionFacts, ReturnType DEF Provision, Reasons
<1>5. CASE PatchObject
  <2>1. spent' \in Nat /\ again' \in BOOLEAN
    BY <1>5, MishapType DEF PatchObject, TypeOK
  <2>2. obj \in Object /\ (store # None => store \in Object)
    BY <1>5 DEF PatchObject, TypeOK
  <2>3. obj.finalizer \in BOOLEAN
    BY <2>2 DEF Object
  <2>4. store' \in Object \cup {None}
    BY <1>5, <2>2, <2>3, UpdateTypes DEF PatchObject, TypeOK, Stored
  <2> QED BY <1>5, <2>1, <2>2, <2>4 DEF PatchObject, TypeOK
<1>6. CASE PatchStatus
  <2>1. spent' \in Nat /\ queued' \in BOOLEAN
    BY <1>6, MishapType DEF PatchStatus, TypeOK
  <2>2. obj \in Object /\ (store # None => store \in Object)
    BY <1>6 DEF PatchStatus, TypeOK
  <2>3. /\ obj.provisioned \in BOOLEAN /\ obj.ready \in Condition \cup {None}
        /\ store # None => /\ store.provisioned \in BOOLEAN
                           /\ store.ready \in Condition \cup {None}
    BY <2>2 DEF Object
  <2>4. \/ store' = store
        \/ /\ store # None
           /\ \E p \in BOOLEAN, c \in Condition \cup {None} :
                store' = [store EXCEPT !.provisioned = p, !.ready = c]
    BY <1>6, <2>3 DEF PatchStatus
  <2>5. CASE store' = store
    BY <1>6, <2>1, <2>5 DEF PatchStatus, EndPass, TypeOK
  <2>6. CASE store' # store
    <3>1. PICK p \in BOOLEAN, c \in Condition \cup {None} :
            store' = [store EXCEPT !.provisioned = p, !.ready = c]
      BY <2>4, <2>6
    <3>2. store' \in Object
      BY <2>2, <2>4, <2>6, <3>1, UpdateTypes
    <3> QED BY <1>6, <2>1, <3>2 DEF PatchStatus, EndPass, TypeOK
  <2> QED BY <2>5, <2>6
<1> QED BY <1>1, <1>2, <1>3, <1>4, <1>5, <1>6 DEF Worker

\* So do the other steps.
LEMMA OtherType ==
  ASSUME TypeOK,
         Ignore \/ Reconcile \/ Crash \/ Sync \/ ClusterEvent \/ SetOwner \/ Pause
            \/ Unpause \/ EditEndpoint \/ UserDelete \/ EditSecret
  PROVE  TypeOK'
<1>1. CASE Ignore
  BY <1>1 DEF Ignore, TypeOK, passVars
<1>2. CASE Reconcile
  <2>1. spent' \in Nat
    BY <1>2, MishapType DEF Reconcile, TypeOK
  <2>2. cache \in Object /\ [cache EXCEPT !.finalizer = TRUE] \in Object
    BY <1>2, UpdateTypes DEF Reconcile, Admitted, TypeOK
  <2> QED BY <1>2, <2>1, <2>2 DEF Reconcile, TypeOK
<1>3. CASE Crash
  BY <1>3, MishapType DEF Crash, Restart, EndPass, TypeOK
<1>4. CASE Sync \/ ClusterEvent
  BY <1>4 DEF Sync, ClusterEvent, TypeOK, passVars
<1>5. CASE SetOwner
  <2>1. store' \in Object \cup {None}
    BY <1>5, UpdateTypes DEF SetOwner, TypeOK
  <2> QED BY <1>5, <2>1 DEF SetOwner, TypeOK, passVars
<1>6. CASE Pause \/ Unpause
  BY <1>6, MishapType DEF Pause, Unpause, TypeOK, passVars
<1>7. CASE EditEndpoint
  <2>1. store' \in Object \cup {None}
    BY <1>7, UpdateTypes DEF EditEndpoint, TypeOK
  <2> QED BY <1>7, <2>1 DEF EditEndpoint, TypeOK, passVars
<1>8. CASE UserDelete
  <2>1. store' \in Object \cup {None}
    BY <1>8, UpdateTypes DEF UserDelete, Delete, Stored, TypeOK
  <2> QED BY <1>8, <2>1 DEF UserDelete, Delete, TypeOK, passVars
<1>9. CASE EditSecret
  BY <1>9 DEF EditSecret, PutSecret, TypeOK, passVars
<1> QED BY <1>1, <1>2, <1>3, <1>4, <1>5, <1>6, <1>7, <1>8, <1>9

\* Every step keeps the types.
LEMMA ClusterTypeNext == TypeOK /\ [Next]_vars => TypeOK'
<1> SUFFICES ASSUME TypeOK, [Next]_vars PROVE TypeOK'
  OBVIOUS
<1>1. CASE UNCHANGED vars
  BY <1>1 DEF vars, passVars, TypeOK
<1>2. CASE Next
  BY <1>2, WorkerType, OtherType DEF Next
<1> QED BY <1>1, <1>2

\* The object, its cached copy and the copies of a pass stay well-formed, whatever
\* the operator, the cache and the failures do.
THEOREM ClusterTypeCorrect == Spec => []TypeOK
<1>1. Init => TypeOK
  <2> SUFFICES ASSUME Init PROVE TypeOK
    OBVIOUS
  <2>1. PICK e \in BOOLEAN :
          store = [owner |-> FALSE, deleting |-> FALSE, finalizer |-> FALSE,
                   generation |-> 1, endpoint |-> e, provisioned |-> FALSE, ready |-> None]
    BY DEF Init
  <2>2. store \in Object
    BY <2>1 DEF Object
  <2> QED BY <2>2 DEF Init, TypeOK, Secrets
<1> QED BY <1>1, ClusterTypeNext, PTL DEF Spec

-----------------------------------------------------------------------------
(* The Ready condition and the spec it is about *)

\* The fields an object is read by.
LEMMA Fields ==
  ASSUME NEW o \in Object
  PROVE  /\ o.generation \in Nat
         /\ o.ready \in Condition \cup {None}
         /\ o.ready # None => o.ready.observed \in Nat /\ o.ready.reason \in Reasons
BY DEF Object, Condition

\* A write that changes neither generation nor endpoint nor condition.
LEMMA SameVersion ==
  ASSUME TypeOK, VerdictInv, UNCHANGED <<cache, passVars>>,
         store' = None \/ (/\ store # None /\ store'.generation = store.generation
                           /\ store'.endpoint = store.endpoint
                           /\ store'.ready = store.ready)
  PROVE  VerdictInv'
BY DEF VerdictInv, Witnessed, Older, passVars

\* An edit of the spec, or a delete: every copy is now older.
LEMMA NewVersion ==
  ASSUME TypeOK, VerdictInv, UNCHANGED <<cache, passVars>>, store # None,
         store' = None \/ (/\ store'.generation = store.generation + 1
                           /\ store'.ready = store.ready)
  PROVE  VerdictInv'
<1>1. store \in Object /\ (cache # None => cache \in Object)
      /\ (pc # "idle" => base \in Object)
  BY DEF TypeOK
<1>2. store.generation \in Nat /\ (cache # None => cache.generation \in Nat)
      /\ (pc # "idle" => base.generation \in Nat)
  BY <1>1, Fields
<1>3. store.ready # None => store.ready.observed \in Nat
  BY <1>1, Fields
<1>4. Witnessed(store)'
  BY <1>2, <1>3 DEF VerdictInv, Witnessed
<1>5. Older(cache)' /\ (pc # "idle" => Older(base)')
  BY <1>2 DEF VerdictInv, Older, passVars
<1> QED BY <1>4, <1>5 DEF VerdictInv, Witnessed, passVars

\* A pass that judges: its verdict is about the version it read.
LEMMA JudgeInv ==
  ASSUME TypeOK, VerdictInv, pc = "reconcile",
         NEW r \in Reasons, NEW b, Return(setCondition(obj, r), b),
         r = "Provisioned" => obj.endpoint
  PROVE  VerdictInv'
<1>1. obj \in Object /\ obj.generation \in Nat
  BY Fields DEF TypeOK
<1>2. /\ setCondition(obj, r).ready = [reason |-> r, observed |-> obj.generation]
      /\ setCondition(obj, r).generation = obj.generation
      /\ setCondition(obj, r).endpoint = obj.endpoint
  BY <1>1, SetConditionFacts
<1>3. Witnessed(obj')
  BY <1>1, <1>2 DEF Return, Witnessed
<1> QED BY <1>2, <1>3 DEF VerdictInv, Return, Witnessed, Older

\* The steps of the worker preserve the invariant.
LEMMA WorkerInv == ASSUME TypeOK, VerdictInv, Worker PROVE VerdictInv'
<1>1. CASE ReconcileDelete
  <2>1. obj \in Object
    BY <1>1 DEF ReconcileDelete, TypeOK
  <2>2. LET o == [obj EXCEPT !.finalizer = FALSE]
        IN  o.generation = obj.generation /\ o.endpoint = obj.endpoint /\ o.ready = obj.ready
    BY <2>1 DEF Object
  <2>3. obj # None /\ pc # "idle" /\ obj' = [obj EXCEPT !.finalizer = FALSE]
        /\ UNCHANGED <<store, cache, base>>
    BY <1>1, <2>1, GoneAssumption DEF ReconcileDelete, Return
  <2>4. Witnessed(obj)'
    BY <2>2, <2>3 DEF VerdictInv, Witnessed
  <2>5. obj'.generation = base'.generation /\ obj'.endpoint = base'.endpoint
    BY <2>2, <2>3 DEF VerdictInv
  <2> QED BY <2>3, <2>4, <2>5 DEF VerdictInv, Witnessed, Older
<1>2. CASE ConnectionNotReady
  BY <1>2, JudgeInv DEF ConnectionNotReady, Reasons
<1>3. CASE WaitForEndpoint
  BY <1>3, JudgeInv DEF WaitForEndpoint, Reasons
<1>4. CASE Provision
  BY <1>4, JudgeInv DEF Provision, Reasons
<1>5. CASE PatchObject
  <2>1. store # None =>
          LET o == [store EXCEPT !.finalizer = obj.finalizer]
          IN  /\ o.generation = store.generation /\ o.endpoint = store.endpoint
              /\ o.ready = store.ready
    BY DEF TypeOK, Object
  <2>2. store' = None \/ (/\ store # None /\ store'.generation = store.generation
                          /\ store'.endpoint = store.endpoint
                          /\ store'.ready = store.ready)
    BY <1>5, <2>1 DEF PatchObject, Stored
  <2>3. pc # "idle" /\ UNCHANGED <<cache, base, obj>>
    BY <1>5 DEF PatchObject
  <2> QED BY <2>2, <2>3 DEF VerdictInv, Witnessed, Older
<1>6. CASE PatchStatus
  <2>1. /\ pc # "idle" /\ pc' = "idle" /\ UNCHANGED cache
        /\ obj \in Object /\ base \in Object /\ (store # None => store \in Object)
    BY <1>6 DEF PatchStatus, EndPass, TypeOK
  <2>2. CASE store' = store
    BY <2>1, <2>2 DEF VerdictInv, Witnessed, Older
  <2>3. CASE store' # store
    <3>1. /\ store # None
          /\ \E p, c : /\ c \in {obj.ready, store.ready}
                      /\ store' = [store EXCEPT !.provisioned = p, !.ready = c]
      BY <1>6, <2>3 DEF PatchStatus
    <3>2. PICK p, c : /\ c \in {obj.ready, store.ready}
                      /\ store' = [store EXCEPT !.provisioned = p, !.ready = c]
      BY <3>1
    <3>3. /\ store'.generation = store.generation /\ store'.endpoint = store.endpoint
          /\ store'.ready = c
      BY <2>1, <3>1, <3>2 DEF Object
    <3>4. /\ store.generation \in Nat /\ obj.generation \in Nat
          /\ obj.ready # None => obj.ready.observed \in Nat
      BY <2>1, <3>1, Fields
    <3>5. Witnessed(store)'
      <4>1. obj # None /\ base # None
        BY <2>1, GoneAssumption
      <4>2. /\ Witnessed(obj) /\ Older(base) /\ Witnessed(store)
            /\ obj.generation = base.generation /\ obj.endpoint = base.endpoint
        BY <2>1 DEF VerdictInv
      <4>3. CASE c = store.ready
        BY <3>1, <3>3, <4>2, <4>3 DEF Witnessed
      <4>4. CASE c = obj.ready /\ c # None
        <5>1. /\ obj.ready.observed =< obj.generation
              /\ obj.generation =< store.generation
              /\ obj.generation = store.generation => obj.endpoint = store.endpoint
              /\ obj.ready.reason = "Provisioned" /\ obj.ready.observed = obj.generation
                    => obj.endpoint
          BY <3>1, <4>1, <4>2, <4>4 DEF Witnessed, Older
        <5>2. /\ obj.ready.observed =< store.generation
              /\ obj.ready.reason = "Provisioned" /\ obj.ready.observed = store.generation
                    => store.endpoint
          BY <3>4, <4>4, <5>1
        <5> QED BY <3>3, <4>4, <5>2 DEF Witnessed
      <4>5. CASE c = None
        BY <3>3, <4>5 DEF Witnessed
      <4> QED BY <3>2, <4>3, <4>4, <4>5
    <3>6. Witnessed(cache)' /\ Older(cache)'
      BY <2>1, <3>1, <3>3 DEF VerdictInv, Witnessed, Older
    <3> QED BY <2>1, <3>5, <3>6 DEF VerdictInv
  <2> QED BY <2>2, <2>3
<1> QED BY <1>1, <1>2, <1>3, <1>4, <1>5, <1>6 DEF Worker

\* So do the other steps.
LEMMA OtherInv ==
  ASSUME TypeOK, VerdictInv,
         Ignore \/ Reconcile \/ Crash \/ Sync \/ ClusterEvent \/ SetOwner \/ Pause
            \/ Unpause \/ EditEndpoint \/ UserDelete \/ EditSecret
  PROVE  VerdictInv'
<1>1. CASE Ignore \/ ClusterEvent \/ Pause \/ Unpause \/ EditSecret
  BY <1>1 DEF Ignore, ClusterEvent, Pause, Unpause, EditSecret, PutSecret, VerdictInv,
     Witnessed, Older, passVars
<1>2. CASE Reconcile
  <2>1. cache \in Object
    BY <1>2 DEF Reconcile, Admitted, TypeOK
  <2>2. LET o == [cache EXCEPT !.finalizer = TRUE]
        IN  /\ o.generation = cache.generation /\ o.endpoint = cache.endpoint
            /\ o.ready = cache.ready
    BY <2>1 DEF Object
  <2>3. cache # None
    BY <2>1, GoneAssumption
  <2>4. obj' = [cache EXCEPT !.finalizer = TRUE] /\ base' = cache
        /\ UNCHANGED <<store, cache>>
    BY <1>2 DEF Reconcile
  <2>5. Witnessed(obj)' /\ Older(base)'
    BY <2>2, <2>3, <2>4 DEF VerdictInv, Witnessed, Older
  <2>6. obj'.generation = base'.generation /\ obj'.endpoint = base'.endpoint
    BY <2>2, <2>4
  <2> QED BY <2>4, <2>5, <2>6 DEF VerdictInv, Witnessed, Older
<1>3. CASE Crash \/ Sync
  <2>1. /\ store' = store /\ cache' = store
        /\ pc' = "idle" \/ UNCHANGED passVars
    BY <1>3 DEF Crash, Restart, EndPass, Sync
  <2>2. store # None => store.generation \in Nat
    BY Fields DEF TypeOK
  <2>3. Witnessed(store)' /\ Witnessed(cache)' /\ Older(cache)'
    BY <2>1, <2>2 DEF VerdictInv, Witnessed, Older
  <2>4. pc' # "idle" => /\ UNCHANGED passVars /\ pc # "idle"
    BY <2>1 DEF passVars
  <2> QED BY <2>1, <2>3, <2>4 DEF VerdictInv, Witnessed, Older, passVars
<1>4. CASE SetOwner
  <2>1. store \in Object
    BY <1>4 DEF SetOwner, TypeOK
  <2>2. LET o == [store EXCEPT !.owner = TRUE]
        IN  /\ o.generation = store.generation /\ o.endpoint = store.endpoint
            /\ o.ready = store.ready
    BY <2>1 DEF Object
  <2> QED BY <1>4, <2>2, SameVersion DEF SetOwner
<1>5. CASE EditEndpoint
  <2>1. store \in Object
    BY <1>5 DEF EditEndpoint, TypeOK
  <2>2. PICK e \in BOOLEAN : store' = [store EXCEPT !.endpoint = e, !.generation = @ + 1]
    BY <1>5 DEF EditEndpoint
  <2>3. store'.generation = store.generation + 1 /\ store'.ready = store.ready
    BY <2>1, <2>2 DEF Object
  <2> QED BY <1>5, <2>3, NewVersion DEF EditEndpoint
<1>6. CASE UserDelete
  <2>1. store \in Object
    BY <1>6 DEF UserDelete, Delete, TypeOK
  <2>2. LET o == [store EXCEPT !.deleting = TRUE, !.generation = @ + 1]
        IN  o.generation = store.generation + 1 /\ o.ready = store.ready
    BY <2>1 DEF Object
  <2>3. store' = None \/ (/\ store'.generation = store.generation + 1
                          /\ store'.ready = store.ready)
    BY <1>6, <2>2 DEF UserDelete, Delete, Stored
  <2> QED BY <1>6, <2>3, NewVersion DEF UserDelete, Delete
<1> QED BY <1>1, <1>2, <1>3, <1>4, <1>5, <1>6

\* Every step preserves the inductive invariant.
LEMMA VerdictNext == TypeOK /\ VerdictInv /\ [Next]_vars => VerdictInv'
<1> SUFFICES ASSUME TypeOK, VerdictInv, [Next]_vars PROVE VerdictInv'
  OBVIOUS
<1>1. CASE UNCHANGED vars
  BY <1>1 DEF vars, passVars, VerdictInv, Witnessed, Older
<1>2. CASE Next
  BY <1>2, WorkerInv, OtherInv DEF Next
<1> QED BY <1>1, <1>2

\* The inductive invariant: whatever version a pass works on, its verdict is about
\* that version and its write does not make it look like one about a later one.
THEOREM VerdictsWitnessed == Spec => []VerdictInv
<1>1. Init => VerdictInv
  <2> SUFFICES ASSUME Init PROVE VerdictInv
    OBVIOUS
  <2>1. /\ store.generation = 1 /\ store.ready = None
        /\ cache = store /\ pc = "idle"
    BY DEF Init
  <2> QED BY <2>1 DEF VerdictInv, Witnessed, Older
<1> QED BY <1>1, ClusterTypeCorrect, VerdictNext, PTL DEF Spec

\* An up-to-date Ready condition that is True stands beside a spec with an endpoint.
THEOREM VerdictCurrent == Spec => []CurrentVerdict
<1>1. VerdictInv => CurrentVerdict
  BY DEF VerdictInv, Witnessed, CurrentVerdict
<1> QED BY <1>1, VerdictsWitnessed, PTL
=============================================================================
