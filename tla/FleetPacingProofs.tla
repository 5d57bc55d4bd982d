-------------------------- MODULE FleetPacingProofs --------------------------
(***************************************************************************)
(* Retries: where nothing makes a pass forget what it sent, a node sees a  *)
(* second command of a kind only after the first has failed and the retry  *)
(* window has passed, whatever events, moves, pauses and operators do.     *)
(***************************************************************************)
EXTENDS FleetFreshProofs

\* A stamp lies less than a second before its time.
LEMMA StampFacts ==
  ASSUME NEW t \in Nat
  PROVE  Stamp(t) \in Nat /\ Stamp(t) <= t /\ Stamp(t) + TicksPerSecond > t
<1>1. TicksPerSecond \in Nat /\ TicksPerSecond > 0
  BY TicksAssumption
<1> QED BY <1>1, StampType DEF Stamp

\* Paced after the step, for a view that may itself be of after the step.
PacedNext(m, o) ==
    LET standing(kind) == IF kind = "apply" THEN o.applied ELSE o.rebootAt # None
        recorded(kind) == IF kind = "apply" THEN o.applyCmd ELSE o.rebootCmd
        due == IF o.notBefore = None THEN now' ELSE o.notBefore
    IN  IF o.nodeID = None
          THEN \A n \in Nodes : \A i \in DOMAIN cmds'[n] : cmds'[n][i].by # m
          ELSE \A i \in DOMAIN cmds'[o.nodeID] :
                 LET c == cmds'[o.nodeID][i]
                 IN  c.by = m =>
                        \/ c.phase = "Failed" /\ due + TicksPerSecond > c.at + RetryWindow
                        \/ /\ standing(c.kind)
                           /\ c.phase = "Failed" \/ recorded(c.kind) = <<o.nodeID, i>>

\* The clock and the times of commands are numbers.
LEMMA Times ==
  ASSUME TypeOK
  PROVE  /\ now \in Nat /\ RetryWindow \in Nat /\ TicksPerSecond \in Nat
         /\ \A n \in Nodes : \A i \in DOMAIN cmds[n] :
              cmds[n][i] \in Command /\ cmds[n][i].at \in Nat /\ i \in Nat
<1>1. \A n \in Nodes : cmds[n] \in Seq(Command)
  BY DEF TypeOK, FleetTypeOK
<1>2. \A n \in Nodes : \A i \in DOMAIN cmds[n] : cmds[n][i] \in Command /\ i \in Nat
  BY <1>1
<1> QED BY <1>2, TimeAssumption, TicksAssumption DEF TypeOK, FleetTypeOK, Command

\* A command of m that is there after a step was there before, unless a pass of m
\* sent it in that step.
LEMMA OldCommand ==
  ASSUME TypeOK, [OpenNext]_vars, NEW m \in Machines,
         ~(who = m /\ (ApplyCloudConfig \/ RequestReboot)),
         NEW n \in Nodes, NEW i \in DOMAIN cmds'[n], cmds'[n][i].by = m
  PROVE  i \in DOMAIN cmds[n] /\ cmds[n][i].by = m
<1>0. FleetTypeOK
  BY DEF TypeOK
<1>1. CASE UNCHANGED <<cmds, staged>>
  BY <1>1
<1>2. ASSUME NEW k \in Nodes, NodeStep(k) PROVE i \in DOMAIN cmds[n]
  <2>1. CASE UNCHANGED <<cmds, staged>>
    BY <2>1
  <2>2. ASSUME NEW j \in DOMAIN cmds[k], NEW p \in CommandPhases,
               cmds' = [cmds EXCEPT ![k][j].phase = p]
        PROVE  i \in DOMAIN cmds[n]
    <3>1. DOMAIN cmds'[n] = DOMAIN cmds[n]
      BY <1>0, <2>2, SetPhaseFacts
    <3> QED BY <3>1
  <2>3. UNCHANGED <<cmds, staged>>
        \/ \E j \in DOMAIN cmds[k], p \in CommandPhases : cmds' = [cmds EXCEPT ![k][j].phase = p]
    BY <1>2, NodeCommands
  <2> QED BY <2>1, <2>2, <2>3
<1>3. ASSUME ApplyCloudConfig \/ RequestReboot, who # m PROVE i \in DOMAIN cmds[n]
  <2>1. PICK k \in Kinds : ServeCommand(obj.nodeID, k, who)
    BY <1>3 DEF ApplyCloudConfig, RequestReboot, Kinds
  <2>2. obj.nodeID \in Nodes /\ who \in Machines
    BY <1>3 DEF ApplyCloudConfig, RequestReboot, Applying, Rebooting, TypeOK, Object, MaybeNode
  <2>3. CASE n = obj.nodeID
    <3>1. /\ Len(cmds[n]) \in Nat /\ DOMAIN cmds[n] = 1..Len(cmds[n])
          /\ DOMAIN cmds'[n] = 1..(Len(cmds[n]) + 1)
          /\ cmds'[n][Len(cmds[n]) + 1].by = who
      BY <1>0, <2>1, <2>2, <2>3, ServeCommandFacts
    <3>2. i # Len(cmds[n]) + 1
      BY <1>3, <3>1
    <3> QED BY <3>1, <3>2
  <2>4. CASE n # obj.nodeID
    BY <1>0, <2>1, <2>2, <2>4, ServeCommandFacts
  <2> QED BY <2>3, <2>4
<1>4. i \in DOMAIN cmds[n]
  BY <1>1, <1>2, <1>3, CommandSteps
<1> QED BY <1>4, HistoryKept

\* A view stays paced, whatever happens around it, unless its machine sends.
LEMMA PacedStays ==
  ASSUME TypeOK, TypeOK', [OpenNext]_vars, NEW m \in Machines, NEW o \in Object, Paced(m, o),
         ~(who = m /\ (ApplyCloudConfig \/ RequestReboot))
  PROVE  PacedNext(m, o)
<1>1. CASE o.nodeID = None
  BY <1>1, OldCommand DEF Paced, PacedNext
<1>2. CASE o.nodeID # None
  <2> DEFINE n == o.nodeID
  <2>0. n \in Nodes
    BY <1>2 DEF Object, MaybeNode
  <2>1. now' >= now /\ now \in Nat /\ now' \in Nat
    BY ClockSteps, Times DEF TypeOK, FleetTypeOK
  <2> SUFFICES ASSUME NEW i \in DOMAIN cmds'[n], cmds'[n][i].by = m
               PROVE  \/ /\ cmds'[n][i].phase = "Failed"
                         /\ (IF o.notBefore = None THEN now' ELSE o.notBefore) + TicksPerSecond
                              > cmds'[n][i].at + RetryWindow
                      \/ /\ IF cmds'[n][i].kind = "apply" THEN o.applied ELSE o.rebootAt # None
                         /\ \/ cmds'[n][i].phase = "Failed"
                            \/ (IF cmds'[n][i].kind = "apply" THEN o.applyCmd ELSE o.rebootCmd)
                                 = <<n, i>>
    BY <1>2 DEF PacedNext
  <2>2. i \in DOMAIN cmds[n] /\ cmds[n][i].by = m
    BY <2>0, OldCommand
  <2>3. /\ cmds'[n][i].kind = cmds[n][i].kind /\ cmds'[n][i].at = cmds[n][i].at
        /\ cmds[n][i].phase = "Failed" => cmds'[n][i].phase = "Failed"
    BY <2>0, <2>2, HistoryKept
  <2>4. \/ /\ cmds[n][i].phase = "Failed"
           /\ (IF o.notBefore = None THEN now ELSE o.notBefore) + TicksPerSecond
                > cmds[n][i].at + RetryWindow
        \/ /\ IF cmds[n][i].kind = "apply" THEN o.applied ELSE o.rebootAt # None
           /\ \/ cmds[n][i].phase = "Failed"
              \/ (IF cmds[n][i].kind = "apply" THEN o.applyCmd ELSE o.rebootCmd) = <<n, i>>
    BY <1>2, <2>2 DEF Paced
  <2>5. cmds[n][i].at \in Nat /\ RetryWindow \in Nat /\ TicksPerSecond \in Nat
    BY <2>0, <2>2, Times
  <2>6. o.notBefore \in Nat \cup {None}
    BY DEF Object, MaybeTime
  <2>7. (IF o.notBefore = None THEN now ELSE o.notBefore) + TicksPerSecond
           > cmds[n][i].at + RetryWindow =>
        (IF o.notBefore = None THEN now' ELSE o.notBefore) + TicksPerSecond
           > cmds'[n][i].at + RetryWindow
    BY <2>1, <2>3, <2>5, <2>6
  <2> HIDE DEF n
  <2> QED BY <2>3, <2>4, <2>7
<1> QED BY <1>1, <1>2

-----------------------------------------------------------------------------
(* What passes do to the object they return *)

\* What a pass knows of one command its machine has sent to the node it names.
LEMMA KnownCommand ==
  ASSUME NEW m \in Machines, NEW o \in Object, Paced(m, o), o.nodeID # None,
         NEW i \in DOMAIN cmds[o.nodeID], cmds[o.nodeID][i].by = m
  PROVE  \/ /\ cmds[o.nodeID][i].phase = "Failed"
            /\ (IF o.notBefore = None THEN now ELSE o.notBefore) + TicksPerSecond
                 > cmds[o.nodeID][i].at + RetryWindow
         \/ /\ IF cmds[o.nodeID][i].kind = "apply" THEN o.applied ELSE o.rebootAt # None
            /\ \/ cmds[o.nodeID][i].phase = "Failed"
               \/ (IF cmds[o.nodeID][i].kind = "apply" THEN o.applyCmd ELSE o.rebootCmd)
                    = <<o.nodeID, i>>
BY DEF Paced

\* A retry window that has passed may be dropped.
LEMMA WindowPassed ==
  ASSUME TypeOK, TypeOK', NEW m \in Machines, NEW o \in Object, PacedNext(m, o), NEW p,
         p.nodeID = o.nodeID, p.applied = o.applied, p.applyCmd = o.applyCmd,
         p.rebootAt = o.rebootAt, p.rebootCmd = o.rebootCmd,
         \/ p.notBefore = o.notBefore
         \/ p.notBefore = None /\ ~retryHeld(o) /\ UNCHANGED now
  PROVE  PacedNext(m, p)
<1>1. CASE p.notBefore = o.notBefore
  BY <1>1 DEF PacedNext
<1>2. CASE p.notBefore = None /\ ~retryHeld(o) /\ UNCHANGED now /\ o.nodeID = None
  BY <1>2 DEF PacedNext
<1>3. CASE p.notBefore = None /\ ~retryHeld(o) /\ UNCHANGED now /\ o.nodeID # None
  <2> DEFINE n == o.nodeID
  <2>0. n \in Nodes
    BY <1>3 DEF Object, MaybeNode
  <2> SUFFICES ASSUME NEW i \in DOMAIN cmds'[n], cmds'[n][i].by = m,
                      cmds'[n][i].phase = "Failed",
                      (IF o.notBefore = None THEN now' ELSE o.notBefore) + TicksPerSecond
                        > cmds'[n][i].at + RetryWindow
               PROVE  now' + TicksPerSecond > cmds'[n][i].at + RetryWindow
    BY <1>3 DEF PacedNext
  <2>1. cmds'[n] \in Seq(Command)
    BY <2>0 DEF TypeOK, FleetTypeOK
  <2>2. cmds'[n][i] \in Command
    BY <2>1
  <2>3. cmds'[n][i].at \in Nat
    BY <2>2 DEF Command
  <2>4. now \in Nat /\ RetryWindow \in Nat /\ TicksPerSecond \in Nat
    BY Times
  <2>5. o.notBefore = None \/ (o.notBefore \in Nat /\ o.notBefore <= now)
    BY <1>3, <2>4 DEF retryHeld, Object, MaybeTime
  <2> HIDE DEF n
  <2> QED BY <1>3, <2>3, <2>4, <2>5
<1> QED BY <1>1, <1>2, <1>3

\* Opening a window accounts for every command that has failed so far.
LEMMA WindowOpened ==
  ASSUME TypeOK, UNCHANGED <<cmds, now>>,
         \A n \in Nodes : \A i \in DOMAIN cmds[n] : cmds[n][i].at <= now,
         NEW m \in Machines, NEW p, p.nodeID \in Nodes,
         p.notBefore = Stamp(now + RetryWindow),
         \A i \in DOMAIN cmds[p.nodeID] :
             cmds[p.nodeID][i].by = m =>
                 \/ cmds[p.nodeID][i].phase = "Failed"
                 \/ /\ cmds[p.nodeID][i].kind = "apply" /\ p.applied
                    /\ p.applyCmd = <<p.nodeID, i>>
  PROVE  PacedNext(m, p)
<1>1. /\ now \in Nat /\ RetryWindow \in Nat /\ TicksPerSecond \in Nat
      /\ \A i \in DOMAIN cmds[p.nodeID] : cmds[p.nodeID][i].at \in Nat
  BY Times
<1>2. p.notBefore \in Nat /\ p.notBefore + TicksPerSecond > now + RetryWindow
  BY <1>1, StampFacts
<1>3. p.notBefore # None /\ p.nodeID # None
  BY <1>2, NoneAssumption
<1>4. \A i \in DOMAIN cmds[p.nodeID] :
         p.notBefore + TicksPerSecond > cmds[p.nodeID][i].at + RetryWindow
  BY <1>1, <1>2
<1> QED BY <1>3, <1>4 DEF PacedNext

\* A failed apply: the recorded command has failed, and the others had before.
LEMMA ApplyFailedPaced ==
  ASSUME TypeOK, ConfigInv, PaceInv, ApplyFailed
  PROVE  PacedNext(who, obj')
<1>1. /\ obj \in Object /\ who \in Machines /\ pc = "normal" /\ obj.nodeID # None
      /\ obj.applied /\ obj.rebootAt = None /\ "Failed" \in applyState
      /\ UNCHANGED <<cmds, now>>
  BY FreshPass DEF ConfigInv, ApplyFailed, Rebooting, Ends, Replies, Return, fleetVars
<1>2. obj.nodeID \in Nodes
  BY <1>1 DEF Object, MaybeNode
<1>3. obj'.nodeID = obj.nodeID /\ obj'.notBefore = Stamp(now + RetryWindow)
  BY <1>1 DEF ApplyFailed, Ends, Replies, Return, notReady, openRetryWindow, Object
<1>4. PICK k \in selected(obj.nodeID, obj.applyCmd, "apply") :
        cmds[obj.nodeID][k].phase = "Failed"
  BY <1>1 DEF applyState, commandState
<1>5. ASSUME NEW i \in DOMAIN cmds[obj.nodeID], cmds[obj.nodeID][i].by = who
      PROVE  cmds[obj.nodeID][i].phase = "Failed"
  <2> SUFFICES ASSUME cmds[obj.nodeID][i].phase # "Failed" PROVE FALSE
    OBVIOUS
  <2>1. Paced(who, obj)
    BY <1>1 DEF PaceInv
  <2>2. obj.applyCmd = <<obj.nodeID, i>>
    BY <1>1, <1>5, <2>1, KnownCommand
  <2>3. obj.applyCmd # None
    BY <1>2, <2>2, Times, NoneAssumption
  <2>4. <<obj.nodeID, k>> = <<obj.nodeID, i>>
    BY <1>4, <2>2, <2>3 DEF selected
  <2> QED BY <1>4, <2>4
<1>6. \A n \in Nodes : \A i \in DOMAIN cmds[n] : cmds[n][i].at <= now
  BY DEF PaceInv
<1>7. obj'.nodeID \in Nodes /\ \A i \in DOMAIN cmds[obj'.nodeID] :
        cmds[obj'.nodeID][i].by = who => cmds[obj'.nodeID][i].phase = "Failed"
  BY <1>2, <1>3, <1>5
<1> QED BY <1>1, <1>3, <1>6, <1>7, WindowOpened

\* A failed reboot: likewise, and the apply before it stays recorded.
LEMMA RebootFailedPaced ==
  ASSUME TypeOK, ConfigInv, PaceInv, RebootFailed
  PROVE  PacedNext(who, obj')
<1>1. /\ obj \in Object /\ who \in Machines /\ pc = "readReboot" /\ obj.nodeID # None
      /\ obj.applied /\ "Failed" \in rebootState
      /\ UNCHANGED <<cmds, now>>
  BY FreshPass DEF ConfigInv, PassInv, RebootFailed, Ends, Replies, Return, fleetVars
<1>2. obj.nodeID \in Nodes
  BY <1>1 DEF Object, MaybeNode
<1>3. /\ obj'.nodeID = obj.nodeID /\ obj'.notBefore = Stamp(now + RetryWindow)
      /\ obj'.applied = obj.applied /\ obj'.applyCmd = obj.applyCmd
  BY <1>1 DEF RebootFailed, Ends, Replies, Return, notReady, openRetryWindow, Object
<1>4. PICK k \in selected(obj.nodeID, obj.rebootCmd, "reboot") :
        cmds[obj.nodeID][k].phase = "Failed"
  BY <1>1 DEF rebootState, commandState
<1>5. ASSUME NEW i \in DOMAIN cmds[obj.nodeID], cmds[obj.nodeID][i].by = who
      PROVE  \/ cmds[obj.nodeID][i].phase = "Failed"
             \/ cmds[obj.nodeID][i].kind = "apply" /\ obj.applyCmd = <<obj.nodeID, i>>
  <2> SUFFICES ASSUME cmds[obj.nodeID][i].phase # "Failed", cmds[obj.nodeID][i].kind # "apply"
               PROVE  FALSE
    <3>1. Paced(who, obj)
      BY <1>1 DEF PaceInv
    <3> QED BY <1>1, <1>5, <3>1, KnownCommand
  <2>1. Paced(who, obj)
    BY <1>1 DEF PaceInv
  <2>2. obj.rebootCmd = <<obj.nodeID, i>>
    BY <1>1, <1>5, <2>1, KnownCommand
  <2>3. obj.rebootCmd # None
    BY <1>2, <2>2, Times, NoneAssumption
  <2>4. <<obj.nodeID, k>> = <<obj.nodeID, i>>
    BY <1>4, <2>2, <2>3 DEF selected
  <2> QED BY <1>4, <2>4
<1>6. \A n \in Nodes : \A i \in DOMAIN cmds[n] : cmds[n][i].at <= now
  BY DEF PaceInv
<1>7. /\ obj'.nodeID \in Nodes
      /\ \A i \in DOMAIN cmds[obj'.nodeID] :
           cmds[obj'.nodeID][i].by = who =>
              \/ cmds[obj'.nodeID][i].phase = "Failed"
              \/ /\ cmds[obj'.nodeID][i].kind = "apply" /\ obj'.applied
                 /\ obj'.applyCmd = <<obj'.nodeID, i>>
  BY <1>1, <1>2, <1>3, <1>5
<1> QED BY <1>1, <1>3, <1>6, <1>7, WindowOpened

\* A pass that sends a command finds every earlier one of that kind failed, and
\* their retry window passed.
LEMMA SendsWhenDue ==
  ASSUME TypeOK, ClaimInv, ConfigInv, PaceInv, ApplyCloudConfig \/ RequestReboot,
         NEW k \in Kinds, k = IF ApplyCloudConfig THEN "apply" ELSE "reboot",
         NEW i \in DOMAIN cmds[obj.nodeID],
         cmds[obj.nodeID][i].by = who, cmds[obj.nodeID][i].kind = k
  PROVE  /\ cmds[obj.nodeID][i].phase = "Failed"
         /\ now + TicksPerSecond > cmds[obj.nodeID][i].at + RetryWindow
<1>1. /\ obj \in Object /\ who \in Machines /\ obj.nodeID \in Nodes /\ pc = "normal"
      /\ obj.nodeID # None
  BY SendFacts, FreshPass DEF ConfigInv, ApplyCloudConfig, RequestReboot, Applying, Rebooting
<1>2. /\ ~retryHeld(obj)
      /\ IF k = "apply" THEN ~obj.applied ELSE obj.rebootAt = None
  BY DEF ApplyCloudConfig, RequestReboot, Applying, Rebooting
<1>3. Paced(who, obj)
  BY <1>1 DEF PaceInv
<1>4. /\ cmds[obj.nodeID][i].phase = "Failed"
      /\ (IF obj.notBefore = None THEN now ELSE obj.notBefore) + TicksPerSecond
           > cmds[obj.nodeID][i].at + RetryWindow
  BY <1>1, <1>2, <1>3, KnownCommand
<1>5. /\ now \in Nat /\ RetryWindow \in Nat /\ TicksPerSecond \in Nat
      /\ cmds[obj.nodeID][i].at \in Nat
  BY <1>1, Times
<1>6. obj.notBefore = None \/ (obj.notBefore \in Nat /\ obj.notBefore <= now)
  BY <1>1, <1>2, <1>5 DEF retryHeld, Object, MaybeTime
<1> QED BY <1>4, <1>5, <1>6

\* A command whose reply arrives is recorded, and is the only one under way.
LEMMA SendPaced ==
  ASSUME "lost" \notin Mishaps, TypeOK, TypeOK', ClaimInv, ConfigInv, PaceInv,
         ApplyCloudConfig \/ RequestReboot
  PROVE  PacedNext(who, obj')
<1> DEFINE n == obj.nodeID
           k == IF ApplyCloudConfig THEN "apply" ELSE "reboot"
           new == Len(cmds[n]) + 1
<1>1. /\ obj \in Object /\ who \in Machines /\ n \in Nodes /\ pc = "normal" /\ n # None
      /\ ServeCommand(n, k, who) /\ k \in Kinds /\ FleetTypeOK
  BY SendFacts, FreshPass
  DEF ConfigInv, ApplyCloudConfig, RequestReboot, Applying, Rebooting, TypeOK, Kinds
<1>2. /\ obj'.nodeID = n /\ obj'.notBefore = None /\ UNCHANGED now
      /\ k = "apply" => /\ obj'.applied /\ obj'.applyCmd = <<n, new>>
                        /\ obj'.rebootAt = obj.rebootAt /\ obj'.rebootCmd = obj.rebootCmd
      /\ k = "reboot" => /\ obj'.rebootAt = Stamp(now) /\ obj'.rebootCmd = <<n, new>>
                         /\ obj'.applied = obj.applied /\ obj'.applyCmd = obj.applyCmd
  BY <1>1 DEF ApplyCloudConfig, RequestReboot, LosesReply, Mishap, Replies, Return, notReady,
              NextID, Object
<1>3. /\ new - 1 \in Nat
      /\ DOMAIN cmds[n] = 1..(new - 1) /\ DOMAIN cmds'[n] = 1..new
      /\ \A j \in DOMAIN cmds[n] : cmds'[n][j] = cmds[n][j]
      /\ cmds'[n][new].kind = k
  BY <1>1, ServeCommandFacts
<1>4. k = "reboot" => obj'.rebootAt # None
  <2>1. Stamp(now) \in Nat
    BY StampType DEF TypeOK, FleetTypeOK
  <2> QED BY <1>2, <2>1, NoneAssumption
<1>5. ASSUME NEW i \in DOMAIN cmds'[n], cmds'[n][i].by = who
      PROVE  \/ /\ cmds'[n][i].phase = "Failed"
                /\ now' + TicksPerSecond > cmds'[n][i].at + RetryWindow
             \/ /\ IF cmds'[n][i].kind = "apply" THEN obj'.applied ELSE obj'.rebootAt # None
                /\ \/ cmds'[n][i].phase = "Failed"
                   \/ (IF cmds'[n][i].kind = "apply" THEN obj'.applyCmd ELSE obj'.rebootCmd)
                        = <<n, i>>
  <2>1. CASE i = new
    <3>1. cmds'[n][i].kind = k /\ (k = "apply" \/ k = "reboot")
      BY <1>1, <1>3, <2>1 DEF Kinds
    <3> HIDE DEF k, n, new
    <3> QED BY <1>2, <1>4, <2>1, <3>1
  <2>2. CASE i # new
    <3>1. i \in DOMAIN cmds[n] /\ cmds'[n][i] = cmds[n][i] /\ cmds[n][i].by = who
      BY <1>3, <1>5, <2>2
    <3>2. CASE cmds[n][i].kind = k
      <4>1. /\ cmds[n][i].phase = "Failed"
            /\ now + TicksPerSecond > cmds[n][i].at + RetryWindow
        BY <1>1, <3>1, <3>2, SendsWhenDue
      <4> HIDE DEF k, n, new
      <4> QED BY <1>2, <3>1, <4>1
    <3>3. CASE cmds[n][i].kind # k
      <4>1. Paced(who, obj)
        BY <1>1 DEF PaceInv
      <4>2. \/ /\ cmds[n][i].phase = "Failed"
               /\ (IF obj.notBefore = None THEN now ELSE obj.notBefore) + TicksPerSecond
                    > cmds[n][i].at + RetryWindow
            \/ /\ IF cmds[n][i].kind = "apply" THEN obj.applied ELSE obj.rebootAt # None
               /\ \/ cmds[n][i].phase = "Failed"
                  \/ (IF cmds[n][i].kind = "apply" THEN obj.applyCmd ELSE obj.rebootCmd)
                       = <<n, i>>
        BY <1>1, <3>1, <4>1, KnownCommand
      <4>3. ~retryHeld(obj)
        BY DEF ApplyCloudConfig, RequestReboot
      <4>4. /\ now \in Nat /\ RetryWindow \in Nat /\ TicksPerSecond \in Nat
            /\ cmds[n][i].at \in Nat /\ cmds[n][i].kind \in Kinds
        BY <1>1, <3>1, Times DEF Command
      <4>5. obj.notBefore = None \/ (obj.notBefore \in Nat /\ obj.notBefore <= now)
        BY <1>1, <4>3, <4>4 DEF retryHeld, Object, MaybeTime
      <4>6. (IF obj.notBefore = None THEN now ELSE obj.notBefore) + TicksPerSecond
               > cmds[n][i].at + RetryWindow => now + TicksPerSecond > cmds[n][i].at + RetryWindow
        BY <4>4, <4>5
      <4>7. (k = "apply" /\ cmds[n][i].kind = "reboot") \/ (k = "reboot" /\ cmds[n][i].kind = "apply")
        BY <1>1, <3>3, <4>4 DEF Kinds
      <4> HIDE DEF k, n, new
      <4> QED BY <1>2, <3>1, <4>2, <4>6, <4>7
    <3> QED BY <3>2, <3>3
  <2> QED BY <2>1, <2>2
<1> QED BY <1>1, <1>2, <1>5 DEF PacedNext

\* Whatever reconcileNormal returns accounts for every command of its machine.
LEMMA NormalPaced ==
  ASSUME "lost" \notin Mishaps, TypeOK, TypeOK', ClaimInv, ConfigInv, PaceInv,
         [OpenNext]_vars, reconcileNormal
  PROVE  PacedNext(who, obj')
<1> USE DEF Claiming, Applying, Rebooting, Rejoining, Return, notReady
<1>1. /\ obj \in Object /\ who \in Machines /\ Paced(who, obj)
      /\ pc \in {"normal", "readReboot"}
  BY NormalFrame, FreshPass DEF ConfigInv, PaceInv
<1>2. CASE ApplyCloudConfig \/ RequestReboot
  BY <1>2, SendPaced
<1>3. CASE ApplyFailed
  BY <1>3, ApplyFailedPaced
<1>4. CASE RebootFailed
  BY <1>4, RebootFailedPaced
<1>5. CASE ClaimNode
  <2>1. /\ obj.nodeID = None /\ UNCHANGED cmds
        /\ \/ obj' = obj
           \/ \E n \in Nodes :
                obj' = notReady([obj EXCEPT !.nodeID = n, !.claimKey = claimKeyFor(who, obj)])
    BY <1>5 DEF ClaimNode, Claimable, Replies, LosesReply
  <2>2. \A n \in Nodes : \A i \in DOMAIN cmds'[n] : cmds'[n][i].by # who
    BY <1>1, <2>1 DEF Paced
  <2>3. obj'.nodeID \in Nodes \cup {None}
    BY <1>1, <2>1 DEF Object
  <2> QED BY <2>2, <2>3 DEF PacedNext
<1>6. CASE ~ApplyCloudConfig /\ ~RequestReboot /\ ~ApplyFailed /\ ~RebootFailed /\ ~ClaimNode
  <2>1. PacedNext(who, obj)
    BY <1>1, <1>6, PacedStays
  <2>2. CASE \/ WaitForBootstrap \/ WaitForConnection \/ WaitForCapacity \/ ClaimError
             \/ HoldApply \/ AwaitApply \/ HoldReboot \/ NodeMissing
             \/ GetNodeError \/ AwaitRejoin \/ AskReboot \/ RebootPending \/ Provision
    <3>1. \/ obj' \in {obj, notReady(obj), notReady([obj EXCEPT !.failure = TRUE])}
          \/ obj' = [obj EXCEPT !.providerID = obj.nodeID, !.provisioned = TRUE]
      BY <2>2 DEF WaitForBootstrap, WaitForConnection, WaitForCapacity, ClaimError, HoldApply,
        AwaitApply, HoldReboot, NodeMissing, GetNodeError, AwaitRejoin, AskReboot,
        RebootPending, Provision, Ends, Fails, Replies
    <3>2. /\ obj'.nodeID = obj.nodeID /\ obj'.applied = obj.applied
          /\ obj'.applyCmd = obj.applyCmd /\ obj'.rebootAt = obj.rebootAt
          /\ obj'.rebootCmd = obj.rebootCmd /\ obj'.notBefore = obj.notBefore
      BY <1>1, <3>1 DEF Object
    <3> QED BY <1>1, <2>1, <3>2, WindowPassed
  <2>3. CASE ApplyError \/ RebootError
    <3>1. obj' = [obj EXCEPT !.notBefore = None] /\ ~retryHeld(obj) /\ UNCHANGED now
      BY <2>3 DEF ApplyError, RebootError, Ends, Fails, Replies
    <3>2. /\ obj'.nodeID = obj.nodeID /\ obj'.applied = obj.applied
          /\ obj'.applyCmd = obj.applyCmd /\ obj'.rebootAt = obj.rebootAt
          /\ obj'.rebootCmd = obj.rebootCmd /\ obj'.notBefore = None
      BY <1>1, <3>1 DEF Object
    <3> QED BY <1>1, <2>1, <3>1, <3>2, WindowPassed
  <2> QED BY <1>6, <2>2, <2>3 DEF reconcileNormal
<1> QED BY <1>2, <1>3, <1>4, <1>5, <1>6

-----------------------------------------------------------------------------
(* The invariant *)

\* Only a pass writes the metadata of a stored object.
LEMMA MetaKept ==
  ASSUME TypeOK, NEW m \in Machines, store'[m] # None,
         PatchStatus \/ \E k \in Machines : UserDelete(k) \/ Move(k)
  PROVE  store[m] # None /\ SameMeta(store'[m], store[m])
<1>0. store[m] # None
  BY DEF PatchStatus, UserDelete, Move, TypeOK
<1>1. store[m] \in Object
  BY <1>0 DEF TypeOK
<1>2. CASE PatchStatus
  <2>1. \/ store'[m] = store[m]
        \/ store'[m] = WithStatus(store[m], merged("provisioned"), merged("failure"))
    BY <1>2 DEF PatchStatus, TypeOK
  <2> QED BY <1>0, <1>1, <2>1 DEF WithStatus, Object, SameMeta
<1>3. ASSUME NEW k \in Machines, UserDelete(k) PROVE SameMeta(store'[m], store[m])
  <2>1. store'[m] = store[m] \/ store'[m] = [store[m] EXCEPT !.deleting = TRUE]
    BY <1>3 DEF UserDelete, Stored, TypeOK
  <2> QED BY <1>1, <2>1 DEF Object, SameMeta
<1>4. ASSUME NEW k \in Machines, Move(k) PROVE SameMeta(store'[m], store[m])
  <2>1. \/ store'[m] = store[m]
        \/ store'[m] = WithStatus([store[m] EXCEPT !.uid = @ + 1], FALSE, FALSE)
    BY <1>4 DEF Move, TypeOK
  <2> QED BY <1>1, <2>1 DEF WithStatus, Object, SameMeta
<1> QED BY <1>0, <1>2, <1>3, <1>4

\* Of the metadata, a view's pacing depends on what SameMeta compares.
LEMMA SamePace ==
  ASSUME NEW m \in Machines, NEW o, NEW p, SameMeta(p, o), PacedNext(m, o)
  PROVE  PacedNext(m, p)
BY DEF SameMeta, PacedNext

\* No command is dated ahead of the clock.
LEMMA DatedNext ==
  ASSUME TypeOK, TypeOK', ClaimInv, [OpenNext]_vars,
         \A n \in Nodes : \A i \in DOMAIN cmds[n] : cmds[n][i].at <= now
  PROVE  \A n \in Nodes : \A i \in DOMAIN cmds'[n] : cmds'[n][i].at <= now'
<1> SUFFICES ASSUME NEW n \in Nodes, NEW i \in DOMAIN cmds'[n] PROVE cmds'[n][i].at <= now'
  OBVIOUS
<1>1. now \in Nat /\ now' \in {now, now + 1}
  BY Times, ClockSteps
<1>2. CASE i \in DOMAIN cmds[n]
  <2>1. cmds'[n][i].at = cmds[n][i].at /\ cmds[n][i].at <= now /\ cmds[n][i].at \in Nat
    BY <1>2, HistoryKept, Times
  <2> QED BY <1>1, <2>1
<1>3. CASE i \notin DOMAIN cmds[n]
  <2>1. cmds'[n] \in Seq(Command)
    BY DEF TypeOK, FleetTypeOK
  <2>2. cmds'[n][i] \in Command
    BY <2>1
  <2>3. PICK m \in Machines : m = cmds'[n][i].by
    BY <2>2 DEF Command
  <2>4. ApplyCloudConfig \/ RequestReboot
    BY <1>3, <2>3, OldCommand
  <2>5. /\ obj.nodeID \in Nodes /\ who \in Machines /\ FleetTypeOK
        /\ \E k \in Kinds : ServeCommand(obj.nodeID, k, who)
    BY <2>4, SendFacts DEF Kinds, TypeOK
  <2>6. PICK k \in Kinds : ServeCommand(obj.nodeID, k, who)
    BY <2>5
  <2>7. n = obj.nodeID
    BY <1>3, <2>5, <2>6, ServeCommandFacts
  <2>8. /\ Len(cmds[n]) \in Nat /\ DOMAIN cmds[n] = 1..Len(cmds[n])
        /\ DOMAIN cmds'[n] = 1..(Len(cmds[n]) + 1)
        /\ cmds'[n][Len(cmds[n]) + 1].at = now
    BY <2>5, <2>6, <2>7, ServeCommandFacts
  <2>9. i = Len(cmds[n]) + 1
    BY <1>3, <2>8
  <2> QED BY <1>1, <2>8, <2>9
<1> QED BY <1>2, <1>3

\* A stored object that no pass is about to write stays paced.
LEMMA StorePaced ==
  ASSUME Mishaps \cap Repeats = {}, TypeOK, TypeOK', ClaimInv, ConfigInv, FreshInv, PaceInv,
         [OpenNext]_vars, NEW m \in Machines, store'[m] # None, ~(who' = m /\ pc' = "patch")
  PROVE  PacedNext(m, store'[m])
<1>0. "patch" \notin Mishaps /\ "crash" \notin Mishaps
  BY DEF Repeats
<1>1. ASSUME store[m] # None, ~(who = m /\ pc = "patch") PROVE PacedNext(m, store[m])
  <2>1. store[m] \in Object /\ Paced(m, store[m])
    BY <1>1 DEF TypeOK, PaceInv
  <2>2. ASSUME who = m, ApplyCloudConfig \/ RequestReboot PROVE FALSE
    BY <2>2, NormalFrame DEF ApplyCloudConfig, RequestReboot, reconcileNormal, Replies,
                             LosesReply, Return
  <2> QED BY <2>1, <2>2, PacedStays
<1>2. CASE PatchObject /\ who = m
  <2>1. /\ pc = "patch" /\ obj \in Object /\ base \in Object /\ Paced(m, obj) /\ store[m] # None
    BY <1>2 DEF PatchObject, TypeOK, PaceInv
  <2>2. ~ApplyCloudConfig /\ ~RequestReboot
    BY <2>1 DEF ApplyCloudConfig, RequestReboot, Applying, Rebooting
  <2>3. PacedNext(m, obj)
    BY <2>1, <2>2, PacedStays
  <2>4. CASE metaChanged
    <3>1. store'[m] = patched
      BY <1>0, <1>2, <2>1, <2>4 DEF PatchObject, Mishap, Stored, TypeOK
    <3>2. SameMeta(patched, obj)
      BY <1>2, <2>1, PatchWritesAll DEF FreshInv
    <3>3. SameMeta(store'[m], obj)
      BY <3>1, <3>2
    <3> QED BY <2>3, <3>3, SamePace
  <2>5. CASE ~metaChanged
    <3>1. store'[m] = store[m] /\ SameMeta(store[m], base)
      BY <1>2, <2>1, <2>5 DEF PatchObject, FreshInv, AsRead
    <3>2. WithStatus(obj, base.provisioned, base.failure) = base
      BY <2>5 DEF metaChanged
    <3>3. SameMeta(base, obj)
      BY <2>1, <3>2 DEF WithStatus, Object, SameMeta
    <3>4. SameMeta(store'[m], obj)
      BY <3>1, <3>3 DEF SameMeta
    <3> QED BY <2>3, <3>4, SamePace
  <2> QED BY <2>4, <2>5
<1>3. CASE ~(PatchObject /\ who = m)
  <2>1. store[m] # None
    BY <1>3, StoreSteps, MetaKept DEF PatchObject, TypeOK
  <2>2. SameMeta(store'[m], store[m])
    <3>1. CASE store'[m] = store[m]
      BY <3>1 DEF SameMeta
    <3>2. CASE PatchObject
      BY <1>3, <3>1, <3>2 DEF PatchObject, TypeOK
    <3> QED BY <3>1, <3>2, StoreSteps, MetaKept
  <2>3. ~(who = m /\ pc = "patch")
    <3> SUFFICES ASSUME who = m, pc = "patch" PROVE FALSE
      OBVIOUS
    <3>1. ~reconcileNormal /\ ~reconcileDelete /\ ~Interrupted /\ ~PatchStatus
      BY <1>0, NormalFrame, DeleteFrame DEF Interrupted, Mishap, PatchStatus
    <3>2. UNCHANGED <<who, pc>>
      BY <1>3, <3>1, StepKinds DEF Reconcile, Sync, UserDelete, Move, passVars
    <3> QED BY <3>2
  <2> QED BY <1>1, <2>1, <2>2, <2>3, SamePace
<1> QED BY <1>2, <1>3

\* So does the object of a pass, until it is written.
LEMMA PassPaced ==
  ASSUME Mishaps \cap Repeats = {}, TypeOK, TypeOK', ClaimInv, ConfigInv, PaceInv,
         [OpenNext]_vars, pc' \notin {"idle", "patchStatus"}
  PROVE  PacedNext(who', obj')
<1>0. "stale" \notin Mishaps /\ "lost" \notin Mishaps
  BY DEF Repeats
<1>1. CASE reconcileNormal
  BY <1>0, <1>1, NormalPaced, NormalFrame
<1>2. ASSUME UNCHANGED who, ~reconcileNormal, pc \notin {"idle", "patchStatus"},
             obj' = obj \/ obj' = [obj EXCEPT !.finalizer = FALSE]
      PROVE  PacedNext(who', obj')
  <2>1. who \in Machines /\ obj \in Object /\ Paced(who, obj)
    BY <1>2 DEF TypeOK, PaceInv
  <2>2. PacedNext(who, obj)
    BY <1>2, <2>1, PacedStays DEF reconcileNormal
  <2>3. /\ obj'.nodeID = obj.nodeID /\ obj'.applied = obj.applied
        /\ obj'.applyCmd = obj.applyCmd /\ obj'.rebootAt = obj.rebootAt
        /\ obj'.rebootCmd = obj.rebootCmd /\ obj'.notBefore = obj.notBefore
    BY <1>2, <2>1 DEF Object
  <2>4. PacedNext(who, obj')
    BY <2>1, <2>2, <2>3, WindowPassed
  <2> QED BY <1>2, <2>4
<1>3. CASE reconcileDelete
  BY <1>2, <1>3, DeleteFrame, NormalFrame
<1>4. CASE PatchObject \/ PatchStatus \/ Interrupted
  BY <1>4 DEF PatchObject, PatchStatus, Interrupted, Restart, EndPass
<1>5. ASSUME NEW m \in Machines, Reconcile(m) PROVE PacedNext(who', obj')
  <2>1. /\ store[m] \in Object /\ store[m] # None /\ who' = m /\ pc = "idle"
        /\ obj' = [store[m] EXCEPT !.finalizer = TRUE]
    BY <1>0, <1>5 DEF Reconcile, Mishap, TypeOK
  <2>2. Paced(m, store[m])
    BY <2>1 DEF PaceInv
  <2>3. PacedNext(m, store[m])
    BY <2>1, <2>2, PacedStays DEF ApplyCloudConfig, RequestReboot, Applying, Rebooting
  <2>4. /\ obj'.nodeID = store[m].nodeID /\ obj'.applied = store[m].applied
        /\ obj'.applyCmd = store[m].applyCmd /\ obj'.rebootAt = store[m].rebootAt
        /\ obj'.rebootCmd = store[m].rebootCmd /\ obj'.notBefore = store[m].notBefore
    BY <2>1 DEF Object
  <2>5. PacedNext(m, obj')
    BY <2>1, <2>3, <2>4, WindowPassed
  <2> QED BY <2>1, <2>5
<1>6. CASE UNCHANGED passVars /\ ~reconcileNormal
  BY <1>2, <1>6 DEF passVars
<1> QED BY <1>1, <1>3, <1>4, <1>5, <1>6, StepKinds DEF Sync, UserDelete, Move

\* Pacing is inductive.
LEMMA PaceNext ==
  ASSUME Mishaps \cap Repeats = {}, TypeOK, TypeOK', ClaimInv, ConfigInv, FreshInv, PaceInv,
         [OpenNext]_vars
  PROVE  PaceInv'
<1>1. \A n \in Nodes : \A i \in DOMAIN cmds'[n] : cmds'[n][i].at <= now'
  BY DatedNext DEF PaceInv
<1>2. ASSUME NEW m \in Machines, store'[m] # None, ~(who' = m /\ pc' = "patch")
      PROVE  Paced(m, store[m])'
  BY <1>2, StorePaced DEF Paced, PacedNext
<1>3. pc' \notin {"idle", "patchStatus"} => Paced(who, obj)'
  BY PassPaced DEF Paced, PacedNext
<1> QED BY <1>1, <1>2, <1>3 DEF PaceInv

\* A command of a kind comes only after every earlier one of its machine has failed
\* and its window has passed.
LEMMA RetriesNext ==
  ASSUME TypeOK, TypeOK', ClaimInv, ConfigInv, PaceInv, PacedRetries, [OpenNext]_vars
  PROVE  PacedRetries'
<1> SUFFICES ASSUME NEW n \in Nodes, NEW i \in DOMAIN cmds'[n], NEW j \in DOMAIN cmds'[n],
                    i < j, cmds'[n][i].kind = cmds'[n][j].kind,
                    cmds'[n][i].by = cmds'[n][j].by
             PROVE  /\ cmds'[n][i].phase = "Failed"
                    /\ cmds'[n][j].at + TicksPerSecond > cmds'[n][i].at + RetryWindow
  BY DEF PacedRetries
<1>0. cmds[n] \in Seq(Command) /\ cmds'[n] \in Seq(Command)
  BY DEF TypeOK, FleetTypeOK
<1>1. CASE j \in DOMAIN cmds[n]
  <2>1. i \in DOMAIN cmds[n]
    BY <1>0, <1>1
  <2>2. /\ cmds'[n][i].kind = cmds[n][i].kind /\ cmds'[n][j].kind = cmds[n][j].kind
        /\ cmds'[n][i].by = cmds[n][i].by /\ cmds'[n][j].by = cmds[n][j].by
        /\ cmds'[n][i].at = cmds[n][i].at /\ cmds'[n][j].at = cmds[n][j].at
        /\ cmds[n][i].phase = "Failed" => cmds'[n][i].phase = "Failed"
    BY <1>1, <2>1, HistoryKept
  <2>3. /\ cmds[n][i].phase = "Failed"
        /\ cmds[n][j].at + TicksPerSecond > cmds[n][i].at + RetryWindow
    BY <1>1, <2>1, <2>2 DEF PacedRetries
  <2> QED BY <2>2, <2>3
<1>2. CASE j \notin DOMAIN cmds[n]
  <2>1. cmds'[n][j] \in Command
    BY <1>0
  <2>2. PICK m \in Machines : m = cmds'[n][j].by
    BY <2>1 DEF Command
  <2>3. ApplyCloudConfig \/ RequestReboot
    BY <1>2, <2>2, OldCommand
  <2> DEFINE k == IF ApplyCloudConfig THEN "apply" ELSE "reboot"
  <2>4. /\ obj.nodeID \in Nodes /\ who \in Machines /\ FleetTypeOK /\ k \in Kinds
        /\ ServeCommand(obj.nodeID, k, who)
    BY <2>3, SendFacts DEF Kinds, TypeOK
  <2>5. n = obj.nodeID
    BY <1>2, <2>4, ServeCommandFacts
  <2>6. /\ Len(cmds[n]) \in Nat /\ DOMAIN cmds[n] = 1..Len(cmds[n])
        /\ DOMAIN cmds'[n] = 1..(Len(cmds[n]) + 1)
        /\ cmds'[n][Len(cmds[n]) + 1].at = now
        /\ cmds'[n][Len(cmds[n]) + 1].kind = k
        /\ cmds'[n][Len(cmds[n]) + 1].by = who
        /\ \A x \in DOMAIN cmds[n] : cmds'[n][x] = cmds[n][x]
    BY <2>4, <2>5, ServeCommandFacts
  <2>7. j = Len(cmds[n]) + 1
    BY <1>2, <2>6
  <2>8. i \in DOMAIN cmds[n]
    BY <2>6, <2>7
  <2>9. cmds'[n][i] = cmds[n][i] /\ cmds[n][i].kind = k /\ cmds[n][i].by = who
    BY <2>6, <2>7, <2>8
  <2>10. /\ cmds[n][i].phase = "Failed"
         /\ now + TicksPerSecond > cmds[n][i].at + RetryWindow
    BY <2>3, <2>4, <2>5, <2>8, <2>9, SendsWhenDue
  <2> QED BY <2>6, <2>7, <2>9, <2>10
<1> QED BY <1>1, <1>2

\* Without machines of an earlier build no command has been sent at first.
LEMMA PaceInit == ASSUME CoreInit, Legacy = {} PROVE PaceInv /\ PacedRetries
<1>1. /\ pc = "idle" /\ cmds = [n \in Nodes |-> <<>>]
      /\ store = [m \in Machines |-> New]
  BY DEF CoreInit
<1>2. \A n \in Nodes : DOMAIN cmds[n] = {}
  BY <1>1
<1>3. \A m \in Machines : Paced(m, New)
  BY <1>2 DEF Paced, New
<1> QED BY <1>1, <1>2, <1>3 DEF PaceInv, PacedRetries

\* In any manager where no command is sent without being recorded, the record of
\* the commands is complete.
LEMMA OpenPace ==
  ASSUME Mishaps \cap Repeats = {}, Legacy = {}
  PROVE  OpenSpec => []PaceInv
<1>1. "stale" \notin Mishaps
  BY DEF Repeats
<1>2. CoreInit => PaceInv
  BY PaceInit
<1>3. /\ TypeOK /\ TypeOK' /\ ClaimInv /\ ConfigInv /\ FreshInv /\ PaceInv /\ [OpenNext]_vars
      => PaceInv'
  BY PaceNext
<1> QED BY <1>1, <1>2, <1>3, OpenTypes, OpenClaims, OpenRecords, OpenFresh, PTL DEF OpenSpec

\* As long as no pass is lost between sending a command and recording it, no reply
\* and no write is lost and every pass reads its own writes, the object accounts for
\* every command sent for its machine.
THEOREM PaceKept ==
  ASSUME Mishaps \cap Repeats = {}, Legacy = {}
  PROVE  Spec => []PaceInv
BY SpecIsOpen, OpenPace, PTL

\* In any manager, such a record paces the retries.
LEMMA OpenRetries ==
  ASSUME Mishaps \cap Repeats = {}, Legacy = {}
  PROVE  OpenSpec => []PacedRetries
<1>1. CoreInit => PacedRetries
  BY PaceInit
<1>2. /\ TypeOK /\ TypeOK' /\ ClaimInv /\ ConfigInv /\ PaceInv /\ PacedRetries /\ [OpenNext]_vars
      => PacedRetries'
  BY RetriesNext
<1> QED BY <1>1, <1>2, OpenTypes, OpenClaims, OpenRecords, OpenPace, PTL DEF OpenSpec

\* Under the same conditions a second command of a kind waits for the first to fail
\* and for the window that its failure opened.
THEOREM RetriesPaced ==
  ASSUME Mishaps \cap Repeats = {}, Legacy = {}
  PROVE  Spec => []PacedRetries
BY SpecIsOpen, OpenRetries, PTL
=============================================================================
