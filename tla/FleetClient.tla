----------------------------- MODULE FleetClient -----------------------------
(***************************************************************************)
(* The AuroraBoot client (internal/fleet/http.go) at the level of the      *)
(* requests on the wire, and what the machine controller makes of its      *)
(* answers.  KairosFleetMachine takes a call for one step; here the client *)
(* may give up (its 30 second timeout, a restart of the manager) on a      *)
(* request that AuroraBoot serves later, and a proxy in front of           *)
(* AuroraBoot may answer in its place.                                     *)
(*                                                                         *)
(* One worker makes one call at a time.  The two listings change nothing   *)
(* and are explored as the only call of a behaviour.                       *)
(***************************************************************************)
EXTENDS Naturals, FiniteSets, SequencesExt

CONSTANTS
    Machines,    \* the KairosFleetMachine objects
    Nodes,       \* the nodes of their group
    None,        \* absent
    MaxCalls,    \* calls in a behaviour
    MaxList,     \* entries of a listing
    Stamps,      \* the times createdAt may give
    Mishaps,     \* the kinds of mishap a run admits
    MaxMishaps   \* and how many of them it admits together

ASSUME BoundsAssumption == MaxCalls \in Nat /\ MaxList \in Nat /\ MaxMishaps \in Nat
ASSUME StampsAssumption == Stamps \subseteq Nat

VARIABLES
    claim,       \* AuroraBoot: the key each node is claimed under
    registered,  \* AuroraBoot: the nodes it knows
    wire,        \* requests under way, those nobody waits for included
    call,        \* the request the client waits for
    reply,       \* what has come back for it
    answer,      \* what AuroraBoot itself answered to it
    last,        \* the last call, what came back, what it returned, AuroraBoot's own answer
    recorded,    \* recorded[m]: the node-id annotation
    life,        \* life[m]: "live", "deleting", "gone"
    sent,        \* calls so far
    spent        \* mishaps so far

server == <<claim, registered>>
machines == <<recorded, life>>
vars == <<server, wire, call, reply, answer, last, machines, sent, spent>>

Mishap(kind) == /\ kind \in Mishaps
                /\ spent < MaxMishaps
                /\ spent' = spent + 1

-----------------------------------------------------------------------------
(* Replies and errors.  A body is a JSON object, a JSON list or neither; out  *)
(* holds what the fields the caller reads say, None if they are not there.  A *)
(* nil error is None, and one that is no APIError has status 0.               *)

Codes == {"NoCapacity", "ClaimMismatch"}

\* What the call decodes a 2xx into: a struct, or a slice.
Expected(op) == IF op \in {"GetCommands", "ListGroups"} THEN "list" ELSE "object"

OK(op, out) == [status |-> 200, body |-> Expected(op), code |-> None, out |-> out]
Refusal(status, code) == [status |-> status, body |-> "object", code |-> code, out |-> None]

\* Not AuroraBoot's: a login page or a gateway's error page, and JSON that has none of
\* AuroraBoot's fields, {} or [], with any of these statuses.  JSON that has them (an
\* "id", a "code") is AuroraBoot's to the client, which has nothing to tell it by.
ProxyReplies ==
    {[status |-> s, body |-> b, code |-> None, out |-> IF b = "list" THEN <<>> ELSE None] :
        s \in {200, 404, 502}, b \in {"object", "list", "garbled"}}

decodeError(rep) ==
    [status |-> rep.status, code |-> IF rep.body = "object" THEN rep.code ELSE None]

\* Mutant: the body of a 2xx is looked at only for a list.
doUndecoded(op, rep) ==
    IF rep.status \notin 200..299 THEN decodeError(rep)
    ELSE IF Expected(op) = "list" /\ rep.body # "list" THEN [status |-> 0, code |-> None]
    ELSE None

\* json.Decode asks for no field: any body of the expected kind will do.
do(op, rep) ==
    IF rep.status \notin 200..299 THEN decodeError(rep)
    ELSE IF rep.body = Expected(op) THEN None
    ELSE [status |-> 0, code |-> None]

IsNoCapacity(err) == err # None /\ err.code = "NoCapacity"
IsNotFound(err) == err # None /\ err.status = 404
IsClaimMismatch(err) == err # None /\ err.code = "ClaimMismatch"

Verdict(err) ==
    IF err = None THEN "ok"
    ELSE IF IsNoCapacity(err) THEN "NoCapacity"
    ELSE IF IsNotFound(err) THEN "NotFound"
    ELSE IF IsClaimMismatch(err) THEN "ClaimMismatch"
    ELSE "error"

-----------------------------------------------------------------------------
(* The two answers the provider searches. *)

\* AuroraBoot's commands of a node: their order is its own, createdAt is optional.
CommandLists ==
    BoundedSeq([kind : {"apply", "reboot"}, createdAt : {None} \cup Stamps], MaxList)
\* Names need not be unique, and may look like another group's ID.
GroupLists ==
    {s \in BoundedSeq([ID : {"a", "b", "c"}, Name : {"a", "b"}], MaxList) :
        \A i, j \in DOMAIN s : i # j => s[i].ID # s[j].ID}

newerCommand(a, b) ==
    a.createdAt = None \/ (b.createdAt # None /\ a.createdAt > b.createdAt)

\* Mutants: the first command of the kind; one loop for IDs and names.
firstCommand(cmds, id, name) ==
    IF id # None THEN (IF id \in DOMAIN cmds THEN id ELSE None)
    ELSE LET i == SelectInSeq(cmds, LAMBDA cmd : cmd.kind = name)
         IN  IF i = 0 THEN None ELSE i
firstGroup(groups, ref) ==
    LET i == SelectInSeq(groups, LAMBDA g : g.ID = ref \/ g.Name = ref)
    IN  IF i = 0 THEN None ELSE groups[i].ID

\* One turn of commandState's loop: the entry it has chosen after looking at entry i.
\* An entry's ID is its position.
latestAfter(cmds, id, name, latest, i) ==
    IF id # None
      THEN (IF latest = None /\ i = id THEN i ELSE latest)
    ELSE IF cmds[i].kind = name /\ (latest = None \/ newerCommand(cmds[i], cmds[latest]))
      THEN i ELSE latest

\* The loop: the entry whose phase is read.
commandState(cmds, id, name) ==
    LET latest[i \in 0..Len(cmds)] ==
            IF i = 0 THEN None ELSE latestAfter(cmds, id, name, latest[i - 1], i)
    IN  latest[Len(cmds)]

ResolveGroupID(groups, ref) ==
    LET byID == SelectInSeq(groups, LAMBDA g : g.ID = ref)
        byName == SelectInSeq(groups, LAMBDA g : g.Name = ref)
    IN  IF byID # 0 THEN groups[byID].ID
        ELSE IF byName # 0 THEN groups[byName].ID
        ELSE None

Keys == Machines \X Nat
MaybeNode == Nodes \cup {None}

\* What may be on the wire: key is the claim key, the command ID or the group
\* reference the call is about.
Request ==
    LET of(ops, nodes, keys) == [id : Nat, op : ops, m : Machines, node : nodes, key : keys]
    IN  of({"Claim", "Release"}, Nodes \cup {None}, Keys)
        \cup of({"GetNode", "Command"}, Nodes, {None})
        \cup of({"GetCommands"}, {None}, {None} \cup 1..MaxList)
        \cup of({"ListGroups"}, {None}, {"a", "b"})

\* And what may come back.
Reply ==
    [status : {200, 404, 409, 502}, body : {"object", "list", "garbled"},
     code : Codes \cup {None},
     out : Nodes \cup {None} \cup CommandLists \cup GroupLists]

ASSUME NoneAssumption == /\ None \notin Nodes
                         /\ None \notin Keys
                         /\ None \notin Nat
                         /\ None \notin Codes
                         /\ None \notin Request
                         /\ None \notin Reply
                         /\ None \notin [status : Nat, code : Codes \cup {None}]

-----------------------------------------------------------------------------
(* Calls *)

Init ==
    /\ claim = [n \in Nodes |-> None]
    /\ registered = Nodes
    /\ wire = {} /\ call = None /\ reply = None /\ answer = None /\ last = None
    /\ recorded = [m \in Machines |-> None]
    /\ life = [m \in Machines |-> "live"]
    /\ sent = 0 /\ spent = 0

\* The client puts a request on the wire and waits.
Send(op, m, node, key) ==
    /\ call = None /\ sent < MaxCalls
    /\ call' = [id |-> sent, op |-> op, m |-> m, node |-> node, key |-> key]
    /\ wire' = wire \cup {call'}
    /\ sent' = sent + 1
    /\ reply' = None /\ answer' = None
    /\ UNCHANGED <<server, last, machines, spent>>

\* Mutant: a key for every attempt.
attemptKey(m) == <<m, sent>>

\* Machines keep their UID here: moves are in KairosFleetMachine.
claimKeyFor(m) == <<m, 0>>

Claim(m) ==
    /\ life[m] = "live" /\ recorded[m] = None
    /\ Send("Claim", m, None, claimKeyFor(m))

\* GetNode, and ApplyCloudConfig and Reboot through sendCommand.
GetNode(m) == life[m] = "live" /\ recorded[m] # None /\ Send("GetNode", m, recorded[m], None)

\* Mutant: a machine without a node sends commands.
sendAnyway(m) == life[m] = "live" /\ Send("Command", m, recorded[m], None)

sendCommand(m) == life[m] = "live" /\ recorded[m] # None /\ Send("Command", m, recorded[m], None)

\* Mutant: the key is the one the node is claimed under.
ReleaseHeld(m) ==
    /\ life[m] = "deleting"
    /\ Send("Release", m, recorded[m], claim[recorded[m]])

Release(m) ==
    /\ life[m] = "deleting"
    /\ Send("Release", m, recorded[m], claimKeyFor(m))

\* A pass sees the machine deleted; without a node there is nothing to release.
Delete(m) ==
    /\ call = None /\ life[m] = "live"
    /\ life' = [life EXCEPT ![m] = IF recorded[m] = None THEN "gone" ELSE "deleting"]
    /\ UNCHANGED <<server, wire, call, reply, answer, last, recorded, sent, spent>>

\* GET nodes/{id}/commands and GET groups, by the first machine of a behaviour.
List(m) ==
    /\ sent = 0
    /\ \/ \E id \in {None} \cup 1..MaxList : Send("GetCommands", m, None, id)
       \/ \E ref \in {"a", "b"} : Send("ListGroups", m, None, ref)

-----------------------------------------------------------------------------
(* The wire *)

Unclaimed == {n \in registered : claim[n] = None}
HeldUnder(key) == {n \in registered : claim[n] = key}

\* AuroraBoot serves a request; the answer is lost if nobody waits for it.
Answer(r, rep) ==
    /\ wire' = wire \ {r}
    /\ IF call = r
         THEN /\ answer' = rep
              /\ reply' = IF reply = None THEN rep ELSE reply
         ELSE UNCHANGED <<answer, reply>>
    /\ UNCHANGED <<registered, call, last, machines, sent, spent>>

ServeClaim(r) ==
    /\ r.op = "Claim"
    /\ \/ \E n \in IF HeldUnder(r.key) # {} THEN HeldUnder(r.key) ELSE Unclaimed :
            claim' = [claim EXCEPT ![n] = r.key] /\ Answer(r, OK(r.op, n))
       \/ /\ HeldUnder(r.key) \cup Unclaimed = {}
          /\ Answer(r, Refusal(409, "NoCapacity")) /\ UNCHANGED claim

\* released says whether a claim was cleared: here, of which node.
ServeRelease(r) ==
    /\ r.op = "Release"
    /\ \/ /\ r.node \in registered /\ claim[r.node] \in {r.key, None}
          /\ claim' = [claim EXCEPT ![r.node] = None]
          /\ Answer(r, OK(r.op, IF claim[r.node] = None THEN None ELSE r.node))
       \/ /\ r.node \in registered /\ claim[r.node] \notin {r.key, None}
          /\ Answer(r, Refusal(409, "ClaimMismatch")) /\ UNCHANGED claim
       \/ r.node \notin registered /\ Answer(r, Refusal(404, None)) /\ UNCHANGED claim

\* What a command does on the node is left to AuroraBoot's module.
ServeOther(r) ==
    /\ \/ r.op \in {"GetNode", "Command"} /\ r.node \in registered
          /\ Answer(r, OK(r.op, r.node))
       \/ r.op \in {"GetNode", "Command"} /\ r.node \notin registered
          /\ Answer(r, Refusal(404, None))
       \/ r.op = "GetCommands" /\ \E l \in CommandLists : Answer(r, OK(r.op, l))
       \/ r.op = "ListGroups" /\ \E l \in GroupLists : Answer(r, OK(r.op, l))
    /\ UNCHANGED claim

\* A proxy answers, whether or not it passes the request on, or the body of
\* AuroraBoot's reply is cut short.
Interfere ==
    /\ call # None
    /\ \/ /\ Mishap("proxy")
          /\ reply' \in ProxyReplies
          /\ wire' \in {wire, wire \ {call}}
       \/ /\ Mishap("cut") /\ reply # None
          /\ reply' = [reply EXCEPT !.body = "garbled"]
          /\ UNCHANGED wire
    /\ UNCHANGED <<server, call, answer, last, machines, sent>>

\* The timeout of http.Client, or the manager goes down.
GiveUp ==
    /\ call # None /\ Mishap("timeout")
    /\ call' = None
    /\ UNCHANGED <<server, wire, reply, answer, last, machines, sent>>

Vanish(n) ==
    /\ n \in registered /\ Mishap("vanish")
    /\ registered' = registered \ {n}
    /\ UNCHANGED <<claim, wire, call, reply, answer, last, machines, sent>>

-----------------------------------------------------------------------------
(* The call returns, and reconcileNormal or reconcileDelete acts on it. *)

Returned ==
    LET err == do(call.op, reply)
        v == Verdict(err)
    IN  /\ call # None /\ reply # None
        /\ last' = [call |-> call, reply |-> reply, verdict |-> v, answer |-> answer,
                    out |-> IF v # "ok" THEN None
                            ELSE IF call.op = "GetCommands"
                              THEN commandState(reply.out, call.key, "apply")
                            ELSE IF call.op = "ListGroups"
                              THEN ResolveGroupID(reply.out, call.key)
                            ELSE reply.out]
        /\ call' = None
        /\ UNCHANGED <<server, wire, reply, answer, sent, spent>>

\* A listing ends the behaviour.
ReturnListing ==
    /\ call # None /\ call.op \in {"GetCommands", "ListGroups"}
    /\ Returned
    /\ UNCHANGED machines

\* A claim that came back without a node's ID records an empty one, which the next
\* pass takes for none.  A command without an ID is left out here: what its markers
\* lead to is the machine controller's part.
ReturnOther ==
    /\ call # None /\ call.op \in {"Claim", "GetNode", "Command"}
    /\ Returned
    /\ recorded' = IF call.op = "Claim" /\ last'.verdict = "ok"
                     THEN [recorded EXCEPT ![call.m] = last'.out] ELSE recorded
    /\ UNCHANGED life

\* Whether a claim was cleared is not asked.
ReturnRelease ==
    /\ call # None /\ call.op = "Release"
    /\ Returned
    /\ life' = IF last'.verdict \in {"ok", "NotFound", "ClaimMismatch"}
                 THEN [life EXCEPT ![call.m] = "gone"] ELSE life
    /\ UNCHANGED recorded

Listing == last # None /\ last.call.op \in {"GetCommands", "ListGroups"}

Next ==
    /\ ~Listing
    /\ \/ \E m \in Machines :
            Claim(m) \/ GetNode(m) \/ sendCommand(m) \/ Release(m) \/ Delete(m) \/ List(m)
       \/ \E r \in wire : ServeClaim(r) \/ ServeRelease(r) \/ ServeOther(r)
       \/ Interfere \/ GiveUp \/ \E n \in Nodes : Vanish(n)
       \/ ReturnListing \/ ReturnOther \/ ReturnRelease

Spec == Init /\ [][Next]_vars

-----------------------------------------------------------------------------
(* Properties *)

TypeOK ==
    /\ claim \in [Nodes -> Keys \cup {None}]
    /\ registered \in SUBSET Nodes
    /\ wire \in SUBSET Request
    /\ call \in Request \cup {None}
    /\ \A r \in wire \cup {call} : r # None => r.id < sent
    /\ reply \in Reply \cup {None}
    /\ answer \in Reply \cup {None}
    /\ recorded \in [Machines -> Nodes \cup {None}]
    /\ life \in [Machines -> {"live", "deleting", "gone"}]
    /\ last # None /\ last.call.op = "Claim" /\ last.verdict = "ok" => last.out \in MaybeNode
    /\ sent \in 0..MaxCalls /\ spent \in 0..MaxMishaps

\* The reply is a success of the kind the call decodes, whoever sent it.
Decoded(rep, op) == rep.status = 200 /\ rep.body = Expected(op)

\* What a call hands back is AuroraBoot's: a node, a command, that a claim was cleared,
\* an entry of a list, "NoCapacity" and "ClaimMismatch" are reported only if AuroraBoot itself
\* answered so, and no login page, cut body or gateway error is a success (do,
\* decodeError, IsNoCapacity, IsClaimMismatch).  JSON that is not AuroraBoot's, and has
\* none of its fields, can pass for a success, but only for one that says nothing; and
\* IsNotFound goes by the status alone.
TruthfulVerdict ==
    last # None =>
        LET answered == last.answer # None /\ last.answer.status = 200
        IN  /\ last.verdict = "ok" => answered \/ Decoded(last.reply, last.call.op)
            /\ last.verdict = "ok" /\ last.out # None =>
                answered /\ last.reply = last.answer
            /\ last.verdict \in {"NoCapacity", "ClaimMismatch"} =>
                last.answer # None /\ last.answer.code = last.verdict

\* However often Claim is given up and retried, and however late the requests are
\* served, a machine holds at most one node: the claim key is the same for every
\* attempt (Claim, claimKeyFor).
OneNodePerMachine ==
    \A m \in Machines :
        Cardinality({n \in registered : claim[n] # None /\ claim[n][1] = m}) =< 1

\* The node a live machine has recorded stays claimed by it, also while releases
\* that other machines gave up on are still under way (Release, reconcileDelete).
RecordedIsHeld ==
    \A m \in Machines :
        life[m] = "live" /\ recorded[m] # None /\ recorded[m] \in registered =>
            claim[recorded[m]] # None /\ claim[recorded[m]][1] = m

\* A machine presents one key, so AuroraBoot knows it by at most one node, and it
\* releases only once it is no longer live.
OwnKeys ==
    /\ \A r \in wire \cup {call} : r # None =>
        /\ r.op \in {"Claim", "Release"} => r.key = claimKeyFor(r.m)
        /\ r.op = "Release" => life[r.m] # "live"
    /\ \A n \in Nodes : claim[n] # None => claim[n] = claimKeyFor(claim[n][1])
    /\ \A n1, n2 \in registered : claim[n1] # None /\ claim[n1] = claim[n2] => n1 = n2

\* What the client takes for JSON is AuroraBoot's answer to this call, or carries
\* nothing.
Genuine ==
    /\ reply # None /\ reply.body # "garbled" =>
        reply \in ProxyReplies \/ (reply = answer /\ call \notin wire)
    /\ call # None /\ answer # None /\ answer.status = 200 =>
        /\ call.op = "ListGroups" => answer.out \in GroupLists
        /\ call.op = "GetCommands" => answer.out \in CommandLists

\* The node that a claim under way was answered with, and the one a live machine
\* has recorded, are claimed under that machine's key.
Kept ==
    /\ call # None /\ call.op = "Claim" =>
        /\ life[call.m] = "live"
        /\ answer # None /\ answer.status = 200 =>
            /\ answer.out \in Nodes
            /\ answer.out \in registered => claim[answer.out] = call.key
    /\ \A m \in Machines :
        life[m] = "live" /\ recorded[m] # None /\ recorded[m] \in registered =>
            claim[recorded[m]] = claimKeyFor(m)

\* Why the properties above hold: no release that is still under way can take back
\* what a claim returned, and a late claim finds the node it was given before
\* (Claim, Release, claimKeyFor, do).
WireInv == OwnKeys /\ Genuine /\ Kept

\* The recorded command; without an ID the last listed of those without createdAt, or
\* if all have one the first listed of the newest.
Latest(l, id, name) ==
    LET ofKind == {i \in DOMAIN l : l[i].kind = name}
        unstamped == {i \in ofKind : l[i].createdAt = None}
        newest == {i \in ofKind : \A j \in ofKind : l[j].createdAt =< l[i].createdAt}
    IN  IF id # None THEN (IF id \in DOMAIN l THEN id ELSE None)
        ELSE IF ofKind = {} THEN None
        ELSE IF unstamped # {} THEN Max(unstamped)
        ELSE Min(newest)

\* The command commandState reads is the recorded one, or the latest of its kind, in
\* whatever order they are listed (commandState, newerCommand).
ReadsLatestCommand ==
    Listing /\ last.verdict = "ok" /\ last.call.op = "GetCommands" =>
        last.out = Latest(last.reply.out, last.call.key, "apply")

\* A group reference that is some group's ID means that group, although a group
\* listed before it may have it for a name; otherwise it means the first group of
\* that name (ResolveGroupID).
ResolvesGroup ==
    Listing /\ last.verdict = "ok" /\ last.call.op = "ListGroups" =>
        LET l == last.reply.out
            ref == last.call.key
            named == {i \in DOMAIN l : l[i].Name = ref}
        IN  last.out =
              IF \E i \in DOMAIN l : l[i].ID = ref THEN ref
              ELSE IF named # {} THEN l[Min(named)].ID
              ELSE None
=============================================================================
