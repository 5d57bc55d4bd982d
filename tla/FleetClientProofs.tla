-------------------------- MODULE FleetClientProofs --------------------------
(***************************************************************************)
(* The AuroraBoot client, for every set of machines and nodes and any      *)
(* number of calls, timeouts, proxies and late requests: what a call hands *)
(* back is what AuroraBoot answered to it, a machine never holds two       *)
(* nodes, and the node a live machine has recorded stays its own.          *)
(***************************************************************************)
EXTENDS FleetClient, FiniteSetTheorems, WellFoundedInduction, TLAPS

-----------------------------------------------------------------------------
(* Replies and errors *)

\* AuroraBoot may have no command and no group to list.
LEMMA EmptyLists == <<>> \in CommandLists /\ <<>> \in GroupLists
<1>1. ASSUME NEW S PROVE <<>> \in BoundedSeq(S, MaxList)
  <2>1. 0 \in 0..MaxList
    BY BoundsAssumption
  <2>2. <<>> \in [1..0 -> S]
    OBVIOUS
  <2> QED BY <2>1, <2>2 DEF BoundedSeq, SeqOf
<1>2. \A i, j \in DOMAIN <<>> : i # j => <<>>[i].ID # <<>>[j].ID
  OBVIOUS
<1> QED BY <1>1, <1>2 DEF CommandLists, GroupLists

\* What AuroraBoot, or a proxy, sends is a reply.
LEMMA ReplyTypes ==
  /\ \A op : \A o \in Nodes \cup {None} \cup CommandLists \cup GroupLists :
       OK(op, o) \in Reply /\ OK(op, o).status = 200 /\ OK(op, o).out = o
  /\ \A s \in {404, 409}, c \in Codes \cup {None} :
       Refusal(s, c) \in Reply /\ Refusal(s, c).status = s
  /\ \A rep \in ProxyReplies :
       /\ rep \in Reply /\ rep.code = None
       /\ rep.body = "object" => rep.out = None
       /\ rep.body = "list" => rep.out = <<>>
<1>0. <<>> \in CommandLists
  BY EmptyLists
<1>1. ASSUME NEW op, NEW o \in Nodes \cup {None} \cup CommandLists \cup GroupLists
      PROVE  OK(op, o) \in Reply /\ OK(op, o).status = 200 /\ OK(op, o).out = o
  BY DEF OK, Expected, Reply
<1>2. ASSUME NEW s \in {404, 409}, NEW c \in Codes \cup {None}
      PROVE  Refusal(s, c) \in Reply /\ Refusal(s, c).status = s
  BY DEF Refusal, Reply
<1>3. ASSUME NEW rep \in ProxyReplies
      PROVE  /\ rep \in Reply /\ rep.code = None
             /\ rep.body = "object" => rep.out = None
             /\ rep.body = "list" => rep.out = <<>>
  <2>1. PICK s \in {200, 404, 502}, b \in {"object", "list", "garbled"} :
          rep = [status |-> s, body |-> b, code |-> None,
                 out |-> IF b = "list" THEN <<>> ELSE None]
    BY <1>3 DEF ProxyReplies
  <2>2. rep.code = None /\ rep.body = b /\ rep.out = IF b = "list" THEN <<>> ELSE None
    BY <2>1
  <2>3. (IF b = "list" THEN <<>> ELSE None) \in Nodes \cup {None} \cup CommandLists \cup GroupLists
    BY <1>0
  <2>4. rep \in Reply
    BY <2>1, <2>3 DEF Reply
  <2> QED BY <2>2, <2>4
<1> QED BY <1>1, <1>2, <1>3

\* A reply whose body is cut short is still a reply, and no longer decodes.
LEMMA CutRecord ==
  ASSUME NEW S, NEW B, NEW C, NEW O, "garbled" \in B,
         NEW rep \in [status : S, body : B, code : C, out : O]
  PROVE  /\ [rep EXCEPT !.body = "garbled"] \in [status : S, body : B, code : C, out : O]
         /\ [rep EXCEPT !.body = "garbled"].body = "garbled"
<1>1. [rep EXCEPT !.body = "garbled"] \in [status : S, body : B, code : C, out : O]
  OBVIOUS
<1>2. [rep EXCEPT !.body = "garbled"].body = "garbled"
  OBVIOUS
<1> QED BY <1>1, <1>2

\* The same of Reply.
LEMMA CutReply ==
  ASSUME NEW rep \in Reply
  PROVE  /\ [rep EXCEPT !.body = "garbled"] \in Reply
         /\ [rep EXCEPT !.body = "garbled"].body = "garbled"
<1> DEFINE S == {200, 404, 409, 502}
           B == {"object", "list", "garbled"}
           C == Codes \cup {None}
           O == Nodes \cup {None} \cup CommandLists \cup GroupLists
<1>1. Reply = [status : S, body : B, code : C, out : O]
  BY Zenon DEF Reply
<1>0. "garbled" \in B
  OBVIOUS
<1> HIDE DEF S, B, C, O
<1>2. rep \in [status : S, body : B, code : C, out : O]
  BY <1>1, Zenon
<1>3. /\ [rep EXCEPT !.body = "garbled"] \in [status : S, body : B, code : C, out : O]
      /\ [rep EXCEPT !.body = "garbled"].body = "garbled"
  BY <1>0, <1>2, CutRecord, Zenon
<1> QED BY <1>1, <1>3, Zenon

\* A call succeeds only on a 200 of the kind it decodes, and reports one of
\* AuroraBoot's codes only from an object that carries it (do, decodeError, Is...).
LEMMA VerdictFacts ==
  ASSUME NEW rep \in Reply, NEW op
  PROVE  /\ Verdict(do(op, rep)) = "ok" => Decoded(rep, op) /\ rep.body # "garbled"
         /\ Verdict(do(op, rep)) \in Codes =>
              rep.body # "garbled" /\ rep.code = Verdict(do(op, rep))
<1> DEFINE Errors == [status : Nat, code : Codes \cup {None}]
<1>1. /\ rep.status \in {200, 404, 409, 502} /\ rep.body \in {"object", "list", "garbled"}
      /\ rep.code \in Codes \cup {None}
  BY DEF Reply
<1>2. decodeError(rep) \in Errors /\ [status |-> 0, code |-> None] \in Errors
  BY <1>1 DEF decodeError
<1>3. decodeError(rep) # None /\ [status |-> 0, code |-> None] # None
  BY <1>2, NoneAssumption
<1>4. None \notin Codes
  BY NoneAssumption
<1>5. CASE rep.status \notin 200..299
  <2>1. do(op, rep) = decodeError(rep)
    BY <1>5 DEF do
  <2>2. decodeError(rep).code \in Codes =>
          rep.body = "object" /\ rep.code = decodeError(rep).code
    BY <1>1, <1>4 DEF decodeError
  <2> QED BY <1>3, <2>1, <2>2 DEF Verdict, IsNoCapacity, IsNotFound, IsClaimMismatch, Codes
<1>6. CASE rep.status \in 200..299 /\ rep.body = Expected(op)
  <2>1. do(op, rep) = None /\ rep.status = 200 /\ rep.body # "garbled"
    BY <1>1, <1>6 DEF do, Expected
  <2> QED BY <1>6, <2>1 DEF Verdict, Codes, Decoded
<1>7. CASE rep.status \in 200..299 /\ rep.body # Expected(op)
  <2>1. do(op, rep) = [status |-> 0, code |-> None]
    BY <1>7 DEF do
  <2>2. do(op, rep) # None /\ do(op, rep).code = None
    BY <1>3, <2>1
  <2> QED BY <1>4, <2>2 DEF Verdict, IsNoCapacity, IsNotFound, IsClaimMismatch, Codes
<1> QED BY <1>5, <1>6, <1>7

\* A machine's claim key is a key, and no two machines share one.
LEMMA KeyFacts ==
  ASSUME NEW m \in Machines
  PROVE  /\ claimKeyFor(m) \in Keys /\ claimKeyFor(m) # None /\ claimKeyFor(m)[1] = m
         /\ \A k \in Machines : claimKeyFor(k) = claimKeyFor(m) => k = m
BY NoneAssumption DEF claimKeyFor, Keys

\* A request carries what its call gave it.
LEMMA RequestFacts ==
  ASSUME NEW r \in Request
  PROVE  /\ r # None /\ r.m \in Machines /\ r.id \in Nat
         /\ r.node \in Nodes \cup {None}
BY NoneAssumption DEF Request

-----------------------------------------------------------------------------
(* Types *)

\* A call puts a request on the wire.
LEMMA SendType ==
  ASSUME TypeOK, NEW op, NEW m, NEW node, NEW key, Send(op, m, node, key),
         [id |-> sent, op |-> op, m |-> m, node |-> node, key |-> key] \in Request
  PROVE  TypeOK'
<1>1. call' \in Request /\ call'.id = sent /\ wire' = wire \cup {call'} /\ sent < MaxCalls
      /\ sent' = sent + 1
  BY DEF Send
<1>2. sent \in Nat /\ \A r \in wire : r \in Request /\ r.id \in Nat /\ r.id < sent
  BY RequestFacts, NoneAssumption DEF TypeOK
<1>3. \A r \in wire' \cup {call'} : r # None => r.id < sent'
  BY <1>1, <1>2
<1>4. sent' \in 0..MaxCalls
  BY <1>1, <1>2, BoundsAssumption
<1> QED BY <1>1, <1>3, <1>4 DEF Send, server, machines, TypeOK

\* So do the calls, one by one.
LEMMA CallType ==
  ASSUME TypeOK, NEW m \in Machines,
         \/ Claim(m) \/ GetNode(m) \/ sendCommand(m) \/ Release(m) \/ Delete(m) \/ List(m)
  PROVE  TypeOK'
<1>0. sent \in Nat /\ recorded[m] \in Nodes \cup {None}
  BY DEF TypeOK
<1>1. CASE Claim(m)
  <2>1. [id |-> sent, op |-> "Claim", m |-> m, node |-> None, key |-> claimKeyFor(m)] \in Request
    BY <1>0, KeyFacts DEF Request
  <2> QED BY <1>1, <2>1, SendType DEF Claim
<1>2. CASE GetNode(m)
  <2>1. [id |-> sent, op |-> "GetNode", m |-> m, node |-> recorded[m], key |-> None] \in Request
    BY <1>0, <1>2 DEF GetNode, Request
  <2> QED BY <1>2, <2>1, SendType DEF GetNode
<1>3. CASE sendCommand(m)
  <2>1. [id |-> sent, op |-> "Command", m |-> m, node |-> recorded[m], key |-> None] \in Request
    BY <1>0, <1>3 DEF sendCommand, Request
  <2> QED BY <1>3, <2>1, SendType DEF sendCommand
<1>4. CASE Release(m)
  <2>1. [id |-> sent, op |-> "Release", m |-> m, node |-> recorded[m],
         key |-> claimKeyFor(m)] \in Request
    BY <1>0, KeyFacts DEF Request
  <2> QED BY <1>4, <2>1, SendType DEF Release
<1>5. CASE Delete(m)
  BY <1>5 DEF Delete, server, TypeOK
<1>6. ASSUME NEW id \in {None} \cup 1..MaxList, Send("GetCommands", m, None, id) PROVE TypeOK'
  <2>1. [id |-> sent, op |-> "GetCommands", m |-> m, node |-> None, key |-> id] \in Request
    BY <1>0 DEF Request
  <2> QED BY <1>6, <2>1, SendType
<1>7. ASSUME NEW ref \in {"a", "b"}, Send("ListGroups", m, None, ref) PROVE TypeOK'
  <2>1. [id |-> sent, op |-> "ListGroups", m |-> m, node |-> None, key |-> ref] \in Request
    BY <1>0 DEF Request
  <2> QED BY <1>7, <2>1, SendType
<1> QED BY <1>1, <1>2, <1>3, <1>4, <1>5, <1>6, <1>7 DEF List

\* AuroraBoot answers with a reply.
LEMMA AnswerType ==
  ASSUME TypeOK, NEW r \in wire, NEW rep \in Reply, Answer(r, rep),
         claim' \in [Nodes -> Keys \cup {None}]
  PROVE  TypeOK'
<1>1. /\ wire' \subseteq wire /\ UNCHANGED <<call, registered, last, recorded, life, sent, spent>>
      /\ reply' \in Reply \cup {None} /\ answer' \in Reply \cup {None}
  BY DEF Answer, machines, TypeOK
<1> QED BY <1>1 DEF TypeOK

\* So do the requests it serves, one by one.
LEMMA ServeType ==
  ASSUME TypeOK, NEW r \in wire, ServeClaim(r) \/ ServeRelease(r) \/ ServeOther(r)
  PROVE  TypeOK'
<1>0. r \in Request /\ claim \in [Nodes -> Keys \cup {None}] /\ registered \subseteq Nodes
      /\ r.node \in Nodes \cup {None}
  BY RequestFacts DEF TypeOK
<1>1. CASE ServeClaim(r)
  <2>0. r.key \in Keys
    BY <1>0, <1>1 DEF ServeClaim, Request
  <2>1. ASSUME NEW n \in Nodes, claim' = [claim EXCEPT ![n] = r.key], Answer(r, OK(r.op, n))
        PROVE  TypeOK'
    BY <1>0, <2>0, <2>1, ReplyTypes, AnswerType
  <2>2. CASE Answer(r, Refusal(409, "NoCapacity")) /\ UNCHANGED claim
    <3>1. Refusal(409, "NoCapacity") \in Reply
      BY ReplyTypes DEF Codes
    <3> QED BY <1>0, <2>2, <3>1, AnswerType
  <2> QED BY <1>0, <1>1, <2>1, <2>2 DEF ServeClaim, HeldUnder, Unclaimed
<1>2. CASE ServeRelease(r)
  <2>1. ASSUME NEW o \in Nodes \cup {None}, claim' = [claim EXCEPT ![r.node] = None],
               Answer(r, OK(r.op, o))
        PROVE  TypeOK'
    BY <1>0, <2>1, ReplyTypes, AnswerType
  <2>2. ASSUME NEW s \in {404, 409}, NEW c \in Codes \cup {None}, Answer(r, Refusal(s, c)),
               UNCHANGED claim
        PROVE  TypeOK'
    BY <1>0, <2>2, ReplyTypes, AnswerType
  <2>3. (IF claim[r.node] = None THEN None ELSE r.node) \in Nodes \cup {None}
    BY <1>0
  <2> QED BY <1>2, <2>1, <2>2, <2>3 DEF ServeRelease, Codes
<1>3. CASE ServeOther(r)
  <2>1. UNCHANGED claim
    BY <1>3 DEF ServeOther
  <2>2. ASSUME NEW o \in Nodes \cup {None} \cup CommandLists \cup GroupLists, Answer(r, OK(r.op, o))
        PROVE  TypeOK'
    BY <1>0, <2>1, <2>2, ReplyTypes, AnswerType
  <2>3. CASE Answer(r, Refusal(404, None))
    <3>1. Refusal(404, None) \in Reply
      BY ReplyTypes
    <3> QED BY <1>0, <2>1, <2>3, <3>1, AnswerType
  <2> QED BY <1>0, <1>3, <2>2, <2>3 DEF ServeOther
<1> QED BY <1>1, <1>2, <1>3

\* What the network and the operator may do.
LEMMA MishapsType ==
  ASSUME TypeOK, Interfere \/ GiveUp \/ \E n \in Nodes : Vanish(n)
  PROVE  TypeOK'
<1>0. \A k : Mishap(k) => spent' \in 0..MaxMishaps
  BY BoundsAssumption DEF Mishap, TypeOK
<1>1. CASE Interfere
  <2>1. spent' \in 0..MaxMishaps
    BY <1>0, <1>1 DEF Interfere
  <2>2. reply' \in Reply \cup {None} /\ wire' \subseteq wire
    <3>1. CASE reply' \in ProxyReplies /\ wire' \in {wire, wire \ {call}}
      BY <3>1, ReplyTypes
    <3>2. CASE reply # None /\ reply' = [reply EXCEPT !.body = "garbled"] /\ UNCHANGED wire
      <4>1. reply \in Reply
        BY <3>2 DEF TypeOK
      <4>2. [reply EXCEPT !.body = "garbled"] \in Reply
        BY <4>1, CutReply
      <4> QED BY <3>2, <4>2
    <3> QED BY <1>1, <3>1, <3>2 DEF Interfere
  <2>3. UNCHANGED <<claim, registered, call, answer, last, recorded, life, sent>>
    BY <1>1 DEF Interfere, server, machines
  <2> QED BY <2>1, <2>2, <2>3 DEF TypeOK
<1>2. CASE GiveUp
  BY <1>0, <1>2 DEF GiveUp, server, machines, TypeOK
<1>3. CASE \E n \in Nodes : Vanish(n)
  BY <1>0, <1>3 DEF Vanish, server, machines, TypeOK
<1> QED BY <1>1, <1>2, <1>3

\* What a call that returns has to say: a nil error only on a 200 of the right kind,
\* AuroraBoot's or one that says nothing, and a code only if AuroraBoot gave it.
LEMMA ReturnFacts ==
  ASSUME TypeOK, WireInv, Returned
  PROVE  /\ call \in Request /\ reply \in Reply
         /\ last'.call = call /\ last'.answer = answer /\ last'.reply = reply
         /\ last'.verdict = "ok" =>
              /\ Decoded(reply, call.op)
              /\ reply = answer \/ reply.out = IF Expected(call.op) = "list" THEN <<>> ELSE None
              /\ call.op \notin {"GetCommands", "ListGroups"} => last'.out = reply.out
              /\ call.op = "ListGroups" => last'.out = ResolveGroupID(reply.out, call.key)
              /\ call.op = "GetCommands" =>
                   last'.out = commandState(reply.out, call.key, "apply")
         /\ last'.verdict \in Codes => answer = reply /\ answer.code = last'.verdict
         /\ UNCHANGED <<claim, registered, wire, reply, answer, sent, spent>> /\ call' = None
<1>1. call \in Request /\ reply \in Reply /\ reply # None
  BY DEF Returned, TypeOK
<1>2. /\ Verdict(do(call.op, reply)) = "ok" =>
           Decoded(reply, call.op) /\ reply.body # "garbled"
      /\ Verdict(do(call.op, reply)) \in Codes =>
           reply.body # "garbled" /\ reply.code = Verdict(do(call.op, reply))
  BY <1>1, VerdictFacts
<1>3. reply.body # "garbled" => reply \in ProxyReplies \/ reply = answer
  BY <1>1 DEF WireInv, Genuine
<1>4. /\ last'.call = call /\ last'.answer = answer /\ last'.reply = reply
      /\ last'.verdict = Verdict(do(call.op, reply))
      /\ last'.verdict = "ok" =>
           /\ call.op \notin {"GetCommands", "ListGroups"} => last'.out = reply.out
           /\ call.op = "ListGroups" => last'.out = ResolveGroupID(reply.out, call.key)
           /\ call.op = "GetCommands" => last'.out = commandState(reply.out, call.key, "apply")
      /\ UNCHANGED <<claim, registered, wire, reply, answer, sent, spent>> /\ call' = None
  BY DEF Returned, server
<1>5. reply \in ProxyReplies =>
        /\ reply.code = None
        /\ Decoded(reply, call.op) =>
             reply.out = IF Expected(call.op) = "list" THEN <<>> ELSE None
  BY ReplyTypes DEF Decoded, Expected
<1>6. None \notin Codes
  BY NoneAssumption
<1> QED BY <1>1, <1>2, <1>3, <1>4, <1>5, <1>6

\* A call that returns keeps the types: what a claim returns is a node, if anything.
LEMMA ReturnType ==
  ASSUME TypeOK, WireInv, ReturnListing \/ ReturnOther \/ ReturnRelease
  PROVE  TypeOK'
<1>0. Returned
  BY DEF ReturnListing, ReturnOther, ReturnRelease
<1>1. /\ call \in Request /\ call # None /\ call.m \in Machines /\ last'.call = call
      /\ last'.verdict = "ok" =>
           /\ reply.status = 200
           /\ reply = answer \/ reply.out = IF Expected(call.op) = "list" THEN <<>> ELSE None
           /\ call.op \notin {"GetCommands", "ListGroups"} => last'.out = reply.out
      /\ UNCHANGED <<claim, registered, wire, reply, answer, sent, spent>> /\ call' = None
  BY <1>0, ReturnFacts, RequestFacts DEF Decoded
<1>2. call.op = "Claim" /\ last'.verdict = "ok" => last'.out \in MaybeNode
  <2>1. reply # None
    BY <1>0 DEF Returned
  <2> QED BY <1>1, <2>1 DEF WireInv, Kept, MaybeNode, Expected
<1>3. recorded' \in [Machines -> Nodes \cup {None}]
  BY <1>1, <1>2 DEF ReturnListing, ReturnOther, ReturnRelease, machines, TypeOK, MaybeNode
<1>4. life' \in [Machines -> {"live", "deleting", "gone"}]
  BY <1>1 DEF ReturnListing, ReturnOther, ReturnRelease, machines, TypeOK
<1> QED BY <1>1, <1>2, <1>3, <1>4 DEF TypeOK

\* Every step keeps the types.
LEMMA TypeNext == ASSUME TypeOK, WireInv, [Next]_vars PROVE TypeOK'
<1>1. CASE UNCHANGED vars
  BY <1>1 DEF vars, server, machines, TypeOK
<1> QED BY <1>1, CallType, ServeType, MishapsType, ReturnType DEF Next

-----------------------------------------------------------------------------
(* The wire *)

\* A new request says whose it is; nothing has come back for it yet.
LEMMA SendWire ==
  ASSUME TypeOK, WireInv, NEW op, NEW m \in Machines, NEW node, NEW key,
         Send(op, m, node, key),
         op \in {"Claim", "Release"} => key = claimKeyFor(m),
         op = "Release" => life[m] # "live",
         op = "Claim" => life[m] = "live"
  PROVE  WireInv'
<1>1. /\ call' = [id |-> sent, op |-> op, m |-> m, node |-> node, key |-> key]
      /\ wire' = wire \cup {call'} /\ reply' = None /\ answer' = None
      /\ UNCHANGED <<claim, registered, recorded, life>>
  BY DEF Send, server, machines
<1>2. call'.op = op /\ call'.m = m /\ call'.key = key
  BY <1>1
<1>3. OwnKeys'
  BY <1>1, <1>2 DEF WireInv, OwnKeys, claimKeyFor
<1>4. Genuine'
  BY <1>1 DEF Genuine
<1>5. Kept'
  BY <1>1, <1>2 DEF WireInv, Kept, claimKeyFor
<1> QED BY <1>3, <1>4, <1>5 DEF WireInv

\* The calls, one by one.
LEMMA CallWire ==
  ASSUME TypeOK, WireInv, NEW m \in Machines,
         \/ Claim(m) \/ GetNode(m) \/ sendCommand(m) \/ Release(m) \/ Delete(m) \/ List(m)
  PROVE  WireInv'
<1>1. CASE Claim(m)
  BY <1>1, SendWire DEF Claim
<1>2. CASE GetNode(m)
  BY <1>2, SendWire DEF GetNode
<1>3. CASE sendCommand(m)
  BY <1>3, SendWire DEF sendCommand
<1>4. CASE Release(m)
  BY <1>4, SendWire DEF Release
<1>5. CASE Delete(m)
  <2>1. /\ call = None /\ call' = None /\ life[m] = "live"
        /\ UNCHANGED <<claim, registered, wire, reply, answer, recorded>>
    BY <1>5 DEF Delete, server
  <2>2. life' \in [Machines -> {"live", "deleting", "gone"}]
        /\ \A k \in Machines : life'[k] = "live" => life[k] = "live"
    BY <1>5 DEF Delete, TypeOK
  <2>3. \A r \in wire : r.m \in Machines
    BY RequestFacts DEF TypeOK
  <2>4. OwnKeys'
    BY <2>1, <2>2, <2>3 DEF WireInv, OwnKeys, claimKeyFor
  <2>5. Genuine' /\ Kept'
    BY <2>1, <2>2 DEF WireInv, Genuine, Kept, claimKeyFor
  <2> QED BY <2>4, <2>5 DEF WireInv
<1>6. CASE List(m)
  BY <1>6, SendWire DEF List
<1> QED BY <1>1, <1>2, <1>3, <1>4, <1>5, <1>6

\* An answer keeps what the live machines hold, and answers the call that waits for
\* it or none.
LEMMA AnswerWire ==
  ASSUME TypeOK, WireInv, NEW r \in wire, NEW rep \in Reply, Answer(r, rep),
         \A n \in Nodes : claim'[n] # None => claim'[n] = claimKeyFor(claim'[n][1]),
         \A n1, n2 \in registered : claim'[n1] # None /\ claim'[n1] = claim'[n2] => n1 = n2,
         \A m \in Machines, n \in registered :
            life[m] = "live" /\ claim[n] = claimKeyFor(m) => claim'[n] = claimKeyFor(m),
         r.op = "Claim" /\ rep.status = 200 => rep.out \in Nodes /\ claim'[rep.out] = r.key,
         r.op = "ListGroups" /\ rep.status = 200 => rep.out \in GroupLists,
         r.op = "GetCommands" /\ rep.status = 200 => rep.out \in CommandLists
  PROVE  WireInv'
<1>1. /\ wire' = wire \ {r} /\ UNCHANGED <<call, registered, recorded, life>>
      /\ call # r => UNCHANGED <<answer, reply>>
      /\ call = r => answer' = rep /\ reply' = IF reply = None THEN rep ELSE reply
  BY DEF Answer, machines
<1>2. r \in Request /\ r # None /\ rep # None /\ (call # None => call.m \in Machines)
  BY RequestFacts, NoneAssumption DEF TypeOK
<1>3. OwnKeys'
  BY <1>1 DEF WireInv, OwnKeys, claimKeyFor
<1>4. Genuine'
  BY <1>1, <1>2 DEF WireInv, Genuine
<1>5. Kept'
  <2>1. ASSUME call # None, call.op = "Claim"
        PROVE  /\ life[call.m] = "live" /\ call.key = claimKeyFor(call.m)
               /\ answer' # None /\ answer'.status = 200 =>
                    /\ answer'.out \in Nodes
                    /\ answer'.out \in registered => claim'[answer'.out] = call.key
    <3>1. life[call.m] = "live" /\ call.key = claimKeyFor(call.m)
      BY <2>1 DEF WireInv, Kept, OwnKeys
    <3>2. CASE call = r
      BY <1>1, <2>1, <3>1, <3>2
    <3>3. CASE call # r
      BY <1>1, <1>2, <2>1, <3>1, <3>3 DEF WireInv, Kept
    <3> QED BY <3>2, <3>3
  <2>2. ASSUME NEW m \in Machines, life[m] = "live", recorded[m] # None,
               recorded[m] \in registered
        PROVE  claim'[recorded[m]] = claimKeyFor(m)
    BY <2>2 DEF WireInv, Kept
  <2> QED BY <1>1, <2>1, <2>2 DEF Kept, claimKeyFor
<1> QED BY <1>3, <1>4, <1>5 DEF WireInv

\* A claim gets the node already held under its key, or an unclaimed one, and takes
\* no node from another machine.
LEMMA ServeClaimWire ==
  ASSUME TypeOK, WireInv, NEW r \in wire, ServeClaim(r)
  PROVE  WireInv'
<1>0. /\ r \in Request /\ r # None /\ r.m \in Machines /\ r.op = "Claim"
      /\ claim \in [Nodes -> Keys \cup {None}] /\ registered \subseteq Nodes
  BY RequestFacts DEF TypeOK, ServeClaim
<1>1. r.key = claimKeyFor(r.m)
  BY <1>0 DEF WireInv, OwnKeys
<1>2. r.key # None /\ r.key = claimKeyFor(r.key[1])
  BY <1>0, <1>1, KeyFacts
<1>3. ASSUME NEW n \in registered, claim' = [claim EXCEPT ![n] = r.key], Answer(r, OK(r.op, n)),
             HeldUnder(r.key) # {} => n \in HeldUnder(r.key),
             HeldUnder(r.key) = {} => n \in Unclaimed
      PROVE  WireInv'
  <2>1. claim[n] \in {r.key, None}
    BY <1>3 DEF HeldUnder, Unclaimed
  <2>2. claim[n] = None => \A n1 \in registered : claim[n1] # r.key
    BY <1>2, <1>3 DEF HeldUnder
  <2>3. claim'[n] = r.key /\ \A k \in Nodes : k # n => claim'[k] = claim[k]
    BY <1>0, <1>3
  <2>4. \A k \in Nodes : claim'[k] # None => claim'[k] = claimKeyFor(claim'[k][1])
    BY <1>2, <2>3 DEF WireInv, OwnKeys, claimKeyFor
  <2>5. ASSUME NEW n1 \in registered, NEW n2 \in registered,
               claim'[n1] # None, claim'[n1] = claim'[n2]
        PROVE  n1 = n2
    <3>1. CASE claim[n] = None
      BY <1>0, <2>2, <2>3, <2>5, <3>1 DEF WireInv, OwnKeys
    <3>2. CASE claim[n] = r.key
      BY <1>0, <2>3, <2>5, <3>2 DEF WireInv, OwnKeys
    <3> QED BY <2>1, <3>1, <3>2
  <2>6. ASSUME NEW m \in Machines, NEW k \in registered,
               life[m] = "live", claim[k] = claimKeyFor(m)
        PROVE  claim'[k] = claimKeyFor(m)
    <3>1. claim[k] # None
      BY <2>6, KeyFacts
    <3> QED BY <1>0, <2>1, <2>3, <2>6, <3>1
  <2>7. OK(r.op, n) \in Reply /\ OK(r.op, n).out = n
    BY <1>0, ReplyTypes
  <2>8. r.op # "ListGroups"
    BY <1>0
  <2> QED BY <1>0, <1>3, <2>3, <2>4, <2>5, <2>6, <2>7, <2>8, AnswerWire
<1>4. CASE Answer(r, Refusal(409, "NoCapacity")) /\ UNCHANGED claim
  <2>1. Refusal(409, "NoCapacity") \in Reply /\ Refusal(409, "NoCapacity").status # 200
    BY ReplyTypes DEF Codes
  <2>2. /\ \A n \in Nodes : claim'[n] # None => claim'[n] = claimKeyFor(claim'[n][1])
        /\ \A n1, n2 \in registered : claim'[n1] # None /\ claim'[n1] = claim'[n2] => n1 = n2
    BY <1>4 DEF WireInv, OwnKeys, claimKeyFor
  <2> QED BY <1>4, <2>1, <2>2, AnswerWire
<1> QED BY <1>0, <1>3, <1>4 DEF ServeClaim, HeldUnder, Unclaimed

\* A release, however late, comes from a machine that is no longer live: it frees
\* no node that a live machine holds.
LEMMA ServeReleaseWire ==
  ASSUME TypeOK, WireInv, NEW r \in wire, ServeRelease(r)
  PROVE  WireInv'
<1>0. /\ r \in Request /\ r # None /\ r.m \in Machines /\ r.op = "Release"
      /\ claim \in [Nodes -> Keys \cup {None}] /\ registered \subseteq Nodes
  BY RequestFacts DEF TypeOK, ServeRelease
<1>1. r.key = claimKeyFor(r.m) /\ life[r.m] # "live"
  BY <1>0 DEF WireInv, OwnKeys
<1>2. /\ \A n \in Nodes : claim[n] # None => claim[n] = claimKeyFor(claim[n][1])
      /\ \A n1, n2 \in registered : claim[n1] # None /\ claim[n1] = claim[n2] => n1 = n2
  BY DEF WireInv, OwnKeys
<1>3. ASSUME NEW o \in Nodes \cup {None}, r.node \in registered,
             claim[r.node] \in {r.key, None},
             claim' = [claim EXCEPT ![r.node] = None], Answer(r, OK(r.op, o))
      PROVE  WireInv'
  <2>1. claim'[r.node] = None /\ \A k \in Nodes : k # r.node => claim'[k] = claim[k]
    BY <1>0, <1>3
  <2>2. \A k \in Nodes : claim'[k] # None => claim'[k] = claimKeyFor(claim'[k][1])
    BY <1>2, <2>1 DEF claimKeyFor
  <2>3. \A n1, n2 \in registered : claim'[n1] # None /\ claim'[n1] = claim'[n2] => n1 = n2
    BY <1>0, <1>2, <2>1
  <2>4. ASSUME NEW m \in Machines, NEW k \in registered,
               life[m] = "live", claim[k] = claimKeyFor(m)
        PROVE  claim'[k] = claimKeyFor(m)
    <3>1. claim[k] # None /\ claim[k] # r.key
      BY <1>0, <1>1, <2>4, KeyFacts
    <3> QED BY <1>0, <1>3, <2>1, <2>4, <3>1
  <2>5. OK(r.op, o) \in Reply
    BY ReplyTypes
  <2>6. r.op \notin {"Claim", "ListGroups", "GetCommands"}
    BY <1>0
  <2> QED BY <1>3, <2>2, <2>3, <2>4, <2>5, <2>6, AnswerWire
<1>4. ASSUME NEW s \in {404, 409}, NEW c \in Codes \cup {None}, Answer(r, Refusal(s, c)),
             UNCHANGED claim
      PROVE  WireInv'
  <2>1. Refusal(s, c) \in Reply /\ Refusal(s, c).status # 200
    BY ReplyTypes
  <2>2. /\ \A n \in Nodes : claim'[n] # None => claim'[n] = claimKeyFor(claim'[n][1])
        /\ \A n1, n2 \in registered : claim'[n1] # None /\ claim'[n1] = claim'[n2] => n1 = n2
    BY <1>2, <1>4 DEF claimKeyFor
  <2> QED BY <1>4, <2>1, <2>2, AnswerWire
<1>5. (IF claim[r.node] = None THEN None ELSE r.node) \in Nodes \cup {None}
  BY <1>0, RequestFacts
<1> QED BY <1>3, <1>4, <1>5 DEF ServeRelease, Codes

\* The other calls change no claim.
LEMMA ServeOtherWire ==
  ASSUME TypeOK, WireInv, NEW r \in wire, ServeOther(r)
  PROVE  WireInv'
<1>0. r \in Request /\ registered \subseteq Nodes /\ r.op # "Claim" /\ UNCHANGED claim
  BY DEF TypeOK, ServeOther
<1>1. /\ \A n \in Nodes : claim'[n] # None => claim'[n] = claimKeyFor(claim'[n][1])
      /\ \A n1, n2 \in registered : claim'[n1] # None /\ claim'[n1] = claim'[n2] => n1 = n2
  BY <1>0 DEF WireInv, OwnKeys, claimKeyFor
<1>2. ASSUME NEW rep \in Reply, Answer(r, rep),
             r.op = "ListGroups" /\ rep.status = 200 => rep.out \in GroupLists,
             r.op = "GetCommands" /\ rep.status = 200 => rep.out \in CommandLists
      PROVE  WireInv'
  BY <1>0, <1>1, <1>2, AnswerWire
<1>3. CASE r.op \in {"GetNode", "Command"} /\ r.node \in registered /\ Answer(r, OK(r.op, r.node))
  <2>1. OK(r.op, r.node) \in Reply
    BY <1>0, <1>3, ReplyTypes
  <2> QED BY <1>2, <1>3, <2>1
<1>4. CASE r.op \in {"GetNode", "Command"} /\ Answer(r, Refusal(404, None))
  <2>1. Refusal(404, None) \in Reply
    BY ReplyTypes
  <2> QED BY <1>2, <1>4, <2>1
<1>5. ASSUME r.op = "GetCommands", NEW l \in CommandLists, Answer(r, OK(r.op, l)) PROVE WireInv'
  <2>1. OK(r.op, l) \in Reply /\ OK(r.op, l).out = l
    BY ReplyTypes
  <2> QED BY <1>2, <1>5, <2>1
<1>6. ASSUME r.op = "ListGroups", NEW l \in GroupLists, Answer(r, OK(r.op, l)) PROVE WireInv'
  <2>1. OK(r.op, l) \in Reply /\ OK(r.op, l).out = l
    BY ReplyTypes
  <2> QED BY <1>2, <1>6, <2>1
<1> QED BY <1>3, <1>4, <1>5, <1>6 DEF ServeOther

\* A proxy's answer says nothing and a body cut short does not decode; after a timeout
\* nobody waits; a node that is gone is nobody's.
LEMMA MishapsWire ==
  ASSUME TypeOK, WireInv, Interfere \/ GiveUp \/ \E n \in Nodes : Vanish(n)
  PROVE  WireInv'
<1>1. CASE Interfere
  <2>1. UNCHANGED <<claim, registered, call, answer, recorded, life>>
    BY <1>1 DEF Interfere, server, machines
  <2>2. /\ wire' \subseteq wire /\ reply' # None
        /\ reply'.body = "garbled" \/ reply' \in ProxyReplies
    <3>1. CASE reply' \in ProxyReplies /\ wire' \in {wire, wire \ {call}}
      BY <3>1, ReplyTypes, NoneAssumption
    <3>2. CASE reply # None /\ reply' = [reply EXCEPT !.body = "garbled"] /\ UNCHANGED wire
      <4>1. reply \in Reply
        BY <3>2 DEF TypeOK
      <4>2. reply' \in Reply /\ reply'.body = "garbled"
        BY <3>2, <4>1, CutReply
      <4> QED BY <3>2, <4>2, NoneAssumption
    <3> QED BY <1>1, <3>1, <3>2 DEF Interfere
  <2>3. OwnKeys'
    BY <2>1, <2>2 DEF WireInv, OwnKeys, claimKeyFor
  <2>4. Genuine' /\ Kept'
    BY <2>1, <2>2 DEF WireInv, Genuine, Kept, claimKeyFor
  <2> QED BY <2>3, <2>4 DEF WireInv
<1>2. CASE GiveUp
  <2>1. call' = None /\ UNCHANGED <<claim, registered, wire, reply, answer, recorded, life>>
    BY <1>2 DEF GiveUp, server, machines
  <2>2. None \notin wire
    BY RequestFacts DEF TypeOK
  <2> QED BY <2>1, <2>2 DEF WireInv, OwnKeys, Genuine, Kept, claimKeyFor
<1>3. CASE \E n \in Nodes : Vanish(n)
  <2>1. /\ UNCHANGED <<claim, wire, call, reply, answer, recorded, life>>
        /\ registered' \subseteq registered
    BY <1>3 DEF Vanish, machines
  <2> QED BY <2>1 DEF WireInv, OwnKeys, Genuine, Kept, claimKeyFor
<1> QED BY <1>1, <1>2, <1>3

\* A claim that returns records the node AuroraBoot holds for the machine.
LEMMA ReturnWire ==
  ASSUME TypeOK, WireInv, ReturnListing \/ ReturnOther \/ ReturnRelease
  PROVE  WireInv'
<1>0. Returned
  BY DEF ReturnListing, ReturnOther, ReturnRelease
<1>1. /\ call \in Request /\ call # None /\ call.m \in Machines /\ reply # None
      /\ last'.verdict = "ok" =>
           /\ reply.status = 200
           /\ reply = answer \/ reply.out = IF Expected(call.op) = "list" THEN <<>> ELSE None
           /\ call.op \notin {"GetCommands", "ListGroups"} => last'.out = reply.out
      /\ UNCHANGED <<claim, registered, wire, reply, answer>> /\ call' = None
  BY <1>0, ReturnFacts, RequestFacts DEF Returned, Decoded
<1>2. None \notin wire /\ \A r \in wire : r.m \in Machines
  BY RequestFacts DEF TypeOK
<1>3. \A m \in Machines : life'[m] = "live" => life[m] = "live"
  BY <1>1 DEF ReturnListing, ReturnOther, ReturnRelease, machines, TypeOK
<1>4. OwnKeys'
  BY <1>1, <1>2, <1>3 DEF WireInv, OwnKeys, claimKeyFor
<1>5. Genuine'
  BY <1>1, <1>2 DEF WireInv, Genuine
<1>6. Kept'
  <2>1. ASSUME NEW m \in Machines, life'[m] = "live", recorded'[m] # None,
               recorded'[m] \in registered
        PROVE  claim[recorded'[m]] = claimKeyFor(m)
    <3>1. CASE recorded'[m] = recorded[m]
      BY <1>3, <2>1, <3>1 DEF WireInv, Kept
    <3>2. CASE recorded'[m] # recorded[m]
      <4>1. call.op = "Claim" /\ last'.verdict = "ok" /\ m = call.m /\ recorded'[m] = last'.out
        BY <3>2 DEF ReturnListing, ReturnOther, ReturnRelease, machines, TypeOK
      <4>2. recorded'[m] = answer.out /\ answer # None /\ answer.status = 200
        BY <1>1, <2>1, <4>1 DEF Expected
      <4> QED BY <1>1, <2>1, <4>1, <4>2 DEF WireInv, Kept, OwnKeys
    <3> QED BY <3>1, <3>2
  <2> QED BY <1>1, <2>1 DEF Kept, claimKeyFor
<1> QED BY <1>4, <1>5, <1>6 DEF WireInv

\* Every step keeps the invariant.
LEMMA WireNext == ASSUME TypeOK, WireInv, [Next]_vars PROVE WireInv'
<1>1. CASE UNCHANGED vars
  BY <1>1 DEF vars, server, machines, WireInv, OwnKeys, Genuine, Kept, claimKeyFor
<1> QED
  BY <1>1, CallWire, ServeClaimWire, ServeReleaseWire, ServeOtherWire, MishapsWire, ReturnWire
  DEF Next

-----------------------------------------------------------------------------
(* The theorems *)

\* Nothing has been called yet.
LEMMA ClientInit == Init => TypeOK /\ WireInv
BY BoundsAssumption, NoneAssumption
DEF Init, TypeOK, WireInv, OwnKeys, Genuine, Kept

\* However requests are given up, delayed, intercepted and retried: the client's
\* and AuroraBoot's state keep their types, a machine presents one key, and what
\* the client takes for AuroraBoot's answer is its answer to this call.
THEOREM WireKept == Spec => []WireInv
<1>1. ASSUME TypeOK, WireInv, [Next]_vars PROVE TypeOK' /\ WireInv'
  BY <1>1, TypeNext, WireNext
<1> QED BY <1>1, ClientInit, PTL DEF Spec

\* The types of the client's state, the wire and AuroraBoot's claims (http.go).
THEOREM ClientTypes == Spec => []TypeOK
<1>1. ASSUME TypeOK, WireInv, [Next]_vars PROVE TypeOK' /\ WireInv'
  BY <1>1, TypeNext, WireNext
<1> QED BY <1>1, ClientInit, PTL DEF Spec

\* A machine holds at most one node, however often its claim is given up and
\* retried and however late the requests are served (Claim, claimKeyFor).
THEOREM MachineHoldsOneNode == Spec => []OneNodePerMachine
<1>1. ASSUME TypeOK, WireInv PROVE OneNodePerMachine
  <2> SUFFICES ASSUME NEW m \in Machines
               PROVE  Cardinality({n \in registered : claim[n] # None /\ claim[n][1] = m}) =< 1
    BY DEF OneNodePerMachine
  <2> DEFINE Held == {n \in registered : claim[n] # None /\ claim[n][1] = m}
  <2>1. registered \subseteq Nodes
    BY <1>1 DEF TypeOK
  <2>2. \A n1, n2 \in Held : n1 = n2
    BY <1>1, <2>1 DEF WireInv, OwnKeys
  <2>3. CASE Held = {}
    BY <2>3, FS_EmptySet
  <2>4. CASE Held # {}
    <3>1. PICK n : Held = {n}
      BY <2>2, <2>4
    <3>2. Cardinality(Held) = 1
      BY <3>1, FS_Singleton, Zenon
    <3> QED BY <3>2
  <2> QED BY <2>3, <2>4
<1> QED BY <1>1, WireKept, ClientTypes, PTL

\* The node a live machine has recorded stays claimed by it, also while releases
\* that other machines gave up on are still under way (Release, reconcileDelete).
THEOREM RecordedStaysHeld == Spec => []RecordedIsHeld
<1>1. ASSUME WireInv PROVE RecordedIsHeld
  BY <1>1, KeyFacts DEF WireInv, Kept, RecordedIsHeld
<1> QED BY <1>1, WireKept, PTL

\* A set of positions that is not empty has a least one.
LEMMA LeastExists ==
  ASSUME NEW I, I \subseteq Nat, I # {}
  PROVE  \E x \in I : \A y \in I : x =< y
<1>1. PICK x \in I : \A y \in I : ~(<<y, x>> \in OpToRel(<, Nat))
  BY WFMin, NatLessThanWellFounded, Zenon
<1>2. ASSUME NEW y \in I, y < x PROVE FALSE
  <2>1. <<y, x>> \in OpToRel(<, Nat)
    BY <1>2 DEF OpToRel
  <2> QED BY <1>1, <2>1
<1>3. x \in Nat /\ \A y \in I : y \in Nat
  OBVIOUS
<1> QED BY <1>2, <1>3

\* It is the one Min names.
LEMMA FirstExists ==
  ASSUME NEW I, I \subseteq Nat, I # {}
  PROVE  Min(I) \in I
BY LeastExists DEF Min

\* ResolveGroupID on any listing: the group of that ID, else the first of that name.
LEMMA GroupResolved ==
  ASSUME NEW l \in GroupLists, NEW ref
  PROVE  LET named == {i \in DOMAIN l : l[i].Name = ref}
         IN  ResolveGroupID(l, ref) =
               IF \E i \in DOMAIN l : l[i].ID = ref THEN ref
               ELSE IF named # {} THEN l[Min(named)].ID
               ELSE None
<1> DEFINE I == {i \in 1..Len(l) : l[i].ID = ref}
           N == {i \in 1..Len(l) : l[i].Name = ref}
<1>1. DOMAIN l = 1..Len(l) /\ Len(l) \in Nat
  <2>1. PICK k \in 0..MaxList : l \in [1..k -> [ID : {"a", "b", "c"}, Name : {"a", "b"}]]
    BY DEF GroupLists, BoundedSeq, SeqOf
  <2>2. k \in Nat
    BY BoundsAssumption
  <2> QED BY <2>1, <2>2
<1>2. I # {} => Min(I) \in I /\ Min(I) # 0
  BY <1>1, FirstExists
<1>3. N # {} => Min(N) \in N /\ Min(N) # 0
  BY <1>1, FirstExists
<1>4. /\ SelectInSeq(l, LAMBDA g : g.ID = ref) = IF I # {} THEN Min(I) ELSE 0
      /\ SelectInSeq(l, LAMBDA g : g.Name = ref) = IF N # {} THEN Min(N) ELSE 0
  BY DEF SelectInSeq
<1>5. {i \in DOMAIN l : l[i].Name = ref} = N /\ ((\E i \in DOMAIN l : l[i].ID = ref) <=> I # {})
  BY <1>1
<1>6. I # {} => l[Min(I)].ID = ref
  BY <1>2
<1> HIDE DEF I, N
<1> QED BY <1>2, <1>3, <1>4, <1>5, <1>6 DEF ResolveGroupID

\* A group reference that is some group's ID means that group, whatever groups are
\* listed before it are called (ResolveGroupID).
THEOREM GroupsResolved == Spec => []ResolvesGroup
<1>1. Init => ResolvesGroup
  BY DEF Init, Listing, ResolvesGroup
<1>2. ASSUME TypeOK, WireInv, ResolvesGroup, [Next]_vars PROVE ResolvesGroup'
  <2>1. CASE UNCHANGED last
    BY <1>2, <2>1 DEF Listing, ResolvesGroup
  <2>2. CASE Returned
    <3>1. /\ last'.call = call /\ last'.reply = reply /\ reply \in Reply /\ call \in Request
          /\ last'.verdict = "ok" =>
               /\ reply.status = 200
               /\ reply = answer \/ reply.out = IF Expected(call.op) = "list" THEN <<>> ELSE None
               /\ call.op = "ListGroups" => last'.out = ResolveGroupID(reply.out, call.key)
      BY <1>2, <2>2, ReturnFacts DEF Decoded
    <3>2. ASSUME last'.verdict = "ok", call.op = "ListGroups" PROVE reply.out \in GroupLists
      BY <1>2, <3>1, <3>2, EmptyLists, NoneAssumption DEF WireInv, Genuine, Expected
    <3>3. CASE last'.verdict = "ok" /\ call.op = "ListGroups"
      <4>0. PICK ref : ref = call.key
        OBVIOUS
      <4>1. PICK l \in GroupLists : l = reply.out
        BY <3>2, <3>3
      <4>2. last'.out = ResolveGroupID(l, ref)
        BY <3>1, <3>3, <4>0, <4>1
      <4>3. LET named == {i \in DOMAIN l : l[i].Name = ref}
            IN  ResolveGroupID(l, ref) =
                  IF \E i \in DOMAIN l : l[i].ID = ref THEN ref
                  ELSE IF named # {} THEN l[Min(named)].ID
                  ELSE None
        BY GroupResolved, Zenon
      <4>4. last'.reply.out = l /\ last'.call.key = ref
        BY <3>1, <4>0, <4>1
      <4> QED BY <4>2, <4>3, <4>4 DEF ResolvesGroup
    <3> QED BY <3>1, <3>3 DEF ResolvesGroup
  <2> QED
    BY <1>2, <2>1, <2>2
    DEF Next, vars, Claim, GetNode, sendCommand, Release, Delete, List, Send, ServeClaim,
        ServeRelease, ServeOther, Answer, Interfere, GiveUp, Vanish, ReturnListing,
        ReturnOther, ReturnRelease
<1> QED BY <1>1, <1>2, WireKept, ClientTypes, PTL DEF Spec

-----------------------------------------------------------------------------
(* The loop of commandState.  The library's induction theorems cannot be     *)
(* instantiated, so both inductions go by a least counterexample.            *)

\* The turns of the loop over a list of any length.
Turns(f, cmds, id, name, n) ==
    f = [i \in 0..n |->
            IF i = 0 THEN None ELSE latestAfter(cmds, id, name, f[i - 1], i)]

\* One more entry means one more turn.
LEMMA OneMoreTurn ==
  ASSUME NEW cmds, NEW id, NEW name, NEW n \in Nat, NEW f, Turns(f, cmds, id, name, n)
  PROVE  \E g : Turns(g, cmds, id, name, n + 1)
<1> DEFINE g == [i \in 0..(n + 1) |->
                    IF i = n + 1 THEN latestAfter(cmds, id, name, f[n], n + 1) ELSE f[i]]
<1>1. ASSUME NEW i \in 0..(n + 1)
      PROVE  g[i] = IF i = 0 THEN None ELSE latestAfter(cmds, id, name, g[i - 1], i)
  <2>1. CASE i = n + 1
    <3>1. g[i] = latestAfter(cmds, id, name, f[n], n + 1) /\ g[i - 1] = f[n] /\ i - 1 = n
      BY <2>1
    <3> QED BY <2>1, <3>1
  <2>2. CASE i # n + 1
    <3>1. i \in 0..n /\ g[i] = f[i] /\ (i # 0 => g[i - 1] = f[i - 1])
      BY <2>2
    <3>2. f[i] = IF i = 0 THEN None ELSE latestAfter(cmds, id, name, f[i - 1], i)
      BY <3>1 DEF Turns
    <3> QED BY <3>1, <3>2
  <2> QED BY <2>1, <2>2
<1>2. Turns(g, cmds, id, name, n + 1)
  BY <1>1 DEF Turns
<1> QED BY <1>2

\* The loop ends, whatever the length of the list.
LEMMA LoopEnds ==
  ASSUME NEW cmds, NEW id, NEW name, NEW n \in Nat
  PROVE  \E f : Turns(f, cmds, id, name, n)
<1> DEFINE Bad == {k \in Nat : ~\E f : Turns(f, cmds, id, name, k)}
<1>1. ASSUME Bad # {} PROVE FALSE
  <2>1. PICK k \in Bad : \A y \in Bad : k =< y
    BY <1>1, LeastExists
  <2>2. CASE k = 0
    <3>1. Turns([i \in 0..0 |-> None], cmds, id, name, 0)
      BY DEF Turns
    <3> QED BY <2>1, <2>2, <3>1
  <2>3. CASE k # 0
    <3>1. k - 1 \in Nat /\ k - 1 \notin Bad /\ (k - 1) + 1 = k
      BY <2>1, <2>3
    <3>2. PICK f : Turns(f, cmds, id, name, k - 1)
      BY <3>1
    <3>3. \E g : Turns(g, cmds, id, name, (k - 1) + 1)
      BY <3>1, <3>2, OneMoreTurn
    <3> QED BY <2>1, <3>1, <3>3
  <2> QED BY <2>2, <2>3
<1> QED BY <1>1

\* commandState returns what the last turn leaves.
LEMMA LoopResult ==
  ASSUME NEW cmds, NEW id, NEW name, Len(cmds) \in Nat
  PROVE  \E f : Turns(f, cmds, id, name, Len(cmds)) /\ commandState(cmds, id, name) = f[Len(cmds)]
<1> DEFINE g == CHOOSE f : f = [i \in 0..Len(cmds) |->
                    IF i = 0 THEN None ELSE latestAfter(cmds, id, name, f[i - 1], i)]
<1>1. Turns(g, cmds, id, name, Len(cmds))
  BY LoopEnds DEF Turns
<1>2. commandState(cmds, id, name) = g[Len(cmds)]
  BY DEF commandState
<1> QED BY <1>1, <1>2

\* What the loop has chosen after i entries: the recorded command, or the last of those
\* without createdAt, or the first of the newest.
Chosen(cmds, id, name, i, x) ==
    IF id # None THEN x = IF id \in 1..i THEN id ELSE None
    ELSE \/ x = None /\ \A j \in 1..i : cmds[j].kind # name
         \/ /\ x \in 1..i /\ cmds[x].kind = name
            /\ \A j \in 1..i : cmds[j].kind = name =>
                 IF cmds[x].createdAt = None
                   THEN cmds[j].createdAt = None => j =< x
                   ELSE /\ cmds[j].createdAt # None
                        /\ cmds[j].createdAt =< cmds[x].createdAt
                        /\ cmds[j].createdAt = cmds[x].createdAt => x =< j

\* A list AuroraBoot sends is a sequence of stamped or unstamped commands.
LEMMA ListFacts ==
  ASSUME NEW l \in CommandLists
  PROVE  /\ Len(l) \in Nat /\ DOMAIN l = 1..Len(l)
         /\ \A i \in 1..Len(l) : l[i].createdAt # None => l[i].createdAt \in Nat
<1> DEFINE Entry == [kind : {"apply", "reboot"}, createdAt : {None} \cup Stamps]
<1>1. PICK k \in 0..MaxList : l \in [1..k -> Entry]
  BY DEF CommandLists, BoundedSeq, SeqOf
<1>2. \A e \in Entry : e.createdAt # None => e.createdAt \in Nat
  BY StampsAssumption
<1>3. k \in Nat
  BY BoundsAssumption
<1> HIDE DEF Entry
<1>4. Len(l) = k /\ DOMAIN l = 1..k
  BY <1>1, <1>3
<1> QED BY <1>1, <1>2, <1>3, <1>4

\* One turn keeps the choice right.
LEMMA TurnChooses ==
  ASSUME NEW l \in CommandLists, NEW id \in {None} \cup Nat, NEW name, NEW i \in 1..Len(l),
         NEW x, Chosen(l, id, name, i - 1, x)
  PROVE  Chosen(l, id, name, i, latestAfter(l, id, name, x, i))
<1>0. /\ Len(l) \in Nat /\ i \in Nat /\ i - 1 \in Nat
      /\ \A j \in 1..Len(l) : l[j].createdAt # None => l[j].createdAt \in Nat
      /\ \A j \in 1..i : j \in 1..Len(l) /\ (j \in 1..(i - 1) \/ j = i)
  BY ListFacts
<1>1. CASE id # None
  BY <1>0, <1>1, NoneAssumption DEF Chosen, latestAfter
<1>2. CASE id = None
  <2>1. CASE l[i].kind # name
    BY <1>0, <1>2, <2>1 DEF Chosen, latestAfter
  <2>2. CASE l[i].kind = name /\ x = None
    <3>1. latestAfter(l, id, name, x, i) = i
      BY <1>2, <2>2 DEF latestAfter
    <3>2. \A j \in 1..(i - 1) : l[j].kind # name
      BY <1>0, <1>2, <2>2, NoneAssumption DEF Chosen
    <3> QED BY <1>0, <1>2, <2>2, <3>1, <3>2 DEF Chosen
  <2>3. CASE l[i].kind = name /\ x # None
    <3>1. x \in 1..(i - 1) /\ l[x].kind = name
      BY <1>2, <2>3 DEF Chosen
    <3>2. CASE l[i].createdAt = None
      <4>1. latestAfter(l, id, name, x, i) = i
        BY <1>2, <2>3, <3>2 DEF latestAfter, newerCommand
      <4> QED BY <1>0, <1>2, <2>3, <3>2, <4>1 DEF Chosen
    <3>3. CASE l[i].createdAt # None /\ l[x].createdAt = None
      <4>1. latestAfter(l, id, name, x, i) = x
        BY <1>2, <2>3, <3>3 DEF latestAfter, newerCommand
      <4> QED BY <1>0, <1>2, <2>3, <3>1, <3>3, <4>1 DEF Chosen
    <3>4. CASE l[i].createdAt # None /\ l[x].createdAt # None
      <4>1. /\ l[i].createdAt \in Nat /\ l[x].createdAt \in Nat
            /\ \A j \in 1..(i - 1) : l[j].kind = name =>
                 /\ l[j].createdAt \in Nat /\ l[j].createdAt # None
                 /\ l[j].createdAt =< l[x].createdAt
                 /\ l[j].createdAt = l[x].createdAt => x =< j
        BY <1>0, <1>2, <2>3, <3>1, <3>4 DEF Chosen
      <4>2. CASE l[i].createdAt > l[x].createdAt
        <5>1. latestAfter(l, id, name, x, i) = i
          BY <1>2, <2>3, <3>4, <4>2 DEF latestAfter, newerCommand
        <5>2. \A j \in 1..i : l[j].kind = name =>
                /\ l[j].createdAt # None /\ l[j].createdAt =< l[i].createdAt
                /\ l[j].createdAt = l[i].createdAt => i =< j
          BY <1>0, <3>4, <4>1, <4>2
        <5> QED BY <1>0, <1>2, <2>3, <3>4, <5>1, <5>2 DEF Chosen
      <4>3. CASE ~(l[i].createdAt > l[x].createdAt)
        <5>1. latestAfter(l, id, name, x, i) = x
          BY <1>2, <2>3, <3>4, <4>3 DEF latestAfter, newerCommand
        <5>2. \A j \in 1..i : l[j].kind = name =>
                /\ l[j].createdAt # None /\ l[j].createdAt =< l[x].createdAt
                /\ l[j].createdAt = l[x].createdAt => x =< j
          BY <1>0, <3>1, <3>4, <4>1, <4>3
        <5> QED BY <1>0, <1>2, <3>1, <3>4, <5>1, <5>2 DEF Chosen
      <4> QED BY <4>2, <4>3
    <3> QED BY <3>2, <3>3, <3>4
  <2> QED BY <2>1, <2>2, <2>3
<1> QED BY <1>1, <1>2

\* So the choice is right at the end of the list.
LEMMA LoopChooses ==
  ASSUME NEW l \in CommandLists, NEW id \in {None} \cup Nat, NEW name
  PROVE  Chosen(l, id, name, Len(l), commandState(l, id, name))
<1>0. Len(l) \in Nat
  BY ListFacts
<1>1. PICK f : /\ Turns(f, l, id, name, Len(l))
               /\ commandState(l, id, name) = f[Len(l)]
  BY <1>0, LoopResult
<1> DEFINE Bad == {k \in 0..Len(l) : ~Chosen(l, id, name, k, f[k])}
<1>2. ASSUME Bad # {} PROVE FALSE
  <2>0. Bad \subseteq Nat
    BY <1>0
  <2>1. PICK k \in Bad : \A y \in Bad : k =< y
    <3> HIDE DEF Bad
    <3> QED BY <1>2, <2>0, LeastExists
  <2>2. f[k] = IF k = 0 THEN None ELSE latestAfter(l, id, name, f[k - 1], k)
    BY <1>1, <2>1 DEF Turns
  <2>3. CASE k = 0
    <3>1. f[0] = None /\ (id # None => id \notin 1..0) /\ \A j \in 1..0 : l[j].kind # name
      BY <2>2, <2>3
    <3>2. Chosen(l, id, name, 0, f[0])
      BY <3>1 DEF Chosen
    <3> QED BY <2>1, <2>3, <3>2
  <2>4. CASE k # 0
    <3>1. k \in 1..Len(l) /\ k - 1 \in 0..Len(l) /\ k - 1 \notin Bad
      BY <1>0, <2>1, <2>4
    <3>2. Chosen(l, id, name, k - 1, f[k - 1])
      BY <3>1
    <3>3. Chosen(l, id, name, k, f[k])
      BY <2>2, <2>4, <3>1, <3>2, TurnChooses
    <3> QED BY <2>1, <3>3
  <2> QED BY <2>3, <2>4
<1>3. Chosen(l, id, name, Len(l), f[Len(l)])
  BY <1>0, <1>2
<1> QED BY <1>1, <1>3

\* The greatest and the least of a set of positions, once known, are Max and Min.
LEMMA Extremes ==
  ASSUME NEW I, I \subseteq Nat, NEW x \in I
  PROVE  /\ (\A y \in I : y =< x) => Max(I) = x
         /\ (\A y \in I : x =< y) => Min(I) = x
<1>0. x \in Nat /\ \A y \in I : y \in Nat
  OBVIOUS
<1>1. ASSUME \A y \in I : y =< x PROVE Max(I) = x
  <2>1. x \in I /\ \A y \in I : x >= y
    BY <1>0, <1>1
  <2>2. PICK z : z = Max(I)
    OBVIOUS
  <2>3. z \in I /\ \A y \in I : z >= y
    BY <2>1, <2>2 DEF Max
  <2>4. z =< x /\ z >= x /\ z \in Nat
    BY <1>0, <1>1, <2>3
  <2> QED BY <1>0, <2>2, <2>4
<1>2. ASSUME \A y \in I : x =< y PROVE Min(I) = x
  <2>1. PICK z : z = Min(I)
    OBVIOUS
  <2>2. z \in I /\ \A y \in I : z =< y
    BY <1>2, <2>1 DEF Min
  <2>3. z =< x /\ x =< z /\ z \in Nat
    BY <1>0, <1>2, <2>2
  <2> QED BY <1>0, <2>1, <2>3
<1> QED BY <1>1, <1>2

\* commandState on any listing, against its description.
LEMMA LatestChosen ==
  ASSUME NEW l \in CommandLists, NEW id \in {None} \cup Nat, NEW name
  PROVE  commandState(l, id, name) = Latest(l, id, name)
<1> DEFINE ofKind == {i \in DOMAIN l : l[i].kind = name}
           unstamped == {i \in ofKind : l[i].createdAt = None}
           newest == {i \in ofKind : \A j \in ofKind : l[j].createdAt =< l[i].createdAt}
           x == commandState(l, id, name)
<1>0. /\ Len(l) \in Nat /\ DOMAIN l = 1..Len(l)
      /\ \A i \in 1..Len(l) : l[i].createdAt # None => l[i].createdAt \in Nat
  BY ListFacts
<1>1. Chosen(l, id, name, Len(l), x)
  BY LoopChooses
<1>2. ofKind \subseteq Nat /\ unstamped \subseteq Nat /\ newest \subseteq Nat
  BY <1>0
<1>3. Latest(l, id, name) =
        IF id # None THEN (IF id \in DOMAIN l THEN id ELSE None)
        ELSE IF ofKind = {} THEN None
        ELSE IF unstamped # {} THEN Max(unstamped)
        ELSE Min(newest)
  BY DEF Latest
<1>4. CASE id # None
  BY <1>0, <1>1, <1>3, <1>4 DEF Chosen
<1>5. CASE id = None /\ x = None
  <2>1. ofKind = {}
    BY <1>0, <1>1, <1>5, NoneAssumption DEF Chosen
  <2> QED BY <1>3, <1>5, <2>1
<1>6. CASE id = None /\ x # None
  <2>1. x \in ofKind
    BY <1>0, <1>1, <1>6 DEF Chosen
  <2>2. CASE l[x].createdAt = None
    <3>1. x \in unstamped /\ \A y \in unstamped : y =< x
      BY <1>0, <1>1, <1>6, <2>1, <2>2 DEF Chosen
    <3>2. Max(unstamped) = x
      <4> HIDE DEF unstamped, x
      <4> QED BY <1>2, <3>1, Extremes
    <3> QED BY <1>3, <1>6, <2>1, <3>1, <3>2
  <2>3. CASE l[x].createdAt # None
    <3>1. \A j \in ofKind : /\ l[j].createdAt # None /\ l[j].createdAt \in Nat
                            /\ l[j].createdAt =< l[x].createdAt
                            /\ l[j].createdAt = l[x].createdAt => x =< j
      BY <1>0, <1>1, <1>6, <2>1, <2>3 DEF Chosen
    <3>2. unstamped = {} /\ x \in newest
      BY <2>1, <3>1
    <3>3. ASSUME NEW y \in newest PROVE x =< y
      <4>1. y \in ofKind /\ l[x].createdAt =< l[y].createdAt
        BY <2>1
      <4>2. l[y].createdAt = l[x].createdAt
        BY <2>1, <3>1, <4>1
      <4> QED BY <3>1, <4>1, <4>2
    <3>4. Min(newest) = x
      <4> HIDE DEF newest, x
      <4> QED BY <1>2, <3>2, <3>3, Extremes
    <3> QED BY <1>3, <1>6, <2>1, <3>2, <3>4
  <2> QED BY <2>2, <2>3
<1> QED BY <1>4, <1>5, <1>6

\* Whatever order AuroraBoot lists a node's commands in, and with or without createdAt,
\* the command that is read is the recorded one, else the latest of its kind
\* (commandState, newerCommand).
THEOREM LatestCommandRead == Spec => []ReadsLatestCommand
<1>1. Init => ReadsLatestCommand
  BY DEF Init, Listing, ReadsLatestCommand
<1>2. ASSUME TypeOK, WireInv, ReadsLatestCommand, [Next]_vars PROVE ReadsLatestCommand'
  <2>1. CASE UNCHANGED last
    BY <1>2, <2>1 DEF Listing, ReadsLatestCommand
  <2>2. CASE Returned
    <3>1. /\ last'.call = call /\ last'.reply = reply /\ reply \in Reply /\ call \in Request
          /\ last'.verdict = "ok" =>
               /\ reply.status = 200
               /\ reply = answer \/ reply.out = IF Expected(call.op) = "list" THEN <<>> ELSE None
               /\ call.op = "GetCommands" =>
                    last'.out = commandState(reply.out, call.key, "apply")
      BY <1>2, <2>2, ReturnFacts DEF Decoded
    <3>2. ASSUME last'.verdict = "ok", call.op = "GetCommands"
          PROVE  reply.out \in CommandLists
      BY <1>2, <3>1, <3>2, EmptyLists, NoneAssumption DEF WireInv, Genuine, Expected
    <3>3. CASE last'.verdict = "ok" /\ call.op = "GetCommands"
      <4>0. PICK id \in {None} \cup Nat : id = call.key
        BY <3>1, <3>3, BoundsAssumption DEF Request
      <4>1. PICK l \in CommandLists : l = reply.out
        BY <3>2, <3>3
      <4>2. last'.out = commandState(l, id, "apply")
        BY <3>1, <3>3, <4>0, <4>1
      <4>3. commandState(l, id, "apply") = Latest(l, id, "apply")
        BY LatestChosen
      <4>4. last'.reply.out = l /\ last'.call.key = id
        BY <3>1, <4>0, <4>1
      <4> QED BY <4>2, <4>3, <4>4 DEF ReadsLatestCommand
    <3> QED BY <3>1, <3>3 DEF ReadsLatestCommand
  <2> QED
    BY <1>2, <2>1, <2>2
    DEF Next, vars, Claim, GetNode, sendCommand, Release, Delete, List, Send, ServeClaim,
        ServeRelease, ServeOther, Answer, Interfere, GiveUp, Vanish, ReturnListing,
        ReturnOther, ReturnRelease
<1> QED BY <1>1, <1>2, WireKept, ClientTypes, PTL DEF Spec

-----------------------------------------------------------------------------
(* Verdicts *)

\* A list with nothing in it names no command and no group.
LEMMA NothingListed ==
  ASSUME NEW key, NEW name
  PROVE  commandState(<<>>, key, name) = None /\ ResolveGroupID(<<>>, key) = None
<1>1. Len(<<>>) = 0 /\ DOMAIN <<>> = {}
  OBVIOUS
<1>2. PICK f : /\ Turns(f, <<>>, key, name, Len(<<>>))
               /\ commandState(<<>>, key, name) = f[Len(<<>>)]
  BY <1>1, LoopResult
<1>3. f[0] = None
  BY <1>1, <1>2 DEF Turns
<1>4. ResolveGroupID(<<>>, key) = None
  BY <1>1, EmptyLists, GroupResolved
<1> QED BY <1>1, <1>2, <1>3, <1>4

\* Whatever page, error or JSON without AuroraBoot's fields a proxy answers, what a call
\* hands back is AuroraBoot's, and so is a "NoCapacity" or a "ClaimMismatch"; no login
\* page, cut body or gateway error is a success, but such JSON can be one that says
\* nothing (do, decodeError, Is...).
THEOREM VerdictsTruthful == Spec => []TruthfulVerdict
<1>1. Init => TruthfulVerdict
  BY DEF Init, TruthfulVerdict
<1>2. ASSUME TypeOK, WireInv, TruthfulVerdict, [Next]_vars PROVE TruthfulVerdict'
  <2>1. CASE UNCHANGED last
    BY <1>2, <2>1 DEF TruthfulVerdict
  <2>2. CASE Returned
    <3>1. /\ last'.call = call /\ last'.answer = answer /\ last'.reply = reply /\ reply \in Reply
          /\ last'.verdict = "ok" =>
               /\ Decoded(reply, call.op)
               /\ reply = answer \/ reply.out = IF Expected(call.op) = "list" THEN <<>> ELSE None
               /\ call.op \notin {"GetCommands", "ListGroups"} => last'.out = reply.out
               /\ call.op = "ListGroups" => last'.out = ResolveGroupID(reply.out, call.key)
               /\ call.op = "GetCommands" =>
                    last'.out = commandState(reply.out, call.key, "apply")
          /\ last'.verdict \in Codes => answer = reply /\ answer.code = last'.verdict
      BY <1>2, <2>2, ReturnFacts
    <3>2. answer = reply => answer # None
      BY <3>1, NoneAssumption
    <3>3. ASSUME last'.verdict = "ok", last'.out # None PROVE reply = answer
      <4>1. CASE call.op = "ListGroups"
        BY <3>1, <3>3, <4>1, NothingListed DEF Expected
      <4>2. CASE call.op = "GetCommands"
        BY <3>1, <3>3, <4>2, NothingListed DEF Expected
      <4>3. CASE call.op \notin {"GetCommands", "ListGroups"}
        BY <3>1, <3>3, <4>3 DEF Expected
      <4> QED BY <4>1, <4>2, <4>3
    <3> QED BY <3>1, <3>2, <3>3 DEF TruthfulVerdict, Codes, Decoded
  <2> QED
    BY <1>2, <2>1, <2>2
    DEF Next, vars, Claim, GetNode, sendCommand, Release, Delete, List, Send, ServeClaim,
        ServeRelease, ServeOther, Answer, Interfere, GiveUp, Vanish, ReturnListing,
        ReturnOther, ReturnRelease
<1> QED BY <1>1, <1>2, WireKept, ClientTypes, PTL DEF Spec
=============================================================================
