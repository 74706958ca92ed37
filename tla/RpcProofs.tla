----------------------------- MODULE RpcProofs -----------------------------
(***************************************************************************)
(* Proofs about module Rpc, for any client threads, session objects,       *)
(* connections and number of attempts.                                     *)
(***************************************************************************)
EXTENDS Rpc, FiniteSetTheorems, TLAPS

Messages == [kind : Kinds, sid : Nat, bad : BOOLEAN, from : Clients, call : Nat]
Replies  == [res : {"ok", "error"}, sid : Nat]

\* The types of the variables, where the count of a session object may still be
\* any number.  (A stop is one of the faults.)
Shape ==
  /\ pc \in [Clients -> {"idle", "send", "read", "return"}]
  /\ kind \in [Clients -> Kinds] /\ obj \in [Clients -> Objects]
  /\ call \in [Clients -> Nat] /\ try \in [Clients -> Nat]
  /\ res \in [Clients -> {"ok", "error", "noresponse"}]
  /\ bad \in [Clients -> BOOLEAN]
  /\ calls \in Nat /\ faults \in Nat /\ calls + faults <= MaxInputs
  /\ sock \in [Clients -> [Objects -> Conns \union {0}]]
  /\ rsid \in [Objects -> Nat] /\ ref \in [Objects -> Int]
  /\ stage \in [Objects -> {"unborn", "new", "listed", "unlisted", "deleted"}]
  /\ cup \in [Conns -> {"up", "closed", "broken"}] /\ sup \in [Conns -> BOOLEAN]
  /\ msg \in [Conns -> Messages \union {NoMsg}]
  /\ reply \in [Conns -> Replies \union {NoReply}]
  /\ ans \in [Conns -> Replies \union {NoReply}]
  /\ serv \in [Conns -> {"unused", "read", "exec", "write", "done"}]
  /\ my_sid \in [Conns -> Nat]
  /\ live \subseteq Sids /\ nextsid \in Sids
  /\ quits \subseteq Sids /\ backlog \subseteq Sids /\ missed \subseteq Sids
  /\ quit \in {"no", "posted", "muxed"} /\ stop \in {"no", "asked", "over"}
  /\ quit # "no" => faults > 0
  /\ done \in [Clients -> Nat]

----------------------------------------------------------------------------
(* Connections and the messages on them. *)

\* What a connection holds goes with the place of its service thread.
ConnOf(k) ==
  /\ serv[k] = "unused" => msg[k] = NoMsg /\ reply[k] = NoReply /\ my_sid[k] = 0
  /\ serv[k] \in {"exec", "write"} => msg[k] # NoMsg
  /\ serv[k] = "done" => msg[k] = NoMsg
  /\ serv[k] = "write" <=> ans[k] # NoReply
  /\ msg[k] # NoMsg => /\ msg[k].call \in 1 .. calls
                       /\ reply[k] = NoReply
                       /\ msg[k].kind = "open" => my_sid[k] = 0
  /\ cup[k] = "up" => serv[k] \notin {"unused", "done"}
  /\ serv[k] = "write" /\ msg[k].kind = "open" /\ ans[k].res # "ok" => ans[k].sid = 0
  /\ stop # "no" => ~sup[k]

\* A socket is of one thread and one session, and quiet unless its thread waits
\* for the reply.
SockOf(c, o) ==
  sock[c][o] # 0 =>
    /\ serv[sock[c][o]] # "unused"
    /\ \A d \in Clients, p \in Objects : sock[d][p] = sock[c][o] => d = c /\ p = o
    /\ ~(pc[c] = "read" /\ obj[c] = o) => msg[sock[c][o]] = NoMsg /\ reply[sock[c][o]] = NoReply

\* The request on connection k is the one thread c waits for.
Mine(c, k) ==
  /\ msg[k].from = c /\ msg[k].call = call[c]
  /\ msg[k].kind = kind[c] /\ msg[k].sid = rsid[obj[c]]

ClientOf(c) ==
  /\ pc[c] = "read" => Conn(c) # 0 /\ (msg[Conn(c)] # NoMsg => Mine(c, Conn(c)))
  /\ pc[c] = "send" /\ kind[c] = "open" => Conn(c) = 0
  /\ pc[c] = "idle" => call[c] = 0 /\ done[c] = 0 /\ try[c] = 0 /\ bad[c] = FALSE
  /\ pc[c] # "idle" => call[c] \in 1 .. calls
  /\ try[c] <= RPC_ATTEMPTS
  /\ pc[c] \in {"send", "read"} \/ (pc[c] = "return" /\ res[c] # "noresponse")
       => try[c] < RPC_ATTEMPTS

\* Nobody has a session of an object before it is opened.
UnbornOf(o) == stage[o] = "unborn" => \A c \in Clients : sock[c][o] = 0

\* No session id is ahead of the daemon's counter.
SidsBelow ==
  /\ \A s \in live : s < nextsid
  /\ \A o \in Objects : rsid[o] < nextsid
  /\ \A k \in Conns : /\ my_sid[k] < nextsid
                      /\ msg[k] # NoMsg => msg[k].sid < nextsid
                      /\ reply[k] # NoReply => reply[k].sid < nextsid
                      /\ ans[k] # NoReply => ans[k].sid < nextsid

WireInv ==
  /\ \A k \in Conns : ConnOf(k)
  /\ \A c \in Clients, o \in Objects : SockOf(c, o)
  /\ \A c \in Clients : ClientOf(c)
  /\ \A o \in Objects : UnbornOf(o)
  /\ SidsBelow

----------------------------------------------------------------------------
(* Session objects. *)

Users(o) == {c \in Clients : pc[c] # "idle" /\ obj[c] = o /\ kind[c] # "open"}
Opening(c) == pc[c] # "idle" /\ kind[c] = "open"

\* The success of the call of c has been decided on, and will be reported.
OkComing(c) ==
  \/ pc[c] = "return" /\ res[c] = "ok"
  \/ pc[c] = "read" /\ reply[Conn(c)] # NoReply /\ reply[Conn(c)].res = "ok"
  \/ pc[c] = "read" /\ serv[Conn(c)] = "write" /\ ans[Conn(c)].res = "ok"

RefOf(o) ==
  /\ stage[o] \in {"unborn", "new"} => Users(o) = {} /\ ref[o] = 0
  /\ stage[o] = "listed" => ref[o] = Cardinality(Users(o))
  /\ stage[o] = "unlisted" => ref[o] = Cardinality(Users(o)) - 1 /\ ref[o] >= 0
  /\ stage[o] = "deleted" => Users(o) = {} /\ ref[o] \in {-1, 0}

\* A new object is known to the one thread that opens it, and saHpiFinalize runs
\* alone.
OpenerOf(c) ==
  /\ Opening(c) => /\ stage[obj[c]] = "new"
                   /\ \A d \in Clients : Opening(d) /\ obj[d] = obj[c] => d = c
  /\ pc[c] # "idle" /\ kind[c] = "finalize" =>
       stage[obj[c]] = "listed" /\ \A d \in Clients : d # c => pc[d] = "idle"

\* One close of a session succeeds.
ClosingOk(c) == kind[c] = "close" /\ OkComing(c)
CloseOf(c) ==
  ClosingOk(c) =>
    /\ stage[obj[c]] = "listed" /\ rsid[obj[c]] \notin live
    /\ \A d \in Clients : ClosingOk(d) /\ obj[d] = obj[c] => d = c
GoneOf(o) == stage[o] = "unlisted" => rsid[o] \notin live

ObjectInv ==
  /\ \A o \in Objects : RefOf(o) /\ GoneOf(o)
  /\ \A c \in Clients : OpenerOf(c) /\ CloseOf(c)

----------------------------------------------------------------------------
(* Executions. *)

\* Connections with a request of the call of c that was not executed yet.
Pending(c) ==
  {k \in Conns : /\ serv[k] \in {"read", "exec"} /\ msg[k] # NoMsg
                 /\ msg[k].from = c /\ msg[k].call = call[c]}

Sent(c) == try[c] + (IF pc[c] = "read" \/ (pc[c] = "return" /\ res[c] # "noresponse")
                     THEN 1 ELSE 0)

DoneOf(c) ==
  /\ done[c] + Cardinality(Pending(c)) <= Sent(c)
  /\ OkComing(c) => done[c] >= 1
DoneInv == \A c \in Clients : DoneOf(c)

----------------------------------------------------------------------------
(* Sessions of the daemon. *)

\* A session the client knows of has a service thread that will close it.
Owned(s) == s \in live => \E k \in Conns : my_sid[k] = s
ReplyOwned(c) ==
  pc[c] = "read" /\ kind[c] = "open" /\ reply[Conn(c)] # NoReply =>
    (reply[Conn(c)].sid \in live => my_sid[Conn(c)] = reply[Conn(c)].sid)
OwnInv ==
  stop = "no" =>
    /\ \A o \in Objects : Owned(rsid[o])
    /\ \A c \in Clients : ReplyOwned(c)

----------------------------------------------------------------------------
(* As long as no connection broke. *)

\* An object that is being opened has no session yet, and no socket but the one
\* its opener made.
FreshOf(o) ==
  /\ stage[o] = "unborn" => rsid[o] = 0
  /\ stage[o] = "new" => \A c \in Clients : sock[c][o] # 0 => Opening(c) /\ obj[c] = o
FreshInv ==
  /\ \A o \in Objects : FreshOf(o)
  /\ \A c \in Clients : Opening(c) /\ pc[c] # "return" => rsid[obj[c]] = 0

\* The reply that thread c waits for has been made up, and names session s.
Coming(c, s) ==
  /\ pc[c] = "read" /\ kind[c] = "open"
  /\ \/ serv[Conn(c)] = "write" /\ ans[Conn(c)].sid = s
     \/ reply[Conn(c)] # NoReply /\ reply[Conn(c)].sid = s

\* The session that object o has, or is about to get from an open.
Carries(o, s) == rsid[o] = s \/ \E c \in Clients : obj[c] = o /\ Coming(c, s)

\* Nothing is lost and nothing is given up.
CalmConn(k) ==
  /\ cup[k] # "broken"
  /\ serv[k] \in {"read", "exec", "write"} => sup[k] /\ cup[k] = "up"
  /\ msg[k] # NoMsg => /\ msg[k].bad = FALSE
                       /\ pc[msg[k].from] = "read" /\ Conn(msg[k].from) = k
CalmClient(c) ==
  /\ bad[c] = FALSE
  /\ pc[c] = "read" => msg[Conn(c)] # NoMsg \/ reply[Conn(c)] # NoReply
\* An open that succeeds yields an open session.
CalmOpen(c) ==
  kind[c] = "open" /\ OkComing(c) =>
    /\ pc[c] = "return" => rsid[obj[c]] \in live
    /\ \A s \in Nat : Coming(c, s) => s \in live
\* The service thread of a socket owns the session the socket is for.
CalmSock(c, o) ==
  sock[c][o] # 0 /\ my_sid[sock[c][o]] # 0 =>
    \/ my_sid[sock[c][o]] = rsid[o]
    \/ /\ pc[c] = "read" /\ kind[c] = "open" /\ obj[c] = o
       /\ reply[sock[c][o]] # NoReply /\ reply[sock[c][o]].sid = my_sid[sock[c][o]]
\* Only a close ends the session of a listed object.
CalmObject(o) ==
  stage[o] = "listed" /\ rsid[o] \notin live =>
    \E c \in Clients : OkComing(c) /\ kind[c] \in {"close", "finalize"} /\ obj[c] = o
\* No two objects get the same session.
CarriedOnce ==
  \A o, p \in Objects, s \in Sids : Carries(o, s) /\ Carries(p, s) => o = p

Calm ==
  /\ \A k \in Conns : CalmConn(k)
  /\ \A c \in Clients : CalmClient(c) /\ CalmOpen(c)
  /\ \A c \in Clients, o \in Objects : CalmSock(c, o)
  /\ \A o \in Objects : CalmObject(o)
  /\ CarriedOnce
CalmInv == faults = 0 /\ stop = "no" => Calm

----------------------------------------------------------------------------
(* What the steps of one side leave alone on the other. *)

USE RpcAssumption

\* The steps of a client thread that begin or advance a call.
Calls(c, o) == \/ SessOpen(c, o) \/ SessFinalize(c, o)
               \/ \E k \in {"close", "call", "get"} : SessCall(c, k, o)
Serves(k)   == Break(k) \/ Notice(k) \/ ServStep(k) \/ ExecGetEvent(k)
Stops       == PostQuit \/ StopStep \/ UNCHANGED vars

\* A call begins with a thread that was idle, and touches no connection.
LEMMA CallsBegin ==
  ASSUME NEW c \in Clients, NEW o \in Objects, Calls(c, o)
  PROVE  \E x \in Kinds :
           /\ Begin(c, x, o) /\ rsid' = rsid
           /\ \/ /\ x = "open" /\ stage[o] = "unborn"
                 /\ stage' = [stage EXCEPT ![o] = "new"] /\ ref' = ref
              \/ /\ x # "open" /\ stage[o] = "listed"
                 /\ ref' = [ref EXCEPT ![o] = @ + 1] /\ stage' = stage
                 /\ x = "finalize" => \A d \in Clients : pc[d] = "idle"
BY DEF Calls, SessOpen, SessFinalize, SessCall, Kinds

\* The network and the service threads touch nothing of the client.
LEMMA ServesKeep ==
  ASSUME NEW k \in Conns, Serves(k)
  PROVE  UNCHANGED <<client, sock, table>>
BY DEF Serves, Break, Notice, ServStep, ServRead, ServReadFails, ServWrite, ServWriteEnd, Reached,
       ExecOpen, ExecClose, CloseSession, ExecCall, ExecBad, ExecGetEvent, ExecGetHeld, ExecGetEnd,
       Answer, client, table, wire, daemon, queues

\* Stopping the daemon touches its sockets and the queues of its sessions.
LEMMA StopsKeep ==
  ASSUME Stops
  PROVE  UNCHANGED <<client, sock, table, msg, reply, serv, my_sid, ans, live, nextsid, done>>
BY DEF Stops, RequestStop, StopStep, PostQuit, MuxQuit, ServerRunEnds, vars, client, table, wire,
       daemon, queues

\* Every step is one of these.
LEMMA StepKinds ==
  ASSUME [Next]_vars
  PROVE  \/ \E c \in Clients, o \in Objects : Calls(c, o)
         \/ \E c \in Clients : ClientStep(c)
         \/ \E k \in Conns : Serves(k)
         \/ Stops
BY DEF Next, Calls, Serves, Stops

\* Every way process_msg can answer the request on connection k.
Executes(k) == \/ ExecOpen(k) \/ ExecClose(k) \/ ExecCall(k) \/ ExecBad(k)
               \/ ExecGetEvent(k) \/ ExecGetHeld(k) \/ ExecGetEnd(k)

\* What an answer says of the request: a success of an open names the new session,
\* a success of a close means that the session was open and is no longer.
Answers(k, r, s) ==
  /\ Answer(k, r, s) /\ s < nextsid'
  /\ \/ /\ r = "ok" /\ msg[k].kind = "open" /\ s = nextsid
        /\ nextsid' = nextsid + 1 /\ live' = live \union {nextsid}
     \/ /\ msg[k].kind \in {"close", "finalize"} /\ nextsid' = nextsid
        /\ live' = live \ {msg[k].sid} /\ (r = "ok" <=> msg[k].sid \in live)
     \/ /\ r = "error" /\ s = 0 /\ msg[k].bad /\ nextsid' = nextsid /\ live' = live
     \/ /\ msg[k].kind \in {"call", "get"} /\ nextsid' = nextsid /\ live' = live

\* A request that was read is executed in one of these ways.
LEMMA ExecutesAnswers ==
  ASSUME Shape, WireInv, NEW k \in Conns, Executes(k)
  PROVE  /\ serv[k] = "exec" /\ msg[k] \in Messages
         /\ \E r \in {"ok", "error"}, s \in Nat : Answers(k, r, s)
<1>1. serv[k] = "exec"
  BY DEF Executes, ExecOpen, ExecClose, CloseSession, ExecCall, ExecBad, ExecGetEvent, ExecGetHeld,
         ExecGetEnd
<1>2. msg[k] \in Messages /\ msg[k].sid \in Nat /\ msg[k].sid < nextsid /\ nextsid \in Nat /\ 0 < nextsid
  BY <1>1 DEF WireInv, ConnOf, SidsBelow, Shape, Messages, Sids
<1>3. CASE ExecOpen(k)
  <2>1. Answers(k, "ok", nextsid)
    BY <1>2, <1>3 DEF ExecOpen, Answers
  <2> QED  BY <1>1, <1>2, <2>1
<1>4. CASE ExecClose(k)
  <2>1. Answers(k, Verdict(k), msg[k].sid) /\ Verdict(k) \in {"ok", "error"}
    BY <1>2, <1>4 DEF ExecClose, CloseSession, Answers, Verdict
  <2> QED  BY <1>1, <1>2, <2>1
<1>5. CASE ExecCall(k)
  <2>1. Answers(k, Verdict(k), msg[k].sid) /\ Verdict(k) \in {"ok", "error"}
    BY <1>2, <1>5 DEF ExecCall, Answers, Verdict
  <2> QED  BY <1>1, <1>2, <2>1
<1>6. CASE ExecBad(k)
  <2>1. Answers(k, "error", 0)
    BY <1>2, <1>6 DEF ExecBad, Answers
  <2> QED  BY <1>1, <1>2, <2>1
<1>7. CASE ExecGetEvent(k)
  <2>1. Answers(k, "ok", msg[k].sid) \/ Answers(k, "error", msg[k].sid)
    BY <1>2, <1>7 DEF ExecGetEvent, Answers
  <2> QED  BY <1>1, <1>2, <2>1
<1>8. CASE ExecGetEnd(k)
  <2>1. Answers(k, "error", msg[k].sid)
    BY <1>2, <1>8 DEF ExecGetEnd, Answers
  <2> QED  BY <1>1, <1>2, <2>1
<1>9. CASE ExecGetHeld(k)
  <2>1. Answers(k, "ok", msg[k].sid)
    BY <1>2, <1>9 DEF ExecGetHeld, Answers
  <2> QED  BY <1>1, <1>2, <2>1
<1> QED  BY <1>3, <1>4, <1>5, <1>6, <1>7, <1>8, <1>9 DEF Executes

----------------------------------------------------------------------------
(* Types. *)

\* A client thread keeps the types.
LEMMA ShapeClient ==
  ASSUME Shape, WireInv, NEW c \in Clients, NEW o \in Objects,
         Calls(c, o) \/ ClientStep(c)
  PROVE  Shape'
<1> USE DEF client, table, wire, daemon, queues, Shape
<1>1. CASE SessOpen(c, o)
  BY <1>1 DEF SessOpen, Begin, Kinds
<1>2. CASE SessFinalize(c, o)
  BY <1>2 DEF SessFinalize, SessCall, Begin, Kinds
<1>3. CASE \E k \in {"close", "call", "get"} : SessCall(c, k, o)
  BY <1>3 DEF SessCall, Begin, Kinds
<1>4. CASE Write(c)
  <2>1. Conn(c) \in Conns
    BY <1>4 DEF Write, Conn
  <2>2. [kind |-> kind[c], sid |-> rsid[obj[c]], bad |-> bad[c], from |-> c, call |-> call[c]] \in Messages
    BY DEF Messages
  <2> QED  BY <1>4, <2>1, <2>2 DEF Write, Send
<1>5. CASE Connect(c)
  <2>2. [kind |-> kind[c], sid |-> rsid[obj[c]], bad |-> bad[c], from |-> c, call |-> call[c]] \in Messages
    BY DEF Messages
  <2> PICK k \in Conns :
       /\ sock' = [sock EXCEPT ![c][obj[c]] = k]
       /\ cup' = [cup EXCEPT ![k] = "up"]
       /\ sup' = [sup EXCEPT ![k] = TRUE]
       /\ serv' = [serv EXCEPT ![k] = "read"]
       /\ Send(c, k)
    BY <1>5 DEF Connect
  <2> QED  BY <1>5, <2>2 DEF Send
<1>6. CASE ConnectFails(c)
  BY <1>6 DEF ConnectFails, Finish
<1>7. CASE Read(c)
  <2>1. Conn(c) \in Conns
    BY <1>7 DEF Read, Conn, WireInv, ClientOf
  <2>2. reply[Conn(c)] \in Replies
    BY <1>7, <2>1 DEF Read
  <2>3. reply[Conn(c)].res \in {"ok", "error"} /\ reply[Conn(c)].sid \in Nat
    BY <2>2 DEF Replies
  <2> QED  BY <1>7, <2>1, <2>3 DEF Read, Finish
<1>8. CASE Retry(c)
  <2>1. Conn(c) \in Conns
    BY <1>8 DEF Retry, Conn, WireInv, ClientOf
  <2>2. bad' \in [Clients -> BOOLEAN]
    BY <1>8 DEF Retry
  <2>3. pc' \in [Clients -> {"idle", "send", "read", "return"}]
        /\ res' \in [Clients -> {"ok", "error", "noresponse"}]
    BY <1>8 DEF Retry, Finish
  <2>4. reply' \in [Conns -> Replies \union {NoReply}] /\ try' \in [Clients -> Nat]
    BY <1>8, <2>1 DEF Retry
  <2>5. sock' \in [Clients -> [Objects -> Conns \union {0}]]
    BY <1>8 DEF Retry
  <2> QED  BY <1>8, <2>2, <2>3, <2>4, <2>5 DEF Retry
<1>9. CASE Return(c)
  <2>1. ref' \in [Objects -> Int]
        /\ stage' \in [Objects -> {"unborn", "new", "listed", "unlisted", "deleted"}]
    <3>1. CASE kind[c] = "open"
      BY <1>9, <3>1 DEF Return
    <3>2. CASE kind[c] # "open"
      <4> DEFINE closed == kind[c] = "finalize" \/ (kind[c] = "close" /\ res[c] = "ok")
      <4>1. Unref(obj[c], closed)
        BY <1>9, <3>2 DEF Return
      <4>2. PICK n \in Int : n = ref[obj[c]] - (IF closed THEN 2 ELSE 1)
        OBVIOUS
      <4> QED  BY <4>1, <4>2 DEF Unref
    <3> QED  BY <3>1, <3>2
  <2>2. /\ pc' \in [Clients -> {"idle", "send", "read", "return"}]
        /\ kind' \in [Clients -> Kinds] /\ call' \in [Clients -> Nat] /\ try' \in [Clients -> Nat]
        /\ res' \in [Clients -> {"ok", "error", "noresponse"}]
        /\ bad' \in [Clients -> BOOLEAN] /\ done' \in [Clients -> Nat]
    BY <1>9 DEF Return, Kinds
  <2> QED  BY <1>9, <2>1, <2>2 DEF Return
<1> QED  BY <1>1, <1>2, <1>3, <1>4, <1>5, <1>6, <1>7, <1>8, <1>9 DEF Calls, ClientStep

\* A service thread keeps the types.
LEMMA ShapeServ ==
  ASSUME Shape, WireInv, NEW k \in Conns,
         Serves(k)
  PROVE  Shape'
<1> USE DEF client, table, wire, daemon, queues, Shape, Closed, End, CloseSession
<1>1. CASE Break(k)
  BY <1>1 DEF Break
<1>2. CASE Notice(k)
  BY <1>2 DEF Notice
<1>3. CASE ServRead(k)
  BY <1>3 DEF ServRead
<1>4. CASE ServReadFails(k)
  BY <1>4 DEF ServReadFails
<1>5. CASE ServWrite(k)
  <2>1. ans[k] \in Replies /\ ans[k].sid \in Nat
    BY <1>5 DEF ServWrite, WireInv, ConnOf, Replies
  <2>2. reply' \in [Conns -> Replies \union {NoReply}] /\ ans' \in [Conns -> Replies \union {NoReply}]
        /\ msg' \in [Conns -> Messages \union {NoMsg}]
    BY <1>5, <2>1 DEF ServWrite, Reached
  <2>3. my_sid' \in [Conns -> Nat]
    BY <1>5, <2>1 DEF ServWrite
  <2> QED  BY <1>5, <2>2, <2>3 DEF ServWrite, Reached
<1>6. CASE ServWriteEnd(k)
  BY <1>6 DEF ServWriteEnd, Reached
<1>7. ASSUME serv[k] = "exec"
      PROVE  msg[k] # NoMsg /\ msg[k].from \in Clients /\ msg[k].sid \in Nat /\ msg[k].sid < nextsid
  BY <1>7 DEF WireInv, ConnOf, SidsBelow, Messages
<1>8. ASSUME NEW r \in {"ok", "error"}, NEW s \in Nat, Answer(k, r, s), serv[k] = "exec"
      PROVE  /\ serv' \in [Conns -> {"unused", "read", "exec", "write", "done"}]
             /\ ans' \in [Conns -> Replies \union {NoReply}]
             /\ done' \in [Clients -> Nat]
  <2>1. Reply(r, s) \in Replies
    BY DEF Reply, Replies
  <2> QED  BY <1>7, <1>8, <2>1 DEF Answer
<1>9. CASE ExecOpen(k)
  <2>1. nextsid \in Nat /\ nextsid + 1 \in Sids
    BY DEF Sids
  <2>2. Answer(k, "ok", nextsid) /\ serv[k] = "exec"
    BY <1>9 DEF ExecOpen
  <2>3. /\ serv' \in [Conns -> {"unused", "read", "exec", "write", "done"}]
        /\ ans' \in [Conns -> Replies \union {NoReply}]
        /\ done' \in [Clients -> Nat]
    BY <1>8, <2>1, <2>2
  <2> QED  BY <1>9, <2>1, <2>3 DEF ExecOpen, Answer
<1>10. CASE ExecClose(k)
  BY <1>10, <1>7, <1>8 DEF ExecClose, CloseSession, Answer, Verdict
<1>11. CASE ExecCall(k)
  BY <1>11, <1>7, <1>8 DEF ExecCall, Answer, Verdict
<1>12. CASE ExecBad(k)
  BY <1>12, <1>7, <1>8 DEF ExecBad, Answer
<1>13. CASE ExecGetEvent(k)
  BY <1>13, <1>7, <1>8 DEF ExecGetEvent, Answer
<1>14. CASE ExecGetHeld(k)
  BY <1>14, <1>7, <1>8 DEF ExecGetHeld, Answer
<1>15. CASE ExecGetEnd(k)
  <2>1. Answer(k, "error", msg[k].sid) /\ serv[k] = "exec"
    BY <1>15 DEF ExecGetEnd
  <2>2. /\ serv' \in [Conns -> {"unused", "read", "exec", "write", "done"}]
        /\ ans' \in [Conns -> Replies \union {NoReply}]
        /\ done' \in [Clients -> Nat]
    BY <1>7, <1>8, <2>1
  <2>3. quits' \subseteq Sids /\ missed' \subseteq Sids
    BY <1>7, <1>15 DEF ExecGetEnd
  <2> QED  BY <1>15, <2>2, <2>3 DEF ExecGetEnd, Answer
<1> QED  BY <1>1, <1>2, <1>3, <1>4, <1>5, <1>6, <1>9, <1>10, <1>11, <1>12, <1>13,
    <1>14, <1>15 DEF Serves, ServStep

\* The stop keeps the types.
LEMMA ShapeStop ==
  ASSUME Shape, Stops
  PROVE  Shape'
<1> USE DEF client, table, wire, daemon, queues, Shape, Closed
<1>1. CASE RequestStop
  BY <1>1 DEF RequestStop
<1>2. CASE PostQuit
  BY <1>2 DEF PostQuit
<1>3. CASE MuxQuit
  BY <1>3 DEF MuxQuit
<1>4. CASE ServerRunEnds
  BY <1>4 DEF ServerRunEnds
<1>5. CASE UNCHANGED vars
  BY <1>5 DEF vars
<1> QED  BY <1>1, <1>2, <1>3, <1>4, <1>5 DEF Stops, StopStep

----------------------------------------------------------------------------
(* Connections. *)

\* What a client thread does to a connection.
LEMMA ConnClient ==
  ASSUME Shape, WireInv, NEW c \in Clients, NEW o \in Objects,
         Calls(c, o) \/ ClientStep(c),
         NEW j \in Conns
  PROVE  ConnOf(j)'
<1> USE DEF client, table, wire, daemon, queues, ConnOf, NoMsg, NoReply
<1>0. ConnOf(j)
  BY DEF WireInv
<1> CASE calls' = calls + 1 /\ UNCHANGED <<wire, daemon>>
  BY <1>0 DEF Shape, Messages
<1> CASE UNCHANGED <<wire, daemon, calls>>
  BY <1>0
<1>4. CASE Write(c)
  <2>1. /\ Conn(c) \in Conns /\ kind[c] # "open" /\ call[c] \in 1 .. calls
        /\ msg[Conn(c)] = NoMsg /\ reply[Conn(c)] = NoReply
    BY <1>4 DEF Write, Conn, WireInv, ClientOf, SockOf, Shape
  <2>2. CASE j = Conn(c)
    BY <1>0, <1>4, <2>1, <2>2 DEF Write, Send, Shape
  <2>3. CASE j # Conn(c)
    BY <1>0, <1>4, <2>1, <2>3 DEF Write, Send, Shape
  <2> QED  BY <2>2, <2>3
<1>5. CASE Connect(c)
  <2> PICK k \in Conns :
       /\ serv[k] = "unused"
       /\ sock' = [sock EXCEPT ![c][obj[c]] = k]
       /\ cup' = [cup EXCEPT ![k] = "up"]
       /\ sup' = [sup EXCEPT ![k] = TRUE]
       /\ serv' = [serv EXCEPT ![k] = "read"]
       /\ Send(c, k)
    BY <1>5 DEF Connect
  <2>1. /\ stop = "no" /\ call[c] \in 1 .. calls
    BY <1>5 DEF Connect, WireInv, ClientOf
  <2>2. CASE j = k
    BY <1>0, <2>1, <2>2 DEF Send, Shape
  <2>3. CASE j # k
    BY <1>0, <2>1, <2>3 DEF Send, Shape
  <2> QED  BY <2>2, <2>3
<1>7. CASE Read(c) \/ Retry(c)
  <2>1. Conn(c) \in Conns
    BY <1>7 DEF Read, Retry, Conn, Shape, WireInv, ClientOf
  <2>2. reply' = [reply EXCEPT ![Conn(c)] = NoReply] /\ UNCHANGED <<cup, sup, msg, daemon, calls>>
    BY <1>7 DEF Read, Retry
  <2> QED  BY <1>0, <2>1, <2>2 DEF Shape
<1> QED  BY <1>4, <1>5, <1>7
     DEF Calls, SessOpen, SessFinalize, SessCall, Begin, ClientStep, ConnectFails, Return

\* What a service thread does to a connection.
LEMMA ConnServ ==
  ASSUME Shape, WireInv, NEW k \in Conns,
         Serves(k),
         NEW j \in Conns
  PROVE  ConnOf(j)'
<1> USE DEF client, table, wire, daemon, queues
<1>0. ConnOf(j) /\ ConnOf(k)
  BY DEF WireInv
<1>1. CASE Break(k)
  BY <1>0, <1>1 DEF Break, Shape, ConnOf, NoMsg
<1>2. CASE Notice(k)
  BY <1>0, <1>2 DEF Notice, Shape, ConnOf
<1>3. CASE ServRead(k)
  BY <1>0, <1>3 DEF ServRead, Shape, ConnOf
<1>4. CASE ServReadFails(k)
  BY <1>0, <1>4 DEF ServReadFails, End, CloseSession, Closed, Shape, ConnOf
<1>5. CASE ServWrite(k)
  <2>1. CASE j = k
    BY <1>0, <1>5, <2>1 DEF ServWrite, Reached, Shape, ConnOf
  <2>2. CASE j # k
    BY <1>0, <1>5, <2>2 DEF ServWrite, Reached, Shape, ConnOf
  <2> QED  BY <2>1, <2>2
<1>6. CASE ServWriteEnd(k)
  <2>1. CASE j = k
    BY <1>0, <1>6, <2>1 DEF ServWriteEnd, Reached, End, CloseSession, Closed, Shape, ConnOf
  <2>2. CASE j # k
    BY <1>0, <1>6, <2>2 DEF ServWriteEnd, Reached, End, CloseSession, Closed, Shape, ConnOf
  <2> QED  BY <2>1, <2>2
<1>7. ASSUME NEW r \in {"ok", "error"}, NEW s \in Nat, Answer(k, r, s), serv[k] = "exec",
             msg[k].kind = "open" /\ r # "ok" => s = 0
      PROVE  ConnOf(j)'
  <2>1. CASE j = k
    <3>1. ans'[k] = Reply(r, s) /\ Reply(r, s) # NoReply /\ Reply(r, s).res = r /\ Reply(r, s).sid = s
      BY <1>7 DEF Answer, Shape, Reply, NoReply
    <3> QED  BY <1>0, <1>7, <2>1, <3>1 DEF Answer, Shape, ConnOf
  <2>2. CASE j # k
    BY <1>0, <1>7, <2>2 DEF Answer, Shape, ConnOf
  <2> QED  BY <2>1, <2>2
<1>8. serv[k] = "exec" => msg[k].sid \in Nat
  BY <1>0 DEF ConnOf, Shape, Messages
<1>9. CASE ExecOpen(k)
  BY <1>7, <1>9 DEF ExecOpen, Shape, Sids
<1>10. CASE ExecClose(k)
  BY <1>7, <1>8, <1>10 DEF ExecClose, CloseSession, Verdict
<1>11. CASE ExecCall(k)
  BY <1>7, <1>8, <1>11 DEF ExecCall, Verdict
<1>12. CASE ExecBad(k)
  BY <1>7, <1>12 DEF ExecBad
<1>13. CASE ExecGetEvent(k)
  BY <1>7, <1>8, <1>13 DEF ExecGetEvent
<1>14. CASE ExecGetHeld(k)
  BY <1>7, <1>8, <1>14 DEF ExecGetHeld
<1>15. CASE ExecGetEnd(k)
  BY <1>7, <1>8, <1>15 DEF ExecGetEnd
<1> QED  BY <1>1, <1>2, <1>3, <1>4, <1>5, <1>6, <1>9, <1>10, <1>11, <1>12, <1>13,
    <1>14, <1>15 DEF Serves, ServStep

\* What the stop does to a connection.
LEMMA ConnStop ==
  ASSUME Shape, WireInv, Stops,
         NEW j \in Conns
  PROVE  ConnOf(j)'
<1> USE DEF client, table, wire, daemon, queues, ConnOf
<1>0. ConnOf(j)
  BY DEF WireInv
<1>1. CASE RequestStop
  BY <1>0, <1>1 DEF RequestStop, Closed, Shape
<1>2. CASE PostQuit
  BY <1>0, <1>2 DEF PostQuit
<1>3. CASE MuxQuit
  BY <1>0, <1>3 DEF MuxQuit
<1>4. CASE ServerRunEnds
  BY <1>0, <1>4 DEF ServerRunEnds
<1>5. CASE UNCHANGED vars
  BY <1>0, <1>5 DEF vars
<1> QED  BY <1>1, <1>2, <1>3, <1>4, <1>5 DEF Stops, StopStep

----------------------------------------------------------------------------
(* Sockets. *)

\* A request is answered on its own connection: what is there is quiet before
\* the thread that has the socket writes, and while the reply is on its way.
LEMMA SockClient ==
  ASSUME Shape, WireInv, NEW c \in Clients, NEW o \in Objects,
         Calls(c, o) \/ ClientStep(c),
         NEW d \in Clients, NEW p \in Objects
  PROVE  SockOf(d, p)'
<1> USE DEF client, table, wire, daemon, queues
<1>0. SockOf(d, p)
  BY DEF WireInv
<1>1. CASE /\ pc[c] = "idle" /\ pc' = [pc EXCEPT ![c] = "send"]
           /\ obj' = [obj EXCEPT ![c] = o] /\ UNCHANGED <<sock, wire, daemon>>
  BY <1>0, <1>1 DEF SockOf, Shape
<1>2. CASE /\ pc[c] # "read" /\ UNCHANGED <<obj, sock, wire, daemon>>
           /\ \E x \in {"return", "idle"} : pc' = [pc EXCEPT ![c] = x]
  BY <1>0, <1>2 DEF SockOf, Shape
<1>4. CASE Write(c)
  <2>1. /\ Conn(c) \in Conns /\ Conn(c) = sock[c][obj[c]] /\ obj[c] \in Objects
    BY <1>4 DEF Write, Conn, Shape
  <2>2. CASE d = c /\ p = obj[c]
    BY <1>0, <1>4, <2>1, <2>2 DEF Write, Send, Shape, SockOf
  <2>3. CASE ~(d = c /\ p = obj[c])
    BY <1>0, <1>4, <2>1, <2>3 DEF Write, Send, Shape, SockOf
  <2> QED  BY <2>2, <2>3
<1>5. CASE Connect(c)
  <2> PICK k \in Conns :
       /\ serv[k] = "unused"
       /\ sock' = [sock EXCEPT ![c][obj[c]] = k]
       /\ cup' = [cup EXCEPT ![k] = "up"]
       /\ sup' = [sup EXCEPT ![k] = TRUE]
       /\ serv' = [serv EXCEPT ![k] = "read"]
       /\ Send(c, k)
    BY <1>5 DEF Connect
  <2>1. k # 0 /\ \A a \in Clients, b \in Objects : sock[a][b] # k
    BY DEF WireInv, SockOf, Conns
  <2>4. /\ sock'[c][obj[c]] = k
        /\ \A a \in Clients, b \in Objects : ~(a = c /\ b = obj[c]) => sock'[a][b] = sock[a][b]
    BY DEF Shape
  <2>2. CASE d = c /\ p = obj[c]
    BY <1>5, <2>1, <2>2, <2>4 DEF Send, Shape, SockOf
  <2>3. CASE ~(d = c /\ p = obj[c])
    BY <1>0, <1>5, <2>1, <2>3, <2>4 DEF Send, Shape, SockOf
  <2> QED  BY <2>2, <2>3
<1>7. CASE Read(c)
  <2>1. Conn(c) \in Conns /\ Conn(c) = sock[c][obj[c]] /\ ConnOf(Conn(c))
    BY <1>7 DEF Read, Conn, Shape, WireInv, ClientOf
  <2>2. msg[Conn(c)] = NoMsg
    BY <1>7, <2>1 DEF Read, ConnOf
  <2> QED  BY <1>0, <1>7, <2>1, <2>2 DEF Read, Finish, Shape, SockOf
<1>8. CASE Retry(c)
  <2>1. Conn(c) \in Conns /\ Conn(c) = sock[c][obj[c]]
    BY <1>8 DEF Retry, Conn, Shape, WireInv, ClientOf
  <2>2. /\ sock' = [sock EXCEPT ![c][obj[c]] = 0]
        /\ reply' = [reply EXCEPT ![Conn(c)] = NoReply]
        /\ \E x \in {"send", "return"} : pc' = [pc EXCEPT ![c] = x]
        /\ UNCHANGED <<obj, msg, daemon>>
    BY <1>8 DEF Retry, Finish
  <2>4. /\ sock'[c][obj[c]] = 0
        /\ \A a \in Clients, b \in Objects : ~(a = c /\ b = obj[c]) => sock'[a][b] = sock[a][b]
    BY <2>2 DEF Shape
  <2>5. CASE d = c /\ p = obj[c]
    BY <2>4, <2>5 DEF SockOf
  <2>6. CASE ~(d = c /\ p = obj[c])
    BY <1>0, <2>1, <2>2, <2>4, <2>6 DEF Shape, SockOf
  <2> QED  BY <2>5, <2>6
<1>9. CASE SessOpen(c, o) \/ SessFinalize(c, o) \/ \E k \in {"close", "call", "get"} : SessCall(c, k, o)
  BY <1>1, <1>9 DEF SessOpen, SessFinalize, SessCall, Begin
<1>10. CASE ConnectFails(c) \/ Return(c)
  BY <1>2, <1>10 DEF ConnectFails, Return, Finish
<1> QED  BY <1>4, <1>5, <1>7, <1>8, <1>9, <1>10 DEF Calls, ClientStep

\* Service threads leave the sockets of the clients in order.
LEMMA SockServ ==
  ASSUME Shape, WireInv, NEW k \in Conns,
         Serves(k),
         NEW d \in Clients, NEW p \in Objects
  PROVE  SockOf(d, p)'
<1> USE DEF client, table, wire, daemon, queues
<1>0. SockOf(d, p) /\ ConnOf(k)
  BY DEF WireInv
<1>1. CASE Break(k)
  BY <1>0, <1>1 DEF Break, Shape, SockOf
<1>2. CASE Notice(k)
  BY <1>0, <1>2 DEF Notice, Shape, SockOf
<1>3. CASE ServRead(k)
  BY <1>0, <1>3 DEF ServRead, Shape, SockOf
<1>4. CASE ServReadFails(k)
  BY <1>0, <1>4 DEF ServReadFails, End, CloseSession, Shape, SockOf
<1>5. CASE ServWrite(k) \/ ServWriteEnd(k)
  <2>1. /\ UNCHANGED <<sock, pc, obj>> /\ msg' = [msg EXCEPT ![k] = NoMsg]
        /\ \E x \in {"read", "done"} : serv' = [serv EXCEPT ![k] = x]
        /\ \A j \in Conns : j # k => reply'[j] = reply[j]
        /\ msg[k] # NoMsg
    BY <1>0, <1>5 DEF ServWrite, ServWriteEnd, Reached, End, CloseSession, Shape, ConnOf
  <2> QED  BY <1>0, <2>1 DEF Shape, SockOf
<1>6. CASE serv' = [serv EXCEPT ![k] = "write"] /\ UNCHANGED <<client, sock, wire>>
  BY <1>0, <1>6 DEF Shape, SockOf
<1> QED  BY <1>1, <1>2, <1>3, <1>4, <1>5, <1>6
     DEF Serves, ServStep, ExecOpen, ExecClose, CloseSession, ExecCall, ExecBad, ExecGetEvent,
         ExecGetHeld, ExecGetEnd, Answer

\* So does the stop.
LEMMA SockStop ==
  ASSUME Shape, WireInv, Stops,
         NEW d \in Clients, NEW p \in Objects
  PROVE  SockOf(d, p)'
<1>0. SockOf(d, p)
  BY DEF WireInv
<1>1. UNCHANGED <<sock, pc, obj, serv, msg, reply>>
  BY DEF Stops, RequestStop, StopStep, PostQuit, MuxQuit, ServerRunEnds, vars, client, wire,
         daemon, queues
<1> QED  BY <1>0, <1>1 DEF SockOf

----------------------------------------------------------------------------
(* Clients. *)

\* While a thread opens a session no other thread works with its object.
LEMMA OpenerAlone ==
  ASSUME Shape, ObjectInv, NEW c \in Clients, Opening(c), NEW d \in Clients, d # c, pc[d] # "idle"
  PROVE  obj[d] # obj[c]
<1>1. stage[obj[c]] = "new" /\ (Opening(d) => obj[d] # obj[c])
  BY DEF ObjectInv, OpenerOf
<1>2. Users(obj[c]) = {}
  BY <1>1 DEF ObjectInv, RefOf, Shape
<1> QED  BY <1>1, <1>2 DEF Users, Opening, Shape

\* What the thread that calls waits for is what is on its connection.
LEMMA OwnClient ==
  ASSUME Shape, WireInv, ObjectInv, NEW c \in Clients, NEW o \in Objects,
         Calls(c, o) \/ ClientStep(c),
         NEW d \in Clients
  PROVE  ClientOf(d)'
<1> USE DEF client, table, wire, daemon, queues
<1>0. ClientOf(d) /\ ClientOf(c)
  BY DEF WireInv
<1>1. ASSUME NEW x \in Kinds, Begin(c, x, o), UNCHANGED rsid, x = "open" => stage[o] = "unborn"
      PROVE  ClientOf(d)'
  <2>1. CASE d = c
    <3>1. x = "open" => sock[c][o] = 0
      BY <1>1 DEF WireInv, UnbornOf
    <3>2. Conn(c)' = sock[c][o]
      BY <1>1 DEF Begin, Conn, Shape
    <3> QED  BY <1>0, <1>1, <2>1, <3>1, <3>2 DEF ClientOf, Begin, Shape
  <2>2. CASE d # c
    <3>1. Conn(d)' = Conn(d)
      BY <1>1, <2>2 DEF Begin, Conn, Shape
    <3>2. pc'[d] = pc[d] /\ kind'[d] = kind[d] /\ obj'[d] = obj[d] /\ call'[d] = call[d]
      BY <1>1, <2>2 DEF Begin, Shape
    <3> QED  BY <1>0, <1>1, <3>1, <3>2 DEF ClientOf, Mine, Begin, Shape
  <2> QED  BY <2>1, <2>2
<1>2. CASE SessOpen(c, o)
  BY <1>1, <1>2 DEF SessOpen, Kinds
<1>3. CASE SessFinalize(c, o) \/ \E k \in {"close", "call", "get"} : SessCall(c, k, o)
  BY <1>1, <1>3 DEF SessFinalize, SessCall, Kinds
<1>4. ASSUME NEW k \in Conns, Send(c, k), pc[c] = "send", sock'[c][obj[c]] = k,
             \A a \in Clients : a # c => sock'[a] = sock[a],
             \A a \in Clients : a # c /\ pc[a] = "read" => Conn(a) # k
      PROVE  ClientOf(d)'
  <2>1. CASE d = c
    <3>1. /\ Conn(c)' = k /\ k # 0
          /\ msg'[k].from = c /\ msg'[k].call = call[c]
          /\ msg'[k].kind = kind[c] /\ msg'[k].sid = rsid[obj[c]]
      BY <1>4 DEF Send, Conn, Shape, Conns
    <3> QED  BY <1>0, <1>4, <2>1, <3>1 DEF ClientOf, Mine, Send, Shape
  <2>2. CASE d # c
    <3>1. Conn(d)' = Conn(d)
      BY <1>4, <2>2 DEF Send, Conn
    <3>2. pc[d] = "read" => Conn(d) \in Conns /\ msg'[Conn(d)] = msg[Conn(d)]
      BY <1>0, <1>4, <2>2 DEF Send, Shape, Conn, ClientOf
    <3> QED  BY <1>0, <1>4, <2>2, <3>1, <3>2 DEF ClientOf, Mine, Send, Shape
  <2> QED  BY <2>1, <2>2
<1>5. CASE Write(c)
  <2>1. Conn(c) \in Conns /\ \A a \in Clients : a # c /\ pc[a] = "read" => Conn(a) # Conn(c)
    BY <1>5 DEF Write, Conn, Shape, WireInv, SockOf
  <2> QED  BY <1>4, <1>5, <2>1 DEF Write, Conn
<1>6. CASE Connect(c)
  <2> PICK k \in Conns :
       /\ serv[k] = "unused"
       /\ sock' = [sock EXCEPT ![c][obj[c]] = k]
       /\ Send(c, k)
    BY <1>6 DEF Connect
  <2>1. \A a \in Clients : a # c /\ pc[a] = "read" => Conn(a) # k
    <3> SUFFICES ASSUME NEW a \in Clients, sock[a][obj[a]] = k  PROVE FALSE
      BY DEF Conn
    <3>1. obj[a] \in Objects /\ k # 0
      BY DEF Shape, Conns
    <3>2. SockOf(a, obj[a])
      BY <3>1 DEF WireInv
    <3> QED  BY <3>1, <3>2 DEF SockOf
  <2>2. pc[c] = "send" /\ sock'[c][obj[c]] = k /\ \A a \in Clients : a # c => sock'[a] = sock[a]
    BY <1>6 DEF Connect, Shape
  <2> QED  BY <1>4, <2>1, <2>2
<1>7. CASE ConnectFails(c)
  <2>1. Conn(d)' = Conn(d) /\ (d # c => pc'[d] = pc[d] /\ res'[d] = res[d])
        /\ pc[c] = "send" /\ pc'[c] = "return" /\ res'[c] = "noresponse"
    BY <1>7 DEF ConnectFails, Finish, Conn, Shape
  <2>2. UNCHANGED <<kind, obj, call, calls, try, bad, rsid, msg, done>>
    BY <1>7 DEF ConnectFails
  <2> QED  BY <1>0, <2>1, <2>2 DEF ClientOf, Mine
<1>8. CASE Read(c)
  <2>1. Conn(c) \in Conns /\ reply[Conn(c)].res # "noresponse"
    <3>1. Conn(c) \in Conns /\ reply[Conn(c)] # NoReply
      BY <1>0, <1>8 DEF Read, Conn, Shape, ClientOf
    <3>2. reply[Conn(c)] \in Replies
      BY <3>1 DEF Shape
    <3> QED  BY <3>1, <3>2 DEF Replies
  <2>2. d # c /\ pc[d] = "read" => rsid'[obj[d]] = rsid[obj[d]]
    <3>1. CASE kind[c] = "open"
      BY <1>8, <3>1, OpenerAlone DEF Read, Opening, Shape
    <3>2. CASE kind[c] # "open"
      BY <1>8, <3>2 DEF Read
    <3> QED  BY <3>1, <3>2
  <2>3. Conn(d)' = Conn(d)
    BY <1>8 DEF Read, Conn
  <2>4. CASE d = c
    BY <1>0, <1>8, <2>1, <2>4 DEF Read, Finish, ClientOf, Shape
  <2>5. CASE d # c
    BY <1>0, <1>8, <2>2, <2>3, <2>5 DEF Read, Finish, ClientOf, Mine, Shape
  <2> QED  BY <2>4, <2>5
<1>9. CASE Retry(c)
  <2>1. CASE d = c
    <3>1. Conn(c)' = 0
      BY <1>9 DEF Retry, Conn, Shape
    <3>2. /\ call' = call /\ done' = done /\ calls' = calls /\ try'[c] = try[c] + 1
          /\ try[c] < RPC_ATTEMPTS /\ pc[c] # "idle"
          /\ \/ pc'[c] = "send" /\ try[c] + 1 < RPC_ATTEMPTS
             \/ pc'[c] = "return" /\ res'[c] = "noresponse"
      BY <1>0, <1>9 DEF Retry, AttemptsLeft, Finish, ClientOf, Shape
    <3>3. try'[c] <= RPC_ATTEMPTS /\ (pc'[c] = "send" => try'[c] < RPC_ATTEMPTS)
      BY <3>2 DEF Shape
    <3> QED  BY <1>0, <2>1, <3>1, <3>2, <3>3 DEF ClientOf
  <2>2. CASE d # c
    <3>1. /\ Conn(d)' = Conn(d) /\ pc'[d] = pc[d] /\ try'[d] = try[d] /\ res'[d] = res[d]
          /\ bad'[d] = bad[d]
      BY <1>9, <2>2 DEF Retry, Finish, Conn, Shape
    <3>2. UNCHANGED <<kind, obj, call, calls, rsid, msg, done>>
      BY <1>9 DEF Retry
    <3> QED  BY <1>0, <3>1, <3>2 DEF ClientOf, Mine
  <2> QED  BY <2>1, <2>2
<1>10. CASE Return(c)
  <2>1. Conn(d)' = Conn(d)
    BY <1>10 DEF Return, Conn
  <2>2. CASE d = c
    BY <1>0, <1>10, <2>2 DEF Return, ClientOf, Shape
  <2>3. CASE d # c
    <3>1. /\ pc'[d] = pc[d] /\ kind'[d] = kind[d] /\ try'[d] = try[d] /\ res'[d] = res[d]
          /\ bad'[d] = bad[d] /\ done'[d] = done[d] /\ call'[d] = call[d]
      BY <1>10, <2>3 DEF Return, Shape
    <3>2. UNCHANGED <<obj, calls, rsid, msg>>
      BY <1>10 DEF Return
    <3> QED  BY <1>0, <2>1, <3>1, <3>2 DEF ClientOf, Mine
  <2> QED  BY <2>2, <2>3
<1> QED  BY <1>2, <1>3, <1>5, <1>6, <1>7, <1>8, <1>9, <1>10 DEF Calls, ClientStep

\* Service threads leave what a client thread waits for in order.
LEMMA OwnServ ==
  ASSUME Shape, WireInv, NEW k \in Conns,
         Serves(k),
         NEW d \in Clients
  PROVE  ClientOf(d)'
<1> USE DEF client, table, wire, daemon, queues
<1>0. ClientOf(d) /\ ConnOf(k)
  BY DEF WireInv
<1>1. UNCHANGED <<client, sock, table>> /\ Conn(d)' = Conn(d)
  BY DEF Serves, Break, Notice, ServStep, ServRead, ServReadFails, ServWrite, ServWriteEnd,
         Reached, ExecOpen, ExecClose, CloseSession, ExecCall, ExecBad, ExecGetEvent, ExecGetHeld,
         ExecGetEnd, Answer, Conn
<1>2. \A j \in Conns : msg'[j] \in {msg[j], NoMsg}
  BY DEF Serves, Break, Notice, ServStep, ServRead, ServReadFails, ServWrite, ServWriteEnd,
         Reached, ExecOpen, ExecClose, CloseSession, ExecCall, ExecBad, ExecGetEvent, ExecGetHeld,
         ExecGetEnd, Answer, Shape
<1>3. pc[d] = "idle" => done'[d] = done[d]
  <2>1. CASE done' = done
    BY <2>1
  <2>2. CASE serv[k] = "exec" /\ call[msg[k].from] = msg[k].call
             /\ done' = [done EXCEPT ![msg[k].from] = @ + 1]
    <3>1. msg[k].from \in Clients /\ msg[k].call # 0
      BY <1>0, <2>2 DEF ConnOf, Shape, Messages
    <3>2. pc[d] = "idle" => d # msg[k].from
      BY <1>0, <2>2, <3>1 DEF ClientOf
    <3> QED  BY <2>2, <3>1, <3>2 DEF Shape
  <2> QED  BY <2>1, <2>2
     DEF Serves, Break, Notice, ServStep, ServRead, ServReadFails, ServWrite, ServWriteEnd,
         Reached, ExecOpen, ExecClose, CloseSession, ExecCall, ExecBad, ExecGetEvent, ExecGetHeld,
         ExecGetEnd, Answer
<1>4. pc[d] = "read" => Conn(d) \in Conns
  BY <1>0 DEF ClientOf, Conn, Shape
<1> QED  BY <1>0, <1>1, <1>2, <1>3, <1>4 DEF ClientOf, Mine

\* So does the stop.
LEMMA OwnStop ==
  ASSUME Shape, WireInv, Stops,
         NEW d \in Clients
  PROVE  ClientOf(d)'
<1>0. ClientOf(d)
  BY DEF WireInv
<1>1. UNCHANGED <<client, sock, rsid, msg, done>>
  BY DEF Stops, RequestStop, StopStep, PostQuit, MuxQuit, ServerRunEnds, vars, client, table, wire,
         daemon, queues
<1> QED  BY <1>0, <1>1 DEF ClientOf, Mine, Conn, client

----------------------------------------------------------------------------
(* Objects not opened yet, and session ids. *)

\* No socket is made for an object that was not opened yet.
LEMMA UnbornStep ==
  ASSUME Shape, WireInv, ObjectInv, [Next]_vars, NEW p \in Objects
  PROVE  UnbornOf(p)'
<1> USE DEF client, table, wire, daemon, queues
<1>0. UnbornOf(p)
  BY DEF WireInv
<1>1. ASSUME NEW c \in Clients, NEW o \in Objects, Calls(c, o)  PROVE UnbornOf(p)'
  <2>1. PICK x \in Kinds :
               /\ Begin(c, x, o)
               /\ stage' = stage \/ stage' = [stage EXCEPT ![o] = "new"]
    BY <1>1, CallsBegin
  <2> QED  BY <1>0, <2>1 DEF UnbornOf, Begin, Shape
<1>2. ASSUME NEW c \in Clients, ClientStep(c)  PROVE UnbornOf(p)'
  <2>1. CASE Write(c) \/ ConnectFails(c) \/ Read(c)
    BY <1>0, <2>1 DEF UnbornOf, Write, Send, ConnectFails, Read
  <2>2. CASE Connect(c)
    <3>1. PICK k \in Conns : sock' = [sock EXCEPT ![c][obj[c]] = k] /\ stage' = stage
      BY <2>2 DEF Connect, Send
    <3>2. stage[obj[c]] # "unborn"
      <4>1. Opening(c) \/ c \in Users(obj[c])
        BY <2>2 DEF Connect, Opening, Users, Shape
      <4> QED  BY <4>1 DEF ObjectInv, OpenerOf, RefOf, Shape
    <3> QED  BY <1>0, <3>1, <3>2 DEF UnbornOf, Shape
  <2>3. CASE Retry(c)
    <3>1. sock' = [sock EXCEPT ![c][obj[c]] = 0] /\ stage' = stage
      BY <2>3 DEF Retry
    <3> QED  BY <1>0, <3>1 DEF UnbornOf, Shape
  <2>4. CASE Return(c)
    <3>1. stage'[p] = "unborn" => stage[p] = "unborn"
      BY <2>4 DEF Return, Unref, Shape
    <3>2. sock' = sock
      BY <2>4 DEF Return
    <3> QED  BY <1>0, <3>1, <3>2 DEF UnbornOf
  <2> QED  BY <1>2, <2>1, <2>2, <2>3, <2>4 DEF ClientStep
<1>3. ASSUME NEW k \in Conns, Serves(k)  PROVE UnbornOf(p)'
  BY <1>0, <1>3, ServesKeep DEF UnbornOf
<1>4. ASSUME Stops  PROVE UnbornOf(p)'
  BY <1>0, <1>4, StopsKeep DEF UnbornOf
<1> QED  BY <1>1, <1>2, <1>3, <1>4, StepKinds

\* What the messages and the sessions of one connection say of session ids.
SidsOf(k) ==
  /\ my_sid[k] < nextsid
  /\ msg[k] # NoMsg => msg[k].sid < nextsid
  /\ reply[k] # NoReply => reply[k].sid < nextsid
  /\ ans[k] # NoReply => ans[k].sid < nextsid

\* A session id that goes round is one the daemon has given out.
LEMMA SidsStep ==
  ASSUME Shape, WireInv, [Next]_vars
  PROVE  SidsBelow'
<1> USE DEF client, table, wire, daemon, queues
<1>0. SidsBelow /\ nextsid \in Nat /\ nextsid > 0
  BY DEF WireInv, Shape, Sids
<1>1. ASSUME NEW c \in Clients, NEW o \in Objects, Calls(c, o)  PROVE SidsBelow'
  <2>1. UNCHANGED <<rsid, wire, daemon>>
    BY <1>1, CallsBegin DEF Begin
  <2> QED  BY <1>0, <2>1 DEF SidsBelow
<1>2. ASSUME NEW c \in Clients, ClientStep(c)  PROVE SidsBelow'
  <2>1. CASE Write(c) \/ Connect(c)
    <3>1. PICK k \in Conns : Send(c, k)
      BY <2>1 DEF Write, Connect, Conn, Shape
    <3>2. msg'[k].sid = rsid[obj[c]] /\ rsid[obj[c]] < nextsid
      BY <1>0, <3>1 DEF Send, Shape, SidsBelow
    <3>3. UNCHANGED <<rsid, my_sid, reply, ans, live, nextsid>> /\ \A j \in Conns : j # k => msg'[j] = msg[j]
      BY <3>1 DEF Send, Shape
    <3> QED  BY <1>0, <3>1, <3>2, <3>3 DEF SidsBelow
  <2>2. CASE ConnectFails(c) \/ Return(c)
    <3>1. UNCHANGED <<rsid, wire, daemon>>
      BY <2>2 DEF ConnectFails, Return
    <3> QED  BY <1>0, <3>1 DEF SidsBelow
  <2>3. CASE Retry(c)
    <3>1. UNCHANGED <<rsid, msg, daemon>> /\ \A j \in Conns : reply'[j] \in {reply[j], NoReply}
      BY <2>3 DEF Retry, Shape
    <3> QED  BY <1>0, <3>1 DEF SidsBelow
  <2>4. CASE Read(c)
    <3>1. UNCHANGED <<msg, daemon>> /\ \A j \in Conns : reply'[j] \in {reply[j], NoReply}
      BY <2>4 DEF Read, Shape
    <3>2. Conn(c) \in Conns
      BY <2>4 DEF Read, Conn, Shape, WireInv, ClientOf
    <3>3. \A o \in Objects : rsid'[o] = rsid[o] \/ rsid'[o] = reply[Conn(c)].sid
      BY <2>4 DEF Read, Shape
    <3>4. reply[Conn(c)].sid < nextsid
      BY <1>0, <2>4, <3>2 DEF Read, SidsBelow
    <3> QED  BY <1>0, <3>1, <3>3, <3>4 DEF SidsBelow
  <2> QED  BY <1>2, <2>1, <2>2, <2>3, <2>4 DEF ClientStep
<1>3. ASSUME NEW k \in Conns, Serves(k)  PROVE SidsBelow'
  <2>0. rsid' = rsid
    BY <1>3, ServesKeep
  <2>1. CASE Break(k) \/ Notice(k) \/ ServRead(k)
    <3>1. UNCHANGED <<my_sid, live, nextsid, reply, ans>> /\ \A j \in Conns : msg'[j] \in {msg[j], NoMsg}
      BY <2>1 DEF Break, Notice, ServRead, Shape
    <3> QED  BY <1>0, <2>0, <3>1 DEF SidsBelow
  <2>2. CASE ServReadFails(k)
    <3>1. /\ UNCHANGED <<nextsid, reply, ans>> /\ live' \subseteq live
          /\ \A j \in Conns : msg'[j] \in {msg[j], NoMsg} /\ my_sid'[j] \in {my_sid[j], 0}
      BY <2>2 DEF ServReadFails, End, CloseSession, Shape
    <3> QED  BY <1>0, <2>0, <3>1 DEF SidsBelow
  <2>3. CASE ServWrite(k) \/ ServWriteEnd(k)
    <3>1. /\ nextsid' = nextsid /\ live' \subseteq live
          /\ \A j \in Conns : /\ msg'[j] \in {msg[j], NoMsg}
                              /\ ans'[j] \in {ans[j], NoReply}
                              /\ reply'[j] \in {reply[j], ans[j]}
                              /\ my_sid'[j] \in {my_sid[j], 0} \/ (j = k /\ my_sid'[j] = ans[j].sid)
      <4>1. /\ nextsid' = nextsid /\ live' \subseteq live
            /\ msg' = [msg EXCEPT ![k] = NoMsg] /\ ans' = [ans EXCEPT ![k] = NoReply]
            /\ reply' = reply \/ reply' = [reply EXCEPT ![k] = ans[k]]
        BY <2>3 DEF ServWrite, ServWriteEnd, Reached, End, CloseSession
      <4>2. PICK s \in {my_sid[k], 0, ans[k].sid} : my_sid' = [my_sid EXCEPT ![k] = s]
        BY <2>3 DEF ServWrite, ServWriteEnd, End, CloseSession
      <4>3. ASSUME NEW j \in Conns
            PROVE  my_sid'[j] \in {my_sid[j], 0} \/ (j = k /\ my_sid'[j] = ans[j].sid)
        <5>1. my_sid'[j] = IF j = k THEN s ELSE my_sid[j]
          BY <4>2 DEF Shape
        <5> QED  BY <5>1
      <4>4. ASSUME NEW j \in Conns
            PROVE  /\ msg'[j] \in {msg[j], NoMsg} /\ ans'[j] \in {ans[j], NoReply}
                   /\ reply'[j] \in {reply[j], ans[j]}
        BY <4>1 DEF Shape
      <4> QED  BY <4>1, <4>3, <4>4
    <3>2. ans[k] # NoReply
      BY <2>3 DEF ServWrite, ServWriteEnd, WireInv, ConnOf
    <3> QED  BY <1>0, <2>0, <3>1, <3>2 DEF SidsBelow
  <2>4. CASE Executes(k)
    <3>0. PICK r \in {"ok", "error"}, s \in Nat : Answers(k, r, s)
      BY <2>4, ExecutesAnswers
    <3>1. Reply(r, s).sid = s
      BY DEF Reply
    <3>2. UNCHANGED <<msg, reply, my_sid>> /\ ans'[k] = Reply(r, s) /\ \A j \in Conns : j # k => ans'[j] = ans[j]
      BY <3>0 DEF Answers, Answer, Shape, wire
    <3>5. nextsid' \in Nat /\ nextsid <= nextsid'
      BY <1>0, <3>0 DEF Answers
    <3>3. ASSUME NEW x \in live'  PROVE x < nextsid'
      <4>1. x \in live => x \in Nat /\ x < nextsid
        BY <1>0 DEF SidsBelow, Shape, Sids
      <4>2. x \in live \/ (x = nextsid /\ nextsid' = nextsid + 1)
        BY <3>0, <3>3 DEF Answers
      <4> QED  BY <1>0, <3>5, <4>1, <4>2
    <3>4. \A o \in Objects : rsid'[o] < nextsid'
      BY <1>0, <2>0, <3>5 DEF SidsBelow, Shape
    <3>6. ASSUME NEW j \in Conns  PROVE SidsOf(j)'
      <4>1. SidsOf(j) /\ my_sid[j] \in Nat /\ (msg[j] # NoMsg => msg[j].sid \in Nat)
            /\ (reply[j] # NoReply => reply[j].sid \in Nat) /\ (ans[j] # NoReply => ans[j].sid \in Nat)
        BY <1>0 DEF SidsBelow, SidsOf, Shape, Messages, Replies
      <4>2. s < nextsid'
        BY <3>0 DEF Answers
      <4> QED  BY <1>0, <3>1, <3>2, <3>5, <4>1, <4>2 DEF SidsOf
    <3> QED  BY <3>3, <3>4, <3>6 DEF SidsBelow, SidsOf
  <2> QED  BY <1>3, <2>1, <2>2, <2>3, <2>4 DEF Serves, ServStep, Executes
<1>4. ASSUME Stops  PROVE SidsBelow'
  BY <1>0, <1>4, StopsKeep DEF SidsBelow
<1> QED  BY <1>1, <1>2, <1>3, <1>4, StepKinds

----------------------------------------------------------------------------
(* Reference counts. *)

\* A session object has finitely many users.
LEMMA UsersFinite ==
  ASSUME NEW o
  PROVE  IsFiniteSet(Users(o)) /\ Cardinality(Users(o)) \in Nat
<1>1. Users(o) \subseteq Clients
  BY DEF Users
<1> QED  BY <1>1, FS_Subset, FS_CardinalityType

\* A step of a thread inside its call, other than its return, leaves the object as
\* it is.
LEMMA InsideKeeps ==
  ASSUME Shape, NEW c \in Clients,
         Write(c) \/ Connect(c) \/ ConnectFails(c) \/ Read(c) \/ Retry(c)
  PROVE  /\ pc[c] # "idle" /\ UNCHANGED <<obj, kind, call, ref, stage, live, nextsid, calls, done>>
         /\ \A d \in Clients : d # c => pc'[d] = pc[d] /\ res'[d] = res[d] /\ try'[d] = try[d]
         /\ pc'[c] \in {"send", "read", "return"}
BY DEF Write, Connect, Send, ConnectFails, Read, Retry, Finish, Shape, table, daemon, queues

\* The count of a session object follows the threads that use it.
LEMMA RefStep ==
  ASSUME Shape, WireInv, ObjectInv, [Next]_vars, NEW p \in Objects
  PROVE  RefOf(p)'
<1>0. RefOf(p)
  BY DEF ObjectInv
<1>a. ASSUME Users(p)' = Users(p), UNCHANGED <<ref, stage>>  PROVE RefOf(p)'
  BY <1>0, <1>a DEF RefOf
<1>b. IsFiniteSet(Users(p)) /\ Cardinality(Users(p)) \in Nat
  BY UsersFinite
<1>1. ASSUME NEW c \in Clients, NEW o \in Objects, Calls(c, o)  PROVE RefOf(p)'
  <2>1. PICK x \in Kinds :
           /\ Begin(c, x, o)
           /\ \/ /\ x = "open" /\ stage[o] = "unborn"
                 /\ stage' = [stage EXCEPT ![o] = "new"] /\ ref' = ref
              \/ /\ x # "open" /\ stage[o] = "listed"
                 /\ ref' = [ref EXCEPT ![o] = @ + 1] /\ stage' = stage
    BY <1>1, CallsBegin
  <2>2. /\ c \notin Users(p)
        /\ \A d \in Clients : d # c => (d \in Users(p)' <=> d \in Users(p))
        /\ c \in Users(p)' <=> x # "open" /\ o = p
    BY <2>1 DEF Begin, Users, Shape
  <2>3. Users(p)' = IF x # "open" /\ o = p THEN Users(p) \union {c} ELSE Users(p)
    BY <2>2 DEF Users
  <2>4. CASE x = "open"
    BY <1>0, <2>1, <2>3, <2>4 DEF RefOf, Shape
  <2>5. CASE x # "open" /\ o # p
    BY <1>0, <2>1, <2>3, <2>5 DEF RefOf, Shape
  <2>6. CASE x # "open" /\ o = p
    <3>1. Cardinality(Users(p) \union {c}) = Cardinality(Users(p)) + 1
      BY <1>b, <2>2, FS_AddElement
    <3> QED  BY <1>0, <2>1, <2>3, <2>6, <3>1 DEF RefOf, Shape
  <2> QED  BY <2>4, <2>5, <2>6
<1>2. ASSUME NEW c \in Clients, ClientStep(c)  PROVE RefOf(p)'
  <2>1. CASE ~Return(c)
    <3>1. /\ pc[c] # "idle" /\ UNCHANGED <<obj, kind, ref, stage>>
          /\ pc'[c] # "idle" /\ \A d \in Clients : d # c => pc'[d] = pc[d]
      BY <1>2, <2>1, InsideKeeps DEF ClientStep
    <3>2. Users(p)' = Users(p)
      BY <3>1 DEF Users
    <3> QED  BY <1>a, <3>1, <3>2
  <2>2. CASE Return(c) /\ kind[c] = "open"
    <3>1. stage[obj[c]] = "new"
      BY <2>2 DEF Return, ObjectInv, OpenerOf, Opening
    <3>2. \A d \in Clients : d \in Users(p)' <=> d \in Users(p)
      BY <2>2 DEF Return, Users, Shape
    <3>3. Users(p)' = Users(p)
      BY <3>2 DEF Users
    <3>4. /\ ref' = ref /\ (p # obj[c] => stage'[p] = stage[p])
          /\ p = obj[c] => stage'[p] \in {"listed", "deleted"}
      BY <2>2 DEF Return, Shape
    <3>5. CASE p = obj[c]
      <4>1. Users(p) = {} /\ ref[p] = 0
        BY <1>0, <3>1, <3>5 DEF RefOf
      <4> QED  BY <3>3, <3>4, <3>5, <4>1, FS_EmptySet DEF RefOf
    <3>6. CASE p # obj[c]
      BY <1>0, <3>3, <3>4, <3>6 DEF RefOf
    <3> QED  BY <3>5, <3>6
  <2>3. CASE Return(c) /\ kind[c] # "open"
    <3> DEFINE closed == kind[c] = "finalize" \/ (kind[c] = "close" /\ res[c] = "ok")
    <3>1. \A d \in Clients : d \in Users(p)' <=> d \in Users(p) /\ d # c
      BY <2>3 DEF Return, Users, Shape
    <3>2. Users(p)' = Users(p) \ {c} /\ (c \in Users(p) <=> obj[c] = p)
      BY <2>3, <3>1 DEF Return, Users
    <3>3. Unref(obj[c], closed)
      BY <2>3 DEF Return
    <3>4. CASE obj[c] # p
      <4>1. ref'[p] = ref[p] /\ stage'[p] = stage[p] /\ Users(p)' = Users(p)
        BY <3>2, <3>3, <3>4 DEF Unref, Shape
      <4> QED  BY <1>0, <4>1 DEF RefOf
    <3>5. CASE obj[c] = p
      <4>1. /\ Cardinality(Users(p)') = Cardinality(Users(p)) - 1
            /\ Cardinality(Users(p)') \in Nat
            /\ Cardinality(Users(p)') = 0 <=> Users(p)' = {}
        <5>1. IsFiniteSet(Users(p) \ {c}) /\ Cardinality(Users(p) \ {c}) = Cardinality(Users(p)) - 1
          BY <1>b, <3>2, <3>5, FS_RemoveElement
        <5> QED  BY <3>2, <5>1, FS_CardinalityType, FS_EmptySet
      <4>2. closed => stage[p] = "listed"
        BY <2>3, <3>5 DEF Return, ObjectInv, OpenerOf, CloseOf, ClosingOk, OkComing
      <4>3. closed /\ kind[c] = "finalize" => Cardinality(Users(p)') = 0
        BY <2>3, <3>2, <4>1 DEF Return, ObjectInv, OpenerOf, Users
      <4>4. stage[p] \in {"listed", "unlisted"}
        BY <1>0, <3>2, <3>5 DEF RefOf, Shape
      <4>5. PICK n \in Int : n = ref[p] - (IF closed THEN 2 ELSE 1)
        <5>1. ref[p] \in Int
          BY DEF Shape
        <5> QED  BY <5>1
      <4>6. ref'[p] = n /\ stage'[p] = IF n < 0 THEN "deleted" ELSE IF closed THEN "unlisted" ELSE stage[p]
        BY <3>3, <3>5, <4>5 DEF Unref, Shape
      <4>7. ref[p] \in Int
        BY DEF Shape
      <4> HIDE DEF closed
      <4>8. CASE closed
        <5>1. n = Cardinality(Users(p)') - 1
          BY <1>0, <4>1, <4>2, <4>5, <4>7, <4>8 DEF RefOf
        <5>2. CASE n < 0
          <6>1. n = -1 /\ Cardinality(Users(p)') = 0
            <7>1. \A m \in Nat : n = m - 1 => n = -1 /\ m = 0
              BY <5>2
            <7> QED  BY <4>1, <5>1, <7>1
          <6> QED  BY <4>1, <4>6, <5>2, <6>1 DEF RefOf
        <5>3. CASE n >= 0
          <6>1. stage'[p] = "unlisted" /\ ref'[p] = n
            BY <4>6, <4>8, <5>3
          <6> QED  BY <5>1, <5>3, <6>1 DEF RefOf
        <5> QED  BY <5>2, <5>3
      <4>9. CASE ~closed /\ stage[p] = "listed"
        <5>1. n = Cardinality(Users(p)')
          BY <1>0, <4>1, <4>5, <4>7, <4>9 DEF RefOf
        <5> QED  BY <4>1, <4>6, <4>9, <5>1 DEF RefOf
      <4>10. CASE ~closed /\ stage[p] = "unlisted"
        <5>1. n = Cardinality(Users(p)') - 1
          BY <1>0, <4>1, <4>5, <4>7, <4>10 DEF RefOf
        <5>2. CASE n < 0
          <6>1. n = -1 /\ Cardinality(Users(p)') = 0
            <7>1. \A m \in Nat : n = m - 1 => n = -1 /\ m = 0
              BY <5>2
            <7> QED  BY <4>1, <5>1, <7>1
          <6> QED  BY <4>1, <4>6, <5>2, <6>1 DEF RefOf
        <5>3. CASE n >= 0
          <6>1. stage'[p] = "unlisted" /\ ref'[p] = n
            BY <4>6, <4>10, <5>3
          <6> QED  BY <5>1, <5>3, <6>1 DEF RefOf
        <5> QED  BY <5>2, <5>3
      <4> QED  BY <4>4, <4>8, <4>9, <4>10
    <3> QED  BY <3>4, <3>5
  <2> QED  BY <2>1, <2>2, <2>3
<1>3. ASSUME NEW k \in Conns, Serves(k)  PROVE RefOf(p)'
  BY <1>3, <1>a, ServesKeep DEF Users, client, table
<1>4. ASSUME Stops  PROVE RefOf(p)'
  BY <1>4, <1>a, StopsKeep DEF Users, client, table
<1> QED  BY <1>1, <1>2, <1>3, <1>4, StepKinds

----------------------------------------------------------------------------
(* Successes under way. *)

\* A reading thread has a connection of its own.
LEMMA ReaderConn ==
  ASSUME Shape, WireInv, NEW c \in Clients, pc[c] = "read"
  PROVE  /\ Conn(c) \in Conns /\ ConnOf(Conn(c)) /\ (msg[Conn(c)] # NoMsg => Mine(c, Conn(c)))
         /\ serv[Conn(c)] # "unused"
         /\ \A d \in Clients : d # c => Conn(d) # Conn(c)
<1>1. Conn(c) # 0 /\ Conn(c) = sock[c][obj[c]] /\ obj[c] \in Objects /\ Conn(c) \in Conns
  BY DEF WireInv, ClientOf, Conn, Shape
<1>2. SockOf(c, obj[c]) /\ ConnOf(Conn(c)) /\ ClientOf(c)
  BY <1>1 DEF WireInv
<1> QED  BY <1>1, <1>2 DEF SockOf, ClientOf, Conn, Shape

\* The answer of the service thread of a reading thread's connection.
Decided(c) == /\ pc[c] = "read" /\ serv[Conn(c)] = "exec" /\ Conn(c) \in Conns
              /\ \E s \in Nat : Answers(Conn(c), "ok", s)

\* A success that is coming was coming, or is the answer the daemon gives now.
LEMMA OkStep ==
  ASSUME Shape, WireInv, [Next]_vars, NEW d \in Clients, OkComing(d)'
  PROVE  /\ kind'[d] = kind[d] /\ obj'[d] = obj[d] /\ call'[d] = call[d]
         /\ pc[d] \in {"read", "return"}
         /\ OkComing(d) \/ Decided(d)
<1> USE DEF client, table, wire, daemon, queues
<1> DEFINE Goal == /\ kind'[d] = kind[d] /\ obj'[d] = obj[d] /\ call'[d] = call[d]
                   /\ pc[d] \in {"read", "return"}
                   /\ OkComing(d) \/ Decided(d)
<1>a. ASSUME pc'[d] = pc[d], kind'[d] = kind[d], obj'[d] = obj[d], res'[d] = res[d], call'[d] = call[d],
             sock'[d] = sock[d],
             pc[d] = "read" => /\ reply'[Conn(d)] = reply[Conn(d)]
                               /\ serv'[Conn(d)] = serv[Conn(d)] \/ serv'[Conn(d)] # "write"
                               /\ ans'[Conn(d)] = ans[Conn(d)]
      PROVE  Goal
  <2>1. Conn(d)' = Conn(d)
    BY <1>a DEF Conn
  <2> QED  BY <1>a, <2>1 DEF OkComing
<1>b. pc[d] = "read" => Conn(d) \in Conns /\ ConnOf(Conn(d)) /\ serv[Conn(d)] # "unused"
                         /\ \A c \in Clients : c # d => Conn(c) # Conn(d)
  BY ReaderConn
<1>1. ASSUME NEW c \in Clients, NEW o \in Objects, Calls(c, o)  PROVE Goal
  <2>1. PICK x \in Kinds : Begin(c, x, o)
    BY <1>1, CallsBegin
  <2>2. d # c
    BY <2>1 DEF Begin, OkComing, Shape
  <2> QED  BY <1>a, <2>1, <2>2 DEF Begin, Shape
<1>2. ASSUME NEW c \in Clients, ClientStep(c)  PROVE Goal
  <2>1. CASE d # c
    <3>1. pc'[d] = pc[d] /\ kind'[d] = kind[d] /\ obj'[d] = obj[d] /\ res'[d] = res[d] /\ call'[d] = call[d]
          /\ sock'[d] = sock[d] /\ ans' = ans
      BY <1>2, <2>1 DEF ClientStep, Write, Connect, Send, ConnectFails, Read, Retry, Return,
          Finish, Shape
    <3>2. pc[d] = "read" => reply'[Conn(d)] = reply[Conn(d)] /\ serv'[Conn(d)] = serv[Conn(d)]
      BY <1>2, <1>b, <2>1 DEF ClientStep, Write, Connect, Send, ConnectFails, Read, Retry,
          Return, Finish, Shape
    <3> QED  BY <1>a, <3>1, <3>2
  <2>2. CASE d = c /\ (Write(c) \/ Connect(c))
    <3>1. PICK k \in Conns : /\ Send(c, k) /\ sock'[c][obj[c]] = k /\ reply[k] = NoReply
                             /\ serv'[k] # "write"
      <4>1. CASE Write(c)
        <5>1. Conn(c) \in Conns /\ Conn(c) = sock[c][obj[c]] /\ obj[c] \in Objects
          BY <4>1 DEF Write, Conn, Shape
        <5>2. SockOf(c, obj[c]) /\ ConnOf(Conn(c))
          BY <5>1 DEF WireInv
        <5>3. msg[Conn(c)] = NoMsg /\ reply[Conn(c)] = NoReply
          BY <4>1, <5>1, <5>2 DEF Write, SockOf
        <5>4. serv[Conn(c)] # "write"
          BY <5>2, <5>3 DEF ConnOf
        <5> QED  BY <4>1, <5>1, <5>3, <5>4 DEF Write
      <4>2. CASE Connect(c)
        <5>1. PICK k \in Conns : /\ serv[k] = "unused" /\ sock' = [sock EXCEPT ![c][obj[c]] = k]
                                 /\ serv' = [serv EXCEPT ![k] = "read"] /\ Send(c, k)
          BY <4>2 DEF Connect
        <5>2. ConnOf(k)
          BY DEF WireInv
        <5> QED  BY <5>1, <5>2 DEF ConnOf, Shape
      <4> QED  BY <2>2, <4>1, <4>2
    <3>2. Conn(d)' = k /\ pc'[d] = "read" /\ reply'[k] = NoReply /\ serv'[k] # "write"
      BY <2>2, <3>1 DEF Send, Conn, Shape
    <3> QED  BY <3>2 DEF OkComing
  <2>3. CASE d = c /\ (ConnectFails(c) \/ Retry(c) \/ Return(c))
    BY <2>3 DEF ConnectFails, Retry, Return, Finish, OkComing, Shape
  <2>4. CASE d = c /\ Read(c)
    BY <2>4 DEF Read, Finish, OkComing, Shape
  <2> QED  BY <1>2, <2>1, <2>2, <2>3, <2>4 DEF ClientStep
<1>3. ASSUME NEW k \in Conns, Serves(k)  PROVE Goal
  <2>1. UNCHANGED <<client, sock, table>> /\ Conn(d)' = Conn(d)
    BY <1>3, ServesKeep DEF Conn
  <2>2. CASE pc[d] # "read" \/ Conn(d) # k
    <3>1. pc[d] = "read" => reply'[Conn(d)] = reply[Conn(d)] /\ serv'[Conn(d)] = serv[Conn(d)] /\ ans'[Conn(d)] = ans[Conn(d)]
      BY <1>3, <1>b, <2>2 DEF Serves, Break, Notice, ServStep, ServRead, ServReadFails, ServWrite,
                              ServWriteEnd, Reached, End, CloseSession, ExecOpen, ExecClose,
                              ExecCall, ExecBad, ExecGetEvent, ExecGetHeld, ExecGetEnd, Answer,
                              Shape
    <3> QED  BY <1>a, <2>1, <3>1
  <2>3. CASE pc[d] = "read" /\ Conn(d) = k
    <3>1. CASE Break(k) \/ Notice(k) \/ ServRead(k) \/ ServReadFails(k)
      <4>1. reply' = reply /\ ans' = ans /\ (serv' = serv \/ serv'[k] # "write")
        BY <3>1 DEF Break, Notice, ServRead, ServReadFails, End, CloseSession, Shape
      <4> QED  BY <1>a, <2>1, <2>3, <4>1
    <3>2. CASE ServWrite(k) \/ ServWriteEnd(k)
      <4>1. serv[k] = "write" /\ serv'[k] # "write" /\ reply'[k] \in {reply[k], ans[k]}
        BY <3>2 DEF ServWrite, ServWriteEnd, Reached, End, CloseSession, Shape
      <4> QED  BY <2>1, <2>3, <4>1 DEF OkComing
    <3>3. CASE Executes(k)
      <4>1. serv[k] = "exec" /\ reply' = reply
        BY <3>3, ExecutesAnswers DEF Executes, ExecOpen, ExecClose, CloseSession, ExecCall,
                                     ExecBad, ExecGetEvent, ExecGetHeld, ExecGetEnd, Answer
      <4>2. PICK r \in {"ok", "error"}, s \in Nat : Answers(k, r, s)
        BY <3>3, ExecutesAnswers
      <4>3. ans'[k].res = r
        BY <4>2 DEF Answers, Answer, Reply, Shape
      <4>4. CASE r = "ok"
        BY <2>1, <2>3, <4>1, <4>2, <4>4 DEF Decided
      <4>5. CASE r # "ok"
        BY <2>1, <2>3, <4>1, <4>3, <4>5 DEF OkComing
      <4> QED  BY <4>4, <4>5
    <3> QED  BY <1>3, <3>1, <3>2, <3>3 DEF Serves, ServStep, Executes
  <2> QED  BY <2>2, <2>3
<1>4. ASSUME Stops  PROVE Goal
  <2>1. UNCHANGED <<client, sock, reply, serv, ans>>
    BY <1>4, StopsKeep
  <2> QED  BY <1>a, <2>1
<1> QED  BY <1>1, <1>2, <1>3, <1>4, StepKinds

----------------------------------------------------------------------------
(* Opening and closing. *)

\* One thread opens an object, and saHpiFinalize has the library for itself.
LEMMA OpenerStep ==
  ASSUME Shape, ObjectInv, [Next]_vars, NEW d \in Clients
  PROVE  OpenerOf(d)'
<1> USE DEF client, table, wire, daemon, queues
<1>0. OpenerOf(d)
  BY DEF ObjectInv
<1>a. ASSUME UNCHANGED <<kind, obj, stage>>, \A c \in Clients : pc'[c] # "idle" <=> pc[c] # "idle"
      PROVE  OpenerOf(d)'
  BY <1>0, <1>a DEF OpenerOf, Opening
<1>1. ASSUME NEW c \in Clients, NEW o \in Objects, Calls(c, o)  PROVE OpenerOf(d)'
  <2>1. PICK x \in Kinds :
           /\ Begin(c, x, o)
           /\ \/ /\ x = "open" /\ stage[o] = "unborn"
                 /\ stage' = [stage EXCEPT ![o] = "new"] /\ ref' = ref
              \/ /\ x # "open" /\ stage[o] = "listed"
                 /\ ref' = [ref EXCEPT ![o] = @ + 1] /\ stage' = stage
                 /\ x = "finalize" => \A e \in Clients : pc[e] = "idle"
    BY <1>1, CallsBegin
  <2>2. /\ pc'[c] = "send" /\ kind'[c] = x /\ obj'[c] = o /\ pc[c] = "idle"
        /\ \A e \in Clients : e # c => pc'[e] = pc[e] /\ kind'[e] = kind[e] /\ obj'[e] = obj[e]
        /\ \A e \in Clients : pc[e] # "idle" => kind[e] # "finalize"
    BY <2>1 DEF Begin, Shape
  <2>3. \A e \in Clients : Opening(e) => stage[obj[e]] = "new" /\ obj[e] \in Objects
    BY DEF ObjectInv, OpenerOf, Shape
  <2>4. CASE d = c
    BY <2>1, <2>2, <2>3, <2>4 DEF OpenerOf, Opening, Shape
  <2>5. CASE d # c
    <3>1. stage[obj[d]] = "new" => stage'[obj[d]] = "new"
      BY <2>1, <2>5 DEF Shape
    <3>2. x = "open" /\ Opening(d) => obj[d] # o
      BY <2>1, <2>3
    <3> QED  BY <1>0, <2>2, <2>5, <3>1, <3>2 DEF OpenerOf, Opening
  <2> QED  BY <2>4, <2>5
<1>2. ASSUME NEW c \in Clients, ClientStep(c)  PROVE OpenerOf(d)'
  <2>1. CASE ~Return(c)
    <3>1. /\ pc[c] # "idle" /\ UNCHANGED <<obj, kind, ref, stage>>
          /\ pc'[c] # "idle" /\ \A e \in Clients : e # c => pc'[e] = pc[e]
      BY <1>2, <2>1, InsideKeeps DEF ClientStep
    <3> QED  BY <1>a, <3>1
  <2>2. CASE Return(c)
    <3>1. /\ pc'[c] = "idle" /\ obj' = obj /\ pc[c] # "idle"
          /\ \A e \in Clients : e # c => pc'[e] = pc[e] /\ kind'[e] = kind[e]
          /\ \A p \in Objects : p # obj[c] => stage'[p] = stage[p]
      BY <2>2 DEF Return, Unref, Shape
    <3>2. CASE d = c
      BY <3>1, <3>2 DEF OpenerOf, Opening
    <3>3. CASE d # c
      <4>1. Opening(d) => obj[d] # obj[c]
        BY <3>1, <3>3, OpenerAlone
      <4>2. ~(pc[d] # "idle" /\ kind[d] = "finalize")
        BY <1>0, <3>1, <3>3 DEF OpenerOf
      <4> QED  BY <1>0, <3>1, <3>3, <4>1, <4>2 DEF OpenerOf, Opening, Shape
    <3> QED  BY <3>2, <3>3
  <2> QED  BY <2>1, <2>2
<1>3. ASSUME NEW k \in Conns, Serves(k)  PROVE OpenerOf(d)'
  BY <1>3, <1>a, ServesKeep
<1>4. ASSUME Stops  PROVE OpenerOf(d)'
  BY <1>4, <1>a, StopsKeep
<1> QED  BY <1>1, <1>2, <1>3, <1>4, StepKinds

\* A session gets an id at its opening, and the daemon opens none a second time.
LEMMA SidStep ==
  ASSUME Shape, WireInv, ObjectInv, [Next]_vars
  PROVE  /\ \A p \in Objects : stage[p] # "new" => rsid'[p] = rsid[p]
         /\ \A s \in live' : s \in live \/ s = nextsid
<1> USE DEF client, table, wire, daemon, queues
<1>1. ASSUME NEW c \in Clients, NEW o \in Objects, Calls(c, o)  PROVE UNCHANGED <<rsid, live>>
  BY <1>1, CallsBegin DEF Begin
<1>2. ASSUME NEW c \in Clients, ClientStep(c)
      PROVE  live' = live /\ \A p \in Objects : stage[p] # "new" => rsid'[p] = rsid[p]
  <2>1. CASE Read(c) /\ kind[c] = "open"
    <3>1. stage[obj[c]] = "new"
      BY <2>1 DEF Read, ObjectInv, OpenerOf, Opening
    <3> QED  BY <2>1, <3>1 DEF Read, Shape
  <2>2. CASE ~(Read(c) /\ kind[c] = "open")
    BY <1>2, <2>2 DEF ClientStep, Write, Connect, Send, ConnectFails, Read, Retry, Return
  <2> QED  BY <2>1, <2>2
<1>3. ASSUME NEW k \in Conns, Serves(k)
      PROVE  rsid' = rsid /\ \A s \in live' : s \in live \/ s = nextsid
  <2>1. rsid' = rsid
    BY <1>3, ServesKeep
  <2>2. CASE Executes(k)
    BY <2>1, <2>2, ExecutesAnswers DEF Answers
  <2>3. CASE ~Executes(k)
    BY <1>3, <2>1, <2>3 DEF Serves, Executes, ServStep, Break, Notice, ServRead, ServReadFails,
                            ServWrite, ServWriteEnd, End, CloseSession
  <2> QED  BY <2>2, <2>3
<1>4. ASSUME Stops  PROVE UNCHANGED <<rsid, live>>
  BY <1>4, StopsKeep
<1> QED  BY <1>1, <1>2, <1>3, <1>4, StepKinds

\* A session whose object has left the table is closed at the daemon.
LEMMA GoneStep ==
  ASSUME Shape, WireInv, ObjectInv, [Next]_vars, NEW p \in Objects, RefOf(p)'
  PROVE  GoneOf(p)'
<1> USE DEF client, table, wire, daemon, queues
<1> SUFFICES ASSUME stage'[p] = "unlisted"  PROVE rsid'[p] \notin live'
  BY DEF GoneOf
<1>0. rsid[p] # nextsid
  BY DEF WireInv, SidsBelow, Shape, Sids
<1>1. stage[p] # "new" /\ rsid[p] \notin live
  <2>1. CASE stage[p] = "unlisted"
    BY <2>1 DEF ObjectInv, GoneOf
  <2>2. CASE stage[p] # "unlisted"
    <3>1. ASSUME NEW c \in Clients, NEW o \in Objects, Calls(c, o)  PROVE FALSE
      <4>1. stage' = stage \/ stage' = [stage EXCEPT ![o] = "new"]
        BY <3>1, CallsBegin
      <4> QED  BY <2>2, <4>1 DEF Shape
    <3>2. ASSUME NEW c \in Clients, ClientStep(c)
          PROVE  stage[p] # "new" /\ rsid[p] \notin live
      <4>1. Return(c) /\ kind[c] # "open" /\ obj[c] = p /\ pc[c] = "return"
            /\ (kind[c] = "finalize" \/ (kind[c] = "close" /\ res[c] = "ok"))
        BY <2>2, <3>2 DEF ClientStep, Write, Connect, Send, ConnectFails, Read, Retry, Return,
            Unref, Shape
      <4>2. CASE kind[c] = "finalize"
        <5>1. \A d \in Clients : pc'[d] = "idle"
          BY <4>1, <4>2 DEF ObjectInv, OpenerOf, Return, Shape
        <5>2. Users(p)' = {}
          BY <5>1 DEF Users
        <5>3. Cardinality(Users(p)') = 0
          BY <5>2, FS_EmptySet
        <5>4. ref'[p] = Cardinality(Users(p)') - 1 /\ ref'[p] >= 0
          BY DEF RefOf
        <5> QED  BY <5>3, <5>4
      <4>3. CASE kind[c] = "close" /\ res[c] = "ok"
        BY <4>1, <4>3 DEF ObjectInv, CloseOf, ClosingOk, OkComing
      <4> QED  BY <4>1, <4>2, <4>3
    <3>3. ASSUME NEW k \in Conns, Serves(k)  PROVE FALSE
      BY <2>2, <3>3, ServesKeep
    <3>4. ASSUME Stops  PROVE FALSE
      BY <2>2, <3>4, StopsKeep
    <3> QED  BY <3>1, <3>2, <3>3, <3>4, StepKinds
  <2> QED  BY <2>1, <2>2
<1> QED  BY <1>0, <1>1, SidStep

\* Of several closes of one session one succeeds, whichever replies are lost.
LEMMA CloseStep ==
  ASSUME Shape, WireInv, ObjectInv, [Next]_vars, NEW d \in Clients,
         \A o \in Objects : RefOf(o)'
  PROVE  CloseOf(d)'
<1> USE DEF client, table, wire, daemon, queues
<1> SUFFICES ASSUME ClosingOk(d)'
             PROVE  /\ stage'[obj'[d]] = "listed" /\ rsid'[obj'[d]] \notin live'
                    /\ \A e \in Clients : ClosingOk(e)' /\ obj'[e] = obj'[d] => e = d
  BY DEF CloseOf
<1>p. PICK p \in Objects : p = obj[d]
  BY DEF Shape
<1>0. p \in Objects /\ rsid[p] # nextsid
  BY DEF WireInv, SidsBelow, Shape, Sids
<1>1. \A e \in Clients : ClosingOk(e)' =>
         /\ kind[e] = "close" /\ obj'[e] = obj[e] /\ pc[e] \in {"read", "return"}
         /\ ClosingOk(e) \/ Decided(e)
  BY OkStep DEF ClosingOk
<1>2. \A e \in Clients : kind[e] = "close" /\ Decided(e) =>
         rsid[obj[e]] \in live /\ live' = live \ {rsid[obj[e]]}
  <2> SUFFICES ASSUME NEW e \in Clients, kind[e] = "close", Decided(e)
               PROVE  rsid[obj[e]] \in live /\ live' = live \ {rsid[obj[e]]}
    OBVIOUS
  <2>1. Conn(e) \in Conns /\ Mine(e, Conn(e))
    BY ReaderConn DEF Decided, ConnOf
  <2>2. PICK s \in Nat : Answers(Conn(e), "ok", s)
    BY DEF Decided
  <2> QED  BY <2>1, <2>2 DEF Answers, Mine
<1>3. \A e \in Clients : ClosingOk(e) => stage[obj[e]] = "listed" /\ rsid[obj[e]] \notin live
                             /\ \A f \in Clients : ClosingOk(f) /\ obj[f] = obj[e] => f = e
  BY DEF ObjectInv, CloseOf
<1>4. \A e, f \in Clients : Decided(e) /\ Decided(f) => e = f
  <2> SUFFICES ASSUME NEW e \in Clients, NEW f \in Clients, Decided(e), Decided(f), e # f  PROVE FALSE
    OBVIOUS
  <2>1. Conn(e) \in Conns /\ Conn(f) \in Conns /\ Conn(e) # Conn(f) /\ serv[Conn(f)] = "exec"
    BY ReaderConn DEF Decided
  <2>2. serv' = [serv EXCEPT ![Conn(e)] = "write"] /\ serv' = [serv EXCEPT ![Conn(f)] = "write"]
    BY DEF Decided, Answers, Answer
  <2> QED  BY <2>1, <2>2 DEF Shape
<1>5. stage[p] = "listed"
  <2>1. CASE ClosingOk(d)
    BY <1>p, <1>3, <2>1
  <2>2. CASE ~ClosingOk(d)
    <3>1. rsid[p] \in live /\ d \in Users(p)
      BY <1>p, <1>1, <1>2, <2>2 DEF Users
    <3> QED  BY <1>0, <3>1 DEF ObjectInv, RefOf, GoneOf, Shape
  <2> QED  BY <2>1, <2>2
<1>6. stage'[p] = "listed"
  <2>0. d \in Users(p)'
    <3>1. pc'[d] # "idle" /\ kind'[d] = "close" /\ obj'[d] = p
      BY <1>p, <1>1 DEF ClosingOk, OkComing
    <3> QED  BY <3>1 DEF Users
  <2>1. stage'[p] # "deleted"
    BY <1>0, <2>0 DEF RefOf
  <2>2. ASSUME NEW c \in Clients, NEW o \in Objects, Calls(c, o)  PROVE stage'[p] = "listed"
    <3>1. stage' = stage \/ (stage' = [stage EXCEPT ![o] = "new"] /\ stage[o] = "unborn")
      BY <2>2, CallsBegin
    <3> QED  BY <1>0, <1>5, <3>1 DEF Shape
  <2>3. ASSUME NEW c \in Clients, ClientStep(c)  PROVE stage'[p] = "listed"
    <3>1. CASE ~Return(c)
      BY <1>5, <2>3, <3>1, InsideKeeps DEF ClientStep
    <3>2. CASE Return(c)
      <4>1. c # d
        BY <3>2 DEF ClosingOk, OkComing, Return, Shape
      <4>2. pc[c] = "return" /\ pc[d] # "idle"
        BY <1>1, <3>2 DEF Return
      <4>3. CASE obj[c] # p
        BY <1>0, <1>5, <3>2, <4>3 DEF Return, Unref, Shape
      <4>4. CASE obj[c] = p
        <5>1. kind[c] # "open"
          BY <1>5, <4>2, <4>4 DEF ObjectInv, OpenerOf, Opening
        <5>2. kind[c] # "finalize"
          BY <4>1, <4>2 DEF ObjectInv, OpenerOf
        <5>3. ~(kind[c] = "close" /\ res[c] = "ok")
          <6> SUFFICES ASSUME kind[c] = "close" /\ res[c] = "ok"  PROVE FALSE
            OBVIOUS
          <6>1. ClosingOk(c)
            BY <4>2 DEF ClosingOk, OkComing
          <6>2. rsid[p] \notin live /\ (ClosingOk(d) => d = c)
            BY <1>p, <1>3, <4>4, <6>1
          <6> QED  BY <1>p, <1>1, <1>2, <4>1, <6>2
        <5>4. Unref(p, FALSE)
          BY <3>2, <4>4, <5>1, <5>2, <5>3 DEF Return
        <5> QED  BY <1>0, <1>5, <2>1, <5>4 DEF Unref, Shape
      <4> QED  BY <4>3, <4>4
    <3> QED  BY <3>1, <3>2
  <2>4. ASSUME NEW k \in Conns, Serves(k)  PROVE stage'[p] = "listed"
    BY <1>5, <2>4, ServesKeep
  <2>5. ASSUME Stops  PROVE stage'[p] = "listed"
    BY <1>5, <2>5, StopsKeep
  <2> QED  BY <2>2, <2>3, <2>4, <2>5, StepKinds
<1>7. rsid'[p] = rsid[p] /\ rsid[p] \notin live'
  <2>1. rsid'[p] = rsid[p]
    BY <1>0, <1>5, SidStep
  <2>2. CASE ClosingOk(d)
    BY <1>p, <1>0, <1>3, <2>1, <2>2, SidStep
  <2>3. CASE ~ClosingOk(d)
    BY <1>p, <1>1, <1>2, <2>1, <2>3
  <2> QED  BY <2>2, <2>3, <2>1
<1>8. ASSUME NEW e \in Clients, ClosingOk(e)', obj'[e] = obj'[d]  PROVE e = d
  <2>1. obj[e] = p /\ obj'[d] = p
    BY <1>p, <1>1, <1>8
  <2> QED  BY <1>1, <1>2, <1>3, <1>4, <1>8, <2>1
<1> QED  BY <1>p, <1>1, <1>6, <1>7, <1>8

----------------------------------------------------------------------------
(* Executions. *)

\* A client has finitely many requests under way.
LEMMA PendingFinite ==
  ASSUME NEW c
  PROVE  IsFiniteSet(Pending(c)) /\ Cardinality(Pending(c)) \in Nat
<1>1. IsFiniteSet(Conns)
  BY FS_Interval DEF Conns
<1>2. Pending(c) \subseteq Conns
  BY DEF Pending
<1> QED  BY <1>1, <1>2, FS_Subset, FS_CardinalityType

\* A request is executed at most once for each time it was sent.
LEMMA CountStep ==
  ASSUME Shape, WireInv, ObjectInv, [Next]_vars, NEW d \in Clients,
         done[d] + Cardinality(Pending(d)) <= Sent(d)
  PROVE  (done[d] + Cardinality(Pending(d)) <= Sent(d))'
<1> USE DEF client, table, wire, daemon, queues
<1> DEFINE Goal == (done[d] + Cardinality(Pending(d)) <= Sent(d))'
<1>0. /\ done[d] \in Nat /\ Cardinality(Pending(d)) \in Nat /\ IsFiniteSet(Pending(d))
      /\ Sent(d) \in Nat /\ done[d] + Cardinality(Pending(d)) <= Sent(d)
  BY PendingFinite DEF Sent, Shape
<1>a. ASSUME Pending(d)' \subseteq Pending(d), done'[d] = done[d], Sent(d)' \in Nat, Sent(d) <= Sent(d)'
      PROVE  Goal
  <2>1. IsFiniteSet(Pending(d)') /\ Cardinality(Pending(d)') <= Cardinality(Pending(d))
        /\ Cardinality(Pending(d)') \in Nat
    BY <1>0, <1>a, FS_Subset, FS_CardinalityType
  <2>2. \A a, m, n, s, t \in Nat : a + m <= s /\ n <= m /\ s <= t => a + n <= t
    OBVIOUS
  <2> HIDE DEF Sent, Pending
  <2> QED  BY <1>0, <1>a, <2>1, <2>2
<1>b. ASSUME Pending(d)' = {}, done'[d] = 0, Sent(d)' \in Nat
      PROVE  Goal
  <2>1. Cardinality(Pending(d)') = 0
    BY <1>b, FS_EmptySet
  <2> QED  BY <1>b, <2>1
<1>c. \A k \in Conns : msg[k] # NoMsg => msg[k].call \in 1 .. calls /\ msg[k].from \in Clients
  BY DEF WireInv, ConnOf, Shape, Messages
<1>1. ASSUME NEW c \in Clients, NEW o \in Objects, Calls(c, o)  PROVE Goal
  <2>1. PICK x \in Kinds : Begin(c, x, o)
    BY <1>1, CallsBegin
  <2>2. CASE d = c
    <3>1. call'[d] = calls + 1 /\ msg' = msg /\ done'[d] = 0 /\ Sent(d)' \in Nat
      BY <2>1, <2>2 DEF Begin, Shape, WireInv, ClientOf, Sent
    <3>2. Pending(d)' = {}
      BY <1>c, <3>1 DEF Pending, Shape
    <3> QED  BY <1>b, <3>1, <3>2
  <2>3. CASE d # c
    <3>1. call'[d] = call[d] /\ pc'[d] = pc[d] /\ try'[d] = try[d] /\ res'[d] = res[d] /\ UNCHANGED <<msg, serv, done>>
      BY <2>1, <2>3 DEF Begin, Shape
    <3>2. Pending(d)' = Pending(d) /\ Sent(d)' = Sent(d)
      BY <3>1 DEF Pending, Sent
    <3> QED  BY <1>0, <1>a, <3>1, <3>2
  <2> QED  BY <2>2, <2>3
<1>2. ASSUME NEW c \in Clients, ClientStep(c)  PROVE Goal
  <2>1. CASE Write(c) \/ Connect(c)
    <3>1. PICK k \in Conns : /\ Send(c, k)
                             /\ \A j \in Conns : j # k => serv'[j] = serv[j]
      BY <2>1 DEF Write, Connect, Conn, Shape
    <3>2. /\ msg'[k].from = c /\ \A j \in Conns : j # k => msg'[j] = msg[j]
          /\ UNCHANGED <<call, try, res, done>> /\ pc'[c] = "read" /\ pc[c] = "send"
          /\ \A e \in Clients : e # c => pc'[e] = pc[e]
      BY <2>1, <3>1 DEF Write, Connect, Send, Shape
    <3>3. CASE d # c
      <4>1. Pending(d)' \subseteq Pending(d)
        BY <3>1, <3>2, <3>3 DEF Pending
      <4>2. Sent(d)' = Sent(d)
        BY <3>2, <3>3 DEF Sent
      <4> QED  BY <1>0, <1>a, <3>2, <4>1, <4>2
    <3>4. CASE d = c
      <4>1. Pending(d)' \subseteq Pending(d) \union {k}
        BY <3>1, <3>2 DEF Pending
      <4>2. Sent(d)' = Sent(d) + 1
        BY <3>2, <3>4 DEF Sent, Shape
      <4>3. IsFiniteSet(Pending(d) \union {k})
            /\ Cardinality(Pending(d) \union {k}) <= Cardinality(Pending(d)) + 1
        <5>0. \A m \in Nat : m <= m + 1
          OBVIOUS
        <5>1. CASE k \in Pending(d)
          <6>1. Pending(d) \union {k} = Pending(d)
            BY <5>1
          <6> QED  BY <1>0, <5>0, <6>1
        <5>2. CASE k \notin Pending(d)
          <6>1. IsFiniteSet(Pending(d) \union {k})
                /\ Cardinality(Pending(d) \union {k}) = Cardinality(Pending(d)) + 1
            BY <1>0, <5>2, FS_AddElement
          <6>2. \A m, n \in Nat : n = m + 1 => n <= m + 1
            OBVIOUS
          <6> QED  BY <1>0, <6>1, <6>2
        <5> QED  BY <5>1, <5>2
      <4>4. IsFiniteSet(Pending(d)') /\ Cardinality(Pending(d)') <= Cardinality(Pending(d) \union {k})
        BY <4>1, <4>3, FS_Subset
      <4>5. Cardinality(Pending(d)') \in Nat /\ Cardinality(Pending(d) \union {k}) \in Nat
        BY <4>3, <4>4, FS_CardinalityType
      <4>6. \A a, m, n, q, s \in Nat : a + m <= s /\ n <= q /\ q <= m + 1 => a + n <= s + 1
        OBVIOUS
      <4> HIDE DEF Sent, Pending
      <4> QED  BY <1>0, <3>2, <4>2, <4>3, <4>4, <4>5, <4>6
    <3> QED  BY <3>3, <3>4
  <2>2. CASE ConnectFails(c) \/ Read(c) \/ Retry(c)
    <3>1. UNCHANGED <<call, msg, serv, done>>
      BY <2>2 DEF ConnectFails, Read, Retry
    <3>2. Pending(d)' = Pending(d)
      BY <3>1 DEF Pending
    <3>3. Sent(d)' \in Nat /\ Sent(d) <= Sent(d)'
      <4>1. CASE d # c
        BY <2>2, <4>1 DEF ConnectFails, Read, Retry, Finish, Sent, Shape
      <4>2. CASE d = c /\ ConnectFails(c)
        BY <4>2 DEF ConnectFails, Finish, Sent, Shape
      <4>3. CASE d = c /\ Read(c)
        <5>1. pc[c] = "read" /\ pc'[c] = "return" /\ res'[c] = reply[Conn(c)].res /\ try' = try
          BY <4>3 DEF Read, Finish, Shape
        <5>2. reply[Conn(c)].res # "noresponse"
          <6>1. reply[Conn(c)] \in Replies
            BY <4>3, ReaderConn DEF Read, Shape
          <6> QED  BY <6>1 DEF Replies
        <5> QED  BY <4>3, <5>1, <5>2 DEF Sent, Shape
      <4>4. CASE d = c /\ Retry(c)
        <5>1. try'[c] = try[c] + 1 /\ try[c] \in Nat /\ pc[c] \in {"read", "send"}
          BY <4>4 DEF Retry, Shape
        <5>2. pc'[c] = "send" \/ (pc'[c] = "return" /\ res'[c] = "noresponse")
          BY <4>4 DEF Retry, Finish, Shape
        <5> QED  BY <4>4, <5>1, <5>2 DEF Sent
      <4> QED  BY <2>2, <4>1, <4>2, <4>3, <4>4
    <3> QED  BY <1>a, <3>1, <3>2, <3>3
  <2>3. CASE Return(c)
    <3>1. CASE d = c
      <4>1. call'[d] = 0 /\ msg' = msg /\ done'[d] = 0 /\ Sent(d)' \in Nat
        BY <2>3, <3>1 DEF Return, Shape, Sent
      <4>2. Pending(d)' = {}
        BY <1>c, <4>1 DEF Pending
      <4> QED  BY <1>b, <4>1, <4>2
    <3>2. CASE d # c
      <4>1. call'[d] = call[d] /\ pc'[d] = pc[d] /\ try'[d] = try[d] /\ res'[d] = res[d] /\ done'[d] = done[d]
            /\ UNCHANGED <<msg, serv>>
        BY <2>3, <3>2 DEF Return, Shape
      <4>2. Pending(d)' = Pending(d) /\ Sent(d)' = Sent(d)
        BY <4>1 DEF Pending, Sent
      <4> QED  BY <1>0, <1>a, <4>1, <4>2
    <3> QED  BY <3>1, <3>2
  <2> QED  BY <1>2, <2>1, <2>2, <2>3 DEF ClientStep
<1>3. ASSUME NEW k \in Conns, Serves(k)  PROVE Goal
  <2>1. UNCHANGED <<call, pc, try, res>> /\ Sent(d)' = Sent(d)
    BY <1>3, ServesKeep DEF Sent
  <2>2. CASE ~Executes(k)
    <3>1. done' = done
      BY <1>3, <2>2 DEF Serves, Executes, ServStep, Break, Notice, ServRead, ServReadFails,
          ServWrite, ServWriteEnd, Reached
    <3>2. \A j \in Conns : /\ msg'[j] \in {msg[j], NoMsg}
                           /\ serv'[j] \in {"read", "exec"} => serv[j] \in {"read", "exec"} \/ msg'[j] = NoMsg
      BY <1>3, <2>2 DEF Serves, Executes, ServStep, Break, Notice, ServRead, ServReadFails,
                        ServWrite, ServWriteEnd, Reached, End, CloseSession, Shape
    <3>3. Pending(d)' \subseteq Pending(d)
      BY <2>1, <3>2 DEF Pending
    <3> QED  BY <1>0, <1>a, <2>1, <3>1, <3>3
  <2>3. CASE Executes(k)
    <3>1. PICK r \in {"ok", "error"}, s \in Nat : Answer(k, r, s)
      BY <2>3, ExecutesAnswers DEF Answers
    <3>2. serv[k] = "exec" /\ msg[k] # NoMsg
      BY <2>3, ExecutesAnswers DEF WireInv, ConnOf
    <3>3. msg' = msg /\ serv' = [serv EXCEPT ![k] = "write"]
      BY <3>1 DEF Answer
    <3>4. Pending(d)' = Pending(d) \ {k}
      BY <2>1, <3>3 DEF Pending, Shape
    <3>5. CASE done'[d] = done[d]
      BY <1>0, <1>a, <2>1, <3>4, <3>5
    <3>6. CASE done'[d] # done[d]
      <4>1. msg[k].from = d /\ call[d] = msg[k].call /\ done'[d] = done[d] + 1
        BY <1>c, <3>1, <3>2, <3>6 DEF Answer, Shape
      <4>2. k \in Pending(d)
        BY <3>2, <4>1 DEF Pending
      <4>3. Cardinality(Pending(d) \ {k}) = Cardinality(Pending(d)) - 1
        BY <1>0, <4>2, FS_RemoveElement
      <4> HIDE DEF Sent, Pending
      <4> QED  BY <1>0, <2>1, <3>4, <4>1, <4>3
    <3> QED  BY <3>5, <3>6
  <2> QED  BY <2>2, <2>3
<1>4. ASSUME Stops  PROVE Goal
  <2>1. UNCHANGED <<call, pc, try, res, msg, serv, done>>
    BY <1>4, StopsKeep
  <2>2. Pending(d)' = Pending(d) /\ Sent(d)' = Sent(d)
    BY <2>1 DEF Pending, Sent
  <2> QED  BY <1>0, <1>a, <2>1, <2>2
<1> QED  BY <1>1, <1>2, <1>3, <1>4, StepKinds

\* A success that is reported was an execution.
LEMMA ReportStep ==
  ASSUME Shape, WireInv, ObjectInv, DoneInv, [Next]_vars, NEW d \in Clients, OkComing(d)'
  PROVE  done'[d] >= 1
<1> USE DEF client, table, wire, daemon, queues
<1>1. done[d] \in Nat /\ pc[d] # "idle" /\ pc'[d] # "idle"
  BY OkStep DEF OkComing, Shape
<1>2. CASE OkComing(d)
  <2>0. done[d] >= 1
    BY <1>2 DEF DoneInv, DoneOf
  <2>1. ASSUME NEW c \in Clients, NEW o \in Objects, Calls(c, o)  PROVE done' = done
    BY <2>1, CallsBegin DEF Begin
  <2>2. ASSUME NEW c \in Clients, ClientStep(c)  PROVE done'[d] = done[d]
    BY <1>1, <2>2 DEF ClientStep, Write, Connect, Send, ConnectFails, Read, Retry, Return, Shape
  <2>3. ASSUME NEW k \in Conns, Serves(k)
        PROVE  done'[d] = done[d] \/ done'[d] = done[d] + 1
    <3>1. done' = done \/ \E c : done' = [done EXCEPT ![c] = @ + 1]
      BY <2>3 DEF Serves, ServStep, Break, Notice, ServRead, ServReadFails, ServWrite,
                  ServWriteEnd, Reached, ExecOpen, ExecClose, CloseSession, ExecCall, ExecBad,
                  ExecGetEvent, ExecGetHeld, ExecGetEnd, Answer
    <3>2. CASE done' = done
      BY <1>1, <3>2
    <3>3. CASE done' # done
      <4>1. PICK c : done' = [done EXCEPT ![c] = @ + 1]
        BY <3>1, <3>3
      <4>2. done'[d] = done[d] \/ done'[d] = done[d] + 1
        BY <4>1 DEF Shape
      <4> QED  BY <1>1, <4>2
    <3> QED  BY <3>2, <3>3
  <2>4. ASSUME Stops  PROVE done' = done
    BY <2>4, StopsKeep
  <2>5. done'[d] = done[d] \/ done'[d] = done[d] + 1
    BY <2>1, <2>2, <2>3, <2>4, StepKinds
  <2> QED  BY <1>1, <2>0, <2>5
<1>3. CASE Decided(d)
  <2>1. Conn(d) \in Conns /\ Mine(d, Conn(d))
    BY <1>3, ReaderConn DEF Decided, ConnOf
  <2>2. PICK s \in Nat : Answer(Conn(d), "ok", s)
    BY <1>3 DEF Decided, Answers
  <2>3. done'[d] = done[d] + 1
    BY <2>1, <2>2 DEF Answer, Mine, Shape
  <2> QED  BY <1>1, <2>3
<1> QED  BY <1>2, <1>3, OkStep

\* No step executes more than was sent, or reports what was not executed.
LEMMA DoneStep ==
  ASSUME Shape, WireInv, ObjectInv, DoneInv, [Next]_vars
  PROVE  DoneInv'
BY CountStep, ReportStep DEF DoneInv, DoneOf

----------------------------------------------------------------------------
(* Owners of sessions. *)

\* A thread that waits for a reply was waiting for it, or has just written.
LEMMA ReadStep ==
  ASSUME Shape, WireInv, [Next]_vars, NEW d \in Clients, pc'[d] = "read"
  PROVE  \/ /\ pc[d] = "read" /\ Conn(d)' = Conn(d) /\ kind'[d] = kind[d] /\ obj'[d] = obj[d]
         \/ /\ Write(d) \/ Connect(d)
            /\ Conn(d)' \in Conns /\ serv'[Conn(d)'] = "read" /\ reply'[Conn(d)'] = NoReply
            /\ msg'[Conn(d)'] # NoMsg /\ UNCHANGED <<kind, obj>>
<1> USE DEF client, table, wire, daemon, queues
<1> DEFINE Same == /\ pc[d] = "read" /\ Conn(d)' = Conn(d) /\ kind'[d] = kind[d] /\ obj'[d] = obj[d]
<1>1. ASSUME NEW c \in Clients, NEW o \in Objects, Calls(c, o)  PROVE Same
  <2>1. PICK x \in Kinds : Begin(c, x, o)
    BY <1>1, CallsBegin
  <2> QED  BY <2>1 DEF Begin, Conn, Shape
<1>2. ASSUME NEW c \in Clients, ClientStep(c), ~(c = d /\ (Write(c) \/ Connect(c)))  PROVE Same
  <2>1. d # c
    BY <1>2 DEF ClientStep, ConnectFails, Read, Retry, Return, Finish, Shape
  <2> QED  BY <1>2, <2>1 DEF ClientStep, Write, Connect, Send, ConnectFails, Read, Retry,
      Return, Finish, Conn, Shape
<1>3. ASSUME Write(d)
      PROVE  /\ Conn(d)' \in Conns /\ serv'[Conn(d)'] = "read" /\ reply'[Conn(d)'] = NoReply
             /\ msg'[Conn(d)'] # NoMsg /\ UNCHANGED <<kind, obj>>
  <2>1. Conn(d) \in Conns /\ Conn(d) = sock[d][obj[d]] /\ obj[d] \in Objects /\ Conn(d)' = Conn(d)
    BY <1>3 DEF Write, Send, Conn, Shape
  <2>2. SockOf(d, obj[d]) /\ ConnOf(Conn(d))
    BY <2>1 DEF WireInv
  <2>3. msg[Conn(d)] = NoMsg /\ reply[Conn(d)] = NoReply
    BY <1>3, <2>1, <2>2 DEF Write, SockOf
  <2>4. serv[Conn(d)] = "read"
    BY <1>3, <2>1, <2>2, <2>3 DEF Write, ConnOf, Shape
  <2> QED  BY <1>3, <2>1, <2>3, <2>4 DEF Write, Send, Shape, NoMsg
<1>4. ASSUME Connect(d)
      PROVE  /\ Conn(d)' \in Conns /\ serv'[Conn(d)'] = "read" /\ reply'[Conn(d)'] = NoReply
             /\ msg'[Conn(d)'] # NoMsg /\ UNCHANGED <<kind, obj>>
  <2>1. PICK k \in Conns : /\ serv[k] = "unused" /\ sock' = [sock EXCEPT ![d][obj[d]] = k]
                           /\ serv' = [serv EXCEPT ![k] = "read"] /\ Send(d, k)
    BY <1>4 DEF Connect
  <2>2. ConnOf(k)
    BY DEF WireInv
  <2>3. Conn(d)' = k
    BY <2>1 DEF Send, Conn, Shape
  <2> QED  BY <2>1, <2>2, <2>3 DEF ConnOf, Send, Shape, NoMsg
<1>5. ASSUME NEW k \in Conns, Serves(k)  PROVE Same
  BY <1>5, ServesKeep DEF Conn
<1>6. ASSUME Stops  PROVE Same
  BY <1>6, StopsKeep DEF Conn
<1> QED  BY <1>1, <1>2, <1>3, <1>4, <1>5, <1>6, StepKinds

\* A reply that is on its way was, or the service thread has just written it.
LEMMA ReplyStep ==
  ASSUME Shape, WireInv, [Next]_vars, NEW d \in Clients, pc'[d] = "read", reply'[Conn(d)'] # NoReply
  PROVE  /\ pc[d] = "read" /\ Conn(d)' = Conn(d) /\ kind'[d] = kind[d] /\ obj'[d] = obj[d]
         /\ \/ reply'[Conn(d)] = reply[Conn(d)]
            \/ /\ ServWrite(Conn(d)) \/ ServWriteEnd(Conn(d))
               /\ sup[Conn(d)] /\ reply'[Conn(d)] = ans[Conn(d)]
<1> USE DEF client, table, wire, daemon, queues
<1>0. pc[d] = "read" /\ Conn(d)' = Conn(d) /\ kind'[d] = kind[d] /\ obj'[d] = obj[d]
  BY ReadStep
<1>a. Conn(d) \in Conns /\ \A c \in Clients : c # d => Conn(c) # Conn(d)
  BY <1>0, ReaderConn
<1>1. ASSUME NEW c \in Clients, NEW o \in Objects, Calls(c, o)  PROVE reply' = reply
  BY <1>1, CallsBegin DEF Begin
<1>2. ASSUME NEW c \in Clients, ClientStep(c)  PROVE reply'[Conn(d)] = reply[Conn(d)]
  <2>1. CASE c = d
    BY <1>2, <1>0, <1>a, <2>1 DEF ClientStep, Write, Connect, Send, ConnectFails, Read, Retry,
        Return, Finish, Shape
  <2>2. CASE c # d
    BY <1>2, <1>a, <2>2 DEF ClientStep, Write, Connect, Send, ConnectFails, Read, Retry, Return,
        Shape
  <2> QED  BY <2>1, <2>2
<1>3. ASSUME NEW k \in Conns, Serves(k), reply'[Conn(d)] # reply[Conn(d)]
      PROVE  /\ ServWrite(Conn(d)) \/ ServWriteEnd(Conn(d))
             /\ sup[Conn(d)] /\ reply'[Conn(d)] = ans[Conn(d)]
  <2>1. ServWrite(k) \/ ServWriteEnd(k)
    BY <1>3 DEF Serves, Break, Notice, ServStep, ServRead, ServReadFails, ExecOpen, ExecClose,
                CloseSession, ExecCall, ExecBad, ExecGetEvent, ExecGetHeld, ExecGetEnd, Answer
  <2>2. k = Conn(d) /\ sup[k] /\ reply'[k] = ans[k]
    BY <1>3, <1>a, <2>1 DEF ServWrite, ServWriteEnd, Reached, Shape
  <2> QED  BY <2>1, <2>2
<1>4. ASSUME Stops  PROVE reply' = reply
  BY <1>4, StopsKeep
<1> QED  BY <1>0, <1>1, <1>2, <1>3, <1>4, StepKinds

\* While the daemon runs, a service thread gives up its session only by closing it.
LEMMA OwnerStep ==
  ASSUME Shape, WireInv, [Next]_vars, NEW k \in Conns, my_sid[k] \in live', my_sid[k] # 0
  PROVE  my_sid'[k] = my_sid[k]
<1> USE DEF client, table, wire, daemon, queues
<1>1. ASSUME NEW c \in Clients, NEW o \in Objects, Calls(c, o)  PROVE my_sid' = my_sid
  BY <1>1, CallsBegin DEF Begin
<1>2. ASSUME NEW c \in Clients, ClientStep(c)  PROVE my_sid' = my_sid
  BY <1>2 DEF ClientStep, Write, Connect, Send, ConnectFails, Read, Retry, Return
<1>3. ASSUME NEW j \in Conns, Serves(j)  PROVE my_sid'[k] = my_sid[k]
  <2>1. CASE ServReadFails(j) \/ ServWriteEnd(j)
    BY <2>1 DEF ServReadFails, ServWriteEnd, End, CloseSession, Shape
  <2>2. CASE ServWrite(j)
    <3>1. msg[j].kind = "open" => my_sid[j] = 0
      BY <2>2 DEF ServWrite, WireInv, ConnOf
    <3> QED  BY <2>2, <3>1 DEF ServWrite, Shape
  <2>3. CASE ~(ServReadFails(j) \/ ServWriteEnd(j) \/ ServWrite(j))
    BY <1>3, <2>3 DEF Serves, Break, Notice, ServStep, ServRead, ExecOpen, ExecClose, CloseSession,
                      ExecCall, ExecBad, ExecGetEvent, ExecGetHeld, ExecGetEnd, Answer
  <2> QED  BY <2>1, <2>2, <2>3
<1>4. ASSUME Stops  PROVE my_sid' = my_sid
  BY <1>4, StopsKeep
<1> QED  BY <1>1, <1>2, <1>3, <1>4, StepKinds

\* A daemon that was told to stop does not start again.
LEMMA StopIsFinal ==
  ASSUME [Next]_vars, stop' = "no"
  PROVE  stop = "no"
<1> USE DEF client, table, wire, daemon, queues
<1>1. ASSUME NEW c \in Clients, NEW o \in Objects, Calls(c, o)  PROVE stop' = stop
  BY <1>1, CallsBegin DEF Begin
<1>2. ASSUME NEW c \in Clients, ClientStep(c)  PROVE stop' = stop
  BY <1>2 DEF ClientStep, Write, Connect, Send, ConnectFails, Read, Retry, Return
<1>3. ASSUME NEW k \in Conns, Serves(k)  PROVE stop' = stop
  BY <1>3 DEF Serves, ServStep, Break, Notice, ServRead, ServReadFails, ServWrite, ServWriteEnd,
              Reached, ExecOpen, ExecClose, CloseSession, ExecCall, ExecBad, ExecGetEvent,
              ExecGetHeld, ExecGetEnd, Answer
<1>4. ASSUME Stops  PROVE stop' = stop
  BY <1>4 DEF Stops, RequestStop, StopStep, PostQuit, MuxQuit, ServerRunEnds, vars
<1> QED  BY <1>1, <1>2, <1>3, <1>4, StepKinds

\* A session the client knows of, or is about to, keeps its owner.
LEMMA OwnStep ==
  ASSUME Shape, WireInv, ObjectInv, OwnInv, [Next]_vars, Shape', SidsBelow'
  PROVE  OwnInv'
<1> USE DEF client, table, wire, daemon, queues
<1> SUFFICES ASSUME stop' = "no"
             PROVE  /\ \A o \in Objects : Owned(rsid[o])'
                    /\ \A c \in Clients : ReplyOwned(c)'
  BY DEF OwnInv
<1>1. stop = "no"
  BY StopIsFinal
<1>2. /\ \A o \in Objects : Owned(rsid[o])
      /\ \A c \in Clients : ReplyOwned(c)
  BY <1>1 DEF OwnInv
<1>3. 0 \notin live' /\ \A s \in live' : s \in live \/ s = nextsid
  BY SidStep DEF Shape, Sids
<1>4. \A k \in Conns : my_sid[k] \in live' => my_sid'[k] = my_sid[k]
  BY <1>3, OwnerStep
<1>5. ASSUME NEW o \in Objects  PROVE Owned(rsid[o])'
  <2> SUFFICES ASSUME rsid'[o] \in live'  PROVE \E k \in Conns : my_sid'[k] = rsid'[o]
    BY DEF Owned
  <2>1. CASE rsid'[o] = rsid[o]
    <3>1. rsid[o] # nextsid
      BY DEF WireInv, SidsBelow, Shape, Sids
    <3>2. rsid[o] \in live
      BY <1>3, <2>1, <3>1
    <3>3. PICK k \in Conns : my_sid[k] = rsid[o]
      BY <1>2, <3>2 DEF Owned
    <3> QED  BY <1>4, <2>1, <3>3
  <2>2. CASE rsid'[o] # rsid[o]
    <3>1. PICK c \in Clients : Read(c) /\ kind[c] = "open" /\ rsid'[o] = reply[Conn(c)].sid
      <4>1. ASSUME NEW c \in Clients, NEW p \in Objects, Calls(c, p)  PROVE FALSE
        BY <2>2, <4>1, CallsBegin
      <4>2. ASSUME NEW c \in Clients, ClientStep(c)
            PROVE  Read(c) /\ kind[c] = "open" /\ rsid'[o] = reply[Conn(c)].sid
        BY <2>2, <4>2 DEF ClientStep, Write, Connect, Send, ConnectFails, Read, Retry, Return, Shape
      <4>3. ASSUME NEW k \in Conns, Serves(k)  PROVE FALSE
        BY <2>2, <4>3, ServesKeep
      <4>4. ASSUME Stops  PROVE FALSE
        BY <2>2, <4>4, StopsKeep
      <4> QED  BY <4>1, <4>2, <4>3, <4>4, StepKinds
    <3>2. live' = live /\ my_sid' = my_sid /\ pc[c] = "read" /\ reply[Conn(c)] # NoReply
      BY <3>1 DEF Read
    <3>3. Conn(c) \in Conns
      BY <3>2, ReaderConn
    <3> QED  BY <1>2, <3>1, <3>2, <3>3 DEF ReplyOwned
  <2> QED  BY <2>1, <2>2
<1>6. ASSUME NEW d \in Clients  PROVE ReplyOwned(d)'
  <2> SUFFICES ASSUME pc'[d] = "read", kind'[d] = "open", reply'[Conn(d)'] # NoReply,
                      reply'[Conn(d)'].sid \in live'
               PROVE  my_sid'[Conn(d)'] = reply'[Conn(d)'].sid
    BY DEF ReplyOwned
  <2>1. /\ pc[d] = "read" /\ Conn(d)' = Conn(d) /\ kind[d] = "open"
        /\ \/ reply'[Conn(d)] = reply[Conn(d)]
           \/ /\ ServWrite(Conn(d)) \/ ServWriteEnd(Conn(d))
              /\ sup[Conn(d)] /\ reply'[Conn(d)] = ans[Conn(d)]
    BY ReplyStep
  <2>2. Conn(d) \in Conns /\ ConnOf(Conn(d)) /\ (msg[Conn(d)] # NoMsg => Mine(d, Conn(d)))
    BY <2>1, ReaderConn
  <2>3. CASE reply'[Conn(d)] = reply[Conn(d)]
    <3>1. reply[Conn(d)].sid # nextsid
      BY <2>1, <2>2, <2>3 DEF WireInv, SidsBelow, Shape, Replies, Sids
    <3>2. reply[Conn(d)].sid \in live
      BY <1>3, <2>1, <2>3, <3>1
    <3> QED  BY <1>2, <1>4, <2>1, <2>2, <2>3, <3>2 DEF ReplyOwned
  <2>4. CASE /\ ServWrite(Conn(d)) \/ ServWriteEnd(Conn(d))
             /\ sup[Conn(d)] /\ reply'[Conn(d)] = ans[Conn(d)]
    <3>1. serv[Conn(d)] = "write" /\ msg[Conn(d)].kind = "open"
      BY <2>1, <2>2, <2>4 DEF ServWrite, ServWriteEnd, ConnOf, Mine
    <3>2. ServWrite(Conn(d))
      BY <1>1, <2>4, <3>1 DEF ServWriteEnd, Closes
    <3>3. ans[Conn(d)].res = "ok"
      BY <1>3, <2>1, <2>2, <2>4, <3>1 DEF ConnOf
    <3> QED  BY <2>1, <2>2, <2>4, <3>1, <3>2, <3>3 DEF ServWrite, Shape
  <2> QED  BY <2>1, <2>3, <2>4
<1> QED  BY <1>5, <1>6

----------------------------------------------------------------------------
(* Without faults: the steps that remain. *)

\* A new object is its opener's alone.
LEMMA FreshStep ==
  ASSUME Shape, WireInv, ObjectInv, FreshInv, [Next]_vars
  PROVE  FreshInv'
<1> USE DEF client, table, wire, daemon, queues
<1>0. /\ \A o \in Objects : FreshOf(o) /\ UnbornOf(o)
      /\ \A c \in Clients : Opening(c) /\ pc[c] # "return" => rsid[obj[c]] = 0
  BY DEF FreshInv, WireInv
<1>1. ASSUME NEW c \in Clients, NEW o \in Objects, Calls(c, o)  PROVE FreshInv'
  <2>1. PICK x \in Kinds :
           /\ Begin(c, x, o) /\ rsid' = rsid
           /\ \/ x = "open" /\ stage[o] = "unborn" /\ stage' = [stage EXCEPT ![o] = "new"]
              \/ x # "open" /\ stage' = stage
    BY <1>1, CallsBegin
  <2>2. /\ pc'[c] = "send" /\ kind'[c] = x /\ obj'[c] = o /\ pc[c] = "idle" /\ sock' = sock
        /\ \A e \in Clients : e # c => pc'[e] = pc[e] /\ kind'[e] = kind[e] /\ obj'[e] = obj[e]
    BY <2>1 DEF Begin, Shape
  <2>3. ASSUME NEW p \in Objects  PROVE FreshOf(p)'
    BY <1>0, <2>1, <2>2 DEF FreshOf, UnbornOf, Opening, Shape
  <2>4. ASSUME NEW e \in Clients, Opening(e)', pc'[e] # "return"  PROVE rsid'[obj'[e]] = 0
    BY <1>0, <2>1, <2>2, <2>4 DEF FreshOf, Opening
  <2> QED  BY <2>3, <2>4 DEF FreshInv
<1>2. ASSUME NEW c \in Clients, ClientStep(c)  PROVE FreshInv'
  <2>1. CASE ~Return(c)
    <3>1. /\ pc[c] # "idle" /\ pc'[c] # "idle" /\ UNCHANGED <<obj, kind, stage>>
          /\ \A d \in Clients : d # c => pc'[d] = pc[d]
      BY <1>2, <2>1, InsideKeeps DEF ClientStep
    <3>2. \A d \in Clients : Opening(d)' <=> Opening(d)
      BY <3>1 DEF Opening
    <3>3. \A d \in Clients, p \in Objects : sock'[d][p] # sock[d][p] /\ sock'[d][p] # 0 => d = c /\ p = obj[c]
      BY <1>2, <2>1 DEF ClientStep, Write, Connect, Send, ConnectFails, Read, Retry, Shape
    <3>4. stage[obj[c]] = "new" => Opening(c)
      <4>1. c \in Users(obj[c]) \/ Opening(c)
        BY <3>1 DEF Users, Opening
      <4> QED  BY <4>1 DEF ObjectInv, RefOf, Shape
    <3>5. \A p \in Objects : rsid'[p] # rsid[p] => Read(c) /\ kind[c] = "open" /\ p = obj[c]
      BY <1>2, <2>1 DEF ClientStep, Write, Connect, Send, ConnectFails, Read, Retry, Shape
    <3>6. ASSUME NEW p \in Objects  PROVE FreshOf(p)'
      <4>1. stage[p] = "unborn" => rsid'[p] = 0
        BY <1>0, <3>1, <3>5 DEF FreshOf, ObjectInv, OpenerOf, Opening
      <4> QED  BY <1>0, <3>1, <3>2, <3>3, <3>4, <4>1 DEF FreshOf
    <3>7. ASSUME NEW e \in Clients, Opening(e)', pc'[e] # "return"  PROVE rsid'[obj'[e]] = 0
      <4>1. Opening(e) /\ pc[e] # "return" /\ obj'[e] = obj[e] /\ obj[e] \in Objects
        BY <1>2, <2>1, <3>1, <3>2, <3>7 DEF ClientStep, Write, Connect, Send, ConnectFails,
            Read, Retry, Finish, Shape
      <4>2. Read(c) /\ kind[c] = "open" => obj[e] # obj[c]
        <5> SUFFICES ASSUME Read(c), kind[c] = "open"  PROVE obj[e] # obj[c]
          OBVIOUS
        <5>1. e # c
          BY <3>7 DEF Read, Finish, Shape
        <5> QED  BY <3>1, <4>1, <5>1, OpenerAlone DEF Opening
      <4> QED  BY <1>0, <3>5, <4>1, <4>2
    <3> QED  BY <3>6, <3>7 DEF FreshInv
  <2>2. CASE Return(c)
    <3>1. /\ pc'[c] = "idle" /\ pc[c] = "return" /\ UNCHANGED <<obj, sock, rsid>>
          /\ \A e \in Clients : e # c => pc'[e] = pc[e] /\ kind'[e] = kind[e]
          /\ \A p \in Objects : p # obj[c] => stage'[p] = stage[p]
          /\ stage'[obj[c]] \in {"listed", "unlisted", "deleted", stage[obj[c]]}
          /\ kind[c] = "open" => stage'[obj[c]] \in {"listed", "deleted"}
      BY <2>2 DEF Return, Unref, Shape
    <3>2. stage[obj[c]] # "unborn" /\ (stage[obj[c]] = "new" => kind[c] = "open")
      <4>1. c \in Users(obj[c]) \/ Opening(c)
        BY <3>1 DEF Users, Opening
      <4> QED  BY <4>1 DEF ObjectInv, RefOf, OpenerOf, Opening, Shape
    <3>3. \A e \in Clients : e # c => (Opening(e)' <=> Opening(e))
      BY <3>1 DEF Opening
    <3>4. ASSUME NEW p \in Objects  PROVE FreshOf(p)'
      <4>1. CASE p = obj[c]
        BY <3>1, <3>2, <4>1 DEF FreshOf
      <4>2. CASE p # obj[c]
        BY <1>0, <3>1, <3>3, <4>2 DEF FreshOf
      <4> QED  BY <4>1, <4>2
    <3>5. ASSUME NEW e \in Clients, Opening(e)', pc'[e] # "return"  PROVE rsid'[obj'[e]] = 0
      BY <1>0, <3>1, <3>3, <3>5 DEF Opening
    <3> QED  BY <3>4, <3>5 DEF FreshInv
  <2> QED  BY <2>1, <2>2
<1>3. ASSUME NEW k \in Conns, Serves(k)  PROVE FreshInv'
  <2>1. UNCHANGED <<pc, kind, obj, sock, rsid, stage>>
    BY <1>3, ServesKeep
  <2> QED  BY <1>0, <2>1 DEF FreshInv, FreshOf, Opening
<1>4. ASSUME Stops  PROVE FreshInv'
  <2>1. UNCHANGED <<pc, kind, obj, sock, rsid, stage>>
    BY <1>4, StopsKeep
  <2> QED  BY <1>0, <2>1 DEF FreshInv, FreshOf, Opening
<1> QED  BY <1>1, <1>2, <1>3, <1>4, StepKinds

Core == Shape /\ WireInv /\ ObjectInv /\ FreshInv

\* While no connection broke, a running service thread has a socket that is up, and
\* its request is of a thread that waits for it.
LEMMA CalmServer ==
  ASSUME Core, Calm, NEW k \in Conns, serv[k] \in {"exec", "write"}
  PROVE  \E e \in Clients :
           /\ e = msg[k].from /\ pc[e] = "read" /\ Conn(e) = k /\ Mine(e, k)
           /\ sup[k] /\ cup[k] = "up" /\ msg[k].bad = FALSE /\ msg[k] # NoMsg /\ reply[k] = NoReply
<1>1. ConnOf(k) /\ CalmConn(k)
  BY DEF Core, WireInv, Calm
<1>2. msg[k] # NoMsg /\ reply[k] = NoReply
  BY <1>1 DEF ConnOf
<1>3. msg[k].from \in Clients
  BY <1>2 DEF Core, Shape, Messages
<1>4. PICK e \in Clients : e = msg[k].from
  BY <1>3
<1>5. pc[e] = "read" /\ Conn(e) = k /\ sup[k] /\ cup[k] = "up" /\ msg[k].bad = FALSE
  BY <1>1, <1>2, <1>4 DEF CalmConn
<1>6. Mine(e, k)
  BY <1>2, <1>5, ReaderConn DEF Core
<1> QED  BY <1>2, <1>4, <1>5, <1>6

\* The steps that remain when nothing breaks: a thread gives up a socket only
\* before it writes, and a service thread ends only after a close.
Quiet(k) == \/ Notice(k) /\ serv[k] \notin {"read", "exec", "write"}
            \/ ServRead(k) \/ ServWrite(k) \/ Executes(k)
            \/ ServWriteEnd(k) /\ Closes(k)
GivesUp(c) == /\ Retry(c) /\ pc[c] = "send" /\ Conn(c) \in Conns /\ reply[Conn(c)] = NoReply
              /\ UNCHANGED <<bad, reply>>
Advance(c) == Write(c) \/ Connect(c) \/ Read(c) \/ GivesUp(c) \/ Return(c)

\* The steps of a run without breaks and without a stop.
LEMMA CalmSteps ==
  ASSUME Core, CalmInv, [Next]_vars, faults' = 0, stop' = "no"
  PROVE  /\ faults = 0 /\ stop = "no" /\ Calm
         /\ \/ \E c \in Clients, o \in Objects : Calls(c, o)
            \/ \E c \in Clients : Advance(c)
            \/ \E k \in Conns : Quiet(k)
            \/ UNCHANGED vars
<1> USE DEF client, table, wire, daemon, queues
<1>0. stop = "no" /\ faults \in Nat
  BY StopIsFinal DEF Core, Shape
<1>1. CASE \E c \in Clients, o \in Objects : Calls(c, o)
  <2>1. faults' = faults
    BY <1>1, CallsBegin DEF Begin
  <2> QED  BY <1>0, <1>1, <2>1 DEF CalmInv
<1>2. ASSUME NEW c \in Clients, ClientStep(c)  PROVE faults = 0 /\ Calm /\ Advance(c)
  <2>1. faults' = faults /\ ~ConnectFails(c)
    BY <1>0, <1>2 DEF ClientStep, Write, Connect, Send, ConnectFails, Read, Retry, Return
  <2>2. Calm
    BY <1>0, <2>1 DEF CalmInv
  <2>3. CASE Retry(c)
    <3>1. Conn(c) \in Conns /\ ConnOf(Conn(c)) /\ CalmConn(Conn(c)) /\ serv[Conn(c)] # "unused"
      <4>1. Conn(c) # 0
        BY <2>3 DEF Retry, Core, WireInv, ClientOf
      <4>2. Conn(c) \in Conns /\ Conn(c) = sock[c][obj[c]] /\ obj[c] \in Objects
        BY <4>1 DEF Core, Shape, Conn
      <4>3. SockOf(c, obj[c]) /\ ConnOf(Conn(c)) /\ CalmConn(Conn(c))
        BY <2>2, <4>2 DEF Core, WireInv, Calm
      <4> QED  BY <4>1, <4>2, <4>3 DEF SockOf
    <3>2. reply[Conn(c)] = NoReply /\ bad' = bad
      BY <2>3, <3>1 DEF Retry, CalmConn
    <3>3. serv[Conn(c)] = "done"
      BY <2>3, <3>1 DEF Retry, CalmConn, Core, Shape
    <3>4. msg[Conn(c)] = NoMsg
      BY <3>1, <3>3 DEF ConnOf
    <3>5. pc[c] = "send"
      BY <2>2, <2>3, <3>2, <3>4 DEF Retry, Calm, CalmClient
    <3>6. reply' = reply
      BY <2>3, <3>1, <3>2 DEF Retry, Core, Shape
    <3> QED  BY <2>1, <2>2, <2>3, <3>1, <3>2, <3>5, <3>6 DEF Advance, GivesUp
  <2> QED  BY <1>0, <1>2, <2>1, <2>2, <2>3 DEF ClientStep, Advance
<1>3. ASSUME NEW k \in Conns, Serves(k)  PROVE faults = 0 /\ Calm /\ Quiet(k)
  <2>1. faults' = faults /\ ~Break(k)
    BY <1>0, <1>3 DEF Serves, Break, Notice, ServStep, ServRead, ServReadFails, ServWrite,
                      ServWriteEnd, Reached, ExecOpen, ExecClose, CloseSession, ExecCall, ExecBad,
                      ExecGetEvent, ExecGetHeld, ExecGetEnd, Answer
  <2>2. Calm
    BY <1>0, <2>1 DEF CalmInv
  <2>3. CalmConn(k)
    BY <2>2 DEF Calm
  <2>4. CASE Notice(k) \/ ServReadFails(k)
    BY <1>0, <2>1, <2>2, <2>3, <2>4 DEF Notice, ServReadFails, CalmConn, Quiet
  <2>5. CASE ServWriteEnd(k)
    BY <1>0, <2>1, <2>2, <2>3, <2>5 DEF ServWriteEnd, CalmConn, Quiet
  <2> QED  BY <1>3, <2>1, <2>2, <2>4, <2>5 DEF Serves, ServStep, Executes, Quiet
<1>4. ASSUME Stops  PROVE faults = 0 /\ Calm /\ UNCHANGED vars
  <2>1. UNCHANGED vars
    BY <1>0, <1>4 DEF Core, Shape, Stops, RequestStop, StopStep, PostQuit, MuxQuit, ServerRunEnds
  <2>2. faults' = faults
    BY <2>1 DEF vars
  <2> QED  BY <1>0, <2>1, <2>2 DEF CalmInv
<1> QED  BY <1>0, <1>1, <1>2, <1>3, <1>4, StepKinds

----------------------------------------------------------------------------
(* Without faults: connections and clients. *)

\* One of the steps that remain when nothing breaks.
CalmNext == \/ \E c \in Clients, o \in Objects : Calls(c, o)
            \/ \E c \in Clients : Advance(c)
            \/ \E k \in Conns : Quiet(k)
            \/ UNCHANGED vars

\* A thread that waits keeps its request or its reply.
LEMMA CalmConnStep ==
  ASSUME Core, Calm, CalmNext, stop = "no", NEW j \in Conns
  PROVE  CalmConn(j)'
<1> USE DEF client, table, wire, daemon, queues
<1>0. CalmConn(j) /\ ConnOf(j) /\ (msg[j] # NoMsg => msg[j].from \in Clients)
  BY DEF Core, Calm, WireInv, Shape, Messages
<1>a. ASSUME cup'[j] = cup[j], sup'[j] = sup[j], serv'[j] = serv[j], msg'[j] = msg[j],
             \A e \in Clients : pc[e] = "read" => pc'[e] = "read" /\ Conn(e)' = Conn(e)
      PROVE  CalmConn(j)'
  BY <1>0, <1>a DEF CalmConn
<1>1. ASSUME NEW c \in Clients, NEW o \in Objects, Calls(c, o)  PROVE CalmConn(j)'
  <2>1. PICK x \in Kinds : Begin(c, x, o)
    BY <1>1, CallsBegin
  <2> QED  BY <1>a, <2>1 DEF Begin, Conn, Core, Shape
<1>2. ASSUME NEW c \in Clients, Advance(c)  PROVE CalmConn(j)'
  <2>1. ASSUME NEW k \in Conns, Send(c, k), pc[c] = "send", sock'[c][obj[c]] = k,
               \A a \in Clients : a # c => sock'[a] = sock[a],
               cup'[k] = "up", sup'[k], j # k => cup'[j] = cup[j] /\ sup'[j] = sup[j] /\ serv'[j] = serv[j]
        PROVE  CalmConn(j)'
    <3>1. /\ pc'[c] = "read" /\ Conn(c)' = k
          /\ \A e \in Clients : pc[e] = "read" => pc'[e] = "read" /\ Conn(e)' = Conn(e)
      BY <2>1 DEF Send, Conn, Core, Shape
    <3>2. CASE j = k
      <4>1. msg'[k].from = c /\ msg'[k].bad = FALSE
        BY <2>1 DEF Send, Core, Shape, Calm, CalmClient
      <4> QED  BY <2>1, <3>1, <3>2, <4>1 DEF CalmConn
    <3>3. CASE j # k
      BY <1>a, <2>1, <3>1, <3>3 DEF Send, Core, Shape
    <3> QED  BY <3>2, <3>3
  <2>2. CASE Write(c)
    <3>1. Conn(c) \in Conns /\ ConnOf(Conn(c)) /\ CalmConn(Conn(c))
      BY <2>2 DEF Write, Conn, Core, Shape, WireInv, Calm
    <3>2. sup[Conn(c)]
      BY <2>2, <3>1 DEF Write, ConnOf, CalmConn, Core, Shape
    <3> QED  BY <2>1, <2>2, <3>1, <3>2 DEF Write, Conn
  <2>3. CASE Connect(c)
    <3>1. PICK k \in Conns : /\ sock' = [sock EXCEPT ![c][obj[c]] = k] /\ serv' = [serv EXCEPT ![k] = "read"]
                             /\ cup' = [cup EXCEPT ![k] = "up"] /\ sup' = [sup EXCEPT ![k] = TRUE]
                             /\ Send(c, k)
      BY <2>3 DEF Connect
    <3>2. /\ sock'[c][obj[c]] = k /\ cup'[k] = "up" /\ sup'[k] /\ pc[c] = "send"
          /\ \A a \in Clients : a # c => sock'[a] = sock[a]
          /\ j # k => cup'[j] = cup[j] /\ sup'[j] = sup[j] /\ serv'[j] = serv[j]
      <4>1. sup'[k] /\ (j # k => sup'[j] = sup[j])
        BY <3>1 DEF Core, Shape
      <4>2. cup'[k] = "up" /\ (j # k => cup'[j] = cup[j] /\ serv'[j] = serv[j])
        BY <3>1 DEF Core, Shape
      <4>3. sock'[c][obj[c]] = k /\ \A a \in Clients : a # c => sock'[a] = sock[a]
        BY <3>1 DEF Core, Shape
      <4> QED  BY <2>3, <4>1, <4>2, <4>3 DEF Connect
    <3> QED  BY <2>1, <3>1, <3>2
  <2>4. CASE Read(c)
    <3>1. Conn(c) \in Conns /\ msg[Conn(c)] = NoMsg
      BY <2>4, ReaderConn DEF Read, Core, ConnOf
    <3>2. msg[j] # NoMsg => msg[j].from # c
      BY <1>0, <3>1 DEF CalmConn
    <3>3. /\ \A e \in Clients : e # c => pc'[e] = pc[e] /\ Conn(e)' = Conn(e)
          /\ UNCHANGED <<cup, sup, serv, msg>>
      BY <2>4 DEF Read, Finish, Conn, Core, Shape
    <3> QED  BY <1>0, <3>2, <3>3 DEF CalmConn
  <2>5. CASE GivesUp(c) \/ Return(c)
    <3>1. /\ \A e \in Clients : pc[e] = "read" => pc'[e] = "read" /\ Conn(e)' = Conn(e)
      BY <2>5 DEF GivesUp, Retry, Finish, Return, Conn, Core, Shape
    <3>2. UNCHANGED <<cup, sup, serv, msg>>
      BY <2>5 DEF GivesUp, Retry, Return
    <3> QED  BY <1>a, <3>1, <3>2
  <2> QED  BY <1>2, <2>2, <2>3, <2>4, <2>5 DEF Advance
<1>3. ASSUME NEW k \in Conns, Quiet(k)  PROVE CalmConn(j)'
  <2>0. Serves(k)
    BY <1>3 DEF Quiet, Serves, ServStep, Executes
  <2>1. pc' = pc /\ \A e \in Clients : Conn(e)' = Conn(e)
    BY <2>0, ServesKeep DEF Conn
  <2>2. CASE j # k
    <3>1. cup'[j] = cup[j] /\ sup'[j] = sup[j] /\ serv'[j] = serv[j] /\ msg'[j] = msg[j]
      BY <1>3, <2>2 DEF Quiet, Notice, ServRead, ServWrite, ServWriteEnd, Reached, End,
                        CloseSession, Closed, Executes, ExecOpen, ExecClose, ExecCall, ExecBad,
                        ExecGetEvent, ExecGetHeld, ExecGetEnd, Answer, Core, Shape
    <3> QED  BY <1>a, <2>1, <3>1
  <2>3. CASE j = k
    <3>1. CASE Notice(k) /\ serv[k] \notin {"read", "exec", "write"}
      BY <1>0, <2>1, <2>3, <3>1 DEF Notice, CalmConn
    <3>2. CASE ServRead(k)
      BY <1>0, <2>1, <2>3, <3>2 DEF ServRead, CalmConn, Core, Shape
    <3>3. CASE ServWrite(k)
      BY <1>0, <2>1, <2>3, <3>3 DEF ServWrite, Reached, CalmConn, Core, Shape
    <3>4. CASE ServWriteEnd(k)
      BY <1>0, <2>1, <2>3, <3>4 DEF ServWriteEnd, Reached, End, CloseSession, Closed, CalmConn,
                                    Core, Shape
    <3>5. CASE Executes(k)
      <4>1. serv[k] = "exec" /\ UNCHANGED <<cup, sup, msg>>
        BY <3>5 DEF Executes, ExecOpen, ExecClose, CloseSession, ExecCall, ExecBad, ExecGetEvent,
                    ExecGetHeld, ExecGetEnd, Answer
      <4> QED  BY <1>0, <2>1, <2>3, <4>1 DEF CalmConn
    <3> QED  BY <1>3, <3>1, <3>2, <3>3, <3>4, <3>5 DEF Quiet
  <2> QED  BY <2>2, <2>3
<1>4. ASSUME UNCHANGED vars  PROVE CalmConn(j)'
  BY <1>4, <1>a DEF vars, Conn
<1> QED  BY <1>1, <1>2, <1>3, <1>4 DEF CalmNext

\* They are steps of the specification.
LEMMA CalmIsNext ==
  ASSUME CalmNext  PROVE [Next]_vars
BY DEF CalmNext, Calls, Advance, GivesUp, Quiet, Executes, Next, ClientStep, ServStep

\* The buffer of a request is never overwritten, and a reply does reach the thread
\* that waits.
LEMMA CalmClientStep ==
  ASSUME Core, Calm, CalmNext, stop = "no", NEW d \in Clients
  PROVE  CalmClient(d)'
<1> USE DEF client, table, wire, daemon, queues
<1>0. CalmClient(d)
  BY DEF Calm
<1>a. bad'[d] = FALSE
  <2>1. ASSUME NEW c \in Clients, NEW o \in Objects, Calls(c, o)  PROVE bad' = bad
    BY <2>1, CallsBegin DEF Begin
  <2>2. ASSUME NEW c \in Clients, Advance(c)  PROVE bad'[d] = bad[d] \/ bad'[d] = FALSE
    BY <2>2 DEF Advance, GivesUp, Write, Connect, Send, Read, Return, Core, Shape
  <2>3. ASSUME NEW k \in Conns, Quiet(k)  PROVE bad' = bad
    <3>1. Serves(k)
      BY <2>3 DEF Quiet, Serves, ServStep, Executes
    <3> QED  BY <3>1, ServesKeep
  <2>4. ASSUME UNCHANGED vars  PROVE bad' = bad
    BY <2>4 DEF vars
  <2> QED  BY <1>0, <2>1, <2>2, <2>3, <2>4 DEF CalmNext, CalmClient
<1>b. ASSUME pc'[d] = "read"  PROVE msg'[Conn(d)'] # NoMsg \/ reply'[Conn(d)'] # NoReply
  <2>1. CASE Conn(d)' \in Conns /\ msg'[Conn(d)'] # NoMsg
    BY <2>1
  <2>2. CASE pc[d] = "read" /\ Conn(d)' = Conn(d)
    <3>0. Conn(d) \in Conns /\ (msg[Conn(d)] # NoMsg \/ reply[Conn(d)] # NoReply)
          /\ \A c \in Clients : c # d => Conn(c) # Conn(d)
      BY <1>0, <2>2, ReaderConn DEF CalmClient, Core
    <3>1. ASSUME NEW c \in Clients, NEW o \in Objects, Calls(c, o)  PROVE UNCHANGED <<msg, reply>>
      BY <3>1, CallsBegin DEF Begin
    <3>2. ASSUME NEW c \in Clients, Advance(c)
          PROVE  msg'[Conn(d)] = msg[Conn(d)] /\ reply'[Conn(d)] = reply[Conn(d)]
      <4>1. c # d
        BY <1>b, <2>2, <3>2 DEF Advance, GivesUp, Write, Connect, Read, Finish, Return, Core, Shape
      <4>2. CASE Connect(c)
        <5>1. serv[Conn(d)] # "unused"
          BY <2>2, ReaderConn DEF Core
        <5> QED  BY <3>0, <4>2, <5>1 DEF Connect, Send, Core, Shape
      <4> QED  BY <3>0, <3>2, <4>1, <4>2 DEF Advance, GivesUp, Retry, Write, Send, Read, Return,
          Core, Shape
    <3>3. ASSUME NEW k \in Conns, Quiet(k)
          PROVE  msg'[Conn(d)'] # NoMsg \/ reply'[Conn(d)'] # NoReply
      <4>1. CASE ServWrite(k) \/ ServWriteEnd(k)
        <5>1. serv[k] = "write"
          BY <4>1 DEF ServWrite, ServWriteEnd
        <5>2. CASE Conn(d) = k
          <6>1. sup[k] /\ cup[k] = "up" /\ ans[k] # NoReply
            BY <5>1, CalmServer DEF Core, WireInv, ConnOf
          <6>2. reply'[k] = ans[k]
            BY <4>1, <6>1 DEF ServWrite, ServWriteEnd, Reached, Core, Shape
          <6> QED  BY <2>2, <5>2, <6>1, <6>2
        <5>3. CASE Conn(d) # k
          <6>1. msg'[Conn(d)] = msg[Conn(d)] /\ reply'[Conn(d)] = reply[Conn(d)]
            BY <3>0, <4>1, <5>3 DEF ServWrite, ServWriteEnd, Reached, Core, Shape
          <6> QED  BY <2>2, <3>0, <6>1
        <5> QED  BY <5>2, <5>3
      <4>2. CASE ~(ServWrite(k) \/ ServWriteEnd(k))
        <5>1. msg' = msg /\ reply' = reply
          BY <3>3, <4>2 DEF Quiet, Notice, ServRead, Executes, ExecOpen, ExecClose, CloseSession,
                            ExecCall, ExecBad, ExecGetEvent, ExecGetHeld, ExecGetEnd, Answer
        <5> QED  BY <2>2, <3>0, <5>1
      <4> QED  BY <4>1, <4>2
    <3>4. ASSUME UNCHANGED vars  PROVE UNCHANGED <<msg, reply>>
      BY <3>4 DEF vars
    <3> QED  BY <2>2, <3>0, <3>1, <3>2, <3>3, <3>4 DEF CalmNext
  <2> QED  BY <1>b, <2>1, <2>2, CalmIsNext, ReadStep DEF Core
<1> QED  BY <1>a, <1>b DEF CalmClient

----------------------------------------------------------------------------
(* Without faults: sessions and their objects. *)

\* An answer that is ready was, or has just been made up.
LEMMA AnswerStep ==
  ASSUME Core, [Next]_vars, NEW k \in Conns, serv'[k] = "write"
  PROVE  \/ serv[k] = "write" /\ ans'[k] = ans[k]
         \/ /\ serv[k] = "exec"
            /\ \E r \in {"ok", "error"}, s \in Nat : Answers(k, r, s) /\ ans'[k].sid = s /\ ans'[k].res = r
<1> USE DEF client, table, wire, daemon, queues
<1> DEFINE Same == serv[k] = "write" /\ ans'[k] = ans[k]
<1>1. ASSUME NEW c \in Clients, NEW o \in Objects, Calls(c, o)  PROVE Same
  BY <1>1, CallsBegin DEF Begin
<1>2. ASSUME NEW c \in Clients, ClientStep(c)  PROVE Same
  BY <1>2 DEF ClientStep, Write, Connect, Send, ConnectFails, Read, Retry, Return, Core, Shape
<1>3. ASSUME NEW j \in Conns, Serves(j), ~(j = k /\ Executes(j))  PROVE Same
  BY <1>3 DEF Serves, ServStep, Break, Notice, ServRead, ServReadFails, ServWrite, ServWriteEnd,
              Reached, End, CloseSession, Executes, ExecOpen, ExecClose, ExecCall, ExecBad,
              ExecGetEvent, ExecGetHeld, ExecGetEnd, Answer, Core, Shape
<1>4. ASSUME Executes(k)
      PROVE  /\ serv[k] = "exec"
             /\ \E r \in {"ok", "error"}, s \in Nat : Answers(k, r, s) /\ ans'[k].sid = s /\ ans'[k].res = r
  <2>1. serv[k] = "exec"
    BY <1>4, ExecutesAnswers DEF Core
  <2>2. PICK r \in {"ok", "error"}, s \in Nat : Answers(k, r, s)
    BY <1>4, ExecutesAnswers DEF Core
  <2>3. ans'[k] = Reply(r, s)
    BY <2>2 DEF Answers, Answer, Core, Shape
  <2>4. ans'[k].sid = s /\ ans'[k].res = r
    BY <2>3 DEF Reply
  <2> QED  BY <2>1, <2>2, <2>4
<1>5. ASSUME Stops  PROVE Same
  BY <1>5, StopsKeep
<1> QED  BY <1>1, <1>2, <1>3, <1>4, <1>5, StepKinds

\* A session that an open is about to report was, or is the new one.
LEMMA ComingStep ==
  ASSUME Core, Calm, CalmNext, NEW d \in Clients, NEW s \in Nat, Coming(d, s)'
  PROVE  /\ pc[d] = "read" /\ kind[d] = "open" /\ obj'[d] = obj[d] /\ Conn(d) \in Conns
         /\ \/ Coming(d, s)
            \/ serv[Conn(d)] = "exec" /\ s = nextsid /\ Answers(Conn(d), "ok", s)
<1>0. [Next]_vars /\ Shape /\ WireInv
  BY CalmIsNext DEF Core
<1>1. pc[d] = "read" /\ kind[d] = "open" /\ obj'[d] = obj[d] /\ Conn(d)' = Conn(d)
  BY <1>0, ReadStep DEF Coming
<1>2. Conn(d) \in Conns /\ ConnOf(Conn(d)) /\ (msg[Conn(d)] # NoMsg => Mine(d, Conn(d)))
  BY <1>0, <1>1, ReaderConn
<1>3. CASE serv'[Conn(d)] = "write" /\ ans'[Conn(d)].sid = s
  <2>1. CASE serv[Conn(d)] = "write" /\ ans'[Conn(d)] = ans[Conn(d)]
    BY <1>1, <1>2, <1>3, <2>1 DEF Coming
  <2>2. CASE serv[Conn(d)] = "exec"
    <3>1. PICK r \in {"ok", "error"} : Answers(Conn(d), r, s)
      BY <1>0, <1>2, <1>3, <2>2, AnswerStep
    <3>2. msg[Conn(d)].kind = "open"
      BY <1>1, <1>2, <2>2 DEF ConnOf, Mine
    <3>3. msg[Conn(d)].bad = FALSE
      BY <1>2, <2>2, CalmServer
    <3>4. r = "ok" /\ s = nextsid
      BY <3>1, <3>2, <3>3 DEF Answers
    <3> QED  BY <1>1, <1>2, <2>2, <3>1, <3>4
  <2> QED  BY <1>0, <1>2, <1>3, <2>1, <2>2, AnswerStep
<1>4. CASE reply'[Conn(d)] # NoReply /\ reply'[Conn(d)].sid = s
  <2>1. \/ reply'[Conn(d)] = reply[Conn(d)]
        \/ /\ ServWrite(Conn(d)) \/ ServWriteEnd(Conn(d))
           /\ reply'[Conn(d)] = ans[Conn(d)]
    BY <1>0, <1>1, <1>4, ReplyStep DEF Coming
  <2> QED  BY <1>1, <1>2, <1>4, <2>1 DEF Coming, ServWrite, ServWriteEnd
<1> QED  BY <1>1, <1>3, <1>4 DEF Coming

\* The session id of an object changes when its opener reads the reply.
LEMMA RsidStep ==
  ASSUME Core, [Next]_vars, NEW o \in Objects, rsid'[o] # rsid[o]
  PROVE  \E c \in Clients : /\ Read(c) /\ kind[c] = "open" /\ obj[c] = o /\ rsid'[o] = reply[Conn(c)].sid
                            /\ Coming(c, rsid'[o]) /\ Opening(c)
<1> USE DEF client, table, wire, daemon, queues
<1>1. ASSUME NEW c \in Clients, NEW p \in Objects, Calls(c, p)  PROVE FALSE
  BY <1>1, CallsBegin
<1>2. ASSUME NEW c \in Clients, ClientStep(c)
      PROVE  /\ Read(c) /\ kind[c] = "open" /\ obj[c] = o /\ rsid'[o] = reply[Conn(c)].sid
             /\ Coming(c, rsid'[o]) /\ Opening(c)
  <2>1. Read(c) /\ kind[c] = "open" /\ obj[c] = o /\ rsid'[o] = reply[Conn(c)].sid
    BY <1>2 DEF ClientStep, Write, Connect, Send, ConnectFails, Read, Retry, Return, Core, Shape
  <2> QED  BY <2>1 DEF Read, Coming, Opening
<1>3. ASSUME NEW k \in Conns, Serves(k)  PROVE FALSE
  BY <1>3, ServesKeep
<1>4. ASSUME Stops  PROVE FALSE
  BY <1>4, StopsKeep
<1> QED  BY <1>1, <1>2, <1>3, <1>4, StepKinds

\* No session goes to two objects.
LEMMA CarriedStep ==
  ASSUME Core, Calm, CalmNext
  PROVE  CarriedOnce'
<1>0. [Next]_vars /\ Shape /\ WireInv
  BY CalmIsNext DEF Core
<1> SUFFICES ASSUME NEW o \in Objects, NEW p \in Objects, NEW s \in Sids, Carries(o, s)', Carries(p, s)'
             PROVE  o = p
  BY DEF CarriedOnce
<1>1. s \in Nat
  BY DEF Sids
<1> DEFINE New(q) == \E c \in Clients : /\ obj[c] = q /\ pc[c] = "read" /\ Conn(c) \in Conns
                                        /\ serv[Conn(c)] = "exec" /\ s = nextsid /\ Answers(Conn(c), "ok", s)
<1>2. ASSUME NEW q \in Objects, Carries(q, s)'  PROVE Carries(q, s) \/ New(q)
  <2>1. CASE rsid'[q] = s
    BY <1>0, <2>1, RsidStep DEF Carries
  <2>2. CASE \E c \in Clients : obj'[c] = q /\ Coming(c, s)'
    <3>1. PICK c \in Clients : obj'[c] = q /\ Coming(c, s)'
      BY <2>2
    <3> QED  BY <1>1, <3>1, ComingStep DEF Carries
  <2> QED  BY <1>2, <2>1, <2>2 DEF Carries
<1>3. ASSUME NEW q \in Objects, Carries(q, s)  PROVE s # nextsid
  <2>1. rsid[q] # nextsid
    BY <1>0 DEF WireInv, SidsBelow, Shape, Sids
  <2>2. ASSUME NEW c \in Clients, Coming(c, s)  PROVE s # nextsid
    <3>1. Conn(c) \in Conns /\ ConnOf(Conn(c))
      BY <1>0, <2>2, ReaderConn DEF Coming
    <3>2. s < nextsid
      BY <1>0, <2>2, <3>1 DEF Coming, WireInv, SidsBelow, ConnOf
    <3>3. nextsid \in Nat
      BY <1>0 DEF Shape, Sids
    <3> QED  BY <1>1, <3>2, <3>3
  <2> QED  BY <1>3, <2>1, <2>2 DEF Carries
<1>4. New(o) /\ New(p) => o = p
  <2> SUFFICES ASSUME New(o), New(p)  PROVE o = p
    OBVIOUS
  <2>1. PICK c \in Clients : /\ obj[c] = o /\ pc[c] = "read" /\ Conn(c) \in Conns
                             /\ serv[Conn(c)] = "exec" /\ Answers(Conn(c), "ok", s)
    OBVIOUS
  <2>2. PICK e \in Clients : /\ obj[e] = p /\ pc[e] = "read" /\ Conn(e) \in Conns
                             /\ serv[Conn(e)] = "exec" /\ Answers(Conn(e), "ok", s)
    OBVIOUS
  <2>3. serv' = [serv EXCEPT ![Conn(c)] = "write"] /\ serv' = [serv EXCEPT ![Conn(e)] = "write"]
    BY <2>1, <2>2 DEF Answers, Answer
  <2>4. Conn(c) = Conn(e)
    BY <1>0, <2>1, <2>2, <2>3 DEF Shape
  <2> QED  BY <1>0, <2>1, <2>2, <2>4, ReaderConn
<1>5. Carries(o, s) /\ Carries(p, s) => o = p
  BY DEF Calm, CarriedOnce
<1>6. (Carries(o, s) \/ New(o)) /\ (Carries(p, s) \/ New(p))
  BY <1>2
<1>7. (New(o) => s = nextsid) /\ (New(p) => s = nextsid)
  OBVIOUS
<1> HIDE DEF New
<1> QED  BY <1>3, <1>4, <1>5, <1>6, <1>7

----------------------------------------------------------------------------
(* Without faults: what is closed. *)

\* A session is closed for a thread that closes it, and that will hear so.
LEMMA LiveStep ==
  ASSUME Core, Calm, CalmNext, NEW s \in live, s \notin live'
  PROVE  \E e \in Clients :
           /\ pc[e] = "read" /\ kind[e] \in {"close", "finalize"} /\ rsid[obj[e]] = s
           /\ OkComing(e)' /\ kind'[e] = kind[e] /\ obj'[e] = obj[e]
<1> USE DEF client, table, wire, daemon, queues
<1>0. Shape /\ WireInv /\ s # 0
  BY DEF Core, Shape, Sids
<1>1. PICK k \in Conns : Quiet(k)
  <2>1. ASSUME NEW c \in Clients, NEW o \in Objects, Calls(c, o)  PROVE live' = live
    BY <2>1, CallsBegin DEF Begin
  <2>2. ASSUME NEW c \in Clients, Advance(c)  PROVE live' = live
    BY <2>2 DEF Advance, GivesUp, Write, Connect, Send, Read, Retry, Return
  <2>3. ASSUME UNCHANGED vars  PROVE live' = live
    BY <2>3 DEF vars
  <2> QED  BY <2>1, <2>2, <2>3 DEF CalmNext
<1>2. Serves(k)
  BY <1>1 DEF Quiet, Serves, ServStep, Executes
<1>3. UNCHANGED <<client, sock, table>>
  BY <1>2, ServesKeep
<1>4. CASE Executes(k)
  <2>1. PICK r \in {"ok", "error"}, t \in Nat : Answers(k, r, t)
    BY <1>0, <1>4, ExecutesAnswers
  <2>2. serv[k] = "exec"
    BY <1>0, <1>4, ExecutesAnswers
  <2>3. PICK e \in Clients : pc[e] = "read" /\ Conn(e) = k /\ Mine(e, k)
    BY <2>2, CalmServer
  <2>4. msg[k].kind \in {"close", "finalize"} /\ s = msg[k].sid /\ r = "ok"
    BY <2>1 DEF Answers
  <2>5. ans'[k] = Reply(r, t) /\ serv'[k] = "write"
    BY <2>1 DEF Answers, Answer, Core, Shape
  <2>6. ans'[k].res = "ok"
    BY <2>4, <2>5 DEF Reply
  <2>7. Conn(e)' = k
    BY <1>3, <2>3 DEF Conn
  <2>8. OkComing(e)'
    BY <1>3, <2>3, <2>5, <2>6, <2>7 DEF OkComing
  <2> QED  BY <1>3, <2>3, <2>4, <2>8 DEF Mine
<1>5. CASE ServWriteEnd(k) /\ Closes(k)
  <2>1. serv[k] = "write" /\ s = my_sid[k] /\ my_sid[k] # 0
    BY <1>0, <1>5 DEF ServWriteEnd, End, CloseSession
  <2>2. PICK e \in Clients : /\ pc[e] = "read" /\ Conn(e) = k /\ Mine(e, k)
                             /\ sup[k] /\ cup[k] = "up"
    BY <2>1, CalmServer
  <2>3. kind[e] \in {"close", "finalize"} /\ ans[k].res = "ok"
    BY <1>5, <2>2 DEF Closes, Mine
  <2>4. obj[e] \in Objects /\ sock[e][obj[e]] = k /\ k # 0
    BY <1>0, <2>2 DEF Shape, Conn, Conns
  <2>5. CalmSock(e, obj[e])
    BY <2>4 DEF Calm
  <2>6. my_sid[k] = rsid[obj[e]]
    BY <2>1, <2>3, <2>4, <2>5 DEF CalmSock
  <2>7. ans[k] # NoReply
    BY <1>0, <2>1 DEF WireInv, ConnOf
  <2>8. reply'[k] = ans[k]
    BY <1>5, <2>2 DEF ServWriteEnd, Reached, Core, Shape
  <2>9. Conn(e)' = k
    BY <1>3, <2>2 DEF Conn
  <2>10. OkComing(e)'
    BY <1>3, <2>2, <2>3, <2>7, <2>8, <2>9 DEF OkComing
  <2> QED  BY <1>3, <2>1, <2>2, <2>3, <2>6, <2>10
<1>6. CASE Notice(k) \/ ServRead(k) \/ ServWrite(k)
  BY <1>6 DEF Notice, ServRead, ServWrite
<1> QED  BY <1>1, <1>4, <1>5, <1>6 DEF Quiet

\* A session that an object carries while it is opened is not closed.
LEMMA OpenStays ==
  ASSUME Core, Calm, CalmNext, NEW d \in Clients, Opening(d), NEW s \in live, Carries(obj[d], s)
  PROVE  s \in live'
<1>0. Shape /\ ObjectInv /\ s \in Sids /\ obj[d] \in Objects
  BY DEF Core, Shape
<1> SUFFICES ASSUME s \notin live'  PROVE FALSE
  OBVIOUS
<1>1. PICK e \in Clients : pc[e] = "read" /\ kind[e] \in {"close", "finalize"} /\ rsid[obj[e]] = s
  BY LiveStep
<1>2. Carries(obj[e], s) /\ obj[e] \in Objects
  BY <1>0, <1>1 DEF Carries, Shape
<1>3. obj[e] = obj[d]
  BY <1>0, <1>2 DEF Calm, CarriedOnce
<1>4. e # d
  BY <1>1 DEF Opening
<1> QED  BY <1>0, <1>1, <1>3, <1>4, OpenerAlone

\* An open that succeeds yields an open session.
LEMMA CalmOpenStep ==
  ASSUME Core, Calm, CalmNext, NEW d \in Clients
  PROVE  CalmOpen(d)'
<1> USE DEF client, table, wire, daemon, queues
<1>0. [Next]_vars /\ Shape /\ WireInv /\ ObjectInv
  BY CalmIsNext DEF Core
<1> SUFFICES ASSUME kind'[d] = "open", OkComing(d)'
             PROVE  /\ pc'[d] = "return" => rsid'[obj'[d]] \in live'
                    /\ \A s \in Nat : Coming(d, s)' => s \in live'
  BY DEF CalmOpen
<1>1. /\ kind[d] = "open" /\ obj'[d] = obj[d] /\ pc[d] \in {"read", "return"}
      /\ OkComing(d) \/ Decided(d)
  BY <1>0, OkStep
<1>2. Opening(d) /\ obj[d] \in Objects
  BY <1>0, <1>1 DEF Opening, Shape
<1>3. CalmOpen(d)
  BY DEF Calm
<1>4. pc[d] = "read" => Conn(d) \in Conns /\ ConnOf(Conn(d))
  BY <1>0, ReaderConn
<1>5. ASSUME pc'[d] = "return"  PROVE rsid'[obj'[d]] \in live'
  <2>1. CASE pc[d] = "return"
    <3>1. OkComing(d) /\ rsid[obj[d]] \in live
      BY <1>1, <1>3, <2>1 DEF Decided, CalmOpen
    <3>2. rsid'[obj[d]] = rsid[obj[d]]
      <4> SUFFICES ASSUME rsid'[obj[d]] # rsid[obj[d]]  PROVE FALSE
        OBVIOUS
      <4>1. PICK c \in Clients : Read(c) /\ obj[c] = obj[d] /\ Opening(c)
        BY <1>0, <1>2, RsidStep
      <4>2. c # d
        BY <2>1, <4>1 DEF Read
      <4> QED  BY <1>0, <1>2, <4>1, <4>2, OpenerAlone DEF Opening
    <3> QED  BY <1>1, <1>2, <3>1, <3>2, OpenStays DEF Carries
  <2>2. CASE pc[d] = "read"
    <3>1. Read(d)
      <4>1. ASSUME NEW c \in Clients, NEW o \in Objects, Calls(c, o)  PROVE FALSE
        <5>1. PICK x \in Kinds : Begin(c, x, o)
          BY <4>1, CallsBegin
        <5> QED  BY <1>5, <2>2, <5>1 DEF Begin, Shape, Core
      <4>2. ASSUME NEW c \in Clients, Advance(c)  PROVE Read(d)
        BY <1>5, <2>2, <4>2 DEF Advance, GivesUp, Write, Connect, Send, Retry, Finish, Read,
            Return, Shape, Core
      <4>3. ASSUME NEW k \in Conns, Quiet(k)  PROVE FALSE
        <5>1. Serves(k)
          BY <4>3 DEF Quiet, Serves, ServStep, Executes
        <5> QED  BY <1>5, <2>2, <5>1, ServesKeep
      <4>4. ASSUME UNCHANGED vars  PROVE FALSE
        BY <1>5, <2>2, <4>4 DEF vars
      <4> QED  BY <4>1, <4>2, <4>3, <4>4 DEF CalmNext
    <3>2. reply[Conn(d)] # NoReply /\ live' = live /\ rsid'[obj[d]] = reply[Conn(d)].sid
      BY <1>1, <1>2, <3>1 DEF Read, Core, Shape
    <3>3. reply[Conn(d)].sid \in Nat /\ Coming(d, reply[Conn(d)].sid)
      BY <1>1, <1>4, <2>2, <3>2 DEF Coming, Core, Shape, Replies
    <3>4. ~Decided(d)
      BY <1>4, <2>2, <3>2 DEF Decided, ConnOf
    <3> QED  BY <1>1, <1>3, <3>2, <3>3, <3>4 DEF CalmOpen
  <2> QED  BY <1>1, <2>1, <2>2
<1>6. ASSUME NEW s \in Nat, Coming(d, s)'  PROVE s \in live'
  <2>1. CASE Coming(d, s)
    <3>1. OkComing(d)
      BY <1>1, <1>4, <2>1 DEF Decided, Coming, ConnOf
    <3>2. s \in live
      BY <1>1, <1>3, <2>1, <3>1 DEF CalmOpen
    <3> QED  BY <1>2, <2>1, <3>2, OpenStays DEF Carries
  <2>2. CASE serv[Conn(d)] = "exec" /\ s = nextsid /\ Answers(Conn(d), "ok", s) /\ pc[d] = "read"
    <3>1. msg[Conn(d)].kind = "open"
      BY <1>0, <1>1, <1>4, <2>2, ReaderConn DEF ConnOf, Mine
    <3> QED  BY <2>2, <3>1 DEF Answers
  <2> QED  BY <1>6, <2>1, <2>2, ComingStep
<1> QED  BY <1>5, <1>6

----------------------------------------------------------------------------
(* Without faults: sockets and objects. *)

\* The service thread of a socket owns the session the socket is for.
LEMMA CalmSockStep ==
  ASSUME Core, Calm, CalmNext, NEW d \in Clients, NEW p \in Objects
  PROVE  CalmSock(d, p)'
<1> USE DEF client, table, wire, daemon, queues
<1>0. [Next]_vars /\ Shape /\ WireInv /\ ObjectInv
  BY CalmIsNext DEF Core
<1>1. CalmSock(d, p) /\ SockOf(d, p)
  BY DEF Calm, Core, WireInv
<1> SUFFICES ASSUME sock'[d][p] # 0, my_sid'[sock'[d][p]] # 0
             PROVE  \/ my_sid'[sock'[d][p]] = rsid'[p]
                    \/ /\ pc'[d] = "read" /\ kind'[d] = "open" /\ obj'[d] = p
                       /\ reply'[sock'[d][p]] # NoReply
                       /\ reply'[sock'[d][p]].sid = my_sid'[sock'[d][p]]
  BY DEF CalmSock
<1> DEFINE k == sock[d][p]
           Goal == \/ my_sid'[sock'[d][p]] = rsid'[p]
                   \/ /\ pc'[d] = "read" /\ kind'[d] = "open" /\ obj'[d] = p
                      /\ reply'[sock'[d][p]] # NoReply
                      /\ reply'[sock'[d][p]].sid = my_sid'[sock'[d][p]]
           Reads == /\ pc[d] = "read" /\ kind[d] = "open" /\ obj[d] = p
                    /\ reply[k] # NoReply /\ reply[k].sid = my_sid[k]
<1>2. k # 0 /\ my_sid[k] # 0 => my_sid[k] = rsid[p] \/ Reads
  BY <1>1 DEF CalmSock
<1>3. k # 0 => k \in Conns
  BY <1>0 DEF Shape
<1>4. ASSUME NEW c \in Clients, NEW o \in Objects, Calls(c, o)  PROVE Goal
  <2>1. PICK x \in Kinds : Begin(c, x, o) /\ rsid' = rsid
    BY <1>4, CallsBegin
  <2>2. UNCHANGED <<sock, my_sid, reply>>
    BY <2>1 DEF Begin
  <2>3. Reads => pc'[d] = pc[d] /\ kind'[d] = kind[d] /\ obj'[d] = obj[d]
    BY <2>1 DEF Begin, Core, Shape
  <2> QED  BY <1>2, <2>1, <2>2, <2>3
<1>5. ASSUME NEW c \in Clients, Advance(c)  PROVE Goal
  <2>1. my_sid' = my_sid
    BY <1>5 DEF Advance, GivesUp, Write, Connect, Send, Read, Retry, Return
  <2>2. CASE Connect(c)
    <3>1. PICK j \in Conns : serv[j] = "unused" /\ sock' = [sock EXCEPT ![c][obj[c]] = j] /\ Send(c, j)
      BY <2>2 DEF Connect
    <3>2. my_sid[j] = 0
      BY <1>0, <3>1 DEF WireInv, ConnOf
    <3>3. sock'[d][p] = sock[d][p]
      BY <2>1, <3>1, <3>2 DEF Core, Shape
    <3>4. rsid' = rsid /\ reply' = reply /\ UNCHANGED <<kind, obj>> /\ (pc[d] = "read" => pc'[d] = "read")
      BY <3>1 DEF Send, Core, Shape
    <3> QED  BY <1>2, <2>1, <3>3, <3>4
  <2>3. CASE Write(c)
    <3>1. UNCHANGED <<rsid, reply, sock, kind, obj>> /\ (pc[d] = "read" => pc'[d] = "read")
      BY <2>3 DEF Write, Send, Core, Shape
    <3> QED  BY <1>2, <2>1, <3>1
  <2>4. CASE Read(c)
    <3>1. sock' = sock /\ UNCHANGED <<kind, obj>> /\ k # 0 /\ my_sid[k] # 0
      BY <2>1, <2>4 DEF Read
    <3>2. CASE Reads /\ c = d
      <4>1. Conn(c) = k
        BY <3>2 DEF Conn
      <4>2. rsid'[p] = reply[k].sid
        BY <2>4, <3>2, <4>1 DEF Read, Core, Shape
      <4> QED  BY <2>1, <3>1, <3>2, <4>2
    <3>3. CASE Reads /\ c # d
      <4>1. Conn(d) = k /\ pc'[d] = "read"
        BY <2>4, <3>3 DEF Read, Finish, Conn, Core, Shape
      <4>2. Conn(c) # k
        BY <1>0, <3>3, <4>1, ReaderConn
      <4>3. reply'[k] = reply[k]
        BY <1>3, <2>4, <3>1, <4>2 DEF Read, Core, Shape
      <4> QED  BY <2>1, <3>1, <3>3, <4>1, <4>3
    <3>4. CASE my_sid[k] = rsid[p]
      <4>1. rsid'[p] = rsid[p]
        <5> SUFFICES ASSUME rsid'[p] # rsid[p]  PROVE FALSE
          OBVIOUS
        <5>1. PICK e \in Clients : Read(e) /\ kind[e] = "open" /\ obj[e] = p /\ Opening(e)
          BY <1>0, RsidStep DEF Core
        <5>2. rsid[p] = 0
          BY <5>1 DEF Core, FreshInv, Read
        <5> QED  BY <3>1, <3>4, <5>2
      <4> QED  BY <2>1, <3>1, <3>4, <4>1
    <3> QED  BY <1>2, <3>1, <3>2, <3>3, <3>4
  <2>5. CASE GivesUp(c)
    <3>1. sock'[d][p] = sock[d][p]
      BY <2>5 DEF GivesUp, Retry, Core, Shape
    <3>2. UNCHANGED <<rsid, reply, kind, obj>> /\ (pc[d] = "read" => pc'[d] = "read")
      BY <2>5 DEF GivesUp, Retry, Finish, Core, Shape
    <3> QED  BY <1>2, <2>1, <3>1, <3>2
  <2>6. CASE Return(c)
    <3>1. UNCHANGED <<rsid, reply, sock, obj>> /\ (pc[d] = "read" => pc'[d] = "read" /\ kind'[d] = kind[d])
      BY <2>6 DEF Return, Core, Shape
    <3> QED  BY <1>2, <2>1, <3>1
  <2> QED  BY <1>5, <2>2, <2>3, <2>4, <2>5, <2>6 DEF Advance
<1>6. ASSUME NEW j \in Conns, Quiet(j)  PROVE Goal
  <2>0. Serves(j)
    BY <1>6 DEF Quiet, Serves, ServStep, Executes
  <2>1. UNCHANGED <<client, sock, table>> /\ k # 0 /\ k \in Conns
    BY <1>3, <2>0, ServesKeep
  <2>2. CASE k # j \/ ~(ServWrite(j) \/ ServWriteEnd(j))
    <3>1. my_sid'[k] = my_sid[k] /\ reply'[k] = reply[k]
      BY <1>6, <2>1, <2>2 DEF Quiet, Notice, ServRead, ServWrite, ServWriteEnd, Reached, End,
                              CloseSession, Executes, ExecOpen, ExecClose, ExecCall, ExecBad,
                              ExecGetEvent, ExecGetHeld, ExecGetEnd, Answer, Core, Shape
    <3> QED  BY <1>2, <2>1, <3>1
  <2>3. CASE k = j /\ ServWriteEnd(j)
    BY <2>1, <2>3 DEF ServWriteEnd, End, CloseSession, Core, Shape
  <2>4. CASE k = j /\ ServWrite(j)
    <3>1. serv[j] = "write" /\ ans[j] # NoReply
      BY <1>0, <2>4 DEF ServWrite, WireInv, ConnOf
    <3>2. PICK e \in Clients : /\ pc[e] = "read" /\ Conn(e) = j /\ Mine(e, j)
                               /\ sup[j] /\ cup[j] = "up" /\ reply[j] = NoReply
      BY <3>1, CalmServer
    <3>3. e = d /\ obj[e] = p
      <4>1. obj[e] \in Objects /\ sock[e][obj[e]] = k
        BY <1>0, <2>4, <3>2 DEF Conn, Shape
      <4> QED  BY <1>1, <2>1, <4>1 DEF SockOf
    <3>4. reply'[j] = ans[j]
      BY <2>4, <3>2 DEF ServWrite, Reached, Core, Shape
    <3>5. CASE msg[j].kind = "open" /\ ans[j].res = "ok"
      <4>1. my_sid'[j] = ans[j].sid
        BY <2>4, <3>5 DEF ServWrite, Core, Shape
      <4> QED  BY <2>1, <2>4, <3>1, <3>2, <3>3, <3>4, <3>5, <4>1 DEF Mine
    <3>6. CASE ~(msg[j].kind = "open" /\ ans[j].res = "ok")
      <4>1. my_sid'[j] = my_sid[j]
        BY <2>4, <3>6 DEF ServWrite, Core, Shape
      <4> QED  BY <1>2, <2>1, <2>4, <3>2, <4>1
    <3> QED  BY <3>5, <3>6
  <2> QED  BY <1>6, <2>2, <2>3, <2>4
<1>7. ASSUME UNCHANGED vars  PROVE Goal
  <2>1. UNCHANGED <<pc, kind, obj, sock, my_sid, rsid, reply>>
    BY <1>7 DEF vars
  <2> QED  BY <1>2, <2>1
<1> QED  BY <1>4, <1>5, <1>6, <1>7 DEF CalmNext

\* A success that is coming keeps coming until its thread returns.
LEMMA OkStays ==
  ASSUME Core, Calm, CalmNext, NEW c \in Clients, OkComing(c), ~Return(c)
  PROVE  OkComing(c)' /\ kind'[c] = kind[c] /\ obj'[c] = obj[c]
<1> USE DEF client, table, wire, daemon, queues
<1> DEFINE Goal == OkComing(c)' /\ kind'[c] = kind[c] /\ obj'[c] = obj[c]
<1>0. Shape /\ WireInv /\ pc[c] \in {"read", "return"}
  BY DEF Core, OkComing
<1>a. pc[c] = "read" => /\ Conn(c) \in Conns /\ ConnOf(Conn(c)) /\ serv[Conn(c)] # "unused"
                        /\ \A d \in Clients : d # c => Conn(d) # Conn(c)
  BY <1>0, ReaderConn
<1>b. ASSUME pc'[c] = pc[c], res'[c] = res[c], kind'[c] = kind[c], obj'[c] = obj[c], Conn(c)' = Conn(c),
             pc[c] = "read" => /\ reply'[Conn(c)] = reply[Conn(c)]
                               /\ serv'[Conn(c)] = serv[Conn(c)] /\ ans'[Conn(c)] = ans[Conn(c)]
      PROVE  Goal
  BY <1>b DEF OkComing
<1>1. ASSUME NEW d \in Clients, NEW o \in Objects, Calls(d, o)  PROVE Goal
  <2>1. PICK x \in Kinds : Begin(d, x, o)
    BY <1>1, CallsBegin
  <2>2. d # c
    BY <1>0, <2>1 DEF Begin
  <2> QED  BY <1>b, <2>1, <2>2 DEF Begin, Conn, Core, Shape
<1>2. ASSUME NEW d \in Clients, Advance(d)  PROVE Goal
  <2>1. CASE d # c
    <3>1. /\ pc'[c] = pc[c] /\ res'[c] = res[c] /\ kind'[c] = kind[c] /\ obj'[c] = obj[c]
          /\ sock'[c] = sock[c] /\ ans' = ans
      BY <1>2, <2>1 DEF Advance, GivesUp, Write, Connect, Send, Read, Retry, Finish, Return,
          Core, Shape
    <3>2. pc[c] = "read" => reply'[Conn(c)] = reply[Conn(c)] /\ serv'[Conn(c)] = serv[Conn(c)]
      BY <1>2, <1>a, <2>1 DEF Advance, GivesUp, Write, Connect, Send, Read, Retry, Return, Core,
          Shape
    <3>3. Conn(c)' = Conn(c)
      BY <3>1 DEF Conn
    <3> QED  BY <1>b, <3>1, <3>2, <3>3
  <2>2. CASE d = c
    <3>1. Read(c)
      BY <1>0, <1>2, <2>2 DEF Advance, GivesUp, Write, Connect
    <3>2. reply[Conn(c)] # NoReply /\ pc[c] = "read"
      BY <3>1 DEF Read
    <3>3. serv[Conn(c)] # "write"
      BY <1>a, <3>2 DEF ConnOf
    <3>4. reply[Conn(c)].res = "ok"
      BY <3>2, <3>3 DEF OkComing
    <3>5. pc'[c] = "return" /\ res'[c] = "ok" /\ UNCHANGED <<kind, obj>>
      BY <3>1, <3>4 DEF Read, Finish, Core, Shape
    <3> QED  BY <3>5 DEF OkComing
  <2> QED  BY <2>1, <2>2
<1>3. ASSUME NEW k \in Conns, Quiet(k)  PROVE Goal
  <2>0. Serves(k)
    BY <1>3 DEF Quiet, Serves, ServStep, Executes
  <2>1. UNCHANGED <<client, sock, table>> /\ Conn(c)' = Conn(c)
    BY <2>0, ServesKeep DEF Conn
  <2>2. CASE pc[c] = "read" /\ Conn(c) = k
    <3>1. serv[k] # "exec"
      BY <1>a, <2>2 DEF OkComing, ConnOf
    <3>2. CASE ServWrite(k) \/ ServWriteEnd(k)
      <4>1. serv[k] = "write"
        BY <3>2 DEF ServWrite, ServWriteEnd
      <4>2. reply[k] = NoReply /\ sup[k] /\ cup[k] = "up" /\ ans[k] # NoReply
        BY <1>a, <2>2, <4>1, CalmServer DEF ConnOf
      <4>3. reply'[k] = ans[k]
        BY <3>2, <4>2 DEF ServWrite, ServWriteEnd, Reached, Core, Shape
      <4> QED  BY <2>1, <2>2, <4>2, <4>3 DEF OkComing
    <3>3. CASE Notice(k) \/ ServRead(k)
      <4>1. reply' = reply /\ ans' = ans /\ (serv' = serv \/ serv[k] = "read")
        BY <3>3 DEF Notice, ServRead
      <4>2. serv[k] = "read" => reply[k] # NoReply /\ reply[k].res = "ok"
        BY <2>2 DEF OkComing
      <4> QED  BY <2>1, <2>2, <4>1, <4>2 DEF OkComing
    <3>4. CASE Executes(k)
      BY <1>0, <3>1, <3>4, ExecutesAnswers
    <3> QED  BY <1>3, <3>2, <3>3, <3>4 DEF Quiet
  <2>3. CASE ~(pc[c] = "read" /\ Conn(c) = k)
    <3>1. pc[c] = "read" => reply'[Conn(c)] = reply[Conn(c)] /\ serv'[Conn(c)] = serv[Conn(c)] /\ ans'[Conn(c)] = ans[Conn(c)]
      BY <1>3, <1>a, <2>3 DEF Quiet, Notice, ServRead, ServWrite, ServWriteEnd, Reached, End,
                              CloseSession, Executes, ExecOpen, ExecClose, ExecCall, ExecBad,
                              ExecGetEvent, ExecGetHeld, ExecGetEnd, Answer, Core, Shape
    <3> QED  BY <1>b, <2>1, <3>1
  <2> QED  BY <2>2, <2>3
<1>4. ASSUME UNCHANGED vars  PROVE Goal
  BY <1>4, <1>b DEF vars, Conn
<1> QED  BY <1>1, <1>2, <1>3, <1>4 DEF CalmNext

\* Only a close ends the session of a listed object.
LEMMA CalmObjectStep ==
  ASSUME Core, Calm, CalmNext, NEW o \in Objects
  PROVE  CalmObject(o)'
<1> USE DEF client, table, wire, daemon, queues
<1>0. [Next]_vars /\ Shape /\ WireInv /\ ObjectInv /\ CalmObject(o)
  BY CalmIsNext DEF Core, Calm
<1> SUFFICES ASSUME stage'[o] = "listed", rsid'[o] \notin live'
             PROVE  \E c \in Clients : OkComing(c)' /\ kind'[c] \in {"close", "finalize"} /\ obj'[c] = o
  BY DEF CalmObject
<1>1. CASE stage[o] # "listed"
  <2>1. ASSUME NEW c \in Clients, NEW p \in Objects, Calls(c, p)  PROVE FALSE
    <3>1. stage' = stage \/ stage' = [stage EXCEPT ![p] = "new"]
      BY <2>1, CallsBegin
    <3> QED  BY <1>1, <3>1 DEF Core, Shape
  <2>2. ASSUME NEW c \in Clients, Advance(c)  PROVE FALSE
    <3>1. Return(c) /\ kind[c] = "open" /\ obj[c] = o /\ res[c] = "ok" /\ pc[c] = "return"
      BY <1>1, <2>2 DEF Advance, GivesUp, Write, Connect, Send, Read, Retry, Return, Unref,
          Core, Shape
    <3>2. CalmOpen(c)
      BY DEF Calm
    <3>3. rsid[o] \in live
      BY <3>1, <3>2 DEF CalmOpen, OkComing
    <3>4. rsid' = rsid /\ live' = live
      BY <3>1 DEF Return
    <3> QED  BY <3>3, <3>4
  <2>3. ASSUME NEW k \in Conns, Quiet(k)  PROVE FALSE
    <3>1. Serves(k)
      BY <2>3 DEF Quiet, Serves, ServStep, Executes
    <3> QED  BY <1>1, <3>1, ServesKeep
  <2>4. ASSUME UNCHANGED vars  PROVE FALSE
    BY <1>1, <2>4 DEF vars
  <2> QED  BY <2>1, <2>2, <2>3, <2>4 DEF CalmNext
<1>2. CASE stage[o] = "listed"
  <2>1. rsid'[o] = rsid[o]
    BY <1>0, <1>2, SidStep
  <2>2. CASE rsid[o] \in live
    <3>1. PICK e \in Clients :
            /\ pc[e] = "read" /\ kind[e] \in {"close", "finalize"} /\ rsid[obj[e]] = rsid[o]
            /\ OkComing(e)' /\ kind'[e] = kind[e] /\ obj'[e] = obj[e]
      BY <2>1, <2>2, LiveStep
    <3>2. obj[e] \in Objects /\ rsid[o] \in Sids
      BY <2>2 DEF Core, Shape
    <3>3. obj[e] = o
      BY <3>1, <3>2 DEF Calm, CarriedOnce, Carries
    <3> QED  BY <3>1, <3>3
  <2>3. CASE rsid[o] \notin live
    <3>1. PICK c \in Clients : OkComing(c) /\ kind[c] \in {"close", "finalize"} /\ obj[c] = o
      BY <1>0, <1>2, <2>3 DEF CalmObject
    <3>2. CASE ~Return(c)
      BY <3>1, <3>2, OkStays
    <3>3. CASE Return(c)
      <4>1. res[c] = "ok" /\ pc[c] = "return"
        BY <3>1, <3>3 DEF Return, OkComing
      <4>2. Unref(o, TRUE)
        BY <3>1, <3>3, <4>1 DEF Return
      <4> QED  BY <4>2 DEF Unref, Core, Shape
    <3> QED  BY <3>2, <3>3
  <2> QED  BY <2>2, <2>3
<1> QED  BY <1>1, <1>2

\* As long as no connection broke, all of this goes on.
LEMMA CalmStep ==
  ASSUME Core, CalmInv, [Next]_vars
  PROVE  CalmInv'
<1> SUFFICES ASSUME faults' = 0, stop' = "no"  PROVE Calm'
  BY DEF CalmInv
<1>1. Calm /\ stop = "no" /\ CalmNext
  BY CalmSteps DEF CalmNext
<1> QED  BY <1>1, CalmConnStep, CalmClientStep, CalmOpenStep, CalmSockStep, CalmObjectStep,
    CarriedStep DEF Calm

----------------------------------------------------------------------------
(* The theorems. *)

Inv == Core /\ DoneInv /\ OwnInv /\ CalmInv

\* Nothing has been called and no connection made: every part holds.
LEMMA InitInv ==
  ASSUME Init  PROVE Inv
<1>1. Shape
  <2>1. NoMsg \in Messages \union {NoMsg} /\ NoReply \in Replies \union {NoReply}
    OBVIOUS
  <2> QED  BY <2>1 DEF Init, Shape, Kinds, Sids
<1>2. WireInv
  <2>1. \A k \in Conns : ConnOf(k)
    BY DEF Init, ConnOf
  <2>2. \A c \in Clients, o \in Objects : SockOf(c, o)
    BY DEF Init, SockOf
  <2>3. \A c \in Clients : ClientOf(c)
    BY DEF Init, ClientOf
  <2>4. \A o \in Objects : UnbornOf(o)
    BY DEF Init, UnbornOf
  <2>5. SidsBelow
    BY DEF Init, SidsBelow
  <2> QED  BY <2>1, <2>2, <2>3, <2>4, <2>5 DEF WireInv
<1>3. ObjectInv
  <2>1. \A o : Users(o) = {}
    BY DEF Init, Users
  <2> QED  BY <2>1 DEF Init, ObjectInv, RefOf, GoneOf, OpenerOf, Opening, CloseOf, ClosingOk,
      OkComing
<1>4. FreshInv
  BY DEF Init, FreshInv, FreshOf, Opening
<1>5. DoneInv
  <2> SUFFICES ASSUME NEW c \in Clients  PROVE DoneOf(c)
    BY DEF DoneInv
  <2>1. Pending(c) = {}
    BY DEF Init, Pending
  <2>2. Cardinality(Pending(c)) = 0 /\ done[c] = 0 /\ Sent(c) = 0
    BY <2>1, FS_EmptySet DEF Init, Sent
  <2> QED  BY <2>2 DEF DoneOf, OkComing, Init
<1>6. OwnInv
  BY DEF Init, OwnInv, Owned, ReplyOwned
<1>7. CalmInv
  <2>1. \A k \in Conns : CalmConn(k)
    BY DEF Init, CalmConn
  <2>2. \A c \in Clients : CalmClient(c) /\ CalmOpen(c) /\ \A s : ~Coming(c, s)
    BY DEF Init, CalmClient, CalmOpen, OkComing, Coming
  <2>3. \A c \in Clients, o \in Objects : CalmSock(c, o)
    BY DEF Init, CalmSock
  <2>4. \A o \in Objects : CalmObject(o)
    BY DEF Init, CalmObject
  <2>5. CarriedOnce
    BY <2>2 DEF Init, CarriedOnce, Carries, Sids
  <2> QED  BY <2>1, <2>2, <2>3, <2>4, <2>5 DEF CalmInv, Calm
<1> QED  BY <1>1, <1>2, <1>3, <1>4, <1>5, <1>6, <1>7 DEF Inv, Core

\* Every step of the client, of the network and of the daemon keeps every part.
LEMMA NextInv ==
  ASSUME Inv, [Next]_vars  PROVE Inv'
<1>0. Shape /\ WireInv /\ ObjectInv /\ FreshInv /\ DoneInv /\ OwnInv /\ CalmInv /\ Core
  BY DEF Inv, Core
<1>o. \A c \in Clients : obj[c] \in Objects
  BY <1>0 DEF Shape
<1>1. Shape'
  BY <1>0, <1>o, ShapeClient, ShapeServ, ShapeStop, StepKinds
<1>2. WireInv'
  <2>1. \A k \in Conns : ConnOf(k)'
    BY <1>0, <1>o, ConnClient, ConnServ, ConnStop, StepKinds
  <2>2. \A c \in Clients, o \in Objects : SockOf(c, o)'
    BY <1>0, <1>o, SockClient, SockServ, SockStop, StepKinds
  <2>3. \A c \in Clients : ClientOf(c)'
    BY <1>0, <1>o, OwnClient, OwnServ, OwnStop, StepKinds
  <2>4. \A o \in Objects : UnbornOf(o)'
    BY <1>0, UnbornStep
  <2>5. SidsBelow'
    BY <1>0, SidsStep
  <2> QED  BY <2>1, <2>2, <2>3, <2>4, <2>5 DEF WireInv
<1>3. ObjectInv'
  <2>1. \A o \in Objects : RefOf(o)'
    BY <1>0, RefStep
  <2>2. \A o \in Objects : GoneOf(o)'
    BY <1>0, <2>1, GoneStep
  <2>3. \A c \in Clients : OpenerOf(c)'
    BY <1>0, OpenerStep
  <2>4. \A c \in Clients : CloseOf(c)'
    BY <1>0, <2>1, CloseStep
  <2> QED  BY <2>1, <2>2, <2>3, <2>4 DEF ObjectInv
<1>4. FreshInv'
  BY <1>0, FreshStep
<1>5. DoneInv'
  BY <1>0, DoneStep
<1>6. OwnInv'
  BY <1>0, <1>1, <1>2, OwnStep DEF WireInv
<1>7. CalmInv'
  BY <1>0, CalmStep
<1> QED  BY <1>1, <1>2, <1>3, <1>4, <1>5, <1>6, <1>7 DEF Inv, Core

\* The conjunction of all parts is an invariant of the specification.
THEOREM InvHolds == Spec => []Inv
<1>1. Init => Inv
  BY InitInv
<1>2. Inv /\ [Next]_vars => Inv'
  BY NextInv
<1> QED  BY <1>1, <1>2, PTL DEF Spec

\* The variables stay in their types; in particular the reference count of a
\* session object stays between -1 and the number of client threads.
THEOREM TypeCorrect == Spec => []TypeOK
<1>1. ASSUME Inv  PROVE TypeOK
  <2>0. Shape /\ WireInv /\ ObjectInv
    BY <1>1 DEF Inv, Core
  <2>1. call \in [Clients -> 0 .. calls] /\ try \in [Clients -> 0 .. RPC_ATTEMPTS]
    <3>1. ASSUME NEW c \in Clients  PROVE call[c] \in 0 .. calls /\ try[c] \in 0 .. RPC_ATTEMPTS
      BY <2>0 DEF WireInv, ClientOf, Shape
    <3> QED  BY <2>0, <3>1 DEF Shape
  <2>2. ref \in [Objects -> -1 .. Cardinality(Clients)]
    <3>1. Cardinality(Clients) \in Nat
      BY FS_CardinalityType
    <3>2. ASSUME NEW o \in Objects  PROVE ref[o] \in -1 .. Cardinality(Clients)
      <4>1. Users(o) \subseteq Clients
        BY DEF Users
      <4>2. Cardinality(Users(o)) \in Nat /\ Cardinality(Users(o)) <= Cardinality(Clients)
        BY <4>1, FS_Subset, UsersFinite
      <4>3. \A m, n \in Nat, r \in Int : m <= n /\ (r = 0 \/ r = -1 \/ r = m \/ r = m - 1) => r \in -1 .. n
        OBVIOUS
      <4>4. ref[o] \in Int /\ (ref[o] = 0 \/ ref[o] = -1 \/ ref[o] = Cardinality(Users(o))
                               \/ ref[o] = Cardinality(Users(o)) - 1)
        BY <2>0 DEF ObjectInv, RefOf, Shape
      <4> QED  BY <3>1, <4>2, <4>3, <4>4
    <3> QED  BY <2>0, <3>2 DEF Shape
  <2>3. live \subseteq 1 .. nextsid - 1
    <3>1. ASSUME NEW s \in live  PROVE s \in 1 .. nextsid - 1
      BY <2>0 DEF Shape, Sids, WireInv, SidsBelow
    <3> QED  BY <3>1
  <2>4. ASSUME NEW k \in Conns
        PROVE  /\ msg[k] = NoMsg \/ (msg[k].kind \in Kinds /\ msg[k].from \in Clients)
               /\ reply[k] = NoReply \/ reply[k].res \in {"ok", "error"}
               /\ ans[k] # NoReply <=> serv[k] = "write"
    BY <2>0 DEF Shape, Messages, Replies, WireInv, ConnOf
  <2>5. Sids \union {0} = Nat
    BY DEF Sids
  <2> QED  BY <2>0, <2>1, <2>2, <2>3, <2>4, <2>5 DEF Shape, TypeOK
<1> QED  BY <1>1, InvHolds, PTL

\* A session object is deleted only when no thread works with it, and its count is
\* the number of threads that do: sessions_unref takes the table's reference away
\* with the one close that succeeds, whatever calls and closes overlap with it.
THEOREM ObjectsAreReferenced == Spec => []ObjectsReferenced
<1>1. ASSUME Inv  PROVE ObjectsReferenced
  <2> SUFFICES ASSUME NEW o \in Objects
               PROVE  /\ stage[o] = "deleted" => Users(o) = {}
                      /\ stage[o] = "listed" => ref[o] = Cardinality(Users(o))
                      /\ stage[o] = "unlisted" => ref[o] = Cardinality(Users(o)) - 1
    BY DEF ObjectsReferenced, Users
  <2> QED  BY <1>1 DEF Inv, Core, ObjectInv, RefOf
<1> QED  BY <1>1, InvHolds, PTL

\* A call that reports success was executed, no call more often than DoRpc tries,
\* and one that met no broken connection at most once, although a retry may meet
\* the request it repeats in the daemon.
THEOREM ExecutionsReported == Spec => []ExecutedAsReported
<1>1. ASSUME Inv  PROVE ExecutedAsReported
  <2> SUFFICES ASSUME NEW c \in Clients, pc[c] = "return"
               PROVE  /\ res[c] = "ok" => done[c] >= 1
                      /\ done[c] <= RPC_ATTEMPTS
                      /\ try[c] = 0 => done[c] <= 1
    BY DEF ExecutedAsReported
  <2>1. DoneOf(c) /\ ClientOf(c) /\ done[c] \in Nat /\ try[c] \in Nat
    BY <1>1 DEF Inv, Core, DoneInv, WireInv, Shape
  <2>2. Cardinality(Pending(c)) \in Nat
    BY PendingFinite
  <2>3. Sent(c) \in Nat /\ Sent(c) <= try[c] + 1 /\ Sent(c) <= RPC_ATTEMPTS
    BY <2>1 DEF Sent, ClientOf
  <2>4. \A a, m, s, t, n \in Nat : a + m <= s /\ s <= t + 1 /\ s <= n => a <= n /\ (t = 0 => a <= 1)
    OBVIOUS
  <2>5. done[c] <= RPC_ATTEMPTS /\ (try[c] = 0 => done[c] <= 1)
    BY <2>1, <2>2, <2>3, <2>4 DEF DoneOf
  <2>6. res[c] = "ok" => done[c] >= 1
    BY <2>1 DEF DoneOf, OkComing
  <2> QED  BY <2>5, <2>6
<1> QED  BY <1>1, InvHolds, PTL

\* A session of the daemon that no service thread will close is one no client knows
\* of, while the daemon runs: a service thread remembers the session of an open
\* before the client can have the reply.
THEOREM UnownedAreUnknown == Spec => []UnownedUnknown
<1>1. ASSUME Inv  PROVE UnownedUnknown
  BY <1>1 DEF Inv, OwnInv, Owned, UnownedUnknown
<1> QED  BY <1>1, InvHolds, PTL

\* As long as no connection broke or failed and no stop was asked for, a session
\* object of the client's table stands for an open session of the daemon, or a
\* thread is closing it.
THEOREM TablesAgree == Spec => []TableAgrees
<1>1. ASSUME Inv  PROVE TableAgrees
  <2> SUFFICES ASSUME faults = 0, stop = "no", NEW o \in Objects, stage[o] = "listed", rsid[o] \notin live
               PROVE  \E c \in Clients : pc[c] # "idle" /\ obj[c] = o /\ kind[c] \in {"close", "finalize"}
    BY DEF TableAgrees
  <2>1. CalmObject(o)
    BY <1>1 DEF Inv, CalmInv, Calm
  <2> QED  BY <2>1 DEF CalmObject, OkComing
<1> QED  BY <1>1, InvHolds, PTL
============================================================================
