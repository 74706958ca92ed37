-------------------------------- MODULE Rpc --------------------------------
(***************************************************************************)
(* Remote HPI calls: the client library's session objects and its DoRpc    *)
(* loop (baselib/session.cpp), connections that may break                  *)
(* (transport/strmsock.cpp), and the daemon's connection threads with the  *)
(* HPI session each of them owns (openhpid/server.cpp), down to the end of *)
(* oh_server_run when the daemon is told to stop.                          *)
(*                                                                         *)
(* Each client thread has its own socket per session; the daemon serves    *)
(* each connection with a thread of its own (the pool has no limit unless  *)
(* the administrator sets one).  The daemon's session table is reduced to  *)
(* the set of open sessions; module Session has the rest.                  *)
(***************************************************************************)
EXTENDS Integers, FiniteSets

CONSTANTS Clients,      \* threads of the client program
          Objects,      \* cSession objects the program may create
          MaxConns,     \* bound: connections ever made
          MaxInputs,    \* bound: calls, connections that break or fail, and stops
          RPC_ATTEMPTS  \* cSession::RPC_ATTEMPTS, 2

ASSUME RpcAssumption ==
  /\ IsFiniteSet(Clients) /\ MaxConns \in Nat /\ MaxInputs \in Nat
  /\ RPC_ATTEMPTS \in Nat \ {0}

Conns == 1 .. MaxConns
Sids  == Nat \ {0}   \* sessions of the daemon
Kinds == {"open", "close", "call", "get", "finalize"}

VARIABLES
  pc, kind, obj,  \* client thread: where it is, its call, its session object
  call,           \* client thread: the number of its call
  try, res,       \* attempts of DoRpc, and what it returned
  sock,           \* cSession::m_sockets: the connection of a thread, 0: none
  bad,            \* the request buffer was overwritten by part of a reply
  rsid, ref,      \* session object: m_remote_sid, m_ref_cnt
  stage,          \* session object: unborn, new, listed, unlisted, deleted
  cup,            \* connection, at the client: up, closed, broken
  sup,            \* connection, at the daemon: is it up?
  msg, reply,     \* connection: the request and the reply under way
  serv, my_sid,   \* service thread: where it is, the session it owns
  ans,            \* service thread: the reply it is about to write
  live, nextsid,  \* the daemon's open sessions, and the next id
  quit,           \* the quit event: no, posted, muxed (handed to the sessions)
  quits,          \* sessions whose queue holds the quit event
  backlog,        \* sessions whose queue holds other events, before that one
  missed,         \* history: sessions whose owner will find no quit event
  stop,           \* no, asked (stop set, sockets closed), over
  calls, faults,  \* bounds: how many there were
  done            \* history: executions of a client thread's request

client == <<pc, kind, obj, call, try, res, bad, calls>>
table  == <<rsid, ref, stage>>
wire   == <<cup, sup, msg, reply>>
queues == <<quits, backlog, missed>>
daemon == <<serv, my_sid, ans, live, nextsid, queues, quit, stop>>
vars   == <<client, sock, table, wire, daemon, faults, done>>

NoMsg   == [kind |-> "none"]
NoReply == [res |-> "none"]

Reply(r, s) == [res |-> r, sid |-> s]

Init ==
  /\ pc = [c \in Clients |-> "idle"]
  /\ kind = [c \in Clients |-> "call"]
  /\ obj \in [Clients -> Objects] /\ \A c, d \in Clients : obj[c] = obj[d]
  /\ try = [c \in Clients |-> 0]
  /\ res = [c \in Clients |-> "ok"]
  /\ bad = [c \in Clients |-> FALSE]
  /\ call = [c \in Clients |-> 0]
  /\ calls = 0
  /\ sock = [c \in Clients |-> [o \in Objects |-> 0]]
  /\ rsid = [o \in Objects |-> 0]
  /\ ref = [o \in Objects |-> 0]
  /\ stage = [o \in Objects |-> "unborn"]
  /\ cup = [k \in Conns |-> "closed"]
  /\ sup = [k \in Conns |-> FALSE]
  /\ msg = [k \in Conns |-> NoMsg]
  /\ reply = [k \in Conns |-> NoReply]
  /\ ans = [k \in Conns |-> NoReply]
  /\ serv = [k \in Conns |-> "unused"]
  /\ my_sid = [k \in Conns |-> 0]
  /\ live = {}
  /\ nextsid = 1
  /\ quit = "no"
  /\ quits = {}
  /\ backlog = {}
  /\ missed = {}
  /\ stop = "no"
  /\ faults = 0
  /\ done = [c \in Clients |-> 0]

Conn(c) == sock[c][obj[c]]

----------------------------------------------------------------------------
(* The client library: calls. *)

Begin(c, k, o) ==
  /\ pc[c] = "idle"
  /\ calls + faults < MaxInputs
  /\ \A d \in Clients : pc[d] # "idle" => kind[d] # "finalize"
  /\ calls' = calls + 1
  /\ call' = [call EXCEPT ![c] = calls + 1]
  /\ kind' = [kind EXCEPT ![c] = k]
  /\ obj' = [obj EXCEPT ![c] = o]
  /\ pc' = [pc EXCEPT ![c] = "send"]
  /\ UNCHANGED <<try, res, bad, sock, wire, daemon, faults, done>>

\* ohc_sess_open: a new session object, not in the table yet.
SessOpen(c, o) ==
  /\ stage[o] = "unborn"
  /\ Begin(c, "open", o)
  /\ stage' = [stage EXCEPT ![o] = "new"]
  /\ UNCHANGED <<rsid, ref>>

\* ohc_sess_rpc, and ohc_sess_close: sessions_get_ref finds the object.  A
\* "get" is saHpiEventGet with SAHPI_TIMEOUT_BLOCK on a subscribed session.
SessCall(c, k, o) ==
  /\ stage[o] = "listed"
  /\ Begin(c, k, o)
  /\ ref' = [ref EXCEPT ![o] = @ + 1]
  /\ UNCHANGED <<rsid, stage>>

\* ohc_sess_close_all, for each session of the table.  The program calls
\* saHpiFinalize when none of its threads is inside another call, nor begins
\* one meanwhile.
SessFinalize(c, o) ==
  /\ \A d \in Clients : pc[d] = "idle"
  /\ SessCall(c, "finalize", o)

----------------------------------------------------------------------------
(* The client library: DoRpc. *)

Finish(c, r) ==
  /\ pc' = [pc EXCEPT ![c] = "return"]
  /\ res' = [res EXCEPT ![c] = r]

\* WriteMsg on a connection that is up.
Send(c, k) ==
  /\ msg' = [msg EXCEPT ![k] = [kind |-> kind[c], sid |-> rsid[obj[c]], bad |-> bad[c],
                               from |-> c, call |-> call[c]]]
  /\ pc' = [pc EXCEPT ![c] = "read"]
  /\ UNCHANGED <<kind, obj, call, try, res, bad, calls, table, reply, my_sid, ans,
                 live, nextsid, queues, quit, stop, faults, done>>

\* GetSock finds the thread's socket for this session.
Write(c) ==
  /\ pc[c] = "send"
  /\ Conn(c) # 0
  /\ cup[Conn(c)] = "up"
  /\ Send(c, Conn(c))
  /\ UNCHANGED <<sock, cup, sup, serv>>

\* GetSock makes a new connection; the daemon's accept loop starts a thread
\* for it.
Connect(c) ==
  /\ pc[c] = "send"
  /\ Conn(c) = 0
  /\ stop = "no"
  /\ \E k \in Conns :
       /\ serv[k] = "unused"
       /\ \A j \in Conns : serv[j] = "unused" => k <= j
       /\ sock' = [sock EXCEPT ![c][obj[c]] = k]
       /\ cup' = [cup EXCEPT ![k] = "up"]
       /\ sup' = [sup EXCEPT ![k] = TRUE]
       /\ serv' = [serv EXCEPT ![k] = "read"]
       /\ Send(c, k)

\* Mutant: the result of the previous step is returned.
ConnectFailsOk(c) ==
  /\ pc[c] = "send"
  /\ Conn(c) = 0
  /\ \/ stop # "no" /\ UNCHANGED faults
     \/ stop = "no" /\ calls + faults < MaxInputs /\ faults' = faults + 1
  /\ Finish(c, "ok")
  /\ UNCHANGED <<kind, obj, call, try, bad, calls, sock, table, wire, daemon, done>>

\* GetSock fails: the daemon no longer listens, or cannot be reached.
ConnectFails(c) ==
  /\ pc[c] = "send"
  /\ Conn(c) = 0
  /\ \/ stop # "no" /\ UNCHANGED faults
     \/ stop = "no" /\ calls + faults < MaxInputs /\ faults' = faults + 1
  /\ Finish(c, "noresponse")
  /\ UNCHANGED <<kind, obj, call, try, bad, calls, sock, table, wire, daemon, done>>

\* ReadMsg delivers a reply; the one to an open names the daemon's session.
Read(c) ==
  /\ pc[c] = "read"
  /\ reply[Conn(c)] # NoReply
  /\ Finish(c, reply[Conn(c)].res)
  /\ rsid' = IF kind[c] = "open" THEN [rsid EXCEPT ![obj[c]] = reply[Conn(c)].sid] ELSE rsid
  /\ reply' = [reply EXCEPT ![Conn(c)] = NoReply]
  /\ UNCHANGED <<kind, obj, call, try, bad, calls, sock, ref, stage, cup, sup, msg, daemon,
                 faults, done>>

AttemptsLeft(c) == try[c] + 1 < RPC_ATTEMPTS

\* Mutant: a broken connection is noticed by writing only.
RetryWrite(c) ==
  /\ pc[c] = "send" /\ Conn(c) # 0
  /\ cup[Conn(c)] # "up"
  /\ \/ reply[Conn(c)] = NoReply /\ UNCHANGED bad
     \/ /\ reply[Conn(c)] # NoReply /\ cup[Conn(c)] = "broken"
        /\ \E b \in BOOLEAN : bad' = [bad EXCEPT ![c] = @ \/ b]
  /\ reply' = [reply EXCEPT ![Conn(c)] = NoReply]
  /\ sock' = [sock EXCEPT ![c][obj[c]] = 0]
  /\ try' = [try EXCEPT ![c] = @ + 1]
  /\ IF AttemptsLeft(c)
     THEN pc' = [pc EXCEPT ![c] = "send"] /\ UNCHANGED res
     ELSE Finish(c, "noresponse")
  /\ UNCHANGED <<kind, obj, call, calls, table, cup, sup, msg, daemon, faults, done>>

\* WriteMsg or ReadMsg fails: the socket is given up, and the request sent
\* once more on a new one.  A reply that broke off may have overwritten part
\* of the buffer the request is sent from.
Retry(c) ==
  /\ pc[c] = "read" \/ (pc[c] = "send" /\ Conn(c) # 0)
  /\ cup[Conn(c)] # "up"
  /\ \/ reply[Conn(c)] = NoReply /\ UNCHANGED bad
     \/ /\ reply[Conn(c)] # NoReply /\ cup[Conn(c)] = "broken"
        /\ \E b \in BOOLEAN : bad' = [bad EXCEPT ![c] = @ \/ b]
  /\ reply' = [reply EXCEPT ![Conn(c)] = NoReply]
  /\ sock' = [sock EXCEPT ![c][obj[c]] = 0]
  /\ try' = [try EXCEPT ![c] = @ + 1]
  /\ IF AttemptsLeft(c)
     THEN pc' = [pc EXCEPT ![c] = "send"] /\ UNCHANGED res
     ELSE Finish(c, "noresponse")
  /\ UNCHANGED <<kind, obj, call, calls, table, cup, sup, msg, daemon, faults, done>>

----------------------------------------------------------------------------
(* The client library: the end of a call. *)

\* Mutant: a closed session stays in the table.
UnrefListed(o, closed) ==
  LET n == ref[o] - (IF closed THEN 2 ELSE 1)
  IN  /\ ref' = [ref EXCEPT ![o] = n]
      /\ stage' = [stage EXCEPT ![o] = IF n < 0 THEN "deleted" ELSE @]

\* Mutant: the object is deleted when the table alone refers to it.
UnrefAtZero(o, closed) ==
  LET n == ref[o] - (IF closed THEN 2 ELSE 1)
  IN  /\ ref' = [ref EXCEPT ![o] = n]
      /\ stage' = [stage EXCEPT ![o] =
                     IF n <= 0 THEN "deleted" ELSE IF closed THEN "unlisted" ELSE @]

\* sessions_unref: a closed session leaves the table and its object goes with
\* the last reference.
Unref(o, closed) ==
  LET n == ref[o] - (IF closed THEN 2 ELSE 1)
  IN  /\ ref' = [ref EXCEPT ![o] = n]
      /\ stage' = [stage EXCEPT ![o] =
                     IF n < 0 THEN "deleted" ELSE IF closed THEN "unlisted" ELSE @]

\* ohc_sess_open lists or deletes the new object, the others unref theirs;
\* ohc_sess_close_all does as if its call had succeeded.
Return(c) ==
  /\ pc[c] = "return"
  /\ IF kind[c] = "open"
     THEN /\ stage' = [stage EXCEPT ![obj[c]] = IF res[c] = "ok" THEN "listed" ELSE "deleted"]
          /\ UNCHANGED ref
     ELSE Unref(obj[c], kind[c] = "finalize" \/ (kind[c] = "close" /\ res[c] = "ok"))
  /\ pc' = [pc EXCEPT ![c] = "idle"]
  /\ kind' = [kind EXCEPT ![c] = "call"]
  /\ try' = [try EXCEPT ![c] = 0]
  /\ res' = [res EXCEPT ![c] = "ok"]
  /\ bad' = [bad EXCEPT ![c] = FALSE]
  /\ done' = [done EXCEPT ![c] = 0]
  /\ call' = [call EXCEPT ![c] = 0]
  /\ UNCHANGED <<obj, calls, sock, rsid, wire, daemon, faults>>

----------------------------------------------------------------------------
(* Connections. *)

\* A connection breaks: a request or reply under way may arrive or not.  The
\* client notices it (keepalive probes) ...
Break(k) ==
  /\ calls + faults < MaxInputs
  /\ cup[k] = "up"
  /\ cup' = [cup EXCEPT ![k] = "broken"]
  /\ msg' \in {msg, [msg EXCEPT ![k] = IF serv[k] = "read" THEN NoMsg ELSE @]}
  /\ faults' = faults + 1
  /\ UNCHANGED <<client, sock, table, sup, reply, daemon, done>>

\* ... and the daemon, which probes nothing, perhaps later.
Notice(k) ==
  /\ sup[k] /\ cup[k] = "broken"
  /\ sup' = [sup EXCEPT ![k] = FALSE]
  /\ UNCHANGED <<client, sock, table, cup, msg, reply, daemon, faults, done>>

----------------------------------------------------------------------------
(* service_thread. *)

\* The daemon closes its end: a reply already written still arrives.
Closed(ks) == [k \in Conns |-> IF k \in ks /\ cup[k] = "up" THEN "closed" ELSE cup[k]]

\* saHpiSessionClose: the session goes, and its queue with it.
CloseSession(sid) ==
  /\ live' = live \ {sid}
  /\ quits' = quits \ {sid}
  /\ backlog' = backlog \ {sid}
  /\ missed' = missed \ {sid}

\* Mutant: the session of the connection is not closed.
EndOpen(k) ==
  /\ serv' = [serv EXCEPT ![k] = "done"]
  /\ my_sid' = [my_sid EXCEPT ![k] = 0]
  /\ cup' = Closed({k})
  /\ sup' = [sup EXCEPT ![k] = FALSE]
  /\ UNCHANGED <<live, queues>>

\* The loop is left: the thread closes the session it owns and the socket.
End(k) ==
  /\ serv' = [serv EXCEPT ![k] = "done"]
  /\ my_sid' = [my_sid EXCEPT ![k] = 0]
  /\ cup' = Closed({k})
  /\ sup' = [sup EXCEPT ![k] = FALSE]
  /\ CloseSession(my_sid[k])

\* ReadMsg: a request ...
ServRead(k) ==
  /\ serv[k] = "read"
  /\ stop = "no" /\ sup[k]
  /\ msg[k] # NoMsg
  /\ serv' = [serv EXCEPT ![k] = "exec"]
  /\ UNCHANGED <<client, sock, table, wire, my_sid, ans, live, nextsid, queues,
                 quit, stop, faults, done>>

\* ... or the end of the connection or of the daemon.
ServReadFails(k) ==
  /\ serv[k] = "read"
  /\ stop # "no" \/ ~sup[k]
  /\ End(k)
  /\ msg' = [msg EXCEPT ![k] = NoMsg]
  /\ UNCHANGED <<client, sock, table, reply, ans, nextsid, quit, stop, faults, done>>

\* The reply of process_msg; an execution counts for the call that asked for it.
Answer(k, r, s) ==
  LET c == msg[k].from
  IN  /\ serv' = [serv EXCEPT ![k] = "write"]
      /\ ans' = [ans EXCEPT ![k] = Reply(r, s)]
      /\ done' = IF r = "ok" /\ call[c] = msg[k].call THEN [done EXCEPT ![c] = @ + 1] ELSE done
      /\ UNCHANGED <<client, sock, table, wire, my_sid, quit, stop, faults>>

Verdict(k) == IF msg[k].sid \in live THEN "ok" ELSE "error"

\* process_msg: saHpiSessionOpen.
ExecOpen(k) ==
  /\ serv[k] = "exec" /\ msg[k].kind = "open"
  /\ live' = live \union {nextsid}
  /\ nextsid' = nextsid + 1
  /\ Answer(k, "ok", nextsid)
  /\ missed' = IF quit = "muxed" THEN missed \union {nextsid} ELSE missed
  /\ UNCHANGED <<quits, backlog>>

\* process_msg: saHpiSessionClose.
ExecClose(k) ==
  /\ serv[k] = "exec" /\ msg[k].kind \in {"close", "finalize"}
  /\ CloseSession(msg[k].sid)
  /\ Answer(k, Verdict(k), msg[k].sid)
  /\ UNCHANGED nextsid

\* process_msg: any other call.
ExecCall(k) ==
  /\ serv[k] = "exec" /\ msg[k].kind = "call"
  /\ Answer(k, Verdict(k), msg[k].sid)
  /\ UNCHANGED <<live, nextsid, queues>>

\* A request sent from an overwritten buffer, unless nothing of it was hit.
ExecBad(k) ==
  /\ serv[k] = "exec" /\ msg[k].bad
  /\ Answer(k, "error", 0)
  /\ UNCHANGED <<live, nextsid, queues>>

\* process_msg: a blocking saHpiEventGet returns when an event arrives, as long
\* as the event thread runs, or when its session is found unsubscribed ...
ExecGetEvent(k) ==
  /\ serv[k] = "exec" /\ msg[k].kind = "get"
  /\ msg[k].sid \in live
  /\ \/ quit # "muxed" /\ Answer(k, "ok", msg[k].sid)
     \/ Answer(k, "error", msg[k].sid)
  /\ UNCHANGED <<live, nextsid, queues>>

\* ... with an event that was queued before the quit event ...
ExecGetHeld(k) ==
  /\ serv[k] = "exec" /\ msg[k].kind = "get"
  /\ quit = "muxed"
  /\ msg[k].sid \in live \intersect backlog
  /\ backlog' \in {backlog, backlog \ {msg[k].sid}}
  /\ Answer(k, "ok", msg[k].sid)
  /\ UNCHANGED <<live, nextsid, quits, missed>>

\* ... when its session is closed, or with the quit event, which only one
\* thread finds.  The owner of the session misses it if that thread is another
\* one, or is itself told to go on because stop is not set yet.
ExecGetEnd(k) ==
  /\ serv[k] = "exec" /\ msg[k].kind = "get"
  /\ msg[k].sid \notin live \/ msg[k].sid \in quits \ backlog
  /\ quits' = quits \ {msg[k].sid}
  /\ missed' = IF msg[k].sid \in quits /\ (my_sid[k] # msg[k].sid \/ stop = "no")
               THEN missed \union {msg[k].sid} ELSE missed
  /\ Answer(k, "error", msg[k].sid)
  /\ UNCHANGED <<live, nextsid, backlog>>

\* WriteMsg: a client that is gone gets nothing, whether the daemon knows it
\* or not.
Reached(k) ==
  /\ reply' = IF sup[k] /\ cup[k] = "up" THEN [reply EXCEPT ![k] = ans[k]] ELSE reply
  /\ msg' = [msg EXCEPT ![k] = NoMsg]
  /\ ans' = [ans EXCEPT ![k] = NoReply]
  /\ UNCHANGED <<client, sock, table, nextsid, quit, stop, faults, done>>

Closes(k) == msg[k].kind \in {"close", "finalize"} /\ ans[k].res = "ok"

\* The reply is written; only now the thread remembers the session it opened.
ServWrite(k) ==
  /\ serv[k] = "write"
  /\ stop = "no" /\ sup[k] /\ ~Closes(k)
  /\ Reached(k)
  /\ serv' = [serv EXCEPT ![k] = "read"]
  /\ my_sid' = [my_sid EXCEPT ![k] = IF msg[k].kind = "open" /\ ans[k].res = "ok"
                                     THEN ans[k].sid ELSE @]
  /\ UNCHANGED <<cup, sup, live, queues>>

\* The loop is left after a reply: the session was closed, the daemon stops or
\* the reply could not be written.
ServWriteEnd(k) ==
  /\ serv[k] = "write"
  /\ stop # "no" \/ ~sup[k] \/ Closes(k)
  /\ Reached(k)
  /\ End(k)

----------------------------------------------------------------------------
(* Stopping the daemon. *)

\* sig_handler posts the quit event, oh_post_quit_event ...
PostQuit ==
  /\ quit = "no"
  /\ calls + faults < MaxInputs
  /\ faults' = faults + 1
  /\ quit' = "posted"
  /\ UNCHANGED <<client, sock, table, wire, serv, my_sid, ans, live, nextsid, queues,
                 stop, done>>

\* ... and then tells the server to stop, oh_server_request_stop: stop is set
\* and every socket closed.  (The two are one step: in between a service thread
\* can only write one last reply.)
RequestStop ==
  /\ quit # "no" /\ stop = "no"
  /\ stop' = "asked"
  /\ cup' = Closed(Conns)
  /\ sup' = [k \in Conns |-> FALSE]
  /\ UNCHANGED <<client, sock, table, msg, reply, serv, my_sid, ans, live, nextsid,
                 queues, quit, faults, done>>

\* Mutant: the quit event is not handed to the sessions.
MuxQuitNowhere ==
  /\ quit = "posted"
  /\ quit' = "muxed"
  /\ \E held \in SUBSET live : backlog' = held
  /\ UNCHANGED <<client, sock, table, wire, serv, my_sid, ans, live, nextsid, quits,
                 missed, stop, faults, done>>

\* The event thread processes the quit event, before or after stop is set: one
\* copy for each session, behind the events its queue holds; a session that is
\* not subscribed or whose queue is full gets none.  Then the thread ends.
MuxQuit ==
  /\ quit = "posted"
  /\ quit' = "muxed"
  /\ \E given, held \in SUBSET live :
       /\ quits' = given
       /\ backlog' = held
       /\ missed' = live \ given
  /\ UNCHANGED <<client, sock, table, wire, serv, my_sid, ans, live, nextsid, stop,
                 faults, done>>

\* g_thread_pool_free returns when every thread has ended.
ServerRunEnds ==
  /\ stop = "asked"
  /\ \A k \in Conns : serv[k] \in {"unused", "done"}
  /\ stop' = "over"
  /\ UNCHANGED <<client, sock, table, wire, serv, my_sid, ans, live, nextsid, queues,
                 quit, faults, done>>

----------------------------------------------------------------------------
ClientStep(c) == Write(c) \/ Connect(c) \/ ConnectFails(c) \/ Read(c) \/ Retry(c) \/ Return(c)
ServStep(k) ==
  \/ ServRead(k) \/ ServReadFails(k) \/ ServWrite(k) \/ ServWriteEnd(k)
  \/ ExecOpen(k) \/ ExecClose(k) \/ ExecCall(k) \/ ExecBad(k)
  \/ ExecGetHeld(k) \/ ExecGetEnd(k)
StopStep == RequestStop \/ MuxQuit \/ ServerRunEnds

Next ==
  \/ \E c \in Clients, o \in Objects :
       \/ SessOpen(c, o) \/ SessFinalize(c, o)
       \/ \E k \in {"close", "call", "get"} : SessCall(c, k, o)
  \/ \E c \in Clients : ClientStep(c)
  \/ \E k \in Conns : Break(k) \/ Notice(k) \/ ServStep(k) \/ ExecGetEvent(k)
  \/ PostQuit \/ StopStep

Spec == Init /\ [][Next]_vars

\* Threads run on both sides: while one of them can go on, one does.  No more is
\* needed, a call and the work for it take finitely many steps.  Nobody owes a
\* blocked saHpiEventGet an event, nor the daemon the news that a connection
\* broke; sig_handler, once it runs, runs to its end.
Work == (\E c \in Clients : ClientStep(c)) \/ (\E k \in Conns : ServStep(k)) \/ StopStep
Fairness == WF_vars(Work)
FairSpec == Spec /\ Fairness

----------------------------------------------------------------------------
(* Properties. *)

\* Every variable stays in its type.
TypeOK ==
  /\ pc \in [Clients -> {"idle", "send", "read", "return"}]
  /\ kind \in [Clients -> Kinds] /\ obj \in [Clients -> Objects]
  /\ try \in [Clients -> 0 .. RPC_ATTEMPTS]
  /\ res \in [Clients -> {"ok", "error", "noresponse"}]
  /\ bad \in [Clients -> BOOLEAN]
  /\ call \in [Clients -> 0 .. calls]
  /\ calls \in Nat /\ faults \in Nat /\ calls + faults <= MaxInputs
  /\ sock \in [Clients -> [Objects -> Conns \union {0}]]
  /\ rsid \in [Objects -> Sids \union {0}]
  /\ ref \in [Objects -> -1 .. Cardinality(Clients)]
  /\ stage \in [Objects -> {"unborn", "new", "listed", "unlisted", "deleted"}]
  /\ cup \in [Conns -> {"up", "closed", "broken"}] /\ sup \in [Conns -> BOOLEAN]
  /\ \A k \in Conns :
       /\ msg[k] = NoMsg \/ (msg[k].kind \in Kinds /\ msg[k].from \in Clients)
       /\ reply[k] = NoReply \/ reply[k].res \in {"ok", "error"}
       /\ ans[k] # NoReply <=> serv[k] = "write"
  /\ serv \in [Conns -> {"unused", "read", "exec", "write", "done"}]
  /\ my_sid \in [Conns -> Sids \union {0}]
  /\ live \subseteq 1 .. nextsid - 1 /\ nextsid \in Sids
  /\ quits \subseteq Sids /\ backlog \subseteq Sids /\ missed \subseteq Sids
  /\ quit \in {"no", "posted", "muxed"} /\ stop \in {"no", "asked", "over"}
  /\ done \in [Clients -> Nat]

\* A session object is deleted only when no thread works with it, and its
\* count is the number of threads that do (less one once it has left the
\* table), whichever of several calls and closes return first.
ObjectsReferenced ==
  \A o \in Objects :
    LET users == {c \in Clients : pc[c] # "idle" /\ obj[c] = o /\ kind[c] # "open"}
    IN  /\ stage[o] = "deleted" => users = {}
        /\ stage[o] = "listed" => ref[o] = Cardinality(users)
        /\ stage[o] = "unlisted" => ref[o] = Cardinality(users) - 1

\* A session of the daemon that no service thread owns is one no client knows
\* of: its open was executed, but the reply could not be written.  (When the
\* daemon stops the service threads no longer remember theirs.)
UnownedUnknown ==
  stop = "no" =>
    \A sid \in live :
      \/ \E k \in Conns : my_sid[k] = sid \/ (serv[k] = "write" /\ ans[k].sid = sid)
      \/ \A o \in Objects : rsid[o] # sid

\* As long as no connection broke or failed and no stop was asked for, a session
\* object of the client's table stands for an open session of the daemon, or a
\* thread is closing it.
TableAgrees ==
  faults = 0 /\ stop = "no" =>
    \A o \in Objects :
      stage[o] = "listed" =>
        \/ rsid[o] \in live
        \/ \E c \in Clients : pc[c] # "idle" /\ obj[c] = o /\ kind[c] \in {"close", "finalize"}

\* A call that reports success was executed; no call is executed more often
\* than DoRpc tries, and one that met no broken connection at most once.
ExecutedAsReported ==
  \A c \in Clients :
    pc[c] = "return" =>
      /\ res[c] = "ok" => done[c] >= 1
      /\ done[c] <= RPC_ATTEMPTS
      /\ try[c] = 0 => done[c] <= 1

\* Every call but a blocking saHpiEventGet returns, broken connections or not:
\* again and again no such call is under way.  (Their number is bounded, so that
\* this asks no more than that each one returns.)
CallsReturn ==
  []<>(\A c \in Clients : pc[c] # "idle" => kind[c] = "get")

\* A service thread that waits, on the session it owns, for a quit event it will
\* not find: another thread took it; it took it itself before stop was set, and
\* its client called again; the session's queue was full or the session not
\* subscribed when the event was handed out; or the session was opened later.
Stranded(k) ==
  /\ serv[k] = "exec" /\ msg[k].kind = "get"
  /\ my_sid[k] = msg[k].sid /\ msg[k].sid \in missed \ backlog

\* A daemon told to stop ends its service threads, unless one of them is
\* stranded: threads that wait on the session of another one do not hold it up
\* by themselves, nor do requests, replies and broken connections under way.
\* (Once posted the quit event stays so: this is a leads-to.)
StopCompletes ==
  []<>(quit # "no" => stop = "over" \/ \E k \in Conns : Stranded(k))
=============================================================================
