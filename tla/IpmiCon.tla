------------------------------ MODULE IpmiCon ------------------------------
(***************************************************************************)
(* An IPMI connection of the ipmidirect plugin: requests and answers of    *)
(* cIpmiCon (plugins/ipmidirect/ipmi_con.cpp) over RMCP, as cIpmiConLan    *)
(* (ipmi_con_lan.cpp) sends and reads them.                                *)
(*                                                                         *)
(* Callers (HPI calls, MC threads) run cIpmiCon::Cmd; one reader thread    *)
(* reads answers, finds expired requests, sends them again and makes a new *)
(* session when the BMC stays silent.  They share, under m_queue_lock, the *)
(* queue of requests that wait and the table of requests that were sent,   *)
(* by sequence number.  A step is one critical section of a caller, or the *)
(* part of one that the reader runs between two points where it may wait   *)
(* for the lock of a caller's condition variable.                          *)
(*                                                                         *)
(* Every transmission puts its answer into the network, which loses, keeps *)
(* back and reorders answers; a lost request is a lost answer.  Time is    *)
(* abstract: a sent request may be found expired at any round.             *)
(***************************************************************************)
EXTENDS Integers, Sequences, FiniteSets

CONSTANTS Callers,         \* threads that call cIpmiCon::Cmd
          Cmds,            \* network functions and commands of requests
          MaxSeq,          \* m_max_seq: how many sequence numbers there are
          MaxOutstanding,  \* the largest value SetMaxOutstanding is given
          Retries,         \* argument retries of Cmd
          MaxReconnects,   \* bound: how often the session is made anew
          None             \* no request

ASSUME ConAssumption ==
  /\ IsFiniteSet(Callers) /\ None \notin Callers /\ Cmds # {}
  /\ MaxOutstanding \in Nat \ {0} /\ MaxSeq \in Nat /\ MaxOutstanding < MaxSeq
  /\ Retries \in Nat \ {0} /\ MaxReconnects \in Nat

VARIABLES
  m_outstanding,      \* whose request is out under each sequence number
  m_num_outstanding,  \* how many there are, as the code counts them
  m_current_seq,      \* where the search for a free number starts
  m_max_outstanding,  \* how many requests may be out
  m_queue,            \* requests waiting to be sent, by caller
  m_check_connection, \* a ping is out
  m_exit,             \* the reader thread has to end
  th,                 \* each caller and its cIpmiRequest
  rpc,                \* where the reader is
  rd,                 \* the answer it has read and checked
  scan,               \* how far it is in its search for expired requests
  sig,                \* the caller it is about to signal
  net,                \* answers on their way
  reconnects          \* history: how many sessions were made anew

tableVars  == <<m_outstanding, m_num_outstanding, m_current_seq>>
connVars   == <<m_max_outstanding, m_exit, reconnects>>
readerVars == <<rpc, rd, scan, sig>>
vars == <<tableVars, connVars, readerVars, m_queue, m_check_connection, th, net>>

Seqs == 0 .. MaxSeq - 1

\* The network's lateness: an answer arrives before this many more requests
\* are sent, or never.
Late == MaxSeq - MaxOutstanding + 1

Answers == [seq : Seqs, owner : Callers \union {None}, cmd : Cmds, left : 1 .. Late]

RequestState ==
  [pc      : {"idle", "sent", "wait", "woken"},
   cmd     : Cmds,
   seq     : Seqs,                       \* m_seq
   retries : 0 .. Retries,               \* m_retries_left
   rsp     : {"none", "own", "foreign"}] \* history: whose answer was stored

\* A caller outside Cmd; its request is deleted.
Outside(c) == [pc |-> "idle", cmd |-> c, seq |-> 0, retries |-> 0, rsp |-> "none"]
AnyCmd == CHOOSE c \in Cmds : TRUE

Init ==
  /\ m_outstanding = [s \in Seqs |-> None]
  /\ m_num_outstanding = 0
  /\ m_current_seq = 0
  /\ m_max_outstanding = 1
  /\ m_queue = <<>>
  /\ m_check_connection = FALSE
  /\ m_exit = FALSE
  /\ th = [t \in Callers |-> Outside(AnyCmd)]
  /\ rpc = "top"
  /\ rd = None
  /\ scan = 0
  /\ sig = None
  /\ net = {}
  /\ reconnects = 0

\* The reader holds m_queue_lock.
QueueLocked == rpc \in {"reconnect", "resend", "scan", "send"} \/ sig # None

----------------------------------------------------------------------------
(* The table of sent requests. *)

\* How far s is ahead of m_current_seq.
Ahead(s) == (s - m_current_seq) % MaxSeq

\* Mutant: the search starts at 0 every time.
FreeSeqLowest ==
  CHOOSE s \in Seqs : /\ m_outstanding[s] = None
                      /\ \A q \in Seqs : m_outstanding[q] = None => s <= q

\* "find next free seq", from m_current_seq on.
FreeSeq ==
  CHOOSE s \in Seqs : /\ m_outstanding[s] = None
                      /\ \A q \in Seqs : m_outstanding[q] = None => Ahead(s) <= Ahead(q)

SeqAfter(s) == (s + 1) % MaxSeq

\* Each request sent brings every answer on its way nearer to its end.
Aged(answers) == {[a EXCEPT !.left = @ - 1] : a \in {b \in answers : b.left > 1}}

\* cIpmiCon::SendCmd with AddOutstanding and, when IfSendCmd fails,
\* RemOutstanding.  r is the request's caller, with what th has to hold for it
\* afterwards in all other respects.
SendCmd(t, r, ok) ==
  /\ m_current_seq' = SeqAfter(FreeSeq)
  /\ th' = [th EXCEPT ![t] = [r EXCEPT !.seq = FreeSeq, !.retries = @ - 1]]
  /\ IF ok
     THEN /\ m_outstanding' = [m_outstanding EXCEPT ![FreeSeq] = t]
          /\ m_num_outstanding' = m_num_outstanding + 1
          /\ net' = Aged(net) \union
               {[seq |-> FreeSeq, owner |-> t, cmd |-> r.cmd, left |-> Late]}
     ELSE /\ net' = Aged(net)
          /\ UNCHANGED <<m_outstanding, m_num_outstanding>>

RemOutstanding(s) ==
  /\ m_outstanding' = [m_outstanding EXCEPT ![s] = None]
  /\ m_num_outstanding' = m_num_outstanding - 1

\* Answers to a call that is over belong to nobody.
Disown(t) == {IF a.owner = t THEN [a EXCEPT !.owner = None] ELSE a : a \in net}

----------------------------------------------------------------------------
(* cIpmiCon::Cmd. *)

\* Locks its condition variable, then m_queue_lock; sends, or queues when too
\* many requests are out.
CmdSend(t, c) ==
  LET r == [Outside(c) EXCEPT !.pc = "sent", !.retries = Retries] IN
  /\ th[t].pc = "idle"
  /\ ~m_exit
  /\ ~QueueLocked
  /\ IF m_num_outstanding < m_max_outstanding
     THEN SendCmd(t, r, TRUE) /\ UNCHANGED m_queue
     ELSE /\ m_queue' = Append(m_queue, t)
          /\ th' = [th EXCEPT ![t] = r]
          /\ UNCHANGED <<tableVars, net>>
  /\ UNCHANGED <<connVars, readerVars, m_check_connection>>

\* IfSendCmd fails in the caller's thread: no second attempt, Cmd returns.
CmdSendFails(t) ==
  /\ th[t].pc = "idle"
  /\ ~m_exit
  /\ ~QueueLocked
  /\ m_num_outstanding < m_max_outstanding
  /\ m_current_seq' = SeqAfter(FreeSeq)
  /\ net' = Aged(net)
  /\ UNCHANGED <<m_outstanding, m_num_outstanding, connVars, readerVars, m_queue,
                 m_check_connection, th>>

\* cond.Wait: releases the lock of the condition variable.  pthread_cond_wait
\* may return without a signal; Cmd, which tests no predicate, would then delete
\* a request that is still in the table or in the queue.  Such spurious wake-ups
\* are taken not to happen.
CmdWait(t) ==
  /\ th[t].pc = "sent"
  /\ th' = [th EXCEPT ![t].pc = "wait"]
  /\ UNCHANGED <<tableVars, connVars, readerVars, m_queue, m_check_connection, net>>

\* The request is deleted, the answer or the error is returned.
CmdReturn(t) ==
  /\ th[t].pc = "woken"
  /\ th' = [th EXCEPT ![t] = Outside(AnyCmd)]
  /\ net' = Disown(t)
  /\ UNCHANGED <<tableVars, connVars, readerVars, m_queue, m_check_connection>>

\* Mutant: the caller locks its condition variable only to wait on it.
CondFreeAlways(t) == TRUE

\* Nobody holds the lock of t's condition variable: t has it from before
\* m_queue_lock until it waits.
CondFree(t) == th[t].pc # "sent"

\* m_signal->Lock, Signal, Unlock: a signal nobody waits for is lost.
Signal(t) ==
  /\ sig = t
  /\ CondFree(t)
  /\ sig' = None
  /\ th' = [th EXCEPT ![t].pc = IF @ = "wait" THEN "woken" ELSE @]
  /\ UNCHANGED <<tableVars, connVars, rpc, rd, scan, m_queue, m_check_connection, net>>

----------------------------------------------------------------------------
(* The reader: errors. *)

\* cIpmiCon::HandleMsgError for a request with so many retries left: it is
\* queued again, and a silent connection is checked with a ping (stale: the
\* last answer is older than the timeout); else its caller is told.
HandleMsgError(t, left, queue, stale) ==
  IF left > 0
  THEN /\ m_queue' = Append(queue, t)
       /\ m_check_connection' = (m_check_connection \/ stale)
       /\ UNCHANGED sig
  ELSE /\ m_queue' = queue
       /\ sig' = t
       /\ UNCHANGED m_check_connection

\* Mutant: an expired request keeps its slot.
ExpireKeep(s, stale) ==
  /\ rpc = "scan"
  /\ sig = None
  /\ s >= scan
  /\ m_outstanding[s] # None
  /\ HandleMsgError(m_outstanding[s], th[m_outstanding[s]].retries, m_queue, stale)
  /\ scan' = s + 1
  /\ UNCHANGED <<tableVars, connVars, rpc, rd, th, net>>

\* "check for expiered ipmi commands": s is the next sequence number whose
\* request is over its time.
Expire(s, stale) ==
  /\ rpc = "scan"
  /\ sig = None
  /\ s >= scan
  /\ m_outstanding[s] # None
  /\ RemOutstanding(s)
  /\ HandleMsgError(m_outstanding[s], th[m_outstanding[s]].retries, m_queue, stale)
  /\ scan' = s + 1
  /\ UNCHANGED <<m_current_seq, connVars, rpc, rd, th, net>>

\* No other one is.
ScanEnd ==
  /\ rpc = "scan"
  /\ sig = None
  /\ rpc' = "send"
  /\ scan' = 0
  /\ UNCHANGED <<tableVars, connVars, rd, sig, m_queue, m_check_connection, th, net>>

\* One round of the loop of cIpmiCon::SendCmds.
SendNext(ok, stale) ==
  LET t == Head(m_queue) IN
  /\ rpc \in {"send", "resend"}
  /\ sig = None
  /\ m_queue # <<>>
  /\ m_num_outstanding < m_max_outstanding
  /\ SendCmd(t, th[t], ok)
  /\ IF ok
     THEN m_queue' = Tail(m_queue) /\ UNCHANGED <<sig, m_check_connection>>
     ELSE HandleMsgError(t, th[t].retries - 1, Tail(m_queue), stale)
  /\ UNCHANGED <<connVars, rpc, rd, scan>>

\* Its end; after a reconnection the check of the connection is over too.
SendEnd ==
  /\ rpc \in {"send", "resend"}
  /\ sig = None
  /\ m_queue = <<>> \/ m_num_outstanding >= m_max_outstanding
  /\ rpc' = IF rpc = "send" THEN "top" ELSE "poll"
  /\ m_check_connection' = (m_check_connection /\ rpc = "send")
  /\ UNCHANGED <<tableVars, connVars, rd, scan, sig, m_queue, th, net>>

----------------------------------------------------------------------------
(* The reader: answers. *)

\* The head of the loop of cIpmiCon::Run, without a check that timed out.
Top ==
  /\ rpc = "top"
  /\ rpc' = IF m_exit THEN "end" ELSE "poll"
  /\ UNCHANGED <<tableVars, connVars, rd, scan, sig, m_queue, m_check_connection, th, net>>

\* poll finds nothing within 100 ms.
PollNothing ==
  /\ rpc = "poll"
  /\ rpc' = "read"
  /\ UNCHANGED <<tableVars, connVars, rd, scan, sig, m_queue, m_check_connection, th, net>>

\* cIpmiConLan::ReadResponse, without m_queue_lock: an answer whose sequence
\* number is not in use, or whose command is not the one sent under it, is
\* dropped.  The address it comes from is not compared.
ReadResponse(a) ==
  LET t == m_outstanding[a.seq] IN
  /\ rpc = "poll"
  /\ a \in net
  /\ net' = net \ {a}
  /\ IF t # None /\ th[t].cmd = a.cmd
     THEN rd' = a /\ rpc' = "respond"
     ELSE rpc' = "read" /\ UNCHANGED rd
  /\ UNCHANGED <<tableVars, connVars, scan, sig, m_queue, m_check_connection, th>>

\* cIpmiCon::HandleResponse: the request of that sequence number gets the
\* answer, if there still is one.
HandleResponse ==
  LET t == m_outstanding[rd.seq] IN
  /\ rpc = "respond"
  /\ rpc' = "read"
  /\ rd' = None
  /\ IF t = None
     THEN UNCHANGED <<m_outstanding, m_num_outstanding, sig, th>>
     ELSE /\ RemOutstanding(rd.seq)
          /\ sig' = t
          /\ th' = [th EXCEPT ![t].rsp = IF rd.owner = t THEN "own" ELSE "foreign"]
  /\ UNCHANGED <<m_current_seq, connVars, scan, m_queue, m_check_connection, net>>

\* A pong: HandleCheckConnection(true).
ReadPong ==
  /\ rpc = "poll"
  /\ m_check_connection
  /\ m_check_connection' = FALSE
  /\ rpc' = "read"
  /\ UNCHANGED <<tableVars, connVars, rd, scan, sig, m_queue, th, net>>

\* The reader takes m_queue_lock for the rest of its round.
LockQueue ==
  /\ rpc \in {"read", "again"}
  /\ sig = None
  /\ rpc' = IF rpc = "read" THEN "scan" ELSE "resend"
  /\ UNCHANGED <<tableVars, connVars, rd, scan, sig, m_queue, m_check_connection, th, net>>

----------------------------------------------------------------------------
(* The reader: a new session. *)

\* Callers with a request out, by sequence number.
OutBySeq ==
  LET used == {s \in Seqs : m_outstanding[s] # None}
      Nth(i) == CHOOSE s \in used : Cardinality({q \in used : q < s}) = i - 1
  IN [i \in 1 .. Cardinality(used) |-> m_outstanding[Nth(i)]]

\* Mutant: a request on its last try keeps 0 retries.
RetriesAgainNone(left) == left

\* A request that has no retry left gets one.
RetriesAgain(left) == IF left = 0 THEN 1 ELSE left

\* cIpmiCon::RequeueOutstanding.
RequeueOutstanding ==
  /\ m_queue' = m_queue \o OutBySeq
  /\ m_outstanding' = [s \in Seqs |-> None]
  /\ m_num_outstanding' = 0
  /\ th' = [t \in Callers |->
              IF \E s \in Seqs : m_outstanding[s] = t
              THEN [th[t] EXCEPT !.retries = RetriesAgain(@)] ELSE th[t]]

\* The ping was not answered in time: IfCheckConnectionTimeout takes
\* m_queue_lock and Reconnect begins.
CheckTimeout ==
  /\ rpc = "top"
  /\ ~m_exit
  /\ m_check_connection
  /\ reconnects < MaxReconnects
  /\ rpc' = "reconnect"
  /\ RequeueOutstanding
  /\ reconnects' = reconnects + 1
  /\ UNCHANGED <<m_current_seq, m_max_outstanding, m_exit, rd, scan, sig,
                 m_check_connection, net>>

\* Reconnect loops until the BMC answers a ping and gives a new session; an
\* answer that bears the old session id is dropped from now on.  Sequence
\* numbers start again.
ReconnectDone ==
  /\ rpc = "reconnect"
  /\ rpc' = "again"
  /\ m_current_seq' = 0
  /\ net' = {}
  /\ UNCHANGED <<m_outstanding, m_num_outstanding, connVars, rd, scan, sig, m_queue,
                 m_check_connection, th>>

----------------------------------------------------------------------------
(* Around the connection. *)

\* An answer is lost, or dropped at the receiver.
Lose(a) ==
  /\ a \in net
  /\ net' = net \ {a}
  /\ UNCHANGED <<tableVars, connVars, readerVars, m_queue, m_check_connection, th>>

\* cIpmiDomain::Init, when the BMC has told how much it can take.
SetMaxOutstanding(n) ==
  /\ m_max_outstanding = 1
  /\ ~m_exit
  /\ m_max_outstanding' = n
  /\ UNCHANGED <<tableVars, m_exit, reconnects, readerVars, m_queue,
                 m_check_connection, th, net>>

\* cIpmiCon::Close, from cIpmiDomain::Cleanup once the MC threads have ended.
\* No HPI call is inside: the handler is locked for them.
Close ==
  /\ ~m_exit
  /\ \A t \in Callers : th[t].pc = "idle"
  /\ m_exit' = TRUE
  /\ UNCHANGED <<tableVars, m_max_outstanding, reconnects, readerVars, m_queue,
                 m_check_connection, th, net>>

----------------------------------------------------------------------------
Reader ==
  \/ Top \/ CheckTimeout \/ ReconnectDone
  \/ PollNothing \/ ReadPong \/ HandleResponse
  \/ \E a \in net : ReadResponse(a)
  \/ LockQueue \/ ScanEnd \/ SendEnd
  \/ \E s \in Seqs, stale \in BOOLEAN : Expire(s, stale)
  \/ \E ok, stale \in BOOLEAN : SendNext(ok, stale)
  \/ \E t \in Callers : Signal(t)

Next ==
  \/ Reader
  \/ \E t \in Callers : CmdSendFails(t) \/ CmdWait(t) \/ CmdReturn(t)
  \/ \E t \in Callers, c \in Cmds : CmdSend(t, c)
  \/ \E a \in net : Lose(a)
  \/ \E n \in 2 .. MaxOutstanding : SetMaxOutstanding(n)
  \/ Close

Spec == Init /\ [][Next]_vars

\* The request of caller t is found expired.
ExpireOf(t) ==
  \E s \in Seqs, stale \in BOOLEAN : m_outstanding[s] = t /\ Expire(s, stale)

\* Threads run, the clock too; Reconnect is left because the BMC comes back.
FairSpec ==
  /\ Spec
  /\ WF_vars(Reader)
  /\ \A t \in Callers :
       /\ WF_vars(CmdWait(t))
       /\ WF_vars(CmdReturn(t))
       /\ SF_vars(ExpireOf(t))

----------------------------------------------------------------------------
(* Properties. *)

\* Every variable stays in its type.
TypeOK ==
  /\ m_outstanding \in [Seqs -> Callers \union {None}]
  /\ m_num_outstanding \in 0 .. MaxSeq
  /\ m_current_seq \in Seqs
  /\ m_max_outstanding \in 1 .. MaxOutstanding
  /\ m_queue \in Seq(Callers)
  /\ m_check_connection \in BOOLEAN
  /\ m_exit \in BOOLEAN
  /\ th \in [Callers -> RequestState]
  /\ rpc \in {"top", "reconnect", "again", "resend", "poll", "respond", "read", "scan",
              "send", "end"}
  /\ rd \in Answers \union {None}
  /\ scan \in 0 .. MaxSeq
  /\ sig \in Callers \union {None}
  /\ net \subseteq Answers
  /\ reconnects \in 0 .. MaxReconnects

\* The places where the request of t is known to the connection.
Slots(t)  == {s \in Seqs : m_outstanding[s] = t}
Queued(t) == {i \in 1 .. Len(m_queue) : m_queue[i] = t}

\* A request is in one place at a time: in the queue once, or under the one
\* sequence number it carries, or about to be signalled.  Once its caller has
\* been woken, and deletes it, the connection does not know it any more.
OnePlace ==
  \A t \in Callers :
    /\ Cardinality(Slots(t)) + Cardinality(Queued(t)) + (IF sig = t THEN 1 ELSE 0)
         = IF th[t].pc \in {"sent", "wait"} THEN 1 ELSE 0
    /\ Slots(t) \subseteq {th[t].seq}

\* The assertions of SendCmd and AddOutstanding hold.  m_num_outstanding, kept
\* by hand in five places, is the number of sent requests and within the limit,
\* so that a free sequence number is found; a request that waits to be sent has
\* a retry left, also after a new session took it back.
AssertionsHold ==
  /\ m_num_outstanding = Cardinality({s \in Seqs : m_outstanding[s] # None})
  /\ m_num_outstanding <= m_max_outstanding
  /\ \A i \in 1 .. Len(m_queue) : th[m_queue[i]].retries > 0

\* A caller never gets the answer to another request, nor to an earlier one of
\* its own, however late answers are within Late: sequence numbers are given out
\* round robin and old sessions are not heard.
OwnAnswer == \A t \in Callers : th[t].rsp # "foreign"

\* Every Cmd returns, with an answer or an error, whatever the network loses and
\* in whatever order the caller and the reader reach the condition variable.
CallsReturn == \A t \in Callers : th[t].pc = "sent" ~> th[t].pc = "idle"
=============================================================================
