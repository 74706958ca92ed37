------------------------------ MODULE Session ------------------------------
(***************************************************************************)
(* The session table of the daemon (openhpid/session.c), the HPI calls     *)
(* that work on it (saHpiSessionOpen/Close, saHpiSubscribe/Unsubscribe,    *)
(* saHpiEventGet of openhpid/safhpi.c) and the session multiplexing of     *)
(* process_hpi_event (openhpid/event.c).                                   *)
(*                                                                         *)
(* One step is one critical section: what a thread does between taking and *)
(* releasing oh_sessions.lock, or one operation of a GAsyncQueue, which    *)
(* has a lock of its own.  Service threads (Threads) run the HPI calls,    *)
(* any of them on any session; one event thread multiplexes.  Events are   *)
(* numbered in the order in which the event thread takes them from         *)
(* oh_process_q; the last one is the quit event of oh_post_quit_event.     *)
(***************************************************************************)
EXTENDS Integers, Sequences, FiniteSets

CONSTANTS Threads,    \* service threads of the daemon
          MaxSid,     \* bound: how many sessions are ever opened
          MaxEvents,  \* bound: events multiplexed before the quit event
          Limit       \* OPENHPI_EVT_QUEUE_LIMIT

ASSUME ThreadsAssumption == IsFiniteSet(Threads) /\ "session" \notin Threads
ASSUME BoundsAssumption ==
  MaxSid \in Nat \ {0} /\ MaxEvents \in Nat /\ Limit \in Nat

Sids     == 1 .. MaxSid
Quit     == MaxEvents + 1
Events   == 1 .. Quit
NoEvent  == 0              \* the NULL of a pop that found nothing
Timeouts == {"IMMEDIATE", "BLOCK", "TIMED"}

VARIABLES
  id,            \* the next session id (static variable of oh_create_session)
  table,         \* oh_sessions: ids of the open sessions
  subscribed,    \* oh_session.subscribed
  eventq_status, \* oh_session.eventq_status = SAHPI_EVT_QUEUE_OVERFLOW
  eventq,        \* oh_session.eventq, the contents of the GAsyncQueue
  refs,          \* who holds a reference on the queue: "session" or a thread
  th,            \* what each service thread is doing, with its locals
  mpc,           \* where the event thread is
  event,         \* the event it processes, or processed last
  targets,       \* the rest of its oh_list_sessions snapshot
  queued,        \* history: events accepted by the queue of an open session
  lost,          \* history: events refused because that queue was full
  popped,        \* history: last event taken out of a session's queue
  since          \* history: value of event when the session subscribed

sessionVars == <<id, table, subscribed, eventq_status, eventq, refs>>
muxVars     == <<mpc, event, targets>>
history     == <<queued, lost, popped, since>>
vars        == <<sessionVars, th, muxVars, history>>

PCs == {"idle", "finalize", "drain", "subscribe", "unsubscribe", "dequeue",
        "pop", "wait", "recheck", "return"}
Calls == {"flush", "first", "second"}

ThreadState ==
  [pc       : PCs,       \* where the thread is
   sid      : Sids,      \* the session its call is about
   call     : Calls,     \* which call of oh_dequeue_session_event it is in
   timeout  : Timeouts,  \* Timeout argument of saHpiEventGet
   qstatus  : BOOLEAN,   \* local qstatus of saHpiEventGet
   overflow : BOOLEAN,   \* history: one of its dequeues read OVERFLOW
   devent   : {NoEvent} \union Events,  \* local of oh_dequeue_session_event
   left     : Nat]       \* events oh_destroy_session still has to drain

\* A thread between two calls; the locals of a call die with it.
Idle == [pc |-> "idle", sid |-> 1, call |-> "first", timeout |-> "IMMEDIATE",
         qstatus |-> FALSE, overflow |-> FALSE, devent |-> NoEvent, left |-> 0]

----------------------------------------------------------------------------
(* GAsyncQueue, as glib defines it. *)

Waiters(s) == {t \in Threads : th[t].pc = "wait" /\ th[t].sid = s}

\* g_async_queue_length: queued items minus the threads blocked in a pop.
QueueLength(s) == Len(eventq[s]) - Cardinality(Waiters(s))

\* What a pop returns, and the queue and the history it leaves behind.
Front(s) == IF eventq[s] = <<>> THEN NoEvent ELSE Head(eventq[s])
Pop(s) ==
  IF eventq[s] = <<>>
  THEN UNCHANGED <<eventq, popped>>
  ELSE /\ eventq' = [eventq EXCEPT ![s] = Tail(@)]
       /\ popped' = [popped EXCEPT ![s] = Head(eventq[s])]

----------------------------------------------------------------------------
Init ==
  /\ id = 1
  /\ table = {}
  /\ subscribed = [s \in Sids |-> FALSE]
  /\ eventq_status = [s \in Sids |-> FALSE]
  /\ eventq = [s \in Sids |-> <<>>]
  /\ refs = [s \in Sids |-> {}]
  /\ th = [t \in Threads |-> Idle]
  /\ mpc = "idle"
  /\ event = 0
  /\ targets = {}
  /\ queued = [s \in Sids |-> {}]
  /\ lost = [s \in Sids |-> {}]
  /\ popped = [s \in Sids |-> 0]
  /\ since = [s \in Sids |-> 0]

----------------------------------------------------------------------------
(* Session table. *)

\* saHpiSessionOpen -> oh_create_session.  It takes the domain lock, which
\* the event thread holds while it processes an event.
SessionOpen(t) ==
  /\ th[t].pc = "idle"
  /\ id \in Sids
  /\ mpc = "idle"
  /\ id' = id + 1
  /\ table' = table \union {id}
  /\ refs' = [refs EXCEPT ![id] = {"session"}]
  /\ UNCHANGED <<subscribed, eventq_status, eventq, th, muxVars, history>>

\* saHpiSessionClose -> oh_destroy_session, the part under oh_sessions.lock.
\* The history of a closed session is of no interest any more.
SessionClose(t, s) ==
  /\ th[t].pc = "idle"
  /\ s \in table
  /\ table' = table \ {s}
  /\ th' = [th EXCEPT ![t] = [Idle EXCEPT !.pc = "finalize", !.sid = s]]
  /\ queued' = [queued EXCEPT ![s] = {}]
  /\ lost' = [lost EXCEPT ![s] = {}]
  /\ since' = [since EXCEPT ![s] = 0]
  /\ UNCHANGED <<id, subscribed, eventq_status, eventq, refs, muxVars, popped>>

\* Mutant: the loop stops one short.
ToDrainShort(s) == IF QueueLength(s) > 0 THEN QueueLength(s) - 1 ELSE 0

\* How many events oh_destroy_session pops.
ToDrain(s) == IF QueueLength(s) > 0 THEN QueueLength(s) ELSE 0

\* oh_destroy_session, "Finalize session": it measures the queue ...
FinalizeLength(t) ==
  /\ th[t].pc = "finalize"
  /\ th' = [th EXCEPT ![t] = [@ EXCEPT !.pc = "drain", !.left = ToDrain(th[t].sid)]]
  /\ UNCHANGED <<sessionVars, muxVars, history>>

\* ... pops that many events, fewer if others pop them meanwhile ...
Drain(t) ==
  /\ th[t].pc = "drain"
  /\ th[t].left > 0
  /\ Pop(th[t].sid)
  /\ th' = [th EXCEPT ![t] = [@ EXCEPT !.left = th[t].left - 1]]
  /\ UNCHANGED <<id, table, subscribed, eventq_status, refs, muxVars, queued,
                 lost, since>>

\* ... drops the session's reference on the queue and frees the session.
FinalizeUnref(t) ==
  /\ th[t].pc = "drain"
  /\ th[t].left = 0
  /\ refs' = [refs EXCEPT ![th[t].sid] = @ \ {"session"}]
  /\ subscribed' = [subscribed EXCEPT ![th[t].sid] = FALSE]
  /\ eventq_status' = [eventq_status EXCEPT ![th[t].sid] = FALSE]
  /\ th' = [th EXCEPT ![t] = Idle]
  /\ UNCHANGED <<id, table, eventq, muxVars, history>>

----------------------------------------------------------------------------
(* Subscriptions.  The check and the set are two critical sections. *)

\* saHpiSubscribe up to its check; a subscribed session is a DUPLICATE.
SubscribeCheck(t, s) ==
  /\ th[t].pc = "idle"
  /\ s \in table
  /\ ~subscribed[s]
  /\ th' = [th EXCEPT ![t] = [Idle EXCEPT !.pc = "subscribe", !.sid = s]]
  /\ UNCHANGED <<sessionVars, muxVars, history>>

\* oh_set_session_subscription(sid, SAHPI_TRUE).
SubscribeSet(t) ==
  /\ th[t].pc = "subscribe"
  /\ th' = [th EXCEPT ![t] = Idle]
  /\ IF th[t].sid \in table
     THEN /\ subscribed' = [subscribed EXCEPT ![th[t].sid] = TRUE]
          /\ since' = [since EXCEPT ![th[t].sid] =
                         IF subscribed[th[t].sid] THEN @ ELSE event]
     ELSE UNCHANGED <<subscribed, since>>
  /\ UNCHANGED <<id, table, eventq_status, eventq, refs, muxVars, queued, lost,
                 popped>>

\* saHpiUnsubscribe up to its check.
UnsubscribeCheck(t, s) ==
  /\ th[t].pc = "idle"
  /\ s \in table
  /\ subscribed[s]
  /\ th' = [th EXCEPT ![t] = [Idle EXCEPT !.pc = "unsubscribe", !.sid = s]]
  /\ UNCHANGED <<sessionVars, muxVars, history>>

\* Mutant: the queue is not flushed.
UnsubscribeSetNoFlush(t) ==
  /\ th[t].pc = "unsubscribe"
  /\ subscribed' = IF th[t].sid \in table
                   THEN [subscribed EXCEPT ![th[t].sid] = FALSE]
                   ELSE subscribed
  /\ th' = [th EXCEPT ![t] = Idle]
  /\ UNCHANGED <<id, table, eventq_status, eventq, refs, muxVars, history>>

\* oh_set_session_subscription(sid, SAHPI_FALSE) up to the unlock; the flush
\* is a loop of IMMEDIATE dequeues.
UnsubscribeSet(t) ==
  /\ th[t].pc = "unsubscribe"
  /\ IF th[t].sid \in table
     THEN /\ subscribed' = [subscribed EXCEPT ![th[t].sid] = FALSE]
          /\ th' = [th EXCEPT ![t] = [@ EXCEPT !.pc = "dequeue", !.call = "flush"]]
     ELSE /\ th' = [th EXCEPT ![t] = Idle]
          /\ UNCHANGED subscribed
  /\ UNCHANGED <<id, table, eventq_status, eventq, refs, muxVars, history>>

----------------------------------------------------------------------------
(* saHpiEventGet and oh_dequeue_session_event. *)

\* saHpiEventGet up to its first dequeue, which is always IMMEDIATE.
EventGet(t, s, timeout) ==
  /\ th[t].pc = "idle"
  /\ s \in table
  /\ subscribed[s]
  /\ th' = [th EXCEPT ![t] = [Idle EXCEPT !.pc = "dequeue", !.sid = s,
                                          !.timeout = timeout]]
  /\ UNCHANGED <<sessionVars, muxVars, history>>

\* Mutant: g_async_queue_ref is forgotten.
NoRef(t, s) == UNCHANGED refs

\* g_async_queue_ref, for the time of one dequeue.
Ref(t, s) == refs' = [refs EXCEPT ![s] = @ \union {t}]

\* oh_dequeue_session_event under oh_sessions.lock: read and clear the
\* overflow status, take a reference on the queue.  The flush passes no
\* status pointer.
Dequeue(t) ==
  LET s == th[t].sid
      status == IF th[t].call = "flush" THEN th[t].qstatus ELSE eventq_status[s]
  IN
  /\ th[t].pc = "dequeue"
  /\ IF s \in table
     THEN /\ th' = [th EXCEPT ![t] = [@ EXCEPT !.pc = "pop",
                                            !.qstatus = status,
                                            !.overflow = th[t].overflow \/ status]]
          /\ eventq_status' = [eventq_status EXCEPT ![s] = FALSE]
          /\ Ref(t, s)
     ELSE /\ th' = [th EXCEPT ![t] = Idle]
          /\ UNCHANGED <<eventq_status, refs>>
  /\ UNCHANGED <<id, table, subscribed, eventq, muxVars, history>>

\* The timeout a dequeue call was given.
Immediate(t) == th[t].call # "second" \/ th[t].timeout = "IMMEDIATE"

\* What the caller of oh_dequeue_session_event does with the popped e: a
\* flush loops while the result is SA_OK; the first dequeue of saHpiEventGet
\* is followed by a second one on TIMEOUT only; the quit event is answered
\* with NO_RESPONSE and ends every caller.
AfterDequeue(t, e) ==
  CASE th[t].call = "flush" /\ e \notin {NoEvent, Quit} ->
         [th[t] EXCEPT !.pc = "dequeue", !.devent = NoEvent]
    [] th[t].call = "first" /\ e = NoEvent ->
         [th[t] EXCEPT !.pc = "dequeue", !.call = "second"]
    [] th[t].call # "flush" /\ e \notin {NoEvent, Quit} ->
         [th[t] EXCEPT !.pc = "return", !.devent = e]
    [] OTHER -> Idle

\* oh_dequeue_session_event unrefs the queue and returns.
Return(t, e) ==
  /\ refs' = [refs EXCEPT ![th[t].sid] = @ \ {t}]
  /\ th' = [th EXCEPT ![t] = AfterDequeue(t, e)]

\* g_async_queue_try_pop: never blocks, and the subscription is not looked
\* at again.
TryPop(t) ==
  /\ th[t].pc = "pop"
  /\ Immediate(t)
  /\ Pop(th[t].sid)
  /\ Return(t, Front(th[t].sid))
  /\ UNCHANGED <<id, table, subscribed, eventq_status, muxVars, queued, lost,
                 since>>

\* g_async_queue_timed_pop: takes an event if there is one, else blocks.
TimedPop(t) ==
  /\ th[t].pc = "pop"
  /\ ~Immediate(t)
  /\ Pop(th[t].sid)
  /\ th' = [th EXCEPT ![t] = [@ EXCEPT !.devent = Front(th[t].sid),
                                        !.pc = IF eventq[th[t].sid] = <<>>
                                               THEN "wait" ELSE "recheck"]]
  /\ UNCHANGED <<id, table, subscribed, eventq_status, refs, muxVars, queued,
                 lost, since>>

\* The blocked pop ends, by a push or by its timeout (5 s when BLOCK); it
\* looks into the queue a last time in both cases.
Wake(t) ==
  /\ th[t].pc = "wait"
  /\ Pop(th[t].sid)
  /\ th' = [th EXCEPT ![t] = [@ EXCEPT !.devent = Front(th[t].sid), !.pc = "recheck"]]
  /\ UNCHANGED <<id, table, subscribed, eventq_status, refs, muxVars, queued,
                 lost, since>>

\* Mutant: a failed lookup of the session is ignored.
StillValidIfGone(s) == s \notin table \/ subscribed[s]

\* "Is the session still open? or still subscribed?"
StillValid(s) == s \in table /\ subscribed[s]

\* Mutant: the early return forgets g_async_queue_unref.
RecheckKeepsRef(t) ==
  /\ th[t].pc = "recheck"
  /\ CASE ~StillValid(th[t].sid) ->
            /\ th' = [th EXCEPT ![t] = Idle]
            /\ UNCHANGED refs
       [] /\ StillValid(th[t].sid)
          /\ th[t].timeout = "BLOCK"
          /\ th[t].devent = NoEvent ->
            /\ th' = [th EXCEPT ![t] = [@ EXCEPT !.pc = "pop"]]
            /\ UNCHANGED refs
       [] OTHER -> Return(t, th[t].devent)
  /\ UNCHANGED <<id, table, subscribed, eventq_status, eventq, muxVars, history>>

\* If not the event is freed and the call fails; a BLOCK that has no event
\* yet waits again.
Recheck(t) ==
  /\ th[t].pc = "recheck"
  /\ CASE ~StillValid(th[t].sid) ->
            /\ refs' = [refs EXCEPT ![th[t].sid] = @ \ {t}]
            /\ th' = [th EXCEPT ![t] = Idle]
       [] /\ StillValid(th[t].sid)
          /\ th[t].timeout = "BLOCK"
          /\ th[t].devent = NoEvent ->
            /\ th' = [th EXCEPT ![t] = [@ EXCEPT !.pc = "pop"]]
            /\ UNCHANGED refs
       [] OTHER -> Return(t, th[t].devent)
  /\ UNCHANGED <<id, table, subscribed, eventq_status, eventq, muxVars, history>>

\* The successful end of saHpiEventGet: the event and qstatus are returned.
EventGetReturn(t) ==
  /\ th[t].pc = "return"
  /\ th' = [th EXCEPT ![t] = Idle]
  /\ UNCHANGED <<sessionVars, muxVars, history>>

----------------------------------------------------------------------------
(* The event thread: oh_process_events and process_hpi_event. *)

\* Pop the next event, lock the domain, list the sessions.  The loop ends
\* after the quit event.
ProcessEvent ==
  /\ mpc = "idle"
  /\ event < Quit
  /\ event' = event + 1
  /\ targets' = table
  /\ mpc' = IF table = {} THEN "idle" ELSE "check"
  /\ UNCHANGED <<sessionVars, th, history>>

\* The loop variable moves on to the next session of the snapshot.
NextTarget(s) ==
  /\ targets' = targets \ {s}
  /\ mpc' = IF targets = {s} THEN "idle" ELSE "check"

\* The snapshot is walked in list order, which is the order of the ids.
Current(s) == s \in targets /\ \A r \in targets : s <= r

\* Mutant: a session without subscription ends the loop.
MuxCheckBreak(s) ==
  /\ mpc = "check"
  /\ Current(s)
  /\ IF s \in table /\ subscribed[s]
     THEN mpc' = "queue" /\ UNCHANGED targets
     ELSE mpc' = "idle" /\ targets' = {}
  /\ UNCHANGED <<sessionVars, th, event, history>>

\* oh_get_session_subscription of the next session.
MuxCheck(s) ==
  /\ mpc = "check"
  /\ Current(s)
  /\ IF s \in table /\ subscribed[s]
     THEN mpc' = "queue" /\ UNCHANGED targets
     ELSE NextTarget(s)
  /\ UNCHANGED <<sessionVars, th, event, history>>

\* Mutant: the limit is tested with > instead of >=.
QueueFullLate(s) == QueueLength(s) > 0 /\ QueueLength(s) > Limit

\* The test of oh_queue_session_event for a full queue.
QueueFull(s) == QueueLength(s) > 0 /\ QueueLength(s) >= Limit

\* Mutants: the event is pushed twice; it is pushed at the wrong end.
PushTwice(s, e) == eventq' = [eventq EXCEPT ![s] = @ \o <<e, e>>]
PushFront(s, e) == eventq' = [eventq EXCEPT ![s] = <<e>> \o @]

\* g_async_queue_push.
Push(s, e) == eventq' = [eventq EXCEPT ![s] = Append(@, e)]

\* oh_queue_session_event: the session may have gone, the queue may be full.
MuxQueue(s) ==
  /\ mpc = "queue"
  /\ Current(s)
  /\ CASE s \notin table -> UNCHANGED <<eventq, eventq_status, queued, lost>>
       [] s \in table /\ QueueFull(s) ->
            /\ eventq_status' = [eventq_status EXCEPT ![s] = TRUE]
            /\ lost' = [lost EXCEPT ![s] = @ \union {event}]
            /\ UNCHANGED <<eventq, queued>>
       [] s \in table /\ ~QueueFull(s) ->
            /\ Push(s, event)
            /\ queued' = [queued EXCEPT ![s] = @ \union {event}]
            /\ UNCHANGED <<eventq_status, lost>>
  /\ NextTarget(s)
  /\ UNCHANGED <<id, table, subscribed, refs, th, event, popped, since>>

----------------------------------------------------------------------------
\* What a thread does inside a call it has begun.
Step(t) ==
  \/ FinalizeLength(t) \/ Drain(t) \/ FinalizeUnref(t)
  \/ SubscribeSet(t) \/ UnsubscribeSet(t)
  \/ Dequeue(t) \/ TryPop(t) \/ TimedPop(t) \/ Wake(t) \/ Recheck(t)
  \/ EventGetReturn(t)

\* The calls a client may make.
Call(t) ==
  \/ SessionOpen(t)
  \/ \E s \in Sids : SessionClose(t, s) \/ SubscribeCheck(t, s) \/ UnsubscribeCheck(t, s)
  \/ \E s \in Sids, tmo \in Timeouts : EventGet(t, s, tmo)

Mux ==
  \/ ProcessEvent
  \/ \E s \in Sids : MuxCheck(s) \/ MuxQueue(s)

Next ==
  \/ \E t \in Threads : Call(t) \/ Step(t)
  \/ Mux

Spec == Init /\ [][Next]_vars

\* Threads and timeouts make progress; clients need not call anything.
Fairness == WF_vars(Mux) /\ \A t \in Threads : WF_vars(Step(t))
FairSpec == Spec /\ Fairness

----------------------------------------------------------------------------
(* Properties. *)

\* Every variable stays in its type.
TypeOK ==
  /\ id \in 1 .. MaxSid + 1
  /\ table \subseteq Sids
  /\ subscribed \in [Sids -> BOOLEAN]
  /\ eventq_status \in [Sids -> BOOLEAN]
  /\ eventq \in [Sids -> Seq(Events)]
  /\ refs \in [Sids -> SUBSET (Threads \union {"session"})]
  /\ th \in [Threads -> ThreadState]
  /\ mpc \in {"idle", "check", "queue"}
  /\ event \in {0} \union Events
  /\ targets \subseteq Sids
  /\ queued \in [Sids -> SUBSET Events]
  /\ lost \in [Sids -> SUBSET Events]
  /\ popped \in [Sids -> {0} \union Events]
  /\ since \in [Sids -> {0} \union Events]

\* A queue never holds more than the configured limit (1 when the limit is
\* 0) plus one event per thread blocked on it: oh_queue_session_event
\* compares with g_async_queue_length, which subtracts the blocked threads.
QueueBound ==
  \A s \in Sids :
    Len(eventq[s]) <= (IF Limit = 0 THEN 1 ELSE Limit) + Cardinality(Waiters(s))

\* The queue a thread of oh_dequeue_session_event or oh_destroy_session is
\* working on is referenced, whatever other threads close or unref.
QueueAlive ==
  \A t \in Threads :
    /\ th[t].pc \in {"pop", "wait", "recheck"} => t \in refs[th[t].sid]
    /\ th[t].pc \in {"finalize", "drain"} => "session" \in refs[th[t].sid]

\* A queue whose last reference is dropped is empty, so no event leaks with
\* it: oh_destroy_session drains all but what blocked threads will take.
NoLeakedEvents ==
  \A s \in Sids : refs[s] = {} => eventq[s] = <<>>

\* Thread t is in a part of oh_dequeue_session_event or oh_destroy_session that
\* works on the queue of s.
WorksOn(t, s) ==
  th[t].sid = s /\ th[t].pc \in {"pop", "wait", "recheck", "finalize", "drain"}

\* The queue of a closed session is freed as soon as no thread works on it:
\* whichever of the closer and the blocked readers comes last drops the last
\* reference, by every return of oh_dequeue_session_event, early ones too.
QueueFreed ==
  \A s \in Sids \ table : (\A t \in Threads : ~WorksOn(t, s)) => refs[s] = {}

\* Thread t is in the flush of oh_set_session_subscription(s, SAHPI_FALSE).
Flushing(t, s) == th[t].sid = s /\ th[t].call = "flush" /\ th[t].pc \in {"dequeue", "pop"}

\* A session that is not subscribed, and that no thread is flushing, holds
\* at most the one event the event thread had decided to queue before the
\* subscription ended.
UnsubscribedQueue ==
  \A s \in table :
    ~subscribed[s] /\ (\A t \in Threads : ~Flushing(t, s)) => Len(eventq[s]) <= 1

\* Events leave a session's queue in the order in which the daemon processed
\* them, none of them twice, whichever threads take them.
InOrder ==
  \A s \in Sids :
    /\ \A i, j \in 1 .. Len(eventq[s]) : i < j => eventq[s][i] < eventq[s][j]
    /\ \A i \in 1 .. Len(eventq[s]) : popped[s] < eventq[s][i]

\* An event thread past session s has nothing left to do for s.
Settled(s) == mpc = "idle" \/ s \notin targets

\* An event processed while a session was subscribed reaches its queue, or
\* is refused there by a full queue: the snapshot of oh_list_sessions and the
\* two critical sections per session miss nobody.
CompleteDelivery ==
  \A s \in table : subscribed[s] /\ Settled(s) =>
     \A e \in since[s] + 1 .. event : e \in queued[s] \union lost[s]

\* "If there was overflow before or after getting events, return it"
\* (saHpiEventGet): a successful call that met OVERFLOW returns it.
OverflowReported ==
  \A t \in Threads : th[t].pc = "return" /\ th[t].overflow => th[t].qstatus

\* A thread blocked in saHpiEventGet on a session that is closed comes back.
CloseReleasesWaiters ==
  \A t \in Threads :
    (th[t].pc = "wait" /\ th[t].sid \notin table) ~> (th[t].pc = "idle")
=============================================================================
