---------------------------- MODULE SessionProofs ----------------------------
(***************************************************************************)
(* Proofs about module Session, for any number of threads, sessions and    *)
(* events and any queue limit.                                             *)
(***************************************************************************)
EXTENDS SessionRefinement, FiniteSetTheorems, TLAPS

\* The numbers behind Sids and Events.
LEMMA ConstantFacts ==
  /\ 1 \in Sids /\ Sids \subseteq Nat
  /\ Quit \in Events /\ Events \subseteq Nat /\ NoEvent \notin Events
  /\ Quit \in Nat /\ \A e \in Nat : e < Quit => e + 1 \in Events
  /\ NoEvent = 0
BY BoundsAssumption DEF Sids, Events, Quit, NoEvent

\* Threads blocked on a queue can be counted.
LEMMA WaitersFinite ==
  ASSUME NEW s
  PROVE  IsFiniteSet(Waiters(s)) /\ Cardinality(Waiters(s)) \in Nat
<1>1. Waiters(s) \subseteq Threads
  BY DEF Waiters
<1> QED  BY <1>1, ThreadsAssumption, FS_Subset, FS_CardinalityType

\* The event thread has an event while it multiplexes.
TypeInv == TypeOK /\ (mpc # "idle" => event \in Events)

\* A thread between two calls is a thread state.
LEMMA IdleType == Idle \in ThreadState
BY ConstantFacts DEF Idle, ThreadState, PCs, Calls, Timeouts

\* What a pop returns is an event or nothing, and it leaves a queue of events.
LEMMA PopType ==
  ASSUME TypeOK, NEW s \in Sids
  PROVE  /\ Front(s) \in {NoEvent} \union Events
         /\ Pop(s) => /\ eventq' \in [Sids -> Seq(Events)]
                      /\ popped' \in [Sids -> {0} \union Events]
<1>1. eventq[s] \in Seq(Events)
  BY DEF TypeOK
<1>2. eventq[s] # <<>> => Head(eventq[s]) \in Events /\ Tail(eventq[s]) \in Seq(Events)
  BY <1>1
<1>3. Front(s) \in {NoEvent} \union Events
  BY <1>2 DEF Front
<1>4. ASSUME Pop(s), eventq[s] = <<>>
      PROVE  eventq' = eventq /\ popped' = popped
  BY <1>4 DEF Pop
<1>5. ASSUME Pop(s), eventq[s] # <<>>
      PROVE  /\ eventq' = [eventq EXCEPT ![s] = Tail(eventq[s])]
             /\ popped' = [popped EXCEPT ![s] = Head(eventq[s])]
  BY <1>5 DEF Pop
<1>6. eventq \in [Sids -> Seq(Events)] /\ popped \in [Sids -> {0} \union Events]
  BY DEF TypeOK
<1> QED  BY <1>2, <1>3, <1>4, <1>5, <1>6

\* The lengths of a queue are numbers.
LEMMA LengthType ==
  ASSUME TypeOK, NEW s \in Sids
  PROVE  /\ Len(eventq[s]) \in Nat
         /\ QueueLength(s) \in Int
         /\ ToDrain(s) \in Nat
<1>1. Len(eventq[s]) \in Nat
  BY DEF TypeOK
<1>2. QueueLength(s) \in Int
  BY <1>1, WaitersFinite DEF QueueLength
<1> QED  BY <1>1, <1>2 DEF ToDrain

\* What a caller of oh_dequeue_session_event goes on with is a thread state.
LEMMA AfterDequeueType ==
  ASSUME TypeOK, NEW t \in Threads, NEW e \in {NoEvent} \union Events
  PROVE  AfterDequeue(t, e) \in ThreadState
<1>1. th[t] \in ThreadState
  BY DEF TypeOK
<1> QED  BY <1>1, IdleType, ConstantFacts DEF AfterDequeue, ThreadState, PCs, Calls

\* The initial state is typed.
LEMMA InitType == Init => TypeInv
BY IdleType, BoundsAssumption DEF Init, TypeInv, TypeOK

\* The begin of an HPI call keeps the types.
LEMMA CallType ==
  ASSUME TypeInv, NEW t \in Threads, Call(t)
  PROVE  TypeInv'
<1>0. th \in [Threads -> ThreadState]
  BY DEF TypeInv, TypeOK
<1>1. CASE SessionOpen(t)
  <2>1. id \in Sids /\ id' = id + 1 /\ table' = table \union {id}
    BY <1>1 DEF SessionOpen
  <2>2. id' \in 1 .. MaxSid + 1
    BY <2>1, BoundsAssumption DEF Sids
  <2> QED  BY <1>1, <2>1, <2>2 DEF TypeInv, TypeOK, SessionOpen, muxVars, history
<1>2. ASSUME NEW s \in Sids, SessionClose(t, s)
      PROVE  TypeInv'
  <2>1. [Idle EXCEPT !.pc = "finalize", !.sid = s] \in ThreadState
    BY IdleType DEF ThreadState, PCs
  <2>2. th' \in [Threads -> ThreadState]
    BY <1>0, <1>2, <2>1 DEF SessionClose
  <2> QED  BY <1>2, <2>2 DEF TypeInv, TypeOK, SessionClose, muxVars
<1>3. ASSUME NEW s \in Sids, SubscribeCheck(t, s) \/ UnsubscribeCheck(t, s)
      PROVE  TypeInv'
  <2>1. /\ [Idle EXCEPT !.pc = "subscribe", !.sid = s] \in ThreadState
        /\ [Idle EXCEPT !.pc = "unsubscribe", !.sid = s] \in ThreadState
    BY IdleType DEF ThreadState, PCs
  <2>2. th' \in [Threads -> ThreadState]
    BY <1>0, <1>3, <2>1 DEF SubscribeCheck, UnsubscribeCheck
  <2>3. UNCHANGED <<sessionVars, muxVars, history>>
    BY <1>3 DEF SubscribeCheck, UnsubscribeCheck
  <2> QED  BY <2>2, <2>3 DEF TypeInv, TypeOK, sessionVars, muxVars, history
<1>4. ASSUME NEW s \in Sids, NEW tmo \in Timeouts, EventGet(t, s, tmo)
      PROVE  TypeInv'
  <2>1. [Idle EXCEPT !.pc = "dequeue", !.sid = s, !.timeout = tmo] \in ThreadState
    BY IdleType DEF ThreadState, PCs
  <2>2. th' \in [Threads -> ThreadState]
    BY <1>0, <1>4, <2>1 DEF EventGet
  <2> QED  BY <1>4, <2>2 DEF TypeInv, TypeOK, EventGet, sessionVars, muxVars, history
<1> QED  BY <1>1, <1>2, <1>3, <1>4 DEF Call

\* A step inside a call keeps the types.
LEMMA StepType ==
  ASSUME TypeInv, NEW t \in Threads, Step(t)
  PROVE  TypeInv'
<1> DEFINE s == th[t].sid
<1>0. /\ TypeOK
      /\ th \in [Threads -> ThreadState] /\ th[t] \in ThreadState /\ s \in Sids
      /\ eventq_status \in [Sids -> BOOLEAN] /\ subscribed \in [Sids -> BOOLEAN]
      /\ refs \in [Sids -> SUBSET (Threads \union {"session"})]
  BY DEF TypeInv, TypeOK, ThreadState
<1> HIDE DEF s
<1>1. CASE FinalizeLength(t)
  <2>1. ToDrain(s) \in Nat
    BY <1>0, LengthType
  <2>2. [th[t] EXCEPT !.pc = "drain", !.left = ToDrain(s)] \in ThreadState
    BY <1>0, <2>1 DEF ThreadState, PCs
  <2>3. th' \in [Threads -> ThreadState]
    BY <1>0, <1>1, <2>2 DEF FinalizeLength, s
  <2> QED  BY <1>1, <2>3 DEF TypeInv, TypeOK, FinalizeLength, sessionVars, muxVars, history
<1>2. CASE Drain(t)
  <2>1. Pop(s)
    BY <1>2 DEF Drain, s
  <2>2. eventq' \in [Sids -> Seq(Events)] /\ popped' \in [Sids -> {0} \union Events]
    BY <1>0, <2>1, PopType
  <2>3. th[t].left > 0
    BY <1>2 DEF Drain
  <2> DEFINE r == [th[t] EXCEPT !.left = th[t].left - 1]
  <2>4. r \in ThreadState /\ th' = [th EXCEPT ![t] = r]
    BY <1>0, <1>2, <2>3 DEF ThreadState, Drain
  <2> HIDE DEF r
  <2>5. th' \in [Threads -> ThreadState]
    BY <1>0, <2>4
  <2> QED  BY <1>2, <2>2, <2>5 DEF TypeInv, TypeOK, Drain, muxVars
<1>3. CASE FinalizeUnref(t)
  <2>1. th' \in [Threads -> ThreadState]
    BY <1>0, <1>3, IdleType DEF FinalizeUnref
  <2>2. /\ subscribed' \in [Sids -> BOOLEAN] /\ eventq_status' \in [Sids -> BOOLEAN]
        /\ refs' \in [Sids -> SUBSET (Threads \union {"session"})]
    BY <1>0, <1>3 DEF FinalizeUnref
  <2> QED  BY <1>3, <2>1, <2>2 DEF TypeInv, TypeOK, FinalizeUnref, muxVars, history
<1>4. CASE SubscribeSet(t)
  <2>1. th' \in [Threads -> ThreadState]
    BY <1>0, <1>4, IdleType DEF SubscribeSet
  <2>2. subscribed' \in [Sids -> BOOLEAN]
    BY <1>0, <1>4 DEF SubscribeSet
  <2>3. /\ since \in [Sids -> {0} \union Events] /\ event \in {0} \union Events
        /\ \/ since' = since
           \/ since' = [since EXCEPT ![s] = event]
    BY <1>0, <1>4 DEF SubscribeSet, TypeOK, s
  <2>4. since' \in [Sids -> {0} \union Events]
    BY <1>0, <2>3
  <2> QED  BY <1>4, <2>1, <2>2, <2>4 DEF TypeInv, TypeOK, SubscribeSet, muxVars
<1>5. CASE UnsubscribeSet(t)
  <2>1. [th[t] EXCEPT !.pc = "dequeue", !.call = "flush"] \in ThreadState
    BY <1>0 DEF ThreadState, PCs, Calls
  <2>2. th' \in [Threads -> ThreadState]
    BY <1>0, <1>5, <2>1, IdleType DEF UnsubscribeSet
  <2>3. subscribed' \in [Sids -> BOOLEAN]
    BY <1>0, <1>5 DEF UnsubscribeSet
  <2> QED  BY <1>5, <2>2, <2>3 DEF TypeInv, TypeOK, UnsubscribeSet, muxVars, history
<1>6. CASE Dequeue(t)
  <2> DEFINE status == IF th[t].call = "flush" THEN th[t].qstatus ELSE eventq_status[s]
  <2>1. th[t].qstatus \in BOOLEAN /\ eventq_status[s] \in BOOLEAN
    BY <1>0 DEF ThreadState
  <2>2. status \in BOOLEAN
    BY <2>1
  <2> HIDE DEF status
  <2> DEFINE r == [th[t] EXCEPT !.pc = "pop", !.qstatus = status, !.overflow = th[t].overflow \/ status]
  <2>3. r \in ThreadState
    BY <1>0, <2>2 DEF ThreadState, PCs
  <2>4. th' = [th EXCEPT ![t] = r] \/ th' = [th EXCEPT ![t] = Idle]
    BY <1>6 DEF Dequeue, status, s
  <2> HIDE DEF r
  <2>5. th' \in [Threads -> ThreadState]
    BY <1>0, <2>3, <2>4, IdleType
  <2>6. eventq_status' \in [Sids -> BOOLEAN]
    BY <1>0, <1>6 DEF Dequeue, s
  <2>7. refs' \in [Sids -> SUBSET (Threads \union {"session"})]
    BY <1>0, <1>6 DEF Dequeue, Ref, s
  <2> QED  BY <1>6, <2>5, <2>6, <2>7 DEF TypeInv, TypeOK, Dequeue, muxVars, history
<1>7. CASE TryPop(t)
  <2>1. Pop(s) /\ Front(s) \in {NoEvent} \union Events
    BY <1>0, <1>7, PopType DEF TryPop, s
  <2>2. eventq' \in [Sids -> Seq(Events)] /\ popped' \in [Sids -> {0} \union Events]
    BY <1>0, <2>1, PopType
  <2>3. AfterDequeue(t, Front(s)) \in ThreadState
    BY <1>0, <2>1, AfterDequeueType
  <2>4. /\ th' \in [Threads -> ThreadState]
        /\ refs' \in [Sids -> SUBSET (Threads \union {"session"})]
    BY <1>0, <1>7, <2>3 DEF TryPop, Return, s
  <2> QED  BY <1>7, <2>2, <2>4 DEF TypeInv, TypeOK, TryPop, muxVars
<1>8. CASE TimedPop(t) \/ Wake(t)
  <2>1. Pop(s) /\ Front(s) \in {NoEvent} \union Events
    BY <1>0, <1>8, PopType DEF TimedPop, Wake, s
  <2>2. eventq' \in [Sids -> Seq(Events)] /\ popped' \in [Sids -> {0} \union Events]
    BY <1>0, <2>1, PopType
  <2>3. \A pc \in PCs : [th[t] EXCEPT !.devent = Front(s), !.pc = pc] \in ThreadState
    BY <1>0, <2>1 DEF ThreadState
  <2>4. PICK pc \in PCs : th' = [th EXCEPT ![t] = [@ EXCEPT !.devent = Front(s), !.pc = pc]]
    BY <1>8 DEF TimedPop, Wake, PCs, s
  <2>5. th' \in [Threads -> ThreadState]
    BY <1>0, <2>3, <2>4
  <2>6. UNCHANGED <<id, table, subscribed, eventq_status, refs, muxVars, queued, lost, since>>
    BY <1>8 DEF TimedPop, Wake
  <2> QED  BY <2>2, <2>5, <2>6 DEF TypeInv, TypeOK, muxVars
<1>9. CASE Recheck(t)
  <2>1. AfterDequeue(t, th[t].devent) \in ThreadState
    BY <1>0, AfterDequeueType DEF ThreadState
  <2>2. [th[t] EXCEPT !.pc = "pop"] \in ThreadState
    BY <1>0 DEF ThreadState, PCs
  <2>3. th' \in [Threads -> ThreadState]
    BY <1>0, <1>9, <2>1, <2>2, IdleType DEF Recheck, Return
  <2>4. refs' \in [Sids -> SUBSET (Threads \union {"session"})]
    BY <1>0, <1>9 DEF Recheck, Return, s
  <2> QED  BY <1>9, <2>3, <2>4 DEF TypeInv, TypeOK, Recheck, muxVars, history
<1>10. CASE EventGetReturn(t)
  <2>1. th' \in [Threads -> ThreadState]
    BY <1>0, <1>10, IdleType DEF EventGetReturn
  <2> QED  BY <1>10, <2>1 DEF TypeInv, TypeOK, EventGetReturn, sessionVars, muxVars, history
<1> QED  BY <1>1, <1>2, <1>3, <1>4, <1>5, <1>6, <1>7, <1>8, <1>9, <1>10 DEF Step

\* A step of the event thread keeps the types.
LEMMA MuxType ==
  ASSUME TypeInv, Mux
  PROVE  TypeInv'
<1>0. TypeOK
  BY DEF TypeInv
<1>1. CASE ProcessEvent
  <2>1. event' \in Events
    BY <1>0, <1>1, ConstantFacts DEF ProcessEvent, TypeOK
  <2> QED  BY <1>0, <1>1, <2>1 DEF TypeInv, TypeOK, ProcessEvent, sessionVars, history
<1>2. ASSUME NEW s \in Sids, MuxCheck(s)
      PROVE  TypeInv'
  BY <1>2 DEF TypeInv, TypeOK, MuxCheck, NextTarget, sessionVars, history
<1>3. ASSUME NEW s \in Sids, MuxQueue(s)
      PROVE  TypeInv'
  <2>1. event \in Events
    BY <1>3 DEF TypeInv, MuxQueue
  <2>2. Append(eventq[s], event) \in Seq(Events)
    BY <1>0, <2>1 DEF TypeOK
  <2>3. eventq' \in [Sids -> Seq(Events)]
    BY <1>0, <1>3, <2>2 DEF MuxQueue, Push, TypeOK
  <2>4. eventq_status' \in [Sids -> BOOLEAN]
    BY <1>0, <1>3 DEF MuxQueue, TypeOK
  <2>6. /\ queued \in [Sids -> SUBSET Events] /\ lost \in [Sids -> SUBSET Events]
        /\ queued' = queued \/ queued' = [queued EXCEPT ![s] = @ \union {event}]
        /\ lost' = lost \/ lost' = [lost EXCEPT ![s] = @ \union {event}]
    BY <1>0, <1>3 DEF MuxQueue, TypeOK
  <2>5. queued' \in [Sids -> SUBSET Events] /\ lost' \in [Sids -> SUBSET Events]
    BY <2>1, <2>6
  <2> QED  BY <1>0, <1>3, <2>1, <2>3, <2>4, <2>5 DEF TypeInv, TypeOK, MuxQueue, NextTarget
<1> QED  BY <1>1, <1>2, <1>3 DEF Mux

\* So does a stuttering step.
LEMMA StutterType == TypeInv /\ UNCHANGED vars => TypeInv'
BY DEF TypeInv, TypeOK, vars, sessionVars, muxVars, history

\* Every reachable state is well typed, whatever the threads interleave: the
\* lengths oh_destroy_session counts down never become negative.
THEOREM TypeCorrect == Spec => []TypeOK
<1>1. TypeInv /\ [Next]_vars => TypeInv'
  BY CallType, StepType, MuxType, StutterType DEF Next
<1>2. TypeInv => TypeOK
  BY DEF TypeInv
<1> QED  BY InitType, <1>1, <1>2, PTL DEF Spec

----------------------------------------------------------------------------
(* What a step does to the state of its own thread, and of the others.     *)

\* A call changes the state of no other thread.
LEMMA Frame ==
  ASSUME TypeInv, NEW t \in Threads, Call(t) \/ Step(t)
  PROVE  \A u \in Threads : u # t => th'[u] = th[u]
<1>1. th \in [Threads -> ThreadState]
  BY DEF TypeInv, TypeOK
<1>2. CASE Call(t)
  BY <1>1, <1>2 DEF Call, SessionOpen, SessionClose, SubscribeCheck, UnsubscribeCheck, EventGet
<1>3. CASE Step(t)
  BY <1>1, <1>3 DEF Step, FinalizeLength, Drain, FinalizeUnref, SubscribeSet, UnsubscribeSet,
     Dequeue, TryPop, TimedPop, Wake, Recheck, EventGetReturn, Return
<1> QED  BY <1>2, <1>3

\* The calls.
LEMMA CallMoves ==
  ASSUME TypeInv, NEW t \in Threads, NEW s \in Sids
  PROVE  /\ SessionOpen(t) => th' = th
         /\ SessionClose(t, s) =>
              th[t].pc = "idle" /\ th'[t].pc = "finalize" /\ th'[t].sid = s
         /\ SubscribeCheck(t, s) =>
              th[t].pc = "idle" /\ th'[t].pc = "subscribe" /\ th'[t].sid = s
         /\ UnsubscribeCheck(t, s) =>
              th[t].pc = "idle" /\ th'[t].pc = "unsubscribe" /\ th'[t].sid = s
         /\ \A tmo \in Timeouts : EventGet(t, s, tmo) =>
              /\ th[t].pc = "idle" /\ th'[t].pc = "dequeue" /\ th'[t].sid = s
              /\ th'[t].call = "first"
<1>1. th \in [Threads -> ThreadState]
  BY DEF TypeInv, TypeOK
<1>2. SessionOpen(t) => th' = th
  BY DEF SessionOpen
<1>3. SessionClose(t, s) => th[t].pc = "idle" /\ th'[t].pc = "finalize" /\ th'[t].sid = s
  BY <1>1 DEF SessionClose, Idle
<1>4. SubscribeCheck(t, s) => th[t].pc = "idle" /\ th'[t].pc = "subscribe" /\ th'[t].sid = s
  BY <1>1 DEF SubscribeCheck, Idle
<1>5. UnsubscribeCheck(t, s) => th[t].pc = "idle" /\ th'[t].pc = "unsubscribe" /\ th'[t].sid = s
  BY <1>1 DEF UnsubscribeCheck, Idle
<1>6. ASSUME NEW tmo \in Timeouts, EventGet(t, s, tmo)
      PROVE  /\ th[t].pc = "idle" /\ th'[t].pc = "dequeue" /\ th'[t].sid = s
             /\ th'[t].call = "first"
  BY <1>1, <1>6 DEF EventGet, Idle
<1> QED  BY <1>2, <1>3, <1>4, <1>5, <1>6

\* oh_destroy_session.
LEMMA CloseMoves ==
  ASSUME TypeInv, NEW t \in Threads
  PROVE  /\ FinalizeLength(t) =>
              /\ th[t].pc = "finalize" /\ th'[t].pc = "drain" /\ th'[t].sid = th[t].sid
              /\ th'[t].left = ToDrain(th[t].sid)
         /\ Drain(t) =>
              /\ th[t].pc = "drain" /\ th'[t].pc = "drain" /\ th'[t].sid = th[t].sid
              /\ th[t].left > 0 /\ th'[t].left = th[t].left - 1
         /\ FinalizeUnref(t) => th[t].pc = "drain" /\ th[t].left = 0 /\ th'[t] = Idle
<1>1. th \in [Threads -> ThreadState] /\ th[t] \in ThreadState
  BY DEF TypeInv, TypeOK
<1>2. FinalizeLength(t) =>
        /\ th[t].pc = "finalize"
        /\ th'[t] = [th[t] EXCEPT !.pc = "drain", !.left = ToDrain(th[t].sid)]
  BY <1>1 DEF FinalizeLength
<1>3. Drain(t) =>
        /\ th[t].pc = "drain" /\ th[t].left > 0
        /\ th'[t] = [th[t] EXCEPT !.left = th[t].left - 1]
  BY <1>1 DEF Drain
<1>4. FinalizeUnref(t) => th[t].pc = "drain" /\ th[t].left = 0 /\ th'[t] = Idle
  BY <1>1 DEF FinalizeUnref
<1> QED  BY <1>1, <1>2, <1>3, <1>4 DEF ThreadState

\* oh_set_session_subscription.
LEMMA SubscriptionMoves ==
  ASSUME TypeInv, NEW t \in Threads
  PROVE  /\ SubscribeSet(t) => th[t].pc = "subscribe" /\ th'[t] = Idle
         /\ UnsubscribeSet(t) =>
              /\ th[t].pc = "unsubscribe"
              /\ th[t].sid \in table =>
                   th'[t].pc = "dequeue" /\ th'[t].sid = th[t].sid /\ th'[t].call = "flush"
              /\ th[t].sid \notin table => th'[t] = Idle
         /\ EventGetReturn(t) => th[t].pc = "return" /\ th'[t] = Idle
<1>1. th \in [Threads -> ThreadState] /\ th[t] \in ThreadState
  BY DEF TypeInv, TypeOK
<1>2. UnsubscribeSet(t) =>
        /\ th[t].pc = "unsubscribe"
        /\ th[t].sid \in table => th'[t] = [th[t] EXCEPT !.pc = "dequeue", !.call = "flush"]
        /\ th[t].sid \notin table => th'[t] = Idle
  BY <1>1 DEF UnsubscribeSet
<1>3. /\ SubscribeSet(t) => th[t].pc = "subscribe" /\ th'[t] = Idle
      /\ EventGetReturn(t) => th[t].pc = "return" /\ th'[t] = Idle
  BY <1>1 DEF SubscribeSet, EventGetReturn
<1> QED  BY <1>1, <1>2, <1>3 DEF ThreadState

\* The critical section of oh_dequeue_session_event.
LEMMA DequeueMoves ==
  ASSUME TypeInv, NEW t \in Threads, Dequeue(t)
  PROVE  /\ th[t].pc = "dequeue"
         /\ th[t].sid \in table =>
              /\ th'[t].pc = "pop" /\ th'[t].sid = th[t].sid /\ th'[t].call = th[t].call
              /\ refs' = [refs EXCEPT ![th[t].sid] = @ \union {t}]
         /\ th[t].sid \notin table => th'[t] = Idle /\ refs' = refs
<1> DEFINE status == IF th[t].call = "flush" THEN th[t].qstatus ELSE eventq_status[th[t].sid]
           r == [th[t] EXCEPT !.pc = "pop", !.qstatus = status,
                              !.overflow = th[t].overflow \/ status]
<1>1. th \in [Threads -> ThreadState] /\ th[t] \in ThreadState
  BY DEF TypeInv, TypeOK
<1>2. th[t].pc = "dequeue"
  BY DEF Dequeue
<1>3. /\ th[t].sid \in table => th' = [th EXCEPT ![t] = r]
      /\ th[t].sid \notin table => th' = [th EXCEPT ![t] = Idle]
  BY DEF Dequeue
<1>4. r.pc = "pop" /\ r.sid = th[t].sid /\ r.call = th[t].call
  BY <1>1 DEF ThreadState
<1>5. /\ th[t].sid \in table => refs' = [refs EXCEPT ![th[t].sid] = @ \union {t}]
      /\ th[t].sid \notin table => refs' = refs
  BY DEF Dequeue, Ref
<1> HIDE DEF r
<1> QED  BY <1>1, <1>2, <1>3, <1>4, <1>5

\* The end of oh_dequeue_session_event.
LEMMA AfterDequeueMoves ==
  ASSUME TypeInv, NEW t \in Threads, NEW e
  PROVE  LET r == AfterDequeue(t, e)
         IN  /\ r.pc \in {"idle", "dequeue", "return"}
             /\ r.pc # "idle" => r.sid = th[t].sid
             /\ th[t].call = "flush" /\ r.pc # "idle" => r.pc = "dequeue" /\ r.call = "flush"
             /\ th[t].call = "flush" /\ r.pc = "idle" => e \in {NoEvent, Quit}
             /\ th[t].call # "flush" => r.call # "flush"
<1>1. th[t] \in ThreadState
  BY DEF TypeInv, TypeOK
<1> QED  BY <1>1 DEF AfterDequeue, ThreadState, Idle

\* A try_pop ends the dequeue: the reference goes and the caller goes on.
LEMMA TryPopMoves ==
  ASSUME TypeInv, NEW t \in Threads, TryPop(t)
  PROVE  /\ th[t].pc = "pop" /\ th'[t] = AfterDequeue(t, Front(th[t].sid))
         /\ refs' = [refs EXCEPT ![th[t].sid] = @ \ {t}]
<1>1. th \in [Threads -> ThreadState]
  BY DEF TypeInv, TypeOK
<1> QED  BY <1>1 DEF TryPop, Return

\* The test after a timed pop ends the dequeue or goes back to the pop.
LEMMA RecheckMoves ==
  ASSUME TypeInv, NEW t \in Threads, Recheck(t)
  PROVE  /\ th[t].pc = "recheck"
         /\ \/ /\ th'[t] = Idle \/ th'[t] = AfterDequeue(t, th[t].devent)
               /\ refs' = [refs EXCEPT ![th[t].sid] = @ \ {t}]
            \/ /\ th'[t].pc = "pop" /\ th'[t].sid = th[t].sid /\ th'[t].call = th[t].call
               /\ refs' = refs
<1>1. th \in [Threads -> ThreadState] /\ th[t] \in ThreadState
  BY DEF TypeInv, TypeOK
<1>2. /\ th[t].pc = "recheck"
      /\ \/ /\ th'[t] = Idle \/ th'[t] = AfterDequeue(t, th[t].devent)
            /\ refs' = [refs EXCEPT ![th[t].sid] = @ \ {t}]
         \/ th'[t] = [th[t] EXCEPT !.pc = "pop"] /\ refs' = refs
  BY <1>1 DEF Recheck, Return
<1> QED  BY <1>1, <1>2 DEF ThreadState

\* The blocking pop.
LEMMA WaitMoves ==
  ASSUME TypeInv, NEW t \in Threads
  PROVE  /\ TimedPop(t) =>
              /\ th[t].pc = "pop" /\ th'[t].sid = th[t].sid /\ th'[t].call = th[t].call
              /\ th'[t].pc = IF eventq[th[t].sid] = <<>> THEN "wait" ELSE "recheck"
              /\ th[t].call = "second"
         /\ Wake(t) =>
              /\ th[t].pc = "wait" /\ th'[t].sid = th[t].sid /\ th'[t].call = th[t].call
              /\ th'[t].pc = "recheck"
<1>1. th \in [Threads -> ThreadState] /\ th[t] \in ThreadState
  BY DEF TypeInv, TypeOK
<1>2. TimedPop(t) =>
        /\ th[t].pc = "pop" /\ th[t].call = "second"
        /\ th'[t] = [th[t] EXCEPT !.devent = Front(th[t].sid),
                                  !.pc = IF eventq[th[t].sid] = <<>> THEN "wait" ELSE "recheck"]
  BY <1>1 DEF TimedPop, Immediate
<1>3. Wake(t) =>
        /\ th[t].pc = "wait"
        /\ th'[t] = [th[t] EXCEPT !.devent = Front(th[t].sid), !.pc = "recheck"]
  BY <1>1 DEF Wake
<1> QED  BY <1>1, <1>2, <1>3 DEF ThreadState

----------------------------------------------------------------------------
(* References on the queues.                                               *)

Closing(t) == th[t].pc \in {"finalize", "drain"}
Popping(t) == th[t].pc \in {"pop", "wait", "recheck"}

\* Sessions of the table and of running calls are old ids, so that opening a
\* session gets a queue nobody uses; an open session and the thread that
\* closes it hold the "session" reference, which one thread only drops.
RefInv ==
  /\ \A s \in table : s < id /\ "session" \in refs[s]
  /\ \A t \in Threads : th[t].pc # "idle" => th[t].sid < id
  /\ \A t \in Threads : Popping(t) => t \in refs[th[t].sid]
  /\ \A t \in Threads : Closing(t) => "session" \in refs[th[t].sid] /\ th[t].sid \notin table
  /\ \A t, u \in Threads : Closing(t) /\ Closing(u) /\ th[t].sid = th[u].sid => t = u

\* Nobody holds a reference at first.
LEMMA InitRef == Init => RefInv
BY DEF Init, RefInv, Idle, Closing, Popping

\* The begin of an HPI call keeps the references.
LEMMA CallRef ==
  ASSUME TypeInv, RefInv, NEW t \in Threads, Call(t)
  PROVE  RefInv'
<1>0. /\ table \subseteq Sids /\ Sids \subseteq Nat /\ id \in Nat
      /\ refs \in [Sids -> SUBSET (Threads \union {"session"})]
      /\ \A u \in Threads : th[u].sid \in Sids
  BY ConstantFacts, BoundsAssumption DEF TypeInv, TypeOK, ThreadState
<1>1. CASE SessionOpen(t)
  <2>1. /\ id \in Sids /\ id' = id + 1 /\ table' = table \union {id} /\ th' = th
        /\ refs' = [refs EXCEPT ![id] = {"session"}]
    BY <1>1 DEF SessionOpen
  <2>2. \A s \in Sids : s < id => refs'[s] = refs[s] /\ s < id'
    BY <1>0, <2>1
  <2>3. "session" \in refs'[id] /\ id < id'
    BY <1>0, <2>1
  <2>4. \A u \in Threads : th[u].pc # "idle" => th[u].sid < id
    BY DEF RefInv
  <2>5. ASSUME NEW u \in Threads
        PROVE  /\ Closing(u)' <=> Closing(u)
               /\ Popping(u)' <=> Popping(u)
               /\ th'[u] = th[u]
               /\ Closing(u) \/ Popping(u) => th[u].pc # "idle"
    BY <2>1 DEF Closing, Popping
  <2>6. \A s \in table' : s < id' /\ "session" \in refs'[s]
    BY <1>0, <2>1, <2>2, <2>3 DEF RefInv
  <2>7. ASSUME NEW u \in Threads
        PROVE  /\ th'[u].pc # "idle" => th'[u].sid < id'
               /\ Popping(u)' => u \in refs'[th'[u].sid]
               /\ Closing(u)' => "session" \in refs'[th'[u].sid] /\ th'[u].sid \notin table'
    <3>1. th[u].pc # "idle" => th[u].sid < id /\ th[u].sid # id
      BY <1>0, <2>4
    <3> QED  BY <1>0, <2>1, <2>2, <2>5, <3>1 DEF RefInv
  <2> QED  BY <2>5, <2>6, <2>7 DEF RefInv
<1>2. ASSUME NEW s \in Sids, SessionClose(t, s)
      PROVE  RefInv'
  <2>1. id' = id /\ refs' = refs /\ s \in table /\ table' = table \ {s}
    BY <1>2 DEF SessionClose
  <2> QED  BY <1>0, <1>2, <2>1, CallMoves, Frame DEF RefInv, Closing, Popping
<1>3. ASSUME NEW s \in Sids, NEW tmo \in Timeouts,
             SubscribeCheck(t, s) \/ UnsubscribeCheck(t, s) \/ EventGet(t, s, tmo)
      PROVE  RefInv'
  <2>1. id' = id /\ refs' = refs /\ s \in table /\ table' = table
    BY <1>3 DEF SubscribeCheck, UnsubscribeCheck, EventGet, sessionVars
  <2> QED  BY <1>0, <1>3, <2>1, CallMoves, Frame DEF RefInv, Closing, Popping
<1>4. Timeouts # {}
  BY DEF Timeouts
<1> QED  BY <1>1, <1>2, <1>3, <1>4 DEF Call

\* A step inside a call keeps the references of all others.
LEMMA StepRef ==
  ASSUME TypeInv, RefInv, NEW t \in Threads, Step(t)
  PROVE  RefInv'
<1>0. /\ refs \in [Sids -> SUBSET (Threads \union {"session"})]
      /\ \A u \in Threads : th[u].sid \in Sids
  BY DEF TypeInv, TypeOK, ThreadState
<1>1. CASE FinalizeLength(t) \/ Drain(t)
  <2>1. id' = id /\ refs' = refs /\ table' = table
    BY <1>1 DEF FinalizeLength, Drain, sessionVars
  <2> QED  BY <1>0, <1>1, <2>1, CloseMoves, Frame DEF RefInv, Closing, Popping
<1>2. CASE FinalizeUnref(t)
  <2>1. id' = id /\ refs' = [refs EXCEPT ![th[t].sid] = @ \ {"session"}] /\ table' = table
    BY <1>2 DEF FinalizeUnref
  <2>2. Closing(t) /\ th'[t].pc = "idle"
    BY <1>2, CloseMoves DEF Closing, Idle
  <2>3. ASSUME NEW u \in Threads, u \in refs[th[u].sid]
        PROVE  u \in refs'[th[u].sid]
    BY <1>0, <2>1, <2>3, ThreadsAssumption
  <2>4. ASSUME NEW s \in Sids, s # th[t].sid
        PROVE  refs'[s] = refs[s]
    BY <1>0, <2>1, <2>4
  <2>5. table \subseteq Sids /\ th[t].sid \notin table
    BY <2>2 DEF TypeInv, TypeOK, RefInv
  <2> QED  BY <1>0, <2>1, <2>2, <2>3, <2>4, <2>5, Frame DEF RefInv, Closing, Popping
<1>3. CASE SubscribeSet(t) \/ UnsubscribeSet(t) \/ EventGetReturn(t)
  <2>1. id' = id /\ refs' = refs /\ table' = table
    BY <1>3 DEF SubscribeSet, UnsubscribeSet, EventGetReturn, sessionVars
  <2> QED  BY <1>0, <1>3, <2>1, SubscriptionMoves, Frame DEF RefInv, Closing, Popping, Idle
<1>4. CASE Dequeue(t)
  <2>1. id' = id /\ table' = table
    BY <1>4 DEF Dequeue
  <2>2. refs' = refs \/ refs' = [refs EXCEPT ![th[t].sid] = @ \union {t}]
    BY <1>4, DequeueMoves
  <2>3. \A s \in Sids : refs[s] \subseteq refs'[s]
    BY <1>0, <2>2
  <2>4. th'[t].pc = "pop" => th'[t].sid = th[t].sid /\ t \in refs'[th[t].sid]
    BY <1>0, <1>4, DequeueMoves DEF Idle
  <2>5. th[t].pc = "dequeue" /\ th'[t].pc \in {"idle", "pop"} /\ table \subseteq Sids
    BY <1>4, DequeueMoves DEF Idle, TypeInv, TypeOK
  <2> QED  BY <1>0, <2>1, <2>3, <2>4, <2>5, Frame DEF RefInv, Closing, Popping
<1>5. CASE TryPop(t) \/ Recheck(t)
  <2>1. id' = id /\ table' = table
    BY <1>5 DEF TryPop, Recheck
  <2>2. /\ th[t].pc \in {"pop", "recheck"}
        /\ \/ /\ th'[t].pc \in {"idle", "dequeue", "return"}
              /\ th'[t].pc # "idle" => th'[t].sid = th[t].sid
              /\ refs' = [refs EXCEPT ![th[t].sid] = @ \ {t}]
           \/ th'[t].pc = "pop" /\ th'[t].sid = th[t].sid /\ refs' = refs
    BY <1>5, TryPopMoves, RecheckMoves, AfterDequeueMoves DEF Idle
  <2>3. ASSUME NEW s \in Sids, NEW u \in Threads \union {"session"}, u # t, u \in refs[s]
        PROVE  u \in refs'[s]
    BY <1>0, <2>2, <2>3
  <2>4. table \subseteq Sids /\ t # "session"
    BY ThreadsAssumption DEF TypeInv, TypeOK
  <2> QED  BY <1>0, <2>1, <2>2, <2>3, <2>4, Frame DEF RefInv, Closing, Popping
<1>6. CASE TimedPop(t) \/ Wake(t)
  <2>1. id' = id /\ refs' = refs /\ table' = table
    BY <1>6 DEF TimedPop, Wake
  <2> QED  BY <1>0, <1>6, <2>1, WaitMoves, Frame DEF RefInv, Closing, Popping
<1> QED  BY <1>1, <1>2, <1>3, <1>4, <1>5, <1>6 DEF Step

\* The event thread holds no references.
LEMMA MuxRef ==
  ASSUME RefInv, Mux
  PROVE  RefInv'
BY DEF RefInv, Mux, ProcessEvent, MuxCheck, MuxQueue, sessionVars, Closing, Popping

\* A stuttering step keeps them.
LEMMA StutterRef == RefInv /\ UNCHANGED vars => RefInv'
BY DEF RefInv, vars, sessionVars, Closing, Popping

\* No thread of oh_dequeue_session_event or oh_destroy_session ever works on
\* a queue without holding a reference on it.
THEOREM QueuesAlive == Spec => []QueueAlive
<1>1. TypeInv /\ RefInv /\ [Next]_vars => (TypeInv /\ RefInv)'
  BY CallType, StepType, MuxType, StutterType, CallRef, StepRef, MuxRef, StutterRef DEF Next
<1>2. RefInv => QueueAlive
  BY DEF RefInv, QueueAlive, Closing, Popping
<1> QED  BY InitType, InitRef, <1>1, <1>2, PTL DEF Spec

\* Every reference has a holder that will drop it: a thread that is in a
\* dequeue on that queue, or the open session or the thread that closes it.
HeldInv ==
  /\ \A s \in Sids, u \in Threads : u \in refs[s] => Popping(u) /\ th[u].sid = s
  /\ \A s \in Sids : "session" \in refs[s] =>
       s \in table \/ \E u \in Threads : Closing(u) /\ th[u].sid = s

\* Nobody holds a reference at first.
LEMMA InitHeld == Init => HeldInv
BY DEF Init, HeldInv

\* Every call and every step inside a call keeps it.
LEMMA ThreadHeld ==
  ASSUME TypeInv, HeldInv, NEW t \in Threads, Call(t) \/ Step(t)
  PROVE  HeldInv'
<1>0. /\ table \subseteq Sids /\ t # "session"
      /\ refs \in [Sids -> SUBSET (Threads \union {"session"})]
      /\ \A u \in Threads : th[u].sid \in Sids
  BY ThreadsAssumption DEF TypeInv, TypeOK, ThreadState
<1>1. CASE SessionOpen(t)
  <2>1. /\ id \in Sids /\ table' = table \union {id} /\ th' = th
        /\ refs' = [refs EXCEPT ![id] = {"session"}]
    BY <1>1 DEF SessionOpen
  <2> QED  BY <1>0, <2>1, ThreadsAssumption DEF HeldInv, Closing, Popping
<1>2. ASSUME NEW s \in Sids, SessionClose(t, s)
      PROVE  HeldInv'
  <2>1. refs' = refs /\ table' = table \ {s}
    BY <1>2 DEF SessionClose
  <2> QED  BY <1>0, <1>2, <2>1, CallMoves, Frame DEF HeldInv, Closing, Popping
<1>3. ASSUME NEW s \in Sids, NEW tmo \in Timeouts,
             SubscribeCheck(t, s) \/ UnsubscribeCheck(t, s) \/ EventGet(t, s, tmo)
      PROVE  HeldInv'
  <2>1. refs' = refs /\ table' = table
    BY <1>3 DEF SubscribeCheck, UnsubscribeCheck, EventGet, sessionVars
  <2> QED  BY <1>0, <1>3, <2>1, CallMoves, Frame DEF HeldInv, Closing, Popping
<1>4. CASE FinalizeLength(t) \/ Drain(t)
  <2>1. refs' = refs /\ table' = table
    BY <1>4 DEF FinalizeLength, Drain, sessionVars
  <2> QED  BY <1>0, <1>4, <2>1, CloseMoves, Frame DEF HeldInv, Closing, Popping
<1>5. CASE FinalizeUnref(t)
  <2>1. refs' = [refs EXCEPT ![th[t].sid] = @ \ {"session"}] /\ table' = table
    BY <1>5 DEF FinalizeUnref
  <2>2. Closing(t)
    BY <1>5, CloseMoves DEF Closing
  <2>3. \A s \in Sids : /\ refs'[s] \subseteq refs[s]
                        /\ "session" \in refs'[s] => s # th[t].sid
    BY <1>0, <2>1
  <2>4. \A u \in Threads : u # t => th'[u] = th[u]
    BY <1>5, Frame DEF Step
  <2>5. \A u \in Threads : Popping(u) => u # t
    BY <2>2 DEF Closing, Popping
  <2> QED  BY <1>0, <2>1, <2>3, <2>4, <2>5 DEF HeldInv, Closing, Popping
<1>6. CASE SubscribeSet(t) \/ UnsubscribeSet(t) \/ EventGetReturn(t)
  <2>1. refs' = refs /\ table' = table
    BY <1>6 DEF SubscribeSet, UnsubscribeSet, EventGetReturn, sessionVars
  <2>2. th[t].pc \in {"subscribe", "unsubscribe", "return"}
    BY <1>6, SubscriptionMoves
  <2>3. \A u \in Threads : u # t => th'[u] = th[u]
    BY <1>6, Frame DEF Step
  <2> QED  BY <1>0, <2>1, <2>2, <2>3 DEF HeldInv, Closing, Popping
<1>7. CASE Dequeue(t)
  <2>1. table' = table
    BY <1>7 DEF Dequeue
  <2>2. /\ th[t].pc = "dequeue"
        /\ \/ refs' = refs
           \/ /\ refs' = [refs EXCEPT ![th[t].sid] = @ \union {t}]
              /\ th'[t].pc = "pop" /\ th'[t].sid = th[t].sid
    BY <1>7, DequeueMoves
  <2>3. \A u \in Threads : u # t => th'[u] = th[u]
    BY <1>7, Frame DEF Step
  <2> QED  BY <1>0, <2>1, <2>2, <2>3 DEF HeldInv, Closing, Popping
<1>8. CASE TryPop(t) \/ Recheck(t)
  <2>1. table' = table
    BY <1>8 DEF TryPop, Recheck
  <2>2. /\ th[t].pc \in {"pop", "recheck"}
        /\ \/ refs' = [refs EXCEPT ![th[t].sid] = @ \ {t}]
           \/ th'[t].pc = "pop" /\ th'[t].sid = th[t].sid /\ refs' = refs
    BY <1>8, TryPopMoves, RecheckMoves
  <2>3. \A u \in Threads : u # t => th'[u] = th[u]
    BY <1>8, Frame DEF Step
  <2> QED  BY <1>0, <2>1, <2>2, <2>3 DEF HeldInv, Closing, Popping
<1>9. CASE TimedPop(t) \/ Wake(t)
  <2>1. refs' = refs /\ table' = table
    BY <1>9 DEF TimedPop, Wake
  <2>2. /\ th[t].pc \in {"pop", "wait"} /\ th'[t].sid = th[t].sid
        /\ th'[t].pc \in {"wait", "recheck"}
    BY <1>9, WaitMoves
  <2>3. \A u \in Threads : u # t => th'[u] = th[u]
    BY <1>9, Frame DEF Step
  <2> QED  BY <1>0, <2>1, <2>2, <2>3 DEF HeldInv, Closing, Popping
<1>10. Timeouts # {}
  BY DEF Timeouts
<1> QED
  BY <1>1, <1>2, <1>3, <1>4, <1>5, <1>6, <1>7, <1>8, <1>9, <1>10 DEF Call, Step

\* The event thread and a stuttering step keep it.
LEMMA OtherHeld ==
  ASSUME HeldInv, Mux \/ UNCHANGED vars
  PROVE  HeldInv'
<1>1. UNCHANGED <<refs, th, table>>
  BY DEF Mux, ProcessEvent, MuxCheck, MuxQueue, vars, sessionVars
<1> QED  BY <1>1 DEF HeldInv, Closing, Popping

\* The queue of a closed session is freed once nobody works on it: no return
\* of oh_dequeue_session_event or oh_destroy_session keeps a reference.
THEOREM QueuesFreed == Spec => []QueueFreed
<1>1. TypeInv /\ HeldInv /\ [Next]_vars => (TypeInv /\ HeldInv)'
  BY CallType, StepType, MuxType, StutterType, ThreadHeld, OtherHeld DEF Next
<1>2. TypeInv /\ HeldInv => QueueFreed
  <2> SUFFICES ASSUME TypeInv, HeldInv, NEW s \in Sids \ table,
                      \A t \in Threads : ~WorksOn(t, s)
               PROVE  refs[s] = {}
    BY DEF QueueFreed
  <2>1. refs[s] \subseteq Threads \union {"session"}
    BY DEF TypeInv, TypeOK
  <2>2. ASSUME NEW u \in Threads
        PROVE  u \notin refs[s]
    BY DEF HeldInv, Popping, WorksOn
  <2>3. "session" \notin refs[s]
    BY DEF HeldInv, Closing, WorksOn
  <2> QED  BY <2>1, <2>2, <2>3
<1> QED  BY InitType, InitHeld, <1>1, <1>2, PTL DEF Spec

----------------------------------------------------------------------------
(* Lengths of the queues.                                                  *)

\* A pop shortens its queue by one unless it is empty, and no other queue.
LEMMA PopLength ==
  ASSUME TypeInv, NEW s \in Sids, Pop(s)
  PROVE  /\ \A r \in Sids : r # s => eventq'[r] = eventq[r]
         /\ Len(eventq[s]) \in Nat /\ Len(eventq'[s]) \in Nat
         /\ eventq[s] = <<>> => eventq'[s] = <<>> /\ Len(eventq[s]) = 0 /\ Len(eventq'[s]) = 0
         /\ eventq[s] # <<>> => /\ eventq'[s] = Tail(eventq[s])
                                /\ Len(eventq'[s]) = Len(eventq[s]) - 1
<1>1. eventq \in [Sids -> Seq(Events)] /\ eventq[s] \in Seq(Events)
  BY DEF TypeInv, TypeOK
<1>2. CASE eventq[s] = <<>>
  <2>1. eventq' = eventq
    BY <1>2 DEF Pop
  <2> QED  BY <1>2, <2>1
<1>3. CASE eventq[s] # <<>>
  <2>1. eventq' = [eventq EXCEPT ![s] = Tail(eventq[s])]
    BY <1>3 DEF Pop
  <2>2. eventq'[s] = Tail(eventq[s]) /\ \A r \in Sids : r # s => eventq'[r] = eventq[r]
    BY <1>1, <2>1
  <2>3. Len(Tail(eventq[s])) = Len(eventq[s]) - 1 /\ Len(eventq[s]) \in Nat /\ Len(eventq[s]) > 0
    BY <1>1, <1>3
  <2> QED  BY <1>3, <2>2, <2>3
<1> QED  BY <1>2, <1>3

\* Only a blocking pop changes who is blocked on a queue.
LEMMA WaitersMoves ==
  ASSUME TypeInv, NEW t \in Threads, Call(t) \/ Step(t), NEW s \in Sids
  PROVE  \/ Waiters(s)' = Waiters(s)
         \/ /\ TimedPop(t) /\ s = th[t].sid /\ eventq[s] = <<>>
            /\ t \notin Waiters(s) /\ Waiters(s)' = Waiters(s) \union {t}
         \/ /\ Wake(t) /\ s = th[t].sid
            /\ t \in Waiters(s) /\ Waiters(s)' = Waiters(s) \ {t}
<1>1. CASE TimedPop(t)
  BY <1>1, WaitMoves, Frame DEF Waiters
<1>2. CASE Wake(t)
  BY <1>2, WaitMoves, Frame DEF Waiters
<1>3. ASSUME ~TimedPop(t), ~Wake(t)
      PROVE  Waiters(s)' = Waiters(s)
  <2>1. th' = th \/ (th[t].pc # "wait" /\ th'[t].pc # "wait")
    <3>1. CASE Call(t)
      BY <3>1, CallMoves DEF Call
    <3>2. CASE Step(t)
      BY <1>3, <3>2, CloseMoves, SubscriptionMoves, DequeueMoves, TryPopMoves, RecheckMoves,
         AfterDequeueMoves DEF Step, Idle
    <3> QED  BY <3>1, <3>2
  <2> QED  BY <2>1, Frame DEF Waiters
<1> QED  BY <1>1, <1>2, <1>3

\* The steps that pop.
LEMMA Pops ==
  ASSUME TypeInv, NEW t \in Threads, Call(t) \/ Step(t)
  PROVE  \/ eventq' = eventq
         \/ th[t].sid \in Sids /\ Pop(th[t].sid)
<1>1. th[t].sid \in Sids
  BY DEF TypeInv, TypeOK, ThreadState
<1>2. CASE Call(t)
  BY <1>2 DEF Call, SessionOpen, SessionClose, SubscribeCheck, UnsubscribeCheck, EventGet, sessionVars
<1>3. CASE Step(t)
  BY <1>1, <1>3 DEF Step, FinalizeLength, Drain, FinalizeUnref, SubscribeSet, UnsubscribeSet,
     Dequeue, TryPop, TimedPop, Wake, Recheck, EventGetReturn, sessionVars
<1> QED  BY <1>2, <1>3

\* No thread makes a queue longer with respect to its blocked threads.
LEMMA Shrinks ==
  ASSUME TypeInv, NEW t \in Threads, Call(t) \/ Step(t), NEW s \in Sids
  PROVE  /\ Len(eventq'[s]) \in Nat /\ Cardinality(Waiters(s)') \in Nat
         /\ Len(eventq'[s]) <= Len(eventq[s])
         /\ \/ Len(eventq'[s]) = 0
            \/ Len(eventq'[s]) - Cardinality(Waiters(s)')
                 <= Len(eventq[s]) - Cardinality(Waiters(s))
<1> DEFINE n == Len(eventq[s])
           m == Len(eventq'[s])
           w == Cardinality(Waiters(s))
           v == Cardinality(Waiters(s)')
<1>1. n \in Nat /\ w \in Nat /\ IsFiniteSet(Waiters(s)) /\ IsFiniteSet(Waiters(s)') /\ v \in Nat
  <2>1. n \in Nat
    BY DEF TypeInv, TypeOK
  <2>2. Waiters(s)' \subseteq Threads
    BY DEF Waiters
  <2>3. IsFiniteSet(Waiters(s)') /\ v \in Nat
    BY <2>2, ThreadsAssumption, FS_Subset, FS_CardinalityType
  <2> QED  BY <2>1, <2>3, WaitersFinite
<1>2. m \in Nat /\ m <= n
  BY <1>1, Pops, PopLength
<1>3. CASE Waiters(s)' = Waiters(s)
  BY <1>1, <1>2, <1>3
<1>4. CASE TimedPop(t) /\ s = th[t].sid /\ eventq[s] = <<>>
  <2>1. m = 0
    BY <1>4, PopLength DEF TimedPop
  <2> QED  BY <1>1, <1>2, <2>1
<1>5. CASE Wake(t) /\ s = th[t].sid /\ t \in Waiters(s) /\ Waiters(s)' = Waiters(s) \ {t}
  <2>1. v = w - 1
    BY <1>1, <1>5, FS_RemoveElement
  <2>2. m = 0 \/ m = n - 1
    BY <1>5, PopLength DEF Wake
  <2> QED  BY <1>1, <1>2, <2>1, <2>2
<1> QED  BY <1>3, <1>4, <1>5, WaitersMoves

\* What the event thread does to a queue.
LEMMA MuxLength ==
  ASSUME TypeInv, Mux, NEW s \in Sids
  PROVE  /\ th' = th /\ table' = table /\ Waiters(s)' = Waiters(s)
         /\ \/ eventq'[s] = eventq[s]
            \/ /\ s \in table /\ ~QueueFull(s) /\ mpc = "queue" /\ Current(s)
               /\ eventq'[s] = Append(eventq[s], event)
               /\ Len(eventq'[s]) = Len(eventq[s]) + 1
<1>1. eventq \in [Sids -> Seq(Events)] /\ (mpc # "idle" => event \in Events)
  BY DEF TypeInv, TypeOK
<1>2. th' = th /\ table' = table /\ Waiters(s)' = Waiters(s)
  BY DEF Mux, ProcessEvent, MuxCheck, MuxQueue, sessionVars, Waiters
<1>3. CASE eventq' = eventq
  BY <1>2, <1>3
<1>4. ASSUME NEW r \in Sids, MuxQueue(r), r \in table, ~QueueFull(r)
      PROVE  /\ mpc = "queue" /\ Current(r)
             /\ eventq' = [eventq EXCEPT ![r] = Append(eventq[r], event)]
             /\ Len(Append(eventq[r], event)) = Len(eventq[r]) + 1
  <2>1. mpc = "queue" /\ Current(r) /\ eventq' = [eventq EXCEPT ![r] = Append(eventq[r], event)]
    BY <1>4 DEF MuxQueue, Push
  <2> QED  BY <1>1, <2>1
<1>5. eventq' = eventq \/ \E r \in Sids : MuxQueue(r) /\ r \in table /\ ~QueueFull(r)
  BY DEF Mux, ProcessEvent, MuxCheck, MuxQueue, sessionVars
<1> QED  BY <1>1, <1>2, <1>3, <1>4, <1>5

\* Queues are empty at first.
LEMMA InitBound == Init => QueueBound
<1> SUFFICES ASSUME Init, NEW s \in Sids
             PROVE  Len(eventq[s]) <= (IF Limit = 0 THEN 1 ELSE Limit) + Cardinality(Waiters(s))
  BY DEF QueueBound
<1>1. Len(eventq[s]) = 0
  BY DEF Init
<1> QED  BY <1>1, WaitersFinite, BoundsAssumption

\* Every step keeps the bound: only oh_queue_session_event adds an event, and
\* a waiter leaves only with one.
LEMMA NextBound ==
  ASSUME TypeInv, QueueBound, [Next]_vars
  PROVE  QueueBound'
<1> DEFINE M == IF Limit = 0 THEN 1 ELSE Limit
<1> SUFFICES ASSUME NEW s \in Sids
             PROVE  Len(eventq'[s]) <= M + Cardinality(Waiters(s)')
  BY DEF QueueBound
<1>0. /\ M \in Nat /\ M >= 1 /\ (Limit > 0 => M = Limit)
      /\ Len(eventq[s]) \in Nat /\ Cardinality(Waiters(s)) \in Nat
      /\ Len(eventq[s]) <= M + Cardinality(Waiters(s))
  BY WaitersFinite, BoundsAssumption DEF QueueBound, TypeInv, TypeOK
<1> HIDE DEF M
<1>1. ASSUME NEW t \in Threads, Call(t) \/ Step(t)
      PROVE  Len(eventq'[s]) <= M + Cardinality(Waiters(s)')
  BY <1>0, <1>1, Shrinks
<1>2. CASE Mux
  <2>1. CASE eventq'[s] = eventq[s]
    BY <1>0, <1>2, <2>1, MuxLength
  <2>2. CASE ~QueueFull(s) /\ Len(eventq'[s]) = Len(eventq[s]) + 1
    <3>1. ~(QueueLength(s) > 0 /\ QueueLength(s) >= Limit)
      BY <2>2 DEF QueueFull
    <3>2. QueueLength(s) = Len(eventq[s]) - Cardinality(Waiters(s)) /\ Limit \in Nat
      BY BoundsAssumption DEF QueueLength
    <3>3. Len(eventq[s]) + 1 <= M + Cardinality(Waiters(s))
      BY <1>0, <3>1, <3>2
    <3> QED  BY <1>2, <2>2, <3>3, MuxLength
  <2> QED  BY <1>2, <2>1, <2>2, MuxLength
<1>3. CASE UNCHANGED vars
  BY <1>0, <1>3 DEF vars, sessionVars, Waiters
<1> QED  BY <1>1, <1>2, <1>3 DEF Next

\* The queue of a session holds at most the configured limit (or 1) plus one
\* event for each thread blocked on it, for any limit and number of threads.
THEOREM QueuesBounded == Spec => []QueueBound
<1>1. TypeInv /\ QueueBound /\ [Next]_vars => (TypeInv /\ QueueBound)'
  BY CallType, StepType, MuxType, StutterType, NextBound DEF Next
<1> QED  BY InitType, InitBound, <1>1, PTL DEF Spec

----------------------------------------------------------------------------
(* Nothing is left in a queue that is freed.                               *)

\* Once oh_destroy_session has measured a queue, what is in it is at most
\* what the closing thread still pops plus one event per blocked thread: no
\* event is pushed any more, and a blocked thread that leaves takes one.
\* A session that was never opened has an empty queue.
DrainedAt(s, t) ==
  /\ Closing(t) /\ th[t].sid = s
  /\ th[t].pc = "drain" => Len(eventq[s]) <= Cardinality(Waiters(s)) + th[t].left

DrainInv ==
  /\ \A s \in Sids : s >= id => eventq[s] = <<>>
  /\ \A s \in Sids \ table :
       \/ Len(eventq[s]) <= Cardinality(Waiters(s))
       \/ \E t \in Threads : DrainedAt(s, t)

\* No queue has anything to drain at first.
LEMMA InitDrain == Init => DrainInv
<1> SUFFICES ASSUME Init PROVE DrainInv
  OBVIOUS
<1>1. \A s \in Sids : eventq[s] = <<>>
  BY DEF Init
<1>2. \A s \in Sids : Len(eventq[s]) = 0 /\ Cardinality(Waiters(s)) \in Nat
  BY <1>1, WaitersFinite
<1> QED  BY <1>1, <1>2 DEF DrainInv

\* A service thread keeps closed queues drained or being drained.
LEMMA ThreadDrain ==
  ASSUME TypeInv, RefInv, DrainInv, NEW t \in Threads, Call(t) \/ Step(t)
  PROVE  DrainInv'
<1>0. /\ id \in Nat /\ table \subseteq Sids /\ Sids \subseteq Nat
      /\ \A u \in Threads : th[u].left \in Nat /\ th[u].sid \in Sids
      /\ \A s \in Sids : Len(eventq[s]) \in Nat /\ Cardinality(Waiters(s)) \in Nat
      /\ \A s \in Sids : eventq[s] \in Seq(Events)
  BY ConstantFacts, BoundsAssumption, WaitersFinite DEF TypeInv, TypeOK, ThreadState
<1>1. id' = id \/ id' = id + 1
  BY DEF Call, Step, SessionOpen, SessionClose, SubscribeCheck, UnsubscribeCheck, EventGet,
     FinalizeLength, Drain, FinalizeUnref, SubscribeSet, UnsubscribeSet, Dequeue, TryPop,
     TimedPop, Wake, Recheck, EventGetReturn, sessionVars
<1>2. ASSUME NEW s \in Sids, s >= id'
      PROVE  eventq'[s] = <<>>
  <2>1. eventq[s] = <<>>
    BY <1>0, <1>1, <1>2 DEF DrainInv
  <2> QED  BY <2>1, Pops, PopLength
<1>3. ASSUME NEW s \in Sids, s \notin table'
      PROVE  \/ Len(eventq'[s]) <= Cardinality(Waiters(s)')
             \/ \E u \in Threads : DrainedAt(s, u)'
  <2>0. /\ Len(eventq'[s]) \in Nat /\ Cardinality(Waiters(s)') \in Nat
        /\ \/ Len(eventq'[s]) = 0
           \/ Len(eventq'[s]) - Cardinality(Waiters(s)')
                <= Len(eventq[s]) - Cardinality(Waiters(s))
    BY Shrinks
  <2>1. CASE s \in table
    <3>1. SessionClose(t, s)
      BY <1>3, <2>1 DEF Call, Step, SessionOpen, SessionClose, SubscribeCheck, UnsubscribeCheck,
         EventGet, FinalizeLength, Drain, FinalizeUnref, SubscribeSet, UnsubscribeSet, Dequeue,
         TryPop, TimedPop, Wake, Recheck, EventGetReturn, sessionVars
    <3> QED  BY <3>1, CallMoves DEF DrainedAt, Closing
  <2>2. CASE s \notin table /\ Len(eventq[s]) <= Cardinality(Waiters(s))
    BY <1>0, <2>0, <2>2
  <2>3. ASSUME s \notin table, NEW u \in Threads, DrainedAt(s, u), u # t
        PROVE  DrainedAt(s, u)' \/ Len(eventq'[s]) <= Cardinality(Waiters(s)')
    <3>1. th'[u] = th[u]
      BY <2>3, Frame
    <3>2. CASE th[u].pc # "drain"
      BY <2>3, <3>1, <3>2 DEF DrainedAt, Closing
    <3>3. CASE th[u].pc = "drain"
      <4>1. /\ Len(eventq[s]) \in Nat /\ Cardinality(Waiters(s)) \in Nat
            /\ th[u].left \in Nat
        BY <1>0
      <4>2. Len(eventq[s]) <= Cardinality(Waiters(s)) + th[u].left
        BY <2>3, <3>3 DEF DrainedAt
      <4>3. Len(eventq'[s]) <= Cardinality(Waiters(s)') + th[u].left
        BY <2>0, <4>1, <4>2
      <4> QED  BY <2>3, <3>1, <4>3 DEF DrainedAt, Closing
    <3> QED  BY <3>2, <3>3
  <2>4. ASSUME s \notin table, DrainedAt(s, t)
        PROVE  DrainedAt(s, t)' \/ Len(eventq'[s]) <= Cardinality(Waiters(s)')
    <3>1. Closing(t) /\ th[t].sid = s
      BY <2>4 DEF DrainedAt
    <3>2. CASE FinalizeLength(t)
      <4>1. Waiters(s)' = Waiters(s) /\ eventq' = eventq
        BY <3>2, WaitersMoves, CloseMoves, WaitMoves DEF FinalizeLength, sessionVars
      <4>2. ToDrain(s) \in Nat /\ Len(eventq[s]) <= Cardinality(Waiters(s)) + ToDrain(s)
        BY <1>0 DEF ToDrain, QueueLength
      <4> QED  BY <3>1, <3>2, <4>1, <4>2, CloseMoves DEF DrainedAt, Closing
    <3>3. CASE Drain(t)
      <4>1. Waiters(s)' = Waiters(s) /\ Pop(s)
        BY <3>1, <3>3, WaitersMoves, CloseMoves, WaitMoves DEF Drain
      <4>2. Len(eventq'[s]) = 0 \/ Len(eventq'[s]) = Len(eventq[s]) - 1
        BY <4>1, PopLength
      <4>3. /\ th[t].pc = "drain" /\ th'[t].pc = "drain" /\ th'[t].sid = s
            /\ th'[t].left = th[t].left - 1
        BY <3>1, <3>3, CloseMoves
      <4>4. /\ Len(eventq[s]) \in Nat /\ Cardinality(Waiters(s)) \in Nat
            /\ th[t].left \in Nat
        BY <1>0
      <4>5. Len(eventq[s]) <= Cardinality(Waiters(s)) + th[t].left
        BY <2>4, <4>3 DEF DrainedAt
      <4>6. \/ Len(eventq'[s]) <= Cardinality(Waiters(s)')
            \/ Len(eventq'[s]) <= Cardinality(Waiters(s)') + (th[t].left - 1)
        BY <2>0, <4>1, <4>2, <4>4, <4>5
      <4> QED  BY <4>3, <4>6 DEF DrainedAt, Closing
    <3>4. CASE FinalizeUnref(t)
      <4>1. Waiters(s)' = Waiters(s) /\ eventq' = eventq
        BY <3>4, WaitersMoves, CloseMoves, WaitMoves DEF FinalizeUnref
      <4> QED  BY <1>0, <2>4, <3>4, <4>1, CloseMoves DEF DrainedAt
    <3> QED
      BY <3>1, <3>2, <3>3, <3>4, CallMoves, SubscriptionMoves, DequeueMoves, TryPopMoves,
         RecheckMoves, WaitMoves DEF Closing, Call, Step, SessionOpen
  <2> QED  BY <1>0, <2>1, <2>2, <2>3, <2>4 DEF DrainInv
<1> QED  BY <1>2, <1>3 DEF DrainInv

\* oh_queue_session_event adds nothing to a closed session.
LEMMA MuxDrain ==
  ASSUME TypeInv, RefInv, DrainInv, Mux
  PROVE  DrainInv'
<1>0. id' = id /\ table' = table /\ th' = th
  BY DEF Mux, ProcessEvent, MuxCheck, MuxQueue, sessionVars
<1>1. ASSUME NEW s \in Sids, s >= id \/ s \notin table
      PROVE  eventq'[s] = eventq[s] /\ Waiters(s)' = Waiters(s)
  <2>1. s \notin table
    BY <1>1, ConstantFacts, BoundsAssumption DEF TypeInv, TypeOK, RefInv
  <2> QED  BY <2>1, MuxLength
<1>2. ASSUME NEW s \in Sids \ table, NEW t \in Threads, DrainedAt(s, t)
      PROVE  DrainedAt(s, t)'
  BY <1>0, <1>1, <1>2 DEF DrainedAt, Closing
<1> QED  BY <1>0, <1>1, <1>2 DEF DrainInv

\* A stuttering step keeps them so.
LEMMA StutterDrain == DrainInv /\ UNCHANGED vars => DrainInv'
BY DEF DrainInv, DrainedAt, Closing, Waiters, vars, sessionVars

\* A queue without references has neither waiters nor a thread that drains
\* it, so it is empty.
LEMMA DrainSafe ==
  ASSUME TypeInv, RefInv, DrainInv
  PROVE  NoLeakedEvents
<1> SUFFICES ASSUME NEW s \in Sids, refs[s] = {}
             PROVE  eventq[s] = <<>>
  BY DEF NoLeakedEvents
<1>1. s \notin table /\ Waiters(s) = {} /\ \A t \in Threads : ~DrainedAt(s, t)
  BY DEF RefInv, Waiters, Popping, DrainedAt
<1>2. Len(eventq[s]) <= 0
  BY <1>1, FS_EmptySet DEF DrainInv
<1>3. eventq[s] \in Seq(Events)
  BY DEF TypeInv, TypeOK
<1> QED  BY <1>2, <1>3

\* When the last reference on a queue is dropped no event is left in it, by
\* whatever threads and in whatever order it is dropped.
THEOREM NothingLeaks == Spec => []NoLeakedEvents
<1>1. TypeInv /\ RefInv /\ DrainInv /\ [Next]_vars => (TypeInv /\ RefInv /\ DrainInv)'
  BY CallType, StepType, MuxType, StutterType, CallRef, StepRef, MuxRef, StutterRef,
     ThreadDrain, MuxDrain, StutterDrain DEF Next
<1> QED  BY InitType, InitRef, InitDrain, <1>1, DrainSafe, PTL DEF Spec

----------------------------------------------------------------------------
(* Order of delivery.                                                      *)

\* Every number in or taken from the queue of s is below b.
Below(s, b) ==
  /\ popped[s] < b
  /\ \A i \in 1 .. Len(eventq[s]) : eventq[s][i] < b

\* Sessions still to be served have only seen earlier events.
OrderInv ==
  /\ InOrder
  /\ \A s \in Sids : Below(s, event + 1)
  /\ mpc # "idle" => \A s \in targets : Below(s, event)

\* Events are numbers.
LEMMA EventIsNat ==
  ASSUME NEW e \in {0} \union Events
  PROVE  e \in Nat
<1>1. CASE e = 0
  BY <1>1
<1>2. CASE e \in Events
  BY <1>2, ConstantFacts
<1> QED  BY <1>1, <1>2

\* Empty queues are ordered.
LEMMA InitOrder == Init => OrderInv
BY DEF Init, OrderInv, InOrder, Below

\* A pop keeps the order and the bounds.
LEMMA PopOrder ==
  ASSUME TypeInv, InOrder, NEW s \in Sids, Pop(s)
  PROVE  /\ InOrder'
         /\ \A r \in Sids : \A b \in Nat : Below(r, b) =>
              /\ popped'[r] < b
              /\ \A i \in 1 .. Len(eventq'[r]) : eventq'[r][i] < b
<1>0. /\ eventq \in [Sids -> Seq(Events)] /\ popped \in [Sids -> {0} \union Events]
      /\ eventq[s] \in Seq(Events) /\ Events \subseteq Nat
  BY ConstantFacts DEF TypeInv, TypeOK
<1>1. CASE eventq[s] = <<>>
  <2>1. eventq' = eventq /\ popped' = popped
    BY <1>1 DEF Pop
  <2> QED  BY <2>1 DEF InOrder, Below
<1>2. CASE eventq[s] # <<>>
  <2>1. /\ eventq' = [eventq EXCEPT ![s] = Tail(eventq[s])]
        /\ popped' = [popped EXCEPT ![s] = Head(eventq[s])]
    BY <1>2 DEF Pop
  <2>2. /\ Len(Tail(eventq[s])) = Len(eventq[s]) - 1
        /\ \A i \in 1 .. Len(Tail(eventq[s])) :
             Tail(eventq[s])[i] = eventq[s][i + 1] /\ i + 1 \in 1 .. Len(eventq[s])
        /\ Head(eventq[s]) = eventq[s][1] /\ 1 \in 1 .. Len(eventq[s])
        /\ Len(eventq[s]) \in Nat
    BY <1>0, <1>2
  <2>3. ASSUME NEW r \in Sids, r # s
        PROVE  eventq'[r] = eventq[r] /\ popped'[r] = popped[r]
    BY <1>0, <2>1, <2>3
  <2>4. eventq'[s] = Tail(eventq[s]) /\ popped'[s] = eventq[s][1]
    BY <1>0, <2>1, <2>2
  <2>5. /\ \A i, j \in 1 .. Len(eventq'[s]) : i < j => eventq'[s][i] < eventq'[s][j]
        /\ \A i \in 1 .. Len(eventq'[s]) : popped'[s] < eventq'[s][i]
    BY <2>2, <2>4 DEF InOrder
  <2>6. ASSUME NEW b \in Nat, Below(s, b)
        PROVE  popped'[s] < b /\ \A i \in 1 .. Len(eventq'[s]) : eventq'[s][i] < b
    BY <2>2, <2>4, <2>6 DEF Below
  <2> QED  BY <2>3, <2>5, <2>6 DEF InOrder, Below
<1> QED  BY <1>1, <1>2

\* A service thread only pops, which keeps the order.
LEMMA ThreadOrder ==
  ASSUME TypeInv, OrderInv, NEW t \in Threads, Call(t) \/ Step(t)
  PROVE  OrderInv'
<1>1. mpc' = mpc /\ event' = event /\ targets' = targets
  BY DEF Call, Step, SessionOpen, SessionClose, SubscribeCheck, UnsubscribeCheck, EventGet,
     FinalizeLength, Drain, FinalizeUnref, SubscribeSet, UnsubscribeSet, Dequeue, TryPop,
     TimedPop, Wake, Recheck, EventGetReturn, muxVars
<1>2. event \in Nat /\ event + 1 \in Nat /\ targets \subseteq Sids
  BY ConstantFacts DEF TypeInv, TypeOK
<1>3. \/ eventq' = eventq /\ popped' = popped
      \/ th[t].sid \in Sids /\ Pop(th[t].sid)
  <2>1. th[t].sid \in Sids
    BY DEF TypeInv, TypeOK, ThreadState
  <2> QED
    BY <2>1 DEF Call, Step, SessionOpen, SessionClose, SubscribeCheck, UnsubscribeCheck, EventGet,
       FinalizeLength, Drain, FinalizeUnref, SubscribeSet, UnsubscribeSet, Dequeue, TryPop,
       TimedPop, Wake, Recheck, EventGetReturn, sessionVars, history
<1>4. CASE eventq' = eventq /\ popped' = popped
  BY <1>1, <1>4 DEF OrderInv, InOrder, Below
<1>5. CASE th[t].sid \in Sids /\ Pop(th[t].sid)
  <2>1. InOrder'
    BY <1>5, PopOrder DEF OrderInv
  <2>2. ASSUME NEW s \in Sids
        PROVE  Below(s, event + 1)'
    BY <1>1, <1>2, <1>5, PopOrder DEF OrderInv, Below
  <2>3. ASSUME mpc # "idle", NEW s \in targets
        PROVE  Below(s, event)'
    BY <1>1, <1>2, <1>5, <2>3, PopOrder DEF OrderInv, Below
  <2> QED  BY <1>1, <2>1, <2>2, <2>3 DEF OrderInv
<1> QED  BY <1>3, <1>4, <1>5

\* The event thread appends an event above all it queued before.
LEMMA MuxOrder ==
  ASSUME TypeInv, OrderInv, Mux
  PROVE  OrderInv'
<1>0. /\ event \in Nat /\ targets \subseteq Sids /\ Sids \subseteq Nat /\ table \subseteq Sids
      /\ eventq \in [Sids -> Seq(Events)] /\ popped \in [Sids -> {0} \union Events]
      /\ Events \subseteq Nat
  BY ConstantFacts DEF TypeInv, TypeOK
<1>1. CASE ProcessEvent
  <2>1. /\ event' = event + 1 /\ targets' = table
        /\ eventq' = eventq /\ popped' = popped
    BY <1>1 DEF ProcessEvent, sessionVars, history
  <2>2. ASSUME NEW s \in Sids
        PROVE  Below(s, event + 1)' /\ Below(s, event)'
    <3>1. /\ popped[s] \in Nat /\ Len(eventq[s]) \in Nat
          /\ \A i \in 1 .. Len(eventq[s]) : eventq[s][i] \in Nat
      <4>1. eventq[s] \in Seq(Events) /\ popped[s] \in {0} \union Events
        BY <1>0
      <4>2. \A i \in 1 .. Len(eventq[s]) : eventq[s][i] \in Events
        BY <4>1
      <4>3. \A i \in 1 .. Len(eventq[s]) : eventq[s][i] \in Nat
        BY <1>0, <4>2
      <4>4. popped[s] \in Nat
        BY <4>1, EventIsNat
      <4>5. Len(eventq[s]) \in Nat
        BY <4>1
      <4> QED  BY <4>3, <4>4, <4>5
    <3>2. Below(s, event + 1)
      BY DEF OrderInv
    <3> QED  BY <1>0, <2>1, <3>1, <3>2 DEF Below
  <2> QED  BY <1>0, <2>1, <2>2 DEF OrderInv, InOrder
<1>2. ASSUME NEW s \in Sids, MuxCheck(s)
      PROVE  OrderInv'
  <2>1. /\ event' = event /\ targets' \subseteq targets /\ eventq' = eventq /\ popped' = popped
        /\ mpc # "idle"
    BY <1>2 DEF MuxCheck, NextTarget, sessionVars, history
  <2> QED  BY <2>1 DEF OrderInv, InOrder, Below
<1>3. ASSUME NEW s \in Sids, MuxQueue(s)
      PROVE  OrderInv'
  <2>1. /\ event' = event /\ targets' = targets \ {s} /\ popped' = popped
        /\ mpc = "queue" /\ s \in targets
        /\ eventq' = eventq \/ eventq' = [eventq EXCEPT ![s] = Append(eventq[s], event)]
    BY <1>3 DEF MuxQueue, NextTarget, Push, Current
  <2>2. CASE eventq' = eventq
    BY <2>1, <2>2 DEF OrderInv, InOrder, Below
  <2>3. CASE eventq' = [eventq EXCEPT ![s] = Append(eventq[s], event)]
    <3>1. /\ eventq'[s] = Append(eventq[s], event)
          /\ \A r \in Sids : r # s => eventq'[r] = eventq[r]
      BY <1>0, <2>3
    <3>2. /\ event \in Events /\ Len(eventq[s]) \in Nat /\ eventq[s] \in Seq(Events)
      BY <1>0, <2>1 DEF TypeInv
    <3>3. /\ Len(eventq'[s]) = Len(eventq[s]) + 1
          /\ \A i \in 1 .. Len(eventq[s]) : eventq'[s][i] = eventq[s][i]
          /\ eventq'[s][Len(eventq[s]) + 1] = event
      BY <3>1, <3>2
    <3>4. Below(s, event)
      BY <2>1 DEF OrderInv
    <3>5. \A i \in 1 .. Len(eventq'[s]) : i \in 1 .. Len(eventq[s]) \/ i = Len(eventq[s]) + 1
      BY <3>2, <3>3
    <3>6. \A i, j \in 1 .. Len(eventq'[s]) : i < j => eventq'[s][i] < eventq'[s][j]
      BY <3>2, <3>3, <3>4, <3>5 DEF OrderInv, InOrder, Below
    <3>7. \A i \in 1 .. Len(eventq'[s]) : popped'[s] < eventq'[s][i]
      BY <2>1, <3>3, <3>4, <3>5 DEF OrderInv, InOrder, Below
    <3>8. Below(s, event + 1)'
      <4>1. Below(s, event + 1)
        BY DEF OrderInv
      <4> QED  BY <1>0, <2>1, <3>3, <3>5, <4>1 DEF Below
    <3>9. ASSUME NEW r \in Sids, r # s
          PROVE  /\ Below(r, event + 1)'
                 /\ r \in targets' => Below(r, event)'
      BY <2>1, <3>1, <3>9 DEF OrderInv, Below
    <3>10. InOrder'
      BY <2>1, <3>1, <3>6, <3>7 DEF OrderInv, InOrder
    <3> QED  BY <1>0, <2>1, <3>8, <3>9, <3>10 DEF OrderInv
  <2> QED  BY <2>1, <2>2, <2>3
<1> QED  BY <1>1, <1>2, <1>3 DEF Mux

\* A stuttering step keeps the order.
LEMMA StutterOrder == OrderInv /\ UNCHANGED vars => OrderInv'
BY DEF OrderInv, InOrder, Below, vars, sessionVars, muxVars, history

\* Events leave every queue in the order of their processing, none twice,
\* with any number of threads popping from it.
THEOREM OrderedDelivery == Spec => []InOrder
<1>1. TypeInv /\ OrderInv /\ [Next]_vars => (TypeInv /\ OrderInv)'
  BY CallType, StepType, MuxType, StutterType, ThreadOrder, MuxOrder, StutterOrder DEF Next
<1>2. OrderInv => InOrder
  BY DEF OrderInv
<1> QED  BY InitType, InitOrder, <1>1, <1>2, PTL DEF Spec

----------------------------------------------------------------------------
(* What an unsubscribed session may hold.                                  *)

\* The event thread has decided to queue its event to s.
Pending(s) == mpc = "queue" /\ Current(s)

\* The one stray event of an unsubscribed session is either in the queue or
\* still with the event thread.
UnsubInv ==
  \A s \in table :
    ~subscribed[s] /\ (\A t \in Threads : ~Flushing(t, s)) =>
      /\ Len(eventq[s]) <= 1
      /\ Pending(s) => Len(eventq[s]) = 0

\* There is no session at first.
LEMMA InitUnsub == Init => UnsubInv
BY DEF Init, UnsubInv

\* After the quit event nothing follows.
LEMMA QuitIsLast ==
  ASSUME TypeInv, OrderInv, NEW s \in Sids, popped[s] = Quit
  PROVE  eventq[s] = <<>> /\ ~Pending(s)
<1>0. /\ eventq[s] \in Seq(Events) /\ Events \subseteq Nat /\ Quit \in Nat
      /\ event \in {0} \union Events /\ targets \subseteq Sids
  BY ConstantFacts DEF TypeInv, TypeOK
<1>1. \A e \in Events : e <= Quit
  BY <1>0 DEF Events
<1>2. eventq[s] = <<>>
  <2>1. SUFFICES ASSUME eventq[s] # <<>>
                 PROVE  FALSE
    OBVIOUS
  <2>2. 1 \in 1 .. Len(eventq[s]) /\ eventq[s][1] \in Events
    BY <1>0, <2>1
  <2>3. Quit < eventq[s][1]
    BY <2>2 DEF OrderInv, InOrder
  <2>4. eventq[s][1] <= Quit /\ eventq[s][1] \in Nat /\ Quit \in Nat
    BY <1>0, <1>1, <2>2
  <2>5. \A m, n \in Nat : m < n => ~(n <= m)
    OBVIOUS
  <2> QED  BY <2>3, <2>4, <2>5, Zenon
<1>3. ASSUME Pending(s)
      PROVE  FALSE
  <2>1. Below(s, event)
    BY <1>3 DEF Pending, Current, OrderInv
  <2>2. Quit < event
    BY <2>1 DEF Below
  <2>3. event = 0 \/ event <= Quit
    BY <1>0, <1>1
  <2>4. event \in Nat /\ Quit \in Nat
    BY <1>0, EventIsNat
  <2>5. \A m, n \in Nat : m < n => ~(n = 0 \/ n <= m)
    OBVIOUS
  <2> QED  BY <2>2, <2>3, <2>4, <2>5, Zenon
<1> QED  BY <1>2, <1>3

\* The same fact about the next state.
LEMMA QuitStaysLast ==
  (TypeInv /\ OrderInv => \A s \in Sids : popped[s] = Quit => eventq[s] = <<>> /\ ~Pending(s))'
<1>1. TypeInv /\ OrderInv => \A s \in Sids : popped[s] = Quit => eventq[s] = <<>> /\ ~Pending(s)
  BY QuitIsLast
<1> QED  BY <1>1, PTL

\* A service thread keeps it: a flush ends on an empty queue or after the
\* quit event.
LEMMA ThreadUnsub ==
  ASSUME TypeInv, RefInv, DrainInv, OrderInv, UnsubInv, TypeInv', OrderInv',
         NEW t \in Threads, Call(t) \/ Step(t)
  PROVE  UnsubInv'
<1> SUFFICES ASSUME NEW s \in table', ~subscribed'[s], \A u \in Threads : ~Flushing(u, s)'
             PROVE  /\ Len(eventq'[s]) <= 1
                    /\ Pending(s)' => Len(eventq'[s]) = 0
  BY DEF UnsubInv
<1>0. /\ mpc' = mpc /\ targets' = targets /\ (Pending(s)' <=> Pending(s))
      /\ s \in Sids
  <2>1. mpc' = mpc /\ targets' = targets
    BY DEF Call, Step, SessionOpen, SessionClose, SubscribeCheck, UnsubscribeCheck, EventGet,
       FinalizeLength, Drain, FinalizeUnref, SubscribeSet, UnsubscribeSet, Dequeue, TryPop,
       TimedPop, Wake, Recheck, EventGetReturn, muxVars
  <2> QED  BY <2>1 DEF Pending, Current, TypeInv, TypeOK
<1>1. Len(eventq[s]) \in Nat /\ Len(eventq'[s]) \in Nat /\ Len(eventq'[s]) <= Len(eventq[s])
  BY <1>0, Shrinks DEF TypeInv, TypeOK
<1>2. CASE SessionOpen(t) /\ s = id
  <2>1. eventq[s] = <<>> /\ mpc = "idle"
    BY <1>0, <1>2, BoundsAssumption DEF DrainInv, SessionOpen, Sids
  <2> QED  BY <1>0, <1>1, <2>1 DEF Pending
<1>3. CASE s \in table
  <2>1. CASE ~subscribed[s] /\ \A u \in Threads : ~Flushing(u, s)
    BY <1>0, <1>1, <1>3, <2>1 DEF UnsubInv
  <2>2. CASE subscribed[s]
    <3>1. UnsubscribeSet(t) /\ th[t].sid = s
      <4>1. ~FinalizeUnref(t) \/ th[t].sid # s
        BY <1>3, CloseMoves DEF RefInv, Closing
      <4>2. subscribed \in [Sids -> BOOLEAN] /\ th[t].sid \in Sids
        BY DEF TypeInv, TypeOK, ThreadState
      <4>3. ~SubscribeSet(t)
        BY <1>0, <2>2, <4>2 DEF SubscribeSet
      <4>4. ~(FinalizeUnref(t) /\ th[t].sid # s)
        BY <1>0, <2>2, <4>2 DEF FinalizeUnref
      <4>5. subscribed' # subscribed
        BY <2>2
      <4>6. UnsubscribeSet(t)
        BY <4>1, <4>3, <4>4, <4>5 DEF Call, Step, SessionOpen, SessionClose, SubscribeCheck,
           UnsubscribeCheck, EventGet, FinalizeLength, Drain, Dequeue, TryPop, TimedPop, Wake,
           Recheck, EventGetReturn, sessionVars
      <4> QED  BY <1>0, <2>2, <4>2, <4>6 DEF UnsubscribeSet
    <3>2. Flushing(t, s)'
      BY <1>3, <3>1, SubscriptionMoves DEF Flushing
    <3> QED  BY <3>2
  <2>3. ASSUME NEW u \in Threads, Flushing(u, s)
        PROVE  /\ Len(eventq'[s]) <= 1
               /\ Pending(s)' => Len(eventq'[s]) = 0
    <3>1. u = t
      BY <2>3, Frame DEF Flushing
    <3>2. th[t].sid = s /\ th[t].call = "flush" /\ th[t].pc \in {"dequeue", "pop"} /\ ~Flushing(t, s)'
      BY <2>3, <3>1 DEF Flushing
    <3>3. TryPop(t)
      <4>1. ~Dequeue(t)
        BY <1>3, <3>2, DequeueMoves DEF Flushing
      <4>2. ~TimedPop(t)
        BY <3>2, WaitMoves
      <4>3. ~SessionOpen(t)
        BY <3>2 DEF SessionOpen
      <4> QED  BY <1>0, <3>2, <4>1, <4>2, <4>3, CallMoves, CloseMoves, SubscriptionMoves,
                  RecheckMoves, WaitMoves DEF Call, Step
    <3>4. /\ th'[t] = AfterDequeue(t, Front(s)) /\ Pop(s)
      BY <3>2, <3>3, TryPopMoves DEF TryPop
    <3>5. Front(s) \in {NoEvent, Quit}
      BY <3>2, <3>4, AfterDequeueMoves DEF Flushing
    <3>6. CASE eventq[s] = <<>>
      BY <1>0, <3>4, <3>6, PopLength
    <3>7. CASE eventq[s] # <<>>
      <4>1. Head(eventq[s]) \in Events /\ popped \in [Sids -> {0} \union Events]
        BY <1>0, <3>7 DEF TypeInv, TypeOK
      <4>2. popped'[s] = Quit
        BY <1>0, <3>4, <3>5, <3>7, <4>1, ConstantFacts DEF Front, Pop
      <4>3. eventq'[s] = <<>> /\ ~Pending(s)'
        BY <1>0, <4>2, QuitStaysLast
      <4> QED  BY <4>3
    <3> QED  BY <3>6, <3>7
  <2> QED  BY <2>1, <2>2, <2>3
<1>4. s \in table \/ (SessionOpen(t) /\ s = id)
  BY DEF Call, Step, SessionOpen, SessionClose, SubscribeCheck, UnsubscribeCheck, EventGet,
     FinalizeLength, Drain, FinalizeUnref, SubscribeSet, UnsubscribeSet, Dequeue, TryPop,
     TimedPop, Wake, Recheck, EventGetReturn, sessionVars
<1> QED  BY <1>2, <1>3, <1>4

\* The event thread adds at most the event it had decided on.
LEMMA MuxUnsub ==
  ASSUME TypeInv, UnsubInv, Mux
  PROVE  UnsubInv'
<1> SUFFICES ASSUME NEW s \in table', ~subscribed'[s], \A u \in Threads : ~Flushing(u, s)'
             PROVE  /\ Len(eventq'[s]) <= 1
                    /\ Pending(s)' => Len(eventq'[s]) = 0
  BY DEF UnsubInv
<1>0. th' = th /\ table' = table /\ subscribed' = subscribed /\ s \in Sids
  BY DEF Mux, ProcessEvent, MuxCheck, MuxQueue, sessionVars, TypeInv, TypeOK
<1>1. /\ Len(eventq[s]) \in Nat /\ Len(eventq[s]) <= 1
      /\ Pending(s) => Len(eventq[s]) = 0
  BY <1>0 DEF UnsubInv, Flushing, TypeInv, TypeOK
<1>2. CASE ProcessEvent
  BY <1>1, <1>2 DEF ProcessEvent, sessionVars, Pending
<1>3. ASSUME NEW r \in Sids, MuxCheck(r)
      PROVE  /\ Len(eventq'[s]) <= 1
             /\ Pending(s)' => Len(eventq'[s]) = 0
  <2>1. eventq' = eventq
    BY <1>3 DEF MuxCheck, sessionVars
  <2>2. ~Pending(s)'
    <3>1. ASSUME Pending(s)'
          PROVE  FALSE
      <4>1. mpc' = "queue" /\ r \in table /\ subscribed[r] /\ targets' = targets /\ Current(r)
        BY <1>3, <3>1 DEF Pending, MuxCheck, NextTarget
      <4>2. s <= r /\ r <= s
        BY <3>1, <4>1 DEF Pending, Current
      <4>3. s = r
        BY <1>0, <4>2, ConstantFacts
      <4> QED  BY <1>0, <4>1, <4>3
    <3> QED  BY <3>1
  <2> QED  BY <1>1, <2>1, <2>2
<1>4. ASSUME NEW r \in Sids, MuxQueue(r)
      PROVE  /\ Len(eventq'[s]) <= 1
             /\ Pending(s)' => Len(eventq'[s]) = 0
  <2>1. ~Pending(s)'
    BY <1>4 DEF MuxQueue, NextTarget, Pending
  <2>2. Len(eventq'[s]) <= 1
    BY <1>0, <1>1, MuxLength DEF Pending
  <2> QED  BY <2>1, <2>2
<1> QED  BY <1>2, <1>3, <1>4 DEF Mux

\* A stuttering step keeps it.
LEMMA StutterUnsub == UnsubInv /\ UNCHANGED vars => UnsubInv'
BY DEF UnsubInv, Pending, Current, Flushing, vars, sessionVars, muxVars

\* An unsubscribed session that is not being flushed holds at most one event.
THEOREM UnsubscribedHoldsOne == Spec => []UnsubscribedQueue
<1>1. TypeInv /\ RefInv /\ DrainInv /\ OrderInv /\ UnsubInv /\ [Next]_vars
        => (TypeInv /\ RefInv /\ DrainInv /\ OrderInv /\ UnsubInv)'
  <2> SUFFICES ASSUME TypeInv, RefInv, DrainInv, OrderInv, UnsubInv, [Next]_vars
               PROVE  (TypeInv /\ RefInv /\ DrainInv /\ OrderInv /\ UnsubInv)'
    OBVIOUS
  <2>1. TypeInv' /\ RefInv' /\ DrainInv' /\ OrderInv'
    BY CallType, StepType, MuxType, StutterType, CallRef, StepRef, MuxRef, StutterRef,
       ThreadDrain, MuxDrain, StutterDrain, ThreadOrder, MuxOrder, StutterOrder DEF Next
  <2>2. UnsubInv'
    BY <2>1, ThreadUnsub, MuxUnsub, StutterUnsub DEF Next
  <2> QED  BY <2>1, <2>2
<1>2. UnsubInv => UnsubscribedQueue
  BY DEF UnsubInv, UnsubscribedQueue
<1> QED
  BY InitType, InitRef, InitDrain, InitOrder, InitUnsub, <1>1, <1>2, PTL DEF Spec
----------------------------------------------------------------------------
(* Complete delivery.                                                      *)

\* Ids are given out in order, a session that was not opened yet is not
\* subscribed, and what a subscribed session misses is with the event thread.
CompleteInv ==
  /\ \A s \in table : s < id
  /\ \A s \in Sids : s >= id => ~subscribed[s]
  /\ \A s \in table : subscribed[s] =>
       \A e \in since[s] + 1 .. event :
         \/ e \in queued[s] \union lost[s]
         \/ e = event /\ mpc # "idle" /\ s \in targets

\* There is no session at first.
LEMMA InitComplete == Init => CompleteInv
BY DEF Init, CompleteInv

\* What a service thread changes of the state CompleteInv is about.
LEMMA ThreadTable ==
  ASSUME TypeInv, NEW t \in Threads, Call(t) \/ Step(t)
  PROVE  /\ mpc' = mpc /\ event' = event /\ targets' = targets
         /\ \/ UNCHANGED <<id, table, subscribed, queued, lost, since>>
            \/ SessionOpen(t)
            \/ \E s \in Sids : SessionClose(t, s)
            \/ FinalizeUnref(t) \/ SubscribeSet(t) \/ UnsubscribeSet(t)
BY DEF Call, Step, SessionOpen, SubscribeCheck, UnsubscribeCheck, EventGet, SessionClose,
   FinalizeUnref, SubscribeSet, UnsubscribeSet,
   FinalizeLength, Drain, Dequeue, TryPop, TimedPop, Wake, Recheck, EventGetReturn,
   sessionVars, muxVars, history

\* A service thread keeps it: a subscription starts with nothing missed.
LEMMA ThreadComplete ==
  ASSUME TypeInv, CompleteInv, NEW t \in Threads, Call(t) \/ Step(t)
  PROVE  CompleteInv'
<1>0. /\ id \in Nat /\ table \subseteq Sids /\ Sids \subseteq Nat /\ event \in Nat
      /\ subscribed \in [Sids -> BOOLEAN] /\ since \in [Sids -> {0} \union Events]
      /\ queued \in [Sids -> SUBSET Events] /\ lost \in [Sids -> SUBSET Events]
      /\ th[t].sid \in Sids
  BY ConstantFacts, BoundsAssumption DEF TypeInv, TypeOK, ThreadState
<1>1. mpc' = mpc /\ event' = event /\ targets' = targets
  BY ThreadTable
<1>2. CASE UNCHANGED <<id, table, subscribed, queued, lost, since>>
  BY <1>1, <1>2 DEF CompleteInv
<1>3. CASE SessionOpen(t)
  <2>1. /\ id' = id + 1 /\ table' = table \union {id} /\ id \in Sids
        /\ UNCHANGED <<subscribed, queued, lost, since>>
    BY <1>3 DEF SessionOpen, history
  <2>2. \A s \in table' : s < id'
    BY <1>0, <2>1 DEF CompleteInv
  <2>3. \A s \in Sids : s >= id' => ~subscribed'[s]
    BY <1>0, <2>1 DEF CompleteInv
  <2>4. ~subscribed[id]
    BY <1>0, <2>1 DEF CompleteInv
  <2> QED  BY <1>1, <2>1, <2>2, <2>3, <2>4 DEF CompleteInv
<1>4. ASSUME NEW s \in Sids, SessionClose(t, s)
      PROVE  CompleteInv'
  <2>1. /\ id' = id /\ table' = table \ {s} /\ subscribed' = subscribed
        /\ \A r \in Sids : r # s => queued'[r] = queued[r] /\ lost'[r] = lost[r] /\ since'[r] = since[r]
    BY <1>0, <1>4 DEF SessionClose
  <2> QED  BY <1>0, <1>1, <2>1 DEF CompleteInv
<1>5. CASE FinalizeUnref(t) \/ UnsubscribeSet(t)
  <2>1. /\ id' = id /\ table' = table /\ queued' = queued /\ lost' = lost /\ since' = since
        /\ \A s \in Sids : subscribed'[s] => subscribed[s]
    BY <1>0, <1>5 DEF FinalizeUnref, UnsubscribeSet, history
  <2> QED  BY <1>0, <1>1, <2>1 DEF CompleteInv
<1>6. CASE SubscribeSet(t)
  <2> DEFINE s == th[t].sid
  <2>1. /\ id' = id /\ table' = table /\ queued' = queued /\ lost' = lost
        /\ \A r \in Sids \ {s} : subscribed'[r] = subscribed[r] /\ since'[r] = since[r]
        /\ s \notin table => subscribed'[s] = subscribed[s]
        /\ s \in table => since'[s] = IF subscribed[s] THEN since[s] ELSE event
    BY <1>0, <1>6 DEF SubscribeSet
  <2> HIDE DEF s
  <2>2. \A r \in Sids : r >= id' => ~subscribed'[r]
    BY <1>0, <2>1 DEF CompleteInv
  <2>3. ASSUME NEW r \in table', subscribed'[r], NEW e \in since'[r] + 1 .. event'
        PROVE  \/ e \in queued'[r] \union lost'[r]
               \/ e = event' /\ mpc' # "idle" /\ r \in targets'
    <3>1. CASE subscribed[r]
      BY <1>0, <1>1, <2>1, <2>3, <3>1 DEF CompleteInv
    <3>2. CASE ~subscribed[r]
      <4>1. since'[r] = event
        BY <1>0, <2>1, <2>3, <3>2
      <4> QED  BY <1>0, <1>1, <2>3, <4>1
    <3> QED  BY <3>1, <3>2
  <2> QED  BY <2>1, <2>2, <2>3 DEF CompleteInv
<1> QED  BY <1>2, <1>3, <1>4, <1>5, <1>6, ThreadTable

\* The event thread keeps it: the snapshot holds every session of the table
\* and a session leaves it unsubscribed, or with the event queued or lost.
LEMMA MuxComplete ==
  ASSUME TypeInv, CompleteInv, Mux
  PROVE  CompleteInv'
<1>0. /\ table \subseteq Sids /\ event \in Nat
      /\ queued \in [Sids -> SUBSET Events] /\ lost \in [Sids -> SUBSET Events]
      /\ since \in [Sids -> {0} \union Events]
  BY ConstantFacts DEF TypeInv, TypeOK
<1>1. id' = id /\ table' = table /\ subscribed' = subscribed /\ since' = since
  BY DEF Mux, ProcessEvent, MuxCheck, MuxQueue, sessionVars, history
<1>2. SUFFICES ASSUME NEW r \in table, subscribed[r], NEW e \in since[r] + 1 .. event'
               PROVE  \/ e \in queued'[r] \union lost'[r]
                      \/ e = event' /\ mpc' # "idle" /\ r \in targets'
  BY <1>1 DEF CompleteInv
<1>3. CASE ProcessEvent
  <2>1. /\ mpc = "idle" /\ event' = event + 1 /\ targets' = table /\ mpc' # "idle"
        /\ queued' = queued /\ lost' = lost
    BY <1>3 DEF ProcessEvent, history
  <2>2. since[r] \in Nat
    BY <1>0, EventIsNat
  <2>3. e \in since[r] + 1 .. event \/ e = event'
    BY <1>0, <2>1, <2>2
  <2> QED  BY <1>2, <2>1, <2>3 DEF CompleteInv
<1>4. ASSUME NEW s \in Sids, MuxCheck(s)
      PROVE  \/ e \in queued'[r] \union lost'[r]
             \/ e = event' /\ mpc' # "idle" /\ r \in targets'
  <2>1. event' = event /\ queued' = queued /\ lost' = lost
    BY <1>4 DEF MuxCheck, history
  <2>2. r \in targets => mpc' # "idle" /\ r \in targets'
    BY <1>2, <1>4 DEF MuxCheck, NextTarget
  <2> QED  BY <1>2, <2>1, <2>2 DEF CompleteInv
<1>5. ASSUME NEW s \in Sids, MuxQueue(s)
      PROVE  \/ e \in queued'[r] \union lost'[r]
             \/ e = event' /\ mpc' # "idle" /\ r \in targets'
  <2>1. /\ event' = event /\ queued[r] \subseteq queued'[r] /\ lost[r] \subseteq lost'[r]
    BY <1>0, <1>5 DEF MuxQueue
  <2>2. r # s /\ r \in targets => mpc' # "idle" /\ r \in targets'
    BY <1>5 DEF MuxQueue, NextTarget
  <2>3. r = s => event \in queued'[r] \union lost'[r]
    BY <1>0, <1>5 DEF MuxQueue
  <2> QED  BY <1>2, <2>1, <2>2, <2>3 DEF CompleteInv
<1> QED  BY <1>3, <1>4, <1>5 DEF Mux

\* A stuttering step keeps it.
LEMMA StutterComplete == CompleteInv /\ UNCHANGED vars => CompleteInv'
BY DEF CompleteInv, vars, sessionVars, muxVars, history

\* An event processed while a session was subscribed reaches its queue, or
\* is refused there by a full queue.
THEOREM DeliveryComplete == Spec => []CompleteDelivery
<1>1. TypeInv /\ CompleteInv /\ [Next]_vars => (TypeInv /\ CompleteInv)'
  BY CallType, StepType, MuxType, StutterType, ThreadComplete, MuxComplete, StutterComplete DEF Next
<1>2. CompleteInv => CompleteDelivery
  BY DEF CompleteInv, CompleteDelivery, Settled
<1> QED  BY InitType, InitComplete, <1>1, <1>2, PTL DEF Spec
----------------------------------------------------------------------------
(* Session implements Stream.                                              *)

\* At first no session was opened and nothing was published.
LEMMA InitStream == Init => Abstract!Init
<1> SUFFICES ASSUME Init
             PROVE  Abstract!Init
  OBVIOUS
<1>1. \A s \in Sids : s \notin table /\ ~(s < id)
  BY DEF Init, Sids
<1>2. Life = [s \in Sids |-> "unborn"]
  BY <1>1 DEF Life
<1> QED  BY <1>2 DEF Init, Abstract!Init

\* saHpiSessionOpen opens a session with a new id, and the ids below it were
\* given out before.
LEMMA OpenStream ==
  ASSUME TypeInv, CompleteInv, NEW t \in Threads, SessionOpen(t)
  PROVE  Abstract!Open(id)
<1>0. /\ id \in Sids /\ id \in Nat /\ Sids \subseteq Nat
      /\ id' = id + 1 /\ table' = table \union {id} /\ table \subseteq Sids
      /\ UNCHANGED <<eventq, popped, event>>
  BY ConstantFacts DEF SessionOpen, muxVars, history, TypeInv, TypeOK
<1>1. id \notin table /\ \A s \in table : s < id
  BY <1>0 DEF CompleteInv
<1>2. \A s \in Sids : s # id => (s < id' <=> s < id)
  BY <1>0
<1>3. Life[id] = "unborn"
  BY <1>0, <1>1 DEF Life
<1>4. \A r \in Sids : r < id => Life[r] # "unborn"
  BY DEF Life
<1>5. Life' = [Life EXCEPT ![id] = "open"]
  BY <1>0, <1>2 DEF Life
<1> QED  BY <1>0, <1>3, <1>4, <1>5 DEF Abstract!Open

\* saHpiSessionClose closes an open session.
LEMMA CloseStream ==
  ASSUME TypeInv, CompleteInv, NEW t \in Threads, NEW s \in Sids, SessionClose(t, s)
  PROVE  Abstract!Close(s)
<1>0. /\ s \in table /\ id' = id /\ table' = table \ {s}
      /\ UNCHANGED <<eventq, popped, event>>
  BY DEF SessionClose, muxVars
<1>1. s < id
  BY <1>0 DEF CompleteInv
<1>2. Life[s] = "open"
  BY <1>0 DEF Life
<1>3. Life' = [Life EXCEPT ![s] = "closed"]
  BY <1>0, <1>1 DEF Life
<1> QED  BY <1>0, <1>2, <1>3 DEF Abstract!Close

\* Whatever else a service thread does lets at most one event out.
LEMMA PopStream ==
  ASSUME TypeInv, NEW t \in Threads, Call(t) \/ Step(t),
         ~SessionOpen(t), \A s \in Sids : ~SessionClose(t, s)
  PROVE  Abstract!LetOut(th[t].sid) \/ UNCHANGED Abstract!vars
<1>0. th[t].sid \in Sids
  BY DEF TypeInv, TypeOK, ThreadState
<1>1. id' = id /\ table' = table /\ event' = event
  BY DEF Call, Step, SubscribeCheck, UnsubscribeCheck, EventGet, FinalizeLength, Drain,
     FinalizeUnref, SubscribeSet, UnsubscribeSet, Dequeue, TryPop, TimedPop, Wake, Recheck,
     EventGetReturn, sessionVars, muxVars
<1>2. Life' = Life
  BY <1>1 DEF Life
<1>3. \/ eventq' = eventq /\ popped' = popped
      \/ Pop(th[t].sid)
  BY DEF Call, Step, SubscribeCheck, UnsubscribeCheck, EventGet, FinalizeLength, Drain,
     FinalizeUnref, SubscribeSet, UnsubscribeSet, Dequeue, TryPop, TimedPop, Wake, Recheck,
     EventGetReturn, sessionVars, history
<1>4. \/ eventq' = eventq /\ popped' = popped
      \/ /\ eventq[th[t].sid] # <<>>
         /\ eventq' = [eventq EXCEPT ![th[t].sid] = Tail(@)]
         /\ popped' = [popped EXCEPT ![th[t].sid] = Head(eventq[th[t].sid])]
  BY <1>3 DEF Pop
<1> QED  BY <1>1, <1>2, <1>4 DEF Abstract!LetOut, Abstract!vars

\* A queue that oh_queue_session_event finds not full has room: at most all
\* threads wait on it.
LEMMA RoomLeft ==
  ASSUME TypeInv, NEW s \in Sids, ~QueueFull(s)
  PROVE  Len(eventq[s]) < Room
<1>1. Waiters(s) \subseteq Threads
  BY DEF Waiters
<1>2. /\ Cardinality(Waiters(s)) <= Cardinality(Threads)
      /\ Cardinality(Threads) \in Nat
  BY <1>1, ThreadsAssumption, FS_Subset, FS_CardinalityType
<1>3. Cardinality(Waiters(s)) \in Nat
  BY WaitersFinite
<1>4. Len(eventq[s]) \in Nat /\ Limit \in Nat
  BY LengthType, BoundsAssumption DEF TypeInv
<1>5. ~(Len(eventq[s]) - Cardinality(Waiters(s)) > 0 /\ Len(eventq[s]) - Cardinality(Waiters(s)) >= Limit)
  BY DEF QueueFull, QueueLength
<1>6. \A l, w, n, m \in Nat : ~(l - w > 0 /\ l - w >= m) /\ w <= n => l < (IF m = 0 THEN 1 ELSE m) + n
  OBVIOUS
<1>7. Len(eventq[s]) < (IF Limit = 0 THEN 1 ELSE Limit) + Cardinality(Threads)
  BY <1>2, <1>3, <1>4, <1>5, <1>6
<1> QED  BY <1>7 DEF Room

\* The event thread publishes an event, hands it to an open session that has
\* not seen it and has room, or does nothing the abstract stream can see.
LEMMA MuxStream ==
  ASSUME TypeInv, OrderInv, CompleteInv, Mux
  PROVE  Abstract!Next \/ UNCHANGED Abstract!vars
<1>0. /\ id' = id /\ table' = table /\ popped' = popped
  BY DEF Mux, ProcessEvent, MuxCheck, MuxQueue, sessionVars, history
<1>1. Life' = Life
  BY <1>0 DEF Life
<1>2. CASE ProcessEvent
  <2>1. event \in Nat
    BY EventIsNat DEF TypeInv, TypeOK
  <2>2. event + 1 \in Events /\ event' = event + 1 /\ eventq' = eventq
    BY <1>2, <2>1, ConstantFacts DEF ProcessEvent, sessionVars
  <2>3. Abstract!Publish
    BY <1>0, <1>1, <2>2 DEF Abstract!Publish
  <2> QED  BY <2>3 DEF Abstract!Next
<1>3. ASSUME NEW s \in Sids, MuxCheck(s)
      PROVE  UNCHANGED Abstract!vars
  <2>1. event' = event /\ eventq' = eventq
    BY <1>3 DEF MuxCheck, sessionVars
  <2> QED  BY <1>0, <1>1, <2>1 DEF Abstract!vars
<1>4. ASSUME NEW s \in Sids, MuxQueue(s)
      PROVE  Abstract!Next \/ UNCHANGED Abstract!vars
  <2>1. event' = event /\ mpc = "queue" /\ s \in targets
    BY <1>4 DEF MuxQueue, Current
  <2>2. CASE eventq' = eventq
    BY <1>0, <1>1, <2>1, <2>2 DEF Abstract!vars
  <2>3. CASE s \in table /\ ~QueueFull(s)
    <3>1. eventq' = [eventq EXCEPT ![s] = Append(@, event)]
      BY <1>4, <2>3 DEF MuxQueue, Push
    <3>2. Life[s] = "open"
      BY <2>3 DEF Life
    <3>3. event \in Events /\ event \in Nat /\ eventq[s] \in Seq(Events)
      BY <2>1, ConstantFacts DEF TypeInv, TypeOK
    <3>4. Below(s, event)
      BY <2>1 DEF OrderInv
    <3>5. popped[s] < event /\ \A i \in 1 .. Len(eventq[s]) : eventq[s][i] < event
      BY <3>4 DEF Below
    <3>6. \A i \in 1 .. Len(eventq[s]) : eventq[s][i] # event
      BY <3>3, <3>5
    <3>7. Len(eventq[s]) < Room
      BY <2>3, RoomLeft
    <3>8. Abstract!Fresh(s)
      BY <3>5, <3>6 DEF Abstract!Fresh
    <3>9. Abstract!TakeIn(s)
      BY <1>0, <1>1, <2>1, <3>1, <3>2, <3>3, <3>7, <3>8 DEF Abstract!TakeIn
    <3> QED  BY <3>9 DEF Abstract!Next
  <2> QED  BY <1>4, <2>2, <2>3 DEF MuxQueue
<1> QED  BY <1>2, <1>3, <1>4 DEF Mux

\* session.c and event.c implement the abstract event streams: with any
\* number of threads, every step of the daemon is a step of Stream or is
\* invisible to it.
THEOREM SessionImplementsStream == Spec => ImplementsStream
<1>1. TypeInv /\ OrderInv /\ CompleteInv /\ [Next]_vars
        => (TypeInv /\ OrderInv /\ CompleteInv)'
  BY CallType, StepType, MuxType, StutterType, ThreadOrder, MuxOrder, StutterOrder,
     ThreadComplete, MuxComplete, StutterComplete DEF Next
<1>2. ASSUME TypeInv, OrderInv, CompleteInv, [Next]_vars
      PROVE  [Abstract!Next]_(Abstract!vars)
  <2>1. ASSUME NEW t \in Threads, Call(t) \/ Step(t)
        PROVE  Abstract!Next \/ UNCHANGED Abstract!vars
    <3>1. CASE SessionOpen(t)
      <4>1. id \in Sids
        BY <3>1 DEF SessionOpen
      <4> QED  BY <1>2, <3>1, <4>1, OpenStream DEF Abstract!Next
    <3>2. ASSUME NEW s \in Sids, SessionClose(t, s)
          PROVE  Abstract!Next
      BY <1>2, <3>2, CloseStream DEF Abstract!Next
    <3>3. CASE ~SessionOpen(t) /\ \A s \in Sids : ~SessionClose(t, s)
      <4>1. th[t].sid \in Sids
        BY <1>2 DEF TypeInv, TypeOK, ThreadState
      <4> QED  BY <1>2, <2>1, <3>3, <4>1, PopStream DEF Abstract!Next
    <3> QED  BY <3>1, <3>2, <3>3
  <2>2. CASE Mux
    BY <1>2, <2>2, MuxStream
  <2>3. CASE UNCHANGED vars
    BY <2>3 DEF vars, sessionVars, muxVars, history, Life, Abstract!vars
  <2> QED  BY <1>2, <2>1, <2>2, <2>3 DEF Next
<1> QED
  BY InitType, InitOrder, InitComplete, InitStream, <1>1, <1>2, PTL
     DEF Spec, ImplementsStream, Abstract!Spec
=============================================================================
