--------------------------- MODULE ThreadedProofs ---------------------------
(***************************************************************************)
(* Safety of the background threads for any set of callers and any number  *)
(* of calls, timeouts and spurious wake-ups: a caller whose wait nothing   *)
(* ended early has seen a whole discovery round, and nothing is freed      *)
(* while it is in use.                                                     *)
(***************************************************************************)
EXTENDS Threaded, TLAPS

\* The main thread leaves its serving state only after the last caller, and
\* a freed loop has ended.
StopInv ==
  /\ main # "serve" => \A c \in Callers : caller[c] = "idle"
  /\ main # "serve" => stop
  /\ \A l \in freed : loop[l] = "done"
  /\ freed # {} => main # "serve"

\* What a caller that nobody disturbs has seen, wherever it is: the round it
\* waits for is begun exactly while the discovery thread is in it.
CallerInv ==
  \A c \in Callers : ~crowded[c] /\ ~startled[c] =>
    /\ caller[c] = "lock" => served[c] = "none"
    /\ caller[c] = "wait" =>
         served[c] = (IF loop["discovery"] = "round" THEN "begun" ELSE "none")
    /\ caller[c] \in {"idle", "woken"} => served[c] = "whole"

IInv == TypeOK /\ StopInv /\ CallerInv

\* The two loops and the main thread's joins.
LEMMA LoopsFact ==
  /\ Loops = {"discovery", "evtget"} /\ "discovery" \in Loops /\ "evtget" \in Loops
  /\ JoinOf["discovery"] = "joindiscovery" /\ JoinOf["evtget"] = "joinevtget"
BY DEF Loops, JoinOf

\* The invariant holds at first.
LEMMA InitInv == Init => IInv
<1> SUFFICES ASSUME Init
             PROVE  IInv
  OBVIOUS
<1> USE ThreadedAssumption, LoopsFact DEF Init
<1>1. TypeOK
  <2>1. evtpop \in BOOLEAN /\ signal_stop \in BOOLEAN /\ stop \in BOOLEAN
    OBVIOUS
  <2>2. crowded \in [Callers -> BOOLEAN] /\ startled \in [Callers -> BOOLEAN]
    OBVIOUS
  <2>3. /\ calls \in [Callers -> 0 .. MaxCalls]
        /\ timeouts \in 0 .. MaxTimeouts /\ spurious \in 0 .. MaxSpurious
    OBVIOUS
  <2> QED  BY <2>1, <2>2, <2>3 DEF TypeOK
<1>2. StopInv
  BY DEF StopInv
<1>3. CallerInv
  BY DEF CallerInv
<1> QED  BY <1>1, <1>2, <1>3 DEF IInv

\* Every step keeps the types.
LEMMA TypeStep == TypeOK /\ StopInv /\ [Next]_vars => TypeOK'
<1> SUFFICES ASSUME TypeOK, StopInv, [Next]_vars
             PROVE  TypeOK'
  OBVIOUS
<1> USE ThreadedAssumption, LoopsFact DEF TypeOK, stopVars, bounds, history
<1>1. ASSUME NEW l \in Loops, Enter(l)
      PROVE  TypeOK'
  BY <1>1 DEF Enter, WakeCallers, Advance
<1>2. ASSUME NEW l \in Loops, RoundEnd(l)
      PROVE  TypeOK'
  BY <1>2 DEF RoundEnd, WakeCallers, Advance
<1>3. ASSUME NEW l \in Loops, Check(l) \/ Sleep(l) \/ Timeout(l)
      PROVE  TypeOK'
  <2>1. CASE Check(l)
    BY <2>1 DEF Check, WakeCallers
  <2>2. CASE Sleep(l)
    BY <2>2 DEF Sleep
  <2>3. CASE Timeout(l)
    BY <2>3 DEF Timeout, WakeLoop
  <2> QED  BY <1>3, <2>1, <2>2, <2>3
<1>4. ASSUME NEW c \in Callers, Call(c)
      PROVE  TypeOK'
  BY <1>4 DEF Call
<1>5. ASSUME NEW c \in Callers, Wake(c)
      PROVE  TypeOK'
  BY <1>5 DEF Wake, WakeCallers, WakeLoop
<1>6. ASSUME NEW c \in Callers, Return(c)
      PROVE  TypeOK'
  BY <1>6 DEF Return
<1>7. ASSUME EvtPopEnd \/ Signal \/ ThreadedStop \/ JoinPop
      PROVE  TypeOK'
  <2>1. CASE EvtPopEnd
    <3>1. evtpop' \in BOOLEAN
      BY <2>1 DEF EvtPopEnd
    <3> QED  BY <2>1, <3>1 DEF EvtPopEnd
  <2>2. CASE Signal
    <3>1. stop' \in BOOLEAN
      BY <2>2 DEF Signal
    <3> QED  BY <2>2, <3>1 DEF Signal
  <2>3. CASE ThreadedStop
    <3>1. signal_stop' \in BOOLEAN /\ (signal_stop' <=> main' # "serve")
      BY <2>3 DEF ThreadedStop
    <3> QED  BY <2>3, <3>1 DEF ThreadedStop
  <2>4. CASE JoinPop
    BY <2>4 DEF JoinPop
  <2> QED  BY <1>7, <2>1, <2>2, <2>3, <2>4
<1>8. ASSUME NEW l \in Loops, StopLoop(l)
      PROVE  TypeOK'
  BY <1>8 DEF StopLoop, WakeCallers, WakeLoop
<1>9. ASSUME NEW l \in Loops, JoinLoop(l)
      PROVE  TypeOK'
  BY <1>9 DEF JoinLoop
<1>10. ASSUME NEW c \in Callers, Spurious(c)
       PROVE  TypeOK'
  BY <1>10 DEF Spurious
<1>11. CASE UNCHANGED vars
  BY <1>11 DEF vars
<1> QED
  BY <1>1, <1>2, <1>3, <1>4, <1>5, <1>6, <1>7, <1>8, <1>9, <1>10, <1>11
     DEF Next, LoopStep, CallStep, MainStep

\* Every step keeps what the stop sequence relies on.
LEMMA StopStep == TypeOK /\ StopInv /\ [Next]_vars => StopInv'
<1> SUFFICES ASSUME TypeOK, StopInv, [Next]_vars
             PROVE  StopInv'
  OBVIOUS
<1> USE LoopsFact DEF TypeOK, StopInv, stopVars, bounds, history
<1>1. ASSUME NEW l \in Loops, Enter(l) \/ RoundEnd(l) \/ Check(l) \/ Sleep(l) \/ Timeout(l)
      PROVE  StopInv'
  <2>1. \A k \in Loops : loop[k] = "done" => loop'[k] = "done"
    BY <1>1 DEF Enter, RoundEnd, Check, Sleep, Timeout, WakeLoop
  <2>2. \A c \in Callers : caller[c] = "idle" => caller'[c] = "idle"
    BY <1>1 DEF Enter, RoundEnd, Check, Sleep, Timeout, WakeCallers
  <2>3. UNCHANGED <<main, stop, freed>>
    BY <1>1 DEF Enter, RoundEnd, Check, Sleep, Timeout
  <2> QED  BY <2>1, <2>2, <2>3
<1>2. ASSUME NEW c \in Callers, Call(c) \/ Spurious(c) \/ Return(c)
      PROVE  StopInv'
  BY <1>2 DEF Call, Spurious, Return
<1>3. ASSUME NEW c \in Callers, Wake(c)
      PROVE  StopInv'
  BY <1>3 DEF Wake, WakeLoop, WakeCallers
<1>4. ASSUME EvtPopEnd \/ Signal \/ ThreadedStop \/ JoinPop
      PROVE  StopInv'
  BY <1>4 DEF EvtPopEnd, Signal, ThreadedStop, JoinPop
<1>5. ASSUME NEW l \in Loops, StopLoop(l)
      PROVE  StopInv'
  BY <1>5 DEF StopLoop, WakeLoop, WakeCallers
<1>6. ASSUME NEW l \in Loops, JoinLoop(l)
      PROVE  StopInv'
  BY <1>6 DEF JoinLoop
<1>7. CASE UNCHANGED vars
  BY <1>7 DEF vars
<1> QED
  BY <1>1, <1>2, <1>3, <1>4, <1>5, <1>6, <1>7 DEF Next, LoopStep, CallStep, MainStep

\* Every step keeps what undisturbed callers have seen.
LEMMA CallerStep == TypeOK /\ StopInv /\ CallerInv /\ [Next]_vars => CallerInv'
<1> SUFFICES ASSUME TypeOK, StopInv, CallerInv, [Next]_vars
             PROVE  CallerInv'
  OBVIOUS
<1> USE LoopsFact DEF TypeOK, StopInv, CallerInv, stopVars, bounds, history
<1>1. ASSUME NEW l \in Loops, Enter(l)
      PROVE  CallerInv'
  BY <1>1 DEF Enter, WakeCallers, Advance
<1>2. ASSUME NEW l \in Loops, RoundEnd(l)
      PROVE  CallerInv'
  BY <1>2 DEF RoundEnd, WakeCallers, Advance
<1>3. ASSUME NEW l \in Loops, Check(l)
      PROVE  CallerInv'
  BY <1>3 DEF Check, WakeCallers
<1>4. ASSUME NEW l \in Loops, Sleep(l) \/ Timeout(l)
      PROVE  CallerInv'
  BY <1>4 DEF Sleep, Timeout, WakeLoop
<1>5. ASSUME NEW c \in Callers, Call(c) \/ Return(c)
      PROVE  CallerInv'
  BY <1>5 DEF Call, Return
<1>6. ASSUME NEW c \in Callers, Wake(c)
      PROVE  CallerInv'
  BY <1>6 DEF Wake, WakeLoop, WakeCallers, Free
<1>7. ASSUME EvtPopEnd \/ Signal \/ ThreadedStop \/ JoinPop
      PROVE  CallerInv'
  BY <1>7 DEF EvtPopEnd, Signal, ThreadedStop, JoinPop
<1>8. ASSUME NEW l \in Loops, StopLoop(l)
      PROVE  CallerInv'
  BY <1>8 DEF StopLoop, WakeLoop, WakeCallers
<1>9. ASSUME NEW l \in Loops, JoinLoop(l)
      PROVE  CallerInv'
  BY <1>9 DEF JoinLoop
<1>10. ASSUME NEW c \in Callers, Spurious(c)
       PROVE  CallerInv'
  BY <1>10 DEF Spurious
<1>11. CASE UNCHANGED vars
  BY <1>11 DEF vars
<1> QED
  BY <1>1, <1>2, <1>3, <1>4, <1>5, <1>6, <1>7, <1>8, <1>9, <1>10, <1>11
     DEF Next, LoopStep, CallStep, MainStep

\* The invariant is inductive, so it holds always.
LEMMA Inductive == Spec => []IInv
<1>1. IInv /\ [Next]_vars => IInv'
  BY TypeStep, StopStep, CallerStep DEF IInv
<1> QED  BY InitInv, <1>1, PTL DEF Spec

\* Every variable of the background threads stays in its type, and
\* oh_threaded_stop runs with signal_stop set.
THEOREM ThreadedTypeCorrect == Spec => []TypeOK
<1>1. IInv => TypeOK
  BY DEF IInv
<1> QED  BY Inductive, <1>1, PTL

\* oh_threaded_stop frees the mutexes and conditions of threaded.c only when
\* their thread has ended and no saHpiDiscover is left to use them.
THEOREM NothingFreedInUse == Spec => []FreedUnused
<1>1. IInv => FreedUnused
  BY DEF IInv, StopInv, FreedUnused
<1> QED  BY Inductive, <1>1, PTL

\* oh_wake_discovery_thread returns before a whole round only if another
\* caller's broadcast or a spurious wake-up of its own g_cond_wait ended its
\* wait, with any number of callers and of either.
THEOREM UndisturbedWaitsForRound == Spec => []AloneWaitsForRound
<1>1. IInv => AloneWaitsForRound
  BY DEF IInv, CallerInv, AloneWaitsForRound
<1> QED  BY Inductive, <1>1, PTL
=============================================================================
