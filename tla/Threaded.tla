------------------------------ MODULE Threaded ------------------------------
(***************************************************************************)
(* The daemon's background threads (openhpid/threaded.c): the discovery    *)
(* thread and the event harvesting thread sleep on a condition variable    *)
(* between two rounds, saHpiDiscover wakes the first one and waits for a   *)
(* round, and oh_threaded_stop ends all of them when the daemon is told to *)
(* stop (sig_handler and main of openhpid-posix.cpp, oh_finit).            *)
(*                                                                         *)
(* A round runs with the thread's mutex held, which only the timed wait    *)
(* gives up; callers and the main thread hold it within one step.          *)
(* signal_stop is written without any lock.  Either wait may end without   *)
(* a broadcast: a loop's by its timeout, a caller's spuriously, as glib    *)
(* allows any wait on a condition variable to.                             *)
(***************************************************************************)
EXTENDS Integers

CONSTANTS Callers,     \* service threads that call saHpiDiscover
          MaxCalls,    \* bound: calls of each of them
          MaxTimeouts, \* bound: sleeps of a loop that end without a broadcast
          MaxSpurious  \* bound: waits of a caller that end without a broadcast

ASSUME ThreadedAssumption ==
  MaxCalls \in Nat /\ MaxTimeouts \in Nat /\ MaxSpurious \in Nat

Loops == {"discovery", "evtget"}

VARIABLES
  loop,         \* where discovery_func and evtget_func are
  evtpop,       \* is evtpop_func still running?
  caller,       \* where each caller of oh_wake_discovery_thread is
  main,         \* where the main thread is
  signal_stop,  \* tells the loops to end
  stop,         \* the daemon was told to stop: no new requests, quit is posted
  freed,        \* loops whose mutex and condition variable are freed
  calls,        \* how often each caller called
  timeouts,     \* how many sleeps ended by themselves
  spurious,     \* how many waits did
  served,       \* history: the round its last wait has seen: none, begun, whole
  crowded,      \* history: another caller broadcast during its last wait
  startled      \* history: its last wait ended without a broadcast

stopVars == <<evtpop, main, signal_stop, stop, freed>>
bounds   == <<calls, timeouts, spurious>>
history  == <<served, crowded, startled>>
vars     == <<loop, caller, stopVars, bounds, history>>

Init ==
  /\ loop = [l \in Loops |-> "start"]
  /\ evtpop = TRUE
  /\ caller = [c \in Callers |-> "idle"]
  /\ main = "serve"
  /\ signal_stop = FALSE
  /\ stop = FALSE
  /\ freed = {}
  /\ calls = [c \in Callers |-> 0]
  /\ timeouts = 0
  /\ spurious = 0
  /\ served = [c \in Callers |-> "whole"]
  /\ crowded = [c \in Callers |-> FALSE]
  /\ startled = [c \in Callers |-> FALSE]

----------------------------------------------------------------------------
(* Mutexes and condition variables, as glib defines them. *)

\* Mutant: the mutex is not held during a round.
FreeDuringRound(l) == loop[l] \notin {"check", "sleepy"}

\* The mutex of a loop is held from the begin of a round to the next sleep.
Free(l) == loop[l] \notin {"round", "check", "sleepy"}

\* g_cond_broadcast: whoever waits must take the mutex again.
WakeLoop(l) == [loop EXCEPT ![l] = IF @ = "sleep" THEN "woken" ELSE @]
WakeCallers == [c \in Callers |-> IF caller[c] = "wait" THEN "woken" ELSE caller[c]]

----------------------------------------------------------------------------
(* discovery_func and evtget_func. *)

\* What a step of the discovery thread means to those who wait for it.
Advance(from, to) ==
  [c \in Callers |->
     IF caller[c] = "wait" /\ served[c] = from THEN to ELSE served[c]]

\* Take the mutex, at the start or after a sleep, and test the loop condition;
\* a discovery thread that ends tells its callers so.
Enter(l) ==
  /\ loop[l] \in {"start", "woken"}
  /\ Free(l)
  /\ loop' = [loop EXCEPT ![l] = IF signal_stop THEN "done" ELSE "round"]
  /\ caller' = IF l = "discovery" /\ signal_stop THEN WakeCallers ELSE caller
  /\ served' = IF l = "discovery" /\ ~signal_stop THEN Advance("none", "begun")
                                                  ELSE served
  /\ UNCHANGED <<crowded, startled, stopVars, bounds>>

\* Mutant: the end of a round is not announced.
RoundEndSilent(l) ==
  /\ loop[l] = "round"
  /\ loop' = [loop EXCEPT ![l] = "check"]
  /\ served' = IF l = "discovery" THEN Advance("begun", "whole") ELSE served
  /\ UNCHANGED <<caller, crowded, startled, stopVars, bounds>>

\* oh_discovery or oh_harvest_events is over; discovery tells its callers.
RoundEnd(l) ==
  /\ loop[l] = "round"
  /\ loop' = [loop EXCEPT ![l] = "check"]
  /\ IF l = "discovery"
     THEN /\ caller' = WakeCallers
          /\ served' = Advance("begun", "whole")
     ELSE UNCHANGED <<caller, served>>
  /\ UNCHANGED <<crowded, startled, stopVars, bounds>>

\* signal_stop is looked at again; ending broadcasts like Enter does.
Check(l) ==
  /\ loop[l] = "check"
  /\ loop' = [loop EXCEPT ![l] = IF signal_stop THEN "done" ELSE "sleepy"]
  /\ caller' = IF l = "discovery" /\ signal_stop THEN WakeCallers ELSE caller
  /\ UNCHANGED <<stopVars, bounds, history>>

\* The timed wait begins, which gives up the mutex ...
Sleep(l) ==
  /\ loop[l] = "sleepy"
  /\ loop' = [loop EXCEPT ![l] = "sleep"]
  /\ UNCHANGED <<caller, stopVars, bounds, history>>

\* ... and ends by itself, after 180 s or 3 s or, spuriously, before that.
Timeout(l) ==
  /\ loop[l] = "sleep"
  /\ timeouts < MaxTimeouts
  /\ loop' = WakeLoop(l)
  /\ timeouts' = timeouts + 1
  /\ UNCHANGED <<caller, calls, spurious, stopVars, history>>

\* evtpop_func ends when oh_process_events has met the quit event.
EvtPopEnd ==
  /\ evtpop
  /\ stop
  /\ evtpop' = FALSE
  /\ UNCHANGED <<loop, caller, main, signal_stop, stop, freed, bounds, history>>

----------------------------------------------------------------------------
(* oh_wake_discovery_thread. *)

\* A request arrives; started is TRUE as long as requests do.
Call(c) ==
  /\ caller[c] = "idle"
  /\ ~stop
  /\ calls[c] < MaxCalls
  /\ caller' = [caller EXCEPT ![c] = "lock"]
  /\ calls' = [calls EXCEPT ![c] = @ + 1]
  /\ served' = [served EXCEPT ![c] = "none"]
  /\ crowded' = [crowded EXCEPT ![c] = FALSE]
  /\ startled' = [startled EXCEPT ![c] = FALSE]
  /\ UNCHANGED <<loop, timeouts, spurious, stopVars>>

\* Take the mutex, wake the thread, wait.
Wake(c) ==
  /\ caller[c] = "lock"
  /\ Free("discovery")
  /\ loop' = WakeLoop("discovery")
  /\ caller' = [WakeCallers EXCEPT ![c] = "wait"]
  /\ crowded' = [d \in Callers |-> crowded[d] \/ (d # c /\ caller[d] = "wait")]
  /\ UNCHANGED <<served, startled, stopVars, bounds>>

\* g_cond_wait may end without a broadcast: no predicate makes it wait again.
Spurious(c) ==
  /\ caller[c] = "wait"
  /\ spurious < MaxSpurious
  /\ caller' = [caller EXCEPT ![c] = "woken"]
  /\ spurious' = spurious + 1
  /\ startled' = [startled EXCEPT ![c] = TRUE]
  /\ UNCHANGED <<loop, calls, timeouts, served, crowded, stopVars>>

\* The wait is over and the mutex taken again.
Return(c) ==
  /\ caller[c] = "woken"
  /\ Free("discovery")
  /\ caller' = [caller EXCEPT ![c] = "idle"]
  /\ UNCHANGED <<loop, stopVars, bounds, history>>

----------------------------------------------------------------------------
(* Stopping the daemon. *)

\* sig_handler: the quit event is posted, the server stops taking requests.
Signal ==
  /\ ~stop
  /\ stop' = TRUE
  /\ UNCHANGED <<loop, evtpop, caller, main, signal_stop, freed, bounds, history>>

\* Mutant: the thread pool is freed without waiting for its threads.
ThreadedStopEarly ==
  /\ main = "serve"
  /\ stop
  /\ signal_stop' = TRUE
  /\ main' = "joinpop"
  /\ UNCHANGED <<loop, evtpop, caller, stop, freed, bounds, history>>

\* Mutant: signal_stop is not set.
ThreadedStopSilent ==
  /\ main = "serve"
  /\ stop
  /\ \A c \in Callers : caller[c] = "idle"
  /\ main' = "joinpop"
  /\ UNCHANGED <<loop, evtpop, caller, signal_stop, stop, freed, bounds, history>>

\* oh_server_run returns when the service threads have ended; oh_finit calls
\* oh_threaded_stop.
ThreadedStop ==
  /\ main = "serve"
  /\ stop
  /\ \A c \in Callers : caller[c] = "idle"
  /\ signal_stop' = TRUE
  /\ main' = "joinpop"
  /\ UNCHANGED <<loop, evtpop, caller, stop, freed, bounds, history>>

\* g_thread_join(evtpop_thread).
JoinPop ==
  /\ main = "joinpop"
  /\ ~evtpop
  /\ main' = "evtget"
  /\ UNCHANGED <<loop, evtpop, caller, signal_stop, stop, freed, bounds, history>>

JoinOf == [evtget |-> "joinevtget", discovery |-> "joindiscovery"]

\* Mutant: the condition is broadcast without the mutex.
StopLoopUnlocked(l) ==
  /\ main = l
  /\ loop' = WakeLoop(l)
  /\ caller' = IF l = "discovery" THEN WakeCallers ELSE caller
  /\ main' = JoinOf[l]
  /\ UNCHANGED <<evtpop, signal_stop, stop, freed, bounds, history>>

\* Broadcast to the loop with its mutex held.
StopLoop(l) ==
  /\ main = l
  /\ Free(l)
  /\ loop' = WakeLoop(l)
  /\ caller' = IF l = "discovery" THEN WakeCallers ELSE caller
  /\ main' = JoinOf[l]
  /\ UNCHANGED <<evtpop, signal_stop, stop, freed, bounds, history>>

\* Join it, free its mutex and condition variable, go on to the next.
JoinLoop(l) ==
  /\ main = JoinOf[l]
  /\ loop[l] = "done"
  /\ freed' = freed \union {l}
  /\ main' = IF l = "evtget" THEN "discovery" ELSE "done"
  /\ UNCHANGED <<loop, evtpop, caller, signal_stop, stop, bounds, history>>

----------------------------------------------------------------------------
LoopStep(l) == Enter(l) \/ RoundEnd(l) \/ Check(l) \/ Sleep(l)
CallStep(c) == Wake(c) \/ Return(c)
MainStep ==
  \/ ThreadedStop \/ JoinPop
  \/ \E l \in Loops : StopLoop(l) \/ JoinLoop(l)

Next ==
  \/ \E l \in Loops : LoopStep(l) \/ Timeout(l)
  \/ \E c \in Callers : Call(c) \/ Spurious(c) \/ CallStep(c)
  \/ EvtPopEnd \/ Signal \/ MainStep

Spec == Init /\ [][Next]_vars

\* Threads run and rounds end.  No timeout and no spurious wake-up is owed to
\* anybody: what must happen is brought about by broadcasts alone.
Fairness ==
  /\ \A l \in Loops : WF_vars(LoopStep(l))
  /\ \A c \in Callers : WF_vars(CallStep(c))
  /\ WF_vars(EvtPopEnd)
  /\ WF_vars(MainStep)
FairSpec == Spec /\ Fairness

----------------------------------------------------------------------------
(* Properties. *)

\* Every variable stays in its type, and oh_threaded_stop runs with
\* signal_stop set.
TypeOK ==
  /\ loop \in [Loops -> {"start", "round", "check", "sleepy", "sleep", "woken", "done"}]
  /\ evtpop \in BOOLEAN
  /\ caller \in [Callers -> {"idle", "lock", "wait", "woken"}]
  /\ main \in {"serve", "joinpop", "done"} \union Loops \union {JoinOf[l] : l \in Loops}
  /\ signal_stop \in BOOLEAN /\ stop \in BOOLEAN
  /\ signal_stop <=> main # "serve"
  /\ freed \subseteq Loops
  /\ calls \in [Callers -> 0 .. MaxCalls]
  /\ timeouts \in 0 .. MaxTimeouts /\ spurious \in 0 .. MaxSpurious
  /\ served \in [Callers -> {"none", "begun", "whole"}]
  /\ crowded \in [Callers -> BOOLEAN] /\ startled \in [Callers -> BOOLEAN]

\* The comment of oh_wake_discovery_thread says that the caller waits until the
\* discovery thread does a round.  What is true of it: it returns before a
\* whole round, begun after its broadcast, only if another caller broadcast
\* while it waited or its own wait ended spuriously.  No timeout of the loops, no round that
\* was under way when it was called and no stop of the daemon cuts it short.
AloneWaitsForRound ==
  \A c \in Callers :
    caller[c] = "idle" /\ ~crowded[c] /\ ~startled[c] => served[c] = "whole"

\* oh_threaded_stop frees a mutex and its condition variable only when no
\* thread can use them any more.
FreedUnused ==
  /\ \A l \in freed : loop[l] = "done"
  /\ "discovery" \in freed => \A c \in Callers : caller[c] = "idle"

\* Every saHpiDiscover returns, with the help of no timeout and no spurious
\* wake-up.
CallersReturn ==
  \A c \in Callers : (caller[c] # "idle") ~> (caller[c] = "idle")

\* A daemon told to stop ends all its threads, without any timeout's help: no
\* broadcast of oh_threaded_stop is lost between a test and a sleep.
StopCompletes == stop ~> (main = "done")
=============================================================================
