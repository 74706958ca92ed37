------------------------------ MODULE Handlers ------------------------------
(***************************************************************************)
(* The handler table of the daemon (openhpid/plugin.c) and everybody who   *)
(* works with a handler: the rounds of the discovery and harvest threads   *)
(* (oh_discovery, oh_harvest_events), the HPI calls a service thread       *)
(* forwards to a plugin (sahpimacros.h), saHpiAutoInsertTimeoutSet, the    *)
(* handler calls of ohpi.c, and oh_finit.                                  *)
(*                                                                         *)
(* Three locks matter: the domain's, which most calls hold while they look *)
(* a handler up, the one of each handler, held across a call of its        *)
(* plugin, and oh_handlers.lock, which nobody keeps beyond one step here.  *)
(* Ids are handed out in increasing order and appended, so the list of     *)
(* handlers is the set of its ids in increasing order.                     *)
(***************************************************************************)
EXTENDS Integers, FiniteSets, FiniteSetsExt

CONSTANTS Services,    \* service threads
          Loops,       \* background threads that do rounds
          MaxHandlers, \* bound: handlers ever created
          Initial,     \* handlers of the configuration file
          None         \* no thread

ASSUME HandlersAssumption ==
  /\ MaxHandlers \in Nat /\ Initial \in 0 .. MaxHandlers
  /\ Loops \subseteq {"discovery", "evtget"}
  /\ Loops \intersect Services = {} /\ IsFiniteSet(Services)
  /\ None \notin Loops \union Services

Threads == Loops \union Services
Ids     == 1 .. MaxHandlers

\* What a service thread may be asked for, apart from creating a handler.
Ops == {"call", "timeout", "destroy", "retry", "inject"}

VARIABLES
  handlers,    \* oh_handlers: ids in the list and in the table
  hnd,         \* the instance: none yet, null (open failed), open, closed
  refcount,    \* oh_handler.refcount
  lock,        \* who holds oh_handler.lock
  freed,       \* handlers __delete_handler has freed
  nextid,      \* new_handler's static handler_id
  domain,      \* who holds the domain lock
  pc, cur, op, \* where a thread is, its handler, what it was asked for
  todo,        \* saHpiAutoInsertTimeoutSet: handlers still to be called
  main,        \* serve, close, join or done: the main thread
  signal_stop, \* tells the rounds to end
  owed         \* history: handlers a round has still to meet

table   == <<handlers, hnd, refcount, lock, freed, nextid>>
threads == <<pc, cur, op, todo>>
ending  == <<main, signal_stop>>
vars    == <<table, domain, threads, ending, owed>>

\* oh_init has created the handlers of the configuration file; some may have
\* failed to open.
Init ==
  /\ handlers = 1 .. Initial
  /\ hnd \in {f \in [Ids -> {"none", "null", "open"}] :
                \A h \in Ids : f[h] = "none" <=> h > Initial}
  /\ refcount = [h \in Ids |-> 0]
  /\ lock = [h \in Ids |-> None]
  /\ freed = {}
  /\ nextid = Initial + 1
  /\ domain = None
  /\ pc = [t \in Threads |-> "idle"]
  /\ cur = [t \in Threads |-> 0]
  /\ op = [s \in Services |-> "call"]
  /\ todo = [s \in Services |-> {}]
  /\ main = "serve"
  /\ signal_stop = FALSE
  /\ owed = [l \in Loops |-> {}]

Go(t, where) == pc' = [pc EXCEPT ![t] = where]

\* A service thread is done with its request.
Finish(s) ==
  /\ pc' = [pc EXCEPT ![s] = "idle"]
  /\ cur' = [cur EXCEPT ![s] = 0]
  /\ op' = [op EXCEPT ![s] = "call"]
  /\ todo' = [todo EXCEPT ![s] = {}]

\* A call that lets go of the domain, or never had it.
LeaveDomain(t) == domain' = IF domain = t THEN None ELSE domain

----------------------------------------------------------------------------
(* oh_get_handler and oh_release_handler. *)

\* The handler is in the table: count the reference, then wait for its lock.
Get(t) ==
  /\ cur[t] \in handlers
  /\ Go(t, "wait")
  /\ refcount' = [refcount EXCEPT ![cur[t]] = @ + 1]

\* Its lock is free, or becomes so, and is taken.
Lock(t) ==
  /\ pc[t] = "wait"
  /\ lock[cur[t]] = None
  /\ lock' = [lock EXCEPT ![cur[t]] = t]
  /\ UNCHANGED <<handlers, refcount, freed, nextid>>

\* Give up a reference: the last one of a destroyed handler frees it, any
\* other unlocks it.
Drop(h, n) ==
  /\ refcount' = [refcount EXCEPT ![h] = @ - n]
  /\ freed' = IF refcount[h] - n < 0 THEN freed \union {h} ELSE freed
  /\ lock' = [lock EXCEPT ![h] = None]
  /\ UNCHANGED <<handlers, hnd, nextid>>

----------------------------------------------------------------------------
(* oh_discovery and oh_harvest_events: a round over the handlers. *)

\* oh_getnext_handler_id: the first one, the one after h, or 0 when h is the
\* last one or has left the table.
NextId(h) ==
  LET after == {i \in handlers : i > h}
  IN  IF h \notin handlers \union {0} \/ after = {} THEN 0 ELSE Min(after)

\* Go on with the handler after h.
RoundTo(l, h) ==
  /\ cur' = [cur EXCEPT ![l] = NextId(h)]
  /\ Go(l, IF NextId(h) = 0 THEN "idle" ELSE "get")

RoundBegin(l) ==
  /\ pc[l] = "idle"
  /\ ~signal_stop
  /\ RoundTo(l, 0)
  /\ owed' = [owed EXCEPT ![l] = handlers]
  /\ UNCHANGED <<table, domain, op, todo, ending>>

\* The round ends when the daemon stops, which forgives it the rest, or when
\* its handler has gone meanwhile.
RoundGet(l) ==
  /\ pc[l] = "get"
  /\ IF signal_stop \/ cur[l] \notin handlers
     THEN /\ Go(l, "idle")
          /\ cur' = [cur EXCEPT ![l] = 0]
          /\ UNCHANGED refcount
     ELSE Get(l) /\ UNCHANGED cur
  /\ owed' = [owed EXCEPT ![l] = IF signal_stop THEN {} ELSE @]
  /\ UNCHANGED <<handlers, hnd, lock, freed, nextid, domain, op, todo, ending>>

\* Mutant: a handler that never opened ends the round.
RoundCallBreak(l) ==
  /\ Lock(l)
  /\ Go(l, IF hnd[cur[l]] = "null" THEN "idle" ELSE "abi")
  /\ owed' = [owed EXCEPT ![l] = @ \ {cur[l]}]
  /\ UNCHANGED <<hnd, domain, cur, op, todo, ending>>

\* A handler that never opened is met and not called.
RoundCall(l) ==
  /\ Lock(l)
  /\ Go(l, IF hnd[cur[l]] = "null" THEN "release" ELSE "abi")
  /\ owed' = [owed EXCEPT ![l] = @ \ {cur[l]}]
  /\ UNCHANGED <<hnd, domain, cur, op, todo, ending>>

\* The plugin returns.
RoundRelease(l) ==
  /\ pc[l] \in {"abi", "release"}
  /\ Drop(cur[l], 1)
  /\ Go(l, "next")
  /\ UNCHANGED <<domain, cur, op, todo, ending, owed>>

RoundNext(l) ==
  /\ pc[l] = "next"
  /\ RoundTo(l, cur[l])
  /\ UNCHANGED <<table, domain, op, todo, ending, owed>>

----------------------------------------------------------------------------
(* Service threads. *)

\* Handlers that ever opened: resources in the RPT come from them, and may
\* stay there after the handler is gone.
Opened == {h \in Ids : hnd[h] \in {"open", "closed"}}

\* A request: HPI calls name a resource, the calls of ohpi.c any handler.
Request(s, o, h) ==
  /\ main = "serve"
  /\ pc[s] = "idle"
  /\ o \in {"call", "timeout"} => h \in Opened
  /\ op' = [op EXCEPT ![s] = o]
  /\ cur' = [cur EXCEPT ![s] = h]
  /\ Go(s, "domain")
  /\ UNCHANGED <<table, domain, todo, ending, owed>>

\* Mutant: no call keeps the domain locked while it looks its handler up.
TakeDomainBriefly(s) ==
  /\ pc[s] = "domain"
  /\ domain = None
  /\ Go(s, "get")
  /\ UNCHANGED <<table, domain, cur, op, todo, ending, owed>>

\* The domain is locked.  saHpiAutoInsertTimeoutSet collects the handlers of
\* all resources in the RPT, the one of this request among them, and unlocks
\* the domain again.
TakeDomain(s) ==
  /\ pc[s] = "domain"
  /\ domain = None
  /\ IF op[s] = "timeout"
     THEN /\ \E hids \in SUBSET Opened :
               cur[s] \in hids /\ todo' = [todo EXCEPT ![s] = hids \ {cur[s]}]
          /\ UNCHANGED domain
     ELSE domain' = s /\ UNCHANGED todo
  /\ Go(s, "get")
  /\ UNCHANGED <<table, cur, op, ending, owed>>

\* The handler may have gone: the call fails.
ServiceGet(s) ==
  /\ pc[s] = "get"
  /\ \/ Get(s) /\ UNCHANGED <<domain, cur, op, todo>>
     \/ cur[s] \notin handlers /\ Finish(s) /\ LeaveDomain(s) /\ UNCHANGED refcount
  /\ UNCHANGED <<handlers, hnd, lock, freed, nextid, ending, owed>>

\* OH_HANDLER_GET, then OH_CALL_ABI without the domain.
HpiCall(s) ==
  /\ op[s] = "call"
  /\ Lock(s)
  /\ Go(s, IF hnd[cur[s]] = "null" THEN "release" ELSE "abi")
  /\ LeaveDomain(s)
  /\ UNCHANGED <<hnd, cur, op, todo, ending, owed>>

\* saHpiAutoInsertTimeoutSet gives up at a handler that is not open, and
\* keeps its lock.
TimeoutCall(s) ==
  /\ op[s] = "timeout"
  /\ Lock(s)
  /\ IF hnd[cur[s]] = "null"
     THEN Finish(s)
     ELSE Go(s, "abi") /\ UNCHANGED <<cur, op, todo>>
  /\ UNCHANGED <<hnd, domain, ending, owed>>

\* oHpiInjectEvent calls the plugin whether the handler opened or not.
InjectEvent(s) ==
  /\ op[s] = "inject"
  /\ Lock(s)
  /\ Go(s, "abi")
  /\ UNCHANGED <<hnd, domain, cur, op, todo, ending, owed>>

\* Mutant: the early return for a running handler does not release it.
HandlerRetryKeep(s) ==
  /\ op[s] = "retry"
  /\ Lock(s)
  /\ IF hnd[cur[s]] = "null"
     THEN Go(s, "release") /\ UNCHANGED <<domain, cur, op, todo>>
     ELSE Finish(s) /\ LeaveDomain(s)
  /\ UNCHANGED <<hnd, ending, owed>>

\* oHpiHandlerRetry opens a handler that failed to open; it may fail again.
HandlerRetry(s) ==
  /\ op[s] = "retry"
  /\ Lock(s)
  /\ \/ hnd[cur[s]] = "null" /\ hnd' = [hnd EXCEPT ![cur[s]] = "open"]
     \/ UNCHANGED hnd
  /\ Go(s, "release")
  /\ UNCHANGED <<domain, cur, op, todo, ending, owed>>

\* The plugin returns: oh_release_handler, oh_release_domain.  saHpiAutoInsertTimeoutSet goes on
\* with its next handler unless the plugin reported an error.
ServiceRelease(s) ==
  /\ pc[s] \in {"abi", "release"}
  /\ Drop(cur[s], 1)
  /\ \/ /\ op[s] = "timeout"
        /\ \E h \in todo[s] :
             /\ cur' = [cur EXCEPT ![s] = h]
             /\ todo' = [todo EXCEPT ![s] = @ \ {h}]
        /\ Go(s, "get")
        /\ UNCHANGED op
     \/ Finish(s)
  /\ LeaveDomain(s)
  /\ UNCHANGED <<ending, owed>>

\* oHpiHandlerCreate: the new handler is listed and opened in one step of
\* oh_handlers.lock, with the domain locked.
HandlerCreate(s) ==
  /\ main = "serve"
  /\ pc[s] = "idle"
  /\ domain = None
  /\ nextid <= MaxHandlers
  /\ nextid' = nextid + 1
  /\ handlers' = handlers \union {nextid}
  /\ \E r \in {"open", "null"} : hnd' = [hnd EXCEPT ![nextid] = r]
  /\ UNCHANGED <<refcount, lock, freed, domain, threads, ending, owed>>

----------------------------------------------------------------------------
(* oHpiHandlerDestroy, all of it with the domain locked. *)

DestroyClose(s) ==
  /\ op[s] = "destroy"
  /\ Lock(s)
  /\ hnd' = [hnd EXCEPT ![cur[s]] = IF @ = "open" THEN "closed" ELSE @]
  /\ Go(s, "remove")
  /\ UNCHANGED <<domain, cur, op, todo, ending, owed>>

\* A round that is at the handler loses its place and is forgiven the rest.
DestroyRemove(s) ==
  /\ pc[s] = "remove"
  /\ handlers' = handlers \ {cur[s]}
  /\ owed' = [l \in Loops |-> IF cur[l] = cur[s] THEN {} ELSE owed[l] \ {cur[s]}]
  /\ Go(s, "drop")
  /\ UNCHANGED <<hnd, refcount, lock, freed, nextid, domain, cur, op, todo, ending>>

\* Mutant: only the caller's own reference is dropped.
DestroyDropOne(h) == Drop(h, 1)

\* One reference is the caller's.  When others remain a second one, which the
\* handler itself stands for, goes too: the last of the others frees it.
DestroyDropRefs(h) ==
  /\ refcount' = [refcount EXCEPT ![h] = IF @ - 1 < 1 THEN @ - 1 ELSE @ - 2]
  /\ freed' = IF refcount[h] - 1 < 1 THEN freed \union {h} ELSE freed
  /\ lock' = [lock EXCEPT ![h] = None]
  /\ UNCHANGED <<handlers, hnd, nextid>>

\* The resources of the handler are posted as removed (see Domain).
DestroyDrop(s) ==
  /\ pc[s] = "drop"
  /\ DestroyDropRefs(cur[s])
  /\ Finish(s)
  /\ LeaveDomain(s)
  /\ UNCHANGED <<ending, owed>>

----------------------------------------------------------------------------
(* oh_finit. *)

\* oh_server_run has returned and with it every request.
Stop ==
  /\ main = "serve"
  /\ \A s \in Services : pc[s] = "idle"
  /\ main' = "close"
  /\ UNCHANGED <<table, domain, threads, signal_stop, owed>>

\* oh_close_handlers, with oh_handlers.lock and no handler's.
CloseHandlers ==
  /\ main = "close"
  /\ hnd' = [h \in Ids |-> IF h \in handlers /\ hnd[h] = "open" THEN "closed" ELSE hnd[h]]
  /\ main' = "stop"
  /\ UNCHANGED <<handlers, refcount, lock, freed, nextid, domain, threads,
                 signal_stop, owed>>

\* Mutant: the threads are not told to stop.
ThreadedStopSilent ==
  /\ main = "stop"
  /\ main' = "join"
  /\ UNCHANGED <<table, domain, threads, signal_stop, owed>>

\* oh_threaded_stop tells the threads to stop ...
ThreadedStop ==
  /\ main = "stop"
  /\ signal_stop' = TRUE
  /\ main' = "join"
  /\ UNCHANGED <<table, domain, threads, owed>>

\* ... and waits for them (see Threaded); then the tables are destroyed.
Finit ==
  /\ main = "join"
  /\ signal_stop
  /\ \A l \in Loops : pc[l] = "idle"
  /\ main' = "done"
  /\ UNCHANGED <<table, domain, threads, signal_stop, owed>>

----------------------------------------------------------------------------
RoundStep(l) == RoundGet(l) \/ RoundRelease(l) \/ RoundNext(l)
ServiceStep(s) == ServiceGet(s) \/ ServiceRelease(s) \/ DestroyRemove(s) \/ DestroyDrop(s)
ServiceLock(s) ==
  \/ TakeDomain(s)
  \/ HpiCall(s) \/ TimeoutCall(s) \/ InjectEvent(s) \/ HandlerRetry(s) \/ DestroyClose(s)
MainStep == CloseHandlers \/ ThreadedStop \/ Finit

Next ==
  \/ \E l \in Loops : RoundBegin(l) \/ RoundCall(l) \/ RoundStep(l)
  \/ \E s \in Services : ServiceLock(s) \/ ServiceStep(s) \/ HandlerCreate(s)
  \/ \E s \in Services, o \in Ops, h \in Ids : Request(s, o, h)
  \/ Stop \/ MainStep

Spec == Init /\ [][Next]_vars

\* Threads run, plugins return, and a thread that waits for a lock gets it if
\* it is free again and again: the rounds leave seconds between them.
Fairness ==
  /\ \A l \in Loops : SF_vars(RoundCall(l)) /\ WF_vars(RoundStep(l))
  /\ \A s \in Services : SF_vars(ServiceLock(s)) /\ WF_vars(ServiceStep(s))
  /\ WF_vars(MainStep)
FairSpec == Spec /\ Fairness

----------------------------------------------------------------------------
(* Properties. *)

\* Threads that hold a reference of h.
Holders(h) ==
  {t \in Threads : /\ cur[t] = h
                   /\ pc[t] \in {"wait", "abi", "remove", "drop", "release"}}

\* Every variable stays in its type.
TypeOK ==
  /\ handlers \subseteq Ids
  /\ hnd \in [Ids -> {"none", "null", "open", "closed"}]
  /\ refcount \in [Ids -> -1 .. Cardinality(Threads)]
  /\ lock \in [Ids -> Threads \union {None}]
  /\ freed \subseteq Ids
  /\ nextid \in 1 .. MaxHandlers + 1
  /\ domain \in Services \union {None}
  /\ pc \in [Threads -> {"idle", "domain", "get", "wait", "abi", "remove",
                         "drop", "release", "next"}]
  /\ cur \in [Threads -> Ids \union {0}]
  /\ op \in [Services -> Ops]
  /\ todo \in [Services -> SUBSET Ids]
  /\ main \in {"serve", "close", "stop", "join", "done"}
  /\ signal_stop \in BOOLEAN
  /\ owed \in [Loops -> SUBSET Ids]

\* The reference counts of plugin.c are exact: a handler is freed as soon as it
\* is out of the table and unreferenced, and never while somebody waits for
\* its lock or works with it.
FreedWhenUnused ==
  \A h \in 1 .. nextid - 1 :
    h \in freed <=> (h \notin handlers /\ Holders(h) = {})

\* The domain lock keeps a handler's instance open for the calls that look the
\* handler up under it: HPI calls and oHpiInjectEvent never enter a plugin
\* with a closed instance, and HPI calls with none.
CallsMeetOpen ==
  \A s \in Services :
    pc[s] = "abi" => /\ op[s] \in {"call", "inject"} => hnd[cur[s]] # "closed"
                     /\ op[s] \in {"call", "timeout"} => hnd[cur[s]] # "null"

\* A round of oh_discovery or oh_harvest_events meets every handler that was
\* there when it began and still is, whatever is created or destroyed
\* meanwhile, unless its current handler is destroyed or the daemon stops.
RoundComplete ==
  \A l \in Loops : pc[l] = "idle" => owed[l] = {}

\* Every call returns: no order in which threads take the domain and the
\* handlers' locks ends in a deadlock, and no path forgets to unlock.
CallsReturn == \A s \in Services : (pc[s] # "idle") ~> (pc[s] = "idle")

\* A daemon told to stop ends its rounds and its main thread.
FinitCompletes == (main = "close") ~> (main = "done")

\* "Exclusive lock for working with handler" and "These are used to keep the
\* handler from being destroyed while it is being referenced" (struct
\* oh_handler): nobody works with an instance that was closed.
ClosedUnused ==
  \A t \in Threads : pc[t] = "abi" => hnd[cur[t]] # "closed"
=============================================================================
