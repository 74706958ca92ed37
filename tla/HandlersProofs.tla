--------------------------- MODULE HandlersProofs ---------------------------
(***************************************************************************)
(* Proofs about module Handlers, for any number of service threads and     *)
(* handlers, with one or both of the background threads.                   *)
(***************************************************************************)
EXTENDS Handlers, FiniteSetTheorems, WellFoundedInduction, TLAPS

\* Threads are told apart, and can be counted.
LEMMA ConstantFacts ==
  /\ IsFiniteSet(Threads) /\ Cardinality(Threads) \in Nat
  /\ None \notin Threads /\ Loops \subseteq Threads /\ Services \subseteq Threads
  /\ \A l \in Loops : l \notin Services
  /\ Ids \subseteq Nat /\ 0 \notin Ids
  /\ MaxHandlers \in Nat /\ Initial \in Nat /\ Initial <= MaxHandlers
<1>1. IsFiniteSet({"discovery", "evtget"})
  <2>1. IsFiniteSet({"discovery"})
    BY FS_Singleton
  <2>2. {"discovery", "evtget"} = {"discovery"} \union {"evtget"}
    OBVIOUS
  <2> QED  BY <2>1, <2>2, FS_AddElement
<1>2. IsFiniteSet(Loops)
  BY <1>1, FS_Subset, HandlersAssumption
<1>3. IsFiniteSet(Threads)
  BY <1>2, FS_Union, HandlersAssumption DEF Threads
<1>4. Cardinality(Threads) \in Nat
  BY <1>3, FS_CardinalityType
<1>5. /\ None \notin Threads /\ Loops \subseteq Threads /\ Services \subseteq Threads
      /\ \A l \in Loops : l \notin Services
  BY HandlersAssumption DEF Threads
<1>6. /\ Ids \subseteq Nat /\ 0 \notin Ids
      /\ MaxHandlers \in Nat /\ Initial \in Nat /\ Initial <= MaxHandlers
  BY HandlersAssumption DEF Ids
<1> QED  BY <1>3, <1>4, <1>5, <1>6

\* A set of numbers that is not empty has a smallest one.
LEMMA MinExists ==
  ASSUME NEW S \in SUBSET Nat, S # {}
  PROVE  Min(S) \in S /\ \A x \in S : Min(S) <= x
<1> DEFINE R == OpToRel(<, Nat)
<1>1. IsWellFoundedOn(R, Nat)
  BY NatLessThanWellFounded
<1>2. R = {ss \in Nat \X Nat : ss[1] < ss[2]}
  BY DEF OpToRel
<1> HIDE DEF R
<1>3. \E x \in S : \A y \in S : ~ (<<y, x>> \in R)
  BY <1>1, WFMin
<1>4. \A x, y \in Nat : <<y, x>> \in R <=> y < x
  BY <1>2
<1>5. PICK x \in S : \A y \in S : ~ (<<y, x>> \in R)
  BY <1>3
<1>6. \A y \in S : x <= y
  <2> TAKE y \in S
  <2>1. x \in Nat /\ y \in Nat /\ ~(y < x)
    BY <1>4, <1>5
  <2> QED  BY <2>1
<1> QED  BY <1>6 DEF Min

\* The types, with nothing said about how large a reference count becomes.
PCs == {"idle", "domain", "get", "wait", "abi", "remove", "drop", "release", "next"}
TableType ==
  /\ handlers \subseteq Ids
  /\ hnd \in [Ids -> {"none", "null", "open", "closed"}]
  /\ refcount \in [Ids -> Int]
  /\ lock \in [Ids -> Threads \union {None}]
  /\ freed \subseteq Ids
  /\ nextid \in 1 .. MaxHandlers + 1
ThreadType ==
  /\ domain \in Services \union {None}
  /\ pc \in [Threads -> PCs]
  /\ cur \in [Threads -> Ids \union {0}]
  /\ op \in [Services -> Ops]
  /\ todo \in [Services -> SUBSET Ids]
  /\ main \in {"serve", "close", "stop", "join", "done"}
  /\ signal_stop \in BOOLEAN
  /\ owed \in [Loops -> SUBSET Ids]

\* Where a thread has a handler, where it has its lock too, and who may be
\* where: a background thread destroys nothing, a service thread does no
\* round, and no request is open once oh_server_run has returned.
Working == {"abi", "remove", "drop", "release"}
Placed ==
  /\ \A t \in Threads : pc[t] \in {"get", "wait", "next"} \union Working => cur[t] \in Ids
  /\ \A l \in Loops : pc[l] \notin {"domain", "remove", "drop"}
  /\ \A s \in Services : pc[s] # "next" /\ (pc[s] = "domain" => cur[s] \in Ids)
  /\ main # "serve" => \A s \in Services : pc[s] = "idle"

Shape == TableType /\ ThreadType /\ Placed

\* oh_getnext_handler_id returns a handler of the table or 0.
LEMMA NextIdFacts ==
  ASSUME Shape, NEW h \in Ids \union {0}
  PROVE  /\ NextId(h) \in handlers \union {0}
         /\ NextId(h) \in Ids \union {0}
         /\ NextId(h) # 0 => /\ NextId(h) > h
                             /\ \A i \in handlers : i > h => i >= NextId(h)
         /\ NextId(h) = 0 => h \notin handlers \union {0} \/ \A i \in handlers : ~(i > h)
<1> DEFINE after == {i \in handlers : i > h}
<1>1. handlers \subseteq Ids /\ Ids \subseteq Nat /\ after \subseteq handlers /\ 0 \notin Ids
  BY ConstantFacts DEF Shape, TableType
<1>2. after \in SUBSET Nat
  BY <1>1
<1>3. CASE h \notin handlers \union {0} \/ after = {}
  <2>1. NextId(h) = 0
    BY <1>3 DEF NextId
  <2> QED  BY <1>1, <1>3, <2>1
<1>4. CASE h \in handlers \union {0} /\ after # {}
  <2>1. NextId(h) = Min(after)
    BY <1>4 DEF NextId
  <2>2. Min(after) \in after /\ \A x \in after : Min(after) <= x
    BY <1>2, <1>4, MinExists
  <2> HIDE DEF after
  <2> DEFINE m == Min(after)
  <2>3. m \in after /\ \A x \in after : m <= x
    BY <2>2
  <2>4. NextId(h) = m
    BY <2>1
  <2> HIDE DEF m
  <2>5. m \in handlers /\ m > h /\ m # 0 /\ \A i \in handlers : i > h => i \in after
    BY <1>1, <2>3 DEF after
  <2>6. \A i \in handlers : i > h => i >= m
    BY <1>1, <2>3, <2>5
  <2> QED  BY <1>1, <2>4, <2>5, <2>6
<1> QED  BY <1>3, <1>4

\* The initial state.
LEMMA InitShape == Init => Shape
<1> SUFFICES ASSUME Init
             PROVE  Shape
  OBVIOUS
<1>1. 1 .. Initial \subseteq Ids /\ Initial + 1 \in 1 .. MaxHandlers + 1
  BY ConstantFacts DEF Ids
<1>2. TableType
  BY <1>1 DEF Init, TableType
<1>3. ThreadType
  BY DEF Init, ThreadType, PCs, Ops
<1>4. Placed
  BY ConstantFacts DEF Init, Placed, Working
<1> QED  BY <1>2, <1>3, <1>4 DEF Shape

\* Taking a handler's lock.
LEMMA LockShape ==
  ASSUME Shape, NEW t \in Threads, Lock(t)
  PROVE  /\ cur[t] \in Ids /\ lock' \in [Ids -> Threads \union {None}]
         /\ UNCHANGED <<handlers, refcount, freed, nextid>>
BY DEF Shape, Placed, TableType, Lock

\* Giving up a reference.
LEMMA DropShape ==
  ASSUME Shape, NEW h \in Ids, Drop(h, 1) \/ DestroyDropRefs(h)
  PROVE  TableType'
<1>1. refcount[h] - 1 \in Int /\ refcount[h] - 2 \in Int
  BY DEF Shape, TableType
<1>2. refcount' \in [Ids -> Int]
  BY <1>1 DEF Shape, TableType, Drop, DestroyDropRefs
<1> QED  BY <1>2 DEF Shape, TableType, Drop, DestroyDropRefs

\* A background thread keeps the shape.
LEMMA LoopShape ==
  ASSUME Shape, NEW l \in Loops, RoundBegin(l) \/ RoundCall(l) \/ RoundStep(l)
  PROVE  Shape'
<1>0. /\ l \in Threads /\ l \notin Services /\ Loops \subseteq Threads /\ Services \subseteq Threads
      /\ cur[l] \in Ids \union {0} /\ 0 \notin Ids
  BY ConstantFacts DEF Shape, ThreadType
<1>1. CASE RoundBegin(l) \/ RoundNext(l)
  <2>1. PICK h \in Ids \union {0} : RoundTo(l, h)
    BY <1>0, <1>1 DEF RoundBegin, RoundNext
  <2>2. NextId(h) \in Ids \union {0}
    BY NextIdFacts
  <2>3. /\ cur' = [cur EXCEPT ![l] = NextId(h)]
        /\ pc' = [pc EXCEPT ![l] = IF NextId(h) = 0 THEN "idle" ELSE "get"]
    BY <2>1 DEF RoundTo, Go
  <2> DEFINE n == NextId(h)
  <2> HIDE DEF n
  <2>4. ThreadType'
    BY <1>0, <1>1, <2>2, <2>3 DEF Shape, ThreadType, TableType, RoundBegin, RoundNext, ending, PCs
  <2>5. Placed'
    BY <1>0, <1>1, <2>2, <2>3 DEF Shape, ThreadType, Placed, RoundBegin, RoundNext, ending, Working
  <2> QED  BY <1>1, <2>4, <2>5 DEF Shape, TableType, RoundBegin, RoundNext, table
<1>2. CASE RoundGet(l)
  <2>1. TableType'
    <3>1. cur[l] \in handlers => refcount[cur[l]] + 1 \in Int
      BY DEF Shape, TableType
    <3>2. refcount' \in [Ids -> Int]
      BY <1>2, <3>1 DEF RoundGet, Get, Shape, TableType
    <3> QED  BY <1>2, <3>2 DEF RoundGet, Shape, TableType
  <2>2. ThreadType'
    BY <1>0, <1>2 DEF RoundGet, Get, Go, Shape, ThreadType, ending, PCs
  <2>3. Placed'
    BY <1>0, <1>2 DEF RoundGet, Get, Go, Shape, ThreadType, Placed, ending, Working
  <2> QED  BY <2>1, <2>2, <2>3 DEF Shape
<1>3. CASE RoundCall(l)
  <2>1. TableType'
    BY <1>0, <1>3, LockShape DEF RoundCall, Shape, TableType
  <2>2. ThreadType'
    BY <1>0, <1>3 DEF RoundCall, Go, Shape, ThreadType, ending, PCs
  <2>3. Placed'
    BY <1>0, <1>3, LockShape DEF RoundCall, Go, Shape, ThreadType, Placed, ending, Working
  <2> QED  BY <2>1, <2>2, <2>3 DEF Shape
<1>4. CASE RoundRelease(l)
  <2>0. cur[l] \in Ids
    BY <1>0, <1>4 DEF RoundRelease, Shape, Placed, Working
  <2>1. TableType'
    BY <1>4, <2>0, DropShape DEF RoundRelease
  <2>2. ThreadType'
    BY <1>0, <1>4 DEF RoundRelease, Go, Shape, ThreadType, ending, PCs
  <2>3. Placed'
    BY <1>0, <1>4, <2>0 DEF RoundRelease, Go, Shape, ThreadType, Placed, ending, Working
  <2> QED  BY <2>1, <2>2, <2>3 DEF Shape
<1> QED  BY <1>1, <1>2, <1>3, <1>4 DEF RoundStep

\* A service thread keeps it.
LEMMA ServiceShape ==
  ASSUME Shape, NEW s \in Services,
         \/ ServiceLock(s) \/ ServiceStep(s) \/ HandlerCreate(s)
         \/ \E o \in Ops, h \in Ids : Request(s, o, h)
  PROVE  Shape'
<1>0. /\ s \in Threads /\ s \notin Loops /\ Loops \subseteq Threads /\ Services \subseteq Threads
      /\ None \notin Threads
  BY ConstantFacts DEF Shape, ThreadType
<1>1. ASSUME NEW o \in Ops, NEW h \in Ids, Request(s, o, h)
      PROVE  Shape'
  <2>1. ThreadType'
    BY <1>0, <1>1 DEF Request, Go, Shape, ThreadType, ending, PCs
  <2>2. Placed'
    BY <1>0, <1>1 DEF Request, Go, Shape, ThreadType, Placed, ending, Working
  <2> QED  BY <1>1, <2>1, <2>2 DEF Request, Shape, TableType, table
<1>2. CASE TakeDomain(s)
  <2>1. Opened \subseteq Ids
    BY DEF Opened
  <2>2. todo' \in [Services -> SUBSET Ids]
    BY <1>2, <2>1 DEF TakeDomain, Shape, ThreadType
  <2>3. ThreadType'
    BY <1>0, <1>2, <2>2 DEF TakeDomain, Go, Shape, ThreadType, ending, PCs
  <2>4. Placed'
    BY <1>0, <1>2 DEF TakeDomain, Go, Shape, ThreadType, Placed, ending, Working
  <2> QED  BY <1>2, <2>3, <2>4 DEF TakeDomain, Shape, TableType, table
<1>3. CASE ServiceGet(s)
  <2>1. TableType'
    <3>1. cur[s] \in handlers => refcount[cur[s]] + 1 \in Int
      BY DEF Shape, TableType
    <3>2. refcount' \in [Ids -> Int]
      BY <1>3, <3>1 DEF ServiceGet, Get, Shape, TableType
    <3> QED  BY <1>3, <3>2 DEF ServiceGet, Shape, TableType
  <2>2. ThreadType'
    BY <1>0, <1>3 DEF ServiceGet, Get, Go, Finish, LeaveDomain, Shape, ThreadType, ending, PCs, Ops
  <2>3. Placed'
    BY <1>0, <1>3 DEF ServiceGet, Get, Go, Finish, Shape, ThreadType, Placed, ending, Working
  <2> QED  BY <2>1, <2>2, <2>3 DEF Shape
<1>4. CASE HpiCall(s) \/ TimeoutCall(s) \/ InjectEvent(s) \/ HandlerRetry(s) \/ DestroyClose(s)
  <2>0. Lock(s) /\ pc[s] = "wait"
    BY <1>4 DEF HpiCall, TimeoutCall, InjectEvent, HandlerRetry, DestroyClose, Lock
  <2>1. hnd' \in [Ids -> {"none", "null", "open", "closed"}]
    BY <1>4 DEF HpiCall, TimeoutCall, InjectEvent, HandlerRetry, DestroyClose, Shape, TableType
  <2>2. TableType'
    BY <1>0, <2>0, <2>1, LockShape DEF Shape, TableType
  <2>3. ThreadType'
    BY <1>0, <1>4 DEF HpiCall, TimeoutCall, InjectEvent, HandlerRetry, DestroyClose, Go, Finish,
       LeaveDomain, Shape, ThreadType, ending, PCs, Ops
  <2>4. Placed'
    <3>1. main' = main /\ pc' \in [Threads -> PCs] /\ cur' \in [Threads -> Ids \union {0}]
      BY <1>4, <2>3 DEF HpiCall, TimeoutCall, InjectEvent, HandlerRetry, DestroyClose, ending, ThreadType
    <3>2. \A t \in Threads : t # s => pc'[t] = pc[t] /\ cur'[t] = cur[t]
      BY <1>4 DEF HpiCall, TimeoutCall, InjectEvent, HandlerRetry, DestroyClose, Go, Finish,
         Shape, ThreadType
    <3>3. \/ pc'[s] = "idle"
          \/ pc'[s] \in {"abi", "release", "remove"} /\ cur'[s] = cur[s]
      BY <1>0, <1>4 DEF HpiCall, TimeoutCall, InjectEvent, HandlerRetry, DestroyClose, Go, Finish,
         Shape, ThreadType
    <3> QED  BY <1>0, <2>0, <3>1, <3>2, <3>3, LockShape DEF Shape, Placed, Working
  <2> QED  BY <2>2, <2>3, <2>4 DEF Shape
<1>5. CASE ServiceRelease(s) \/ DestroyDrop(s)
  <2>0. cur[s] \in Ids /\ todo[s] \subseteq Ids
    BY <1>0, <1>5 DEF ServiceRelease, DestroyDrop, Shape, Placed, Working, ThreadType
  <2>1. TableType'
    BY <1>5, <2>0, DropShape DEF ServiceRelease, DestroyDrop
  <2>2. ThreadType'
    BY <1>0, <1>5, <2>0 DEF ServiceRelease, DestroyDrop, Go, Finish, LeaveDomain, Shape, ThreadType,
       ending, PCs, Ops
  <2>3. Placed'
    BY <1>0, <1>5, <2>0 DEF ServiceRelease, DestroyDrop, Go, Finish, Shape, ThreadType, Placed,
       ending, Working
  <2> QED  BY <2>1, <2>2, <2>3 DEF Shape
<1>6. CASE DestroyRemove(s)
  <2>1. ThreadType'
    BY <1>0, <1>6 DEF DestroyRemove, Go, Shape, ThreadType, ending, PCs
  <2>2. Placed'
    BY <1>0, <1>6 DEF DestroyRemove, Go, Shape, ThreadType, Placed, ending, Working
  <2> QED  BY <1>6, <2>1, <2>2 DEF DestroyRemove, Shape, TableType
<1>7. CASE HandlerCreate(s)
  <2>1. nextid \in Ids /\ nextid + 1 \in 1 .. MaxHandlers + 1
    BY <1>7, ConstantFacts DEF HandlerCreate, Shape, TableType, Ids
  <2>2. TableType'
    BY <1>7, <2>1 DEF HandlerCreate, Shape, TableType
  <2> QED  BY <1>7, <2>2 DEF HandlerCreate, Shape, ThreadType, Placed, threads, ending
<1> QED  BY <1>1, <1>2, <1>3, <1>4, <1>5, <1>6, <1>7 DEF ServiceLock, ServiceStep

\* So do the main thread and a stuttering step.
LEMMA MainShape ==
  ASSUME Shape, Stop \/ MainStep \/ UNCHANGED vars
  PROVE  Shape'
<1>1. CASE Stop
  BY <1>1 DEF Stop, Shape, TableType, ThreadType, Placed, table, threads
<1>2. CASE CloseHandlers
  BY <1>2 DEF CloseHandlers, Shape, TableType, ThreadType, Placed, threads
<1>3. CASE ThreadedStop \/ Finit
  BY <1>3 DEF ThreadedStop, Finit, Shape, TableType, ThreadType, Placed, table, threads
<1>4. CASE UNCHANGED vars
  BY <1>4 DEF vars, Shape, TableType, ThreadType, Placed, table, threads, ending
<1> QED  BY <1>1, <1>2, <1>3, <1>4 DEF MainStep

----------------------------------------------------------------------------
(* The inductive invariants.                                               *)

\* Where a thread holds a reference.
Holding == {"wait"} \union Working

\* Whoever works with a handler has its lock.
LockInv == \A t \in Threads : pc[t] \in Working => lock[cur[t]] = t

\* All calls but saHpiAutoInsertTimeoutSet keep the domain locked until they
\* have their handler's lock, oHpiHandlerDestroy until it is done.
DomainInv ==
  \A s \in Services :
    /\ pc[s] \in {"get", "wait"} /\ op[s] # "timeout" => domain = s
    /\ pc[s] \in {"remove", "drop"} => domain = s
    /\ pc[s] \in {"wait", "remove"} /\ op[s] # "timeout" => cur[s] \in handlers
    /\ pc[s] = "remove" => op[s] = "destroy"
    /\ pc[s] = "drop" => cur[s] \notin handlers

\* Who has met a handler that opened, and who may meet one that was closed.
NotYet == \A h \in Ids : h >= nextid => hnd[h] = "none"
Met(s) ==
  /\ pc[s] # "idle" /\ op[s] \in {"call", "timeout"} => cur[s] \in Opened
  /\ todo[s] \subseteq Opened
  /\ pc[s] \in {"wait", "abi"} /\ op[s] \in {"call", "inject"} => hnd[cur[s]] # "closed"
ClosedByDestroy ==
  \A h \in handlers : hnd[h] = "closed" /\ main = "serve" =>
    \E u \in Services : pc[u] = "remove" /\ cur[u] = h
OpenInv == NotYet /\ ClosedByDestroy /\ \A s \in Services : Met(s)

\* oHpiHandlerDestroy has taken h out of the table and not yet dropped it.
Dropping(h) == \E s \in Services : pc[s] = "drop" /\ cur[s] = h

\* A handler that is in the table, or is about to be dropped, has one
\* reference per holder; a destroyed one that others still hold, one less.
Exact(h) ==
  /\ h \in handlers \union freed => h < nextid
  /\ h \in freed => h \notin handlers /\ Holders(h) = {} /\ refcount[h] \in {-1, 0}
  /\ h >= nextid => Holders(h) = {}
  /\ h \notin freed =>
       refcount[h] = IF h \in handlers \/ h >= nextid \/ Dropping(h)
                     THEN Cardinality(Holders(h)) ELSE Cardinality(Holders(h)) - 1
  /\ h < nextid /\ h \notin handlers \union freed => Holders(h) # {}
RefInv == \A h \in Ids : Exact(h)

\* What a round still has to meet is in the table and lies ahead.
OwedInv ==
  \A l \in Loops :
    /\ owed[l] \subseteq handlers
    /\ pc[l] = "idle" \/ cur[l] \notin handlers => owed[l] = {}
    /\ pc[l] \in {"get", "wait"} => \A h \in owed[l] : h >= cur[l]
    /\ pc[l] \in {"abi", "release", "next"} => \A h \in owed[l] : h > cur[l]

\* The initial state.
LEMMA InitInv == Init => LockInv /\ DomainInv /\ OpenInv /\ RefInv /\ OwedInv
<1> SUFFICES ASSUME Init
             PROVE  LockInv /\ DomainInv /\ OpenInv /\ RefInv /\ OwedInv
  OBVIOUS
<1>0. \A t \in Threads : pc[t] = "idle"
  BY DEF Init
<1>1. LockInv /\ DomainInv
  BY <1>0, ConstantFacts DEF LockInv, DomainInv, Working
<1>2. OpenInv
  <2>1. \A h \in Ids : h >= nextid => h > Initial
    BY ConstantFacts DEF Init
  <2>2. \A h \in Ids : (hnd[h] = "none" <=> h > Initial) /\ hnd[h] # "closed"
    BY DEF Init
  <2>3. handlers \subseteq Ids
    BY ConstantFacts DEF Init, Ids
  <2> QED  BY <1>0, <2>1, <2>2, <2>3, ConstantFacts DEF Init, OpenInv, NotYet, Met, ClosedByDestroy
<1>3. RefInv
  <2>1. \A h : Holders(h) = {}
    BY <1>0 DEF Holders
  <2>2. Cardinality({}) = 0
    BY FS_EmptySet
  <2>3. /\ \A h \in handlers \union freed : h < nextid
        /\ \A h \in Ids : h < nextid => h \in handlers
        /\ freed = {} /\ \A h \in Ids : refcount[h] = 0
    BY ConstantFacts DEF Init, Ids
  <2>4. ASSUME NEW h \in Ids
        PROVE  refcount[h] = IF h \in handlers \/ h >= nextid \/ Dropping(h)
                             THEN Cardinality(Holders(h)) ELSE Cardinality(Holders(h)) - 1
    <3>1. h \in handlers \/ h >= nextid
      BY ConstantFacts DEF Init, Ids
    <3> QED  BY <2>1, <2>2, <2>3, <3>1
  <2> QED  BY <2>1, <2>3, <2>4 DEF RefInv, Exact
<1>4. OwedInv
  BY <1>0, ConstantFacts DEF Init, OwedInv
<1> QED  BY <1>1, <1>2, <1>3, <1>4

----------------------------------------------------------------------------
(* What a step can do to references and locks.                             *)

\* Only thread t moves.
Alone(t) == \A u \in Threads : u # t => pc'[u] = pc[u] /\ cur'[u] = cur[u]

\* It has no reference, before and after.
Quiet(t) ==
  /\ pc[t] \notin Holding /\ pc'[t] \notin Holding
  /\ UNCHANGED <<handlers, refcount, lock, freed, nextid>>

\* oh_get_handler, its first part.
Gets(t) ==
  /\ pc[t] = "get" /\ pc'[t] = "wait" /\ cur'[t] = cur[t] /\ cur[t] \in handlers
  /\ refcount' = [refcount EXCEPT ![cur[t]] = @ + 1]
  /\ UNCHANGED <<handlers, lock, freed, nextid>>

\* oh_get_handler, its second part.
Locks(t) ==
  /\ Lock(t)
  /\ pc'[t] \in {"abi", "release", "remove"} /\ cur'[t] = cur[t]

\* oh_release_handler.
Drops(t) ==
  /\ pc[t] \in {"abi", "release"} /\ pc'[t] \notin Holding
  /\ Drop(cur[t], 1)

\* oh_destroy_handler: out of the table, ...
Removes(t) ==
  /\ t \in Services
  /\ pc[t] = "remove" /\ pc'[t] = "drop" /\ cur'[t] = cur[t]
  /\ handlers' = handlers \ {cur[t]}
  /\ UNCHANGED <<refcount, lock, freed, nextid>>

\* ... then two references less.
DestroyDrops(t) ==
  /\ t \in Services
  /\ pc[t] = "drop" /\ pc'[t] \notin Holding
  /\ DestroyDropRefs(cur[t])

\* Nobody moves.
Still == UNCHANGED <<pc, cur, refcount, lock, freed>>

Kinds(t) ==
  /\ Alone(t)
  /\ Quiet(t) \/ Gets(t) \/ Locks(t) \/ Drops(t) \/ Removes(t) \/ DestroyDrops(t)

\* A background thread does one of these things.
LEMMA LoopKinds ==
  ASSUME Shape, NEW l \in Loops, RoundBegin(l) \/ RoundCall(l) \/ RoundStep(l)
  PROVE  Kinds(l)
<1>0. /\ l \in Threads /\ pc \in [Threads -> PCs] /\ cur \in [Threads -> Ids \union {0}]
  BY ConstantFacts DEF Shape, ThreadType
<1>1. Alone(l)
  BY <1>0 DEF RoundBegin, RoundCall, RoundStep, RoundGet, RoundRelease, RoundNext, RoundTo, Get,
     Go, Alone
<1>2. CASE RoundBegin(l) \/ RoundNext(l)
  BY <1>0, <1>1, <1>2 DEF Kinds, RoundBegin, RoundNext, RoundTo, Go, Quiet, Holding, Working, table
<1>3. CASE RoundGet(l)
  BY <1>0, <1>1, <1>3 DEF Kinds, RoundGet, Get, Go, Quiet, Gets, Holding, Working
<1>4. CASE RoundCall(l)
  BY <1>0, <1>1, <1>4 DEF Kinds, RoundCall, Go, Locks
<1>5. CASE RoundRelease(l)
  BY <1>0, <1>1, <1>5 DEF Kinds, RoundRelease, Go, Drops, Holding, Working
<1> QED  BY <1>1, <1>2, <1>3, <1>4, <1>5 DEF RoundStep

\* So does a service thread: saHpiAutoInsertTimeoutSet never gives up at a
\* handler that is not open, since it only meets handlers of resources.
LEMMA ServiceKinds ==
  ASSUME Shape, OpenInv, NEW s \in Services,
         \/ ServiceLock(s) \/ ServiceStep(s)
         \/ \E o \in Ops, h \in Ids : Request(s, o, h)
  PROVE  Kinds(s)
<1>0. /\ s \in Threads /\ pc \in [Threads -> PCs] /\ cur \in [Threads -> Ids \union {0}]
  BY ConstantFacts DEF Shape, ThreadType
<1>1. Alone(s)
  BY <1>0 DEF ServiceLock, ServiceStep, Request, TakeDomain, HpiCall, TimeoutCall, InjectEvent,
     HandlerRetry, DestroyClose, ServiceGet, ServiceRelease, DestroyRemove, DestroyDrop, Finish,
     Get, Go, Alone
<1>2. CASE TakeDomain(s) \/ \E o \in Ops, h \in Ids : Request(s, o, h)
  BY <1>0, <1>1, <1>2 DEF Kinds, TakeDomain, Request, Go, Quiet, Holding, Working, table
<1>3. CASE ServiceGet(s)
  BY <1>0, <1>1, <1>3 DEF Kinds, ServiceGet, Get, Finish, Go, Quiet, Gets, Holding, Working
<1>4. CASE HpiCall(s) \/ InjectEvent(s) \/ HandlerRetry(s) \/ DestroyClose(s)
  BY <1>0, <1>1, <1>4 DEF Kinds, HpiCall, InjectEvent, HandlerRetry, DestroyClose, Go, Locks
<1>5. CASE TimeoutCall(s)
  <2>1. hnd[cur[s]] # "null"
    BY <1>0, <1>5 DEF TimeoutCall, Lock, OpenInv, Met, Opened
  <2> QED  BY <1>0, <1>1, <1>5, <2>1 DEF Kinds, TimeoutCall, Go, Locks
<1>6. CASE ServiceRelease(s)
  BY <1>0, <1>1, <1>6 DEF Kinds, ServiceRelease, Finish, Go, Drops, Holding, Working
<1>7. CASE DestroyRemove(s)
  BY <1>0, <1>1, <1>7 DEF Kinds, DestroyRemove, Go, Removes
<1>8. CASE DestroyDrop(s)
  BY <1>0, <1>1, <1>8 DEF Kinds, DestroyDrop, Finish, DestroyDrops, Holding, Working
<1> QED  BY <1>1, <1>2, <1>3, <1>4, <1>5, <1>6, <1>7, <1>8 DEF ServiceLock, ServiceStep

\* The holders of a handler after a step.
LEMMA HoldersMove ==
  ASSUME NEW t \in Threads, Kinds(t), NEW h
  PROVE  /\ Gets(t) => Holders(h)' = IF h = cur[t] THEN Holders(h) \union {t} ELSE Holders(h)
         /\ Drops(t) \/ DestroyDrops(t) =>
              Holders(h)' = IF h = cur[t] THEN Holders(h) \ {t} ELSE Holders(h)
         /\ Quiet(t) \/ Locks(t) \/ Removes(t) => Holders(h)' = Holders(h)
<1>0. /\ \A x : Holders(x) = {u \in Threads : cur[u] = x /\ pc[u] \in Holding}
      /\ Holders(h)' = {u \in Threads : cur'[u] = h /\ pc'[u] \in Holding}
  BY DEF Holders, Holding, Working
<1>1. \A u \in Threads : u # t => pc'[u] = pc[u] /\ cur'[u] = cur[u]
  BY DEF Kinds, Alone
<1>2. CASE Gets(t)
  <2>1. cur'[t] = cur[t] /\ pc[t] \notin Holding /\ pc'[t] \in Holding
    BY <1>2 DEF Gets, Holding, Working
  <2>2. Holders(h)' = IF h = cur[t] THEN Holders(h) \union {t} ELSE Holders(h)
    BY <1>0, <1>1, <2>1
  <2> QED  BY <1>2, <2>2 DEF Gets, Drops, DestroyDrops, Quiet, Locks, Lock, Removes, Holding, Working
<1>3. CASE Drops(t) \/ DestroyDrops(t)
  <2>1. pc[t] \in Holding /\ pc'[t] \notin Holding
    BY <1>3 DEF Drops, DestroyDrops, Holding, Working
  <2>2. Holders(h)' = IF h = cur[t] THEN Holders(h) \ {t} ELSE Holders(h)
    BY <1>0, <1>1, <2>1
  <2> QED  BY <1>3, <2>2 DEF Gets, Drops, DestroyDrops, Quiet, Locks, Lock, Removes, Holding, Working
<1>4. CASE Quiet(t)
  <2>1. Holders(h)' = Holders(h)
    BY <1>0, <1>1, <1>4 DEF Quiet
  <2> QED  BY <1>4, <2>1 DEF Gets, Drops, DestroyDrops, Quiet, Holding, Working
<1>5. CASE Locks(t) \/ Removes(t)
  <2>1. cur'[t] = cur[t] /\ pc[t] \in Holding /\ pc'[t] \in Holding
    BY <1>5 DEF Locks, Lock, Removes, Holding, Working
  <2>2. Holders(h)' = Holders(h)
    BY <1>0, <1>1, <2>1
  <2> QED  BY <1>5, <2>2 DEF Gets, Drops, DestroyDrops, Locks, Lock, Removes, Holding, Working
<1> QED  BY <1>2, <1>3, <1>4, <1>5 DEF Kinds

\* A handler's lock has one owner.
LEMMA KindsLock ==
  ASSUME Shape, LockInv, NEW t \in Threads, Kinds(t)
  PROVE  LockInv'
<1>0. /\ lock \in [Ids -> Threads \union {None}] /\ None \notin Threads
      /\ \A u \in Threads : pc[u] \in Working => cur[u] \in Ids /\ lock[cur[u]] = u
      /\ \A u \in Threads : u # t => pc'[u] = pc[u] /\ cur'[u] = cur[u]
  BY ConstantFacts DEF Shape, TableType, Placed, LockInv, Kinds, Alone
<1>1. CASE Quiet(t) \/ Gets(t) \/ Removes(t)
  BY <1>0, <1>1 DEF Quiet, Gets, Removes, Holding, Working, LockInv
<1>2. CASE Locks(t)
  <2>1. /\ cur[t] \in Ids /\ lock[cur[t]] = None
        /\ lock' = [lock EXCEPT ![cur[t]] = t] /\ cur'[t] = cur[t]
    BY <1>2 DEF Locks, Lock, Shape, Placed
  <2> QED  BY <1>0, <2>1 DEF LockInv
<1>3. CASE Drops(t) \/ DestroyDrops(t)
  <2>1. /\ pc[t] \in Working /\ pc'[t] \notin Working
        /\ lock' = [lock EXCEPT ![cur[t]] = None]
    BY <1>3 DEF Drops, DestroyDrops, Drop, DestroyDropRefs, Working, Holding
  <2> QED  BY <1>0, <2>1 DEF LockInv
<1> QED  BY <1>1, <1>2, <1>3 DEF Kinds

\* Holders can be counted.
LEMMA HoldersFinite ==
  ASSUME NEW h
  PROVE  /\ IsFiniteSet(Holders(h)) /\ Cardinality(Holders(h)) \in Nat
         /\ Cardinality(Holders(h)) = 0 <=> Holders(h) = {}
         /\ Cardinality(Holders(h)) <= Cardinality(Threads)
<1>1. Holders(h) \subseteq Threads
  BY DEF Holders
<1> QED  BY <1>1, ConstantFacts, FS_Subset, FS_CardinalityType, FS_EmptySet

\* A step of a thread keeps the reference counts exact.
LEMMA KindsRef ==
  ASSUME Shape, LockInv, DomainInv, RefInv, NEW t \in Threads, Kinds(t)
  PROVE  RefInv'
<1>0. /\ refcount \in [Ids -> Int] /\ handlers \subseteq Ids /\ freed \subseteq Ids /\ nextid \in Nat
      /\ Ids \subseteq Nat /\ Services \subseteq Threads
      /\ \A u \in Threads : u # t => pc'[u] = pc[u] /\ cur'[u] = cur[u]
  BY ConstantFacts DEF Shape, TableType, Kinds, Alone
<1>1. CASE Quiet(t) \/ Locks(t)
  <2>1. \A h : Holders(h)' = Holders(h)
    BY <1>1, HoldersMove
  <2>2. UNCHANGED <<handlers, refcount, freed, nextid>>
    BY <1>1 DEF Quiet, Locks, Lock
  <2>3. \A h : Dropping(h)' <=> Dropping(h)
    <3>1. pc[t] # "drop" /\ pc'[t] # "drop"
      BY <1>1 DEF Quiet, Locks, Lock, Holding, Working
    <3> QED  BY <1>0, <3>1 DEF Dropping
  <2> QED  BY <2>1, <2>2, <2>3 DEF RefInv, Exact
<1>2. CASE Gets(t)
  <2>0. PICK h : h = cur[t]
    OBVIOUS
  <2>1. /\ Holders(h)' = Holders(h) \union {t}
        /\ \A g : g # h => Holders(g)' = Holders(g)
    BY <1>2, <2>0, HoldersMove
  <2>2. /\ h \in handlers /\ pc[t] = "get" /\ pc'[t] = "wait"
        /\ refcount' = [refcount EXCEPT ![h] = refcount[h] + 1]
        /\ UNCHANGED <<handlers, freed, nextid>>
    BY <1>2, <2>0 DEF Gets
  <2>3. t \notin Holders(h)
    BY <2>2 DEF Holders
  <2>4. Cardinality(Holders(h)') = Cardinality(Holders(h)) + 1
    BY <2>1, <2>3, HoldersFinite, FS_AddElement
  <2>5. h \notin freed /\ h < nextid /\ refcount[h] = Cardinality(Holders(h))
    BY <1>0, <2>2 DEF RefInv, Exact
  <2>6. refcount'[h] = Cardinality(Holders(h)') /\ \A g \in Ids : g # h => refcount'[g] = refcount[g]
    BY <1>0, <2>2, <2>4, <2>5
  <2>7. \A g : Dropping(g)' <=> Dropping(g)
    BY <1>0, <2>2 DEF Dropping
  <2>8. h \in Ids /\ ~(h >= nextid)
    BY <1>0, <2>2, <2>5
  <2>9. Exact(h)'
    BY <2>2, <2>5, <2>6, <2>7, <2>8 DEF Exact
  <2>10. ASSUME NEW g \in Ids, g # h
        PROVE  Exact(g)'
    <3>1. Exact(g)
      BY DEF RefInv
    <3> QED  BY <2>1, <2>2, <2>6, <2>7, <2>10, <3>1 DEF Exact
  <2> QED  BY <2>9, <2>10 DEF RefInv
<1>3. CASE Drops(t)
  <2>0. PICK h : h = cur[t]
    OBVIOUS
  <2> DEFINE n == Cardinality(Holders(h))
  <2>1. /\ Holders(h)' = Holders(h) \ {t}
        /\ \A g : g # h => Holders(g)' = Holders(g)
    BY <1>3, <2>0, HoldersMove
  <2>2. /\ pc[t] \in {"abi", "release"} /\ pc'[t] \notin Holding
        /\ refcount' = [refcount EXCEPT ![h] = refcount[h] - 1]
        /\ freed' = IF refcount[h] - 1 < 0 THEN freed \union {h} ELSE freed
        /\ UNCHANGED <<handlers, nextid>>
    BY <1>3, <2>0 DEF Drops, Drop
  <2>3. h \in Ids /\ t \in Holders(h) /\ lock[h] = t
    BY <2>0, <2>2 DEF Holders, Shape, Placed, LockInv, Working
  <2>4. Cardinality(Holders(h)') = n - 1 /\ n \in Nat /\ n # 0
    BY <2>1, <2>3, HoldersFinite, FS_RemoveElement
  <2>5. h \notin freed /\ h < nextid
    <3>1. h \notin freed /\ ~(h >= nextid)
      BY <2>3 DEF RefInv, Exact
    <3> QED  BY <1>0, <2>3, <3>1
  <2>6. ~Dropping(h)
    BY <1>0, <2>2, <2>3 DEF Dropping, LockInv, Working
  <2>7. \A g : Dropping(g)' <=> Dropping(g)
    BY <1>0, <2>2 DEF Dropping, Holding, Working
  <2>8. IsFiniteSet(Holders(h)') /\ (n - 1 = 0 <=> Holders(h)' = {})
    <3>1. IsFiniteSet(Holders(h)')
      BY <2>1, HoldersFinite, FS_RemoveElement
    <3> QED  BY <2>4, <3>1, FS_EmptySet
  <2>9. \A g \in Ids : g # h => refcount'[g] = refcount[g]
    BY <1>0, <2>2
  <2>10. refcount'[h] = refcount[h] - 1
    BY <1>0, <2>2, <2>3
  <2>11. refcount[h] = IF h \in handlers THEN n ELSE n - 1
    BY <1>0, <2>3, <2>5, <2>6 DEF RefInv, Exact
  <2> HIDE DEF n
  <2>15. ASSUME NEW g \in Ids, g # h
         PROVE  Exact(g)'
    <3>1. Exact(g)
      BY DEF RefInv
    <3>2. g \in freed' <=> g \in freed
      BY <2>2, <2>15
    <3> QED  BY <2>1, <2>2, <2>7, <2>9, <2>15, <3>1, <3>2 DEF Exact
  <2>16. ~(h >= nextid)
    BY <1>0, <2>3, <2>5
  <2>12. CASE h \in handlers
    <3>1. freed' = freed /\ refcount'[h] = Cardinality(Holders(h)')
      BY <1>0, <2>2, <2>4, <2>10, <2>11, <2>12
    <3>2. Exact(h)'
      BY <2>2, <2>5, <2>12, <2>16, <3>1 DEF Exact
    <3> QED  BY <2>15, <3>2 DEF RefInv
  <2>13. CASE h \notin handlers /\ n = 1
    <3>1. freed' = freed \union {h} /\ refcount'[h] = -1 /\ Holders(h)' = {}
      BY <1>0, <2>2, <2>4, <2>8, <2>10, <2>11, <2>13
    <3>2. Exact(h)'
      BY <2>2, <2>5, <2>13, <2>16, <3>1 DEF Exact
    <3> QED  BY <2>15, <3>2 DEF RefInv
  <2>14. CASE h \notin handlers /\ n # 1
    <3>1. n - 2 \in Nat /\ n - 1 # 0
      BY <2>4, <2>14
    <3>2. freed' = freed /\ refcount'[h] = Cardinality(Holders(h)') - 1 /\ Holders(h)' # {}
      BY <1>0, <2>2, <2>4, <2>8, <2>10, <2>11, <2>14, <3>1
    <3>3. Exact(h)'
      BY <2>2, <2>5, <2>6, <2>7, <2>14, <2>16, <3>2 DEF Exact
    <3> QED  BY <2>15, <3>3 DEF RefInv
  <2> QED  BY <2>12, <2>13, <2>14
<1>4. CASE Removes(t)
  <2>0. PICK h : h = cur[t]
    OBVIOUS
  <2>1. \A g : Holders(g)' = Holders(g)
    BY <1>4, <2>0, HoldersMove
  <2>2. /\ t \in Services /\ pc[t] = "remove" /\ pc'[t] = "drop" /\ cur'[t] = h
        /\ handlers' = handlers \ {h} /\ UNCHANGED <<refcount, freed, nextid>>
    BY <1>4, <2>0 DEF Removes
  <2>3. h \in handlers /\ t \in Holders(h)
    BY <2>0, <2>2 DEF DomainInv, Shape, ThreadType, Holders
  <2>4. Dropping(h)' /\ \A g : g # h => (Dropping(g)' <=> Dropping(g))
    BY <1>0, <2>0, <2>2 DEF Dropping
  <2> QED  BY <1>0, <2>1, <2>2, <2>3, <2>4 DEF RefInv, Exact
<1>5. CASE DestroyDrops(t)
  <2>0. PICK h : h = cur[t]
    OBVIOUS
  <2> DEFINE n == Cardinality(Holders(h))
  <2>1. /\ Holders(h)' = Holders(h) \ {t}
        /\ \A g : g # h => Holders(g)' = Holders(g)
    BY <1>5, <2>0, HoldersMove
  <2>2. /\ t \in Services /\ pc[t] = "drop" /\ pc'[t] \notin Holding
        /\ refcount' = [refcount EXCEPT ![h] = IF refcount[h] - 1 < 1 THEN refcount[h] - 1 ELSE refcount[h] - 2]
        /\ freed' = IF refcount[h] - 1 < 1 THEN freed \union {h} ELSE freed
        /\ UNCHANGED <<handlers, nextid>>
    BY <1>5, <2>0 DEF DestroyDrops, DestroyDropRefs
  <2>3. h \in Ids /\ t \in Holders(h) /\ h \notin handlers
    BY <2>0, <2>2 DEF Holders, Shape, Placed, Working, DomainInv
  <2>4. Dropping(h)
    BY <2>0, <2>2 DEF Dropping
  <2>5. Cardinality(Holders(h)') = n - 1 /\ n \in Nat /\ n # 0
    BY <2>1, <2>3, HoldersFinite, FS_RemoveElement
  <2>6. h \notin freed /\ h < nextid
    <3>1. h \notin freed /\ ~(h >= nextid)
      BY <2>3 DEF RefInv, Exact
    <3> QED  BY <1>0, <2>3, <3>1
  <2>7. ~Dropping(h)' /\ \A g : g # h => (Dropping(g)' <=> Dropping(g))
    <3>1. \A s \in Services : pc[s] = "drop" => s = t
      BY <2>2 DEF DomainInv
    <3>2. \A s \in Services : pc'[s] # "drop"
      BY <1>0, <2>2, <3>1 DEF Holding, Working
    <3>3. \A g : Dropping(g) => g = h
      BY <2>0, <3>1 DEF Dropping
    <3> QED  BY <3>2, <3>3 DEF Dropping
  <2>8. IsFiniteSet(Holders(h)') /\ (n - 1 = 0 <=> Holders(h)' = {})
    <3>1. IsFiniteSet(Holders(h)')
      BY <2>1, HoldersFinite, FS_RemoveElement
    <3> QED  BY <2>5, <3>1, FS_EmptySet
  <2>9. \A g \in Ids : g # h => refcount'[g] = refcount[g]
    BY <1>0, <2>2
  <2>10. refcount[h] = n
    BY <1>0, <2>3, <2>4, <2>6 DEF RefInv, Exact
  <2>11. refcount'[h] = IF n - 1 < 1 THEN n - 1 ELSE n - 2
    BY <1>0, <2>2, <2>3, <2>10
  <2> HIDE DEF n
  <2>12. \A g \in Ids : g >= nextid => g # h
    BY <1>0, <2>6
  <2>13. CASE n = 1
    <3>1. freed' = freed \union {h} /\ refcount'[h] = 0 /\ Holders(h)' = {}
      BY <2>2, <2>8, <2>10, <2>11, <2>13
    <3> QED  BY <1>0, <2>1, <2>2, <2>3, <2>6, <2>7, <2>9, <2>12, <3>1 DEF RefInv, Exact
  <2>14. CASE n # 1
    <3>0. n - 2 \in Nat /\ n - 1 # 0 /\ ~(n - 1 < 1) /\ n - 2 = (n - 1) - 1
      BY <2>5, <2>14
    <3>1. freed' = freed /\ refcount'[h] = Cardinality(Holders(h)') - 1 /\ Holders(h)' # {}
      BY <2>2, <2>5, <2>8, <2>10, <2>11, <2>14, <3>0
    <3> QED  BY <1>0, <2>1, <2>2, <2>3, <2>6, <2>7, <2>9, <2>12, <3>1 DEF RefInv, Exact
  <2> QED  BY <2>13, <2>14
<1> QED  BY <1>1, <1>2, <1>3, <1>4, <1>5 DEF Kinds

\* A new handler has no reference.
LEMMA CreateRef ==
  ASSUME Shape, RefInv, NEW s \in Services, HandlerCreate(s)
  PROVE  RefInv'
<1>0. /\ nextid \in Nat /\ nextid \in Ids /\ Ids \subseteq Nat /\ nextid' = nextid + 1
      /\ handlers' = handlers \union {nextid} /\ handlers \subseteq Ids /\ freed \subseteq Ids
      /\ UNCHANGED <<refcount, freed, pc, cur>>
  BY ConstantFacts DEF HandlerCreate, threads, Shape, TableType, Ids
<1>1. \A h : Holders(h)' = Holders(h) /\ (Dropping(h)' <=> Dropping(h))
  BY <1>0 DEF Holders, Dropping
<1>2. \A h \in Ids : /\ h >= nextid' => h >= nextid /\ h # nextid
                     /\ h < nextid' => h < nextid \/ h = nextid
                     /\ h < nextid => h < nextid'
                     /\ h >= nextid => h >= nextid' \/ h = nextid
                     /\ h >= nextid' => h >= nextid
  BY <1>0
<1>3. nextid \notin freed /\ nextid \notin handlers
  BY <1>0 DEF RefInv, Exact
<1>4. \A h \in handlers' \union freed : h < nextid'
  BY <1>0, <1>2 DEF RefInv, Exact
<1>5. \A h \in Ids \ freed : h >= nextid <=> h >= nextid' \/ h = nextid
  BY <1>0
<1>6. ASSUME NEW h \in Ids \ freed
      PROVE  refcount'[h] = IF h \in handlers' \/ h >= nextid' \/ Dropping(h)'
                            THEN Cardinality(Holders(h)') ELSE Cardinality(Holders(h)') - 1
  <2>1. refcount[h] = IF h \in handlers \/ h >= nextid \/ Dropping(h)
                      THEN Cardinality(Holders(h)) ELSE Cardinality(Holders(h)) - 1
    BY DEF RefInv, Exact
  <2> QED  BY <1>0, <1>1, <1>5, <2>1
<1> QED  BY <1>0, <1>1, <1>2, <1>3, <1>4, <1>6 DEF RefInv, Exact

\* What nobody's move changes.
LEMMA StillRef ==
  ASSUME RefInv, UNCHANGED <<handlers, refcount, freed, nextid, pc, cur>>
  PROVE  RefInv'
BY DEF RefInv, Exact, Holders, Dropping

----------------------------------------------------------------------------
(* The domain lock and the instances of the handlers.                      *)

\* What a service thread does to its own place and to the domain.
LEMMA ServiceDomain ==
  ASSUME Shape, DomainInv, NEW s \in Services,
         \/ ServiceLock(s) \/ ServiceStep(s) \/ HandlerCreate(s)
         \/ \E o \in Ops, h \in Ids : Request(s, o, h)
  PROVE  DomainInv'
<1>0. /\ s \in Threads /\ Services \subseteq Threads /\ None \notin Threads
      /\ pc \in [Threads -> PCs] /\ cur \in [Threads -> Ids \union {0}] /\ op \in [Services -> Ops]
      /\ domain \in Services \union {None}
  BY ConstantFacts DEF Shape, ThreadType
<1>1. \A u \in Services : u # s => pc'[u] = pc[u] /\ cur'[u] = cur[u] /\ op'[u] = op[u]
  BY <1>0 DEF ServiceLock, ServiceStep, HandlerCreate, Request, TakeDomain, HpiCall, TimeoutCall,
     InjectEvent, HandlerRetry, DestroyClose, ServiceGet, ServiceRelease, DestroyRemove, DestroyDrop,
     Finish, Get, Go, threads
<1>2. CASE TakeDomain(s)
  <2>1. /\ pc'[s] = "get" /\ op' = op /\ handlers' = handlers /\ domain = None
        /\ op[s] # "timeout" => domain' = s
        /\ op[s] = "timeout" => domain' = domain
    BY <1>0, <1>2 DEF TakeDomain, Go, table
  <2> QED  BY <1>0, <1>1, <2>1 DEF DomainInv
<1>3. ASSUME NEW o \in Ops, NEW h \in Ids, Request(s, o, h)
      PROVE  DomainInv'
  <2>1. pc'[s] = "domain" /\ handlers' = handlers /\ domain' = domain
    BY <1>0, <1>3 DEF Request, Go, table
  <2> QED  BY <1>0, <1>1, <2>1 DEF DomainInv
<1>4. CASE HandlerCreate(s)
  BY <1>0, <1>4 DEF HandlerCreate, DomainInv, threads, Shape, Placed
<1>5. CASE ServiceGet(s)
  <2>1. /\ handlers' = handlers /\ pc[s] = "get"
        /\ \/ pc'[s] = "wait" /\ cur' = cur /\ cur[s] \in handlers /\ domain' = domain /\ op' = op
           \/ pc'[s] = "idle" /\ domain' = IF domain = s THEN None ELSE domain
    BY <1>0, <1>5 DEF ServiceGet, Get, Finish, Go, LeaveDomain
  <2> QED  BY <1>0, <1>1, <2>1 DEF DomainInv
<1>6. CASE HpiCall(s) \/ TimeoutCall(s) \/ InjectEvent(s) \/ HandlerRetry(s)
  <2>1. /\ handlers' = handlers /\ pc[s] = "wait"
        /\ pc'[s] \in {"idle", "abi", "release"}
        /\ domain' = domain \/ domain' = IF domain = s THEN None ELSE domain
    BY <1>0, <1>6 DEF HpiCall, TimeoutCall, InjectEvent, HandlerRetry, Lock, Finish, Go, LeaveDomain
  <2> QED  BY <1>0, <1>1, <2>1 DEF DomainInv
<1>7. CASE DestroyClose(s)
  <2>1. /\ handlers' = handlers /\ pc[s] = "wait" /\ op[s] = "destroy" /\ op' = op
        /\ pc'[s] = "remove" /\ cur' = cur /\ domain' = domain
    BY <1>0, <1>7 DEF DestroyClose, Lock, Go
  <2> QED  BY <1>0, <1>1, <2>1 DEF DomainInv
<1>8. CASE ServiceRelease(s)
  <2>1. /\ handlers' = handlers /\ pc[s] \in {"abi", "release"}
        /\ domain' = IF domain = s THEN None ELSE domain
        /\ \/ pc'[s] = "get" /\ op[s] = "timeout" /\ op' = op
           \/ pc'[s] = "idle"
    BY <1>0, <1>8 DEF ServiceRelease, Drop, Finish, Go, LeaveDomain
  <2> QED  BY <1>0, <1>1, <2>1 DEF DomainInv
<1>9. CASE DestroyRemove(s)
  <2>1. /\ handlers' = handlers \ {cur[s]} /\ pc[s] = "remove" /\ domain' = domain
        /\ pc'[s] = "drop" /\ op' = op /\ cur' = cur
    BY <1>0, <1>9 DEF DestroyRemove, Go
  <2> QED  BY <1>0, <1>1, <2>1 DEF DomainInv
<1>10. CASE DestroyDrop(s)
  <2>1. /\ handlers' = handlers /\ pc[s] = "drop" /\ pc'[s] = "idle"
        /\ domain' = IF domain = s THEN None ELSE domain
    BY <1>0, <1>10 DEF DestroyDrop, DestroyDropRefs, Finish, LeaveDomain
  <2> QED  BY <1>0, <1>1, <2>1 DEF DomainInv
<1> QED
  BY <1>2, <1>3, <1>4, <1>5, <1>6, <1>7, <1>8, <1>9, <1>10 DEF ServiceLock, ServiceStep

\* An instance, once opened, is never none again; a new one was none before.
LEMMA OpenedStay ==
  ASSUME Shape, OpenInv,
         \/ \E s \in Services : ServiceLock(s) \/ ServiceStep(s) \/ HandlerCreate(s)
         \/ \E s \in Services, o \in Ops, h \in Ids : Request(s, o, h)
         \/ CloseHandlers
  PROVE  \A h \in Ids : hnd[h] \in {"open", "closed"} => hnd'[h] \in {"open", "closed"}
<1>0. hnd \in [Ids -> {"none", "null", "open", "closed"}]
  BY DEF Shape, TableType
<1>1. CASE CloseHandlers
  BY <1>0, <1>1 DEF CloseHandlers
<1>2. ASSUME NEW s \in Services, HandlerCreate(s)
      PROVE  \A h \in Ids : hnd[h] \in {"open", "closed"} => hnd'[h] \in {"open", "closed"}
  <2>1. nextid \in Ids /\ nextid \in Nat
    BY <1>2, ConstantFacts DEF HandlerCreate, Shape, TableType, Ids
  <2>2. hnd[nextid] = "none"
    BY <2>1 DEF OpenInv, NotYet
  <2> QED  BY <1>0, <1>2, <2>2 DEF HandlerCreate
<1>3. ASSUME NEW s \in Services, HandlerRetry(s) \/ DestroyClose(s)
      PROVE  \A h \in Ids : hnd[h] \in {"open", "closed"} => hnd'[h] \in {"open", "closed"}
  BY <1>0, <1>3 DEF HandlerRetry, DestroyClose
<1>4. ASSUME NEW s \in Services, \/ ServiceLock(s) /\ ~HandlerRetry(s) /\ ~DestroyClose(s)
                                 \/ ServiceStep(s)
                                 \/ \E o \in Ops, h \in Ids : Request(s, o, h)
      PROVE  hnd' = hnd
  BY <1>4 DEF ServiceLock, ServiceStep, TakeDomain, HpiCall, TimeoutCall, InjectEvent, ServiceGet,
     ServiceRelease, DestroyRemove, DestroyDrop, Drop, DestroyDropRefs, Request, table
<1> QED  BY <1>1, <1>2, <1>3, <1>4

\* A service thread keeps OpenInv: whoever closes an instance has the domain,
\* and the lock of the handler.
LEMMA ServiceOpen ==
  ASSUME Shape, LockInv, DomainInv, OpenInv, NEW s \in Services,
         \/ ServiceLock(s) \/ ServiceStep(s) \/ HandlerCreate(s)
         \/ \E o \in Ops, h \in Ids : Request(s, o, h)
  PROVE  OpenInv'
<1>0. /\ s \in Threads /\ Services \subseteq Threads /\ None \notin Threads
      /\ pc \in [Threads -> PCs] /\ cur \in [Threads -> Ids \union {0}] /\ op \in [Services -> Ops]
      /\ todo \in [Services -> SUBSET Ids]
      /\ hnd \in [Ids -> {"none", "null", "open", "closed"}] /\ Opened \subseteq Ids
      /\ handlers \subseteq Ids /\ Ids \subseteq Nat /\ nextid \in Nat
  BY ConstantFacts DEF Shape, ThreadType, TableType, Opened
<1>1. \A u \in Services : u # s => /\ pc'[u] = pc[u] /\ cur'[u] = cur[u] /\ op'[u] = op[u]
                                   /\ todo'[u] = todo[u]
  BY <1>0 DEF ServiceLock, ServiceStep, HandlerCreate, Request, TakeDomain, HpiCall, TimeoutCall,
     InjectEvent, HandlerRetry, DestroyClose, ServiceGet, ServiceRelease, DestroyRemove, DestroyDrop,
     Finish, Get, Go, threads
<1>2. Opened \subseteq Opened'
  BY <1>0, OpenedStay DEF Opened
<1>3. main' = main /\ main = "serve"
  BY <1>0 DEF ServiceLock, ServiceStep, HandlerCreate, Request, TakeDomain, HpiCall, TimeoutCall,
     InjectEvent, HandlerRetry, DestroyClose, ServiceGet, ServiceRelease, DestroyRemove, DestroyDrop,
     Lock, ending, Shape, Placed
<1>13. ASSUME NEW u \in Services, u # s, hnd' = hnd
       PROVE  Met(u)'
  BY <1>1, <1>2, <1>13 DEF OpenInv, Met
<1>14. ASSUME UNCHANGED <<hnd, handlers>>, pc[s] # "remove"
       PROVE  ClosedByDestroy'
  BY <1>1, <1>3, <1>14 DEF OpenInv, ClosedByDestroy
<1>15. ASSUME UNCHANGED <<hnd, nextid>>
       PROVE  NotYet'
  BY <1>15 DEF OpenInv, NotYet
<1>4. CASE TakeDomain(s)
  <2>1. /\ pc[s] = "domain" /\ pc'[s] = "get" /\ op' = op /\ cur' = cur
        /\ UNCHANGED <<handlers, hnd, nextid>>
        /\ todo'[s] \subseteq Opened \/ todo'[s] = todo[s]
    BY <1>0, <1>4 DEF TakeDomain, Go, table
  <2>2. Met(s)'
    BY <1>2, <2>1 DEF OpenInv, Met
  <2> QED  BY <1>13, <1>14, <1>15, <2>1, <2>2 DEF OpenInv
<1>5. ASSUME NEW o \in Ops, NEW h \in Ids, Request(s, o, h)
      PROVE  OpenInv'
  <2>1. /\ pc[s] = "idle" /\ pc'[s] = "domain" /\ op'[s] = o /\ cur'[s] = h
        /\ UNCHANGED <<handlers, hnd, nextid, todo>>
        /\ o \in {"call", "timeout"} => h \in Opened
    BY <1>0, <1>5 DEF Request, Go, table
  <2>2. Met(s)'
    BY <1>2, <2>1 DEF OpenInv, Met
  <2> QED  BY <1>13, <1>14, <1>15, <2>1, <2>2 DEF OpenInv
<1>6. CASE HandlerCreate(s)
  <2>1. /\ nextid \in Ids /\ nextid' = nextid + 1 /\ handlers' = handlers \union {nextid}
        /\ UNCHANGED <<pc, cur, op, todo>>
        /\ hnd'[nextid] # "closed" /\ \A h \in Ids : h # nextid => hnd'[h] = hnd[h]
    BY <1>0, <1>6 DEF HandlerCreate, threads, Shape, TableType, Ids
  <2>2. hnd[nextid] = "none"
    BY <1>0, <2>1 DEF OpenInv, NotYet
  <2>3. \A h \in Ids : h >= nextid' => hnd'[h] = "none"
    BY <1>0, <2>1 DEF OpenInv, NotYet
  <2>4. \A u \in Services : pc[u] \in {"wait", "abi"} => cur[u] \in Ids
    BY <1>0 DEF Shape, Placed, Working
  <2>5. ASSUME NEW u \in Services
        PROVE  Met(u)'
    BY <1>2, <2>1, <2>4 DEF OpenInv, Met
  <2>6. \A h \in handlers' : hnd'[h] = "closed" => h \in handlers /\ hnd[h] = "closed"
    BY <1>0, <2>1
  <2> QED  BY <1>3, <2>1, <2>3, <2>5, <2>6 DEF OpenInv, NotYet, ClosedByDestroy
<1>7. CASE ServiceGet(s)
  <2>1. /\ UNCHANGED <<handlers, hnd, nextid>> /\ pc[s] = "get"
        /\ \/ pc'[s] = "wait" /\ cur' = cur /\ cur[s] \in handlers /\ UNCHANGED <<op, todo>>
           \/ pc'[s] = "idle" /\ todo'[s] = {}
    BY <1>0, <1>7 DEF ServiceGet, Get, Finish, Go
  <2>2. pc'[s] = "wait" /\ op[s] \in {"call", "inject"} => hnd[cur[s]] # "closed"
    <3>1. SUFFICES ASSUME cur[s] \in handlers, hnd[cur[s]] = "closed", op[s] \in {"call", "inject"}
                   PROVE  FALSE
      BY <2>1
    <3>2. PICK u \in Services : pc[u] = "remove"
      BY <1>3, <3>1 DEF OpenInv, ClosedByDestroy
    <3>3. domain = u /\ domain = s
      BY <2>1, <3>1, <3>2 DEF DomainInv
    <3> QED  BY <2>1, <3>2, <3>3
  <2>3. Met(s)'
    BY <1>2, <2>1, <2>2 DEF OpenInv, Met
  <2> QED  BY <1>13, <1>14, <1>15, <2>1, <2>3 DEF OpenInv
<1>8. CASE HpiCall(s) \/ TimeoutCall(s) \/ InjectEvent(s)
  <2>1. /\ UNCHANGED <<handlers, hnd, nextid>> /\ pc[s] = "wait"
        /\ \/ pc'[s] \in {"abi", "release"} /\ UNCHANGED <<cur, op, todo>>
           \/ pc'[s] = "idle" /\ todo'[s] = {}
    BY <1>0, <1>8 DEF HpiCall, TimeoutCall, InjectEvent, Lock, Finish, Go
  <2>2. Met(s)'
    BY <1>2, <2>1 DEF OpenInv, Met
  <2> QED  BY <1>13, <1>14, <1>15, <2>1, <2>2 DEF OpenInv
<1>9. CASE HandlerRetry(s)
  <2>1. /\ UNCHANGED <<handlers, nextid, cur, op, todo>> /\ pc[s] = "wait"
        /\ pc'[s] = "release"
        /\ \A h \in Ids : /\ hnd'[h] = "closed" <=> hnd[h] = "closed"
                          /\ hnd'[h] = "none" <=> hnd[h] = "none"
    BY <1>0, <1>9 DEF HandlerRetry, Lock, Go
  <2>2. \A u \in Services : pc[u] \in {"wait", "abi"} => cur[u] \in Ids
    BY <1>0 DEF Shape, Placed, Working
  <2>3. ASSUME NEW u \in Services
        PROVE  Met(u)'
    BY <1>1, <1>2, <2>1, <2>2 DEF OpenInv, Met
  <2>4. ClosedByDestroy'
    BY <1>0, <1>1, <1>3, <2>1 DEF OpenInv, ClosedByDestroy
  <2> QED  BY <2>1, <2>3, <2>4 DEF OpenInv, NotYet
<1>10. CASE DestroyClose(s)
  <2>1. /\ UNCHANGED <<handlers, nextid, cur, op, todo>> /\ pc[s] = "wait" /\ op[s] = "destroy"
        /\ pc'[s] = "remove" /\ cur[s] \in Ids /\ lock[cur[s]] = None
        /\ \A h \in Ids : h # cur[s] => hnd'[h] = hnd[h]
        /\ \A h \in Ids : hnd'[h] = "none" <=> hnd[h] = "none"
    BY <1>0, <1>10 DEF DestroyClose, Lock, Go, Shape, Placed
  <2>2. \A u \in Services : pc[u] \in {"wait", "abi"} => cur[u] \in Ids
    BY <1>0 DEF Shape, Placed, Working
  <2>3. ASSUME NEW u \in Services, pc'[u] \in {"wait", "abi"}, op[u] \in {"call", "inject"}
        PROVE  hnd'[cur[u]] # "closed"
    <3>1. u # s /\ pc[u] \in {"wait", "abi"}
      BY <1>1, <2>1, <2>3
    <3>2. cur[u] # cur[s]
      <4>1. CASE pc[u] = "wait"
        <5>1. domain = u /\ domain = s
          BY <2>1, <2>3, <4>1 DEF DomainInv
        <5> QED  BY <3>1, <5>1
      <4>2. CASE pc[u] = "abi"
        BY <1>0, <2>1, <4>2 DEF LockInv, Working
      <4> QED  BY <3>1, <4>1, <4>2
    <3> QED  BY <2>1, <2>2, <2>3, <3>1, <3>2 DEF OpenInv, Met
  <2>4. ASSUME NEW h \in handlers', hnd'[h] = "closed"
        PROVE  \E u \in Services : pc'[u] = "remove" /\ cur'[u] = h
    <3>1. CASE h = cur[s]
      BY <2>1, <3>1
    <3>2. CASE h # cur[s]
      <4>1. PICK u \in Services : pc[u] = "remove" /\ cur[u] = h
        BY <1>0, <1>3, <2>1, <2>4, <3>2 DEF OpenInv, ClosedByDestroy
      <4> QED  BY <1>1, <2>1, <4>1
    <3> QED  BY <3>1, <3>2
  <2>5. ASSUME NEW u \in Services
        PROVE  Met(u)'
    BY <1>1, <1>2, <2>1, <2>3 DEF OpenInv, Met
  <2>6. ClosedByDestroy'
    BY <2>4 DEF ClosedByDestroy
  <2> QED  BY <2>1, <2>5, <2>6 DEF OpenInv, NotYet
<1>11. CASE ServiceRelease(s) \/ DestroyDrop(s)
  <2>1. /\ UNCHANGED <<handlers, hnd, nextid>> /\ pc[s] \in {"abi", "release", "drop"}
        /\ \/ /\ pc'[s] = "get" /\ op' = op /\ cur'[s] \in todo[s] /\ todo'[s] \subseteq todo[s]
           \/ pc'[s] = "idle" /\ todo'[s] = {}
    BY <1>0, <1>11 DEF ServiceRelease, DestroyDrop, Drop, DestroyDropRefs, Finish, Go
  <2>2. Met(s)'
    BY <1>2, <2>1 DEF OpenInv, Met
  <2> QED  BY <1>13, <1>14, <1>15, <2>1, <2>2 DEF OpenInv
<1>12. CASE DestroyRemove(s)
  <2>1. /\ UNCHANGED <<hnd, nextid, op, cur, todo>> /\ pc[s] = "remove" /\ pc'[s] = "drop"
        /\ handlers' = handlers \ {cur[s]}
    BY <1>0, <1>12 DEF DestroyRemove, Go
  <2>2. Met(s)'
    BY <1>2, <2>1 DEF OpenInv, Met
  <2>3. ClosedByDestroy'
    BY <1>1, <1>3, <2>1 DEF OpenInv, ClosedByDestroy
  <2> QED  BY <1>13, <1>15, <2>1, <2>2, <2>3 DEF OpenInv
<1> QED
  BY <1>4, <1>5, <1>6, <1>7, <1>8, <1>9, <1>10, <1>11, <1>12 DEF ServiceLock, ServiceStep

\* oh_close_handlers runs when no request is left.
LEMMA MainOpen ==
  ASSUME Shape, OpenInv, Stop \/ MainStep \/ UNCHANGED vars
  PROVE  OpenInv'
<1>1. CASE CloseHandlers
  <2>1. /\ UNCHANGED <<handlers, nextid, pc, cur, op, todo>> /\ main' # "serve" /\ main # "serve"
        /\ hnd \in [Ids -> {"none", "null", "open", "closed"}]
        /\ \A h \in Ids : hnd'[h] = "none" <=> hnd[h] = "none"
    BY <1>1 DEF CloseHandlers, threads, Shape, TableType
  <2>2. \A s \in Services : pc[s] = "idle"
    BY <2>1 DEF Shape, Placed
  <2>3. Opened \subseteq Opened'
    BY <1>1, OpenedStay DEF Opened
  <2> QED  BY <2>1, <2>2, <2>3 DEF OpenInv, NotYet, Met, ClosedByDestroy
<1>2. CASE Stop \/ ThreadedStop \/ Finit \/ UNCHANGED vars
  <2>1. /\ UNCHANGED <<handlers, hnd, nextid, pc, cur, op, todo>>
        /\ main' = "serve" => main = "serve"
    BY <1>2 DEF Stop, ThreadedStop, Finit, vars, table, threads, ending
  <2> QED  BY <2>1 DEF OpenInv, NotYet, Met, ClosedByDestroy, Opened
<1> QED  BY <1>1, <1>2 DEF MainStep

\* A background thread changes neither the domain nor an instance, and no
\* service thread.
LEMMA LoopOthers ==
  ASSUME Shape, DomainInv, OpenInv, NEW l \in Loops, RoundBegin(l) \/ RoundCall(l) \/ RoundStep(l)
  PROVE  DomainInv' /\ OpenInv'
<1>0. l \in Threads /\ l \notin Services /\ Services \subseteq Threads /\ Alone(l)
  BY LoopKinds, ConstantFacts DEF Kinds
<1>1. \A s \in Services : pc'[s] = pc[s] /\ cur'[s] = cur[s]
  BY <1>0 DEF Alone
<1>2. UNCHANGED <<handlers, hnd, nextid, domain, op, todo, main>>
  BY DEF RoundBegin, RoundCall, RoundStep, RoundGet, RoundRelease, RoundNext, Lock, Drop, table,
     ending
<1> QED  BY <1>1, <1>2 DEF DomainInv, OpenInv, NotYet, Met, ClosedByDestroy, Opened

----------------------------------------------------------------------------
(* The rounds.                                                             *)

\* A background thread keeps OwedInv: the next handler is the one after the
\* current one in the table.
LEMMA LoopOwed ==
  ASSUME Shape, OwedInv, NEW l \in Loops, RoundBegin(l) \/ RoundCall(l) \/ RoundStep(l)
  PROVE  OwedInv'
<1>0. /\ l \in Threads /\ Loops \subseteq Threads /\ Ids \subseteq Nat /\ 0 \notin Ids
      /\ pc \in [Threads -> PCs] /\ cur \in [Threads -> Ids \union {0}]
      /\ owed \in [Loops -> SUBSET Ids] /\ handlers \subseteq Ids
  BY ConstantFacts DEF Shape, ThreadType, TableType
<1>1. handlers' = handlers
  BY DEF RoundBegin, RoundCall, RoundStep, RoundGet, RoundRelease, RoundNext, Lock, Drop, table
<1>2. \A k \in Loops : k # l => pc'[k] = pc[k] /\ cur'[k] = cur[k] /\ owed'[k] = owed[k]
  BY <1>0 DEF RoundBegin, RoundCall, RoundStep, RoundGet, RoundRelease, RoundNext, RoundTo, Get, Go
<1>3. SUFFICES /\ owed'[l] \subseteq handlers
               /\ pc'[l] = "idle" \/ cur'[l] \notin handlers => owed'[l] = {}
               /\ pc'[l] \in {"get", "wait"} => \A h \in owed'[l] : h >= cur'[l]
               /\ pc'[l] \in {"abi", "release", "next"} => \A h \in owed'[l] : h > cur'[l]
  BY <1>1, <1>2 DEF OwedInv
<1>4. CASE RoundBegin(l)
  <2>1. /\ cur'[l] = NextId(0) /\ pc'[l] = IF NextId(0) = 0 THEN "idle" ELSE "get"
        /\ owed'[l] = handlers
    BY <1>0, <1>4 DEF RoundBegin, RoundTo, Go
  <2>2. /\ NextId(0) \in handlers \union {0}
        /\ NextId(0) # 0 => \A i \in handlers : i > 0 => i >= NextId(0)
        /\ NextId(0) = 0 => \A i \in handlers : ~(i > 0)
    BY NextIdFacts
  <2>3. \A i \in handlers : i > 0
    BY <1>0
  <2> QED  BY <1>0, <2>1, <2>2, <2>3
<1>5. CASE RoundNext(l)
  <2>0. cur[l] \in Ids /\ pc[l] = "next"
    BY <1>0, <1>5 DEF RoundNext, Shape, Placed
  <2> DEFINE c == cur[l]
  <2>1. /\ cur'[l] = NextId(c) /\ pc'[l] = IF NextId(c) = 0 THEN "idle" ELSE "get"
        /\ owed'[l] = owed[l]
    BY <1>0, <1>5 DEF RoundNext, RoundTo, Go
  <2>2. /\ NextId(c) \in handlers \union {0}
        /\ NextId(c) # 0 => \A i \in handlers : i > c => i >= NextId(c)
        /\ NextId(c) = 0 => c \notin handlers \/ \A i \in handlers : ~(i > c)
    BY <1>0, <2>0, NextIdFacts
  <2>3. /\ owed[l] \subseteq handlers /\ \A h \in owed[l] : h > c
        /\ c \notin handlers => owed[l] = {}
    BY <2>0 DEF OwedInv
  <2> HIDE DEF c
  <2> QED  BY <1>0, <2>1, <2>2, <2>3
<1>6. CASE RoundGet(l)
  <2>1. /\ pc[l] = "get"
        /\ \/ signal_stop /\ pc'[l] = "idle" /\ owed'[l] = {}
           \/ cur[l] \notin handlers /\ pc'[l] = "idle" /\ owed'[l] \subseteq owed[l]
           \/ pc'[l] = "wait" /\ cur' = cur /\ owed'[l] = owed[l]
    BY <1>0, <1>6 DEF RoundGet, Get, Go
  <2> QED  BY <1>0, <2>1 DEF OwedInv
<1>7. CASE RoundCall(l)
  <2>1. /\ pc[l] = "wait" /\ cur' = cur /\ owed'[l] = owed[l] \ {cur[l]}
        /\ pc'[l] \in {"abi", "release"}
    BY <1>0, <1>7 DEF RoundCall, Lock, Go
  <2>2. /\ owed[l] \subseteq handlers /\ \A h \in owed[l] : h >= cur[l]
        /\ cur[l] \notin handlers => owed[l] = {}
    BY <2>1 DEF OwedInv
  <2>3. cur[l] \in Ids /\ owed[l] \subseteq Ids
    BY <1>0, <2>1, <2>2 DEF Shape, Placed
  <2>4. \A h \in owed'[l] : h > cur[l]
    <3> TAKE h \in owed'[l]
    <3>1. h \in Nat /\ cur[l] \in Nat /\ h >= cur[l] /\ h # cur[l]
      BY <1>0, <2>1, <2>2, <2>3
    <3> QED  BY <3>1
  <2> QED  BY <2>1, <2>2, <2>4
<1>8. CASE RoundRelease(l)
  <2>1. pc[l] \in {"abi", "release"} /\ cur' = cur /\ owed' = owed /\ pc'[l] = "next"
    BY <1>0, <1>8 DEF RoundRelease, Go
  <2> QED  BY <2>1 DEF OwedInv
<1> QED  BY <1>4, <1>5, <1>6, <1>7, <1>8 DEF RoundStep

\* A destroyed handler is owed to nobody.
LEMMA ServiceOwed ==
  ASSUME Shape, OwedInv, NEW s \in Services,
         \/ ServiceLock(s) \/ ServiceStep(s) \/ HandlerCreate(s)
         \/ \E o \in Ops, h \in Ids : Request(s, o, h)
  PROVE  OwedInv'
<1>0. /\ s \in Threads /\ s \notin Loops /\ Loops \subseteq Threads
      /\ pc \in [Threads -> PCs] /\ cur \in [Threads -> Ids \union {0}]
  BY ConstantFacts DEF Shape, ThreadType
<1>1. \A l \in Loops : pc'[l] = pc[l] /\ cur'[l] = cur[l]
  BY <1>0 DEF ServiceLock, ServiceStep, HandlerCreate, Request, TakeDomain, HpiCall, TimeoutCall,
     InjectEvent, HandlerRetry, DestroyClose, ServiceGet, ServiceRelease, DestroyRemove, DestroyDrop,
     Finish, Get, Go, threads
<1>2. CASE DestroyRemove(s)
  <2>1. /\ handlers' = handlers \ {cur[s]}
        /\ \A l \in Loops : owed'[l] = IF cur[l] = cur[s] THEN {} ELSE owed[l] \ {cur[s]}
    BY <1>2 DEF DestroyRemove
  <2> QED  BY <1>1, <2>1 DEF OwedInv
<1>3. CASE ~DestroyRemove(s)
  <2>1. owed' = owed /\ handlers \subseteq handlers'
    BY <1>3 DEF ServiceLock, ServiceStep, HandlerCreate, Request, TakeDomain, HpiCall, TimeoutCall,
       InjectEvent, HandlerRetry, DestroyClose, ServiceGet, ServiceRelease, DestroyDrop, Lock, Drop,
       DestroyDropRefs, table
  <2> QED  BY <1>1, <2>1 DEF OwedInv
<1> QED  BY <1>2, <1>3

----------------------------------------------------------------------------
(* The theorems.                                                           *)

Inv == Shape /\ LockInv /\ DomainInv /\ OpenInv /\ RefInv /\ OwedInv

\* Every step keeps the whole invariant.
LEMMA NextInv == Inv /\ [Next]_vars => Inv'
<1> SUFFICES ASSUME Inv, [Next]_vars
             PROVE  Inv'
  OBVIOUS
<1> USE DEF Inv
<1>0. Loops \subseteq Threads /\ Services \subseteq Threads
  BY ConstantFacts
<1>1. ASSUME NEW l \in Loops, RoundBegin(l) \/ RoundCall(l) \/ RoundStep(l)
      PROVE  Inv'
  <2>1. Kinds(l) /\ l \in Threads
    BY <1>0, <1>1, LoopKinds
  <2> QED  BY <1>1, <2>1, LoopShape, KindsLock, KindsRef, LoopOthers, LoopOwed
<1>2. ASSUME NEW s \in Services,
             \/ ServiceLock(s) \/ ServiceStep(s)
             \/ \E o \in Ops, h \in Ids : Request(s, o, h)
      PROVE  Inv'
  <2>1. Kinds(s) /\ s \in Threads
    BY <1>0, <1>2, ServiceKinds
  <2> QED  BY <1>2, <2>1, ServiceShape, KindsLock, KindsRef, ServiceDomain, ServiceOpen, ServiceOwed
<1>3. ASSUME NEW s \in Services, HandlerCreate(s)
      PROVE  Inv'
  <2>1. LockInv'
    BY <1>3 DEF HandlerCreate, threads, LockInv
  <2> QED  BY <1>3, <2>1, ServiceShape, CreateRef, ServiceDomain, ServiceOpen, ServiceOwed
<1>4. CASE Stop \/ MainStep \/ UNCHANGED vars
  <2>1. UNCHANGED <<handlers, refcount, lock, freed, nextid, domain, pc, cur, op, owed>>
    BY <1>4 DEF Stop, MainStep, CloseHandlers, ThreadedStop, Finit, vars, table, threads
  <2>2. LockInv' /\ DomainInv' /\ OwedInv'
    BY <2>1 DEF LockInv, DomainInv, OwedInv
  <2> QED  BY <1>4, <2>1, <2>2, MainShape, MainOpen, StillRef
<1> QED  BY <1>1, <1>2, <1>3, <1>4 DEF Next

\* The invariant gives each of the properties.
LEMMA InvImplies == Inv => TypeOK /\ FreedWhenUnused /\ CallsMeetOpen /\ RoundComplete
<1> SUFFICES ASSUME Inv
             PROVE  TypeOK /\ FreedWhenUnused /\ CallsMeetOpen /\ RoundComplete
  OBVIOUS
<1> USE DEF Inv
<1>1. FreedWhenUnused
  <2> SUFFICES ASSUME NEW h \in 1 .. nextid - 1
               PROVE  h \in freed <=> (h \notin handlers /\ Holders(h) = {})
    BY DEF FreedWhenUnused
  <2>1. h \in Ids /\ h < nextid
    BY ConstantFacts DEF Shape, TableType, Ids
  <2>2. Exact(h)
    BY <2>1 DEF RefInv
  <2> QED  BY <2>1, <2>2 DEF Exact
<1>2. CallsMeetOpen
  BY DEF CallsMeetOpen, OpenInv, Met, Opened
<1>3. RoundComplete
  BY DEF RoundComplete, OwedInv
<1>4. ASSUME NEW h \in Ids
      PROVE  refcount[h] \in -1 .. Cardinality(Threads)
  <2>1. Exact(h)
    BY DEF RefInv
  <2>2. /\ Cardinality(Holders(h)) \in Nat /\ Cardinality(Threads) \in Nat
        /\ Cardinality(Holders(h)) <= Cardinality(Threads)
    BY HoldersFinite, ConstantFacts
  <2>3. \/ refcount[h] \in {-1, 0}
        \/ refcount[h] = Cardinality(Holders(h))
        \/ refcount[h] = Cardinality(Holders(h)) - 1
    BY <2>1 DEF Exact
  <2> QED  BY <2>2, <2>3
<1>5. TypeOK
  <2>1. refcount \in [Ids -> -1 .. Cardinality(Threads)]
    BY <1>4 DEF Shape, TableType
  <2> QED  BY <2>1 DEF TypeOK, Shape, TableType, ThreadType, PCs
<1> QED  BY <1>1, <1>2, <1>3, <1>5

\* Everything stays in its type; a reference count never exceeds the number
\* of threads and never falls below -1.
THEOREM TypeCorrect == Spec => []TypeOK
BY InitShape, InitInv, NextInv, InvImplies, PTL DEF Spec, Inv

\* oh_get_handler, oh_release_handler and oh_destroy_handler free a handler
\* exactly when it is out of the table and nobody waits for it or works with
\* it, however many threads hold it when it is destroyed.
THEOREM HandlersFreedWhenUnused == Spec => []FreedWhenUnused
BY InitShape, InitInv, NextInv, InvImplies, PTL DEF Spec, Inv

\* HPI calls and oHpiInjectEvent never enter a plugin with an instance that
\* oHpiHandlerDestroy or oh_close_handlers has closed.
THEOREM HandlerCallsMeetOpen == Spec => []CallsMeetOpen
BY InitShape, InitInv, NextInv, InvImplies, PTL DEF Spec, Inv

\* A round of oh_discovery or oh_harvest_events that ends has met every
\* handler it had to meet, with any handlers created and destroyed meanwhile.
THEOREM RoundsComplete == Spec => []RoundComplete
BY InitShape, InitInv, NextInv, InvImplies, PTL DEF Spec, Inv
=============================================================================
