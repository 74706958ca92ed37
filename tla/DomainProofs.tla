---------------------------- MODULE DomainProofs ----------------------------
(***************************************************************************)
(* Proofs about module Domain, for any resources, handlers and records and *)
(* any number of queued events.                                            *)
(***************************************************************************)
EXTENDS Domain, FiniteSetTheorems, SequenceTheorems, TLAPS

Tables == [next_id : Nat, list : SUBSET Alarms, update_count : 0 .. CountMod - 1,
           overflow : BOOLEAN, file : SUBSET Alarms]

Calls == {NoCall}
           \union [op : {"alarm", "entry"}, rid : Resources, sev : Severities]
           \union [op : {"remove"}, rid : Resources, entry : Entries]

\* Which kinds of event come from which resources and what they carry.
EventInv(e) ==
  /\ e.kind \in {"INSERTED", "HOTSWAP", "NOT_PRESENT"} => e.rid \in frus
  /\ e.kind = "ADDED" => e.rid \notin frus
  /\ e.kind \in {"ADDED", "INSERTED"} => ~e.failed
  /\ e.kind \in {"FAILURE", "INACCESSIBLE"} => e.failed
  /\ e.kind = "RESTORED" => ~e.failed
  /\ e.kind \in {"HOTSWAP", "NOT_PRESENT"} => e.changed
  /\ e.bare => e.kind \in {"FAILURE", "INACCESSIBLE", "RESTORED"}

\* Only such events are posted, by handlers and by clients.
QueueInv ==
  /\ \A i \in 1 .. Len(q) : EventInv(q[i])
  /\ client.op = "remove" => client.rid \in frus

\* The first n events of Q leave r out of an RPT where it is present or not:
\* it is not there or one of them removes it, and none brings it back.
Vanishes(Q, r, present, n) ==
  \E k \in 0 .. n :
    /\ IF k = 0 THEN ~present ELSE Q[k].rid = r /\ Q[k].kind = "NOT_PRESENT"
    /\ \A j \in k + 1 .. n : Q[j].rid = r => Q[j].kind = "NOT_PRESENT"

\* A FRU is announced only when the RPT does not know it.
AnnounceInv ==
  \A r \in frus :
    /\ \A i \in 1 .. Len(q) :
         q[i].rid = r /\ q[i].kind = "INSERTED" => Vanishes(q, r, Present(r), i - 1)
    /\ Owner[r] \in handlers /\ cache[r] = Absent => Vanishes(q, r, Present(r), Len(q))

\* The published events tell exactly which resources are failed.
PublishInv == \A r \in Resources : Failing(r) <=> r \in pubFailed

\* What RptAgrees compares of an entry.
Views == [failed : BOOLEAN, rdrs : SUBSET Rdrs] \union {Absent}
View(entry) ==
  IF entry = Absent THEN Absent ELSE [failed |-> entry.failed, rdrs |-> entry.rdrs]

\* How an event changes its resource, as the handler that posts it sees it.
Change(e, v, w) ==
  /\ e.kind \in {"ADDED", "INSERTED"} =>
       v = Absent /\ w = [failed |-> FALSE, rdrs |-> e.rdrs]
  /\ e.kind \in {"FAILURE", "INACCESSIBLE", "RESTORED"} =>
       v # Absent /\ w = [failed |-> e.kind # "RESTORED", rdrs |-> v.rdrs]
  /\ e.kind = "UPDATED" =>
       /\ v # Absent /\ e.failed = v.failed
       /\ v.rdrs \ e.gone \subseteq e.rdrs
       /\ w = [failed |-> v.failed, rdrs |-> e.rdrs]
  /\ e.kind = "HOTSWAP" => v # Absent /\ e.failed = v.failed /\ w = v
  /\ e.kind \in {"REMOVED", "NOT_PRESENT"} => w = Absent

\* The same, seen by resource r.
Passes(e, r, v, w) == IF e.rid = r THEN Change(e, v, w) ELSE w = v

\* The events of Q behind the n-th turn v into w for resource r.
Leads(Q, r, v, n, w) ==
  \E s \in [n .. Len(Q) -> Views] :
    /\ s[n] = v /\ s[Len(Q)] = w
    /\ \A i \in n + 1 .. Len(Q) : Passes(Q[i], r, s[i - 1], s[i])

\* No removal of r waits behind the n-th event.
Stays(Q, r, n) == \A i \in n + 1 .. Len(Q) : ~(Q[i].rid = r /\ Q[i].kind = "NOT_PRESENT")

\* What waits in the queue Q turns the view v of the RPT into the view w of the
\* handler; for a resource that a client removed, so that it is not known to be
\* in step, this starts at its next announcement.
Replays(Q, r, known, v, w) ==
  /\ known => Leads(Q, r, v, 0, w)
  /\ \A i \in 1 .. Len(Q) :
       Q[i].rid = r /\ Q[i].kind = "INSERTED" /\ Stays(Q, r, i)
         => Leads(Q, r, [failed |-> FALSE, rdrs |-> Q[i].rdrs], i, w)

ReplayInv ==
  \A r \in Resources : Owner[r] \in handlers =>
    Replays(q, r, r \notin removed, View(rpt[r]), View(cache[r]))

Inv == /\ TypeOK /\ QueueInv /\ AnnounceInv /\ PublishInv
       /\ HealthyNotAlarmed /\ ReplayInv

----------------------------------------------------------------------------
(* Entries and views. *)

\* An entry is not Absent.
LEMMA EntryPresent ==
  \A x \in Entries : x # Absent /\ x.failed \in BOOLEAN /\ x.sev \in Severities
                     /\ x.rdrs \in SUBSET Rdrs
<1>1. \A x \in Entries : x # Absent
  <2> SUFFICES ASSUME NEW x \in Entries, x = Absent PROVE FALSE
    OBVIOUS
  <2>1. DOMAIN x = {"failed", "sev", "rdrs"}
    BY DEF Entries
  <2>2. DOMAIN x = {"absent"}
    BY DEF Absent
  <2> QED  BY <2>1, <2>2
<1> QED  BY <1>1 DEF Entries

\* What a view is.
LEMMA ViewFacts ==
  /\ \A x \in Entries : View(x) = [failed |-> x.failed, rdrs |-> x.rdrs] /\ View(x) # Absent
  /\ View(Absent) = Absent
  /\ \A x \in Entries \union {Absent} : View(x) \in Views
  /\ \A b \in BOOLEAN, d \in SUBSET Rdrs :
       [failed |-> b, rdrs |-> d] \in Views /\ [failed |-> b, rdrs |-> d] # Absent
  /\ \A v \in Views : v # Absent => /\ v.failed \in BOOLEAN /\ v.rdrs \in SUBSET Rdrs
                                    /\ v = [failed |-> v.failed, rdrs |-> v.rdrs]
<1>1. \A b \in BOOLEAN, d \in SUBSET Rdrs : [failed |-> b, rdrs |-> d] # Absent
  <2> SUFFICES ASSUME NEW b \in BOOLEAN, NEW d \in SUBSET Rdrs,
                      [failed |-> b, rdrs |-> d] = Absent
               PROVE  FALSE
    OBVIOUS
  <2>1. DOMAIN [failed |-> b, rdrs |-> d] = {"failed", "rdrs"}
    OBVIOUS
  <2>2. DOMAIN Absent = {"absent"}
    BY DEF Absent
  <2> QED  BY <2>1, <2>2
<1>2. \A v \in Views : v # Absent => /\ v.failed \in BOOLEAN /\ v.rdrs \in SUBSET Rdrs
                                     /\ v = [failed |-> v.failed, rdrs |-> v.rdrs]
  BY DEF Views
<1>3. \A b \in BOOLEAN, d \in SUBSET Rdrs : [failed |-> b, rdrs |-> d] \in Views
  BY DEF Views
<1>4. \A x \in Entries : View(x) = [failed |-> x.failed, rdrs |-> x.rdrs] /\ View(x) # Absent
  BY <1>1, EntryPresent DEF View
<1>5. View(Absent) = Absent /\ Absent \in Views
  BY DEF View, Views
<1>6. \A x \in Entries \union {Absent} : View(x) \in Views
  BY <1>3, <1>4, <1>5, EntryPresent
<1> QED  BY <1>1, <1>2, <1>3, <1>4, <1>5, <1>6

----------------------------------------------------------------------------
(* Queues.  Q is a queue, e an event posted to it. *)

\* An event is posted.
LEMMA AppendFacts ==
  ASSUME NEW Q \in Seq(QEvents), NEW e \in QEvents
  PROVE  /\ Append(Q, e) \in Seq(QEvents) /\ Len(Append(Q, e)) = Len(Q) + 1
         /\ \A i \in 1 .. Len(Q) : Append(Q, e)[i] = Q[i]
         /\ Append(Q, e)[Len(Q) + 1] = e /\ Len(Q) \in Nat
OBVIOUS

\* The head of the queue is taken.
LEMMA TailFacts ==
  ASSUME NEW Q \in Seq(QEvents), Q # <<>>
  PROVE  /\ Tail(Q) \in Seq(QEvents) /\ Len(Tail(Q)) = Len(Q) - 1
         /\ \A i \in 1 .. Len(Q) - 1 : Tail(Q)[i] = Q[i + 1]
         /\ Head(Q) = Q[1] /\ Q[1] \in QEvents /\ Len(Q) \in Nat \ {0}
OBVIOUS

\* Several events are posted.
LEMMA ConcatFacts ==
  ASSUME NEW Q \in Seq(QEvents), NEW R \in Seq(QEvents)
  PROVE  /\ Q \o R \in Seq(QEvents) /\ Len(Q \o R) = Len(Q) + Len(R)
         /\ \A i \in 1 .. Len(Q) : (Q \o R)[i] = Q[i]
         /\ \A i \in Len(Q) + 1 .. Len(Q) + Len(R) :
              (Q \o R)[i] = R[i - Len(Q)] /\ i - Len(Q) \in 1 .. Len(R)
         /\ Len(Q) \in Nat /\ Len(R) \in Nat
OBVIOUS

\* More events that do not bring r back.
LEMMA VanishesMore ==
  ASSUME NEW Q, NEW R, NEW r, NEW p \in BOOLEAN, NEW n \in Nat, NEW m \in Nat, n <= m,
         Vanishes(Q, r, p, n), \A i \in 1 .. n : R[i] = Q[i],
         \A i \in n + 1 .. m : R[i].rid = r => R[i].kind = "NOT_PRESENT"
  PROVE  Vanishes(R, r, p, m)
<1>1. PICK k \in 0 .. n :
        /\ IF k = 0 THEN ~p ELSE Q[k].rid = r /\ Q[k].kind = "NOT_PRESENT"
        /\ \A j \in k + 1 .. n : Q[j].rid = r => Q[j].kind = "NOT_PRESENT"
  BY DEF Vanishes
<1>2. k \in 0 .. m
  OBVIOUS
<1>3. IF k = 0 THEN ~p ELSE R[k].rid = r /\ R[k].kind = "NOT_PRESENT"
  BY <1>1
<1>4. \A j \in k + 1 .. m : R[j].rid = r => R[j].kind = "NOT_PRESENT"
  <2> TAKE j \in k + 1 .. m
  <2>1. CASE j \in k + 1 .. n
    BY <1>1, <2>1
  <2>2. CASE j \in n + 1 .. m
    BY <2>2
  <2> QED  BY <2>1, <2>2
<1> QED  BY <1>2, <1>3, <1>4 DEF Vanishes

\* A removal at the end.
LEMMA VanishesRemoved ==
  ASSUME NEW Q, NEW r, NEW p \in BOOLEAN, NEW n \in Nat \ {0},
         Q[n].rid = r, Q[n].kind = "NOT_PRESENT"
  PROVE  Vanishes(Q, r, p, n)
<1>1. n \in 0 .. n /\ n # 0 /\ n + 1 .. n = {}
  OBVIOUS
<1> QED  BY <1>1 DEF Vanishes

\* The head of the queue is taken; w tells whether r is present then.
LEMMA VanishesTail ==
  ASSUME NEW Q \in Seq(QEvents), Q # <<>>, NEW r, NEW p \in BOOLEAN, NEW w \in BOOLEAN,
         NEW n \in 1 .. Len(Q), Vanishes(Q, r, p, n),
         Q[1].rid # r => w = p, Q[1].rid = r /\ Q[1].kind = "NOT_PRESENT" => ~w
  PROVE  Vanishes(Tail(Q), r, w, n - 1)
<1>1. PICK k \in 0 .. n :
        /\ IF k = 0 THEN ~p ELSE Q[k].rid = r /\ Q[k].kind = "NOT_PRESENT"
        /\ \A j \in k + 1 .. n : Q[j].rid = r => Q[j].kind = "NOT_PRESENT"
  BY DEF Vanishes
<1>2. \A i \in 1 .. Len(Q) - 1 : Tail(Q)[i] = Q[i + 1]
  BY TailFacts
<1>3. Len(Q) \in Nat
  BY TailFacts
<1> DEFINE m == IF k = 0 THEN 0 ELSE k - 1
<1>4. m \in 0 .. n - 1
  BY <1>3
<1>5. IF m = 0 THEN ~w ELSE Tail(Q)[m].rid = r /\ Tail(Q)[m].kind = "NOT_PRESENT"
  <2>1. CASE k = 0
    <3>1. Q[1].rid = r => Q[1].kind = "NOT_PRESENT"
      BY <1>1, <2>1
    <3> QED  BY <1>1, <2>1, <3>1
  <2>2. CASE k = 1
    BY <1>1, <2>2
  <2>3. CASE k > 1
    <3>1. m \in 1 .. Len(Q) - 1 /\ m + 1 = k /\ m # 0
      BY <1>3, <2>3
    <3>2. Tail(Q)[m] = Q[k]
      BY <1>2, <3>1
    <3> QED  BY <1>1, <2>3, <3>1, <3>2
  <2> QED  BY <2>1, <2>2, <2>3
<1>6. \A j \in m + 1 .. n - 1 : Tail(Q)[j].rid = r => Tail(Q)[j].kind = "NOT_PRESENT"
  <2> TAKE j \in m + 1 .. n - 1
  <2>1. j + 1 \in k + 1 .. n /\ j \in 1 .. Len(Q) - 1
    BY <1>3
  <2>2. Tail(Q)[j] = Q[j + 1]
    BY <1>2, <2>1
  <2> QED  BY <1>1, <2>1, <2>2
<1> HIDE DEF m
<1> QED  BY <1>4, <1>5, <1>6 DEF Vanishes

\* When nothing is left the RPT does not have r.
LEMMA VanishesNone ==
  ASSUME NEW Q, NEW r, NEW p \in BOOLEAN, Vanishes(Q, r, p, 0)
  PROVE  ~p
BY DEF Vanishes

\* A handler posts e, which changes w to x.
LEMMA LeadsAppend ==
  ASSUME NEW Q \in Seq(QEvents), NEW e \in QEvents, NEW r, NEW v, NEW w, NEW x \in Views,
         NEW n \in 0 .. Len(Q), Leads(Q, r, v, n, w), Passes(e, r, w, x)
  PROVE  Leads(Append(Q, e), r, v, n, x)
<1>1. PICK s \in [n .. Len(Q) -> Views] :
        /\ s[n] = v /\ s[Len(Q)] = w
        /\ \A i \in n + 1 .. Len(Q) : Passes(Q[i], r, s[i - 1], s[i])
  BY DEF Leads
<1>2. PICK R : R = Append(Q, e)
  OBVIOUS
<1>3. PICK m \in Nat : m = Len(Q)
  OBVIOUS
<1>4. Len(R) = m + 1 /\ R[m + 1] = e /\ \A i \in 1 .. m : R[i] = Q[i]
  BY <1>2, <1>3, AppendFacts
<1> DEFINE t == [i \in n .. m + 1 |-> IF i = m + 1 THEN x ELSE s[i]]
<1>5. t \in [n .. m + 1 -> Views] /\ t[n] = v /\ t[m + 1] = x
  BY <1>1, <1>3
<1>6. \A i \in n + 1 .. m + 1 : Passes(R[i], r, t[i - 1], t[i])
  <2> TAKE i \in n + 1 .. m + 1
  <2>1. CASE i = m + 1
    <3>1. t[i - 1] = w /\ t[i] = x /\ R[i] = e
      BY <1>1, <1>3, <1>4, <2>1
    <3> QED  BY <3>1
  <2>2. CASE i # m + 1
    <3>1. t[i - 1] = s[i - 1] /\ t[i] = s[i] /\ R[i] = Q[i] /\ i \in n + 1 .. Len(Q)
      BY <1>3, <1>4, <2>2
    <3> QED  BY <1>1, <3>1
  <2> QED  BY <2>1, <2>2
<1> HIDE DEF t
<1> QED  BY <1>2, <1>4, <1>5, <1>6 DEF Leads

\* Events of others are posted.
LEMMA LeadsOthers ==
  ASSUME NEW Q \in Seq(QEvents), NEW P \in Seq(QEvents), NEW r, NEW v, NEW w,
         NEW n \in 0 .. Len(Q), Leads(Q, r, v, n, w),
         \A i \in 1 .. Len(P) : P[i].rid # r
  PROVE  Leads(Q \o P, r, v, n, w)
<1>1. PICK s \in [n .. Len(Q) -> Views] :
        /\ s[n] = v /\ s[Len(Q)] = w
        /\ \A i \in n + 1 .. Len(Q) : Passes(Q[i], r, s[i - 1], s[i])
  BY DEF Leads
<1>2. PICK R : R = Q \o P
  OBVIOUS
<1>3. PICK m \in Nat : m = Len(Q)
  OBVIOUS
<1>4. PICK l \in Nat : l = Len(P)
  OBVIOUS
<1>5. /\ Len(R) = m + l /\ \A i \in 1 .. m : R[i] = Q[i]
      /\ \A i \in m + 1 .. m + l : R[i].rid # r
  BY <1>2, <1>3, <1>4, ConcatFacts
<1> DEFINE t == [i \in n .. m + l |-> IF i > m THEN w ELSE s[i]]
<1>6. t \in [n .. m + l -> Views] /\ t[n] = v /\ t[m + l] = w
  BY <1>1, <1>3
<1>7. \A i \in n + 1 .. m + l : Passes(R[i], r, t[i - 1], t[i])
  <2> TAKE i \in n + 1 .. m + l
  <2>1. CASE i > m
    <3>1. t[i - 1] = w /\ t[i] = w /\ R[i].rid # r
      BY <1>1, <1>3, <1>5, <2>1
    <3> QED  BY <3>1 DEF Passes
  <2>2. CASE ~(i > m)
    <3>1. t[i - 1] = s[i - 1] /\ t[i] = s[i] /\ R[i] = Q[i] /\ i \in n + 1 .. Len(Q)
      BY <1>3, <1>5, <2>2
    <3> QED  BY <1>1, <3>1
  <2> QED  BY <2>1, <2>2
<1> HIDE DEF t
<1> QED  BY <1>2, <1>5, <1>6, <1>7 DEF Leads

\* The head of the queue is taken.
LEMMA LeadsTail ==
  ASSUME NEW Q \in Seq(QEvents), Q # <<>>, NEW r, NEW v, NEW w,
         NEW n \in 1 .. Len(Q), Leads(Q, r, v, n, w)
  PROVE  Leads(Tail(Q), r, v, n - 1, w)
<1>1. PICK s \in [n .. Len(Q) -> Views] :
        /\ s[n] = v /\ s[Len(Q)] = w
        /\ \A i \in n + 1 .. Len(Q) : Passes(Q[i], r, s[i - 1], s[i])
  BY DEF Leads
<1>2. PICK R : R = Tail(Q)
  OBVIOUS
<1>3. PICK m \in Nat \ {0} : m = Len(Q)
  BY TailFacts
<1>4. Len(R) = m - 1 /\ \A i \in 1 .. m - 1 : R[i] = Q[i + 1]
  BY <1>2, <1>3, TailFacts
<1> DEFINE t == [i \in n - 1 .. m - 1 |-> s[i + 1]]
<1>5. t \in [n - 1 .. m - 1 -> Views] /\ t[n - 1] = v /\ t[m - 1] = w
  BY <1>1, <1>3
<1>6. \A i \in (n - 1) + 1 .. m - 1 : Passes(R[i], r, t[i - 1], t[i])
  <2> TAKE i \in (n - 1) + 1 .. m - 1
  <2>1. PICK j : j = i + 1
    OBVIOUS
  <2>2. t[i - 1] = s[j - 1] /\ t[i] = s[j] /\ R[i] = Q[j] /\ j \in n + 1 .. Len(Q)
    BY <1>3, <1>4, <2>1
  <2> QED  BY <1>1, <2>2
<1> HIDE DEF t
<1> QED  BY <1>2, <1>4, <1>5, <1>6 DEF Leads

\* What the head of the queue makes of v.
LEMMA LeadsHead ==
  ASSUME NEW Q \in Seq(QEvents), Q # <<>>, NEW r, NEW v, NEW w, Leads(Q, r, v, 0, w)
  PROVE  \E x \in Views : Passes(Q[1], r, v, x) /\ Leads(Tail(Q), r, x, 0, w)
<1>1. PICK s \in [0 .. Len(Q) -> Views] :
        /\ s[0] = v /\ s[Len(Q)] = w
        /\ \A i \in 0 + 1 .. Len(Q) : Passes(Q[i], r, s[i - 1], s[i])
  BY DEF Leads
<1>2. PICK m \in Nat \ {0} : m = Len(Q)
  BY TailFacts
<1>3. PICK x \in Views : x = s[1]
  BY <1>2
<1>4. Passes(Q[1], r, v, x)
  BY <1>1, <1>2, <1>3
<1>5. Leads(Q, r, x, 1, w)
  <2> DEFINE t == [i \in 1 .. m |-> s[i]]
  <2>1. t \in [1 .. m -> Views] /\ t[1] = x /\ t[m] = w
    BY <1>1, <1>2, <1>3
  <2>2. \A i \in 1 + 1 .. m : Passes(Q[i], r, t[i - 1], t[i])
    <3> TAKE i \in 1 + 1 .. m
    <3>1. t[i - 1] = s[i - 1] /\ t[i] = s[i] /\ i \in 0 + 1 .. Len(Q)
      BY <1>2
    <3> QED  BY <1>1, <3>1
  <2> HIDE DEF t
  <2> QED  BY <1>2, <2>1, <2>2 DEF Leads
<1>6. Leads(Tail(Q), r, x, 1 - 1, w)
  BY <1>2, <1>5, LeadsTail
<1>7. 1 - 1 = 0
  OBVIOUS
<1> QED  BY <1>4, <1>6, <1>7

\* Nothing waits behind the last event.
LEMMA LeadsEnd ==
  ASSUME NEW Q \in Seq(QEvents), NEW r, NEW v \in Views
  PROVE  Leads(Q, r, v, Len(Q), v)
<1>1. PICK m \in Nat : m = Len(Q)
  OBVIOUS
<1> DEFINE s == [i \in m .. m |-> v]
<1>2. s \in [m .. m -> Views] /\ s[m] = v /\ m + 1 .. m = {}
  BY <1>1
<1> HIDE DEF s
<1> QED  BY <1>1, <1>2 DEF Leads

\* With an empty queue the ends are equal.
LEMMA LeadsNowhere ==
  ASSUME NEW r, NEW v, NEW w, Leads(<<>>, r, v, 0, w)
  PROVE  v = w
BY DEF Leads

----------------------------------------------------------------------------
(* The alarm table. *)

\* __update_dat changes neither the alarms nor the type.
LEMMA UpdateFacts ==
  ASSUME NEW d \in Tables
  PROVE  UpdateDat(d) \in Tables /\ UpdateDat(d).list = d.list
<1>1. (d.update_count + 1) % CountMod \in 0 .. CountMod - 1
  BY LimitsAssumption DEF Tables
<1> QED  BY <1>1 DEF Tables, UpdateDat

\* oh_add_alarm adds at most the alarm it is given.
LEMMA AddFacts ==
  ASSUME NEW d \in Tables, NEW c \in Conditions
  PROVE  /\ AddAlarm(d, c) \in Tables
         /\ \A a \in AddAlarm(d, c).list : a \in d.list \/ a.cond = c
<1> DEFINE new == [id |-> NewId(d), ack |-> FALSE, cond |-> c]
           list == d.list \union {new}
           x == [d EXCEPT !.next_id = NewId(d), !.list = list,
                          !.file = IF DatSave THEN list ELSE @]
<1>1. NewId(d) \in Nat /\ new \in Alarms /\ new.cond = c
  BY DEF Tables, NewId, Alarms
<1>2. x \in Tables /\ x.list = list
  BY <1>1 DEF Tables
<1>3. UpdateDat(x) \in Tables /\ UpdateDat(x).list = list
  BY <1>2, UpdateFacts
<1>4. [d EXCEPT !.overflow = TRUE] \in Tables /\ [d EXCEPT !.overflow = TRUE].list = d.list
  BY DEF Tables
<1>5. AddAlarm(d, c) \in {[d EXCEPT !.overflow = TRUE], d, UpdateDat(x)}
  BY DEF AddAlarm
<1>6. \A a \in list : a \in d.list \/ a.cond = c
  BY <1>1
<1> HIDE DEF x, list
<1> QED  BY <1>3, <1>4, <1>5, <1>6

\* oh_remove_alarm removes exactly the alarms that match.
LEMMA RemoveFacts ==
  ASSUME NEW d \in Tables, NEW gone
  PROVE  RemoveAlarms(d, gone) \in Tables /\ RemoveAlarms(d, gone).list = d.list \ gone
<1> DEFINE list == d.list \ gone
           x == [d EXCEPT !.list = list,
                          !.overflow = @ /\ ~(SizeLimit # 0 /\ ~SizeFull(list))]
<1>1. x \in Tables /\ x.list = list
  BY DEF Tables
<1>2. UpdateDat(x) \in Tables /\ UpdateDat(x).list = list
  BY <1>1, UpdateFacts
<1>3. RemoveAlarms(d, gone) = UpdateDat(x)
  BY DEF RemoveAlarms
<1> QED  BY <1>2, <1>3

\* Table y has no resource alarm of another resource that x does not have.
Spares(x, y, r) ==
  \A o \in Resources \ {r} : AlarmsOf(y, "RESOURCE", o) \subseteq AlarmsOf(x, "RESOURCE", o)

\* oh_detect_resource_alarm touches only the alarms of its resource, and leaves
\* none of them when it is not failed.
LEMMA DetectFacts ==
  ASSUME NEW d \in Tables, NEW r \in Resources, NEW failed \in BOOLEAN,
         NEW sev \in Severities, NEW y, y = DetectResource(d, r, failed, sev)
  PROVE  y \in Tables /\ Spares(d, y, r) /\ (~failed => AlarmsOf(y, "RESOURCE", r) = {})
<1> DEFINE c == Cond("RESOURCE", sev, r, None, None)
<1>1. CASE failed /\ Alarming(sev)
  <2>1. c \in Conditions /\ c.rid = r
    BY DEF Cond, Conditions, Types
  <2>2. y = AddAlarm(d, c)
    BY <1>1 DEF DetectResource
  <2>3. y \in Tables /\ \A a \in y.list : a \in d.list \/ a.cond = c
    BY <2>1, <2>2, AddFacts
  <2>4. Spares(d, y, r)
    BY <2>1, <2>3 DEF Spares, AlarmsOf
  <2> QED  BY <1>1, <2>3, <2>4
<1>2. CASE ~(failed /\ Alarming(sev))
  <2>1. y = RemoveAlarms(d, AlarmsOf(d, "RESOURCE", r))
    BY <1>2 DEF DetectResource
  <2>2. y \in Tables /\ y.list = d.list \ AlarmsOf(d, "RESOURCE", r)
    BY <2>1, RemoveFacts
  <2>3. Spares(d, y, r) /\ AlarmsOf(y, "RESOURCE", r) = {}
    BY <2>2 DEF Spares, AlarmsOf
  <2> QED  BY <2>2, <2>3
<1> QED  BY <1>1, <1>2

\* oh_remove_resource_alarms only removes.
LEMMA RemoveResourceFacts ==
  ASSUME NEW d \in Tables, NEW r \in Resources, NEW all \in BOOLEAN,
         NEW y, y = RemoveResourceAlarms(d, r, all)
  PROVE  y \in Tables /\ y.list \subseteq d.list
<1> DEFINE one == RemoveAlarms(d, AlarmsOf(d, "RESOURCE", r))
           two == RemoveAlarms(one, AlarmsOf(one, "OEM", r))
           three == RemoveAlarms(two, AlarmsOf(two, "SENSOR", r))
<1>1. one \in Tables /\ one.list \subseteq d.list
  BY RemoveFacts
<1>2. two \in Tables /\ two.list \subseteq one.list
  <2> HIDE DEF one
  <2> QED  BY <1>1, RemoveFacts
<1>3. three \in Tables /\ three.list \subseteq two.list
  <2> HIDE DEF two
  <2> QED  BY <1>2, RemoveFacts
<1>4. y \in {one, three}
  BY DEF RemoveResourceAlarms
<1> HIDE DEF one, two, three
<1> QED  BY <1>1, <1>2, <1>3, <1>4

----------------------------------------------------------------------------
(* process_event. *)

\* What the event says of the resource's failure.
Failure(e) ==
  IF e.kind \in {"FAILURE", "INACCESSIBLE", "RESTORED"} THEN e.kind # "RESTORED" ELSE e.failed

\* Two events that differ in their resource entry only.
Alike(e, f) ==
  /\ e \in QEvents /\ f \in QEvents
  /\ f.kind = e.kind /\ f.rid = e.rid /\ f.rdrs = e.rdrs /\ f.gone = e.gone
  /\ f.changed = e.changed

\* An event that is not dropped has an entry with the right flag.
LEMMA EventCompleted ==
  ASSUME TypeOK, NEW h \in QEvents, EventInv(h), NEW c, c = Completed(h),
         NEW f, f = Resolve(c)
  PROVE  /\ Dropped(c) <=> h.bare /\ ~Present(h.rid)
         /\ Dropped(c) => c = h
         /\ Alike(h, c) /\ Alike(h, f)
         /\ ~Dropped(c) => ~f.bare /\ f.failed = Failure(h)
<1>1. Present(h.rid) => rpt[h.rid] \in Entries
  BY DEF TypeOK, Present, QEvents
<1>2. CASE h.bare /\ Present(h.rid)
  <2>1. PICK b \in BOOLEAN : b = rpt[h.rid].failed
    BY <1>1, <1>2, EntryPresent
  <2>2. PICK v \in Severities : v = rpt[h.rid].sev
    BY <1>1, <1>2, EntryPresent
  <2>3. c = [h EXCEPT !.bare = FALSE, !.failed = b, !.sev = v]
    BY <1>2, <2>1, <2>2 DEF Completed
  <2>4. Alike(h, c) /\ c.failed = b /\ c.bare = FALSE
    BY <2>3 DEF Alike, QEvents
  <2>5. h.kind \in {"FAILURE", "INACCESSIBLE", "RESTORED"} /\ ~Dropped(c)
    BY <1>2, <2>4 DEF EventInv, Dropped, Alike
  <2>6. Failing(h.rid) <=> b
    BY <1>2, <2>1 DEF Failing
  <2>7. f = [c EXCEPT !.failed = Failure(h)]
    BY <2>4, <2>5, <2>6 DEF Resolve, Failure, Alike
  <2>8. Failure(h) \in BOOLEAN
    BY DEF Failure, QEvents
  <2>9. Alike(h, f) /\ f.failed = Failure(h) /\ ~f.bare
    BY <2>4, <2>7, <2>8 DEF Alike, QEvents
  <2> QED  BY <1>2, <2>4, <2>5, <2>9
<1>3. CASE ~(h.bare /\ Present(h.rid))
  <2>1. c = h
    BY <1>3 DEF Completed
  <2>2. Alike(h, c)
    BY <2>1 DEF Alike
  <2>3. Dropped(c) <=> h.bare
    BY <2>1 DEF Dropped, EventInv
  <2>4. Failure(h) \in BOOLEAN
    BY DEF Failure, QEvents
  <2>5. f = [h EXCEPT !.failed = Failure(h)]
    BY <2>1 DEF Resolve, Failure, EventInv, QEvents
  <2>6. Alike(h, f) /\ f.failed = Failure(h) /\ f.bare = h.bare
    BY <2>4, <2>5 DEF Alike, QEvents
  <2> QED  BY <1>3, <2>1, <2>2, <2>3, <2>6
<1> QED  BY <1>2, <1>3

\* The entry an event leaves in the RPT.
LEMMA EntryMade ==
  ASSUME TypeOK, NEW e \in QEvents, NEW x, x = NewEntry(e)
  PROVE  /\ e.kind \in {"REMOVED", "NOT_PRESENT"} => x = Absent
         /\ e.kind \notin {"REMOVED", "NOT_PRESENT"} =>
              /\ x \in Entries /\ x.failed = e.failed
              /\ e.kind \in {"ADDED", "INSERTED"} /\ ~Present(e.rid)
                   => x.rdrs = e.rdrs
              /\ e.kind = "UPDATED" /\ Present(e.rid)
                   => x.rdrs = (rpt[e.rid].rdrs \ e.gone) \union e.rdrs
              /\ e.kind \in {"FAILURE", "INACCESSIBLE", "RESTORED", "HOTSWAP"} /\ Present(e.rid)
                   => x.rdrs = rpt[e.rid].rdrs
<1>1. CASE e.kind \in {"REMOVED", "NOT_PRESENT"}
  BY <1>1 DEF NewEntry
<1>2. CASE e.kind \notin {"REMOVED", "NOT_PRESENT"}
  <2>1. PICK old : old = IF Present(e.rid) THEN rpt[e.rid].rdrs ELSE {}
    OBVIOUS
  <2>2. old \in SUBSET Rdrs
    <3>1. Present(e.rid) => rpt[e.rid] \in Entries
      BY DEF TypeOK, Present, QEvents
    <3> QED  BY <2>1, <3>1, EntryPresent
  <2>3. PICK d : d = Records(e, old)
    OBVIOUS
  <2>4. /\ e.kind \in {"ADDED", "UPDATED"} => d = (old \ e.gone) \union e.rdrs
        /\ e.kind = "INSERTED" /\ ~Present(e.rid) => d = old \union e.rdrs
        /\ ~(e.kind \in {"ADDED", "UPDATED"}) /\ ~(e.kind = "INSERTED" /\ ~Present(e.rid))
             => d = old
    BY <2>3 DEF Records
  <2>5. d \in SUBSET Rdrs
    BY <2>2, <2>4 DEF QEvents
  <2>6. x = [failed |-> e.failed, sev |-> e.sev, rdrs |-> d]
    BY <1>2, <2>1, <2>3 DEF NewEntry
  <2>7. x \in Entries /\ x.failed = e.failed /\ x.rdrs = d
    BY <2>5, <2>6 DEF Entries, QEvents
  <2> QED  BY <1>2, <2>1, <2>4, <2>7
<1> QED  BY <1>1, <1>2

\* What oh_detect_event_alarm does to the table.
LEMMA EventDetected ==
  ASSUME TypeOK, NEW e \in QEvents, NEW y, y = DetectEvent(e),
         e.bare => e.kind \in {"FAILURE", "INACCESSIBLE", "RESTORED"}
  PROVE  /\ y \in Tables /\ Spares(dat, y, e.rid)
         /\ e.kind \notin {"INSERTED", "HOTSWAP", "NOT_PRESENT"} /\ ~e.bare /\ ~e.failed
              => AlarmsOf(y, "RESOURCE", e.rid) = {}
<1>1. dat \in Tables /\ e.rid \in Resources /\ e.sev \in Severities /\ e.failed \in BOOLEAN
  BY DEF TypeOK, Tables, QEvents
<1>2. CASE e.kind \in {"INSERTED", "HOTSWAP"}
  <2>1. y = dat
    BY <1>2 DEF DetectEvent
  <2> QED  BY <1>1, <1>2, <2>1 DEF Spares
<1>3. CASE e.kind = "NOT_PRESENT"
  <2>1. y = RemoveResourceAlarms(dat, e.rid, TRUE)
    BY <1>3 DEF DetectEvent
  <2>2. y \in Tables /\ y.list \subseteq dat.list
    BY <1>1, <2>1, RemoveResourceFacts
  <2> QED  BY <1>3, <2>2 DEF Spares, AlarmsOf
<1>4. CASE e.kind \notin {"INSERTED", "HOTSWAP", "NOT_PRESENT"} /\ e.bare
  <2>1. PICK b \in BOOLEAN : b <=> e.kind = "FAILURE"
    OBVIOUS
  <2>2. y = IF b /\ ~Alarming(e.sev) THEN dat ELSE DetectResource(dat, e.rid, b, e.sev)
    BY <1>4, <2>1 DEF DetectEvent, DetectResourceEvent, DetectResource
  <2>3. CASE b /\ ~Alarming(e.sev)
    BY <1>1, <1>4, <2>2, <2>3 DEF Spares
  <2>4. CASE ~(b /\ ~Alarming(e.sev))
    BY <1>1, <1>4, <2>2, <2>4, DetectFacts
  <2> QED  BY <2>3, <2>4
<1>5. CASE e.kind \notin {"INSERTED", "HOTSWAP", "NOT_PRESENT"} /\ ~e.bare
  <2>1. y = DetectResource(dat, e.rid, e.failed, e.sev)
    BY <1>5 DEF DetectEvent
  <2> QED  BY <1>1, <1>5, <2>1, DetectFacts
<1> QED  BY <1>2, <1>3, <1>4, <1>5

\* An event is passed over or makes its resource's entry.
Passed(h) == h.bare /\ ~Present(h.rid) /\ rpt' = rpt /\ pubFailed' = pubFailed /\ removed' = removed
Made(h) ==
  \E c, f \in QEvents :
    /\ Alike(h, c) /\ Alike(h, f) /\ ~f.bare /\ f.failed = Failure(h)
    /\ h.bare => Present(h.rid)
    /\ rpt' = [rpt EXCEPT ![h.rid] = NewEntry(f)]
    /\ dat' = DetectEvent(f)
    /\ pubFailed' = IF Published(c) THEN Learn(f) ELSE pubFailed
    /\ removed' = IF h.kind = "INSERTED" /\ ~Present(h.rid) /\ ~Leaving(h.rid)
                  THEN removed \ {h.rid} ELSE removed

\* process_event does one or the other, and spares the alarms of other resources.
LEMMA Processed ==
  ASSUME TypeOK, QueueInv, ProcessEvent
  PROVE  /\ q # <<>> /\ q[1] \in QEvents /\ EventInv(q[1])
         /\ dat' \in Tables /\ Spares(dat, dat', q[1].rid)
         /\ Passed(q[1]) \/ Made(q[1])
         /\ q' = Tail(q) /\ frus' = frus /\ cache' = cache /\ handlers' = handlers
         /\ client' = client
<1>1. q \in Seq(QEvents) /\ q # <<>>
  BY DEF TypeOK, ProcessEvent
<1>2. PICK h \in QEvents : h = q[1] /\ h = Head(q) /\ EventInv(h)
  <2>1. Head(q) = q[1] /\ q[1] \in QEvents /\ 1 \in 1 .. Len(q)
    BY <1>1, TailFacts
  <2> QED  BY <2>1 DEF QueueInv
<1>3. PICK c : c = Completed(h)
  OBVIOUS
<1>4. PICK f : f = Resolve(c)
  OBVIOUS
<1>5. /\ Dropped(c) <=> h.bare /\ ~Present(h.rid)
      /\ Dropped(c) => c = h
      /\ Alike(h, c) /\ Alike(h, f) /\ (~Dropped(c) => ~f.bare /\ f.failed = Failure(h))
  BY <1>2, <1>3, <1>4, EventCompleted
<1>6. /\ q' = Tail(q) /\ frus' = frus /\ cache' = cache /\ handlers' = handlers
      /\ client' = client
  BY DEF ProcessEvent
<1>7. CASE Dropped(c)
  <2>1. dat' = DetectEvent(c) /\ rpt' = rpt /\ pubFailed' = pubFailed /\ removed' = removed
    BY <1>2, <1>3, <1>7 DEF ProcessEvent
  <2>2. dat' \in Tables /\ Spares(dat, dat', h.rid)
    BY <1>2, <1>5, <1>7, <2>1, EventDetected DEF EventInv
  <2>3. Passed(h)
    BY <1>5, <1>7, <2>1 DEF Passed
  <2> QED  BY <1>1, <1>2, <1>6, <2>2, <2>3
<1>8. CASE ~Dropped(c)
  <2>1. /\ rpt' = [rpt EXCEPT ![c.rid] = NewEntry(f)] /\ dat' = DetectEvent(f)
        /\ pubFailed' = IF Published(c) THEN Learn(f) ELSE pubFailed
        /\ removed' = IF c.kind = "INSERTED" /\ ~Present(c.rid) /\ ~Leaving(c.rid)
                      THEN removed \ {c.rid} ELSE removed
    BY <1>2, <1>3, <1>4, <1>8 DEF ProcessEvent
  <2>2. c \in QEvents /\ f \in QEvents /\ c.kind = h.kind /\ c.rid = h.rid /\ f.rid = h.rid
    BY <1>5 DEF Alike
  <2>3. dat' \in Tables /\ Spares(dat, dat', h.rid)
    BY <1>5, <1>8, <2>1, <2>2, EventDetected
  <2>4. Made(h)
    BY <1>5, <1>8, <2>1, <2>2 DEF Made
  <2> QED  BY <1>1, <1>2, <1>6, <2>3, <2>4
<1> QED  BY <1>7, <1>8

----------------------------------------------------------------------------
(* Every step is a handler's post, a removal a client posts, the removals    *)
(* oHpiHandlerDestroy posts, process_event, or a call that changes neither   *)
(* the queue nor what RptAgrees compares.                                    *)

PostStep(r, e, x) ==
  /\ r \in Resources /\ e \in QEvents /\ e.rid = r /\ EventInv(e) /\ Owner[r] \in handlers
  /\ x \in Entries \union {Absent} /\ Change(e, View(cache[r]), View(x))
  /\ r \in frus /\ x = Absent => e.kind = "NOT_PRESENT"
  /\ q' = Append(q, e) /\ cache' = [cache EXCEPT ![r] = x]
  /\ UNCHANGED <<frus, rpt, dat, handlers, client, pubFailed, removed>>

RemoveStep(e) ==
  /\ e \in QEvents /\ EventInv(e) /\ e.kind = "NOT_PRESENT"
  /\ q' = Append(q, e) /\ removed' = removed \union {e.rid} /\ client' = NoCall
  /\ UNCHANGED <<frus, rpt, dat, cache, handlers, pubFailed>>

DestroyStep(h, P) ==
  /\ P \in Seq(QEvents)
  /\ \A i \in 1 .. Len(P) : EventInv(P[i]) /\ P[i].kind = "REMOVED" /\ Owner[P[i].rid] = h
  /\ q' = q \o P /\ handlers' = handlers \ {h}
  /\ cache' \in [Resources -> Entries \union {Absent}]
  /\ \A r \in Resources : Owner[r] # h => cache'[r] = cache[r]
  /\ UNCHANGED <<frus, rpt, dat, client, pubFailed, removed>>

CallStep ==
  /\ rpt' \in [Resources -> Entries \union {Absent}]
  /\ cache' \in [Resources -> Entries \union {Absent}]
  /\ \A r \in Resources : View(rpt'[r]) = View(rpt[r]) /\ View(cache'[r]) = View(cache[r])
  /\ dat' \in Tables /\ dat'.list \subseteq dat.list
  /\ client' \in Calls /\ (client'.op = "remove" => client'.rid \in frus)
  /\ UNCHANGED <<frus, q, handlers, pubFailed, removed>>

\* The handler actions post an event that says what they change.
LEMMA AddPosts ==
  ASSUME TypeOK, NEW r \in Resources, NEW sev \in Severities, NEW rdrs \in SUBSET Rdrs,
         NEW changed \in BOOLEAN, HandlerAdd(r, sev, rdrs, changed)
  PROVE  \E e, x : PostStep(r, e, x)
<1>1. PICK x : x = [failed |-> FALSE, sev |-> sev, rdrs |-> rdrs]
  OBVIOUS
<1>2. PICK kind \in Kinds : kind = IF r \in frus THEN "INSERTED" ELSE "ADDED"
  BY DEF Kinds
<1>3. PICK e : e = [Event(kind, r, x) EXCEPT !.rdrs = rdrs, !.changed = changed]
  OBVIOUS
<1>4. x \in Entries /\ x.failed = FALSE /\ x.rdrs = rdrs
  BY <1>1 DEF Entries
<1>5. PICK b : b = Event(kind, r, x)
  OBVIOUS
<1>5a. b \in QEvents /\ b.kind = kind /\ b.rid = r /\ b.failed = x.failed /\ b.bare = FALSE
  BY <1>4, <1>5, EntryPresent, OwnerAssumption DEF Event, QEvents
<1>6. /\ e \in QEvents /\ e.kind = kind /\ e.rid = r /\ e.failed = x.failed /\ e.bare = FALSE
      /\ e.rdrs = rdrs
  BY <1>3, <1>5, <1>5a DEF QEvents
<1>7. EventInv(e)
  BY <1>2, <1>4, <1>6 DEF EventInv
<1>8. cache[r] = Absent /\ q' = Append(q, e) /\ cache' = [cache EXCEPT ![r] = x]
      /\ UNCHANGED <<frus, rpt, dat, handlers, client, pubFailed, removed>>
      /\ Owner[r] \in handlers
  BY <1>1, <1>2, <1>3 DEF HandlerAdd, Post, Alive
<1>9. View(cache[r]) = Absent /\ View(x) = [failed |-> FALSE, rdrs |-> rdrs]
  BY <1>4, <1>8, ViewFacts
<1>10. Change(e, View(cache[r]), View(x))
  BY <1>2, <1>6, <1>9 DEF Change
<1>11. x # Absent
  BY <1>4, EntryPresent
<1> QED  BY <1>4, <1>6, <1>7, <1>8, <1>10, <1>11 DEF PostStep

\* A failure or a restoration.
LEMMA FailPosts ==
  ASSUME TypeOK, NEW r \in Resources, NEW kind \in Kinds, NEW bare \in BOOLEAN,
         HandlerFail(r, kind, bare)
  PROVE  \E e, x : PostStep(r, e, x)
<1>1. kind \in {"FAILURE", "INACCESSIBLE", "RESTORED"} /\ cache[r] # Absent
  BY DEF HandlerFail
<1>2. PICK c \in Entries : c = cache[r]
  BY <1>1 DEF TypeOK
<1>3. PICK bad \in BOOLEAN : bad <=> kind # "RESTORED"
  OBVIOUS
<1>4. PICK x \in Entries : x = [c EXCEPT !.failed = bad]
  BY DEF Entries
<1>5. x.failed = bad /\ x.rdrs = c.rdrs
  BY <1>4 DEF Entries
<1>6. x = [cache[r] EXCEPT !.failed = kind # "RESTORED"]
  BY <1>2, <1>3, <1>4
<1>7. PICK b : b = Event(kind, r, x)
  OBVIOUS
<1>7a. b \in QEvents /\ b.kind = kind /\ b.rid = r /\ b.failed = x.failed
  BY <1>7, EntryPresent, OwnerAssumption DEF Event, QEvents
<1>8. PICK e : e = [b EXCEPT !.bare = bare]
  OBVIOUS
<1>9. e \in QEvents /\ e.kind = kind /\ e.rid = r /\ e.failed = x.failed
  BY <1>7a, <1>8 DEF QEvents
<1>10. EventInv(e)
  BY <1>1, <1>3, <1>5, <1>9 DEF EventInv
<1>11. q' = Append(q, e) /\ cache' = [cache EXCEPT ![r] = x]
       /\ UNCHANGED <<frus, rpt, dat, handlers, client, pubFailed, removed>>
      /\ Owner[r] \in handlers
  BY <1>6, <1>7, <1>8 DEF HandlerFail, Post, Alive
<1>12. /\ View(cache[r]) # Absent /\ View(cache[r]).rdrs = c.rdrs
       /\ View(x) = [failed |-> bad, rdrs |-> c.rdrs]
  BY <1>2, <1>5, ViewFacts
<1>13. Change(e, View(cache[r]), View(x))
  BY <1>1, <1>3, <1>9, <1>12 DEF Change
<1>14. x # Absent
  BY <1>5, EntryPresent
<1> QED  BY <1>5, <1>9, <1>10, <1>11, <1>13, <1>14 DEF PostStep

\* A change of the records.
LEMMA UpdatePosts ==
  ASSUME TypeOK, NEW r \in Resources, NEW rdrs \in SUBSET Rdrs, HandlerUpdate(r, rdrs)
  PROVE  \E e, x : PostStep(r, e, x)
<1>1. cache[r] # Absent
  BY DEF HandlerUpdate
<1>2. PICK c \in Entries : c = cache[r]
  BY <1>1 DEF TypeOK
<1>3. PICK x : x = [c EXCEPT !.rdrs = rdrs]
  OBVIOUS
<1>4. x \in Entries /\ x.failed = c.failed /\ x.rdrs = rdrs /\ c.rdrs \in SUBSET Rdrs
  BY <1>3 DEF Entries
<1>5. "UPDATED" \in Kinds
  BY DEF Kinds
<1>6. PICK b \in QEvents : b = Event("UPDATED", r, c) /\ b.kind = "UPDATED" /\ b.rid = r
                           /\ b.failed = c.failed /\ b.bare = FALSE
  <2>1. PICK z : z = Event("UPDATED", r, c)
    OBVIOUS
  <2>2. z \in QEvents /\ z.kind = "UPDATED" /\ z.rid = r /\ z.failed = c.failed /\ z.bare = FALSE
    BY <1>5, <2>1, EntryPresent, OwnerAssumption DEF Event, QEvents
  <2> QED  BY <2>1, <2>2
<1>7. PICK e : e = [b EXCEPT !.rdrs = rdrs, !.gone = c.rdrs \ rdrs]
  OBVIOUS
<1>8. /\ e \in QEvents /\ e.kind = "UPDATED" /\ e.rid = r /\ e.failed = c.failed
      /\ e.bare = FALSE /\ e.rdrs = rdrs /\ e.gone = c.rdrs \ rdrs
  BY <1>4, <1>6, <1>7 DEF QEvents
<1>9. EventInv(e)
  BY <1>8 DEF EventInv
<1>10. q' = Append(q, e) /\ cache' = [cache EXCEPT ![r] = x]
       /\ UNCHANGED <<frus, rpt, dat, handlers, client, pubFailed, removed>>
      /\ Owner[r] \in handlers
  BY <1>2, <1>3, <1>6, <1>7 DEF HandlerUpdate, Post, Alive, TypeOK
<1>11. /\ View(cache[r]) # Absent /\ View(cache[r]).rdrs = c.rdrs
       /\ View(cache[r]).failed = c.failed /\ View(x) = [failed |-> c.failed, rdrs |-> rdrs]
  BY <1>2, <1>4, ViewFacts
<1>12. Change(e, View(cache[r]), View(x))
  BY <1>8, <1>11 DEF Change
<1>13. x # Absent
  BY <1>4, EntryPresent
<1> QED  BY <1>4, <1>8, <1>9, <1>10, <1>12, <1>13 DEF PostStep

\* A hot swap event.
LEMMA HotSwapPosts ==
  ASSUME TypeOK, NEW r \in Resources, HandlerHotSwap(r)
  PROVE  \E e, x : PostStep(r, e, x)
<1>1. cache[r] # Absent /\ r \in frus
  BY DEF HandlerHotSwap
<1>2. PICK c \in Entries : c = cache[r]
  BY <1>1 DEF TypeOK
<1>3. "HOTSWAP" \in Kinds
  BY DEF Kinds
<1>4. PICK e \in QEvents : e = Event("HOTSWAP", r, c) /\ e.kind = "HOTSWAP" /\ e.rid = r
                           /\ e.failed = c.failed /\ e.bare = FALSE /\ e.changed
  <2>1. PICK z : z = Event("HOTSWAP", r, c)
    OBVIOUS
  <2>2. z \in QEvents /\ z.kind = "HOTSWAP" /\ z.rid = r /\ z.failed = c.failed /\ z.bare = FALSE /\ z.changed
    BY <1>3, <2>1, EntryPresent, OwnerAssumption DEF Event, QEvents
  <2> QED  BY <2>1, <2>2
<1>5. EventInv(e)
  BY <1>1, <1>4 DEF EventInv
<1>6. cache = [cache EXCEPT ![r] = c]
  BY <1>2 DEF TypeOK
<1>7. q' = Append(q, e) /\ cache' = [cache EXCEPT ![r] = c]
      /\ UNCHANGED <<frus, rpt, dat, handlers, client, pubFailed, removed>>
      /\ Owner[r] \in handlers
  BY <1>2, <1>4, <1>6 DEF HandlerHotSwap, Post, Alive
<1>8. View(cache[r]) # Absent /\ View(cache[r]).failed = c.failed /\ View(c) = View(cache[r])
  BY <1>2, ViewFacts
<1>9. Change(e, View(cache[r]), View(c))
  BY <1>4, <1>8 DEF Change
<1> QED  BY <1>1, <1>2, <1>4, <1>5, <1>7, <1>9 DEF PostStep

\* A removal by the handler.
LEMMA RemovePosts ==
  ASSUME TypeOK, NEW r \in Resources, HandlerRemove(r)
  PROVE  \E e, x : PostStep(r, e, x)
<1>1. cache[r] # Absent
  BY DEF HandlerRemove
<1>2. PICK c \in Entries : c = cache[r]
  BY <1>1 DEF TypeOK
<1>3. PICK kind \in Kinds : kind = IF r \in frus THEN "NOT_PRESENT" ELSE "REMOVED"
  BY DEF Kinds
<1>4. PICK e \in QEvents : e = Event(kind, r, c) /\ e.kind = kind /\ e.rid = r
                           /\ e.bare = FALSE /\ e.changed
  <2>1. PICK z : z = Event(kind, r, c)
    OBVIOUS
  <2>2. z \in QEvents /\ z.kind = kind /\ z.rid = r /\ z.bare = FALSE /\ z.changed
    BY <2>1, EntryPresent, OwnerAssumption DEF Event, QEvents
  <2> QED  BY <2>1, <2>2
<1>5. EventInv(e)
  BY <1>3, <1>4 DEF EventInv
<1>6. q' = Append(q, e) /\ cache' = [cache EXCEPT ![r] = Absent]
      /\ UNCHANGED <<frus, rpt, dat, handlers, client, pubFailed, removed>>
      /\ Owner[r] \in handlers
  BY <1>2, <1>3, <1>4 DEF HandlerRemove, Post, Alive
<1>7. Change(e, View(cache[r]), View(Absent))
  BY <1>3, <1>4, ViewFacts DEF Change
<1> QED  BY <1>3, <1>4, <1>5, <1>6, <1>7 DEF PostStep

\* oHpiHandlerDestroy.
LEMMA Destroys ==
  ASSUME TypeOK, NEW h \in Handlers, HandlerDestroy(h)
  PROVE  \E P : DestroyStep(h, P)
<1> DEFINE mine == {r \in Resources : Present(r) /\ Owner[r] = h}
<1>1. PICK order \in [1 .. Cardinality(mine) -> mine] :
        q' = q \o [i \in DOMAIN order |-> Event("REMOVED", order[i], rpt[order[i]])]
  BY DEF HandlerDestroy
<1>2. mine \in SUBSET Resources
  OBVIOUS
<1>3. IsFiniteSet(mine) /\ Cardinality(mine) \in Nat
  BY <1>2, OwnerAssumption, FS_Subset, FS_CardinalityType
<1>4. PICK n \in Nat : n = Cardinality(mine)
  BY <1>3
<1>5. DOMAIN order = 1 .. n
  BY <1>4
<1> DEFINE P == [i \in 1 .. n |-> Event("REMOVED", order[i], rpt[order[i]])]
<1>6. \A i \in 1 .. n : /\ P[i] \in QEvents /\ EventInv(P[i]) /\ P[i].kind = "REMOVED"
                        /\ Owner[P[i].rid] = h
  <2> TAKE i \in 1 .. n
  <2>1. PICK r \in mine : r = order[i]
    BY <1>4
  <2>2. r \in Resources /\ rpt[r] \in Entries /\ Owner[r] = h
    BY <2>1 DEF TypeOK, Present
  <2>3. "REMOVED" \in Kinds
    BY DEF Kinds
  <2>4. PICK e \in QEvents : e = Event("REMOVED", r, rpt[r]) /\ e.kind = "REMOVED" /\ e.rid = r
                             /\ e.bare = FALSE
    <3>1. PICK z : z = Event("REMOVED", r, rpt[r])
      OBVIOUS
    <3>2. z \in QEvents /\ z.kind = "REMOVED" /\ z.rid = r /\ z.bare = FALSE
      BY <2>2, <2>3, <3>1, EntryPresent, OwnerAssumption DEF Event, QEvents
    <3> QED  BY <3>1, <3>2
  <2>5. P[i] = e
    BY <2>1, <2>4
  <2>6. EventInv(e)
    BY <2>4 DEF EventInv
  <2> QED  BY <2>2, <2>4, <2>5, <2>6
<1>7. P \in Seq(QEvents) /\ Len(P) = n
  BY <1>6
<1>8. q' = q \o P
  BY <1>1, <1>5
<1>9. /\ cache' \in [Resources -> Entries \union {Absent}]
      /\ \A r \in Resources : Owner[r] # h => cache'[r] = cache[r]
  BY DEF HandlerDestroy, TypeOK
<1>10. handlers' = handlers \ {h} /\ UNCHANGED <<frus, rpt, dat, client, pubFailed, removed>>
  BY DEF HandlerDestroy
<1> HIDE DEF P
<1>11. DestroyStep(h, P)
  BY <1>6, <1>7, <1>8, <1>9, <1>10 DEF DestroyStep
<1> QED  BY <1>11

\* saHpiResourceFailedRemove posts a removal.
LEMMA Removes ==
  ASSUME TypeOK, QueueInv, FailedRemovePost
  PROVE  \E e : RemoveStep(e)
<1>1. client.op = "remove"
  BY DEF FailedRemovePost
<1>2. client \in [op : {"remove"}, rid : Resources, entry : Entries] /\ client.rid \in frus
  BY <1>1 DEF TypeOK, QueueInv, NoCall
<1>3. "NOT_PRESENT" \in Kinds
  BY DEF Kinds
<1>4. PICK r \in Resources : r = client.rid
  BY <1>2
<1>5. PICK c \in Entries : c = client.entry
  BY <1>2
<1>6. PICK e \in QEvents : e = Event("NOT_PRESENT", r, c) /\ e.kind = "NOT_PRESENT"
                           /\ e.rid = r /\ e.bare = FALSE /\ e.changed
  <2>1. PICK z : z = Event("NOT_PRESENT", r, c)
    OBVIOUS
  <2>2. z \in QEvents /\ z.kind = "NOT_PRESENT" /\ z.rid = r /\ z.bare = FALSE /\ z.changed
    BY <1>3, <2>1, EntryPresent, OwnerAssumption DEF Event, QEvents
  <2> QED  BY <2>1, <2>2
<1>7. EventInv(e)
  BY <1>2, <1>4, <1>6 DEF EventInv
<1> QED  BY <1>4, <1>5, <1>6, <1>7 DEF RemoveStep, FailedRemovePost, Post

\* A severity does not show in a view.
LEMMA SeverityHidden ==
  ASSUME NEW x \in Entries, NEW sev \in Severities
  PROVE  [x EXCEPT !.sev = sev] \in Entries /\ View([x EXCEPT !.sev = sev]) = View(x)
<1>1. PICK y : y = [x EXCEPT !.sev = sev]
  OBVIOUS
<1>2. y \in Entries /\ y.failed = x.failed /\ y.rdrs = x.rdrs
  BY <1>1 DEF Entries
<1>3. View(y) = View(x)
  BY <1>2, ViewFacts
<1> QED  BY <1>1, <1>2, <1>3

\* saHpiResourceSeveritySet.
LEMMA SeveritySetCalls ==
  ASSUME TypeOK, NEW r \in Resources, NEW sev \in Severities, SeveritySet(r, sev)
  PROVE  CallStep
<1>1. PICK c \in Entries : c = cache[r]
  BY DEF SeveritySet, TypeOK
<1>2. PICK y \in Entries : y = [c EXCEPT !.sev = sev] /\ View(y) = View(c)
  BY SeverityHidden
<1>3. cache' = [cache EXCEPT ![r] = y]
  BY <1>1, <1>2 DEF SeveritySet, TypeOK
<1>4. /\ cache' \in [Resources -> Entries \union {Absent}]
      /\ \A o \in Resources : View(cache'[o]) = View(cache[o])
  BY <1>1, <1>2, <1>3 DEF TypeOK
<1>5. client' \in Calls /\ client'.op # "remove"
  BY DEF SeveritySet, Calls
<1>6. dat' \in Tables /\ dat'.list = dat.list
  BY DEF SeveritySet, TypeOK, Tables
<1>7. rpt' = rpt /\ UNCHANGED <<frus, q, handlers, pubFailed, removed>>
  BY DEF SeveritySet
<1>8. rpt' \in [Resources -> Entries \union {Absent}]
  BY <1>7 DEF TypeOK
<1> QED  BY <1>4, <1>5, <1>6, <1>7, <1>8 DEF CallStep

\* oh_detect_res_sev_alarm.
LEMMA SeverityAlarmCalls ==
  ASSUME TypeOK, SeverityAlarm
  PROVE  CallStep
<1>1. client \in [op : {"alarm", "entry"}, rid : Resources, sev : Severities]
  BY DEF TypeOK, SeverityAlarm, NoCall
<1>2. client' \in Calls /\ client'.op # "remove"
  BY <1>1 DEF SeverityAlarm, Calls
<1>3. dat \in Tables
  BY DEF TypeOK, Tables
<1>4. dat' = dat \/ dat' = RemoveResourceAlarms(dat, client.rid, FALSE)
  BY DEF SeverityAlarm
<1>5. dat' \in Tables /\ dat'.list \subseteq dat.list
  BY <1>1, <1>3, <1>4, RemoveResourceFacts
<1>6. rpt' = rpt /\ cache' = cache /\ UNCHANGED <<frus, q, handlers, pubFailed, removed>>
  BY DEF SeverityAlarm
<1> QED  BY <1>2, <1>5, <1>6 DEF CallStep, TypeOK

\* The severity is copied to the RPT.
LEMMA SeverityEntryCalls ==
  ASSUME TypeOK, SeverityEntry
  PROVE  CallStep
<1>1. client \in [op : {"alarm", "entry"}, rid : Resources, sev : Severities]
  BY DEF TypeOK, SeverityEntry, NoCall
<1>2. PICK r \in Resources : r = client.rid
  BY <1>1
<1>3. PICK sev \in Severities : sev = client.sev
  BY <1>1
<1>4. /\ rpt' \in [Resources -> Entries \union {Absent}]
      /\ \A o \in Resources : View(rpt'[o]) = View(rpt[o])
  <2>1. CASE Present(r)
    <3>1. PICK c \in Entries : c = rpt[r]
      BY <2>1 DEF Present, TypeOK
    <3>2. PICK y \in Entries : y = [c EXCEPT !.sev = sev] /\ View(y) = View(c)
      BY SeverityHidden
    <3>3. rpt' = [rpt EXCEPT ![r] = y]
      BY <1>2, <1>3, <2>1, <3>1, <3>2 DEF SeverityEntry, TypeOK
    <3> QED  BY <3>1, <3>2, <3>3 DEF TypeOK
  <2>2. CASE ~Present(r)
    BY <1>2, <2>2 DEF SeverityEntry, TypeOK
  <2> QED  BY <2>1, <2>2
<1>5. client' \in Calls /\ client'.op # "remove"
  BY DEF SeverityEntry, Calls, NoCall
<1>6. dat' \in Tables /\ dat'.list = dat.list
  BY DEF SeverityEntry, TypeOK, Tables
<1>7. cache' = cache /\ UNCHANGED <<frus, q, handlers, pubFailed, removed>>
  BY DEF SeverityEntry
<1> QED  BY <1>4, <1>5, <1>6, <1>7 DEF CallStep, TypeOK

\* saHpiResourceFailedRemove before it posts, or without posting.
LEMMA FailedRemoveCalls ==
  ASSUME TypeOK, (\E r \in Resources : FailedRemove(r)) \/ FailedRemoveError
  PROVE  CallStep
<1>1. client' \in Calls /\ (client'.op = "remove" => client'.rid \in frus)
  <2>1. CASE FailedRemoveError
    BY <2>1 DEF FailedRemoveError, Calls, NoCall
  <2>2. CASE \E r \in Resources : FailedRemove(r)
    <3>1. PICK r \in Resources : FailedRemove(r)
      BY <2>2
    <3>2. rpt[r] \in Entries
      BY <3>1 DEF FailedRemove, Failing, Present, TypeOK
    <3> QED  BY <3>1, <3>2 DEF FailedRemove, Calls
  <2> QED  BY <2>1, <2>2
<1>2. rpt' = rpt /\ cache' = cache /\ dat' = dat
      /\ UNCHANGED <<frus, q, handlers, pubFailed, removed>>
  BY DEF FailedRemove, FailedRemoveError
<1> QED  BY <1>1, <1>2 DEF CallStep, TypeOK, Tables

\* Every step is one of the five.
LEMMA Steps ==
  ASSUME TypeOK, QueueInv, [Next]_vars
  PROVE  \/ \E r, e, x : PostStep(r, e, x)
         \/ \E e : RemoveStep(e)
         \/ \E h, P : DestroyStep(h, P)
         \/ ProcessEvent
         \/ CallStep
<1>1. CASE Handler
  BY <1>1, AddPosts, FailPosts, UpdatePosts, HotSwapPosts, RemovePosts DEF Handler
<1>2. CASE Client
  BY <1>2, SeveritySetCalls, SeverityAlarmCalls, SeverityEntryCalls, FailedRemoveCalls,
     Removes, Destroys DEF Client
<1>3. CASE vars' = vars
  BY <1>3 DEF vars, CallStep, TypeOK, QueueInv, Tables, Calls
<1> QED  BY <1>1, <1>2, <1>3 DEF Next

----------------------------------------------------------------------------
(* Types and queued events. *)

\* Every step keeps the types.
LEMMA TypeStep ==
  ASSUME TypeOK, QueueInv, [Next]_vars
  PROVE  TypeOK'
<1>1. CASE \E r, e, x : PostStep(r, e, x)
  <2>1. PICK r, e, x : PostStep(r, e, x)
    BY <1>1
  <2>2. q' \in Seq(QEvents)
    BY <2>1, AppendFacts DEF PostStep, TypeOK
  <2>3. cache' \in [Resources -> Entries \union {Absent}]
    BY <2>1 DEF PostStep, TypeOK
  <2> QED  BY <2>1, <2>2, <2>3 DEF PostStep, TypeOK
<1>2. CASE \E e : RemoveStep(e)
  <2>1. PICK e : RemoveStep(e)
    BY <1>2
  <2>2. q' \in Seq(QEvents)
    BY <2>1, AppendFacts DEF RemoveStep, TypeOK
  <2>3. e.rid \in Resources
    BY <2>1 DEF RemoveStep, QEvents
  <2> QED  BY <2>1, <2>2, <2>3 DEF RemoveStep, TypeOK
<1>3. CASE \E h, P : DestroyStep(h, P)
  <2>1. PICK h, P : DestroyStep(h, P)
    BY <1>3
  <2>2. q' \in Seq(QEvents)
    BY <2>1, ConcatFacts DEF DestroyStep, TypeOK
  <2> QED  BY <2>1, <2>2 DEF DestroyStep, TypeOK
<1>4. CASE ProcessEvent
  <2>1. PICK h \in QEvents : h = q[1] /\ (Passed(h) \/ Made(h))
    BY <1>4, Processed
  <2>2. /\ q # <<>> /\ q' = Tail(q) /\ frus' = frus /\ cache' = cache /\ handlers' = handlers
        /\ client' = client /\ dat' \in Tables
    BY <1>4, Processed
  <2>3. q' \in Seq(QEvents)
    BY <2>2, TailFacts DEF TypeOK
  <2>4. /\ rpt' \in [Resources -> Entries \union {Absent}]
        /\ pubFailed' \subseteq Resources /\ removed' \subseteq Resources
    <3>1. CASE Passed(h)
      BY <3>1 DEF Passed, TypeOK
    <3>2. CASE Made(h)
      <4>1. PICK c, f \in QEvents :
              /\ Alike(h, f) /\ rpt' = [rpt EXCEPT ![h.rid] = NewEntry(f)]
              /\ pubFailed' = IF Published(c) THEN Learn(f) ELSE pubFailed
              /\ removed' = removed \/ removed' = removed \ {h.rid}
        BY <3>2 DEF Made
      <4>2. PICK x : x = NewEntry(f)
        OBVIOUS
      <4>3. x \in Entries \union {Absent}
        BY <4>2, EntryMade
      <4>4. rpt' \in [Resources -> Entries \union {Absent}]
        BY <4>1, <4>2, <4>3 DEF TypeOK
      <4>5. Learn(f) \subseteq Resources
        BY DEF Learn, TypeOK, QEvents
      <4> QED  BY <4>1, <4>4, <4>5 DEF TypeOK
    <3> QED  BY <2>1, <3>1, <3>2
  <2> QED  BY <2>2, <2>3, <2>4 DEF TypeOK, Tables
<1>5. CASE CallStep
  BY <1>5 DEF CallStep, TypeOK, Tables, Calls
<1> QED  BY <1>1, <1>2, <1>3, <1>4, <1>5, Steps

\* Every event posted is of the kinds that occur.
LEMMA QueueStep ==
  ASSUME TypeOK, QueueInv, [Next]_vars
  PROVE  QueueInv'
<1>2. q \in Seq(QEvents) /\ Len(q) \in Nat
  BY DEF TypeOK
<1>3. CASE \E r, e, x : PostStep(r, e, x)
  <2>1. PICK r, e, x : PostStep(r, e, x)
    BY <1>3
  <2>2. /\ frus' = frus /\ client' = client /\ EventInv(e) /\ e \in QEvents
        /\ q' = Append(q, e)
    BY <2>1 DEF PostStep
  <2>3. Len(q') = Len(q) + 1 /\ q'[Len(q) + 1] = e /\ \A i \in 1 .. Len(q) : q'[i] = q[i]
    BY <1>2, <2>2, AppendFacts
  <2>4. \A i \in 1 .. Len(q') : EventInv(q'[i])
    BY <1>2, <2>2, <2>3 DEF QueueInv
  <2> QED  BY <2>2, <2>4 DEF QueueInv, EventInv
<1>4. CASE \E e : RemoveStep(e)
  <2>1. PICK e : RemoveStep(e)
    BY <1>4
  <2>2. /\ frus' = frus /\ client' = NoCall /\ EventInv(e) /\ e \in QEvents
        /\ q' = Append(q, e)
    BY <2>1 DEF RemoveStep
  <2>3. Len(q') = Len(q) + 1 /\ q'[Len(q) + 1] = e /\ \A i \in 1 .. Len(q) : q'[i] = q[i]
    BY <1>2, <2>2, AppendFacts
  <2>4. \A i \in 1 .. Len(q') : EventInv(q'[i])
    BY <1>2, <2>2, <2>3 DEF QueueInv
  <2>5. client'.op # "remove"
    BY <2>2 DEF NoCall
  <2> QED  BY <2>2, <2>4, <2>5 DEF QueueInv, EventInv
<1>5. CASE \E h, P : DestroyStep(h, P)
  <2>1. PICK h, P : DestroyStep(h, P)
    BY <1>5
  <2>2. /\ frus' = frus /\ client' = client /\ P \in Seq(QEvents) /\ q' = q \o P
        /\ \A i \in 1 .. Len(P) : EventInv(P[i])
    BY <2>1 DEF DestroyStep
  <2>3. /\ Len(q') = Len(q) + Len(P) /\ Len(P) \in Nat
        /\ \A i \in 1 .. Len(q) : q'[i] = q[i]
        /\ \A i \in Len(q) + 1 .. Len(q) + Len(P) :
             q'[i] = P[i - Len(q)] /\ i - Len(q) \in 1 .. Len(P)
    BY <1>2, <2>2, ConcatFacts
  <2>4. \A i \in 1 .. Len(q') : EventInv(q'[i])
    <3> TAKE i \in 1 .. Len(q')
    <3>1. CASE i \in 1 .. Len(q)
      BY <2>3, <3>1 DEF QueueInv
    <3>2. CASE i \in Len(q) + 1 .. Len(q) + Len(P)
      BY <2>2, <2>3, <3>2
    <3> QED  BY <1>2, <2>3, <3>1, <3>2
  <2> QED  BY <2>2, <2>4 DEF QueueInv, EventInv
<1>6. CASE ProcessEvent
  <2>1. q # <<>> /\ q' = Tail(q) /\ frus' = frus /\ client' = client
    BY <1>6, Processed
  <2>2. Len(q') = Len(q) - 1 /\ \A i \in 1 .. Len(q) - 1 : q'[i] = q[i + 1]
    BY <1>2, <2>1, TailFacts
  <2>3. \A i \in 1 .. Len(q') : EventInv(q'[i])
    <3> TAKE i \in 1 .. Len(q')
    <3>1. q'[i] = q[i + 1] /\ i + 1 \in 1 .. Len(q)
      BY <1>2, <2>2
    <3> QED  BY <3>1 DEF QueueInv
  <2> QED  BY <2>1, <2>3 DEF QueueInv, EventInv
<1>7. CASE CallStep
  BY <1>7 DEF CallStep, QueueInv, EventInv
<1> QED  BY <1>3, <1>4, <1>5, <1>6, <1>7, Steps

----------------------------------------------------------------------------
(* Published events and alarms. *)

\* Views tell which entries there are and which of them are failed.
LEMMA SameView ==
  ASSUME NEW x \in Entries \union {Absent}, NEW y \in Entries \union {Absent},
         View(x) = View(y)
  PROVE  (x = Absent <=> y = Absent) /\ (x # Absent => (x.failed <=> y.failed))
BY ViewFacts, EntryPresent

\* What is published keeps telling which resources are failed.
LEMMA PublishStep ==
  ASSUME TypeOK, QueueInv, AnnounceInv, PublishInv, [Next]_vars
  PROVE  PublishInv'
<1>1. CASE (\E r, e, x : PostStep(r, e, x)) \/ (\E e : RemoveStep(e))
           \/ (\E h, P : DestroyStep(h, P))
  <2>1. rpt' = rpt /\ pubFailed' = pubFailed
    BY <1>1 DEF PostStep, RemoveStep, DestroyStep
  <2> QED  BY <2>1 DEF PublishInv, Failing, Present
<1>2. CASE CallStep
  <2> SUFFICES ASSUME NEW r \in Resources PROVE Failing(r)' <=> r \in pubFailed'
    BY DEF PublishInv
  <2>1. /\ rpt[r] \in Entries \union {Absent} /\ rpt'[r] \in Entries \union {Absent}
        /\ View(rpt'[r]) = View(rpt[r]) /\ pubFailed' = pubFailed
    BY <1>2 DEF CallStep, TypeOK
  <2>2. Failing(r)' <=> Failing(r)
    BY <2>1, SameView DEF Failing, Present
  <2> QED  BY <2>1, <2>2 DEF PublishInv
<1>3. CASE ProcessEvent
  <2>1. PICK h \in QEvents : h = q[1] /\ EventInv(h) /\ (Passed(h) \/ Made(h))
    BY <1>3, Processed
  <2>2. CASE Passed(h)
    BY <2>2 DEF Passed, PublishInv, Failing, Present
  <2>3. CASE Made(h)
    <3>1. PICK c, f \in QEvents :
            /\ Alike(h, c) /\ Alike(h, f) /\ f.failed = Failure(h)
            /\ rpt' = [rpt EXCEPT ![h.rid] = NewEntry(f)]
            /\ pubFailed' = IF Published(c) THEN Learn(f) ELSE pubFailed
      BY <2>3 DEF Made
    <3>2. PICK x : x = NewEntry(f)
      OBVIOUS
    <3>3. PICK r \in Resources : r = h.rid
      BY DEF QEvents
    <3>4. /\ h.kind \in {"REMOVED", "NOT_PRESENT"} => x = Absent
          /\ h.kind \notin {"REMOVED", "NOT_PRESENT"} =>
               x # Absent /\ (x.failed <=> Failure(h))
      BY <3>1, <3>2, EntryMade, EntryPresent DEF Alike
    <3>5. rpt' = [rpt EXCEPT ![r] = x] /\ rpt'[r] = x
      BY <3>1, <3>2, <3>3 DEF TypeOK
    <3>6. h.kind = "INSERTED" => ~Present(r)
      <4>1. SUFFICES ASSUME h.kind = "INSERTED" PROVE ~Present(r)
        OBVIOUS
      <4>2. 1 \in 1 .. Len(q)
        BY <1>3, Processed, TailFacts DEF TypeOK
      <4>3. r \in frus
        BY <2>1, <3>3, <4>1 DEF EventInv
      <4>4. Vanishes(q, r, Present(r), 1 - 1)
        BY <2>1, <3>3, <4>1, <4>2, <4>3 DEF AnnounceInv
      <4>5. 1 - 1 = 0 /\ Present(r) \in BOOLEAN
        BY DEF Present
      <4> QED  BY <4>4, <4>5, VanishesNone
    <3>7. Failing(r)' <=> h.kind \notin {"REMOVED", "NOT_PRESENT"} /\ Failure(h)
      BY <3>4, <3>5 DEF Failing, Present
    <3>8. /\ c.kind = h.kind /\ c.rid = r /\ f.kind = h.kind /\ f.rid = r
          /\ c.changed = h.changed /\ h.kind \in Kinds
      BY <3>1, <3>3 DEF Alike, QEvents
    <3>9. Published(c) => (r \in pubFailed' <=> Failing(r)')
      <4>1. r \in Learn(f) <=> h.kind \notin {"REMOVED", "NOT_PRESENT"} /\ Failure(h)
        BY <3>1, <3>8 DEF Learn
      <4> QED  BY <3>1, <3>7, <4>1
    <3>10. ~Published(c) => (Failing(r) <=> Failing(r)')
      <4>1. SUFFICES ASSUME ~Published(c) PROVE Failing(r) <=> Failing(r)'
        OBVIOUS
      <4>2. CASE h.kind \in {"FAILURE", "INACCESSIBLE"}
        BY <3>7, <3>8, <4>1, <4>2 DEF Published, Failure
      <4>3. CASE h.kind = "RESTORED"
        BY <3>7, <3>8, <4>1, <4>3 DEF Published, Failure
      <4>4. CASE h.kind = "REMOVED"
        BY <3>7, <3>8, <4>1, <4>4 DEF Published, Failing
      <4>5. CASE h.kind \in {"ADDED", "UPDATED"}
        BY <3>8, <4>1, <4>5 DEF Published
      <4>6. CASE h.kind = "INSERTED"
        BY <2>1, <3>6, <3>7, <4>6 DEF Failure, EventInv, Failing
      <4>7. CASE h.kind \in {"HOTSWAP", "NOT_PRESENT"}
        BY <2>1, <3>8, <4>1, <4>7 DEF Published, EventInv
      <4> QED  BY <3>8, <4>2, <4>3, <4>4, <4>5, <4>6, <4>7 DEF Kinds
    <3>11. \A o \in Resources : o # r => (Failing(o)' <=> Failing(o))
                                         /\ (o \in pubFailed' <=> o \in pubFailed)
      BY <3>1, <3>5, <3>8 DEF Failing, Present, TypeOK, Learn
    <3>12. Failing(r)' <=> r \in pubFailed'
      <4>1. CASE Published(c)
        BY <3>9, <4>1
      <4>2. CASE ~Published(c)
        BY <3>1, <3>10, <4>2 DEF PublishInv
      <4> QED  BY <4>1, <4>2
    <3> QED  BY <3>11, <3>12 DEF PublishInv
  <2> QED  BY <2>1, <2>2, <2>3
<1> QED  BY <1>1, <1>2, <1>3, Steps

\* No step leaves an alarm on a resource that is healthy.
LEMMA HealthyStep ==
  ASSUME TypeOK, QueueInv, HealthyNotAlarmed, [Next]_vars
  PROVE  HealthyNotAlarmed'
<1>1. CASE (\E r, e, x : PostStep(r, e, x)) \/ (\E e : RemoveStep(e))
           \/ (\E h, P : DestroyStep(h, P))
  <2>1. rpt' = rpt /\ dat' = dat /\ frus' = frus
    BY <1>1 DEF PostStep, RemoveStep, DestroyStep
  <2> QED  BY <2>1 DEF HealthyNotAlarmed, Present, AlarmsOf
<1>2. CASE CallStep
  <2>0. frus' = frus /\ dat'.list \subseteq dat.list
    BY <1>2 DEF CallStep
  <2> SUFFICES ASSUME NEW r \in Resources \ frus, rpt'[r] # Absent, ~rpt'[r].failed
               PROVE  AlarmsOf(dat', "RESOURCE", r) = {}
    BY <2>0 DEF HealthyNotAlarmed, Present
  <2>1. /\ rpt[r] \in Entries \union {Absent} /\ rpt'[r] \in Entries \union {Absent}
        /\ View(rpt'[r]) = View(rpt[r])
    BY <1>2 DEF CallStep, TypeOK
  <2>2. Present(r) /\ ~rpt[r].failed
    BY <2>1, SameView DEF Present
  <2>3. AlarmsOf(dat, "RESOURCE", r) = {}
    BY <2>2 DEF HealthyNotAlarmed
  <2> QED  BY <2>0, <2>3 DEF AlarmsOf
<1>3. CASE ProcessEvent
  <2>1. PICK h \in QEvents : h = q[1] /\ EventInv(h) /\ (Passed(h) \/ Made(h))
                             /\ Spares(dat, dat', h.rid) /\ frus' = frus
    BY <1>3, Processed
  <2> SUFFICES ASSUME NEW r \in Resources \ frus, rpt'[r] # Absent, ~rpt'[r].failed
               PROVE  AlarmsOf(dat', "RESOURCE", r) = {}
    BY <2>1 DEF HealthyNotAlarmed, Present
  <2>2. CASE h.rid # r
    <3>1. rpt'[r] = rpt[r]
      BY <2>1, <2>2 DEF Passed, Made, TypeOK
    <3>2. AlarmsOf(dat, "RESOURCE", r) = {}
      BY <3>1 DEF HealthyNotAlarmed, Present
    <3> QED  BY <2>1, <2>2, <3>2 DEF Spares
  <2>3. CASE h.rid = r /\ Passed(h)
    BY <2>3 DEF Passed, Present
  <2>4. CASE h.rid = r /\ Made(h)
    <3>1. PICK f \in QEvents : /\ Alike(h, f) /\ ~f.bare /\ f.failed = Failure(h)
                               /\ rpt' = [rpt EXCEPT ![h.rid] = NewEntry(f)]
                               /\ dat' = DetectEvent(f)
      BY <2>4 DEF Made
    <3>2. PICK x : x = NewEntry(f)
      OBVIOUS
    <3>3. rpt'[r] = x
      BY <2>4, <3>1, <3>2 DEF TypeOK
    <3>4. f.kind \notin {"INSERTED", "HOTSWAP", "NOT_PRESENT"} /\ f.rid = r
      BY <2>1, <2>4, <3>1 DEF Alike, EventInv
    <3>5. ~f.failed
      BY <3>2, <3>3, EntryMade
    <3> QED  BY <3>1, <3>4, <3>5, EventDetected
  <2> QED  BY <2>1, <2>2, <2>3, <2>4
<1> QED  BY <1>1, <1>2, <1>3, Steps

----------------------------------------------------------------------------
(* Announcements of FRUs. *)

\* No step lets a FRU be announced that the RPT still has.
LEMMA AnnounceStep ==
  ASSUME TypeOK, QueueInv, AnnounceInv, [Next]_vars
  PROVE  AnnounceInv'
<1>1. q \in Seq(QEvents) /\ Len(q) \in Nat
  BY DEF TypeOK
<1>2. frus' = frus
  BY Steps, Processed DEF PostStep, RemoveStep, DestroyStep, CallStep
<1>3. SUFFICES ASSUME NEW r \in frus
      PROVE  /\ \A i \in 1 .. Len(q') : q'[i].rid = r /\ q'[i].kind = "INSERTED"
                                          => Vanishes(q', r, rpt'[r] # Absent, i - 1)
             /\ Owner[r] \in handlers' /\ cache'[r] = Absent
                  => Vanishes(q', r, rpt'[r] # Absent, Len(q'))
  BY <1>2 DEF AnnounceInv, Present
<1>4. PICK p \in BOOLEAN : p <=> rpt[r] # Absent
  OBVIOUS
<1>5. PICK w \in BOOLEAN : w <=> rpt'[r] # Absent
  OBVIOUS
<1>6. /\ \A i \in 1 .. Len(q) : q[i].rid = r /\ q[i].kind = "INSERTED" => Vanishes(q, r, p, i - 1)
      /\ Owner[r] \in handlers /\ cache[r] = Absent => Vanishes(q, r, p, Len(q))
  BY <1>4 DEF AnnounceInv, Present, Vanishes
<1>7. SUFFICES /\ \A i \in 1 .. Len(q') :
                    q'[i].rid = r /\ q'[i].kind = "INSERTED" => Vanishes(q', r, w, i - 1)
               /\ Owner[r] \in handlers' /\ cache'[r] = Absent => Vanishes(q', r, w, Len(q'))
  BY <1>5 DEF Vanishes
<1>8. r \in Resources
  BY DEF TypeOK
<1>9. ASSUME NEW e \in QEvents, q' = Append(q, e), w = p,
             e.rid = r /\ e.kind = "INSERTED" => Owner[r] \in handlers /\ cache[r] = Absent,
             Owner[r] \in handlers' /\ cache'[r] = Absent =>
               \/ e.rid = r /\ e.kind = "NOT_PRESENT"
               \/ e.rid # r /\ Owner[r] \in handlers /\ cache[r] = Absent
      PROVE  /\ \A i \in 1 .. Len(q') :
                  q'[i].rid = r /\ q'[i].kind = "INSERTED" => Vanishes(q', r, w, i - 1)
             /\ Owner[r] \in handlers' /\ cache'[r] = Absent => Vanishes(q', r, w, Len(q'))
  <2>1. Len(q') = Len(q) + 1 /\ q'[Len(q) + 1] = e /\ \A i \in 1 .. Len(q) : q'[i] = q[i]
    BY <1>1, <1>9, AppendFacts
  <2>2. \A n \in 0 .. Len(q) : Vanishes(q, r, p, n) => Vanishes(q', r, w, n)
    <3> SUFFICES ASSUME NEW n \in 0 .. Len(q), Vanishes(q, r, p, n)
                 PROVE  Vanishes(q', r, p, n)
      BY <1>9
    <3>1. n \in Nat /\ n <= n /\ n + 1 .. n = {} /\ \A i \in 1 .. n : q'[i] = q[i]
      BY <1>1, <2>1
    <3> QED  BY <3>1, VanishesMore
  <2>3. ASSUME NEW i \in 1 .. Len(q'), q'[i].rid = r, q'[i].kind = "INSERTED"
        PROVE  Vanishes(q', r, w, i - 1)
    <3>1. CASE i \in 1 .. Len(q)
      <4>1. Vanishes(q, r, p, i - 1)
        BY <1>6, <2>1, <2>3, <3>1
      <4>2. i - 1 \in 0 .. Len(q)
        BY <1>1, <3>1
      <4> QED  BY <2>2, <4>1, <4>2
    <3>2. CASE i = Len(q) + 1
      <4>1. Vanishes(q, r, p, Len(q))
        BY <1>6, <1>9, <2>1, <2>3, <3>2
      <4>2. i - 1 = Len(q) /\ Len(q) \in 0 .. Len(q)
        BY <1>1, <3>2
      <4> QED  BY <2>2, <4>1, <4>2
    <3> QED  BY <1>1, <2>1, <3>1, <3>2
  <2>4. ASSUME Owner[r] \in handlers', cache'[r] = Absent
        PROVE  Vanishes(q', r, w, Len(q'))
    <3>1. CASE e.rid = r /\ e.kind = "NOT_PRESENT"
      <4>1. Len(q') \in Nat \ {0} /\ q'[Len(q')] = e
        BY <1>1, <2>1
      <4> QED  BY <3>1, <4>1, VanishesRemoved
    <3>2. CASE e.rid # r /\ Owner[r] \in handlers /\ cache[r] = Absent
      <4>1. Vanishes(q, r, p, Len(q))
        BY <1>6, <3>2
      <4>2. Len(q') \in Nat /\ Len(q) <= Len(q')
        BY <1>1, <2>1
      <4>3. \A i \in Len(q) + 1 .. Len(q') : q'[i].rid # r
        <5> TAKE i \in Len(q) + 1 .. Len(q')
        <5>1. i = Len(q) + 1
          BY <1>1, <2>1
        <5> QED  BY <2>1, <3>2, <5>1
      <4>4. Vanishes(q', r, p, Len(q'))
        BY <1>1, <2>1, <4>1, <4>2, <4>3, VanishesMore
      <4> QED  BY <1>9, <4>4
    <3> QED  BY <1>9, <2>4, <3>1, <3>2
  <2> QED  BY <2>3, <2>4
<1>10. CASE \E o, e, x : PostStep(o, e, x)
  <2>1. PICK o, e, x : PostStep(o, e, x)
    BY <1>10
  <2>2. e \in QEvents /\ q' = Append(q, e) /\ rpt' = rpt /\ handlers' = handlers /\ e.rid = o
    BY <2>1 DEF PostStep
  <2>3. w = p
    BY <1>4, <1>5, <2>2
  <2>4. e.rid = r /\ e.kind = "INSERTED" => Owner[r] \in handlers /\ cache[r] = Absent
    <3>1. SUFFICES ASSUME o = r, e.kind = "INSERTED"
          PROVE Owner[r] \in handlers /\ cache[r] = Absent
      BY <2>2
    <3>2. View(cache[r]) = Absent /\ Owner[r] \in handlers
      BY <2>1, <3>1 DEF PostStep, Change
    <3>3. cache[r] \in Entries \union {Absent}
      BY <1>8 DEF TypeOK
    <3> QED  BY <3>2, <3>3, ViewFacts
  <2>5. cache'[r] = IF o = r THEN x ELSE cache[r]
    BY <1>8, <2>1 DEF PostStep, TypeOK
  <2>6. o = r /\ x = Absent => e.kind = "NOT_PRESENT"
    BY <2>1 DEF PostStep
  <2> QED  BY <1>9, <2>2, <2>3, <2>4, <2>5, <2>6
<1>11. CASE \E e : RemoveStep(e)
  <2>1. PICK e : RemoveStep(e)
    BY <1>11
  <2>2. /\ e \in QEvents /\ q' = Append(q, e) /\ rpt' = rpt /\ handlers' = handlers
        /\ cache' = cache /\ e.kind = "NOT_PRESENT"
    BY <2>1 DEF RemoveStep
  <2>3. w = p
    BY <1>4, <1>5, <2>2
  <2> QED  BY <1>9, <2>2, <2>3
<1>12. CASE \E h, P : DestroyStep(h, P)
  <2>1. PICK h, P : DestroyStep(h, P)
    BY <1>12
  <2>2. /\ P \in Seq(QEvents) /\ q' = q \o P /\ rpt' = rpt
        /\ \A i \in 1 .. Len(P) : P[i].kind = "REMOVED" /\ Owner[P[i].rid] = h
        /\ handlers' = handlers \ {h} /\ (Owner[r] # h => cache'[r] = cache[r])
    BY <1>8, <2>1 DEF DestroyStep
  <2>3. /\ Len(q') = Len(q) + Len(P) /\ Len(P) \in Nat
        /\ \A i \in 1 .. Len(q) : q'[i] = q[i]
        /\ \A i \in Len(q) + 1 .. Len(q) + Len(P) :
             q'[i] = P[i - Len(q)] /\ i - Len(q) \in 1 .. Len(P)
    BY <1>1, <2>2, ConcatFacts
  <2>4. w = p
    BY <1>4, <1>5, <2>2
  <2>5. \A i \in Len(q) + 1 .. Len(q') : q'[i].kind = "REMOVED" /\ Owner[q'[i].rid] = h
    BY <2>2, <2>3
  <2>6. ASSUME NEW i \in 1 .. Len(q'), q'[i].rid = r, q'[i].kind = "INSERTED"
        PROVE  Vanishes(q', r, w, i - 1)
    <3>1. i \in 1 .. Len(q)
      BY <1>1, <2>3, <2>5, <2>6
    <3>2. Vanishes(q, r, p, i - 1)
      BY <1>6, <2>3, <2>6, <3>1
    <3>3. /\ i - 1 \in Nat /\ i - 1 <= i - 1 /\ (i - 1) + 1 .. i - 1 = {}
          /\ \A j \in 1 .. i - 1 : q'[j] = q[j]
      BY <1>1, <2>3, <3>1
    <3>4. Vanishes(q', r, p, i - 1)
      BY <3>2, <3>3, VanishesMore
    <3> QED  BY <2>4, <3>4
  <2>7. ASSUME Owner[r] \in handlers', cache'[r] = Absent
        PROVE  Vanishes(q', r, w, Len(q'))
    <3>1. Owner[r] # h /\ Vanishes(q, r, p, Len(q))
      BY <1>6, <2>2, <2>7
    <3>2. \A i \in Len(q) + 1 .. Len(q') : q'[i].rid # r
      BY <2>5, <3>1
    <3>3. Len(q') \in Nat /\ Len(q) <= Len(q')
      BY <1>1, <2>3
    <3>4. Vanishes(q', r, p, Len(q'))
      BY <1>1, <2>3, <3>1, <3>2, <3>3, VanishesMore
    <3> QED  BY <2>4, <3>4
  <2> QED  BY <2>6, <2>7
<1>13. CASE ProcessEvent
  <2>1. PICK h \in QEvents : h = q[1] /\ EventInv(h) /\ (Passed(h) \/ Made(h))
    BY <1>13, Processed
  <2>2. q # <<>> /\ q' = Tail(q) /\ cache' = cache /\ handlers' = handlers
    BY <1>13, Processed
  <2>3. /\ Len(q') = Len(q) - 1 /\ Len(q) \in Nat \ {0}
        /\ \A i \in 1 .. Len(q) - 1 : q'[i] = q[i + 1]
    BY <1>1, <2>2, TailFacts
  <2>4. h.rid # r => w = p
    <3>1. h.rid # r => rpt'[r] = rpt[r]
      BY <1>8, <2>1 DEF Passed, Made, TypeOK
    <3> QED  BY <1>4, <1>5, <3>1
  <2>5. h.rid = r /\ h.kind = "NOT_PRESENT" => ~w
    <3>1. SUFFICES ASSUME h.rid = r, h.kind = "NOT_PRESENT" PROVE rpt'[r] = Absent
      BY <1>5
    <3>2. Made(h)
      BY <2>1, <3>1 DEF Passed, EventInv
    <3>3. PICK f \in QEvents : Alike(h, f) /\ rpt' = [rpt EXCEPT ![h.rid] = NewEntry(f)]
      BY <3>2 DEF Made
    <3>4. PICK x : x = NewEntry(f)
      OBVIOUS
    <3>5. x = Absent
      BY <3>1, <3>3, <3>4, EntryMade DEF Alike
    <3> QED  BY <1>8, <3>1, <3>3, <3>4, <3>5 DEF TypeOK
  <2>6. \A n \in 1 .. Len(q) : Vanishes(q, r, p, n) => Vanishes(q', r, w, n - 1)
    <3> TAKE n \in 1 .. Len(q)
    <3>1. Vanishes(q, r, p, n) => Vanishes(Tail(q), r, w, n - 1)
      BY <1>1, <2>1, <2>2, <2>4, <2>5, VanishesTail
    <3> QED  BY <2>2, <3>1
  <2>7. ASSUME NEW i \in 1 .. Len(q'), q'[i].rid = r, q'[i].kind = "INSERTED"
        PROVE  Vanishes(q', r, w, i - 1)
    <3>1. /\ q'[i] = q[i + 1] /\ i + 1 \in 1 .. Len(q) /\ (i + 1) - 1 = i
          /\ i \in 1 .. Len(q)
      BY <2>3
    <3>2. Vanishes(q, r, p, (i + 1) - 1)
      BY <1>6, <2>7, <3>1
    <3> QED  BY <2>6, <3>1, <3>2
  <2>8. ASSUME Owner[r] \in handlers', cache'[r] = Absent
        PROVE  Vanishes(q', r, w, Len(q'))
    <3>1. Vanishes(q, r, p, Len(q)) /\ Len(q) \in 1 .. Len(q)
      BY <1>6, <2>2, <2>3, <2>8
    <3> QED  BY <2>3, <2>6, <3>1
  <2> QED  BY <2>7, <2>8
<1>14. CASE CallStep
  <2>1. /\ q' = q /\ handlers' = handlers
        /\ rpt[r] \in Entries \union {Absent} /\ rpt'[r] \in Entries \union {Absent}
        /\ View(rpt'[r]) = View(rpt[r])
        /\ cache[r] \in Entries \union {Absent} /\ cache'[r] \in Entries \union {Absent}
        /\ View(cache'[r]) = View(cache[r])
    BY <1>8, <1>14 DEF CallStep, TypeOK
  <2>2. (cache'[r] = Absent <=> cache[r] = Absent) /\ w = p
    BY <1>4, <1>5, <2>1, SameView
  <2> QED  BY <1>6, <2>1, <2>2
<1> QED  BY <1>10, <1>11, <1>12, <1>13, <1>14, Steps

----------------------------------------------------------------------------
(* What waits in the queue. *)

\* process_event makes of an entry what the handler meant.
LEMMA MadeAsMeant ==
  ASSUME TypeOK, NEW h \in QEvents, EventInv(h), Made(h), NEW w,
         Change(h, View(rpt[h.rid]), w)
  PROVE  View(rpt'[h.rid]) = w
<1>1. PICK r \in Resources : r = h.rid
  BY DEF QEvents
<1>2. PICK f \in QEvents : /\ Alike(h, f) /\ f.failed = Failure(h)
                           /\ rpt' = [rpt EXCEPT ![h.rid] = NewEntry(f)]
  BY DEF Made
<1>3. PICK x : x = NewEntry(f)
  OBVIOUS
<1>4. rpt'[r] = x
  BY <1>1, <1>2, <1>3 DEF TypeOK
<1>5. /\ f.kind = h.kind /\ f.rid = r /\ f.rdrs = h.rdrs /\ f.gone = h.gone /\ h.kind \in Kinds
      /\ h.rdrs \in SUBSET Rdrs /\ h.failed \in BOOLEAN
  BY <1>1, <1>2 DEF Alike, QEvents
<1>6. /\ h.kind \in {"REMOVED", "NOT_PRESENT"} => x = Absent
      /\ h.kind \notin {"REMOVED", "NOT_PRESENT"} =>
           /\ x \in Entries /\ x.failed = Failure(h)
           /\ h.kind \in {"ADDED", "INSERTED"} /\ ~Present(r) => x.rdrs = h.rdrs
           /\ h.kind = "UPDATED" /\ Present(r)
                => x.rdrs = (rpt[r].rdrs \ h.gone) \union h.rdrs
           /\ h.kind \in {"FAILURE", "INACCESSIBLE", "RESTORED", "HOTSWAP"} /\ Present(r)
                => x.rdrs = rpt[r].rdrs
  BY <1>2, <1>3, <1>5, EntryMade
<1>7. PICK v \in Views : v = View(rpt[r])
  BY ViewFacts DEF TypeOK
<1>8. Change(h, v, w)
  BY <1>1, <1>7
<1>9. /\ v = Absent <=> ~Present(r)
      /\ v # Absent => v.rdrs = rpt[r].rdrs
  <2>1. rpt[r] \in Entries \union {Absent}
    BY DEF TypeOK
  <2> QED  BY <1>7, <2>1, ViewFacts DEF Present
<1>10. View(x) = w
  <2>1. CASE h.kind \in {"REMOVED", "NOT_PRESENT"}
    BY <1>6, <1>8, <2>1, ViewFacts DEF Change
  <2>2. ASSUME h.kind \notin {"REMOVED", "NOT_PRESENT"}
        PROVE  View(x) = [failed |-> Failure(h), rdrs |-> x.rdrs]
    BY <1>6, <2>2, ViewFacts
  <2>3. CASE h.kind \in {"ADDED", "INSERTED"}
    <3>1. x.rdrs = h.rdrs /\ w = [failed |-> FALSE, rdrs |-> h.rdrs]
      BY <1>6, <1>8, <1>9, <2>3 DEF Change
    <3>2. Failure(h) = FALSE
      BY <1>5, <2>3 DEF Failure, EventInv
    <3> QED  BY <2>2, <2>3, <3>1, <3>2
  <2>4. CASE h.kind \in {"FAILURE", "INACCESSIBLE", "RESTORED"}
    <3>1. x.rdrs = v.rdrs /\ w = [failed |-> h.kind # "RESTORED", rdrs |-> v.rdrs]
      BY <1>6, <1>8, <1>9, <2>4 DEF Change
    <3>2. Failure(h) = (h.kind # "RESTORED")
      BY <2>4 DEF Failure
    <3> QED  BY <2>2, <2>4, <3>1, <3>2
  <2>5. CASE h.kind = "UPDATED"
    <3>1. /\ x.rdrs = (v.rdrs \ h.gone) \union h.rdrs /\ v.rdrs \ h.gone \subseteq h.rdrs
          /\ w = [failed |-> v.failed, rdrs |-> h.rdrs] /\ h.failed = v.failed
      BY <1>6, <1>8, <1>9, <2>5 DEF Change
    <3>2. Failure(h) = h.failed
      BY <2>5 DEF Failure
    <3>3. x.rdrs = h.rdrs
      BY <3>1
    <3> QED  BY <2>2, <2>5, <3>1, <3>2, <3>3
  <2>6. CASE h.kind = "HOTSWAP"
    <3>1. x.rdrs = v.rdrs /\ w = v /\ h.failed = v.failed /\ v # Absent
      BY <1>6, <1>8, <1>9, <2>6 DEF Change
    <3>2. Failure(h) = h.failed
      BY <2>6 DEF Failure
    <3>3. v = [failed |-> v.failed, rdrs |-> v.rdrs]
      BY <3>1, ViewFacts
    <3> QED  BY <2>2, <2>6, <3>1, <3>2, <3>3
  <2> QED  BY <1>5, <2>1, <2>3, <2>4, <2>5, <2>6 DEF Kinds
<1> QED  BY <1>1, <1>4, <1>10

\* An event is posted that turns w into x.
LEMMA ReplaysAppend ==
  ASSUME NEW Q \in Seq(QEvents), NEW e \in QEvents, NEW r, NEW known \in BOOLEAN,
         NEW v, NEW w, NEW x \in Views,
         Replays(Q, r, known, v, w), Passes(e, r, w, x)
  PROVE  Replays(Append(Q, e), r, known, v, x)
<1>1. PICK R \in Seq(QEvents) : R = Append(Q, e)
  BY AppendFacts
<1>2. /\ Len(R) = Len(Q) + 1 /\ R[Len(Q) + 1] = e /\ Len(Q) \in Nat
      /\ \A i \in 1 .. Len(Q) : R[i] = Q[i]
  BY <1>1, AppendFacts
<1>3. known => Leads(R, r, v, 0, x)
  <2>1. 0 \in 0 .. Len(Q)
    BY <1>2
  <2> QED  BY <1>1, <2>1, LeadsAppend DEF Replays
<1>4. ASSUME NEW i \in 1 .. Len(R), R[i].rid = r, R[i].kind = "INSERTED", Stays(R, r, i)
      PROVE  Leads(R, r, [failed |-> FALSE, rdrs |-> R[i].rdrs], i, x)
  <2>1. CASE i \in 1 .. Len(Q)
    <3>1. Stays(Q, r, i)
      BY <1>2, <1>4, <2>1 DEF Stays
    <3>2. R[i] = Q[i] /\ i \in 0 .. Len(Q)
      BY <1>2, <2>1
    <3>3. Leads(Q, r, [failed |-> FALSE, rdrs |-> R[i].rdrs], i, w)
      BY <1>4, <2>1, <3>1, <3>2 DEF Replays
    <3> QED  BY <1>1, <3>2, <3>3, LeadsAppend
  <2>2. CASE i = Len(Q) + 1
    <3>1. R[i] = e /\ i = Len(R)
      BY <1>2, <2>2
    <3>2. x = [failed |-> FALSE, rdrs |-> R[i].rdrs]
      BY <1>4, <3>1 DEF Passes, Change
    <3>3. Leads(R, r, x, Len(R), x)
      BY LeadsEnd
    <3> QED  BY <3>1, <3>2, <3>3
  <2> QED  BY <1>2, <2>1, <2>2
<1>5. Replays(R, r, known, v, x)
  BY <1>3, <1>4 DEF Replays
<1> QED  BY <1>1, <1>5

\* A client's removal is posted: nothing is owed before the next announcement.
LEMMA ReplaysRemoved ==
  ASSUME NEW Q \in Seq(QEvents), NEW e \in QEvents, e.kind = "NOT_PRESENT",
         NEW v, NEW w
  PROVE  Replays(Append(Q, e), e.rid, FALSE, v, w)
<1>1. PICK R \in Seq(QEvents) : R = Append(Q, e)
  BY AppendFacts
<1>2. Len(R) = Len(Q) + 1 /\ R[Len(Q) + 1] = e /\ Len(Q) \in Nat
  BY <1>1, AppendFacts
<1>3. \A i \in 1 .. Len(R) : R[i].kind = "INSERTED" => ~Stays(R, e.rid, i)
  <2> SUFFICES ASSUME NEW i \in 1 .. Len(R), R[i].kind = "INSERTED" PROVE ~Stays(R, e.rid, i)
    OBVIOUS
  <2>1. i # Len(R)
    BY <1>2
  <2>2. Len(R) \in i + 1 .. Len(R)
    BY <1>2, <2>1
  <2> QED  BY <1>2, <2>2 DEF Stays
<1>4. Replays(R, e.rid, FALSE, v, w)
  BY <1>3 DEF Replays
<1> QED  BY <1>1, <1>4

\* oHpiHandlerDestroy posts removals of others.
LEMMA ReplaysOthers ==
  ASSUME NEW Q \in Seq(QEvents), NEW P \in Seq(QEvents), NEW r, NEW known \in BOOLEAN,
         NEW v, NEW w, Replays(Q, r, known, v, w),
         \A i \in 1 .. Len(P) : P[i].rid # r
  PROVE  Replays(Q \o P, r, known, v, w)
<1>1. PICK R \in Seq(QEvents) : R = Q \o P
  BY ConcatFacts
<1>2. /\ Len(R) = Len(Q) + Len(P) /\ Len(Q) \in Nat /\ Len(P) \in Nat
      /\ \A i \in 1 .. Len(Q) : R[i] = Q[i]
      /\ \A i \in Len(Q) + 1 .. Len(Q) + Len(P) :
           R[i] = P[i - Len(Q)] /\ i - Len(Q) \in 1 .. Len(P)
  BY <1>1, ConcatFacts
<1>3. known => Leads(R, r, v, 0, w)
  <2>1. 0 \in 0 .. Len(Q)
    BY <1>2
  <2> QED  BY <1>1, <2>1, LeadsOthers DEF Replays
<1>4. ASSUME NEW i \in 1 .. Len(R), R[i].rid = r, R[i].kind = "INSERTED", Stays(R, r, i)
      PROVE  Leads(R, r, [failed |-> FALSE, rdrs |-> R[i].rdrs], i, w)
  <2>1. i \in 1 .. Len(Q) /\ i \in 0 .. Len(Q)
    <3>1. i \notin Len(Q) + 1 .. Len(Q) + Len(P)
      BY <1>2, <1>4
    <3> QED  BY <1>2, <3>1
  <2>2. R[i] = Q[i]
    BY <1>2, <2>1
  <2>3. Stays(Q, r, i)
    BY <1>2, <1>4, <2>1 DEF Stays
  <2>4. Leads(Q, r, [failed |-> FALSE, rdrs |-> R[i].rdrs], i, w)
    BY <1>4, <2>1, <2>2, <2>3 DEF Replays
  <2> QED  BY <1>1, <2>1, <2>4, LeadsOthers
<1>5. Replays(R, r, known, v, w)
  BY <1>3, <1>4 DEF Replays
<1> QED  BY <1>1, <1>5

\* The head of the queue is taken; x is what it leaves of the resource, now is
\* whether a client's removal still stands.
LEMMA ReplaysTail ==
  ASSUME NEW Q \in Seq(QEvents), Q # <<>>, NEW r, NEW known \in BOOLEAN, NEW now \in BOOLEAN,
         NEW v, NEW w, NEW x, Replays(Q, r, known, v, w),
         known /\ now => \A y \in Views : Passes(Q[1], r, v, y) => x = y,
         ~known /\ now => /\ Q[1].rid = r /\ Q[1].kind = "INSERTED" /\ Stays(Q, r, 1)
                          /\ x = [failed |-> FALSE, rdrs |-> Q[1].rdrs]
  PROVE  Replays(Tail(Q), r, now, x, w)
<1>1. PICK R \in Seq(QEvents) : R = Tail(Q)
  BY TailFacts
<1>2. /\ Len(R) = Len(Q) - 1 /\ Len(Q) \in Nat \ {0}
      /\ \A i \in 1 .. Len(Q) - 1 : R[i] = Q[i + 1]
  BY <1>1, TailFacts
<1>3. now => Leads(R, r, x, 0, w)
  <2>1. CASE known /\ now
    <3>1. PICK y \in Views : Passes(Q[1], r, v, y) /\ Leads(R, r, y, 0, w)
      BY <1>1, <2>1, LeadsHead DEF Replays
    <3>2. x = y
      BY <2>1, <3>1
    <3> QED  BY <3>1, <3>2
  <2>2. CASE ~known /\ now
    <3>1. 1 \in 1 .. Len(Q) /\ 1 - 1 = 0
      BY <1>2
    <3>2. Leads(Q, r, x, 1, w)
      BY <2>2, <3>1 DEF Replays
    <3>3. Leads(R, r, x, 1 - 1, w)
      BY <1>1, <3>1, <3>2, LeadsTail
    <3> QED  BY <3>1, <3>3
  <2> QED  BY <2>1, <2>2
<1>4. ASSUME NEW i \in 1 .. Len(R), R[i].rid = r, R[i].kind = "INSERTED", Stays(R, r, i)
      PROVE  Leads(R, r, [failed |-> FALSE, rdrs |-> R[i].rdrs], i, w)
  <2>1. R[i] = Q[i + 1] /\ i + 1 \in 1 .. Len(Q) /\ (i + 1) - 1 = i
    BY <1>2
  <2>2. Stays(Q, r, i + 1)
    <3> SUFFICES ASSUME NEW j \in (i + 1) + 1 .. Len(Q)
                 PROVE  ~(Q[j].rid = r /\ Q[j].kind = "NOT_PRESENT")
      BY DEF Stays
    <3>1. j - 1 \in i + 1 .. Len(R) /\ j - 1 \in 1 .. Len(Q) - 1 /\ (j - 1) + 1 = j
      BY <1>2
    <3>2. R[j - 1] = Q[j]
      BY <1>2, <3>1
    <3> QED  BY <1>4, <3>1, <3>2 DEF Stays
  <2>3. Leads(Q, r, [failed |-> FALSE, rdrs |-> R[i].rdrs], i + 1, w)
    BY <1>4, <2>1, <2>2 DEF Replays
  <2>4. Leads(R, r, [failed |-> FALSE, rdrs |-> R[i].rdrs], (i + 1) - 1, w)
    BY <1>1, <2>1, <2>3, LeadsTail
  <2> QED  BY <2>1, <2>4
<1>5. Replays(R, r, now, x, w)
  BY <1>3, <1>4 DEF Replays
<1> QED  BY <1>1, <1>5

\* Every step keeps queue, RPT and handlers in line.
LEMMA ReplayStep ==
  ASSUME TypeOK, QueueInv, ReplayInv, [Next]_vars
  PROVE  ReplayInv'
<1>1. q \in Seq(QEvents) /\ Len(q) \in Nat
  BY DEF TypeOK
<1>2. SUFFICES ASSUME NEW r \in Resources, Owner[r] \in handlers'
               PROVE  Replays(q', r, r \notin removed', View(rpt'[r]), View(cache'[r]))
  BY DEF ReplayInv
<1>3. handlers' \subseteq handlers
  BY Steps, Processed DEF PostStep, RemoveStep, DestroyStep, CallStep
<1>4. PICK known \in BOOLEAN : known <=> r \notin removed
  OBVIOUS
<1>5. PICK now \in BOOLEAN : now <=> r \notin removed'
  OBVIOUS
<1>6. rpt[r] \in Entries \union {Absent} /\ cache[r] \in Entries \union {Absent}
  BY DEF TypeOK
<1>7. PICK v : v = View(rpt[r])
  OBVIOUS
<1>8. PICK w \in Views : w = View(cache[r])
  BY <1>6, ViewFacts
<1>9. Replays(q, r, known, v, w)
  BY <1>2, <1>3, <1>4, <1>7, <1>8 DEF ReplayInv, Replays
<1>10. SUFFICES Replays(q', r, now, View(rpt'[r]), View(cache'[r]))
  BY <1>5 DEF Replays
<1>11. CASE \E o, e, x : PostStep(o, e, x)
  <2>1. PICK o, e, x : PostStep(o, e, x)
    BY <1>11
  <2>2. /\ e \in QEvents /\ q' = Append(q, e) /\ rpt' = rpt /\ removed' = removed
        /\ e.rid = o /\ x \in Entries \union {Absent} /\ Change(e, View(cache[o]), View(x))
    BY <2>1 DEF PostStep
  <2>3. cache'[r] = IF o = r THEN x ELSE cache[r]
    BY <2>1 DEF PostStep, TypeOK
  <2>4. PICK z \in Views : z = View(cache'[r])
    BY <1>6, <2>2, <2>3, ViewFacts
  <2>5. Passes(e, r, w, z)
    <3>1. CASE o = r
      BY <1>8, <2>2, <2>3, <2>4, <3>1 DEF Passes
    <3>2. CASE o # r
      BY <1>8, <2>2, <2>3, <2>4, <3>2 DEF Passes
    <3> QED  BY <3>1, <3>2
  <2>6. now = known
    BY <1>4, <1>5, <2>2
  <2>7. Replays(Append(q, e), r, known, v, z)
    BY <1>1, <1>9, <2>2, <2>5, ReplaysAppend
  <2> QED  BY <1>7, <2>2, <2>4, <2>6, <2>7
<1>12. CASE \E e : RemoveStep(e)
  <2>1. PICK e : RemoveStep(e)
    BY <1>12
  <2>2. /\ e \in QEvents /\ q' = Append(q, e) /\ rpt' = rpt /\ cache' = cache
        /\ removed' = removed \union {e.rid} /\ e.kind = "NOT_PRESENT"
    BY <2>1 DEF RemoveStep
  <2>3. CASE e.rid = r
    <3>1. now = FALSE
      BY <1>5, <2>2, <2>3
    <3>2. Replays(Append(q, e), r, FALSE, v, w)
      BY <1>1, <2>2, <2>3, ReplaysRemoved
    <3> QED  BY <1>7, <1>8, <2>2, <3>1, <3>2
  <2>4. CASE e.rid # r
    <3>1. now = known
      BY <1>4, <1>5, <2>2, <2>4
    <3>2. Passes(e, r, w, w)
      BY <2>4 DEF Passes
    <3>3. Replays(Append(q, e), r, known, v, w)
      BY <1>1, <1>9, <2>2, <3>2, ReplaysAppend
    <3> QED  BY <1>7, <1>8, <2>2, <3>1, <3>3
  <2> QED  BY <2>3, <2>4
<1>13. CASE \E h, P : DestroyStep(h, P)
  <2>1. PICK h, P : DestroyStep(h, P)
    BY <1>13
  <2>2. /\ P \in Seq(QEvents) /\ q' = q \o P /\ rpt' = rpt /\ removed' = removed
        /\ \A i \in 1 .. Len(P) : Owner[P[i].rid] = h
        /\ handlers' = handlers \ {h} /\ (Owner[r] # h => cache'[r] = cache[r])
    BY <2>1 DEF DestroyStep
  <2>3. Owner[r] # h
    BY <1>2, <2>2
  <2>4. \A i \in 1 .. Len(P) : P[i].rid # r
    BY <2>2, <2>3
  <2>5. now = known
    BY <1>4, <1>5, <2>2
  <2>6. Replays(q \o P, r, known, v, w)
    BY <1>1, <1>9, <2>2, <2>4, ReplaysOthers
  <2> QED  BY <1>7, <1>8, <2>2, <2>3, <2>5, <2>6
<1>14. CASE ProcessEvent
  <2>1. PICK h \in QEvents : h = q[1] /\ EventInv(h) /\ (Passed(h) \/ Made(h))
    BY <1>14, Processed
  <2>2. q # <<>> /\ q' = Tail(q) /\ cache' = cache
    BY <1>14, Processed
  <2>3. PICK x : x = View(rpt'[r])
    OBVIOUS
  <2>4. ASSUME NEW y \in Views, Passes(h, r, v, y)
        PROVE  x = y
    <3>1. CASE h.rid # r
      <4>1. rpt'[r] = rpt[r]
        BY <2>1, <3>1 DEF Passed, Made, TypeOK
      <4> QED  BY <1>7, <2>3, <2>4, <3>1, <4>1 DEF Passes
    <3>2. CASE h.rid = r /\ Made(h)
      <4>1. Change(h, View(rpt[h.rid]), y)
        BY <1>7, <2>4, <3>2 DEF Passes
      <4> QED  BY <2>1, <2>3, <3>2, <4>1, MadeAsMeant
    <3>3. CASE h.rid = r /\ Passed(h)
      <4>1. v = Absent
        BY <1>7, <3>3, ViewFacts DEF Passed, Present
      <4>2. h.kind \in {"FAILURE", "INACCESSIBLE", "RESTORED"}
        BY <2>1, <3>3 DEF Passed, EventInv
      <4> QED  BY <2>4, <3>3, <4>1, <4>2 DEF Passes, Change
    <3> QED  BY <2>1, <3>1, <3>2, <3>3
  <2>5. ASSUME ~known, now
        PROVE  /\ h.rid = r /\ h.kind = "INSERTED" /\ Stays(q, r, 1)
               /\ x = [failed |-> FALSE, rdrs |-> h.rdrs]
    <3>1. r \in removed /\ r \notin removed'
      BY <1>4, <1>5, <2>5
    <3>2. Made(h)
      BY <2>1, <3>1 DEF Passed
    <3>3. h.rid = r /\ h.kind = "INSERTED" /\ ~Present(r) /\ ~Leaving(r)
      BY <3>1, <3>2 DEF Made
    <3>4. 1 + 1 = 2
      OBVIOUS
    <3>5. Stays(q, r, 1)
      BY <3>3, <3>4 DEF Stays, Leaving
    <3>6. View(rpt[r]) = Absent
      BY <3>3, ViewFacts DEF Present
    <3>7. Change(h, View(rpt[h.rid]), [failed |-> FALSE, rdrs |-> h.rdrs])
      BY <3>3, <3>6 DEF Change
    <3>8. x = [failed |-> FALSE, rdrs |-> h.rdrs]
      BY <2>1, <2>3, <3>2, <3>3, <3>7, MadeAsMeant
    <3> QED  BY <3>3, <3>5, <3>8
  <2>6. Replays(Tail(q), r, now, x, w)
    BY <1>1, <1>9, <2>1, <2>2, <2>4, <2>5, ReplaysTail
  <2> QED  BY <1>8, <2>2, <2>3, <2>6
<1>15. CASE CallStep
  <2>1. /\ q' = q /\ removed' = removed /\ View(rpt'[r]) = View(rpt[r])
        /\ View(cache'[r]) = View(cache[r])
    BY <1>15 DEF CallStep
  <2>2. now = known
    BY <1>4, <1>5, <2>1
  <2> QED  BY <1>7, <1>8, <1>9, <2>1, <2>2
<1> QED  BY <1>11, <1>12, <1>13, <1>14, <1>15, Steps

----------------------------------------------------------------------------
(* Theorems. *)

\* The invariant holds at the start.
LEMMA InitInv == Init => Inv
<1> SUFFICES ASSUME Init PROVE Inv
  OBVIOUS
<1>1. q = <<>> /\ q \in Seq(QEvents) /\ Len(q) = 0 /\ 1 .. Len(q) = {}
  BY DEF Init
<1>2. EmptyDat \in Tables
  BY LimitsAssumption DEF EmptyDat, Tables
<1>3. TypeOK
  BY <1>1, <1>2 DEF Init, TypeOK, Tables
<1>4. QueueInv
  BY <1>1 DEF Init, QueueInv, NoCall
<1>5. \A r \in Resources : ~Present(r)
  BY DEF Init, Present
<1>6. AnnounceInv
  <2> SUFFICES ASSUME NEW r \in frus PROVE Vanishes(q, r, Present(r), 0)
    BY <1>1 DEF AnnounceInv
  <2>1. ~Present(r) /\ 0 \in 0 .. 0 /\ 0 + 1 .. 0 = {}
    BY <1>3, <1>5 DEF TypeOK
  <2> QED  BY <2>1 DEF Vanishes
<1>7. PublishInv
  BY <1>5 DEF Init, PublishInv, Failing
<1>8. HealthyNotAlarmed
  BY <1>5 DEF HealthyNotAlarmed
<1>9. ReplayInv
  <2> SUFFICES ASSUME NEW r \in Resources
               PROVE  Leads(q, r, View(rpt[r]), 0, View(cache[r]))
    BY <1>1 DEF ReplayInv, Replays
  <2>1. View(rpt[r]) = Absent /\ View(cache[r]) = Absent /\ Absent \in Views
    BY ViewFacts DEF Init, Views
  <2>2. Leads(q, r, Absent, Len(q), Absent)
    BY <1>1, <2>1, LeadsEnd
  <2> QED  BY <1>1, <2>1, <2>2
<1> QED  BY <1>3, <1>4, <1>6, <1>7, <1>8, <1>9 DEF Inv

\* The invariant of process_event and everything next to it.
THEOREM InvHolds == Spec => []Inv
<1>1. Inv /\ [Next]_vars => Inv'
  BY TypeStep, QueueStep, AnnounceStep, PublishStep, HealthyStep, ReplayStep DEF Inv
<1> QED  BY <1>1, InitInv, PTL DEF Spec

\* Every variable keeps its type: no event makes an entry, an alarm or a call
\* that openhpid's tables cannot hold.
THEOREM TypeCorrect == Spec => []TypeOK
<1>1. Inv => TypeOK
  BY DEF Inv
<1> QED  BY <1>1, InvHolds, PTL

\* Suppressing repeated failures and restorations in process_resource_event
\* hides nothing: who follows the published events knows what is failed.
THEOREM FailuresArePublished == Spec => []FailuresPublished
<1>1. Inv => FailuresPublished
  BY DEF Inv, PublishInv, FailuresPublished, Failing
<1> QED  BY <1>1, InvHolds, PTL

\* oh_detect_event_alarm leaves no resource alarm on a healthy resource that is
\* no FRU.
THEOREM HealthyAreNotAlarmed == Spec => []HealthyNotAlarmed
<1>1. Inv => HealthyNotAlarmed
  BY DEF Inv
<1> QED  BY <1>1, InvHolds, PTL

\* Once process_event has emptied the queue, the RPT says of every resource what
\* its handler says, whatever calls ran in between.
THEOREM RptsAgree == Spec => []RptAgrees
<1>1. Inv => RptAgrees
  <2> SUFFICES ASSUME Inv, q = <<>>, NEW r \in Resources, Owner[r] \in handlers, r \notin removed
               PROVE  /\ Present(r) <=> cache[r] # Absent
                      /\ Present(r) => /\ rpt[r].failed = cache[r].failed
                                       /\ rpt[r].rdrs = cache[r].rdrs
    BY DEF RptAgrees, Quiet
  <2>1. Leads(<<>>, r, View(rpt[r]), 0, View(cache[r]))
    BY DEF Inv, ReplayInv, Replays
  <2>2. View(rpt[r]) = View(cache[r])
    BY <2>1, LeadsNowhere
  <2>3. PICK x \in Entries \union {Absent} : x = rpt[r]
    BY DEF Inv, TypeOK
  <2>4. PICK y \in Entries \union {Absent} : y = cache[r]
    BY DEF Inv, TypeOK
  <2>5. x = Absent <=> y = Absent
    BY <2>2, <2>3, <2>4, SameView
  <2>6. CASE x # Absent
    <3>1. x \in Entries /\ y \in Entries
      BY <2>5, <2>6
    <3>2. [failed |-> x.failed, rdrs |-> x.rdrs] = [failed |-> y.failed, rdrs |-> y.rdrs]
      BY <2>2, <2>3, <2>4, <3>1, ViewFacts
    <3>3. x.failed = y.failed /\ x.rdrs = y.rdrs
      BY <3>2
    <3> QED  BY <2>3, <2>4, <2>5, <3>3 DEF Present
  <2>7. CASE x = Absent
    BY <2>3, <2>4, <2>5, <2>7 DEF Present
  <2> QED  BY <2>6, <2>7
<1> QED  BY <1>1, InvHolds, PTL
=============================================================================
