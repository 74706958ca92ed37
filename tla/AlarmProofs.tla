---------------------------- MODULE AlarmProofs ----------------------------
(***************************************************************************)
(* Proofs about module Alarm and the alarm table of module Dat, for any    *)
(* resources, sensors, states and limits.                                  *)
(***************************************************************************)
EXTENDS Alarm, FiniteSetTheorems, WellFoundedInduction, TLAPS

Tables == [next_id : Nat, list : SUBSET Alarms, update_count : 0 .. CountMod - 1,
           overflow : BOOLEAN, file : SUBSET Alarms]

\* What a sensor alarm is about.
About(a) == <<a.cond.rid, a.cond.num, a.cond.state>>

\* The limits of oh_add_alarm are kept to.
InLimits(list) ==
  /\ SizeLimit # 0 => Cardinality(list) <= SizeLimit
  /\ UserLimit # 0 => Cardinality(UserAlarms(list)) <= UserLimit

\* Alarms whose ids are theirs alone and at most n.
Sound(list, n) ==
  /\ IsFiniteSet(list)
  /\ \A a \in list : a.id \in 1 .. n /\ (a.cond.type = "SENSOR" => About(a) \in SensorConds)
  /\ \A a, b \in list : a.id = b.id => a = b
  /\ InLimits(list)

\* A table that any sequence of calls of openhpid/alarm.c may have made.
TableInv(d) == d \in Tables /\ Sound(d.list, d.next_id) /\ Sound(d.file, d.next_id)

\* The file ends with the alarm added last, if it was written to its end.
SaveInv == DatSave /\ whole => dat.next_id = 0 \/ \E a \in dat.file : a.id = dat.next_id

\* The walk has returned what it passed.
WalkInv ==
  /\ walk \in Walks
  /\ walk.start \subseteq 0 .. dat.next_id
  /\ \A a \in dat.list :
       a.id \in walk.start /\ Matches(a, walk) /\ (a.id <= walk.aid \/ walk.ended)
         => a.id \in walk.seen

AssertedInv == asserted \subseteq SensorConds /\ NoStaleSensorAlarm

HistoryInv == issued \in Nat /\ whole \in BOOLEAN /\ SaveInv /\ IdsNeverReused

Inv == TableInv(dat) /\ HistoryInv /\ WalkInv /\ AssertedInv

----------------------------------------------------------------------------
(* Sets of alarms. *)

\* Removing alarms breaks no limit.
LEMMA SoundSubset ==
  ASSUME NEW S, NEW n \in Nat, Sound(S, n), NEW T \in SUBSET S
  PROVE  Sound(T, n)
<1>1. IsFiniteSet(S) /\ IsFiniteSet(T) /\ Cardinality(T) <= Cardinality(S)
  BY FS_Subset DEF Sound
<1>2. /\ UserAlarms(S) \in SUBSET S /\ UserAlarms(T) \in SUBSET UserAlarms(S)
  BY DEF UserAlarms
<1>3. IsFiniteSet(UserAlarms(S))
  BY <1>1, <1>2, FS_Subset
<1>4. IsFiniteSet(UserAlarms(T)) /\ Cardinality(UserAlarms(T)) <= Cardinality(UserAlarms(S))
  BY <1>2, <1>3, FS_Subset
<1>5. /\ Cardinality(S) \in Nat /\ Cardinality(T) \in Nat
      /\ Cardinality(UserAlarms(S)) \in Nat /\ Cardinality(UserAlarms(T)) \in Nat
  BY <1>1, <1>3, <1>4, FS_CardinalityType
<1>6. InLimits(T)
  <2>1. InLimits(S)
    BY DEF Sound
  <2> QED  BY <1>1, <1>4, <1>5, <2>1, LimitsAssumption DEF InLimits
<1> QED  BY <1>1, <1>6 DEF Sound

\* A greater next_id does no harm.
LEMMA SoundMore ==
  ASSUME NEW S, NEW n \in Nat, NEW m \in Nat, n <= m, Sound(S, n)
  PROVE  Sound(S, m)
BY DEF Sound

\* oh_add_alarm, when neither limit refuses the alarm.
LEMMA SoundAdd ==
  ASSUME NEW S, NEW n \in Nat, Sound(S, n), ~SizeFull(S),
         NEW a, a.id = n + 1, a.cond.type = "USER" => ~UserFull(S),
         a.cond.type = "SENSOR" => About(a) \in SensorConds
  PROVE  Sound(S \union {a}, n + 1)
<1>1. IsFiniteSet(S) /\ Cardinality(S) \in Nat
  BY FS_CardinalityType DEF Sound
<1>2. \A b \in S : b.id \in 1 .. n /\ b.id # n + 1
  BY DEF Sound
<1>3. a \notin S
  BY <1>2
<1>4. IsFiniteSet(S \union {a}) /\ Cardinality(S \union {a}) = Cardinality(S) + 1
  BY <1>1, <1>3, FS_AddElement
<1>5. SizeLimit # 0 => Cardinality(S \union {a}) <= SizeLimit
  BY <1>1, <1>4, LimitsAssumption DEF SizeFull
<1>6. UserLimit # 0 => Cardinality(UserAlarms(S \union {a})) <= UserLimit
  <2>1. CASE a.cond.type # "USER"
    <3>1. UserAlarms(S \union {a}) = UserAlarms(S)
      BY <2>1 DEF UserAlarms
    <3> QED  BY <3>1 DEF Sound, InLimits
  <2>2. CASE a.cond.type = "USER"
    <3>1. UserAlarms(S \union {a}) = UserAlarms(S) \union {a} /\ a \notin UserAlarms(S)
      BY <1>3, <2>2 DEF UserAlarms
    <3>2. UserAlarms(S) \in SUBSET S
      BY DEF UserAlarms
    <3>3. IsFiniteSet(UserAlarms(S)) /\ Cardinality(UserAlarms(S)) \in Nat
      BY <1>1, <3>2, FS_Subset, FS_CardinalityType
    <3>4. Cardinality(UserAlarms(S \union {a})) = Cardinality(UserAlarms(S)) + 1
      BY <3>1, <3>3, FS_AddElement
    <3> QED  BY <2>2, <3>3, <3>4, LimitsAssumption DEF UserFull
  <2> QED  BY <2>1, <2>2
<1>7. \A b \in S \union {a} :
        b.id \in 1 .. n + 1 /\ (b.cond.type = "SENSOR" => About(b) \in SensorConds)
  BY <1>2 DEF Sound
<1>8. \A b, c \in S \union {a} : b.id = c.id => b = c
  BY <1>2 DEF Sound
<1> QED  BY <1>4, <1>5, <1>6, <1>7, <1>8 DEF Sound, InLimits

\* Acknowledged alarms, as saHpiAlarmAcknowledge leaves them.
Acked(S, acked) == (S \ acked) \union {[a EXCEPT !.ack = TRUE] : a \in acked}

\* Acknowledging changes neither the number of alarms nor what they are about.
LEMMA SoundAck ==
  ASSUME NEW S \in SUBSET Alarms, NEW n \in Nat, Sound(S, n), NEW acked \in SUBSET S
  PROVE  /\ Acked(S, acked) \in SUBSET Alarms /\ Sound(Acked(S, acked), n)
         /\ \A b \in Acked(S, acked) :
              \E a \in S : a.id = b.id /\ a.cond = b.cond /\ (a.ack => b.ack)
<1> DEFINE new(a) == IF a \in acked THEN [a EXCEPT !.ack = TRUE] ELSE a
           f == [a \in S |-> new(a)]
<1>1. \A a \in S : /\ new(a) \in Alarms /\ new(a).id = a.id /\ new(a).cond = a.cond
                   /\ a.ack => new(a).ack
  BY DEF Alarms
<1>2. \A b : b \in Acked(S, acked) <=> \E a \in S : b = new(a)
  BY DEF Acked
<1>3. \A a \in S : f[a] = new(a)
  OBVIOUS
<1>4. f \in Surjection(S, Acked(S, acked))
  <2>1. f \in [S -> Acked(S, acked)]
    BY <1>2
  <2>2. \A b \in Acked(S, acked) : \E a \in S : f[a] = b
    BY <1>2, <1>3
  <2> HIDE DEF f
  <2> QED  BY <2>1, <2>2 DEF Surjection
<1>5. IsFiniteSet(S) /\ Cardinality(S) \in Nat
  BY FS_CardinalityType DEF Sound
<1>6. /\ IsFiniteSet(Acked(S, acked)) /\ Cardinality(Acked(S, acked)) <= Cardinality(S)
      /\ Cardinality(Acked(S, acked)) \in Nat
  <2> HIDE DEF f
  <2> QED  BY <1>4, <1>5, FS_Surjection, FS_CardinalityType
<1>7. UserLimit # 0 => Cardinality(UserAlarms(Acked(S, acked))) <= UserLimit
  <2> DEFINE U == UserAlarms(S)
             V == UserAlarms(Acked(S, acked))
             g == [a \in U |-> new(a)]
  <2>1. U \in SUBSET S /\ \A b : b \in V <=> \E a \in U : b = new(a)
    BY <1>1, <1>2 DEF UserAlarms
  <2>2. g \in [U -> V] /\ \A b \in V : \E a \in U : g[a] = b
    BY <2>1
  <2>3. IsFiniteSet(U)
    BY <1>5, <2>1, FS_Subset
  <2> HIDE DEF U, V, g
  <2>4. g \in Surjection(U, V)
    BY <2>2 DEF Surjection
  <2>5. IsFiniteSet(V) /\ Cardinality(V) <= Cardinality(U)
    BY <2>3, <2>4, FS_Surjection
  <2>6. Cardinality(U) \in Nat /\ Cardinality(V) \in Nat
    BY <2>3, <2>5, FS_CardinalityType
  <2>7. UserLimit # 0 => Cardinality(U) <= UserLimit
    BY DEF Sound, InLimits, U
  <2>8. UserLimit # 0 => Cardinality(V) <= UserLimit
    BY <2>5, <2>6, <2>7, LimitsAssumption
  <2> QED  BY <2>8 DEF V
<1>8. SizeLimit # 0 => Cardinality(Acked(S, acked)) <= SizeLimit
  <2>1. SizeLimit # 0 => Cardinality(S) <= SizeLimit
    BY DEF Sound, InLimits
  <2> QED  BY <1>5, <1>6, <2>1, LimitsAssumption
<1>9. ASSUME NEW b \in Acked(S, acked)
      PROVE  /\ b \in Alarms /\ b.id \in 1 .. n
             /\ b.cond.type = "SENSOR" => About(b) \in SensorConds
             /\ \E a \in S : a.id = b.id /\ a.cond = b.cond /\ (a.ack => b.ack)
  <2>1. PICK a \in S : b = new(a)
    BY <1>2
  <2>2. b \in Alarms /\ a.id = b.id /\ a.cond = b.cond /\ (a.ack => b.ack)
    BY <1>1, <2>1
  <2>3. a.id \in 1 .. n /\ (a.cond.type = "SENSOR" => About(a) \in SensorConds)
    BY DEF Sound
  <2> HIDE DEF new
  <2> QED  BY <2>2, <2>3 DEF About
<1>10. \A b, c \in Acked(S, acked) : b.id = c.id => b = c
  <2> SUFFICES ASSUME NEW b \in Acked(S, acked), NEW c \in Acked(S, acked), b.id = c.id
               PROVE  b = c
    OBVIOUS
  <2>1. PICK x \in S : b = new(x)
    BY <1>2
  <2>2. PICK y \in S : c = new(y)
    BY <1>2
  <2>3. x.id = y.id
    BY <1>1, <2>1, <2>2
  <2>4. x = y
    BY <2>3 DEF Sound
  <2> QED  BY <2>1, <2>2, <2>4
<1> HIDE DEF new, f
<1>11. Acked(S, acked) \in SUBSET Alarms
  BY <1>9
<1>12. Sound(Acked(S, acked), n)
  BY <1>6, <1>7, <1>8, <1>9, <1>10 DEF Sound, InLimits
<1> QED  BY <1>9, <1>11, <1>12

----------------------------------------------------------------------------
(* Changes of the table. *)

\* r has lost alarms of d and nothing else, the counter and the flag aside.
Shrunk(d, r) ==
  /\ r \in Tables /\ r.next_id = d.next_id /\ r.file = d.file
  /\ r.list \subseteq d.list

\* The alarms of e are those of d, acknowledged or not, or new.
Kept(d, e) ==
  \A b \in e.list :
    \/ b.id > d.next_id
    \/ \E a \in d.list : a.id = b.id /\ a.cond = b.cond /\ (a.ack => b.ack)

\* What one call does to the table and to its file.
Step(d, e) ==
  /\ TableInv(e)
  /\ Kept(d, e)
  /\ \/ e.next_id = d.next_id /\ e.file = d.file
     \/ /\ e.next_id = d.next_id + 1
        /\ IF DatSave THEN e.file = e.list ELSE e.file = d.file
        /\ \E a \in e.list : a.id = e.next_id

\* update_count stays below its modulus.
LEMMA CountType == \A x \in 0 .. CountMod - 1 : (x + 1) % CountMod \in 0 .. CountMod - 1
BY LimitsAssumption

\* oh_remove_alarm.
LEMMA RemoveShrinks ==
  ASSUME NEW d \in Tables, NEW gone
  PROVE  /\ Shrunk(d, RemoveAlarms(d, gone))
         /\ RemoveAlarms(d, gone).list = d.list \ gone
<1>1. (d.update_count + 1) % CountMod \in 0 .. CountMod - 1
  BY CountType DEF Tables
<1>2. PICK l : l = d.list \ gone
  OBVIOUS
<1>3. PICK o \in BOOLEAN : o = (d.overflow /\ ~(SizeLimit # 0 /\ ~SizeFull(l)))
  OBVIOUS
<1>4. PICK c \in 0 .. CountMod - 1 : c = (d.update_count + 1) % CountMod
  BY <1>1
<1>5. RemoveAlarms(d, gone) = [d EXCEPT !.list = l, !.overflow = o, !.update_count = c]
  BY <1>2, <1>3, <1>4 DEF RemoveAlarms, UpdateDat, Tables
<1>6. l \in SUBSET Alarms
  BY <1>2 DEF Tables
<1> QED  BY <1>2, <1>5, <1>6 DEF Shrunk, Tables

\* Removals one after the other.
LEMMA ShrunkTwice ==
  ASSUME NEW d, NEW r, NEW s, Shrunk(d, r), Shrunk(r, s)
  PROVE  Shrunk(d, s)
BY DEF Shrunk

\* A removal is a step of a table.
LEMMA ShrinkStep ==
  ASSUME NEW d, TableInv(d), NEW r, Shrunk(d, r)
  PROVE  Step(d, r)
<1>1. d.next_id \in Nat /\ r.list \in SUBSET d.list
  BY DEF TableInv, Shrunk, Tables
<1>2. Sound(r.list, d.next_id)
  BY <1>1, SoundSubset DEF TableInv
<1> QED  BY <1>2 DEF Step, TableInv, Shrunk, Kept

\* oh_add_alarm: it refuses the alarm, or takes it and saves the table.
LEMMA AddFields ==
  ASSUME NEW d \in Tables, NEW cond \in Conditions, NEW e, e = AddAlarm(d, cond),
         NEW a, a = [id |-> d.next_id + 1, ack |-> FALSE, cond |-> cond]
  PROVE  /\ e \in Tables
         /\ \/ e.next_id = d.next_id /\ e.list = d.list /\ e.file = d.file
            \/ /\ ~SizeFull(d.list) /\ (cond.type = "USER" => ~UserFull(d.list))
               /\ e.next_id = d.next_id + 1 /\ e.list = d.list \union {a}
               /\ e.file = IF DatSave THEN e.list ELSE d.file
<1>1. (d.update_count + 1) % CountMod \in 0 .. CountMod - 1
  BY CountType DEF Tables
<1>2. CASE SizeFull(d.list)
  <2>1. e = [d EXCEPT !.overflow = TRUE]
    BY <1>2 DEF AddAlarm
  <2> QED  BY <2>1 DEF Tables
<1>3. CASE ~SizeFull(d.list) /\ cond.type = "USER" /\ UserFull(d.list)
  <2>1. e = d
    BY <1>3 DEF AddAlarm
  <2> QED  BY <2>1
<1>4. CASE ~SizeFull(d.list) /\ ~(cond.type = "USER" /\ UserFull(d.list))
  <2>1. PICK c \in 0 .. CountMod - 1 : c = (d.update_count + 1) % CountMod
    BY <1>1
  <2>2. d.next_id + 1 \in Nat /\ a \in Alarms
    BY DEF Tables, Alarms
  <2>3. PICK l \in SUBSET Alarms : l = d.list \union {a}
    BY <2>2 DEF Tables
  <2>4. PICK f \in SUBSET Alarms : f = IF DatSave THEN l ELSE d.file
    BY DEF Tables
  <2>5. e = [d EXCEPT !.next_id = d.next_id + 1, !.list = l, !.file = f, !.update_count = c]
    BY <1>4, <2>1, <2>3, <2>4 DEF AddAlarm, NewId, UpdateDat, Tables
  <2>6. e \in Tables /\ e.next_id = d.next_id + 1 /\ e.list = l /\ e.file = f
    BY <2>2, <2>5 DEF Tables
  <2> QED  BY <1>4, <2>3, <2>4, <2>6
<1> QED  BY <1>2, <1>3, <1>4

\* An addition, after a removal or not, is a step of a table.
LEMMA AddStep ==
  ASSUME NEW d, TableInv(d), NEW r, Shrunk(d, r), NEW cond \in Conditions,
         cond.type = "SENSOR" => <<cond.rid, cond.num, cond.state>> \in SensorConds
  PROVE  /\ Step(d, AddAlarm(r, cond))
         /\ \A b \in AddAlarm(r, cond).list : b \in r.list \/ b.cond = cond
<1>1. PICK e : e = AddAlarm(r, cond)
  OBVIOUS
<1>2. PICK a : a = [id |-> r.next_id + 1, ack |-> FALSE, cond |-> cond]
  OBVIOUS
<1>3. a.id = r.next_id + 1 /\ a.cond = cond
  BY <1>2
<1>4. r \in Tables /\ TableInv(r) /\ Step(d, r) /\ r.next_id \in Nat
  BY ShrinkStep DEF Step, Shrunk, Tables
<1>5. /\ e \in Tables
      /\ \/ e.next_id = r.next_id /\ e.list = r.list /\ e.file = r.file
         \/ /\ ~SizeFull(r.list) /\ (cond.type = "USER" => ~UserFull(r.list))
            /\ e.next_id = r.next_id + 1 /\ e.list = r.list \union {a}
            /\ e.file = IF DatSave THEN e.list ELSE r.file
  BY <1>1, <1>2, <1>4, AddFields
<1>6. CASE e.next_id = r.next_id /\ e.list = r.list /\ e.file = r.file
  <2>1. Shrunk(d, e)
    BY <1>5, <1>6 DEF Shrunk
  <2> QED  BY <1>1, <1>6, <2>1, ShrinkStep
<1>7. CASE /\ ~SizeFull(r.list) /\ (cond.type = "USER" => ~UserFull(r.list))
           /\ e.next_id = r.next_id + 1 /\ e.list = r.list \union {a}
           /\ e.file = IF DatSave THEN e.list ELSE r.file
  <2>1. Sound(r.list, r.next_id) /\ Sound(r.file, r.next_id)
    BY <1>4 DEF TableInv
  <2>2. Sound(e.list, e.next_id)
    BY <1>3, <1>4, <1>7, <2>1, SoundAdd DEF About
  <2>3. Sound(r.file, e.next_id)
    BY <1>4, <1>7, <2>1, SoundMore
  <2>4. TableInv(e)
    BY <1>5, <1>7, <2>2, <2>3 DEF TableInv
  <2>5. d.next_id = r.next_id /\ d.file = r.file /\ r.list \subseteq d.list
    BY DEF Shrunk
  <2>6. Kept(d, e)
    BY <1>3, <1>4, <1>7, <2>5 DEF Kept
  <2>7. a \in e.list /\ a.id = e.next_id
    BY <1>3, <1>7
  <2> QED  BY <1>1, <1>3, <1>7, <2>4, <2>5, <2>6, <2>7 DEF Step
<1> QED  BY <1>5, <1>6, <1>7

\* The highest of a set of ids.
LEMMA LastIdIsMax ==
  ASSUME NEW S, NEW n \in Nat, S # {}, \A a \in S : a.id \in 1 .. n
  PROVE  (\E a \in S : a.id = LastId(S)) /\ \A a \in S : a.id <= LastId(S)
<1> DEFINE R == OpToRel(<, Nat)
           T == {n - a.id : a \in S}
<1>1. IsWellFoundedOn(R, Nat)
  BY NatLessThanWellFounded
<1>2. R = {ss \in Nat \X Nat : ss[1] < ss[2]}
  BY DEF OpToRel
<1>3. T \subseteq Nat /\ T # {}
  OBVIOUS
<1> HIDE DEF R, T
<1>4. \A x, y \in Nat : <<y, x>> \in R <=> y < x
  BY <1>2
<1>5. PICK x \in T : \A y \in T : ~ (<<y, x>> \in R)
  BY <1>1, <1>3, WFMin
<1>6. \A y \in T : x <= y
  <2> TAKE y \in T
  <2>1. x \in Nat /\ y \in Nat /\ ~(y < x)
    BY <1>3, <1>5, <1>4
  <2> QED  BY <2>1
<1>7. PICK a \in S : x = n - a.id
  BY DEF T
<1>8. \A b \in S : b.id <= a.id
  <2> TAKE b \in S
  <2>1. n - a.id <= n - b.id
    BY <1>6, <1>7 DEF T
  <2> QED  BY <2>1
<1>9. \E c \in S : \A b \in S : b.id <= c.id
  BY <1>8
<1>10. PICK c \in S : c = CHOOSE d \in S : \A b \in S : b.id <= d.id
  BY <1>9
<1>11. (\A b \in S : b.id <= c.id) /\ LastId(S) = c.id
  BY <1>9, <1>10 DEF LastId
<1> QED  BY <1>11

\* A file within the limits is loaded to its end.
LEMMA LoadedAll ==
  ASSUME NEW F, NEW n \in Nat, Sound(F, n)
  PROVE  Loaded(F) = F
<1> SUFFICES ASSUME NEW b \in F
             PROVE  Fits(F, b)
  BY DEF Loaded
<1>1. IsFiniteSet(F) /\ InLimits(F) /\ b.id \in 1 .. n
  BY DEF Sound
<1>2. Before(F, b) \in SUBSET F /\ b \notin Before(F, b)
  BY <1>1 DEF Before
<1>3. /\ IsFiniteSet(Before(F, b)) /\ Cardinality(Before(F, b)) <= Cardinality(F)
      /\ Cardinality(Before(F, b)) # Cardinality(F)
  BY <1>1, <1>2, FS_Subset
<1>4. Cardinality(F) \in Nat /\ Cardinality(Before(F, b)) \in Nat
  BY <1>1, <1>3, FS_CardinalityType
<1>5. ~SizeFull(Before(F, b))
  BY <1>1, <1>3, <1>4, LimitsAssumption DEF SizeFull, InLimits
<1>6. ASSUME b.cond.type = "USER"
      PROVE  ~UserFull(Before(F, b))
  <2> DEFINE U == UserAlarms(F)
             V == UserAlarms(Before(F, b))
  <2>1. U \in SUBSET F /\ V \in SUBSET U /\ b \in U /\ b \notin V
    BY <1>2, <1>6 DEF UserAlarms
  <2>2. UserLimit # 0 => Cardinality(U) <= UserLimit
    BY <1>1 DEF InLimits
  <2>3. UserFull(Before(F, b)) => UserLimit # 0 /\ Cardinality(V) >= UserLimit
    BY DEF UserFull
  <2> HIDE DEF U, V
  <2>4. IsFiniteSet(U)
    BY <1>1, <2>1, FS_Subset
  <2>5. IsFiniteSet(V) /\ Cardinality(V) <= Cardinality(U) /\ Cardinality(V) # Cardinality(U)
    BY <2>1, <2>4, FS_Subset
  <2>6. Cardinality(U) \in Nat /\ Cardinality(V) \in Nat
    BY <2>4, <2>5, FS_CardinalityType
  <2> QED  BY <2>2, <2>3, <2>5, <2>6, LimitsAssumption
<1> QED  BY <1>5, <1>6 DEF Fits

\* oh_alarms_from_file at a restart.
LEMMA LoadTable ==
  ASSUME NEW F \in SUBSET Alarms, NEW n \in Nat, Sound(F, n), NEW e, e = LoadDat(F)
  PROVE  /\ TableInv(e) /\ e.list = F /\ e.file = F
         /\ IF F = {} THEN e.next_id = 0 ELSE \E a \in F : a.id = e.next_id
         /\ \A a \in F : a.id <= e.next_id
<1>1. Loaded(F) = F
  BY LoadedAll
<1>2. \A a \in F : a.id \in 1 .. n
  BY DEF Sound
<1>3. /\ LastId(F) \in Nat /\ \A a \in F : a.id <= LastId(F)
      /\ IF F = {} THEN LastId(F) = 0 ELSE \E a \in F : a.id = LastId(F)
  <2>1. CASE F = {}
    BY <2>1 DEF LastId
  <2>2. CASE F # {}
    BY <1>2, <2>2, LastIdIsMax
  <2> QED  BY <2>1, <2>2
<1>4. PICK o \in BOOLEAN : o = (F # F /\ SizeFull(F))
  OBVIOUS
<1>5. PICK m \in Nat : m = LastId(F)
  BY <1>3
<1>6. e = [next_id |-> m, list |-> F, update_count |-> 0, overflow |-> o, file |-> F]
  BY <1>1, <1>4, <1>5 DEF LoadDat, EmptyDat
<1>7. 0 \in 0 .. CountMod - 1
  BY LimitsAssumption
<1>8. e \in Tables /\ e.next_id = m /\ e.list = F /\ e.file = F
  BY <1>6, <1>7 DEF Tables
<1>9. Sound(F, m)
  BY <1>2, <1>3, <1>5 DEF Sound
<1> QED  BY <1>3, <1>5, <1>8, <1>9 DEF TableInv

----------------------------------------------------------------------------
(* Steps of the system. *)

\* An empty set of alarms.
LEMMA SoundEmpty == \A n \in Nat : Sound({}, n)
<1>1. UserAlarms({}) = {}
  BY DEF UserAlarms
<1> QED  BY <1>1, FS_EmptySet, LimitsAssumption DEF Sound, InLimits

\* A new table.
LEMMA EmptyTable ==
  /\ TableInv(EmptyDat) /\ EmptyDat.next_id = 0 /\ EmptyDat.list = {} /\ EmptyDat.file = {}
<1>1. 0 \in 0 .. CountMod - 1
  BY LimitsAssumption
<1> QED  BY <1>1, SoundEmpty DEF TableInv, EmptyDat, Tables

\* No walk has anything to return.
LEMMA NoWalkFacts ==
  /\ NoWalk \in Walks /\ NoWalk.start = {} /\ NoWalk.seen = {} /\ NoWalk.aid = 0
  /\ NoWalk.ended = FALSE
BY DEF NoWalk, Walks

\* Without a walk there is nothing to keep of it.
LEMMA NoWalkInv ==
  ASSUME walk' = NoWalk, TableInv(dat')
  PROVE  WalkInv'
BY NoWalkFacts DEF WalkInv, TableInv, Tables

\* The invariant holds at the start.
LEMMA InitInv == Init => Inv
<1> SUFFICES ASSUME Init
             PROVE  Inv
  OBVIOUS
<1>1. TableInv(dat) /\ dat.next_id = 0 /\ dat.list = {} /\ dat.file = {}
  BY EmptyTable DEF Init
<1>2. WalkInv
  BY <1>1, NoWalkFacts DEF WalkInv, Init
<1>3. HistoryInv
  BY <1>1 DEF HistoryInv, SaveInv, IdsNeverReused, Init
<1>4. AssertedInv
  BY <1>1 DEF AssertedInv, NoStaleSensorAlarm, Init
<1> QED  BY <1>1, <1>2, <1>3, <1>4 DEF Inv

\* What is still in the walk's way was there when it began.
LEMMA KeptWalk ==
  ASSUME TableInv(dat), WalkInv, walk' = walk, TableInv(dat'), Kept(dat, dat'),
         dat.next_id <= dat'.next_id
  PROVE  WalkInv'
<1>1. walk \in Walks /\ walk' \in Walks
  BY DEF WalkInv
<1>2. dat.next_id \in Nat /\ dat'.next_id \in Nat
  BY DEF TableInv, Tables
<1>3. walk'.start \subseteq 0 .. dat'.next_id
  BY <1>2 DEF WalkInv
<1>4. ASSUME NEW b \in dat'.list, b.id \in walk.start, Matches(b, walk),
             b.id <= walk.aid \/ walk.ended
      PROVE  b.id \in walk.seen
  <2>1. ~(b.id > dat.next_id)
    BY <1>2, <1>4 DEF WalkInv
  <2>2. PICK a \in dat.list : a.id = b.id /\ a.cond = b.cond /\ (a.ack => b.ack)
    BY <2>1 DEF Kept
  <2>3. Matches(a, walk)
    BY <1>4, <2>2 DEF Matches, MatchesSeverity
  <2> QED  BY <1>4, <2>2, <2>3 DEF WalkInv
<1> QED  BY <1>1, <1>3, <1>4 DEF WalkInv, Matches

\* Installing a table, whatever part of its file reaches the disk.
LEMMA InstallInv ==
  ASSUME TableInv(dat), HistoryInv, WalkInv, NEW d, Step(dat, d), Install(d), walk' = walk
  PROVE  TableInv(dat') /\ HistoryInv' /\ WalkInv' /\ dat'.list = d.list
<1>1. /\ d \in Tables /\ d.next_id \in Nat /\ dat.next_id \in Nat /\ issued \in Nat
      /\ d.file \in SUBSET Alarms /\ dat.next_id <= d.next_id /\ dat.next_id >= issued
      /\ Sound(d.list, d.next_id) /\ Sound(d.file, d.next_id) /\ whole \in BOOLEAN
  BY DEF TableInv, Tables, Step, HistoryInv, IdsNeverReused
<1>2. issued' \in Nat /\ issued' <= d.next_id
  BY <1>1 DEF Install
<1>3. CASE DatSave /\ d.next_id > dat.next_id
  <2>1. PICK f \in Written(dat.file, d.file, d.next_id) :
          dat' = [d EXCEPT !.file = f] /\ whole' = (f = d.file)
    BY <1>3 DEF Install
  <2>2. f = dat.file \/ f \in SUBSET d.file
    BY DEF Written
  <2>3. f \in SUBSET Alarms /\ Sound(f, d.next_id)
    <3>1. CASE f = dat.file
      BY <1>1, <3>1, SoundMore DEF TableInv, Tables
    <3>2. CASE f \in SUBSET d.file
      BY <1>1, <3>2, SoundSubset
    <3> QED  BY <2>2, <3>1, <3>2
  <2>4. dat' \in Tables /\ dat'.next_id = d.next_id /\ dat'.list = d.list /\ dat'.file = f
    BY <1>1, <2>1, <2>3 DEF Tables
  <2>5. TableInv(dat')
    BY <1>1, <2>3, <2>4 DEF TableInv
  <2>6. Kept(dat, dat')
    BY <2>4 DEF Step, Kept
  <2>7. WalkInv'
    BY <1>1, <2>4, <2>5, <2>6, KeptWalk
  <2>8. d.next_id # dat.next_id
    BY <1>1, <1>3
  <2>9. SaveInv'
    BY <1>3, <2>1, <2>4, <2>8 DEF SaveInv, Step
  <2>10. HistoryInv'
    BY <1>1, <1>2, <2>1, <2>4, <2>9 DEF HistoryInv, IdsNeverReused
  <2> QED  BY <2>4, <2>5, <2>7, <2>10
<1>4. CASE ~(DatSave /\ d.next_id > dat.next_id)
  <2>1. dat' = d /\ whole' = whole
    BY <1>4 DEF Install
  <2>2. TableInv(dat') /\ Kept(dat, dat')
    BY <2>1 DEF Step
  <2>3. WalkInv'
    BY <1>1, <2>1, <2>2, KeptWalk
  <2>4. SaveInv'
    <3>1. ASSUME DatSave
          PROVE  d.next_id = dat.next_id /\ d.file = dat.file
      <4>1. d.next_id = dat.next_id
        BY <1>1, <1>4, <3>1
      <4>2. dat.next_id # dat.next_id + 1
        BY <1>1
      <4> QED  BY <4>1, <4>2 DEF Step
    <3> QED  BY <2>1, <3>1 DEF SaveInv, HistoryInv
  <2>5. HistoryInv'
    BY <1>1, <1>2, <2>1, <2>4 DEF HistoryInv, IdsNeverReused
  <2> QED  BY <2>1, <2>2, <2>3, <2>5
<1> QED  BY <1>3, <1>4

\* A step of the table that leaves only sensor alarms of states that hold.
LEMMA StepInv ==
  ASSUME Inv, NEW d, Step(dat, d), Install(d), walk' = walk, asserted' \subseteq SensorConds,
         \A b \in d.list : b.cond.type = "SENSOR" => About(b) \in asserted'
  PROVE  Inv'
<1>1. TableInv(dat') /\ HistoryInv' /\ WalkInv' /\ dat'.list = d.list
  BY InstallInv DEF Inv
<1>2. AssertedInv'
  BY <1>1 DEF AssertedInv, NoStaleSensorAlarm, About
<1> QED  BY <1>1, <1>2 DEF Inv

\* A table is a step from itself.
LEMMA SameTable ==
  ASSUME NEW d, TableInv(d)
  PROVE  Shrunk(d, d) /\ Step(d, d) /\ d \in Tables /\ d.next_id \in Nat
<1>1. Shrunk(d, d)
  BY DEF Shrunk, TableInv
<1> QED  BY <1>1, ShrinkStep DEF TableInv, Tables

\* Removals and additions that are not about sensors.
LEMMA QuietInv ==
  ASSUME Inv, NEW d, Install(d), walk' = walk, asserted' = asserted,
         \/ Shrunk(dat, d)
         \/ \E cond \in Conditions : cond.type # "SENSOR" /\ d = AddAlarm(dat, cond)
  PROVE  Inv'
<1>1. TableInv(dat) /\ AssertedInv /\ asserted' \subseteq SensorConds
  BY DEF Inv, AssertedInv
<1>2. \A b \in dat.list : b.cond.type = "SENSOR" => About(b) \in asserted'
  BY <1>1 DEF AssertedInv, NoStaleSensorAlarm, About
<1>3. CASE Shrunk(dat, d)
  <2>1. Step(dat, d)
    BY <1>1, <1>3, ShrinkStep
  <2>2. d.list \subseteq dat.list
    BY <1>3 DEF Shrunk
  <2> QED  BY <1>1, <1>2, <2>1, <2>2, StepInv
<1>4. ASSUME NEW cond \in Conditions, cond.type # "SENSOR", d = AddAlarm(dat, cond)
      PROVE  Inv'
  <2>1. Step(dat, d) /\ \A b \in d.list : b \in dat.list \/ b.cond = cond
    BY <1>1, <1>4, SameTable, AddStep
  <2>2. \A b \in d.list : b.cond.type = "SENSOR" => About(b) \in asserted'
    BY <1>2, <1>4, <2>1
  <2> QED  BY <1>1, <2>1, <2>2, StepInv
<1> QED  BY <1>3, <1>4

\* The alarm calls.
LEMMA CallInv ==
  ASSUME Inv
  PROVE  /\ \A sev \in Severities : AlarmAdd(sev) => Inv'
         /\ \A aid : AlarmDelete(aid) => Inv'
         /\ \A aid : AlarmAcknowledge(aid) => Inv'
         /\ \A sev : AlarmDeleteSeverity(sev) => Inv'
         /\ \A sev : AlarmAcknowledgeSeverity(sev) => Inv'
<1>1. TableInv(dat) /\ dat \in Tables /\ AssertedInv
  BY SameTable DEF Inv
<1>2. ASSUME NEW sev \in Severities, AlarmAdd(sev)
      PROVE  Inv'
  <2>1. PICK cond : cond = Cond("USER", sev, None, None, None)
    OBVIOUS
  <2>2. cond \in Conditions /\ cond.type # "SENSOR"
    BY <2>1 DEF Conditions, Cond, Types
  <2>3. Install(AddAlarm(dat, cond)) /\ walk' = walk /\ asserted' = asserted
    BY <1>2, <2>1 DEF AlarmAdd
  <2> QED  BY <2>2, <2>3, QuietInv
<1>3. ASSUME NEW aid, AlarmDelete(aid)
      PROVE  Inv'
  <2>1. PICK a \in dat.list : Install([dat EXCEPT !.list = @ \ {a}])
    BY <1>3 DEF AlarmDelete
  <2>2. PICK d : d = [dat EXCEPT !.list = @ \ {a}]
    OBVIOUS
  <2>3. Shrunk(dat, d)
    BY <1>1, <2>2 DEF Shrunk, Tables
  <2>4. Install(d) /\ walk' = walk /\ asserted' = asserted
    BY <1>3, <2>1, <2>2 DEF AlarmDelete
  <2> QED  BY <2>3, <2>4, QuietInv
<1>4. ASSUME NEW sev, AlarmDeleteSeverity(sev)
      PROVE  Inv'
  <2>1. PICK gone : gone = {a \in UserAlarms(dat.list) : MatchesSeverity(a, sev)}
    OBVIOUS
  <2>2. Install(RemoveAlarms(dat, gone)) /\ walk' = walk /\ asserted' = asserted
    BY <1>4, <2>1 DEF AlarmDeleteSeverity
  <2>3. Shrunk(dat, RemoveAlarms(dat, gone))
    BY <1>1, RemoveShrinks
  <2> QED  BY <2>2, <2>3, QuietInv
<1>5. ASSUME NEW acked \in SUBSET dat.list, Install(Acknowledge(acked)), walk' = walk,
             asserted' = asserted
      PROVE  Inv'
  <2>1. PICK d : d = Acknowledge(acked)
    OBVIOUS
  <2>2. dat.list \in SUBSET Alarms /\ dat.next_id \in Nat /\ Sound(dat.list, dat.next_id)
    BY <1>1 DEF TableInv, Tables
  <2>3. PICK l : l = Acked(dat.list, acked)
    OBVIOUS
  <2>4. /\ l \in SUBSET Alarms /\ Sound(l, dat.next_id)
        /\ \A b \in l : \E a \in dat.list : a.id = b.id /\ a.cond = b.cond /\ (a.ack => b.ack)
    BY <2>2, <2>3, SoundAck
  <2>5. d = [dat EXCEPT !.list = l]
    BY <2>1, <2>3 DEF Acknowledge, Acked
  <2>6. /\ d \in Tables /\ d.next_id = dat.next_id /\ d.list = l /\ d.file = dat.file
    BY <1>1, <2>4, <2>5 DEF Tables
  <2>7. Step(dat, d)
    BY <1>1, <2>4, <2>6 DEF Step, TableInv, Kept
  <2>8. asserted' \subseteq SensorConds
    BY <1>1, <1>5 DEF AssertedInv
  <2>9. \A b \in d.list : b.cond.type = "SENSOR" => About(b) \in asserted'
    BY <1>1, <1>5, <2>4, <2>6 DEF AssertedInv, NoStaleSensorAlarm, About
  <2> QED  BY <1>5, <2>1, <2>7, <2>8, <2>9, StepInv
<1>6. ASSUME NEW aid, AlarmAcknowledge(aid)
      PROVE  Inv'
  <2>1. PICK acked \in SUBSET dat.list : acked = {a \in dat.list : a.id = aid}
    OBVIOUS
  <2> QED  BY <1>5, <1>6, <2>1 DEF AlarmAcknowledge
<1>7. ASSUME NEW sev, AlarmAcknowledgeSeverity(sev)
      PROVE  Inv'
  <2>1. PICK acked \in SUBSET dat.list : acked = {a \in dat.list : MatchesSeverity(a, sev)}
    OBVIOUS
  <2> QED  BY <1>5, <1>7, <2>1 DEF AlarmAcknowledgeSeverity
<1> QED  BY <1>2, <1>3, <1>4, <1>6, <1>7

\* saHpiAlarmGetNext: the walk passes no alarm that it does not return.
LEMMA WalkSteps ==
  ASSUME Inv
  PROVE  /\ \A sev \in Severities \union {ALL_SEVERITIES}, unack \in BOOLEAN :
              WalkStart(sev, unack) => Inv'
         /\ AlarmGetNext => Inv'
         /\ WalkEnd => Inv'
<1>1. /\ TableInv(dat) /\ WalkInv /\ dat \in Tables /\ dat.next_id \in Nat
      /\ walk \in Walks /\ \A a \in dat.list : a \in Alarms /\ a.id \in 1 .. dat.next_id
  BY SameTable DEF Inv, WalkInv, TableInv, Tables, Sound
<1>2. ASSUME UNCHANGED <<dat, asserted, issued, whole>>, WalkInv'
      PROVE  Inv'
  BY <1>2 DEF Inv, HistoryInv, SaveInv, IdsNeverReused, AssertedInv, NoStaleSensorAlarm
<1>3. ASSUME NEW sev \in Severities \union {ALL_SEVERITIES}, NEW unack \in BOOLEAN,
             WalkStart(sev, unack)
      PROVE  Inv'
  <2>1. PICK start : start = Ids({a \in dat.list : Matches(a, [sev |-> sev, unack |-> unack])})
    OBVIOUS
  <2>2. start \subseteq 1 .. dat.next_id /\ start \subseteq Nat
    BY <1>1, <2>1 DEF Ids
  <2>3. walk' = [NoWalk EXCEPT !.open = TRUE, !.sev = sev, !.unack = unack, !.start = start]
    BY <1>3, <2>1 DEF WalkStart
  <2>4. /\ walk' \in Walks /\ walk'.start = start /\ walk'.aid = 0 /\ walk'.ended = FALSE
    BY <2>2, <2>3 DEF NoWalk, Walks
  <2>5. UNCHANGED <<dat, asserted, issued, whole>>
    BY <1>3 DEF WalkStart
  <2>6. start \subseteq 0 .. dat.next_id /\ \A a \in dat.list : ~(a.id <= 0)
    BY <1>1, <2>2
  <2>7. WalkInv'
    BY <2>4, <2>5, <2>6 DEF WalkInv
  <2> QED  BY <1>2, <2>5, <2>7
<1>4. ASSUME AlarmGetNext
      PROVE  Inv'
  <2>1. UNCHANGED <<dat, asserted, issued, whole>> /\ ~walk.ended
    BY <1>4 DEF AlarmGetNext
  <2>2. /\ walk.aid \in Nat /\ walk.seen \in SUBSET Nat /\ walk.start \subseteq 0 .. dat.next_id
        /\ \A a \in dat.list : a.id \in Nat
    BY <1>1 DEF WalkInv, Walks, Alarms
  <2>3. \A a \in dat.list : Matches(a, walk) => a \in NextAlarms(walk) \/ a.id <= walk.aid
    BY <2>2 DEF NextAlarms
  <2>4. CASE NextAlarms(walk) = {}
    <3>1. walk' = [walk EXCEPT !.ended = TRUE]
      BY <1>4, <2>4 DEF AlarmGetNext
    <3>2. /\ walk' \in Walks /\ walk'.start = walk.start /\ walk'.seen = walk.seen
          /\ walk'.sev = walk.sev /\ walk'.unack = walk.unack
      BY <1>1, <3>1 DEF Walks
    <3>3. \A a : Matches(a, walk') => Matches(a, walk)
      BY <3>2 DEF Matches
    <3>4. WalkInv'
      BY <1>1, <2>1, <2>3, <2>4, <3>2, <3>3 DEF WalkInv
    <3> QED  BY <1>2, <2>1, <3>4
  <2>5. CASE NextAlarms(walk) # {}
    <3>1. PICK a \in NextAlarms(walk) :
            /\ \A b \in NextAlarms(walk) : a.id <= b.id
            /\ walk' = [walk EXCEPT !.aid = a.id, !.seen = @ \union {a.id}]
      BY <1>4, <2>5 DEF AlarmGetNext
    <3>2. a \in dat.list /\ a.id \in Nat
      BY <2>2 DEF NextAlarms
    <3>3. /\ walk' \in Walks /\ walk'.start = walk.start /\ walk'.ended = walk.ended
          /\ walk'.seen = walk.seen \union {a.id} /\ walk'.aid = a.id
          /\ walk'.sev = walk.sev /\ walk'.unack = walk.unack
      BY <1>1, <3>1, <3>2 DEF Walks
    <3>4. \A b : Matches(b, walk') => Matches(b, walk)
      BY <3>3 DEF Matches
    <3>5. ASSUME NEW b \in dat.list, b.id \in walk.start, Matches(b, walk), b.id <= a.id
          PROVE  b.id \in walk.seen \union {a.id}
      <4>1. CASE b \in NextAlarms(walk)
        BY <2>2, <3>1, <3>2, <3>5, <4>1
      <4>2. CASE b.id <= walk.aid
        BY <1>1, <3>5, <4>2 DEF WalkInv
      <4> QED  BY <2>3, <3>5, <4>1, <4>2
    <3>6. WalkInv'
      BY <1>1, <2>1, <3>3, <3>4, <3>5 DEF WalkInv
    <3> QED  BY <1>2, <2>1, <3>6
  <2> QED  BY <2>4, <2>5
<1>5. ASSUME WalkEnd
      PROVE  Inv'
  <2>1. UNCHANGED <<dat, asserted, issued, whole>> /\ walk' = NoWalk
    BY <1>5 DEF WalkEnd
  <2> QED  BY <1>1, <1>2, <2>1, NoWalkInv
<1> QED  BY <1>3, <1>4, <1>5

\* oh_detect_sensor_event_alarm: the alarms it leaves are of states that hold
\* as far as the event tells.
LEMMA SensorStep ==
  ASSUME Inv, NEW rid \in Resources, NEW num \in Nums, NEW state \in States,
         NEW sev \in Severities, NEW assertion \in BOOLEAN,
         NEW current \in {None} \union SUBSET States,
         SensorEvent(rid, num, state, sev, assertion, current)
  PROVE  Inv'
<1>1. TableInv(dat) /\ dat \in Tables /\ AssertedInv /\ Shrunk(dat, dat)
  BY SameTable DEF Inv
<1>2. PICK seen : seen = IF current = None THEN dat
                         ELSE RemoveAlarms(dat, {a \in SensorAlarms(dat, rid, num) :
                                                   a.cond.state \notin current})
  OBVIOUS
<1>3. PICK known : known = IF current = None THEN asserted
                           ELSE (asserted \ OfSensor(rid, num)) \union
                                  {c \in OfSensor(rid, num) : c[3] \in current}
  OBVIOUS
<1>4. /\ Shrunk(dat, seen)
      /\ \A b \in seen.list : b.cond.type = "SENSOR" => About(b) \in known
  <2>1. CASE current = None
    BY <1>1, <1>2, <1>3, <2>1 DEF AssertedInv, NoStaleSensorAlarm, About
  <2>2. CASE current # None
    <3>1. PICK gone : gone = {a \in SensorAlarms(dat, rid, num) : a.cond.state \notin current}
      OBVIOUS
    <3>2. seen = RemoveAlarms(dat, gone)
      BY <1>2, <2>2, <3>1
    <3>3. Shrunk(dat, seen) /\ seen.list = dat.list \ gone
      BY <1>1, <3>2, RemoveShrinks
    <3>4. ASSUME NEW b \in seen.list, b.cond.type = "SENSOR"
          PROVE  About(b) \in known
      <4>1. b \in dat.list /\ About(b) \in asserted /\ b \notin gone
        BY <1>1, <3>3, <3>4 DEF AssertedInv, NoStaleSensorAlarm, About
      <4>2. ~(b.cond.rid = rid /\ b.cond.num = num /\ b.cond.state \notin current)
        BY <3>1, <3>4, <4>1 DEF SensorAlarms, AlarmsOf
      <4>3. About(b)[1] = b.cond.rid /\ About(b)[2] = b.cond.num /\ About(b)[3] = b.cond.state
        BY DEF About
      <4>4. About(b) \in SensorConds
        BY <1>1, <4>1 DEF AssertedInv
      <4> QED  BY <1>3, <2>2, <4>1, <4>2, <4>3, <4>4, <3>4 DEF OfSensor
    <3> QED  BY <3>3, <3>4
  <2> QED  BY <2>1, <2>2
<1>5. known \subseteq SensorConds /\ <<rid, num, state>> \in SensorConds
  BY <1>1, <1>3 DEF AssertedInv, SensorConds, OfSensor
<1>6. /\ Install(DetectSensor(dat, rid, num, state, sev, assertion, current)) /\ walk' = walk
      /\ asserted' = IF assertion THEN known \union {<<rid, num, state>>}
                                  ELSE known \ {<<rid, num, state>>}
  BY <1>3 DEF SensorEvent, Told
<1>7. asserted' \subseteq SensorConds
  BY <1>5, <1>6
<1>8. CASE ~assertion
  <2>1. PICK gone : gone = {a \in SensorAlarms(seen, rid, num) : a.cond.state = state}
    OBVIOUS
  <2>2. PICK d : d = RemoveAlarms(seen, gone)
    OBVIOUS
  <2>3. DetectSensor(dat, rid, num, state, sev, assertion, current) = d
    BY <1>2, <1>8, <2>1, <2>2 DEF DetectSensor
  <2>4. Shrunk(seen, d) /\ d.list = seen.list \ gone
    BY <1>4, <2>2, RemoveShrinks DEF Shrunk
  <2>5. Step(dat, d)
    BY <1>1, <1>4, <2>4, ShrunkTwice, ShrinkStep
  <2>6. ASSUME NEW b \in d.list, b.cond.type = "SENSOR"
        PROVE  About(b) \in asserted'
    <3>1. About(b) \in known /\ b \in seen.list /\ b \notin gone
      BY <1>4, <2>4, <2>6
    <3>2. ~(b.cond.rid = rid /\ b.cond.num = num /\ b.cond.state = state)
      BY <2>1, <2>6, <3>1 DEF SensorAlarms, AlarmsOf
    <3>3. About(b) # <<rid, num, state>>
      BY <3>2 DEF About
    <3> QED  BY <1>6, <1>8, <3>1, <3>3
  <2> QED  BY <1>6, <1>7, <2>3, <2>5, <2>6, StepInv
<1>9. CASE assertion /\ Alarming(sev)
  <2>1. PICK cond : cond = Cond("SENSOR", sev, rid, num, state)
    OBVIOUS
  <2>2. /\ cond \in Conditions /\ cond.rid = rid /\ cond.num = num /\ cond.state = state
    BY <2>1 DEF Cond, Conditions, Types
  <2>3. PICK d : d = AddAlarm(seen, cond)
    OBVIOUS
  <2>4. DetectSensor(dat, rid, num, state, sev, assertion, current) = d
    BY <1>2, <1>9, <2>1, <2>3 DEF DetectSensor
  <2>5. Step(dat, d) /\ \A b \in d.list : b \in seen.list \/ b.cond = cond
    BY <1>1, <1>4, <1>5, <2>2, <2>3, AddStep
  <2>6. \A b \in d.list : b.cond.type = "SENSOR" => About(b) \in asserted'
    BY <1>4, <1>6, <1>9, <2>2, <2>5 DEF About
  <2> QED  BY <1>6, <1>7, <2>4, <2>5, <2>6, StepInv
<1>10. CASE assertion /\ ~Alarming(sev)
  <2>1. DetectSensor(dat, rid, num, state, sev, assertion, current) = seen
    BY <1>2, <1>10 DEF DetectSensor
  <2>2. Step(dat, seen)
    BY <1>1, <1>4, ShrinkStep
  <2>3. \A b \in seen.list : b.cond.type = "SENSOR" => About(b) \in asserted'
    BY <1>4, <1>6, <1>10
  <2> QED  BY <1>6, <1>7, <2>1, <2>2, <2>3, StepInv
<1> QED  BY <1>8, <1>9, <1>10

\* oh_detect_sensor_enable_alarm, oh_detect_sensor_mask_alarm.
LEMMA DisableSteps ==
  ASSUME Inv, NEW rid \in Resources, NEW num \in Nums
  PROVE  /\ SensorDisable(rid, num) => Inv'
         /\ \A mask \in SUBSET States : SensorEventMasksSet(rid, num, mask) => Inv'
<1>1. dat \in Tables
  BY SameTable DEF Inv
<1>2. ASSUME SensorDisable(rid, num)
      PROVE  Inv'
  <2>1. PICK gone : gone = SensorAlarms(dat, rid, num)
    OBVIOUS
  <2>2. Install(RemoveAlarms(dat, gone)) /\ walk' = walk /\ asserted' = asserted
    BY <1>2, <2>1 DEF SensorDisable, DetectEnable
  <2>3. Shrunk(dat, RemoveAlarms(dat, gone))
    BY <1>1, RemoveShrinks
  <2> QED  BY <2>2, <2>3, QuietInv
<1>3. ASSUME NEW mask \in SUBSET States, SensorEventMasksSet(rid, num, mask)
      PROVE  Inv'
  <2>1. PICK gone : gone = {a \in SensorAlarms(dat, rid, num) : a.cond.state \in mask}
    OBVIOUS
  <2>2. Install(RemoveAlarms(dat, gone)) /\ walk' = walk /\ asserted' = asserted
    BY <1>3, <2>1 DEF SensorEventMasksSet, DetectMask
  <2>3. Shrunk(dat, RemoveAlarms(dat, gone))
    BY <1>1, RemoveShrinks
  <2> QED  BY <2>2, <2>3, QuietInv
<1> QED  BY <1>2, <1>3

\* oh_detect_oem_event_alarm, oh_detect_resource_alarm, oh_detect_resource_event_alarm,
\* oh_remove_resource_alarms.
LEMMA ResourceSteps ==
  ASSUME Inv, NEW rid \in Resources
  PROVE  /\ \A num \in Nums, sev \in Severities : OemEvent(rid, num, sev) => Inv'
         /\ \A bare, failed \in BOOLEAN, sev \in Severities :
              ResourceEvent(rid, bare, failed, sev) => Inv'
         /\ ResourceSeveritySet(rid) => Inv'
         /\ ResourceGone(rid) => Inv'
<1>1. dat \in Tables
  BY SameTable DEF Inv
<1>2. ASSUME NEW num \in Nums, NEW sev \in Severities, OemEvent(rid, num, sev)
      PROVE  Inv'
  <2>1. PICK cond : cond = Cond("OEM", sev, rid, num, None)
    OBVIOUS
  <2>2. cond \in Conditions /\ cond.type # "SENSOR"
    BY <2>1 DEF Cond, Conditions, Types
  <2>3. PICK gone : gone = {a \in AlarmsOf(dat, "OEM", rid) : a.cond.num = num}
    OBVIOUS
  <2>4. DetectOem(dat, rid, num, sev) = IF Alarming(sev) THEN AddAlarm(dat, cond)
                                                         ELSE RemoveAlarms(dat, gone)
    BY <2>1, <2>3 DEF DetectOem
  <2>5. Install(DetectOem(dat, rid, num, sev)) /\ walk' = walk /\ asserted' = asserted
    BY <1>2 DEF OemEvent
  <2>6. Shrunk(dat, RemoveAlarms(dat, gone))
    BY <1>1, RemoveShrinks
  <2> QED  BY <2>2, <2>4, <2>5, <2>6, QuietInv
<1>3. ASSUME NEW bare \in BOOLEAN, NEW failed \in BOOLEAN, NEW sev \in Severities,
             ResourceEvent(rid, bare, failed, sev)
      PROVE  Inv'
  <2>1. PICK cond : cond = Cond("RESOURCE", sev, rid, None, None)
    OBVIOUS
  <2>2. cond \in Conditions /\ cond.type # "SENSOR"
    BY <2>1 DEF Cond, Conditions, Types
  <2>3. PICK gone : gone = AlarmsOf(dat, "RESOURCE", rid)
    OBVIOUS
  <2>4. Shrunk(dat, RemoveAlarms(dat, gone)) /\ Shrunk(dat, dat)
    BY <1>1, RemoveShrinks, SameTable DEF Inv
  <2>5. DetectResource(dat, rid, failed, sev) =
          IF failed /\ Alarming(sev) THEN AddAlarm(dat, cond) ELSE RemoveAlarms(dat, gone)
    BY <2>1, <2>3 DEF DetectResource
  <2>6. DetectResourceEvent(dat, rid, failed, sev) =
          IF ~failed THEN RemoveAlarms(dat, gone)
          ELSE IF Alarming(sev) THEN AddAlarm(dat, cond) ELSE dat
    BY <2>1, <2>3 DEF DetectResourceEvent
  <2>7. PICK d : /\ d = IF bare THEN DetectResourceEvent(dat, rid, failed, sev)
                                ELSE DetectResource(dat, rid, failed, sev)
                 /\ Install(d)
    BY <1>3 DEF ResourceEvent
  <2>8. walk' = walk /\ asserted' = asserted
    BY <1>3 DEF ResourceEvent
  <2>9. d = AddAlarm(dat, cond) \/ Shrunk(dat, d)
    BY <2>4, <2>5, <2>6, <2>7
  <2> QED  BY <2>2, <2>7, <2>8, <2>9, QuietInv
<1>4. PICK one : one = RemoveAlarms(dat, AlarmsOf(dat, "RESOURCE", rid))
  OBVIOUS
<1>5. PICK two : two = RemoveAlarms(one, AlarmsOf(one, "OEM", rid))
  OBVIOUS
<1>6. PICK three : three = RemoveAlarms(two, AlarmsOf(two, "SENSOR", rid))
  OBVIOUS
<1>7. Shrunk(dat, one) /\ one \in Tables
  BY <1>1, <1>4, RemoveShrinks DEF Shrunk
<1>8. Shrunk(one, two) /\ two \in Tables
  BY <1>5, <1>7, RemoveShrinks DEF Shrunk
<1>9. Shrunk(two, three)
  BY <1>6, <1>8, RemoveShrinks
<1>10. Shrunk(dat, three)
  BY <1>7, <1>8, <1>9, ShrunkTwice
<1>11. ASSUME ResourceSeveritySet(rid)
       PROVE  Inv'
  <2>1. Install(one) /\ walk' = walk /\ asserted' = asserted
    BY <1>4, <1>11 DEF ResourceSeveritySet, RemoveResourceAlarms
  <2> QED  BY <1>7, <2>1, QuietInv
<1>12. ASSUME ResourceGone(rid)
       PROVE  Inv'
  <2>1. Install(three) /\ walk' = walk /\ asserted' = asserted
    BY <1>4, <1>5, <1>6, <1>12 DEF ResourceGone, RemoveResourceAlarms
  <2> QED  BY <1>10, <2>1, QuietInv
<1> QED  BY <1>2, <1>3, <1>11, <1>12

\* A restart: the whole file is loaded, and a file that was written to its end
\* restores next_id.
LEMMA RestartInv ==
  ASSUME Inv, Restart
  PROVE  Inv'
<1>1. /\ TableInv(dat) /\ HistoryInv /\ AssertedInv /\ dat.next_id \in Nat
      /\ dat.file \in SUBSET Alarms /\ Sound(dat.file, dat.next_id)
      /\ issued \in Nat /\ whole \in BOOLEAN /\ dat.next_id >= issued
  BY DEF Inv, TableInv, Tables, HistoryInv, IdsNeverReused
<1>2. /\ TableInv(dat')
      /\ IF DatSave THEN /\ dat'.file = dat.file /\ dat'.list = dat.file
                         /\ IF dat.file = {} THEN dat'.next_id = 0
                            ELSE \E a \in dat.file : a.id = dat'.next_id
                         /\ \A a \in dat.file : a.id <= dat'.next_id
         ELSE dat'.list = {} /\ dat'.next_id = 0
  BY <1>1, LoadTable, EmptyTable DEF Restart
<1>3. walk' = NoWalk /\ whole' = whole
      /\ issued' = IF DatSave /\ whole THEN issued ELSE dat'.next_id
  BY DEF Restart
<1>4. WalkInv'
  BY <1>2, <1>3, NoWalkInv
<1>5. dat'.next_id \in Nat
  BY <1>2 DEF TableInv, Tables
<1>6. SaveInv'
  BY <1>2, <1>3 DEF SaveInv
<1>7. dat'.next_id >= issued' /\ issued' \in Nat
  <2>1. CASE DatSave /\ whole
    <3>1. dat.next_id = 0 \/ \E a \in dat.file : a.id = dat.next_id
      BY <1>1, <2>1 DEF HistoryInv, SaveInv
    <3>2. dat.next_id <= dat'.next_id
      BY <1>1, <1>2, <1>5, <2>1, <3>1
    <3> QED  BY <1>1, <1>3, <1>5, <2>1, <3>2
  <2>2. CASE ~(DatSave /\ whole)
    BY <1>3, <1>5, <2>2
  <2> QED  BY <2>1, <2>2
<1>8. HistoryInv'
  BY <1>1, <1>3, <1>6, <1>7 DEF HistoryInv, IdsNeverReused
<1>9. asserted' = {About(a) : a \in {b \in dat'.list : b.cond.type = "SENSOR"}}
  BY DEF Restart, About
<1>10. \A a \in dat'.list : a.cond.type = "SENSOR" => About(a) \in SensorConds
  BY <1>2 DEF TableInv, Sound
<1>11. AssertedInv'
  BY <1>9, <1>10 DEF AssertedInv, NoStaleSensorAlarm, About
<1> QED  BY <1>2, <1>4, <1>8, <1>11 DEF Inv

\* Every call keeps it.
LEMMA NextInv == Inv /\ [Next]_vars => Inv'
<1> SUFFICES ASSUME Inv, [Next]_vars
             PROVE  Inv'
  OBVIOUS
<1>1. CASE Client
  BY <1>1, CallInv, WalkSteps DEF Client
<1>2. CASE Detect
  BY <1>2, SensorStep, DisableSteps, ResourceSteps DEF Detect
<1>3. CASE Restart
  BY <1>3, RestartInv
<1>4. CASE UNCHANGED vars
  BY <1>4 DEF vars, Inv, HistoryInv, SaveInv, IdsNeverReused, AssertedInv, NoStaleSensorAlarm,
              WalkInv, Matches
<1> QED  BY <1>1, <1>2, <1>3, <1>4 DEF Next

\* The properties follow.
LEMMA InvImplies ==
  ASSUME Inv
  PROVE  /\ TypeOK /\ IdsBelowNext /\ IdsNeverReused /\ Limits /\ NoStaleSensorAlarm
         /\ WalkComplete
<1>1. TypeOK
  BY DEF Inv, TypeOK, TableInv, Tables, HistoryInv, WalkInv, AssertedInv
<1>2. IdsBelowNext
  BY <1>1 DEF Inv, TypeOK, TableInv, Sound, IdsBelowNext
<1>3. Limits
  BY DEF Inv, TableInv, Sound, InLimits, Limits
<1>4. WalkComplete
  BY DEF Inv, WalkInv, WalkComplete
<1> QED  BY <1>1, <1>2, <1>3, <1>4 DEF Inv, HistoryInv, AssertedInv

----------------------------------------------------------------------------
(* The theorems. *)

\* Every reachable state is well typed; a restart from a file that was cut
\* short, and update_count at its modulus, are no exception.
THEOREM TypeCorrect == Spec => []TypeOK
BY InitInv, NextInv, InvImplies, PTL DEF Spec

\* next_id is the highest id of the table and of its file, and an id names one
\* alarm: what __get_alarm_node and ++next_id of oh_add_alarm rely on.
THEOREM IdsOrdered == Spec => []IdsBelowNext
BY InitInv, NextInv, InvImplies, PTL DEF Spec

\* No alarm id is given out twice while every save is complete, across restarts:
\* oh_alarms_from_file restores next_id although removals are not saved.
THEOREM IdsFresh == Spec => []IdsNeverReused
BY InitInv, NextInv, InvImplies, PTL DEF Spec

\* OPENHPI_DAT_SIZE_LIMIT and OPENHPI_DAT_USER_LIMIT hold after any calls and
\* after loading a file.
THEOREM LimitsHold == Spec => []Limits
BY InitInv, NextInv, InvImplies, PTL DEF Spec

\* No sensor alarm is left of a state that the sensor's own events, as
\* oh_detect_sensor_event_alarm got them, deassert or leave out of their
\* CurrentState, however often it was raised before; a restart from the file
\* begins anew with the states of the alarms it restores.
THEOREM SensorAlarmsCurrent == Spec => []NoStaleSensorAlarm
BY InitInv, NextInv, InvImplies, PTL DEF Spec

\* A saHpiAlarmGetNext loop that reached the end has returned every alarm that
\* matched from its beginning on.
THEOREM WalksComplete == Spec => []WalkComplete
BY InitInv, NextInv, InvImplies, PTL DEF Spec
============================================================================
