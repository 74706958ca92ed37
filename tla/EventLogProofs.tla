--------------------------- MODULE EventLogProofs ---------------------------
(***************************************************************************)
(* Proofs about module EventLog, for any size limit of the log and any     *)
(* number of events.                                                       *)
(***************************************************************************)
EXTENDS EventLog, SequenceTheorems, TLAPS

\* The entries have consecutive ids that end with lastid, and hold
\* consecutive events that end with lastev.
Linked(entries, lastid, lastev) ==
  \A i \in 1 .. Len(entries) :
    /\ entries[i].id = lastid - (Len(entries) - i)
    /\ entries[i].ev = lastev - (Len(entries) - i)

\* The file holds such entries too, those of some earlier log.
FileLinked ==
  file # <<>> => /\ Linked(file, file[Len(file)].id, file[Len(file)].ev)
                 /\ file[Len(file)].id <= file[Len(file)].ev

\* Ids start again when events do not.
LogInv ==
  /\ nextid <= count + 1
  /\ Linked(list, nextid - 1, count)
  /\ FileLinked
  /\ Size # 0 => Len(list) <= Size /\ Len(file) <= Size
  /\ ~overflow => count - since <= Len(list)

\* What the id a client asks for next will lead it to.
WalkInv ==
  /\ walk.read <= count
  /\ walk.at = OLDEST => walk.read = 0
  /\ walk.at \notin {NO_MORE, OLDEST} =>
       /\ ~walk.cleared => walk.read + walk.step = walk.at + (count + 1 - nextid)
       /\ walk.step = 1 => \A i \in 1 .. Len(list) : list[i].id = walk.at => walk.read < list[i].ev
  /\ WalkReadsNeighbours

\* The initial state.
LEMMA InitInv == Init => TypeOK /\ LogInv /\ WalkInv
<1> SUFFICES ASSUME Init
             PROVE  TypeOK /\ LogInv /\ WalkInv
  OBVIOUS
<1>1. TypeOK
  <2>1. NoWalk \in Walks
    BY LogAssumption DEF Walks, NoWalk, NO_MORE, OLDEST
  <2>2. list \in Seq(Entries) /\ file \in Seq(Entries)
    BY DEF Init
  <2>3. nextid \in 1 .. MaxEvents + 1 /\ count \in 0 .. MaxEvents /\ since \in 0 .. MaxEvents
    BY LogAssumption DEF Init
  <2> QED  BY <2>1, <2>2, <2>3 DEF Init, TypeOK
<1>2. LogInv
  <2>1. Len(<<>>) = 0 /\ 1 .. 0 = {}
    OBVIOUS
  <2>2. Linked(<<>>, 0, 0)
    BY <2>1 DEF Linked
  <2> QED  BY <2>1, <2>2, LogAssumption DEF Init, LogInv, FileLinked
<1>3. WalkInv
  BY DEF Init, WalkInv, WalkReadsNeighbours, NoWalk, NO_MORE, OLDEST
<1> QED  BY <1>1, <1>2, <1>3

\* A client between two walks has read nothing.
LEMMA NoWalkFacts ==
  /\ NoWalk \in Walks /\ NoWalk.step = 0 /\ NoWalk.at = NO_MORE
  /\ NoWalk.read = 0 /\ NoWalk.before = 0 /\ NoWalk.cleared = FALSE
BY LogAssumption DEF NoWalk, Walks, NO_MORE, OLDEST

\* The numbers of the state.
LEMMA Numbers ==
  ASSUME TypeOK
  PROVE  /\ list \in Seq(Entries) /\ file \in Seq(Entries)
         /\ Len(list) \in Nat /\ Len(file) \in Nat
         /\ nextid \in Nat /\ nextid >= 1 /\ count \in Nat /\ count <= MaxEvents
         /\ since \in Nat /\ Size \in Nat /\ MaxEvents \in Nat
         /\ \A i \in 1 .. Len(list) : list[i] \in Entries /\ list[i].id \in Nat /\ list[i].ev \in Nat
         /\ \A i \in 1 .. Len(file) : file[i] \in Entries /\ file[i].id \in Nat /\ file[i].ev \in Nat
<1>1. \A e \in Entries : e.id \in Nat /\ e.ev \in Nat
  BY DEF Entries
<1>2. list \in Seq(Entries) /\ file \in Seq(Entries)
  BY DEF TypeOK
<1>3. /\ \A i \in 1 .. Len(list) : list[i] \in Entries
      /\ \A i \in 1 .. Len(file) : file[i] \in Entries
  BY <1>2
<1> QED  BY <1>1, <1>2, <1>3, LogAssumption DEF TypeOK

\* The list after an addition, entry by entry: the oldest entry of a full
\* log has gone, the others keep their order, the new one is last.
LEMMA Added ==
  ASSUME TypeOK, LogInv, count < MaxEvents, AppendNext
  PROVE  /\ list' \in Seq(Entries)
         /\ nextid' = nextid + 1 /\ count' = count + 1
         /\ Linked(list', nextid, count + 1)
         /\ Size # 0 => Len(list') <= Size
         /\ Len(list') > 0 /\ list'[Len(list')] = [id |-> nextid, ev |-> count + 1]
         /\ overflow' \/ (~overflow /\ Len(list') = Len(list) + 1)
         /\ \A i \in 1 .. Len(list') :
              i # Len(list') => \E j \in 1 .. Len(list) : list'[i] = list[j]
<1> DEFINE e == [id |-> nextid, ev |-> count + 1]
            r == MakeRoom
<1>0. e \in Entries
  BY Numbers DEF LogInv, Entries
<1>n. Len(list) \in Nat /\ nextid \in Nat /\ count \in Nat
  BY Numbers
<1>1. list' = Append(r, e)
  BY DEF AppendNext
<1> HIDE DEF e
<1>2. CASE Full
  <2>1. Len(list) = Size /\ Size # 0 /\ r = Tail(list) /\ list # <<>>
    BY <1>2, Numbers DEF Full, MakeRoom
  <2>2. /\ r \in Seq(Entries) /\ Len(r) = Len(list) - 1
        /\ \A i \in 1 .. Len(list) - 1 : r[i] = list[i + 1]
    BY <2>1, Numbers
  <2> HIDE DEF r
  <2>3. /\ list' \in Seq(Entries) /\ Len(list') = Len(list)
        /\ \A i \in 1 .. Len(list) - 1 : list'[i] = list[i + 1]
        /\ list'[Len(list)] = e
    BY <1>0, <1>1, <2>2, Numbers
  <2>4. \A i \in 1 .. Len(list) : i = Len(list) \/ (i \in 1 .. Len(list) - 1 /\ i + 1 \in 1 .. Len(list))
    BY Numbers
  <2>5. Linked(list', nextid, count + 1)
    <3> SUFFICES ASSUME NEW i \in 1 .. Len(list')
                 PROVE  /\ list'[i].id = nextid - (Len(list') - i)
                        /\ list'[i].ev = (count + 1) - (Len(list') - i)
      BY DEF Linked
    <3>0. Len(list') = Len(list) /\ i \in 1 .. Len(list) /\ i \in Int
      BY <2>3
    <3>1. CASE i = Len(list)
      <4>1. list'[i].id = nextid /\ list'[i].ev = count + 1 /\ Len(list') - i = 0
        BY <1>n, <2>3, <3>0, <3>1 DEF e
      <4> QED  BY <1>n, <4>1
    <3>2. CASE i # Len(list)
      <4>1. list'[i] = list[i + 1] /\ i + 1 \in 1 .. Len(list)
        BY <2>3, <2>4, <3>0, <3>2
      <4>2. /\ list[i + 1].id = nextid - 1 - (Len(list) - (i + 1))
            /\ list[i + 1].ev = count - (Len(list) - (i + 1))
        BY <4>1 DEF LogInv, Linked
      <4>3. /\ nextid - 1 - (Len(list) - (i + 1)) = nextid - (Len(list) - i)
            /\ count - (Len(list) - (i + 1)) = (count + 1) - (Len(list) - i)
        BY <1>n, <3>0
      <4> QED  BY <3>0, <4>1, <4>2, <4>3
    <3> QED  BY <3>1, <3>2
  <2>6. overflow'
    BY <1>2 DEF AppendNext
  <2>7. \A i \in 1 .. Len(list') :
              i # Len(list') => \E j \in 1 .. Len(list) : list'[i] = list[j]
    BY <2>3, <2>4
  <2>8. Len(list) > 0
    BY <1>n, <2>1
  <2>9. nextid' = nextid + 1 /\ count' = count + 1
    BY DEF AppendNext
  <2> QED  BY <1>n, <2>1, <2>3, <2>5, <2>6, <2>7, <2>8, <2>9 DEF e
<1>3. CASE ~Full
  <2>1. r = list /\ (Size # 0 => Len(list) # Size)
    BY <1>3 DEF Full, MakeRoom
  <2>2. /\ list' \in Seq(Entries) /\ Len(list') = Len(list) + 1
        /\ \A i \in 1 .. Len(list) : list'[i] = list[i]
        /\ list'[Len(list) + 1] = e
    BY <1>0, <1>1, <2>1, Numbers
  <2>3. \A i \in 1 .. Len(list) + 1 : i = Len(list) + 1 \/ i \in 1 .. Len(list)
    BY Numbers
  <2>4. Linked(list', nextid, count + 1)
    <3> SUFFICES ASSUME NEW i \in 1 .. Len(list')
                 PROVE  /\ list'[i].id = nextid - (Len(list') - i)
                        /\ list'[i].ev = (count + 1) - (Len(list') - i)
      BY DEF Linked
    <3>0. Len(list') = Len(list) + 1 /\ i \in 1 .. Len(list) + 1 /\ i \in Int
      BY <2>2
    <3>1. CASE i = Len(list) + 1
      <4>1. list'[i].id = nextid /\ list'[i].ev = count + 1 /\ Len(list') - i = 0
        BY <1>n, <2>2, <3>0, <3>1 DEF e
      <4> QED  BY <1>n, <4>1
    <3>2. CASE i \in 1 .. Len(list)
      <4>1. /\ list'[i] = list[i]
            /\ list[i].id = nextid - 1 - (Len(list) - i)
            /\ list[i].ev = count - (Len(list) - i)
        BY <2>2, <3>2 DEF LogInv, Linked
      <4>2. /\ nextid - 1 - (Len(list) - i) = nextid - (Len(list) + 1 - i)
            /\ count - (Len(list) - i) = (count + 1) - (Len(list) + 1 - i)
        BY <1>n, <3>0
      <4> QED  BY <3>0, <4>1, <4>2
    <3> QED  BY <2>3, <3>0, <3>1, <3>2
  <2>5. Size # 0 => Len(list) + 1 <= Size
    BY <2>1, Numbers DEF LogInv
  <2>6. overflow' \/ ~overflow
    BY DEF AppendNext
  <2>7. \A i \in 1 .. Len(list') :
              i # Len(list') => \E j \in 1 .. Len(list) : list'[i] = list[j]
    BY <2>2, <2>3
  <2>8. nextid' = nextid + 1 /\ count' = count + 1
    BY DEF AppendNext
  <2> QED  BY <1>n, <2>2, <2>4, <2>5, <2>6, <2>7, <2>8 DEF e
<1> QED  BY <1>2, <1>3

\* What oh_el_map_to_file leaves behind, of any log of linked entries.
LEMMA Saved ==
  ASSUME NEW new \in Seq(Entries), NEW lastid \in Nat, NEW lastev \in Nat, lastid <= lastev,
         Linked(new, lastid, lastev), NEW n \in 0 .. Len(new), NEW f, f = SubSeq(new, 1, n)
  PROVE  /\ f \in Seq(Entries) /\ Len(f) <= Len(new)
         /\ f # <<>> => /\ Linked(f, f[Len(f)].id, f[Len(f)].ev)
                        /\ f[Len(f)].id <= f[Len(f)].ev
<1>0. Len(new) \in Nat /\ n \in Nat /\ n <= Len(new)
  OBVIOUS
<1>1. f \in Seq(Entries) /\ Len(f) = n /\ \A i \in 1 .. n : f[i] = new[i]
  <2>1. \A i \in 1 .. n : new[i] \in Entries
    BY <1>0
  <2> QED  BY <1>0, <2>1
<1>2. ASSUME f # <<>>
      PROVE  /\ Linked(f, f[Len(f)].id, f[Len(f)].ev)
             /\ f[Len(f)].id <= f[Len(f)].ev
  <2>1. n \in 1 .. n /\ n \in 1 .. Len(new)
    BY <1>0, <1>1, <1>2
  <2>2. f[n].id = lastid - (Len(new) - n) /\ f[n].ev = lastev - (Len(new) - n)
    BY <1>1, <2>1 DEF Linked
  <2>3. ASSUME NEW i \in 1 .. n
        PROVE  f[i].id = f[n].id - (n - i) /\ f[i].ev = f[n].ev - (n - i)
    <3>0. i \in 1 .. Len(new) /\ f[i] = new[i]
      BY <1>0, <1>1
    <3>1. f[i].id = lastid - (Len(new) - i) /\ f[i].ev = lastev - (Len(new) - i)
      BY <3>0 DEF Linked
    <3> QED  BY <1>0, <2>2, <3>1
  <2>4. f[n].id <= f[n].ev
    <3>1. lastid - (Len(new) - n) <= lastev - (Len(new) - n)
      BY <1>0
    <3> QED  BY <2>2, <3>1
  <2> QED  BY <1>1, <2>3, <2>4 DEF Linked
<1>3. Len(f) <= Len(new)
  BY <1>0, <1>1
<1> QED  BY <1>1, <1>2, <1>3

\* An addition keeps the log.
LEMMA AddLog ==
  ASSUME TypeOK, LogInv, LogEvent \/ EntryAdd
  PROVE  /\ list' \in Seq(Entries) /\ file' \in Seq(Entries)
         /\ nextid' \in 1 .. MaxEvents + 1 /\ count' \in 0 .. MaxEvents
         /\ LogInv'
<1>0. /\ Len(list) \in Nat /\ Len(file) \in Nat /\ nextid \in Nat /\ nextid >= 1 /\ count \in Nat
      /\ since \in Nat /\ MaxEvents \in Nat /\ Size \in Nat
      /\ list \in Seq(Entries) /\ file \in Seq(Entries) /\ count <= MaxEvents
  BY Numbers
<1>1. /\ count < MaxEvents /\ since' = since
      /\ Save
      /\ AppendNext \/ UNCHANGED <<list, overflow, nextid, count>>
  BY DEF LogEvent, EntryAdd
<1>2. /\ list' \in Seq(Entries)
      /\ nextid' \in 1 .. MaxEvents + 1 /\ count' \in 0 .. MaxEvents
      /\ nextid' <= count' + 1 /\ Linked(list', nextid' - 1, count')
      /\ Size # 0 => Len(list') <= Size
      /\ ~overflow' => count' - since' <= Len(list')
  <2>1. CASE AppendNext
    <3>1. /\ list' \in Seq(Entries) /\ Linked(list', nextid, count + 1)
          /\ nextid' = nextid + 1 /\ count' = count + 1
          /\ Size # 0 => Len(list') <= Size
          /\ overflow' \/ (~overflow /\ Len(list') = Len(list) + 1)
      BY <1>1, <2>1, Added
    <3>2. nextid' - 1 = nextid /\ nextid <= count + 1
      BY <1>0, <3>1 DEF LogInv
    <3>3. ~overflow => count - since <= Len(list)
      BY DEF LogInv
    <3>4. ~overflow' => count' - since' <= Len(list')
      BY <1>0, <1>1, <3>1, <3>3
    <3> QED  BY <1>0, <1>1, <3>1, <3>2, <3>4
  <2>2. CASE UNCHANGED <<list, overflow, nextid, count>>
    BY <1>0, <1>1, <2>2 DEF LogInv, TypeOK
  <2> QED  BY <1>1, <2>1, <2>2
<1>4. nextid' - 1 \in Nat /\ count' \in Nat /\ nextid' - 1 <= count' /\ Len(list') \in Nat
  <2>1. nextid' \in Nat /\ nextid' >= 1 /\ count' \in Nat
    BY <1>0, <1>2
  <2>2. nextid' <= count' + 1
    BY <1>2
  <2>3. Len(list') \in Nat
    BY <1>2
  <2>4. \A a, b \in Nat : a >= 1 /\ a <= b + 1 => a - 1 \in Nat /\ a - 1 <= b
    OBVIOUS
  <2> QED  BY <2>1, <2>2, <2>3, <2>4
<1>3. /\ file' \in Seq(Entries) /\ FileLinked' /\ (Size # 0 => Len(file') <= Size)
  <2>1. CASE \E n \in 0 .. Len(list') : file' = SubSeq(list', 1, n)
    <3>1. PICK n \in 0 .. Len(list') : file' = SubSeq(list', 1, n)
      BY <2>1
    <3>3. /\ file' \in Seq(Entries) /\ Len(file') <= Len(list')
          /\ file' # <<>> => /\ Linked(file', file'[Len(file')].id, file'[Len(file')].ev)
                             /\ file'[Len(file')].id <= file'[Len(file')].ev
      BY <1>2, <1>4, <3>1, Saved
    <3>4. Len(file') \in Nat
      BY <3>3
    <3>5. Size # 0 => Len(file') <= Size
      BY <1>0, <1>2, <1>4, <3>3, <3>4
    <3> QED  BY <3>3, <3>5 DEF FileLinked, Linked
  <2>2. CASE UNCHANGED file
    BY <1>0, <2>2 DEF LogInv, FileLinked, Linked
  <2> QED  BY <1>1, <2>1, <2>2 DEF Save
<1> QED  BY <1>2, <1>3 DEF LogInv, Linked

\* A restart takes over what the file holds.
LEMMA RestartLog ==
  ASSUME TypeOK, LogInv, Restart
  PROVE  TypeOK' /\ LogInv'
<1>0. /\ Len(file) \in Nat /\ count \in Nat /\ MaxEvents \in Nat /\ Size \in Nat
      /\ file \in Seq(Entries) /\ count <= MaxEvents
  BY Numbers
<1>1. /\ file' = file /\ overflow' = FALSE /\ enabled' = TRUE /\ walk' = NoWalk /\ since' = count'
      /\ nextid' = NextIdOf(list')
      /\ count' = IF list' = <<>> THEN count ELSE list'[Len(list')].ev
      /\ list' = <<>> \/ list' = file
  BY DEF Restart
<1>2. CASE list' = <<>>
  <2>1. nextid' = 1 /\ count' = count /\ Len(list') = 0
    BY <1>1, <1>2 DEF NextIdOf
  <2>4. list' \in Seq(Entries) /\ nextid' \in 1 .. MaxEvents + 1 /\ count' \in 0 .. MaxEvents
    BY <1>0, <1>2, <2>1
  <2>2. TypeOK'
    BY <1>0, <1>1, <2>4, NoWalkFacts DEF TypeOK
  <2>3. Linked(list', nextid' - 1, count')
    BY <2>1 DEF Linked
  <2> QED  BY <1>0, <1>1, <2>1, <2>2, <2>3 DEF LogInv, FileLinked, Linked
<1>3. CASE list' # <<>>
  <2> DEFINE m == Len(file)
  <2>1. list' = file /\ m \in 1 .. Len(file) /\ file # <<>>
    BY <1>0, <1>1, <1>3
  <2>2. nextid' = file[m].id + 1 /\ count' = file[m].ev
    BY <1>1, <1>3, <2>1 DEF NextIdOf
  <2>3. file[m] \in Entries
    BY <1>0, <2>1
  <2>4. file[m].id \in Nat /\ file[m].ev \in Nat /\ file[m].id >= 1 /\ file[m].ev <= MaxEvents
    BY <1>0, <2>3 DEF Entries
  <2>5. Linked(file, file[m].id, file[m].ev) /\ file[m].id <= file[m].ev
    BY <2>1 DEF LogInv, FileLinked
  <2> HIDE DEF m
  <2>6. /\ nextid' \in 1 .. MaxEvents + 1 /\ count' \in 0 .. MaxEvents /\ nextid' - 1 = file[m].id
        /\ nextid' <= count' + 1 /\ count' - since' = 0
    <3>1. \A a, b \in Nat : a >= 1 /\ a <= b /\ b <= MaxEvents =>
            /\ a + 1 \in 1 .. MaxEvents + 1 /\ b \in 0 .. MaxEvents
            /\ (a + 1) - 1 = a /\ a + 1 <= b + 1 /\ b - b = 0
      BY <1>0
    <3> QED  BY <1>1, <2>2, <2>4, <2>5, <3>1
  <2>7. TypeOK'
    <3>1. list' \in Seq(Entries) /\ since' \in 0 .. MaxEvents
      BY <1>0, <1>1, <2>1, <2>6
    <3> QED  BY <1>0, <1>1, <2>6, <3>1, NoWalkFacts DEF TypeOK
  <2>8. Linked(list', nextid' - 1, count')
    BY <2>1, <2>2, <2>5, <2>6
  <2> QED  BY <1>0, <1>1, <2>1, <2>6, <2>7, <2>8 DEF LogInv, FileLinked, Linked
<1> QED  BY <1>2, <1>3

\* The parts of a client's walk.
LEMMA WalkNumbers ==
  ASSUME NEW w \in Walks
  PROVE  /\ w.step \in Int /\ w.at \in Int /\ w.read \in Nat /\ w.before \in Nat
         /\ w.cleared \in BOOLEAN /\ w.step \in {-1, 0, 1}
         /\ w.at \in {NO_MORE, OLDEST} \union 1 .. MaxEvents + 1
         /\ w.read \in 0 .. MaxEvents /\ w.before \in 0 .. MaxEvents
<1>1. /\ w.step \in {-1, 0, 1} /\ w.at \in {NO_MORE, OLDEST} \union 1 .. MaxEvents + 1
      /\ w.read \in 0 .. MaxEvents /\ w.before \in 0 .. MaxEvents /\ w.cleared \in BOOLEAN
  BY DEF Walks
<1>2. MaxEvents \in Nat /\ NO_MORE \in Int /\ OLDEST \in Int
  BY LogAssumption DEF NO_MORE, OLDEST
<1>3. w.step \in Int
  BY <1>1
<1>4. w.at \in Int
  BY <1>1, <1>2
<1>5. w.read \in Nat /\ w.before \in Nat
  BY <1>1, <1>2
<1> QED  BY <1>1, <1>3, <1>4, <1>5

\* An addition leads no walk astray: the new entry has the newest event.
LEMMA AddWalk ==
  ASSUME TypeOK, LogInv, WalkInv, LogEvent \/ EntryAdd
  PROVE  WalkInv'
<1>0. walk' = walk /\ count < MaxEvents
  BY DEF LogEvent, EntryAdd
<1>1. CASE UNCHANGED <<list, nextid, count>>
  BY <1>0, <1>1 DEF WalkInv, WalkReadsNeighbours
<1>2. CASE AppendNext
  <2>1. /\ nextid' = nextid + 1 /\ count' = count + 1
        /\ list'[Len(list')] = [id |-> nextid, ev |-> count + 1]
        /\ \A i \in 1 .. Len(list') :
             i # Len(list') => \E j \in 1 .. Len(list) : list'[i] = list[j]
    BY <1>0, <1>2, Added
  <2>2. walk \in Walks
    BY DEF TypeOK
  <2>3. /\ nextid \in Nat /\ count \in Nat /\ walk.read \in Nat /\ walk.at \in Int /\ walk.step \in Int
    BY <2>2, Numbers, WalkNumbers
  <2>4. walk.read <= count'
    BY <2>1, <2>3 DEF WalkInv
  <2>5. walk.at + (count' + 1 - nextid') = walk.at + (count + 1 - nextid)
    BY <2>1, <2>3
  <2>6. ASSUME walk.at \notin {NO_MORE, OLDEST}, walk.step = 1,
               NEW i \in 1 .. Len(list'), list'[i].id = walk.at
        PROVE  walk.read < list'[i].ev
    <3>1. CASE i = Len(list')
      <4>1. list'[i].ev = count + 1
        BY <2>1, <3>1
      <4>2. walk.read < count + 1
        BY <2>3 DEF WalkInv
      <4> QED  BY <4>1, <4>2
    <3>2. CASE i # Len(list')
      BY <2>1, <2>6, <3>2 DEF WalkInv
    <3> QED  BY <3>1, <3>2
  <2> QED  BY <1>0, <2>4, <2>5, <2>6 DEF WalkInv, WalkReadsNeighbours
<1> QED  BY <1>1, <1>2 DEF LogEvent, EntryAdd

\* What saHpiEventLogEntryGet returns, and where it leads.
LEMMA GetWalk ==
  ASSUME TypeOK, LogInv, WalkInv, EntryGet
  PROVE  walk' \in Walks /\ WalkInv'
<1>0. /\ walk \in Walks /\ walk.step # 0 /\ walk.at # NO_MORE
      /\ UNCHANGED <<list, nextid, count>>
  BY DEF TypeOK, EntryGet
<1>1. CASE walk' = NoWalk
  BY <1>0, <1>1, NoWalkFacts, Numbers DEF WalkInv, WalkReadsNeighbours, OLDEST, NO_MORE
<1>2. ASSUME NEW i \in Found,
             walk' = [walk EXCEPT !.at = Beside(i), !.read = list[i].ev, !.before = walk.read]
      PROVE  walk' \in Walks /\ WalkInv'
  <2>1. i \in 1 .. Len(list)
    BY DEF Found
  <2>2. /\ Len(list) \in Nat /\ i \in Int /\ nextid \in Nat /\ count \in Nat /\ MaxEvents \in Nat
        /\ list[i] \in Entries /\ list[i].ev \in Nat /\ list[i].id \in Nat
        /\ \A j \in 1 .. Len(list) : list[j] \in Entries /\ list[j].ev \in Nat /\ list[j].id \in Nat
    BY <2>1, Numbers
  <2>3. /\ walk.step \in {-1, 1} /\ walk.step \in Int /\ walk.at \in Int /\ walk.read \in Nat
        /\ walk.cleared \in BOOLEAN /\ walk.read \in 0 .. MaxEvents
    BY <1>0, WalkNumbers
  <2>4. /\ walk'.step = walk.step /\ walk'.at = Beside(i) /\ walk'.read = list[i].ev
        /\ walk'.before = walk.read /\ walk'.cleared = walk.cleared
    BY <1>0, <1>2 DEF Walks
  <2>5. \/ Beside(i) = NO_MORE
        \/ /\ i + walk.step \in 1 .. Len(list) /\ Beside(i) = list[i + walk.step].id
           /\ Beside(i) \in 1 .. MaxEvents + 1
    BY <2>2 DEF Beside, Entries
  <2>6. walk' \in Walks
    <3>1. list[i].ev \in 0 .. MaxEvents
      BY <2>2 DEF Entries
    <3>2. Beside(i) \in {NO_MORE, OLDEST} \union 1 .. MaxEvents + 1
      BY <2>5
    <3> QED  BY <1>0, <1>2, <2>3, <3>1, <3>2 DEF Walks
  <2>7. /\ list[i].id = nextid - 1 - (Len(list) - i)
        /\ list[i].ev = count - (Len(list) - i)
    BY <2>1 DEF LogInv, Linked
  <2>8. list[i].ev <= count
    <3>1. \A c, n \in Nat, k \in Int : k <= n => c - (n - k) <= c
      OBVIOUS
    <3>2. i <= Len(list)
      BY <2>1, <2>2
    <3> QED  BY <2>2, <2>7, <3>1, <3>2
  <2>9. Beside(i) # NO_MORE => Beside(i) # OLDEST
    BY <2>2, <2>5 DEF OLDEST
  <2>10. ASSUME Beside(i) \notin {NO_MORE, OLDEST}
         PROVE  list[i].ev + walk.step = Beside(i) + (count + 1 - nextid)
    <3>1. /\ i + walk.step \in 1 .. Len(list)
          /\ Beside(i) = nextid - 1 - (Len(list) - (i + walk.step))
      BY <2>5, <2>10 DEF LogInv, Linked
    <3>2. \A n, c, x \in Nat, k, s \in Int :
            (c - (n - k)) + s = (x - 1 - (n - (k + s))) + (c + 1 - x)
      OBVIOUS
    <3>3. (count - (Len(list) - i)) + walk.step
            = (nextid - 1 - (Len(list) - (i + walk.step))) + (count + 1 - nextid)
      <4>1. Len(list) \in Nat /\ count \in Nat /\ nextid \in Nat /\ i \in Int /\ walk.step \in Int
        BY <2>2, <2>3
      <4>2. PICK s \in Int : s = walk.step
        BY <4>1
      <4>3. PICK n \in Nat : n = Len(list)
        BY <4>1
      <4>4. (count - (n - i)) + s = (nextid - 1 - (n - (i + s))) + (count + 1 - nextid)
        BY <3>2, <4>1
      <4> QED  BY <4>2, <4>3, <4>4
    <3> QED  BY <2>7, <3>1, <3>3
  <2>11. ASSUME Beside(i) \notin {NO_MORE, OLDEST}, walk.step = 1,
                NEW j \in 1 .. Len(list), list[j].id = Beside(i)
         PROVE  list[i].ev < list[j].ev
    <3>1. /\ i + 1 \in 1 .. Len(list)
          /\ Beside(i) = nextid - 1 - (Len(list) - (i + 1))
      BY <2>5, <2>11 DEF LogInv, Linked
    <3>2. /\ list[j].id = nextid - 1 - (Len(list) - j)
          /\ list[j].ev = count - (Len(list) - j) /\ j \in Int
      BY DEF LogInv, Linked
    <3>3. \A n, c, x \in Nat, k, m \in Int :
            x - 1 - (n - m) = x - 1 - (n - (k + 1)) => c - (n - k) < c - (n - m)
      OBVIOUS
    <3> QED  BY <2>2, <2>7, <2>11, <3>1, <3>2, <3>3
  <2>12. ASSUME walk.read # 0
         PROVE  IF walk.cleared THEN walk.step = 1 => walk.read < list[i].ev
                                ELSE list[i].ev = walk.read + walk.step
    <3>1. walk.at \notin {NO_MORE, OLDEST} /\ list[i].id = walk.at
      BY <1>0, <2>12 DEF WalkInv, Found
    <3>2. walk.step = 1 => walk.read < list[i].ev
      BY <2>1, <3>1 DEF WalkInv
    <3>3. ASSUME ~walk.cleared
          PROVE  list[i].ev = walk.read + walk.step
      <4>1. walk.read + walk.step = walk.at + (count + 1 - nextid)
        BY <3>1, <3>3 DEF WalkInv
      <4>2. \A n, c, x \in Nat, k \in Int : c - (n - k) = (x - 1 - (n - k)) + (c + 1 - x)
        OBVIOUS
      <4>3. list[i].ev = walk.at + (count + 1 - nextid)
        BY <2>2, <2>7, <3>1, <4>2
      <4> QED  BY <4>1, <4>3
    <3> QED  BY <3>2, <3>3
  <2>13. WalkReadsNeighbours'
    BY <2>4, <2>12 DEF WalkReadsNeighbours
  <2>14. walk'.read <= count' /\ (walk'.at = OLDEST => walk'.read = 0)
    BY <1>0, <2>4, <2>8, <2>9 DEF OLDEST, NO_MORE
  <2>15. walk'.at \notin {NO_MORE, OLDEST} =>
       /\ ~walk'.cleared => walk'.read + walk'.step = walk'.at + (count' + 1 - nextid')
       /\ walk'.step = 1 => \A j \in 1 .. Len(list') : list'[j].id = walk'.at => walk'.read < list'[j].ev
    BY <1>0, <2>4, <2>10, <2>11
  <2> QED  BY <2>6, <2>13, <2>14, <2>15 DEF WalkInv
<1> QED  BY <1>1, <1>2 DEF EntryGet

\* Every step keeps the invariant.
LEMMA NextInv == TypeOK /\ LogInv /\ WalkInv /\ [Next]_vars => (TypeOK /\ LogInv /\ WalkInv)'
<1> SUFFICES ASSUME TypeOK, LogInv, WalkInv, [Next]_vars
             PROVE  (TypeOK /\ LogInv /\ WalkInv)'
  OBVIOUS
<1>0. /\ walk \in Walks /\ count \in Nat /\ since \in Nat /\ MaxEvents \in Nat /\ nextid \in Nat
      /\ Len(list) \in Nat
  BY Numbers DEF TypeOK
<1>1. CASE LogEvent \/ EntryAdd
  <2>1. TypeOK'
    <3>1. overflow' \in BOOLEAN /\ UNCHANGED <<enabled, walk, since>>
      BY <1>1 DEF LogEvent, EntryAdd, AppendNext, TypeOK
    <3> QED  BY <1>1, <3>1, AddLog DEF TypeOK
  <2> QED  BY <1>1, <2>1, AddLog, AddWalk
<1>2. CASE Clear
  <2>1. /\ list' = <<>> /\ overflow' = FALSE /\ nextid' = 1 /\ since' = count
        /\ walk' = [walk EXCEPT !.cleared = TRUE] /\ UNCHANGED <<enabled, file, count>>
    BY <1>2 DEF Clear
  <2>2. /\ walk' \in Walks /\ walk'.step = walk.step /\ walk'.at = walk.at /\ walk'.read = walk.read
        /\ walk'.before = walk.before /\ walk'.cleared = TRUE
    BY <1>0, <2>1 DEF Walks
  <2>3. list' \in Seq(Entries) /\ Len(list') = 0 /\ nextid' \in 1 .. MaxEvents + 1
    BY <1>0, <2>1
  <2>4. TypeOK'
    BY <2>1, <2>2, <2>3 DEF TypeOK
  <2>5. LogInv'
    <3>1. nextid' <= count' + 1 /\ count' - since' = 0 /\ Size \in Nat
      BY <1>0, <2>1, LogAssumption
    <3>2. Linked(list', nextid' - 1, count')
      BY <2>3 DEF Linked
    <3> QED  BY <2>1, <2>3, <3>1, <3>2 DEF LogInv, FileLinked
  <2>6. WalkReadsNeighbours'
    <3>1. walk.read \in Nat /\ walk.before \in Nat
      BY <1>0, WalkNumbers
    <3>2. walk.read = walk.before + 1 => walk.before < walk.read
      BY <3>1
    <3> QED  BY <2>2, <3>2 DEF WalkInv, WalkReadsNeighbours
  <2>7. WalkInv'
    BY <2>1, <2>2, <2>3, <2>6 DEF WalkInv
  <2> QED  BY <2>4, <2>5, <2>7
<1>3. ASSUME NEW enable \in BOOLEAN, StateSet(enable)
      PROVE  (TypeOK /\ LogInv /\ WalkInv)'
  BY <1>3 DEF StateSet, TypeOK, LogInv, Linked, FileLinked, WalkInv, WalkReadsNeighbours
<1>4. CASE OverflowReset
  <2>1. overflow' = FALSE /\ since' = count /\ UNCHANGED <<list, nextid, enabled, file, walk, count>>
    BY <1>4 DEF OverflowReset
  <2>2. count' - since' <= Len(list')
    BY <1>0, <2>1
  <2>3. TypeOK' /\ WalkInv'
    BY <2>1 DEF TypeOK, WalkInv, WalkReadsNeighbours
  <2>4. LogInv'
    BY <2>1, <2>2 DEF LogInv, Linked, FileLinked
  <2> QED  BY <2>3, <2>4
<1>5. CASE Restart
  <2>1. walk' = NoWalk /\ TypeOK' /\ LogInv'
    BY <1>5, RestartLog DEF Restart
  <2>2. 0 <= count'
    BY <1>0, <2>1 DEF TypeOK
  <2> QED  BY <2>1, <2>2, NoWalkFacts DEF WalkInv, WalkReadsNeighbours, OLDEST, NO_MORE
<1>6. ASSUME NEW step \in {-1, 1}, WalkStart(step)
      PROVE  (TypeOK /\ LogInv /\ WalkInv)'
  <2>1. /\ walk' = [NoWalk EXCEPT !.step = step, !.at = OLDEST]
        /\ UNCHANGED <<list, nextid, overflow, enabled, file, count, since>>
    BY <1>6 DEF WalkStart
  <2>2. walk' \in Walks /\ walk'.at = OLDEST /\ walk'.read = 0 /\ walk'.before = 0
    BY <2>1, NoWalkFacts DEF Walks, NoWalk
  <2>3. 0 <= count'
    BY <1>0, <2>1
  <2> QED  BY <2>1, <2>2, <2>3 DEF TypeOK, LogInv, Linked, FileLinked, WalkInv, WalkReadsNeighbours
<1>7. CASE EntryGet
  <2>1. UNCHANGED <<list, nextid, overflow, enabled, file, count, since>>
    BY <1>7 DEF EntryGet
  <2> QED  BY <1>7, <2>1, GetWalk DEF TypeOK, LogInv, Linked, FileLinked
<1>8. CASE WalkEnd
  <2>1. walk' = NoWalk /\ UNCHANGED <<list, nextid, overflow, enabled, file, count, since>>
    BY <1>8 DEF WalkEnd
  <2>2. 0 <= count'
    BY <1>0, <2>1
  <2>3. TypeOK' /\ LogInv'
    BY <2>1, NoWalkFacts DEF TypeOK, LogInv, Linked, FileLinked
  <2>4. WalkInv'
    BY <2>1, <2>2, NoWalkFacts DEF WalkInv, WalkReadsNeighbours, OLDEST, NO_MORE
  <2> QED  BY <2>3, <2>4
<1>9. CASE UNCHANGED vars
  BY <1>9 DEF vars, TypeOK, LogInv, Linked, FileLinked, WalkInv, WalkReadsNeighbours
<1> QED  BY <1>1, <1>2, <1>3, <1>4, <1>5, <1>6, <1>7, <1>8, <1>9 DEF Next

\* Linked entries ascend.
LEMMA LinkedAscends ==
  ASSUME NEW entries \in Seq(Entries), NEW lastid \in Int, NEW lastev \in Int,
         Linked(entries, lastid, lastev)
  PROVE  Ascending(entries)
<1> SUFFICES ASSUME NEW i \in 1 .. Len(entries), NEW j \in 1 .. Len(entries), i < j
             PROVE  entries[i].id < entries[j].id /\ entries[i].ev < entries[j].ev
  BY DEF Ascending
<1>1. \A n \in Nat, c, k, m \in Int : k < m => c - (n - k) < c - (n - m)
  OBVIOUS
<1>2. Len(entries) \in Nat /\ i \in Int /\ j \in Int
  OBVIOUS
<1>3. /\ entries[i].id = lastid - (Len(entries) - i) /\ entries[i].ev = lastev - (Len(entries) - i)
      /\ entries[j].id = lastid - (Len(entries) - j) /\ entries[j].ev = lastev - (Len(entries) - j)
  BY DEF Linked
<1> QED  BY <1>1, <1>2, <1>3

\* The properties follow.
LEMMA InvImplies ==
  ASSUME TypeOK, LogInv, WalkInv
  PROVE  IdsNameEntries /\ WalkReadsNeighbours /\ OverflowTold
<1>0. /\ Len(list) \in Nat /\ nextid \in Nat /\ count \in Nat /\ since \in Nat
      /\ list \in Seq(Entries) /\ file \in Seq(Entries) /\ nextid - 1 \in Int
  BY Numbers
<1>1. Ascending(list)
  BY <1>0, LinkedAscends DEF LogInv
<1>2. Ascending(file)
  <2>1. CASE file = <<>>
    BY <2>1 DEF Ascending
  <2>2. CASE file # <<>>
    <3>1. Len(file) \in 1 .. Len(file)
      BY <1>0, <2>2
    <3>2. file[Len(file)].id \in Int /\ file[Len(file)].ev \in Int
      BY <3>1, Numbers
    <3> QED  BY <1>0, <2>2, <3>2, LinkedAscends DEF LogInv, FileLinked
  <2> QED  BY <2>1, <2>2
<1>3. ASSUME NEW i \in 1 .. Len(list)
      PROVE  list[i].id < nextid
  <2>1. \A n, x \in Nat : \A k \in 1 .. n : x - 1 - (n - k) < x
    OBVIOUS
  <2> QED  BY <1>0, <2>1 DEF LogInv, Linked
<1>4. ASSUME ~overflow, NEW e \in since + 1 .. count
      PROVE  \E i \in 1 .. Len(list) : list[i].ev = e
  <2>1. count - since <= Len(list)
    BY <1>4 DEF LogInv
  <2>2. PICK i \in 1 .. Len(list) : i = Len(list) - (count - e)
    <3>1. \A n, c, b \in Nat : \A x \in b + 1 .. c : c - b <= n => n - (c - x) \in 1 .. n
      OBVIOUS
    <3> QED  BY <1>0, <2>1, <3>1
  <2>3. list[i].ev = count - (Len(list) - i)
    BY DEF LogInv, Linked
  <2>4. \A n, c \in Nat, x \in Int : c - (n - (n - (c - x))) = x
    OBVIOUS
  <2>5. e \in Int
    BY <1>0
  <2> QED  BY <1>0, <2>2, <2>3, <2>4, <2>5
<1> QED  BY <1>1, <1>2, <1>3, <1>4 DEF IdsNameEntries, WalkInv, OverflowTold, LogInv

\* Every reachable state is well typed: no id passes the number of events.
THEOREM TypeCorrect == Spec => []TypeOK
BY InitInv, NextInv, PTL DEF Spec

\* An id names one entry, in the log and in its file, also after
\* oh_el_clear starts the ids again and after a restart from a file that
\* oh_el_map_to_file left incomplete.
THEOREM EntriesNamedByIds == Spec => []IdsNameEntries
BY InitInv, NextInv, InvImplies, PTL DEF Spec

\* A client that follows the ids oh_el_get returns reads neighbours, whatever
\* is added, overwritten or cleared between its calls.
THEOREM WalksReadNeighbours == Spec => []WalkReadsNeighbours
BY InitInv, NextInv, InvImplies, PTL DEF Spec

\* The log keeps to its limit, and a log whose OverflowFlag is not set has
\* lost nothing since the flag was reset.
THEOREM OverflowIsTold == Spec => []OverflowTold
BY InitInv, NextInv, InvImplies, PTL DEF Spec
=============================================================================
