--------------------------- MODULE IpmiConProofs ---------------------------
(***************************************************************************)
(* Proofs about module IpmiCon, for any callers, commands, number of       *)
(* sequence numbers, limit on outstanding requests and retries.            *)
(***************************************************************************)
EXTENDS IpmiCon, FiniteSetTheorems, SequenceTheorems, WellFoundedInduction, TLAPS

\* The sequence numbers in use.
Used(out) == {s \in Seqs : out[s] # None}

\* The distance from sequence number c forward to s, and the number after s:
\* Ahead and SeqAfter without the remainder.
Dist(c, s) == IF s >= c THEN s - c ELSE s - c + MaxSeq
Succ(s) == IF s + 1 = MaxSeq THEN 0 ELSE s + 1

\* The free numbers that the search of AddOutstanding, starting at c, meets
\* before it comes to s.
Gap(out, c, s) == {q \in Seqs : out[q] = None /\ Dist(c, q) < Dist(c, s)}

\* The queue q holds the request of t; it holds none twice.
Has(q, t) == \E i \in 1 .. Len(q) : q[i] = t
Distinct(q) == \A i, j \in 1 .. Len(q) : q[i] = q[j] => i = j

InSlot(t) == \E s \in Seqs : m_outstanding[s] = t

\* The request of t is in one place, and in none unless t is inside Cmd.
PlaceOf(t) ==
  /\ \A s \in Seqs : m_outstanding[s] = t => th[t].seq = s
  /\ Has(m_queue, t) => ~InSlot(t) /\ sig # t /\ th[t].retries > 0
  /\ InSlot(t) => sig # t
  /\ th[t].pc \in {"sent", "wait"} <=> Has(m_queue, t) \/ InSlot(t) \/ sig = t

PlaceInv == Distinct(m_queue) /\ \A t \in Callers : PlaceOf(t)

CountInv ==
  /\ m_num_outstanding = Cardinality(Used(m_outstanding))
  /\ m_num_outstanding <= m_max_outstanding

\* The reader signals in the part of its round that leaves m_queue_lock to
\* nobody; what it has read answers the request it will be given to.
ReaderInv ==
  /\ sig # None => rpc \in {"read", "scan", "send", "resend"}
  /\ rpc = "respond" => /\ rd \in Answers
                        /\ m_outstanding[rd.seq] # None
                        /\ rd.owner = m_outstanding[rd.seq]

\* An answer on its way belongs to the request that is out under its number, and
\* is too old before the search comes round to that number.
Timely(a) ==
  /\ m_outstanding[a.seq] # None => a.owner = m_outstanding[a.seq]
  /\ a.left <= Cardinality(Gap(m_outstanding, m_current_seq, a.seq)) + 1

NetInv == \A a \in net : Timely(a)

Inv == TypeOK /\ PlaceInv /\ CountInv /\ ReaderInv /\ NetInv /\ OwnAnswer

----------------------------------------------------------------------------
(* Sequence numbers. *)

\* What the assumptions say of the limits.
LEMMA Constants ==
  /\ MaxSeq \in Nat \ {0} /\ MaxOutstanding \in Nat \ {0} /\ MaxOutstanding < MaxSeq
  /\ Retries \in Nat \ {0} /\ Late \in Nat \ {0} /\ Late = MaxSeq - MaxOutstanding + 1
  /\ IsFiniteSet(Seqs) /\ Cardinality(Seqs) = MaxSeq /\ 0 \in Seqs /\ Seqs \subseteq Nat
  /\ AnyCmd \in Cmds /\ None \notin Callers
<1>1. /\ MaxSeq \in Nat \ {0} /\ MaxOutstanding \in Nat \ {0} /\ MaxOutstanding < MaxSeq
      /\ Retries \in Nat \ {0} /\ None \notin Callers
  BY ConAssumption
<1>2. Late \in Nat \ {0} /\ Late = MaxSeq - MaxOutstanding + 1
  BY <1>1 DEF Late
<1>3. IsFiniteSet(Seqs) /\ Cardinality(Seqs) = MaxSeq
  <2>1. 0 \in Int /\ MaxSeq - 1 \in Int /\ ~(0 > MaxSeq - 1) /\ MaxSeq - 1 - 0 + 1 = MaxSeq
    BY <1>1
  <2> QED  BY <2>1, FS_Interval DEF Seqs
<1>4. 0 \in Seqs /\ Seqs \subseteq Nat
  BY <1>1 DEF Seqs
<1>5. AnyCmd \in Cmds
  BY ConAssumption DEF AnyCmd
<1> QED  BY <1>1, <1>2, <1>3, <1>4, <1>5

\* The remainders of AddOutstanding.
LEMMA Remainders ==
  /\ \A c, s \in Seqs : (s - c) % MaxSeq = Dist(c, s) /\ Dist(c, s) \in Nat
  /\ \A s \in Seqs : SeqAfter(s) = Succ(s) /\ Succ(s) \in Seqs
<1>1. MaxSeq \in Nat \ {0}
  BY Constants
<1>2. \A s, c \in 0 .. MaxSeq - 1 : (s - c) % MaxSeq = IF s >= c THEN s - c ELSE s - c + MaxSeq
  BY <1>1
<1>3. \A s \in 0 .. MaxSeq - 1 : (s + 1) % MaxSeq = IF s + 1 = MaxSeq THEN 0 ELSE s + 1
  BY <1>1
<1> QED  BY <1>1, <1>2, <1>3 DEF Dist, Succ, SeqAfter, Seqs

\* Going on from the number after f leaves the order of the numbers beyond f as
\* it was, and f comes last.
LEMMA DistAfter ==
  ASSUME NEW c \in Seqs, NEW f \in Seqs, NEW s \in Seqs
  PROVE  /\ ~(Dist(Succ(f), f) < Dist(Succ(f), s))
         /\ \A q \in Seqs : q # f => Dist(Succ(f), q) < Dist(Succ(f), f)
         /\ Dist(c, f) < Dist(c, s) =>
              \A q \in Seqs : q # f /\ ~(Dist(c, q) < Dist(c, f)) =>
                (Dist(Succ(f), q) < Dist(Succ(f), s) <=> Dist(c, q) < Dist(c, s))
<1>1. MaxSeq \in Nat \ {0}
  BY Constants
<1> QED  BY <1>1 DEF Dist, Succ, Seqs

\* The search finds a free number, and none of those it passes is free.
LEMMA FreeSeqFound ==
  ASSUME m_current_seq \in Seqs, NEW s \in Seqs, m_outstanding[s] = None
  PROVE  /\ FreeSeq \in Seqs /\ m_outstanding[FreeSeq] = None
         /\ \A q \in Seqs : m_outstanding[q] = None =>
              ~(Dist(m_current_seq, q) < Dist(m_current_seq, FreeSeq))
<1> DEFINE R == OpToRel(<, Nat)
           free == {q \in Seqs : m_outstanding[q] = None}
           T == {Dist(m_current_seq, q) : q \in free}
<1>1. IsWellFoundedOn(R, Nat)
  BY NatLessThanWellFounded
<1>2. R = {ss \in Nat \X Nat : ss[1] < ss[2]}
  BY DEF OpToRel
<1>3. T \subseteq Nat /\ T # {}
  BY Remainders
<1> HIDE DEF R
<1>4. \A x, y \in Nat : <<y, x>> \in R <=> y < x
  BY <1>2
<1>5. PICK x \in T : \A y \in T : ~ (<<y, x>> \in R)
  <2> HIDE DEF T
  <2> QED  BY <1>1, <1>3, WFMin
<1>6. \A y \in T : x <= y
  <2> TAKE y \in T
  <2>1. x \in Nat /\ y \in Nat /\ ~(y < x)
    BY <1>3, <1>4, <1>5
  <2> QED  BY <2>1
<1>7. PICK f \in Seqs : m_outstanding[f] = None /\ x = Dist(m_current_seq, f)
  OBVIOUS
<1>8. \A q \in Seqs : Ahead(q) = Dist(m_current_seq, q) /\ Ahead(q) \in Nat
  BY Remainders DEF Ahead
<1>9. \A q \in Seqs : m_outstanding[q] = None => Ahead(f) <= Ahead(q)
  BY <1>6, <1>7, <1>8
<1> DEFINE P(z) == m_outstanding[z] = None
                   /\ \A q \in Seqs : m_outstanding[q] = None => Ahead(z) <= Ahead(q)
<1>10. FreeSeq = CHOOSE z \in Seqs : P(z)
  BY DEF FreeSeq
<1>11. P(f)
  BY <1>7, <1>9
<1> HIDE DEF P
<1>12. FreeSeq \in Seqs /\ P(FreeSeq)
  BY <1>10, <1>11
<1> QED  BY <1>8, <1>12 DEF P

\* When fewer numbers are in use than there are, one is free.
LEMMA OneFree ==
  ASSUME NEW out, Cardinality(Used(out)) < MaxSeq
  PROVE  \E s \in Seqs : out[s] = None
<1>1. SUFFICES ASSUME \A s \in Seqs : out[s] # None
               PROVE  FALSE
  OBVIOUS
<1>2. Used(out) = Seqs
  BY <1>1 DEF Used
<1> QED  BY <1>2, Constants

\* The numbers in use, and the free ones of a gap, are finitely many.
LEMMA UsedFinite ==
  ASSUME NEW out
  PROVE  /\ IsFiniteSet(Used(out)) /\ Cardinality(Used(out)) \in Nat
         /\ \A c, s : IsFiniteSet(Gap(out, c, s)) /\ Cardinality(Gap(out, c, s)) \in Nat
<1>1. Used(out) \in SUBSET Seqs /\ \A c, s : Gap(out, c, s) \in SUBSET Seqs
  BY DEF Used, Gap
<1> QED  BY <1>1, Constants, FS_Subset, FS_CardinalityType

\* A number taken.
LEMMA UsedMore ==
  ASSUME NEW out \in [Seqs -> Callers \union {None}], NEW f \in Seqs, out[f] = None,
         NEW t \in Callers
  PROVE  Cardinality(Used([out EXCEPT ![f] = t])) = Cardinality(Used(out)) + 1
<1>1. Used([out EXCEPT ![f] = t]) = Used(out) \union {f} /\ f \notin Used(out)
  BY Constants DEF Used
<1>2. IsFiniteSet(Used(out))
  BY UsedFinite
<1>3. Cardinality(Used(out) \union {f}) = Cardinality(Used(out)) + 1
  BY <1>1, <1>2, FS_AddElement
<1> QED  BY <1>1, <1>3

\* A number given back.
LEMMA UsedLess ==
  ASSUME NEW out \in [Seqs -> Callers \union {None}], NEW f \in Seqs, out[f] # None
  PROVE  /\ Cardinality(Used([out EXCEPT ![f] = None])) = Cardinality(Used(out)) - 1
         /\ Cardinality(Used(out)) > 0
<1>1. Used([out EXCEPT ![f] = None]) = Used(out) \ {f} /\ f \in Used(out)
  BY DEF Used
<1>2. IsFiniteSet(Used(out)) /\ Cardinality(Used(out)) \in Nat
  BY UsedFinite
<1>3. Cardinality(Used(out)) # 0
  BY <1>1, <1>2, FS_EmptySet
<1>4. Cardinality(Used(out) \ {f}) = Cardinality(Used(out)) - 1
  BY <1>1, <1>2, FS_RemoveElement
<1>5. \A n \in Nat : n # 0 => n > 0
  OBVIOUS
<1>6. Cardinality(Used(out)) > 0
  BY <1>2, <1>3, <1>5
<1> QED  BY <1>1, <1>4, <1>6

\* A gap grows when numbers become free.
LEMMA GapGrows ==
  ASSUME NEW out, NEW new, NEW c, NEW s, \A q \in Seqs : out[q] = None => new[q] = None
  PROVE  Cardinality(Gap(out, c, s)) <= Cardinality(Gap(new, c, s))
<1>1. Gap(out, c, s) \in SUBSET Gap(new, c, s)
  BY DEF Gap
<1> QED  BY <1>1, UsedFinite, FS_Subset

\* The search takes one number from every gap that has one.
LEMMA GapShrinks ==
  ASSUME NEW out \in [Seqs -> Callers \union {None}], NEW c \in Seqs, NEW f \in Seqs,
         out[f] = None, \A q \in Seqs : out[q] = None => ~(Dist(c, q) < Dist(c, f)),
         NEW s \in Seqs, Gap(out, c, s) # {},
         NEW new, new = out \/ \E t \in Callers : new = [out EXCEPT ![f] = t]
  PROVE  /\ s # f
         /\ Cardinality(Gap(new, Succ(f), s)) = Cardinality(Gap(out, c, s)) - 1
<1>1. PICK g \in Seqs : out[g] = None /\ Dist(c, g) < Dist(c, s)
  BY DEF Gap
<1>2. Dist(c, f) \in Nat /\ Dist(c, g) \in Nat /\ Dist(c, s) \in Nat
  BY Remainders
<1>3. Dist(c, f) < Dist(c, s)
  <2>1. ~(Dist(c, g) < Dist(c, f))
    BY <1>1
  <2> QED  BY <1>1, <1>2, <2>1
<1>4. f \in Gap(out, c, s) /\ s # f
  BY <1>2, <1>3 DEF Gap
<1>5. \A q \in Seqs : q # f => new[q] = out[q]
  OBVIOUS
<1>6. Gap(new, Succ(f), s) = Gap(out, c, s) \ {f}
  <2>1. ~(Dist(Succ(f), f) < Dist(Succ(f), s))
    BY DistAfter
  <2>2. \A q \in Seqs : q # f /\ ~(Dist(c, q) < Dist(c, f)) =>
          (Dist(Succ(f), q) < Dist(Succ(f), s) <=> Dist(c, q) < Dist(c, s))
    BY <1>3, DistAfter
  <2>3. ASSUME NEW q \in Seqs
        PROVE  q \in Gap(new, Succ(f), s) <=> q \in Gap(out, c, s) \ {f}
    <3>1. CASE q = f
      BY <2>1, <3>1 DEF Gap
    <3>2. CASE q # f
      BY <1>5, <2>2, <3>2 DEF Gap
    <3> QED  BY <3>1, <3>2
  <2> QED  BY <2>3 DEF Gap
<1>7. IsFiniteSet(Gap(out, c, s))
  BY UsedFinite
<1>8. Cardinality(Gap(out, c, s) \ {f}) = Cardinality(Gap(out, c, s)) - 1
  BY <1>4, <1>7, FS_RemoveElement
<1> QED  BY <1>4, <1>6, <1>8

\* Just after f was taken, all free numbers come before it.
LEMMA GapFull ==
  ASSUME NEW out, NEW f \in Seqs, out[f] # None
  PROVE  Cardinality(Gap(out, Succ(f), f)) = MaxSeq - Cardinality(Used(out))
<1>1. \A q \in Seqs : q # f => Dist(Succ(f), q) < Dist(Succ(f), f)
  BY DistAfter
<1>2. Gap(out, Succ(f), f) = Seqs \ Used(out)
  BY <1>1 DEF Gap, Used
<1>3. Seqs \cap Used(out) = Used(out)
  BY DEF Used
<1> QED  BY <1>2, <1>3, Constants, FS_Difference

----------------------------------------------------------------------------
(* The queue. *)

\* A caller joins m_queue.
LEMMA AppendQueue ==
  ASSUME NEW q \in Seq(Callers), NEW t \in Callers, NEW r, r = Append(q, t)
  PROVE  /\ r \in Seq(Callers)
         /\ \A u : Has(r, u) <=> Has(q, u) \/ u = t
         /\ Distinct(q) /\ ~Has(q, t) => Distinct(r)
<1>1. /\ r \in Seq(Callers) /\ Len(q) \in Nat /\ Len(r) = Len(q) + 1 /\ r[Len(q) + 1] = t
      /\ \A i \in 1 .. Len(q) : r[i] = q[i]
  OBVIOUS
<1>2. ASSUME NEW u
      PROVE  Has(r, u) <=> Has(q, u) \/ u = t
  <2>1. ASSUME Has(r, u)
        PROVE  Has(q, u) \/ u = t
    <3>1. PICK i \in 1 .. Len(r) : r[i] = u
      BY <2>1 DEF Has
    <3>2. i \in 1 .. Len(q) \/ i = Len(q) + 1
      BY <1>1
    <3> QED  BY <1>1, <3>1, <3>2 DEF Has
  <2>2. Has(q, u) => Has(r, u)
    BY <1>1 DEF Has
  <2>3. Len(q) + 1 \in 1 .. Len(r)
    BY <1>1
  <2>4. u = t => Has(r, u)
    BY <1>1, <2>3 DEF Has
  <2> QED  BY <2>1, <2>2, <2>4
<1>3. ASSUME Distinct(q), ~Has(q, t)
      PROVE  Distinct(r)
  <2> SUFFICES ASSUME NEW i \in 1 .. Len(r), NEW j \in 1 .. Len(r), r[i] = r[j]
               PROVE  i = j
    BY DEF Distinct
  <2>1. (i \in 1 .. Len(q) \/ i = Len(q) + 1) /\ (j \in 1 .. Len(q) \/ j = Len(q) + 1)
    BY <1>1
  <2>2. \A k \in 1 .. Len(q) : r[k] # t
    BY <1>1, <1>3 DEF Has
  <2> QED  BY <1>1, <1>3, <2>1, <2>2 DEF Distinct
<1> QED  BY <1>1, <1>2, <1>3

\* The first of m_queue is taken.
LEMMA TailQueue ==
  ASSUME NEW q \in Seq(Callers), q # <<>>, Distinct(q), NEW r, r = Tail(q)
  PROVE  /\ r \in Seq(Callers) /\ Head(q) \in Callers /\ Distinct(r)
         /\ Has(q, Head(q)) /\ ~Has(r, Head(q))
         /\ \A u : Has(q, u) <=> Has(r, u) \/ u = Head(q)
<1>1. /\ r \in Seq(Callers) /\ Len(q) \in Nat /\ Len(q) > 0 /\ Len(r) = Len(q) - 1
      /\ \A i \in 1 .. Len(r) : r[i] = q[i + 1]
      /\ Head(q) = q[1] /\ Head(q) \in Callers
  OBVIOUS
<1>2. \A i \in 1 .. Len(r) : i + 1 \in 1 .. Len(q) /\ i + 1 # 1
  BY <1>1
<1>3. 1 \in 1 .. Len(q) /\ \A i \in 1 .. Len(q) : i = 1 \/ (i - 1 \in 1 .. Len(r) /\ (i - 1) + 1 = i)
  BY <1>1
<1>4. Distinct(r)
  <2> SUFFICES ASSUME NEW i \in 1 .. Len(r), NEW j \in 1 .. Len(r), r[i] = r[j]
               PROVE  i = j
    BY DEF Distinct
  <2>1. i + 1 = j + 1
    BY <1>1, <1>2 DEF Distinct
  <2> QED  BY <2>1
<1>5. ~Has(r, Head(q))
  BY <1>1, <1>2, <1>3 DEF Has, Distinct
<1>6. Has(q, Head(q))
  BY <1>1, <1>3 DEF Has
<1>7. ASSUME NEW u
      PROVE  Has(q, u) <=> Has(r, u) \/ u = Head(q)
  <2>1. ASSUME Has(q, u)
        PROVE  Has(r, u) \/ u = Head(q)
    <3>1. PICK i \in 1 .. Len(q) : q[i] = u
      BY <2>1 DEF Has
    <3>2. CASE i = 1
      BY <1>1, <3>1, <3>2
    <3>3. CASE i - 1 \in 1 .. Len(r) /\ (i - 1) + 1 = i
      <4>1. r[i - 1] = u
        BY <1>1, <3>1, <3>3
      <4> QED  BY <3>3, <4>1 DEF Has
    <3> QED  BY <1>3, <3>2, <3>3
  <2>2. Has(r, u) => Has(q, u)
    BY <1>1, <1>2 DEF Has
  <2> QED  BY <1>6, <2>1, <2>2
<1> QED  BY <1>1, <1>4, <1>5, <1>6, <1>7

\* Outstanding requests are put before m_queue.
LEMMA ConcatQueue ==
  ASSUME NEW q \in Seq(Callers), NEW r \in Seq(Callers), NEW z, z = q \o r
  PROVE  /\ z \in Seq(Callers)
         /\ \A u : Has(z, u) <=> Has(q, u) \/ Has(r, u)
         /\ Distinct(q) /\ Distinct(r) /\ (\A u \in Callers : ~(Has(q, u) /\ Has(r, u)))
              => Distinct(z)
<1>1. /\ z \in Seq(Callers) /\ Len(q) \in Nat /\ Len(r) \in Nat /\ Len(z) = Len(q) + Len(r)
      /\ \A i \in 1 .. Len(z) : z[i] = IF i <= Len(q) THEN q[i] ELSE r[i - Len(q)]
  OBVIOUS
<1>2. ASSUME NEW i \in 1 .. Len(z)
      PROVE  \/ i \in 1 .. Len(q) /\ z[i] = q[i]
             \/ ~(i <= Len(q)) /\ i - Len(q) \in 1 .. Len(r) /\ z[i] = r[i - Len(q)]
  BY <1>1
<1>3. ASSUME NEW u
      PROVE  Has(z, u) <=> Has(q, u) \/ Has(r, u)
  <2>1. Has(z, u) => Has(q, u) \/ Has(r, u)
    BY <1>2 DEF Has
  <2>2. Has(q, u) => Has(z, u)
    BY <1>1 DEF Has
  <2>3. ASSUME NEW j \in 1 .. Len(r), r[j] = u
        PROVE  Has(z, u)
    <3>1. Len(q) + j \in 1 .. Len(z) /\ ~(Len(q) + j <= Len(q)) /\ (Len(q) + j) - Len(q) = j
      BY <1>1
    <3>2. z[Len(q) + j] = u
      BY <1>1, <2>3, <3>1
    <3> QED  BY <3>1, <3>2 DEF Has
  <2> QED  BY <2>1, <2>2, <2>3 DEF Has
<1>4. ASSUME Distinct(q), Distinct(r), \A u \in Callers : ~(Has(q, u) /\ Has(r, u))
      PROVE  Distinct(z)
  <2> SUFFICES ASSUME NEW i \in 1 .. Len(z), NEW j \in 1 .. Len(z), z[i] = z[j]
               PROVE  i = j
    BY DEF Distinct
  <2>1. z[i] \in Callers
    BY <1>1
  <2>2. CASE i \in 1 .. Len(q) /\ j \in 1 .. Len(q)
    BY <1>1, <1>4, <2>2 DEF Distinct
  <2>3. CASE ~(i <= Len(q)) /\ ~(j <= Len(q))
    <3>1. /\ i - Len(q) \in 1 .. Len(r) /\ j - Len(q) \in 1 .. Len(r)
          /\ z[i] = r[i - Len(q)] /\ z[j] = r[j - Len(q)]
      BY <1>1, <2>3
    <3>2. i - Len(q) = j - Len(q)
      BY <1>4, <3>1 DEF Distinct
    <3> QED  BY <1>1, <3>2
  <2>4. CASE i <= Len(q) /\ ~(j <= Len(q))
    <3>1. i \in 1 .. Len(q) /\ q[i] = z[i] /\ j - Len(q) \in 1 .. Len(r) /\ r[j - Len(q)] = z[i]
      BY <1>1, <2>4
    <3>2. Has(q, z[i]) /\ Has(r, z[i])
      BY <3>1 DEF Has
    <3> QED  BY <1>4, <2>1, <3>2
  <2>5. CASE j <= Len(q) /\ ~(i <= Len(q))
    <3>1. j \in 1 .. Len(q) /\ q[j] = z[i] /\ i - Len(q) \in 1 .. Len(r) /\ r[i - Len(q)] = z[i]
      BY <1>1, <2>5
    <3>2. Has(q, z[i]) /\ Has(r, z[i])
      BY <3>1 DEF Has
    <3> QED  BY <1>4, <2>1, <3>2
  <2> QED  BY <1>1, <2>2, <2>3, <2>4, <2>5
<1> QED  BY <1>1, <1>3, <1>4

----------------------------------------------------------------------------
(* Reconnection: the order of RequeueOutstanding. *)

\* OutBySeq lists every caller with a request out, once.
LEMMA OutBySeqLists ==
  ASSUME m_outstanding \in [Seqs -> Callers \union {None}],
         \A s, q \in Seqs : m_outstanding[s] # None /\ m_outstanding[s] = m_outstanding[q] => s = q
  PROVE  /\ OutBySeq \in Seq(Callers) /\ Distinct(OutBySeq)
         /\ \A t \in Callers : Has(OutBySeq, t) <=> InSlot(t)
<1> DEFINE used == {s \in Seqs : m_outstanding[s] # None}
           n == Cardinality(used)
           below(s) == {q \in used : q < s}
           rank == [s \in used |-> Cardinality(below(s)) + 1]
           Nth(i) == CHOOSE s \in used : Cardinality(below(s)) = i - 1
<1>1. /\ IsFiniteSet(used) /\ n \in Nat /\ used \subseteq Seqs /\ used \subseteq Nat
  BY UsedFinite, Constants DEF Used
<1>2. \A s \in used : m_outstanding[s] \in Callers
  OBVIOUS
<1>3. OutBySeq = [i \in 1 .. n |-> m_outstanding[Nth(i)]]
  BY DEF OutBySeq
<1> HIDE DEF used
<1>4. ASSUME NEW s \in used
      PROVE  Cardinality(below(s)) \in Nat /\ Cardinality(below(s)) + 1 \in 1 .. n
  <2>1. below(s) \in SUBSET (used \ {s})
    BY <1>1
  <2>2. IsFiniteSet(used \ {s}) /\ Cardinality(used \ {s}) = n - 1
    BY <1>1, FS_RemoveElement
  <2> HIDE DEF below, n
  <2>3. IsFiniteSet(below(s)) /\ Cardinality(below(s)) <= n - 1
    BY <2>1, <2>2, FS_Subset
  <2>4. Cardinality(below(s)) \in Nat
    BY <2>3, FS_CardinalityType
  <2> QED  BY <1>1, <2>3, <2>4
<1>5. ASSUME NEW s \in used, NEW q \in used, s < q
      PROVE  Cardinality(below(s)) # Cardinality(below(q))
  <2>1. below(s) \in SUBSET below(q) /\ s \in below(q) /\ s \notin below(s)
    <3>1. s \in Nat /\ q \in Nat /\ ~(s < s)
      BY <1>1
    <3>2. \A x \in used : x < s => x < q
      BY <1>1, <1>5, <3>1
    <3> QED  BY <1>5, <3>1, <3>2
  <2>2. below(q) \in SUBSET used
    OBVIOUS
  <2> HIDE DEF below, n
  <2>3. IsFiniteSet(below(q))
    BY <1>1, <2>2, FS_Subset
  <2> QED  BY <2>1, <2>3, FS_Subset
<1>6. \A s, q \in used : Cardinality(below(s)) = Cardinality(below(q)) => s = q
  <2> SUFFICES ASSUME NEW s \in used, NEW q \in used, s # q
               PROVE  Cardinality(below(s)) # Cardinality(below(q))
    OBVIOUS
  <2>1. s \in Nat /\ q \in Nat
    BY <1>1
  <2>2. s < q \/ q < s
    BY <2>1
  <2> HIDE DEF below
  <2> QED  BY <1>5, <2>2
<1>7. \A s \in used : rank[s] = Cardinality(below(s)) + 1
  OBVIOUS
<1> HIDE DEF below, n
<1>8. rank \in Injection(used, 1 .. n)
  <2>1. rank \in [used -> 1 .. n]
    BY <1>4
  <2>2. \A s, q \in used : rank[s] = rank[q] => s = q
    BY <1>4, <1>6, <1>7
  <2> HIDE DEF rank
  <2> QED  BY <2>1, <2>2 DEF Injection, IsInjective
<1>9. IsFiniteSet(1 .. n) /\ Cardinality(1 .. n) = n
  <2>1. 1 \in Int /\ n \in Int /\ (IF 1 > n THEN 0 ELSE n - 1 + 1) = n
    BY <1>1
  <2> QED  BY <2>1, FS_Interval
<1>10. rank \in Surjection(used, 1 .. n)
  <2> HIDE DEF rank
  <2>1. Cardinality(used) = Cardinality(1 .. n)
    BY <1>9 DEF n
  <2> QED  BY <1>8, <1>9, <2>1, FS_Injection
<1>11. ASSUME NEW i \in 1 .. n
       PROVE  Nth(i) \in used /\ Cardinality(below(Nth(i))) = i - 1
  <2>1. PICK s \in used : rank[s] = i
    <3> HIDE DEF rank
    <3> QED  BY <1>10 DEF Surjection
  <2>2. Cardinality(below(s)) = i - 1
    BY <1>4, <1>7, <2>1
  <2> QED  BY <2>2
<1> HIDE DEF Nth, rank
<1>12. \A i \in 1 .. n : m_outstanding[Nth(i)] \in Callers
  BY <1>2, <1>11
<1>13. /\ OutBySeq \in Seq(Callers) /\ Len(OutBySeq) = n
       /\ \A i \in 1 .. n : OutBySeq[i] = m_outstanding[Nth(i)]
  BY <1>1, <1>3, <1>12
<1>14. Distinct(OutBySeq)
  <2> SUFFICES ASSUME NEW i \in 1 .. n, NEW j \in 1 .. n, OutBySeq[i] = OutBySeq[j]
               PROVE  i = j
    BY <1>13 DEF Distinct
  <2>1. Nth(i) \in Seqs /\ Nth(j) \in Seqs /\ m_outstanding[Nth(i)] # None
    BY <1>1, <1>11 DEF used
  <2>2. Nth(i) = Nth(j)
    BY <1>13, <2>1
  <2>3. i - 1 = j - 1
    BY <1>11, <2>2
  <2> QED  BY <2>3
<1>15. ASSUME NEW t \in Callers
       PROVE  Has(OutBySeq, t) <=> InSlot(t)
  <2>1. Has(OutBySeq, t) => InSlot(t)
    BY <1>1, <1>11, <1>13 DEF Has, InSlot
  <2>2. ASSUME NEW s \in Seqs, m_outstanding[s] = t
        PROVE  Has(OutBySeq, t)
    <3>1. s \in used
      BY <2>2, Constants DEF used
    <3>2. PICK i \in 1 .. n : i = Cardinality(below(s)) + 1
      BY <1>4, <3>1
    <3>3. Cardinality(below(s)) = i - 1
      BY <1>4, <3>1, <3>2
    <3>4. Nth(i) = s
      BY <1>6, <1>11, <3>1, <3>3
    <3> QED  BY <1>13, <2>2, <3>4 DEF Has
  <2> QED  BY <2>1, <2>2 DEF InSlot
<1> QED  BY <1>13, <1>14, <1>15

----------------------------------------------------------------------------
(* Steps. *)

\* The invariant holds at the start.
LEMMA InitInv == Init => Inv
<1> SUFFICES ASSUME Init
             PROVE  Inv
  OBVIOUS
<1>1. /\ m_outstanding \in [Seqs -> Callers \union {None}] /\ Used(m_outstanding) = {}
      /\ \A s \in Seqs : m_outstanding[s] = None
  BY DEF Init, Used
<1>2. \A t \in Callers : th[t].pc = "idle" /\ th[t].rsp = "none" /\ th[t] \in RequestState
  <2>1. Outside(AnyCmd) \in RequestState /\ Outside(AnyCmd).pc = "idle" /\ Outside(AnyCmd).rsp = "none"
    BY Constants DEF Outside, RequestState
  <2> QED  BY <2>1 DEF Init
<1>3. TypeOK
  <2>1. th \in [Callers -> RequestState]
    BY <1>2 DEF Init
  <2>2. /\ m_num_outstanding \in 0 .. MaxSeq /\ m_max_outstanding \in 1 .. MaxOutstanding
        /\ scan \in 0 .. MaxSeq /\ reconnects \in 0 .. MaxReconnects /\ m_current_seq \in Seqs
    BY Constants, ConAssumption DEF Init
  <2> QED  BY <1>1, <2>1, <2>2 DEF Init, TypeOK
<1>4. PlaceInv
  BY <1>1, <1>2, Constants DEF Init, PlaceInv, PlaceOf, Has, Distinct, InSlot
<1>5. CountInv
  <2>1. Cardinality({}) = 0
    BY FS_EmptySet
  <2>2. Cardinality(Used(m_outstanding)) = 0
    BY <1>1, <2>1
  <2>3. m_num_outstanding = 0 /\ m_max_outstanding = 1
    BY DEF Init
  <2> QED  BY <2>2, <2>3 DEF CountInv
<1> QED  BY <1>2, <1>3, <1>4, <1>5 DEF Init, Inv, ReaderInv, NetInv, OwnAnswer

\* Steps that leave the requests and their places alone.
LEMMA QuietInv ==
  ASSUME Inv, TypeOK', ReaderInv',
         UNCHANGED <<m_outstanding, m_num_outstanding, m_current_seq, m_queue, th, sig>>,
         net' \subseteq net, m_max_outstanding' >= m_max_outstanding
  PROVE  Inv'
<1>1. PlaceInv'
  BY DEF Inv, PlaceInv, PlaceOf, InSlot
<1>2. CountInv'
  <2>1. m_num_outstanding \in Int /\ m_max_outstanding \in Int /\ m_max_outstanding' \in Int
    BY DEF Inv, TypeOK
  <2> QED  BY <2>1 DEF Inv, CountInv
<1>3. NetInv'
  BY DEF Inv, NetInv, Timely
<1>4. OwnAnswer'
  BY DEF Inv, OwnAnswer
<1> QED  BY <1>1, <1>2, <1>3, <1>4 DEF Inv

\* A number given back: by HandleResponse, or by the search for expired requests.
LEMMA FreeSlot ==
  ASSUME TypeOK, CountInv, NetInv, NEW s \in Seqs, m_outstanding[s] # None, RemOutstanding(s),
         UNCHANGED <<m_current_seq, m_max_outstanding, net>>
  PROVE  /\ m_outstanding' \in [Seqs -> Callers \union {None}]
         /\ m_num_outstanding' \in 0 .. MaxSeq
         /\ CountInv' /\ NetInv'
<1>1. /\ m_outstanding \in [Seqs -> Callers \union {None}] /\ m_num_outstanding \in 0 .. MaxSeq
      /\ m_max_outstanding \in Int
  BY DEF TypeOK
<1>2. /\ m_outstanding' = [m_outstanding EXCEPT ![s] = None]
      /\ m_num_outstanding' = m_num_outstanding - 1
  BY DEF RemOutstanding
<1>3. /\ Cardinality(Used(m_outstanding')) = Cardinality(Used(m_outstanding)) - 1
      /\ Cardinality(Used(m_outstanding)) > 0
  BY <1>1, <1>2, UsedLess
<1>4. m_num_outstanding = Cardinality(Used(m_outstanding)) /\ m_num_outstanding <= m_max_outstanding
  BY DEF CountInv
<1>5. m_num_outstanding' \in 0 .. MaxSeq /\ m_num_outstanding' <= m_max_outstanding
  BY <1>1, <1>2, <1>3, <1>4, Constants
<1>6. CountInv'
  BY <1>2, <1>3, <1>4, <1>5 DEF CountInv
<1>7. ASSUME NEW a \in net
      PROVE  Timely(a)'
  <2>1. a \in Answers
    BY DEF TypeOK
  <2>2. a.seq \in Seqs /\ a.left \in Nat
    BY <2>1, Constants DEF Answers
  <2>3. \A q \in Seqs : m_outstanding[q] = None => m_outstanding'[q] = None
    BY <1>1, <1>2
  <2>4. PICK g \in Nat : g = Cardinality(Gap(m_outstanding, m_current_seq, a.seq))
    BY UsedFinite
  <2>5. PICK h \in Nat : h = Cardinality(Gap(m_outstanding', m_current_seq, a.seq))
    BY UsedFinite
  <2>6. g <= h
    BY <2>3, <2>4, <2>5, GapGrows
  <2>7. a.left <= g + 1
    BY <2>4 DEF NetInv, Timely
  <2>8. a.left <= h + 1
    BY <2>2, <2>6, <2>7
  <2>9. m_outstanding'[a.seq] # None => m_outstanding'[a.seq] = m_outstanding[a.seq]
    BY <1>1, <1>2, <2>2
  <2> QED  BY <2>5, <2>8, <2>9 DEF NetInv, Timely
<1> QED  BY <1>1, <1>2, <1>5, <1>6, <1>7 DEF NetInv

\* A request sent, or its sending failed: answers that were still on their way
\* under the number it takes have come to their end.
LEMMA TakeSlot ==
  ASSUME TypeOK, CountInv, NetInv, m_num_outstanding < m_max_outstanding,
         m_current_seq' = SeqAfter(FreeSeq), m_max_outstanding' = m_max_outstanding,
         \/ /\ UNCHANGED <<m_outstanding, m_num_outstanding>>
            /\ net' = Aged(net)
         \/ \E t \in Callers, c \in Cmds :
              /\ m_outstanding' = [m_outstanding EXCEPT ![FreeSeq] = t]
              /\ m_num_outstanding' = m_num_outstanding + 1
              /\ net' = Aged(net) \union {[seq |-> FreeSeq, owner |-> t, cmd |-> c, left |-> Late]}
  PROVE  /\ FreeSeq \in Seqs /\ m_outstanding[FreeSeq] = None
         /\ m_outstanding' \in [Seqs -> Callers \union {None}] /\ m_current_seq' \in Seqs
         /\ m_num_outstanding' \in 0 .. MaxSeq /\ net' \subseteq Answers
         /\ CountInv' /\ NetInv'
<1>1. /\ m_outstanding \in [Seqs -> Callers \union {None}] /\ m_num_outstanding \in 0 .. MaxSeq
      /\ m_max_outstanding \in 1 .. MaxOutstanding /\ m_current_seq \in Seqs
      /\ m_num_outstanding = Cardinality(Used(m_outstanding)) /\ net \subseteq Answers
  BY DEF TypeOK, CountInv
<1>2. m_num_outstanding < MaxSeq /\ m_num_outstanding + 1 <= MaxOutstanding
  BY <1>1, Constants
<1>3. \E s \in Seqs : m_outstanding[s] = None
  BY <1>1, <1>2, OneFree
<1>4. PICK f \in Seqs : f = FreeSeq
  BY <1>1, <1>3, FreeSeqFound
<1>5. /\ m_outstanding[f] = None
      /\ \A q \in Seqs : m_outstanding[q] = None => ~(Dist(m_current_seq, q) < Dist(m_current_seq, f))
  BY <1>1, <1>3, <1>4, FreeSeqFound
<1>6. m_current_seq' = Succ(f) /\ Succ(f) \in Seqs
  BY <1>4, Remainders
<1>7. PICK new : /\ new = m_outstanding'
                 /\ new = m_outstanding \/ \E t \in Callers : new = [m_outstanding EXCEPT ![f] = t]
  BY <1>4
<1>8. new \in [Seqs -> Callers \union {None}] /\ \A q \in Seqs : q # f => new[q] = m_outstanding[q]
  BY <1>1, <1>7
<1>9. ASSUME NEW b \in Aged(net)
      PROVE  b \in Answers /\ Timely(b)'
  <2>1. PICK a \in net : a.left > 1 /\ b = [a EXCEPT !.left = @ - 1]
    BY DEF Aged
  <2>2. a \in Answers /\ a.left \in 1 .. Late
    BY <1>1 DEF Answers
  <2>3. a.left - 1 \in 1 .. Late
    BY <2>1, <2>2, Constants
  <2>4. /\ b \in Answers /\ b.seq = a.seq /\ b.owner = a.owner /\ b.left = a.left - 1
        /\ a.seq \in Seqs
    BY <2>1, <2>2, <2>3 DEF Answers
  <2>5. PICK g \in Nat : g = Cardinality(Gap(m_outstanding, m_current_seq, a.seq))
    BY UsedFinite
  <2>6. a.left <= g + 1
    BY <2>5 DEF NetInv, Timely
  <2>7. g # 0
    BY <2>1, <2>2, <2>6
  <2>8. Gap(m_outstanding, m_current_seq, a.seq) # {}
    BY <2>5, <2>7, FS_EmptySet
  <2>9. a.seq # f /\ Cardinality(Gap(new, Succ(f), a.seq)) = g - 1
    BY <1>1, <1>5, <1>7, <2>4, <2>5, <2>8, GapShrinks
  <2>10. b.left <= (g - 1) + 1
    BY <2>2, <2>4, <2>6
  <2>11. b.left <= Cardinality(Gap(m_outstanding', m_current_seq', b.seq)) + 1
    BY <1>6, <1>7, <2>4, <2>9, <2>10
  <2>12. m_outstanding'[b.seq] # None => b.owner = m_outstanding'[b.seq]
    BY <1>7, <1>8, <2>4, <2>9 DEF NetInv, Timely
  <2> QED  BY <2>4, <2>11, <2>12 DEF Timely
<1>10. CASE UNCHANGED <<m_outstanding, m_num_outstanding>> /\ net' = Aged(net)
  <2>1. CountInv'
    BY <1>10 DEF CountInv
  <2> QED  BY <1>1, <1>4, <1>5, <1>6, <1>9, <1>10, <2>1 DEF NetInv
<1>11. ASSUME NEW t \in Callers, NEW c \in Cmds,
              m_outstanding' = [m_outstanding EXCEPT ![f] = t],
              m_num_outstanding' = m_num_outstanding + 1,
              net' = Aged(net) \union {[seq |-> f, owner |-> t, cmd |-> c, left |-> Late]}
       PROVE  /\ m_num_outstanding' \in 0 .. MaxSeq /\ net' \subseteq Answers
              /\ CountInv' /\ NetInv'
  <2>1. Cardinality(Used(m_outstanding')) = Cardinality(Used(m_outstanding)) + 1
    BY <1>1, <1>5, <1>11, UsedMore
  <2>2. /\ m_num_outstanding' \in 0 .. MaxSeq /\ m_num_outstanding' <= m_max_outstanding
        /\ m_num_outstanding' = Cardinality(Used(m_outstanding')) /\ m_num_outstanding' \in Nat
        /\ m_num_outstanding' <= MaxOutstanding
    <3>1. m_num_outstanding' = Cardinality(Used(m_outstanding'))
      BY <1>1, <1>11, <2>1
    <3>2. MaxSeq \in Nat /\ MaxOutstanding \in Nat
      BY Constants
    <3>3. \A n, m, k, z \in Nat : n < m /\ n < z /\ n + 1 <= k =>
            n + 1 \in 0 .. z /\ n + 1 <= m /\ n + 1 \in Nat
      OBVIOUS
    <3>4. m_num_outstanding \in Nat /\ m_max_outstanding \in Nat
      BY <1>1
    <3> QED  BY <1>2, <1>11, <3>1, <3>2, <3>3, <3>4
  <2>3. PICK b : b = [seq |-> f, owner |-> t, cmd |-> c, left |-> Late]
    OBVIOUS
  <2>4. Late \in 1 .. Late
    BY Constants
  <2>5. b \in Answers /\ b.seq = f /\ b.owner = t /\ b.left = Late
    BY <2>3, <2>4 DEF Answers
  <2>6. m_outstanding'[f] = t /\ t # None
    BY <1>1, <1>11, Constants
  <2>7. Cardinality(Gap(m_outstanding', Succ(f), f)) = MaxSeq - m_num_outstanding'
    BY <2>2, <2>6, GapFull
  <2>8. Late <= (MaxSeq - m_num_outstanding') + 1
    BY <2>2, Constants
  <2>9. Timely(b)'
    BY <1>6, <2>5, <2>6, <2>7, <2>8 DEF Timely
  <2>10. \A a \in net' : a \in Answers /\ Timely(a)'
    BY <1>9, <1>11, <2>3, <2>5, <2>9
  <2> QED  BY <2>2, <2>10 DEF CountInv, NetInv
<1> QED  BY <1>4, <1>5, <1>6, <1>7, <1>8, <1>10, <1>11

\* Steps of the reader between its loops, and of the network, that only move
\* the reader on, drop answers or raise the limit.
LEMMA QuietSteps ==
  ASSUME Inv
  PROVE  /\ Top \/ PollNothing \/ ReadPong \/ LockQueue \/ ScanEnd \/ SendEnd \/ Close => Inv'
         /\ \A a \in net : Lose(a) => Inv'
         /\ \A n \in 2 .. MaxOutstanding : SetMaxOutstanding(n) => Inv'
         /\ UNCHANGED vars => Inv'
<1>1. TypeOK /\ ReaderInv /\ MaxOutstanding \in Nat /\ m_max_outstanding \in 1 .. MaxOutstanding
  BY Constants DEF Inv, TypeOK
<1>2. m_max_outstanding >= m_max_outstanding
  BY <1>1
<1>3. ASSUME Top \/ PollNothing \/ ReadPong \/ LockQueue \/ ScanEnd \/ SendEnd
      PROVE  Inv'
  <2>1. /\ UNCHANGED <<m_outstanding, m_num_outstanding, m_current_seq, m_queue, th, sig, net,
                       m_max_outstanding, m_exit, reconnects, rd>>
        /\ rpc' \in {"end", "poll", "read", "scan", "resend", "send", "top"}
        /\ scan' \in {scan, 0} /\ m_check_connection' \in BOOLEAN
    BY <1>1, <1>3 DEF Top, PollNothing, ReadPong, LockQueue, ScanEnd, SendEnd, tableVars, connVars,
                      TypeOK
  <2>2. 0 \in 0 .. MaxSeq
    BY Constants
  <2>3. TypeOK'
    BY <1>1, <2>1, <2>2 DEF TypeOK
  <2>4. sig = None
    BY <1>1, <1>3 DEF ReaderInv, Top, PollNothing, ReadPong, LockQueue, ScanEnd, SendEnd
  <2>5. ReaderInv'
    BY <2>1, <2>4 DEF ReaderInv
  <2> QED  BY <1>2, <2>1, <2>3, <2>5, QuietInv
<1>4. ASSUME Close \/ \E a \in net : Lose(a)
      PROVE  Inv'
  <2>1. /\ UNCHANGED <<m_outstanding, m_num_outstanding, m_current_seq, m_queue, th, sig,
                       m_max_outstanding, reconnects, rpc, rd, scan, m_check_connection>>
        /\ net' \subseteq net /\ m_exit' \in BOOLEAN
    BY <1>1, <1>4 DEF Close, Lose, tableVars, connVars, readerVars, TypeOK
  <2>2. TypeOK' /\ ReaderInv'
    BY <1>1, <2>1 DEF TypeOK, ReaderInv
  <2> QED  BY <1>2, <2>1, <2>2, QuietInv
<1>5. ASSUME NEW n \in 2 .. MaxOutstanding, SetMaxOutstanding(n)
      PROVE  Inv'
  <2>1. /\ UNCHANGED <<m_outstanding, m_num_outstanding, m_current_seq, m_queue, th, sig,
                       m_exit, reconnects, rpc, rd, scan, m_check_connection, net>>
        /\ m_max_outstanding' = n /\ m_max_outstanding = 1
    BY <1>5 DEF SetMaxOutstanding, tableVars, connVars, readerVars
  <2>2. n \in 1 .. MaxOutstanding /\ m_max_outstanding' >= m_max_outstanding
    BY <1>1, <2>1
  <2>3. TypeOK' /\ ReaderInv'
    BY <1>1, <2>1, <2>2 DEF TypeOK, ReaderInv
  <2> QED  BY <2>1, <2>2, <2>3, QuietInv
<1>6. ASSUME UNCHANGED vars
      PROVE  Inv'
  <2>1. UNCHANGED <<m_outstanding, m_num_outstanding, m_current_seq, m_queue, th, sig, net,
                    m_max_outstanding, m_exit, reconnects, rpc, rd, scan, m_check_connection>>
    BY <1>6 DEF vars, tableVars, connVars, readerVars
  <2>2. TypeOK' /\ ReaderInv'
    BY <1>1, <2>1 DEF TypeOK, ReaderInv
  <2> QED  BY <1>2, <2>1, <2>2, QuietInv
<1> QED  BY <1>3, <1>4, <1>5, <1>6

\* ReadResponse: the answer the reader takes belongs to the request of its number.
LEMMA ReadStep ==
  ASSUME Inv, NEW a \in net, ReadResponse(a)
  PROVE  Inv'
<1>1. /\ UNCHANGED <<m_outstanding, m_num_outstanding, m_current_seq, m_queue, th, sig,
                     m_max_outstanding, m_exit, reconnects, scan, m_check_connection>>
      /\ rpc = "poll" /\ net' = net \ {a}
      /\ \/ m_outstanding[a.seq] # None /\ rd' = a /\ rpc' = "respond"
         \/ rd' = rd /\ rpc' = "read"
  BY DEF ReadResponse, tableVars, connVars
<1>2. a \in Answers /\ m_max_outstanding >= m_max_outstanding
  BY Constants DEF Inv, TypeOK
<1>3. TypeOK'
  BY <1>1, <1>2 DEF Inv, TypeOK
<1>4. sig = None
  BY <1>1 DEF Inv, ReaderInv
<1>5. ReaderInv'
  BY <1>1, <1>2, <1>4 DEF Inv, NetInv, Timely, ReaderInv
<1>6. net' \subseteq net
  BY <1>1
<1> QED  BY <1>1, <1>2, <1>3, <1>5, <1>6, QuietInv

\* The caller waits, is woken, or returns and deletes its request.
LEMMA CallerSteps ==
  ASSUME Inv, NEW t \in Callers
  PROVE  (CmdWait(t) => Inv') /\ (CmdReturn(t) => Inv')
<1>1. /\ TypeOK /\ ReaderInv /\ PlaceInv /\ CountInv /\ NetInv /\ OwnAnswer
      /\ th \in [Callers -> RequestState] /\ th[t] \in RequestState /\ net \subseteq Answers
  BY DEF Inv, TypeOK
<1>2. ASSUME CmdWait(t)
      PROVE  Inv'
  <2>1. /\ UNCHANGED <<m_outstanding, m_num_outstanding, m_current_seq, m_queue, sig, net,
                       m_max_outstanding, m_exit, reconnects, rpc, rd, scan, m_check_connection>>
        /\ th[t].pc = "sent" /\ th' = [th EXCEPT ![t].pc = "wait"]
    BY <1>2 DEF CmdWait, tableVars, connVars, readerVars
  <2>2. /\ th' \in [Callers -> RequestState] /\ th'[t].pc = "wait" /\ th'[t].seq = th[t].seq
        /\ th'[t].retries = th[t].retries /\ th'[t].rsp = th[t].rsp
        /\ \A u \in Callers : u # t => th'[u] = th[u]
    BY <1>1, <2>1 DEF RequestState
  <2>3. TypeOK' /\ ReaderInv' /\ CountInv' /\ NetInv'
    BY <1>1, <2>1, <2>2 DEF TypeOK, ReaderInv, CountInv, NetInv, Timely
  <2>4. ASSUME NEW u \in Callers
        PROVE  PlaceOf(u)' /\ th'[u].rsp # "foreign"
    <3>1. PlaceOf(u) /\ th[u].rsp # "foreign"
      BY <1>1 DEF PlaceInv, OwnAnswer
    <3>2. /\ th'[u].seq = th[u].seq /\ th'[u].retries = th[u].retries /\ th'[u].rsp = th[u].rsp
          /\ th'[u].pc \in {"sent", "wait"} <=> th[u].pc \in {"sent", "wait"}
      BY <2>1, <2>2
    <3> QED  BY <2>1, <3>1, <3>2 DEF PlaceOf, InSlot
  <2>5. PlaceInv' /\ OwnAnswer'
    BY <1>1, <2>1, <2>4 DEF PlaceInv, OwnAnswer
  <2> QED  BY <2>3, <2>5 DEF Inv
<1>3. ASSUME CmdReturn(t)
      PROVE  Inv'
  <2>1. /\ UNCHANGED <<m_outstanding, m_num_outstanding, m_current_seq, m_queue, sig,
                       m_max_outstanding, m_exit, reconnects, rpc, rd, scan, m_check_connection>>
        /\ th[t].pc = "woken" /\ th' = [th EXCEPT ![t] = Outside(AnyCmd)] /\ net' = Disown(t)
    BY <1>3 DEF CmdReturn, tableVars, connVars, readerVars
  <2>2. Outside(AnyCmd) \in RequestState /\ Outside(AnyCmd).pc = "idle" /\ Outside(AnyCmd).rsp = "none"
    BY Constants DEF Outside, RequestState
  <2>3. /\ th' \in [Callers -> RequestState] /\ th'[t].pc = "idle" /\ th'[t].rsp = "none"
        /\ \A u \in Callers : u # t => th'[u] = th[u]
    BY <1>1, <2>1, <2>2
  <2>4. ~InSlot(t) /\ ~Has(m_queue, t) /\ sig # t
    BY <1>1, <2>1 DEF PlaceInv, PlaceOf
  <2>5. ASSUME NEW b \in net'
        PROVE  b \in Answers /\ Timely(b)'
    <3>1. PICK a \in net : b = IF a.owner = t THEN [a EXCEPT !.owner = None] ELSE a
      BY <2>1 DEF Disown
    <3>2. a \in Answers /\ Timely(a)
      BY <1>1 DEF NetInv
    <3>3. /\ b \in Answers /\ b.seq = a.seq /\ b.left = a.left /\ (a.owner # t => b.owner = a.owner)
          /\ a.seq \in Seqs
      BY <3>1, <3>2 DEF Answers
    <3>4. m_outstanding[a.seq] # t
      BY <2>4, <3>3 DEF InSlot
    <3> QED  BY <2>1, <3>2, <3>3, <3>4 DEF Timely
  <2>6. TypeOK' /\ ReaderInv' /\ CountInv' /\ NetInv'
    BY <1>1, <2>1, <2>3, <2>5 DEF TypeOK, ReaderInv, CountInv, NetInv
  <2>7. ASSUME NEW u \in Callers
        PROVE  PlaceOf(u)' /\ th'[u].rsp # "foreign"
    <3>1. PlaceOf(u) /\ th[u].rsp # "foreign"
      BY <1>1 DEF PlaceInv, OwnAnswer
    <3>2. CASE u # t
      BY <2>1, <2>3, <3>1, <3>2 DEF PlaceOf, InSlot
    <3>3. CASE u = t
      BY <2>1, <2>3, <2>4, <3>3 DEF PlaceOf, InSlot
    <3> QED  BY <3>2, <3>3
  <2>8. PlaceInv' /\ OwnAnswer'
    BY <1>1, <2>1, <2>7 DEF PlaceInv, OwnAnswer
  <2> QED  BY <2>6, <2>8 DEF Inv
<1> QED  BY <1>2, <1>3

\* The signal reaches a caller that waits: it has let the lock of its condition
\* variable go.
LEMMA SignalStep ==
  ASSUME Inv, NEW t \in Callers, Signal(t)
  PROVE  Inv'
<1>1. /\ TypeOK /\ ReaderInv /\ PlaceInv /\ CountInv /\ NetInv /\ OwnAnswer
      /\ th \in [Callers -> RequestState] /\ th[t] \in RequestState
  BY DEF Inv, TypeOK
<1>2. /\ UNCHANGED <<m_outstanding, m_num_outstanding, m_current_seq, m_queue, net,
                     m_max_outstanding, m_exit, reconnects, rpc, rd, scan, m_check_connection>>
      /\ sig = t /\ th[t].pc # "sent" /\ sig' = None
      /\ th' = [th EXCEPT ![t].pc = IF @ = "wait" THEN "woken" ELSE @]
  BY DEF Signal, CondFree, tableVars, connVars
<1>3. th[t].pc = "wait" /\ ~InSlot(t) /\ ~Has(m_queue, t)
  BY <1>1, <1>2 DEF PlaceInv, PlaceOf
<1>4. /\ th' \in [Callers -> RequestState] /\ th'[t].pc = "woken" /\ th'[t].rsp = th[t].rsp
      /\ \A u \in Callers : u # t => th'[u] = th[u]
  BY <1>1, <1>2, <1>3 DEF RequestState
<1>5. TypeOK' /\ ReaderInv' /\ CountInv' /\ NetInv'
  BY <1>1, <1>2, <1>4 DEF TypeOK, ReaderInv, CountInv, NetInv, Timely
<1>6. ASSUME NEW u \in Callers
      PROVE  PlaceOf(u)' /\ th'[u].rsp # "foreign"
  <2>1. PlaceOf(u) /\ th[u].rsp # "foreign" /\ sig' # u
    BY <1>1, <1>2, Constants DEF PlaceInv, OwnAnswer
  <2>2. CASE u # t
    <3>1. sig # u /\ th'[u] = th[u]
      BY <1>2, <1>4, <2>2
    <3> QED  BY <1>2, <2>1, <3>1 DEF PlaceOf, InSlot
  <2>3. CASE u = t
    BY <1>2, <1>3, <1>4, <2>1, <2>3 DEF PlaceOf, InSlot
  <2> QED  BY <2>2, <2>3
<1>7. PlaceInv' /\ OwnAnswer'
  BY <1>1, <1>2, <1>6 DEF PlaceInv, OwnAnswer
<1> QED  BY <1>5, <1>7 DEF Inv

\* HandleResponse: the request that is out under the number gets its own answer.
LEMMA ResponseStep ==
  ASSUME Inv, HandleResponse
  PROVE  Inv'
<1>1. /\ TypeOK /\ ReaderInv /\ PlaceInv /\ CountInv /\ NetInv /\ OwnAnswer
      /\ th \in [Callers -> RequestState] /\ m_outstanding \in [Seqs -> Callers \union {None}]
  BY DEF Inv, TypeOK
<1>2. /\ rd \in Answers /\ rd.seq \in Seqs /\ sig = None /\ rpc = "respond"
      /\ m_outstanding[rd.seq] # None /\ rd.owner = m_outstanding[rd.seq]
  BY <1>1 DEF HandleResponse, ReaderInv, Answers
<1>3. PICK t \in Callers : t = m_outstanding[rd.seq]
  BY <1>1, <1>2
<1>4. /\ UNCHANGED <<m_current_seq, m_max_outstanding, m_exit, reconnects, scan, m_queue,
                     m_check_connection, net>>
      /\ rpc' = "read" /\ rd' = None /\ sig' = t /\ RemOutstanding(rd.seq)
      /\ th' = [th EXCEPT ![t].rsp = "own"]
  BY <1>2, <1>3 DEF HandleResponse, connVars
<1>5. /\ m_outstanding' \in [Seqs -> Callers \union {None}]
      /\ m_num_outstanding' \in 0 .. MaxSeq /\ CountInv' /\ NetInv'
  BY <1>1, <1>2, <1>4, FreeSlot
<1>6. /\ th' \in [Callers -> RequestState] /\ th'[t].pc = th[t].pc /\ th'[t].rsp = "own"
      /\ \A u \in Callers : u # t => th'[u] = th[u]
  BY <1>1, <1>4 DEF RequestState
<1>7. TypeOK' /\ ReaderInv'
  BY <1>1, <1>4, <1>5, <1>6 DEF TypeOK, ReaderInv
<1>8. m_outstanding' = [m_outstanding EXCEPT ![rd.seq] = None]
  BY <1>4 DEF RemOutstanding
<1>9. InSlot(t) /\ th[t].seq = rd.seq /\ ~Has(m_queue, t) /\ th[t].pc \in {"sent", "wait"}
  BY <1>1, <1>2, <1>3 DEF PlaceInv, PlaceOf, InSlot
<1>10. \A u \in Callers, s \in Seqs :
         m_outstanding'[s] = u <=> m_outstanding[s] = u /\ u # t
  BY <1>1, <1>2, <1>3, <1>8, <1>9, Constants DEF PlaceInv, PlaceOf
<1>11. ASSUME NEW u \in Callers
       PROVE  PlaceOf(u)' /\ th'[u].rsp # "foreign"
  <2>1. PlaceOf(u) /\ th[u].rsp # "foreign" /\ sig # u
    BY <1>1, <1>2, Constants DEF PlaceInv, OwnAnswer
  <2>2. CASE u # t
    <3>1. sig' # u /\ th'[u] = th[u] /\ m_queue' = m_queue
      BY <1>4, <1>6, <2>2
    <3> QED  BY <1>10, <2>1, <2>2, <3>1 DEF PlaceOf, InSlot
  <2>3. CASE u = t
    BY <1>4, <1>6, <1>9, <1>10, <2>1, <2>3 DEF PlaceOf, InSlot
  <2> QED  BY <2>2, <2>3
<1>12. PlaceInv' /\ OwnAnswer'
  BY <1>1, <1>4, <1>11 DEF PlaceInv, OwnAnswer
<1> QED  BY <1>5, <1>7, <1>12 DEF Inv

\* The search for expired requests: a request leaves its number for the queue, or
\* its caller is told.
LEMMA ExpireStep ==
  ASSUME Inv, NEW s \in Seqs, NEW stale \in BOOLEAN, Expire(s, stale)
  PROVE  Inv'
<1>1. /\ TypeOK /\ ReaderInv /\ PlaceInv /\ CountInv /\ NetInv /\ OwnAnswer
      /\ th \in [Callers -> RequestState] /\ m_outstanding \in [Seqs -> Callers \union {None}]
      /\ m_queue \in Seq(Callers) /\ m_check_connection \in BOOLEAN
  BY DEF Inv, TypeOK
<1>2. /\ rpc = "scan" /\ sig = None /\ m_outstanding[s] # None /\ RemOutstanding(s)
      /\ UNCHANGED <<m_current_seq, m_max_outstanding, m_exit, reconnects, rpc, rd, th, net>>
      /\ scan' = s + 1
  BY DEF Expire, connVars
<1>3. PICK t \in Callers : t = m_outstanding[s]
  BY <1>1, <1>2
<1>4. HandleMsgError(t, th[t].retries, m_queue, stale)
  BY <1>3 DEF Expire
<1>5. /\ m_outstanding' \in [Seqs -> Callers \union {None}]
      /\ m_num_outstanding' \in 0 .. MaxSeq /\ CountInv' /\ NetInv'
  BY <1>1, <1>2, FreeSlot
<1>6. m_outstanding' = [m_outstanding EXCEPT ![s] = None]
  BY <1>2 DEF RemOutstanding
<1>7. InSlot(t) /\ th[t].seq = s /\ ~Has(m_queue, t) /\ th[t].pc \in {"sent", "wait"}
  BY <1>1, <1>3 DEF PlaceInv, PlaceOf, InSlot
<1>8. \A u \in Callers, q \in Seqs : m_outstanding'[q] = u <=> m_outstanding[q] = u /\ u # t
  BY <1>1, <1>3, <1>6, <1>7, Constants DEF PlaceInv, PlaceOf
<1>9. \/ /\ m_queue' = Append(m_queue, t) /\ sig' = sig /\ th[t].retries > 0
         /\ m_check_connection' = (m_check_connection \/ stale)
      \/ m_queue' = m_queue /\ sig' = t /\ m_check_connection' = m_check_connection
  BY <1>4 DEF HandleMsgError
<1>10. /\ m_queue' \in Seq(Callers) /\ Distinct(m_queue')
       /\ \A u \in Callers : Has(m_queue', u) <=> Has(m_queue, u) \/ (u = t /\ sig' = None)
  BY <1>1, <1>2, <1>7, <1>9, AppendQueue, Constants DEF PlaceInv
<1>11. scan' \in 0 .. MaxSeq /\ m_check_connection' \in BOOLEAN /\ sig' \in {t, None}
  <2>1. s + 1 \in 0 .. MaxSeq
    BY Constants DEF Seqs
  <2> QED  BY <1>1, <1>2, <1>9, <2>1
<1>12. TypeOK' /\ ReaderInv'
  BY <1>1, <1>2, <1>5, <1>10, <1>11 DEF TypeOK, ReaderInv
<1>13. ASSUME NEW u \in Callers
       PROVE  PlaceOf(u)'
  <2>1. PlaceOf(u) /\ sig # u /\ th'[u] = th[u] /\ u # None
    BY <1>1, <1>2, Constants DEF PlaceInv
  <2>2. CASE u # t
    <3>1. sig' # u /\ (Has(m_queue', u) <=> Has(m_queue, u))
      BY <1>10, <1>11, <2>1, <2>2
    <3> QED  BY <1>8, <2>1, <2>2, <3>1 DEF PlaceOf, InSlot
  <2>3. CASE u = t
    <3>1. (Has(m_queue', u) /\ sig' # u /\ th[u].retries > 0) \/ (~Has(m_queue', u) /\ sig' = u)
      BY <1>2, <1>7, <1>9, <1>10, <2>1, <2>3
    <3> QED  BY <1>7, <1>8, <2>1, <2>3, <3>1 DEF PlaceOf, InSlot
  <2> QED  BY <2>2, <2>3
<1>14. PlaceInv' /\ OwnAnswer'
  BY <1>1, <1>2, <1>10, <1>13 DEF PlaceInv, OwnAnswer
<1> QED  BY <1>5, <1>12, <1>14 DEF Inv

\* What SendCmd does to the table, whether or not IfSendCmd succeeds.
LEMMA SendTable ==
  ASSUME Inv, NEW t \in Callers, NEW r, r.cmd \in Cmds, NEW ok \in BOOLEAN, SendCmd(t, r, ok),
         m_num_outstanding < m_max_outstanding, m_max_outstanding' = m_max_outstanding
  PROVE  /\ FreeSeq \in Seqs /\ m_outstanding[FreeSeq] = None
         /\ m_outstanding' \in [Seqs -> Callers \union {None}] /\ m_current_seq' \in Seqs
         /\ m_num_outstanding' \in 0 .. MaxSeq /\ net' \subseteq Answers
         /\ CountInv' /\ NetInv'
         /\ m_outstanding' = IF ok THEN [m_outstanding EXCEPT ![FreeSeq] = t] ELSE m_outstanding
<1>1. TypeOK /\ CountInv /\ NetInv /\ m_current_seq' = SeqAfter(FreeSeq)
  BY DEF Inv, SendCmd
<1>2. /\ ok => /\ m_outstanding' = [m_outstanding EXCEPT ![FreeSeq] = t]
               /\ m_num_outstanding' = m_num_outstanding + 1
               /\ net' = Aged(net) \union
                    {[seq |-> FreeSeq, owner |-> t, cmd |-> r.cmd, left |-> Late]}
      /\ ~ok => UNCHANGED <<m_outstanding, m_num_outstanding>> /\ net' = Aged(net)
  BY DEF SendCmd
<1>3. /\ FreeSeq \in Seqs /\ m_outstanding[FreeSeq] = None
      /\ m_outstanding' \in [Seqs -> Callers \union {None}] /\ m_current_seq' \in Seqs
      /\ m_num_outstanding' \in 0 .. MaxSeq /\ net' \subseteq Answers
      /\ CountInv' /\ NetInv'
  BY <1>1, <1>2, TakeSlot
<1> QED  BY <1>2, <1>3

\* The places of the numbers after a request of t was sent under f.
LEMMA SlotsAfter ==
  ASSUME NEW out \in [Seqs -> Callers \union {None}], NEW f \in Seqs, out[f] = None,
         NEW t \in Callers, \A s \in Seqs : out[s] # t, NEW ok \in BOOLEAN,
         NEW new, new = IF ok THEN [out EXCEPT ![f] = t] ELSE out
  PROVE  \A u \in Callers, s \in Seqs :
           new[s] = u <=> out[s] = u \/ (ok /\ u = t /\ s = f)
BY Constants

\* The head of the queue is sent again; when that fails it is queued again, or its
\* caller is told.
LEMMA SendNextStep ==
  ASSUME Inv, NEW ok \in BOOLEAN, NEW stale \in BOOLEAN, SendNext(ok, stale)
  PROVE  Inv'
<1>1. /\ TypeOK /\ ReaderInv /\ PlaceInv /\ OwnAnswer
      /\ th \in [Callers -> RequestState] /\ m_outstanding \in [Seqs -> Callers \union {None}]
      /\ m_queue \in Seq(Callers) /\ m_check_connection \in BOOLEAN /\ Distinct(m_queue)
  BY DEF Inv, TypeOK, PlaceInv
<1>2. PICK t : t = Head(m_queue)
  OBVIOUS
<1>3. PICK rest : rest = Tail(m_queue)
  OBVIOUS
<1>4. /\ rpc \in {"send", "resend"} /\ sig = None /\ m_queue # <<>>
      /\ m_num_outstanding < m_max_outstanding /\ SendCmd(t, th[t], ok)
      /\ UNCHANGED <<m_max_outstanding, m_exit, reconnects, rpc, rd, scan>>
      /\ ok => m_queue' = rest /\ sig' = sig /\ m_check_connection' = m_check_connection
      /\ ~ok => HandleMsgError(t, th[t].retries - 1, rest, stale)
  BY <1>2, <1>3 DEF SendNext, connVars
<1>5. /\ rest \in Seq(Callers) /\ t \in Callers /\ Distinct(rest)
      /\ Has(m_queue, t) /\ ~Has(rest, t) /\ \A u : Has(m_queue, u) <=> Has(rest, u) \/ u = t
  BY <1>1, <1>2, <1>3, <1>4, TailQueue
<1>6. /\ ~InSlot(t) /\ th[t].pc \in {"sent", "wait"} /\ th[t] \in RequestState
      /\ th[t].retries \in 0 .. Retries /\ th[t].retries > 0 /\ th[t].cmd \in Cmds
  BY <1>1, <1>5 DEF PlaceInv, PlaceOf, RequestState
<1>7. PICK f : f = FreeSeq
  OBVIOUS
<1>8. /\ f \in Seqs /\ m_outstanding[f] = None
      /\ m_outstanding' \in [Seqs -> Callers \union {None}] /\ m_current_seq' \in Seqs
      /\ m_num_outstanding' \in 0 .. MaxSeq /\ net' \subseteq Answers
      /\ CountInv' /\ NetInv'
      /\ m_outstanding' = IF ok THEN [m_outstanding EXCEPT ![f] = t] ELSE m_outstanding
  BY <1>4, <1>5, <1>6, <1>7, SendTable
<1>9. th[t].retries - 1 \in 0 .. Retries
  BY <1>6, Constants
<1>10. PICK left \in 0 .. Retries : left = th[t].retries - 1
  BY <1>9
<1>11. th' = [th EXCEPT ![t] = [th[t] EXCEPT !.seq = f, !.retries = left]]
  BY <1>4, <1>6, <1>7, <1>10 DEF SendCmd, RequestState
<1>12. /\ th' \in [Callers -> RequestState] /\ th'[t].pc = th[t].pc /\ th'[t].rsp = th[t].rsp
       /\ th'[t].seq = f /\ th'[t].retries = left
       /\ \A u \in Callers : u # t => th'[u] = th[u]
  BY <1>1, <1>5, <1>6, <1>8, <1>11 DEF RequestState
<1>13. \A u \in Callers, s \in Seqs :
         m_outstanding'[s] = u <=> m_outstanding[s] = u \/ (ok /\ u = t /\ s = f)
  BY <1>1, <1>5, <1>6, <1>8, SlotsAfter DEF InSlot
<1>14. \/ ok /\ m_queue' = rest /\ sig' = None /\ m_check_connection' = m_check_connection
       \/ /\ ~ok /\ m_queue' = Append(rest, t) /\ sig' = None /\ left > 0
          /\ m_check_connection' = (m_check_connection \/ stale)
       \/ ~ok /\ m_queue' = rest /\ sig' = t /\ m_check_connection' = m_check_connection
  BY <1>4, <1>10 DEF HandleMsgError
<1>15. /\ m_queue' \in Seq(Callers) /\ Distinct(m_queue')
       /\ \A u \in Callers : Has(m_queue', u) <=> Has(rest, u) \/ (u = t /\ ~ok /\ sig' = None)
  BY <1>5, <1>14, AppendQueue, Constants
<1>16. sig' \in {None, t} /\ m_check_connection' \in BOOLEAN
  BY <1>1, <1>14
<1>17. TypeOK' /\ ReaderInv'
  BY <1>1, <1>4, <1>5, <1>8, <1>12, <1>15, <1>16 DEF TypeOK, ReaderInv
<1>18. ASSUME NEW u \in Callers
       PROVE  PlaceOf(u)' /\ th'[u].rsp # "foreign"
  <2>1. PlaceOf(u) /\ th[u].rsp # "foreign" /\ sig # u /\ u # None
    BY <1>1, <1>4, Constants DEF PlaceInv, OwnAnswer
  <2>2. CASE u # t
    <3>1. /\ sig' # u /\ (Has(m_queue', u) <=> Has(m_queue, u)) /\ th'[u] = th[u]
          /\ \A s \in Seqs : m_outstanding'[s] = u <=> m_outstanding[s] = u
      BY <1>5, <1>12, <1>13, <1>15, <1>16, <2>1, <2>2
    <3> QED  BY <2>1, <3>1 DEF PlaceOf, InSlot
  <2>3. CASE u = t
    <3>1. \A s \in Seqs : m_outstanding'[s] = u <=> ok /\ s = f
      BY <1>6, <1>13, <2>3 DEF InSlot
    <3>2. InSlot(u)' <=> ok
      BY <1>8, <3>1 DEF InSlot
    <3>3. /\ Has(m_queue', u) => ~ok /\ sig' # u /\ left > 0
          /\ ok => sig' # u
          /\ ok \/ Has(m_queue', u) \/ sig' = u
      BY <1>5, <1>14, <1>15, <2>1, <2>3
    <3> QED  BY <1>6, <1>12, <2>1, <2>3, <3>1, <3>2, <3>3 DEF PlaceOf
  <2> QED  BY <2>2, <2>3
<1>19. PlaceInv' /\ OwnAnswer'
  BY <1>15, <1>18 DEF PlaceInv, OwnAnswer
<1> QED  BY <1>8, <1>17, <1>19 DEF Inv

\* What the reader has read stays the answer of the request under its number while
\* callers send.
LEMMA ReaderKept ==
  ASSUME Inv, UNCHANGED <<rpc, rd, sig>>,
         \A s \in Seqs : m_outstanding[s] # None => m_outstanding'[s] = m_outstanding[s]
  PROVE  ReaderInv'
<1>1. rpc = "respond" => rd.seq \in Seqs
  BY DEF Inv, ReaderInv, Answers
<1> QED  BY <1>1 DEF Inv, ReaderInv

\* Cmd sends its request, or queues it.
LEMMA CmdSendStep ==
  ASSUME Inv, NEW t \in Callers, NEW c \in Cmds, CmdSend(t, c)
  PROVE  Inv'
<1>1. /\ TypeOK /\ ReaderInv /\ PlaceInv /\ CountInv /\ NetInv /\ OwnAnswer
      /\ th \in [Callers -> RequestState] /\ m_outstanding \in [Seqs -> Callers \union {None}]
      /\ m_queue \in Seq(Callers) /\ Distinct(m_queue)
  BY DEF Inv, TypeOK, PlaceInv
<1>2. PICK r : r = [Outside(c) EXCEPT !.pc = "sent", !.retries = Retries]
  OBVIOUS
<1>3. /\ r \in RequestState /\ r.pc = "sent" /\ r.rsp = "none" /\ r.retries = Retries
      /\ r.cmd = c /\ Retries \in 0 .. Retries /\ Retries - 1 \in 0 .. Retries /\ Retries > 0
  <2>1. Retries \in 0 .. Retries /\ Retries - 1 \in 0 .. Retries /\ Retries > 0
    BY Constants
  <2> QED  BY <1>2, <2>1, Constants DEF Outside, RequestState
<1>4. /\ th[t].pc = "idle"
      /\ UNCHANGED <<m_max_outstanding, m_exit, reconnects, rpc, rd, scan, sig, m_check_connection>>
      /\ \/ /\ m_num_outstanding < m_max_outstanding /\ SendCmd(t, r, TRUE) /\ m_queue' = m_queue
         \/ /\ m_queue' = Append(m_queue, t) /\ th' = [th EXCEPT ![t] = r]
            /\ UNCHANGED <<m_outstanding, m_num_outstanding, m_current_seq, net>>
  BY <1>2 DEF CmdSend, connVars, readerVars, tableVars
<1>5. ~InSlot(t) /\ ~Has(m_queue, t) /\ sig # t
  BY <1>1, <1>4 DEF PlaceInv, PlaceOf
<1>6. CASE m_num_outstanding < m_max_outstanding /\ SendCmd(t, r, TRUE) /\ m_queue' = m_queue
  <2>1. PICK f : f = FreeSeq
    OBVIOUS
  <2>2. /\ f \in Seqs /\ m_outstanding[f] = None
        /\ m_outstanding' \in [Seqs -> Callers \union {None}] /\ m_current_seq' \in Seqs
        /\ m_num_outstanding' \in 0 .. MaxSeq /\ net' \subseteq Answers
        /\ CountInv' /\ NetInv'
        /\ m_outstanding' = [m_outstanding EXCEPT ![f] = t]
    BY <1>3, <1>4, <1>6, <2>1, SendTable
  <2>3. th' = [th EXCEPT ![t] = [r EXCEPT !.seq = f, !.retries = Retries - 1]]
    BY <1>3, <1>6, <2>1 DEF SendCmd, RequestState
  <2>4. /\ th' \in [Callers -> RequestState] /\ th'[t].pc = "sent" /\ th'[t].rsp = "none"
        /\ th'[t].seq = f /\ \A u \in Callers : u # t => th'[u] = th[u]
    BY <1>1, <1>3, <2>2, <2>3 DEF RequestState
  <2>5. \A u \in Callers, s \in Seqs :
          m_outstanding'[s] = u <=> m_outstanding[s] = u \/ (u = t /\ s = f)
    BY <1>1, <1>5, <2>2, Constants DEF InSlot
  <2>6. ReaderInv'
    BY <1>1, <1>4, <2>2, ReaderKept
  <2>7. TypeOK'
    BY <1>1, <1>4, <1>6, <2>2, <2>4 DEF TypeOK
  <2>8. ASSUME NEW u \in Callers
        PROVE  PlaceOf(u)' /\ th'[u].rsp # "foreign"
    <3>1. PlaceOf(u) /\ th[u].rsp # "foreign"
      BY <1>1 DEF PlaceInv, OwnAnswer
    <3>2. CASE u # t
      <4>1. th'[u] = th[u] /\ \A s \in Seqs : m_outstanding'[s] = u <=> m_outstanding[s] = u
        BY <2>4, <2>5, <3>2
      <4> QED  BY <1>4, <1>6, <3>1, <4>1 DEF PlaceOf, InSlot
    <3>3. CASE u = t
      <4>1. \A s \in Seqs : m_outstanding'[s] = u <=> s = f
        BY <1>5, <2>5, <3>3 DEF InSlot
      <4>2. InSlot(u)'
        BY <2>2, <4>1 DEF InSlot
      <4> QED  BY <1>4, <1>5, <1>6, <2>4, <3>3, <4>1, <4>2 DEF PlaceOf
    <3> QED  BY <3>2, <3>3
  <2>9. PlaceInv' /\ OwnAnswer'
    BY <1>1, <1>6, <2>8 DEF PlaceInv, OwnAnswer
  <2> QED  BY <2>2, <2>6, <2>7, <2>9 DEF Inv
<1>7. CASE /\ m_queue' = Append(m_queue, t) /\ th' = [th EXCEPT ![t] = r]
           /\ UNCHANGED <<m_outstanding, m_num_outstanding, m_current_seq, net>>
  <2>1. /\ m_queue' \in Seq(Callers) /\ Distinct(m_queue')
        /\ \A u : Has(m_queue', u) <=> Has(m_queue, u) \/ u = t
    BY <1>1, <1>5, <1>7, AppendQueue
  <2>2. /\ th' \in [Callers -> RequestState] /\ th'[t] = r
        /\ \A u \in Callers : u # t => th'[u] = th[u]
    BY <1>1, <1>3, <1>7
  <2>3. TypeOK' /\ ReaderInv' /\ CountInv' /\ NetInv'
    BY <1>1, <1>4, <1>7, <2>1, <2>2 DEF TypeOK, ReaderInv, CountInv, NetInv, Timely
  <2>4. ASSUME NEW u \in Callers
        PROVE  PlaceOf(u)' /\ th'[u].rsp # "foreign"
    <3>1. PlaceOf(u) /\ th[u].rsp # "foreign" /\ (InSlot(u)' <=> InSlot(u))
      BY <1>1, <1>7 DEF PlaceInv, OwnAnswer, InSlot
    <3>2. CASE u # t
      BY <1>4, <1>7, <2>1, <2>2, <3>1, <3>2 DEF PlaceOf
    <3>3. CASE u = t
      <4>1. \A s \in Seqs : m_outstanding'[s] # u
        BY <1>5, <1>7, <3>3 DEF InSlot
      <4> QED  BY <1>3, <1>4, <1>5, <2>1, <2>2, <3>1, <3>3, <4>1 DEF PlaceOf
    <3> QED  BY <3>2, <3>3
  <2>5. PlaceInv' /\ OwnAnswer'
    BY <2>1, <2>4 DEF PlaceInv, OwnAnswer
  <2> QED  BY <2>3, <2>5 DEF Inv
<1> QED  BY <1>4, <1>6, <1>7

\* Cmd fails to send.
LEMMA CmdSendFailsStep ==
  ASSUME Inv, NEW t \in Callers, CmdSendFails(t)
  PROVE  Inv'
<1>1. TypeOK /\ ReaderInv /\ PlaceInv /\ CountInv /\ NetInv /\ OwnAnswer
  BY DEF Inv
<1>2. /\ UNCHANGED <<m_outstanding, m_num_outstanding, m_max_outstanding, m_exit, reconnects,
                     rpc, rd, scan, sig, m_queue, m_check_connection, th>>
      /\ m_num_outstanding < m_max_outstanding
      /\ m_current_seq' = SeqAfter(FreeSeq) /\ net' = Aged(net)
  BY DEF CmdSendFails, connVars, readerVars
<1>3. m_current_seq' \in Seqs /\ net' \subseteq Answers /\ CountInv' /\ NetInv'
  BY <1>1, <1>2, TakeSlot
<1>4. TypeOK' /\ ReaderInv'
  BY <1>1, <1>2, <1>3 DEF TypeOK, ReaderInv
<1>5. PlaceInv' /\ OwnAnswer'
  BY <1>1, <1>2 DEF PlaceInv, PlaceOf, InSlot, OwnAnswer
<1> QED  BY <1>3, <1>4, <1>5 DEF Inv

\* A new session: all requests that are out go back to the queue, each with a retry.
LEMMA ReconnectSteps ==
  ASSUME Inv
  PROVE  (CheckTimeout => Inv') /\ (ReconnectDone => Inv')
<1>1. /\ TypeOK /\ ReaderInv /\ PlaceInv /\ CountInv /\ NetInv /\ OwnAnswer
      /\ th \in [Callers -> RequestState] /\ m_outstanding \in [Seqs -> Callers \union {None}]
      /\ m_queue \in Seq(Callers) /\ Distinct(m_queue)
  BY DEF Inv, TypeOK, PlaceInv
<1>2. ASSUME CheckTimeout
      PROVE  Inv'
  <2>1. /\ rpc = "top" /\ rpc' = "reconnect" /\ RequeueOutstanding /\ sig = None
        /\ reconnects < MaxReconnects /\ reconnects' = reconnects + 1
        /\ UNCHANGED <<m_current_seq, m_max_outstanding, m_exit, rd, scan, sig,
                       m_check_connection, net>>
    BY <1>1, <1>2 DEF CheckTimeout, ReaderInv
  <2>2. PICK out : out = OutBySeq
    OBVIOUS
  <2>3. \A s, q \in Seqs : m_outstanding[s] # None /\ m_outstanding[s] = m_outstanding[q] => s = q
    BY <1>1 DEF PlaceInv, PlaceOf
  <2>4. out \in Seq(Callers) /\ Distinct(out) /\ \A t \in Callers : Has(out, t) <=> InSlot(t)
    BY <1>1, <2>2, <2>3, OutBySeqLists
  <2>5. /\ m_queue' = m_queue \o out /\ m_outstanding' = [s \in Seqs |-> None]
        /\ m_num_outstanding' = 0
        /\ \A t \in Callers : th'[t] = IF InSlot(t)
                                       THEN [th[t] EXCEPT !.retries = RetriesAgain(@)] ELSE th[t]
        /\ DOMAIN th' = Callers
    BY <2>1, <2>2 DEF RequeueOutstanding, InSlot
  <2>6. \A u \in Callers : ~(Has(m_queue, u) /\ Has(out, u))
    BY <1>1, <2>4 DEF PlaceInv, PlaceOf
  <2>7. /\ m_queue' \in Seq(Callers) /\ Distinct(m_queue')
        /\ \A u \in Callers : Has(m_queue', u) <=> Has(m_queue, u) \/ InSlot(u)
    BY <1>1, <2>4, <2>5, <2>6, ConcatQueue
  <2>8. ASSUME NEW u \in Callers
        PROVE  /\ th'[u] \in RequestState /\ th'[u].pc = th[u].pc /\ th'[u].rsp = th[u].rsp
               /\ th'[u].seq = th[u].seq /\ (~InSlot(u) => th'[u].retries = th[u].retries)
               /\ InSlot(u) => th'[u].retries > 0
    <3>1. th[u] \in RequestState /\ th[u].retries \in 0 .. Retries
      BY <1>1 DEF RequestState
    <3>2. RetriesAgain(th[u].retries) \in 0 .. Retries /\ RetriesAgain(th[u].retries) > 0
      BY <3>1, Constants DEF RetriesAgain
    <3> QED  BY <2>5, <3>1, <3>2 DEF RequestState
  <2>9. th' \in [Callers -> RequestState]
    <3>1. th' = [t \in Callers |-> th'[t]]
      BY <2>1 DEF RequeueOutstanding
    <3> QED  BY <2>8, <3>1
  <2>10. m_outstanding' \in [Seqs -> Callers \union {None}] /\ \A s \in Seqs : m_outstanding'[s] = None
    BY <2>5
  <2>11. reconnects' \in 0 .. MaxReconnects /\ 0 \in 0 .. MaxSeq
    BY <1>1, <2>1, Constants, ConAssumption DEF TypeOK
  <2>12. TypeOK' /\ ReaderInv'
    BY <1>1, <2>1, <2>5, <2>7, <2>9, <2>10, <2>11 DEF TypeOK, ReaderInv
  <2>13. CountInv'
    <3>1. Used(m_outstanding') = {} /\ Cardinality({}) = 0
      BY <2>10, FS_EmptySet DEF Used
    <3>2. Cardinality(Used(m_outstanding')) = 0
      BY <3>1
    <3>3. m_max_outstanding' = m_max_outstanding /\ 0 <= m_max_outstanding
      BY <1>1, <2>1 DEF TypeOK
    <3> QED  BY <2>5, <3>2, <3>3 DEF CountInv
  <2>14. NetInv'
    <3> SUFFICES ASSUME NEW a \in net
                 PROVE  Timely(a)'
      BY <2>1 DEF NetInv
    <3>1. a.seq \in Seqs /\ a.left \in Nat
      BY <1>1, Constants DEF TypeOK, Answers
    <3>2. PICK g \in Nat : g = Cardinality(Gap(m_outstanding, m_current_seq, a.seq))
      BY UsedFinite
    <3>3. PICK h \in Nat : h = Cardinality(Gap(m_outstanding', m_current_seq, a.seq))
      BY UsedFinite
    <3>4. g <= h
      BY <2>10, <3>2, <3>3, GapGrows
    <3>5. a.left <= g + 1
      BY <1>1, <3>2 DEF NetInv, Timely
    <3>6. a.left <= h + 1
      BY <3>1, <3>4, <3>5
    <3> QED  BY <2>1, <2>10, <3>1, <3>3, <3>6 DEF Timely
  <2>15. ASSUME NEW u \in Callers
         PROVE  PlaceOf(u)' /\ th'[u].rsp # "foreign"
    <3>1. PlaceOf(u) /\ th[u].rsp # "foreign" /\ u # None /\ sig # u
      BY <1>1, <2>1, Constants DEF PlaceInv, OwnAnswer
    <3>2. ~InSlot(u)' /\ \A s \in Seqs : m_outstanding'[s] # u
      BY <2>10, <3>1 DEF InSlot
    <3> QED  BY <2>1, <2>7, <2>8, <3>1, <3>2 DEF PlaceOf
  <2>16. PlaceInv' /\ OwnAnswer'
    BY <2>7, <2>15 DEF PlaceInv, OwnAnswer
  <2> QED  BY <2>12, <2>13, <2>14, <2>16 DEF Inv
<1>3. ASSUME ReconnectDone
      PROVE  Inv'
  <2>1. /\ rpc = "reconnect" /\ rpc' = "again" /\ m_current_seq' = 0 /\ net' = {}
        /\ UNCHANGED <<m_outstanding, m_num_outstanding, m_max_outstanding, m_exit, reconnects,
                       rd, scan, sig, m_queue, m_check_connection, th>>
    BY <1>3 DEF ReconnectDone, connVars
  <2>2. TypeOK' /\ ReaderInv' /\ NetInv'
    BY <1>1, <2>1, Constants DEF TypeOK, ReaderInv, NetInv
  <2>3. CountInv' /\ PlaceInv' /\ OwnAnswer'
    BY <1>1, <2>1 DEF CountInv, PlaceInv, PlaceOf, InSlot, OwnAnswer
  <2> QED  BY <2>2, <2>3 DEF Inv
<1> QED  BY <1>2, <1>3

\* Every step keeps it.
LEMMA NextInv == Inv /\ [Next]_vars => Inv'
<1> SUFFICES ASSUME Inv, [Next]_vars
             PROVE  Inv'
  OBVIOUS
<1>1. CASE Reader
  BY <1>1, QuietSteps, ReadStep, SignalStep, ResponseStep, ExpireStep, SendNextStep, ReconnectSteps
     DEF Reader
<1>2. CASE ~Reader
  BY <1>2, QuietSteps, CallerSteps, CmdSendStep, CmdSendFailsStep DEF Next
<1> QED  BY <1>1, <1>2

\* The places of a request, counted.
LEMMA OnePlaceFollows ==
  ASSUME Inv
  PROVE  OnePlace
<1> SUFFICES ASSUME NEW t \in Callers
             PROVE  /\ Cardinality(Slots(t)) + Cardinality(Queued(t)) + (IF sig = t THEN 1 ELSE 0)
                         = IF th[t].pc \in {"sent", "wait"} THEN 1 ELSE 0
                    /\ Slots(t) \subseteq {th[t].seq}
  BY DEF OnePlace
<1>1. PlaceOf(t) /\ Distinct(m_queue)
  BY DEF Inv, PlaceInv
<1>2. Slots(t) \subseteq {th[t].seq} /\ (InSlot(t) <=> Slots(t) # {})
  BY <1>1 DEF Slots, PlaceOf, InSlot
<1>3. Slots(t) = IF InSlot(t) THEN {th[t].seq} ELSE {}
  BY <1>2
<1>4. PICK i : Queued(t) = IF Has(m_queue, t) THEN {i} ELSE {}
  <2>1. CASE Has(m_queue, t)
    <3>1. PICK i \in 1 .. Len(m_queue) : m_queue[i] = t
      BY <2>1 DEF Has
    <3>2. Queued(t) = {i}
      BY <1>1, <3>1 DEF Queued, Distinct
    <3> QED  BY <2>1, <3>2
  <2>2. CASE ~Has(m_queue, t)
    BY <2>2 DEF Queued, Has
  <2> QED  BY <2>1, <2>2
<1>5. Cardinality({}) = 0 /\ Cardinality({i}) = 1 /\ Cardinality({th[t].seq}) = 1
  BY FS_EmptySet, FS_Singleton
<1>6. Cardinality(Slots(t)) = IF InSlot(t) THEN 1 ELSE 0
  BY <1>3, <1>5
<1>7. Cardinality(Queued(t)) = IF Has(m_queue, t) THEN 1 ELSE 0
  BY <1>4, <1>5
<1> QED  BY <1>1, <1>2, <1>6, <1>7 DEF PlaceOf

\* The assertions of the code.
LEMMA AssertionsFollow ==
  ASSUME Inv
  PROVE  AssertionsHold
<1>1. \A i \in 1 .. Len(m_queue) : m_queue[i] \in Callers /\ Has(m_queue, m_queue[i])
  BY DEF Inv, TypeOK, Has
<1>2. \A i \in 1 .. Len(m_queue) : th[m_queue[i]].retries > 0
  BY <1>1 DEF Inv, PlaceInv, PlaceOf
<1> QED  BY <1>2 DEF Inv, CountInv, Used, AssertionsHold

----------------------------------------------------------------------------
(* The theorems. *)

\* Every reachable state is well typed: the count of outstanding requests stays
\* within the table, no request's retries fall below zero.
THEOREM TypeCorrect == Spec => []TypeOK
<1>1. Inv => TypeOK
  BY DEF Inv
<1> QED  BY <1>1, InitInv, NextInv, PTL DEF Spec

\* A request of cIpmiCon::Cmd is in the queue, under one sequence number, or about
\* to be signalled, and never in two of these; none is known once its caller
\* deletes it.
THEOREM RequestsInOnePlace == Spec => []OnePlace
BY InitInv, NextInv, OnePlaceFollows, PTL DEF Spec

\* The assertions of SendCmd and AddOutstanding never fail.
THEOREM CodeAssertionsHold == Spec => []AssertionsHold
BY InitInv, NextInv, AssertionsFollow, PTL DEF Spec

\* No caller gets an answer to another request, for any table size, as long as the
\* network is late by at most MaxSeq - MaxOutstanding further requests.
THEOREM AnswersAreOwn == Spec => []OwnAnswer
<1>1. Inv => OwnAnswer
  BY DEF Inv
<1> QED  BY <1>1, InitInv, NextInv, PTL DEF Spec
============================================================================
