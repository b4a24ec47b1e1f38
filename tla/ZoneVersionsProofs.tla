------------------------- MODULE ZoneVersionsProofs -------------------------
(***************************************************************************)
(* Proofs about ZoneVersions, for any records, files, updates, serials and *)
(* lengths of the journal: what is served is what is stored, whichever way *)
(* each version was written, and every snapshot can be loaded by an engine *)
(* that holds nothing.                                                     *)
(***************************************************************************)
EXTENDS ZoneVersions, FiniteSetTheorems, SequenceTheorems, TLAPS

-----------------------------------------------------------------------------
(* The inductive invariant.                                                *)

Rows == [serial : Serials, seq : Nat, imageSeq : Nat, soa : SoaFields, zonemd : BOOLEAN]

\* The journal has every delta from some version on, at the latest from the image, and each
\* leads from a serial to the serial of the next.
JournalIsChain ==
    /\ \E lo \in 0 .. zone.imageSeq : DOMAIN journal = lo + 1 .. zone.seq
    /\ \A s \in DOMAIN journal :
          journal[s].to = IF s = zone.seq THEN zone.serial ELSE journal[s + 1].from
    /\ image.serial = IF zone.imageSeq = zone.seq THEN zone.serial ELSE journal[zone.imageSeq + 1].from

\* Records of the zone: each once and, if m does not say that a file gave an RRset two TTLs, with
\* one TTL per RRset.
Good(m, S) == S \in SUBSET Records /\ OnceEach(S) /\ (~m => OneTtl(S))

\* x is y as an engine has it: the same data and, unless m, the same TTLs.
Follows(m, x, y) ==
    /\ x.serial = y.serial
    /\ x.recs \subseteq ServedRecords
    /\ Data(x.recs) = Data(y.recs)
    /\ ~m => x.recs = y.recs

Current == [serial |-> zone.serial, recs |-> LoadServed]

\* An engine that reads the image and applies the deltas after it gets what the management plane
\* replays, although it compares records without their TTL and keeps one TTL per RRset.
FromStart ==
    ApplyDeltas([serial |-> image.serial, recs |-> Inserted({}, image.recs)],
                DeltasAfter(zone.imageSeq))
EngineReplays == Follows(mixed, FromStart, Current)

\* What every step preserves: a version has a row, records of the zone, a journal that reaches it,
\* and is the same read by the management plane and by an engine.
ZoneInv ==
    /\ Good(mixed, stored)
    /\ zone # None =>
         /\ zone \in Rows /\ zone.imageSeq \in 1 .. zone.seq
         /\ JournalIsChain /\ ServedIsStored /\ EngineReplays

-----------------------------------------------------------------------------
(* Numbers.                                                                *)

LEMMA LeastNumber ==
    ASSUME NEW S \in SUBSET Nat, S /= {}
    PROVE  \E x \in S : \A y \in S : x <= y
<1> DEFINE R == {ss \in Nat \X Nat : ss[1] < ss[2]}
<1>1. IsWellFoundedOn(R, Nat)
  BY NatLessThanWellFounded, Zenon DEF OpToRel
<1>2. PICK x \in S : \A y \in S : ~ (<<y, x>> \in R)
  <2> HIDE DEF R
  <2> QED  BY <1>1, WFMin, Zenon
<1>3. ASSUME NEW y \in S, y < x
      PROVE  <<y, x>> \in R
  BY <1>3
<1>4. \A y \in S : x <= y
  <2> HIDE DEF R
  <2>1. \A y \in S : ~ (y < x)
    BY <1>2, <1>3
  <2> QED  BY <2>1
<1> QED  BY <1>4

\* Induction, for a set of numbers in the place of a predicate.
LEMMA SetInduction ==
    ASSUME NEW S, 0 \in S, \A k \in Nat : k \in S => k + 1 \in S
    PROVE  Nat \subseteq S
<1> DEFINE T == Nat \ S
<1> SUFFICES ASSUME T /= {} PROVE FALSE
  OBVIOUS
<1>1. PICK x \in T : \A y \in T : x <= y
  BY LeastNumber
<1>2. x \in Nat /\ x /= 0
  BY <1>1
<1>3. x - 1 \in Nat /\ x - 1 \notin T
  BY <1>1, <1>2
<1>4. (x - 1) + 1 = x
  BY <1>2
<1> QED  BY <1>1, <1>3, <1>4

LEMMA MaxIsGreatest ==
    ASSUME NEW m \in Nat, NEW S \in SUBSET (1 .. m), S /= {}
    PROVE  Max(S) \in S /\ \A x \in S : x <= Max(S)
<1> DEFINE D == {m - x : x \in S}
<1>1. D \in SUBSET Nat /\ D /= {}
  <2>1. \A x \in S : m - x \in Nat
    OBVIOUS
  <2>2. PICK x \in S : TRUE
    OBVIOUS
  <2>3. m - x \in D
    OBVIOUS
  <2> QED  BY <2>1, <2>3
<1>2. PICK d \in D : \A y \in D : d <= y
  BY <1>1, LeastNumber
<1>3. PICK x \in S : d = m - x
  BY <1>2
<1>4. \A y \in S : x >= y
  <2>1. \A y \in S : m - x <= m - y
    BY <1>2, <1>3
  <2> QED  BY <2>1
<1>5. \E z \in S : \A y \in S : z >= y
  BY <1>4
<1>6. Max(S) \in S /\ \A y \in S : Max(S) >= y
  BY <1>5 DEF Max
<1> QED  BY <1>6

-----------------------------------------------------------------------------
(* What the folds compute.  Replay and Apply are the two steps of a fold.   *)

Step(how, x, d) == IF how = "replay" THEN Replay(x, d) ELSE Apply(x, d)

\* g is the function that the fold of the first m deltas of d defines.
Folds(g, how, base, d, m) ==
    g = [s \in SUBSET (1 .. m) |->
            IF s = {} THEN base ELSE Step(how, g[s \ {Max(s)}], d[Max(s)])]

LEMMA FoldExists ==
    ASSUME NEW how, NEW base, NEW d, NEW n \in Nat
    PROVE  \E g : Folds(g, how, base, d, n)
<1> DEFINE S == {m \in Nat : \E g : Folds(g, how, base, d, m)}
<1>1. 0 \in S
  <2> DEFINE g == [s \in SUBSET (1 .. 0) |-> base]
  <2>1. Folds(g, how, base, d, 0)
    BY DEF Folds
  <2> QED  BY <2>1
<1>2. ASSUME NEW k \in Nat, k \in S
      PROVE  k + 1 \in S
  <2>1. PICK g : Folds(g, how, base, d, k)
    BY <1>2
  <2> DEFINE h == [s \in SUBSET (1 .. k + 1) |->
                     IF k + 1 \in s THEN Step(how, g[s \ {k + 1}], d[k + 1]) ELSE g[s]]
  <2>2. \A s \in SUBSET (1 .. k) :
           g[s] = IF s = {} THEN base ELSE Step(how, g[s \ {Max(s)}], d[Max(s)])
    BY <2>1 DEF Folds
  <2>3. ASSUME NEW s \in SUBSET (1 .. k) PROVE h[s] = g[s]
    <3>1. s \in SUBSET (1 .. k + 1) /\ k + 1 \notin s
      OBVIOUS
    <3> QED  BY <3>1
  <2>4. ASSUME NEW s \in SUBSET (1 .. k + 1)
        PROVE  h[s] = IF s = {} THEN base ELSE Step(how, h[s \ {Max(s)}], d[Max(s)])
    <3>1. CASE k + 1 \in s
      <4>1. Max(s) = k + 1
        <5>1. s /= {} /\ k + 1 \in Nat
          BY <3>1
        <5>2. Max(s) \in s /\ k + 1 <= Max(s)
          BY <3>1, <5>1, MaxIsGreatest
        <5>3. Max(s) \in 1 .. k + 1
          BY <5>2
        <5> QED  BY <5>2, <5>3
      <4>2. s \ {k + 1} \in SUBSET (1 .. k)
        OBVIOUS
      <4>3. h[s] = Step(how, g[s \ {k + 1}], d[k + 1])
        BY <3>1
      <4>4. h[s \ {k + 1}] = g[s \ {k + 1}]
        BY <4>2, <2>3
      <4>5. s /= {}
        BY <3>1
      <4> HIDE DEF h
      <4> QED  BY <4>1, <4>3, <4>4, <4>5
    <3>2. CASE k + 1 \notin s
      <4>1. s \in SUBSET (1 .. k)
        BY <3>2
      <4>2. s \ {Max(s)} \in SUBSET (1 .. k)
        BY <4>1
      <4> QED  BY <4>1, <4>2, <2>2, <2>3
    <3> QED  BY <3>1, <3>2
  <2>5. Folds(h, how, base, d, k + 1)
    BY <2>4 DEF Folds
  <2> QED  BY <2>5
<1>3. Nat \subseteq S
  <2> HIDE DEF S
  <2> QED  BY <1>1, <1>2, SetInduction
<1> QED  BY <1>3

\* Step by step from the base.
Unfolds(g, how, base, d, n) ==
    /\ g[{}] = base
    /\ \A k \in Nat : k < n => g[1 .. k + 1] = Step(how, g[1 .. k], d[k + 1])

LEMMA FoldStep ==
    ASSUME NEW how, NEW base, NEW d, NEW n \in Nat, NEW g, Folds(g, how, base, d, n)
    PROVE  Unfolds(g, how, base, d, n)
<1>1. g[{}] = base
  BY DEF Folds
<1>2. ASSUME NEW k \in Nat, k < n
      PROVE  g[1 .. k + 1] = Step(how, g[1 .. k], d[k + 1])
  <2>1. (1 .. k + 1) \in SUBSET (1 .. n) /\ k + 1 \in 1 .. k + 1
    BY <1>2
  <2>2. Max(1 .. k + 1) = k + 1
    <3>1. Max(1 .. k + 1) \in 1 .. k + 1 /\ k + 1 <= Max(1 .. k + 1)
      BY <2>1, MaxIsGreatest
    <3> QED  BY <3>1
  <2>3. (1 .. k + 1) \ {k + 1} = 1 .. k
    OBVIOUS
  <2>4. (1 .. k + 1) /= {}
    BY <2>1
  <2> QED  BY <2>1, <2>2, <2>3, <2>4 DEF Folds
<1> QED  BY <1>1, <1>2 DEF Unfolds

\* The fold of the first n deltas depends on those only.
LEMMA FoldsAgree ==
    ASSUME NEW how, NEW base, NEW d, NEW e, NEW n \in Nat, NEW m \in Nat, n <= m,
           NEW g, Folds(g, how, base, d, n), NEW h, Folds(h, how, base, e, m),
           \A i \in 1 .. n : d[i] = e[i]
    PROVE  g[1 .. n] = h[1 .. n]
<1> DEFINE S == {k \in Nat : k <= n => g[1 .. k] = h[1 .. k]}
<1>1. Unfolds(g, how, base, d, n) /\ Unfolds(h, how, base, e, m)
  BY FoldStep
<1>2. 0 \in S
  <2>1. 1 .. 0 = {}
    OBVIOUS
  <2> QED  BY <1>1, <2>1 DEF Unfolds
<1>3. ASSUME NEW k \in Nat, k \in S
      PROVE  k + 1 \in S
  <2> SUFFICES ASSUME k + 1 <= n PROVE g[1 .. k + 1] = h[1 .. k + 1]
    OBVIOUS
  <2>1. k < n /\ k < m /\ k <= n /\ k + 1 \in 1 .. n
    OBVIOUS
  <2>2. g[1 .. k + 1] = Step(how, g[1 .. k], d[k + 1])
    BY <1>1, <2>1 DEF Unfolds
  <2>3. h[1 .. k + 1] = Step(how, h[1 .. k], e[k + 1])
    BY <1>1, <2>1 DEF Unfolds
  <2>4. g[1 .. k] = h[1 .. k] /\ d[k + 1] = e[k + 1]
    BY <1>3, <2>1
  <2> QED  BY <2>2, <2>3, <2>4
<1>4. Nat \subseteq S
  <2> HIDE DEF S
  <2> QED  BY <1>2, <1>3, SetInduction
<1> QED  BY <1>4

\* The folds of the model are such functions.
LEMMA FoldLeftFolds ==
    ASSUME NEW base, NEW d, NEW n \in Nat, DOMAIN d = 1 .. n
    PROVE  /\ \E g : Folds(g, "replay", base, d, n) /\ FoldLeft(Replay, base, d) = g[1 .. n]
           /\ \E g : Folds(g, "apply", base, d, n) /\ FoldLeft(Apply, base, d) = g[1 .. n]
<1> DEFINE R == CHOOSE g : g = [s \in SUBSET (1 .. n) |->
                    IF s = {} THEN base ELSE Replay(g[s \ {Max(s)}], d[Max(s)])]
           A == CHOOSE g : g = [s \in SUBSET (1 .. n) |->
                    IF s = {} THEN base ELSE Apply(g[s \ {Max(s)}], d[Max(s)])]
<1>1. FoldLeft(Replay, base, d) = R[1 .. n]
  BY DEF FoldLeft, MapThenFoldSet
<1>2. FoldLeft(Apply, base, d) = A[1 .. n]
  BY DEF FoldLeft, MapThenFoldSet
<1>3. Folds(R, "replay", base, d, n)
  <2>1. PICK g : Folds(g, "replay", base, d, n)
    BY FoldExists
  <2>2. g = [s \in SUBSET (1 .. n) |->
               IF s = {} THEN base ELSE Replay(g[s \ {Max(s)}], d[Max(s)])]
    BY <2>1 DEF Folds, Step
  <2>3. R = [s \in SUBSET (1 .. n) |->
               IF s = {} THEN base ELSE Replay(R[s \ {Max(s)}], d[Max(s)])]
    BY <2>2
  <2> QED  BY <2>3 DEF Folds, Step
<1>4. Folds(A, "apply", base, d, n)
  <2>1. PICK g : Folds(g, "apply", base, d, n)
    BY FoldExists
  <2>2. g = [s \in SUBSET (1 .. n) |->
               IF s = {} THEN base ELSE Apply(g[s \ {Max(s)}], d[Max(s)])]
    BY <2>1 DEF Folds, Step
  <2>3. A = [s \in SUBSET (1 .. n) |->
               IF s = {} THEN base ELSE Apply(A[s \ {Max(s)}], d[Max(s)])]
    BY <2>2
  <2> QED  BY <2>3 DEF Folds, Step
<1> HIDE DEF R, A
<1> QED  BY <1>1, <1>2, <1>3, <1>4

LEMMA FoldOfNothing ==
    ASSUME NEW base, NEW d, DOMAIN d = 1 .. 0
    PROVE  FoldLeft(Replay, base, d) = base /\ FoldLeft(Apply, base, d) = base
<1>1. PICK g : Folds(g, "replay", base, d, 0) /\ FoldLeft(Replay, base, d) = g[1 .. 0]
  BY FoldLeftFolds
<1>2. PICK h : Folds(h, "apply", base, d, 0) /\ FoldLeft(Apply, base, d) = h[1 .. 0]
  BY FoldLeftFolds
<1>0. 0 \in Nat
  OBVIOUS
<1>3. Unfolds(g, "replay", base, d, 0)
  BY <1>0, <1>1, FoldStep
<1>4. Unfolds(h, "apply", base, d, 0)
  BY <1>0, <1>2, FoldStep
<1>5. 1 .. 0 = {}
  OBVIOUS
<1> QED  BY <1>1, <1>2, <1>3, <1>4, <1>5 DEF Unfolds

\* e is d and one delta more.
OneMore(d, e, n, last) ==
    /\ n \in Nat /\ DOMAIN d = 1 .. n /\ DOMAIN e = 1 .. n + 1
    /\ \A i \in 1 .. n : d[i] = e[i]
    /\ last = e[n + 1]

OneStepMore(base, d, e, last) ==
    /\ FoldLeft(Replay, base, e) = Replay(FoldLeft(Replay, base, d), last)
    /\ FoldLeft(Apply, base, e) = Apply(FoldLeft(Apply, base, d), last)

\* A longer fold is one step more.
LEMMA FoldOfOneMore ==
    ASSUME NEW base, NEW n, NEW d, NEW e, NEW last, OneMore(d, e, n, last)
    PROVE  OneStepMore(base, d, e, last)
<1> USE DEF OneMore
<1>1. PICK g : Folds(g, "replay", base, d, n) /\ FoldLeft(Replay, base, d) = g[1 .. n]
  BY FoldLeftFolds
<1>2. PICK h : Folds(h, "replay", base, e, n + 1) /\ FoldLeft(Replay, base, e) = h[1 .. n + 1]
  BY FoldLeftFolds
<1>3. g[1 .. n] = h[1 .. n]
  BY <1>1, <1>2, FoldsAgree
<1>4. h[1 .. n + 1] = Replay(h[1 .. n], e[n + 1])
  <2>1. Unfolds(h, "replay", base, e, n + 1)
    BY <1>2, FoldStep
  <2> QED  BY <2>1 DEF Unfolds, Step
<1>5. PICK i : Folds(i, "apply", base, d, n) /\ FoldLeft(Apply, base, d) = i[1 .. n]
  BY FoldLeftFolds
<1>6. PICK j : Folds(j, "apply", base, e, n + 1) /\ FoldLeft(Apply, base, e) = j[1 .. n + 1]
  BY FoldLeftFolds
<1>7. i[1 .. n] = j[1 .. n]
  BY <1>5, <1>6, FoldsAgree
<1>8. j[1 .. n + 1] = Apply(j[1 .. n], e[n + 1])
  <2>1. Unfolds(j, "apply", base, e, n + 1)
    BY <1>6, FoldStep
  <2> QED  BY <2>1 DEF Unfolds, Step
<1> QED  BY <1>1, <1>2, <1>3, <1>4, <1>5, <1>6, <1>7, <1>8 DEF OneStepMore

-----------------------------------------------------------------------------
(* Records.                                                                *)

LEMMA RecordFields ==
    ASSUME NEW p \in Records
    PROVE  /\ p.rr \in RRs /\ p.ttl \in Ttls
           /\ p = [rr |-> p.rr, ttl |-> p.ttl]
           /\ \A t : [p EXCEPT !.ttl = t] = [rr |-> p.rr, ttl |-> t]
BY DEF Records

\* With is local to its RRset and leaves records of the zone.
LEMMA WithKeeps ==
    ASSUME NEW m, NEW S, Good(m, S), NEW p \in Records
    PROVE  /\ Good(m, With(S, p))
           /\ \A q : q.rr \in RRs /\ SetOf[q.rr] # SetOf[p.rr] => (q \in With(S, p) <=> q \in S)
<1> DEFINE W == Without(S, p.rr) \cup {p}
           F(q) == IF SetOf[q.rr] = SetOf[p.rr] THEN [q EXCEPT !.ttl = p.ttl] ELSE q
<1>0. S \in SUBSET Records /\ OnceEach(S) /\ (~m => OneTtl(S))
  BY DEF Good
<1>1. W \in SUBSET Records /\ \A q \in W : q = p \/ (q \in S /\ q.rr # p.rr)
  BY <1>0 DEF Without
<1>2. With(S, p) = {F(q) : q \in W}
  BY DEF With, SetRRsetTtl
<1>3. \A q \in W : F(q) \in Records /\ F(q).rr = q.rr /\ (F(q) = q \/ F(q).ttl = p.ttl)
                   /\ (SetOf[q.rr] = SetOf[p.rr] => F(q).ttl = p.ttl)
                   /\ (SetOf[q.rr] # SetOf[p.rr] => F(q) = q)
  <2> SUFFICES ASSUME NEW q \in W
               PROVE  /\ F(q) \in Records /\ F(q).rr = q.rr /\ (F(q) = q \/ F(q).ttl = p.ttl)
                      /\ (SetOf[q.rr] = SetOf[p.rr] => F(q).ttl = p.ttl)
                      /\ (SetOf[q.rr] # SetOf[p.rr] => F(q) = q)
    OBVIOUS
  <2>0. q \in Records
    BY <1>1
  <2>1. CASE SetOf[q.rr] = SetOf[p.rr]
    <3>1. F(q) = [rr |-> q.rr, ttl |-> p.ttl]
      BY <2>0, <2>1, RecordFields
    <3>2. q.rr \in RRs /\ p.ttl \in Ttls
      BY <2>0, RecordFields
    <3> QED  BY <2>1, <3>1, <3>2 DEF Records
  <2>2. CASE SetOf[q.rr] # SetOf[p.rr]
    BY <2>0, <2>2
  <2> QED  BY <2>1, <2>2
<1>4. \A q, t \in W : q.rr = t.rr => q = t
  BY <1>0, <1>1 DEF OnceEach
<1>5. p \in W
  OBVIOUS
<1>6. ASSUME NEW q, q.rr \in RRs, SetOf[q.rr] # SetOf[p.rr] PROVE q \in W <=> q \in S
  BY <1>6 DEF Without
<1> HIDE DEF W, F
<1>7. With(S, p) \in SUBSET Records /\ OnceEach(With(S, p))
  BY <1>2, <1>3, <1>4 DEF OnceEach
<1>8. ASSUME ~m PROVE OneTtl(With(S, p))
  <2> SUFFICES ASSUME NEW a \in With(S, p), NEW b \in With(S, p), SetOf[a.rr] = SetOf[b.rr]
               PROVE  a.ttl = b.ttl
    BY DEF OneTtl
  <2>1. PICK q \in W : a = F(q)
    BY <1>2
  <2>2. PICK t \in W : b = F(t)
    BY <1>2
  <2>3. a.rr = q.rr /\ b.rr = t.rr
    BY <1>3, <2>1, <2>2
  <2>4. CASE SetOf[q.rr] = SetOf[p.rr]
    BY <1>3, <2>1, <2>2, <2>3, <2>4
  <2>5. CASE SetOf[q.rr] # SetOf[p.rr]
    <3>1. a = q /\ b = t /\ q # p /\ t # p
      BY <1>3, <2>1, <2>2, <2>3, <2>5
    <3>2. q \in S /\ t \in S
      BY <1>1, <3>1
    <3> QED  BY <1>0, <1>8, <3>1, <3>2 DEF OneTtl
  <2> QED  BY <2>4, <2>5
<1>9. ASSUME NEW q, q.rr \in RRs, SetOf[q.rr] # SetOf[p.rr] PROVE q \in With(S, p) <=> q \in S
  <2>1. ASSUME q \in With(S, p) PROVE q \in S
    <3>1. PICK t \in W : q = F(t)
      BY <1>2, <2>1
    <3>2. q = t
      BY <1>3, <1>9, <3>1
    <3> QED  BY <1>6, <1>9, <3>2
  <2>2. ASSUME q \in S PROVE q \in With(S, p)
    <3>1. q \in W /\ F(q) = q
      BY <1>3, <1>6, <1>9, <2>2
    <3> QED  BY <1>2, <3>1
  <2> QED  BY <2>1, <2>2
<1> QED  BY <1>7, <1>8, <1>9 DEF Good

\* Serials stay serials.
LEMMA SerialsType ==
    ASSUME NEW z \in Rows, NEW proposed, proposed = None \/ proposed \in Serials
    PROVE  NextSerial(z, proposed) \in Serials
<1>1. SerialSpace \in Nat /\ SerialSpace > 0 /\ z.serial \in 0 .. SerialSpace - 1
  BY BoundsAreNat DEF Rows, Serials
<1>2. SerialNext(z.serial) \in Serials
  BY <1>1 DEF SerialNext, Serials
<1>3. z.serial \in Serials
  BY DEF Rows
<1> QED  BY <1>2, <1>3 DEF NextSerial

-----------------------------------------------------------------------------
(* A delta, read by the management plane and by an engine.                 *)

\* The SOA and the digest of a version are apart from its records.
LEMMA SoaDataApart ==
    ASSUME NEW z \in Rows, NEW serial \in Serials, NEW S \in SUBSET Records
    PROVE  /\ \A p \in SoaData(z, serial, S) : IsSoaData(p) /\ RRsetOf(p) \in {"SOA", "ZONEMD"}
           /\ \A p \in S : ~IsSoaData(p) /\ RRsetOf(p) = SetOf[p.rr]
           /\ \A p \in S : RRsetOf(p) \notin {"SOA", "ZONEMD"}
           /\ \A p \in SoaData(z, serial, S) :
                 p.rr.type = "SOA" <=> p = Soa(serial, z.soa)
           /\ Soa(serial, z.soa).rr.serial = serial /\ Soa(serial, z.soa).rr.fields = z.soa
<1>1. z.soa \in SoaFields
  BY DEF Rows
<1>2. /\ Soa(serial, z.soa).rr = [type |-> "SOA", serial |-> serial, fields |-> z.soa]
      /\ Zonemd(z, serial, S).rr
            = [type |-> "ZONEMD", serial |-> serial, fields |-> z.soa, digest |-> S]
  BY DEF Soa, Zonemd, Record
<1>3. Soa(serial, z.soa).rr \notin RRs
  <2>1. Soa(serial, z.soa).rr \in [type : {"SOA"}, serial : Serials, fields : SoaFields]
    BY <1>1, <1>2
  <2> QED  BY <2>1, StoredIsNotSoaData
<1>4. Zonemd(z, serial, S).rr \notin RRs
  <2>1. Zonemd(z, serial, S).rr \in [type : {"ZONEMD"}, serial : Serials, fields : SoaFields,
                                      digest : SUBSET Records]
    BY <1>1, <1>2
  <2> QED  BY <2>1, StoredIsNotSoaData
<1>5. \A p \in SoaData(z, serial, S) : p = Soa(serial, z.soa) \/ p = Zonemd(z, serial, S)
  BY DEF SoaData
<1>6. \A p \in SoaData(z, serial, S) :
         /\ IsSoaData(p) /\ RRsetOf(p) \in {"SOA", "ZONEMD"}
         /\ p.rr.type = "SOA" <=> p = Soa(serial, z.soa)
  BY <1>2, <1>3, <1>4, <1>5 DEF IsSoaData, RRsetOf
<1>7. \A p \in S : /\ ~IsSoaData(p) /\ RRsetOf(p) = SetOf[p.rr]
                    /\ RRsetOf(p) \notin {"SOA", "ZONEMD"}
  BY RecordFields, StoredIsNotSoaData DEF IsSoaData, RRsetOf
<1> QED  BY <1>2, <1>6, <1>7

LEMMA ServedFields ==
    ASSUME NEW p \in ServedRecords
    PROVE  p = Record(p.rr, p.ttl) /\ \A q \in ServedRecords : Record(p.rr, q.ttl) \in ServedRecords
BY DEF ServedRecords, Record

LEMMA RemovedData ==
    ASSUME NEW X, NEW D
    PROVE  Data(Removed(X, D)) = Data(X) \ Data(D)
BY DEF Data, Removed, SameData

LEMMA InsertedData ==
    ASSUME NEW X, NEW D
    PROVE  Data(Inserted(X, D)) = Data(X) \cup Data(D)
<1> DEFINE K == D \cup {q \in X : ~\E a \in D : SameData(q, a)}
<1>1. Inserted(X, D) = {Record(p.rr, TtlAfter(D, p)) : p \in K}
  BY DEF Inserted
<1>2. Data(K) = Data(X) \cup Data(D)
  BY DEF Data, SameData
<1> HIDE DEF K
<1>3. \A p : Record(p.rr, TtlAfter(D, p)).rr = p.rr
  BY DEF Record
<1>4. Data(Inserted(X, D)) = Data(K)
  BY <1>1, <1>3 DEF Data
<1> QED  BY <1>2, <1>4

LEMMA InsertedType ==
    ASSUME NEW X \in SUBSET ServedRecords, NEW D \in SUBSET ServedRecords
    PROVE  Inserted(X, D) \subseteq ServedRecords
<1> SUFFICES ASSUME NEW p \in D \cup X PROVE Record(p.rr, TtlAfter(D, p)) \in ServedRecords
  BY DEF Inserted
<1> DEFINE same == {q \in D : RRsetOf(q) = RRsetOf(p)}
<1>1. CASE same = {}
  <2>1. TtlAfter(D, p) = p.ttl
    BY <1>1 DEF TtlAfter
  <2> QED  BY <2>1, ServedFields
<1>2. CASE same # {}
  <2>1. PICK q : q = CHOOSE t \in same : TRUE
    OBVIOUS
  <2>2. q \in same
    BY <1>2, <2>1
  <2>3. TtlAfter(D, p) = q.ttl
    BY <1>2, <2>1 DEF TtlAfter
  <2> QED  BY <2>2, <2>3, ServedFields
<1> QED  BY <1>1, <1>2

\* Insertion changes no TTL when the records inserted agree with all of their RRset.
LEMMA InsertedExact ==
    ASSUME NEW X \in SUBSET ServedRecords, NEW D \in SUBSET ServedRecords,
           \A p \in X \cup D, q \in D : RRsetOf(p) = RRsetOf(q) => p.ttl = q.ttl,
           \A p \in X, q \in D : p.rr # q.rr
    PROVE  Inserted(X, D) = X \cup D
<1>1. {q \in X : ~\E a \in D : SameData(q, a)} = X
  BY DEF SameData
<1>2. ASSUME NEW p \in D \cup X PROVE Record(p.rr, TtlAfter(D, p)) = p
  <2> DEFINE same == {q \in D : RRsetOf(q) = RRsetOf(p)}
  <2>1. TtlAfter(D, p) = p.ttl
    <3>1. CASE same = {}
      BY <3>1 DEF TtlAfter
    <3>2. CASE same # {}
      <4>1. PICK q : q = CHOOSE t \in same : TRUE
        OBVIOUS
      <4>2. q \in same
        BY <3>2, <4>1
      <4>3. TtlAfter(D, p) = q.ttl
        BY <3>2, <4>1 DEF TtlAfter
      <4> QED  BY <4>2, <4>3
    <3> QED  BY <3>1, <3>2
  <2> QED  BY <2>1, ServedFields
<1>3. Inserted(X, D) = {Record(p.rr, TtlAfter(D, p)) : p \in D \cup X}
  BY <1>1 DEF Inserted
<1> QED  BY <1>2, <1>3

\* A record inserted is there once, whatever was there before.
LEMMA InsertedOnce ==
    ASSUME NEW X, NEW D, NEW s \in D, \A a \in D : a.rr = s.rr => a = s
    PROVE  {p \in Inserted(X, D) : p.rr = s.rr} = {Record(s.rr, TtlAfter(D, s))}
<1> DEFINE K == D \cup {q \in X : ~\E a \in D : SameData(q, a)}
<1>1. Inserted(X, D) = {Record(p.rr, TtlAfter(D, p)) : p \in K}
  BY DEF Inserted
<1>2. s \in K /\ \A p \in K : p.rr = s.rr => p = s
  BY DEF SameData
<1> HIDE DEF K
<1>3. \A p : Record(p.rr, TtlAfter(D, p)).rr = p.rr
  BY DEF Record
<1> QED  BY <1>1, <1>2, <1>3

\* The delta from records S with SOA data A to T with B: replayed or rewritten, S becomes T.
IsDelta(d, S, A, T, B, P, Q) ==
    /\ P = S \cup A /\ Q = T \cup B
    /\ P \cup Q \subseteq ServedRecords
    /\ \A p \in A \cup B : IsSoaData(p) /\ RRsetOf(p) \in {"SOA", "ZONEMD"} /\ p.ttl = 0
    /\ \A p \in S \cup T : /\ ~IsSoaData(p) /\ RRsetOf(p) = SetOf[p.rr]
                         /\ RRsetOf(p) \notin {"SOA", "ZONEMD"}
    /\ d.deleted = (S \ T) \cup A /\ d.added = (T \ S) \cup B

LEMMA DeltaIsRight ==
    ASSUME NEW S, NEW T, OnceEach(S), OnceEach(T),
           NEW A, NEW B, NEW d, NEW P, NEW Q, IsDelta(d, S, A, T, B, P, Q)
    PROVE  /\ Replay(P, d) = Q
           /\ OneTtl(T) => Rewrite(P, d) = Q
           /\ \A X : Data(X) = Data(P) => Data(Rewrite(X, d)) = Data(Q)
<1> USE DEF IsDelta
<1>1. \A p \in S \cup T, q \in A \cup B : p # q /\ p.rr # q.rr
  BY DEF IsSoaData
<1>2. Replay(P, d) = Q
  BY <1>1 DEF Replay
<1>3. Removed(P, d.deleted) = S \cap T
  <2>1. ASSUME NEW p \in S \cap T, NEW q \in (S \ T) \cup A PROVE p.rr # q.rr
    <3>1. CASE q \in A
      BY <1>1, <3>1
    <3>2. CASE q \in S \ T
      BY <3>2 DEF OnceEach
    <3> QED  BY <3>1, <3>2
  <2>2. \A p \in S \cup A : p \notin S \cap T => p \in (S \ T) \cup A
    OBVIOUS
  <2> QED  BY <2>1, <2>2 DEF Removed, SameData
<1>4. \A p \in S \cap T, q \in d.added : p.rr # q.rr
  <2> SUFFICES ASSUME NEW p \in S \cap T, NEW q \in (T \ S) \cup B, p.rr = q.rr PROVE FALSE
    OBVIOUS
  <2>1. CASE q \in B
    BY <1>1, <2>1
  <2>2. CASE q \in T \ S
    BY <2>2 DEF OnceEach
  <2> QED  BY <2>1, <2>2
<1>5. (S \cap T) \cup d.added = Q
  OBVIOUS
<1>6. ASSUME OneTtl(T) PROVE Rewrite(P, d) = Q
  <2>1. S \cap T \in SUBSET ServedRecords /\ d.added \in SUBSET ServedRecords
    OBVIOUS
  <2>2. ASSUME NEW p \in (S \cap T) \cup d.added, NEW q \in d.added, RRsetOf(p) = RRsetOf(q)
        PROVE  p.ttl = q.ttl
    <3>1. CASE p \in B \/ q \in B
      BY <2>2, <3>1
    <3>2. CASE p \in T /\ q \in T
      BY <1>6, <2>2, <3>2 DEF OneTtl
    <3> QED  BY <3>1, <3>2
  <2>3. Inserted(S \cap T, d.added) = (S \cap T) \cup d.added
    BY <1>4, <2>1, <2>2, InsertedExact
  <2> QED  BY <1>3, <1>5, <2>3 DEF Rewrite
<1>7. ASSUME NEW X, Data(X) = Data(P) PROVE Data(Rewrite(X, d)) = Data(Q)
  <2>1. Data(Rewrite(X, d)) = (Data(X) \ Data(d.deleted)) \cup Data(d.added)
    BY RemovedData, InsertedData DEF Rewrite
  <2>2. Data(P) \ Data(d.deleted) = Data(S \cap T)
    BY <1>3, RemovedData
  <2>3. Data(S \cap T) \cup Data(d.added) = Data(Q)
    BY <1>5 DEF Data
  <2> QED  BY <1>7, <2>1, <2>2, <2>3
<1> QED  BY <1>2, <1>6, <1>7

-----------------------------------------------------------------------------
(* A new version.                                                          *)

\* What a version serves of records S under row z.
Whole(z, serial, S) == S \cup SoaData(z, serial, S)

\* The delta from what the zone serves to records S under row z.
DeltaTo(z, serial, S) ==
    [from |-> zone.serial, to |-> serial,
     deleted |-> (stored \ S) \cup SoaData(zone, zone.serial, stored),
     added |-> (S \ stored) \cup SoaData(z, serial, S)]

LEMMA WholeType ==
    ASSUME NEW z \in Rows, NEW serial \in Serials, NEW S \in SUBSET Records
    PROVE  SoaData(z, serial, S) \subseteq ServedRecords /\ Whole(z, serial, S) \subseteq ServedRecords
<1>1. z.soa \in SoaFields
  BY DEF Rows
<1>2. /\ [type |-> "SOA", serial |-> serial, fields |-> z.soa]
           \in [type : {"SOA"}, serial : Serials, fields : SoaFields]
      /\ [type |-> "ZONEMD", serial |-> serial, fields |-> z.soa, digest |-> S]
           \in [type : {"ZONEMD"}, serial : Serials, fields : SoaFields, digest : SUBSET Records]
  BY <1>1
<1>3. Soa(serial, z.soa) \in ServedRecords /\ Zonemd(z, serial, S) \in ServedRecords
  BY <1>2 DEF Soa, Zonemd, Record, ServedRecords
<1>4. Records \subseteq ServedRecords
  BY DEF Records, ServedRecords
<1> QED  BY <1>3, <1>4 DEF SoaData, Whole

LEMMA DeltaType ==
    ASSUME zone \in Rows, zone.serial \in Serials, stored \in SUBSET Records,
           NEW z \in Rows, NEW serial \in Serials, NEW S \in SUBSET Records
    PROVE  DeltaTo(z, serial, S) \in Deltas
<1>1. Records \subseteq ServedRecords
  BY DEF Records, ServedRecords
<1>2. SoaData(zone, zone.serial, stored) \subseteq ServedRecords
  BY WholeType
<1>3. SoaData(z, serial, S) \subseteq ServedRecords
  BY WholeType
<1> QED  BY <1>1, <1>2, <1>3 DEF DeltaTo, Deltas

\* The same delta takes an engine that has the old version to the new one.
LEMMA EngineFollows ==
    ASSUME NEW m, NEW n, ~n => ~m, Good(m, stored), zone \in Rows,
           NEW z \in Rows, NEW serial \in Serials, NEW S, Good(n, S)
    PROVE  /\ Replay(Whole(zone, zone.serial, stored), DeltaTo(z, serial, S)) = Whole(z, serial, S)
           /\ \A x : Follows(m, x, [serial |-> zone.serial, recs |-> Whole(zone, zone.serial, stored)])
                => Follows(n, Apply(x, DeltaTo(z, serial, S)),
                           [serial |-> serial, recs |-> Whole(z, serial, S)])
<1> DEFINE A == SoaData(zone, zone.serial, stored)
           B == SoaData(z, serial, S)
           d == DeltaTo(z, serial, S)
           P == Whole(zone, zone.serial, stored)
           Q == Whole(z, serial, S)
           soa == Soa(serial, z.soa)
<1>1. /\ zone.serial \in Serials /\ stored \in SUBSET Records /\ S \in SUBSET Records
      /\ OnceEach(stored) /\ OnceEach(S) /\ (~n => OneTtl(S))
  BY DEF Rows, Good
<1>2. \A p \in A \cup B : IsSoaData(p) /\ RRsetOf(p) \in {"SOA", "ZONEMD"}
  BY <1>1, SoaDataApart
<1>12. \A p \in A \cup B : p.ttl = 0
  BY DEF SoaData, Soa, Zonemd, Record
<1>3. \A p \in stored \cup S : /\ ~IsSoaData(p) /\ RRsetOf(p) = SetOf[p.rr]
                               /\ RRsetOf(p) \notin {"SOA", "ZONEMD"}
  BY <1>1, SoaDataApart
<1>4. \A p \in B : p.rr.type = "SOA" <=> p = soa
  BY <1>1, SoaDataApart
<1>5. soa \in B /\ soa.rr.serial = serial
  BY <1>1, SoaDataApart DEF SoaData
<1>6. /\ d.deleted = (stored \ S) \cup A /\ d.added = (S \ stored) \cup B
      /\ d.from = zone.serial /\ d.to = serial
  BY DEF DeltaTo
<1>0. P = stored \cup A /\ Q = S \cup B
  BY DEF Whole
<1>13. P \subseteq ServedRecords /\ Q \subseteq ServedRecords
  BY <1>1, WholeType
<1> HIDE DEF A, B, d, P, Q, soa
<1>7. /\ Replay(P, d) = Q
      /\ ~n => Rewrite(P, d) = Q
      /\ \A X : Data(X) = Data(P) => Data(Rewrite(X, d)) = Data(Q)
  <2>1. IsDelta(d, stored, A, S, B, P, Q)
    BY <1>0, <1>2, <1>3, <1>6, <1>12, <1>13 DEF IsDelta
  <2> QED  BY <1>1, <2>1, DeltaIsRight
<1>8. ASSUME NEW x, Follows(m, x, [serial |-> zone.serial, recs |-> P])
      PROVE  Follows(n, Apply(x, d), [serial |-> serial, recs |-> Q])
  <2> DEFINE recs == Rewrite(x.recs, d)
             soas == {p \in SoaDataOf(recs) : p.rr.type = "SOA"}
             X == Removed(x.recs, d.deleted)
             one == Record(soa.rr, TtlAfter(d.added, soa))
  <2>1. /\ x.serial = zone.serial /\ x.recs \subseteq ServedRecords
        /\ Data(x.recs) = Data(P) /\ (~n => x.recs = P)
    BY <1>8 DEF Follows
  <2>2. Data(recs) = Data(Q) /\ (~n => recs = Q)
    BY <1>7, <2>1
  <2>3. recs \subseteq ServedRecords
    <3>1. X \in SUBSET ServedRecords /\ d.added \in SUBSET ServedRecords
      BY <1>0, <1>6, <1>13, <2>1 DEF Removed
    <3> HIDE DEF X
    <3>2. Inserted(X, d.added) \subseteq ServedRecords
      BY <3>1, InsertedType
    <3> QED  BY <3>2 DEF Rewrite, X
  <2>4. soas = {p \in recs : p.rr = soa.rr}
    <3>1. ASSUME NEW p \in recs, IsSoaData(p), p.rr.type = "SOA" PROVE p.rr = soa.rr
      <4>1. PICK q \in Q : q.rr = p.rr
        BY <2>2 DEF Data
      <4>2. q \in B
        BY <1>0, <1>3, <3>1, <4>1 DEF IsSoaData
      <4> QED  BY <1>4, <3>1, <4>1, <4>2
    <3>2. ASSUME NEW p \in recs, p.rr = soa.rr PROVE IsSoaData(p) /\ p.rr.type = "SOA"
      BY <1>2, <1>4, <1>5, <3>2 DEF IsSoaData
    <3> HIDE DEF recs
    <3> QED  BY <3>1, <3>2 DEF SoaDataOf
  <2>5. soas = {one}
    <3>1. soa \in d.added
      BY <1>5, <1>6
    <3>2. ASSUME NEW a \in d.added, a.rr = soa.rr PROVE a = soa
      <4>1. a \in B
        BY <1>2, <1>3, <1>5, <1>6, <3>2 DEF IsSoaData
      <4> QED  BY <1>4, <1>5, <3>2, <4>1
    <3> HIDE DEF X
    <3>3. {p \in Inserted(X, d.added) : p.rr = soa.rr} = {one}
      BY <3>1, <3>2, InsertedOnce
    <3>4. recs = Inserted(X, d.added)
      BY DEF Rewrite, X
    <3> HIDE DEF recs, soas, one
    <3> QED  BY <2>4, <3>3, <3>4
  <2>6. one.rr.serial = serial /\ Cardinality({one}) = 1
    BY <1>5, FS_Singleton DEF Record
  <2>7. \A q \in d.deleted : \E p \in x.recs : SameData(p, q)
    <3> SUFFICES ASSUME NEW q \in d.deleted PROVE \E p \in x.recs : p.rr = q.rr
      BY DEF SameData
    <3>1. q.rr \in Data(P)
      BY <1>0, <1>6 DEF Data
    <3> QED  BY <2>1, <3>1 DEF Data
  <2> HIDE DEF one
  <2>8. Apply(x, d) = [serial |-> serial, recs |-> recs]
    BY <1>6, <2>1, <2>5, <2>6, <2>7 DEF Apply
  <2> HIDE DEF recs
  <2> QED  BY <2>2, <2>3, <2>8 DEF Follows
<1> QED  BY <1>7, <1>8 DEF d, P, Q

\* An engine that reads an image has the version of the image.
LEMMA ImageFollows ==
    ASSUME NEW n, NEW z \in Rows, NEW serial \in Serials, NEW S, Good(n, S)
    PROVE  Follows(n, [serial |-> serial, recs |-> Inserted({}, Whole(z, serial, S))],
                   [serial |-> serial, recs |-> Whole(z, serial, S)])
<1> DEFINE B == SoaData(z, serial, S)
           Q == Whole(z, serial, S)
<1>1. S \in SUBSET Records /\ (~n => OneTtl(S))
  BY DEF Good
<1>2. \A p \in B : RRsetOf(p) \in {"SOA", "ZONEMD"}
  BY <1>1, SoaDataApart
<1>3. \A p \in S : RRsetOf(p) = SetOf[p.rr] /\ RRsetOf(p) \notin {"SOA", "ZONEMD"}
  BY <1>1, SoaDataApart
<1>4. \A p \in B : p.ttl = 0
  BY DEF SoaData, Soa, Zonemd, Record
<1>5. Q = S \cup B /\ Q \in SUBSET ServedRecords
  BY <1>1, WholeType DEF Whole
<1> HIDE DEF B, Q
<1>6. PICK E \in SUBSET ServedRecords : E = {}
  OBVIOUS
<1>7. Inserted(E, Q) \subseteq ServedRecords
  BY <1>5, InsertedType
<1>8. Data(Inserted(E, Q)) = Data(Q)
  <2>1. Data(E) = {}
    BY <1>6 DEF Data
  <2>2. Data(Inserted(E, Q)) = Data(E) \cup Data(Q)
    BY InsertedData
  <2>3. {} \cup Data(Q) = Data(Q)
    OBVIOUS
  <2> QED  BY <2>1, <2>2, <2>3
<1>9. ASSUME ~n PROVE Inserted(E, Q) = Q
  <2>1. ASSUME NEW p \in Q, NEW q \in Q, RRsetOf(p) = RRsetOf(q) PROVE p.ttl = q.ttl
    <3>1. CASE p \in B \/ q \in B
      BY <1>2, <1>3, <1>4, <1>5, <2>1, <3>1
    <3>2. CASE p \in S /\ q \in S
      BY <1>1, <1>3, <1>9, <2>1, <3>2 DEF OneTtl
    <3> QED  BY <1>5, <3>1, <3>2
  <2>2. E \cup Q = Q
    BY <1>6
  <2>3. \A p \in E, q \in Q : p.rr # q.rr
    BY <1>6
  <2> QED  BY <1>5, <2>1, <2>2, <2>3, InsertedExact
<1> QED  BY <1>6, <1>7, <1>8, <1>9 DEF Follows, Q

\* A version with an image of its own is read without deltas.
LEMMA ImageIsRead ==
    ASSUME zone'.imageSeq = zone'.seq, zone'.seq \in Nat
    PROVE  /\ LoadServed' = image'.recs
           /\ FromStart' = [serial |-> image'.serial, recs |-> Inserted({}, image'.recs)]
<1> DEFINE e == [i \in 1 .. zone'.seq - zone'.imageSeq |-> journal'[zone'.imageSeq + i]]
<1>1. DOMAIN e = 1 .. 0
  <2>1. zone'.seq - zone'.imageSeq = 0
    OBVIOUS
  <2> QED  BY <2>1
<1> HIDE DEF e
<1>2. FoldLeft(Replay, image'.recs, e) = image'.recs
  BY <1>1, FoldOfNothing
<1> DEFINE b == [serial |-> image'.serial, recs |-> Inserted({}, image'.recs)]
<1>3. FromStart' = FoldLeft(Apply, b, e)
  BY DEF FromStart, ApplyDeltas, DeltasAfter, e
<1>5. LoadServed' = FoldLeft(Replay, image'.recs, e)
  BY DEF LoadServed, DeltasAfter, e
<1> HIDE DEF b
<1>4. FoldLeft(Apply, b, e) = b
  BY <1>1, FoldOfNothing
<1> QED  BY <1>2, <1>3, <1>4, <1>5 DEF b

\* A version without an image is one delta more.
LEMMA DeltaIsRead ==
    ASSUME ZoneInv, zone # None, zone'.seq = zone.seq + 1, zone'.imageSeq = zone.imageSeq,
           image' = image,
           \A s \in zone.imageSeq + 1 .. zone.seq : journal'[s] = journal[s]
    PROVE  /\ LoadServed' = Replay(LoadServed, journal'[zone.seq + 1])
           /\ FromStart' = Apply(FromStart, journal'[zone.seq + 1])
<1> DEFINE n == zone.seq - zone.imageSeq
           d == [i \in 1 .. n |-> journal[zone.imageSeq + i]]
           e == [i \in 1 .. zone'.seq - zone'.imageSeq |-> journal'[zone'.imageSeq + i]]
<1>1. zone.seq \in Nat /\ zone.imageSeq \in Nat /\ zone.imageSeq <= zone.seq
  BY DEF ZoneInv, Rows
<1>2. n \in Nat /\ zone'.seq - zone'.imageSeq = n + 1 /\ zone.imageSeq + (n + 1) = zone.seq + 1
  BY <1>1
<1>3. DOMAIN d = 1 .. n /\ DOMAIN e = 1 .. n + 1
  BY <1>2
<1>4. \A i \in 1 .. n : d[i] = e[i]
  <2> SUFFICES ASSUME NEW i \in 1 .. n PROVE d[i] = e[i]
    OBVIOUS
  <2>1. zone.imageSeq + i \in zone.imageSeq + 1 .. zone.seq
    BY <1>1
  <2>2. i \in 1 .. zone'.seq - zone'.imageSeq
    BY <1>1, <1>2
  <2> QED  BY <2>1, <2>2
<1>5. e[n + 1] = journal'[zone.seq + 1]
  <2>1. n + 1 \in 1 .. zone'.seq - zone'.imageSeq
    BY <1>1, <1>2
  <2> QED  BY <1>2, <2>1
<1> DEFINE b == [serial |-> image.serial, recs |-> Inserted({}, image.recs)]
<1>6. /\ LoadServed = FoldLeft(Replay, image.recs, d)
      /\ LoadServed' = FoldLeft(Replay, image.recs, e)
  BY DEF LoadServed, DeltasAfter
<1>7. FromStart = FoldLeft(Apply, b, d) /\ FromStart' = FoldLeft(Apply, b, e)
  BY DEF FromStart, ApplyDeltas, DeltasAfter
<1>0. OneMore(d, e, n, journal'[zone.seq + 1])
  BY <1>2, <1>3, <1>4, <1>5 DEF OneMore
<1> HIDE DEF n, d, e, b
<1>8. OneStepMore(image.recs, d, e, journal'[zone.seq + 1])
  BY <1>0, FoldOfOneMore
<1>9. OneStepMore(b, d, e, journal'[zone.seq + 1])
  BY <1>0, FoldOfOneMore
<1> QED  BY <1>6, <1>7, <1>8, <1>9 DEF OneStepMore

IsRow(y, z, serial, q, m) == y = [z EXCEPT !.serial = serial, !.seq = q, !.imageSeq = m]

LEMMA RowOfVersion ==
    ASSUME NEW z \in Rows, NEW serial \in Serials, NEW q \in Nat, NEW m \in Nat, NEW y,
           IsRow(y, z, serial, q, m)
    PROVE  /\ y \in Rows /\ y.seq = q /\ y.imageSeq = m /\ y.serial = serial
           /\ y.soa = z.soa /\ y.zonemd = z.zonemd
BY DEF Rows, IsRow

\* What WriteVersion writes, with an image or without.
Written(due, z, serial, deleted, added, S, q) ==
    LET m == IF due THEN q ELSE z.imageSeq
        delta == [from |-> z.serial, to |-> serial, deleted |-> deleted, added |-> added]
        rows == IF z.seq = 0 THEN {} ELSE Kept(q, m)
    IN  /\ IsRow(zone', z, serial, q, m)
        /\ journal' = [s \in rows |-> IF s = q THEN delta ELSE journal[s]]
        /\ image' = IF due THEN [serial |-> serial, recs |-> Whole(z, serial, S)] ELSE image

LEMMA VersionIsWritten ==
    ASSUME NEW z, NEW serial, NEW deleted, NEW added, NEW S, NEW q, q = z.seq + 1,
           WriteVersion(z, serial, deleted, added, S)
    PROVE  \E due \in NeedImage(z, q) : Written(due, z, serial, deleted, added, S, q)
<1>1. PICK due \in NeedImage(z, z.seq + 1) :
        Written(due, z, serial, deleted, added, S, z.seq + 1)
  BY Zenon DEF WriteVersion, Written, Whole, IsRow
<1> QED  BY <1>1

\* The first version of a zone has an image and no delta.
LEMMA FirstVersion ==
    ASSUME NEW z \in Rows, z.seq = 0, z.imageSeq = 0, NEW serial \in Serials,
           NEW deleted, NEW added, NEW S, Good(mixed', S),
           WriteVersion(z, serial, deleted, added, S), stored' = S
    PROVE  ZoneInv'
<1>1. NeedImage(z, 1) = {TRUE}
  BY DEF NeedImage
<1>2. /\ IsRow(zone', z, serial, 1, 1)
      /\ DOMAIN journal' = {}
      /\ image' = [serial |-> serial, recs |-> Whole(z, serial, S)]
  <2>1. z.seq + 1 = 1
    OBVIOUS
  <2>2. Written(TRUE, z, serial, deleted, added, S, 1)
    BY <1>1, <2>1, VersionIsWritten
  <2> QED  BY <2>2 DEF Written
<1>3. /\ zone' \in Rows /\ zone'.seq = 1 /\ zone'.imageSeq = 1 /\ zone'.serial = serial
      /\ zone'.soa = z.soa /\ zone'.zonemd = z.zonemd
  BY <1>2, RowOfVersion
<1>4. DOMAIN journal' = {} /\ image'.serial = serial /\ image'.recs = S \cup SoaData(z, serial, S)
  BY <1>2 DEF Whole
<1>5. JournalIsChain'
  <2>1. 1 \in 0 .. zone'.imageSeq /\ DOMAIN journal' = 1 + 1 .. zone'.seq
    BY <1>3, <1>4
  <2> QED  BY <1>3, <1>4, <2>1 DEF JournalIsChain
<1>6. SoaData(z, serial, S) = SoaData(zone', serial, S)
  BY <1>3 DEF SoaData, Zonemd, Soa, Record
<1>7. /\ LoadServed' = image'.recs
      /\ FromStart' = [serial |-> image'.serial, recs |-> Inserted({}, image'.recs)]
  BY <1>3, ImageIsRead
<1>8. ServedIsStored'
  BY <1>3, <1>4, <1>6, <1>7 DEF ServedIsStored
<1>9. EngineReplays'
  <2>1. Follows(mixed', [serial |-> serial, recs |-> Inserted({}, Whole(z, serial, S))],
                [serial |-> serial, recs |-> Whole(z, serial, S)])
    BY ImageFollows
  <2> QED  BY <1>2, <1>3, <1>7, <2>1 DEF EngineReplays, Current
<1> QED  BY <1>3, <1>5, <1>8, <1>9 DEF ZoneInv

\* Pruning keeps the newest deltas, and all the ones after the image.
LEMMA PruningKeepsTail ==
    ASSUME NEW q \in Nat, NEW m \in 0 .. q + 1, NEW lo \in 0 .. m, DOMAIN journal = lo + 1 .. q,
           lo <= q
    PROVE  \E l \in 0 .. m : Kept(q + 1, m) = l + 1 .. q + 1
<1>1. JournalKept \in Nat /\ JournalKept > 0
  BY BoundsAreNat
<1> DEFINE cut == q + 1 - JournalKept
           c == IF cut < m THEN cut ELSE m
           l == IF lo < c THEN c ELSE lo
<1>2. cut \in Int /\ c \in Int /\ l \in 0 .. m /\ cut < q + 1
  BY <1>1
<1>3. \A s \in Int : s \in l + 1 .. q + 1 <=>
         (s \in lo + 1 .. q \/ s = q + 1) /\ ~(s <= cut /\ s <= m)
  BY <1>1, <1>2
<1>4. Kept(q + 1, m) \subseteq Int
  BY DEF Kept
<1>5. \A s \in Int : s \in Kept(q + 1, m) <=>
         (s \in lo + 1 .. q \/ s = q + 1) /\ ~(s <= cut /\ s <= m)
  <2>1. Kept(q + 1, m) = {s \in (lo + 1 .. q) \cup {q + 1} : ~(s <= cut /\ s <= m)}
    <3>1. Kept(q + 1, m) = {s \in DOMAIN journal \cup {q + 1} : ~(s <= cut /\ s <= m)}
      BY <1>1 DEF Kept
    <3> HIDE DEF cut
    <3> QED  BY <3>1
  <2> HIDE DEF cut
  <2> QED  BY <2>1
<1>7. l + 1 .. q + 1 \subseteq Int
  OBVIOUS
<1> HIDE DEF cut, c, l
<1>6. Kept(q + 1, m) = l + 1 .. q + 1
  BY <1>3, <1>4, <1>5, <1>7
<1> QED  BY <1>2, <1>6

\* The version stays as it is, or one delta takes it to the next for an engine too.
Stays == UNCHANGED <<zone, image, journal>>
Leads(d) == \A x : Follows(mixed, x, Current) => Follows(mixed', Apply(x, d), Current')
Advances ==
    /\ zone'.seq = zone.seq + 1
    /\ \E d : /\ d \in Deltas /\ d.from = zone.serial /\ d.to = zone'.serial
             /\ Leads(d)
             /\ \A s \in DOMAIN journal' :
                  IF s = zone'.seq THEN journal'[s] = d
                  ELSE s \in DOMAIN journal /\ journal'[s] = journal[s]
Versioned == ZoneInv' /\ (Stays \/ Advances)
Edited == Versioned /\ engine' = engine /\ behind' = TRUE /\ (~mixed' => ~mixed)

\* Every later version, with an image or without.
LEMMA NextVersion ==
    ASSUME ZoneInv, zone # None, NEW z \in Rows,
           z.seq = zone.seq, z.imageSeq = zone.imageSeq, z.serial = zone.serial,
           NEW serial \in Serials, NEW S, Good(mixed', S), stored' = S, ~mixed' => ~mixed,
           WriteVersion(z, serial, (stored \ S) \cup SoaData(zone, zone.serial, stored),
                        (S \ stored) \cup SoaData(z, serial, S), S)
    PROVE  Versioned
<1> DEFINE q == zone.seq
           d == DeltaTo(z, serial, S)
<1>1. /\ zone \in Rows /\ q \in Nat /\ q > 0 /\ zone.imageSeq \in 1 .. q
      /\ JournalIsChain /\ EngineReplays /\ LoadServed = Whole(zone, zone.serial, stored)
      /\ Good(mixed, stored)
  BY DEF ZoneInv, ServedIsStored, Whole, Rows
<1>2. PICK due \in BOOLEAN :
        Written(due, z, serial, (stored \ S) \cup SoaData(zone, zone.serial, stored),
                (S \ stored) \cup SoaData(z, serial, S), S, q + 1)
  <2>1. NeedImage(z, q + 1) \subseteq BOOLEAN
    BY DEF NeedImage
  <2> QED  BY <2>1, VersionIsWritten
<1> DEFINE m == IF due THEN q + 1 ELSE zone.imageSeq
<1>3. /\ IsRow(zone', z, serial, q + 1, m)
      /\ journal' = [s \in Kept(q + 1, m) |-> IF s = q + 1 THEN d ELSE journal[s]]
      /\ image' = IF due THEN [serial |-> serial, recs |-> Whole(z, serial, S)] ELSE image
  <2>1. z.seq # 0
    BY <1>1
  <2> QED  BY <1>2, <2>1 DEF Written, DeltaTo
<1>4. m \in Nat /\ m \in 1 .. q + 1
  BY <1>1
<1>5. /\ zone' \in Rows /\ zone'.seq = q + 1 /\ zone'.imageSeq = m /\ zone'.serial = serial
      /\ zone'.soa = z.soa /\ zone'.zonemd = z.zonemd
  <2>1. q + 1 \in Nat
    BY <1>1
  <2> QED  BY <1>3, <1>4, <2>1, RowOfVersion
<1>6. d.from = zone.serial /\ d.to = serial
  BY DEF DeltaTo
<1> HIDE DEF d, m
<1>7. PICK lo \in 0 .. zone.imageSeq : DOMAIN journal = lo + 1 .. q
  BY <1>1 DEF JournalIsChain
<1>8. PICK l \in 0 .. m : Kept(q + 1, m) = l + 1 .. q + 1
  <2>1. lo \in 0 .. m /\ m \in 0 .. q + 1 /\ lo <= q
    BY <1>1, <1>4, <1>7 DEF m
  <2> QED  BY <1>1, <1>7, <2>1, PruningKeepsTail
<1>9. DOMAIN journal' = l + 1 .. q + 1
  BY <1>3, <1>8
<1>10. \A s \in Kept(q + 1, m) : s = q + 1 \/ s \in DOMAIN journal
  BY DEF Kept
<1>11. \A s \in DOMAIN journal' : journal'[s] = IF s = q + 1 THEN d ELSE journal[s]
  BY <1>3
<1>12. ASSUME NEW s \in DOMAIN journal'
       PROVE  journal'[s].to = IF s = zone'.seq THEN zone'.serial ELSE journal'[s + 1].from
  <2>1. CASE s = q + 1
    BY <1>5, <1>6, <1>11, <2>1
  <2>2. CASE s # q + 1
    <3>1. s \in DOMAIN journal /\ s \in l + 1 .. q
      BY <1>1, <1>8, <1>9, <1>10, <1>12, <2>2
    <3>2. s + 1 \in DOMAIN journal'
      BY <1>1, <1>9, <3>1
    <3>3. journal[s].to = IF s = q THEN zone.serial ELSE journal[s + 1].from
      BY <1>1, <3>1 DEF JournalIsChain
    <3>4. journal'[s + 1].from = IF s = q THEN zone.serial ELSE journal[s + 1].from
      BY <1>1, <1>6, <1>11, <3>1, <3>2
    <3> QED  BY <1>5, <1>11, <2>2, <3>3, <3>4
  <2> QED  BY <2>1, <2>2
<1>15. /\ Replay(LoadServed, d) = Whole(z, serial, S)
       /\ \A x : Follows(mixed, x, Current)
                 => Follows(mixed', Apply(x, d), [serial |-> serial, recs |-> Whole(z, serial, S)])
  BY <1>1, EngineFollows DEF d, Current
<1>16. ASSUME LoadServed' = Whole(z, serial, S) PROVE Advances
  <2>1. \A s \in DOMAIN journal' : IF s = zone'.seq THEN journal'[s] = d
                                  ELSE s \in DOMAIN journal /\ journal'[s] = journal[s]
    BY <1>3, <1>5, <1>10, <1>11
  <2>2. d \in Deltas
    BY <1>1, DeltaType DEF d, Rows, Good
  <2>3. Current' = [serial |-> serial, recs |-> Whole(z, serial, S)]
    BY <1>5, <1>16 DEF Current
  <2>4. Leads(d)
    BY <1>15, <2>3 DEF Leads
  <2> QED  BY <1>5, <1>6, <2>1, <2>2, <2>4 DEF Advances
<1>13. CASE due
  <2>1. m = q + 1 /\ image'.serial = serial /\ image'.recs = Whole(z, serial, S)
    BY <1>3, <1>13 DEF m
  <2>2. /\ LoadServed' = image'.recs
        /\ FromStart' = [serial |-> image'.serial, recs |-> Inserted({}, image'.recs)]
    BY <1>4, <1>5, <2>1, ImageIsRead
  <2>3. image'.serial = IF zone'.imageSeq = zone'.seq THEN zone'.serial
                        ELSE journal'[zone'.imageSeq + 1].from
    BY <1>5, <2>1
  <2>4. EngineReplays'
    <3>1. Follows(mixed', [serial |-> serial, recs |-> Inserted({}, Whole(z, serial, S))],
                  [serial |-> serial, recs |-> Whole(z, serial, S)])
      BY ImageFollows
    <3> QED  BY <1>5, <2>1, <2>2, <3>1 DEF EngineReplays, Current
  <2>5. LoadServed' = Whole(z, serial, S)
    BY <2>1, <2>2
  <2>6. JournalIsChain'
    BY <1>5, <1>8, <1>9, <1>12, <2>3 DEF JournalIsChain
  <2>7. SoaData(z, serial, S) = SoaData(zone', serial, S)
    BY <1>5 DEF SoaData, Zonemd, Soa, Record
  <2>8. ServedIsStored'
    BY <1>5, <2>5, <2>7 DEF ServedIsStored, Whole
  <2> QED  BY <1>4, <1>5, <1>16, <2>4, <2>5, <2>6, <2>8 DEF ZoneInv, Versioned
<1>14. CASE ~due
  <2>1. m = zone.imageSeq /\ image' = image
    BY <1>3, <1>14 DEF m
  <2>2. \A s \in zone.imageSeq + 1 .. zone.seq : s \in DOMAIN journal' /\ journal'[s] = journal[s]
    BY <1>1, <1>8, <1>9, <1>11, <2>1
  <2>3. q + 1 \in DOMAIN journal'
    BY <1>1, <1>4, <1>8, <1>9, <2>1
  <2>4. journal'[q + 1] = d
    BY <1>11, <2>3
  <2>5. /\ LoadServed' = Replay(LoadServed, d)
        /\ FromStart' = Apply(FromStart, d)
    BY <1>5, <2>1, <2>2, <2>4, DeltaIsRead
  <2>7. LoadServed' = Whole(z, serial, S)
    BY <1>15, <2>5
  <2>8. EngineReplays'
    BY <1>1, <1>5, <1>15, <2>5, <2>7 DEF EngineReplays, Current
  <2>9. image'.serial = IF zone'.imageSeq = zone'.seq THEN zone'.serial
                        ELSE journal'[zone'.imageSeq + 1].from
    <3>1. zone.imageSeq # q + 1 /\ zone.imageSeq + 1 \in DOMAIN journal'
      BY <1>1, <1>8, <1>9, <2>1
    <3>2. journal'[zone.imageSeq + 1]
            = IF zone.imageSeq = q THEN d ELSE journal[zone.imageSeq + 1]
      BY <1>1, <1>11, <3>1
    <3> QED  BY <1>1, <1>5, <1>6, <2>1, <3>1, <3>2 DEF JournalIsChain
  <2>10. JournalIsChain'
    BY <1>5, <1>8, <1>9, <1>12, <2>9 DEF JournalIsChain
  <2>11. SoaData(z, serial, S) = SoaData(zone', serial, S)
    BY <1>5 DEF SoaData, Zonemd, Soa, Record
  <2>12. ServedIsStored'
    BY <1>5, <2>7, <2>11 DEF ServedIsStored, Whole
  <2> QED  BY <1>4, <1>5, <1>16, <2>7, <2>8, <2>10, <2>12 DEF ZoneInv, Versioned
<1> QED  BY <1>13, <1>14

\* Nothing of the zone changes.
LEMMA SameVersion ==
    ASSUME ZoneInv, UNCHANGED <<zone, stored, image, journal>>, ~mixed' => ~mixed
    PROVE  ZoneInv'
<1>1. FromStart' = FromStart /\ LoadServed' = LoadServed /\ Current' = Current
  BY DEF FromStart, Current, LoadServed, ApplyDeltas, DeltasAfter
<1>2. Good(mixed, stored)'
  BY DEF ZoneInv, Good
<1>3. EngineReplays => EngineReplays'
  BY <1>1 DEF EngineReplays, Follows
<1>4. JournalIsChain => JournalIsChain'
  BY DEF JournalIsChain
<1>5. ServedIsStored => ServedIsStored'
  BY <1>1 DEF ServedIsStored
<1> QED  BY <1>2, <1>3, <1>4, <1>5 DEF ZoneInv

\* The row as an operation leaves it: what numbers versions is untouched.
RowEdited(z) ==
    z \in Rows /\ z.seq = zone.seq /\ z.imageSeq = zone.imageSeq /\ z.serial = zone.serial

LEMMA SameRow ==
    ASSUME zone \in Rows, NEW z, RowEdited(z), z.soa = zone.soa, z.zonemd = zone.zonemd
    PROVE  z = zone
BY DEF Rows, RowEdited

\* What is served, taken apart.
LEMMA ServedParts ==
    ASSUME ZoneInv, zone # None
    PROVE  /\ DataOf(LoadServed) = stored
           /\ SoaDataOf(LoadServed) = SoaData(zone, zone.serial, stored)
           /\ \A z : SoaFieldsEqual(LoadServed, z) => zone.soa = z.soa
<1> DEFINE A == SoaData(zone, zone.serial, stored)
<1>1. /\ zone \in Rows /\ zone.serial \in Serials /\ stored \in SUBSET Records
      /\ LoadServed = stored \cup A
  BY DEF ZoneInv, Good, ServedIsStored, Rows
<1>2. \A p \in A : IsSoaData(p)
  BY <1>1, SoaDataApart
<1>3. \A p \in stored : ~IsSoaData(p)
  BY <1>1, SoaDataApart
<1>4. \A p \in A : p.rr.type = "SOA" => p.rr.fields = zone.soa
  BY <1>1, SoaDataApart
<1> HIDE DEF A
<1>5. DataOf(LoadServed) = stored /\ SoaDataOf(LoadServed) = A
  BY <1>1, <1>2, <1>3 DEF DataOf, SoaDataOf
<1>6. ASSUME NEW z, SoaFieldsEqual(LoadServed, z) PROVE zone.soa = z.soa
  <2>1. PICK p \in LoadServed : p.rr \notin RRs /\ p.rr.type = "SOA" /\ p.rr.fields = z.soa
    BY <1>6 DEF SoaFieldsEqual
  <2>2. p \in A
    BY <1>1, <1>3, <2>1 DEF IsSoaData
  <2> QED  BY <1>4, <2>1, <2>2
<1> QED  BY <1>5, <1>6 DEF A

\* A version from the difference of the whole zone, or none when nothing changed.
LEMMA RebuildAllKeeps ==
    ASSUME ZoneInv, zone # None, NEW z, RowEdited(z), NEW S, Good(mixed', S), ~mixed' => ~mixed,
           NEW proposed, proposed = None \/ proposed \in Serials,
           NEW force \in BOOLEAN, ~force => z.zonemd = zone.zonemd,
           RebuildAll(z, S, proposed, force), stored' = S
    PROVE  Versioned
<1>1. zone \in Rows /\ zone.seq \in Nat /\ zone.seq > 0
  BY DEF ZoneInv, Rows
<1>2. z \in Rows /\ z.seq # 0
  BY <1>1 DEF RowEdited
<1>3. /\ DataOf(LoadServed) = stored
      /\ SoaDataOf(LoadServed) = SoaData(zone, zone.serial, stored)
      /\ SoaFieldsEqual(LoadServed, z) => zone.soa = z.soa
  BY ServedParts
<1> DEFINE serial == NextSerial(z, proposed)
           changed == DataOf(LoadServed) # S \/ ~SoaFieldsEqual(LoadServed, z)
<1>4. serial \in Serials
  BY <1>2, SerialsType
<1>5. IF ~changed /\ ~force /\ proposed = None THEN KeepVersion(z)
      ELSE WriteVersion(z, serial, (DataOf(LoadServed) \ S) \cup SoaDataOf(LoadServed),
                        (S \ DataOf(LoadServed)) \cup SoaData(z, serial, S), S)
  BY <1>2 DEF RebuildAll
<1>6. CASE ~changed /\ ~force /\ proposed = None
  <2>1. zone.soa = z.soa /\ S = stored
    BY <1>3, <1>6
  <2>2. z = zone
    BY <1>1, <1>6, <2>1, SameRow
  <2> QED  BY <1>5, <1>6, <2>1, <2>2, SameVersion DEF KeepVersion, Versioned, Stays
<1>7. CASE ~(~changed /\ ~force /\ proposed = None)
  <2> HIDE DEF serial
  <2>1. WriteVersion(z, serial, (stored \ S) \cup SoaData(zone, zone.serial, stored),
                     (S \ stored) \cup SoaData(z, serial, S), S)
    BY <1>3, <1>5, <1>7
  <2> QED  BY <1>2, <1>4, <2>1, NextVersion DEF RowEdited
<1> QED  BY <1>6, <1>7

\* A version from the edited RRsets alone: the records of the others are the stored ones.
LEMMA RebuildEditKeeps ==
    ASSUME ZoneInv, zone # None, zone.zonemd = FALSE, NEW S, Good(mixed', S), ~mixed' => ~mixed,
           NEW sets, \A p \in stored \cup S : SetOf[p.rr] \notin sets => (p \in S <=> p \in stored),
           RebuildEdit(zone, S, sets), stored' = S
    PROVE  Versioned
<1> DEFINE before == {p \in stored : SetOf[p.rr] \in sets}
           after == {p \in S : SetOf[p.rr] \in sets}
           serial == NextSerial(zone, None)
<1>1. zone \in Rows /\ serial \in Serials
  BY SerialsType DEF ZoneInv
<1>2. before \ after = stored \ S /\ after \ before = S \ stored
  OBVIOUS
<1>3. /\ SoaData(zone, zone.serial, stored) = {Soa(zone.serial, zone.soa)}
      /\ SoaData(zone, serial, S) = {Soa(serial, zone.soa)}
  BY DEF SoaData
<1>4. IF before = after THEN KeepVersion(zone)
      ELSE WriteVersion(zone, serial, (before \ after) \cup {Soa(zone.serial, zone.soa)},
                        (after \ before) \cup {Soa(serial, zone.soa)}, S)
  BY DEF RebuildEdit
<1>5. CASE before = after
  <2>1. S = stored
    BY <1>2, <1>5
  <2> QED  BY <1>4, <1>5, <2>1, SameVersion DEF KeepVersion, Versioned, Stays
<1>6. CASE before # after
  <2> HIDE DEF serial
  <2>1. WriteVersion(zone, serial, (before \ after) \cup {Soa(zone.serial, zone.soa)},
                     (after \ before) \cup {Soa(serial, zone.soa)}, S)
    BY <1>4, <1>6
  <2> HIDE DEF before, after
  <2>2. WriteVersion(zone, serial, (stored \ S) \cup SoaData(zone, zone.serial, stored),
                     (S \ stored) \cup SoaData(zone, serial, S), S)
    BY <1>2, <1>3, <2>1
  <2> QED  BY <1>1, <2>2, NextVersion
<1> QED  BY <1>5, <1>6

LEMMA MutateEditKeeps ==
    ASSUME ZoneInv, zone # None, NEW S, Good(mixed, S),
           NEW sets, \A p \in stored \cup S : SetOf[p.rr] \notin sets => (p \in S <=> p \in stored),
           MutateEdit(S, sets)
    PROVE  Edited
<1>1. zone \in Rows /\ zone.zonemd \in BOOLEAN /\ RowEdited(zone)
  BY DEF ZoneInv, Rows, RowEdited
<1>2. stored' = S /\ mixed' = mixed
  BY DEF MutateEdit, Published
<1>5. Good(mixed', S) /\ (~mixed' => ~mixed)
  BY <1>2
<1>3. CASE zone.zonemd
  <2>1. Versioned
    <3>1. RebuildAll(zone, S, None, FALSE)
      BY <1>3 DEF MutateEdit
    <3> QED  BY <1>1, <1>2, <1>5, <3>1, RebuildAllKeeps
  <2> QED  BY <1>5, <2>1 DEF MutateEdit, Published, Edited
<1>4. CASE ~zone.zonemd
  <2>1. Versioned
    <3>1. RebuildEdit(zone, S, sets) /\ zone.zonemd = FALSE
      BY <1>1, <1>4 DEF MutateEdit
    <3> QED  BY <1>2, <1>5, <3>1, RebuildEditKeeps
  <2> QED  BY <1>5, <2>1 DEF MutateEdit, Published, Edited
<1> QED  BY <1>3, <1>4

LEMMA MutateKeeps ==
    ASSUME ZoneInv, zone # None, NEW z, RowEdited(z), NEW S, Good(mixed', S), ~mixed' => ~mixed,
           NEW proposed, proposed = None \/ proposed \in Serials,
           NEW force \in BOOLEAN, ~force => z.zonemd = zone.zonemd,
           Mutate(z, S, proposed, force)
    PROVE  Edited
BY RebuildAllKeeps DEF Mutate, Published, Edited

-----------------------------------------------------------------------------
(* What a dynamic update leaves.                                           *)

\* g is the function that the additions define on their subsets of at most k.
Adds(g, base, add, k) ==
    g = [s \in {t \in SUBSET add : Cardinality(t) <= k} |->
           IF s = {} THEN base
           ELSE LET p == CHOOSE p \in s : TRUE IN With(g[s \ {p}], p)]

LEMMA OneLess ==
    ASSUME NEW add, IsFiniteSet(add), NEW s \in SUBSET add, NEW k \in Nat, Cardinality(s) <= k + 1,
           s # {}
    PROVE  LET p == CHOOSE p \in s : TRUE
           IN  /\ p \in s /\ s \ {p} \in {t \in SUBSET add : Cardinality(t) <= k}
<1> DEFINE p == CHOOSE p \in s : TRUE
<1>1. p \in s
  OBVIOUS
<1> HIDE DEF p
<1>2. IsFiniteSet(s)
  BY FS_Subset
<1>3. Cardinality(s) \in Nat /\ Cardinality(s \ {p}) = Cardinality(s) - 1
  BY <1>1, <1>2, FS_RemoveElement, FS_CardinalityType
<1> QED  BY <1>1, <1>3 DEF p

LEMMA AddsExist ==
    ASSUME NEW base, NEW add, IsFiniteSet(add), NEW n \in Nat
    PROVE  \E g : Adds(g, base, add, n)
<1> DEFINE Small(k) == {t \in SUBSET add : Cardinality(t) <= k}
           Pick(s) == CHOOSE p \in s : TRUE
           S == {k \in Nat : \E g : Adds(g, base, add, k)}
<1>0. \A s \in SUBSET add : Cardinality(s) \in Nat /\ (Cardinality(s) = 0 => s = {})
  BY FS_Subset, FS_CardinalityType, FS_EmptySet
<1>1. 0 \in S
  <2> DEFINE g == [s \in Small(0) |-> base]
  <2>1. \A s \in Small(0) : s = {}
    BY <1>0
  <2>2. Adds(g, base, add, 0)
    BY <2>1 DEF Adds
  <2> QED  BY <2>2
<1>2. ASSUME NEW k \in Nat, k \in S
      PROVE  k + 1 \in S
  <2>1. PICK g : Adds(g, base, add, k)
    BY <1>2
  <2> DEFINE h == [s \in Small(k + 1) |->
                     IF s \in Small(k) THEN g[s] ELSE With(g[s \ {Pick(s)}], Pick(s))]
  <2>2. \A s \in Small(k) : g[s] = IF s = {} THEN base ELSE With(g[s \ {Pick(s)}], Pick(s))
    BY <2>1 DEF Adds
  <2>3. \A s \in Small(k) : s \in Small(k + 1)
    BY <1>0
  <2>4. {} \in Small(k)
    BY FS_EmptySet
  <2>5. \A s \in Small(k + 1) : s # {} => s \ {Pick(s)} \in Small(k)
    BY OneLess
  <2> HIDE DEF Small, Pick
  <2>6. \A s \in Small(k) : h[s] = g[s]
    BY <2>3
  <2>7. ASSUME NEW s \in Small(k + 1)
        PROVE  h[s] = IF s = {} THEN base ELSE With(h[s \ {Pick(s)}], Pick(s))
    <3>1. CASE s = {}
      BY <2>2, <2>4, <2>6, <3>1
    <3>2. CASE s # {}
      <4>1. h[s \ {Pick(s)}] = g[s \ {Pick(s)}]
        BY <2>5, <2>6, <3>2
      <4>2. h[s] = With(g[s \ {Pick(s)}], Pick(s))
        BY <2>2, <3>2
      <4> HIDE DEF h
      <4> QED  BY <3>2, <4>1, <4>2
    <3> QED  BY <3>1, <3>2
  <2>8. h = [s \in Small(k + 1) |->
               IF s = {} THEN base ELSE With(h[s \ {Pick(s)}], Pick(s))]
    BY <2>7
  <2>9. Adds(h, base, add, k + 1)
    <3> HIDE DEF h
    <3> QED  BY <2>8 DEF Adds, Small, Pick
  <2> QED  BY <2>9
<1>3. Nat \subseteq S
  <2> HIDE DEF S
  <2> QED  BY <1>1, <1>2, SetInduction
<1> QED  BY <1>3

LEMMA AddsKeep ==
    ASSUME NEW m, NEW base, Good(m, base), NEW add \in SUBSET Records, IsFiniteSet(add),
           NEW n \in Nat, NEW g, Adds(g, base, add, n)
    PROVE  \A s \in SUBSET add : Cardinality(s) <= n => Good(m, g[s])
<1> DEFINE Pick(s) == CHOOSE p \in s : TRUE
           K == {k \in Nat : \A s \in SUBSET add : Cardinality(s) <= k /\ k <= n => Good(m, g[s])}
<1>0. \A s \in SUBSET add : Cardinality(s) \in Nat /\ (Cardinality(s) = 0 => s = {})
  BY FS_Subset, FS_CardinalityType, FS_EmptySet
<1>1. \A s \in SUBSET add : Cardinality(s) <= n =>
         g[s] = IF s = {} THEN base ELSE With(g[s \ {Pick(s)}], Pick(s))
  BY DEF Adds
<1>2. ASSUME NEW s \in SUBSET add, s # {}
      PROVE  /\ Pick(s) \in s /\ s \ {Pick(s)} \in SUBSET add
             /\ \A k \in Nat : Cardinality(s) <= k + 1 => Cardinality(s \ {Pick(s)}) <= k
  BY <1>2, OneLess
<1> HIDE DEF Pick
<1>3. 0 \in K
  <2> SUFFICES ASSUME NEW s \in SUBSET add, Cardinality(s) <= 0 PROVE Good(m, g[s])
    OBVIOUS
  <2>1. s = {} /\ Cardinality(s) <= n
    BY <1>0
  <2> QED  BY <1>1, <2>1
<1>4. ASSUME NEW k \in Nat, k \in K PROVE k + 1 \in K
  <2> SUFFICES ASSUME NEW s \in SUBSET add, Cardinality(s) <= k + 1, k + 1 <= n
               PROVE  Good(m, g[s])
    OBVIOUS
  <2>1. Cardinality(s) <= n /\ k <= n
    BY <1>0
  <2>2. CASE s = {}
    BY <1>1, <2>1, <2>2
  <2>3. CASE s # {}
    <3>1. Good(m, g[s \ {Pick(s)}])
      BY <1>2, <1>4, <2>1, <2>3
    <3>2. Pick(s) \in Records
      BY <1>2, <2>3
    <3>3. Good(m, With(g[s \ {Pick(s)}], Pick(s)))
      BY <3>1, <3>2, WithKeeps
    <3> QED  BY <1>1, <2>1, <2>3, <3>3
  <2> QED  BY <2>2, <2>3
<1>5. Nat \subseteq K
  <2> HIDE DEF K
  <2> QED  BY <1>3, <1>4, SetInduction
<1> QED  BY <1>5

\* Whatever order the additions come in, an update leaves records of the zone.
LEMMA UpdatedIsGood ==
    ASSUME NEW m, Good(m, stored), NEW u \in Updates
    PROVE  Good(m, Updated(u))
<1> DEFINE base == {p \in stored : p.rr \notin u.del}
           n == Cardinality(u.add)
           F == CHOOSE g : g = [s \in SUBSET u.add |->
                   IF s = {} THEN base
                   ELSE LET p == CHOOSE p \in s : TRUE IN With(g[s \ {p}], p)]
<1>1. u.add \in SUBSET Records /\ IsFiniteSet(u.add) /\ n \in Nat
  BY UpdatesAreOfTheZone, FS_CardinalityType
<1>2. Good(m, base)
  BY DEF Good, OneTtl, OnceEach
<1>3. Updated(u) = F[u.add]
  BY DEF Updated, FoldSet, MapThenFoldSet
<1>4. {t \in SUBSET u.add : Cardinality(t) <= n} = SUBSET u.add
  BY <1>1, FS_Subset
<1> HIDE DEF base, n
<1>5. PICK g : Adds(g, base, u.add, n)
  BY <1>1, AddsExist
<1>6. g = [s \in SUBSET u.add |->
             IF s = {} THEN base
             ELSE LET p == CHOOSE p \in s : TRUE IN With(g[s \ {p}], p)]
  BY <1>4, <1>5 DEF Adds
<1>7. F = [s \in SUBSET u.add |->
             IF s = {} THEN base
             ELSE LET p == CHOOSE p \in s : TRUE IN With(F[s \ {p}], p)]
  BY <1>6
<1> HIDE DEF F
<1>8. Adds(F, base, u.add, n)
  BY <1>4, <1>7 DEF Adds
<1>9. Cardinality(u.add) <= n
  BY <1>1 DEF n
<1> QED  BY <1>1, <1>2, <1>3, <1>8, <1>9, AddsKeep

-----------------------------------------------------------------------------
(* The operations.                                                         *)

LEMMA CreateZoneKeeps ==
    ASSUME NEW fields \in SoaFields, NEW zonemd \in BOOLEAN, CreateZone(fields, zonemd)
    PROVE  ZoneInv'
<1> DEFINE z == [serial |-> FirstSerial, seq |-> 0, imageSeq |-> 0, soa |-> fields,
                 zonemd |-> zonemd]
<1>1. z \in Rows /\ z.seq = 0 /\ z.imageSeq = 0
  BY BoundsAreNat DEF Rows
<1>2. RebuildAll(z, {}, None, TRUE) /\ stored' = {}
  BY DEF CreateZone, Published
<1> HIDE DEF z
<1>3. NextSerial(z, None) \in Serials
  BY <1>1, SerialsType
<1>4. \E deleted, added : WriteVersion(z, NextSerial(z, None), deleted, added, {})
  BY <1>2 DEF RebuildAll
<1>5. PICK E : E = {}
  OBVIOUS
<1>6. Good(mixed', E)
  BY <1>5 DEF Good, OneTtl, OnceEach
<1> QED  BY <1>1, <1>2, <1>3, <1>4, <1>5, <1>6, FirstVersion

LEMMA CreatedHasNoDelta ==
    ASSUME NEW fields, NEW zonemd, CreateZone(fields, zonemd)
    PROVE  DOMAIN journal' = {}
<1> DEFINE z == [serial |-> FirstSerial, seq |-> 0, imageSeq |-> 0, soa |-> fields,
                 zonemd |-> zonemd]
<1>1. RebuildAll(z, {}, None, TRUE) /\ z.seq = 0
  BY DEF CreateZone
<1> HIDE DEF z
<1>2. \E deleted, added : WriteVersion(z, NextSerial(z, None), deleted, added, {})
  BY <1>1 DEF RebuildAll
<1> QED  BY <1>1, <1>2 DEF WriteVersion

LEMMA RecordEditsKeep ==
    ASSUME ZoneInv
    PROVE  /\ \A p \in Records : CreateRecord(p) => Edited
           /\ \A old, new \in Records : UpdateRecord(old, new) => Edited
           /\ \A p \in Records : DeleteRecord(p) => Edited
<1>1. Good(mixed, stored) /\ stored \in SUBSET Records
  BY DEF ZoneInv, Good
<1>2. \A p \in Records : p.rr \in RRs
  BY RecordFields
<1>3. ASSUME NEW p \in Records, CreateRecord(p) PROVE Edited
  <2>1. /\ Good(mixed, With(stored, p)) /\ With(stored, p) \in SUBSET Records
        /\ \A q : q.rr \in RRs /\ SetOf[q.rr] # SetOf[p.rr] =>
              (q \in With(stored, p) <=> q \in stored)
    BY <1>1, WithKeeps DEF Good
  <2>2. \A q \in stored \cup With(stored, p) :
           SetOf[q.rr] \notin {SetOf[p.rr]} => (q \in With(stored, p) <=> q \in stored)
    BY <1>1, <1>2, <2>1
  <2> QED  BY <1>3, <2>1, <2>2, MutateEditKeeps DEF CreateRecord
<1>4. ASSUME NEW old \in Records, NEW new \in Records, UpdateRecord(old, new) PROVE Edited
  <2> DEFINE W == Without(stored, old.rr)
  <2>1. Good(mixed, W)
    BY <1>1 DEF Without, Good, OneTtl, OnceEach
  <2>2. \A q : SetOf[q.rr] # SetOf[old.rr] => (q \in W <=> q \in stored)
    BY DEF Without
  <2> HIDE DEF W
  <2>3. /\ Good(mixed, With(W, new)) /\ With(W, new) \in SUBSET Records
        /\ \A q : q.rr \in RRs /\ SetOf[q.rr] # SetOf[new.rr] => (q \in With(W, new) <=> q \in W)
    BY <2>1, WithKeeps DEF Good
  <2>4. \A q \in stored \cup With(W, new) :
           SetOf[q.rr] \notin EditedSets(old, new) => (q \in With(W, new) <=> q \in stored)
    BY <1>1, <1>2, <2>2, <2>3 DEF EditedSets
  <2>5. zone # None /\ MutateEdit(With(W, new), EditedSets(old, new))
    BY <1>4 DEF UpdateRecord, W
  <2> QED  BY <2>3, <2>4, <2>5, MutateEditKeeps
<1>5. ASSUME NEW p \in Records, DeleteRecord(p) PROVE Edited
  <2> DEFINE S == stored \ {p}
  <2>1. Good(mixed, S)
    BY <1>1 DEF Good, OneTtl, OnceEach
  <2>2. \A q \in stored \cup S : SetOf[q.rr] \notin {SetOf[p.rr]} => (q \in S <=> q \in stored)
    OBVIOUS
  <2>3. zone # None /\ MutateEdit(S, {SetOf[p.rr]})
    BY <1>5 DEF DeleteRecord
  <2> HIDE DEF S
  <2> QED  BY <2>1, <2>2, <2>3, MutateEditKeeps
<1> QED  BY <1>3, <1>4, <1>5

LEMMA ImportKeeps ==
    ASSUME ZoneInv, NEW f \in Files, Import(f)
    PROVE  Edited
<1> DEFINE z == [zone EXCEPT !.soa = f.soa]
<1>1. zone # None /\ zone \in Rows /\ Mutate(z, f.recs, f.serial, FALSE)
  BY DEF Import, ZoneInv
<1>2. /\ f.recs \in SUBSET Records /\ OnceEach(f.recs) /\ f.soa \in SoaFields
      /\ f.serial \in Serials
  BY FilesAreZones
<1>4. mixed' = (mixed \/ ~OneTtl(f.recs))
  BY DEF Import
<1>5. Good(mixed', f.recs) /\ (~mixed' => ~mixed)
  BY <1>2, <1>4 DEF Good
<1>3. RowEdited(z) /\ z.zonemd = zone.zonemd
  BY <1>1, <1>2 DEF RowEdited, Rows
<1> HIDE DEF z
<1> QED  BY <1>1, <1>2, <1>3, <1>5, MutateKeeps

LEMMA DynamicUpdateKeeps ==
    ASSUME ZoneInv, NEW u \in Updates, DynamicUpdate(u)
    PROVE  Edited
<1> DEFINE soaChanged == u.soa # None /\ SerialLess(zone.serial, u.soa.serial)
           z == [zone EXCEPT !.soa = u.soa.fields]
<1>1. zone # None /\ zone \in Rows
  BY DEF DynamicUpdate, ZoneInv
<1>2. mixed' = mixed /\ Good(mixed', Updated(u))
  <2>1. Good(mixed, Updated(u))
    BY UpdatedIsGood DEF ZoneInv
  <2> QED  BY <2>1 DEF DynamicUpdate
<1>3. CASE soaChanged
  <2>1. Mutate(z, Updated(u), u.soa.serial, FALSE)
    BY <1>3 DEF DynamicUpdate
  <2>2. u.soa.serial \in Serials /\ u.soa.fields \in SoaFields
    BY <1>3, UpdatesAreOfTheZone
  <2>3. RowEdited(z) /\ z.zonemd = zone.zonemd
    BY <1>1, <2>2 DEF RowEdited, Rows
  <2> HIDE DEF z
  <2> QED  BY <1>1, <1>2, <2>1, <2>2, <2>3, MutateKeeps
<1>4. CASE ~soaChanged
  <2>1. Mutate(zone, Updated(u), None, FALSE)
    BY <1>4 DEF DynamicUpdate
  <2>2. RowEdited(zone)
    BY <1>1 DEF RowEdited
  <2> QED  BY <1>1, <1>2, <2>1, <2>2, MutateKeeps
<1> QED  BY <1>3, <1>4

LEMMA UpdateZoneKeeps ==
    ASSUME ZoneInv, NEW fields \in SoaFields, NEW zonemd \in BOOLEAN, UpdateZone(fields, zonemd)
    PROVE  Edited
<1> DEFINE z == [zone EXCEPT !.soa = fields, !.zonemd = zonemd]
<1>1. zone # None /\ zone \in Rows /\ Mutate(z, stored, None, Forced(zonemd))
  BY DEF UpdateZone, ZoneInv
<1>2. mixed' = mixed /\ Good(mixed', stored)
  BY DEF ZoneInv, UpdateZone
<1>3. RowEdited(z) /\ z.zonemd = zonemd
  BY <1>1 DEF RowEdited, Rows
<1>4. Forced(zonemd) \in BOOLEAN /\ (~Forced(zonemd) => z.zonemd = zone.zonemd)
  BY <1>3 DEF Forced
<1> HIDE DEF z
<1> QED  BY <1>1, <1>2, <1>3, <1>4, MutateKeeps

\* One step per operation.
LEMMA ZoneStep == ZoneInv /\ [Next]_vars => ZoneInv'
<1> SUFFICES ASSUME ZoneInv, [Next]_vars PROVE ZoneInv'
  OBVIOUS
<1>1. ASSUME NEW fields \in SoaFields, NEW zonemd \in BOOLEAN, CreateZone(fields, zonemd)
      PROVE  ZoneInv'
  BY <1>1, CreateZoneKeeps
<1>2. ASSUME NEW p \in Records, CreateRecord(p) PROVE ZoneInv'
  BY <1>2, RecordEditsKeep DEF Edited, Versioned
<1>3. ASSUME NEW old \in Records, NEW new \in Records, UpdateRecord(old, new) PROVE ZoneInv'
  BY <1>3, RecordEditsKeep DEF Edited, Versioned
<1>4. ASSUME NEW p \in Records, DeleteRecord(p) PROVE ZoneInv'
  BY <1>4, RecordEditsKeep DEF Edited, Versioned
<1>5. ASSUME NEW f \in Files, Import(f) PROVE ZoneInv'
  BY <1>5, ImportKeeps DEF Edited, Versioned
<1>6. ASSUME NEW u \in Updates, DynamicUpdate(u) PROVE ZoneInv'
  BY <1>6, DynamicUpdateKeeps DEF Edited, Versioned
<1>7. ASSUME NEW fields \in SoaFields, NEW zonemd \in BOOLEAN, UpdateZone(fields, zonemd)
      PROVE  ZoneInv'
  BY <1>7, UpdateZoneKeeps DEF Edited, Versioned
<1>8. CASE DeleteZone
  BY <1>8 DEF DeleteZone, Published, ZoneInv, Good, OneTtl, OnceEach
<1>9. CASE Load(engine) \/ Load(None)
  BY <1>9, SameVersion DEF Load
<1>10. CASE UNCHANGED vars
  BY <1>10, SameVersion DEF vars
<1> QED  BY <1>1, <1>2, <1>3, <1>4, <1>5, <1>6, <1>7, <1>8, <1>9, <1>10 DEF Next

LEMMA ZoneInit == Init => ZoneInv
BY DEF Init, ZoneInv, Good, OneTtl, OnceEach

\* Whatever edits, imports, dynamic updates, settings and deletions come in whatever order, each
\* record is stored once, with one TTL per RRset unless an import brought several, the journal is an
\* unbroken chain from some version not later than the image, and the management plane and an engine
\* read the same data from the two, with the same TTLs under that condition.
THEOREM ZoneInvariant == Spec => []ZoneInv
BY ZoneInit, ZoneStep, PTL DEF Spec

\* ServedIsStored: whichever of rebuildEdit and Rebuild wrote each version, and wherever images
\* and pruning fell, loadServed returns the stored records with the SOA and the digest of the row.
THEOREM ServedStaysStored == Spec => []ServedIsStored
<1>1. ZoneInv => ServedIsStored
  BY DEF ZoneInv, ServedIsStored
<1> QED  BY <1>1, ZoneInvariant, PTL

-----------------------------------------------------------------------------
(* What a snapshot lists.                                                  *)

\* The numbers of an interval in order are the interval.
LEMMA AscendingInterval ==
    ASSUME NEW a \in Nat, NEW b \in Nat, a <= b
    PROVE  /\ Cardinality(a + 1 .. b) = b - a
           /\ Ascending(a + 1 .. b) = [i \in 1 .. b - a |-> a + i]
<1> DEFINE n == b - a
           I == a + 1 .. b
           Up(s) == \A i, j \in DOMAIN s : i < j => s[i] < s[j]
           w == [i \in 1 .. n |-> a + i]
<1>1. n \in Nat /\ Cardinality(I) = n
  <2>1. Cardinality(I) = IF a + 1 > b THEN 0 ELSE b - (a + 1) + 1
    BY FS_Interval
  <2> QED  BY <2>1
<1>2. w \in [1 .. n -> I] /\ Up(w)
  OBVIOUS
<1>3. ASSUME NEW s \in [1 .. n -> I], Up(s)
      PROVE  s = w
  <2> DEFINE K == {k \in Nat : k + 1 <= n => s[k + 1] >= a + k + 1}
             L == {k \in Nat : k + 1 <= n => s[n - k] <= b - k}
  <2>1. Nat \subseteq K
    <3>1. 0 \in K
      OBVIOUS
    <3>2. ASSUME NEW k \in Nat, k \in K PROVE k + 1 \in K
      <4> SUFFICES ASSUME (k + 1) + 1 <= n PROVE s[(k + 1) + 1] >= a + (k + 1) + 1
        OBVIOUS
      <4>1. /\ k + 1 \in 1 .. n /\ (k + 1) + 1 \in 1 .. n /\ s[k + 1] \in Int
            /\ s[(k + 1) + 1] \in Int
        OBVIOUS
      <4>2. s[k + 1] >= a + k + 1 /\ s[k + 1] < s[(k + 1) + 1]
        BY <1>3, <3>2, <4>1
      <4> QED  BY <4>1, <4>2
    <3> HIDE DEF K
    <3> QED  BY <3>1, <3>2, SetInduction
  <2>2. Nat \subseteq L
    <3>1. 0 \in L
      <4> SUFFICES ASSUME 0 + 1 <= n PROVE s[n - 0] <= b - 0
        OBVIOUS
      <4>1. n \in 1 .. n /\ n - 0 = n
        OBVIOUS
      <4> QED  BY <4>1
    <3>2. ASSUME NEW k \in Nat, k \in L PROVE k + 1 \in L
      <4> SUFFICES ASSUME (k + 1) + 1 <= n PROVE s[n - (k + 1)] <= b - (k + 1)
        OBVIOUS
      <4>1. /\ n - k \in 1 .. n /\ n - (k + 1) \in 1 .. n /\ s[n - k] \in Int
            /\ s[n - (k + 1)] \in Int
        OBVIOUS
      <4>2. s[n - k] <= b - k /\ s[n - (k + 1)] < s[n - k]
        BY <1>3, <3>2, <4>1
      <4> QED  BY <4>1, <4>2
    <3> HIDE DEF L
    <3> QED  BY <3>1, <3>2, SetInduction
  <2>3. ASSUME NEW i \in 1 .. n PROVE s[i] = a + i
    <3>1. i - 1 \in Nat /\ n - i \in Nat /\ i - 1 \in K /\ n - i \in L
      <4>1. i - 1 \in Nat /\ n - i \in Nat
        BY <1>1
      <4> HIDE DEF K, L
      <4> QED  BY <4>1, <2>1, <2>2
    <3>2. (i - 1) + 1 = i /\ n - (n - i) = i /\ b - (n - i) = a + i /\ a + (i - 1) + 1 = a + i
      BY <1>1
    <3>3. s[i] >= a + i /\ s[i] <= a + i /\ s[i] \in Int
      BY <1>1, <3>1, <3>2
    <3> QED  BY <3>3
  <2> QED  BY <2>3
<1>4. Ascending(I) = CHOOSE s \in [1 .. n -> I] : Up(s)
  BY <1>1 DEF Ascending
<1> HIDE DEF w, Up
<1>5. Ascending(I) = w
  BY <1>2, <1>3, <1>4
<1> QED  BY <1>1, <1>5 DEF w

\* The listed deltas are the journal from some version on that the image covers.
Listed(l) ==
    /\ AuthZone.deltas = [i \in 1 .. zone.seq - l |-> journal[l + i]]
    /\ AuthZone.offset = zone.imageSeq - l

LEMMA ListedIsTail ==
    ASSUME ZoneInv, zone # None
    PROVE  \E l \in 0 .. zone.imageSeq : Listed(l) /\ l + 1 .. zone.seq \subseteq DOMAIN journal
<1> DEFINE q == zone.seq
           m == zone.imageSeq
<1>1. q \in Nat /\ m \in Nat /\ m <= q /\ JournalListed \in Nat
  BY BoundsAreNat DEF ZoneInv, Rows
<1>2. PICK lo \in 0 .. m : DOMAIN journal = lo + 1 .. q
  BY DEF ZoneInv, JournalIsChain
<1>3. ListedFrom \in Int /\ ListedFrom <= m
  BY <1>1 DEF ListedFrom
<1> DEFINE l == IF lo < ListedFrom THEN ListedFrom ELSE lo
<1>4. l \in 0 .. m /\ l \in Nat /\ l <= m /\ l <= q
  BY <1>1, <1>3
<1>5. ListedSeqs = l + 1 .. q
  <2>1. \A s \in Int : s \in l + 1 .. q <=> s \in lo + 1 .. q /\ s > ListedFrom /\ s <= q
    BY <1>1, <1>3
  <2>2. ListedSeqs = {s \in lo + 1 .. q : s > ListedFrom /\ s <= q}
    BY <1>2 DEF ListedSeqs
  <2> HIDE DEF l, q
  <2>3. l + 1 .. q \subseteq Int /\ lo + 1 .. q \subseteq Int
    OBVIOUS
  <2> QED  BY <2>1, <2>2, <2>3
<1>6. {s \in ListedSeqs : s <= zone.imageSeq} = l + 1 .. m
  BY <1>1, <1>4, <1>5
<1>7. l + 1 .. q \subseteq DOMAIN journal
  BY <1>1, <1>2, <1>4
<1> HIDE DEF l
<1>8. Ascending(ListedSeqs) = [i \in 1 .. q - l |-> l + i]
  <2> HIDE DEF q, m
  <2> QED  BY <1>1, <1>4, <1>5, AscendingInterval
<1>9. Cardinality(l + 1 .. m) = m - l
  <2> HIDE DEF q, m
  <2> QED  BY <1>1, <1>4, AscendingInterval
<1>10. AuthZone.deltas = [i \in DOMAIN Ascending(ListedSeqs) |-> journal[Ascending(ListedSeqs)[i]]]
  BY DEF AuthZone
<1>11. AuthZone.offset = m - l
  BY <1>6, <1>9 DEF AuthZone
<1>12. AuthZone.deltas = [i \in 1 .. q - l |-> journal[l + i]]
  BY <1>8, <1>10
<1> QED  BY <1>4, <1>7, <1>11, <1>12 DEF Listed

LEMMA SubSeqOfTail ==
    ASSUME NEW s, NEW n \in Nat, NEW k \in 0 .. n
    PROVE  SubSeq(s, k + 1, n) = [i \in 1 .. n - k |-> s[k + i]]
<1> DEFINE S == {s[i] : i \in k + 1 .. n}
           t == SubSeq(s, k + 1, n)
<1>1. k \in Int /\ k + 1 \in Int /\ n \in Int /\ n - k \in Nat /\ n - (k + 1) + 1 = n - k
  OBVIOUS
<1>2. \A i \in k + 1 .. n : s[i] \in S
  OBVIOUS
<1>3. /\ t \in Seq(S)
      /\ Len(t) = IF k + 1 <= n THEN n - (k + 1) + 1 ELSE 0
      /\ \A i \in 1 .. n - (k + 1) + 1 : t[i] = s[(k + 1) + i - 1]
  <2> HIDE DEF S
  <2> QED  BY <1>1, <1>2, SubSeqProperties
<1> HIDE DEF S, t
<1>4. Len(t) = n - k
  BY <1>1, <1>3
<1>5. t = [i \in 1 .. n - k |-> t[i]]
  <2>1. t = [i \in 1 .. Len(t) |-> t[i]]
    BY <1>3
  <2> QED  BY <1>4, <2>1
<1>6. \A i \in 1 .. n - k : t[i] = s[k + i]
  <2> TAKE i \in 1 .. n - k
  <2>1. i \in 1 .. n - (k + 1) + 1 /\ (k + 1) + i - 1 = k + i
    BY <1>1
  <2>2. t[i] = s[(k + 1) + i - 1]
    BY <1>3, <2>1, Zenon
  <2> QED  BY <2>1, <2>2
<1>7. t = [i \in 1 .. n - k |-> s[k + i]]
  BY <1>5, <1>6
<1> QED  BY <1>7 DEF t

\* The deltas after the image that an engine with no zone applies are those loadServed replays.
LEMMA RestIsTail ==
    ASSUME ZoneInv, zone # None, NEW l \in 0 .. zone.imageSeq, Listed(l)
    PROVE  /\ Len(AuthZone.deltas) = zone.seq - l
           /\ Rest(AuthZone, AuthZone.offset + 1) = DeltasAfter(zone.imageSeq)
<1> DEFINE q == zone.seq
           m == zone.imageSeq
           d == AuthZone.deltas
<1>1. q \in Nat /\ m \in Nat /\ m <= q /\ l \in Nat /\ l <= m
  BY DEF ZoneInv, Rows
<1>2. d = [i \in 1 .. q - l |-> journal[l + i]] /\ AuthZone.offset = m - l
  BY DEF Listed
<1> HIDE DEF q, m, d
<1>3. q - l \in Nat /\ m - l \in 0 .. q - l /\ (q - l) - (m - l) = q - m
  BY <1>1
<1>4. Len(d) = q - l
  BY <1>2, <1>3
<1>5. SubSeq(d, (m - l) + 1, q - l) = [i \in 1 .. q - m |-> d[(m - l) + i]]
  BY <1>3, SubSeqOfTail
<1>6. \A i \in 1 .. q - m : d[(m - l) + i] = journal[m + i]
  <2> TAKE i \in 1 .. q - m
  <2>1. (m - l) + i \in 1 .. q - l /\ l + ((m - l) + i) = m + i
    BY <1>1
  <2> QED  BY <1>2, <2>1
<1>7. SubSeq(d, (m - l) + 1, q - l) = [i \in 1 .. q - m |-> journal[m + i]]
  BY <1>5, <1>6
<1> QED  BY <1>2, <1>4, <1>7 DEF Rest, DeltasAfter, q, m, d

LEMMA ListedIsValid ==
    ASSUME ZoneInv, zone # None
    PROVE  Validate(AuthZone)
<1> DEFINE q == zone.seq
           m == zone.imageSeq
           d == AuthZone.deltas
           o == AuthZone.offset
<1>1. PICK l \in 0 .. zone.imageSeq : Listed(l) /\ l + 1 .. q \subseteq DOMAIN journal
  BY ListedIsTail
<1>2. q \in Nat /\ m \in Nat /\ m <= q /\ l \in Nat /\ l <= m
  BY DEF ZoneInv, Rows
<1>3. Len(d) = q - l
  BY <1>1, RestIsTail
<1>4. d = [i \in 1 .. q - l |-> journal[l + i]] /\ o = m - l
  BY <1>1 DEF Listed
<1>5. /\ \A s \in DOMAIN journal : journal[s].to = IF s = q THEN zone.serial ELSE journal[s + 1].from
      /\ image.serial = IF m = q THEN zone.serial ELSE journal[m + 1].from
  BY DEF ZoneInv, JournalIsChain
<1>6. AuthZone.serial = zone.serial /\ AuthZone.imageSerial = image.serial
  BY DEF AuthZone
<1> HIDE DEF q, m, d, o
<1>7. ASSUME NEW i \in 1 .. Len(d) - 1 PROVE d[i].to = d[i + 1].from
  <2>1. /\ i \in 1 .. q - l /\ i + 1 \in 1 .. q - l /\ l + (i + 1) = (l + i) + 1
        /\ l + i \in l + 1 .. q /\ l + i # q
    BY <1>2, <1>3
  <2>2. d[i] = journal[l + i] /\ d[i + 1] = journal[(l + i) + 1]
    BY <1>4, <2>1
  <2>3. l + i \in DOMAIN journal
    BY <1>1, <2>1
  <2>4. journal[l + i].to = journal[(l + i) + 1].from
    BY <1>5, <2>1, <2>3
  <2> QED  BY <2>2, <2>4
<1>8. d # <<>> => Last(d).to = zone.serial
  <2> SUFFICES ASSUME d # <<>> PROVE Last(d).to = zone.serial
    OBVIOUS
  <2>1. q - l # 0
    BY <1>4
  <2>2. q - l \in 1 .. q - l /\ l + (q - l) = q /\ q \in l + 1 .. q
    BY <1>2, <2>1
  <2>3. d[Len(d)] = journal[q] /\ q \in DOMAIN journal
    BY <1>1, <1>3, <1>4, <2>2
  <2> QED  BY <1>5, <2>3 DEF Last
<1>9. o <= Len(d)
  BY <1>2, <1>3, <1>4
<1>10. image.serial = IF o < Len(d) THEN d[o + 1].from ELSE zone.serial
  <2>1. CASE m = q
    BY <1>2, <1>3, <1>4, <1>5, <2>1
  <2>2. CASE m # q
    <3>1. o < Len(d) /\ o + 1 \in 1 .. q - l /\ l + (o + 1) = m + 1
      BY <1>2, <1>3, <1>4, <2>2
    <3> QED  BY <1>4, <1>5, <2>2, <3>1
  <2> QED  BY <2>1, <2>2
<1> QED  BY <1>6, <1>7, <1>8, <1>9, <1>10 DEF Validate, d, o

LEMMA ListedLoads ==
    ASSUME ZoneInv, zone # None
    PROVE  LoadZone(None, AuthZone).serial = zone.serial
<1>1. PICK l \in 0 .. zone.imageSeq : Listed(l)
  BY ListedIsTail
<1>2. Rest(AuthZone, AuthZone.offset + 1) = DeltasAfter(zone.imageSeq)
  BY <1>1, RestIsTail
<1>3. AuthZone.imageSerial = image.serial /\ AuthZone.image = image.recs
  BY DEF AuthZone
<1>4. FromImage(AuthZone).zone = FromStart
  BY <1>2, <1>3 DEF FromImage, FromStart
<1>5. FromImage(AuthZone).zone.serial = zone.serial
  BY <1>4 DEF ZoneInv, EngineReplays, Follows, Current
<1>6. LoadZone(None, AuthZone).serial = FromImage(AuthZone).zone.serial
  BY DEF LoadZone
<1> QED  BY <1>5, <1>6

\* SnapshotLoads: however images, pruning and the listed window meet, what AddAuthZones lists
\* passes the structural checks of load_zone, and an engine that holds nothing gets the zone's
\* version from it: no sequence of edits makes an engine that starts reject a snapshot.
THEOREM SnapshotsLoad == Spec => []SnapshotLoads
<1>1. ZoneInv => SnapshotLoads
  BY ListedIsValid, ListedLoads DEF SnapshotLoads
<1> QED  BY <1>1, ZoneInvariant, PTL


-----------------------------------------------------------------------------
(* An engine that missed versions.                                         *)

\* No serial of the journal is there twice.
FreshJournal ==
    \A s \in DOMAIN journal :
        /\ journal[s].from # zone.serial
        /\ \A t \in DOMAIN journal : journal[s].from = journal[t].from => s = t

JournalTyped == \A s \in DOMAIN journal : journal[s] \in Deltas

Held == [serial |-> engine.serial, recs |-> engine.recs]

\* A delta of the journal that starts at the engine's serial starts at the engine's data.
DeltasReach ==
    \A s \in DOMAIN journal :
        journal[s].from = engine.serial =>
            Follows(mixed, ApplyDeltas(Held, DeltasAfter(s - 1)), Current)

SamePair(d, e) == d.from = e.from /\ d.to = e.to

\* The engine's history names the deltas of the journal by their two serials.
HistoryNames ==
    \A i \in DOMAIN engine.deltas, s \in DOMAIN journal :
        SamePair(engine.deltas[i], journal[s]) => engine.deltas[i] = journal[s]

IsSequence(f) == \E n \in Nat : f = [i \in 1 .. n |-> f[i]]

\* What every step preserves as long as no serial returns that is remembered.
FreshInv ==
    /\ engine # None => IsSequence(engine.deltas) /\ engine.recs \subseteq ServedRecords
    /\ zone # None => FreshJournal /\ JournalTyped
    /\ zone # None /\ engine # None => SameSerialSameData /\ DeltasReach /\ HistoryNames
    /\ EngineServesSnapshot

LEMMA NothingFresh ==
    ASSUME ZoneInv, FreshInv, Stays, engine' = engine, behind' = TRUE \/ behind' = behind,
           ~mixed' => ~mixed
    PROVE  FreshInv'
<1> USE DEF Stays
<1>1. /\ LoadServed' = LoadServed /\ Current' = Current /\ Held' = Held /\ AuthZone' = AuthZone
      /\ \A n : DeltasAfter(n)' = DeltasAfter(n)
  BY DEF Held, Current, LoadServed, DeltasAfter, AuthZone, ListedSeqs, ListedFrom
<1>2. \A x, y : Follows(mixed, x, y) => Follows(mixed, x, y)'
  BY DEF Follows
<1>3. \A x, y : SameRecords(x, y) => SameRecords(x, y)'
  BY DEF SameRecords
<1>4. DeltasReach => DeltasReach'
  BY <1>1, <1>2 DEF DeltasReach, ApplyDeltas
<1>5. (SameSerialSameData => SameSerialSameData') /\ (EngineServesSnapshot => EngineServesSnapshot')
  BY <1>1, <1>3 DEF SameSerialSameData, EngineServesSnapshot
<1>6. (HistoryNames => HistoryNames') /\ (FreshJournal => FreshJournal')
      /\ (JournalTyped => JournalTyped')
  BY DEF HistoryNames, SamePair, FreshJournal, JournalTyped
<1> QED  BY <1>4, <1>5, <1>6 DEF FreshInv, IsSequence

\* The first version of a zone has no delta.
LEMMA CreateFresh ==
    ASSUME FreshInv, zone = None, DOMAIN journal' = {}, engine' = engine, behind' = TRUE,
           ~SerialReturns
    PROVE  FreshInv'
<1>1. engine # None /\ zone' # None => zone'.serial # engine.serial
  BY DEF SerialReturns, NewVersion, EngineSerials
<1> QED  BY <1>1 DEF FreshInv, FreshJournal, JournalTyped, SameSerialSameData, DeltasReach,
                     HistoryNames, IsSequence, EngineServesSnapshot

\* One delta more after the engine's: it follows.
LEMMA AdvanceReaches ==
    ASSUME ZoneInv, ZoneInv', FreshInv, zone # None, zone' # None, engine # None, Advances,
           engine' = engine
    PROVE  DeltasReach'
<1>1. PICK d : /\ d.from = zone.serial /\ d.to = zone'.serial
               /\ Leads(d)
               /\ \A s \in DOMAIN journal' :
                    IF s = zone'.seq THEN journal'[s] = d
                    ELSE s \in DOMAIN journal /\ journal'[s] = journal[s]
  BY DEF Advances
<1> DEFINE q == zone.seq
<1>2. q \in Nat /\ zone'.seq = q + 1
  BY DEF Advances, ZoneInv, Rows
<1>3. PICK lo \in Nat : DOMAIN journal' = lo + 1 .. q + 1
  BY <1>2 DEF ZoneInv, JournalIsChain
<1>4. Held' = Held
  BY DEF Held
<1> SUFFICES ASSUME NEW s \in DOMAIN journal', journal'[s].from = engine.serial
             PROVE  Follows(mixed', ApplyDeltas(Held, DeltasAfter(s - 1)'), Current')
  BY <1>4 DEF DeltasReach, ApplyDeltas
<1> DEFINE n == q - (s - 1)
           a == [i \in 1 .. n |-> journal[(s - 1) + i]]
           e == [i \in 1 .. zone'.seq - (s - 1) |-> journal'[(s - 1) + i]]
<1>5. s \in Nat /\ s \in lo + 1 .. q + 1 /\ n \in Nat /\ zone'.seq - (s - 1) = n + 1
  BY <1>2, <1>3
<1>6. ASSUME NEW i \in 1 .. n PROVE a[i] = e[i]
  <2>1. (s - 1) + i \in lo + 1 .. q + 1 /\ (s - 1) + i # q + 1 /\ i \in 1 .. n + 1
    BY <1>2, <1>5
  <2>2. journal'[(s - 1) + i] = journal[(s - 1) + i]
    BY <1>1, <1>2, <1>3, <2>1
  <2> QED  BY <1>5, <2>1, <2>2
<1>7. e[n + 1] = d
  <2>1. n + 1 \in 1 .. n + 1 /\ (s - 1) + (n + 1) = q + 1 /\ q + 1 \in lo + 1 .. q + 1
    BY <1>2, <1>5
  <2>2. journal'[q + 1] = d
    BY <1>1, <1>2, <1>3, <2>1
  <2> QED  BY <1>5, <2>1, <2>2
<1>8. OneMore(a, e, n, d)
  BY <1>5, <1>6, <1>7 DEF OneMore
<1>9. DeltasAfter(s - 1) = a /\ DeltasAfter(s - 1)' = e
  BY DEF DeltasAfter
<1> HIDE DEF a, e, n
<1>10. FoldLeft(Apply, Held, e) = Apply(FoldLeft(Apply, Held, a), d)
  <2>1. OneStepMore(Held, a, e, d)
    BY <1>8, FoldOfOneMore
  <2> QED  BY <2>1 DEF OneStepMore
<1>11. Follows(mixed, FoldLeft(Apply, Held, a), Current)
  <2>1. CASE s = q + 1
    <3>1. n = 0 /\ DOMAIN a = 1 .. 0
      BY <1>2, <2>1 DEF n, a
    <3>2. FoldLeft(Apply, Held, a) = Held
      BY <3>1, FoldOfNothing
    <3>3. zone.serial = engine.serial
      BY <1>1, <1>2, <2>1
    <3>4. SameRecords(engine.recs, LoadServed) /\ engine.recs \subseteq ServedRecords
      BY <3>3 DEF FreshInv, SameSerialSameData
    <3> QED  BY <3>2, <3>3, <3>4 DEF Held, Current, Follows, SameRecords
  <2>2. CASE s # q + 1
    <3>1. s \in DOMAIN journal /\ journal[s].from = engine.serial
      BY <1>1, <1>2, <2>2
    <3>2. Follows(mixed, ApplyDeltas(Held, DeltasAfter(s - 1)), Current)
      BY <3>1 DEF FreshInv, DeltasReach
    <3> QED  BY <1>9, <3>2 DEF ApplyDeltas
  <2> QED  BY <2>1, <2>2
<1> QED  BY <1>1, <1>9, <1>10, <1>11 DEF ApplyDeltas, Leads

LEMMA AdvanceFresh ==
    ASSUME ZoneInv, ZoneInv', FreshInv, zone # None, zone' # None, Advances, engine' = engine,
           behind' = TRUE, ~SerialReturns
    PROVE  FreshInv'
<1>1. PICK d : /\ d \in Deltas /\ d.from = zone.serial /\ d.to = zone'.serial
               /\ \A s \in DOMAIN journal' :
                    IF s = zone'.seq THEN journal'[s] = d
                    ELSE s \in DOMAIN journal /\ journal'[s] = journal[s]
  BY DEF Advances
<1>2. NewVersion
  BY DEF Advances, NewVersion, ZoneInv, Rows
<1>3. zone'.serial # zone.serial /\ \A s \in DOMAIN journal : zone'.serial # journal[s].from
  BY <1>2 DEF SerialReturns, JournalSerials
<1>4. engine # None => /\ zone'.serial # engine.serial
                       /\ \A i \in DOMAIN engine.deltas : zone'.serial # engine.deltas[i].to
  BY <1>2 DEF SerialReturns, EngineSerials
<1>5. FreshJournal
  BY DEF FreshInv
<1>6. FreshJournal'
  BY <1>1, <1>3, <1>5 DEF FreshJournal
<1>10. JournalTyped'
  BY <1>1 DEF FreshInv, JournalTyped
<1>7. engine # None => SameSerialSameData'
  BY <1>4 DEF SameSerialSameData
<1>8. engine # None => HistoryNames'
  BY <1>1, <1>4 DEF FreshInv, HistoryNames, SamePair
<1>9. engine # None => DeltasReach'
  BY AdvanceReaches
<1> QED  BY <1>6, <1>7, <1>8, <1>9, <1>10 DEF FreshInv, EngineServesSnapshot, IsSequence

\* Deltas that the journal names by their two serials are the journal's.
NamesJournal(f) ==
    \A k \in DOMAIN f, s \in DOMAIN journal : SamePair(f[k], journal[s]) => f[k] = journal[s]

LEMMA FirstIsThere ==
    ASSUME NEW m, NEW I \in SUBSET (1 .. m), I # {}
    PROVE  Min(I) \in I
<1>1. I \in SUBSET Nat
  OBVIOUS
<1>2. PICK x \in I : \A y \in I : x <= y
  BY <1>1, LeastNumber
<1> QED  BY <1>2 DEF Min

LEMMA PositionIsThere ==
    ASSUME NEW az, NEW serial, Position(az, serial) > 0
    PROVE  /\ Position(az, serial) \in 1 .. Len(az.deltas)
           /\ az.deltas[Position(az, serial)].from = serial
<1> DEFINE I == {i \in 1 .. Len(az.deltas) : az.deltas[i].from = serial}
<1>1. Position(az, serial) = IF I # {} THEN Min(I) ELSE 0
  BY DEF Position, SelectInSeq
<1>2. I # {}
  BY <1>1
<1>3. Min(I) \in I
  <2>1. I \in SUBSET (1 .. Len(az.deltas))
    OBVIOUS
  <2> HIDE DEF I
  <2> QED  BY <1>2, <2>1, FirstIsThere
<1> QED  BY <1>1, <1>2, <1>3

LEMMA HistoryIsListed ==
    ASSUME NEW az, NEW known, az.deltas = [i \in DOMAIN az.deltas |-> az.deltas[i]],
           \A k \in 1 .. Len(known), i \in DOMAIN az.deltas :
              SamePair(known[k], az.deltas[i]) => known[k] = az.deltas[i]
    PROVE  History(az, known) = az.deltas
<1> DEFINE I(i) == {k \in 1 .. Len(known) : SamePair(known[k], az.deltas[i])}
           K(i) == IF I(i) # {} THEN Min(I(i)) ELSE 0
<1>1. History(az, known) = [i \in DOMAIN az.deltas |->
                              IF K(i) > 0 THEN known[K(i)] ELSE az.deltas[i]]
  BY DEF History, SelectInSeq, SamePair
<1>2. ASSUME NEW i \in DOMAIN az.deltas, K(i) > 0 PROVE known[K(i)] = az.deltas[i]
  <2>1. I(i) \in SUBSET (1 .. Len(known)) /\ I(i) # {} /\ K(i) = Min(I(i))
    BY <1>2
  <2> HIDE DEF I, K
  <2>2. Min(I(i)) \in I(i)
    BY <2>1, FirstIsThere
  <2> QED  BY <2>1, <2>2 DEF I
<1> HIDE DEF K
<1> QED  BY <1>1, <1>2

KnowsJournal(c) ==
    \A k \in 1 .. Len(c), s \in DOMAIN journal : SamePair(c[k], journal[s]) => c[k] = journal[s]

LEMMA ConcatNames ==
    ASSUME NEW a, NEW b, IsSequence(a), IsSequence(b), NamesJournal(a), NamesJournal(b),
           NEW c, c = a \o b
    PROVE  KnowsJournal(c)
<1> DEFINE S == {a[i] : i \in DOMAIN a} \cup {b[i] : i \in DOMAIN b}
<1>1. ASSUME NEW f, IsSequence(f), \A i \in DOMAIN f : f[i] \in S PROVE f \in Seq(S)
  <2> HIDE DEF S
  <2>1. PICK n \in Nat : f = [i \in 1 .. n |-> f[i]]
    BY <1>1 DEF IsSequence
  <2> QED  BY <1>1, <2>1
<1>2. a \in Seq(S) /\ b \in Seq(S)
  <2>1. (\A i \in DOMAIN a : a[i] \in S) /\ (\A i \in DOMAIN b : b[i] \in S)
    OBVIOUS
  <2> HIDE DEF S
  <2> QED  BY <1>1, <2>1
<1>3. \A x \in S, s \in DOMAIN journal : SamePair(x, journal[s]) => x = journal[s]
  BY DEF NamesJournal
<1> HIDE DEF S
<1>4. a \o b \in Seq(S)
  BY <1>2, ConcatProperties
<1>5. \A k \in 1 .. Len(a \o b) : (a \o b)[k] \in S
  BY <1>4
<1> QED  BY <1>3, <1>5 DEF KnowsJournal

\* What is left of the listed deltas is what is left of the journal.
LEMMA RestOfListed ==
    ASSUME ZoneInv, zone # None, NEW l \in 0 .. zone.imageSeq, Listed(l),
           NEW i \in 1 .. (zone.seq - l) + 1
    PROVE  Rest(AuthZone, i) = DeltasAfter(l + i - 1)
<1> DEFINE q == zone.seq
           d == AuthZone.deltas
           k == i - 1
<1>1. q \in Nat /\ l \in Nat /\ l <= q
  BY DEF ZoneInv, Rows
<1>2. d = [j \in 1 .. q - l |-> journal[l + j]] /\ Len(d) = q - l
  BY RestIsTail DEF Listed
<1> HIDE DEF q, d
<1>3. q - l \in Nat /\ k \in 0 .. q - l /\ k + 1 = i /\ (q - l) - k = q - (l + i - 1)
      /\ l + i - 1 = l + k
  BY <1>1 DEF q
<1> HIDE DEF k
<1>4. SubSeq(d, k + 1, q - l) = [j \in 1 .. (q - l) - k |-> d[k + j]]
  BY <1>3, SubSeqOfTail
<1>5. \A j \in 1 .. (q - l) - k : d[k + j] = journal[(l + i - 1) + j]
  <2> TAKE j \in 1 .. (q - l) - k
  <2>1. k + j \in 1 .. q - l /\ l + (k + j) = (l + i - 1) + j
    BY <1>1, <1>3
  <2> QED  BY <1>2, <2>1
<1>6. SubSeq(d, i, q - l) = [j \in 1 .. q - (l + i - 1) |-> journal[(l + i - 1) + j]]
  BY <1>3, <1>4, <1>5
<1> QED  BY <1>2, <1>6 DEF Rest, DeltasAfter, q, d

LEMMA TailNames ==
    ASSUME ZoneInv, zone # None, FreshJournal, NEW m \in Nat, m <= zone.seq,
           m + 1 .. zone.seq \subseteq DOMAIN journal
    PROVE  IsSequence(DeltasAfter(m)) /\ NamesJournal(DeltasAfter(m))
<1> DEFINE n == zone.seq - m
           f == DeltasAfter(m)
<1>1. n \in Nat /\ f = [i \in 1 .. n |-> journal[m + i]]
  BY DEF ZoneInv, Rows, DeltasAfter
<1>2. \A i \in 1 .. n : m + i \in DOMAIN journal
  BY <1>1 DEF ZoneInv, Rows
<1> HIDE DEF f, n
<1>3. f = [i \in 1 .. n |-> f[i]] /\ DOMAIN f = 1 .. n
  BY <1>1
<1>4. NamesJournal(f)
  BY <1>1, <1>2, <1>3 DEF NamesJournal, SamePair, FreshJournal
<1> QED  BY <1>1, <1>3, <1>4 DEF f, IsSequence

\* Whatever zone the engine holds, or none, it ends with the listed data and the listed history.
LEMMA LoadIsCurrent ==
    ASSUME ZoneInv, FreshInv, zone # None, NEW old, old = None \/ (old = engine /\ engine # None)
    PROVE  /\ LoadZone(old, AuthZone).serial = zone.serial
           /\ LoadZone(old, AuthZone).recs \subseteq ServedRecords
           /\ SameRecords(LoadZone(old, AuthZone).recs, LoadServed)
           /\ LoadZone(old, AuthZone).deltas = AuthZone.deltas
<1> DEFINE az == AuthZone
           q == zone.seq
           m == zone.imageSeq
<1>1. PICK l \in 0 .. m : Listed(l) /\ l + 1 .. q \subseteq DOMAIN journal
  BY ListedIsTail
<1>2. q \in Nat /\ m \in Nat /\ m <= q /\ l \in Nat /\ l <= m
  BY DEF ZoneInv, Rows
<1>3. Len(az.deltas) = q - l /\ Rest(az, az.offset + 1) = DeltasAfter(m)
  BY <1>1, RestIsTail
<1>4. az.deltas = [i \in 1 .. q - l |-> journal[l + i]]
  BY <1>1 DEF Listed
<1>5. FreshJournal
  BY DEF FreshInv
<1>6. \A k \in Nat : l <= k /\ k <= q => IsSequence(DeltasAfter(k)) /\ NamesJournal(DeltasAfter(k))
  <2> TAKE k \in Nat
  <2> HAVE l <= k /\ k <= q
  <2>1. k + 1 .. q \subseteq DOMAIN journal
    BY <1>1, <1>2
  <2> QED  BY <1>5, <2>1, TailNames
<1> DEFINE loaded == IF old = None THEN FromImage(az) ELSE LoadData(old, az)
           deltas == IF old = None THEN <<>> ELSE old.deltas
<1>7. IsSequence(deltas) /\ NamesJournal(deltas)
  <2>1. CASE old = None
    <3>1. deltas = [i \in 1 .. 0 |-> deltas[i]] /\ DOMAIN deltas = {}
      BY <2>1
    <3> QED  BY <3>1 DEF IsSequence, NamesJournal
  <2>2. CASE old # None
    BY <2>2 DEF FreshInv, HistoryNames, NamesJournal
  <2> QED  BY <2>1, <2>2
<1>8. /\ Follows(mixed, FromImage(az).zone, Current)
      /\ IsSequence(FromImage(az).parsed) /\ NamesJournal(FromImage(az).parsed)
  <2>1. az.imageSerial = image.serial /\ az.image = image.recs
    BY DEF AuthZone
  <2>2. FromImage(az) = [zone |-> FromStart, parsed |-> DeltasAfter(m)]
    BY <1>3, <2>1 DEF FromImage, FromStart
  <2>3. Follows(mixed, FromStart, Current)
    BY DEF ZoneInv, EngineReplays
  <2> QED  BY <1>2, <1>6, <2>2, <2>3
<1>9. Follows(mixed, loaded.zone, Current) /\ IsSequence(loaded.parsed) /\ NamesJournal(loaded.parsed)
  <2>1. CASE old = None
    BY <1>8, <2>1
  <2>2. CASE old # None
    <3> DEFINE i == Position(az, old.serial)
               applied == ApplyDeltas([serial |-> old.serial, recs |-> old.recs], Rest(az, i))
    <3>0. old = engine /\ engine # None /\ loaded = LoadData(old, az)
      BY <2>2
    <3>1. CASE old.serial = az.serial
      <4>1. loaded = [zone |-> [serial |-> old.serial, recs |-> old.recs], parsed |-> <<>>]
        BY <3>0, <3>1 DEF LoadData
      <4>2. old.serial = zone.serial
        BY <3>1 DEF AuthZone
      <4>3. SameRecords(old.recs, LoadServed) /\ old.recs \subseteq ServedRecords
        BY <3>0, <4>2 DEF FreshInv, SameSerialSameData
      <4>4. IsSequence(<<>>) /\ NamesJournal(<<>>)
        <5>1. <<>> = [j \in 1 .. 0 |-> <<>>[j]]
          OBVIOUS
        <5> QED  BY <5>1 DEF IsSequence, NamesJournal
      <4> QED  BY <4>1, <4>2, <4>3, <4>4 DEF Current, Follows, SameRecords
    <3>2. CASE old.serial # az.serial /\ i > 0 /\ applied # Nowhere
      <4>1. loaded = [zone |-> applied, parsed |-> Rest(az, i)]
        BY <3>0, <3>2 DEF LoadData
      <4>2. i \in 1 .. q - l /\ az.deltas[i].from = old.serial
        BY <1>3, <3>2, PositionIsThere
      <4> HIDE DEF i
      <4>3. l + i \in DOMAIN journal /\ journal[l + i].from = engine.serial
        BY <1>1, <1>2, <1>4, <3>0, <4>2
      <4>4. Rest(az, i) = DeltasAfter(l + i - 1)
        <5>1. i \in 1 .. (zone.seq - l) + 1
          BY <1>2, <4>2
        <5> QED  BY <1>1, <5>1, RestOfListed
      <4>5. Follows(mixed, ApplyDeltas(Held, DeltasAfter((l + i) - 1)), Current)
        BY <3>0, <4>3 DEF FreshInv, DeltasReach
      <4>6. Follows(mixed, applied, Current)
        <5>1. [serial |-> old.serial, recs |-> old.recs] = Held
          BY <3>0 DEF Held
        <5>2. l + i - 1 = (l + i) - 1
          BY <1>2, <4>2
        <5> QED  BY <4>4, <4>5, <5>1, <5>2
      <4>7. l + i - 1 \in Nat /\ l <= l + i - 1 /\ l + i - 1 <= q
        BY <1>2, <4>2
      <4> HIDE DEF applied
      <4> QED  BY <1>6, <4>1, <4>4, <4>6, <4>7
    <3>3. CASE ~(old.serial = az.serial) /\ ~(i > 0 /\ applied # Nowhere)
      <4>1. loaded = FromImage(az)
        BY <3>0, <3>3 DEF LoadData
      <4> QED  BY <1>8, <4>1
    <3> QED  BY <3>1, <3>2, <3>3
  <2> QED  BY <2>1, <2>2
<1>10. LoadZone(old, az) = [serial |-> loaded.zone.serial, recs |-> loaded.zone.recs,
                            deltas |-> History(az, loaded.parsed \o deltas)]
  BY DEF LoadZone
<1> DEFINE parsed == loaded.parsed
           known == parsed \o deltas
<1>11. KnowsJournal(known)
  <2> HIDE DEF parsed, deltas
  <2>1. IsSequence(parsed) /\ NamesJournal(parsed)
    BY <1>9 DEF parsed
  <2> QED  BY <1>7, <2>1, ConcatNames
<1> HIDE DEF known, loaded, deltas
<1>12. \A i \in DOMAIN az.deltas : l + i \in DOMAIN journal /\ az.deltas[i] = journal[l + i]
  BY <1>1, <1>2, <1>4
<1>13. az.deltas = [i \in DOMAIN az.deltas |-> az.deltas[i]]
  BY <1>4
<1>14. \A k \in 1 .. Len(known), i \in DOMAIN az.deltas :
          SamePair(known[k], az.deltas[i]) => known[k] = az.deltas[i]
  <2> HIDE DEF az
  <2> QED  BY <1>11, <1>12 DEF KnowsJournal
<1> HIDE DEF az
<1>15. History(az, known) = az.deltas
  BY <1>13, <1>14, HistoryIsListed
<1> QED  BY <1>9, <1>10, <1>15 DEF Current, Follows, SameRecords, known, az

LEMMA LoadFresh ==
    ASSUME ZoneInv, FreshInv, NEW old, old = None \/ (old = engine /\ engine # None), Load(old)
    PROVE  FreshInv'
<1>1. CASE zone = None
  BY <1>1 DEF Load, FreshInv, EngineServesSnapshot
<1>2. CASE zone # None
  <2>1. UNCHANGED <<zone, stored, image, journal>> /\ engine' = LoadZone(old, AuthZone)
    BY <1>2 DEF Load
  <2>2. /\ engine'.serial = zone.serial /\ SameRecords(engine'.recs, LoadServed)
        /\ engine'.recs \subseteq ServedRecords /\ engine'.deltas = AuthZone.deltas
    BY <1>2, <2>1, LoadIsCurrent
  <2>3. /\ LoadServed' = LoadServed /\ AuthZone' = AuthZone
        /\ SameRecords(engine.recs, LoadServed)'
    <3>1. mixed' = mixed /\ LoadServed' = LoadServed /\ AuthZone' = AuthZone
      BY <2>1 DEF Load, LoadServed, DeltasAfter, AuthZone, ListedSeqs, ListedFrom
    <3> QED  BY <2>2, <3>1 DEF SameRecords
  <2>4. PICK l \in 0 .. zone.imageSeq : Listed(l) /\ l + 1 .. zone.seq \subseteq DOMAIN journal
    BY <1>2, ListedIsTail
  <2>5. /\ zone.seq - l \in Nat /\ l \in Nat
        /\ AuthZone.deltas = [i \in 1 .. zone.seq - l |-> journal[l + i]]
        /\ \A i \in 1 .. zone.seq - l : l + i \in DOMAIN journal
    <3>1. zone.seq \in Nat /\ zone.imageSeq \in 1 .. zone.seq /\ l \in Nat /\ l <= zone.seq
      BY <1>2, <2>4 DEF ZoneInv, Rows
    <3>2. \A i \in 1 .. zone.seq - l : l + i \in l + 1 .. zone.seq
      BY <3>1
    <3> QED  BY <2>4, <3>1, <3>2 DEF Listed
  <2>6. IsSequence(AuthZone.deltas)
    BY <2>5 DEF IsSequence
  <2>7. FreshJournal /\ FreshJournal'
    BY <1>2, <2>1 DEF FreshInv, FreshJournal
  <2>8. \A i \in DOMAIN AuthZone.deltas, s \in DOMAIN journal :
           SamePair(AuthZone.deltas[i], journal[s]) => AuthZone.deltas[i] = journal[s]
    BY <2>5, <2>7 DEF FreshJournal, SamePair
  <2>9. HistoryNames'
    BY <2>1, <2>2, <2>8 DEF HistoryNames, SamePair
  <2>10. DeltasReach'
    BY <2>1, <2>2, <2>7 DEF DeltasReach, FreshJournal
  <2>11. SameSerialSameData'
    BY <2>2, <2>3 DEF SameSerialSameData
  <2>12. engine' # None
    <3>1. engine' = [serial |-> engine'.serial, recs |-> engine'.recs, deltas |-> engine'.deltas]
      BY <2>1 DEF LoadZone
    <3>2. zone.serial \in Serials
      BY <1>2 DEF ZoneInv, Rows
    <3>3. AuthZone.deltas \in Seq(Deltas)
      <4>1. \A i \in 1 .. zone.seq - l : journal[l + i] \in Deltas
        BY <1>2, <2>5 DEF FreshInv, JournalTyped
      <4> QED  BY <2>5, <4>1
    <3>4. engine' \in EngineZones
      BY <2>2, <3>1, <3>2, <3>3 DEF EngineZones
    <3> QED  BY <3>4, NoneIsNoZone
  <2>13. IsSequence(engine.deltas)' /\ (engine.recs \subseteq ServedRecords)'
    BY <2>2, <2>6 DEF IsSequence
  <2>14. JournalTyped'
    BY <1>2, <2>1 DEF FreshInv, JournalTyped
  <2>15. EngineServesSnapshot'
    BY <1>2, <2>1, <2>2, <2>3, <2>12 DEF EngineServesSnapshot
  <2> QED  BY <2>7, <2>9, <2>10, <2>11, <2>13, <2>14, <2>15 DEF FreshInv
<1> QED  BY <1>1, <1>2

LEMMA FreshInit == Init => FreshInv
BY DEF Init, FreshInv, EngineServesSnapshot

LEMMA EditFresh ==
    ASSUME ZoneInv, FreshInv, zone # None, Edited, ~SerialReturns
    PROVE  FreshInv'
<1>1. CASE Stays
  BY <1>1, NothingFresh DEF Edited
<1>2. CASE Advances /\ zone' # None
  BY <1>2, AdvanceFresh DEF Edited, Versioned
<1>3. CASE zone' = None
  BY <1>3 DEF Edited, FreshInv, EngineServesSnapshot, IsSequence
<1> QED  BY <1>1, <1>2, <1>3 DEF Edited, Versioned

\* An operation creates the zone, edits it, deletes it, or is a load.
LEMMA Operations ==
    ASSUME ZoneInv, Next
    PROVE  \/ zone = None /\ DOMAIN journal' = {} /\ engine' = engine /\ behind' = TRUE
           \/ zone # None /\ Edited
           \/ zone' = None /\ engine' = engine /\ behind' = TRUE
           \/ Load(engine)
           \/ Load(None)
<1>1. ASSUME NEW fields \in SoaFields, NEW zonemd \in BOOLEAN, CreateZone(fields, zonemd)
      PROVE  zone = None /\ DOMAIN journal' = {} /\ engine' = engine /\ behind' = TRUE
  BY <1>1, CreatedHasNoDelta DEF CreateZone, Published
<1>2. ASSUME NEW p \in Records, CreateRecord(p) PROVE zone # None /\ Edited
  BY <1>2, RecordEditsKeep DEF CreateRecord
<1>3. ASSUME NEW old \in Records, NEW new \in Records, UpdateRecord(old, new)
      PROVE  zone # None /\ Edited
  BY <1>3, RecordEditsKeep DEF UpdateRecord
<1>4. ASSUME NEW p \in Records, DeleteRecord(p) PROVE zone # None /\ Edited
  BY <1>4, RecordEditsKeep DEF DeleteRecord
<1>5. ASSUME NEW f \in Files, Import(f) PROVE zone # None /\ Edited
  BY <1>5, ImportKeeps DEF Import
<1>6. ASSUME NEW u \in Updates, DynamicUpdate(u) PROVE zone # None /\ Edited
  BY <1>6, DynamicUpdateKeeps DEF DynamicUpdate
<1>7. ASSUME NEW fields \in SoaFields, NEW zonemd \in BOOLEAN, UpdateZone(fields, zonemd)
      PROVE  zone # None /\ Edited
  BY <1>7, UpdateZoneKeeps DEF UpdateZone
<1>8. CASE DeleteZone
  BY <1>8 DEF DeleteZone, Published
<1> QED  BY <1>1, <1>2, <1>3, <1>4, <1>5, <1>6, <1>7, <1>8 DEF Next

LEMMA FreshStep == ZoneInv /\ FreshInv /\ [Next /\ ~SerialReturns]_vars => FreshInv'
<1> SUFFICES ASSUME ZoneInv, FreshInv, [Next /\ ~SerialReturns]_vars PROVE FreshInv'
  OBVIOUS
<1>1. CASE UNCHANGED vars
  BY <1>1, NothingFresh DEF vars, Stays
<1>2. CASE /\ zone = None /\ DOMAIN journal' = {} /\ engine' = engine /\ behind' = TRUE
           /\ ~SerialReturns
  BY <1>2, CreateFresh
<1>3. CASE zone # None /\ Edited /\ ~SerialReturns
  BY <1>3, EditFresh
<1>4. CASE zone' = None /\ engine' = engine /\ behind' = TRUE
  BY <1>4 DEF FreshInv, EngineServesSnapshot, IsSequence
<1>5. CASE Load(engine) \/ Load(None)
  BY <1>5, LoadFresh
<1> QED  BY <1>1, <1>2, <1>3, <1>4, <1>5, Operations

\* EngineServesSnapshot: as long as no serial returns that the journal or the engine remembers, an
\* engine on the newest snapshot serves its data and its IXFR history, from whichever older version
\* or deleted zone of the name it started and whether load_zone reused, applied deltas or read the
\* image. The data is the same always; the TTLs are as long as no imported file gave an RRset two.
THEOREM EngineCatchesUp == FreshSpec => []EngineServesSnapshot
<1>1. Init => ZoneInv /\ FreshInv
  BY ZoneInit, FreshInit
<1>2. ZoneInv /\ FreshInv /\ [Next /\ ~SerialReturns]_vars => ZoneInv' /\ FreshInv'
  BY ZoneStep, FreshStep
<1>3. FreshInv => EngineServesSnapshot
  BY DEF FreshInv
<1> QED  BY <1>1, <1>2, <1>3, PTL DEF FreshSpec

\* SameSerialSameData: the loader's comment holds as long as no serial returns that is remembered:
\* for the data, and for the TTLs unless an import gave an RRset two.
THEOREM SameSerialIsSameData == FreshSpec => []SameSerialSameData
<1>1. Init => ZoneInv /\ FreshInv
  BY ZoneInit, FreshInit
<1>2. ZoneInv /\ FreshInv /\ [Next /\ ~SerialReturns]_vars => ZoneInv' /\ FreshInv'
  BY ZoneStep, FreshStep
<1>3. FreshInv => SameSerialSameData
  BY DEF FreshInv, SameSerialSameData
<1> QED  BY <1>1, <1>2, <1>3, PTL DEF FreshSpec

-----------------------------------------------------------------------------
(* Serials that rise.                                                        *)

\* The journal and the engine remember no serial above the zone's.
RisingInv ==
    zone # None =>
        /\ \A s \in DOMAIN journal : journal[s].from \in 0 .. zone.serial
                                     /\ journal[s].to \in 0 .. zone.serial
        /\ engine # None =>
             /\ engine.serial \in 0 .. zone.serial
             /\ \A i \in DOMAIN engine.deltas : engine.deltas[i].to \in 0 .. zone.serial

LEMMA RisingIsNew ==
    ASSUME ZoneInv, RisingInv, SerialsRise
    PROVE  ~SerialReturns
<1>1. CASE NewVersion /\ zone # None
  <2>1. zone'.serial > zone.serial /\ zone.serial \in Nat
    BY <1>1 DEF SerialsRise, ZoneInv, Rows, Serials
  <2>2. \A n \in 0 .. zone.serial : n # zone'.serial
    BY <2>1
  <2>3. zone.serial \in 0 .. zone.serial
    BY <2>1
  <2> QED  BY <1>1, <2>2, <2>3 DEF RisingInv, SerialReturns, JournalSerials, EngineSerials
<1>2. CASE NewVersion /\ zone = None
  BY <1>2 DEF SerialsRise, SerialReturns
<1> QED  BY <1>1, <1>2 DEF SerialReturns

LEMMA EditRises ==
    ASSUME ZoneInv, RisingInv, zone # None, Edited, SerialsRise
    PROVE  RisingInv'
<1>1. CASE Stays
  BY <1>1 DEF Edited, Stays, RisingInv
<1>2. CASE Advances /\ zone' # None
  <2>1. PICK d : /\ d.from = zone.serial /\ d.to = zone'.serial
                 /\ \A s \in DOMAIN journal' :
                      IF s = zone'.seq THEN journal'[s] = d
                      ELSE s \in DOMAIN journal /\ journal'[s] = journal[s]
    BY <1>2 DEF Advances
  <2>2. NewVersion
    BY <1>2 DEF Advances, NewVersion, ZoneInv, Rows
  <2>3. zone.serial \in Nat /\ zone'.serial \in Nat /\ zone'.serial > zone.serial
    BY <1>2, <2>2 DEF Edited, Versioned, SerialsRise, ZoneInv, Rows, Serials
  <2>4. /\ \A n \in 0 .. zone.serial : n \in 0 .. zone'.serial
        /\ zone.serial \in 0 .. zone'.serial /\ zone'.serial \in 0 .. zone'.serial
    BY <2>3
  <2>5. \A s \in DOMAIN journal' : journal'[s].from \in 0 .. zone'.serial
                                   /\ journal'[s].to \in 0 .. zone'.serial
    BY <2>1, <2>4 DEF RisingInv
  <2> QED  BY <2>4, <2>5 DEF Edited, RisingInv
<1>3. CASE zone' = None
  BY <1>3 DEF RisingInv
<1> QED  BY <1>1, <1>2, <1>3 DEF Edited, Versioned

\* A load leaves the engine with serials of the journal.
LEMMA LoadRises ==
    ASSUME ZoneInv, FreshInv, RisingInv, NEW old, old = None \/ (old = engine /\ engine # None),
           Load(old)
    PROVE  RisingInv'
<1>1. CASE zone = None
  BY <1>1 DEF Load, RisingInv
<1>2. CASE zone # None
  <2>1. UNCHANGED <<zone, journal>> /\ engine' = LoadZone(old, AuthZone)
    BY <1>2 DEF Load
  <2>2. engine'.serial = zone.serial /\ engine'.deltas = AuthZone.deltas
    BY <1>2, <2>1, LoadIsCurrent
  <2>3. PICK l \in 0 .. zone.imageSeq : Listed(l) /\ l + 1 .. zone.seq \subseteq DOMAIN journal
    BY <1>2, ListedIsTail
  <2>4. zone.seq \in Nat /\ zone.imageSeq \in 1 .. zone.seq /\ l \in Nat /\ l <= zone.seq
    BY <1>2, <2>3 DEF ZoneInv, Rows
  <2>5. AuthZone.deltas = [i \in 1 .. zone.seq - l |-> journal[l + i]]
    BY <2>3 DEF Listed
  <2>6. \A i \in 1 .. zone.seq - l : l + i \in l + 1 .. zone.seq
    BY <2>4
  <2>7. \A i \in DOMAIN engine'.deltas : engine'.deltas[i].to \in 0 .. zone.serial
    BY <1>2, <2>2, <2>3, <2>5, <2>6 DEF RisingInv
  <2>8. zone.serial \in 0 .. zone.serial
    BY <1>2 DEF ZoneInv, Rows, Serials
  <2> QED  BY <1>2, <2>1, <2>2, <2>7, <2>8 DEF RisingInv
<1> QED  BY <1>1, <1>2

LEMMA RisingStep ==
    ASSUME ZoneInv, FreshInv, RisingInv, [Next /\ SerialsRise]_vars
    PROVE  RisingInv'
<1>1. CASE UNCHANGED vars
  BY <1>1 DEF vars, RisingInv
<1>2. CASE zone = None /\ DOMAIN journal' = {} /\ engine' = engine /\ SerialsRise
  BY <1>2 DEF SerialsRise, NewVersion, RisingInv
<1>3. CASE zone # None /\ Edited /\ SerialsRise
  BY <1>3, EditRises
<1>4. CASE zone' = None
  BY <1>4 DEF RisingInv
<1>5. CASE Load(engine) \/ Load(None)
  BY <1>5, LoadRises
<1> QED  BY <1>1, <1>2, <1>3, <1>4, <1>5, Operations

\* A zone whose serials do not wrap, and whose name is used again only after the engine has loaded
\* its deletion, never takes a serial that is remembered, however its versions are made: what the
\* theorems above assume. NextSerial alone does not give this, an imported serial may go past the
\* end of the serial space.
THEOREM RisingIsFresh == RisingSpec => FreshSpec
<1>1. Init => ZoneInv /\ FreshInv /\ RisingInv
  BY ZoneInit, FreshInit DEF Init, RisingInv
<1>2. ZoneInv /\ RisingInv /\ [Next /\ SerialsRise]_vars => [Next /\ ~SerialReturns]_vars
  BY RisingIsNew
<1>3. ZoneInv /\ FreshInv /\ RisingInv /\ [Next /\ SerialsRise]_vars
        => ZoneInv' /\ FreshInv' /\ RisingInv'
  BY <1>2, ZoneStep, FreshStep, RisingStep
<1> QED  BY <1>1, <1>2, <1>3, PTL DEF RisingSpec, FreshSpec
=============================================================================
