-------------------------- MODULE KeyRolloverProofs --------------------------
(***************************************************************************)
(* Proofs about KeyRollover, for every policy of times and any number of    *)
(* keys: the shape of the key rows, that no rollover and no renewal is      *)
(* forgotten, and that neither the chain of trust nor the validation of the *)
(* zone's data breaks while keys roll.                                     *)
(***************************************************************************)
EXTENDS KeyRollover, SequenceTheorems, FiniteSetTheorems, TLAPS

-----------------------------------------------------------------------------
(* The shape of the key rows.                                              *)

Ksks(ks) == In(ks, "ksk", "active")
SigningZsks(ks) == In(ks, "zsk", "active") \cup In(ks, "zsk", "retired")

\* The times a key in use has passed are known and not in the future.
TimesPassed(ks) ==
    \A i \in Dnskeys(ks) :
        /\ ks[i].publishedAt \in 0 .. now
        /\ ks[i].state = "active" => ks[i].activatedAt \in 0 .. now
        /\ ks[i].state = "retired" => ks[i].retiredAt \in 0 .. now
        /\ ks[i].dsState = "seen" => ks[i].dsSeenAt \in 0 .. now

\* KSKs sign from their creation on, so they were activated in that order.
KsksInOrder(ks) ==
    /\ \A i \in Dnskeys(ks) : ks[i].role = "ksk" => ks[i].state = "active"
    /\ \A i, j \in Ksks(ks) : i < j => ks[i].activatedAt <= ks[j].activatedAt

\* One or two KSKs, one ZSK and at most one successor.
Complement(ks) ==
    /\ \E i, j \in DOMAIN ks : Ksks(ks) = {i, j}
    /\ \E i \in DOMAIN ks : In(ks, "zsk", "active") = {i}
    /\ \A i, j \in In(ks, "zsk", "published") : i = j

Shape(ks) == TimesPassed(ks) /\ KsksInOrder(ks) /\ Complement(ks)

\* The part of the inductive invariant about rows, signatures and versions.
RowsInv ==
    /\ now \in Time /\ enabled \in BOOLEAN /\ idle \in 0 .. Slack
    /\ ttl \in TTL /\ lapses \subseteq {"ds", "ttl"}
    /\ keys \in Seq(Key)
    /\ ~enabled => due = Never /\ sigs = <<>> /\ Dnskeys(keys) = {}
    /\ enabled => /\ Shape(keys)
                  /\ due \in Nat
                  /\ sigs \in [Signers(keys) -> Nat]

-----------------------------------------------------------------------------
(* Deadlines.                                                              *)

\* What the maintainer has still to do of the rollovers in progress.
RolloverTimes(ks, pol) ==
    {ActivationTime(ks[i], pol) : i \in In(ks, "zsk", "published")}
    \cup {RemovalTime(ks[i], pol) : i \in In(ks, "zsk", "retired")}
    \cup {OldKskRemoval(ks[j]) : j \in {k \in Ksks(ks) :
              ks[k].dsState = "seen" /\ \E i \in Ksks(ks) : i < k}}

\* The next maintenance is not later than a deadline, and a signature was not due
\* for renewal when the maintainer last looked.
DeadlinesInv ==
    enabled =>
        /\ \A t \in RolloverTimes(keys, ttl) : due <= t \/ due <= now
        /\ \A i \in DOMAIN sigs :
              /\ due <= sigs[i] - RefreshBefore
              /\ sigs[i] + idle > now + RefreshBefore

-----------------------------------------------------------------------------
(* What resolvers hold.                                                    *)

\* Versions and DS sets a cache still holds, and what they are made of.
PastInv ==
    /\ \A p \in past :
          /\ p.until \in 0 .. now
          /\ p.version.ttl \in TTL
          /\ p.until + Propagation + p.version.ttl.max > now
          /\ p.version.ksks \subseteq p.version.dnskeys
          /\ p.version.zsks \subseteq p.version.dnskeys
          /\ p.version.dnskeys \subseteq DOMAIN keys
    /\ \A q \in pastDS :
          /\ q.until \in 0 .. now
          /\ q.until + Propagation + ParentDSTTL > now
          /\ q.set /= {} /\ q.set \subseteq DOMAIN keys
    /\ ds \subseteq DOMAIN keys

\* A version that was served after a key appeared shows the key.
VersionsShowKeys ==
    \A p \in past, i \in Dnskeys(keys) :
        p.until > keys[i].publishedAt => i \in p.version.dnskeys

\* A cache may hold a DS record of the key.
Delegated(i) == i \in ds \/ \E q \in pastDS : i \in q.set

\* A KSK with a DS record signed whatever DNSKEY RRset a cache may hold.
DelegatedIsShown ==
    \A i \in Ksks(keys) : Delegated(i) => \A p \in past : i \in p.version.ksks

\* Every DS set a cache may hold has a KSK of the zone.
DelegationsAnchored ==
    /\ ds = {} \/ \E i \in ds : i \in Ksks(keys)
    /\ \A q \in pastDS : \E i \in q.set : i \in Ksks(keys)

\* Once the DS of the new KSK was seen, the parent keeps it until the delegation
\* becomes insecure, and only older DS sets lack it.
ParentKeepsNewDS ==
    \A i, j \in Ksks(keys) :
        i < j /\ keys[j].dsState = "seen" =>
            /\ ds = {} \/ j \in ds
            /\ \A q \in pastDS : j \in q.set \/ q.until <= keys[j].dsSeenAt

ChainInv ==
    "ds" \notin lapses => DelegatedIsShown /\ DelegationsAnchored /\ ParentKeepsNewDS

\* The version is of the time of the zone's present keys.
SameChain(p) == \E i \in p.version.ksks : i \in Ksks(keys)

\* Cached data is signed by ZSKs that still are there.
SignaturesHaveKeys ==
    \A p \in past : SameChain(p) =>
        /\ p.version.zsks /= {}
        /\ \A i \in p.version.zsks :
              \/ i \in In(keys, "zsk", "active")
              \/ i \in In(keys, "zsk", "retired") /\ p.until <= keys[i].retiredAt

\* Every cached DNSKEY RRset has the ZSKs that sign or signed.
ZsksAreKnown ==
    \A p \in past : SameChain(p) /\ Alive(p, p.version.ttl.soa) =>
        SigningZsks(keys) \subseteq p.version.dnskeys

DataInv == "ttl" \notin lapses => SignaturesHaveKeys /\ ZsksAreKnown

KeyRolloverInv ==
    /\ RowsInv /\ DeadlinesInv
    /\ PastInv /\ VersionsShowKeys /\ ChainInv /\ DataInv

-----------------------------------------------------------------------------
(* Operators of the model.                                                 *)

LEMMA ConstantsType ==
    /\ Propagation \in Nat
    /\ ParentDSTTL \in Nat /\ ZskLifetime \in Nat /\ Validity \in Nat
    /\ RefreshBefore \in Nat /\ RefreshWindow \in Nat /\ Slack \in Nat
    /\ MaxTime \in Nat /\ MaxKeys \in Nat
BY TimesAreNat

LEMMA TTLType ==
    ASSUME NEW pol \in TTL
    PROVE  pol.soa \in Nat /\ pol.max \in Nat /\ pol.soa <= pol.max
BY TTLsAreNat

LEMMA RowType ==
    ASSUME NEW ks \in Seq(Key), NEW i \in DOMAIN ks
    PROVE  /\ i \in Nat /\ i > 0
           /\ ks[i] \in Key
           /\ ks[i].publishedAt \in Int /\ ks[i].activatedAt \in Int
           /\ ks[i].retiredAt \in Int /\ ks[i].dsSeenAt \in Int
<1>1. i \in 1 .. Len(ks)
  BY LenProperties
<1>2. ks[i] \in Key
  BY <1>1, ElementOfSeq
<1> QED  BY <1>1, <1>2, LenProperties, ConstantsType DEF Key, Time, Never

LEMMA MinIsLeast ==
    ASSUME NEW S \in SUBSET Nat, S /= {}
    PROVE  Min(S) \in S /\ \A x \in S : Min(S) <= x
<1> DEFINE R == {ss \in Nat \X Nat : ss[1] < ss[2]}
<1>1. IsWellFoundedOn(R, Nat)
  BY NatLessThanWellFounded, Zenon DEF OpToRel
<1>2. PICK x \in S : \A y \in S : ~ (<<y, x>> \in R)
  <2> HIDE DEF R
  <2> QED  BY <1>1, WFMin, Zenon
<1>3. ASSUME NEW y \in S, y < x
      PROVE  <<y, x>> \in R
  BY <1>3
<1>4. \A y \in S : x <= y
  <2> HIDE DEF R
  <2>1. \A y \in S : ~ (y < x)
    BY <1>2, <1>3
  <2> QED  BY <2>1
<1> QED  BY <1>4 DEF Min

\* Of two KSKs in the order of creation the first is the older.
LEMMA PairOrder ==
    ASSUME NEW ks \in Seq(Key), KsksInOrder(ks),
           NEW i \in DOMAIN ks, NEW j \in DOMAIN ks, i < j, Ksks(ks) = {i, j}
    PROVE  Older(ks, {i, j}) = i /\ Newer(ks, {i, j}) = j
<1>1. i \in Nat /\ j \in Nat /\ i /= j
  BY LenProperties
<1>2. ks[i].activatedAt \in Int /\ ks[j].activatedAt \in Int
  BY RowType
<1>3. ks[i].activatedAt <= ks[j].activatedAt
  BY DEF KsksInOrder
<1> DEFINE Before(a, b) == \/ ks[a].activatedAt < ks[b].activatedAt
                           \/ ks[a].activatedAt = ks[b].activatedAt /\ a < b
<1>4. Before(i, j) /\ ~Before(j, i)
  BY <1>1, <1>2, <1>3
<1>5. Older(ks, {i, j}) = CHOOSE a \in {i, j} : \A b \in {i, j} \ {a} : Before(a, b)
  BY DEF Older
<1>6. \A a \in {i, j} : (\A b \in {i, j} \ {a} : Before(a, b)) <=> a = i
  <2> HIDE DEF Before
  <2> QED  BY <1>1, <1>4
<1>7. Older(ks, {i, j}) = i
  <2> HIDE DEF Before
  <2> QED  BY <1>5, <1>6
<1> QED  BY <1>1, <1>7 DEF Newer

LEMMA PairSize ==
    ASSUME NEW i, NEW j
    PROVE  Cardinality({i, j}) = IF i = j THEN 1 ELSE 2
<1>1. IsFiniteSet({i}) /\ Cardinality({i}) = 1
  BY FS_Singleton
<1>2. CASE i = j
  BY <1>1, <1>2
<1>3. CASE i /= j
  <2>1. Cardinality({i} \cup {j}) = Cardinality({i}) + 1
    BY <1>1, <1>3, FS_AddElement
  <2> QED  BY <1>1, <1>3, <2>1
<1> QED  BY <1>2, <1>3

\* A confirmed rollover of the KSK: two, the newer of which has its DS seen.
LEMMA ConfirmedPair ==
    ASSUME NEW ks \in Seq(Key), KsksInOrder(ks), Complement(ks)
    PROVE  \/ /\ KskRolloverConfirmed(ks)
              /\ \E i, j \in DOMAIN ks :
                    /\ i < j /\ Ksks(ks) = {i, j} /\ ks[j].dsState = "seen"
                    /\ Older(ks, Ksks(ks)) = i /\ Newer(ks, Ksks(ks)) = j
           \/ /\ ~KskRolloverConfirmed(ks)
              /\ \A i, j \in Ksks(ks) : i < j => ks[j].dsState /= "seen"
<1>1. PICK i, j \in DOMAIN ks : Ksks(ks) = {i, j}
  BY DEF Complement
<1>2. i \in Nat /\ j \in Nat
  BY LenProperties
<1>3. CASE i = j
  <2>1. Cardinality(Ksks(ks)) = 1
    BY <1>1, <1>3, PairSize
  <2> QED  BY <1>1, <1>2, <1>3, <2>1 DEF KskRolloverConfirmed, Ksks
<1>4. ASSUME NEW a \in DOMAIN ks, NEW b \in DOMAIN ks, a < b, Ksks(ks) = {a, b}
      PROVE  /\ KskRolloverConfirmed(ks) <=> ks[b].dsState = "seen"
             /\ Older(ks, Ksks(ks)) = a /\ Newer(ks, Ksks(ks)) = b
             /\ \A c, d \in Ksks(ks) : c < d => d = b
  <2>1. Older(ks, {a, b}) = a /\ Newer(ks, {a, b}) = b
    BY <1>4, PairOrder
  <2>2. a \in Nat /\ b \in Nat
    BY RowType
  <2>3. Cardinality({a, b}) = 2
    <3>1. a /= b
      BY <1>4, <2>2
    <3> QED  BY <3>1, PairSize
  <2> QED  BY <1>4, <2>1, <2>2, <2>3 DEF KskRolloverConfirmed, Ksks
<1>5. CASE i < j
  BY <1>1, <1>4, <1>5
<1>6. CASE j < i
  <2>1. Ksks(ks) = {j, i}
    BY <1>1
  <2> QED  BY <2>1, <1>4, <1>6
<1> QED  BY <1>2, <1>3, <1>5, <1>6

\* Every rollover in progress is among the transitions the code schedules.
LEMMA RolloversAreScheduled ==
    ASSUME NEW ks \in Seq(Key), Shape(ks), NEW pol \in TTL
    PROVE  /\ TransitionTimes(ks, pol) \subseteq Int
           /\ RolloverTimes(ks, pol) \subseteq TransitionTimes(ks, pol)
<1> USE ConstantsType
<1>1. In(ks, "zsk", "active") /= {}
  BY DEF Shape, Complement
<1>2. /\ KsksInOrder(ks) /\ Complement(ks)
      /\ \A i \in DOMAIN ks : i \in Nat
  BY RowType DEF Shape
<1>3. \A i \in DOMAIN ks : /\ ActivationTime(ks[i], pol) \in Int
                           /\ RemovalTime(ks[i], pol) \in Int
                           /\ OldKskRemoval(ks[i]) \in Int
                           /\ LifetimeEnd(ks[i]) \in Int
  <2> TAKE i \in DOMAIN ks
  <2>1. /\ ks[i].publishedAt \in Int /\ ks[i].activatedAt \in Int
        /\ ks[i].retiredAt \in Int /\ ks[i].dsSeenAt \in Int
    BY RowType
  <2>2. \A t, a, b \in Int : t + a \in Int /\ t + a + b \in Int
    OBVIOUS
  <2>3. /\ pol.soa \in Int /\ pol.max \in Int /\ Propagation \in Int
        /\ ParentDSTTL \in Int /\ ZskLifetime \in Int
    BY TTLType
  <2> QED  BY <2>1, <2>2, <2>3, Zenon DEF ActivationTime, RemovalTime, OldKskRemoval, LifetimeEnd
<1>4. KskRolloverConfirmed(ks) => Newer(ks, Ksks(ks)) \in DOMAIN ks
  BY <1>2, ConfirmedPair
<1>5. TransitionTimes(ks, pol) \subseteq Int
  BY <1>3, <1>4 DEF TransitionTimes, In, Ksks
<1>6. ASSUME NEW i \in Ksks(ks), NEW j \in Ksks(ks), i < j, ks[j].dsState = "seen"
      PROVE  KskRolloverConfirmed(ks) /\ Newer(ks, Ksks(ks)) = j
  <2>1. i \in Nat /\ j \in Nat
    BY <1>2 DEF Ksks, In
  <2> QED  BY <1>2, <1>6, <2>1, ConfirmedPair
<1>7. ASSUME NEW i \in Ksks(ks), NEW j \in Ksks(ks), i < j, ks[j].dsState = "seen"
      PROVE  OldKskRemoval(ks[j]) \in TransitionTimes(ks, pol)
  BY <1>6, <1>7 DEF TransitionTimes, Ksks
<1>8. RolloverTimes(ks, pol) \subseteq TransitionTimes(ks, pol)
  <2> SUFFICES ASSUME NEW t \in RolloverTimes(ks, pol) PROVE t \in TransitionTimes(ks, pol)
    OBVIOUS
  <2>1. CASE t \in {OldKskRemoval(ks[j]) : j \in {k \in Ksks(ks) :
              ks[k].dsState = "seen" /\ \E i \in Ksks(ks) : i < k}}
    BY <2>1, <1>7
  <2>2. CASE t \in {ActivationTime(ks[i], pol) : i \in In(ks, "zsk", "published")}
    BY <1>1, <2>2 DEF TransitionTimes
  <2>3. CASE t \in {RemovalTime(ks[i], pol) : i \in In(ks, "zsk", "retired")}
    BY <2>3 DEF TransitionTimes
  <2> QED  BY <2>1, <2>2, <2>3 DEF RolloverTimes
<1> QED  BY <1>5, <1>8

\* next_maintenance_at is not later than a rollover's time nor than a renewal.
LEMMA ScheduleIsTimely ==
    ASSUME NEW ks \in Seq(Key), Shape(ks), now \in Nat, NEW pol \in TTL,
           NEW sg \in [Signers(ks) -> Nat],
           \A i \in Signers(ks) : sg[i] >= RefreshBefore
    PROVE  /\ NextMaintenance(ks, pol, sg) \in Nat
           /\ \A t \in RolloverTimes(ks, pol) :
                 NextMaintenance(ks, pol, sg) <= t \/ NextMaintenance(ks, pol, sg) <= now
           /\ \A i \in Signers(ks) : NextMaintenance(ks, pol, sg) <= sg[i] - RefreshBefore
<1> DEFINE T == {IF t <= now THEN now ELSE t : t \in TransitionTimes(ks, pol)}
           R == {sg[i] - RefreshBefore : i \in DOMAIN sg}
<1>1. TransitionTimes(ks, pol) \subseteq Int /\ RolloverTimes(ks, pol) \subseteq TransitionTimes(ks, pol)
  BY RolloversAreScheduled
<1>2. T \subseteq Nat
  BY <1>1
<1>3. R \subseteq Nat
  BY ConstantsType
<1>4. R /= {}
  <2>1. PICK i \in DOMAIN ks : In(ks, "zsk", "active") = {i}
    BY DEF Shape, Complement
  <2>2. i \in Signers(ks)
    BY <2>1 DEF In, Signers
  <2> QED  BY <2>2
<1>5. T \cup R \in SUBSET Nat /\ T \cup R /= {}
  BY <1>2, <1>3, <1>4
<1>6. NextMaintenance(ks, pol, sg) = Min(T \cup R)
  BY DEF NextMaintenance
<1>7. /\ NextMaintenance(ks, pol, sg) \in Nat
      /\ \A x \in T \cup R : NextMaintenance(ks, pol, sg) <= x
  <2> HIDE DEF T, R
  <2> QED  BY <1>5, <1>6, MinIsLeast
<1>8. ASSUME NEW t \in RolloverTimes(ks, pol)
      PROVE  NextMaintenance(ks, pol, sg) <= t \/ NextMaintenance(ks, pol, sg) <= now
  <2>1. t \in TransitionTimes(ks, pol)
    BY <1>1
  <2>2. (IF t <= now THEN now ELSE t) \in T
    BY <2>1
  <2>3. NextMaintenance(ks, pol, sg) <= IF t <= now THEN now ELSE t
    BY <1>7, <2>2
  <2> QED  BY <2>3
<1>9. ASSUME NEW i \in Signers(ks)
      PROVE  NextMaintenance(ks, pol, sg) <= sg[i] - RefreshBefore
  BY <1>7
<1> QED  BY <1>7, <1>8, <1>9

\* A signature the code keeps or makes is not due for renewal.
LEMMA SignaturesAreFresh ==
    ASSUME NEW ks, NEW pol, NEW edited \in BOOLEAN, now \in Nat,
           \A i \in DOMAIN sigs : sigs[i] \in Nat
    PROVE  /\ Sign(ks, pol, edited) \in [Signers(ks) -> Nat]
           /\ \A i \in Signers(ks) : Sign(ks, pol, edited)[i] > now + RefreshBefore
BY ConstantsType, SignaturesLast DEF Sign, Reusable

-----------------------------------------------------------------------------
(* How a transaction on a signed zone may change a key row.                *)

Kept(i, ks) == i \in DOMAIN keys /\ ks[i] = keys[i]

Activates(i, ks) ==
    /\ i \in In(keys, "zsk", "published")
    /\ ActivationTime(keys[i], ttl) <= now
    /\ ks[i] = [keys[i] EXCEPT !.state = "active", !.activatedAt = now]

Retires(i, ks) ==
    /\ i \in In(keys, "zsk", "active")
    /\ ks[i] = [keys[i] EXCEPT !.state = "retired", !.retiredAt = now]

Dropped(i, ks) ==
    /\ i \in In(keys, "zsk", "retired")
    /\ RemovalTime(keys[i], ttl) <= now
    /\ ks[i] = Removed(keys[i])

Superseded(i, ks) ==
    /\ i \in Ksks(keys)
    /\ \E j \in Ksks(keys) : /\ i < j /\ keys[j].dsState = "seen"
                             /\ OldKskRemoval(keys[j]) <= now
    /\ ks[i] = Removed(keys[i])

Confirmed(i, ks) ==
    /\ i \in Ksks(keys)
    /\ keys[i].dsState = "pending"
    /\ ks[i] = [keys[i] EXCEPT !.dsState = "seen", !.dsSeenAt = now]

FreshRows == {NewKey("zsk", "published", "none"), NewKey("ksk", "active", "pending")}

Created(i, ks) == i \notin DOMAIN keys /\ ks[i] \in FreshRows

Changes(ks) ==
    /\ ks \in Seq(Key)
    /\ DOMAIN keys \subseteq DOMAIN ks
    /\ \A i \in DOMAIN ks :
          \/ Kept(i, ks) \/ Activates(i, ks) \/ Retires(i, ks) \/ Dropped(i, ks)
          \/ Superseded(i, ks) \/ Confirmed(i, ks) \/ Created(i, ks)

LEMMA FreshRowsType ==
    ASSUME now \in Time
    PROVE  FreshRows \subseteq Key
BY DEF FreshRows, NewKey, Key, Never

LEMMA RowsOfAppend ==
    ASSUME NEW ks \in Seq(Key), NEW k \in Key
    PROVE  /\ Append(ks, k) \in Seq(Key)
           /\ Len(ks) \in Nat
           /\ DOMAIN ks = 1 .. Len(ks)
           /\ DOMAIN Append(ks, k) = 1 .. Len(ks) + 1
           /\ Append(ks, k)[Len(ks) + 1] = k
           /\ \A i \in DOMAIN ks : Append(ks, k)[i] = ks[i]
BY AppendProperties, LenProperties

\* A row that is added joins its role and state and changes no other.
LEMMA InOfAppend ==
    ASSUME NEW ks \in Seq(Key), NEW k \in Key, NEW role, NEW state
    PROVE  /\ k.role = role /\ k.state = state =>
                 In(Append(ks, k), role, state) = In(ks, role, state) \cup {Len(ks) + 1}
           /\ k.role /= role \/ k.state /= state =>
                 In(Append(ks, k), role, state) = In(ks, role, state)
BY RowsOfAppend DEF In

LEMMA AppendChanges ==
    ASSUME RowsInv, NEW ks, Changes(ks), NEW k \in FreshRows
    PROVE  Changes(Append(ks, k))
<1>1. ks \in Seq(Key) /\ k \in Key /\ keys \in Seq(Key)
  BY FreshRowsType DEF Changes, RowsInv
<1> DEFINE new == Append(ks, k)
<1>2. /\ new \in Seq(Key) /\ Len(ks) \in Nat /\ DOMAIN ks = 1 .. Len(ks)
      /\ DOMAIN new = 1 .. Len(ks) + 1 /\ new[Len(ks) + 1] = k
      /\ \A i \in DOMAIN ks : new[i] = ks[i]
  BY <1>1, RowsOfAppend
<1> HIDE DEF new
<1>3. ASSUME NEW i \in DOMAIN ks
      PROVE  \/ Kept(i, new) \/ Activates(i, new) \/ Retires(i, new) \/ Dropped(i, new)
             \/ Superseded(i, new) \/ Confirmed(i, new) \/ Created(i, new)
  <2>1. new[i] = ks[i]
    BY <1>2
  <2>2. \/ Kept(i, ks) \/ Activates(i, ks) \/ Retires(i, ks) \/ Dropped(i, ks)
        \/ Superseded(i, ks) \/ Confirmed(i, ks) \/ Created(i, ks)
    BY DEF Changes
  <2> QED
    BY <2>1, <2>2 DEF Kept, Activates, Retires, Dropped, Superseded, Confirmed, Created
<1>4. Created(Len(ks) + 1, new)
  BY <1>2 DEF Created, Changes
<1>5. DOMAIN keys \subseteq DOMAIN new
  BY <1>2 DEF Changes
<1>6. Changes(new)
  BY <1>2, <1>3, <1>4, <1>5 DEF Changes
<1> QED  BY <1>6 DEF new

\* What a key in use was before the transaction.
LEMMA RowBefore ==
    ASSUME RowsInv, NEW ks, Changes(ks), NEW i \in Dnskeys(ks), i \in DOMAIN keys
    PROVE  /\ i \in Dnskeys(keys)
           /\ ks[i].role = keys[i].role
           /\ ks[i].publishedAt = keys[i].publishedAt
           /\ ks[i].role = "ksk" =>
                 /\ ks[i].state = keys[i].state
                 /\ ks[i].activatedAt = keys[i].activatedAt
                 /\ \/ ks[i].dsState = keys[i].dsState /\ ks[i].dsSeenAt = keys[i].dsSeenAt
                    \/ Confirmed(i, ks)
           /\ ks[i].role = "zsk" =>
                 /\ ks[i].dsState = keys[i].dsState /\ ks[i].dsSeenAt = keys[i].dsSeenAt
                 /\ ks[i].state = "published" => keys[i].state = "published"
                 /\ ks[i].state = "active" =>
                       \/ keys[i].state = "active" /\ ks[i].activatedAt = keys[i].activatedAt
                       \/ /\ keys[i].state = "published" /\ ActivationTime(keys[i], ttl) <= now
                          /\ ks[i].activatedAt = now
                 /\ ks[i].state = "retired" =>
                       \/ keys[i].state = "retired" /\ ks[i].retiredAt = keys[i].retiredAt
                       \/ keys[i].state = "active" /\ ks[i].retiredAt = now
<1>1. ks[i] \in Key /\ keys[i] \in Key /\ ks[i].state /= "removed" /\ i \in DOMAIN ks
  BY RowType DEF RowsInv, Changes, Dnskeys
<1>2. \/ Kept(i, ks) \/ Activates(i, ks) \/ Retires(i, ks) \/ Dropped(i, ks)
      \/ Superseded(i, ks) \/ Confirmed(i, ks)
  BY <1>1 DEF Changes, Created
<1>3. CASE Kept(i, ks)
  BY <1>1, <1>3 DEF Kept, Dnskeys
<1>4. CASE Activates(i, ks)
  BY <1>1, <1>4 DEF Activates, Key, Dnskeys, In
<1>5. CASE Retires(i, ks)
  BY <1>1, <1>5 DEF Retires, Key, Dnskeys, In
<1>6. CASE Dropped(i, ks) \/ Superseded(i, ks)
  BY <1>1, <1>6 DEF Dropped, Superseded, Removed, Key, Dnskeys, In
<1>7. CASE Confirmed(i, ks)
  BY <1>1, <1>7 DEF Confirmed, Key, Dnskeys, In, Ksks
<1> QED  BY <1>2, <1>3, <1>4, <1>5, <1>6, <1>7

\* What becomes of a key in use.
LEMMA RowAfter ==
    ASSUME RowsInv, NEW ks, Changes(ks), NEW i \in Dnskeys(keys)
    PROVE  /\ i \in DOMAIN ks
           /\ i \in Dnskeys(ks) \/ Dropped(i, ks) \/ Superseded(i, ks)
<1>1. i \in DOMAIN keys /\ i \in DOMAIN ks /\ keys[i].state /= "removed" /\ keys[i] \in Key
  BY RowType DEF RowsInv, Changes, Dnskeys
<1>2. \/ Kept(i, ks) \/ Activates(i, ks) \/ Retires(i, ks) \/ Dropped(i, ks)
      \/ Superseded(i, ks) \/ Confirmed(i, ks)
  BY <1>1 DEF Changes, Created
<1> QED
  BY <1>1, <1>2 DEF Kept, Activates, Retires, Confirmed, Dnskeys, Key, In, Ksks

\* A created row: the newest, of now.
LEMMA RowCreated ==
    ASSUME RowsInv, NEW ks, Changes(ks), NEW i \in DOMAIN ks, i \notin DOMAIN keys
    PROVE  /\ ks[i].publishedAt = now
           /\ ks[i].dsState /= "seen"
           /\ \/ ks[i].role = "zsk" /\ ks[i].state = "published"
              \/ ks[i].role = "ksk" /\ ks[i].state = "active" /\ ks[i].activatedAt = now
           /\ \A j \in DOMAIN keys : j < i
<1>1. Created(i, ks)
  BY DEF Changes, Kept, Activates, Retires, Dropped, Superseded, Confirmed, In, Ksks
<1>2. DOMAIN ks = 1 .. Len(ks) /\ DOMAIN keys = 1 .. Len(keys)
      /\ Len(ks) \in Nat /\ Len(keys) \in Nat
  BY LenProperties DEF RowsInv, Changes
<1>3. \A j \in DOMAIN keys : j < i
  BY <1>2
<1> QED  BY <1>1, <1>3 DEF Created, FreshRows, NewKey

LEMMA ChangesKeepShape ==
    ASSUME RowsInv, enabled, NEW ks, Changes(ks), Complement(ks)
    PROVE  Shape(ks)
<1>1. Shape(keys) /\ now \in Nat
  BY ConstantsType DEF RowsInv, Time
<1>2. TimesPassed(ks)
  <2> SUFFICES ASSUME NEW i \in Dnskeys(ks)
               PROVE  /\ ks[i].publishedAt \in 0 .. now
                      /\ ks[i].state = "active" => ks[i].activatedAt \in 0 .. now
                      /\ ks[i].state = "retired" => ks[i].retiredAt \in 0 .. now
                      /\ ks[i].dsState = "seen" => ks[i].dsSeenAt \in 0 .. now
    BY DEF TimesPassed
  <2>0. i \in DOMAIN ks /\ ks[i] \in Key
    BY RowType DEF Dnskeys, Changes
  <2>1. CASE i \in DOMAIN keys
    <3>1. /\ i \in Dnskeys(keys) /\ keys[i].publishedAt \in 0 .. now
          /\ keys[i].state = "active" => keys[i].activatedAt \in 0 .. now
          /\ keys[i].state = "retired" => keys[i].retiredAt \in 0 .. now
          /\ keys[i].dsState = "seen" => keys[i].dsSeenAt \in 0 .. now
      BY <1>1, <2>1, RowBefore DEF Shape, TimesPassed
    <3>2. ks[i].publishedAt \in 0 .. now
      BY <2>1, <3>1, RowBefore
    <3>3. CASE ks[i].role = "ksk"
      <4>1. KsksInOrder(keys)
        BY <1>1 DEF Shape
      <4>2. keys[i].state = "active"
        BY <2>1, <3>1, <3>3, <4>1, RowBefore DEF KsksInOrder
      <4>3. ks[i].dsState = "seen" => ks[i].dsSeenAt \in 0 .. now
        <5>1. CASE Confirmed(i, ks)
          <6>1. keys[i] \in Key
            BY <2>1, RowType DEF RowsInv
          <6>2. ks[i].dsSeenAt = now
            BY <5>1, <6>1 DEF Confirmed, Key
          <6> QED  BY <6>2, <1>1
        <5>2. CASE ~Confirmed(i, ks)
          BY <2>1, <3>1, <3>3, <5>2, RowBefore
        <5> QED  BY <5>1, <5>2
      <4> QED  BY <2>1, <3>1, <3>2, <3>3, <4>2, <4>3, RowBefore
    <3>4. CASE ks[i].role = "zsk"
      BY <1>1, <2>1, <3>1, <3>2, <3>4, RowBefore
    <3> QED  BY <2>0, <3>3, <3>4 DEF Key
  <2>2. CASE i \notin DOMAIN keys
    BY <1>1, <2>0, <2>2, RowCreated
  <2> QED  BY <2>1, <2>2
<1>3. KsksInOrder(ks)
  <2>1. KsksInOrder(keys) /\ TimesPassed(keys)
    BY <1>1 DEF Shape
  <2>2. ASSUME NEW i \in Dnskeys(ks), ks[i].role = "ksk"
        PROVE  ks[i].state = "active"
    <3>1. i \in DOMAIN ks
      BY DEF Dnskeys
    <3>2. CASE i \in DOMAIN keys
      BY <2>1, <2>2, <3>2, RowBefore DEF KsksInOrder
    <3>3. CASE i \notin DOMAIN keys
      BY <2>2, <3>1, <3>3, RowCreated
    <3> QED  BY <3>2, <3>3
  <2>3. ASSUME NEW i \in Ksks(ks), NEW j \in Ksks(ks), i < j
        PROVE  ks[i].activatedAt <= ks[j].activatedAt
    <3>1. /\ i \in Dnskeys(ks) /\ i \in DOMAIN ks /\ ks[i].role = "ksk"
          /\ j \in Dnskeys(ks) /\ j \in DOMAIN ks /\ ks[j].role = "ksk"
          /\ ks[i].state = "active"
      BY DEF Ksks, In, Dnskeys
    <3>2. CASE j \in DOMAIN keys
      <4>1. i \in DOMAIN keys
        <5>1. i \in Nat /\ j \in Nat /\ i > 0 /\ DOMAIN keys = 1 .. Len(keys)
          BY <3>1, RowType, LenProperties DEF Changes, RowsInv
        <5> QED  BY <2>3, <3>2, <5>1
      <4>2. i \in Ksks(keys) /\ j \in Ksks(keys)
        BY <2>1, <3>1, <3>2, <4>1, RowBefore DEF KsksInOrder, Ksks, In
      <4>3. /\ ks[i].activatedAt = keys[i].activatedAt
            /\ ks[j].activatedAt = keys[j].activatedAt
        BY <3>1, <3>2, <4>1, RowBefore
      <4> QED  BY <2>1, <2>3, <4>2, <4>3 DEF KsksInOrder
    <3>3. CASE j \notin DOMAIN keys
      <4>1. ks[j].activatedAt = now
        BY <3>1, <3>3, RowCreated
      <4>2. ks[i].activatedAt \in 0 .. now
        BY <1>2, <3>1 DEF TimesPassed
      <4> QED  BY <1>1, <4>1, <4>2
    <3> QED  BY <3>2, <3>3
  <2> QED  BY <2>2, <2>3 DEF KsksInOrder
<1> QED  BY <1>2, <1>3 DEF Shape

-----------------------------------------------------------------------------
(* Advance, stage by stage.                                                *)

LEMMA FunctionOfRows ==
    ASSUME NEW ks \in Seq(Key), NEW f, DOMAIN f = DOMAIN ks, f = [i \in DOMAIN ks |-> f[i]],
           \A i \in DOMAIN ks : f[i] \in Key
    PROVE  f \in Seq(Key)
<1>1. DOMAIN ks = 1 .. Len(ks) /\ Len(ks) \in Nat
  BY LenProperties
<1>2. f \in [1 .. Len(ks) -> Key]
  BY <1>1
<1> QED  BY <1>1, <1>2, IsASeq

\* At most one ZSK is due to sign, and then it takes the place of the one.
LEMMA AdvanceZskRows ==
    ASSUME RowsInv, enabled
    PROVE  /\ AdvanceZsk(keys) \in Seq(Key)
           /\ DOMAIN AdvanceZsk(keys) = DOMAIN keys
           /\ \A i \in DOMAIN keys :
                 \/ Kept(i, AdvanceZsk(keys))
                 \/ Activates(i, AdvanceZsk(keys))
                 \/ Retires(i, AdvanceZsk(keys))
           /\ \A i \in In(keys, "zsk", "published") :
                 ActivationTime(keys[i], ttl) <= now => Activates(i, AdvanceZsk(keys))
           /\ \E i \in DOMAIN keys : In(AdvanceZsk(keys), "zsk", "active") = {i}
<1> DEFINE ks == AdvanceZsk(keys)
<1>1. /\ keys \in Seq(Key) /\ now \in Time /\ Complement(keys)
      /\ \A i \in DOMAIN keys : keys[i] \in Key
  BY RowType DEF RowsInv, Shape
<1>2. PICK a \in DOMAIN keys : In(keys, "zsk", "active") = {a}
  BY <1>1 DEF Complement
<1>3. Activating(keys) = {i \in In(keys, "zsk", "published") : now >= ActivationTime(keys[i], ttl)}
  BY <1>2 DEF Activating
<1>4. /\ DOMAIN ks = DOMAIN keys
      /\ ks = [i \in DOMAIN keys |-> ks[i]]
  BY DEF AdvanceZsk
<1>5. \A i \in In(keys, "zsk", "published") :
          ActivationTime(keys[i], ttl) \in Int /\ now \in Int
  <2> TAKE i \in In(keys, "zsk", "published")
  <2>1. keys[i].publishedAt \in Int
    BY <1>1, RowType DEF In
  <2> QED  BY <2>1, <1>1, ConstantsType, TTLType DEF ActivationTime, Time, RowsInv
<1>6. CASE Activating(keys) = {}
  <2>1. \A i \in DOMAIN keys : ks[i] = keys[i]
    BY <1>6 DEF AdvanceZsk
  <2>2. In(ks, "zsk", "active") = {a}
    BY <1>2, <1>4, <2>1 DEF In
  <2>3. ks = keys
    BY <1>4, <2>1, <1>1, LenProperties
  <2>4. \A i \in In(keys, "zsk", "published") : ~(ActivationTime(keys[i], ttl) <= now)
    BY <1>3, <1>5, <1>6
  <2> QED  BY <1>1, <2>1, <2>2, <2>3, <2>4 DEF Kept
<1>7. CASE Activating(keys) /= {}
  <2>1. PICK b \in Activating(keys) : TRUE
    BY <1>7
  <2>2. /\ b \in In(keys, "zsk", "published") /\ ActivationTime(keys[b], ttl) <= now
        /\ b \in DOMAIN keys /\ b /= a
    BY <1>2, <1>3, <1>5, <2>1 DEF In
  <2>3. In(keys, "zsk", "published") = {b}
    BY <1>1, <2>2 DEF Complement
  <2>4. Activating(keys) = {b}
    BY <1>3, <2>1, <2>3
  <2>5. Max(Activating(keys)) = b
    <3>1. b \in Nat
      BY <1>1, <2>2, RowType
    <3>2. \E x \in {b} : \A y \in {b} : x >= y
      BY <3>1
    <3>3. Max({b}) \in {b}
      BY <3>2 DEF Max
    <3> QED  BY <2>4, <3>3
  <2>6. ks[b] = [keys[b] EXCEPT !.state = "active", !.activatedAt = now]
    BY <1>7, <2>2, <2>5 DEF AdvanceZsk
  <2>7. ks[a] = [keys[a] EXCEPT !.state = "retired", !.retiredAt = now]
    BY <1>2, <1>7, <2>2, <2>5 DEF AdvanceZsk
  <2>8. \A i \in DOMAIN keys : i /= a /\ i /= b => ks[i] = keys[i]
    BY <1>2, <1>7, <2>4, <2>5 DEF AdvanceZsk
  <2>9. keys[a] \in Key /\ keys[b] \in Key /\ keys[b].role = "zsk"
    BY <1>1, <2>2 DEF In
  <2>10. \A i \in DOMAIN keys : ks[i] \in Key
    <3>1. ks[a] \in Key
      BY <1>1, <2>7, <2>9 DEF Key
    <3>2. ks[b] \in Key
      BY <1>1, <2>6, <2>9 DEF Key
    <3> QED  BY <1>1, <2>8, <3>1, <3>2
  <2>11. In(ks, "zsk", "active") = {b}
    <3>1. ks[a].state = "retired" /\ ks[b].state = "active" /\ ks[b].role = "zsk"
      BY <2>6, <2>7, <2>9 DEF Key
    <3>2. \A i \in DOMAIN keys : i /= a /\ i /= b => ~(ks[i].role = "zsk" /\ ks[i].state = "active")
      BY <1>2, <2>8 DEF In
    <3> QED  BY <1>4, <2>2, <3>1, <3>2 DEF In
  <2>12. ks \in Seq(Key)
    <3> HIDE DEF ks
    <3> QED  BY <1>1, <1>4, <2>10, FunctionOfRows
  <2>13. Activates(b, ks) /\ Retires(a, ks)
    BY <1>2, <2>2, <2>6, <2>7 DEF Activates, Retires
  <2>14. \A i \in DOMAIN keys : i /= a /\ i /= b => Kept(i, ks)
    BY <2>8 DEF Kept
  <2> HIDE DEF ks
  <2>15. /\ ks \in Seq(Key) /\ DOMAIN ks = DOMAIN keys
         /\ \A i \in DOMAIN keys : Kept(i, ks) \/ Activates(i, ks) \/ Retires(i, ks)
         /\ \A i \in In(keys, "zsk", "published") :
               ActivationTime(keys[i], ttl) <= now => Activates(i, ks)
         /\ \E i \in DOMAIN keys : In(ks, "zsk", "active") = {i}
    BY <1>4, <2>2, <2>3, <2>11, <2>12, <2>13, <2>14
  <2> QED  BY <2>15 DEF ks
<1> QED  BY <1>6, <1>7

LEMMA RemovedType ==
    ASSUME NEW k \in Key
    PROVE  Removed(k) \in Key /\ Removed(k).state = "removed" /\ Removed(k).role = k.role
BY DEF Removed, Key, Never

\* Only a ZSK that had retired before goes, since a retiring one has to wait.
LEMMA RemoveRetiredRows ==
    ASSUME RowsInv, enabled, NEW ks, ks = RemoveRetired(AdvanceZsk(keys))
    PROVE  /\ ks \in Seq(Key)
           /\ DOMAIN ks = DOMAIN keys
           /\ \A i \in DOMAIN keys :
                 Kept(i, ks) \/ Activates(i, ks) \/ Retires(i, ks) \/ Dropped(i, ks)
           /\ \A i \in In(keys, "zsk", "published") :
                 ActivationTime(keys[i], ttl) <= now => Activates(i, ks)
           /\ \A i \in In(ks, "zsk", "retired") : now < RemovalTime(ks[i], ttl)
           /\ \E i \in DOMAIN keys : In(ks, "zsk", "active") = {i}
<1>1. PICK z : z = AdvanceZsk(keys)
  OBVIOUS
<1>2. /\ z \in Seq(Key) /\ DOMAIN z = DOMAIN keys
      /\ \A i \in DOMAIN keys : Kept(i, z) \/ Activates(i, z) \/ Retires(i, z)
      /\ \A i \in In(keys, "zsk", "published") :
            ActivationTime(keys[i], ttl) <= now => Activates(i, z)
      /\ \E i \in DOMAIN keys : In(z, "zsk", "active") = {i}
  BY <1>1, AdvanceZskRows
<1>3. /\ \A i \in DOMAIN keys : z[i] \in Key /\ keys[i] \in Key
      /\ now \in Time /\ now \in Nat /\ keys \in Seq(Key)
  BY <1>2, RowType, ConstantsType DEF RowsInv, Time
<1>4. /\ DOMAIN ks = DOMAIN keys /\ ks = [i \in DOMAIN keys |-> ks[i]]
      /\ \A i \in DOMAIN keys :
            ks[i] = IF i \in In(z, "zsk", "retired") /\ now >= RemovalTime(z[i], ttl)
                    THEN Removed(z[i]) ELSE z[i]
  BY <1>1, <1>2 DEF RemoveRetired
<1>5. ASSUME NEW i \in DOMAIN keys
      PROVE  RemovalTime(z[i], ttl) \in Int
  <2>1. z[i].retiredAt \in Int
    BY <1>2, RowType
  <2> QED  BY <2>1, ConstantsType, TTLType DEF RemovalTime, RowsInv
<1>6. ASSUME NEW i \in In(z, "zsk", "retired"), now >= RemovalTime(z[i], ttl)
      PROVE  Dropped(i, ks)
  <2>1. i \in DOMAIN keys /\ z[i].state = "retired"
    BY <1>2 DEF In
  <2>2. ~Activates(i, z)
    BY <1>3, <2>1 DEF Activates, Key
  <2>3. ~Retires(i, z)
    <3>1. ASSUME Retires(i, z) PROVE FALSE
      <4>1. z[i].retiredAt = now
        BY <3>1, <1>3, <2>1 DEF Retires, Key
      <4> QED  BY <4>1, <1>3, <1>6, ConstantsType, TTLType, PropagationIsPositive DEF RemovalTime, RowsInv
    <3> QED  BY <3>1
  <2>4. z[i] = keys[i]
    BY <1>2, <2>1, <2>2, <2>3 DEF Kept
  <2>5. ks[i] = Removed(keys[i])
    BY <1>4, <1>6, <2>1, <2>4
  <2>6. RemovalTime(keys[i], ttl) <= now
    BY <1>3, <1>5, <1>6, <2>1, <2>4
  <2>7. i \in In(keys, "zsk", "retired")
    BY <1>6, <2>1, <2>4 DEF In
  <2> QED  BY <2>5, <2>6, <2>7 DEF Dropped
<1>7. \A i \in DOMAIN keys :
          ~(i \in In(z, "zsk", "retired") /\ now >= RemovalTime(z[i], ttl)) => ks[i] = z[i]
  BY <1>4
<1>8. ASSUME NEW i \in DOMAIN keys
      PROVE  Kept(i, ks) \/ Activates(i, ks) \/ Retires(i, ks) \/ Dropped(i, ks)
  <2>1. CASE i \in In(z, "zsk", "retired") /\ now >= RemovalTime(z[i], ttl)
    BY <1>6, <2>1
  <2>2. CASE ~(i \in In(z, "zsk", "retired") /\ now >= RemovalTime(z[i], ttl))
    <3>1. ks[i] = z[i] /\ (Kept(i, z) \/ Activates(i, z) \/ Retires(i, z))
      BY <1>2, <1>7, <2>2
    <3> QED  BY <3>1 DEF Kept, Activates, Retires
  <2> QED  BY <2>1, <2>2
<1>9. \A i \in DOMAIN keys : ks[i] \in Key
  BY <1>3, <1>4, RemovedType
<1>10. ks \in Seq(Key)
  BY <1>3, <1>4, <1>9, FunctionOfRows
<1>11. ASSUME NEW i \in In(keys, "zsk", "published"), ActivationTime(keys[i], ttl) <= now
       PROVE  Activates(i, ks)
  <2>1. i \in DOMAIN keys /\ Activates(i, z)
    BY <1>2, <1>11 DEF In
  <2>2. z[i].state = "active"
    BY <1>3, <2>1 DEF Activates, Key
  <2>3. ks[i] = z[i]
    BY <1>7, <2>1, <2>2 DEF In
  <2> QED  BY <2>1, <2>3 DEF Activates
<1>12. ASSUME NEW i \in In(ks, "zsk", "retired")
       PROVE  now < RemovalTime(ks[i], ttl)
  <2>1. i \in DOMAIN keys /\ ks[i].state = "retired" /\ ks[i].role = "zsk"
    BY <1>4 DEF In
  <2>2. CASE i \in In(z, "zsk", "retired") /\ now >= RemovalTime(z[i], ttl)
    <3>1. ks[i].state = "removed"
      BY <1>3, <1>4, <2>1, <2>2 DEF Removed, Key
    <3> QED  BY <2>1, <3>1
  <2>3. CASE ~(i \in In(z, "zsk", "retired") /\ now >= RemovalTime(z[i], ttl))
    <3>1. ks[i] = z[i]
      BY <1>7, <2>1, <2>3
    <3>2. ~(now >= RemovalTime(z[i], ttl))
      BY <1>2, <2>1, <2>3, <3>1 DEF In
    <3> QED  BY <1>3, <1>5, <2>1, <3>1, <3>2
  <2> QED  BY <2>2, <2>3
<1>13. In(ks, "zsk", "active") = In(z, "zsk", "active")
  <2>1. ASSUME NEW i \in DOMAIN keys
        PROVE  (ks[i].role = "zsk" /\ ks[i].state = "active") <=>
                 (z[i].role = "zsk" /\ z[i].state = "active")
    <3>1. CASE i \in In(z, "zsk", "retired") /\ now >= RemovalTime(z[i], ttl)
      <4>1. ks[i].state = "removed" /\ z[i].state = "retired"
        BY <1>3, <1>4, <3>1 DEF Removed, Key, In
      <4> QED  BY <4>1
    <3>2. CASE ~(i \in In(z, "zsk", "retired") /\ now >= RemovalTime(z[i], ttl))
      BY <1>7, <3>2
    <3> QED  BY <3>1, <3>2
  <2> QED  BY <1>2, <1>4, <2>1 DEF In
<1> QED  BY <1>2, <1>4, <1>8, <1>10, <1>11, <1>12, <1>13

\* What is due is done: the rows change one step each, the zone keeps its
\* complement of keys, and no deadline of what remains has passed.
LEMMA AdvanceRows ==
    ASSUME RowsInv, enabled
    PROVE  /\ Changes(Advance(keys))
           /\ Complement(Advance(keys))
           /\ \A t \in RolloverTimes(Advance(keys), ttl) : now < t
<1>1. PICK r : r = RemoveRetired(AdvanceZsk(keys))
  OBVIOUS
<1>2. /\ r \in Seq(Key) /\ DOMAIN r = DOMAIN keys
      /\ \A i \in DOMAIN keys :
            Kept(i, r) \/ Activates(i, r) \/ Retires(i, r) \/ Dropped(i, r)
      /\ \A i \in In(keys, "zsk", "published") :
            ActivationTime(keys[i], ttl) <= now => Activates(i, r)
      /\ \A i \in In(r, "zsk", "retired") : now < RemovalTime(r[i], ttl)
      /\ \E i \in DOMAIN keys : In(r, "zsk", "active") = {i}
  BY <1>1, RemoveRetiredRows
<1>3. /\ \A i \in DOMAIN keys : r[i] \in Key /\ keys[i] \in Key /\ i \in Nat
      /\ now \in Nat /\ keys \in Seq(Key) /\ Shape(keys) /\ Complement(keys)
  BY <1>2, RowType, ConstantsType DEF RowsInv, Time, Shape
<1>4. Changes(r)
  BY <1>2 DEF Changes
<1>5. \A i \in DOMAIN keys : keys[i].role = "ksk" => r[i] = keys[i]
  BY <1>2 DEF Kept, Activates, Retires, Dropped, In
<1>6. \A i \in DOMAIN keys : r[i].role = keys[i].role
  <2> TAKE i \in DOMAIN keys
  <2>1. keys[i] \in Key
    BY <1>3
  <2>2. Activates(i, r) \/ Retires(i, r) => r[i].role = keys[i].role
    BY <2>1 DEF Activates, Retires, Key
  <2>3. Dropped(i, r) => r[i].role = keys[i].role
    BY <2>1, RemovedType DEF Dropped
  <2> QED  BY <1>2, <2>2, <2>3 DEF Kept
<1>7. Ksks(r) = Ksks(keys)
  BY <1>2, <1>5, <1>6 DEF Ksks, In
<1>8. ASSUME NEW i \in In(r, "zsk", "published")
      PROVE  /\ i \in In(keys, "zsk", "published")
             /\ r[i] = keys[i] /\ ~(ActivationTime(keys[i], ttl) <= now)
  <2>1. i \in DOMAIN keys /\ r[i].state = "published"
    BY <1>2 DEF In
  <2>2. ~Activates(i, r) /\ ~Retires(i, r)
    BY <1>3, <2>1 DEF Activates, Retires, Key
  <2>3. ~Dropped(i, r)
    BY <1>3, <2>1, RemovedType DEF Dropped
  <2>4. r[i] = keys[i]
    BY <1>2, <2>1, <2>2, <2>3 DEF Kept
  <2> QED  BY <1>2, <2>1, <2>2, <2>4 DEF In
<1>9. Complement(r)
  <2>1. \A i, j \in In(r, "zsk", "published") : i = j
    BY <1>3, <1>8 DEF Complement
  <2> QED  BY <1>2, <1>3, <1>7, <2>1 DEF Complement
<1>10. KsksInOrder(r)
  BY <1>4, <1>9, ChangesKeepShape DEF Shape
<1>11. PICK a : a = AdvanceKsk(r)
  OBVIOUS
<1>12. /\ DOMAIN a = DOMAIN keys /\ a = [i \in DOMAIN keys |-> a[i]]
       /\ \A i \in DOMAIN keys :
             a[i] = IF /\ KskRolloverConfirmed(r) /\ i = Older(r, Ksks(r))
                       /\ now >= OldKskRemoval(r[Newer(r, Ksks(r))])
                    THEN Removed(r[i]) ELSE r[i]
  BY <1>2, <1>11 DEF AdvanceKsk, Ksks
<1>13. \A i \in DOMAIN keys : a[i] \in Key
  BY <1>3, <1>12, RemovedType
<1>14. a \in Seq(Key)
  BY <1>3, <1>12, <1>13, FunctionOfRows
<1>15. a = Advance(keys)
  BY <1>1, <1>11 DEF Advance
<1>16. ASSUME NEW i \in DOMAIN keys
       PROVE  OldKskRemoval(r[i]) \in Int /\ ActivationTime(r[i], ttl) \in Int
  <2>1. r[i].dsSeenAt \in Int /\ r[i].publishedAt \in Int
    BY <1>2, RowType
  <2> QED  BY <2>1, ConstantsType, TTLType DEF OldKskRemoval, ActivationTime, RowsInv
<1>17. ASSUME NEW b, DOMAIN b = DOMAIN keys, NEW t \in RolloverTimes(b, ttl),
              \A i \in DOMAIN keys : b[i].role = "zsk" => b[i] = r[i],
              \A i, j \in Ksks(b) : i < j /\ b[j].dsState = "seen" => now < OldKskRemoval(b[j])
       PROVE  now < t
  <2>1. CASE t \in {ActivationTime(b[i], ttl) : i \in In(b, "zsk", "published")}
    <3>1. PICK i \in In(b, "zsk", "published") : t = ActivationTime(b[i], ttl)
      BY <2>1
    <3>2. i \in DOMAIN keys /\ b[i] = r[i] /\ i \in In(r, "zsk", "published")
      BY <1>2, <1>17 DEF In
    <3>3. r[i] = keys[i] /\ ~(ActivationTime(keys[i], ttl) <= now)
      BY <1>8, <3>2
    <3>4. t \in Int /\ ~(t <= now)
      BY <1>16, <3>1, <3>2, <3>3
    <3> QED  BY <1>3, <3>4
  <2>2. CASE t \in {RemovalTime(b[i], ttl) : i \in In(b, "zsk", "retired")}
    <3>1. PICK i \in In(b, "zsk", "retired") : t = RemovalTime(b[i], ttl)
      BY <2>2
    <3>2. b[i] = r[i] /\ i \in In(r, "zsk", "retired")
      BY <1>2, <1>17 DEF In
    <3> QED  BY <1>2, <3>1, <3>2
  <2>3. CASE t \in {OldKskRemoval(b[j]) : j \in {k \in Ksks(b) :
              b[k].dsState = "seen" /\ \E i \in Ksks(b) : i < k}}
    BY <1>17, <2>3
  <2> QED  BY <2>1, <2>2, <2>3 DEF RolloverTimes
<1>18. CASE /\ KskRolloverConfirmed(r)
            /\ now >= OldKskRemoval(r[Newer(r, Ksks(r))])
  <2>1. PICK i, j \in DOMAIN keys :
            /\ i < j /\ Ksks(r) = {i, j} /\ r[j].dsState = "seen"
            /\ Older(r, Ksks(r)) = i /\ Newer(r, Ksks(r)) = j
    BY <1>2, <1>9, <1>10, <1>18, ConfirmedPair
  <2>2. a[i] = Removed(r[i]) /\ \A k \in DOMAIN keys : k /= i => a[k] = r[k]
    BY <1>12, <1>18, <2>1
  <2>3. i \in Ksks(keys) /\ j \in Ksks(keys) /\ r[i] = keys[i] /\ r[j] = keys[j]
    BY <1>5, <1>7, <2>1 DEF Ksks, In
  <2>4. now >= OldKskRemoval(keys[j]) /\ OldKskRemoval(keys[j]) <= now
    BY <1>3, <1>16, <1>18, <2>1, <2>3
  <2>5. Superseded(i, a)
    BY <2>1, <2>2, <2>3, <2>4 DEF Superseded
  <2>6. Changes(a)
    <3>1. ASSUME NEW k \in DOMAIN keys, k /= i
          PROVE  Kept(k, a) \/ Activates(k, a) \/ Retires(k, a) \/ Dropped(k, a)
      BY <1>2, <2>2, <3>1 DEF Kept, Activates, Retires, Dropped
    <3> QED  BY <1>12, <1>14, <2>5, <3>1 DEF Changes
  <2>7. a[i].state = "removed" /\ a[i].role = "ksk" /\ i /= j
    BY <1>3, <2>1, <2>2, <2>3, RemovedType DEF Ksks, In
  <2>8. Ksks(a) = {j}
    BY <1>2, <1>12, <2>1, <2>2, <2>7 DEF Ksks, In
  <2>9. \A k \in DOMAIN keys : a[k].role = "zsk" => a[k] = r[k]
    BY <2>2, <2>7
  <2>10. \A state : In(a, "zsk", state) = In(r, "zsk", state)
    <3>1. r[i].role = "ksk"
      BY <2>3 DEF Ksks, In
    <3> QED  BY <1>2, <1>12, <2>2, <2>7, <3>1 DEF In
  <2>11. Complement(a)
    <3>1. Ksks(a) = {j, j} /\ j \in DOMAIN a
      BY <1>12, <2>8
    <3>2. /\ In(a, "zsk", "active") = In(r, "zsk", "active")
          /\ In(a, "zsk", "published") = In(r, "zsk", "published")
      BY <2>10
    <3> QED  BY <1>2, <1>9, <1>12, <3>1, <3>2 DEF Complement
  <2>12. \A k, l \in Ksks(a) : k < l => FALSE
    BY <1>3, <2>1, <2>8
  <2> QED  BY <1>12, <1>15, <1>17, <2>6, <2>9, <2>11, <2>12
<1>19. CASE ~(/\ KskRolloverConfirmed(r)
              /\ now >= OldKskRemoval(r[Newer(r, Ksks(r))]))
  <2>1. \A i \in DOMAIN keys : a[i] = r[i]
    BY <1>12, <1>19
  <2>2. a = r
    BY <1>2, <1>12, <1>14, <2>1, LenProperties, SeqEqual
  <2>3. ASSUME NEW i \in Ksks(r), NEW j \in Ksks(r), i < j, r[j].dsState = "seen"
        PROVE  now < OldKskRemoval(r[j])
    <3>1. KskRolloverConfirmed(r) /\ Newer(r, Ksks(r)) = j
      <4>1. i \in Nat /\ j \in Nat
        BY <1>2, <1>3 DEF Ksks, In
      <4> QED  BY <1>2, <1>9, <1>10, <2>3, <4>1, ConfirmedPair
    <3>2. OldKskRemoval(r[j]) \in Int
      BY <1>2, <1>16 DEF Ksks, In
    <3> QED  BY <1>3, <1>19, <3>1, <3>2
  <2> QED  BY <1>2, <1>4, <1>9, <1>15, <1>17, <2>2, <2>3
<1> QED  BY <1>18, <1>19

-----------------------------------------------------------------------------
(* The transactions on a signed zone.                                      *)

\* A transaction publishes the zone with rows that changed as above.  It leaves
\* nothing due when it ends a round of the maintainer, and a lapse when a cache
\* was not ready for the change.
Transaction(ks, pol, edited) ==
    /\ Changes(ks) /\ Complement(ks)
    /\ pol \in TTL
    /\ Publish(TRUE, ks, pol, edited)
    /\ idle' = idle \/ (idle' = 0 /\ \A t \in RolloverTimes(ks, pol) : now < t)
    /\ lapses' \subseteq {"ds", "ttl"} /\ lapses \subseteq lapses'
    /\ "ds" \in lapses' \/ \A i \in DOMAIN ks : Confirmed(i, ks) => i \in ds
    /\ "ttl" \in lapses' \/ LongWaits
          \/ \A i \in DOMAIN ks : ~Activates(i, ks) /\ ~Dropped(i, ks)
    /\ UNCHANGED <<now, ds, pastDS>>

LEMMA KeptChanges ==
    ASSUME RowsInv
    PROVE  Changes(keys)
BY DEF RowsInv, Changes, Kept

LEMMA RolloverTimesOfAppend ==
    ASSUME NEW ks \in Seq(Key), now \in Time, NEW k \in FreshRows, NEW pol \in TTL,
           NEW t \in RolloverTimes(Append(ks, k), pol)
    PROVE  t \in RolloverTimes(ks, pol) \/ now < t
<1> DEFINE new == Append(ks, k)
<1>1. k \in Key /\ now \in Nat
  BY FreshRowsType, ConstantsType DEF Time
<1>2. /\ k.publishedAt = now /\ k.dsState /= "seen" /\ k.state /= "retired"
      /\ k.role \in {"zsk", "ksk"}
  BY DEF FreshRows, NewKey
<1>3. /\ Len(ks) \in Nat /\ DOMAIN ks = 1 .. Len(ks)
      /\ new[Len(ks) + 1] = k /\ \A i \in DOMAIN ks : new[i] = ks[i]
  BY <1>1, RowsOfAppend
<1>4. ASSUME NEW role, NEW state
      PROVE  In(new, role, state) \subseteq In(ks, role, state) \cup {Len(ks) + 1}
  BY <1>1, InOfAppend
<1>5. In(new, "zsk", "retired") = In(ks, "zsk", "retired")
  <2>1. k.state /= "retired"
    BY <1>2
  <2> QED  BY <1>1, <2>1, InOfAppend
<1>6. \A role, state : In(ks, role, state) \subseteq DOMAIN ks
  BY DEF In
<1> HIDE DEF new
<1>7. CASE t \in {ActivationTime(new[i], pol) : i \in In(new, "zsk", "published")}
  <2>1. PICK i \in In(new, "zsk", "published") : t = ActivationTime(new[i], pol)
    BY <1>7
  <2>2. CASE i \in In(ks, "zsk", "published")
    <3>1. t = ActivationTime(ks[i], pol)
      BY <1>3, <1>6, <2>1, <2>2
    <3> QED  BY <2>2, <3>1 DEF RolloverTimes
  <2>3. CASE i = Len(ks) + 1
    BY <1>1, <1>2, <1>3, <2>1, <2>3, ConstantsType, TTLType, PropagationIsPositive DEF ActivationTime
  <2> QED  BY <1>4, <2>2, <2>3
<1>8. CASE t \in {RemovalTime(new[i], pol) : i \in In(new, "zsk", "retired")}
  <2>1. PICK i \in In(ks, "zsk", "retired") : t = RemovalTime(new[i], pol)
    BY <1>5, <1>8
  <2>2. t = RemovalTime(ks[i], pol)
    BY <1>3, <1>6, <2>1
  <2> QED  BY <2>2 DEF RolloverTimes
<1>9. CASE t \in {OldKskRemoval(new[j]) : j \in {m \in Ksks(new) :
              new[m].dsState = "seen" /\ \E i \in Ksks(new) : i < m}}
  <2>1. PICK j \in Ksks(new), i \in Ksks(new) :
            t = OldKskRemoval(new[j]) /\ new[j].dsState = "seen" /\ i < j
    BY <1>9
  <2>2. j /= Len(ks) + 1
    BY <1>2, <1>3, <2>1
  <2>3. j \in Ksks(ks) /\ j \in DOMAIN ks
    BY <1>4, <1>6, <2>2 DEF Ksks
  <2>4. i \in Ksks(ks)
    BY <1>3, <1>4, <2>1, <2>3 DEF Ksks
  <2>5. new[j] = ks[j]
    BY <1>3, <2>3
  <2> QED  BY <2>1, <2>3, <2>4, <2>5 DEF RolloverTimes
<1>10. t \in RolloverTimes(new, pol)
  BY DEF new
<1> QED  BY <1>7, <1>8, <1>9, <1>10 DEF RolloverTimes

\* What is kept or created is neither confirmed, activated nor dropped.
LEMMA QuietRows ==
    ASSUME RowsInv, NEW ks, ks \in Seq(Key),
           \A i \in DOMAIN ks : Kept(i, ks) \/ i \notin DOMAIN keys
    PROVE  \A i \in DOMAIN ks : ~Confirmed(i, ks) /\ ~Activates(i, ks) /\ ~Dropped(i, ks)
<1> TAKE i \in DOMAIN ks
<1>1. CASE i \notin DOMAIN keys
  BY <1>1 DEF Confirmed, Activates, Dropped, Ksks, In
<1>2. CASE i \in DOMAIN keys
  <2>1. keys[i] \in Key /\ ks[i] = keys[i]
    BY <1>2, RowType DEF RowsInv, Kept
  <2> QED  BY <1>2, <2>1, RemovedType DEF Confirmed, Activates, Dropped, In, Key
<1> QED  BY <1>1, <1>2

LEMMA EditIsTransaction ==
    ASSUME RowsInv, Edit
    PROVE  \E pol \in TTL, edited \in BOOLEAN : Transaction(keys, pol, edited)
<1>1. Complement(keys) /\ keys \in Seq(Key) /\ lapses \subseteq {"ds", "ttl"}
  BY DEF RowsInv, Shape, Edit
<1>2. PICK pol \in TTL, edited \in BOOLEAN : Publish(TRUE, keys, pol, edited)
  BY DEF Edit
<1>3. \A i \in DOMAIN keys : ~Confirmed(i, keys) /\ ~Activates(i, keys) /\ ~Dropped(i, keys)
  BY <1>1, QuietRows DEF Kept
<1>4. Transaction(keys, pol, edited)
  BY <1>1, <1>2, <1>3, KeptChanges DEF Edit, Transaction
<1> QED  BY <1>4

LEMMA StartRolloverIsTransaction ==
    ASSUME RowsInv, NEW role \in {"zsk", "ksk"}, StartRollover(role)
    PROVE  \E ks : Transaction(ks, ttl, FALSE)
<1>1. enabled /\ keys \in Seq(Key) /\ now \in Time /\ Complement(keys)
  BY DEF RowsInv, Shape, StartRollover
<1>2. PICK k : k = IF role = "zsk" THEN NewKey("zsk", "published", "none")
                   ELSE NewKey("ksk", "active", "pending")
  OBVIOUS
<1>3. /\ k \in FreshRows
      /\ role = "zsk" => k.role = "zsk" /\ k.state = "published"
      /\ role = "ksk" => k.role = "ksk" /\ k.state = "active"
  BY <1>2 DEF FreshRows, NewKey
<1>4. k \in Key
  BY <1>1, <1>3, FreshRowsType
<1> DEFINE ks == Append(keys, k)
<1>5. Changes(ks)
  BY <1>3, KeptChanges, AppendChanges
<1>6. \A i \in DOMAIN ks : ~Confirmed(i, ks) /\ ~Activates(i, ks) /\ ~Dropped(i, ks)
  <2>1. /\ ks \in Seq(Key)
        /\ \A i \in DOMAIN ks : Kept(i, ks) \/ i \notin DOMAIN keys
    BY <1>1, <1>4, RowsOfAppend DEF Kept
  <2> HIDE DEF ks
  <2> QED  BY <2>1, QuietRows
<1>7. DOMAIN ks = 1 .. Len(keys) + 1 /\ DOMAIN keys = 1 .. Len(keys) /\ Len(keys) \in Nat
  BY <1>1, <1>4, RowsOfAppend
<1>8. Complement(ks)
  <2>1. CASE role = "zsk"
    <3>1. In(keys, "zsk", "published") = {}
      BY <2>1 DEF StartRollover, RolloverBusy
    <3>2. In(ks, "zsk", "published") = {Len(keys) + 1}
      <4>1. k.role = "zsk" /\ k.state = "published"
        BY <1>3, <2>1
      <4>2. In(ks, "zsk", "published") = In(keys, "zsk", "published") \cup {Len(keys) + 1}
        BY <1>1, <1>4, <4>1, InOfAppend
      <4> QED  BY <3>1, <4>2
    <3>3. In(ks, "zsk", "active") = In(keys, "zsk", "active")
      <4>1. k.state /= "active"
        BY <1>3, <2>1
      <4> QED  BY <1>1, <1>4, <4>1, InOfAppend
    <3>4. Ksks(ks) = Ksks(keys)
      <4>1. k.role /= "ksk"
        BY <1>3, <2>1
      <4> QED  BY <1>1, <1>4, <4>1, InOfAppend DEF Ksks
    <3> QED
      <4> HIDE DEF ks
      <4> QED  BY <1>1, <1>7, <3>2, <3>3, <3>4 DEF Complement
  <2>2. CASE role = "ksk"
    <3>1. Cardinality(Ksks(keys)) < 2
      <4>1. ~(Cardinality(Ksks(keys)) >= 2)
        BY <2>2 DEF StartRollover, RolloverBusy, Ksks
      <4>2. Cardinality(Ksks(keys)) \in {1, 2}
        BY <1>1, PairSize DEF Complement
      <4> QED  BY <4>1, <4>2
    <3>2. PICK i \in DOMAIN keys : Ksks(keys) = {i}
      <4>1. PICK i, j \in DOMAIN keys : Ksks(keys) = {i, j}
        BY <1>1 DEF Complement
      <4>2. i /= j => Cardinality({i, j}) = 2
        BY PairSize
      <4> QED  BY <3>1, <4>1, <4>2
    <3>3. Ksks(ks) = {i, Len(keys) + 1}
      BY <1>1, <1>3, <1>4, <2>2, <3>2, InOfAppend DEF Ksks
    <3>4. /\ In(ks, "zsk", "active") = In(keys, "zsk", "active")
          /\ In(ks, "zsk", "published") = In(keys, "zsk", "published")
      <4>1. k.role /= "zsk"
        BY <1>3, <2>2
      <4> QED  BY <1>1, <1>4, <4>1, InOfAppend
    <3> QED
      <4> HIDE DEF ks
      <4> QED  BY <1>1, <1>7, <3>3, <3>4 DEF Complement
  <2> QED  BY <2>1, <2>2
<1>9. Publish(TRUE, ks, ttl, FALSE) /\ UNCHANGED <<now, idle, ds, pastDS, lapses>>
  BY <1>2 DEF StartRollover
<1> HIDE DEF ks
<1>10. Transaction(ks, ttl, FALSE)
  BY <1>5, <1>6, <1>8, <1>9 DEF Transaction, RowsInv
<1> QED  BY <1>10

LEMMA ConfirmIsTransaction ==
    ASSUME RowsInv, NEW i \in DOMAIN keys, ConfirmDS(i)
    PROVE  enabled /\ \E ks : Transaction(ks, ttl, FALSE)
<1>1. /\ keys \in Seq(Key) /\ keys[i] \in Key /\ now \in Time /\ now \in Nat
      /\ \A j \in DOMAIN keys : keys[j] \in Key
  BY RowType, ConstantsType DEF RowsInv, Time
<1>2. /\ i \in Ksks(keys) /\ keys[i].dsState = "pending"
      /\ lapses' = IF i \notin ds THEN lapses \cup {"ds"} ELSE lapses
      /\ UNCHANGED <<now, idle, ds, pastDS>>
  BY DEF ConfirmDS, Ksks, Lapse
<1>3. enabled
  BY <1>2 DEF RowsInv, Ksks, In, Dnskeys
<1>4. Complement(keys)
  BY <1>3 DEF RowsInv, Shape
<1>5. PICK ks : ks = [keys EXCEPT ![i].dsState = "seen", ![i].dsSeenAt = now]
  OBVIOUS
<1>6. Publish(TRUE, ks, ttl, FALSE)
  BY <1>5 DEF ConfirmDS
<1>7. /\ DOMAIN ks = DOMAIN keys /\ ks = [j \in DOMAIN keys |-> ks[j]]
      /\ \A j \in DOMAIN keys : j /= i => ks[j] = keys[j]
  BY <1>1, <1>5
<1>8. ks[i] = [keys[i] EXCEPT !.dsState = "seen", !.dsSeenAt = now]
  BY <1>1, <1>5 DEF Key
<1>9. /\ ks[i] \in Key /\ ks[i].role = keys[i].role /\ ks[i].state = keys[i].state
      /\ ks[i].dsSeenAt = now /\ keys[i].role = "ksk"
  BY <1>1, <1>2, <1>8 DEF Key, Ksks, In
<1>10. ks \in Seq(Key)
  BY <1>1, <1>7, <1>9, FunctionOfRows
<1>11. Confirmed(i, ks)
  BY <1>2, <1>8 DEF Confirmed
<1>12. \A j \in DOMAIN keys : j /= i => Kept(j, ks)
  BY <1>7 DEF Kept
<1>13. Changes(ks)
  BY <1>7, <1>10, <1>11, <1>12 DEF Changes
<1>14. \A role, state : In(ks, role, state) = In(keys, role, state)
  BY <1>7, <1>9 DEF In
<1>15. Ksks(ks) = Ksks(keys)
  BY <1>14 DEF Ksks
<1>16. Complement(ks)
  BY <1>4, <1>7, <1>14, <1>15 DEF Complement
<1>17. \A j \in DOMAIN ks : ~Activates(j, ks) /\ ~Dropped(j, ks)
  <2>1. ~Activates(i, ks) /\ ~Dropped(i, ks)
    BY <1>2 DEF Activates, Dropped, Ksks, In
  <2>2. ASSUME NEW j \in DOMAIN keys, j /= i
        PROVE  ~Activates(j, ks) /\ ~Dropped(j, ks)
    <3>1. ks[j] = keys[j] /\ keys[j] \in Key
      BY <1>1, <1>7, <2>2
    <3> QED  BY <3>1, RemovedType DEF Activates, Dropped, In, Key
  <2> QED  BY <1>7, <2>1, <2>2
<1>18. \A j \in DOMAIN ks : Confirmed(j, ks) => j = i
  <2> SUFFICES ASSUME NEW j \in DOMAIN keys, j /= i PROVE ~Confirmed(j, ks)
    BY <1>7
  <2>1. ks[j] = keys[j] /\ keys[j] \in Key
    BY <1>1, <1>7
  <2> QED  BY <2>1 DEF Confirmed, Key
<1>19. /\ lapses' \subseteq {"ds", "ttl"} /\ lapses \subseteq lapses'
       /\ "ds" \in lapses' \/ i \in ds
  BY <1>2 DEF RowsInv
<1>20. Transaction(ks, ttl, FALSE)
  BY <1>2, <1>6, <1>13, <1>16, <1>17, <1>18, <1>19 DEF Transaction, RowsInv
<1> QED  BY <1>3, <1>20

LEMMA MaintainIsTransaction ==
    ASSUME RowsInv, Maintain
    PROVE  \E ks : Transaction(ks, ttl, FALSE)
<1>1. /\ enabled /\ now \in Time /\ now \in Nat /\ idle' = 0
      /\ UNCHANGED <<now, ds, pastDS>> /\ ttl \in TTL /\ keys \in Seq(Key)
      /\ lapses \subseteq {"ds", "ttl"}
      /\ lapses' = IF ShortWait THEN lapses \cup {"ttl"} ELSE lapses
  BY ConstantsType DEF RowsInv, Maintain, Time, Lapse
<1>2. PICK ks : ks = Advance(keys)
  OBVIOUS
<1>3. Changes(ks) /\ Complement(ks) /\ \A t \in RolloverTimes(ks, ttl) : now < t
  BY <1>1, <1>2, AdvanceRows
<1>a. /\ lapses' \subseteq {"ds", "ttl"} /\ lapses \subseteq lapses'
      /\ ShortWait => "ttl" \in lapses'
  BY <1>1
<1>b. ASSUME NEW new, new \in Seq(Key), DOMAIN ks \subseteq DOMAIN new,
             \A i \in DOMAIN ks : new[i] = ks[i],
             NEW i \in DOMAIN new, Activates(i, new) \/ Dropped(i, new)
      PROVE  RemoveRetired(AdvanceZsk(keys)) /= keys
  <2>1. i \in DOMAIN keys /\ keys[i] \in Key /\ keys[i].role = "zsk" /\ new[i] /= keys[i]
    <3>1. i \in DOMAIN keys /\ keys[i] \in Key /\ keys[i].role = "zsk"
      BY <1>1, <1>b, RowType DEF Activates, Dropped, In
    <3>2. Activates(i, new) => new[i].state = "active" /\ keys[i].state = "published"
      BY <3>1 DEF Activates, In, Key
    <3>3. Dropped(i, new) => new[i].state = "removed" /\ keys[i].state = "retired"
      BY <3>1, RemovedType DEF Dropped, In
    <3> QED  BY <1>b, <3>1, <3>2, <3>3
  <2>2. new[i] = ks[i]
    BY <1>3, <1>b, <2>1 DEF Changes
  <2>3. PICK r : r = RemoveRetired(AdvanceZsk(keys))
    OBVIOUS
  <2>4. DOMAIN r = DOMAIN keys
    BY <1>1, <2>3, RemoveRetiredRows
  <2>5. ASSUME r = keys PROVE FALSE
    <3>1. ks = AdvanceKsk(keys)
      BY <1>2, <2>3, <2>5 DEF Advance
    <3>2. /\ KsksInOrder(keys) /\ Complement(keys)
      BY <1>1 DEF RowsInv, Shape
    <3>3. KskRolloverConfirmed(keys) => Older(keys, Ksks(keys)) \in Ksks(keys)
      BY <1>1, <3>2, ConfirmedPair
    <3>4. i \notin Ksks(keys)
      BY <2>1 DEF Ksks, In
    <3>5. ks[i] = keys[i]
      BY <2>1, <3>1, <3>3, <3>4 DEF AdvanceKsk, Ksks
    <3> QED  BY <2>1, <2>2, <3>5
  <2> QED  BY <2>3, <2>5
<1>c. ASSUME NEW new, new \in Seq(Key), DOMAIN ks \subseteq DOMAIN new,
             \A i \in DOMAIN ks : new[i] = ks[i]
      PROVE  \/ "ttl" \in lapses' \/ LongWaits
             \/ \A i \in DOMAIN new : ~Activates(i, new) /\ ~Dropped(i, new)
  <2> SUFFICES ASSUME ~LongWaits, NEW i \in DOMAIN new, Activates(i, new) \/ Dropped(i, new)
               PROVE  ShortWait
    BY <1>a
  <2>1. RemoveRetired(AdvanceZsk(keys)) /= keys
    BY <1>b, <1>c
  <2> QED  BY <2>1 DEF ShortWait
<1>d. ASSUME NEW new, Changes(new), NEW i \in DOMAIN new,
             \A j \in DOMAIN ks : new[j] = ks[j],
             DOMAIN ks \subseteq DOMAIN new
      PROVE  ~Confirmed(i, new)
  <2> SUFFICES ASSUME Confirmed(i, new) PROVE FALSE
    OBVIOUS
  <2>1. /\ i \in DOMAIN keys /\ keys[i] \in Key /\ i \in DOMAIN ks
        /\ keys[i].role = "ksk"
    BY <1>1, <1>3, RowType DEF Confirmed, Ksks, In, Changes
  <2>2. ks[i].dsState = "seen" /\ keys[i].dsState = "pending"
    BY <1>d, <2>1 DEF Confirmed, Key
  <2>3. PICK z : z = AdvanceZsk(keys)
    OBVIOUS
  <2>4. PICK r : r = RemoveRetired(z)
    OBVIOUS
  <2>5. r[i] = keys[i] /\ DOMAIN r = DOMAIN keys
    <3>1. /\ DOMAIN r = DOMAIN keys
          /\ Kept(i, r) \/ Activates(i, r) \/ Retires(i, r) \/ Dropped(i, r)
      BY <1>1, <2>1, <2>3, <2>4, RemoveRetiredRows
    <3> QED  BY <2>1, <3>1 DEF Kept, Activates, Retires, Dropped, In
  <2>6. ks[i] = keys[i] \/ ks[i] = Removed(keys[i])
    BY <1>2, <2>1, <2>3, <2>4, <2>5 DEF Advance, AdvanceKsk
  <2>7. Removed(keys[i]).dsState = "none"
    BY <2>1 DEF Removed, Key
  <2> QED  BY <2>2, <2>6, <2>7
<1>4. CASE ~(CreateZsk(ks) /\ Len(ks) < MaxKeys)
  <2>1. Publish(TRUE, ks, ttl, FALSE)
    BY <1>2, <1>4 DEF Maintain
  <2>2. Transaction(ks, ttl, FALSE)
    BY <1>1, <1>3, <1>a, <1>c, <1>d, <2>1 DEF Transaction, Changes
  <2> QED  BY <2>2
<1>5. CASE CreateZsk(ks) /\ Len(ks) < MaxKeys
  <2>1. PICK k : k = NewKey("zsk", "published", "none")
    OBVIOUS
  <2>2. k \in FreshRows /\ k.role = "zsk" /\ k.state = "published" /\ ks \in Seq(Key)
    BY <1>3, <2>1 DEF FreshRows, NewKey, Changes
  <2>3. k \in Key
    BY <1>1, <2>2, FreshRowsType
  <2> DEFINE new == Append(ks, k)
  <2>4. Publish(TRUE, new, ttl, FALSE)
    BY <1>2, <1>5, <2>1 DEF Maintain
  <2>5. Changes(new)
    BY <1>3, <2>2, AppendChanges
  <2>6. \A t \in RolloverTimes(new, ttl) : now < t
    BY <1>1, <1>3, <2>2, RolloverTimesOfAppend
  <2>7. DOMAIN new = 1 .. Len(ks) + 1 /\ DOMAIN ks = 1 .. Len(ks) /\ Len(ks) \in Nat
    BY <2>2, <2>3, RowsOfAppend
  <2>8. Complement(new)
    <3>1. In(ks, "zsk", "published") = {}
      BY <1>5 DEF CreateZsk, AwaitsLifetime
    <3>2. In(new, "zsk", "published") = In(ks, "zsk", "published") \cup {Len(ks) + 1}
      BY <2>2, <2>3, InOfAppend
    <3>3. In(new, "zsk", "active") = In(ks, "zsk", "active")
      <4>1. k.state /= "active"
        BY <2>2
      <4> QED  BY <2>2, <2>3, <4>1, InOfAppend
    <3>4. Ksks(new) = Ksks(ks)
      <4>1. k.role /= "ksk"
        BY <2>2
      <4> QED  BY <2>2, <2>3, <4>1, InOfAppend DEF Ksks
    <3> HIDE DEF new
    <3> QED  BY <1>3, <2>7, <3>1, <3>2, <3>3, <3>4 DEF Complement
  <2> HIDE DEF new
  <2>9. Transaction(new, ttl, FALSE)
    <3>1. new \in Seq(Key) /\ DOMAIN ks \subseteq DOMAIN new /\ \A i \in DOMAIN ks : new[i] = ks[i]
      BY <2>2, <2>3, RowsOfAppend DEF new
    <3>2. \A i \in DOMAIN new : ~Confirmed(i, new)
      BY <1>d, <2>5, <3>1
    <3>3. \/ "ttl" \in lapses' \/ LongWaits
          \/ \A i \in DOMAIN new : ~Activates(i, new) /\ ~Dropped(i, new)
      BY <1>c, <3>1
    <3> QED  BY <1>1, <1>a, <2>4, <2>5, <2>6, <2>8, <3>2, <3>3 DEF Transaction
  <2> QED  BY <2>9
<1> QED  BY <1>4, <1>5

-----------------------------------------------------------------------------
(* Rows and deadlines.                                                     *)

LEMMA SigsAreNat ==
    ASSUME RowsInv
    PROVE  \A i \in DOMAIN sigs : sigs[i] \in Nat
<1>1. CASE enabled
  BY <1>1 DEF RowsInv
<1>2. CASE ~enabled
  BY <1>2 DEF RowsInv
<1> QED  BY <1>1, <1>2

\* Signing and scheduling rows of the right shape.
LEMMA PublishSigned ==
    ASSUME RowsInv, NEW ks \in Seq(Key), Shape(ks), NEW edited \in BOOLEAN,
           NEW pol \in TTL, Publish(TRUE, ks, pol, edited), now' = now,
           idle' \in 0 .. Slack, lapses' \subseteq {"ds", "ttl"}
    PROVE  (RowsInv /\ DeadlinesInv)'
<1>1. now \in Time /\ now \in Nat /\ idle' \in Nat
  BY ConstantsType DEF RowsInv, Time
<1>2. /\ enabled' = TRUE /\ keys' = ks /\ ttl' = pol
      /\ sigs' = Sign(ks, pol, edited)
      /\ due' = NextMaintenance(ks, pol, Sign(ks, pol, edited))
  BY DEF Publish
<1>3. /\ Sign(ks, pol, edited) \in [Signers(ks) -> Nat]
      /\ \A i \in Signers(ks) : Sign(ks, pol, edited)[i] > now + RefreshBefore
  BY <1>1, SigsAreNat, SignaturesAreFresh
<1>4. \A i \in Signers(ks) : Sign(ks, pol, edited)[i] >= RefreshBefore
  BY <1>1, <1>3, ConstantsType
<1>5. /\ due' \in Nat
      /\ \A t \in RolloverTimes(ks, pol) : due' <= t \/ due' <= now
      /\ \A i \in Signers(ks) : due' <= Sign(ks, pol, edited)[i] - RefreshBefore
  BY <1>1, <1>2, <1>3, <1>4, ScheduleIsTimely
<1>6. Shape(keys)'
  BY <1>2 DEF Shape, TimesPassed, KsksInOrder, Complement, Ksks, In, Dnskeys
<1>7. Signers(keys)' = Signers(ks)
  BY <1>2 DEF Signers
<1>8. RolloverTimes(keys, ttl)' = RolloverTimes(ks, pol)
  BY <1>2 DEF RolloverTimes, Ksks, In, ActivationTime, RemovalTime, OldKskRemoval
<1>9. RowsInv'
  BY <1>1, <1>2, <1>3, <1>5, <1>6, <1>7 DEF RowsInv, Time
<1>10. ASSUME NEW i \in Signers(ks)
       PROVE  sigs'[i] + idle' > now + RefreshBefore
  <2>1. sigs'[i] \in Nat /\ sigs'[i] > now + RefreshBefore
    BY <1>2, <1>3
  <2> QED  BY <1>1, <2>1, ConstantsType
<1>11. DOMAIN sigs' = Signers(ks)
  BY <1>2, <1>3
<1>12. DeadlinesInv'
  BY <1>2, <1>5, <1>8, <1>10, <1>11 DEF DeadlinesInv
<1> QED  BY <1>9, <1>12

LEMMA TransactionKeepsRows ==
    ASSUME RowsInv, enabled, NEW ks, NEW pol, NEW edited \in BOOLEAN,
           Transaction(ks, pol, edited)
    PROVE  (RowsInv /\ DeadlinesInv)'
<1>1. /\ Changes(ks) /\ Complement(ks) /\ Publish(TRUE, ks, pol, edited) /\ pol \in TTL
      /\ now' = now /\ idle' \in {0, idle} /\ lapses' \subseteq {"ds", "ttl"}
  BY DEF Transaction
<1>2. Shape(ks) /\ ks \in Seq(Key)
  BY <1>1, ChangesKeepShape DEF Changes
<1>3. idle' \in 0 .. Slack
  BY <1>1, ConstantsType DEF RowsInv
<1> QED  BY <1>1, <1>2, <1>3, PublishSigned

\* The first keys of a zone.
LEMMA EnableRows ==
    ASSUME RowsInv, Enable
    PROVE  \E ks \in Seq(Key) :
              /\ ks = keys \o <<NewKey("ksk", "active", "pending"),
                                NewKey("zsk", "active", "none")>>
              /\ Publish(TRUE, ks, ttl, TRUE)
              /\ DOMAIN keys \subseteq DOMAIN ks
              /\ \A i \in DOMAIN keys : ks[i] = keys[i]
              /\ Dnskeys(ks) = {Len(keys) + 1, Len(keys) + 2}
              /\ Ksks(ks) = {Len(keys) + 1}
              /\ In(ks, "zsk", "active") = {Len(keys) + 2}
              /\ \A i \in Dnskeys(ks) : ks[i].publishedAt = now
              /\ Shape(ks)
<1>1. PICK k, z : k = NewKey("ksk", "active", "pending") /\ z = NewKey("zsk", "active", "none")
  OBVIOUS
<1>2. now \in Time /\ now \in Nat /\ keys \in Seq(Key) /\ Dnskeys(keys) = {}
  BY ConstantsType DEF RowsInv, Enable, Time
<1>3. /\ k \in Key /\ k.role = "ksk" /\ k.state = "active" /\ k.publishedAt = now
      /\ k.activatedAt = now /\ k.dsState = "pending"
      /\ z \in Key /\ z.role = "zsk" /\ z.state = "active" /\ z.publishedAt = now
      /\ z.activatedAt = now /\ z.dsState = "none"
  BY <1>1, <1>2 DEF NewKey, Key, Never
<1>4. PICK ks : ks = keys \o <<k, z>>
  OBVIOUS
<1>5. /\ <<k, z>> \in Seq(Key) /\ Len(<<k, z>>) = 2
      /\ <<k, z>>[1] = k /\ <<k, z>>[2] = z
  BY <1>3
<1>6. /\ ks \in Seq(Key) /\ Len(ks) = Len(keys) + 2
      /\ \A i \in 1 .. Len(keys) + 2 :
            ks[i] = IF i <= Len(keys) THEN keys[i] ELSE <<k, z>>[i - Len(keys)]
  BY <1>2, <1>4, <1>5, ConcatProperties
<1>7. DOMAIN keys = 1 .. Len(keys) /\ Len(keys) \in Nat /\ DOMAIN ks = 1 .. Len(keys) + 2
  BY <1>2, <1>6, LenProperties
<1>8. /\ DOMAIN keys \subseteq DOMAIN ks
      /\ \A i \in DOMAIN keys : ks[i] = keys[i] /\ ks[i].state = "removed"
  BY <1>2, <1>6, <1>7 DEF Dnskeys
<1>9. ks[Len(keys) + 1] = k /\ ks[Len(keys) + 2] = z
  BY <1>5, <1>6, <1>7
<1>10. \A i \in DOMAIN ks : i \in DOMAIN keys \/ i = Len(keys) + 1 \/ i = Len(keys) + 2
  BY <1>7
<1>11. Len(keys) + 1 \in DOMAIN ks /\ Len(keys) + 2 \in DOMAIN ks
  BY <1>7
<1>12. Dnskeys(ks) = {Len(keys) + 1, Len(keys) + 2}
  BY <1>3, <1>8, <1>9, <1>10, <1>11 DEF Dnskeys
<1>13. Ksks(ks) = {Len(keys) + 1}
  BY <1>3, <1>8, <1>9, <1>10, <1>11 DEF Ksks, In
<1>14. In(ks, "zsk", "active") = {Len(keys) + 2}
  BY <1>3, <1>8, <1>9, <1>10, <1>11 DEF In
<1>15. In(ks, "zsk", "published") = {} /\ In(ks, "zsk", "retired") = {}
  BY <1>3, <1>8, <1>9, <1>10, <1>11 DEF In
<1>16. \A i, j \in Ksks(ks) : ~(i < j)
  BY <1>7, <1>13
<1>18. TimesPassed(ks)
  BY <1>2, <1>3, <1>9, <1>12 DEF TimesPassed
<1>19. KsksInOrder(ks)
  BY <1>3, <1>9, <1>12, <1>16 DEF KsksInOrder
<1>20. Complement(ks)
  BY <1>11, <1>13, <1>14, <1>15 DEF Complement
<1>21. \A i \in Dnskeys(ks) : ks[i].publishedAt = now
  BY <1>3, <1>9, <1>12
<1>22. Publish(TRUE, ks, ttl, TRUE)
  BY <1>1, <1>4 DEF Enable
<1>23. ks = keys \o <<NewKey("ksk", "active", "pending"), NewKey("zsk", "active", "none")>>
  BY <1>1, <1>4
<1> QED
  BY <1>6, <1>8, <1>12, <1>13, <1>14, <1>18, <1>19, <1>20, <1>21, <1>22, <1>23 DEF Shape

LEMMA EnableKeepsRows ==
    ASSUME RowsInv, Enable
    PROVE  (RowsInv /\ DeadlinesInv)'
<1>1. PICK ks \in Seq(Key) : Publish(TRUE, ks, ttl, TRUE) /\ Shape(ks)
  BY EnableRows
<1>2. now' = now /\ idle' = idle /\ idle \in 0 .. Slack
      /\ lapses' = lapses /\ lapses \subseteq {"ds", "ttl"} /\ ttl \in TTL
  BY DEF Enable, RowsInv
<1> QED  BY <1>1, <1>2, PublishSigned

\* The rows of a zone that is signed no more.
LEMMA DisableRows ==
    ASSUME RowsInv, Disable
    PROVE  /\ enabled /\ enabled' = FALSE /\ due' = Never /\ sigs' = <<>>
           /\ keys' \in Seq(Key)
           /\ DOMAIN keys' = DOMAIN keys
           /\ Dnskeys(keys)' = {}
           /\ lapses' \subseteq {"ds", "ttl"} /\ lapses \subseteq lapses'
           /\ "ds" \in lapses' \/ (ds = {} /\ pastDS = {})
           /\ UNCHANGED <<now, idle, ttl, ds, pastDS>>
<1>1. PICK ks : ks = [i \in DOMAIN keys |-> Removed(keys[i])]
  OBVIOUS
<1>2. /\ enabled' = FALSE /\ keys' = ks /\ due' = Never /\ sigs' = <<>>
      /\ ttl' = ttl
  BY <1>1 DEF Disable, Publish
<1>3. \A i \in DOMAIN keys : keys[i] \in Key
  BY RowType DEF RowsInv
<1>4. /\ DOMAIN ks = DOMAIN keys /\ ks = [i \in DOMAIN keys |-> ks[i]]
      /\ \A i \in DOMAIN keys : ks[i] \in Key /\ ks[i].state = "removed"
  BY <1>1, <1>3, RemovedType
<1>5. ks \in Seq(Key)
  BY <1>4, FunctionOfRows DEF RowsInv
<1>6. Dnskeys(keys)' = {}
  BY <1>2, <1>4 DEF Dnskeys
<1>7. /\ lapses' \subseteq {"ds", "ttl"} /\ lapses \subseteq lapses'
      /\ "ds" \in lapses' \/ (ds = {} /\ pastDS = {})
  BY DEF Disable, Lapse, RowsInv
<1> QED  BY <1>2, <1>4, <1>5, <1>6, <1>7 DEF Disable

LEMMA RowsStep ==
    ASSUME RowsInv, DeadlinesInv, [Next]_vars
    PROVE  (RowsInv /\ DeadlinesInv)'
<1>1. CASE Enable
  BY <1>1, EnableKeepsRows
<1>2. CASE Disable
  BY <1>2, DisableRows DEF RowsInv, DeadlinesInv, Time
<1>3. ASSUME NEW role \in {"zsk", "ksk"}, StartRollover(role)
      PROVE  (RowsInv /\ DeadlinesInv)'
  <2>1. enabled
    BY <1>3 DEF StartRollover
  <2> QED  BY <1>3, <2>1, StartRolloverIsTransaction, TransactionKeepsRows
<1>4. ASSUME NEW i \in DOMAIN keys, ConfirmDS(i)
      PROVE  (RowsInv /\ DeadlinesInv)'
  BY <1>4, ConfirmIsTransaction, TransactionKeepsRows
<1>5. CASE Maintain
  <2>1. enabled
    BY <1>5 DEF Maintain
  <2> QED  BY <1>5, <2>1, MaintainIsTransaction, TransactionKeepsRows
<1>6. CASE Edit
  <2>1. enabled
    BY <1>6 DEF Edit
  <2> QED  BY <1>6, <2>1, EditIsTransaction, TransactionKeepsRows
<1>7. CASE MaintainNothing
  <2>1. /\ idle' = 0 /\ UNCHANGED <<now, enabled, due, keys, sigs, ttl, lapses>>
        /\ enabled => due > now
    BY <1>7 DEF MaintainNothing
  <2>2. now \in Nat /\ Slack \in Nat /\ RefreshBefore \in Nat
    BY ConstantsType DEF RowsInv, Time
  <2>3. RowsInv'
    <3>1. Shape(keys)' <=> Shape(keys)
      BY <2>1 DEF Shape, TimesPassed, KsksInOrder, Complement, Ksks, In, Dnskeys
    <3>2. Dnskeys(keys)' = Dnskeys(keys) /\ Signers(keys)' = Signers(keys)
      BY <2>1 DEF Dnskeys, Signers
    <3> QED  BY <2>1, <2>2, <3>1, <3>2 DEF RowsInv
  <2>4. RolloverTimes(keys, ttl)' = RolloverTimes(keys, ttl)
    BY <2>1 DEF RolloverTimes, Ksks, In, ActivationTime, RemovalTime, OldKskRemoval
  <2>5. ASSUME enabled
        PROVE  /\ \A t \in RolloverTimes(keys, ttl) : due <= t \/ due <= now
               /\ \A i \in DOMAIN sigs : /\ due <= sigs[i] - RefreshBefore
                                         /\ sigs[i] + 0 > now + RefreshBefore
    <3>1. due \in Nat /\ due > now /\ keys \in Seq(Key) /\ Shape(keys)
      BY <2>1, <2>5 DEF RowsInv
    <3>2. RolloverTimes(keys, ttl) \subseteq Int
      BY <3>1, RolloversAreScheduled DEF RowsInv
    <3>3. \A i \in DOMAIN sigs : sigs[i] \in Nat
      BY SigsAreNat
    <3> QED  BY <2>2, <2>5, <3>1, <3>2, <3>3 DEF DeadlinesInv
  <2>6. DeadlinesInv'
    BY <2>1, <2>4, <2>5 DEF DeadlinesInv
  <2> QED  BY <2>3, <2>6
<1>8. CASE ParentAdopts \/ ParentWithdraws \/ UNCHANGED vars
  <2>1. UNCHANGED <<now, enabled, due, keys, sigs, ttl, idle>> /\ lapses' \subseteq {"ds", "ttl"}
    BY <1>8 DEF ParentAdopts, ParentWithdraws, Lapse, RowsInv, vars
  <2>2. RowsInv'
    <3>1. Shape(keys)' <=> Shape(keys)
      BY <2>1 DEF Shape, TimesPassed, KsksInOrder, Complement, Ksks, In, Dnskeys
    <3>2. Dnskeys(keys)' = Dnskeys(keys) /\ Signers(keys)' = Signers(keys)
      BY <2>1 DEF Dnskeys, Signers
    <3> QED  BY <2>1, <3>1, <3>2 DEF RowsInv
  <2>3. RolloverTimes(keys, ttl)' = RolloverTimes(keys, ttl)
    BY <2>1 DEF RolloverTimes, Ksks, In, ActivationTime, RemovalTime, OldKskRemoval
  <2> QED  BY <2>1, <2>2, <2>3 DEF DeadlinesInv
<1>9. CASE Tick
  <2>1. /\ now' = now + 1 /\ idle' = idle + 1 /\ now < MaxTime /\ idle < Slack
        /\ UNCHANGED <<enabled, due, keys, sigs, ttl, lapses>>
    BY <1>9 DEF Tick
  <2>2. now \in Nat /\ idle \in Nat /\ Slack \in Nat /\ MaxTime \in Nat /\ RefreshBefore \in Nat
    BY ConstantsType DEF RowsInv, Time
  <2>3. enabled => Shape(keys)'
    <3> SUFFICES ASSUME enabled PROVE Shape(keys)'
      OBVIOUS
    <3>1. Shape(keys)
      BY DEF RowsInv
    <3>2. TimesPassed(keys)'
      BY <2>1, <2>2, <3>1 DEF Shape, TimesPassed, Dnskeys
    <3>3. (KsksInOrder(keys) /\ Complement(keys))'
      BY <2>1, <3>1 DEF Shape, KsksInOrder, Complement, Ksks, In, Dnskeys
    <3> QED  BY <3>2, <3>3 DEF Shape
  <2>4. RowsInv'
    BY <2>1, <2>2, <2>3 DEF RowsInv, Time, Signers, Dnskeys
  <2>5. RolloverTimes(keys, ttl)' = RolloverTimes(keys, ttl)
    BY <2>1 DEF RolloverTimes, Ksks, In, ActivationTime, RemovalTime, OldKskRemoval
  <2>6. ASSUME enabled
        PROVE  /\ \A t \in RolloverTimes(keys, ttl) :
                     due <= t \/ due <= now + 1
               /\ \A i \in DOMAIN sigs : /\ due <= sigs[i] - RefreshBefore
                                         /\ sigs[i] + (idle + 1) > (now + 1) + RefreshBefore
    <3>1. due \in Nat /\ keys \in Seq(Key) /\ Shape(keys)
      BY <2>6 DEF RowsInv
    <3>2. RolloverTimes(keys, ttl) \subseteq Int
      BY <3>1, RolloversAreScheduled DEF RowsInv
    <3>3. \A i \in DOMAIN sigs : sigs[i] \in Nat
      BY SigsAreNat
    <3> QED  BY <2>2, <2>6, <3>1, <3>2, <3>3 DEF DeadlinesInv
  <2>7. DeadlinesInv'
    BY <2>1, <2>5, <2>6 DEF DeadlinesInv
  <2> QED  BY <2>4, <2>7
<1> QED  BY <1>1, <1>2, <1>3, <1>4, <1>5, <1>6, <1>7, <1>8, <1>9 DEF Next

LEMMA RowsInit ==
    ASSUME Init
    PROVE  RowsInv /\ DeadlinesInv
<1>1. keys = <<>> /\ keys \in Seq(Key) /\ DOMAIN keys = {}
  BY DEF Init
<1>2. Dnskeys(keys) = {}
  BY <1>1 DEF Dnskeys
<1>3. now \in Time /\ idle \in 0 .. Slack
  BY ConstantsType DEF Init, Time
<1> QED  BY <1>1, <1>2, <1>3 DEF Init, RowsInv, DeadlinesInv

\* Rows and deadlines, the part of the inductive invariant that needs no more
\* than itself: every transaction keeps the zone's complement of keys and leaves
\* the next maintenance in time for every rollover and every renewal.
THEOREM RowsAndDeadlines == Spec => [](RowsInv /\ DeadlinesInv)
<1>1. Init => RowsInv /\ DeadlinesInv
  BY RowsInit
<1>2. RowsInv /\ DeadlinesInv /\ [Next]_vars => (RowsInv /\ DeadlinesInv)'
  BY RowsStep
<1> QED  BY <1>1, <1>2, PTL DEF Spec

LEMMA RowsImplyTypeOK ==
    ASSUME RowsInv
    PROVE  TypeOK
<1>1. \A i \in DOMAIN keys : keys[i] \in Key
  BY RowType DEF RowsInv
<1>2. ASSUME enabled
      PROVE  /\ Cardinality(In(keys, "ksk", "active")) \in {1, 2}
             /\ Cardinality(In(keys, "zsk", "active")) = 1
             /\ Cardinality(In(keys, "zsk", "published")) <= 1
             /\ DOMAIN sigs = Signers(keys)
  <2>1. Complement(keys)
    BY <1>2 DEF RowsInv, Shape
  <2>2. Cardinality(In(keys, "ksk", "active")) \in {1, 2}
    <3>1. PICK i, j \in DOMAIN keys : In(keys, "ksk", "active") = {i, j}
      BY <2>1 DEF Complement, Ksks
    <3> QED  BY <3>1, PairSize
  <2>3. Cardinality(In(keys, "zsk", "active")) = 1
    <3>1. PICK i \in DOMAIN keys : In(keys, "zsk", "active") = {i}
      BY <2>1 DEF Complement
    <3> QED  BY <3>1, FS_Singleton
  <2>4. Cardinality(In(keys, "zsk", "published")) <= 1
    <3>1. CASE In(keys, "zsk", "published") = {}
      BY <3>1, FS_EmptySet
    <3>2. CASE In(keys, "zsk", "published") /= {}
      <4>1. PICK i \in In(keys, "zsk", "published") : TRUE
        BY <3>2
      <4>2. \A j \in In(keys, "zsk", "published") : j = i
        BY <2>1, <4>1 DEF Complement
      <4>3. In(keys, "zsk", "published") = {i}
        BY <4>1, <4>2
      <4> QED  BY <4>3, FS_Singleton
    <3> QED  BY <3>1, <3>2
  <2>5. DOMAIN sigs = Signers(keys)
    BY <1>2 DEF RowsInv
  <2> QED  BY <2>2, <2>3, <2>4, <2>5
<1> QED  BY <1>1, <1>2 DEF RowsInv, TypeOK

\* Whatever is rolled over, confirmed, edited or maintained in whatever order, a
\* signed zone has one or two active KSKs, exactly one signing ZSK, at most one
\* successor, and one cached signature for each key that signs.
THEOREM KeysStayComplete == Spec => []TypeOK
BY RowsAndDeadlines, RowsImplyTypeOK, PTL

\* When no time of a rollover has come, nothing is due.
LEMMA TimesImplyNothingDue ==
    ASSUME NEW ks \in Seq(Key), KsksInOrder(ks), Complement(ks), NEW pol, NEW at,
           \A t \in RolloverTimes(ks, pol) : at < t
    PROVE  /\ \A i \in In(ks, "zsk", "published") : at < ActivationTime(ks[i], pol)
           /\ \A i \in In(ks, "zsk", "retired") : at < RemovalTime(ks[i], pol)
           /\ KskRolloverConfirmed(ks) =>
                 at < OldKskRemoval(ks[Newer(ks, In(ks, "ksk", "active"))])
<1>1. /\ \A i \in In(ks, "zsk", "published") : ActivationTime(ks[i], pol) \in RolloverTimes(ks, pol)
      /\ \A i \in In(ks, "zsk", "retired") : RemovalTime(ks[i], pol) \in RolloverTimes(ks, pol)
  BY DEF RolloverTimes
<1>2. ASSUME KskRolloverConfirmed(ks)
      PROVE  OldKskRemoval(ks[Newer(ks, In(ks, "ksk", "active"))]) \in RolloverTimes(ks, pol)
  <2>1. PICK i, j \in DOMAIN ks :
            /\ i < j /\ Ksks(ks) = {i, j} /\ ks[j].dsState = "seen"
            /\ Newer(ks, Ksks(ks)) = j
    BY <1>2, ConfirmedPair
  <2>2. OldKskRemoval(ks[j]) \in RolloverTimes(ks, pol)
    BY <2>1 DEF RolloverTimes
  <2> QED  BY <2>1, <2>2 DEF Ksks
<1> QED  BY <1>1, <1>2

LEMMA RoundLeavesNothingDue ==
    ASSUME RowsInv, DeadlinesInv, [Next]_vars, enabled, idle > 0, idle' = 0
    PROVE  NothingDue'
<1>0. idle \in Nat /\ idle /= idle' /\ now \in Nat /\ ttl \in TTL
  BY ConstantsType DEF RowsInv, Time
<1>1. ASSUME NEW ks \in Seq(Key), keys' = ks, KsksInOrder(ks), Complement(ks), now' = now,
             \A t \in RolloverTimes(ks, ttl) : now < t, ttl' = ttl
      PROVE  NothingDue'
  <2>1. /\ \A i \in In(ks, "zsk", "published") : now < ActivationTime(ks[i], ttl)
        /\ \A i \in In(ks, "zsk", "retired") : now < RemovalTime(ks[i], ttl)
        /\ KskRolloverConfirmed(ks) =>
              now < OldKskRemoval(ks[Newer(ks, In(ks, "ksk", "active"))])
    BY <1>1, TimesImplyNothingDue
  <2> QED
    BY <1>1, <2>1 DEF NothingDue, In, ActivationTime, RemovalTime, OldKskRemoval,
                      KskRolloverConfirmed, Newer, Older
<1>2. CASE Maintain
  <2>1. PICK ks : Transaction(ks, ttl, FALSE)
    BY <1>2, MaintainIsTransaction
  <2>2. /\ Changes(ks) /\ Complement(ks) /\ keys' = ks /\ ttl' = ttl /\ now' = now
        /\ \A t \in RolloverTimes(ks, ttl) : now < t
    BY <1>0, <2>1 DEF Transaction, Publish
  <2>3. KsksInOrder(ks) /\ ks \in Seq(Key)
    BY <2>2, ChangesKeepShape DEF Shape, Changes
  <2> QED  BY <1>1, <2>2, <2>3
<1>3. CASE MaintainNothing
  <2>1. due > now /\ UNCHANGED <<now, keys, ttl>>
    BY <1>3 DEF MaintainNothing
  <2>2. keys \in Seq(Key) /\ KsksInOrder(keys) /\ Complement(keys) /\ due \in Nat /\ Shape(keys)
    BY DEF RowsInv, Shape
  <2>3. RolloverTimes(keys, ttl) \subseteq Int
    BY <1>0, <2>2, RolloversAreScheduled
  <2>4. \A t \in RolloverTimes(keys, ttl) : now < t
    BY <1>0, <2>1, <2>2, <2>3 DEF DeadlinesInv
  <2> QED  BY <1>1, <2>1, <2>2, <2>4
<1>4. CASE Tick
  BY <1>0, <1>4 DEF Tick
<1>5. CASE \/ Enable \/ Disable \/ Edit \/ ParentAdopts \/ ParentWithdraws
           \/ (\E role \in {"zsk", "ksk"} : StartRollover(role))
           \/ (\E i \in DOMAIN keys : ConfirmDS(i)) \/ UNCHANGED vars
  BY <1>0, <1>5 DEF Enable, Disable, Edit, ParentAdopts, ParentWithdraws, StartRollover,
                    ConfirmDS, vars
<1> QED  BY <1>2, <1>3, <1>4, <1>5 DEF Next

\* No rollover in progress is forgotten: whatever was rolled over, confirmed,
\* edited or maintained before, and however the TTLs changed, nothing is due
\* after a round of the maintainer.
THEOREM RolloversStayOnTime == Spec => RolloversOnTime
<1>1. RowsInv /\ DeadlinesInv /\ [Next]_vars
          => [enabled /\ idle > 0 /\ idle' = 0 => NothingDue']_vars
  BY RoundLeavesNothingDue
<1> QED  BY <1>1, RowsAndDeadlines, PTL DEF Spec, RolloversOnTime

LEMMA DeadlinesImplyOutlast ==
    ASSUME RowsInv, DeadlinesInv
    PROVE  SignaturesOutlast
<1>1. /\ now \in Nat /\ idle \in Nat /\ idle <= Slack
      /\ Slack \in Nat /\ RefreshBefore \in Nat
  BY ConstantsType DEF RowsInv, Time
<1>2. \A i \in DOMAIN sigs : sigs[i] \in Nat
  BY SigsAreNat
<1> QED  BY <1>1, <1>2 DEF DeadlinesInv, SignaturesOutlast

\* A served signature has more than RefreshBefore less a maintainer's round left,
\* whoever rebuilt the zone from cached signatures in between.
THEOREM SignaturesStayFresh == Spec => []SignaturesOutlast
BY RowsAndDeadlines, DeadlinesImplyOutlast, PTL

-----------------------------------------------------------------------------
(* Versions and DS sets in caches.                                         *)

LEMMA PastAfterPublish ==
    ASSUME NEW on, NEW ks, NEW pol, NEW edited, Publish(on, ks, pol, edited), NEW p \in past'
    PROVE  p \in past \/ (p.version = Current /\ p.until = now)
<1>1. p \in past \/ p = [version |-> Current, until |-> now]
  BY DEF Publish
<1> QED  BY <1>1

LEMMA CurrentVersion ==
    ASSUME RowsInv
    PROVE  /\ enabled => /\ Current.dnskeys = Dnskeys(keys)
                         /\ Current.ksks = Ksks(keys)
                         /\ Current.zsks = In(keys, "zsk", "active")
           /\ ~enabled => Current.dnskeys = {} /\ Current.ksks = {} /\ Current.zsks = {}
           /\ Current.ksks \subseteq Current.dnskeys
           /\ Current.zsks \subseteq Current.dnskeys
           /\ Current.dnskeys \subseteq DOMAIN keys
           /\ Current.ttl = ttl
BY DEF RowsInv, Current, Version, Ksks, In, Dnskeys

\* What a publication adds to the versions caches hold.
LEMMA PublishKeepsPast ==
    ASSUME RowsInv, PastInv, NEW on, NEW ks, NEW pol, NEW edited,
           Publish(on, ks, pol, edited), DOMAIN keys \subseteq DOMAIN ks,
           UNCHANGED <<now, ds, pastDS>>
    PROVE  PastInv'
<1>1. keys' = ks /\ now \in Nat /\ now' = now /\ ds' = ds /\ pastDS' = pastDS /\ ttl \in TTL
  BY ConstantsType DEF Publish, RowsInv, Time
<1>2. ASSUME NEW p \in past'
      PROVE  /\ p.until \in 0 .. now
             /\ p.version.ttl \in TTL
             /\ p.until + Propagation + p.version.ttl.max > now
             /\ p.version.ksks \subseteq p.version.dnskeys
             /\ p.version.zsks \subseteq p.version.dnskeys
             /\ p.version.dnskeys \subseteq DOMAIN keys
  <2>1. CASE p \in past
    BY <2>1 DEF PastInv
  <2>2. CASE p.version = Current /\ p.until = now
    <3>1. /\ Current.ksks \subseteq Current.dnskeys /\ Current.zsks \subseteq Current.dnskeys
          /\ Current.dnskeys \subseteq DOMAIN keys /\ Current.ttl = ttl
      BY CurrentVersion
    <3>2. ttl.max \in Nat
      BY <1>1, TTLType
    <3>3. now + Propagation + ttl.max > now
      BY <1>1, <3>2, ConstantsType, PropagationIsPositive
    <3> QED  BY <1>1, <2>2, <3>1, <3>3
  <2> QED  BY <2>1, <2>2, PastAfterPublish
<1>3. /\ \A q \in pastDS : /\ q.until \in 0 .. now
                           /\ q.until + Propagation + ParentDSTTL > now
                           /\ q.set /= {} /\ q.set \subseteq DOMAIN ks
      /\ ds \subseteq DOMAIN ks
  BY DEF PastInv
<1> QED  BY <1>1, <1>2, <1>3 DEF PastInv

LEMMA TransactionKeepsVersions ==
    ASSUME RowsInv, enabled, PastInv, VersionsShowKeys, NEW ks, NEW pol, NEW edited \in BOOLEAN,
           Transaction(ks, pol, edited)
    PROVE  PastInv' /\ VersionsShowKeys'
<1>1. /\ Changes(ks) /\ Publish(TRUE, ks, pol, edited)
      /\ UNCHANGED <<now, ds, pastDS>> /\ keys' = ks
      /\ DOMAIN keys \subseteq DOMAIN ks /\ now \in Nat
  BY ConstantsType DEF Transaction, Publish, Changes, RowsInv, Time
<1>2. PastInv'
  BY <1>1, PublishKeepsPast
<1>3. VersionsShowKeys'
  <2> SUFFICES ASSUME NEW p \in past', NEW i \in Dnskeys(ks), p.until > ks[i].publishedAt
               PROVE  i \in p.version.dnskeys
    BY <1>1 DEF VersionsShowKeys, Dnskeys
  <2>1. i \in DOMAIN ks /\ p.until \in 0 .. now
    BY <1>1, <1>2 DEF PastInv, Dnskeys
  <2>2. i \in DOMAIN keys
    <3>1. i \notin DOMAIN keys => ks[i].publishedAt = now
      BY <1>1, <2>1, RowCreated
    <3> QED  BY <1>1, <2>1, <3>1
  <2>3. i \in Dnskeys(keys) /\ ks[i].publishedAt = keys[i].publishedAt
    BY <1>1, <2>2, RowBefore
  <2>4. CASE p \in past
    BY <2>3, <2>4 DEF VersionsShowKeys
  <2>5. CASE p.version = Current
    BY <2>3, <2>5, CurrentVersion
  <2> QED  BY <1>1, <2>4, <2>5, PastAfterPublish
<1> QED  BY <1>2, <1>3

\* A KSK of the zone after a transaction was one before, or is new.
LEMMA KskBefore ==
    ASSUME RowsInv, NEW ks, Changes(ks), NEW i \in Ksks(ks), i \in DOMAIN keys
    PROVE  i \in Ksks(keys)
<1>1. i \in Dnskeys(ks) /\ ks[i].role = "ksk" /\ ks[i].state = "active"
  BY DEF Ksks, In, Dnskeys
<1> QED  BY <1>1, RowBefore DEF Ksks, In

\* A KSK stays, or is superseded by one that stays.
LEMMA KskAfter ==
    ASSUME RowsInv, enabled, NEW ks, Changes(ks), NEW i \in Ksks(keys)
    PROVE  \/ i \in Ksks(ks)
           \/ \E j \in Ksks(keys) : /\ i < j /\ keys[j].dsState = "seen"
                                    /\ OldKskRemoval(keys[j]) <= now
                                    /\ j \in Ksks(ks)
<1>1. ASSUME NEW j \in Ksks(keys), j \in Dnskeys(ks)
      PROVE  j \in Ksks(ks)
  <2>1. /\ j \in DOMAIN keys /\ j \in DOMAIN ks
        /\ keys[j].role = "ksk" /\ keys[j].state = "active"
    BY <1>1 DEF Ksks, In, Dnskeys
  <2> QED  BY <1>1, <2>1, RowBefore DEF Ksks, In
<1>2. ASSUME NEW j \in Ksks(keys), j \notin Dnskeys(ks)
      PROVE  Superseded(j, ks)
  <2>1. j \in Dnskeys(keys) /\ keys[j].role = "ksk"
    BY DEF Ksks, In, Dnskeys
  <2> QED  BY <1>2, <2>1, RowAfter DEF Dropped, In
<1>3. CASE i \in Dnskeys(ks)
  BY <1>1, <1>3
<1>4. CASE i \notin Dnskeys(ks)
  <2>1. PICK j \in Ksks(keys) : /\ i < j /\ keys[j].dsState = "seen"
                                /\ OldKskRemoval(keys[j]) <= now
    BY <1>2, <1>4 DEF Superseded
  <2>2. j \in Dnskeys(ks)
    <3>1. ASSUME j \notin Dnskeys(ks) PROVE FALSE
      <4>1. PICK m \in Ksks(keys) : j < m
        BY <1>2, <3>1 DEF Superseded
      <4>2. PICK a, b \in DOMAIN keys : Ksks(keys) = {a, b}
        BY DEF RowsInv, Shape, Complement
      <4>3. \A n \in Ksks(keys) : n \in Nat
        BY RowType DEF Ksks, In, RowsInv
      <4> QED  BY <2>1, <4>1, <4>2, <4>3
    <3> QED  BY <3>1
  <2> QED  BY <1>1, <2>1, <2>2
<1> QED  BY <1>3, <1>4

-----------------------------------------------------------------------------
(* The chain of trust.                                                     *)

LEMMA TransactionKeepsChain ==
    ASSUME RowsInv, enabled, PastInv, ChainInv, NEW ks, NEW pol, NEW edited \in BOOLEAN,
           Transaction(ks, pol, edited)
    PROVE  ChainInv'
<1> SUFFICES ASSUME "ds" \notin lapses'
             PROVE  (DelegatedIsShown /\ DelegationsAnchored /\ ParentKeepsNewDS)'
  BY DEF ChainInv
<1>1. /\ Changes(ks) /\ Complement(ks) /\ Publish(TRUE, ks, pol, edited)
      /\ UNCHANGED <<now, ds, pastDS>> /\ keys' = ks
      /\ DOMAIN keys \subseteq DOMAIN ks
      /\ \A i \in DOMAIN ks : Confirmed(i, ks) => i \in ds
      /\ "ds" \notin lapses
  BY DEF Transaction, Publish, Changes
<1>2. /\ now \in Nat /\ keys \in Seq(Key) /\ ks \in Seq(Key)
      /\ \A i \in DOMAIN ks : i \in Nat
  BY <1>1, RowType, ConstantsType DEF RowsInv, Time, Changes
<1>3. DelegatedIsShown /\ DelegationsAnchored /\ ParentKeepsNewDS
  BY <1>1 DEF ChainInv
<1>4. DelegatedIsShown'
  <2> SUFFICES ASSUME NEW i \in Ksks(ks), Delegated(i), NEW p \in past'
               PROVE  i \in p.version.ksks
    BY <1>1 DEF DelegatedIsShown, Delegated, Ksks, In
  <2>1. i \in DOMAIN keys
    BY DEF Delegated, PastInv
  <2>2. i \in Ksks(keys)
    BY <1>1, <2>1, KskBefore
  <2>3. CASE p \in past
    BY <1>3, <2>2, <2>3 DEF DelegatedIsShown
  <2>4. CASE p.version = Current
    BY <2>2, <2>4, CurrentVersion
  <2> QED  BY <1>1, <2>3, <2>4, PastAfterPublish
<1>5. ParentKeepsNewDS'
  <2> SUFFICES ASSUME NEW i \in Ksks(ks), NEW j \in Ksks(ks), i < j, ks[j].dsState = "seen"
               PROVE  /\ ds = {} \/ j \in ds
                      /\ \A q \in pastDS : j \in q.set \/ q.until <= ks[j].dsSeenAt
    BY <1>1 DEF ParentKeepsNewDS, Ksks, In
  <2>1. /\ i \in DOMAIN ks /\ j \in DOMAIN ks /\ j \in Dnskeys(ks)
        /\ ks[j].role = "ksk" /\ ks[j].state = "active"
    BY DEF Ksks, In, Dnskeys
  <2>2. j \in DOMAIN keys
    BY <1>1, <2>1, RowCreated
  <2>3. i \in DOMAIN keys
    <3>1. i \notin DOMAIN keys => j < i
      BY <1>1, <2>1, <2>2, RowCreated
    <3> QED  BY <1>2, <2>1, <3>1
  <2>4. i \in Ksks(keys) /\ j \in Ksks(keys)
    BY <1>1, <2>2, <2>3, KskBefore
  <2>5. CASE Confirmed(j, ks)
    <3>1. keys[j] \in Key
      BY <2>2, RowType DEF RowsInv
    <3>2. j \in ds /\ ks[j].dsSeenAt = now
      BY <1>1, <2>1, <2>5, <3>1 DEF Confirmed, Key
    <3>3. \A q \in pastDS : q.until <= now
      BY <1>2 DEF PastInv
    <3> QED  BY <3>2, <3>3
  <2>6. CASE ~Confirmed(j, ks)
    <3>1. keys[j].dsState = "seen" /\ ks[j].dsSeenAt = keys[j].dsSeenAt
      BY <1>1, <2>1, <2>2, <2>6, RowBefore
    <3> QED  BY <1>3, <2>4, <3>1 DEF ParentKeepsNewDS
  <2> QED  BY <2>5, <2>6
<1>6. ASSUME NEW i \in Ksks(keys), NEW j \in Ksks(keys), i < j, keys[j].dsState = "seen",
             OldKskRemoval(keys[j]) <= now, NEW q \in pastDS
      PROVE  j \in q.set
  <2>1. q.until \in Nat /\ q.until + Propagation + ParentDSTTL > now
    BY <1>2 DEF PastInv
  <2>2. keys[j].dsSeenAt \in Int
    BY <1>2, RowType DEF Ksks, In
  <2>3. keys[j].dsSeenAt + ParentDSTTL + Propagation <= now
    BY <1>6 DEF OldKskRemoval
  <2>4. \A u, t \in Int :
            u + Propagation + ParentDSTTL > now /\ t + ParentDSTTL + Propagation <= now
                => ~(u <= t)
    BY <1>2, ConstantsType
  <2>5. ~(q.until <= keys[j].dsSeenAt)
    BY <2>1, <2>2, <2>3, <2>4
  <2> QED  BY <1>3, <1>6, <2>5 DEF ParentKeepsNewDS
<1>7. ASSUME ds /= {}
      PROVE  \E i \in ds : i \in Ksks(ks)
  <2>1. PICK i \in ds : i \in Ksks(keys)
    BY <1>3, <1>7 DEF DelegationsAnchored
  <2>2. CASE i \in Ksks(ks)
    BY <2>1, <2>2
  <2>3. CASE i \notin Ksks(ks)
    <3>1. PICK j \in Ksks(keys) : i < j /\ keys[j].dsState = "seen" /\ j \in Ksks(ks)
      BY <1>1, <2>1, <2>3, KskAfter
    <3>2. j \in ds
      BY <1>3, <1>7, <2>1, <3>1 DEF ParentKeepsNewDS
    <3> QED  BY <3>1, <3>2
  <2> QED  BY <2>2, <2>3
<1>8. ASSUME NEW q \in pastDS
      PROVE  \E i \in q.set : i \in Ksks(ks)
  <2>1. PICK i \in q.set : i \in Ksks(keys)
    BY <1>3 DEF DelegationsAnchored
  <2>2. CASE i \in Ksks(ks)
    BY <2>1, <2>2
  <2>3. CASE i \notin Ksks(ks)
    <3>1. PICK j \in Ksks(keys) : /\ i < j /\ keys[j].dsState = "seen" /\ j \in Ksks(ks)
                                  /\ OldKskRemoval(keys[j]) <= now
      BY <1>1, <2>1, <2>3, KskAfter
    <3>2. j \in q.set
      BY <1>6, <2>1, <3>1
    <3> QED  BY <3>1, <3>2
  <2> QED  BY <2>2, <2>3
<1>9. DelegationsAnchored'
  <2>1. Ksks(keys)' = Ksks(ks)
    BY <1>1 DEF Ksks, In
  <2> QED  BY <1>1, <1>7, <1>8, <2>1 DEF DelegationsAnchored
<1> QED  BY <1>4, <1>5, <1>9

LEMMA NewestKsk ==
    ASSUME RowsInv, enabled
    PROVE  Newest \in Ksks(keys) /\ \A j \in Ksks(keys) : j <= Newest
<1>1. PICK i, j \in DOMAIN keys : Ksks(keys) = {i, j}
  BY DEF RowsInv, Shape, Complement
<1>2. i \in Nat /\ j \in Nat
  BY RowType DEF RowsInv
<1>3. \E k \in Ksks(keys) : \A h \in Ksks(keys) : h <= k
  BY <1>1, <1>2
<1> QED  BY <1>3 DEF Newest, Ksks

\* A replaced DS set is kept for the caches, an empty one not.
LEMMA ReplacedDS ==
    ASSUME RowsInv, PastInv
    PROVE  /\ \A q \in Replaced(ds) :
                 /\ q \in pastDS \/ (q.set = ds /\ q.until = now /\ ds /= {})
                 /\ q.until \in 0 .. now
                 /\ q.until + Propagation + ParentDSTTL > now
                 /\ q.set /= {} /\ q.set \subseteq DOMAIN keys
           /\ ds = {} => Replaced(ds) = pastDS
<1>1. now \in Nat
  BY ConstantsType DEF RowsInv, Time
<1>2. ASSUME NEW q \in Replaced(ds)
      PROVE  /\ q \in pastDS \/ (q.set = ds /\ q.until = now /\ ds /= {})
             /\ q.until \in 0 .. now
             /\ q.until + Propagation + ParentDSTTL > now
             /\ q.set /= {} /\ q.set \subseteq DOMAIN keys
  <2>1. CASE q \in pastDS
    BY <2>1 DEF PastInv
  <2>2. CASE q = [set |-> ds, until |-> now] /\ ds /= {}
    <3>1. q.set = ds /\ q.until = now
      BY <2>2
    <3> QED  BY <1>1, <2>2, <3>1, ConstantsType, PropagationIsPositive DEF PastInv
  <2> QED  BY <1>2, <2>1, <2>2 DEF Replaced
<1> QED  BY <1>2 DEF Replaced

LEMMA ParentKeepsCaches ==
    ASSUME RowsInv, PastInv, VersionsShowKeys, ChainInv, DataInv,
           ParentAdopts \/ ParentWithdraws
    PROVE  (PastInv /\ VersionsShowKeys /\ ChainInv /\ DataInv)'
<1>1. /\ UNCHANGED <<now, enabled, keys, past, ttl>> /\ pastDS' = Replaced(ds)
      /\ lapses \subseteq lapses'
      /\ "ttl" \in lapses' => "ttl" \in lapses
  BY DEF ParentAdopts, ParentWithdraws, Lapse
<1>2. /\ \A q \in pastDS' :
             /\ q \in pastDS \/ (q.set = ds /\ q.until = now /\ ds /= {})
             /\ q.until \in 0 .. now
             /\ q.until + Propagation + ParentDSTTL > now
             /\ q.set /= {} /\ q.set \subseteq DOMAIN keys
      /\ ds = {} => pastDS' = pastDS
  BY <1>1, ReplacedDS
<1>3. ASSUME ParentAdopts
      PROVE  /\ Newest \in Ksks(keys) /\ \A j \in Ksks(keys) : j <= Newest
             /\ Newest \in DOMAIN keys /\ Newest \notin ds
             /\ Newest \in ds' /\ ds' \subseteq ds \cup {Newest}
             /\ "ds" \notin lapses' => \A p \in past : Newest \in p.version.ksks
  <2>1. Newest \in Ksks(keys) /\ \A j \in Ksks(keys) : j <= Newest
    BY <1>3, NewestKsk DEF ParentAdopts
  <2> QED  BY <1>3, <2>1 DEF ParentAdopts, Lapse, Ksks, In
<1>4. ASSUME ParentWithdraws
      PROVE  ds' = {}
  BY <1>4 DEF ParentWithdraws
<1>5. PastInv'
  <2>1. ds' \subseteq DOMAIN keys
    BY <1>3, <1>4 DEF PastInv
  <2> QED  BY <1>1, <1>2, <2>1 DEF PastInv
<1>6. VersionsShowKeys' /\ DataInv'
  <2>1. VersionsShowKeys'
    BY <1>1 DEF VersionsShowKeys, Dnskeys
  <2>2. SignaturesHaveKeys' <=> SignaturesHaveKeys
    BY <1>1 DEF SignaturesHaveKeys, SameChain, Ksks, In
  <2>3. ZsksAreKnown' <=> ZsksAreKnown
    BY <1>1 DEF ZsksAreKnown, SameChain, Alive, SigningZsks, Ksks, In
  <2> QED  BY <1>1, <2>1, <2>2, <2>3 DEF DataInv
<1>7. ChainInv'
  <2> SUFFICES ASSUME "ds" \notin lapses'
               PROVE  (DelegatedIsShown /\ DelegationsAnchored /\ ParentKeepsNewDS)'
    BY DEF ChainInv
  <2>1. DelegatedIsShown /\ DelegationsAnchored /\ ParentKeepsNewDS
    BY <1>1 DEF ChainInv
  <2>2. Ksks(keys)' = Ksks(keys)
    BY <1>1 DEF Ksks, In
  <2>3. DelegatedIsShown'
    <3> SUFFICES ASSUME NEW i \in Ksks(keys), Delegated(i)', NEW p \in past
                 PROVE  i \in p.version.ksks
      BY <1>1, <2>2 DEF DelegatedIsShown
    <3>1. CASE Delegated(i)
      BY <2>1, <3>1 DEF DelegatedIsShown
    <3>2. CASE ~Delegated(i)
      <4>1. i \in ds' /\ i \notin ds
        BY <1>2, <3>2 DEF Delegated
      <4> QED  BY <1>3, <1>4, <4>1
    <3> QED  BY <3>1, <3>2
  <2>4. DelegationsAnchored'
    <3>1. ds' = {} \/ \E i \in ds' : i \in Ksks(keys)
      BY <1>3, <1>4
    <3>2. \A q \in pastDS' : \E i \in q.set : i \in Ksks(keys)
      BY <1>2, <2>1 DEF DelegationsAnchored
    <3> QED  BY <2>2, <3>1, <3>2 DEF DelegationsAnchored
  <2>5. ParentKeepsNewDS'
    <3> SUFFICES ASSUME NEW i \in Ksks(keys), NEW j \in Ksks(keys), i < j,
                        keys[j].dsState = "seen"
                 PROVE  /\ ds' = {} \/ j \in ds'
                        /\ \A q \in pastDS' : j \in q.set \/ q.until <= keys[j].dsSeenAt
      BY <1>1, <2>2 DEF ParentKeepsNewDS
    <3>1. /\ ds = {} \/ j \in ds
          /\ \A q \in pastDS : j \in q.set \/ q.until <= keys[j].dsSeenAt
      BY <2>1 DEF ParentKeepsNewDS
    <3>2. \A q \in pastDS' : j \in q.set \/ q.until <= keys[j].dsSeenAt
      BY <1>2, <3>1
    <3>3. ParentAdopts => j = Newest
      <4> SUFFICES ASSUME ParentAdopts PROVE j = Newest
        OBVIOUS
      <4>1. PICK a, b \in DOMAIN keys : Ksks(keys) = {a, b}
        BY DEF ParentAdopts, RowsInv, Shape, Complement
      <4>2. \A n \in Ksks(keys) : n \in Nat
        BY RowType DEF Ksks, In, RowsInv
      <4> QED  BY <1>3, <4>1, <4>2
    <3> QED  BY <1>3, <1>4, <3>2, <3>3
  <2> QED  BY <2>3, <2>4, <2>5
<1> QED  BY <1>5, <1>6, <1>7

-----------------------------------------------------------------------------
(* The zone's data.                                                        *)

\* A ZSK stays while a cache may hold data it signed.
LEMMA ZskOutlivesData ==
    ASSUME RowsInv, NEW ks, Changes(ks), NEW u \in 0 .. now, NEW m \in Nat,
           u + Propagation + m > now, NEW i, m <= ttl.max \/ ~Dropped(i, ks),
           \/ i \in In(keys, "zsk", "active")
           \/ i \in In(keys, "zsk", "retired") /\ u <= keys[i].retiredAt
    PROVE  \/ i \in In(ks, "zsk", "active")
           \/ i \in In(ks, "zsk", "retired") /\ u <= ks[i].retiredAt
<1>1. /\ i \in DOMAIN keys /\ i \in Dnskeys(keys) /\ keys[i].role = "zsk"
      /\ keys[i].state \in {"active", "retired"}
      /\ keys[i].state = "retired" => u <= keys[i].retiredAt
  BY DEF In, Dnskeys
<1>2. now \in Nat /\ keys[i].retiredAt \in Int /\ ttl.max \in Nat
  BY <1>1, RowType, ConstantsType, TTLType DEF RowsInv, Time
<1>3. ~Superseded(i, ks)
  BY <1>1 DEF Superseded, Ksks, In
<1>4. ~Dropped(i, ks)
  <2>1. ASSUME Dropped(i, ks) PROVE FALSE
    <3>1. keys[i].retiredAt + ttl.max + Propagation <= now /\ u <= keys[i].retiredAt /\ m <= ttl.max
      BY <1>1, <2>1 DEF Dropped, RemovalTime, In
    <3>2. \A t, x \in Int : t + x + Propagation <= now /\ m <= x => ~(u <= t)
      BY <1>2, ConstantsType
    <3> QED  BY <1>2, <3>1, <3>2
  <2> QED  BY <2>1
<1>5. i \in Dnskeys(ks) /\ i \in DOMAIN ks
  BY <1>1, <1>3, <1>4, RowAfter
<1>6. ks[i] \in Key
  BY <1>5, RowType DEF Changes
<1>7. ks[i].role = "zsk" /\ ks[i].state /= "published"
  BY <1>1, <1>5, RowBefore
<1>8. ks[i].state \in {"active", "retired"}
  BY <1>5, <1>6, <1>7 DEF Key, Dnskeys
<1>9. ks[i].state = "retired" => u <= ks[i].retiredAt
  BY <1>1, <1>2, <1>5, <1>7, RowBefore
<1> QED  BY <1>5, <1>7, <1>8, <1>9 DEF In

\* A ZSK that signs or signed did so before the transaction, or is activated.
LEMMA SigningBefore ==
    ASSUME RowsInv, NEW ks, Changes(ks), NEW i \in SigningZsks(ks)
    PROVE  /\ i \in Dnskeys(keys)
           /\ i \in SigningZsks(keys) \/ Activates(i, ks)
<1>1. /\ i \in DOMAIN ks /\ i \in Dnskeys(ks) /\ ks[i].role = "zsk"
      /\ ks[i].state \in {"active", "retired"}
  BY DEF SigningZsks, In, Dnskeys
<1>2. i \in DOMAIN keys
  BY <1>1, RowCreated
<1>3. i \in Dnskeys(keys) /\ keys[i].role = "zsk"
  BY <1>1, <1>2, RowBefore
<1>4. keys[i] \in Key /\ keys[i].state /= "removed"
  BY <1>2, <1>3, RowType DEF RowsInv, Dnskeys
<1>5. CASE keys[i].state = "published"
  <2>1. \/ Kept(i, ks) \/ Activates(i, ks)
    BY <1>1, <1>2, <1>3, <1>5 DEF Changes, Retires, Dropped, Superseded, Confirmed, Created,
                                  Ksks, In
  <2> QED  BY <1>1, <1>3, <1>5, <2>1 DEF Kept
<1>6. CASE keys[i].state /= "published"
  BY <1>2, <1>3, <1>4, <1>6 DEF SigningZsks, In, Key
<1> QED  BY <1>5, <1>6

\* A version that is still cached when a key may sign shows that key.
LEMMA ActivatedIsShown ==
    ASSUME RowsInv, PastInv, VersionsShowKeys, NEW p \in past, Alive(p, p.version.ttl.soa),
           p.version.ttl.soa <= ttl.soa,
           NEW i \in Dnskeys(keys), ActivationTime(keys[i], ttl) <= now
    PROVE  i \in p.version.dnskeys
<1>1. keys[i].publishedAt \in Int
  BY RowType DEF RowsInv, Dnskeys
<1>2. p.until \in Nat /\ now \in Nat /\ ttl.soa \in Nat /\ p.version.ttl.soa \in Nat
  BY ConstantsType, TTLType DEF PastInv, RowsInv, Time
<1>3. /\ keys[i].publishedAt + ttl.soa + Propagation <= now
      /\ p.until + Propagation + p.version.ttl.soa > now
  BY DEF ActivationTime, Alive
<1>4. \A t, u, x, y \in Int :
          t + x + Propagation <= now /\ u + Propagation + y > now /\ y <= x => u > t
  BY <1>2, ConstantsType
<1>5. p.until > keys[i].publishedAt
  BY <1>1, <1>2, <1>3, <1>4
<1> QED  BY <1>5 DEF VersionsShowKeys

LEMMA TransactionKeepsData ==
    ASSUME RowsInv, enabled, PastInv, VersionsShowKeys, DataInv,
           NEW ks, NEW pol, NEW edited \in BOOLEAN, Transaction(ks, pol, edited)
    PROVE  DataInv'
<1> SUFFICES ASSUME "ttl" \notin lapses'
             PROVE  (SignaturesHaveKeys /\ ZsksAreKnown)'
  BY DEF DataInv
<1>1. /\ Changes(ks) /\ Publish(TRUE, ks, pol, edited)
      /\ now' = now /\ keys' = ks /\ "ttl" \notin lapses
      /\ LongWaits \/ \A i \in DOMAIN ks : ~Activates(i, ks) /\ ~Dropped(i, ks)
  BY DEF Transaction, Publish
<1>2. /\ now \in Nat /\ Complement(keys) /\ ttl.max \in Nat
      /\ \A p \in past : /\ p.until \in 0 .. now /\ p.version.ttl.max \in Nat
                         /\ p.until + Propagation + p.version.ttl.max > now
  BY ConstantsType, TTLType DEF RowsInv, Time, Shape, PastInv
<1>3. /\ Current.dnskeys = Dnskeys(keys) /\ Current.zsks = In(keys, "zsk", "active")
      /\ Current.zsks /= {}
  BY <1>2, CurrentVersion DEF Complement
<1>4. SignaturesHaveKeys /\ ZsksAreKnown
  BY <1>1 DEF DataInv
<1>5. ASSUME NEW p \in past, NEW i \in p.version.ksks, i \in Ksks(ks)
      PROVE  SameChain(p)
  <2>1. i \in DOMAIN keys
    BY DEF PastInv
  <2>2. i \in Ksks(keys)
    BY <1>1, <1>5, <2>1, KskBefore
  <2> QED  BY <2>2 DEF SameChain
<1>6. SignaturesHaveKeys'
  <2> SUFFICES ASSUME NEW p \in past', NEW x \in p.version.ksks, x \in Ksks(ks)
               PROVE  /\ p.version.zsks /= {}
                      /\ \A i \in p.version.zsks :
                            \/ i \in In(ks, "zsk", "active")
                            \/ i \in In(ks, "zsk", "retired") /\ p.until <= ks[i].retiredAt
    BY <1>1 DEF SignaturesHaveKeys, SameChain, Ksks, In
  <2>1. CASE p \in past
    <3>1. /\ p.version.zsks /= {}
          /\ \A i \in p.version.zsks :
                \/ i \in In(keys, "zsk", "active")
                \/ i \in In(keys, "zsk", "retired") /\ p.until <= keys[i].retiredAt
      BY <1>4, <1>5, <2>1 DEF SignaturesHaveKeys
    <3>2. ASSUME NEW i \in p.version.zsks
          PROVE  \/ i \in In(ks, "zsk", "active")
                 \/ i \in In(ks, "zsk", "retired") /\ p.until <= ks[i].retiredAt
      <4>1. p.version.ttl.max <= ttl.max \/ ~Dropped(i, ks)
        <5>1. i \in DOMAIN ks
          BY <1>1, <3>1 DEF Changes, In
        <5> QED  BY <1>1, <2>1, <5>1 DEF LongWaits
      <4>2. /\ p.until \in 0 .. now /\ p.version.ttl.max \in Nat
            /\ p.until + Propagation + p.version.ttl.max > now
        BY <1>2, <2>1
      <4> QED  BY <1>1, <3>1, <4>1, <4>2, ZskOutlivesData
    <3> QED  BY <3>1, <3>2
  <2>2. CASE p.version = Current /\ p.until = now
    <3>1. p.version.zsks = In(keys, "zsk", "active") /\ p.version.zsks /= {}
      BY <1>3, <2>2
    <3>2. ASSUME NEW i \in p.version.zsks
          PROVE  \/ i \in In(ks, "zsk", "active")
                 \/ i \in In(ks, "zsk", "retired") /\ p.until <= ks[i].retiredAt
      <4>1. now + Propagation + ttl.max > now /\ now \in 0 .. now /\ ttl.max <= ttl.max
        BY <1>2, ConstantsType, PropagationIsPositive
      <4> QED  BY <1>1, <1>2, <2>2, <3>1, <4>1, ZskOutlivesData
    <3> QED  BY <3>1, <3>2
  <2> QED  BY <1>1, <2>1, <2>2, PastAfterPublish
<1>7. ZsksAreKnown'
  <2> SUFFICES ASSUME NEW p \in past', NEW x \in p.version.ksks, x \in Ksks(ks),
                      Alive(p, p.version.ttl.soa), NEW i \in SigningZsks(ks)
               PROVE  i \in p.version.dnskeys
    BY <1>1 DEF ZsksAreKnown, SameChain, Alive, SigningZsks, Ksks, In
  <2>1. i \in Dnskeys(keys) /\ (i \in SigningZsks(keys) \/ Activates(i, ks))
    BY <1>1, SigningBefore
  <2>2. CASE p \in past
    <3>1. CASE i \in SigningZsks(keys)
      BY <1>4, <1>5, <2>2, <3>1 DEF ZsksAreKnown
    <3>2. CASE Activates(i, ks)
      <4>1. i \in DOMAIN ks /\ ActivationTime(keys[i], ttl) <= now
        BY <3>2 DEF Activates, SigningZsks, In
      <4>2. p.version.ttl.soa <= ttl.soa
        BY <1>1, <2>2, <3>2, <4>1 DEF LongWaits
      <4> QED  BY <2>1, <2>2, <4>1, <4>2, ActivatedIsShown
    <3> QED  BY <2>1, <3>1, <3>2
  <2>3. CASE p.version = Current
    BY <1>3, <2>1, <2>3
  <2> QED  BY <1>1, <2>2, <2>3, PastAfterPublish
<1> QED  BY <1>6, <1>7

-----------------------------------------------------------------------------
(* Signing begins and ends, and time passes.                               *)

LEMMA EnableKeepsCaches ==
    ASSUME RowsInv, PastInv, VersionsShowKeys, ChainInv, DataInv, Enable
    PROVE  (PastInv /\ VersionsShowKeys /\ ChainInv /\ DataInv)'
<1>1. PICK ks \in Seq(Key) :
          /\ Publish(TRUE, ks, ttl, TRUE) /\ DOMAIN keys \subseteq DOMAIN ks
          /\ Ksks(ks) = {Len(keys) + 1} /\ \A i \in Dnskeys(ks) : ks[i].publishedAt = now
  BY EnableRows
<1>2. /\ ~enabled /\ UNCHANGED <<now, ds, pastDS, lapses>> /\ keys' = ks
      /\ now \in Nat
  BY <1>1, ConstantsType DEF Enable, Publish, RowsInv, Time
<1>3. Ksks(ks) \cap DOMAIN keys = {} /\ Ksks(keys)' = Ksks(ks) /\ Ksks(keys) = {}
  <2>1. Len(keys) \in Nat /\ DOMAIN keys = 1 .. Len(keys)
    BY LenProperties DEF RowsInv
  <2>2. Ksks(keys) = {}
    BY <1>2 DEF RowsInv, Ksks, In, Dnskeys
  <2> QED  BY <1>1, <1>2, <2>1, <2>2 DEF Ksks, In
<1>4. PastInv'
  BY <1>1, <1>2, PublishKeepsPast
<1>5. VersionsShowKeys'
  <2>1. \A p \in past' : p.until \in 0 .. now
    BY <1>2, <1>4 DEF PastInv
  <2>2. \A p \in past', i \in Dnskeys(ks) : ~(p.until > ks[i].publishedAt)
    BY <1>1, <1>2, <2>1
  <2> QED  BY <1>2, <2>2 DEF VersionsShowKeys, Dnskeys
<1>6. ASSUME NEW p \in past', NEW i \in p.version.ksks
      PROVE  i \notin Ksks(keys)'
  <2>1. CASE p \in past
    BY <1>3, <2>1 DEF PastInv
  <2>2. CASE p.version = Current
    BY <1>2, <2>2, CurrentVersion
  <2> QED  BY <1>1, <2>1, <2>2, PastAfterPublish
<1>7. DataInv'
  BY <1>6 DEF DataInv, SignaturesHaveKeys, ZsksAreKnown, SameChain
<1>8. ChainInv'
  <2> SUFFICES ASSUME "ds" \notin lapses
               PROVE  (DelegatedIsShown /\ DelegationsAnchored /\ ParentKeepsNewDS)'
    BY <1>2 DEF ChainInv
  <2>1. ds = {} /\ pastDS = {}
    BY <1>3 DEF ChainInv, DelegationsAnchored
  <2> QED
    BY <1>2, <2>1 DEF DelegatedIsShown, Delegated, DelegationsAnchored, ParentKeepsNewDS
<1> QED  BY <1>4, <1>5, <1>7, <1>8

LEMMA DisableKeepsCaches ==
    ASSUME RowsInv, PastInv, VersionsShowKeys, ChainInv, DataInv, Disable
    PROVE  (PastInv /\ VersionsShowKeys /\ ChainInv /\ DataInv)'
<1>1. /\ DOMAIN keys' = DOMAIN keys /\ Dnskeys(keys)' = {}
      /\ "ds" \in lapses' \/ (ds = {} /\ pastDS = {})
      /\ UNCHANGED <<now, ds, pastDS>>
  BY DisableRows
<1>2. Ksks(keys)' = {}
  BY <1>1 DEF Ksks, In, Dnskeys
<1>3. PastInv'
  <2>1. PICK ks : ks = [i \in DOMAIN keys |-> Removed(keys[i])] /\ Publish(FALSE, ks, ttl, TRUE)
    BY DEF Disable
  <2>2. DOMAIN keys \subseteq DOMAIN ks
    BY <2>1
  <2> QED  BY <1>1, <2>1, <2>2, PublishKeepsPast
<1>4. VersionsShowKeys'
  BY <1>1 DEF VersionsShowKeys
<1>5. DataInv'
  BY <1>2 DEF DataInv, SignaturesHaveKeys, ZsksAreKnown, SameChain
<1>6. ChainInv'
  BY <1>1, <1>2 DEF ChainInv, DelegatedIsShown, DelegationsAnchored, ParentKeepsNewDS
<1> QED  BY <1>3, <1>4, <1>5, <1>6

LEMMA QuietKeepsCaches ==
    ASSUME RowsInv, PastInv, VersionsShowKeys, ChainInv, DataInv,
           Tick \/ MaintainNothing \/ UNCHANGED vars
    PROVE  (PastInv /\ VersionsShowKeys /\ ChainInv /\ DataInv)'
<1>1. /\ UNCHANGED <<keys, ds, lapses>> /\ now' \in {now, now + 1}
      /\ past' \subseteq past /\ pastDS' \subseteq pastDS
      /\ \A p \in past' : now' = now \/ p.until + Propagation + p.version.ttl.max > now'
      /\ \A q \in pastDS' : now' = now \/ q.until + Propagation + ParentDSTTL > now'
  BY DEF Tick, MaintainNothing, vars
<1>2. now \in Nat /\ now' \in Nat /\ now <= now'
  BY <1>1, ConstantsType DEF RowsInv, Time
<1>3. PastInv'
  <2>1. ASSUME NEW p \in past'
        PROVE  /\ p.until \in 0 .. now'
               /\ p.version.ttl \in TTL
               /\ p.until + Propagation + p.version.ttl.max > now'
               /\ p.version.ksks \subseteq p.version.dnskeys
               /\ p.version.zsks \subseteq p.version.dnskeys
               /\ p.version.dnskeys \subseteq DOMAIN keys
    BY <1>1, <1>2 DEF PastInv
  <2>2. ASSUME NEW q \in pastDS'
        PROVE  /\ q.until \in 0 .. now'
               /\ q.until + Propagation + ParentDSTTL > now'
               /\ q.set /= {} /\ q.set \subseteq DOMAIN keys
    BY <1>1, <1>2 DEF PastInv
  <2> QED  BY <1>1, <2>1, <2>2 DEF PastInv
<1>4. VersionsShowKeys'
  BY <1>1 DEF VersionsShowKeys, Dnskeys
<1>5. Ksks(keys)' = Ksks(keys) /\ SigningZsks(keys)' = SigningZsks(keys)
  BY <1>1 DEF Ksks, SigningZsks, In
<1>6. ChainInv'
  <2> SUFFICES ASSUME "ds" \notin lapses
               PROVE  (DelegatedIsShown /\ DelegationsAnchored /\ ParentKeepsNewDS)'
    BY <1>1 DEF ChainInv
  <2>1. DelegatedIsShown /\ DelegationsAnchored /\ ParentKeepsNewDS
    BY DEF ChainInv
  <2>2. DelegatedIsShown'
    BY <1>1, <1>5, <2>1 DEF DelegatedIsShown, Delegated
  <2>3. DelegationsAnchored'
    BY <1>1, <1>5, <2>1 DEF DelegationsAnchored
  <2>4. ParentKeepsNewDS'
    BY <1>1, <1>5, <2>1 DEF ParentKeepsNewDS
  <2> QED  BY <2>2, <2>3, <2>4
<1>7. DataInv'
  <2> SUFFICES ASSUME "ttl" \notin lapses
               PROVE  (SignaturesHaveKeys /\ ZsksAreKnown)'
    BY <1>1 DEF DataInv
  <2>1. SignaturesHaveKeys /\ ZsksAreKnown
    BY DEF DataInv
  <2>2. SignaturesHaveKeys'
    BY <1>1, <2>1 DEF SignaturesHaveKeys, SameChain, Ksks, In
  <2>3. ASSUME NEW p \in past', Alive(p, p.version.ttl.soa)'
        PROVE  Alive(p, p.version.ttl.soa)
    <3>1. p.until \in Nat /\ p.version.ttl.soa \in Nat
      BY <1>1, TTLType DEF PastInv
    <3>2. p.until + Propagation + p.version.ttl.soa > now'
      BY <2>3 DEF Alive
    <3>3. \A x, y \in Nat : x + Propagation + y > now' => x + Propagation + y > now
      BY <1>2, ConstantsType
    <3> QED  BY <3>1, <3>2, <3>3 DEF Alive
  <2>4. ZsksAreKnown'
    BY <1>1, <1>5, <2>1, <2>3 DEF ZsksAreKnown, SameChain
  <2> QED  BY <2>2, <2>4
<1> QED  BY <1>3, <1>4, <1>6, <1>7

LEMMA CachesStep ==
    ASSUME RowsInv, PastInv, VersionsShowKeys, ChainInv, DataInv, [Next]_vars
    PROVE  (PastInv /\ VersionsShowKeys /\ ChainInv /\ DataInv)'
<1>1. ASSUME enabled, NEW ks, NEW pol, NEW edited \in BOOLEAN, Transaction(ks, pol, edited)
      PROVE  (PastInv /\ VersionsShowKeys /\ ChainInv /\ DataInv)'
  BY <1>1, TransactionKeepsVersions, TransactionKeepsChain, TransactionKeepsData
<1>2. CASE Enable
  BY <1>2, EnableKeepsCaches
<1>3. CASE Disable
  BY <1>3, DisableKeepsCaches
<1>4. ASSUME NEW role \in {"zsk", "ksk"}, StartRollover(role)
      PROVE  (PastInv /\ VersionsShowKeys /\ ChainInv /\ DataInv)'
  <2>1. enabled
    BY <1>4 DEF StartRollover
  <2> QED  BY <1>1, <1>4, <2>1, StartRolloverIsTransaction
<1>5. ASSUME NEW i \in DOMAIN keys, ConfirmDS(i)
      PROVE  (PastInv /\ VersionsShowKeys /\ ChainInv /\ DataInv)'
  BY <1>1, <1>5, ConfirmIsTransaction
<1>6. CASE Maintain
  <2>1. enabled
    BY <1>6 DEF Maintain
  <2> QED  BY <1>1, <1>6, <2>1, MaintainIsTransaction
<1>7. CASE Edit
  <2>1. enabled
    BY <1>7 DEF Edit
  <2> QED  BY <1>1, <1>7, <2>1, EditIsTransaction
<1>8. CASE ParentAdopts \/ ParentWithdraws
  BY <1>8, ParentKeepsCaches
<1>9. CASE Tick \/ MaintainNothing \/ UNCHANGED vars
  BY <1>9, QuietKeepsCaches
<1> QED  BY <1>2, <1>3, <1>4, <1>5, <1>6, <1>7, <1>8, <1>9 DEF Next

LEMMA CachesInit ==
    ASSUME Init
    PROVE  PastInv /\ VersionsShowKeys /\ ChainInv /\ DataInv
BY DEF Init, PastInv, VersionsShowKeys, ChainInv, DelegatedIsShown, Delegated,
       DelegationsAnchored, ParentKeepsNewDS, DataInv, SignaturesHaveKeys, ZsksAreKnown

\* The inductive invariant of key rollovers: the rows and their deadlines, what
\* versions and DS sets caches hold, the chain of trust unless the parent or the
\* operator was early, and the zone's data unless a TTL was lowered under a
\* rollover, for every policy of times, any TTLs and any number of keys.
THEOREM KeyRolloverInvariant == Spec => []KeyRolloverInv
<1>1. Init => KeyRolloverInv
  BY RowsInit, CachesInit DEF KeyRolloverInv
<1>2. KeyRolloverInv /\ [Next]_vars => KeyRolloverInv'
  BY RowsStep, CachesStep DEF KeyRolloverInv
<1> QED  BY <1>1, <1>2, PTL DEF Spec

-----------------------------------------------------------------------------
(* What resolvers can rely on.                                             *)

LEMMA HeldVersions ==
    ASSUME NEW v \in HeldDnskey \cup HeldData
    PROVE  v = Current \/ \E p \in past : v = p.version
BY DEF HeldDnskey, HeldData

\* A key of a DS set a cache may hold signed whatever DNSKEY RRset one may hold.
LEMMA AnchorSigns ==
    ASSUME RowsInv, ChainInv, PastInv, "ds" \notin lapses, NEW d \in HeldDS, d /= {}
    PROVE  \E i \in d : /\ i \in Ksks(keys) /\ i \in Current.ksks /\ enabled
                        /\ \A p \in past : i \in p.version.ksks
<1>1. DelegatedIsShown /\ DelegationsAnchored
  BY DEF ChainInv
<1>2. PICK i \in d : i \in Ksks(keys) /\ Delegated(i)
  BY <1>1 DEF DelegationsAnchored, Delegated, HeldDS
<1>3. enabled
  BY <1>2 DEF RowsInv, Ksks, In, Dnskeys
<1>4. i \in Current.ksks
  BY <1>2, <1>3, CurrentVersion
<1> QED  BY <1>1, <1>2, <1>3, <1>4 DEF DelegatedIsShown

LEMMA ChainedImpliesTrust ==
    ASSUME KeyRolloverInv
    PROVE  ChainOfTrust
<1> SUFFICES ASSUME "ds" \notin lapses, NEW d \in HeldDS, NEW v \in HeldDnskey, d /= {}
             PROVE  d \cap v.ksks /= {}
  BY DEF ChainOfTrust
<1>1. PICK i \in d : /\ i \in Current.ksks
                     /\ \A p \in past : i \in p.version.ksks
  BY AnchorSigns DEF KeyRolloverInv
<1>2. i \in v.ksks
  BY <1>1, HeldVersions
<1> QED  BY <1>2

\* Whichever DS set and whichever DNSKEY RRset a resolver has cached, a key of
\* the first signed the second: the code removes no KSK too early.  Only a
\* parent that took a DS before the caches knew its key, an operator who
\* confirmed a DS that was not there, or one who disabled signing under a DS,
\* can break the chain.
THEOREM ChainOfTrustHolds == Spec => []ChainOfTrust
BY KeyRolloverInvariant, ChainedImpliesTrust, PTL

LEMMA KnownKeysImplyValid ==
    ASSUME KeyRolloverInv
    PROVE  DataValidates
<1> SUFFICES ASSUME lapses = {}, NEW d \in HeldDS, d /= {},
                    NEW v \in HeldDnskey, NEW w \in HeldData
             PROVE  w.zsks \cap v.dnskeys /= {}
  BY DEF DataValidates
<1>1. PICK k \in d : /\ k \in Ksks(keys) /\ enabled
                     /\ \A p \in past : k \in p.version.ksks
  BY AnchorSigns DEF KeyRolloverInv
<1>2. \A p \in past : SameChain(p)
  BY <1>1 DEF SameChain
<1>3. SignaturesHaveKeys /\ ZsksAreKnown
  BY DEF KeyRolloverInv, DataInv
<1>4. /\ Current.dnskeys = Dnskeys(keys) /\ Current.zsks = In(keys, "zsk", "active")
      /\ Current.zsks /= {}
  <2>1. RowsInv /\ Complement(keys)
    BY <1>1 DEF KeyRolloverInv, RowsInv, Shape
  <2> QED  BY <1>1, <2>1, CurrentVersion DEF Complement
<1>5. w.zsks /= {} /\ w.zsks \subseteq SigningZsks(keys)
  <2>1. CASE w = Current
    BY <1>4, <2>1 DEF SigningZsks
  <2>2. ASSUME NEW p \in past, w = p.version
        PROVE  w.zsks /= {} /\ w.zsks \subseteq SigningZsks(keys)
    BY <1>2, <1>3, <2>2 DEF SignaturesHaveKeys, SigningZsks
  <2> QED  BY <2>1, <2>2, HeldVersions
<1>6. SigningZsks(keys) \subseteq v.dnskeys
  <2>1. CASE v = Current
    BY <1>4, <2>1 DEF SigningZsks, In, Dnskeys
  <2>2. ASSUME NEW p \in past, v = p.version, Alive(p, p.version.ttl.soa)
        PROVE  SigningZsks(keys) \subseteq v.dnskeys
    BY <1>2, <1>3, <2>2 DEF ZsksAreKnown
  <2> QED  BY <2>1, <2>2 DEF HeldDnskey
<1> QED  BY <1>5, <1>6

\* Whichever DNSKEY RRset and whichever data a resolver of the signed delegation
\* has cached, a key of the first signed the second, unless the maintainer moved
\* a ZSK by a TTL that was lowered since a cache was filled, or the delegation
\* itself was broken.
THEOREM DataValidatesHolds == Spec => []DataValidates
BY KeyRolloverInvariant, KnownKeysImplyValid, PTL
=============================================================================
