------------------------- MODULE SecondaryZoneProofs -------------------------
(***************************************************************************)
(* Proofs about SecondaryZone: whatever instances refresh the zone, and     *)
(* also when a lock breaks under a running refresh, the stored records are  *)
(* those of one version of the primaries' zone.  As long as no lock breaks, *)
(* engines are told what the row says, no NOTIFY is lost, and the zone      *)
(* never goes back to an older version.                                    *)
(***************************************************************************)
EXTENDS SecondaryZone, TLAPS

\* The serials of two versions differ: the versions span less than half the
\* serial space, so the check of the locked serial recognises a moved zone.
LEMMA SerialsDiffer ==
    ASSUME NEW v \in Versions, NEW w \in Versions, SerialOf(v) = SerialOf(w)
    PROVE  v = w
BY BoundsAreNat, SerialsCompare DEF Versions, SerialOf

LEMMA SerialOfType ==
    ASSUME NEW v \in Versions
    PROVE  SerialOf(v) \in Serials
BY BoundsAreNat, SerialsCompare DEF Versions, SerialOf, Serials

LEMMA TimerType ==
    /\ Timer(SoaRefresh) \in Nat
    /\ Timer(SoaRetry) \in Nat
    /\ Timer(SoaExpire) \in Nat
BY BoundsAreNat DEF Timer

\* What a refresh remembers of a row has the type of a zone.
LEMMA KnownType ==
    ASSUME row \in Rows
    PROVE  /\ Known(row) \in Zones
           /\ Known(row).loaded = row.loaded
           /\ Known(row).content = row.content
           /\ Known(row).serial = row.serial
BY DEF Rows, Known, Zones

\* The primary a refresh asks is one of the primaries.
LEMMA AskedType ==
    ASSUME NEW i \in Instances, TypeOK, HasPrimary(i),
           job[i].at \in {"ask", "transfer", "apply"}
    PROVE  Asked(i) \in Primaries
<1>1. job[i].zone \in Zones /\ job[i].nth \in Nat \ {0}
  BY DEF TypeOK, Jobs
<1>2. job[i].zone.primaries \in Seq(Primaries)
  BY <1>1, PrimariesAreListed DEF Zones
<1> QED  BY <1>1, <1>2 DEF HasPrimary, Asked

LEMMA InitInv == Init => SecondaryInv
<1> SUFFICES ASSUME Init PROVE SecondaryInv
  OBVIOUS
<1>1. row \in Rows
  BY BoundsAreNat DEF Init, Rows, Contents, Serials
<1>2. TypeOK
  BY <1>1, BoundsAreNat DEF Init, TypeOK, Idle, Jobs, Versions
<1>3. row.loaded = FALSE
  BY DEF Init
<1>4. KnowledgeIsOneVersion
  BY DEF Init, KnowledgeIsOneVersion, Knows, Idle
<1> QED  BY <1>2, <1>3, <1>4 DEF SecondaryInv

\* A step of one instance keeps the invariant when it leaves the row a version
\* and the refresh with knowledge of one.
LEMMA JobStep ==
    ASSUME SecondaryInv, NEW i \in Instances, NEW j \in Jobs,
           job' = [job EXCEPT ![i] = j],
           row' \in Rows,
           row.loaded => row'.loaded,
           row'.loaded => Consistent(row'),
           lock' \in Instances \cup {None},
           version' = version,
           Knows(j)'
    PROVE  SecondaryInv'
<1>1. TypeOK'
  BY DEF SecondaryInv, TypeOK
<1>2. ASSUME NEW k \in Instances PROVE Knows(job[k])'
  <2>1. CASE k = i
    BY <2>1 DEF SecondaryInv, TypeOK
  <2>2. CASE k # i
    BY <2>2 DEF SecondaryInv, TypeOK, KnowledgeIsOneVersion, Knows, Consistent, SerialOf
  <2> QED  BY <2>1, <2>2
<1> QED  BY <1>1, <1>2 DEF SecondaryInv, KnowledgeIsOneVersion, Consistent, SerialOf

\* Ending a refresh is such a step.
LEMMA EndStep ==
    ASSUME SecondaryInv, NEW i \in Instances, End(i),
           row' \in Rows,
           row.loaded => row'.loaded,
           row'.loaded => Consistent(row'),
           version' = version
    PROVE  SecondaryInv'
<1>1. Idle \in Jobs
  BY DEF Idle, Jobs
<1>2. Knows(Idle)'
  BY DEF Knows, Idle
<1>3. lock' \in Instances \cup {None}
  BY DEF End, SecondaryInv, TypeOK
<1> QED  BY <1>1, <1>2, <1>3, JobStep DEF End

\* So is a change of the row that leaves its records and serial alone.
LEMMA RowStep ==
    ASSUME SecondaryInv, UNCHANGED <<job, lock, version>>,
           row' \in Rows,
           row'.loaded = row.loaded,
           row'.content = row.content,
           row'.serial = row.serial
    PROVE  SecondaryInv'
<1>1. TypeOK'
  BY DEF SecondaryInv, TypeOK
<1>2. ASSUME NEW k \in Instances PROVE Knows(job[k])'
  BY DEF SecondaryInv, KnowledgeIsOneVersion, Knows, Consistent, SerialOf
<1> QED  BY <1>1, <1>2 DEF SecondaryInv, KnowledgeIsOneVersion, Consistent, SerialOf

LEMMA RequestedType ==
    ASSUME row \in Rows
    PROVE  /\ Requested(row) \in Rows
           /\ Requested(row).loaded = row.loaded
           /\ Requested(row).content = row.content
           /\ Requested(row).serial = row.serial
<1>1. row.requests + 1 \in Nat
  BY DEF Rows
<1> QED  BY <1>1 DEF Requested, Rows

\* The fields of a refresh that is past reading the requests.
LEMMA JobFields ==
    ASSUME TypeOK, NEW i \in Instances, job[i].at \in {"ask", "transfer", "apply"}
    PROVE  /\ job[i].zone \in Zones
           /\ job[i].requests \in Nat
           /\ job[i].nth \in Nat \ {0}
           /\ job[i].at = "apply" => job[i].kind \in Kinds /\ job[i].version \in Versions
BY DEF TypeOK, Jobs

LEMMA TryNextStep ==
    ASSUME SecondaryInv, NEW i \in Instances, TryNext(i),
           job[i].at \in {"ask", "transfer", "apply"},
           UNCHANGED <<row, lock, version>>
    PROVE  SecondaryInv'
<1>0. job[i].zone \in Zones /\ job[i].requests \in Nat /\ job[i].nth + 1 \in Nat \ {0}
  BY JobFields DEF SecondaryInv
<1>1. PICK j \in Jobs : j = [at |-> "ask", zone |-> job[i].zone,
                             requests |-> job[i].requests, nth |-> job[i].nth + 1]
  BY <1>0 DEF Jobs
<1>2. Knows(j)'
  BY <1>1 DEF SecondaryInv, KnowledgeIsOneVersion, Knows, Consistent, SerialOf
<1>3. row \in Rows /\ lock \in Instances \cup {None} /\ (row.loaded => Consistent(row))
  BY DEF SecondaryInv, TypeOK
<1>4. row'.loaded => Consistent(row')
  BY <1>3
<1>5. job' = [job EXCEPT ![i] = j]
  BY <1>1 DEF TryNext
<1> QED  BY <1>2, <1>3, <1>4, <1>5, JobStep

LEMMA AnswerStep ==
    ASSUME SecondaryInv, NEW i \in Instances, NEW kind \in Kinds, NEW v \in Versions,
           Answer(i, kind, v),
           job[i].at \in {"ask", "transfer"}, HasPrimary(i),
           kind # "axfr" => job[i].zone.loaded,
           UNCHANGED <<row, lock, version>>
    PROVE  SecondaryInv'
<1>1. PICK j \in Jobs : j = [at |-> "apply", zone |-> job[i].zone, requests |-> job[i].requests,
                             nth |-> job[i].nth, kind |-> kind, version |-> v]
  BY JobFields DEF SecondaryInv, Jobs
<1>2. Knows(j)'
  BY <1>1 DEF SecondaryInv, KnowledgeIsOneVersion, Knows, Consistent, SerialOf, HasPrimary
<1>3. row \in Rows /\ lock \in Instances \cup {None} /\ (row.loaded => Consistent(row))
  BY DEF SecondaryInv, TypeOK
<1>4. row'.loaded => Consistent(row')
  BY <1>3
<1>5. job' = [job EXCEPT ![i] = j]
  BY <1>1 DEF Answer
<1> QED  BY <1>2, <1>3, <1>4, <1>5, JobStep
\* Applying an answer leaves the records of one version: differences are only
\* applied to the version they start from.
LEMMA SucceedStep ==
    ASSUME SecondaryInv, NEW i \in Instances, Succeed(i)
    PROVE  SecondaryInv'
<1> DEFINE z == job[i].zone
<1>1. /\ row \in Rows /\ TypeOK
      /\ job[i].at = "apply" /\ ~Moved(i) /\ End(i) /\ version' = version
      /\ row' = Timers(i, Applied(i, row))
  BY DEF Succeed, SecondaryInv, TypeOK
<1>2. /\ z \in Zones /\ job[i].requests \in Nat /\ job[i].nth \in Nat \ {0}
      /\ job[i].kind \in Kinds /\ job[i].version \in Versions
  BY <1>1, JobFields
<1>3. Knows(job[i]) /\ (row.loaded => Consistent(row))
  BY DEF SecondaryInv, KnowledgeIsOneVersion
<1>4. Asked(i) \in Primaries
  BY <1>1, <1>3, AskedType DEF Knows, HasPrimary
<1>5. PICK a \in Rows : a = Applied(i, row) /\ Consistent(a)
  <2>1. CASE job[i].kind = "current"
    <3>1. Applied(i, row) = row
      BY <2>1 DEF Applied
    <3>2. Consistent(row)
      BY <1>1, <1>3, <2>1 DEF Knows
    <3> QED  BY <1>1, <3>1, <3>2
  <2>2. CASE job[i].kind = "axfr"
    <3>1. Applied(i, row) = [row EXCEPT !.serial = SerialOf(job[i].version),
                                        !.content = job[i].version]
      BY <2>2 DEF Applied
    <3>2. SerialOf(job[i].version) \in Serials
      BY <1>2, SerialOfType
    <3>3. Applied(i, row) \in Rows
      BY <1>1, <1>2, <3>1, <3>2 DEF Rows, Contents
    <3>4. Applied(i, row).serial = SerialOf(job[i].version) /\ Applied(i, row).content = job[i].version
      BY <1>1, <3>1 DEF Rows
    <3>5. Consistent(Applied(i, row))
      BY <1>2, <3>4 DEF Consistent
    <3> QED  BY <3>3, <3>5
  <2>3. CASE job[i].kind = "ixfr"
    <3>0. /\ row.serial = z.serial /\ Consistent(row) /\ Consistent(z)
      BY <1>1, <1>3, <2>3 DEF Moved, Knows
    <3>1. row.content = z.content
      BY <3>0, SerialsDiffer DEF Consistent
    <3>2. Applied(i, row) = [row EXCEPT !.serial = SerialOf(job[i].version),
                                        !.content = job[i].version]
      BY <2>3, <3>1 DEF Applied
    <3>3. SerialOf(job[i].version) \in Serials
      BY <1>2, SerialOfType
    <3>4. Applied(i, row) \in Rows
      BY <1>1, <1>2, <3>2, <3>3 DEF Rows, Contents
    <3>5. Applied(i, row).serial = SerialOf(job[i].version) /\ Applied(i, row).content = job[i].version
      BY <1>1, <3>2 DEF Rows
    <3>6. Consistent(Applied(i, row))
      BY <1>2, <3>5 DEF Consistent
    <3> QED  BY <3>4, <3>6
  <2> QED  BY <1>2, <2>1, <2>2, <2>3 DEF Kinds
<1>6. NextRefresh(i, a, Timer(SoaRefresh)) \in Nat
  BY TimerType DEF NextRefresh
<1>7. row' = [a EXCEPT !.loaded = TRUE, !.expired = FALSE, !.failed = FALSE,
                       !.next = NextRefresh(i, a, Timer(SoaRefresh)),
                       !.expires = Timer(SoaExpire), !.from = Asked(i)]
  BY <1>1, <1>5 DEF Timers
<1>8. row' \in Rows /\ row'.loaded /\ row'.content = a.content /\ row'.serial = a.serial
  BY <1>4, <1>6, <1>7, TimerType DEF Rows
<1>9. Consistent(row')
  BY <1>5, <1>8 DEF Consistent
<1> QED  BY <1>1, <1>8, <1>9, EndStep

\* Time changes nothing a refresh knows of the records.
LEMMA TickStep ==
    ASSUME SecondaryInv, Tick
    PROVE  SecondaryInv'
<1>1. row \in Rows /\ job \in [Instances -> Jobs] /\ TypeOK
  BY DEF SecondaryInv, TypeOK
<1>2. \A n \in Nat : Count(n) \in Nat
  BY DEF Count
<1>3. row' = [row EXCEPT !.next = Count(row.next), !.expires = Count(row.expires)]
  BY DEF Tick
<1>4. /\ row' \in Rows
      /\ row'.loaded = row.loaded /\ row'.content = row.content /\ row'.serial = row.serial
  BY <1>1, <1>2, <1>3 DEF Rows
<1>5. ASSUME NEW i \in Instances
      PROVE  job'[i] \in Jobs /\ Knows(job[i])'
  <2>1. CASE job[i].at \in {"idle", "read"}
    <3>1. job'[i] = job[i]
      BY <1>1, <2>1 DEF Tick, Jobs
    <3> QED  BY <1>1, <2>1, <3>1 DEF Knows
  <2>2. CASE job[i].at \in {"count", "ask", "transfer", "apply"}
    <3>1. job[i].zone \in Zones /\ "zone" \in DOMAIN job[i]
      BY <1>1, <2>2 DEF Jobs
    <3>2. job'[i] = [job[i] EXCEPT !.zone.expires = Count(job[i].zone.expires)]
      BY <3>1 DEF Tick
    <3>3. PICK z \in Zones : /\ z = [job[i].zone EXCEPT !.expires = Count(job[i].zone.expires)]
                             /\ z.loaded = job[i].zone.loaded
                             /\ z.content = job[i].zone.content
                             /\ z.serial = job[i].zone.serial
                             /\ z.primaries = job[i].zone.primaries
      <4>1. Count(job[i].zone.expires) \in Nat
        BY <1>2, <3>1 DEF Zones
      <4> DEFINE w == [job[i].zone EXCEPT !.expires = Count(job[i].zone.expires)]
      <4>2. w \in Zones
        BY <3>1, <4>1 DEF Zones
      <4>3. /\ w.loaded = job[i].zone.loaded /\ w.content = job[i].zone.content
            /\ w.serial = job[i].zone.serial /\ w.primaries = job[i].zone.primaries
        BY <3>1 DEF Zones
      <4> HIDE DEF w
      <4> WITNESS w \in Zones
      <4> QED  BY <4>3 DEF w
    <3>4. job'[i] = [job[i] EXCEPT !.zone = z]
      BY <3>2, <3>3
    <3>5. /\ job'[i] \in Jobs /\ job'[i].at = job[i].at /\ job'[i].zone = z
          /\ job[i].at # "count" => job'[i].nth = job[i].nth
          /\ job[i].at = "apply" => job'[i].kind = job[i].kind
      BY <1>1, <2>2, <3>3, <3>4 DEF Jobs
    <3>6. Knows(job[i])
      BY DEF SecondaryInv, KnowledgeIsOneVersion
    <3> QED  BY <1>4, <2>2, <3>3, <3>5, <3>6 DEF Knows, Consistent, SerialOf
  <2> QED  BY <1>1, <2>1, <2>2 DEF Jobs
<1>6. TypeOK'
  <2>1. job' \in [Instances -> Jobs]
    BY <1>5 DEF Tick
  <2> QED  BY <1>4, <2>1 DEF Tick, SecondaryInv, TypeOK
<1> QED  BY <1>4, <1>5, <1>6 DEF SecondaryInv, KnowledgeIsOneVersion, Consistent, SerialOf

\* Every step keeps the invariant.
LEMMA NextInv == SecondaryInv /\ [Next]_vars => SecondaryInv'
<1> SUFFICES ASSUME SecondaryInv, [Next]_vars PROVE SecondaryInv'
  OBVIOUS
<1> USE DEF SecondaryInv
<1>0. row \in Rows /\ lock \in Instances \cup {None} /\ TypeOK
  BY DEF TypeOK
<1>1. ASSUME NEW i \in Instances, Begin(i) PROVE SecondaryInv'
  <2>1. PICK j \in Jobs : j = [at |-> "read"]
    BY DEF Jobs
  <2>2. Knows(j)'
    BY <2>1 DEF Knows
  <2>3. /\ job' = [job EXCEPT ![i] = j]
        /\ row' = row /\ version' = version /\ lock' \in Instances \cup {None}
    BY <1>1, <2>1 DEF Begin
  <2> QED  BY <1>0, <2>2, <2>3, JobStep
<1>2. ASSUME NEW i \in Instances, ReadZone(i) PROVE SecondaryInv'
  <2>0. row' = row /\ version' = version
    BY <1>2 DEF ReadZone
  <2>1. CASE row.exists
    <3>1. PICK j \in Jobs : j = [at |-> "count", zone |-> Known(row)]
      BY <1>0, KnownType DEF Jobs
    <3>2. Knows(j)'
      BY <1>0, <2>0, <3>1, KnownType DEF Knows, Consistent, SerialOf
    <3>3. job' = [job EXCEPT ![i] = j] /\ lock' = lock
      BY <1>2, <2>1, <3>1 DEF ReadZone
    <3> QED  BY <1>0, <2>0, <3>2, <3>3, JobStep
  <2>2. CASE ~row.exists
    BY <1>0, <1>2, <2>0, <2>2, EndStep DEF ReadZone
  <2> QED  BY <2>1, <2>2
<1>3. ASSUME NEW i \in Instances, ReadRequests(i) PROVE SecondaryInv'
  <2>0. row' = row /\ version' = version
    BY <1>3 DEF ReadRequests
  <2>1. CASE row.exists
    <3>0. job[i].zone \in Zones /\ row.requests \in Nat /\ job[i].at = "count"
      BY <1>0, <1>3 DEF ReadRequests, TypeOK, Jobs, Rows
    <3>1. PICK j \in Jobs : j = [at |-> "ask", zone |-> job[i].zone,
                                 requests |-> row.requests, nth |-> 1]
      <4>1. 1 \in Nat \ {0}
        OBVIOUS
      <4> QED  BY <3>0, <4>1 DEF Jobs
    <3>2. Knows(j)'
      BY <2>0, <3>0, <3>1 DEF KnowledgeIsOneVersion, Knows, Consistent, SerialOf
    <3>3. job' = [job EXCEPT ![i] = j] /\ lock' = lock
      BY <1>3, <2>1, <3>1 DEF ReadRequests
    <3> QED  BY <1>0, <2>0, <3>2, <3>3, JobStep
  <2>2. CASE ~row.exists
    BY <1>0, <1>3, <2>0, <2>2, EndStep DEF ReadRequests
  <2> QED  BY <2>1, <2>2
<1>4. ASSUME NEW i \in Instances, SoaAnswered(i) PROVE SecondaryInv'
  <2>0. /\ UNCHANGED <<row, lock, version>>
        /\ job[i].at = "ask" /\ HasPrimary(i)
    BY <1>4 DEF SoaAnswered
  <2>1. version[Asked(i)] \in Versions
    BY <1>0, <2>0, AskedType DEF TypeOK
  <2>2. CASE job[i].zone.loaded /\ ~SerialLess(job[i].zone.serial, SerialOf(version[Asked(i)]))
    <3>1. Answer(i, "current", version[Asked(i)])
      BY <1>4, <2>2 DEF SoaAnswered
    <3> QED  BY <2>0, <2>1, <2>2, <3>1, AnswerStep DEF Kinds
  <2>3. CASE ~(job[i].zone.loaded /\ ~SerialLess(job[i].zone.serial, SerialOf(version[Asked(i)])))
    <3>0. job[i].zone \in Zones /\ job[i].requests \in Nat /\ job[i].nth \in Nat \ {0}
      BY <1>0, <2>0, JobFields
    <3>1. PICK j \in Jobs : j = [at |-> "transfer", zone |-> job[i].zone,
                                 requests |-> job[i].requests, nth |-> job[i].nth]
      BY <3>0 DEF Jobs
    <3>2. Knows(j)'
      BY <2>0, <3>1 DEF KnowledgeIsOneVersion, Knows, Consistent, SerialOf, HasPrimary
    <3>3. job' = [job EXCEPT ![i] = j]
      BY <1>4, <2>3, <3>1 DEF SoaAnswered
    <3> QED  BY <1>0, <2>0, <3>2, <3>3, JobStep
  <2> QED  BY <2>2, <2>3
<1>5. ASSUME NEW i \in Instances, SoaFailed(i) \/ TransferFailed(i) \/ Conflict(i)
      PROVE SecondaryInv'
  BY <1>5, TryNextStep DEF SoaFailed, TransferFailed, Conflict
<1>6. ASSUME NEW i \in Instances, Transferred(i) PROVE SecondaryInv'
  <2>0. /\ UNCHANGED <<row, lock, version>>
        /\ job[i].at = "transfer"
    BY <1>6 DEF Transferred
  <2>1. HasPrimary(i)
    BY <2>0 DEF KnowledgeIsOneVersion, Knows, HasPrimary
  <2>2. version[Asked(i)] \in Versions
    BY <1>0, <2>0, <2>1, AskedType DEF TypeOK
  <2>3. PICK kind \in Kinds : /\ Answer(i, kind, version[Asked(i)])
                              /\ kind # "axfr" => job[i].zone.loaded
    BY <1>6 DEF Transferred, Kinds
  <2> QED  BY <2>0, <2>1, <2>2, <2>3, AnswerStep
<1>7. ASSUME NEW i \in Instances, Succeed(i) PROVE SecondaryInv'
  BY <1>7, SucceedStep
<1>8. ASSUME NEW i \in Instances, Vanished(i) \/ Crash(i) PROVE SecondaryInv'
  BY <1>0, <1>8, EndStep DEF Vanished, Crash
<1>9. ASSUME NEW i \in Instances, Fail(i) PROVE SecondaryInv'
  <2>1. job[i].requests \in Nat /\ row.requests \in Nat /\ Retry(job[i].zone) \in Nat
    BY <1>0, <1>9, JobFields, TimerType, BoundsAreNat DEF Fail, Retry, Rows
  <2>2. row' = [row EXCEPT !.failed = TRUE,
                           !.next = NextRefresh(i, row, Retry(job[i].zone)),
                           !.expired = row.expired \/ PastExpiry(row)]
    BY <1>9 DEF Fail
  <2>3. NextRefresh(i, row, Retry(job[i].zone)) \in Nat
    BY <2>1 DEF NextRefresh
  <2>4. (row.expired \/ PastExpiry(row)) \in BOOLEAN
    OBVIOUS
  <2>5. /\ row' \in Rows
        /\ row'.loaded = row.loaded /\ row'.content = row.content /\ row'.serial = row.serial
    BY <1>0, <2>2, <2>3, <2>4 DEF Rows
  <2>6. row'.loaded => Consistent(row')
    BY <2>5 DEF Consistent
  <2> QED  BY <1>9, <2>5, <2>6, EndStep DEF Fail
<1>10. ASSUME NEW p \in Primaries, NotifyTx(p) PROVE SecondaryInv'
  <2>1. row' = Requested(row) /\ UNCHANGED <<job, lock, version>>
    BY <1>10 DEF NotifyTx
  <2> QED  BY <1>0, <2>1, RequestedType, RowStep
<1>11. CASE RefreshNow
  <2>1. row' = Requested(row) /\ UNCHANGED <<job, lock, version>>
    BY <1>11 DEF RefreshNow
  <2> QED  BY <1>0, <2>1, RequestedType, RowStep
<1>12. ASSUME NEW list \in PrimaryLists, UpdateZone(list) PROVE SecondaryInv'
  <2>1. row' = [row EXCEPT !.primaries = list] /\ UNCHANGED <<job, lock, version>>
    BY <1>12 DEF UpdateZone
  <2> QED  BY <1>0, <2>1, RowStep DEF Rows
<1>13. CASE DeleteZone
  <2>1. row' = [row EXCEPT !.exists = FALSE] /\ UNCHANGED <<job, lock, version>>
    BY <1>13 DEF DeleteZone
  <2> QED  BY <1>0, <2>1, RowStep DEF Rows
<1>14. ASSUME NEW i \in Instances, LockBreaks(i) PROVE SecondaryInv'
  BY <1>14 DEF LockBreaks, TypeOK, KnowledgeIsOneVersion, Knows, Consistent, SerialOf
<1>15. ASSUME NEW p \in Primaries, PrimaryChanges(p) PROVE SecondaryInv'
  <2>1. version' \in [Primaries -> Versions]
    BY <1>15, BoundsAreNat DEF PrimaryChanges, TypeOK, Versions
  <2>2. UNCHANGED <<row, lock, job>>
    BY <1>15 DEF PrimaryChanges
  <2> QED
    BY <2>1, <2>2 DEF TypeOK, KnowledgeIsOneVersion, Knows, Consistent, SerialOf
<1>16. CASE Tick
  BY <1>16, TickStep
<1>17. CASE UNCHANGED vars
  BY <1>17 DEF vars, TypeOK, KnowledgeIsOneVersion, Knows, Consistent, SerialOf
<1> QED
  BY <1>1, <1>2, <1>3, <1>4, <1>5, <1>6, <1>7, <1>8, <1>9, <1>10, <1>11, <1>12,
     <1>13, <1>14, <1>15, <1>16, <1>17 DEF Next, Step

\* RecordsAreOneVersion holds for every number of instances and primaries and
\* all timers, also when advisory locks break under running refreshes: the
\* check of the locked serial in succeed is enough for the records, whatever
\* the scheduler's lock is worth.
THEOREM RecordsStayOneVersion == Spec => []RecordsAreOneVersion
<1>1. SecondaryInv => RecordsAreOneVersion
  BY DEF SecondaryInv, RecordsAreOneVersion
<1> QED  BY InitInv, NextInv, <1>1, PTL DEF Spec
-----------------------------------------------------------------------------
(* While the lock holds.                                                    *)

\* A refresh that runs holds the lock, so at most one runs.
LockIsHeld == \A i \in Instances : job[i].at # "idle" => lock = i

\* What refresh j read of the row is what the row still says.
Fresh(j) ==
    j.at \in {"count", "ask", "transfer", "apply"} =>
        /\ j.zone.loaded = row.loaded /\ j.zone.expired = row.expired
        /\ j.zone.serial = row.serial /\ j.zone.content = row.content
        /\ j.zone.expires = row.expires

\* What refresh j learned of the primary it asks: a transfer brings nothing older than the zone,
\* an answer "current" nothing newer, and unless a request came meanwhile the answer is not
\* older than the primary's last NOTIFY.
Learned(j) ==
    /\ j.at \in {"ask", "transfer", "apply"} => j.requests <= row.requests
    /\ j.at = "transfer" => j.zone.content <= version[j.zone.primaries[j.nth]]
    /\ j.at = "apply" =>
         /\ j.kind = "current" => j.version <= j.zone.content
         /\ j.kind # "current" => j.zone.content <= j.version
         /\ j.requests = row.requests => notified[j.zone.primaries[j.nth]] <= j.version

\* What every step preserves: a NOTIFY tells what its primary has, a zone without a transfer has
\* no records, and while no lock broke a refresh works on a row that nobody else changes.
LockedInv ==
    /\ notified \in [Primaries -> Versions]
    /\ \A p \in Primaries : notified[p] <= version[p]
    /\ ~row.loaded => row.content = NoVersion
    /\ broken \in BOOLEAN
    /\ ~broken => /\ LockIsHeld
                  /\ \A i \in Instances : Fresh(job[i]) /\ Learned(job[i])
                  /\ PublishedIsCurrent /\ NotifyIsHeeded

\* Serial arithmetic tells the older of two versions, also across the wrap.
LEMMA SerialsOrder ==
    ASSUME NEW v \in Versions, NEW w \in Versions
    PROVE  SerialLess(SerialOf(v), SerialOf(w)) <=> v < w
BY BoundsAreNat, SerialsCompare DEF Versions, SerialOf, SerialLess

\* The row is a record: its fields, and versions are numbers.
LEMMA RowFields ==
    ASSUME row \in Rows
    PROVE  /\ row.content \in Int /\ row.next \in Nat /\ row.expires \in Nat /\ row.requests \in Nat
           /\ row.loaded \in BOOLEAN /\ row.expired \in BOOLEAN /\ row.exists \in BOOLEAN
           /\ row.failed \in BOOLEAN /\ row.from \in Primaries \cup {None}
           /\ row.content \in Contents
BY BoundsAreNat DEF Rows, Contents, Versions, NoVersion

LEMMA LockedInit == Init => LockedInv
<1> SUFFICES ASSUME Init PROVE LockedInv
  OBVIOUS
<1>1. notified \in [Primaries -> Versions] /\ \A p \in Primaries : notified[p] <= version[p]
  BY BoundsAreNat DEF Init, Versions
<1>2. row.content = NoVersion /\ row.next = 0 /\ broken = FALSE /\ PublishedIsCurrent
  BY DEF Init, PublishedIsCurrent
<1>3. \A i \in Instances : job[i].at = "idle"
  BY DEF Init, Idle
<1>4. \A i \in Instances : Fresh(job[i]) /\ Learned(job[i])
  BY <1>3 DEF Fresh, Learned
<1>5. LockIsHeld /\ NotifyIsHeeded
  BY <1>2, <1>3 DEF LockIsHeld, NotifyIsHeeded
<1> QED
  BY <1>1, <1>2, <1>4, <1>5 DEF LockedInv

\* What follows of the row alone: it stays told and heeded.
RowIsKept ==
    /\ ~row.loaded => row.content = NoVersion
    /\ ~broken => PublishedIsCurrent /\ NotifyIsHeeded

\* A refresh that goes on with job j, having changed nothing but what it knows.
LEMMA LockedJobStep ==
    ASSUME SecondaryInv, LockedInv, NEW i \in Instances, NEW j \in Jobs,
           job' = [job EXCEPT ![i] = j],
           UNCHANGED <<row, published, version, notified, broken>>,
           ~broken => lock' = i /\ (lock' = lock \/ \A k \in Instances : job[k].at = "idle"),
           ~broken => Fresh(j) /\ Learned(j)
    PROVE  LockedInv'
<1>1. job'[i] = j /\ \A k \in Instances : k # i => job'[k] = job[k]
  BY DEF SecondaryInv, TypeOK
<1>2. ASSUME ~broken
      PROVE  LockIsHeld' /\ \A k \in Instances : Fresh(job[k])' /\ Learned(job[k])'
  <2>1. LockIsHeld'
    BY <1>1, <1>2 DEF LockedInv, LockIsHeld
  <2>2. ASSUME NEW k \in Instances PROVE Fresh(job[k])' /\ Learned(job[k])'
    <3>1. Fresh(job'[k]) /\ Learned(job'[k])
      BY <1>1, <1>2, <2>2 DEF LockedInv
    <3> QED
      BY <3>1 DEF Fresh, Learned
  <2> QED
    BY <2>1, <2>2
<1>3. RowIsKept'
  BY DEF LockedInv, RowIsKept, PublishedIsCurrent, NotifyIsHeeded
<1> QED
  BY <1>2, <1>3 DEF LockedInv, RowIsKept

\* A refresh that ends leaves no other behind.
LEMMA LockedEndStep ==
    ASSUME SecondaryInv, LockedInv, NEW i \in Instances, job[i].at # "idle", End(i), RowIsKept',
           UNCHANGED <<version, notified, broken>>
    PROVE  LockedInv'
<1>1. job'[i] = Idle /\ \A k \in Instances : k # i => job'[k] = job[k]
  BY DEF End, SecondaryInv, TypeOK
<1>2. ASSUME ~broken PROVE \A k \in Instances : job'[k].at = "idle"
  BY <1>1, <1>2 DEF LockedInv, LockIsHeld, Idle
<1>3. ASSUME ~broken PROVE LockIsHeld' /\ \A k \in Instances : Fresh(job[k])' /\ Learned(job[k])'
  BY <1>2, <1>3 DEF LockIsHeld, Fresh, Learned
<1> QED
  BY <1>3 DEF LockedInv, RowIsKept

\* A change of the row that no refresh notices, except that it was requested.
LEMMA LockedRowStep ==
    ASSUME SecondaryInv, LockedInv, UNCHANGED <<job, lock, version, broken>>,
           notified' \in [Primaries -> Versions], \A p \in Primaries : notified'[p] <= version[p],
           row'.loaded = row.loaded, row'.expired = row.expired, row'.serial = row.serial,
           row'.content = row.content, row'.expires = row.expires, row' \in Rows,
           \/ row'.requests = row.requests /\ notified' = notified
           \/ row'.requests = row.requests + 1,
           RowIsKept'
    PROVE  LockedInv'
<1>1. row.requests \in Nat /\ row'.requests \in Nat
  BY DEF SecondaryInv, TypeOK, Rows
<1>2. ASSUME NEW i \in Instances, ~broken PROVE Fresh(job[i])' /\ Learned(job[i])'
  <2>1. Fresh(job[i]) /\ Learned(job[i])
    BY <1>2 DEF LockedInv
  <2>2. Fresh(job[i])'
    BY <2>1 DEF Fresh
  <2>3. job[i].at \in {"ask", "transfer", "apply"} => job[i].requests \in Nat
    BY JobFields DEF SecondaryInv
  <2> QED
    BY <1>1, <2>1, <2>2, <2>3 DEF Learned
<1>3. ~broken => LockIsHeld'
  BY DEF LockedInv, LockIsHeld
<1> QED
  BY <1>2, <1>3 DEF LockedInv, RowIsKept

\* The refresh that asks a primary, and the primary it asks.
LEMMA AskingFacts ==
    ASSUME SecondaryInv, LockedInv, NEW i \in Instances,
           job[i].at \in {"ask", "transfer", "apply"}, HasPrimary(i)
    PROVE  /\ Asked(i) \in Primaries /\ Asked(i) = job[i].zone.primaries[job[i].nth]
           /\ version[Asked(i)] \in Versions /\ version[Asked(i)] \in Nat
           /\ notified[Asked(i)] <= version[Asked(i)]
           /\ job[i].zone.content \in Int
<1>1. Asked(i) \in Primaries
  BY AskedType DEF SecondaryInv
<1>2. version[Asked(i)] \in Versions
  BY <1>1 DEF SecondaryInv, TypeOK
<1>3. job[i].zone \in Zones
  BY JobFields DEF SecondaryInv
<1> QED
  BY <1>1, <1>2, <1>3, BoundsAreNat DEF LockedInv, Versions, Asked, Zones, Contents, NoVersion

\* The next primary is asked: what was learned of this one is dropped.
LEMMA LockedTryNext ==
    ASSUME SecondaryInv, LockedInv, NEW i \in Instances, TryNext(i),
           job[i].at \in {"ask", "transfer", "apply"},
           UNCHANGED <<row, published, lock, version, notified, broken>>
    PROVE  LockedInv'
<1>1. job[i].zone \in Zones /\ job[i].requests \in Nat /\ job[i].nth + 1 \in Nat \ {0}
  BY JobFields DEF SecondaryInv
<1>2. PICK j \in Jobs : j = [at |-> "ask", zone |-> job[i].zone,
                             requests |-> job[i].requests, nth |-> job[i].nth + 1]
  BY <1>1 DEF Jobs
<1>3. ~broken => Fresh(j) /\ Learned(j)
  BY <1>2 DEF LockedInv, Fresh, Learned
<1>4. ~broken => lock' = i /\ lock' = lock
  BY DEF LockedInv, LockIsHeld
<1>5. job' = [job EXCEPT ![i] = j]
  BY <1>2 DEF TryNext
<1> QED
  BY <1>3, <1>4, <1>5, LockedJobStep

\* An answer of the primary that is asked now.
LEMMA LockedAnswer ==
    ASSUME SecondaryInv, LockedInv, NEW i \in Instances, NEW kind \in Kinds,
           Answer(i, kind, version[Asked(i)]),
           job[i].at \in {"ask", "transfer"}, HasPrimary(i),
           ~broken /\ kind = "current" => version[Asked(i)] <= job[i].zone.content,
           ~broken /\ kind # "current" => job[i].zone.content <= version[Asked(i)],
           UNCHANGED <<row, published, lock, version, notified, broken>>
    PROVE  LockedInv'
<1> DEFINE v == version[Asked(i)]
<1>0. v \in Versions /\ Asked(i) = job[i].zone.primaries[job[i].nth] /\ notified[Asked(i)] <= v
  BY AskingFacts
<1> HIDE DEF v
<1>1. PICK j \in Jobs : j = [at |-> "apply", zone |-> job[i].zone, requests |-> job[i].requests,
                             nth |-> job[i].nth, kind |-> kind, version |-> v]
  BY <1>0, JobFields DEF SecondaryInv, Jobs
<1>2. ~broken => Fresh(j)
  BY <1>1 DEF LockedInv, Fresh
<1>3. ~broken => Learned(j)
  <2>1. ~broken => Learned(job[i])
    BY DEF LockedInv
  <2> QED
    BY <1>0, <1>1, <2>1 DEF Learned, v
<1>4. ~broken => lock' = i /\ lock' = lock
  BY DEF LockedInv, LockIsHeld
<1>5. job' = [job EXCEPT ![i] = j]
  BY <1>1 DEF Answer, v
<1> QED
  BY <1>2, <1>3, <1>4, <1>5, LockedJobStep

\* The answer to the SOA query: serial arithmetic decides as the versions do.
LEMMA LockedSoaAnswered ==
    ASSUME SecondaryInv, LockedInv, NEW i \in Instances, SoaAnswered(i)
    PROVE  LockedInv'
<1> DEFINE z == job[i].zone
           v == version[Asked(i)]
<1>0. /\ UNCHANGED <<row, published, lock, version, notified, broken>>
      /\ job[i].at = "ask" /\ HasPrimary(i)
  BY DEF SoaAnswered
<1>1. v \in Versions /\ v \in Nat /\ Asked(i) = z.primaries[job[i].nth] /\ z.content \in Int
  BY <1>0, AskingFacts
<1>2. z.loaded => z.content \in Versions /\ z.serial = SerialOf(z.content)
  BY <1>0 DEF SecondaryInv, KnowledgeIsOneVersion, Knows, Consistent
<1>3. z.loaded => (SerialLess(z.serial, SerialOf(v)) <=> z.content < v)
  BY <1>1, <1>2, SerialsOrder
<1>4. CASE z.loaded /\ ~SerialLess(z.serial, SerialOf(v))
  <2>1. Answer(i, "current", v)
    BY <1>4 DEF SoaAnswered
  <2>2. v <= z.content
    BY <1>1, <1>3, <1>4
  <2> QED
    BY <1>0, <2>1, <2>2, LockedAnswer DEF Kinds
<1>5. CASE ~(z.loaded /\ ~SerialLess(z.serial, SerialOf(v)))
  <2>0. z \in Zones /\ job[i].requests \in Nat /\ job[i].nth \in Nat \ {0}
    BY <1>0, JobFields DEF SecondaryInv
  <2>1. PICK j \in Jobs : j = [at |-> "transfer", zone |-> z, requests |-> job[i].requests,
                               nth |-> job[i].nth]
    BY <2>0 DEF Jobs
  <2>2. ~broken => z.content <= v
    <3>1. CASE z.loaded
      BY <1>1, <1>3, <1>5, <3>1
    <3>2. CASE ~z.loaded
      <4>1. ~broken => z.content = NoVersion
        BY <1>0, <3>2 DEF LockedInv, Fresh
      <4> QED
        BY <1>1, <4>1 DEF NoVersion
    <3> QED
      BY <3>1, <3>2
  <2>3. ~broken => Fresh(j) /\ Learned(j)
    BY <1>0, <1>1, <2>1, <2>2 DEF LockedInv, Fresh, Learned
  <2>4. ~broken => lock' = i /\ lock' = lock
    BY <1>0 DEF LockedInv, LockIsHeld
  <2>5. job' = [job EXCEPT ![i] = j]
    BY <1>5, <2>1 DEF SoaAnswered
  <2> QED
    BY <1>0, <2>3, <2>4, <2>5, LockedJobStep
<1> QED
  BY <1>4, <1>5

\* The fields of the row after an answer is applied.
LEMMA SucceedFields ==
    ASSUME SecondaryInv, NEW i \in Instances, Succeed(i)
    PROVE  /\ row' \in Rows /\ row'.loaded /\ ~row'.expired /\ ~row'.failed
           /\ row'.exists = row.exists
           /\ row'.from = Asked(i)
           /\ row'.next = NextRefresh(i, row, Timer(SoaRefresh))
           /\ job[i].kind = "current" => row'.content = row.content /\ row'.serial = row.serial
           /\ job[i].kind # "current" => row'.content = job[i].version
<1>0. row \in Rows /\ TypeOK /\ job[i].at = "apply"
  BY DEF Succeed, SecondaryInv, TypeOK
<1>1. SecondaryInv'
  BY SucceedStep
<1>2. row' = Timers(i, Applied(i, row)) /\ ~Moved(i)
  BY DEF Succeed
<1>3. job[i].kind \in Kinds /\ job[i].version \in Versions
  BY <1>0, JobFields
<1>4. PICK a : /\ a = Applied(i, row) /\ DOMAIN a = DOMAIN row
               /\ a.requests = row.requests /\ a.exists = row.exists
               /\ job[i].kind = "current" => a.content = row.content /\ a.serial = row.serial
               /\ job[i].kind # "current" => a.content = job[i].version
  <2>1. CASE job[i].kind = "current"
    BY <2>1 DEF Applied
  <2>2. CASE job[i].kind = "axfr"
    <3>1. Applied(i, row) = [row EXCEPT !.serial = SerialOf(job[i].version),
                                        !.content = job[i].version]
      BY <2>2 DEF Applied
    <3> QED
      BY <1>0, <2>2, <3>1 DEF Rows
  <2>3. CASE job[i].kind = "ixfr"
    <3>1. row.content = job[i].zone.content
      <4>1. Consistent(row) /\ Consistent(job[i].zone) /\ row.serial = job[i].zone.serial
        BY <1>0, <1>2, <2>3 DEF SecondaryInv, KnowledgeIsOneVersion, Knows, Moved
      <4> QED
        BY <4>1, SerialsDiffer DEF Consistent
    <3>2. Applied(i, row) = [row EXCEPT !.serial = SerialOf(job[i].version),
                                        !.content = job[i].version]
      BY <2>3, <3>1 DEF Applied
    <3> QED
      BY <1>0, <2>3, <3>2 DEF Rows
  <2> QED
    BY <1>3, <2>1, <2>2, <2>3 DEF Kinds
<1>5. NextRefresh(i, a, Timer(SoaRefresh)) = NextRefresh(i, row, Timer(SoaRefresh))
  BY <1>4 DEF NextRefresh
<1>6. row' = [a EXCEPT !.loaded = TRUE, !.expired = FALSE, !.failed = FALSE,
                       !.next = NextRefresh(i, row, Timer(SoaRefresh)),
                       !.expires = Timer(SoaExpire), !.from = Asked(i)]
  BY <1>2, <1>4, <1>5 DEF Timers
<1>7. row' \in Rows
  BY <1>1 DEF SecondaryInv, TypeOK
<1>8. DOMAIN a = {"exists", "primaries", "loaded", "expired", "serial", "content", "next",
                  "expires", "requests", "failed", "from"}
  BY <1>0, <1>4 DEF Rows
<1> QED
  BY <1>4, <1>6, <1>7, <1>8

\* The answer is published, or there was nothing to publish; and it is as new as the last NOTIFY
\* of its primary unless one came meanwhile.
LEMMA LockedSucceed ==
    ASSUME SecondaryInv, LockedInv, NEW i \in Instances, Succeed(i)
    PROVE  /\ LockedInv'
           /\ ~broken => row'.content >= row.content
<1> DEFINE z == job[i].zone
<1>0. /\ job[i].at = "apply" /\ End(i) /\ row.exists /\ row \in Rows
      /\ UNCHANGED <<version, notified, broken>>
  BY DEF Succeed, SecondaryInv, TypeOK
<1>1. HasPrimary(i)
  BY <1>0 DEF SecondaryInv, KnowledgeIsOneVersion, Knows, HasPrimary
<1>2. /\ Asked(i) \in Primaries /\ Asked(i) = z.primaries[job[i].nth]
      /\ z.content \in Int /\ notified[Asked(i)] \in Int
      /\ job[i].version \in Int /\ job[i].requests \in Nat /\ job[i].kind \in Kinds
  BY <1>0, <1>1, AskingFacts, JobFields, BoundsAreNat DEF SecondaryInv, LockedInv, Versions
<1>3. ASSUME ~broken PROVE Fresh(job[i]) /\ Learned(job[i])
  BY <1>3 DEF LockedInv
<1>4. ASSUME ~broken PROVE PublishedIsCurrent'
  <2>1. CASE Unpublished(i)
    <3>1. ~row.expired /\ row.loaded /\ job[i].kind = "current"
      BY <1>0, <1>3, <1>4, <2>1 DEF Unpublished, Fresh, SecondaryInv, KnowledgeIsOneVersion, Knows
    <3>2. /\ row'.loaded /\ ~row'.expired /\ row'.exists = row.exists
          /\ row'.content = row.content /\ row'.serial = row.serial
      BY <3>1, SucceedFields
    <3>3. AuthZone(row') = AuthZone(row)
      BY <3>1, <3>2 DEF AuthZone
    <3>4. published' = published /\ published = AuthZone(row)
      BY <1>4, <2>1 DEF Succeed, LockedInv, PublishedIsCurrent
    <3> QED
      BY <3>3, <3>4 DEF PublishedIsCurrent
  <2>2. CASE ~Unpublished(i)
    BY <2>2 DEF Succeed, PublishedIsCurrent
  <2> QED
    BY <2>1, <2>2
<1>5. ASSUME ~broken
      PROVE  row'.content >= job[i].version /\ row'.content >= row.content
  <2>0. z.content = row.content
    BY <1>0, <1>3, <1>5 DEF Fresh
  <2>1. CASE job[i].kind = "current"
    <3>1. row'.content = row.content /\ job[i].version <= z.content
      BY <1>0, <1>3, <1>5, <2>1, SucceedFields DEF Learned
    <3> QED
      BY <1>2, <2>0, <3>1
  <2>2. CASE job[i].kind # "current"
    <3>1. row'.content = job[i].version /\ z.content <= job[i].version
      BY <1>0, <1>3, <1>5, <2>2, SucceedFields DEF Learned
    <3> QED
      BY <1>2, <2>0, <3>1
  <2> QED
    BY <2>1, <2>2
<1>6. ASSUME ~broken PROVE NotifyIsHeeded'
  <2> SUFFICES ASSUME row'.next > 0 PROVE row'.content >= notified[Asked(i)]
    BY <1>0, SucceedFields DEF NotifyIsHeeded
  <2>1. row.requests = job[i].requests
    BY SucceedFields DEF NextRefresh
  <2>2. notified[Asked(i)] <= job[i].version
    BY <1>0, <1>2, <1>3, <1>6, <2>1 DEF Learned
  <2>3. row'.content \in Int
    BY SucceedFields, BoundsAreNat DEF Rows, Contents, Versions, NoVersion
  <2> QED
    BY <1>2, <1>5, <1>6, <2>2, <2>3
<1>7. RowIsKept'
  BY <1>0, <1>4, <1>6, SucceedFields DEF RowIsKept
<1> QED
  BY <1>0, <1>5, <1>7, LockedEndStep

\* A failure publishes the expiry exactly when the row expires.
LEMMA LockedFail ==
    ASSUME SecondaryInv, LockedInv, NEW i \in Instances, Fail(i)
    PROVE  LockedInv' /\ row'.content = row.content
<1> DEFINE z == job[i].zone
<1>0. /\ job[i].at = "ask" /\ End(i) /\ row \in Rows
      /\ UNCHANGED <<version, notified, broken>>
  BY DEF Fail, SecondaryInv, TypeOK
<1>1. /\ row'.loaded = row.loaded /\ row'.exists = row.exists /\ row'.failed
      /\ row'.content = row.content /\ row'.serial = row.serial
      /\ row'.expired = (row.expired \/ PastExpiry(row))
  BY <1>0 DEF Fail, Rows
<1>2. ASSUME ~broken PROVE PublishedIsCurrent'
  <2>1. CASE ExpiresNow(z)
    BY <2>1 DEF Fail, PublishedIsCurrent
  <2>2. CASE ~ExpiresNow(z)
    <3>1. Fresh(job[i]) /\ published = AuthZone(row)
      BY <1>2 DEF LockedInv, PublishedIsCurrent
    <3>2. row.expired \in BOOLEAN /\ row.loaded \in BOOLEAN
      BY <1>0 DEF Rows
    <3>3. row'.expired = row.expired
      BY <1>0, <1>1, <2>2, <3>1, <3>2 DEF ExpiresNow, PastExpiry, Fresh
    <3>4. AuthZone(row') = AuthZone(row)
      BY <1>1, <3>3 DEF AuthZone
    <3>5. published' = published
      BY <2>2 DEF Fail
    <3> QED
      BY <3>1, <3>4, <3>5 DEF PublishedIsCurrent
  <2> QED
    BY <2>1, <2>2
<1>3. RowIsKept'
  <2>1. NotifyIsHeeded' /\ (~row'.loaded => row'.content = NoVersion)
    BY <1>1 DEF NotifyIsHeeded, LockedInv
  <2> QED
    BY <1>0, <1>2, <2>1 DEF RowIsKept
<1> QED
  BY <1>0, <1>1, <1>3, LockedEndStep

\* Time counts down the row and what a refresh read of it alike.
LEMMA LockedTick ==
    ASSUME SecondaryInv, LockedInv, Tick
    PROVE  LockedInv' /\ row'.content = row.content
<1>0. row \in Rows /\ job \in [Instances -> Jobs] /\ UNCHANGED <<published, lock, version, notified, broken>>
  BY DEF SecondaryInv, TypeOK, Tick
<1>1. /\ row'.loaded = row.loaded /\ row'.exists = row.exists /\ row'.failed = row.failed
      /\ row'.content = row.content /\ row'.serial = row.serial /\ row'.expired = row.expired
      /\ row'.from = row.from /\ row'.requests = row.requests
      /\ row'.next = Count(row.next) /\ row'.expires = Count(row.expires)
  BY <1>0 DEF Tick, Rows
<1>2. row.next \in Nat /\ (Count(row.next) > 0 => row.next > 0)
  BY <1>0 DEF Rows, Count
<1>3. ASSUME ~broken PROVE PublishedIsCurrent' /\ NotifyIsHeeded'
  BY <1>0, <1>1, <1>2, <1>3 DEF LockedInv, PublishedIsCurrent, AuthZone, NotifyIsHeeded
<1>4. ASSUME NEW i \in Instances, ~broken
      PROVE  /\ job'[i].at = job[i].at
             /\ Fresh(job[i])' /\ Learned(job[i])'
  <2>0. Fresh(job[i]) /\ Learned(job[i])
    BY <1>4 DEF LockedInv
  <2>1. CASE job[i].at \in {"idle", "read"}
    <3>1. job'[i] = job[i]
      BY <1>0, <2>1 DEF Tick, Jobs
    <3> QED
      BY <2>1, <3>1 DEF Fresh, Learned
  <2>2. CASE job[i].at \in {"count", "ask", "transfer", "apply"}
    <3>1. job[i].zone \in Zones /\ "zone" \in DOMAIN job[i]
      BY <1>0, <2>2 DEF Jobs
    <3>2. PICK w : /\ w = [job[i].zone EXCEPT !.expires = Count(job[i].zone.expires)]
                   /\ w.loaded = job[i].zone.loaded /\ w.content = job[i].zone.content
                   /\ w.serial = job[i].zone.serial /\ w.primaries = job[i].zone.primaries
                   /\ w.expired = job[i].zone.expired
                   /\ w.expires = Count(job[i].zone.expires)
      <4> DEFINE u == [job[i].zone EXCEPT !.expires = Count(job[i].zone.expires)]
      <4>1. /\ u.loaded = job[i].zone.loaded /\ u.content = job[i].zone.content
            /\ u.serial = job[i].zone.serial /\ u.primaries = job[i].zone.primaries
            /\ u.expired = job[i].zone.expired
            /\ u.expires = Count(job[i].zone.expires)
        BY <3>1 DEF Zones
      <4> HIDE DEF u
      <4> WITNESS u
      <4> QED
        BY <4>1 DEF u
    <3>3. job'[i] = [job[i] EXCEPT !.zone = w]
      BY <3>1, <3>2 DEF Tick
    <3>4. /\ job'[i].at = job[i].at /\ job'[i].zone = w
          /\ job[i].at # "count" => job'[i].nth = job[i].nth /\ job'[i].requests = job[i].requests
          /\ job[i].at = "apply" => job'[i].kind = job[i].kind /\ job'[i].version = job[i].version
      BY <1>0, <2>2, <3>3 DEF Jobs
    <3>5. Fresh(job[i])'
      BY <1>1, <2>0, <2>2, <3>2, <3>4 DEF Fresh
    <3>6. Learned(job[i])'
      BY <1>0, <1>1, <2>0, <2>2, <3>2, <3>4 DEF Learned
    <3> QED
      BY <3>4, <3>5, <3>6
  <2> QED
    BY <1>0, <2>1, <2>2 DEF Jobs
<1>5. ~broken => LockIsHeld'
  BY <1>0, <1>4 DEF LockedInv, LockIsHeld
<1> QED
  BY <1>0, <1>1, <1>3, <1>4, <1>5 DEF LockedInv

\* Every step keeps what the lock protects, and no step while it holds takes the zone back.
LEMMA LockedNext ==
    ASSUME SecondaryInv, LockedInv, [Next]_vars
    PROVE  LockedInv' /\ (~broken => row'.content >= row.content)
<1> DEFINE Goal == LockedInv' /\ (~broken => row'.content >= row.content)
<1>0. /\ row \in Rows /\ row.content \in Int /\ TypeOK
      /\ broken \in BOOLEAN /\ (~row.loaded => row.content = NoVersion)
      /\ notified \in [Primaries -> Versions] /\ \A p \in Primaries : notified[p] <= version[p]
      /\ ~broken => published = AuthZone(row) /\ NotifyIsHeeded
  BY RowFields DEF SecondaryInv, TypeOK, LockedInv, PublishedIsCurrent
<1>1. ASSUME NEW i \in Instances, Begin(i) PROVE Goal
  <2>1. PICK j \in Jobs : j = [at |-> "read"]
    BY DEF Jobs
  <2>2. /\ job' = [job EXCEPT ![i] = j] /\ lock' = i
        /\ UNCHANGED <<row, published, version, notified, broken>>
    BY <1>1, <2>1 DEF Begin
  <2>3. ~broken => \A k \in Instances : job[k].at = "idle"
    BY <1>1, NoneIsNoInstance DEF Begin, LockedInv, LockIsHeld
  <2>4. Fresh(j) /\ Learned(j)
    BY <2>1 DEF Fresh, Learned
  <2>5. LockedInv'
    BY <2>2, <2>3, <2>4, LockedJobStep
  <2> QED
    BY <1>0, <2>2, <2>5
<1>2. ASSUME NEW i \in Instances, End(i), job[i].at # "idle",
             UNCHANGED <<row, published, version, notified, broken>>
      PROVE  Goal
  <2>1. RowIsKept'
    BY <1>0, <1>2 DEF RowIsKept, PublishedIsCurrent, NotifyIsHeeded
  <2> QED
    BY <1>0, <1>2, <2>1, LockedEndStep
<1>3. ASSUME NEW i \in Instances, ReadZone(i) PROVE Goal
  <2>0. UNCHANGED <<row, published, version, notified, broken>> /\ job[i].at = "read"
    BY <1>3 DEF ReadZone
  <2>1. CASE row.exists
    <3>1. PICK j \in Jobs : j = [at |-> "count", zone |-> Known(row)]
      BY <1>0, KnownType DEF Jobs
    <3>2. Fresh(j) /\ Learned(j)
      BY <1>0, <3>1 DEF Fresh, Learned, Known
    <3>3. job' = [job EXCEPT ![i] = j] /\ lock' = lock
      BY <1>3, <2>1, <3>1 DEF ReadZone
    <3>4. ~broken => lock' = i
      BY <2>0, <3>3 DEF LockedInv, LockIsHeld
    <3>5. LockedInv'
      BY <2>0, <3>2, <3>3, <3>4, LockedJobStep
    <3> QED
      BY <1>0, <2>0, <3>5
  <2>2. CASE ~row.exists
    BY <1>2, <1>3, <2>0, <2>2 DEF ReadZone
  <2> QED
    BY <2>1, <2>2
<1>4. ASSUME NEW i \in Instances, ReadRequests(i) PROVE Goal
  <2>0. UNCHANGED <<row, published, version, notified, broken>> /\ job[i].at = "count"
    BY <1>4 DEF ReadRequests
  <2>1. CASE row.exists
    <3>0. job[i].zone \in Zones /\ row.requests \in Nat
      BY <1>0, <2>0 DEF TypeOK, Jobs, Rows
    <3>1. PICK j \in Jobs : j = [at |-> "ask", zone |-> job[i].zone,
                                 requests |-> row.requests, nth |-> 1]
      <4>1. 1 \in Nat \ {0}
        OBVIOUS
      <4> QED
        BY <3>0, <4>1 DEF Jobs
    <3>2. ~broken => Fresh(j) /\ Learned(j)
      BY <2>0, <3>0, <3>1 DEF LockedInv, Fresh, Learned
    <3>3. job' = [job EXCEPT ![i] = j] /\ lock' = lock
      BY <1>4, <2>1, <3>1 DEF ReadRequests
    <3>4. ~broken => lock' = i
      BY <2>0, <3>3 DEF LockedInv, LockIsHeld
    <3>5. LockedInv'
      BY <2>0, <3>2, <3>3, <3>4, LockedJobStep
    <3> QED
      BY <1>0, <2>0, <3>5
  <2>2. CASE ~row.exists
    BY <1>2, <1>4, <2>0, <2>2 DEF ReadRequests
  <2> QED
    BY <2>1, <2>2
<1>5. ASSUME NEW i \in Instances, SoaAnswered(i) PROVE Goal
  BY <1>0, <1>5, LockedSoaAnswered DEF SoaAnswered
<1>6. ASSUME NEW i \in Instances, SoaFailed(i) \/ TransferFailed(i) \/ Conflict(i) PROVE Goal
  BY <1>0, <1>6, LockedTryNext DEF SoaFailed, TransferFailed, Conflict
<1>7. ASSUME NEW i \in Instances, Transferred(i) PROVE Goal
  <2>0. /\ UNCHANGED <<row, published, lock, version, notified, broken>>
        /\ job[i].at = "transfer"
    BY <1>7 DEF Transferred
  <2>1. HasPrimary(i)
    BY <2>0 DEF SecondaryInv, KnowledgeIsOneVersion, Knows, HasPrimary
  <2>2. PICK kind \in Kinds : Answer(i, kind, version[Asked(i)]) /\ kind # "current"
    BY <1>7 DEF Transferred, Kinds
  <2>3. ~broken => job[i].zone.content <= version[Asked(i)]
    BY <2>0 DEF LockedInv, Learned, Asked
  <2>4. LockedInv'
    BY <2>0, <2>1, <2>2, <2>3, LockedAnswer
  <2> QED
    BY <1>0, <2>0, <2>4
<1>8. ASSUME NEW i \in Instances, Succeed(i) PROVE Goal
  BY <1>8, LockedSucceed
<1>9. ASSUME NEW i \in Instances, Vanished(i) \/ Crash(i) PROVE Goal
  BY <1>2, <1>9 DEF Vanished, Crash
<1>10. ASSUME NEW i \in Instances, Fail(i) PROVE Goal
  BY <1>0, <1>10, LockedFail
<1>11. ASSUME NEW i \in Instances, LockBreaks(i) PROVE Goal
  BY <1>0, <1>11 DEF LockBreaks, LockedInv
<1>12. ASSUME row' = Requested(row), UNCHANGED <<published, lock, job, version, broken>>,
              notified' \in [Primaries -> Versions], \A p \in Primaries : notified'[p] <= version[p]
       PROVE  Goal
  <2>1. /\ row' \in Rows /\ row'.loaded = row.loaded /\ row'.expired = row.expired
        /\ row'.serial = row.serial /\ row'.content = row.content /\ row'.expires = row.expires
        /\ row'.exists = row.exists /\ row'.next = 0 /\ row'.requests = row.requests + 1
    BY <1>0, <1>12, RequestedType DEF Requested, Rows
  <2>2. AuthZone(row') = AuthZone(row)
    BY <2>1 DEF AuthZone
  <2>3. RowIsKept'
    BY <1>0, <1>12, <2>1, <2>2 DEF RowIsKept, PublishedIsCurrent, NotifyIsHeeded
  <2>4. LockedInv'
    BY <1>12, <2>1, <2>3, LockedRowStep
  <2> QED
    BY <1>0, <2>1, <2>4
<1>13. ASSUME NEW p \in Primaries, NotifyTx(p) PROVE Goal
  <2>1. notified' = [notified EXCEPT ![p] = version[p]] /\ version \in [Primaries -> Versions]
    BY <1>0, <1>13 DEF NotifyTx, TypeOK
  <2>2. version[p] <= version[p]
    BY <1>0, BoundsAreNat DEF TypeOK, Versions
  <2>3. notified' \in [Primaries -> Versions] /\ \A q \in Primaries : notified'[q] <= version[q]
    BY <1>0, <2>1, <2>2
  <2> QED
    BY <1>12, <1>13, <2>3 DEF NotifyTx
<1>14. CASE RefreshNow
  BY <1>0, <1>12, <1>14 DEF RefreshNow
<1>15. ASSUME row' \in Rows, UNCHANGED <<lock, job, version, notified, broken>>,
              published' = AuthZone(row'),
              row'.loaded = row.loaded, row'.expired = row.expired, row'.serial = row.serial,
              row'.content = row.content, row'.expires = row.expires,
              row'.requests = row.requests, row'.next = row.next, row'.failed = row.failed,
              row'.from = row.from, row'.exists => row.exists
       PROVE  Goal
  <2>1. RowIsKept'
    BY <1>0, <1>15 DEF RowIsKept, PublishedIsCurrent, NotifyIsHeeded
  <2>2. LockedInv'
    BY <1>0, <1>15, <2>1, LockedRowStep
  <2> QED
    BY <1>0, <1>15, <2>2
<1>16. ASSUME NEW list \in PrimaryLists, UpdateZone(list) PROVE Goal
  <2>1. /\ row' = [row EXCEPT !.primaries = list] /\ published' = AuthZone(row')
        /\ UNCHANGED <<lock, job, version, notified, broken>>
    BY <1>16 DEF UpdateZone
  <2>2. /\ row' \in Rows
        /\ row'.loaded = row.loaded /\ row'.expired = row.expired /\ row'.serial = row.serial
        /\ row'.content = row.content /\ row'.expires = row.expires
        /\ row'.requests = row.requests /\ row'.next = row.next /\ row'.failed = row.failed
        /\ row'.from = row.from /\ row'.exists = row.exists
    BY <1>0, <2>1 DEF Rows
  <2> QED
    BY <1>15, <2>1, <2>2
<1>17. CASE DeleteZone
  <2>1. /\ row' = [row EXCEPT !.exists = FALSE] /\ published' = AuthZone(row')
        /\ UNCHANGED <<lock, job, version, notified, broken>>
    BY <1>17 DEF DeleteZone
  <2>2. /\ row' \in Rows
        /\ row'.loaded = row.loaded /\ row'.expired = row.expired /\ row'.serial = row.serial
        /\ row'.content = row.content /\ row'.expires = row.expires
        /\ row'.requests = row.requests /\ row'.next = row.next /\ row'.failed = row.failed
        /\ row'.from = row.from /\ ~row'.exists
    BY <1>0, <2>1 DEF Rows
  <2> QED
    BY <1>15, <2>1, <2>2
<1>18. ASSUME NEW p \in Primaries, PrimaryChanges(p) PROVE Goal
  <2>0. /\ UNCHANGED <<row, published, lock, job, notified, broken>>
        /\ version' = [version EXCEPT ![p] = version[p] + 1]
    BY <1>18 DEF PrimaryChanges
  <2>1. /\ version \in [Primaries -> Int] /\ notified \in [Primaries -> Int]
        /\ \A q \in Primaries : version'[q] >= version[q] /\ version'[q] \in Int
    BY <1>0, <2>0, BoundsAreNat DEF TypeOK, Versions
  <2>2. \A q \in Primaries : notified'[q] <= version'[q]
    BY <1>0, <2>0, <2>1
  <2>3. ASSUME NEW i \in Instances, ~broken PROVE Fresh(job[i])' /\ Learned(job[i])'
    <3>1. Fresh(job[i]) /\ Learned(job[i])
      BY <2>3 DEF LockedInv
    <3>2. Fresh(job[i])'
      BY <2>0, <3>1 DEF Fresh
    <3>3. CASE job[i].at = "transfer"
      <4>1. HasPrimary(i)
        BY <3>3 DEF SecondaryInv, KnowledgeIsOneVersion, Knows, HasPrimary
      <4>2. Asked(i) \in Primaries /\ Asked(i) = job[i].zone.primaries[job[i].nth]
            /\ job[i].zone.content \in Int
        BY <3>3, <4>1, AskingFacts
      <4>3. job[i].zone.content <= version[Asked(i)]
        BY <3>1, <3>3, <4>2 DEF Learned
      <4>4. job[i].zone.content <= version'[Asked(i)]
        BY <2>1, <4>2, <4>3
      <4> QED
        BY <2>0, <3>1, <3>2, <3>3, <4>2, <4>4 DEF Learned
    <3>4. CASE job[i].at # "transfer"
      BY <2>0, <3>1, <3>2, <3>4 DEF Learned
    <3> QED
      BY <3>3, <3>4
  <2>4. ~broken => LockIsHeld' /\ PublishedIsCurrent' /\ NotifyIsHeeded'
    BY <1>0, <2>0 DEF LockedInv, LockIsHeld, PublishedIsCurrent, NotifyIsHeeded
  <2> QED
    BY <1>0, <2>0, <2>2, <2>3, <2>4 DEF LockedInv
<1>19. CASE Tick
  BY <1>0, <1>19, LockedTick
<1>20. CASE UNCHANGED vars
  <2>1. ASSUME NEW i \in Instances, ~broken PROVE Fresh(job[i])' /\ Learned(job[i])'
    BY <1>20, <2>1 DEF vars, LockedInv, Fresh, Learned
  <2>2. ~broken => LockIsHeld' /\ PublishedIsCurrent' /\ NotifyIsHeeded'
    BY <1>20 DEF vars, LockedInv, LockIsHeld, PublishedIsCurrent, NotifyIsHeeded
  <2> QED
    BY <1>0, <1>20, <2>1, <2>2 DEF vars, LockedInv
<1> QED
  BY <1>1, <1>3, <1>4, <1>5, <1>6, <1>7, <1>8, <1>9, <1>10, <1>11, <1>13, <1>14, <1>16,
     <1>17, <1>18, <1>19, <1>20 DEF Next, Step

LEMMA LockedInvariant == Spec => [](SecondaryInv /\ LockedInv)
<1>1. SecondaryInv /\ LockedInv /\ [Next]_vars => LockedInv'
  BY LockedNext
<1> QED
  BY <1>1, InitInv, NextInv, LockedInit, PTL DEF Spec

\* PublishedIsCurrent holds for every number of instances and primaries: as long as no lock's
\* session breaks, the row that decided whether to publish is the row that was written, so the
\* latest config version says of the zone what its row says.
THEOREM PublishedStaysCurrent == Spec => []PublishedIsCurrent
<1>1. SecondaryInv /\ LockedInv => PublishedIsCurrent
  BY DEF LockedInv, PublishedIsCurrent
<1> QED
  BY <1>1, LockedInvariant, PTL

\* NotifyIsHeeded holds: a zone that is not due has what its source had at its last NOTIFY,
\* wherever in a refresh the NOTIFY came, because refresh_requests is compared at the end.
THEOREM NotifyStaysHeeded == Spec => []NotifyIsHeeded
<1>1. SecondaryInv /\ LockedInv => NotifyIsHeeded
  BY DEF LockedInv, NotifyIsHeeded
<1> QED
  BY <1>1, LockedInvariant, PTL

\* NeverBackwards holds, also across the wrap of the serial and whichever primary answers.
THEOREM ZoneMovesForward == Spec => NeverBackwards
<1>1. SecondaryInv /\ LockedInv /\ [Next]_vars => [~broken => row'.content >= row.content]_vars
  BY LockedNext
<1> QED
  BY <1>1, LockedInvariant, PTL DEF Spec, NeverBackwards
=============================================================================
