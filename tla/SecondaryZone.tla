---------------------------- MODULE SecondaryZone ----------------------------
(***************************************************************************)
(* One secondary zone and the management plane instances that keep it in   *)
(* step with its primaries (mgmt/internal/xfrin): the scheduler and its    *)
(* advisory lock, the SOA check, AXFR and IXFR, the refresh, retry and     *)
(* expire timers, NOTIFY and manual requests that arrive while a refresh   *)
(* runs, and the config version published with a change.                   *)
(*                                                                         *)
(* A version of the primaries' zone is a number; its serial is that number *)
(* in the serial space, which may wrap.  Timers count down to zero.        *)
(***************************************************************************)
EXTENDS Integers, Sequences, FiniteSets

CONSTANTS
    Instances,       \* management plane instances
    Primaries,       \* the servers the zone is transferred from
    PrimaryLists,    \* the values an operator gives zones.primaries
    SerialSpace,     \* 2^32 in the code
    FirstSerial,     \* serial of version 0
    Unverifiable,    \* versions whose ZONEMD does not verify
    SoaRefresh, SoaRetry, SoaExpire,  \* timers of the primaries' SOA
    MinTimer, MaxTimer, RetryBeforeLoad,
    MaxVersion, MaxRequests, MaxCrashes  \* bounds

None == "none"
NoVersion == -1

ASSUME BoundsAreNat ==
    /\ {SerialSpace, SoaRefresh, SoaRetry, SoaExpire, MinTimer, MaxTimer,
        RetryBeforeLoad, MaxVersion, MaxRequests, MaxCrashes} \subseteq Nat
    /\ FirstSerial \in 0 .. SerialSpace - 1
    /\ MinTimer \in 1 .. MaxTimer
    /\ RetryBeforeLoad > 0
ASSUME PrimariesAreListed ==
    /\ PrimaryLists \subseteq Seq(Primaries) \ {<<>>}
    /\ PrimaryLists # {}
ASSUME NoneIsNoInstance == None \notin Instances \cup Primaries
\* The primaries' serial never moves half the space ahead of the zone.
ASSUME SerialsCompare == 2 * MaxVersion < SerialSpace

VARIABLES
    row,        \* the zone's row and its stored records
    published,  \* what the latest config version says of the zone
    lock,       \* holder of the advisory lock zone_refresh:<id>
    job,        \* per instance: its refresh
    version,    \* external: the version each primary serves
    notified,   \* history: the version a primary had when it last sent NOTIFY
    crashes,
    broken      \* history: whether a lock's database session broke

vars == <<row, published, lock, job, version, notified, crashes, broken>>

Versions == 0 .. MaxVersion
Serials == 0 .. SerialSpace - 1

\* The serials of the versions follow each other and wrap at most once.
SerialOf(v) == IF FirstSerial + v < SerialSpace THEN FirstSerial + v
               ELSE FirstSerial + v - SerialSpace

\* Mutant: any other serial is taken for a newer one.
SerialLessDiffers(a, b) == a # b

\* RFC 1982: b is ahead of a by less than half the space.
SerialLess(a, b) ==
    \/ a < b /\ 2 * (b - a) < SerialSpace
    \/ a > b /\ 2 * (a - b) > SerialSpace

\* The SOA's timer, kept within what the scheduler accepts.
Timer(t) == IF t < MinTimer THEN MinTimer ELSE IF t > MaxTimer THEN MaxTimer ELSE t

\* What AddAuthZones lists of the zone: nothing before its first transfer.
AuthZone(r) ==
    [listed |-> r.exists /\ r.loaded,
     content |-> IF r.exists THEN r.content ELSE NoVersion,
     serial |-> IF r.exists /\ r.loaded THEN r.serial ELSE 0,
     expired |-> r.exists /\ r.expired]

Idle == [at |-> "idle"]

\* The zone was just created: RequestRefresh("create") made it due.
Init ==
    /\ \E list \in PrimaryLists :
         row = [exists |-> TRUE, primaries |-> list, loaded |-> FALSE, expired |-> FALSE,
                serial |-> 1 % SerialSpace, content |-> NoVersion, next |-> 0,
                expires |-> 0, requests |-> 1, failed |-> FALSE, from |-> None]
    /\ published = AuthZone(row)
    /\ lock = None
    /\ job = [i \in Instances |-> Idle]
    /\ version = [p \in Primaries |-> 0]
    /\ notified = [p \in Primaries |-> 0]
    /\ crashes = 0
    /\ broken = FALSE

-----------------------------------------------------------------------------
(* The scheduler and the refresh of one instance.                          *)

\* The zone is due and its lock is free: refreshLocked starts a refresh.
Begin(i) ==
    /\ job[i].at = "idle"
    /\ row.exists /\ row.next = 0
    /\ lock = None
    /\ lock' = i
    /\ job' = [job EXCEPT ![i] = [at |-> "read"]]
    /\ UNCHANGED <<row, published, version, notified, crashes, broken>>

\* Mutant: the lock is kept.
EndKeepsLock(i) ==
    /\ job' = [job EXCEPT ![i] = Idle]
    /\ UNCHANGED lock

\* The refresh of i ends, and with it the lock unless that was lost before.
End(i) ==
    /\ job' = [job EXCEPT ![i] = Idle]
    /\ lock' = IF lock = i THEN None ELSE lock

\* What a refresh uses of the row it read.
Known(r) ==
    [primaries |-> r.primaries, loaded |-> r.loaded, expired |-> r.expired,
     serial |-> r.serial, content |-> r.content, expires |-> r.expires]

\* GetZone: the row as the refresh knows it from now on.
ReadZone(i) ==
    /\ job[i].at = "read"
    /\ IF row.exists
       THEN /\ job' = [job EXCEPT ![i] = [at |-> "count", zone |-> Known(row)]]
            /\ UNCHANGED lock
       ELSE End(i)
    /\ UNCHANGED <<row, published, version, notified, crashes, broken>>

\* The requests known before any primary is asked.
ReadRequests(i) ==
    /\ job[i].at = "count"
    /\ IF row.exists
       THEN /\ job' = [job EXCEPT ![i] =
                         [at |-> "ask", zone |-> job[i].zone, requests |-> row.requests,
                          nth |-> 1]]
            /\ UNCHANGED lock
       ELSE End(i)
    /\ UNCHANGED <<row, published, version, notified, crashes, broken>>

Asked(i) == job[i].zone.primaries[job[i].nth]
HasPrimary(i) == job[i].nth <= Len(job[i].zone.primaries)

\* This primary gave nothing to apply: the next one is asked.
TryNext(i) ==
    job' = [job EXCEPT ![i] = [at |-> "ask", zone |-> job[i].zone,
                               requests |-> job[i].requests, nth |-> job[i].nth + 1]]

Answer(i, kind, v) ==
    job' = [job EXCEPT ![i] =
              [at |-> "apply", zone |-> job[i].zone, requests |-> job[i].requests,
               nth |-> job[i].nth, kind |-> kind, version |-> v]]

\* A newer serial is transferred, any other answer means the zone is current.
SoaAnswered(i) ==
    LET z == job[i].zone
        v == version[Asked(i)]
    IN  /\ job[i].at = "ask" /\ HasPrimary(i)
        /\ IF z.loaded /\ ~SerialLess(z.serial, SerialOf(v))
           THEN Answer(i, "current", v)
           ELSE job' = [job EXCEPT ![i] =
                          [at |-> "transfer", zone |-> z, requests |-> job[i].requests,
                           nth |-> job[i].nth]]
        /\ UNCHANGED <<row, published, lock, version, notified, crashes, broken>>

SoaFailed(i) ==
    /\ job[i].at = "ask" /\ HasPrimary(i)
    /\ TryNext(i)
    /\ UNCHANGED <<row, published, lock, version, notified, crashes, broken>>

\* A loaded zone asks for IXFR and takes differences or a full zone; without
\* an answer, or before the first load, it asks for AXFR.  What arrives is the
\* version the primary has now.
Transferred(i) ==
    LET v == version[Asked(i)]
    IN  /\ job[i].at = "transfer"
        /\ v \notin Unverifiable
        /\ \/ job[i].zone.loaded /\ Answer(i, "ixfr", v)
           \/ Answer(i, "axfr", v)
        /\ UNCHANGED <<row, published, lock, version, notified, crashes, broken>>

\* No transfer, or one whose ZONEMD does not verify.
TransferFailed(i) ==
    /\ job[i].at = "transfer"
    /\ TryNext(i)
    /\ UNCHANGED <<row, published, lock, version, notified, crashes, broken>>

\* Mutant: a request that came while the refresh ran is not looked at.
NextRefreshForgets(i, r, t) == t

\* A request that came while the refresh ran keeps the zone due.
NextRefresh(i, r, t) == IF r.requests # job[i].requests THEN 0 ELSE t

Timers(i, r) ==
    [r EXCEPT !.loaded = TRUE, !.expired = FALSE, !.failed = FALSE,
              !.next = NextRefresh(i, r, Timer(SoaRefresh)),
              !.expires = Timer(SoaExpire), !.from = Asked(i)]

\* The stored records and the serial after the transfer: an AXFR replaces the
\* records; differences applied to anything but the version they start from
\* would leave records of no version.
Applied(i, r) ==
    CASE job[i].kind = "current" -> r
      [] job[i].kind = "axfr" ->
           [r EXCEPT !.serial = SerialOf(job[i].version), !.content = job[i].version]
      [] job[i].kind = "ixfr" ->
           [r EXCEPT !.serial = SerialOf(job[i].version),
                     !.content = IF r.content = job[i].zone.content
                                 THEN job[i].version ELSE NoVersion]

\* Mutant: differences are applied whatever the zone's serial became.
MovedNever(i) == FALSE

\* The zone changed while differences for it were fetched.
Moved(i) == job[i].kind = "ixfr" /\ row.serial # job[i].zone.serial

\* Mutant: an answer that changes no record is never published.
UnpublishedAlways(i) == job[i].kind = "current"

\* The row is updated without a new config version.
Unpublished(i) == job[i].kind = "current" /\ ~job[i].zone.expired

\* succeed: the timers alone, or the whole in one published transaction.
Succeed(i) ==
    /\ job[i].at = "apply"
    /\ row.exists
    /\ ~Moved(i)
    /\ row' = Timers(i, Applied(i, row))
    /\ IF Unpublished(i) THEN UNCHANGED published ELSE published' = AuthZone(row')
    /\ End(i)
    /\ UNCHANGED <<version, notified, crashes, broken>>

\* The zone changed during the transfer: as if the primary had failed.
Conflict(i) ==
    /\ job[i].at = "apply"
    /\ row.exists /\ Moved(i)
    /\ TryNext(i)
    /\ UNCHANGED <<row, published, lock, version, notified, crashes, broken>>

\* Nothing is left to update: the zone was deleted.
Vanished(i) ==
    /\ ~row.exists
    /\ \/ job[i].at = "apply"
       \/ job[i].at = "ask" /\ ~HasPrimary(i)
    /\ End(i)
    /\ UNCHANGED <<row, published, version, notified, crashes, broken>>

Retry(z) == IF z.loaded THEN Timer(SoaRetry) ELSE RetryBeforeLoad

\* The zone, as the refresh knows it, expires with this failure.
ExpiresNow(z) == ~z.expired /\ z.loaded /\ z.expires = 0

\* Mutant: only the timers decide, a failing zone never expires.
PastExpiryNever(r) == FALSE

\* The row is past its expire time.
PastExpiry(r) == r.loaded /\ r.expires = 0

\* fail: retry later, and expire a loaded zone past its expire time.
Fail(i) ==
    LET z == job[i].zone
    IN  /\ job[i].at = "ask" /\ ~HasPrimary(i)
        /\ row.exists
        /\ row' = [row EXCEPT !.failed = TRUE,
                              !.next = NextRefresh(i, row, Retry(z)),
                              !.expired = row.expired \/ PastExpiry(row)]
        /\ IF ExpiresNow(z) THEN published' = AuthZone(row') ELSE UNCHANGED published
        /\ End(i)
        /\ UNCHANGED <<version, notified, crashes, broken>>

-----------------------------------------------------------------------------
(* Requests, settings, faults, the primaries and time.                     *)

\* RequestRefresh: the zone is due now.
Requested(r) == [r EXCEPT !.next = 0, !.requests = r.requests + 1]

\* An engine forwards a NOTIFY: it counts when it came from a primary.
NotifyTx(p) ==
    /\ row.exists /\ row.requests < MaxRequests
    /\ \E n \in 1 .. Len(row.primaries) : row.primaries[n] = p
    /\ row' = Requested(row)
    /\ notified' = [notified EXCEPT ![p] = version[p]]
    /\ UNCHANGED <<published, lock, job, version, crashes, broken>>

\* An operator asks for a refresh.
RefreshNow ==
    /\ row.exists /\ row.requests < MaxRequests
    /\ row' = Requested(row)
    /\ UNCHANGED <<published, lock, job, version, notified, crashes, broken>>

\* UpdateZone with other primaries: published, and nothing is refreshed.
UpdateZone(list) ==
    /\ row.exists /\ row.primaries # list
    /\ row' = [row EXCEPT !.primaries = list]
    /\ published' = AuthZone(row')
    /\ UNCHANGED <<lock, job, version, notified, crashes, broken>>

DeleteZone ==
    /\ row.exists
    /\ row' = [row EXCEPT !.exists = FALSE]
    /\ published' = AuthZone(row')
    /\ UNCHANGED <<lock, job, version, notified, crashes, broken>>

\* The instance stops, or loses the database: its refresh and its lock end.
Crash(i) ==
    /\ job[i].at # "idle" /\ crashes < MaxCrashes
    /\ End(i)
    /\ crashes' = crashes + 1
    /\ UNCHANGED <<row, published, version, notified, broken>>

\* The session that holds the lock breaks; the refresh goes on.
LockBreaks(i) ==
    /\ crashes < MaxCrashes
    /\ lock = i
    /\ lock' = None
    /\ crashes' = crashes + 1
    /\ broken' = TRUE
    /\ UNCHANGED <<row, published, job, version, notified>>

\* External: a primary's zone changes, or it takes a change from another.
PrimaryChanges(p) ==
    /\ version[p] < MaxVersion
    /\ version' = [version EXCEPT ![p] = @ + 1]
    /\ UNCHANGED <<row, published, lock, job, notified, crashes, broken>>

Count(t) == IF t = 0 THEN 0 ELSE t - 1

\* Time passes, for the row and for what a refresh read of it.
Tick ==
    /\ row.exists /\ row.next + row.expires > 0
    /\ row' = [row EXCEPT !.next = Count(@), !.expires = Count(@)]
    /\ job' = [i \in Instances |->
                 IF "zone" \in DOMAIN job[i]
                 THEN [job[i] EXCEPT !.zone.expires = Count(@)]
                 ELSE job[i]]
    /\ UNCHANGED <<published, lock, version, notified, crashes, broken>>

Step(i) ==
    \/ Begin(i) \/ ReadZone(i) \/ ReadRequests(i)
    \/ SoaAnswered(i) \/ SoaFailed(i) \/ Transferred(i) \/ TransferFailed(i)
    \/ Succeed(i) \/ Conflict(i) \/ Vanished(i) \/ Fail(i)

Next ==
    \/ \E i \in Instances : Step(i) \/ Crash(i) \/ LockBreaks(i)
    \/ \E p \in Primaries : NotifyTx(p) \/ PrimaryChanges(p)
    \/ RefreshNow \/ DeleteZone \/ Tick
    \/ \E list \in PrimaryLists : UpdateZone(list)

Spec == Init /\ [][Next]_vars

\* Fairness.  Each instance's scheduler ticks, and whatever it started goes on;
\* time passes; and external: a primary that is asked again and again answers
\* the SOA query and transfers some time.
Fairness ==
    /\ WF_vars(Tick)
    /\ \A i \in Instances :
         /\ WF_vars(Step(i))
         /\ SF_vars(SoaAnswered(i))
         /\ SF_vars(Transferred(i))

FairSpec == Spec /\ Fairness

-----------------------------------------------------------------------------

Contents == Versions \cup {NoVersion}
Kinds == {"current", "axfr", "ixfr"}

Rows == [exists : BOOLEAN, primaries : PrimaryLists, loaded : BOOLEAN, expired : BOOLEAN,
         serial : Serials, content : Contents, next : Nat, expires : Nat,
         requests : Nat, failed : BOOLEAN, from : Primaries \cup {None}]

Zones == [primaries : PrimaryLists, loaded : BOOLEAN, expired : BOOLEAN,
          serial : Serials, content : Contents, expires : Nat]

Jobs == [at : {"idle", "read"}]
        \cup [at : {"count"}, zone : Zones]
        \cup [at : {"ask", "transfer"}, zone : Zones, requests : Nat, nth : Nat \ {0}]
        \cup [at : {"apply"}, zone : Zones, requests : Nat, nth : Nat \ {0},
              kind : Kinds, version : Versions]

\* Rows and refreshes have the shape the tables and the code give them.
TypeOK ==
    /\ row \in Rows
    /\ job \in [Instances -> Jobs]
    /\ lock \in Instances \cup {None}
    /\ version \in [Primaries -> Versions]

\* The records are those of the version the serial names.
Consistent(z) == z.content \in Versions /\ z.serial = SerialOf(z.content)

\* The stored records of a loaded zone are those of one version of the
\* primaries' zone, and the serial is that version's: no interleaving of SOA
\* check, transfer, retries and another instance's refresh mixes two versions
\* or labels one with the serial of another.
RecordsAreOneVersion ==
    row.exists /\ row.loaded => Consistent(row)

\* What refresh j knows of a loaded zone was one version, and the zone has
\* stayed loaded; it applies differences, and takes the zone for current, only
\* from such knowledge.
Knows(j) ==
    /\ j.at \in {"count", "ask", "transfer", "apply"} /\ j.zone.loaded =>
          row.loaded /\ Consistent(j.zone)
    /\ j.at \in {"transfer", "apply"} => j.nth <= Len(j.zone.primaries)
    /\ j.at = "apply" /\ j.kind # "axfr" => j.zone.loaded

KnowledgeIsOneVersion == \A i \in Instances : Knows(job[i])

\* The inductive invariant: RecordsAreOneVersion also after a deletion.
SecondaryInv ==
    /\ TypeOK
    /\ row.loaded => Consistent(row)
    /\ KnowledgeIsOneVersion

\* Engines are told what the row says: every change of the records, of the
\* serial or of the expiry is published with the transaction that makes it,
\* although the refresh decides from an older reading of the row whether to
\* publish.  (With a broken lock, two refreshes may run, and this fails.)
PublishedIsCurrent == ~broken => published = AuthZone(row)

\* A NOTIFY is not lost when it arrives while a refresh runs: a zone that is
\* not due and whose last refresh succeeded has at least the version its
\* source had when it last notified.
NotifyIsHeeded ==
    ~broken /\ row.exists /\ row.next > 0 /\ ~row.failed /\ row.from # None =>
        row.content >= notified[row.from]

\* A zone that has the versions of all its primaries moves forward only: a
\* refresh never replaces a version by an older one.
NeverBackwards == [][~broken => row'.content >= row.content]_vars

\* refreshLocked's lock: one instance at a time refreshes a zone.  TLC refutes
\* it with the constants of MCSecondaryZone.cfg, since a lock's session may break.
OneRefreshAtATime ==
    \A i, j \in Instances : job[i].at # "idle" /\ job[j].at # "idle" => i = j

\* A version every primary has is taken over, unless the zone is deleted or a
\* primary came to a version that does not verify.
CatchesUp ==
    \A v \in Versions :
        (\A p \in Primaries : version[p] >= v) ~>
            \/ row.exists => row.content >= v
            \/ \E p \in Primaries : version[p] \in Unverifiable

\* A zone past its expire time is refreshed or published as expired.
ExpiryIsPublished ==
    (row.exists /\ row.loaded /\ row.expires = 0) ~>
        \/ ~row.exists
        \/ row.expires > 0
        \/ published.expired
=============================================================================
