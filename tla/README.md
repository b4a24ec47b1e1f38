# Verification of Nexora

Nexora is a DNS platform: a management plane (Go, several instances over one PostgreSQL database)
configures a fleet of engines (Rust) that resolve, filter and serve DNS, and a failover candidate
(Go, C, eBPF) lets exactly one node of a pair answer on a shared address. This directory holds TLA+
modules for the protocols whose correctness depends most on the order of steps of several actors:
staged rollouts of configuration versions, the control streams that deliver them, the versions of a
hosted zone on their way from an edit to the engines, secondary zones and their transfers, key
rollovers of signed zones, the reservations of failover groups, and the ownership lease of the
failover gate.

## The system

| Component | State | Operations | Hard behaviour |
| --- | --- | --- | --- |
| Publishing (`mgmt/internal/snapshot`, `api/fleet_*.go`) | config versions, one snapshot per group and version | mutate, republish, roll back, resume, move an engine | every group in one transaction; reads before locks |
| Rollouts (`mgmt/internal/rollout`) | one row per group snapshot, `stable_version`, `rollouts_paused` | create (supersede), step | publishes supersede what another instance steps; timeouts race acknowledgements |
| Fleet (`mgmt/internal/fleet`) | engine rows: group, revoked, applied, rejected, persist error | targets, revoke, enrol | cached `applied_version` decides targets |
| Control hub and streams (`mgmt/internal/control`) | one subscriber per stream with a one-slot queue, session ownership of the engine row | connect, push, send, receive | broken and superseded streams, lost replies |
| Engine (`engine/src/control.rs`, `snapshot.rs`) | runtime, `snapshot.binpb` | apply, reject, persist, restart | swap before persist, failed writes, crashes |
| Failover lease (`deploy/failover/lease`) | cached revision, wait start, outstanding ticket | Step: GET, wait, CAPTURE, PUT, ARM | ambiguous writes, late commands, drifting clocks |
| Packet gate (`deploy/failover/fence`) | ticket, kernel map entry | CAPTURE, ARM, DENY, per-packet test | survives its processes |
| Failover groups (`mgmt/internal/failover`, migration 01306) | lifecycle, generation, members, reservations, publisher epochs | create, update, drain, delete, resume, rotate, withdraw, publish | stale generations and tokens, retired members that may still serve |
| Identity renewal (`engine/src/cert_renewal.rs`) | identity directories | stage, promote, recover | crash between renames |
| Secret fence (`control/secret_fence.go`, `ownership.go`) | commit barriers, session | enqueue, deliver | superseded sessions |
| Coalescing and cache (`engine/src/inflight.rs`, `cache.rs`) | pending map, cache shards | join, complete, drop | leader dropped, next leader |
| Zone signing (`mgmt/internal/dnssec`) | key states and times, signature cache, `next_maintenance_at` | enable, start rollover, confirm DS, maintain, sign | TTLs of every cache, overlapping rollovers, reused signatures |
| Zone transfers (`mgmt/internal/xfrin`) | refresh timers, serials, stored records | schedule, refresh, notify, expire | concurrent instances, rows read before network round trips |
| Zone versions (`mgmt/internal/zone`, `snapshot/authzones.go`, `engine/src/authoritative/loader.rs`, `zone.rs`) | records, image, journal; the engine's zone and IXFR history | edit, import, dynamic update, list, load | two ways to write a version, pruning against the listed window, engines that skip snapshots |
| Recursor, authoritative server, filters, telemetry, API, UI, operator | data structures, formats | | little protocol of their own |

How they interact: an API handler changes rows and publishes in one transaction; PostgreSQL
notifies every instance; the rollout controller of any instance steps open rollouts under the group
row lock; each hub computes the target of its connected engines and offers snapshots; the engine
answers Applied or Rejected on its stream; the handler writes the answer into the engine row, fenced
by the session that owns it; the controller reads those rows. Every change of a zone (an edit, a
dynamic update an engine forwarded, a transfer, a key transition) goes through `zone.Service.Mutate`,
which rebuilds the zone's version and publishes a config version in the same transaction; the snapshot
lists the zone's image and deltas, and the engine loads them over what it has. The lease controller talks to the
Kubernetes API server and, over a pipe, to the gate driver that owns the kernel map.

What makes each correct: a version reaches the fleet only through its rollout (canaries first, a
paused group holds changes, one active rollout per group, the stable version is one that completed);
a stream never carries anything older than its engine runs; what the management plane believes of an
engine survives that engine's restart; every rollout ends; what engines serve of a zone is what is
stored, whichever snapshots they missed; a secondary zone holds one version of its primaries' zone and
follows it; whatever a resolver has cached validates during a rollover; an engine or a frontend address
belongs to one failover group until nobody can use it for that group; and never two gates are open.

## Modules

### Rollout.tla

State: the shared rows (`version`, `content`, `rollouts`, `stable`, `paused`, `strategy`; per engine
`engineGroup`, `revoked`, `connected`, `applied`, `rejected`, `persistError`), the streams
(`stream`, `offered` = `subscriber.version`, `out` = the one-slot queue, `wire`, `reply`), the
engines (`running`, `disk`), the transactions between a read and their commit (`move`: an engine move;
`seen`: the stable versions a publish has read; `driving`: what the controller decided for a group), a
fault budget and the history `released` (versions whose rollout ever was `rolling`).

Actions are messages, or transactions split where they decide from a row they have not locked:

- `Mutate`, `UpdateEngineGroup`, `ResumeEngineGroupRollouts`: `snapshot.publish` for every group
  under the config version lock, with `rollout.Create` per group (`Create`, `Retired`, `NewRow`).
  Before them `PublishRead` reads each group's stable version, by which `Immediate` decides whether the
  change starts at once (`snapshot.go:204-208`). The group's row is locked only by `rollout.Create`
  (`create.go:28`), so the controller may raise the stable version in between; `PublishAbort` gives up.
  The two operations that lock their own group's row first have that group's current one.
- `RollbackEngineGroup`, `UpdateEngineCommit`: `snapshot.Republish` for one group. UpdateEngine reads
  the version it copies before the lock, so it is two actions (`UpdateEngineRead`) with the engine's
  row locked in between (`Unlocked`), or aborts.
- `Start`, `CanariesApplied`, `HealthPassed`, `Complete`, `Halt`: the transitions of `rollout.Step`.
  `driveOne` locks the group's row and reads the engines' rows without locking them, so each of these only
  decides (`Decides`); `DriveCommit` writes the decision after anything may have happened to the engines, or
  `DriveFails`. A completion remembers the engines it waited for (`vouched`). How long a phase lasted and
  what health samples say are free, so each timeout and each verdict can happen at any time its other
  conditions allow. `SelectCanaries` returns every set of the right size: labels and names only choose among
  them.
- `Connect`, `Push`, `Send`, `Disconnect`, `ConnectionLapses`, `HeartbeatResumes`, `HandleReply`,
  `RevokeEngine`: the hub and the stream handlers. `Connect` takes the row's session, so replies of an
  older stream are dropped from then on; until then a broken stream's last reply can still arrive.
- `ApplySnapshot`, `RejectSnapshot`, `Restart`: the engine. The runtime is swapped, then persisted;
  the write may fail and is then reported; a restart loads what is on disk.

Contents are model values: two snapshots are equal when their `content_sha256` is.

### Fleet.tla

What all of `Rollout` promises an operator, without rollouts, pauses, streams or messages. Each snapshot
has an audience, the engines it may be given to. A version is written once (`Publish`), for all groups or
for one, and may be released at once; `Pilot` and `ReleaseToAll` widen the audience of the newest snapshot
of a group only, so what a newer snapshot replaced reaches no further engine; an engine adopts newer
snapshots from audiences it belongs to (`Adopt`) and goes back only by a restart (`Restart`). The mapping
takes the whole fleet as the audience of a version that ever rolled and the canaries as that of others
(`Audience`); `ImplementsFleet` is the refinement, checked and proved. That an engine runs its own group's
snapshot is not promised: see below.

### Stream.tla

What `Rollout` takes as one step per message, read by read, for the streams of one engine. Each stream
has a handler (`step`): it receives Hello (`OpenStream`), claims the row (`Claim`:
`registerConnection`), rechecks the claim with its TLS registration (`RegisterTLS`), loads the target
with two queries (`HandlerLoadsRow`, `HandlerLoadsRollouts`), offers it (`HandlerOffers`), flags an
engine that is ahead (`MarkAhead`) and tells it (`TellAhead`), then runs its send and receive loops
(`Send`, `HandleReply`, `StatsSuperseded`) until the transport ends or the row names another stream
(`HandlerCancelled`, `Unregister`). Each instance has a hub loop (`hubStep`) that wakes on a
notification or after its safety interval, captures a subscriber, loads with the same two queries and
offers (`HubWakes`, `HubResyncs`, `HubLoadsRow`, `HubLoadsRollouts`, `HubOffers`). Handler and hub share
`subscriber.version` (`seen`) and the one-slot queue `out`. The engine may open a stream to any instance
while the handlers of earlier ones still run; what a broken stream's handler has received it may still
record.

Of rollouts it keeps what this engine can tell: the newest one that is not superseded and whether it
is held from, for or withdrawn from this engine, and the stable version. `Rollout` justifies each move
(`Publish`, `RolloutMoves`, `RolloutCompletes`). Moves between groups, revocation and restarts are in
`Rollout` only. The database answers: a query that fails ends the handler or skips the push, and the
UPDATE that clears the row is given up after 5 seconds; neither is modelled.

### Lease.tla

`Controller.Step` of each holder, split wherever another actor can come between: the GET is served
(`Get`) before its answer is evaluated (`Observe`); the ticket is captured (`Capture`) and checked
(`SendPut`) before the PUT is served (`ServePut`, or `ServeLatePut` after its sender gave up); the
acknowledgement is read (`SendArm`), the driver executes ARM on its own (`DriverArm`), ARMED is read
(`Finish`). `TimeOut` ends a step that waits on the network, `Dies` one whose gate or process fails:
the kernel keeps the window and the pipe keeps the ARM. `Deny` may fail in either direction. Clocks
(`Tick`) advance independently, by MinRate to MaxRate local units per unit of real time. An operator
may delete and provision the Lease. The API server and the operator are external: modelled from what
`http.go` asks of them.

### FailoverGroups.tla and Reservations.tla

`FailoverGroups` is the desired state of the failover groups: `lifecycle`, `generation`, `members`,
`ip`, the two reservation tables as one function `holder`, the publisher `epoch`, every token issued
(`tokens`), the withdrawal receipts. Each operation of `groups.go` and `lifecycle.go` that writes is
one action, because it is one transaction under the group's row lock: `Create`, `Update`, `BeginDrain`,
`RequestDeletion`, `Resume`, `RotatePublisher`, `CompleteWithdrawal`. Callers may name any generation
and epoch; `Lock` and `LockPublisher` refuse the stale ones. `Reserve` is the trigger of migration
01306: it adds reservations and never frees the ones of former members; `Released` is what a completed
withdrawal frees. External: `Grant`, a right to serve that the runtime handed out some time while the
group was active and that lasts until a verified withdrawal covers its engine.

`Reservations` is what the tables promise without any of that: a resource has one holder, only the
holder uses it, and it changes hands in a step after which the holder uses nothing. `FailoverGroups`
instantiates it (`Promise`) with `users[r]` = the groups that have a grant on engine `r`, or any grant
when `r` is their address; `ImplementsReservations` is the refinement, checked and proved.

### SecondaryZone.tla

One secondary zone. `row` is its row with the stored records (`content`, the version they are of),
`published` what the newest config version says of it, `lock` the advisory lock, `job` the refresh of
each instance with what it read. A refresh is split where it meets the database or the network:
`Begin` (due and lock free), `ReadZone`, `ReadRequests`, per primary `SoaAnswered` or `SoaFailed`,
`Transferred` (IXFR or AXFR) or `TransferFailed`, then `Succeed`, `Conflict` (differences for a serial
the zone no longer has) or, after the last primary, `Fail`. `NotifyTx`, `RefreshNow`, `UpdateZone` and
`DeleteZone` come at any time. Faults: an instance stops (`Crash`), or the session that holds the lock
breaks while the refresh goes on (`LockBreaks`). Versions are numbers whose serials wrap; timers count
down. Versions of the primaries only grow; a version in `Unverifiable` fails its ZONEMD check.

### ZoneVersions.tla

One primary zone from an edit to the engine. The management side has the row, the stored records, the
one image and the journal; a served version is the image with the later deltas (`LoadServed`).
`RebuildEdit` is the fast path of a record edit, whose delta comes from the RRsets the edit names;
`RebuildAll` is every other path, a difference of the whole zone; both end in `WriteVersion`, which adds
the delta, perhaps an image, and prunes. Operations: `CreateZone`, `CreateRecord`, `UpdateRecord`
(possibly into another RRset), `DeleteRecord`, `Import`, `DynamicUpdate`, `UpdateZone` (SOA, ZONEMD),
`DeleteZone`. `AuthZone` is what a snapshot lists; `Load` is the engine's `validate` and `load`, from
the zone it has (`Load(engine)`) or none (`Load(None)`, after a start): equal serial, deltas from its
own serial, or the image with the deltas after it, and the IXFR history by pairs of serials. The engine
may stay `behind` for as long as it likes, which is how it misses versions.

A file may give the records of one RRset different TTLs: nothing refuses it and `SetRecords` stores them
as they are, while the engine keeps one TTL per RRset, that of a record it inserted (`TtlAfter`,
`Inserted`). The history `mixed` remembers such an import. `SameRecords` therefore is: the same data, and
the same TTLs unless `mixed`.

### KeyRollover.tla

One signed zone in time. `keys` are the key rows, `sigs` the cached signatures' expiry, `due` is
`next_maintenance_at`. `Advance` is the rollover state machine; `Publish` is the end of every mutation
(sign, schedule, publish). Actions: `Enable`, `Disable`, `StartRollover`, `ConfirmDS`, `Maintain`,
`MaintainNothing`, `Edit`. Around them is what the timings are for: replaced versions that engines serve
for up to `Propagation` and caches keep for a TTL after that (`past`), the parent's DS set (`ds`) and the
ones caches still hold (`pastDS`). Signatures of RRsets that a version leaves alone are reused (`Sign`).

Nothing is assumed of people or of the parent: a DS is adopted as soon as it is offered (`ParentAdopts`)
or withdrawn at any time, confirmed whether or not it is there, signing is disabled under a DS, and an
edit may change the TTLs during a rollover (`ttl`; bounded by `MaxPast`). The code does not wait for any of
these, so what it can promise depends on what was done when. The history `lapses` records that:

- `"ds"`: a DS was adopted before every cache knew its key, confirmed while it was not at the parent, or
  signing was disabled under a DS. `ChainOfTrust` holds until then.
- `"ttl"`: the maintainer activated or removed a ZSK by TTLs that had been lowered since some cache was
  filled. `DataValidates` holds until either lapse.

`TypeOK`, `SignaturesOutlast` and `RolloversOnTime` hold whatever happened. Settings are constant.

### Proof and MC modules

Proofs extend the specification they are about; MC modules add the symmetry of each instance.
Operators commented `Mutant:` are alternatives that plausible bugs would produce. They occur in no
action; each is there to show that a property fails when it replaces its original.

## Runs

All passing runs set `CHECK_DEADLOCK FALSE`: with the version, fault or clock bound spent, nothing
may be left to do. About states and times: two workers.

| Run | Instance | Shows |
| --- | --- | --- |
| `rollout` | 1 group, 2 engines, 2 contents, 3 versions, no faults; 543 000 states, 55 s | `TypeOK`, `OneActiveRollout`, `CanaryContainment`, `StableIsNewestCompleted`, `NewestDecides`, `ImplementsFleet` |
| `rollout_faults` | 1 group, 1 engine, 3 versions, 3 faults; 1 197 000 states, 40 s | `OffersAreNewer`, `AppliedIsDurable`, `CompletesWhenRunning` |
| `rollout_move` | 2 groups, 1 engine, 3 versions; 2 466 000 states, 135 s | `RolloutInv` (the inductive invariant of the proofs), `OffersAreNewer` |
| `rollout_live` | 1 group, 1 engine, 2 contents, 4 versions, no faults (the engine may never connect or answer, or be revoked), fair controller; 707 000 states, 80 s | `PausedHoldsChanges`, `RolloutsSettle` |
| `stream` | 1 instance, 2 streams, 2 versions, any engine, fair; 716 000 states, 170 s | `StreamInv` (the inductive invariant), `SentInOrder`, `OwnerIsServed`, `AppliedNeverRegresses`, `CatchesUp` |
| `lease` | 2 holders, Window 2, Margin 2, rates 1..2, clocks to 9, 3 revisions, 2 UIDs; 1 940 000 states, 60 s | `ExclusiveGate`, `OpenIsLastWriter`, `LeaseInv` |
| `failover_groups` | 2 groups, 3 engines, 2 addresses, 4 generations, 2 epochs; 212 000 states up to symmetry | `GroupsInv` (the inductive invariant), `GrantsAreReserved`, `WithdrawalIsFinal`, `ImplementsReservations` |
| `key_rollover` | 4 keys, 6 units of time, TTLs of 1 and 2 to change between, signatures valid for 7 and renewed at 3, a maintainer up to 2 late; states after a lapse are not followed (`NoLapse`); 744 000 states, 95 s | `TypeOK`, `ChainOfTrust`, `DataValidates`, `SignaturesOutlast`, `RolloversOnTime` |
| `secondary` | 2 instances, 2 primaries, 3 versions with a serial wrap and one that does not verify, 2 requests, 1 crash or broken lock; 3 000 000 states | `RecordsAreOneVersion`, `PublishedIsCurrent`, `NotifyIsHeeded`, `NeverBackwards` |
| `secondary_live` | 1 instance, two lists of primaries to change between, 3 versions, 1 crash, fair; 32 000 states | `CatchesUp`, `ExpiryIsPublished` |
| `zone_versions` | 4 versions, 3 records in 2 RRsets, 2 TTLs, 2 SOAs, the updates of `MCZoneVersions` and its files, one with two TTLs in an RRset; serials modulo 8 that come round again; journal kept 2, listed 1, image every 3; 188 000 states, 30 s | `ServedIsStored`, `SnapshotLoads`, `EngineServesSnapshot` |

Why the bounds are enough to be interesting. Three versions are what it takes to have a stable one,
one in progress and one that supersedes it; four, to have a rollback and an edit or a resume after it;
two engines give one canary and one engine that must not get its version; two groups are what a move
needs. Three faults allow a failed write, a restart and a lost stream in one behaviour. Two streams of
one engine are an old one whose handler still runs and its successor; two versions make one load older
than another; streams on two instances are covered by the theorems. In `lease` the margin is exactly
what `MarginCoversRateError` asks for, so one unit less of waiting is refuted (the mutant
`WaitedWindow`), nine units of clock hold a takeover after a full wait, and three revisions a write, a
takeover and a late write. In `failover_groups` three engines are two members and the one that replaces
one of them, which the other group then wants; four generations hold a member change, its withdrawal and
a resume. In `key_rollover` the waiting times differ from each other, so that taking one for another is
refuted, four keys are the first pair and a rollover of each role or a disabled and re-enabled zone, and
six units of time hold a whole ZSK rollover next to a KSK one; what the properties that hold after a lapse
say there is left to the theorems. In `secondary` the serials 4, 5, 0 wrap with
the last version. In `zone_versions` the journal is kept, listed and imaged at different lengths, which
is where chains break, and the serials 1, 4, 7 and 1 again are a way round that prunes serials out of the
journal before they return. The theorems below remove the bounds for what they state.

One run is expected to fail: it states what a comment says and the code does not do.

| Run | Claim | What happens |
| --- | --- | --- |
| `same_serial_same_data` | `engine/src/authoritative/loader.rs:198`: at an equal serial, "Same data, different history window." | a zone deleted and created again starts at serial 1; an engine that missed the snapshot without the zone keeps serving the old zone's records until the new zone's serial moves |

`zone_versions` therefore checks `FreshSpec`: the behaviours in which no new version takes a serial that
the journal, the engine's zone or its history still names (`SerialReturns`). The successor of a serial
never does (serials have 32 bits); an import or a dynamic update that brings its own serial can, and so
does a zone that is deleted and created again before the engine has loaded the deletion. Under `Spec`
the same instance violates `EngineServesSnapshot`. The run creates its zone once; two creations with
three versions each were checked as well (840 000 states, 140 s).

### Statements the code does not keep

Each of these is a definition in its module that TLC refutes with the constants its comment names; no
run lists them.

| Definition | Claim | What happens |
| --- | --- | --- |
| `Rollout!RollbackIsTarget` | `docs/operations.md:1392-1397`: a rollback goes to the whole group at once; changes made while paused wait | an edit while the rollback rolls inserts a newer pending row, which decides the targets: they fall back to the stable version and the rollback is no longer offered |
| `Rollout!PausedChangesWait` | `docs/operations.md:1397`: "While paused, new changes wait in `pending`" | a publish compares its content with the stable version it read before it locked the group; when a rollback completes in between, the content that was rolled back from starts at once. `PausedHoldsChanges` is what is left: only content that completed for the group gets through |
| `Rollout!TargetIsOwnGroup` | `mgmt/internal/api/fleet_engines.go:55-56`: the new group's snapshot is rolled out to a moved engine | the engine may already run a snapshot of its old group with the number its new group's target has |
| `Rollout!MoveCopiesStable` | `docs/operations.md:1399-1400`: a move republishes the stable snapshot | the version is read before the lock, so a rollout that completes in between makes it an older one |
| `Rollout!OnTargetIsRecorded` | `docs/operations.md:1411-1412`: current and behind | an Applied lost with its stream is never recorded |
| `Stream!AlwaysCatchesUp` | `mgmt/internal/control/hub.go:43-44`: the Hub pushes each engine its target version | VersionAhead, queued by the handler after it loaded an older target, replaces a newer snapshot that the hub queued meanwhile; `subscriber.version` says that snapshot was sent, so this stream never offers it again |
| `SecondaryZone!OneRefreshAtATime` | the advisory lock of `xfrin/scheduler.go:148` | the session that holds the lock breaks and the refresh goes on; `RecordsAreOneVersion` holds all the same, `PublishedIsCurrent`, `NotifyIsHeeded` and `NeverBackwards` are stated for unbroken locks |

Four properties carry an exception because the code has it. Without the exception TLC refutes each:

- `CompletesWhenRunning` is about the engines the controller saw. One that connects, with an older version,
  after `driveOne` read the rows (`controller.go:141`) is not waited for when the completion is written.
- `ChainOfTrust` without the lapse `"ds"` fails in three states: the new KSK is in CDS and CDNSKEY, and is
  the one DS shown, from its creation (`store.go:182-196`). A parent that follows "Publish its DS at the
  parent" (`ZoneDnssecTab.tsx:464`, `help/topics/dnssec.md:47`) at once has a DS whose key is in no DNSKEY RRset
  that was cached before.
- `DataValidates` without the lapse `"ttl"` fails in 13 states: a ZSK is removed by the largest TTL the zone
  has at that moment (`service.go:268-271`, `store.go:79-83`), while a cache holds its signatures for the
  TTL of an earlier version. The same goes for its activation and the DNSKEY RRset's TTL.
- `EngineServesSnapshot` and `SameSerialSameData` with exact TTLs fail in four states after the import of
  a file with two TTLs in an RRset.

`SignaturesOutlast` says how long a served signature lasts and not that it never expires at a lagging
engine: a propagation delay may be set to 7 days (`enable.go:104`), which is all of `RefreshBefore`
(`sign.go:24-30`), and then a late renewal leaves an engine that lags by the whole delay with an expired one.

## Fairness

Three runs assume any. `rollout_live`: weak fairness of what the controller does to each group, its decision
and its commit (`Control`). The controller steps every open rollout on each tick (`Controller.Run`, one
second by default) on whichever instance gets the lock, and time passes, so a rollout whose timeout or
window has to end does get stepped. Nothing is assumed of engines, streams or operators.

`stream`: weak fairness of each handler's steps, of its send and receive loops, of the engine's reading
its stream and sending Stats (a timer in `control.rs`), and of each hub loop, whose
`WaitForNotification` ends after `hubSafetyInterval` at the latest. These are goroutines and tasks that
block on nothing else. Nobody has to publish, step a rollout, break or reopen a stream. `CatchesUp`
excuses an engine flagged `version_ahead`, and `AlwaysCatchesUp` shows that it has to.

`secondary_live`: weak fairness of time and of each instance's steps (the scheduler wakes every `Tick`,
and every network call of a refresh has a timeout), and strong fairness of an answered SOA query and of
a transfer. The latter is an assumption on the primaries, not on this code: asked again and again, they
answer some time. Nobody has to notify, and crashes are bounded. A zone of a deleted row, and primaries
that come to a version whose digest does not verify, are excused.

## Proofs

`tlapm` checks `RolloutProofs`, `RolloutDeliveryProofs`, `StreamProofs`, `LeaseProofs`,
`FailoverGroupsProofs`, `SecondaryZoneProofs`, `KeyRolloverProofs` and `ZoneVersionsProofs`. Assumptions:
the named ASSUMEs of each module (sets, positive bounds, distinct kinds of values) and

- for the lease `MarginCoversRateError`, which is what the comment on `Config.Margin` demands of an
  operator;
- for secondary zones `SerialsCompare`: the primaries never move half the serial space ahead;
- for key rollovers `PropagationIsPositive` (`dnssec/enable.go:104` accepts no less than a second),
  `SignaturesLast` (the constants of `dnssec/sign.go:24-30`) and `TTLsAreNat` (the SOA's TTL counts among
  those the largest is taken of, `service.go:268-271`);
- for zone versions `FilesAreZones` and `UpdatesAreOfTheZone` (a repeated record is one record, updates are
  finite; TTLs are any) and
  `StoredIsNotSoaData` (`zone/build.go:266` skips SOA records when it stores, `build.go:339` has ZONEMD
  as no managed type), and `NoneIsNoZone`.

TLC evaluates them on every run.

Every inductive invariant was checked with TLC on the constants of its run before it was proved; the
runs keep the ones that cost little (`RolloutInv`, `StreamInv`, `LeaseInv`, `GroupsInv`).

**Rollout.** None of the safety properties is inductive alone. `RolloutInv` adds, for each group: the newest
snapshot's rollout is live (`NewestIsLive`, so `Target` decides by it); a pending rollout is a change
without canaries and shares the group with an active one only while paused (`PendingWaits`, so starting it
never makes two active); rolling and completed versions were released and the stable one completed
(`ReleasedIsKept`); what the controller decided still fits the row it will write, since nobody else can move
a row of a group that is locked (`DecisionFits`); and the version a publish took for the stable one
completed, even if it is no longer the stable one (`ReadCompleted`), which is what keeps new content out of
a paused group (`BringsNothingNew`). For each engine: every version it was offered, runs, keeps, reports or
is recorded to have applied is one its group released, one it is a canary of, or older than a newer row of
its group (`EngineIsCleared`). The last case is what a move leaves behind: the version an engine brings from
its old group may not be released in the new one, but the move publishes a newer row, so no `halted` row can
match it. The proof goes group by group (`GroupInv`): `CreateStep` for whatever `rollout.Create` inserts,
`DecideFacts` and `DriveStep` for the controller's look and its write, `SameGroup` for groups left alone;
then engine by engine (`EngineStep`, `MoveStep`), with `TargetIsAllowed` as the bridge.

Theorems: `RolloutInvariant`, `TypeCorrect`, `OneActiveRolloutHolds`, `CanaryContainmentHolds`,
`StableIsNewestCompletedHolds`, `PausedHoldsChangesHolds`, `NewestDecidesHolds`.

*Delivery* (`RolloutDeliveryProofs`). `DeliveryInv` says of each engine: while its stream is up,
`subscriber.version` bounds what the engine runs, what is on the wire and what it answers
(`OfferedBounds`), so a target above it is news; queue, wire and runtime are in order, and the queue
holds what was offered last (`InOrder`); the disk is never ahead of the runtime, and what is reported or
recorded as applied without a persist error is on disk (`ReportsAreTrue`). A reply may outlive its stream,
which is why the last part is not conditional on the stream. `CompletesWhenRunning` is a property of
steps: between the controller's look and its write an engine may restart, reconnect or move, so the proof
carries `VouchedIsOnDisk`: the engines it counted on have the version on disk, which `ReportsAreTrue` gives
at the look, disks never go back (`DisksGrow`), and a runtime is never behind its disk.

Theorems: `OffersAreNewerHolds`, `AppliedIsDurableHolds`, `CompletesWhenRunningHolds`.

*Fleet* (`RolloutDeliveryProofs`). That each step of `Rollout` is a step of `Fleet` or none needs `FleetInv`
next to `RolloutInv`: a rollout that is pending, in canary or verifying is of its group's newest snapshot
(`AwaitingIsNewest`); snapshots and rollout rows come together, and only snapshots were released
(`RowsAreSnapshots`); and the snapshot that a move is about to copy exists. The first is the heart of it: a
new version supersedes everything open, except when a pause holds it, and then what is active is rolling
and has its whole audience already (`PausedHoldsChanges`). `CreateImplements` shows this once for
`rollout.Create`; `PublishImplements` and `RepublishImplements` make `Publish` steps of it,
`CommitImplements` turns what the controller writes into `Pilot`, `ReleaseToAll` or nothing, and
`StreamingImplements` uses `CanaryContainment` of what is on the wire for `Adopt`. TLC checked `FleetInv`
with the constants of the three rollout runs without fairness, and the refinement as well with those of
`rollout_faults` (restarts) and `rollout_move` (two groups).

Theorem: `RolloutImplementsFleet`.

**Stream.** `SentInOrder` needs to know that `subscriber.version` bounds everything the stream carried
and, while the engine uses the stream, what it runs (`SeenIsHighest`), which starts true because nothing
travels before the handler's loops run (`QuietUntilUp`). `OwnerIsServed` needs that an open stream has
an instance and that a hub serves only streams of its own that claimed the row (`StreamsArePlaced`), and
an offer of a hub needs that its subscriber was opened (`HubsHaveStreams`). `AppliedNeverRegresses` needs
that a reply of the stream that owns the row is never older than the row and never newer than the
engine (`RowLagsEngine`): claiming the row is what makes older replies worthless. `StreamInv` is the
conjunction. The proof has one lemma per kind of step (`OfferKeeps` serves both the handler and the
hub), then `SessionSteps` and `SharedSteps` collect them.

Theorems: `StreamInvariant`, `SentInOrderHolds`, `OwnerIsServedHolds`, `AppliedNeverRegressesHolds`.

**Lease.** `LeaseInv` says why waiting works: a ticket lasts `Window` from its capture
(`TicketsAreGood`); while a holder waits on the newest revision, every other ticket that was granted
is, on its own clock, at least as old as the wait, up to the ratio of the rates (`WaitIsCovered`);
hence when the wait is over the others have expired (`Exclusion`), and only the last writer has a
live one. Revisions are never seen before they exist (`RevisionsAreOld`). `ExclusiveGate` and
`OpenIsLastWriter` follow.

Theorems: `LeaseInvariant`, `OpenIsLastWriterHolds`, `ExclusiveGateHolds`.

**Failover groups.** `GrantsAreReserved` is not inductive: that a resume or a withdrawal keeps it
depends on what is reserved. `GroupsInv` adds that a live group holds its members and its address, that
an active or withdrawn group holds nothing else and a deleted one nothing (`ReservationsMatchLifecycle`),
that grants and receipts are not newer than the generation and a group has one address (`RowsAgree`), and
`WithdrawalIsFinal`. The proof has one lemma per operation. `GroupsImplementReservations` then maps each
step: creating, updating and transitions are `Acquire` or a stutter, a grant is `Use` of its engine and
the address, a withdrawal is `Withdraw` of what it releases, and the rest stutters; that `Withdraw`
empties the group's uses is `GrantsAreReserved` (every grant is on a reserved engine, and those are the
verifier's scope).

Theorems: `GroupsSafe`, `GrantsStayReserved`, `WithdrawalsAreFinal`, `GroupsImplementReservations`.

**Secondary zones.** `RecordsAreOneVersion` needs to know what a refresh in flight knows: `SecondaryInv`
adds that what it read of a loaded zone was one version and its serial, that a loaded zone stays loaded,
and that only such a refresh asks for differences or finds the zone current (`KnowledgeIsOneVersion`).
Then differences applied at the serial they start from start from those very records, because a serial
names one version (`SerialsCompare`), however many refreshes run at once.

The other three properties are about the advisory lock. `LockedInv` says what it protects as long as no
session that holds it breaks: the one refresh that runs is its holder's (`LockIsHeld`), what it read of
the row is still there (`Fresh`, which the requests and the settings are not part of: those may change
meanwhile), and what it learned from a primary orders its answer against the row and against the
primary's last NOTIFY (`Learned`), unless the request counter moved, which is what the final update
compares. `PublishedIsCurrent` and `NotifyIsHeeded` are conjuncts of it, `NeverBackwards` follows for
each step, with `SerialsOrder`: serial arithmetic orders versions also across the wrap.

Theorems: `RecordsStayOneVersion`, `PublishedStaysCurrent`, `NotifyStaysHeeded`, `ZoneMovesForward`.

**Key rollovers.** `KeyRolloverInv` has four parts.

- `RowsInv`: a signed zone has one or two active KSKs, activated in the order of their creation, one
  active ZSK and at most one successor, the times of each row have passed (`Shape`), and there is a
  signature for exactly the keys that sign.
- `DeadlinesInv`: `next_maintenance_at` is not later than any transition or renewal still to come
  (`RolloverTimes`), and none is overdue by more than the maintainer was away. Every operation
  recomputes the time, so every one of them has to keep this; `ScheduleIsTimely` says that the minimum
  the code takes does.
- `PastInv`, `VersionsShowKeys` and `ChainInv`: versions that were served after a key appeared show it;
  and, unless there was a lapse of kind `"ds"`, a KSK with a DS record signed every DNSKEY RRset a cache
  may hold (`DelegatedIsShown`), every DS set a cache may hold has a KSK of the zone
  (`DelegationsAnchored`), and after the new KSK's DS was seen only older DS sets lack it
  (`ParentKeepsNewDS`).
- `DataInv`, unless there was a lapse of kind `"ttl"`, of cached versions that a present KSK signed: their
  ZSKs are active, or retired since (`SignaturesHaveKeys`), and a DNSKEY RRset still cached shows every ZSK
  that signs or signed (`ZsksAreKnown`).

The first two parts are proved apart (`RowsAndDeadlines`): they hold whatever people and the parent do.
`ChainOfTrust` and `DataValidates` are not inductive because what makes them true later is in the times:
a removal is safe because the version that lacks the key is younger than everything that needs it. The
proof reduces the operations to one relation on key rows: `Changes` says what may become of each row
(kept, activated, retired, dropped, superseded, confirmed, created), `AdvanceRows` that the state machine
makes such changes only, each with the wait it requires, and every operation that publishes a signed zone
is a `Transaction` of changed rows. The invariant's parts are then shown once for a transaction, and for
`Enable`, `Disable`, the parent's steps and the clock. A lapse is exactly what each of these steps would
need and the code does not check: `ParentKeepsCaches` needs that the DS comes after the last version
without its key left the caches, `ZskOutlivesData` and `ActivatedIsShown` that the waits are by TTLs no
shorter than the cached ones.

Theorems: `RowsAndDeadlines`, `KeyRolloverInvariant`, `KeysStayComplete`, `RolloversStayOnTime`,
`SignaturesStayFresh`, and up to a lapse `ChainOfTrustHolds` and `DataValidatesHolds`.

**Zone versions.** `ServedIsStored` is not inductive: the next edit's delta is taken from the stored
records, or from a replay of image and journal, and either is right only if the two agree and the journal
is whole. `ZoneInv` has four parts: each record is stored once and, unless a file with mixed TTLs was
imported, with one TTL per RRset (`Good`); `JournalIsChain`, the
journal has every delta from some version on that is not later than the image, each starts at the serial
the one before ends at, and the image is at the serial where the deltas after it start; `ServedIsStored`;
and `EngineReplays`, an engine that reads the image and applies the deltas after it gets what `loadServed`
replays, in data always and in TTLs unless `mixed` (`Follows`). The last one needs the first: the engine
deletes records by their data, whatever their TTL, and gives an RRset the TTL of what it adds, so it agrees
with the management plane about TTLs only where every write leaves an RRset one TTL and every record whose
TTL changes is part of the delta. The two rebuild paths
meet in `DeltaIsRight`: the difference of the stored records, with the old SOA data deleted and the new
added, takes the old served version to the new one, replayed or applied by an engine. `NextVersion` shows
the rest once for `WriteVersion` (image or none, pruned or not).

What a fold computes is an induction, and the library's induction theorems cannot be instantiated here.
`SetInduction` goes around that: a set of numbers that has 0 and successors has all numbers, so a property
is stated as the set of lengths for which it holds. From it follow that folds exist and unfold at the
end (`FoldLeftFolds`, `FoldOfOneMore`), that a dynamic update keeps the records `Good` (`UpdatedIsGood`)
and that the numbers of an interval in ascending order are the interval (`AscendingInterval`), which makes
the listed deltas a tail of the journal.

What an engine serves depends on what it loaded before, so `EngineServesSnapshot` needs an invariant that
holds while the engine is behind. `FreshInv`, under `FreshSpec`, says: no two deltas of the journal start at
the same serial, and none starts at the current one (`FreshJournal`); an engine at the current serial has
the current records (`SameSerialSameData`); if the journal has a delta that starts at the engine's serial,
that delta and the later ones, applied to what the engine has, give the current version (`DeltasReach`); and
a delta of the engine's history that has the two serials of a journal's delta is that delta
(`HistoryNames`). A load then ends at the current version by each of its three ways (`LoadIsCurrent`), and
the history it joins from what it parsed and what it had is the listed one (`HistoryIsListed`). A new
version keeps the invariant because its delta continues every chain (`AdvanceReaches`) and its serial is new
to all of them; pruning only takes chains away. "The current records" are the same data in every case, and
the same TTLs unless `mixed`. `RisingIsFresh` says when `FreshSpec` can be relied on: if serials do not
wrap, and a name is used again only after the engine has loaded the deletion, then nothing above the zone's
serial is ever remembered (`RisingInv`), so no new version takes a remembered one.

Theorems: `ZoneInvariant`, `ServedStaysStored`, `SnapshotsLoad`, and under `FreshSpec` `EngineCatchesUp`
and `SameSerialIsSameData`; `RisingIsFresh`.

**Only model-checked:** `RolloutsSettle`, both `CatchesUp` and `ExpiryIsPublished`: liveness under fairness
is out of the prover's reach.

## Abstractions and what is not modelled

- Groups are fixed; the initial version is already published and completed (`EnsureInitial` with no
  engine connected). `PublishRaw` is used by tests only.
- A transaction is one step, except `publish`, `driveOne` and UpdateEngine, which decide from rows they have
  not locked and are split there. `driveOne`'s query of the engines and those of the canaries' health are
  one read, and so is ListEngines, which `Stream` splits. A publish holds the rows of the groups it has
  created rollouts for until it commits; the model takes the commit for all groups as one step. Transactions
  that deadlock and are retried look like ones that waited.
- In `Rollout` the first target of a stream is offered by the same `Push` as later ones and VersionAhead
  is left out; `Stream` has both. Key sets, TLS material, log and update requests share the stream
  and are in neither.
- One process per engine: no two processes share a state directory.
- In Lease the API server is honest and answers in the protocol: a record that changes without its
  resourceVersion, a boot clock that runs backwards and malformed answers end a step in the code and
  do not occur here. Revisions stand for the nonce and the epoch.
- Post-gate queues drain within the margin: `Margin` is what is left for clock rates.
- FailoverGroups: observations and eligibility (`publication.go`, `eligibility.go`), source roles and the
  contents of proofs are left out; whether a pair of engines may form a group is left open. Names are not
  modelled: an update that only renames is one with the same members.
- SecondaryZone: TSIG keys, record limits and malformed streams are ways to fail. The Rebuild of a
  transferred version is that of `ZoneVersions`. Settings other than the primaries are left out.
- ZoneVersions: the apex NS records, signatures and the checks that reject an edit are left out, as is the
  image forced when somebody changed the row's serial by hand. Which record of an RRset with several TTLs
  gives the engine's one is left open by the properties. Listing and loading are of one zone in one engine
  group. A ZONEMD below the apex, which only a transfer can bring, is left out.
- KeyRollover: `sigs` has the earliest expiry of each key's signatures, without the jitter that spreads
  them; an edit renews all or none of the data's. CDS and CDNSKEY are only there as what they offer
  (`Offered`); NSEC chains, key backends and changing settings are left out. TTLs change only under at most
  `MaxPast` replaced versions.
- Generated code, the API layer, the recursor, filters, telemetry, the operator and the web interface are
  most of the repository's lines. They hold data formats, validation and rendering rather than protocol
  and are not modelled.
- `PROJECT.json` lists every component, also those without a module, with the reason.

## Plan

1. `FailoverGroups` further: publication of observations (sequence numbers per publisher incarnation) and
   the eligibility computed from them.
2. `Stream` further: certificates, revocation and key material behind the commit barrier of the
   owning session, queries that fail.
3. `Locks`: the transactions' lock orders (config version lock, group, rollout and engine rows), the
   deadlock detector and the three attempts of `InTx`.
4. `Identity`: the identity directory around renewal, with crashes between file system calls and two
   processes sharing it; `StateDir`: the same for `snapshot.binpb`.
5. `Coalesce`: leaders and followers of one resolution; the destruction queue of PKCS#11 keys.
