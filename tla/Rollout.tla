------------------------------ MODULE Rollout ------------------------------
(* Staged rollouts of configuration versions to the engines of a fleet.       *)
(*                                                                            *)
(* The PostgreSQL rows that every management instance shares (config versions,*)
(* group snapshots, rollouts, engine groups, engines), the operations that    *)
(* publish versions and create rollouts, the rollout controller that steps    *)
(* them, the hub that offers every connected engine its target version, and   *)
(* the engines that apply or reject what they are sent.                       *)
(*                                                                            *)
(* A database transaction is one action only where it holds the locks that    *)
(* make it atomic. Those that decide from rows they did not lock are split at *)
(* the read: a publish reads each group's stable version before it locks the  *)
(* group's row, the controller reads the engines' rows without locking them,  *)
(* and moving an engine reads which snapshot to copy before the version lock. *)
EXTENDS Integers, FiniteSets

CONSTANTS
    Groups,         \* engine groups
    NoGroup,        \* the group of a snapshot that does not exist
    Engines,        \* enrolled engines
    Contents,       \* group snapshot contents, told apart by content_sha256
    NoContent,      \* the content of a group snapshot that does not exist
    MaxVersion,     \* bound: the newest config version that is published
    MaxFaults,      \* bound: broken streams, restarts, failed writes and rejections
    CanaryCount,    \* engine_groups.canary_count
    CanaryPercent   \* engine_groups.canary_percent

ASSUME ConstantsAssumption ==
    /\ NoGroup \notin Groups
    /\ NoContent \notin Contents
    /\ IsFiniteSet(Engines)
    /\ MaxVersion \in Nat \ {0}
    /\ MaxFaults \in Nat
    /\ CanaryCount \in Nat
    /\ CanaryPercent \in 0..100

Versions == 1..MaxVersion
Strategies == {"all_at_once", "canary"}
Kinds == {"change", "rollback", "republish"}
Active == {"canary", "verifying", "rolling"}
Open == Active \cup {"pending"}
States == Open \cup {"completed", "halted", "rolled_back", "superseded"}

\* rollouts: one row per group snapshot; "none" where the group has no snapshot of the version.
NoRow == [state |-> "none", kind |-> "none", strategy |-> "none", canaries |-> {}]
Row == [state : States, kind : Kinds, strategy : Strategies, canaries : SUBSET Engines]

\* A group snapshot as it travels: whose it is and its version.
Snapshot == [group : Groups, version : Versions]
Nothing == [group |-> NoGroup, version |-> 0]

\* Applied or Rejected on its way to the management plane.
Reply == [type : {"none", "applied", "rejected"}, version : 0..MaxVersion, persistError : BOOLEAN]
NoReply == [type |-> "none", version |-> 0, persistError |-> FALSE]

NoMove == [engine |-> "none", group |-> NoGroup, from |-> 0]

\* The stable version of a group that no publish has read.
Unread == -1

\* What a step of the controller decided: the rollout, its row to be, and of a completion the
\* engines it waited for that reported no failed write.
NoDrive == [version |-> 0, row |-> NoRow, vouched |-> {}]
Decision == [version : Versions, row : Row, vouched : SUBSET Engines]

VARIABLES
    version,        \* the newest config_versions.version
    content,        \* group_snapshots: content[g][v]
    rollouts,       \* rollouts[g][v]
    stable,         \* engine_groups.stable_version (0 is NULL)
    paused,         \* engine_groups.rollouts_paused
    strategy        \* engine_groups.rollout_strategy

VARIABLES
    engineGroup,    \* engines.engine_group_id
    revoked,        \* engines.revoked_at is not null
    connected,      \* connected_instance is set and its instance heartbeats
    applied,        \* engines.applied_version
    rejected,       \* engines.rejected_version (0 is NULL)
    persistError,   \* engines.persist_error is not empty
    move,           \* the UpdateEngine transaction between its read and its commit
    seen,           \* the stable versions the publish that holds the version lock has read
    driving         \* driveOne between its read and its commit, the group's row locked

VARIABLES
    stream,         \* the engine holds a control stream
    offered,        \* subscriber.version: the highest version sent, applied or rejected
    out,            \* subscriber.out: the snapshot waiting to be sent
    wire,           \* the snapshot sent and not yet handled by the engine
    reply,          \* the engine's answer, not yet handled by the management plane
    running,        \* the engine's runtime
    disk            \* the engine's state_dir/snapshot.binpb

VARIABLES
    faults,         \* how much of the bound MaxFaults is spent
    released        \* history: the versions of each group whose rollout ever was rolling

groupVars == <<version, content, rollouts, stable, paused, strategy>>
rowVars == <<engineGroup, revoked, connected, applied, rejected, persistError>>
txVars == <<move, seen, driving>>
streamVars == <<stream, offered, out, wire, reply>>
engineVars == <<running, disk>>
vars == <<groupVars, rowVars, txVars, streamVars, engineVars, faults, released>>

TypeOK ==
    /\ version \in Versions
    /\ content \in [Groups -> [Versions -> Contents \cup {NoContent}]]
    /\ rollouts \in [Groups -> [Versions -> Row \cup {NoRow}]]
    /\ stable \in [Groups -> 0..MaxVersion]
    /\ paused \in [Groups -> BOOLEAN]
    /\ strategy \in [Groups -> Strategies]
    /\ engineGroup \in [Engines -> Groups]
    /\ revoked \in [Engines -> BOOLEAN]
    /\ connected \in [Engines -> BOOLEAN]
    /\ applied \in [Engines -> 0..MaxVersion]
    /\ rejected \in [Engines -> 0..MaxVersion]
    /\ persistError \in [Engines -> BOOLEAN]
    /\ \/ move = NoMove
       \/ move \in [engine : Engines, group : Groups, from : Versions]
    /\ seen \in [Groups -> {Unread} \cup 0..MaxVersion]
    /\ driving \in [Groups -> Decision \cup {NoDrive}]
    /\ stream \in [Engines -> BOOLEAN]
    /\ offered \in [Engines -> 0..MaxVersion]
    /\ out \in [Engines -> Snapshot \cup {Nothing}]
    /\ wire \in [Engines -> Snapshot \cup {Nothing}]
    /\ reply \in [Engines -> Reply]
    /\ running \in [Engines -> Snapshot \cup {Nothing}]
    /\ disk \in [Engines -> Snapshot \cup {Nothing}]
    /\ faults \in 0..MaxFaults
    /\ released \in [Groups -> SUBSET Versions]

\* A started management plane: the initial version is published and, with no engine connected
\* yet, its all_at_once rollout completed in every group.
Init ==
    /\ version = 1
    /\ \E c \in Contents :
         content = [g \in Groups |-> [v \in Versions |-> IF v = 1 THEN c ELSE NoContent]]
    /\ rollouts = [g \in Groups |-> [v \in Versions |->
           IF v = 1 THEN [state |-> "completed", kind |-> "change",
                          strategy |-> "all_at_once", canaries |-> {}]
                    ELSE NoRow]]
    /\ stable = [g \in Groups |-> 1]
    /\ paused = [g \in Groups |-> FALSE]
    /\ strategy \in [Groups -> Strategies]
    /\ engineGroup \in [Engines -> Groups]
    /\ revoked = [e \in Engines |-> FALSE]
    /\ connected = [e \in Engines |-> FALSE]
    /\ applied = [e \in Engines |-> 0]
    /\ rejected = [e \in Engines |-> 0]
    /\ persistError = [e \in Engines |-> FALSE]
    /\ move = NoMove
    /\ seen = [g \in Groups |-> Unread]
    /\ driving = [g \in Groups |-> NoDrive]
    /\ stream = [e \in Engines |-> FALSE]
    /\ offered = [e \in Engines |-> 0]
    /\ out = [e \in Engines |-> Nothing]
    /\ wire = [e \in Engines |-> Nothing]
    /\ reply = [e \in Engines |-> NoReply]
    /\ running = [e \in Engines |-> Nothing]
    /\ disk = [e \in Engines |-> Nothing]
    /\ faults = 0
    /\ released = [g \in Groups |-> {1}]
----------------------------------------------------------------------------
(* rollout.Create: the group's open rollouts are superseded, the new row      *)
(* inserted.                                                                  *)

\* Mutant: the pause is not looked at.
HeldNever(kind, immediate, p) == FALSE

Held(kind, immediate, p) == kind = "change" /\ ~immediate /\ p

\* Mutant: what already runs is left to run.
SupersedesPending(kind, held) == {"pending"}

\* The states a new rollout of the kind supersedes.
Supersedes(kind, held) ==
    IF held THEN {"pending"}
    ELSE IF kind = "rollback" THEN Open
    ELSE Open \cup {"halted"}

\* Mutant: a halted rollout gets a state the rollouts table does not know.
RetiredUnknown(row, kind, held) ==
    [row EXCEPT !.state =
        IF kind = "rollback" /\ @ = "halted" THEN "rollback"
        ELSE IF @ \in Supersedes(kind, held) THEN "superseded" ELSE @]

Retired(row, kind, held) ==
    [row EXCEPT !.state =
        IF kind = "rollback" /\ @ = "halted" THEN "rolled_back"
        ELSE IF @ \in Supersedes(kind, held) THEN "superseded" ELSE @]

NewRow(kind, immediate, held, s) ==
    LET how == IF kind # "change" \/ immediate THEN "all_at_once" ELSE s
    IN  [state |-> IF how = "all_at_once" /\ ~held THEN "rolling" ELSE "pending",
         kind |-> kind, strategy |-> how, canaries |-> {}]

Create(g, v, kind, immediate, p, s) ==
    LET held == Held(kind, immediate, p)
    IN  [w \in Versions |-> IF w = v THEN NewRow(kind, immediate, held, s)
                            ELSE Retired(rollouts[g][w], kind, held)]

\* The history after the step: every version that is rolling now was released to its group.
Release ==
    released' = [g \in Groups |->
        released[g] \cup {v \in Versions : rollouts'[g][v].state = "rolling"}]
----------------------------------------------------------------------------
(* Publishing: Mutate commits a change of the configuration and one snapshot  *)
(* and rollout per group. publish holds the config version lock from its      *)
(* start, and the row of a group from Create on.                              *)

\* Nobody publishes: the config version lock is free.
NoPublish == \A g \in Groups : seen[g] = Unread

\* Nobody else has the group's row locked.
RowFree(g) == driving[g] = NoDrive

\* publish looks up the group's stable version, whose row it has not locked yet.
PublishRead(g) ==
    /\ version < MaxVersion
    /\ seen[g] = Unread
    /\ seen' = [seen EXCEPT ![g] = stable[g]]
    /\ UNCHANGED <<groupVars, rowVars, move, driving, streamVars, engineVars, faults, released>>

\* The transaction fails and leaves nothing behind.
PublishAbort ==
    /\ ~NoPublish
    /\ seen' = [g \in Groups |-> Unread]
    /\ UNCHANGED <<groupVars, rowVars, move, driving, streamVars, engineVars, faults, released>>

\* A change whose content equals that of the stable version read ignores strategy and pause.
Immediate(g, c) == seen[g] # 0 /\ content[g][seen[g]] = c

\* publish with the pause flags and strategies the transaction has already written.
PublishAll(cs, p, s) ==
    /\ version < MaxVersion
    /\ \A g \in Groups : seen[g] # Unread /\ RowFree(g)
    /\ version' = version + 1
    /\ content' = [g \in Groups |-> [content[g] EXCEPT ![version + 1] = cs[g]]]
    /\ rollouts' = [g \in Groups |->
           Create(g, version + 1, "change", Immediate(g, cs[g]), p[g], s[g])]
    /\ paused' = p
    /\ strategy' = s
    /\ seen' = [g \in Groups |-> Unread]
    /\ Release
    /\ UNCHANGED <<stable, rowVars, move, driving, streamVars, engineVars, faults>>

Mutate(cs) == PublishAll(cs, paused, strategy)

\* These two lock the row of their group before they publish: its stable version stays.
UpdateEngineGroup(g, s, cs) ==
    /\ strategy[g] # s
    /\ seen[g] = stable[g]
    /\ PublishAll(cs, paused, [strategy EXCEPT ![g] = s])

ResumeEngineGroupRollouts(g, cs) ==
    /\ paused[g]
    /\ seen[g] = stable[g]
    /\ PublishAll(cs, [paused EXCEPT ![g] = FALSE], strategy)

\* Republish: a copy of the group's snapshot `from` becomes the next version of this group alone.
Republish(g, from, kind) ==
    /\ version < MaxVersion
    /\ NoPublish
    /\ RowFree(g)
    /\ version' = version + 1
    /\ content' = [content EXCEPT ![g][version + 1] = content[g][from]]
    /\ rollouts' = [rollouts EXCEPT ![g] =
           Create(g, version + 1, kind, TRUE, paused[g], strategy[g])]
    /\ paused' = [paused EXCEPT ![g] = @ \/ kind = "rollback"]
    /\ Release
    /\ UNCHANGED <<stable, strategy, seen, driving>>

RollbackEngineGroup(g, to) ==
    /\ content[g][to] # NoContent
    /\ \E newest \in Versions : newest > to /\ content[g][newest] # NoContent
    /\ Republish(g, to, "rollback")
    /\ UNCHANGED <<rowVars, move, streamVars, engineVars, faults>>
----------------------------------------------------------------------------
(* UpdateEngine moves an engine to another group. It locks the engine's row,  *)
(* reads which snapshot to copy, and only then takes the config version lock. *)

Unlocked(e) == move.engine # e

\* The group's stable version, else its newest snapshot.
MoveSource(g) ==
    IF stable[g] # 0 THEN stable[g]
    ELSE CHOOSE v \in Versions :
           /\ content[g][v] # NoContent
           /\ \A w \in Versions : content[g][w] # NoContent => w <= v

UpdateEngineRead(e, g) ==
    /\ move = NoMove
    /\ ~revoked[e]
    /\ engineGroup[e] # g
    /\ version < MaxVersion
    /\ move' = [engine |-> e, group |-> g, from |-> MoveSource(g)]
    /\ UNCHANGED <<groupVars, rowVars, seen, driving, streamVars, engineVars, faults, released>>

\* Mutant: the engine moves and nothing is republished for it.
UpdateEngineCommitOnly ==
    /\ move # NoMove
    /\ engineGroup' = [engineGroup EXCEPT ![move.engine] = move.group]
    /\ move' = NoMove
    /\ UNCHANGED <<groupVars, released, revoked, connected, applied, rejected, persistError,
                   seen, driving, streamVars, engineVars, faults>>

UpdateEngineCommit ==
    /\ move # NoMove
    /\ Republish(move.group, move.from, "republish")
    /\ engineGroup' = [engineGroup EXCEPT ![move.engine] = move.group]
    /\ move' = NoMove
    /\ UNCHANGED <<revoked, connected, applied, rejected, persistError, streamVars, engineVars, faults>>

\* The transaction fails and leaves nothing behind.
UpdateEngineAbort ==
    /\ move # NoMove
    /\ move' = NoMove
    /\ UNCHANGED <<groupVars, rowVars, seen, driving, streamVars, engineVars, faults, released>>

RevokeEngine(e) ==
    /\ ~revoked[e]
    /\ Unlocked(e)
    /\ revoked' = [revoked EXCEPT ![e] = TRUE]
    /\ UNCHANGED <<groupVars, engineGroup, connected, applied, rejected, persistError, txVars,
                   streamVars, engineVars, faults, released>>
----------------------------------------------------------------------------
(* The rollout controller: driveOne locks the group's row, reads the engines' *)
(* rows, decides, and writes what it decided. How long a phase has lasted and *)
(* what the canaries' health samples say are free, so every timeout and every *)
(* verdict can happen.                                                        *)

Members(g) == {e \in Engines : engineGroup[e] = g /\ ~revoked[e]}
Picked(g, v) == Members(g) \cap rollouts[g][v].canaries
Rejection(S, v) == \E e \in S : rejected[e] = v
Unapplied(S, v) == {e \in S : applied[e] < v}
Connected(S) == {e \in S : connected[e]}

\* How many of n connected engines are canaries.
CanaryWant(n) ==
    LET share == (n * CanaryPercent + 99) \div 100
        want == CHOOSE m \in {CanaryCount, share, 1} : \A k \in {CanaryCount, share, 1} : k <= m
        cap == IF n >= 2 THEN n - 1 ELSE n
    IN  IF want <= cap THEN want ELSE cap

\* The canary sets the labels and names of the engines can select.
SelectCanaries(S) ==
    {C \in SUBSET Connected(S) : Cardinality(C) = CanaryWant(Cardinality(Connected(S)))}

\* The step read all it needs and knows what to write.
Decides(g, v, row, vouched) ==
    /\ RowFree(g)
    /\ driving' = [driving EXCEPT ![g] = [version |-> v, row |-> row, vouched |-> vouched]]
    /\ UNCHANGED <<groupVars, rowVars, move, seen, streamVars, engineVars, faults, released>>

Start(g, v) ==
    LET r == rollouts[g][v]
    IN  /\ r.state = "pending"
        /\ ~(paused[g] /\ r.kind = "change")
        /\ \E C \in SelectCanaries(Members(g)) :
             Decides(g, v, IF r.kind # "change" \/ r.strategy = "all_at_once"
                           THEN [r EXCEPT !.state = "rolling"]
                           ELSE [r EXCEPT !.state = "canary", !.canaries = C], {})

CanariesApplied(g, v) ==
    LET r == rollouts[g][v]
    IN  /\ r.state = "canary"
        /\ ~Rejection(Picked(g, v), v)
        /\ Unapplied(Picked(g, v), v) = {}
        /\ Decides(g, v, [r EXCEPT !.state = "verifying"], {})

\* The health window passed and every canary reported enough healthy samples.
HealthPassed(g, v) ==
    LET r == rollouts[g][v]
    IN  /\ r.state = "verifying"
        /\ ~Rejection(Picked(g, v), v)
        /\ Decides(g, v, [r EXCEPT !.state = "rolling"], {})

Durable(S) == {e \in S : ~persistError[e]}

\* Mutant: nobody's acknowledgement is waited for.
CompleteUnacknowledged(g, v) ==
    LET r == rollouts[g][v]
    IN  /\ r.state = "rolling"
        /\ ~Rejection(Members(g), v)
        /\ Decides(g, v, [r EXCEPT !.state = "completed"], Durable(Connected(Members(g))))

Complete(g, v) ==
    LET r == rollouts[g][v]
    IN  /\ r.state = "rolling"
        /\ ~Rejection(Members(g), v)
        /\ Unapplied(Connected(Members(g)), v) = {}
        /\ Decides(g, v, [r EXCEPT !.state = "completed"], Durable(Connected(Members(g))))

\* Mutant: nothing times out.
HaltOnRejection(g, v) ==
    LET r == rollouts[g][v]
        asked == IF r.state = "rolling" THEN Members(g) ELSE Picked(g, v)
    IN  /\ r.state \in Active
        /\ Rejection(asked, v)
        /\ Decides(g, v, [r EXCEPT !.state = "halted"], {})

\* A rejection, an acknowledgement timeout, or canaries that are unhealthy or silent.
Halt(g, v) ==
    LET r == rollouts[g][v]
        failed == \/ /\ r.state = "canary"
                     /\ \/ Rejection(Picked(g, v), v)
                        \/ Unapplied(Picked(g, v), v) # {}
                  \/ /\ r.state = "verifying"
                     /\ Picked(g, v) # {}
                  \/ /\ r.state = "rolling"
                     /\ \/ Rejection(Members(g), v)
                        \/ Unapplied(Connected(Members(g)), v) # {}
    IN  /\ failed
        /\ Decides(g, v, [r EXCEPT !.state = "halted"], {})

Drive(g, v) ==
    \/ Start(g, v)
    \/ CanariesApplied(g, v)
    \/ HealthPassed(g, v)
    \/ Complete(g, v)
    \/ Halt(g, v)

\* Spends one of the faults the bound allows.
Fault == faults < MaxFaults /\ faults' = faults + 1

\* Mutant: the group's stable version is not raised.
DriveCommitUnstable(g) ==
    LET d == driving[g]
    IN  /\ d # NoDrive
        /\ rollouts' = [rollouts EXCEPT ![g][d.version] = d.row]
        /\ driving' = [driving EXCEPT ![g] = NoDrive]
        /\ Release
        /\ UNCHANGED <<version, content, stable, paused, strategy, rowVars, move, seen, streamVars,
                       engineVars, faults>>

\* What was decided is written; a completed version becomes the stable one unless a newer one is.
DriveCommit(g) ==
    LET d == driving[g]
        raised == d.row.state = "completed" /\ stable[g] < d.version
    IN  /\ d # NoDrive
        /\ rollouts' = [rollouts EXCEPT ![g][d.version] = d.row]
        /\ stable' = [stable EXCEPT ![g] = IF raised THEN d.version ELSE @]
        /\ driving' = [driving EXCEPT ![g] = NoDrive]
        /\ Release
        /\ UNCHANGED <<version, content, paused, strategy, rowVars, move, seen, streamVars,
                       engineVars, faults>>

\* The instance stops or the transaction fails: the step is left to a later tick.
DriveFails(g) ==
    /\ ~RowFree(g)
    /\ driving' = [driving EXCEPT ![g] = NoDrive]
    /\ Fault
    /\ UNCHANGED <<groupVars, rowVars, move, seen, streamVars, engineVars, released>>

\* What the controller does to a group.
Control(g) ==
    \/ \E v \in Versions : Drive(g, v)
    \/ DriveCommit(g)
----------------------------------------------------------------------------
(* The hub and the control streams.                                           *)

\* Mutant: a halted rollout no longer counts.
LiveUnlessHalted(g) ==
    {v \in Versions : rollouts[g][v].state \notin {"none", "superseded", "halted"}}

Live(g) == {v \in Versions : rollouts[g][v].state \notin {"none", "superseded"}}

\* The newest non-superseded rollout of the group.
Latest(g) == CHOOSE v \in Live(g) : \A w \in Live(g) : w <= v

\* Mutant: a halted rollout is still the target of engines that never applied it.
TargetAfterHalt(e) ==
    LET g == engineGroup[e]
        r == rollouts[g][Latest(g)]
    IN  IF /\ Live(g) # {}
           /\ \/ r.state \in {"rolling", "completed", "rolled_back", "halted"}
              \/ r.state \in {"canary", "verifying"} /\ e \in r.canaries
        THEN Latest(g)
        ELSE stable[g]

\* The version engine e should run.
Target(e) ==
    LET g == engineGroup[e]
        r == rollouts[g][Latest(g)]
    IN  IF /\ Live(g) # {}
           /\ \/ r.state \in {"rolling", "completed", "rolled_back"}
              \/ r.state \in {"canary", "verifying"} /\ e \in r.canaries
              \/ r.state = "halted" /\ applied[e] = Latest(g)
        THEN Latest(g)
        ELSE stable[g]

\* Mutant: the version the engine says it runs is ignored.
ConnectForgetting(e) ==
    /\ ~stream[e]
    /\ ~revoked[e]
    /\ Unlocked(e)
    /\ stream' = [stream EXCEPT ![e] = TRUE]
    /\ connected' = [connected EXCEPT ![e] = TRUE]
    /\ offered' = [offered EXCEPT ![e] = 0]
    /\ out' = [out EXCEPT ![e] = Nothing]
    /\ wire' = [wire EXCEPT ![e] = Nothing]
    /\ reply' = [reply EXCEPT ![e] = NoReply]
    /\ UNCHANGED <<groupVars, engineGroup, revoked, applied, rejected, persistError, txVars,
                   engineVars, faults, released>>

\* Connect registers the stream: a new session owns the engine's row, so what an older stream
\* still had to report is fenced off. The target is loaded and offered by the Push that follows.
Connect(e) ==
    /\ ~stream[e]
    /\ ~revoked[e]
    /\ Unlocked(e)
    /\ stream' = [stream EXCEPT ![e] = TRUE]
    /\ connected' = [connected EXCEPT ![e] = TRUE]
    /\ offered' = [offered EXCEPT ![e] = running[e].version]
    /\ out' = [out EXCEPT ![e] = Nothing]
    /\ wire' = [wire EXCEPT ![e] = Nothing]
    /\ reply' = [reply EXCEPT ![e] = NoReply]
    /\ UNCHANGED <<groupVars, engineGroup, revoked, applied, rejected, persistError, txVars,
                   engineVars, faults, released>>

\* Mutant: any change of the target is offered, an older version too.
PushAnyTarget(e) ==
    /\ stream[e]
    /\ ~revoked[e]
    /\ Target(e) # offered[e]
    /\ offered' = [offered EXCEPT ![e] = Target(e)]
    /\ out' = [out EXCEPT ![e] = [group |-> engineGroup[e], version |-> Target(e)]]
    /\ UNCHANGED <<groupVars, rowVars, txVars, stream, wire, reply, engineVars, faults, released>>

\* push and offer: a target above everything this engine has seen replaces an unsent one.
Push(e) ==
    /\ stream[e]
    /\ ~revoked[e]
    /\ Target(e) > offered[e]
    /\ offered' = [offered EXCEPT ![e] = Target(e)]
    /\ out' = [out EXCEPT ![e] = [group |-> engineGroup[e], version |-> Target(e)]]
    /\ UNCHANGED <<groupVars, rowVars, txVars, stream, wire, reply, engineVars, faults, released>>

Send(e) ==
    /\ stream[e]
    /\ out[e] # Nothing
    /\ wire[e] = Nothing
    /\ wire' = [wire EXCEPT ![e] = out[e]]
    /\ out' = [out EXCEPT ![e] = Nothing]
    /\ UNCHANGED <<groupVars, rowVars, txVars, stream, offered, reply, engineVars, faults, released>>

\* The stream breaks (network, instance or engine gone, engine revoked).
Disconnect(e) ==
    /\ stream[e]
    /\ stream' = [stream EXCEPT ![e] = FALSE]
    /\ out' = [out EXCEPT ![e] = Nothing]
    /\ wire' = [wire EXCEPT ![e] = Nothing]
    /\ Fault
    /\ UNCHANGED <<groupVars, rowVars, txVars, offered, reply, engineVars, released>>

\* The handler of a broken stream returns and clears the row; or its instance stopped
\* heartbeating while the stream is up.
ConnectionLapses(e) ==
    /\ connected[e]
    /\ Unlocked(e)
    /\ connected' = [connected EXCEPT ![e] = FALSE]
    /\ IF stream[e]
       THEN Fault /\ UNCHANGED reply
       ELSE reply' = [reply EXCEPT ![e] = NoReply] /\ UNCHANGED faults
    /\ UNCHANGED <<groupVars, engineGroup, revoked, applied, rejected, persistError, txVars,
                   stream, offered, out, wire, engineVars, released>>

HeartbeatResumes(e) ==
    /\ stream[e]
    /\ ~connected[e]
    /\ connected' = [connected EXCEPT ![e] = TRUE]
    /\ UNCHANGED <<groupVars, engineGroup, revoked, applied, rejected, persistError, txVars,
                   streamVars, engineVars, faults, released>>

\* receive: Applied and Rejected are recorded under the stream's session.
HandleReply(e) ==
    LET r == reply[e]
        clears == r.type = "applied" /\ rejected[e] <= r.version
    IN  /\ r # NoReply
        /\ Unlocked(e)
        /\ applied' = [applied EXCEPT ![e] = IF r.type = "applied" THEN r.version ELSE @]
        /\ persistError' = [persistError EXCEPT ![e] =
               IF r.type = "applied" THEN r.persistError ELSE @]
        /\ rejected' = [rejected EXCEPT ![e] =
               IF r.type = "rejected" THEN r.version ELSE IF clears THEN 0 ELSE @]
        /\ offered' = [offered EXCEPT ![e] = IF r.version > @ THEN r.version ELSE @]
        /\ reply' = [reply EXCEPT ![e] = NoReply]
        /\ UNCHANGED <<groupVars, engineGroup, revoked, connected, txVars, stream, out, wire,
                       engineVars, faults, released>>
----------------------------------------------------------------------------
(* The engine.                                                                *)

Answers(e, r) ==
    /\ reply[e] = NoReply
    /\ reply' = [reply EXCEPT ![e] = r]
    /\ wire' = [wire EXCEPT ![e] = Nothing]
    /\ UNCHANGED <<groupVars, rowVars, txVars, stream, offered, out, released>>

\* Mutant: a write that failed is not reported.
ApplySnapshotSilently(e, written) ==
    /\ wire[e] # Nothing
    /\ wire[e].version > running[e].version
    /\ running' = [running EXCEPT ![e] = wire[e]]
    /\ disk' = [disk EXCEPT ![e] = IF written /\ @.version < wire[e].version THEN wire[e] ELSE @]
    /\ Answers(e, [type |-> "applied", version |-> wire[e].version, persistError |-> FALSE])
    /\ IF written THEN UNCHANGED faults ELSE Fault

\* The snapshot is valid and newer: swapped in, then persisted unless writing fails.
ApplySnapshot(e, written) ==
    /\ wire[e] # Nothing
    /\ wire[e].version > running[e].version
    /\ running' = [running EXCEPT ![e] = wire[e]]
    /\ disk' = [disk EXCEPT ![e] = IF written /\ @.version < wire[e].version THEN wire[e] ELSE @]
    /\ Answers(e, [type |-> "applied", version |-> wire[e].version, persistError |-> ~written])
    /\ IF written THEN UNCHANGED faults ELSE Fault

\* Not newer, not valid, or a blob it names could not be fetched.
RejectSnapshot(e) ==
    /\ wire[e] # Nothing
    /\ Answers(e, [type |-> "rejected", version |-> wire[e].version, persistError |-> FALSE])
    /\ Fault
    /\ UNCHANGED engineVars

\* The process restarts from what it persisted; what it had sent may still arrive.
Restart(e) ==
    /\ running[e] # Nothing
    /\ running' = [running EXCEPT ![e] = disk[e]]
    /\ stream' = [stream EXCEPT ![e] = FALSE]
    /\ out' = [out EXCEPT ![e] = Nothing]
    /\ wire' = [wire EXCEPT ![e] = Nothing]
    /\ Fault
    /\ UNCHANGED <<groupVars, rowVars, txVars, offered, reply, disk, released>>
----------------------------------------------------------------------------
Publishing ==
    \/ \E g \in Groups : PublishRead(g)
    \/ PublishAbort
    \/ \E cs \in [Groups -> Contents] :
         \/ Mutate(cs)
         \/ \E g \in Groups :
              \/ ResumeEngineGroupRollouts(g, cs)
              \/ \E s \in Strategies : UpdateEngineGroup(g, s, cs)
    \/ \E g \in Groups, to \in Versions : RollbackEngineGroup(g, to)
    \/ \E e \in Engines, g \in Groups : UpdateEngineRead(e, g)
    \/ UpdateEngineCommit
    \/ UpdateEngineAbort

Streaming(e) ==
    \/ RevokeEngine(e)
    \/ Connect(e)
    \/ Push(e)
    \/ Send(e)
    \/ Disconnect(e)
    \/ ConnectionLapses(e)
    \/ HeartbeatResumes(e)
    \/ HandleReply(e)
    \/ \E written \in BOOLEAN : ApplySnapshot(e, written)
    \/ RejectSnapshot(e)
    \/ Restart(e)

Next ==
    \/ Publishing
    \/ \E g \in Groups : Control(g) \/ DriveFails(g)
    \/ \E e \in Engines : Streaming(e)

Spec == Init /\ [][Next]_vars
----------------------------------------------------------------------------
(* Properties.                                                                *)

\* At most one rollout of a group is in canary, verifying or rolling, whatever is published,
\* rolled back, resumed or republished while the controller steps: the index
\* rollouts_one_active_per_group never makes a publish fail.
OneActiveRollout ==
    \A g \in Groups, v, w \in Versions :
        (rollouts[g][v].state \in Active /\ rollouts[g][w].state \in Active) => v = w

\* A version reaches an engine that is not one of its canaries only after its rollout was let
\* through to the whole group, on every path a snapshot takes: waiting in the hub, on the wire,
\* running, persisted. Holds across moves between groups, halts, late acknowledgements, restarts.
CanaryContainment ==
    \A e \in Engines : \A s \in {out[e], wire[e], running[e], disk[e]} :
        s # Nothing => \/ s.version \in released[s.group]
                       \/ e \in rollouts[s.group][s.version].canaries

\* engine_groups.stable_version is the newest version whose rollout completed for the group, so
\* a version that never completed is never what the rest of the group falls back to.
StableIsNewestCompleted ==
    \A g \in Groups :
        /\ \A v \in Versions : rollouts[g][v].state = "completed" => v <= stable[g]
        /\ stable[g] # 0 => rollouts[g][stable[g]].state = "completed"

\* The newest rollout of a group is never superseded, so Target always decides by the row of the
\* newest snapshot the group has.
NewestDecides ==
    \A g \in Groups, v \in Versions :
        content[g][v] # NoContent => v <= Latest(g)

\* The rollout rolls and brings the engines nothing they were not given before: a rollback, a
\* republished snapshot, or a change back to a content that completed for the group.
BringsNothingNew(g, v) ==
    /\ rollouts[g][v].state = "rolling"
    /\ rollouts[g][v].kind = "change" =>
         \E w \in Versions : rollouts[g][w].state = "completed" /\ content[g][w] = content[g][v]

\* While a group is paused no new content is let through, whatever was in progress when the
\* rollback paused it, whatever is published, moved or stepped meanwhile, and although a publish
\* decides by a stable version that the controller may have moved on from. (Which completed content
\* it lets through is another matter: PausedChangesWait below.)
PausedHoldsChanges ==
    \A g \in Groups, v \in Versions :
        (paused[g] /\ rollouts[g][v].state \in Active) => BringsNothingNew(g, v)

\* A stream only ever carries versions above the one its engine runs, in order: the engine never
\* answers "not newer", and nothing older replaces a newer snapshot.
OffersAreNewer ==
    \A e \in Engines : stream[e] =>
        /\ wire[e] # Nothing => wire[e].version > running[e].version
        /\ out[e] # Nothing => /\ out[e].version > running[e].version
                               /\ out[e].version > wire[e].version
                               /\ out[e].version = offered[e]

\* What the management plane believes an engine applied survives a restart of that engine, unless
\* the engine said it could not persist it.
AppliedIsDurable ==
    \A e \in Engines : ~persistError[e] => applied[e] <= disk[e].version

\* When the completion of a version is written, every engine that was connected when the controller
\* looked runs that version or a newer one, whatever restarted, reconnected, moved or was published
\* between the look and the write; except an engine that had reported a failed write.
CompletesWhenRunning ==
    [][\A g \in Groups, v \in Versions :
          (rollouts[g][v].state # "completed" /\ rollouts'[g][v].state = "completed")
            => \A e \in driving[g].vouched : running[e].version >= v]_vars

\* The controller ticks for ever, time passes and its transactions end: what it can do to a group
\* it does.
Fairness == \A g \in Groups : WF_vars(Control(g))
FairSpec == Spec /\ Fairness

\* No rollout stays in canary, verifying or rolling for ever: it completes, halts or is
\* superseded, whatever the engines do.
RolloutsSettle ==
    \A g \in Groups, v \in Versions : []<>(rollouts[g][v].state \notin Active)

\* Who may be given a version: the whole group once its rollout rolled, its canaries before.
Audience ==
    [g \in Groups |-> [v \in Versions |->
        IF v \in released[g] THEN Engines ELSE rollouts[g][v].canaries]]

TheFleet == INSTANCE Fleet WITH newest <- version, audience <- Audience

\* Publishing, the controller, the streams and the engines together do what Fleet promises: no
\* snapshot reaches a further engine once its group has a newer one, whatever is superseded,
\* paused, resumed, moved, halted or late, and engines only run what they were given.
ImplementsFleet == TheFleet!FleetSpec
----------------------------------------------------------------------------
(* Why the safety properties hold: the parts of an inductive invariant.       *)

\* The newest snapshot of a group has a rollout that is neither superseded nor rolled back.
NewestIsLive(g) ==
    \E n \in Versions :
        /\ n <= version
        /\ rollouts[g][n].state \notin {"none", "superseded", "rolled_back"}
        /\ \A w \in Versions : w > n => rollouts[g][w] = NoRow /\ content[g][w] = NoContent

\* A pending rollout is a change without canaries yet; it shares the group with another open
\* rollout only while the pause holds it.
PendingWaits(g) ==
    \A v \in Versions : rollouts[g][v].state = "pending" =>
        /\ rollouts[g][v].kind = "change"
        /\ rollouts[g][v].canaries = {}
        /\ \A w \in Versions :
             (w # v /\ rollouts[g][w].state \in Open) => rollouts[g][w].state \in Active /\ paused[g]

\* What rolls or completed was released, and the stable version completed.
ReleasedIsKept(g) ==
    /\ \A v \in Versions : rollouts[g][v].state \in {"rolling", "completed"} => v \in released[g]
    /\ stable[g] \in Versions
    /\ rollouts[g][stable[g]].state = "completed"

\* What the controller decided still fits the rollout, whose group's row it has locked: an open row
\* moves on, becomes active only in a group that is not paused, gets its canaries only as it starts,
\* and completes only from rolling.
DecisionFits(g) ==
    LET d == driving[g]
        r == rollouts[g][d.version]
    IN  d # NoDrive =>
          /\ r.state \in Open
          /\ r.canaries \subseteq d.row.canaries
          /\ d.row.state \in Active \cup {"completed", "halted"}
          /\ d.row.state \in Active => ~paused[g]
          /\ d.row.state = "completed" => r.state = "rolling"
          /\ d.row.state \in Active => r.state # "rolling"
          /\ d.row.state = "canary" => r.state = "pending"
          /\ d.row.state # "canary" => d.row.canaries = r.canaries

\* What a publish took for the group's stable version completed.
ReadCompleted(g) ==
    seen[g] # Unread => /\ seen[g] \in Versions
                        /\ rollouts[g][seen[g]].state = "completed"

\* Engine e may know version v of its group, or its group has a newer one (v is from an older
\* group of e).
Cleared(e, v) ==
    LET g == engineGroup[e]
    IN  v = 0 \/ /\ v \in 1..version
                 /\ \/ v \in released[g]
                    \/ e \in rollouts[g][v].canaries
                    \/ \E w \in Versions : w > v /\ rollouts[g][w] # NoRow

EngineIsCleared(e) ==
    \A v \in {out[e].version, wire[e].version, running[e].version, disk[e].version,
              reply[e].version, applied[e]} : Cleared(e, v)

\* What every step preserves, from which the safety properties of rollouts follow.
RolloutInv ==
    /\ TypeOK
    /\ \A g \in Groups :
         /\ NewestIsLive(g) /\ PendingWaits(g) /\ ReleasedIsKept(g)
         /\ DecisionFits(g) /\ ReadCompleted(g)
    /\ \A e \in Engines : EngineIsCleared(e)
    /\ OneActiveRollout
    /\ StableIsNewestCompleted
    /\ PausedHoldsChanges
    /\ CanaryContainment

\* Only the group's newest snapshot waits for its release.
AwaitingIsNewest(g) ==
    \A v, w \in Versions :
        rollouts[g][v].state \in {"pending", "canary", "verifying"} /\ rollouts[g][w] # NoRow => w <= v

\* A group's rollouts are of its snapshots, and every snapshot has one.
RowsAreSnapshots(g) ==
    \A v \in Versions :
        /\ rollouts[g][v] # NoRow <=> content[g][v] # NoContent
        /\ v \in released[g] => content[g][v] # NoContent

\* What every step preserves in addition, from which the refinement of Fleet follows.
FleetInv ==
    /\ \A g \in Groups : AwaitingIsNewest(g) /\ RowsAreSnapshots(g)
    /\ move # NoMove => content[move.group][move.from] # NoContent
----------------------------------------------------------------------------
(* What the documentation and comments say of rollouts and the code does not  *)
(* keep.  TLC refutes RollbackIsTarget and PausedChangesWait with the         *)
(* constants of MCRolloutLive.cfg, TargetIsOwnGroup and MoveCopiesStable with *)
(* those of MCRolloutMove.cfg, and OnTargetIsRecorded with those of           *)
(* MCRolloutFaults.cfg.                                                       *)

\* operations.md: a rollback goes "to the whole group at once" and "While paused, new changes wait
\* in pending". So while a rollback is rolling it is what every engine of the group should run.
RollbackIsTarget ==
    \A e \in Engines, v \in Versions :
        LET r == rollouts[engineGroup[e]][v]
        IN  (r.kind = "rollback" /\ r.state = "rolling") => Target(e) = v

\* operations.md: "While paused, new changes wait in `pending`", unless they bring a group back to
\* its stable content. But a publish compares with the stable version it read before it locked the
\* group: when the rollback completes in between, the content it rolled back from starts at once.
PausedChangesWait ==
    \A g \in Groups, v \in Versions :
        LET r == rollouts[g][v]
        IN  (paused[g] /\ r.kind = "change" /\ r.state \in Active)
                => content[g][v] = content[g][stable[g]]

\* UpdateEngine's comment: the new group's snapshot "is copied into a new version rolled out at
\* once". So an engine on its target's version runs its own group's snapshot of it.
TargetIsOwnGroup ==
    \A e \in Engines :
        (running[e] # Nothing /\ running[e].version = Target(e))
            => running[e].group = engineGroup[e]

\* operations.md: "Moving an engine to another group republishes that group's stable snapshot".
MoveCopiesStable ==
    [][(UpdateEngineCommit /\ version' # version)
          => content'[move.group][version'] = content[move.group][stable[move.group]]]_vars

\* operations.md: `current` is "applied its target version", `behind` is "connected, not yet on
\* its target version". So a connected engine that runs its target, with nothing left in flight,
\* is recorded as having applied it.
OnTargetIsRecorded ==
    \A e \in Engines :
        LET quiet == out[e] = Nothing /\ wire[e] = Nothing /\ reply[e] = NoReply
        IN  (stream[e] /\ quiet /\ running[e].version = Target(e))
                => applied[e] = running[e].version
============================================================================
