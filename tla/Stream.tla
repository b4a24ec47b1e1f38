------------------------------- MODULE Stream -------------------------------
(* The control streams of one engine, read by read.                           *)
(*                                                                            *)
(* Each stream has a handler (Connect) that claims the engine's row, loads    *)
(* the engine's target and offers it, and each management instance has a hub  *)
(* loop that loads and offers targets when a rollout changes. They share the  *)
(* stream's one-slot queue. A target is loaded by two queries, and anything   *)
(* may be committed between them or before the result is used. The engine     *)
(* may open a stream before the handler of its previous one notices the end.  *)
(*                                                                            *)
(* Rollouts of the engine's group are what this engine can tell of them: the  *)
(* newest one and whether it is for this engine.                              *)
EXTENDS Integers

CONSTANTS
    Instances,      \* management instances, each with a hub
    NoInstance,
    MaxVersion,     \* bound: the newest config version
    MaxSessions     \* bound: streams that the engine opens

ASSUME ConstantsAssumption ==
    /\ NoInstance \notin Instances
    /\ \A i \in Instances : i \notin Int
    /\ MaxVersion \in Nat \ {0}
    /\ MaxSessions \in Nat \ {0}

Versions == 1..MaxVersion
Sessions == 1..MaxSessions

\* What one slot of a queue or of the network holds: a snapshot is its version.
Empty == 0
VersionAhead == -1
Message == Versions \cup {Empty, VersionAhead}

\* Applied or Rejected, on its way to the handler.
Reply == [type : {"none", "applied", "rejected"}, version : 0..MaxVersion]
NoReply == [type |-> "none", version |-> 0]

\* The newest rollout: held (pending, or in canary or verifying without this engine), for this
\* engine (rolling, completed, or it is a canary), or halted.
Rollout == [version : Versions, state : {"held", "for", "halted"}]

\* Who loads targets: the handler of a stream, the hub loop of an instance.
Loaders == Sessions \cup Instances
View == [stable : 0..MaxVersion, applied : 0..MaxVersion]
NoView == [stable |-> 0, applied |-> 0]

HandlerSteps == {"unused", "hello", "fence", "row", "rollouts", "offer", "mark", "tell", "up",
                 "ending", "closed"}
HubSteps == {"idle", "row", "rollouts", "offer"}

VARIABLES
    newest,     \* the newest rollout that is not superseded
    stable,     \* engine_groups.stable_version
    owner,      \* engines.connection_session (0 is NULL)
    applied,    \* engines.applied_version
    rejected,   \* engines.rejected_version (0 is NULL)
    ahead,      \* engines.version_ahead
    notified    \* nexora_rollout notifications that wait at each instance

VARIABLES
    at,         \* the instance of each stream
    step,       \* what the handler of each stream does next
    hello,      \* Hello.applied_version
    seen,       \* subscriber.version: the highest version sent, applied or rejected
    knows,      \* subscriber.engineGroupID is set
    out,        \* subscriber.out
    wire,       \* sent to the engine, not handled by it
    reply       \* sent by the engine, not handled by receive

VARIABLES
    latest,     \* Hub.latest, and Hub.subs: the engine's stream that each hub serves (0 is none)
    hubStep,    \* what each hub loop does next
    hubSub,     \* the subscriber that it captured
    view,       \* the engine's row as each loader read it
    target,     \* the target as each loader computed it
    current,    \* the stream that the engine uses (0 is none)
    running     \* the version of the engine's runtime

rolloutVars == <<newest, stable, notified>>
rowVars == <<owner, applied, rejected, ahead>>
streamVars == <<at, step, hello, seen, knows, out, wire, reply>>
hubVars == <<latest, hubStep, hubSub>>
loadVars == <<view, target>>
engineVars == <<current, running>>
vars == <<rolloutVars, rowVars, streamVars, hubVars, loadVars, engineVars>>

TypeOK ==
    /\ newest \in Rollout
    /\ stable \in 0..MaxVersion
    /\ owner \in 0..MaxSessions
    /\ applied \in 0..MaxVersion
    /\ rejected \in 0..MaxVersion
    /\ ahead \in BOOLEAN
    /\ notified \in [Instances -> BOOLEAN]
    /\ at \in [Sessions -> Instances \cup {NoInstance}]
    /\ step \in [Sessions -> HandlerSteps]
    /\ hello \in [Sessions -> 0..MaxVersion]
    /\ seen \in [Sessions -> 0..MaxVersion]
    /\ knows \in [Sessions -> BOOLEAN]
    /\ out \in [Sessions -> Message]
    /\ wire \in [Sessions -> Message]
    /\ reply \in [Sessions -> Reply]
    /\ latest \in [Instances -> 0..MaxSessions]
    /\ hubStep \in [Instances -> HubSteps]
    /\ hubSub \in [Instances -> 0..MaxSessions]
    /\ view \in [Loaders -> View]
    /\ target \in [Loaders -> 0..MaxVersion]
    /\ current \in 0..MaxSessions
    /\ running \in 0..MaxVersion

\* An enrolled engine without a stream. It may run what was sent on an earlier stream, and the
\* stream may have broken before that was recorded.
Init ==
    /\ newest \in Rollout
    /\ stable \in 1..newest.version
    /\ stable = newest.version => newest.state = "for"
    /\ owner = 0
    /\ running \in 0..newest.version
    /\ running = newest.version => newest.state # "held"
    /\ applied \in 0..running
    /\ rejected = 0
    /\ ahead = FALSE
    /\ notified = [i \in Instances |-> FALSE]
    /\ at = [s \in Sessions |-> NoInstance]
    /\ step = [s \in Sessions |-> "unused"]
    /\ hello = [s \in Sessions |-> 0]
    /\ seen = [s \in Sessions |-> 0]
    /\ knows = [s \in Sessions |-> FALSE]
    /\ out = [s \in Sessions |-> Empty]
    /\ wire = [s \in Sessions |-> Empty]
    /\ reply = [s \in Sessions |-> NoReply]
    /\ latest = [i \in Instances |-> 0]
    /\ hubStep = [i \in Instances |-> "idle"]
    /\ hubSub = [i \in Instances |-> 0]
    /\ view = [l \in Loaders |-> NoView]
    /\ target = [l \in Loaders |-> 0]
    /\ current = 0
----------------------------------------------------------------------------
(* Rollouts of the group. Every change of one notifies nexora_rollout.        *)

Notify == notified' = [i \in Instances |-> TRUE]

Publish(state) ==
    /\ newest.version < MaxVersion
    /\ newest' = [version |-> newest.version + 1, state |-> state]
    /\ Notify
    /\ UNCHANGED <<stable, rowVars, streamVars, hubVars, loadVars, engineVars>>

\* The controller lets the rollout through to this engine, or halts it.
RolloutMoves(state) ==
    /\ \/ newest.state = "held" /\ state \in {"for", "halted"}
       \/ newest.state = "for" /\ state = "halted" /\ stable # newest.version
    /\ newest' = [newest EXCEPT !.state = state]
    /\ Notify
    /\ UNCHANGED <<stable, rowVars, streamVars, hubVars, loadVars, engineVars>>

\* The rollout completes once every connected engine applied its version.
RolloutCompletes ==
    /\ newest.state = "for"
    /\ owner = 0 \/ applied >= newest.version
    /\ stable # newest.version
    /\ stable' = newest.version
    /\ Notify
    /\ UNCHANGED <<newest, rowVars, streamVars, hubVars, loadVars, engineVars>>
----------------------------------------------------------------------------
(* fleet.Targets: one query reads the engine with its group's stable version, *)
(* the next one the newest rollouts.                                          *)

Target(v) ==
    IF \/ newest.state = "for"
       \/ newest.state = "halted" /\ v.applied = newest.version
    THEN newest.version ELSE v.stable

Row == [stable |-> stable, applied |-> applied]

LoadRow(l) ==
    /\ view' = [view EXCEPT ![l] = Row]
    /\ UNCHANGED target

LoadRollouts(l) ==
    /\ target' = [target EXCEPT ![l] = Target(view[l])]
    /\ view' = [view EXCEPT ![l] = NoView]

\* Mutant: any other target is queued, an older one too.
OfferAnyTarget(s, v) ==
    /\ knows' = [knows EXCEPT ![s] = TRUE]
    /\ seen' = [seen EXCEPT ![s] = IF v > 0 THEN v ELSE @]
    /\ out' = [out EXCEPT ![s] = IF v > 0 /\ v # seen[s] THEN v ELSE @]

\* offerTarget and subscriber.offer, under the subscriber's mutex.
Offer(s, v) ==
    /\ knows' = [knows EXCEPT ![s] = TRUE]
    /\ seen' = [seen EXCEPT ![s] = IF v > @ THEN v ELSE @]
    /\ out' = [out EXCEPT ![s] = IF v > seen[s] THEN v ELSE @]
----------------------------------------------------------------------------
(* The handler of a stream.                                                   *)

Goes(s, to) == step' = [step EXCEPT ![s] = to]

\* Mutant: the version that the engine runs is not said.
OpenStreamForgetting(s, i) ==
    /\ current = 0
    /\ step[s] = "unused"
    /\ \A r \in Sessions : r < s => step[r] # "unused"
    /\ current' = s
    /\ at' = [at EXCEPT ![s] = i]
    /\ Goes(s, "hello")
    /\ UNCHANGED <<rolloutVars, rowVars, hello, seen, knows, out, wire, reply, hubVars, loadVars, running>>

\* The engine opens a stream to an instance and says which version it runs.
OpenStream(s, i) ==
    /\ current = 0
    /\ step[s] = "unused"
    /\ \A r \in Sessions : r < s => step[r] # "unused"
    /\ current' = s
    /\ at' = [at EXCEPT ![s] = i]
    /\ hello' = [hello EXCEPT ![s] = running]
    /\ seen' = [seen EXCEPT ![s] = running]
    /\ Goes(s, "hello")
    /\ UNCHANGED <<rolloutVars, rowVars, knows, out, wire, reply, hubVars, loadVars, running>>

\* registerConnection: the row names this stream, and the hub serves it instead of an older one.
Claim(s) ==
    /\ step[s] = "hello"
    /\ owner' = s
    /\ latest' = [latest EXCEPT ![at[s]] = s]
    /\ Goes(s, "fence")
    /\ UNCHANGED <<rolloutVars, applied, rejected, ahead, at, hello, seen, knows, out, wire, reply,
                   hubStep, hubSub, loadVars, engineVars>>

\* The TLS registration rechecks that the row still names this stream.
RegisterTLS(s) ==
    /\ step[s] = "fence"
    /\ Goes(s, IF owner = s THEN "row" ELSE "ending")
    /\ UNCHANGED <<rolloutVars, rowVars, at, hello, seen, knows, out, wire, reply, hubVars, loadVars, engineVars>>

HandlerLoadsRow(s) ==
    /\ step[s] = "row"
    /\ LoadRow(s)
    /\ Goes(s, "rollouts")
    /\ UNCHANGED <<rolloutVars, rowVars, at, hello, seen, knows, out, wire, reply, hubVars, engineVars>>

HandlerLoadsRollouts(s) ==
    /\ step[s] = "rollouts"
    /\ LoadRollouts(s)
    /\ Goes(s, "offer")
    /\ UNCHANGED <<rolloutVars, rowVars, at, hello, seen, knows, out, wire, reply, hubVars, engineVars>>

HandlerOffers(s) ==
    /\ step[s] = "offer"
    /\ Offer(s, target[s])
    /\ Goes(s, IF target[s] > 0 /\ hello[s] > target[s] THEN "mark" ELSE "up")
    /\ target' = [target EXCEPT ![s] = 0]
    /\ UNCHANGED <<rolloutVars, rowVars, at, hello, wire, reply, hubVars, view, engineVars>>

\* The engine runs a version above its target: its row is marked, then it is told.
MarkAhead(s) ==
    /\ step[s] = "mark"
    /\ IF owner = s THEN ahead' = TRUE /\ Goes(s, "tell")
                    ELSE UNCHANGED ahead /\ Goes(s, "ending")
    /\ UNCHANGED <<rolloutVars, owner, applied, rejected, at, hello, seen, knows, out, wire, reply,
                   hubVars, loadVars, engineVars>>

\* subscriber.send replaces whatever waits in the queue.
TellAhead(s) ==
    /\ step[s] = "tell"
    /\ out' = [out EXCEPT ![s] = VersionAhead]
    /\ Goes(s, "up")
    /\ UNCHANGED <<rolloutVars, rowVars, at, hello, seen, knows, wire, reply, hubVars, loadVars, engineVars>>

Send(s) ==
    /\ step[s] = "up"
    /\ current = s
    /\ out[s] # Empty
    /\ wire[s] = Empty
    /\ wire' = [wire EXCEPT ![s] = out[s]]
    /\ out' = [out EXCEPT ![s] = Empty]
    /\ UNCHANGED <<rolloutVars, rowVars, at, step, hello, seen, knows, reply, hubVars, loadVars, engineVars>>

\* Mutant: the answer is recorded whichever stream the row names.
HandleReplyUnfenced(s) ==
    LET r == reply[s]
    IN  /\ step[s] = "up"
        /\ r # NoReply
        /\ reply' = [reply EXCEPT ![s] = NoReply]
        /\ seen' = [seen EXCEPT ![s] = IF r.version > @ THEN r.version ELSE @]
        /\ IF r.type = "applied"
           THEN /\ applied' = r.version
                /\ ahead' = FALSE
                /\ rejected' = IF rejected <= r.version THEN 0 ELSE rejected
           ELSE /\ rejected' = r.version
                /\ UNCHANGED <<applied, ahead>>
        /\ Notify
        /\ UNCHANGED <<newest, stable, owner, at, step, hello, knows, out, wire, hubVars, loadVars, engineVars>>

\* receive: what the engine did is recorded if the row still names this stream; if not the stream ends.
HandleReply(s) ==
    LET r == reply[s]
        recorded == owner = s
    IN  /\ step[s] = "up"
        /\ r # NoReply
        /\ reply' = [reply EXCEPT ![s] = NoReply]
        /\ seen' = [seen EXCEPT ![s] = IF r.version > @ THEN r.version ELSE @]
        /\ IF recorded /\ r.type = "applied"
           THEN /\ applied' = r.version
                /\ ahead' = FALSE
                /\ rejected' = IF rejected <= r.version THEN 0 ELSE rejected
           ELSE /\ rejected' = IF recorded THEN r.version ELSE rejected
                /\ UNCHANGED <<applied, ahead>>
        /\ IF recorded THEN Notify /\ UNCHANGED step ELSE Goes(s, "ending") /\ UNCHANGED notified
        /\ UNCHANGED <<newest, stable, owner, at, hello, knows, out, wire, hubVars, loadVars, engineVars>>

\* Mutant: Stats are recorded whichever stream the row names.
StatsUnfenced(s) ==
    /\ step[s] = "up"
    /\ current = s
    /\ owner # s
    /\ UNCHANGED vars

\* The engine's periodic Stats find that another stream claimed the row, or cleared it.
StatsSuperseded(s) ==
    /\ step[s] = "up"
    /\ current = s
    /\ owner # s
    /\ Goes(s, "ending")
    /\ UNCHANGED <<rolloutVars, rowVars, at, hello, seen, knows, out, wire, reply, hubVars, loadVars, engineVars>>

\* The handler notices that the transport is gone.
HandlerCancelled(s) ==
    /\ step[s] \notin {"unused", "ending", "closed"}
    /\ current # s
    /\ Goes(s, "ending")
    /\ UNCHANGED <<rolloutVars, rowVars, at, hello, seen, knows, out, wire, reply, hubVars, loadVars, engineVars>>

\* The subscriber and what the handler held are garbage.
Forgotten(s) ==
    /\ at' = [at EXCEPT ![s] = NoInstance]
    /\ hello' = [hello EXCEPT ![s] = 0]
    /\ seen' = [seen EXCEPT ![s] = 0]
    /\ knows' = [knows EXCEPT ![s] = FALSE]
    /\ out' = [out EXCEPT ![s] = Empty]
    /\ wire' = [wire EXCEPT ![s] = Empty]
    /\ reply' = [reply EXCEPT ![s] = NoReply]
    /\ view' = [view EXCEPT ![s] = NoView]
    /\ target' = [target EXCEPT ![s] = 0]

\* Mutant: the row is not cleared.
UnregisterOnly(s) ==
    /\ step[s] = "ending"
    /\ Goes(s, "closed")
    /\ latest' = [i \in Instances |-> IF latest[i] = s THEN 0 ELSE latest[i]]
    /\ current' = IF current = s THEN 0 ELSE current
    /\ Forgotten(s)
    /\ UNCHANGED <<rolloutVars, rowVars, hubStep, hubSub, running>>

\* unregisterConnection and the end of the stream: the row is cleared if this was the hub's stream of
\* the engine and the row still names it.
Unregister(s) ==
    /\ step[s] = "ending"
    /\ Goes(s, "closed")
    /\ latest' = [i \in Instances |-> IF latest[i] = s THEN 0 ELSE latest[i]]
    /\ owner' = IF latest[at[s]] = s /\ owner = s THEN 0 ELSE owner
    /\ current' = IF current = s THEN 0 ELSE current
    /\ Forgotten(s)
    /\ UNCHANGED <<rolloutVars, applied, rejected, ahead, hubStep, hubSub, running>>
----------------------------------------------------------------------------
(* The hub loop of an instance.                                               *)

Captures(i) ==
    /\ hubStep' = [hubStep EXCEPT ![i] = "row"]
    /\ hubSub' = [hubSub EXCEPT ![i] = latest[i]]

\* A notification names the group: a stream is pushed to once its group is known.
HubWakes(i) ==
    /\ hubStep[i] = "idle"
    /\ notified[i]
    /\ notified' = [notified EXCEPT ![i] = FALSE]
    /\ IF latest[i] # 0 /\ knows[latest[i]] THEN Captures(i) ELSE UNCHANGED <<hubStep, hubSub>>
    /\ UNCHANGED <<newest, stable, rowVars, streamVars, latest, loadVars, engineVars>>

\* pushAll: the safety interval passed without a notification.
HubResyncs(i) ==
    /\ hubStep[i] = "idle"
    /\ ~notified[i]
    /\ latest[i] # 0
    /\ Captures(i)
    /\ UNCHANGED <<rolloutVars, rowVars, streamVars, latest, loadVars, engineVars>>

\* The listening connection broke: what was notified meanwhile is lost.
HubLosesNotifications(i) ==
    /\ hubStep[i] = "idle"
    /\ notified[i]
    /\ notified' = [notified EXCEPT ![i] = FALSE]
    /\ UNCHANGED <<newest, stable, rowVars, streamVars, hubVars, loadVars, engineVars>>

HubLoadsRow(i) ==
    /\ hubStep[i] = "row"
    /\ LoadRow(i)
    /\ hubStep' = [hubStep EXCEPT ![i] = "rollouts"]
    /\ UNCHANGED <<rolloutVars, rowVars, streamVars, latest, hubSub, engineVars>>

HubLoadsRollouts(i) ==
    /\ hubStep[i] = "rollouts"
    /\ LoadRollouts(i)
    /\ hubStep' = [hubStep EXCEPT ![i] = "offer"]
    /\ UNCHANGED <<rolloutVars, rowVars, streamVars, latest, hubSub, engineVars>>

HubOffers(i) ==
    /\ hubStep[i] = "offer"
    /\ IF step[hubSub[i]] = "closed" THEN UNCHANGED <<knows, seen, out>>
                                     ELSE Offer(hubSub[i], target[i])
    /\ hubStep' = [hubStep EXCEPT ![i] = "idle"]
    /\ hubSub' = [hubSub EXCEPT ![i] = 0]
    /\ target' = [target EXCEPT ![i] = 0]
    /\ UNCHANGED <<rolloutVars, rowVars, at, step, hello, wire, reply, latest, view, engineVars>>
----------------------------------------------------------------------------
(* The engine.                                                                *)

Answers(s, type) ==
    /\ reply[s] = NoReply
    /\ reply' = [reply EXCEPT ![s] = [type |-> type, version |-> wire[s]]]
    /\ wire' = [wire EXCEPT ![s] = Empty]
    /\ UNCHANGED <<rolloutVars, rowVars, at, step, hello, seen, knows, out, hubVars, loadVars, current>>

ApplySnapshot(s) ==
    /\ current = s
    /\ wire[s] \in Versions
    /\ wire[s] > running
    /\ running' = wire[s]
    /\ Answers(s, "applied")

\* Not newer, not valid, or a blob it names could not be fetched.
RejectSnapshot(s) ==
    /\ current = s
    /\ wire[s] \in Versions
    /\ Answers(s, "rejected")
    /\ UNCHANGED running

LogAhead(s) ==
    /\ current = s
    /\ wire[s] = VersionAhead
    /\ wire' = [wire EXCEPT ![s] = Empty]
    /\ UNCHANGED <<rolloutVars, rowVars, at, step, hello, seen, knows, out, reply, hubVars, loadVars, engineVars>>

\* The transport breaks; what the engine had sent may still be read by the handler.
Break(s) ==
    /\ current = s
    /\ current' = 0
    /\ wire' = [wire EXCEPT ![s] = Empty]
    /\ UNCHANGED <<rolloutVars, rowVars, at, step, hello, seen, knows, out, reply, hubVars, loadVars, running>>
----------------------------------------------------------------------------
Rollouts ==
    \/ \E state \in {"held", "for"} : Publish(state)
    \/ \E state \in {"for", "halted"} : RolloutMoves(state)
    \/ RolloutCompletes

Handler(s) ==
    \/ Claim(s)
    \/ RegisterTLS(s)
    \/ HandlerLoadsRow(s)
    \/ HandlerLoadsRollouts(s)
    \/ HandlerOffers(s)
    \/ MarkAhead(s)
    \/ TellAhead(s)
    \/ HandlerCancelled(s)
    \/ Unregister(s)

Hub(i) ==
    \/ HubWakes(i)
    \/ HubResyncs(i)
    \/ HubLoadsRow(i)
    \/ HubLoadsRollouts(i)
    \/ HubOffers(i)

Engine(s) ==
    \/ ApplySnapshot(s)
    \/ RejectSnapshot(s)
    \/ LogAhead(s)

Next ==
    \/ Rollouts
    \/ \E s \in Sessions :
         \/ \E i \in Instances : OpenStream(s, i)
         \/ Handler(s)
         \/ Send(s)
         \/ HandleReply(s)
         \/ StatsSuperseded(s)
         \/ Engine(s)
         \/ Break(s)
    \/ \E i \in Instances : Hub(i) \/ HubLosesNotifications(i)

Spec == Init /\ [][Next]_vars

\* Every goroutine goes on, the engine reads its stream and sends Stats for ever, and the hub
\* resynchronizes after each safety interval. Nobody has to publish, step or reconnect.
Fairness ==
    /\ \A s \in Sessions :
         /\ WF_vars(Handler(s))
         /\ WF_vars(Send(s))
         /\ WF_vars(HandleReply(s))
         /\ WF_vars(StatsSuperseded(s))
         /\ WF_vars(Engine(s))
    /\ \A i \in Instances : WF_vars(Hub(i))

FairSpec == Spec /\ Fairness
----------------------------------------------------------------------------
(* Properties.                                                                *)

\* Whatever the handler and the hubs of several instances load and offer concurrently, and however
\* old what they loaded is, the engine is only sent versions above the one it runs, in order.
SentInOrder ==
    \A s \in Sessions :
        /\ out[s] \in Versions => out[s] = seen[s] /\ out[s] > wire[s]
        /\ (current = s /\ out[s] \in Versions) => out[s] > running
        /\ (current = s /\ wire[s] \in Versions) => wire[s] > running

\* The row never names a stream that its hub no longer serves, in whatever order handlers of old and
\* new streams claim it and clean up: no engine is shown as connected by a stream that is gone.
OwnerIsServed ==
    owner # 0 => at[owner] \in Instances /\ latest[at[owner]] = owner

\* A late answer of an old stream never overwrites what a newer one recorded: the engine only moves to
\* newer versions while it runs, and so does its row.
AppliedNeverRegresses ==
    [][applied' >= applied]_vars

\* The target is above what the connected engine runs, and the engine did not reject it.
Behind ==
    /\ current # 0
    /\ Target(Row) > running
    /\ rejected < Target(Row)

\* A connected engine does not stay behind its target for ever, unless it is flagged version_ahead:
\* no notification, no change between the two queries and no claim by an old stream makes it miss
\* its target for good.
CatchesUp == []<>~(Behind /\ ~ahead)

----------------------------------------------------------------------------
(* Why the safety properties hold: the parts of an inductive invariant.       *)

\* Nothing travels on a stream before its loops run.
QuietUntilUp(s) ==
    /\ step[s] = "unused" => out[s] = Empty
    /\ step[s] \notin {"up", "ending"} => wire[s] = Empty /\ reply[s] = NoReply

\* subscriber.version bounds what the stream carried and, while the engine uses it, what it runs.
SeenIsHighest(s) ==
    /\ wire[s] <= seen[s]
    /\ reply[s].version <= seen[s]
    /\ current = s => running <= seen[s]

\* An open stream has an instance; a hub serves a stream of its own that claimed the row.
StreamsArePlaced ==
    /\ \A s \in Sessions : step[s] \notin {"unused", "closed"} => at[s] \in Instances
    /\ current # 0 => step[current] \notin {"unused", "closed"}
    /\ \A i \in Instances : latest[i] # 0 =>
         at[latest[i]] = i /\ step[latest[i]] \notin {"unused", "hello", "closed"}

\* A hub that loads targets does so for a stream that was opened.
HubsHaveStreams ==
    \A i \in Instances : hubStep[i] # "idle" => hubSub[i] # 0 /\ step[hubSub[i]] # "unused"

\* The engine runs what its row says or newer, and so does what the row's stream has to report.
RowLagsEngine ==
    /\ applied <= running
    /\ \A s \in Sessions : reply[s].type = "applied" =>
         /\ reply[s].version <= running
         /\ owner = s => applied <= reply[s].version

\* What every step preserves.
StreamInv ==
    /\ TypeOK
    /\ \A s \in Sessions : QuietUntilUp(s) /\ SeenIsHighest(s)
    /\ StreamsArePlaced
    /\ HubsHaveStreams
    /\ RowLagsEngine
    /\ SentInOrder
    /\ OwnerIsServed
----------------------------------------------------------------------------
(* What a comment says and the code does not keep: TLC refutes it under       *)
(* FairSpec with one instance, one session and three versions.                *)

\* Hub's comment: it "pushes each engine its target version (fleet.TargetFor) whenever a rollout of
\* its engine group changes". So no connected engine stays behind its target for ever.
AlwaysCatchesUp == []<>~Behind
============================================================================
