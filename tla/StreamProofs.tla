---------------------------- MODULE StreamProofs ----------------------------
(* The invariant of Stream, for any number of instances, streams and          *)
(* versions, and the safety properties that follow from it.                   *)
EXTENDS Stream, TLAPS

\* The parts of StreamInv that say how streams, rows and the engine relate.
Core ==
    /\ \A s \in Sessions : QuietUntilUp(s) /\ SeenIsHighest(s)
    /\ StreamsArePlaced
    /\ RowLagsEngine
    /\ SentInOrder
    /\ OwnerIsServed

\* What the steps below use of the types.
LEMMA Types ==
    ASSUME TypeOK
    PROVE  /\ \A s \in Sessions : /\ s # 0
                                  /\ seen[s] \in Nat
                                  /\ wire[s] \in Int
                                  /\ out[s] \in Int
                                  /\ reply[s].version \in Nat
           /\ \A v \in Versions : v \in Nat /\ v > 0
           /\ Empty \notin Versions /\ VersionAhead \notin Versions
           /\ applied \in Nat /\ running \in Nat
           /\ current # 0 => current \in Sessions
           /\ owner # 0 => owner \in Sessions
           /\ \A i \in Instances : /\ latest[i] # 0 => latest[i] \in Sessions
                                   /\ hubSub[i] # 0 => hubSub[i] \in Sessions
<1>1. \A s \in Sessions : /\ s # 0
                          /\ seen[s] \in Nat
                          /\ reply[s].version \in Nat
  BY ConstantsAssumption DEF TypeOK, Sessions, Reply
<1>2. \A s \in Sessions : wire[s] \in Int /\ out[s] \in Int
  BY ConstantsAssumption DEF TypeOK, Message, Versions, Empty, VersionAhead
<1>3. /\ \A v \in Versions : v \in Nat /\ v > 0
      /\ Empty \notin Versions /\ VersionAhead \notin Versions
      /\ applied \in Nat /\ running \in Nat
  BY ConstantsAssumption DEF TypeOK, Versions, Empty, VersionAhead
<1>4. /\ current # 0 => current \in Sessions
      /\ owner # 0 => owner \in Sessions
      /\ \A i \in Instances : /\ latest[i] # 0 => latest[i] \in Sessions
                              /\ hubSub[i] # 0 => hubSub[i] \in Sessions
  BY ConstantsAssumption DEF TypeOK, Sessions
<1>. QED
  BY <1>1, <1>2, <1>3, <1>4

\* A step that leaves streams, rows, latest and the engine alone keeps how they relate.
LEMMA Frame ==
    ASSUME Core, UNCHANGED <<owner, applied, at, step, seen, out, wire, reply, latest, engineVars>>
    PROVE  Core'
BY DEF Core, QuietUntilUp, SeenIsHighest, StreamsArePlaced, RowLagsEngine, SentInOrder, OwnerIsServed,
       engineVars, Versions, Empty

\* The handler of an open stream goes on, from where the loops run only to where they end.
LEMMA HandlerGoes ==
    ASSUME TypeOK, Core, NEW s \in Sessions, NEW to,
           step[s] \notin {"unused", "closed"}, to \notin {"unused", "hello", "closed"},
           step[s] \in {"up", "ending"} => to \in {"up", "ending"},
           step' = [step EXCEPT ![s] = to],
           UNCHANGED <<owner, applied, at, seen, out, wire, reply, latest, engineVars>>
    PROVE  Core'
<1>1. \A r \in Sessions : step'[r] = IF r = s THEN to ELSE step[r]
  BY DEF TypeOK
<1>2. \A r \in Sessions : QuietUntilUp(r)' /\ SeenIsHighest(r)'
  BY <1>1 DEF Core, QuietUntilUp, SeenIsHighest, engineVars
<1>3. StreamsArePlaced'
  BY <1>1, Types DEF Core, StreamsArePlaced, engineVars
<1>4. RowLagsEngine' /\ SentInOrder' /\ OwnerIsServed'
  BY DEF Core, RowLagsEngine, SentInOrder, OwnerIsServed, engineVars, Versions
<1>. QED
  BY <1>2, <1>3, <1>4 DEF Core

\* An offer to an open stream, by its handler or by a hub.
LEMMA OfferKeeps ==
    ASSUME TypeOK, Core, NEW s \in Sessions, NEW v \in 0..MaxVersion, Offer(s, v), NEW to,
           step[s] \notin {"unused", "closed"}, to \notin {"unused", "closed"},
           to = "hello" => step[s] = "hello",
           step[s] \in {"up", "ending"} => to \in {"up", "ending"},
           step' = [step EXCEPT ![s] = to],
           UNCHANGED <<owner, applied, at, wire, reply, latest, engineVars>>
    PROVE  Core'
<1>1. \A r \in Sessions : step'[r] = IF r = s THEN to ELSE step[r]
  BY DEF TypeOK
<1>2. \A r \in Sessions : /\ seen'[r] = IF r = s /\ v > seen[r] THEN v ELSE seen[r]
                          /\ out'[r] = IF r = s /\ v > seen[r] THEN v ELSE out[r]
  BY DEF TypeOK, Offer
<1>3. v > seen[s] => v \in Versions
  BY ConstantsAssumption, Types DEF Versions
<1>4. v \in Int
  OBVIOUS
<1>5. \A r \in Sessions : QuietUntilUp(r)'
  BY <1>1, <1>2 DEF Core, QuietUntilUp
<1>6. \A r \in Sessions : SeenIsHighest(r)'
  BY <1>2, <1>4, Types DEF Core, SeenIsHighest, engineVars
<1>7. StreamsArePlaced'
  BY <1>1, Types DEF Core, StreamsArePlaced, engineVars
<1>8. RowLagsEngine' /\ OwnerIsServed'
  BY DEF Core, RowLagsEngine, OwnerIsServed, engineVars
<1>9. SentInOrder'
  BY <1>2, <1>4, Types DEF Core, SeenIsHighest, SentInOrder, engineVars, Versions
<1>. QED
  BY <1>5, <1>6, <1>7, <1>8, <1>9 DEF Core

LEMMA OpenStreamKeeps ==
    ASSUME TypeOK, Core, NEW s \in Sessions, NEW i \in Instances, OpenStream(s, i)
    PROVE  Core'
<1>1. \A r \in Sessions : /\ step'[r] = IF r = s THEN "hello" ELSE step[r]
                          /\ at'[r] = IF r = s THEN i ELSE at[r]
                          /\ seen'[r] = IF r = s THEN running ELSE seen[r]
  BY DEF TypeOK, OpenStream, Goes
<1>2. /\ UNCHANGED <<owner, applied, out, wire, reply, latest, running>>
      /\ current' = s
      /\ step[s] = "unused"
  BY DEF OpenStream, rowVars, hubVars
<1>3. out[s] = Empty /\ wire[s] = Empty /\ reply[s] = NoReply
  BY <1>2 DEF Core, QuietUntilUp
<1>4. \A r \in Sessions : QuietUntilUp(r)'
  BY <1>1, <1>2, <1>3 DEF Core, QuietUntilUp
<1>5. \A r \in Sessions : SeenIsHighest(r)'
  BY <1>1, <1>2, <1>3, Types DEF Core, SeenIsHighest, Empty, NoReply
<1>6. StreamsArePlaced'
  BY <1>1, <1>2, Types DEF Core, StreamsArePlaced
<1>7. RowLagsEngine'
  BY <1>2 DEF Core, RowLagsEngine
<1>8. SentInOrder'
  BY <1>1, <1>2, <1>3, Types DEF Core, SentInOrder
<1>9. OwnerIsServed'
  BY <1>1, <1>2, Types DEF Core, StreamsArePlaced, OwnerIsServed
<1>. QED
  BY <1>4, <1>5, <1>6, <1>7, <1>8, <1>9 DEF Core

LEMMA ClaimKeeps ==
    ASSUME TypeOK, Core, NEW s \in Sessions, Claim(s)
    PROVE  Core'
<1>1. \A r \in Sessions : step'[r] = IF r = s THEN "fence" ELSE step[r]
  BY DEF TypeOK, Claim, Goes
<1>2. /\ UNCHANGED <<applied, at, seen, out, wire, reply, engineVars>>
      /\ owner' = s
      /\ step[s] = "hello"
  BY DEF Claim
<1>3. at[s] \in Instances /\ reply[s] = NoReply
  BY <1>2 DEF Core, StreamsArePlaced, QuietUntilUp
<1>4. \A i \in Instances : latest'[i] = IF i = at[s] THEN s ELSE latest[i]
  BY <1>3 DEF TypeOK, Claim
<1>5. \A r \in Sessions : QuietUntilUp(r)' /\ SeenIsHighest(r)'
  BY <1>1, <1>2 DEF Core, QuietUntilUp, SeenIsHighest, engineVars
<1>6. StreamsArePlaced'
  BY <1>1, <1>2, <1>3, <1>4, Types DEF Core, StreamsArePlaced, engineVars
<1>7. RowLagsEngine'
  BY <1>2, <1>3 DEF Core, RowLagsEngine, engineVars, NoReply
<1>8. SentInOrder'
  BY <1>2 DEF Core, SentInOrder, engineVars, Versions
<1>9. OwnerIsServed'
  BY <1>2, <1>3, <1>4 DEF OwnerIsServed
<1>. QED
  BY <1>5, <1>6, <1>7, <1>8, <1>9 DEF Core

LEMMA TellAheadKeeps ==
    ASSUME TypeOK, Core, NEW s \in Sessions, TellAhead(s)
    PROVE  Core'
<1>1. \A r \in Sessions : /\ step'[r] = IF r = s THEN "up" ELSE step[r]
                          /\ out'[r] = IF r = s THEN VersionAhead ELSE out[r]
  BY DEF TypeOK, TellAhead, Goes
<1>2. /\ UNCHANGED <<owner, applied, at, seen, wire, reply, latest, engineVars>>
      /\ step[s] = "tell"
  BY DEF TellAhead, rowVars, hubVars
<1>3. \A r \in Sessions : QuietUntilUp(r)' /\ SeenIsHighest(r)'
  BY <1>1, <1>2 DEF Core, QuietUntilUp, SeenIsHighest, engineVars
<1>4. StreamsArePlaced'
  BY <1>1, <1>2, Types DEF Core, StreamsArePlaced, engineVars
<1>5. RowLagsEngine' /\ OwnerIsServed'
  BY <1>2 DEF Core, RowLagsEngine, OwnerIsServed, engineVars
<1>6. SentInOrder'
  BY <1>1, <1>2, Types DEF Core, SentInOrder, engineVars
<1>. QED
  BY <1>3, <1>4, <1>5, <1>6 DEF Core

LEMMA SendKeeps ==
    ASSUME TypeOK, Core, NEW s \in Sessions, Send(s)
    PROVE  Core'
<1>1. \A r \in Sessions : /\ wire'[r] = IF r = s THEN out[s] ELSE wire[r]
                          /\ out'[r] = IF r = s THEN Empty ELSE out[r]
  BY DEF TypeOK, Send
<1>2. /\ UNCHANGED <<owner, applied, at, step, seen, reply, latest, engineVars>>
      /\ step[s] = "up" /\ current = s
  BY DEF Send, rowVars, hubVars
<1>3. out[s] \in Versions \/ out[s] <= 0
  BY ConstantsAssumption DEF TypeOK, Message, Empty, VersionAhead
<1>4. \A r \in Sessions : QuietUntilUp(r)'
  BY <1>1, <1>2 DEF Core, QuietUntilUp
<1>5. \A r \in Sessions : SeenIsHighest(r)'
  BY <1>1, <1>2, <1>3, Types DEF Core, SeenIsHighest, SentInOrder, engineVars
<1>6. StreamsArePlaced' /\ RowLagsEngine' /\ OwnerIsServed'
  BY <1>2 DEF Core, StreamsArePlaced, RowLagsEngine, OwnerIsServed, engineVars
<1>7. SentInOrder'
  BY <1>1, <1>2, Types DEF Core, SentInOrder, engineVars
<1>. QED
  BY <1>4, <1>5, <1>6, <1>7 DEF Core

\* A report is recorded by the stream that the row names, whose report is the newest there is.
LEMMA HandleReplyKeeps ==
    ASSUME TypeOK, Core, NEW s \in Sessions, HandleReply(s)
    PROVE  Core' /\ applied' >= applied
<1>1. /\ UNCHANGED <<owner, at, out, wire, latest, engineVars>>
      /\ step[s] = "up"
  BY DEF HandleReply, hubVars
<1>2. \A r \in Sessions : reply'[r] = IF r = s THEN NoReply ELSE reply[r]
  BY DEF TypeOK, HandleReply
<1>3. reply[s].version <= seen[s] /\ reply[s].version \in Nat /\ seen[s] \in Nat
  BY Types DEF Core, SeenIsHighest
<1>4. seen' = seen
  BY <1>3 DEF TypeOK, HandleReply
<1>5. \/ step' = step
      \/ step' = [step EXCEPT ![s] = "ending"]
  BY DEF HandleReply, Goes
<1>6. \A r \in Sessions : \/ step'[r] = step[r]
                          \/ r = s /\ step'[r] = "ending"
  BY <1>5 DEF TypeOK
<1>7. \/ applied' = applied
      \/ owner = s /\ reply[s].type = "applied" /\ applied' = reply[s].version
  BY DEF HandleReply
<1>8. applied' >= applied /\ applied' <= running
  BY <1>7, Types DEF Core, RowLagsEngine
<1>9. \A r \in Sessions : QuietUntilUp(r)'
  BY <1>1, <1>2, <1>6 DEF Core, QuietUntilUp
<1>10. \A r \in Sessions : SeenIsHighest(r)'
  BY <1>1, <1>2, <1>3, <1>4 DEF Core, SeenIsHighest, NoReply, engineVars
<1>11. StreamsArePlaced'
  BY <1>1, <1>6, Types DEF Core, StreamsArePlaced, engineVars
<1>12. RowLagsEngine'
  BY <1>1, <1>2, <1>7, <1>8 DEF Core, RowLagsEngine, NoReply, engineVars
<1>13. SentInOrder' /\ OwnerIsServed'
  BY <1>1, <1>4 DEF Core, SentInOrder, OwnerIsServed, engineVars, Versions
<1>. QED
  BY <1>8, <1>9, <1>10, <1>11, <1>12, <1>13 DEF Core

LEMMA UnregisterKeeps ==
    ASSUME TypeOK, Core, NEW s \in Sessions, Unregister(s)
    PROVE  Core'
<1>1. \A r \in Sessions : /\ step'[r] = IF r = s THEN "closed" ELSE step[r]
                          /\ at'[r] = IF r = s THEN NoInstance ELSE at[r]
                          /\ seen'[r] = IF r = s THEN 0 ELSE seen[r]
                          /\ out'[r] = IF r = s THEN Empty ELSE out[r]
                          /\ wire'[r] = IF r = s THEN Empty ELSE wire[r]
                          /\ reply'[r] = IF r = s THEN NoReply ELSE reply[r]
  BY DEF TypeOK, Unregister, Goes, Forgotten
<1>2. /\ UNCHANGED <<applied, running>>
      /\ current' = IF current = s THEN 0 ELSE current
      /\ owner' = IF latest[at[s]] = s /\ owner = s THEN 0 ELSE owner
      /\ \A i \in Instances : latest'[i] = IF latest[i] = s THEN 0 ELSE latest[i]
      /\ step[s] = "ending"
  BY DEF Unregister
<1>3. owner' # s /\ current' # s
  BY <1>2, Types DEF Core, OwnerIsServed
<1>4. \A r \in Sessions : QuietUntilUp(r)'
  BY <1>1 DEF Core, QuietUntilUp
<1>5. \A r \in Sessions : SeenIsHighest(r)'
  BY <1>1, <1>2, <1>3, Types DEF Core, SeenIsHighest, Empty, NoReply
<1>6. StreamsArePlaced'
  BY <1>1, <1>2, <1>3, Types DEF Core, StreamsArePlaced
<1>7. RowLagsEngine'
  BY <1>1, <1>2, Types DEF Core, RowLagsEngine, NoReply
<1>8. SentInOrder'
  BY <1>1, <1>2, <1>3, Types DEF Core, SentInOrder
<1>9. OwnerIsServed'
  BY <1>1, <1>2, <1>3, Types DEF Core, OwnerIsServed
<1>. QED
  BY <1>4, <1>5, <1>6, <1>7, <1>8, <1>9 DEF Core

\* The engine answers what it was sent, having swapped it in or not.
LEMMA AnswersKeep ==
    ASSUME TypeOK, Core, NEW s \in Sessions, ApplySnapshot(s) \/ RejectSnapshot(s)
    PROVE  Core'
<1>1. PICK type \in {"applied", "rejected"} :
         /\ Answers(s, type)
         /\ type = "applied" => wire[s] > running /\ running' = wire[s]
         /\ type = "rejected" => running' = running
  BY DEF ApplySnapshot, RejectSnapshot
<1>2. \A r \in Sessions :
         /\ wire'[r] = IF r = s THEN Empty ELSE wire[r]
         /\ reply'[r] = IF r = s THEN [type |-> type, version |-> wire[s]] ELSE reply[r]
  BY <1>1 DEF TypeOK, Answers
<1>3. /\ UNCHANGED <<owner, applied, at, step, seen, out, latest, current>>
      /\ current = s /\ wire[s] \in Versions
  BY <1>1 DEF Answers, ApplySnapshot, RejectSnapshot, rowVars, hubVars
<1>4. step[s] \in {"up", "ending"}
  BY <1>3, Types DEF Core, QuietUntilUp
<1>5. running' >= running /\ running' \in Nat
  BY <1>1, <1>3, Types
<1>6. \A r \in Sessions : QuietUntilUp(r)'
  BY <1>2, <1>3, <1>4 DEF Core, QuietUntilUp
<1>7. \A r \in Sessions : SeenIsHighest(r)'
  BY <1>1, <1>2, <1>3, Types DEF Core, SeenIsHighest, Empty
<1>8. StreamsArePlaced' /\ OwnerIsServed'
  BY <1>3 DEF Core, StreamsArePlaced, OwnerIsServed
<1>9. RowLagsEngine'
  BY <1>1, <1>2, <1>3, <1>5, Types DEF Core, RowLagsEngine
<1>10. SentInOrder'
  BY <1>1, <1>2, <1>3, Types DEF Core, SentInOrder, Empty
<1>. QED
  BY <1>6, <1>7, <1>8, <1>9, <1>10 DEF Core

\* What is on the wire is taken off it, by the engine that logs it or by a broken transport.
LEMMA WireEmptied ==
    ASSUME TypeOK, Core, NEW s \in Sessions, LogAhead(s) \/ Break(s)
    PROVE  Core'
<1>1. \A r \in Sessions : wire'[r] = IF r = s THEN Empty ELSE wire[r]
  BY DEF TypeOK, LogAhead, Break
<1>2. /\ UNCHANGED <<owner, applied, at, step, seen, out, reply, latest, running>>
      /\ current' \in {0, current}
  BY DEF LogAhead, Break, rowVars, hubVars, engineVars
<1>3. \A r \in Sessions : QuietUntilUp(r)'
  BY <1>1, <1>2 DEF Core, QuietUntilUp
<1>4. \A r \in Sessions : SeenIsHighest(r)'
  BY <1>1, <1>2, Types DEF Core, SeenIsHighest, Empty
<1>5. StreamsArePlaced' /\ RowLagsEngine' /\ OwnerIsServed'
  BY <1>2 DEF Core, StreamsArePlaced, RowLagsEngine, OwnerIsServed
<1>6. SentInOrder'
  BY <1>1, <1>2, Types DEF Core, SentInOrder, Empty
<1>. QED
  BY <1>3, <1>4, <1>5, <1>6 DEF Core

-----------------------------------------------------------------------------
\* A loader's target is a version, or 0.
LEMMA TargetType ==
    ASSUME TypeOK, NEW v \in View
    PROVE  Target(v) \in 0..MaxVersion
BY ConstantsAssumption DEF TypeOK, Rollout, View, Target, Versions

LEMMA LoadTypes ==
    ASSUME TypeOK, NEW l \in Loaders, LoadRow(l) \/ LoadRollouts(l)
    PROVE  view' \in [Loaders -> View] /\ target' \in [Loaders -> 0..MaxVersion]
<1>1. Row \in View /\ NoView \in View
  BY ConstantsAssumption DEF TypeOK, Row, NoView, View
<1>2. Target(view[l]) \in 0..MaxVersion
  BY TargetType DEF TypeOK
<1>. QED
  BY <1>1, <1>2 DEF TypeOK, LoadRow, LoadRollouts

LEMMA OfferTypes ==
    ASSUME TypeOK, NEW s \in Sessions, NEW v \in 0..MaxVersion, Offer(s, v)
    PROVE  /\ knows' \in [Sessions -> BOOLEAN]
           /\ seen' \in [Sessions -> 0..MaxVersion]
           /\ out' \in [Sessions -> Message]
<1>1. v > seen[s] => v \in Message
  BY ConstantsAssumption DEF TypeOK, Message, Versions
<1>. QED
  BY <1>1 DEF TypeOK, Offer

LEMMA RolloutsTypes ==
    ASSUME TypeOK, Rollouts
    PROVE  TypeOK'
<1>1. /\ UNCHANGED <<rowVars, streamVars, hubVars, loadVars, engineVars>>
      /\ Notify
  BY DEF Rollouts, Publish, RolloutMoves, RolloutCompletes
<1>2. newest' \in Rollout /\ stable' \in 0..MaxVersion
  <2>1. CASE \E state \in {"held", "for"} : Publish(state)
    BY <2>1, ConstantsAssumption DEF TypeOK, Publish, Rollout, Versions
  <2>2. CASE \E state \in {"for", "halted"} : RolloutMoves(state)
    BY <2>2 DEF TypeOK, RolloutMoves, Rollout
  <2>3. CASE RolloutCompletes
    BY <2>3, ConstantsAssumption DEF TypeOK, RolloutCompletes, Rollout, Versions
  <2>. QED
    BY <2>1, <2>2, <2>3 DEF Rollouts
<1>3. notified' \in [Instances -> BOOLEAN]
  BY <1>1 DEF Notify
<1>. QED
  BY <1>1, <1>2, <1>3 DEF TypeOK, rowVars, streamVars, hubVars, loadVars, engineVars

LEMMA HandlerTypes ==
    ASSUME TypeOK, Core, NEW s \in Sessions, Handler(s)
    PROVE  TypeOK'
<1>. USE DEF TypeOK, Goes, HandlerSteps, rolloutVars, rowVars, streamVars, hubVars, loadVars, engineVars
<1>1. s \in Loaders /\ s \in 0..MaxSessions
  BY DEF Loaders, Sessions
<1>2. CASE Claim(s)
  <2>1. at[s] \in Instances
    BY <1>2 DEF Core, StreamsArePlaced, Claim
  <2>. QED
    BY <1>1, <1>2, <2>1 DEF Claim
<1>3. CASE HandlerLoadsRow(s)
  BY <1>1, <1>3, LoadTypes DEF HandlerLoadsRow
<1>4. CASE HandlerLoadsRollouts(s)
  BY <1>1, <1>4, LoadTypes DEF HandlerLoadsRollouts
<1>5. CASE HandlerOffers(s)
  <2>1. target[s] \in 0..MaxVersion
    BY <1>1
  <2>2. target' \in [Loaders -> 0..MaxVersion]
    BY <1>1, <1>5, ConstantsAssumption DEF HandlerOffers
  <2>3. step' \in [Sessions -> HandlerSteps]
    BY <1>5 DEF HandlerOffers
  <2>4. /\ knows' \in [Sessions -> BOOLEAN]
        /\ seen' \in [Sessions -> 0..MaxVersion]
        /\ out' \in [Sessions -> Message]
    BY <1>5, <2>1, OfferTypes DEF HandlerOffers
  <2>. QED
    BY <1>5, <2>2, <2>3, <2>4 DEF HandlerOffers
<1>6. CASE MarkAhead(s) \/ RegisterTLS(s)
  BY <1>6 DEF MarkAhead, RegisterTLS
<1>7. CASE TellAhead(s)
  BY <1>7 DEF TellAhead, Message
<1>8. CASE HandlerCancelled(s)
  BY <1>8 DEF HandlerCancelled
<1>9. CASE Unregister(s)
  <2>1. /\ Empty \in Message /\ NoReply \in Reply /\ NoView \in View
        /\ 0 \in 0..MaxVersion /\ 0 \in 0..MaxSessions
    BY ConstantsAssumption DEF Message, Empty, NoReply, Reply, NoView, View
  <2>2. /\ at' \in [Sessions -> Instances \cup {NoInstance}]
        /\ hello' \in [Sessions -> 0..MaxVersion]
        /\ seen' \in [Sessions -> 0..MaxVersion]
        /\ knows' \in [Sessions -> BOOLEAN]
        /\ out' \in [Sessions -> Message]
        /\ wire' \in [Sessions -> Message]
        /\ reply' \in [Sessions -> Reply]
        /\ view' \in [Loaders -> View]
        /\ target' \in [Loaders -> 0..MaxVersion]
    BY <1>1, <1>9, <2>1 DEF Unregister, Forgotten
  <2>3. latest' \in [Instances -> 0..MaxSessions]
    BY <1>9, <2>1 DEF Unregister
  <2>. QED
    BY <1>9, <2>1, <2>2, <2>3 DEF Unregister
<1>. QED
  BY <1>2, <1>3, <1>4, <1>5, <1>6, <1>7, <1>8, <1>9 DEF Handler

LEMMA StreamTypes ==
    ASSUME TypeOK, NEW s \in Sessions,
           \/ \E i \in Instances : OpenStream(s, i)
           \/ Send(s)
           \/ HandleReply(s)
           \/ StatsSuperseded(s)
           \/ Engine(s)
           \/ Break(s)
    PROVE  TypeOK'
<1>. USE DEF TypeOK, Goes, HandlerSteps, rolloutVars, rowVars, streamVars, hubVars, loadVars, engineVars
<1>1. /\ s \in 0..MaxSessions /\ 0 \in 0..MaxSessions /\ 0 \in 0..MaxVersion
      /\ Empty \in Message /\ NoReply \in Reply
  BY ConstantsAssumption DEF Sessions, Message, Empty, NoReply, Reply
<1>2. CASE \E i \in Instances : OpenStream(s, i)
  BY <1>1, <1>2 DEF OpenStream
<1>3. CASE Send(s)
  BY <1>1, <1>3 DEF Send
<1>4. CASE HandleReply(s)
  <2>1. reply[s].version \in 0..MaxVersion
    BY DEF Reply
  <2>2. /\ applied' \in 0..MaxVersion
        /\ rejected' \in 0..MaxVersion
        /\ ahead' \in BOOLEAN
    BY <1>1, <1>4, <2>1 DEF HandleReply
  <2>3. /\ reply' \in [Sessions -> Reply]
        /\ seen' \in [Sessions -> 0..MaxVersion]
    BY <1>1, <1>4, <2>1 DEF HandleReply
  <2>4. notified' \in [Instances -> BOOLEAN] /\ step' \in [Sessions -> HandlerSteps]
    BY <1>4 DEF HandleReply, Notify
  <2>. QED
    BY <1>4, <2>2, <2>3, <2>4 DEF HandleReply
<1>5. CASE StatsSuperseded(s)
  BY <1>5 DEF StatsSuperseded
<1>6. CASE ApplySnapshot(s) \/ RejectSnapshot(s)
  <2>1. wire[s] \in 0..MaxVersion /\ running' \in 0..MaxVersion
    BY <1>6, ConstantsAssumption DEF ApplySnapshot, RejectSnapshot, Versions
  <2>2. PICK type \in {"applied", "rejected"} : Answers(s, type)
    BY <1>6 DEF ApplySnapshot, RejectSnapshot
  <2>3. [type |-> type, version |-> wire[s]] \in Reply
    BY <2>1 DEF Reply
  <2>4. reply' \in [Sessions -> Reply] /\ wire' \in [Sessions -> Message]
    BY <1>1, <2>2, <2>3 DEF Answers
  <2>. QED
    BY <2>1, <2>2, <2>4 DEF Answers
<1>7. CASE LogAhead(s)
  BY <1>1, <1>7 DEF LogAhead
<1>8. CASE Break(s)
  BY <1>1, <1>8 DEF Break
<1>. QED
  BY <1>2, <1>3, <1>4, <1>5, <1>6, <1>7, <1>8 DEF Engine

LEMMA HubTypes ==
    ASSUME TypeOK, HubsHaveStreams, NEW i \in Instances, Hub(i) \/ HubLosesNotifications(i)
    PROVE  TypeOK'
<1>. USE DEF TypeOK, HubSteps, rolloutVars, rowVars, streamVars, hubVars, loadVars, engineVars
<1>1. i \in Loaders /\ 0 \in 0..MaxSessions /\ 0 \in 0..MaxVersion
  BY ConstantsAssumption DEF Loaders
<1>2. CASE HubWakes(i)
  BY <1>2 DEF HubWakes, Captures
<1>3. CASE HubResyncs(i)
  BY <1>3 DEF HubResyncs, Captures
<1>4. CASE HubLosesNotifications(i)
  BY <1>4 DEF HubLosesNotifications
<1>5. CASE HubLoadsRow(i)
  BY <1>1, <1>5, LoadTypes DEF HubLoadsRow
<1>6. CASE HubLoadsRollouts(i)
  BY <1>1, <1>6, LoadTypes DEF HubLoadsRollouts
<1>7. CASE HubOffers(i)
  <2>1. hubSub[i] \in Sessions /\ target[i] \in 0..MaxVersion
    BY <1>1, <1>7, Types DEF HubOffers, HubsHaveStreams
  <2>2. /\ knows' \in [Sessions -> BOOLEAN]
        /\ seen' \in [Sessions -> 0..MaxVersion]
        /\ out' \in [Sessions -> Message]
    BY <1>7, <2>1, OfferTypes DEF HubOffers
  <2>3. /\ hubStep' \in [Instances -> HubSteps]
        /\ hubSub' \in [Instances -> 0..MaxSessions]
        /\ target' \in [Loaders -> 0..MaxVersion]
    BY <1>1, <1>7 DEF HubOffers
  <2>. QED
    BY <1>7, <2>2, <2>3 DEF HubOffers
<1>. QED
  BY <1>2, <1>3, <1>4, <1>5, <1>6, <1>7 DEF Hub

-----------------------------------------------------------------------------
\* A step that leaves the hubs alone and never makes a stream unused again keeps what hubs captured.
LEMMA HubsKept ==
    ASSUME TypeOK, HubsHaveStreams, UNCHANGED <<hubStep, hubSub>>,
           \A r \in Sessions : step[r] # "unused" => step'[r] # "unused"
    PROVE  HubsHaveStreams'
BY Types DEF HubsHaveStreams

\* The steps of rollouts and hubs.
LEMMA SharedSteps ==
    ASSUME TypeOK, Core, HubsHaveStreams,
           Rollouts \/ \E i \in Instances : Hub(i) \/ HubLosesNotifications(i)
    PROVE  Core' /\ HubsHaveStreams' /\ applied' = applied
<1>1. CASE Rollouts
  <2>1. UNCHANGED <<rowVars, streamVars, hubVars, engineVars>>
    BY <1>1 DEF Rollouts, Publish, RolloutMoves, RolloutCompletes
  <2>2. UNCHANGED <<owner, applied, at, step, seen, out, wire, reply, latest, hubStep, hubSub, engineVars>>
    BY <2>1 DEF rowVars, streamVars, hubVars
  <2>. QED
    BY <2>2, Frame, HubsKept
<1>2. ASSUME NEW i \in Instances, HubWakes(i) \/ HubResyncs(i) \/ HubLosesNotifications(i)
      PROVE  Core' /\ HubsHaveStreams' /\ applied' = applied
  <2>1. UNCHANGED <<owner, applied, at, step, seen, out, wire, reply, latest, engineVars>>
    BY <1>2 DEF HubWakes, HubResyncs, HubLosesNotifications, rowVars, streamVars, hubVars
  <2>2. \/ UNCHANGED <<hubStep, hubSub>>
        \/ Captures(i) /\ latest[i] # 0
    BY <1>2 DEF HubWakes, HubResyncs, HubLosesNotifications, hubVars
  <2>3. HubsHaveStreams'
    BY <2>1, <2>2, Types DEF TypeOK, Core, StreamsArePlaced, HubsHaveStreams, Captures
  <2>. QED
    BY <2>1, <2>3, Frame
<1>3. ASSUME NEW i \in Instances, HubLoadsRow(i) \/ HubLoadsRollouts(i)
      PROVE  Core' /\ HubsHaveStreams' /\ applied' = applied
  <2>1. UNCHANGED <<owner, applied, at, step, seen, out, wire, reply, latest, hubSub, engineVars>>
    BY <1>3 DEF HubLoadsRow, HubLoadsRollouts, rowVars, streamVars
  <2>2. /\ hubStep[i] # "idle"
        /\ \A j \in Instances : j # i => hubStep'[j] = hubStep[j]
    BY <1>3 DEF TypeOK, HubLoadsRow, HubLoadsRollouts
  <2>3. HubsHaveStreams'
    BY <2>1, <2>2 DEF HubsHaveStreams
  <2>. QED
    BY <2>1, <2>3, Frame
<1>4. ASSUME NEW i \in Instances, HubOffers(i)
      PROVE  Core' /\ HubsHaveStreams' /\ applied' = applied
  <2>1. /\ UNCHANGED <<owner, applied, at, step, wire, reply, latest, engineVars>>
        /\ hubStep[i] = "offer"
    BY <1>4 DEF HubOffers, rowVars
  <2>2. hubSub[i] \in Sessions /\ step[hubSub[i]] # "unused" /\ target[i] \in 0..MaxVersion
    BY <2>1, Types, ConstantsAssumption DEF TypeOK, HubsHaveStreams, Loaders
  <2>3. HubsHaveStreams'
    BY <1>4, <2>1 DEF TypeOK, HubsHaveStreams, HubOffers
  <2>4. CASE step[hubSub[i]] = "closed"
    BY <1>4, <2>1, <2>3, <2>4, Frame DEF HubOffers
  <2>5. CASE step[hubSub[i]] # "closed"
    <3>1. Offer(hubSub[i], target[i])
      BY <1>4, <2>5 DEF HubOffers
    <3>2. step' = [step EXCEPT ![hubSub[i]] = step[hubSub[i]]]
      BY <2>1, <2>2 DEF TypeOK
    <3>. QED
      BY <2>1, <2>2, <2>3, <2>5, <3>1, <3>2, OfferKeeps
  <2>. QED
    BY <2>4, <2>5
<1>. QED
  BY <1>1, <1>2, <1>3, <1>4 DEF Hub

\* The steps of one stream and of the engine on it.
LEMMA SessionSteps ==
    ASSUME TypeOK, Core, HubsHaveStreams, NEW s \in Sessions,
           \/ \E i \in Instances : OpenStream(s, i)
           \/ Handler(s)
           \/ Send(s)
           \/ HandleReply(s)
           \/ StatsSuperseded(s)
           \/ Engine(s)
           \/ Break(s)
    PROVE  Core' /\ HubsHaveStreams' /\ applied' >= applied
<1>1. applied \in Nat
  BY Types
<1>2. CASE \E i \in Instances : OpenStream(s, i)
  <2>1. Core' /\ applied' = applied
    BY <1>2, OpenStreamKeeps DEF OpenStream, rowVars
  <2>2. HubsHaveStreams'
    BY <1>2, HubsKept DEF TypeOK, OpenStream, Goes, hubVars
  <2>. QED
    BY <1>1, <2>1, <2>2
<1>3. CASE Claim(s)
  <2>1. Core' /\ applied' = applied
    BY <1>3, ClaimKeeps DEF Claim
  <2>2. HubsHaveStreams'
    BY <1>3, HubsKept DEF TypeOK, Claim, Goes
  <2>. QED
    BY <1>1, <2>1, <2>2
<1>4. CASE \/ RegisterTLS(s) \/ HandlerLoadsRow(s) \/ HandlerLoadsRollouts(s) \/ MarkAhead(s)
           \/ HandlerCancelled(s) \/ StatsSuperseded(s)
  <2>1. PICK to \in {"row", "rollouts", "offer", "tell", "ending"} :
           /\ step' = [step EXCEPT ![s] = to]
           /\ step[s] \in {"up", "ending"} => to = "ending"
    BY <1>4 DEF RegisterTLS, HandlerLoadsRow, HandlerLoadsRollouts, MarkAhead, HandlerCancelled,
                StatsSuperseded, Goes
  <2>2. /\ step[s] \notin {"unused", "closed"}
        /\ UNCHANGED <<owner, applied, at, seen, out, wire, reply, latest, hubStep, hubSub, engineVars>>
    BY <1>4 DEF RegisterTLS, HandlerLoadsRow, HandlerLoadsRollouts, MarkAhead, HandlerCancelled,
                StatsSuperseded, rowVars, hubVars
  <2>3. Core'
    BY <2>1, <2>2, HandlerGoes
  <2>4. HubsHaveStreams'
    BY <2>1, <2>2, HubsKept DEF TypeOK
  <2>. QED
    BY <1>1, <2>2, <2>3, <2>4
<1>5. CASE HandlerOffers(s)
  <2>1. PICK to \in {"mark", "up"} : step' = [step EXCEPT ![s] = to]
    BY <1>5 DEF HandlerOffers, Goes
  <2>2. /\ step[s] = "offer" /\ Offer(s, target[s])
        /\ UNCHANGED <<owner, applied, at, wire, reply, latest, hubStep, hubSub, engineVars>>
    BY <1>5 DEF HandlerOffers, rowVars, hubVars
  <2>3. target[s] \in 0..MaxVersion
    BY DEF TypeOK, Loaders
  <2>4. Core'
    BY <2>1, <2>2, <2>3, OfferKeeps
  <2>5. HubsHaveStreams'
    BY <2>1, <2>2, HubsKept DEF TypeOK
  <2>. QED
    BY <1>1, <2>2, <2>4, <2>5
<1>6. CASE TellAhead(s)
  <2>1. Core' /\ applied' = applied
    BY <1>6, TellAheadKeeps DEF TellAhead, rowVars
  <2>2. HubsHaveStreams'
    BY <1>6, HubsKept DEF TypeOK, TellAhead, Goes, hubVars
  <2>. QED
    BY <1>1, <2>1, <2>2
<1>7. CASE Unregister(s)
  <2>1. Core' /\ applied' = applied
    BY <1>7, UnregisterKeeps DEF Unregister
  <2>2. HubsHaveStreams'
    BY <1>7, HubsKept DEF TypeOK, Unregister, Goes
  <2>. QED
    BY <1>1, <2>1, <2>2
<1>8. CASE HandleReply(s)
  <2>1. HubsHaveStreams'
    BY <1>8, HubsKept DEF TypeOK, HandleReply, Goes, hubVars
  <2>. QED
    BY <1>8, <2>1, HandleReplyKeeps
<1>9. CASE Send(s) \/ LogAhead(s) \/ Break(s)
  <2>1. Core'
    BY <1>9, SendKeeps, WireEmptied
  <2>2. UNCHANGED <<applied, step, hubStep, hubSub>>
    BY <1>9 DEF Send, LogAhead, Break, rowVars, hubVars
  <2>. QED
    BY <1>1, <2>1, <2>2, HubsKept
<1>10. CASE ApplySnapshot(s) \/ RejectSnapshot(s)
  <2>1. Core'
    BY <1>10, AnswersKeep
  <2>2. UNCHANGED <<applied, step, hubStep, hubSub>>
    BY <1>10 DEF ApplySnapshot, RejectSnapshot, Answers, rowVars, hubVars
  <2>. QED
    BY <1>1, <2>1, <2>2, HubsKept
<1>. QED
  BY <1>2, <1>3, <1>4, <1>5, <1>6, <1>7, <1>8, <1>9, <1>10 DEF Handler, Engine
-----------------------------------------------------------------------------
LEMMA InitHolds == Init => StreamInv
<1>. SUFFICES ASSUME Init PROVE StreamInv
  OBVIOUS
<1>1. TypeOK
  <2>1. newest.version \in 1..MaxVersion
    BY DEF Init, Rollout, Versions
  <2>2. stable \in 0..MaxVersion /\ running \in 0..MaxVersion /\ applied \in 0..MaxVersion
    BY <2>1, ConstantsAssumption DEF Init
  <2>3. /\ Empty \in Message /\ NoReply \in Reply /\ NoView \in View
        /\ 0 \in 0..MaxVersion /\ 0 \in 0..MaxSessions
    BY ConstantsAssumption DEF Message, Empty, NoReply, Reply, NoView, View
  <2>. QED
    BY <2>2, <2>3 DEF Init, TypeOK, HandlerSteps, HubSteps
<1>2. \A s \in Sessions : QuietUntilUp(s) /\ SeenIsHighest(s)
  BY ConstantsAssumption DEF Init, QuietUntilUp, SeenIsHighest, Empty, NoReply, Sessions
<1>3. StreamsArePlaced /\ HubsHaveStreams /\ OwnerIsServed
  BY DEF Init, StreamsArePlaced, HubsHaveStreams, OwnerIsServed
<1>4. RowLagsEngine
  BY ConstantsAssumption DEF Init, RowLagsEngine, NoReply, Rollout, Versions
<1>5. SentInOrder
  BY Types, <1>1 DEF Init, SentInOrder
<1>. QED
  BY <1>1, <1>2, <1>3, <1>4, <1>5 DEF StreamInv

\* Each step keeps the invariant, and never takes the applied version of the row back.
LEMMA StepHolds ==
    ASSUME StreamInv, [Next]_vars
    PROVE  StreamInv' /\ applied' >= applied
<1>1. TypeOK /\ Core /\ HubsHaveStreams /\ applied \in Nat
  BY Types DEF StreamInv, Core
<1>2. CASE Next
  <2>1. TypeOK'
    BY <1>1, <1>2, RolloutsTypes, HandlerTypes, StreamTypes, HubTypes DEF Next
  <2>2. Core' /\ HubsHaveStreams' /\ applied' >= applied
    BY <1>1, <1>2, SharedSteps, SessionSteps DEF Next
  <2>. QED
    BY <2>1, <2>2 DEF StreamInv, Core
<1>3. CASE UNCHANGED vars
  <2>1. UNCHANGED <<rolloutVars, rowVars, streamVars, hubVars, loadVars, engineVars>>
    BY <1>3 DEF vars
  <2>2. TypeOK'
    BY <1>1, <2>1 DEF TypeOK, rolloutVars, rowVars, streamVars, hubVars, loadVars, engineVars
  <2>3. UNCHANGED <<owner, applied, at, step, seen, out, wire, reply, latest, hubStep, hubSub, engineVars>>
    BY <2>1 DEF rowVars, streamVars, hubVars
  <2>4. Core' /\ HubsHaveStreams' /\ applied' >= applied
    BY <1>1, <2>3, Frame, HubsKept
  <2>. QED
    BY <2>2, <2>4 DEF StreamInv, Core
<1>. QED
  BY <1>2, <1>3

\* The invariant holds for any instances, streams and versions, however the handlers' and hubs'
\* queries interleave.
THEOREM StreamInvariant == Spec => []StreamInv
<1>1. StreamInv /\ [Next]_vars => StreamInv'
  BY StepHolds
<1>. QED
  BY InitHolds, <1>1, PTL DEF Spec

\* offer and the mutex of the subscriber make concurrent loads harmless: the engine is sent only
\* newer versions, in order.
THEOREM SentInOrderHolds == Spec => []SentInOrder
<1>1. StreamInv => SentInOrder
  BY DEF StreamInv
<1>. QED
  BY StreamInvariant, <1>1, PTL

\* registerConnection and unregisterConnection never leave the row with a stream that is gone.
THEOREM OwnerIsServedHolds == Spec => []OwnerIsServed
<1>1. StreamInv => OwnerIsServed
  BY DEF StreamInv
<1>. QED
  BY StreamInvariant, <1>1, PTL

\* The session token in receive's update keeps a late answer of an old stream out of the row.
THEOREM AppliedNeverRegressesHolds == Spec => AppliedNeverRegresses
<1>1. StreamInv /\ [Next]_vars => [applied' >= applied]_vars
  BY StepHolds
<1>. QED
  BY StreamInvariant, <1>1, PTL DEF Spec, AppliedNeverRegresses
=============================================================================
