----------------------- MODULE RolloutDeliveryProofs -----------------------
(* Proofs about what Rollout's streams carry and what the management plane    *)
(* may believe of an engine, for any fleet and any faults: offers arrive in   *)
(* order, an acknowledged version survives a restart, and a rollout completes *)
(* only when the engines it counted on run it. Then what all of it comes to:  *)
(* Rollout implements Fleet.                                                  *)
EXTENDS RolloutProofs

\* subscriber.version bounds what the stream of e carried, carries or brought back, so that the
\* next target above it is news to the engine.
OfferedBounds(e) ==
    stream[e] => /\ running[e].version <= offered[e]
                 /\ wire[e].version <= offered[e]
                 /\ reply[e].version <= offered[e]

\* The stream of e is in order: OffersAreNewer for one engine.
InOrder(e) ==
    stream[e] => /\ wire[e] # Nothing => wire[e].version > running[e].version
                 /\ out[e] # Nothing => /\ out[e].version > running[e].version
                                        /\ out[e].version > wire[e].version
                                        /\ out[e].version = offered[e]

\* What e reports as persisted is on its disk, and its disk is never ahead of its runtime.
ReportsAreTrue(e) ==
    /\ disk[e].version <= running[e].version
    /\ reply[e].type = "applied" /\ ~reply[e].persistError => reply[e].version <= disk[e].version
    /\ ~persistError[e] => applied[e] <= disk[e].version

\* What every step preserves of the delivery to engines.
DeliveryInv ==
    \A e \in Engines : OfferedBounds(e) /\ InOrder(e) /\ ReportsAreTrue(e)

\* While the controller is about to write a completion, the engines it counted on keep at least
\* that version on their disks.
VouchedIsOnDisk ==
    \A g \in Groups : \A e \in driving[g].vouched :
        e \in Engines /\ disk[e].version >= driving[g].version

\* The numbers of one engine.
LEMMA EngineNumbers ==
    ASSUME TypeOK, NEW e \in Engines
    PROVE  /\ \A s \in {out[e], wire[e], running[e], disk[e]} :
                s.version \in Nat /\ (s # Nothing => s.version > 0)
           /\ offered[e] \in Nat /\ applied[e] \in Nat /\ reply[e].version \in Nat
           /\ reply[e].persistError \in BOOLEAN /\ persistError[e] \in BOOLEAN
           /\ stream[e] \in BOOLEAN
<1>1. \A s \in Snapshot \cup {Nothing} : s.version \in Nat /\ (s # Nothing => s.version > 0)
  BY ConstantsAssumption DEF Snapshot, Nothing, Versions
<1> QED
  BY <1>1, ConstantsAssumption DEF TypeOK, Reply

\* Nothing has version 0, and no reply says nothing.
LEMMA EmptyNumbers ==
    /\ Nothing.version = 0
    /\ NoReply.version = 0 /\ NoReply.type = "none"
BY DEF Nothing, NoReply

LEMMA DeliveryInit == Init => DeliveryInv
BY EmptyNumbers DEF Init, DeliveryInv, OfferedBounds, InOrder, ReportsAreTrue

\* A step that touches neither streams nor engines nor their acknowledgements.
LEMMA DeliveryKept ==
    ASSUME DeliveryInv, UNCHANGED <<streamVars, engineVars, applied, persistError>>
    PROVE  DeliveryInv'
BY DEF DeliveryInv, OfferedBounds, InOrder, ReportsAreTrue, streamVars, engineVars

\* A step of engine e leaves the others alone: it is enough to look at e.
LEMMA DeliveryOfOne ==
    ASSUME DeliveryInv, NEW e \in Engines,
           \A d \in Engines \ {e} :
             /\ stream'[d] = stream[d] /\ offered'[d] = offered[d] /\ out'[d] = out[d]
             /\ wire'[d] = wire[d] /\ reply'[d] = reply[d]
             /\ running'[d] = running[d] /\ disk'[d] = disk[d]
             /\ applied'[d] = applied[d] /\ persistError'[d] = persistError[d],
           OfferedBounds(e)' /\ InOrder(e)' /\ ReportsAreTrue(e)'
    PROVE  DeliveryInv'
<1>1. ASSUME NEW d \in Engines \ {e}
      PROVE  OfferedBounds(d)' /\ InOrder(d)' /\ ReportsAreTrue(d)'
  <2>1. OfferedBounds(d) /\ InOrder(d) /\ ReportsAreTrue(d)
    BY DEF DeliveryInv
  <2> QED
    BY <2>1 DEF OfferedBounds, InOrder, ReportsAreTrue
<1> QED
  BY <1>1 DEF DeliveryInv

\* Every step of a stream or an engine keeps the delivery in order and the reports true.
LEMMA StreamingDelivery ==
    ASSUME RolloutInv, DeliveryInv, NEW e \in Engines, Streaming(e)
    PROVE  DeliveryInv'
<1>t. TypeOK
  BY DEF RolloutInv
<1>i. OfferedBounds(e) /\ InOrder(e) /\ ReportsAreTrue(e)
  BY DEF DeliveryInv
<1>f. /\ stream \in [Engines -> BOOLEAN] /\ DOMAIN offered = Engines /\ DOMAIN out = Engines
      /\ DOMAIN wire = Engines /\ DOMAIN reply = Engines /\ DOMAIN running = Engines
      /\ DOMAIN disk = Engines /\ DOMAIN applied = Engines /\ DOMAIN persistError = Engines
  BY <1>t DEF TypeOK
<1>1. CASE RevokeEngine(e) \/ HeartbeatResumes(e)
  BY <1>1, DeliveryKept DEF RevokeEngine, HeartbeatResumes
<1>2. CASE Connect(e)
  <2>1. OfferedBounds(e)' /\ InOrder(e)' /\ ReportsAreTrue(e)'
    BY <1>2, <1>i, <1>f, <1>t, EngineNumbers, EmptyNumbers
       DEF Connect, engineVars, OfferedBounds, InOrder, ReportsAreTrue
  <2> QED
    BY <1>2, <1>f, <2>1, DeliveryOfOne DEF Connect, engineVars
<1>3. CASE Push(e)
  <2>1. Target(e) \in Nat
    BY TargetIsAllowed, ConstantsAssumption DEF Versions
  <2>2. out'[e].version = Target(e) /\ offered'[e] = Target(e)
    BY <1>3, <1>f DEF Push
  <2>3. OfferedBounds(e)' /\ InOrder(e)' /\ ReportsAreTrue(e)'
    BY <1>3, <1>i, <1>f, <1>t, <2>1, <2>2, EngineNumbers
       DEF Push, engineVars, rowVars, OfferedBounds, InOrder, ReportsAreTrue
  <2> QED
    BY <1>3, <1>f, <2>3, DeliveryOfOne DEF Push, engineVars, rowVars
<1>4. CASE Send(e)
  <2>1. OfferedBounds(e)' /\ InOrder(e)' /\ ReportsAreTrue(e)'
    BY <1>4, <1>i, <1>f, <1>t, EngineNumbers, EmptyNumbers
       DEF Send, engineVars, rowVars, OfferedBounds, InOrder, ReportsAreTrue
  <2> QED
    BY <1>4, <1>f, <2>1, DeliveryOfOne DEF Send, engineVars, rowVars
<1>5. CASE Disconnect(e)
  <2>1. OfferedBounds(e)' /\ InOrder(e)' /\ ReportsAreTrue(e)'
    BY <1>5, <1>i, <1>f DEF Disconnect, engineVars, rowVars, OfferedBounds, InOrder, ReportsAreTrue
  <2> QED
    BY <1>5, <1>f, <2>1, DeliveryOfOne DEF Disconnect, engineVars, rowVars
<1>6. CASE ConnectionLapses(e)
  <2>1. OfferedBounds(e)' /\ InOrder(e)' /\ ReportsAreTrue(e)'
    BY <1>6, <1>i, <1>f, <1>t, EngineNumbers, EmptyNumbers
       DEF ConnectionLapses, engineVars, OfferedBounds, InOrder, ReportsAreTrue
  <2> QED
    BY <1>6, <1>f, <2>1, DeliveryOfOne DEF ConnectionLapses, engineVars
<1>7. CASE HandleReply(e)
  <2>1. stream[e] => offered'[e] = offered[e]
    BY <1>7, <1>i, <1>f, <1>t, EngineNumbers DEF HandleReply, OfferedBounds
  <2>2. reply'[e] = NoReply
    BY <1>7, <1>f DEF HandleReply
  <2>3. CASE reply[e].type = "applied"
    <3>1. applied'[e] = reply[e].version /\ persistError'[e] = reply[e].persistError
      BY <1>7, <1>f, <2>3 DEF HandleReply
    <3> QED
      <4>1. OfferedBounds(e)' /\ InOrder(e)' /\ ReportsAreTrue(e)'
        BY <1>7, <1>i, <1>f, <1>t, <2>1, <2>2, <2>3, <3>1, EngineNumbers, EmptyNumbers
           DEF HandleReply, engineVars, OfferedBounds, InOrder, ReportsAreTrue
      <4> QED
        BY <1>7, <1>f, <4>1, DeliveryOfOne DEF HandleReply, engineVars
  <2>4. CASE reply[e].type # "applied"
    <3>1. applied'[e] = applied[e] /\ persistError'[e] = persistError[e]
      BY <1>7, <1>f, <2>4 DEF HandleReply
    <3>2. OfferedBounds(e)' /\ InOrder(e)' /\ ReportsAreTrue(e)'
      BY <1>7, <1>i, <1>f, <1>t, <2>1, <2>2, <3>1, EngineNumbers, EmptyNumbers
         DEF HandleReply, engineVars, OfferedBounds, InOrder, ReportsAreTrue
    <3> QED
      BY <1>7, <1>f, <3>2, DeliveryOfOne DEF HandleReply, engineVars
  <2> QED
    BY <2>3, <2>4
<1>8. ASSUME NEW written \in BOOLEAN, ApplySnapshot(e, written)
      PROVE  DeliveryInv'
  <2>1. /\ running'[e] = wire[e] /\ wire'[e] = Nothing
        /\ disk'[e] = IF written /\ disk[e].version < wire[e].version THEN wire[e] ELSE disk[e]
        /\ wire[e].version > running[e].version
        /\ UNCHANGED <<stream, offered, out, applied, persistError>>
    BY <1>8, <1>f DEF ApplySnapshot, Answers, rowVars
  <2>2. /\ reply'[e].version = wire[e].version /\ reply'[e].type = "applied"
        /\ reply'[e].persistError = ~written
    BY <1>8, <1>f DEF ApplySnapshot, Answers
  <2>3. OfferedBounds(e)' /\ InOrder(e)'
    BY <1>i, <1>t, <2>1, <2>2, EngineNumbers, EmptyNumbers DEF OfferedBounds, InOrder
  <2>4. ReportsAreTrue(e)'
    <3>1. CASE written
      BY <1>i, <1>t, <2>1, <2>2, <3>1, EngineNumbers DEF ReportsAreTrue
    <3>2. CASE ~written
      <4>1. reply'[e].persistError
        BY <2>2, <3>2, Zenon
      <4> QED
        BY <1>i, <1>t, <2>1, <3>2, <4>1, EngineNumbers DEF ReportsAreTrue
    <3> QED
      BY <3>1, <3>2
  <2> QED
    BY <1>8, <1>f, <2>3, <2>4, DeliveryOfOne DEF ApplySnapshot, Answers, rowVars
<1>9. CASE RejectSnapshot(e)
  <2>1. reply'[e].version = wire[e].version /\ reply'[e].type = "rejected" /\ wire'[e] = Nothing
    BY <1>9, <1>f DEF RejectSnapshot, Answers
  <2>2. OfferedBounds(e)' /\ InOrder(e)' /\ ReportsAreTrue(e)'
    BY <1>9, <1>i, <1>t, <2>1, EngineNumbers, EmptyNumbers
       DEF RejectSnapshot, Answers, engineVars, rowVars, OfferedBounds, InOrder, ReportsAreTrue
  <2> QED
    BY <1>9, <1>f, <2>2, DeliveryOfOne DEF RejectSnapshot, Answers, engineVars, rowVars
<1>10. CASE Restart(e)
  <2>1. OfferedBounds(e)' /\ InOrder(e)' /\ ReportsAreTrue(e)'
    BY <1>10, <1>i, <1>f, <1>t, EngineNumbers
       DEF Restart, rowVars, OfferedBounds, InOrder, ReportsAreTrue
  <2> QED
    BY <1>10, <1>f, <2>1, DeliveryOfOne DEF Restart, rowVars
<1> QED
  BY <1>1, <1>2, <1>3, <1>4, <1>5, <1>6, <1>7, <1>8, <1>9, <1>10 DEF Streaming

\* Publishing and the controller touch no stream.
LEMMA DeliveryStep ==
    ASSUME RolloutInv, DeliveryInv, [Next]_vars
    PROVE  DeliveryInv'
<1>1. CASE Publishing
  BY <1>1, DeliveryKept DEF Publishing, Mutate, UpdateEngineGroup, ResumeEngineGroupRollouts, PublishAll,
     PublishRead, PublishAbort, RollbackEngineGroup, UpdateEngineRead, UpdateEngineCommit,
     UpdateEngineAbort, rowVars
<1>2. ASSUME NEW g \in Groups, Control(g) \/ DriveFails(g)
      PROVE  DeliveryInv'
  BY <1>2, DeliveryKept DEF Control, Drive, Start, CanariesApplied, HealthPassed, Complete, Halt,
     Decides, DriveCommit, DriveFails, rowVars
<1>3. ASSUME NEW e \in Engines, Streaming(e)
      PROVE  DeliveryInv'
  BY <1>3, StreamingDelivery
<1>4. CASE UNCHANGED vars
  BY <1>4, DeliveryKept DEF vars, rowVars
<1> QED
  BY <1>1, <1>2, <1>3, <1>4 DEF Next

\* An engine the controller counts on acknowledged the version and reported no failed write.
LEMMA VouchedFacts ==
    ASSUME TypeOK, NEW g \in Groups, NEW v \in Versions, Drive(g, v)
    PROVE  \E row, vouched :
             /\ driving' = [driving EXCEPT ![g] = [version |-> v, row |-> row, vouched |-> vouched]]
             /\ \A e \in vouched : e \in Engines /\ applied[e] >= v /\ ~persistError[e]
             /\ UNCHANGED disk
<1>1. CASE Complete(g, v)
  <2>0. PICK S : S = Durable(Connected(Members(g)))
    OBVIOUS
  <2>1. \A e \in S : e \in Engines /\ ~(applied[e] < v) /\ ~persistError[e]
    BY <1>1, <2>0 DEF Complete, Unapplied, Durable, Connected, Members
  <2>2. \A e \in S : applied[e] >= v
    BY <2>1, ConstantsAssumption DEF TypeOK, Versions
  <2>3. PICK row : Decides(g, v, row, S)
    BY <1>1, <2>0 DEF Complete
  <2>4. /\ driving' = [driving EXCEPT ![g] = [version |-> v, row |-> row, vouched |-> S]]
        /\ UNCHANGED disk
    BY <2>3 DEF Decides, engineVars
  <2>5. \A e \in S : e \in Engines /\ applied[e] >= v /\ ~persistError[e]
    BY <2>1, <2>2
  <2> QED
    BY <2>4, <2>5
<1>2. CASE Start(g, v) \/ CanariesApplied(g, v) \/ HealthPassed(g, v) \/ Halt(g, v)
  <2>0. PICK S : S = {}
    OBVIOUS
  <2>1. PICK row : Decides(g, v, row, S)
    BY <1>2, <2>0 DEF Start, CanariesApplied, HealthPassed, Halt
  <2>2. /\ driving' = [driving EXCEPT ![g] = [version |-> v, row |-> row, vouched |-> S]]
        /\ UNCHANGED disk
    BY <2>1 DEF Decides, engineVars
  <2>3. \A e \in S : e \in Engines /\ applied[e] >= v /\ ~persistError[e]
    BY <2>0
  <2> QED
    BY <2>2, <2>3
<1> QED
  BY <1>1, <1>2 DEF Drive

\* A disk never goes back to an older version.
LEMMA DisksGrow ==
    ASSUME TypeOK, NEW e \in Engines, Streaming(e), NEW d \in Engines
    PROVE  disk'[d].version >= disk[d].version
<1>1. disk[d].version \in Nat
  BY EngineNumbers
<1>2. ASSUME NEW written \in BOOLEAN, ApplySnapshot(e, written)
      PROVE  disk'[d].version >= disk[d].version
  <2>1. CASE d = e
    <3>1. disk'[e] = IF written /\ disk[e].version < wire[e].version THEN wire[e] ELSE disk[e]
      BY <1>2 DEF ApplySnapshot, TypeOK
    <3> QED
      BY <1>1, <2>1, <3>1, EngineNumbers
  <2>2. CASE d # e
    BY <1>1, <1>2, <2>2 DEF ApplySnapshot, TypeOK
  <2> QED
    BY <2>1, <2>2
<1>3. CASE disk' = disk
  BY <1>1, <1>3
<1>4. disk' = disk \/ \E written \in BOOLEAN : ApplySnapshot(e, written)
  BY DEF Streaming, RevokeEngine, Connect, Push, Send, Disconnect, ConnectionLapses,
     HeartbeatResumes, HandleReply, RejectSnapshot, Restart, engineVars
<1> QED
  BY <1>2, <1>3, <1>4

\* What the controller counted on when it looked is still there when it writes.
LEMMA VouchedStep ==
    ASSUME RolloutInv, DeliveryInv, VouchedIsOnDisk, [Next]_vars
    PROVE  VouchedIsOnDisk'
<1>t. TypeOK
  BY DEF RolloutInv
<1>n. \A g \in Groups : driving[g].version \in Nat
  BY <1>t, ConstantsAssumption DEF TypeOK, Decision, NoDrive, Versions
<1>0. CASE driving' = driving /\ disk' = disk
  BY <1>0 DEF VouchedIsOnDisk
<1>1. CASE Publishing
  BY <1>0, <1>1 DEF Publishing, Mutate, UpdateEngineGroup, ResumeEngineGroupRollouts, PublishAll,
     PublishRead, PublishAbort, RollbackEngineGroup, Republish, UpdateEngineRead,
     UpdateEngineCommit, UpdateEngineAbort, engineVars
<1>2. ASSUME NEW g \in Groups, NEW v \in Versions, Drive(g, v)
      PROVE  VouchedIsOnDisk'
  <2>1. PICK row, vouched :
          /\ driving' = [driving EXCEPT ![g] = [version |-> v, row |-> row, vouched |-> vouched]]
          /\ \A e \in vouched : e \in Engines /\ applied[e] >= v /\ ~persistError[e]
          /\ UNCHANGED disk
    BY <1>2, <1>t, VouchedFacts
  <2>2. driving'[g].version = v /\ driving'[g].vouched = vouched
    BY <1>t, <2>1 DEF TypeOK
  <2>3. \A h \in Groups : h # g => driving'[h] = driving[h]
    BY <1>t, <2>1 DEF TypeOK
  <2>4. ASSUME NEW e \in vouched PROVE e \in Engines /\ disk'[e].version >= v
    <3>1. e \in Engines /\ applied[e] >= v /\ ~persistError[e] /\ disk'[e] = disk[e]
      BY <2>1
    <3>2. applied[e] <= disk[e].version
      BY <3>1 DEF DeliveryInv, ReportsAreTrue
    <3>3. applied[e] \in Nat /\ disk[e].version \in Nat /\ v \in Nat
      BY <1>t, <3>1, EngineNumbers, ConstantsAssumption DEF Versions
    <3> QED
      BY <3>1, <3>2, <3>3
  <2> QED
    BY <2>1, <2>2, <2>3, <2>4 DEF VouchedIsOnDisk
<1>3. ASSUME NEW g \in Groups, DriveCommit(g) \/ DriveFails(g)
      PROVE  VouchedIsOnDisk'
  <2>1. driving' = [driving EXCEPT ![g] = NoDrive] /\ disk' = disk
    BY <1>3 DEF DriveCommit, DriveFails, engineVars
  <2>2. /\ driving'[g] = NoDrive /\ NoDrive.vouched = {}
        /\ \A h \in Groups : h # g => driving'[h] = driving[h]
    BY <1>t, <2>1 DEF TypeOK, NoDrive
  <2> QED
    BY <2>1, <2>2 DEF VouchedIsOnDisk
<1>4. ASSUME NEW e \in Engines, Streaming(e)
      PROVE  VouchedIsOnDisk'
  <2>1. driving' = driving
    BY <1>4 DEF Streaming, RevokeEngine, Connect, Push, Send, Disconnect, ConnectionLapses,
       HeartbeatResumes, HandleReply, ApplySnapshot, RejectSnapshot, Restart, Answers, txVars
  <2>2. ASSUME NEW g \in Groups, NEW d \in driving[g].vouched
        PROVE  d \in Engines /\ disk'[d].version >= driving[g].version
    <3>1. d \in Engines /\ disk[d].version >= driving[g].version
      BY DEF VouchedIsOnDisk
    <3>2. disk'[d].version >= disk[d].version
      BY <1>t, <1>4, <3>1, DisksGrow
    <3>3. disk'[d].version \in Nat
      <4>1. disk' \in [Engines -> Snapshot \cup {Nothing}]
        BY RolloutInvStep DEF RolloutInv, TypeOK
      <4>2. \A s \in Snapshot \cup {Nothing} : s.version \in Nat
        BY ConstantsAssumption DEF Snapshot, Nothing, Versions
      <4> QED
        BY <3>1, <4>1, <4>2
    <3>4. disk[d].version \in Nat /\ driving[g].version \in Nat
      BY <1>t, <1>n, <3>1, EngineNumbers
    <3> QED
      BY <3>1, <3>2, <3>3, <3>4
  <2> QED
    BY <2>1, <2>2 DEF VouchedIsOnDisk
<1>5. CASE UNCHANGED vars
  BY <1>0, <1>5 DEF vars, txVars, engineVars
<1> QED
  BY <1>1, <1>2, <1>3, <1>4, <1>5 DEF Next, Control

\* Only the controller's write completes a rollout, the one it decided about.
LEMMA CompletedByController ==
    ASSUME RolloutInv, [Next]_vars, NEW g \in Groups, NEW v \in Versions,
           rollouts[g][v].state # "completed", rollouts'[g][v].state = "completed"
    PROVE  driving[g].version = v
<1>t. TypeOK /\ rollouts[g][v] \in Row \cup {NoRow}
  BY DEF RolloutInv, TypeOK
<1>1. ASSUME NEW h \in Groups, NEW n, NEW kind \in Kinds, NEW immediate \in BOOLEAN,
             NEW p \in BOOLEAN, NEW s \in Strategies
      PROVE  Create(h, n, kind, immediate, p, s)[v].state = "completed"
               => rollouts[h][v].state = "completed"
  <2>1. rollouts[h][v] \in Row \cup {NoRow}
    BY <1>t DEF TypeOK
  <2> QED
    BY <2>1, NewRowFacts, RetiredFacts DEF Create, Open, Active
<1>2. ASSUME NEW cs \in [Groups -> Contents], NEW p \in [Groups -> BOOLEAN],
             NEW s \in [Groups -> Strategies], PublishAll(cs, p, s)
      PROVE  FALSE
  <2>1. rollouts'[g] = Create(g, version + 1, "change", Immediate(g, cs[g]), p[g], s[g])
    BY <1>2 DEF PublishAll
  <2>2. Immediate(g, cs[g]) \in BOOLEAN /\ p[g] \in BOOLEAN /\ s[g] \in Strategies /\ "change" \in Kinds
    BY DEF Kinds, Immediate
  <2>3. Create(g, version + 1, "change", Immediate(g, cs[g]), p[g], s[g])[v].state = "completed"
    BY <2>1
  <2> QED
    BY <1>1, <2>2, <2>3
<1>3. ASSUME NEW h \in Groups, NEW from, NEW kind \in Kinds, Republish(h, from, kind)
      PROVE  FALSE
  <2>1. CASE h = g
    <3>1. rollouts'[g] = Create(g, version + 1, kind, TRUE, paused[g], strategy[g])
      BY <1>3, <1>t, <2>1 DEF Republish, TypeOK
    <3>2. Create(g, version + 1, kind, TRUE, paused[g], strategy[g])[v].state = "completed"
      BY <3>1
    <3>3. paused[g] \in BOOLEAN /\ strategy[g] \in Strategies
      BY <1>t DEF TypeOK
    <3> QED
      BY <1>1, <3>2, <3>3
  <2>2. CASE h # g
    BY <1>3, <1>t, <2>2 DEF Republish, TypeOK
  <2> QED
    BY <2>1, <2>2
<1>4. CASE Publishing
  <2>1. ASSUME NEW cs \in [Groups -> Contents], Mutate(cs) PROVE FALSE
    BY <1>2, <1>t, <2>1 DEF Mutate, TypeOK
  <2>2. ASSUME NEW cs \in [Groups -> Contents], NEW h \in Groups, ResumeEngineGroupRollouts(h, cs)
        PROVE  FALSE
    <3>1. [paused EXCEPT ![h] = FALSE] \in [Groups -> BOOLEAN] /\ strategy \in [Groups -> Strategies]
      BY <1>t DEF TypeOK
    <3> QED
      BY <1>2, <2>2, <3>1 DEF ResumeEngineGroupRollouts
  <2>3. ASSUME NEW cs \in [Groups -> Contents], NEW h \in Groups, NEW s \in Strategies,
               UpdateEngineGroup(h, s, cs)
        PROVE  FALSE
    <3>1. [strategy EXCEPT ![h] = s] \in [Groups -> Strategies] /\ paused \in [Groups -> BOOLEAN]
      BY <1>t DEF TypeOK
    <3> QED
      BY <1>2, <2>3, <3>1 DEF UpdateEngineGroup
  <2>4. ASSUME NEW h \in Groups, NEW to \in Versions, RollbackEngineGroup(h, to) PROVE FALSE
    BY <1>3, <2>4 DEF RollbackEngineGroup, Kinds
  <2>5. CASE UpdateEngineCommit
    <3>1. move.group \in Groups
      BY <1>t, <2>5 DEF TypeOK, UpdateEngineCommit
    <3> QED
      BY <1>3, <2>5, <3>1 DEF UpdateEngineCommit, Kinds
  <2>6. CASE \/ UpdateEngineAbort \/ PublishAbort
             \/ \E h \in Groups : PublishRead(h) \/ \E e \in Engines : UpdateEngineRead(e, h)
    BY <2>6 DEF UpdateEngineAbort, UpdateEngineRead, PublishRead, PublishAbort, groupVars
  <2> QED
    BY <1>4, <2>1, <2>2, <2>3, <2>4, <2>5, <2>6 DEF Publishing
<1>5. ASSUME NEW h \in Groups, Control(h) \/ DriveFails(h)
      PROVE  driving[g].version = v
  <2>1. CASE DriveCommit(h)
    <3>1. rollouts' = [rollouts EXCEPT ![h][driving[h].version] = driving[h].row]
      BY <2>1 DEF DriveCommit
    <3>2. h # g \/ driving[g].version # v => rollouts'[g][v] = rollouts[g][v]
      BY <1>t, <3>1 DEF TypeOK
    <3> QED
      BY <3>2
  <2>2. CASE DriveFails(h) \/ \E n \in Versions : Drive(h, n)
    BY <2>2 DEF DriveFails, Drive, Start, CanariesApplied, HealthPassed, Complete, Halt, Decides, groupVars
  <2> QED
    BY <1>5, <2>1, <2>2 DEF Control
<1>6. ASSUME NEW e \in Engines, Streaming(e)
      PROVE  FALSE
  <2>1. rollouts' = rollouts
    BY <1>6 DEF Streaming, RevokeEngine, Connect, Push, Send, Disconnect, ConnectionLapses,
       HeartbeatResumes, HandleReply, ApplySnapshot, RejectSnapshot, Restart, Answers, groupVars
  <2> QED
    BY <2>1
<1>7. CASE UNCHANGED vars
  BY <1>7 DEF vars, groupVars
<1> QED
  BY <1>4, <1>5, <1>6, <1>7 DEF Next
----------------------------------------------------------------------------
(* The theorems.                                                              *)

LEMMA DeliveryInvariant == Spec => [](RolloutInv /\ DeliveryInv /\ VouchedIsOnDisk)
<1>1. DeliveryInv /\ RolloutInv /\ [Next]_vars => DeliveryInv'
  BY DeliveryStep
<1>2. RolloutInv /\ [Next]_vars => RolloutInv'
  BY RolloutInvStep
<1>3. RolloutInv /\ DeliveryInv /\ VouchedIsOnDisk /\ [Next]_vars => VouchedIsOnDisk'
  BY VouchedStep
<1>4. Init => VouchedIsOnDisk
  BY DEF Init, VouchedIsOnDisk, NoDrive
<1> QED
  BY <1>1, <1>2, <1>3, <1>4, RolloutInvInit, DeliveryInit, PTL DEF Spec

\* Hub.push, subscriber.offer and the send loop never put a version on a stream that its engine
\* already runs, nor two out of order, for any fleet, any moves between groups and any number of
\* broken streams, restarts and failed writes.
THEOREM OffersAreNewerHolds == Spec => []OffersAreNewer
<1>1. RolloutInv /\ DeliveryInv => OffersAreNewer
  BY DEF DeliveryInv, InOrder, OffersAreNewer
<1> QED
  BY <1>1, DeliveryInvariant, PTL

\* engines.applied_version without a persist error is on the engine's disk: whatever restarts
\* follow, the engine comes back with at least that version.
THEOREM AppliedIsDurableHolds == Spec => []AppliedIsDurable
<1>1. RolloutInv /\ DeliveryInv => AppliedIsDurable
  BY DEF DeliveryInv, ReportsAreTrue, AppliedIsDurable
<1> QED
  BY <1>1, DeliveryInvariant, PTL

\* Although driveOne reads the engines' rows without locking them and writes later, whatever happens
\* in between every engine it counted on (connected, acknowledged, no failed write reported) runs
\* the version or a newer one when the completion is written, for any fleet and any faults.
THEOREM CompletesWhenRunningHolds == Spec => CompletesWhenRunning
<1>1. ASSUME RolloutInv, DeliveryInv, VouchedIsOnDisk, [Next]_vars
      PROVE  \A g \in Groups, v \in Versions :
               (rollouts[g][v].state # "completed" /\ rollouts'[g][v].state = "completed")
                 => \A e \in driving[g].vouched : running[e].version >= v
  <2> SUFFICES ASSUME NEW g \in Groups, NEW v \in Versions,
                      rollouts[g][v].state # "completed", rollouts'[g][v].state = "completed",
                      NEW e \in driving[g].vouched
               PROVE  running[e].version >= v
    OBVIOUS
  <2>1. driving[g].version = v
    BY <1>1, CompletedByController
  <2>2. e \in Engines /\ disk[e].version >= v
    BY <1>1, <2>1 DEF VouchedIsOnDisk
  <2>3. ReportsAreTrue(e) /\ TypeOK
    BY <1>1, <2>2 DEF DeliveryInv, RolloutInv
  <2> QED
    BY <2>2, <2>3, EngineNumbers, ConstantsAssumption DEF ReportsAreTrue, Versions
<1>2. RolloutInv /\ DeliveryInv /\ VouchedIsOnDisk /\ [Next]_vars =>
        [\A g \in Groups, v \in Versions :
           (rollouts[g][v].state # "completed" /\ rollouts'[g][v].state = "completed")
             => \A e \in driving[g].vouched : running[e].version >= v]_vars
  BY <1>1
<1> QED
  BY <1>2, DeliveryInvariant, PTL DEF Spec, CompletesWhenRunning
----------------------------------------------------------------------------
(* Rollout implements Fleet.                                                  *)

\* The audience of one snapshot, before and after a step.
LEMMA AudienceAt ==
    ASSUME NEW g \in Groups, NEW v \in Versions
    PROVE  /\ Audience[g][v] = IF v \in released[g] THEN Engines ELSE rollouts[g][v].canaries
           /\ Audience'[g][v] = IF v \in released'[g] THEN Engines ELSE rollouts'[g][v].canaries
BY DEF Audience

\* Audiences are compared snapshot by snapshot.
LEMMA AudienceType ==
    /\ Audience = [g \in Groups |-> [v \in Versions |-> Audience[g][v]]]
    /\ Audience' = [g \in Groups |-> [v \in Versions |-> Audience'[g][v]]]
BY DEF Audience

LEMMA AudienceKept == UNCHANGED <<rollouts, released>> => Audience' = Audience
BY DEF Audience

\* rollout.Create gives the new version to nobody or to everybody and no older one to anybody,
\* and leaves none but the new one waiting.
LEMMA CreateImplements ==
    ASSUME TypeOK, NEW g \in Groups, GroupInv(g), AwaitingIsNewest(g), RowsAreSnapshots(g),
           version < MaxVersion,
           NEW kind \in Kinds, NEW immediate \in BOOLEAN, NEW p \in BOOLEAN, NEW s \in Strategies,
           p => paused[g],
           rollouts'[g] = Create(g, version + 1, kind, immediate, p, s),
           released'[g] = released[g] \cup {v \in Versions : rollouts'[g][v].state = "rolling"},
           content'[g][version + 1] # NoContent,
           \A w \in Versions : w # version + 1 => content'[g][w] = content[g][w]
    PROVE  /\ AwaitingIsNewest(g)' /\ RowsAreSnapshots(g)'
           /\ \A v \in Versions :
                Audience'[g][v] = IF v = version + 1 /\ rollouts'[g][version + 1].state = "rolling"
                                  THEN Engines ELSE Audience[g][v]
<1> DEFINE n == version + 1
           held == Held(kind, immediate, p)
           new == NewRow(kind, immediate, held, s)
<1>t. /\ n \in Versions /\ n \in Nat /\ version \in Nat
      /\ \A v \in Versions : v \in Nat /\ v >= 1
  BY GroupTypes, ConstantsAssumption DEF Versions
<1>1. /\ rollouts'[g][n] = new
      /\ \A w \in Versions : w # n => rollouts'[g][w] = Retired(rollouts[g][w], kind, held)
  BY <1>t DEF Create
<1>2. /\ held \in BOOLEAN /\ new # NoRow /\ new.canaries = {}
      /\ held => p
      /\ new.state \in {"rolling", "pending"}
  BY NewRowFacts
<1> HIDE DEF held, new
<1>3. ASSUME NEW w \in Versions, w # n
      PROVE  /\ (rollouts'[g][w] = NoRow) <=> (rollouts[g][w] = NoRow)
             /\ rollouts'[g][w].canaries = rollouts[g][w].canaries
             /\ rollouts'[g][w].state = "rolling" => rollouts[g][w].state = "rolling"
             /\ rollouts'[g][w].state \notin {"pending", "canary", "verifying"}
  <2>1. rollouts[g][w] \in Row \cup {NoRow}
    BY GroupTypes
  <2>2. /\ (rollouts'[g][w] = NoRow) <=> (rollouts[g][w] = NoRow)
        /\ rollouts'[g][w].canaries = rollouts[g][w].canaries
        /\ \/ rollouts'[g][w].state = rollouts[g][w].state
           \/ rollouts'[g][w].state \in {"superseded", "rolled_back"}
        /\ rollouts'[g][w].state # "pending"
        /\ ~held => rollouts'[g][w].state \notin Open
    BY <1>1, <1>2, <1>3, <2>1, RetiredFacts
  <2>3. held /\ rollouts[g][w].state \in Active => rollouts[g][w].state = "rolling"
    BY <1>2 DEF GroupInv, BringsNothingNew
  <2> QED  BY <1>2, <2>2, <2>3 DEF Open, Active
<1>4. \A w \in Versions : w >= n => rollouts[g][w] = NoRow /\ content[g][w] = NoContent
  BY <1>t DEF GroupInv, NewestIsLive
<1>5. AwaitingIsNewest(g)'
  <2> SUFFICES ASSUME NEW v \in Versions, NEW w \in Versions,
                      rollouts'[g][v].state \in {"pending", "canary", "verifying"},
                      rollouts'[g][w] # NoRow
               PROVE  w <= v
    BY DEF AwaitingIsNewest
  <2>1. v = n
    BY <1>3
  <2>2. w = n \/ ~(w >= n)
    BY <1>3, <1>4
  <2>3. v \in Nat /\ w \in Nat
    BY <1>t
  <2> HIDE DEF n
  <2> QED  BY <2>1, <2>2, <2>3
<1>6. RowsAreSnapshots(g)'
  <2> SUFFICES ASSUME NEW v \in Versions
               PROVE  /\ rollouts'[g][v] # NoRow <=> content'[g][v] # NoContent
                      /\ v \in released'[g] => content'[g][v] # NoContent
    BY DEF RowsAreSnapshots
  <2>1. CASE v = n
    BY <1>1, <1>2, <2>1
  <2>2. CASE v # n
    BY <1>3, <2>2 DEF RowsAreSnapshots, GroupInv, ReleasedIsKept
  <2> QED  BY <2>1, <2>2
<1>7. ASSUME NEW v \in Versions
      PROVE  Audience'[g][v] = IF v = n /\ rollouts'[g][n].state = "rolling"
                               THEN Engines ELSE Audience[g][v]
  <2>1. CASE v = n
    <3>1. v \notin released[g] /\ rollouts[g][v] = NoRow
      BY <1>4, <1>t, <2>1 DEF RowsAreSnapshots
    <3>2. Audience[g][v] = {}
      BY <3>1, AudienceAt, RowFacts
    <3> QED  BY <1>1, <1>2, <2>1, <3>1, <3>2, AudienceAt
  <2>2. CASE v # n
    <3>1. v \in released'[g] <=> v \in released[g]
      BY <1>3, <2>2 DEF GroupInv, ReleasedIsKept
    <3> QED  BY <1>3, <2>2, <3>1, AudienceAt
  <2> QED  BY <2>1, <2>2
<1> QED  BY <1>5, <1>6, <1>7

\* A group that a step leaves alone.
LEMMA GroupAside ==
    ASSUME NEW g \in Groups, AwaitingIsNewest(g), RowsAreSnapshots(g),
           rollouts'[g] = rollouts[g], content'[g] = content[g], released'[g] = released[g]
    PROVE  /\ AwaitingIsNewest(g)' /\ RowsAreSnapshots(g)'
           /\ \A v \in Versions : Audience'[g][v] = Audience[g][v]
<1>1. \A v \in Versions : Audience'[g][v] = Audience[g][v]
  BY AudienceAt
<1> QED  BY <1>1 DEF AwaitingIsNewest, RowsAreSnapshots

\* The new version's audiences are those of a Publish.
LEMMA PublishedAudience ==
    ASSUME TypeOK, version < MaxVersion, NEW G \in SUBSET Groups,
           \A g \in G : \A v \in Versions :
             Audience'[g][v] = IF v = version + 1 /\ rollouts'[g][version + 1].state = "rolling"
                               THEN Engines ELSE Audience[g][v],
           \A g \in Groups \ G : \A v \in Versions : Audience'[g][v] = Audience[g][v]
    PROVE  LET R == {g \in G : rollouts'[g][version + 1].state = "rolling"}
           IN  Audience' = [g \in Groups |->
                   IF g \in R THEN [Audience[g] EXCEPT ![version + 1] = Engines] ELSE Audience[g]]
<1> DEFINE R == {g \in G : rollouts'[g][version + 1].state = "rolling"}
           B(g) == IF g \in R THEN [Audience[g] EXCEPT ![version + 1] = Engines] ELSE Audience[g]
<1>0. version + 1 \in Versions
  BY ConstantsAssumption DEF TypeOK, Versions
<1>1. ASSUME NEW g \in Groups PROVE [v \in Versions |-> Audience'[g][v]] = B(g)
  <2>1. Audience[g] = [v \in Versions |-> Audience[g][v]]
    BY DEF Audience
  <2>2. CASE g \in R
    <3>1. \A v \in Versions : Audience'[g][v] = IF v = version + 1 THEN Engines ELSE Audience[g][v]
      BY <2>2
    <3> QED  BY <2>1, <2>2, <3>1
  <2>3. CASE g \notin R
    <3>1. \A v \in Versions : Audience'[g][v] = Audience[g][v]
      BY <2>3
    <3> QED  BY <2>1, <2>3, <3>1
  <2> QED  BY <2>2, <2>3
<1>2. [g \in Groups |-> [v \in Versions |-> Audience'[g][v]]] = [g \in Groups |-> B(g)]
  BY <1>1
<1> QED  BY <1>2, AudienceType

\* publish for every group is a Publish for all of them.
LEMMA PublishImplements ==
    ASSUME RolloutInv, FleetInv, NEW cs \in [Groups -> Contents], NEW p \in [Groups -> BOOLEAN],
           NEW s \in [Groups -> Strategies], \A g \in Groups : p[g] => paused[g],
           PublishAll(cs, p, s)
    PROVE  TheFleet!FleetNext /\ FleetInv'
<1>t. TypeOK
  BY DEF RolloutInv
<1>n. version \in Nat /\ version + 1 \in Versions /\ version < MaxVersion
  BY <1>t, ConstantsAssumption DEF TypeOK, Versions, PublishAll
<1>1. ASSUME NEW g \in Groups
      PROVE  /\ AwaitingIsNewest(g)' /\ RowsAreSnapshots(g)'
             /\ \A v \in Versions :
                  Audience'[g][v] = IF v = version + 1 /\ rollouts'[g][version + 1].state = "rolling"
                                    THEN Engines ELSE Audience[g][v]
  <2>1. GroupInv(g) /\ AwaitingIsNewest(g) /\ RowsAreSnapshots(g)
    BY InvByGroup DEF FleetInv
  <2>2. rollouts'[g] = Create(g, version + 1, "change", Immediate(g, cs[g]), p[g], s[g])
    BY DEF PublishAll
  <2>3. \A w \in Versions : w # version + 1 => content'[g][w] = content[g][w]
    BY <1>t DEF PublishAll, TypeOK
  <2>4. content'[g][version + 1] # NoContent
    BY <1>t, <1>n, ConstantsAssumption DEF PublishAll, TypeOK
  <2>5. released'[g] = released[g] \cup {v \in Versions : rollouts'[g][v].state = "rolling"}
    BY DEF PublishAll, Release
  <2>6. "change" \in Kinds /\ Immediate(g, cs[g]) \in BOOLEAN /\ p[g] \in BOOLEAN /\ s[g] \in Strategies
    BY DEF Kinds, Immediate
  <2> QED  BY <1>t, <1>n, <2>1, <2>2, <2>3, <2>4, <2>5, <2>6, CreateImplements
<1> DEFINE R == {g \in Groups : rollouts'[g][version + 1].state = "rolling"}
<1>2. Audience' = [g \in Groups |->
          IF g \in R THEN [Audience[g] EXCEPT ![version + 1] = Engines] ELSE Audience[g]]
  <2>1. /\ Groups \in SUBSET Groups
        /\ \A g \in Groups \ Groups : \A v \in Versions : Audience'[g][v] = Audience[g][v]
    OBVIOUS
  <2> QED  BY <1>t, <1>n, <1>1, <2>1, PublishedAudience
<1>3. content' = [g \in Groups |->
          IF g \in Groups THEN [content[g] EXCEPT ![version + 1] = cs[g]] ELSE content[g]]
  BY DEF PublishAll
<1>4. TheFleet!Publish(Groups, R, cs)
  BY <1>n, <1>2, <1>3 DEF TheFleet!Publish, PublishAll, engineVars
<1>5. TheFleet!FleetNext
  <2>1. R \in SUBSET Groups
    OBVIOUS
  <2> HIDE DEF R
  <2> QED  BY <1>4, <2>1 DEF TheFleet!FleetNext
<1>6. move' = move /\ \A g \in Groups, v \in Versions : content[g][v] # NoContent => content'[g][v] # NoContent
  BY <1>t, <1>n, ConstantsAssumption DEF PublishAll, TypeOK
<1>7. FleetInv'
  BY <1>t, <1>1, <1>6 DEF FleetInv, TypeOK
<1> QED  BY <1>5, <1>7

\* Republish is a Publish for one group, of what an older version says to it.
LEMMA RepublishImplements ==
    ASSUME RolloutInv, FleetInv, NEW g \in Groups, NEW from \in Versions, NEW kind \in Kinds,
           content[g][from] # NoContent, Republish(g, from, kind), UNCHANGED engineVars,
           move' = move \/ move' = NoMove
    PROVE  TheFleet!FleetNext /\ FleetInv'
<1>t. TypeOK
  BY DEF RolloutInv
<1>n. version \in Nat /\ version + 1 \in Versions /\ version < MaxVersion
  BY <1>t, ConstantsAssumption DEF TypeOK, Versions, Republish
<1>c. content[g][from] \in Contents
  BY <1>t DEF TypeOK
<1>1. /\ AwaitingIsNewest(g)' /\ RowsAreSnapshots(g)'
      /\ \A v \in Versions :
           Audience'[g][v] = IF v = version + 1 /\ rollouts'[g][version + 1].state = "rolling"
                             THEN Engines ELSE Audience[g][v]
  <2>1. GroupInv(g) /\ AwaitingIsNewest(g) /\ RowsAreSnapshots(g)
    BY InvByGroup DEF FleetInv
  <2>0. PICK immediate \in BOOLEAN : immediate = TRUE
    OBVIOUS
  <2>2. rollouts'[g] = Create(g, version + 1, kind, immediate, paused[g], strategy[g])
    BY <1>t, <2>0 DEF Republish, TypeOK
  <2>3. \A w \in Versions : w # version + 1 => content'[g][w] = content[g][w]
    BY <1>t DEF Republish, TypeOK
  <2>4. content'[g][version + 1] # NoContent
    BY <1>t, <1>n DEF Republish, TypeOK
  <2>5. released'[g] = released[g] \cup {v \in Versions : rollouts'[g][v].state = "rolling"}
    BY DEF Republish, Release
  <2>6. paused[g] \in BOOLEAN /\ strategy[g] \in Strategies
    BY <1>t, GroupTypes
  <2> QED  BY <1>t, <1>n, <2>1, <2>2, <2>3, <2>4, <2>5, <2>6, CreateImplements
<1>2. ASSUME NEW k \in Groups \ {g}
      PROVE  /\ AwaitingIsNewest(k)' /\ RowsAreSnapshots(k)'
             /\ \A v \in Versions : Audience'[k][v] = Audience[k][v]
  <2>1. rollouts'[k] = rollouts[k] /\ content'[k] = content[k]
    BY <1>t DEF Republish, TypeOK
  <2>2. GroupInv(k) /\ AwaitingIsNewest(k) /\ RowsAreSnapshots(k)
    BY InvByGroup DEF FleetInv
  <2>3. released'[k] = released[k]
    BY <2>1, <2>2 DEF Republish, Release, GroupInv, ReleasedIsKept
  <2> QED  BY <2>1, <2>2, <2>3, GroupAside
<1> DEFINE G == {g}
           R == {h \in G : rollouts'[h][version + 1].state = "rolling"}
           cs == [h \in Groups |-> content[g][from]]
<1>3. Audience' = [h \in Groups |->
          IF h \in R THEN [Audience[h] EXCEPT ![version + 1] = Engines] ELSE Audience[h]]
  <2>1. G \in SUBSET Groups
    OBVIOUS
  <2> QED  BY <1>t, <1>n, <1>1, <1>2, <2>1, PublishedAudience
<1>4. content' = [h \in Groups |->
          IF h \in G THEN [content[h] EXCEPT ![version + 1] = cs[h]] ELSE content[h]]
  BY <1>t, <1>n DEF Republish, TypeOK
<1>5. TheFleet!Publish(G, R, cs)
  BY <1>n, <1>3, <1>4 DEF TheFleet!Publish, Republish, engineVars
<1>6. TheFleet!FleetNext
  <2>1. G \in SUBSET Groups /\ R \in SUBSET G /\ cs \in [Groups -> Contents]
    BY <1>c
  <2> HIDE DEF G, R, cs
  <2> QED  BY <1>5, <2>1 DEF TheFleet!FleetNext
<1>7. \A h \in Groups, v \in Versions : content[h][v] # NoContent => content'[h][v] # NoContent
  BY <1>t, <1>n DEF Republish, TypeOK
<1>8. \A h \in Groups : AwaitingIsNewest(h)' /\ RowsAreSnapshots(h)'
  BY <1>1, <1>2
<1>9. FleetInv'
  BY <1>t, <1>7, <1>8 DEF FleetInv, TypeOK
<1> QED  BY <1>6, <1>9

\* Every publishing operation is a Publish, or changes nothing that Fleet knows of.
LEMMA PublishingImplements ==
    ASSUME RolloutInv, FleetInv, Publishing
    PROVE  (TheFleet!FleetNext \/ UNCHANGED TheFleet!fleetVars) /\ FleetInv'
<1>t. TypeOK
  BY DEF RolloutInv
<1>1. ASSUME NEW cs \in [Groups -> Contents], Mutate(cs)
      PROVE  TheFleet!FleetNext /\ FleetInv'
  BY <1>1, <1>t, PublishImplements DEF Mutate, TypeOK
<1>2. ASSUME NEW cs \in [Groups -> Contents], NEW g \in Groups, ResumeEngineGroupRollouts(g, cs)
      PROVE  TheFleet!FleetNext /\ FleetInv'
  <2>1. /\ [paused EXCEPT ![g] = FALSE] \in [Groups -> BOOLEAN]
        /\ strategy \in [Groups -> Strategies]
        /\ \A k \in Groups : [paused EXCEPT ![g] = FALSE][k] => paused[k]
    BY <1>t DEF TypeOK
  <2> QED  BY <1>2, <2>1, PublishImplements DEF ResumeEngineGroupRollouts
<1>3. ASSUME NEW cs \in [Groups -> Contents], NEW g \in Groups, NEW s \in Strategies,
             UpdateEngineGroup(g, s, cs)
      PROVE  TheFleet!FleetNext /\ FleetInv'
  <2>1. [strategy EXCEPT ![g] = s] \in [Groups -> Strategies] /\ paused \in [Groups -> BOOLEAN]
    BY <1>t DEF TypeOK
  <2> QED  BY <1>3, <2>1, PublishImplements DEF UpdateEngineGroup
<1>4. ASSUME NEW g \in Groups, NEW to \in Versions, RollbackEngineGroup(g, to)
      PROVE  TheFleet!FleetNext /\ FleetInv'
  BY <1>4, RepublishImplements DEF RollbackEngineGroup, Kinds
<1>5. CASE UpdateEngineCommit
  <2>1. move.group \in Groups /\ move.from \in Versions /\ content[move.group][move.from] # NoContent
    BY <1>t, <1>5 DEF UpdateEngineCommit, FleetInv, TypeOK
  <2> QED  BY <1>5, <2>1, RepublishImplements DEF UpdateEngineCommit, Kinds
<1>6. ASSUME UNCHANGED <<groupVars, engineVars, released>>
      PROVE  UNCHANGED TheFleet!fleetVars
  BY <1>6, AudienceKept DEF TheFleet!fleetVars, groupVars, engineVars
<1>7. ASSUME NEW e \in Engines, NEW g \in Groups, UpdateEngineRead(e, g)
      PROVE  UNCHANGED TheFleet!fleetVars /\ FleetInv'
  <2>1. stable[g] \in Versions /\ rollouts[g][stable[g]].state = "completed" /\ RowsAreSnapshots(g)
    BY DEF RolloutInv, ReleasedIsKept, FleetInv
  <2>2. MoveSource(g) = stable[g] /\ content[g][stable[g]] # NoContent
    BY <2>1, RowFacts, ConstantsAssumption DEF MoveSource, RowsAreSnapshots, Versions
  <2>3. /\ move' = [engine |-> e, group |-> g, from |-> stable[g]]
        /\ UNCHANGED <<groupVars, engineVars, released>>
    BY <1>7, <2>2 DEF UpdateEngineRead
  <2>4. move'.group = g /\ move'.from = stable[g]
    BY <2>3
  <2>5. \A h \in Groups : AwaitingIsNewest(h)' /\ RowsAreSnapshots(h)'
    BY <2>3 DEF FleetInv, AwaitingIsNewest, RowsAreSnapshots, groupVars
  <2>6. content' = content
    BY <2>3 DEF groupVars
  <2> QED  BY <1>6, <2>2, <2>3, <2>4, <2>5, <2>6 DEF FleetInv
<1>8. CASE UpdateEngineAbort
  <2>1. move' = NoMove /\ UNCHANGED <<groupVars, engineVars, released>>
    BY <1>8 DEF UpdateEngineAbort
  <2>2. \A h \in Groups : AwaitingIsNewest(h)' /\ RowsAreSnapshots(h)'
    BY <2>1 DEF FleetInv, AwaitingIsNewest, RowsAreSnapshots, groupVars
  <2> QED  BY <1>6, <2>1, <2>2 DEF FleetInv
<1>9. CASE PublishAbort \/ \E g \in Groups : PublishRead(g)
  <2>1. UNCHANGED <<groupVars, engineVars, released, move>>
    BY <1>9 DEF PublishAbort, PublishRead
  <2>2. FleetInv'
    BY <2>1 DEF FleetInv, AwaitingIsNewest, RowsAreSnapshots, groupVars
  <2> QED  BY <1>6, <2>1, <2>2
<1> QED  BY <1>1, <1>2, <1>3, <1>4, <1>5, <1>7, <1>8, <1>9 DEF Publishing

\* driveOne's update of one rollout's row, as far as Fleet can see.
Writes(g, v, row) ==
    /\ rollouts' = [rollouts EXCEPT ![g][v] = row]
    /\ Release
    /\ UNCHANGED <<version, content, move, engineVars>>

\* What driveOne's update does to the audiences: the row's canaries are its audience, everybody
\* once it rolls.
LEMMA DrivesAudience ==
    ASSUME RolloutInv, NEW g \in Groups, NEW v \in Versions, NEW row, Writes(g, v, row)
    PROVE  Audience' = [Audience EXCEPT ![g][v] =
               IF v \in released[g] \/ row.state = "rolling" THEN Engines ELSE row.canaries]
<1>t. TypeOK
  BY DEF RolloutInv
<1>1. \A h \in Groups, w \in Versions :
        rollouts'[h][w] = IF h = g /\ w = v THEN row ELSE rollouts[h][w]
  BY <1>t DEF Writes, TypeOK
<1>2. \A h \in Groups, w \in Versions :
        w \in released'[h] <=> w \in released[h] \/ (h = g /\ w = v /\ row.state = "rolling")
  <2>1. \A h \in Groups, w \in Versions : rollouts[h][w].state = "rolling" => w \in released[h]
    BY DEF RolloutInv, ReleasedIsKept
  <2> QED  BY <1>1, <2>1 DEF Writes, Release
<1> DEFINE a == IF v \in released[g] \/ row.state = "rolling" THEN Engines ELSE row.canaries
<1>3. \A h \in Groups, w \in Versions :
        Audience'[h][w] = IF h = g /\ w = v THEN a ELSE Audience[h][w]
  BY <1>1, <1>2, AudienceAt
<1> HIDE DEF a
<1>4. Audience' = [h \in Groups |-> [w \in Versions |-> IF h = g /\ w = v THEN a ELSE Audience[h][w]]]
  BY <1>3, AudienceType
<1>5. /\ DOMAIN Audience = Groups /\ Audience = [h \in Groups |-> Audience[h]]
      /\ \A h \in Groups : Audience[h] = [w \in Versions |-> Audience[h][w]]
  BY DEF Audience
<1>6. [Audience EXCEPT ![g][v] = a] =
        [h \in Groups |-> [w \in Versions |-> IF h = g /\ w = v THEN a ELSE Audience[h][w]]]
  <2>1. [Audience EXCEPT ![g][v] = a] =
          [h \in Groups |-> IF h = g THEN [Audience[g] EXCEPT ![v] = a] ELSE Audience[h]]
    BY <1>5
  <2>2. [Audience[g] EXCEPT ![v] = a] = [w \in Versions |-> IF w = v THEN a ELSE Audience[g][w]]
    BY <1>5
  <2>3. ASSUME NEW h \in Groups
        PROVE  (IF h = g THEN [Audience[g] EXCEPT ![v] = a] ELSE Audience[h])
                 = [w \in Versions |-> IF h = g /\ w = v THEN a ELSE Audience[h][w]]
    BY <1>5, <2>2
  <2> QED  BY <2>1, <2>3
<1> QED  BY <1>4, <1>6 DEF a

\* A rollout that waits for its release is of the group's newest snapshot.
LEMMA WaitingIsNewest ==
    ASSUME RolloutInv, FleetInv, NEW g \in Groups, NEW v \in Versions,
           rollouts[g][v].state \in {"pending", "canary", "verifying"}
    PROVE  TheFleet!IsNewest(g, v)
<1>1. AwaitingIsNewest(g) /\ RowsAreSnapshots(g)
  BY DEF FleetInv
<1>2. content[g][v] # NoContent
  BY <1>1, RowFacts DEF RowsAreSnapshots
<1>3. \A w \in Versions : content[g][w] # NoContent => w <= v
  BY <1>1 DEF AwaitingIsNewest, RowsAreSnapshots
<1> QED  BY <1>2, <1>3 DEF TheFleet!IsNewest, TheFleet!Versions, Versions

\* driveOne puts no rollout back to waiting.
LEMMA DrivesKeeps ==
    ASSUME RolloutInv, FleetInv, NEW g \in Groups, NEW v \in Versions, NEW row, Writes(g, v, row),
           rollouts[g][v] # NoRow, row # NoRow,
           row.state \in {"pending", "canary", "verifying"}
             => rollouts[g][v].state \in {"pending", "canary", "verifying"}
    PROVE  FleetInv'
<1>t. TypeOK
  BY DEF RolloutInv
<1>1. \A h \in Groups, w \in Versions :
        rollouts'[h][w] = IF h = g /\ w = v THEN row ELSE rollouts[h][w]
  BY <1>t DEF Writes, TypeOK
<1>2. content' = content /\ move' = move
  BY DEF Writes
<1>3. ASSUME NEW h \in Groups PROVE AwaitingIsNewest(h)' /\ RowsAreSnapshots(h)'
  <2>1. AwaitingIsNewest(h) /\ RowsAreSnapshots(h)
    BY DEF FleetInv
  <2>2. \A w \in Versions : (rollouts'[h][w] = NoRow) <=> (rollouts[h][w] = NoRow)
    BY <1>1
  <2>3. AwaitingIsNewest(h)'
    BY <1>1, <2>1, <2>2 DEF AwaitingIsNewest
  <2>4. \A w \in Versions : w \in released'[h] => w \in released[h] \/ rollouts'[h][w].state = "rolling"
    BY DEF Writes, Release
  <2>5. RowsAreSnapshots(h)'
    BY <1>2, <2>1, <2>2, <2>4, RowFacts DEF RowsAreSnapshots
  <2> QED  BY <2>3, <2>5
<1> QED  BY <1>2, <1>3 DEF FleetInv

\* The controller's write pilots or releases the newest snapshot of its group, or does nothing that
\* Fleet knows of.
LEMMA CommitImplements ==
    ASSUME RolloutInv, FleetInv, NEW g \in Groups, DriveCommit(g)
    PROVE  (TheFleet!FleetNext \/ UNCHANGED TheFleet!fleetVars) /\ FleetInv'
<1>0. PICK v \in Versions, row \in Row :
        /\ Writes(g, v, row)
        /\ rollouts[g][v].state \in Open
        /\ row.state \in Active \cup {"completed", "halted"}
        /\ row.state = "completed" => rollouts[g][v].state = "rolling"
        /\ row.state \in Active => rollouts[g][v].state # "rolling"
        /\ row.state = "canary" => rollouts[g][v].state = "pending"
        /\ row.state # "canary" => row.canaries = rollouts[g][v].canaries
  <2>1. TypeOK /\ GroupInv(g)
    BY InvByGroup DEF RolloutInv
  <2> QED  BY <2>1, CommitFacts DEF Writes
<1> DEFINE r == rollouts[g][v]
<1>t. TypeOK /\ r \in Row \cup {NoRow}
  BY GroupTypes DEF RolloutInv
<1>v. v \in TheFleet!Versions
  BY DEF TheFleet!Versions, Versions
<1>p. r.state = "pending" => r.canaries = {}
  BY DEF RolloutInv, PendingWaits
<1>f. UNCHANGED <<version, content, running, disk>>
  BY <1>0 DEF Writes, engineVars
<1>n. r.state # "rolling" => TheFleet!IsNewest(g, v)
  BY <1>0, WaitingIsNewest DEF r, Open, Active
<1>w. FleetInv'
  <2>1. r # NoRow /\ row # NoRow
    BY <1>0, RowFacts DEF r, Open, Active
  <2>2. row.state \in {"pending", "canary", "verifying"} => r.state \in {"pending", "canary", "verifying"}
    BY <1>0 DEF r, Open, Active
  <2> QED  BY <1>0, <2>1, <2>2, DrivesKeeps DEF r
<1>1. CASE row.state = "rolling"
  <2>1. TheFleet!ReleaseToAll(g, v)
    BY <1>0, <1>1, <1>f, <1>n, DrivesAudience DEF TheFleet!ReleaseToAll, Active, r
  <2> QED  BY <1>v, <1>w, <2>1 DEF TheFleet!FleetNext
<1>2. CASE row.state # "rolling" /\ (row.state # "canary" \/ v \in released[g])
  <2>1. Audience' = [Audience EXCEPT ![g][v] = Audience[g][v]]
    BY <1>0, <1>2, DrivesAudience, AudienceAt
  <2>2. Audience' = Audience
    BY <2>1, AudienceType
  <2> QED  BY <1>f, <1>w, <2>2 DEF TheFleet!fleetVars
<1>3. CASE row.state = "canary" /\ v \notin released[g]
  <2>1. Audience[g][v] = {}
    BY <1>0, <1>3, <1>p, AudienceAt DEF r
  <2>2. Audience' = [Audience EXCEPT ![g][v] = row.canaries]
    BY <1>0, <1>3, DrivesAudience
  <2>3. row.canaries \in SUBSET Engines
    BY <1>0 DEF Row
  <2>4. PICK C \in SUBSET Engines : C = row.canaries
    BY <2>3
  <2>5. TheFleet!Pilot(g, v, C)
    BY <1>0, <1>3, <1>f, <1>n, <2>1, <2>2, <2>4 DEF TheFleet!Pilot, r
  <2> QED  BY <1>v, <1>w, <2>5 DEF TheFleet!FleetNext
<1> QED  BY <1>1, <1>2, <1>3

\* Of the controller Fleet sees only what it writes.
LEMMA ControlImplements ==
    ASSUME RolloutInv, FleetInv, NEW g \in Groups, Control(g) \/ DriveFails(g)
    PROVE  (TheFleet!FleetNext \/ UNCHANGED TheFleet!fleetVars) /\ FleetInv'
<1>1. CASE DriveFails(g) \/ \E v \in Versions : Drive(g, v)
  <2>1. UNCHANGED <<groupVars, engineVars, released, move>>
    BY <1>1 DEF DriveFails, Drive, Start, CanariesApplied, HealthPassed, Complete, Halt, Decides
  <2>2. FleetInv'
    BY <2>1 DEF FleetInv, AwaitingIsNewest, RowsAreSnapshots, groupVars
  <2>3. UNCHANGED TheFleet!fleetVars
    BY <2>1, AudienceKept DEF TheFleet!fleetVars, groupVars, engineVars
  <2> QED  BY <2>2, <2>3
<1> QED  BY <1>1, CommitImplements DEF Control

\* Streams are not known to Fleet; an engine that applies a snapshot adopts one it was given.
LEMMA StreamingImplements ==
    ASSUME RolloutInv, FleetInv, NEW e \in Engines, Streaming(e)
    PROVE  (TheFleet!FleetNext \/ UNCHANGED TheFleet!fleetVars) /\ FleetInv'
<1>t. TypeOK
  BY DEF RolloutInv
<1>1. UNCHANGED <<groupVars, move, released>>
  BY DEF Streaming, RevokeEngine, Connect, Push, Send, Disconnect, ConnectionLapses,
         HeartbeatResumes, HandleReply, ApplySnapshot, RejectSnapshot, Restart, Answers, txVars
<1>2. FleetInv'
  BY <1>1 DEF FleetInv, AwaitingIsNewest, RowsAreSnapshots, groupVars
<1>3. UNCHANGED <<version, content, Audience>>
  BY <1>1, AudienceKept DEF groupVars
<1>4. ASSUME NEW written \in BOOLEAN, ApplySnapshot(e, written)
      PROVE  TheFleet!FleetNext
  <2> DEFINE s == wire[e]
             kept == written /\ disk[e].version < s.version
  <2>1. s \in TheFleet!Snapshots /\ s \in Snapshot /\ s # Nothing
    BY <1>4, <1>t DEF ApplySnapshot, TypeOK, Snapshot, TheFleet!Snapshots, TheFleet!Versions, Versions
  <2>2. s.group \in Groups /\ s.version \in Versions
    BY <2>1 DEF Snapshot
  <2>3. s.version \in released[s.group] \/ e \in rollouts[s.group][s.version].canaries
    BY <2>1 DEF RolloutInv, CanaryContainment
  <2>4. e \in Audience[s.group][s.version]
    BY <2>2, <2>3, AudienceAt
  <2>5. TheFleet!Adopt(e, s, kept)
    BY <1>3, <1>4, <2>4 DEF ApplySnapshot, TheFleet!Adopt
  <2>6. kept \in BOOLEAN
    OBVIOUS
  <2> HIDE DEF s, kept
  <2> QED  BY <2>1, <2>5, <2>6 DEF TheFleet!FleetNext
<1>5. CASE Restart(e)
  <2>1. TheFleet!Restart(e)
    BY <1>3, <1>5 DEF Restart, TheFleet!Restart
  <2> QED  BY <1>2, <2>1 DEF TheFleet!FleetNext
<1>6. CASE UNCHANGED engineVars
  BY <1>2, <1>3, <1>6 DEF TheFleet!fleetVars, engineVars
<1>7. \/ \E written \in BOOLEAN : ApplySnapshot(e, written)
      \/ Restart(e)
      \/ UNCHANGED engineVars
  BY DEF Streaming, RevokeEngine, Connect, Push, Send, Disconnect, ConnectionLapses,
         HeartbeatResumes, HandleReply, RejectSnapshot, Answers
<1> QED  BY <1>2, <1>4, <1>5, <1>6, <1>7

LEMMA FleetInvInit == Init => FleetInv
<1>1. Init => \A g \in Groups : AwaitingIsNewest(g) /\ RowsAreSnapshots(g)
  BY RowFacts, ConstantsAssumption DEF Init, AwaitingIsNewest, RowsAreSnapshots, NoRow
<1> QED  BY <1>1 DEF Init, FleetInv

\* The management plane starts with one version that everybody may have.
LEMMA FleetInit == Init => TheFleet!FleetInit
<1> SUFFICES ASSUME Init PROVE TheFleet!FleetInit
  OBVIOUS
<1>1. \A g \in Groups, v \in Versions : Audience[g][v] = IF v = 1 THEN Engines ELSE {}
  <2>1. \A g \in Groups, v \in Versions : released[g] = {1} /\ rollouts[g][v].canaries = {}
    BY RowFacts DEF Init
  <2> QED  BY <2>1, AudienceAt
<1>2. Audience = [g \in Groups |-> [v \in Versions |-> IF v = 1 THEN Engines ELSE {}]]
  BY <1>1, AudienceType
<1> QED  BY <1>2 DEF Init, TheFleet!FleetInit, TheFleet!Versions, Versions

LEMMA FleetStep ==
    ASSUME RolloutInv, FleetInv, [Next]_vars
    PROVE  [TheFleet!FleetNext]_(TheFleet!fleetVars) /\ FleetInv'
<1>1. CASE Next
  BY <1>1, PublishingImplements, ControlImplements, StreamingImplements DEF Next
<1>2. CASE UNCHANGED vars
  <2>1. UNCHANGED <<groupVars, move, engineVars, released>>
    BY <1>2 DEF vars, txVars
  <2>2. FleetInv'
    BY <2>1 DEF FleetInv, AwaitingIsNewest, RowsAreSnapshots, groupVars
  <2>3. UNCHANGED TheFleet!fleetVars
    BY <2>1, AudienceKept DEF TheFleet!fleetVars, groupVars, engineVars
  <2> QED  BY <2>2, <2>3
<1> QED  BY <1>1, <1>2

\* For every fleet, what publishing, the rollout controller, the hub and the engines do together
\* is what Fleet promises: versions are written once, only the newest snapshot of a group gets a
\* wider audience, and engines adopt newer snapshots that they were given.
THEOREM RolloutImplementsFleet == Spec => ImplementsFleet
<1>1. Spec => [](RolloutInv /\ FleetInv)
  <2>1. RolloutInv /\ [Next]_vars => RolloutInv'
    BY RolloutInvStep
  <2>2. RolloutInv /\ FleetInv /\ [Next]_vars => FleetInv'
    BY FleetStep
  <2> QED  BY <2>1, <2>2, RolloutInvInit, FleetInvInit, PTL DEF Spec
<1>2. RolloutInv /\ FleetInv /\ [Next]_vars => [TheFleet!FleetNext]_(TheFleet!fleetVars)
  BY FleetStep
<1> QED  BY <1>1, <1>2, FleetInit, PTL DEF Spec, ImplementsFleet, TheFleet!FleetSpec
============================================================================
