--------------------------- MODULE RolloutProofs ---------------------------
(* Proofs about Rollout, for any groups, engines, contents, versions and      *)
(* canary settings: the type invariant and the safety invariants that the     *)
(* model-checked instances only show for a few versions and engines.          *)
EXTENDS Rollout, TLAPS

----------------------------------------------------------------------------
(* Rollout rows.                                                              *)

\* The rows of a group, and the empty one.
LEMMA RowFacts ==
    /\ NoRow.state = "none" /\ NoRow.canaries = {}
    /\ \A row \in Row : row.state \in States /\ row.state # "none" /\ row # NoRow
BY DEF NoRow, Row, States, Open, Active

\* Create retires a row: only its state changes, only from open or halted, and never to an open
\* one. Unless the new rollout is held by a pause, nothing open is left.
LEMMA RetiredFacts ==
    ASSUME NEW row \in Row \cup {NoRow}, NEW kind \in Kinds, NEW held \in BOOLEAN
    PROVE  LET r == Retired(row, kind, held)
           IN  /\ r \in Row \cup {NoRow}
               /\ r = NoRow <=> row = NoRow
               /\ r.canaries = row.canaries
               /\ r.kind = row.kind
               /\ r.strategy = row.strategy
               /\ \/ r.state = row.state
                  \/ r.state = "superseded" /\ row.state \in Open \cup {"halted"}
                  \/ r.state = "rolled_back" /\ row.state = "halted"
               /\ r.state # "pending"
               /\ ~held => r.state \notin Open
BY DEF Retired, Supersedes, Row, NoRow, States, Open, Active

\* A new row waits or rolls. It rolls unless it is a canary change or held; a held one is pending.
LEMMA NewRowFacts ==
    ASSUME NEW kind \in Kinds, NEW immediate \in BOOLEAN, NEW p \in BOOLEAN, NEW s \in Strategies
    PROVE  LET held == Held(kind, immediate, p)
               r == NewRow(kind, immediate, held, s)
           IN  /\ held \in BOOLEAN
               /\ r \in Row
               /\ r # NoRow
               /\ r.canaries = {}
               /\ r.kind = kind
               /\ r.state \in {"rolling", "pending"}
               /\ r.state = "rolling" => ~held
               /\ r.state = "pending" => kind = "change"
               /\ p /\ r.state = "pending" => held
               /\ held => p
BY DEF Held, NewRow, Row, NoRow, States, Open, Active, Kinds, Strategies
----------------------------------------------------------------------------
(* One group.                                                                 *)

\* The invariant of one group.
GroupInv(g) ==
    /\ NewestIsLive(g) /\ PendingWaits(g) /\ ReleasedIsKept(g)
    /\ DecisionFits(g) /\ ReadCompleted(g)
    /\ \A v, w \in Versions :
         (rollouts[g][v].state \in Active /\ rollouts[g][w].state \in Active) => v = w
    /\ \A v \in Versions : rollouts[g][v].state = "completed" => v <= stable[g]
    /\ \A v \in Versions : paused[g] /\ rollouts[g][v].state \in Active => BringsNothingNew(g, v)

\* What a step never takes back from a group: rows, canaries and released versions.
RowsGrow(g) ==
    /\ released[g] \subseteq released'[g]
    /\ \A v \in Versions :
         /\ rollouts[g][v].canaries \subseteq rollouts'[g][v].canaries
         /\ rollouts[g][v] # NoRow => rollouts'[g][v] # NoRow

\* The types of one group's state.
LEMMA GroupTypes ==
    ASSUME TypeOK, NEW g \in Groups
    PROVE  /\ version \in Nat /\ version \in Versions
           /\ stable[g] \in Nat
           /\ paused[g] \in BOOLEAN
           /\ strategy[g] \in Strategies
           /\ \A v \in Versions :
                /\ v \in Nat /\ v >= 1
                /\ rollouts[g][v] \in Row \cup {NoRow}
                /\ content[g][v] \in Contents \cup {NoContent}
BY ConstantsAssumption DEF TypeOK, Versions

\* rollout.Create for the next version keeps the invariant of its group.
LEMMA CreateStep ==
    ASSUME TypeOK, NEW g \in Groups, GroupInv(g),
           version < MaxVersion, version' = version + 1,
           NEW kind \in Kinds, NEW immediate \in BOOLEAN, NEW p \in BOOLEAN, NEW s \in Strategies,
           rollouts'[g] = Create(g, version + 1, kind, immediate, p, s),
           released'[g] = released[g] \cup {v \in Versions : rollouts'[g][v].state = "rolling"},
           stable'[g] = stable[g],
           \A w \in Versions : w # version + 1 => content'[g][w] = content[g][w],
           paused'[g] => (paused[g] /\ p) \/ kind = "rollback",
           p => paused'[g],
           RowFree(g), driving'[g] = driving[g], seen'[g] = Unread,
           (kind = "change" /\ immediate) =>
             \E w \in Versions : /\ rollouts[g][w].state = "completed"
                                  /\ content[g][w] = content'[g][version + 1]
    PROVE  GroupInv(g)' /\ RowsGrow(g)
<1> DEFINE n == version + 1
           held == Held(kind, immediate, p)
           new == NewRow(kind, immediate, held, s)
<1>t. /\ n \in Versions /\ n \in Nat /\ version \in Nat /\ stable[g] \in Nat
      /\ \A v \in Versions : v \in Nat /\ v >= 1
  BY GroupTypes, ConstantsAssumption DEF Versions
<1>1. rollouts'[g][n] = new
  BY <1>t DEF Create
<1>2. \A w \in Versions : w # n => rollouts'[g][w] = Retired(rollouts[g][w], kind, held)
  BY <1>t DEF Create
<1>3. /\ held \in BOOLEAN /\ new \in Row /\ new # NoRow /\ new.canaries = {} /\ new.kind = kind
      /\ new.state \in {"rolling", "pending"}
      /\ new.state = "rolling" => ~held
      /\ new.state = "pending" => kind = "change"
      /\ p /\ new.state = "pending" => held
      /\ held => p
  BY NewRowFacts
<1> HIDE DEF held, new
<1>4. \A w \in Versions : w # n =>
        LET r == rollouts'[g][w]
            row == rollouts[g][w]
        IN  /\ (r = NoRow) <=> (row = NoRow)
            /\ r.canaries = row.canaries /\ r.kind = row.kind
            /\ \/ r.state = row.state
               \/ r.state = "superseded" /\ row.state \in Open \cup {"halted"}
               \/ r.state = "rolled_back" /\ row.state = "halted"
            /\ r.state # "pending"
            /\ ~held => r.state \notin Open
  <2> SUFFICES ASSUME NEW w \in Versions, w # n
               PROVE  LET r == rollouts'[g][w]
                          row == rollouts[g][w]
                      IN  /\ (r = NoRow) <=> (row = NoRow)
                          /\ r.canaries = row.canaries /\ r.kind = row.kind
                          /\ \/ r.state = row.state
                             \/ r.state = "superseded" /\ row.state \in Open \cup {"halted"}
                             \/ r.state = "rolled_back" /\ row.state = "halted"
                          /\ r.state # "pending"
                          /\ ~held => r.state \notin Open
    OBVIOUS
  <2>1. rollouts[g][w] \in Row \cup {NoRow}
    BY GroupTypes
  <2> QED
    BY <1>2, <1>3, <2>1, RetiredFacts
<1>5. rollouts[g][n] = NoRow
  BY <1>t DEF GroupInv, NewestIsLive
<1>6. NewestIsLive(g)'
  <2>1. new.state \notin {"none", "superseded", "rolled_back"}
    BY <1>3
  <2>2. \A w \in Versions : w > n => rollouts'[g][w] = NoRow /\ content'[g][w] = NoContent
    BY <1>t, <1>4 DEF GroupInv, NewestIsLive
  <2> QED
    BY <1>1, <1>t, <2>1, <2>2 DEF NewestIsLive
<1>7. PendingWaits(g)'
  <2>1. \A v \in Versions : rollouts'[g][v].state = "pending" => v = n
    BY <1>4
  <2>2. ASSUME new.state = "pending", NEW w \in Versions, w # n, rollouts'[g][w].state \in Open
        PROVE  rollouts'[g][w].state \in Active /\ paused'[g]
    BY <2>2, <1>3, <1>4 DEF Open
  <2> QED
    BY <1>1, <1>3, <2>1, <2>2 DEF PendingWaits
<1>8. ReleasedIsKept(g)'
  <2>1. stable[g] # n
    BY <1>5, RowFacts DEF GroupInv, ReleasedIsKept
  <2> QED
    BY <1>1, <1>3, <1>4, <2>1 DEF GroupInv, ReleasedIsKept, Open, Active
<1>9. \A v \in Versions : rollouts'[g][v].state \in Active =>
        \/ v = n /\ new.state = "rolling"
        \/ v # n /\ held /\ rollouts[g][v].state = rollouts'[g][v].state
  BY <1>1, <1>3, <1>4 DEF Open, Active
<1>10. \A v, w \in Versions :
         (rollouts'[g][v].state \in Active /\ rollouts'[g][w].state \in Active) => v = w
  BY <1>3, <1>9 DEF GroupInv
<1>11. \A v \in Versions : rollouts'[g][v].state = "completed" => v <= stable'[g]
  BY <1>1, <1>3, <1>4 DEF GroupInv
<1>12. \A v \in Versions : paused'[g] /\ rollouts'[g][v].state \in Active => BringsNothingNew(g, v)'
  <2> SUFFICES ASSUME NEW v \in Versions, paused'[g], rollouts'[g][v].state \in Active
               PROVE  BringsNothingNew(g, v)'
    OBVIOUS
  <2>s. \A w \in Versions : rollouts[g][w].state = "completed" =>
          w # n /\ rollouts'[g][w].state = "completed" /\ content'[g][w] = content[g][w]
    BY <1>4, <1>5, RowFacts DEF Open, Active
  <2>1. CASE v = n
    <3>1. new.state = "rolling" /\ ~held
      BY <1>3, <1>9, <2>1
    <3>2. kind = "change" => immediate
      BY <3>1 DEF held, Held
    <3>3. ASSUME kind = "change"
          PROVE  \E w \in Versions : /\ rollouts'[g][w].state = "completed"
                                      /\ content'[g][w] = content'[g][n]
      <4>1. PICK w \in Versions : /\ rollouts[g][w].state = "completed"
                                  /\ content[g][w] = content'[g][n]
        BY <3>2, <3>3
      <4> QED
        BY <2>s, <4>1
    <3> QED
      BY <1>1, <1>3, <2>1, <3>1, <3>3 DEF BringsNothingNew
  <2>2. CASE v # n
    <3>1. held /\ rollouts[g][v].state = rollouts'[g][v].state
      BY <1>9, <2>2
    <3>2. kind # "rollback"
      BY <3>1 DEF held, Held
    <3>3. BringsNothingNew(g, v)
      BY <3>1, <3>2 DEF GroupInv
    <3>4. content'[g][v] = content[g][v] /\ rollouts'[g][v].kind = rollouts[g][v].kind
      BY <1>4, <2>2
    <3> QED
      BY <2>s, <3>1, <3>3, <3>4 DEF BringsNothingNew
  <2> QED
    BY <2>1, <2>2
<1>13. RowsGrow(g)
  BY <1>1, <1>3, <1>4, <1>5, RowFacts DEF RowsGrow
<1>14. DecisionFits(g)' /\ ReadCompleted(g)'
  BY DEF RowFree, DecisionFits, ReadCompleted
<1> QED
  BY <1>6, <1>7, <1>8, <1>10, <1>11, <1>12, <1>13, <1>14 DEF GroupInv

\* A group a step leaves alone keeps its invariant, also when another group gets a new version.
LEMMA SameGroup ==
    ASSUME TypeOK, NEW g \in Groups, GroupInv(g),
           version' \in {version, version + 1},
           rollouts'[g] = rollouts[g], content'[g] = content[g], stable'[g] = stable[g],
           paused'[g] = paused[g], released'[g] = released[g],
           DecisionFits(g)', ReadCompleted(g)'
    PROVE  GroupInv(g)' /\ RowsGrow(g)
<1>1. \A n \in Versions : n <= version => n <= version'
  BY GroupTypes
<1> QED
  BY <1>1 DEF GroupInv, NewestIsLive, PendingWaits, ReleasedIsKept, BringsNothingNew, RowsGrow

\* A transaction in progress on a group that a step leaves alone still fits it.
LEMMA SameTransactions ==
    ASSUME NEW g \in Groups, GroupInv(g),
           rollouts'[g] = rollouts[g], paused'[g] = paused[g],
           driving'[g] = driving[g], seen'[g] = seen[g]
    PROVE  DecisionFits(g)' /\ ReadCompleted(g)'
BY DEF GroupInv, DecisionFits, ReadCompleted

\* What the controller decides fits the rollout it looked at.
LEMMA DecideFacts ==
    ASSUME TypeOK, NEW g \in Groups, GroupInv(g), NEW v \in Versions, Drive(g, v)
    PROVE  \E row \in Row, vouched \in SUBSET Engines :
             /\ driving' = [driving EXCEPT ![g] = [version |-> v, row |-> row, vouched |-> vouched]]
             /\ rollouts[g][v].state \in Open
             /\ rollouts[g][v].canaries \subseteq row.canaries
             /\ row.state \in Active \cup {"completed", "halted"}
             /\ row.state \in Active => ~paused[g]
             /\ row.state = "completed" => rollouts[g][v].state = "rolling"
             /\ row.state \in Active => rollouts[g][v].state # "rolling"
             /\ row.state = "canary" => rollouts[g][v].state = "pending"
             /\ row.state # "canary" => row.canaries = rollouts[g][v].canaries
             /\ UNCHANGED <<groupVars, rowVars, move, seen, streamVars, engineVars, faults, released>>
<1> DEFINE r == rollouts[g][v]
<1>t. r \in Row \cup {NoRow}
  BY GroupTypes
<1>p. /\ r.state = "pending" => r.kind = "change" /\ r.canaries = {}
      /\ paused[g] => r.state \notin {"canary", "verifying"}
  BY DEF GroupInv, PendingWaits, BringsNothingNew, Active
<1>u. ASSUME NEW state \in States, NEW C \in SUBSET Engines, r \in Row
      PROVE  /\ [r EXCEPT !.state = state] \in Row
             /\ [r EXCEPT !.state = state].state = state
             /\ [r EXCEPT !.state = state].canaries = r.canaries
             /\ [r EXCEPT !.state = state, !.canaries = C] \in Row
             /\ [r EXCEPT !.state = state, !.canaries = C].state = state
             /\ [r EXCEPT !.state = state, !.canaries = C].canaries = C
  BY <1>u DEF Row
<1>s. {"canary", "verifying", "rolling", "completed", "halted"} \subseteq States
  BY DEF States, Open, Active
<1>n. r.state # "none" => r \in Row
  BY <1>t, RowFacts
<1> HIDE DEF r
<1>0. \A S : Durable(Connected(Members(g))) \in SUBSET Engines /\ {} \in SUBSET Engines
  BY DEF Durable, Connected, Members
<1>1. CASE Start(g, v)
  <2>1. PICK C \in SelectCanaries(Members(g)) :
          Decides(g, v, IF r.kind # "change" \/ r.strategy = "all_at_once"
                        THEN [r EXCEPT !.state = "rolling"]
                        ELSE [r EXCEPT !.state = "canary", !.canaries = C], {})
    BY <1>1 DEF Start, r
  <2>2. C \in SUBSET Engines
    BY DEF SelectCanaries, Connected, Members
  <2>3. r.state = "pending" /\ ~(paused[g] /\ r.kind = "change")
    BY <1>1 DEF Start, r
  <2>4. CASE r.kind # "change" \/ r.strategy = "all_at_once"
    <3> DEFINE row == [r EXCEPT !.state = "rolling"]
    <3>1. row \in Row /\ row.state = "rolling" /\ row.canaries = r.canaries
      BY <1>n, <1>s, <1>u, <2>2, <2>3
    <3>2. Decides(g, v, row, {})
      BY <2>1, <2>4
    <3> HIDE DEF row
    <3> QED
      BY <1>0, <1>p, <2>3, <3>1, <3>2 DEF Decides, Open, Active, r
  <2>5. CASE ~(r.kind # "change" \/ r.strategy = "all_at_once")
    <3> DEFINE row == [r EXCEPT !.state = "canary", !.canaries = C]
    <3>1. row \in Row /\ row.state = "canary" /\ row.canaries = C
      BY <1>n, <1>s, <1>u, <2>2, <2>3
    <3>2. Decides(g, v, row, {})
      BY <2>1, <2>5
    <3> HIDE DEF row
    <3> QED
      BY <1>0, <1>p, <2>3, <3>1, <3>2 DEF Decides, Open, Active, r
  <2> QED
    BY <2>4, <2>5
<1>2. CASE CanariesApplied(g, v)
  <2> DEFINE row == [r EXCEPT !.state = "verifying"]
  <2>1. r.state = "canary"
    BY <1>2 DEF CanariesApplied, Active, r
  <2>2. row \in Row /\ row.state = "verifying" /\ row.canaries = r.canaries
    <3>1. {} \in SUBSET Engines
      OBVIOUS
    <3> QED
      BY <1>n, <1>s, <1>u, <2>1, <3>1 DEF Active
  <2>3. PICK vouched \in SUBSET Engines : Decides(g, v, row, vouched)
    BY <1>0, <1>2 DEF CanariesApplied, r
  <2> HIDE DEF row
  <2> QED
    BY <1>p, <2>1, <2>2, <2>3 DEF Decides, Open, Active, r
<1>3. CASE HealthPassed(g, v)
  <2> DEFINE row == [r EXCEPT !.state = "rolling"]
  <2>1. r.state = "verifying"
    BY <1>3 DEF HealthPassed, Active, r
  <2>2. row \in Row /\ row.state = "rolling" /\ row.canaries = r.canaries
    <3>1. {} \in SUBSET Engines
      OBVIOUS
    <3> QED
      BY <1>n, <1>s, <1>u, <2>1, <3>1 DEF Active
  <2>3. PICK vouched \in SUBSET Engines : Decides(g, v, row, vouched)
    BY <1>0, <1>3 DEF HealthPassed, r
  <2> HIDE DEF row
  <2> QED
    BY <1>p, <2>1, <2>2, <2>3 DEF Decides, Open, Active, r
<1>4. CASE Complete(g, v)
  <2> DEFINE row == [r EXCEPT !.state = "completed"]
  <2>1. r.state = "rolling"
    BY <1>4 DEF Complete, Active, r
  <2>2. row \in Row /\ row.state = "completed" /\ row.canaries = r.canaries
    <3>1. {} \in SUBSET Engines
      OBVIOUS
    <3> QED
      BY <1>n, <1>s, <1>u, <2>1, <3>1 DEF Active
  <2>3. PICK vouched \in SUBSET Engines : Decides(g, v, row, vouched)
    BY <1>0, <1>4 DEF Complete, r
  <2> HIDE DEF row
  <2> QED
    BY <1>p, <2>1, <2>2, <2>3 DEF Decides, Open, Active, r
<1>5. CASE Halt(g, v)
  <2> DEFINE row == [r EXCEPT !.state = "halted"]
  <2>1. r.state \in Active
    BY <1>5 DEF Halt, Active, r
  <2>2. row \in Row /\ row.state = "halted" /\ row.canaries = r.canaries
    <3>1. {} \in SUBSET Engines
      OBVIOUS
    <3> QED
      BY <1>n, <1>s, <1>u, <2>1, <3>1 DEF Active
  <2>3. PICK vouched \in SUBSET Engines : Decides(g, v, row, vouched)
    BY <1>0, <1>5 DEF Halt, r
  <2> HIDE DEF row
  <2> QED
    BY <1>p, <2>1, <2>2, <2>3 DEF Decides, Open, Active, r
<1> QED
  BY <1>1, <1>2, <1>3, <1>4, <1>5 DEF Drive

\* What the controller writes, from what it decided.
LEMMA CommitFacts ==
    ASSUME TypeOK, NEW g \in Groups, GroupInv(g), DriveCommit(g)
    PROVE  \E v \in Versions, row \in Row :
             /\ rollouts' = [rollouts EXCEPT ![g][v] = row]
             /\ rollouts[g][v].state \in Open
             /\ rollouts[g][v].canaries \subseteq row.canaries
             /\ row.state \in Active \cup {"completed", "halted"}
             /\ row.state \in Active => ~paused[g]
             /\ row.state = "completed" => rollouts[g][v].state = "rolling"
             /\ row.state \in Active => rollouts[g][v].state # "rolling"
             /\ row.state = "canary" => rollouts[g][v].state = "pending"
             /\ row.state # "canary" => row.canaries = rollouts[g][v].canaries
             /\ stable' = [stable EXCEPT ![g] =
                             IF row.state = "completed" /\ stable[g] < v THEN v ELSE stable[g]]
             /\ driving' = [driving EXCEPT ![g] = NoDrive]
             /\ Release
             /\ UNCHANGED <<version, content, paused, strategy, rowVars, move, seen, streamVars,
                            engineVars, faults>>
<1>1. driving[g] \in Decision
  BY DEF TypeOK, DriveCommit
<1>2. driving[g].version \in Versions /\ driving[g].row \in Row
  BY <1>1 DEF Decision
<1> QED
  BY <1>2 DEF DriveCommit, GroupInv, DecisionFits

\* A step of the controller keeps the invariant of the group.
LEMMA DriveStep ==
    ASSUME TypeOK, NEW g \in Groups, GroupInv(g), DriveCommit(g)
    PROVE  GroupInv(g)' /\ RowsGrow(g)
<1>1. PICK v \in Versions, row \in Row :
        /\ rollouts' = [rollouts EXCEPT ![g][v] = row]
        /\ rollouts[g][v].state \in Open
        /\ rollouts[g][v].canaries \subseteq row.canaries
        /\ row.state \in Active \cup {"completed", "halted"}
        /\ row.state \in Active => ~paused[g]
        /\ row.state = "completed" => rollouts[g][v].state = "rolling"
        /\ row.state \in Active => rollouts[g][v].state # "rolling"
        /\ row.state = "canary" => rollouts[g][v].state = "pending"
        /\ row.state # "canary" => row.canaries = rollouts[g][v].canaries
        /\ stable' = [stable EXCEPT ![g] =
                        IF row.state = "completed" /\ stable[g] < v THEN v ELSE stable[g]]
        /\ driving' = [driving EXCEPT ![g] = NoDrive]
        /\ Release
        /\ UNCHANGED <<version, content, paused, seen>>
  BY CommitFacts
<1>2. /\ rollouts'[g][v] = row
      /\ \A w \in Versions : w # v => rollouts'[g][w] = rollouts[g][w]
  BY <1>1 DEF TypeOK
<1>3. released'[g] = released[g] \cup {w \in Versions : rollouts'[g][w].state = "rolling"}
  BY <1>1 DEF Release
<1>4. /\ v \in Nat /\ stable[g] \in Nat /\ v >= 1
      /\ stable'[g] = IF row.state = "completed" /\ stable[g] < v THEN v ELSE stable[g]
  BY <1>1, GroupTypes DEF TypeOK
<1>5. rollouts[g][v] # NoRow /\ row # NoRow
  BY <1>1, RowFacts DEF Open, Active
<1>6. NewestIsLive(g)'
  BY <1>1, <1>2, <1>5, GroupTypes DEF GroupInv, NewestIsLive, Active
<1>7. row.state \in Active => \A w \in Versions : w # v => rollouts[g][w].state \notin Active
  BY <1>1 DEF GroupInv, PendingWaits, Open, Active
<1>8. PendingWaits(g)'
  BY <1>1, <1>2 DEF GroupInv, PendingWaits, Open, Active
<1>9. ReleasedIsKept(g)'
  <2>1. \A w \in Versions : rollouts'[g][w].state \in {"rolling", "completed"} => w \in released'[g]
    BY <1>1, <1>2, <1>3 DEF GroupInv, ReleasedIsKept
  <2>2. stable'[g] \in Versions /\ rollouts'[g][stable'[g]].state = "completed"
    BY <1>1, <1>2, <1>4 DEF GroupInv, ReleasedIsKept, Open, Active
  <2> QED
    BY <2>1, <2>2 DEF ReleasedIsKept
<1>10. \A x, w \in Versions :
         (rollouts'[g][x].state \in Active /\ rollouts'[g][w].state \in Active) => x = w
  BY <1>2, <1>7 DEF GroupInv
<1>11. \A w \in Versions : rollouts'[g][w].state = "completed" => w <= stable'[g]
  BY <1>2, <1>4, GroupTypes DEF GroupInv
<1>c. \A w \in Versions :
        rollouts[g][w].state = "completed" => rollouts'[g][w].state = "completed"
  BY <1>1, <1>2 DEF Open, Active
<1>12. \A w \in Versions : paused'[g] /\ rollouts'[g][w].state \in Active => BringsNothingNew(g, w)'
  <2> SUFFICES ASSUME NEW w \in Versions, paused'[g], rollouts'[g][w].state \in Active
               PROVE  BringsNothingNew(g, w)'
    OBVIOUS
  <2>1. w # v /\ rollouts'[g][w] = rollouts[g][w]
    BY <1>1, <1>2
  <2>2. BringsNothingNew(g, w)
    BY <1>1, <2>1 DEF GroupInv
  <2> QED
    BY <1>1, <1>c, <2>1, <2>2 DEF BringsNothingNew
<1>13. RowsGrow(g)
  BY <1>1, <1>2, <1>3, <1>5 DEF RowsGrow
<1>14. DecisionFits(g)'
  <2>1. driving'[g] = NoDrive
    BY <1>1 DEF TypeOK
  <2> QED
    BY <2>1 DEF DecisionFits
<1>15. ReadCompleted(g)'
  BY <1>1, <1>c DEF GroupInv, ReadCompleted
<1> QED
  BY <1>6, <1>8, <1>9, <1>10, <1>11, <1>12, <1>13, <1>14, <1>15 DEF GroupInv

\* The invariant, group by group.
LEMMA InvByGroup ==
    RolloutInv <=> /\ TypeOK
                   /\ \A g \in Groups : GroupInv(g)
                   /\ \A e \in Engines : EngineIsCleared(e)
                   /\ CanaryContainment
<1>1. ASSUME RolloutInv, NEW g \in Groups
      PROVE  GroupInv(g)
  BY <1>1 DEF RolloutInv, GroupInv, OneActiveRollout, StableIsNewestCompleted, PausedHoldsChanges
<1>2. ASSUME TypeOK, \A g \in Groups : GroupInv(g)
      PROVE  OneActiveRollout /\ StableIsNewestCompleted /\ PausedHoldsChanges
  BY <1>2 DEF GroupInv, ReleasedIsKept, OneActiveRollout, StableIsNewestCompleted, PausedHoldsChanges
<1>3. ASSUME \A g \in Groups : GroupInv(g)
      PROVE  \A g \in Groups : /\ NewestIsLive(g) /\ PendingWaits(g) /\ ReleasedIsKept(g)
                                /\ DecisionFits(g) /\ ReadCompleted(g)
  BY <1>3 DEF GroupInv
<1> QED
  BY <1>1, <1>2, <1>3 DEF RolloutInv

\* The same after a step.
LEMMA InvFromGroups ==
    ASSUME TypeOK', \A g \in Groups : GroupInv(g)', \A e \in Engines : EngineIsCleared(e)',
           CanaryContainment'
    PROVE  RolloutInv'
<1>1. OneActiveRollout' /\ StableIsNewestCompleted' /\ PausedHoldsChanges'
  BY DEF GroupInv, ReleasedIsKept, OneActiveRollout, StableIsNewestCompleted, PausedHoldsChanges
<1>2. \A g \in Groups : (/\ NewestIsLive(g) /\ PendingWaits(g) /\ ReleasedIsKept(g)
                          /\ DecisionFits(g) /\ ReadCompleted(g))'
  BY DEF GroupInv
<1> QED
  BY <1>1, <1>2 DEF RolloutInv

\* Latest picks the group's newest snapshot.
LEMMA LatestIsNewest ==
    ASSUME TypeOK, NEW g \in Groups, GroupInv(g)
    PROVE  /\ Live(g) # {}
           /\ Latest(g) \in Versions
           /\ Latest(g) <= version
           /\ rollouts[g][Latest(g)].state \notin {"none", "superseded", "rolled_back"}
           /\ \A w \in Versions :
                w > Latest(g) => rollouts[g][w] = NoRow /\ content[g][w] = NoContent
<1>1. PICK n \in Versions :
        /\ n <= version
        /\ rollouts[g][n].state \notin {"none", "superseded", "rolled_back"}
        /\ \A w \in Versions : w > n => rollouts[g][w] = NoRow /\ content[g][w] = NoContent
  BY DEF GroupInv, NewestIsLive
<1>2. n \in Live(g) /\ \A w \in Live(g) : w <= n
  BY <1>1, RowFacts, GroupTypes DEF Live
<1>3. Latest(g) \in Live(g) /\ \A w \in Live(g) : w <= Latest(g)
  BY <1>2 DEF Latest
<1>4. Latest(g) = n
  BY <1>2, <1>3, GroupTypes DEF Live
<1> QED
  BY <1>1, <1>2, <1>4

\* The target of an engine is a version of its group that it may have: released to the group, or
\* one it is a canary of.
LEMMA TargetIsAllowed ==
    ASSUME RolloutInv, NEW e \in Engines
    PROVE  /\ Target(e) \in Versions
           /\ Target(e) <= version
           /\ \/ Target(e) \in released[engineGroup[e]]
              \/ e \in rollouts[engineGroup[e]][Target(e)].canaries
<1> DEFINE g == engineGroup[e]
           n == Latest(g)
<1>1. TypeOK /\ g \in Groups /\ GroupInv(g) /\ Cleared(e, applied[e])
  BY InvByGroup DEF TypeOK, EngineIsCleared
<1>2. /\ Live(g) # {} /\ n \in Versions /\ n <= version
      /\ rollouts[g][n].state \notin {"none", "superseded", "rolled_back"}
      /\ \A w \in Versions : w > n => rollouts[g][w] = NoRow
  BY <1>1, LatestIsNewest
<1>3. stable[g] \in Versions /\ stable[g] \in released[g]
  BY <1>1 DEF GroupInv, ReleasedIsKept
<1>4. stable[g] <= n
  BY <1>1, <1>2, <1>3, RowFacts, GroupTypes DEF GroupInv, ReleasedIsKept
<1>5. CASE rollouts[g][n].state \in {"rolling", "completed"}
  BY <1>1, <1>2, <1>5 DEF Target, GroupInv, ReleasedIsKept
<1>6. CASE rollouts[g][n].state \in {"canary", "verifying"} /\ e \in rollouts[g][n].canaries
  BY <1>2, <1>6 DEF Target
<1>7. CASE rollouts[g][n].state = "halted" /\ applied[e] = n
  <2>1. n \in released[g] \/ e \in rollouts[g][n].canaries
    BY <1>1, <1>2, <1>7, GroupTypes DEF Cleared
  <2> QED
    BY <1>2, <1>7, <2>1 DEF Target
<1>8. CASE /\ rollouts[g][n].state \notin {"rolling", "completed"}
           /\ ~(rollouts[g][n].state \in {"canary", "verifying"} /\ e \in rollouts[g][n].canaries)
           /\ ~(rollouts[g][n].state = "halted" /\ applied[e] = n)
  <2>1. Target(e) = stable[g]
    BY <1>2, <1>8 DEF Target
  <2> QED
    BY <1>1, <1>2, <1>3, <1>4, <2>1, GroupTypes
<1> QED
  BY <1>5, <1>6, <1>7, <1>8
----------------------------------------------------------------------------
(* Type correctness.                                                          *)

\* Create returns rows for every version.
LEMMA CreateTypes ==
    ASSUME TypeOK, NEW g \in Groups, NEW v \in Versions, NEW kind \in Kinds,
           NEW immediate \in BOOLEAN, NEW p \in BOOLEAN, NEW s \in Strategies
    PROVE  Create(g, v, kind, immediate, p, s) \in [Versions -> Row \cup {NoRow}]
<1>1. Held(kind, immediate, p) \in BOOLEAN
  BY NewRowFacts
<1>2. NewRow(kind, immediate, Held(kind, immediate, p), s) \in Row
  BY NewRowFacts
<1>3. \A w \in Versions :
        Retired(rollouts[g][w], kind, Held(kind, immediate, p)) \in Row \cup {NoRow}
  BY <1>1, GroupTypes, RetiredFacts
<1> QED
  BY <1>2, <1>3 DEF Create

\* The empty values have their types.
LEMMA EmptyTypes ==
    /\ NoReply \in Reply /\ NoReply.version = 0
    /\ Nothing.version = 0 /\ Nothing \notin Snapshot
    /\ \A e \in Engines : Nothing \in Snapshot \cup {Nothing}
BY ConstantsAssumption DEF NoReply, Reply, Nothing, Snapshot, Versions

\* Publishing for every group.
LEMMA PublishTypes ==
    ASSUME TypeOK, NEW cs \in [Groups -> Contents], NEW p \in [Groups -> BOOLEAN],
           NEW s \in [Groups -> Strategies], PublishAll(cs, p, s)
    PROVE  TypeOK'
<1>1. version' \in Versions /\ version + 1 \in Versions
  BY ConstantsAssumption DEF TypeOK, PublishAll, Versions
<1>2. content' \in [Groups -> [Versions -> Contents \cup {NoContent}]]
  BY <1>1 DEF TypeOK, PublishAll
<1>3. \A g \in Groups :
        Create(g, version + 1, "change", Immediate(g, cs[g]), p[g], s[g])
          \in [Versions -> Row \cup {NoRow}]
  <2> SUFFICES ASSUME NEW g \in Groups
               PROVE  Create(g, version + 1, "change", Immediate(g, cs[g]), p[g], s[g])
                        \in [Versions -> Row \cup {NoRow}]
    OBVIOUS
  <2>1. "change" \in Kinds /\ Immediate(g, cs[g]) \in BOOLEAN /\ p[g] \in BOOLEAN /\ s[g] \in Strategies
    BY DEF Kinds, Immediate
  <2> QED
    BY <1>1, <2>1, CreateTypes
<1>4. rollouts' \in [Groups -> [Versions -> Row \cup {NoRow}]]
  BY <1>3 DEF PublishAll
<1>5. released' \in [Groups -> SUBSET Versions]
  BY DEF PublishAll, Release, TypeOK
<1>6. seen' \in [Groups -> {Unread} \cup 0..MaxVersion]
  BY DEF PublishAll
<1> QED
  BY <1>1, <1>2, <1>4, <1>5, <1>6 DEF TypeOK, PublishAll, rowVars, streamVars, engineVars

\* Republishing for one group.
LEMMA RepublishTypes ==
    ASSUME TypeOK, NEW g \in Groups, NEW from \in Versions, NEW kind \in Kinds,
           Republish(g, from, kind)
    PROVE  /\ version' \in Versions /\ version + 1 \in Versions
           /\ content' \in [Groups -> [Versions -> Contents \cup {NoContent}]]
           /\ rollouts' \in [Groups -> [Versions -> Row \cup {NoRow}]]
           /\ stable' \in [Groups -> 0..MaxVersion]
           /\ paused' \in [Groups -> BOOLEAN]
           /\ strategy' \in [Groups -> Strategies]
           /\ released' \in [Groups -> SUBSET Versions]
           /\ seen' \in [Groups -> {Unread} \cup 0..MaxVersion]
           /\ driving' \in [Groups -> Decision \cup {NoDrive}]
<1>1. version' \in Versions /\ version + 1 \in Versions
  BY ConstantsAssumption DEF TypeOK, Republish, Versions
<1>2. content' \in [Groups -> [Versions -> Contents \cup {NoContent}]]
  BY <1>1 DEF TypeOK, Republish
<1>3. Create(g, version + 1, kind, TRUE, paused[g], strategy[g]) \in [Versions -> Row \cup {NoRow}]
  BY <1>1, CreateTypes, GroupTypes
<1>4. rollouts' \in [Groups -> [Versions -> Row \cup {NoRow}]]
  BY <1>3 DEF Republish, TypeOK
<1>5. released' \in [Groups -> SUBSET Versions] /\ paused' \in [Groups -> BOOLEAN]
  BY DEF Republish, Release, TypeOK
<1> QED
  BY <1>1, <1>2, <1>4, <1>5 DEF Republish, TypeOK

\* Every publishing operation.
LEMMA PublishingTypes ==
    ASSUME RolloutInv, Publishing
    PROVE  TypeOK'
<1>t. TypeOK
  BY DEF RolloutInv
<1>1. ASSUME NEW cs \in [Groups -> Contents], Mutate(cs)
      PROVE  TypeOK'
  BY <1>1, <1>t, PublishTypes DEF Mutate, TypeOK
<1>2. ASSUME NEW cs \in [Groups -> Contents], NEW g \in Groups, ResumeEngineGroupRollouts(g, cs)
      PROVE  TypeOK'
  <2>1. [paused EXCEPT ![g] = FALSE] \in [Groups -> BOOLEAN] /\ strategy \in [Groups -> Strategies]
    BY <1>t DEF TypeOK
  <2> QED
    BY <1>2, <1>t, <2>1, PublishTypes DEF ResumeEngineGroupRollouts
<1>3. ASSUME NEW cs \in [Groups -> Contents], NEW g \in Groups, NEW s \in Strategies,
             UpdateEngineGroup(g, s, cs)
      PROVE  TypeOK'
  <2>1. [strategy EXCEPT ![g] = s] \in [Groups -> Strategies] /\ paused \in [Groups -> BOOLEAN]
    BY <1>t DEF TypeOK
  <2> QED
    BY <1>3, <1>t, <2>1, PublishTypes DEF UpdateEngineGroup
<1>4. ASSUME NEW g \in Groups, NEW to \in Versions, RollbackEngineGroup(g, to)
      PROVE  TypeOK'
  <2>1. "rollback" \in Kinds
    BY DEF Kinds
  <2> QED
    BY <1>4, <1>t, <2>1, RepublishTypes
       DEF RollbackEngineGroup, TypeOK, rowVars, streamVars, engineVars
<1>5. ASSUME NEW e \in Engines, NEW g \in Groups, UpdateEngineRead(e, g)
      PROVE  TypeOK'
  <2>1. MoveSource(g) \in Versions
    BY <1>t, GroupTypes DEF RolloutInv, ReleasedIsKept, MoveSource
  <2>2. move' \in [engine : Engines, group : Groups, from : Versions]
    BY <1>5, <2>1 DEF UpdateEngineRead
  <2> QED
    BY <1>5, <1>t, <2>2
       DEF UpdateEngineRead, TypeOK, groupVars, rowVars, streamVars, engineVars
<1>6. CASE UpdateEngineCommit
  <2>1. move.engine \in Engines /\ move.group \in Groups /\ move.from \in Versions
    BY <1>6, <1>t DEF UpdateEngineCommit, TypeOK
  <2>2. "republish" \in Kinds
    BY DEF Kinds
  <2>3. engineGroup' \in [Engines -> Groups] /\ move' = NoMove
    BY <1>6, <1>t, <2>1 DEF UpdateEngineCommit, TypeOK
  <2> QED
    BY <1>6, <1>t, <2>1, <2>2, <2>3, RepublishTypes
       DEF UpdateEngineCommit, TypeOK, streamVars, engineVars
<1>7. CASE UpdateEngineAbort
  BY <1>7, <1>t DEF UpdateEngineAbort, TypeOK, groupVars, rowVars, streamVars, engineVars
<1>8. ASSUME NEW g \in Groups, PublishRead(g)
      PROVE  TypeOK'
  BY <1>8, <1>t DEF PublishRead, TypeOK, groupVars, rowVars, streamVars, engineVars
<1>9. CASE PublishAbort
  BY <1>9, <1>t DEF PublishAbort, TypeOK, groupVars, rowVars, streamVars, engineVars
<1> QED
  BY <1>1, <1>2, <1>3, <1>4, <1>5, <1>6, <1>7, <1>8, <1>9 DEF Publishing

\* A step of the controller.
LEMMA DriveTypes ==
    ASSUME RolloutInv, NEW g \in Groups, Control(g) \/ DriveFails(g)
    PROVE  TypeOK'
<1>1. TypeOK /\ GroupInv(g)
  BY InvByGroup
<1>2. ASSUME NEW v \in Versions, Drive(g, v)
      PROVE  TypeOK'
  <2>1. PICK row \in Row, vouched \in SUBSET Engines :
          /\ driving' = [driving EXCEPT ![g] = [version |-> v, row |-> row, vouched |-> vouched]]
          /\ UNCHANGED <<groupVars, rowVars, move, seen, streamVars, engineVars, faults, released>>
    BY <1>1, <1>2, DecideFacts
  <2>2. [version |-> v, row |-> row, vouched |-> vouched] \in Decision
    BY DEF Decision
  <2> QED
    BY <1>1, <2>1, <2>2 DEF TypeOK, groupVars, rowVars, streamVars, engineVars
<1>3. CASE DriveCommit(g)
  <2>1. PICK v \in Versions, row \in Row :
          /\ rollouts' = [rollouts EXCEPT ![g][v] = row]
          /\ stable' = [stable EXCEPT ![g] =
                          IF row.state = "completed" /\ stable[g] < v THEN v ELSE stable[g]]
          /\ driving' = [driving EXCEPT ![g] = NoDrive]
          /\ Release
          /\ UNCHANGED <<version, content, paused, strategy, rowVars, move, seen, streamVars,
                         engineVars, faults>>
    BY <1>1, <1>3, CommitFacts
  <2>2. rollouts' \in [Groups -> [Versions -> Row \cup {NoRow}]]
    BY <1>1, <2>1 DEF TypeOK
  <2>3. stable' \in [Groups -> 0..MaxVersion]
    <3>1. v \in 0..MaxVersion /\ stable \in [Groups -> 0..MaxVersion]
      BY <1>1, ConstantsAssumption DEF TypeOK, Versions
    <3> QED
      BY <2>1, <3>1
  <2>4. released' \in [Groups -> SUBSET Versions] /\ driving' \in [Groups -> Decision \cup {NoDrive}]
    BY <1>1, <2>1 DEF TypeOK, Release
  <2> QED
    BY <1>1, <2>1, <2>2, <2>3, <2>4 DEF TypeOK, rowVars, streamVars, engineVars
<1>4. CASE DriveFails(g)
  <2>1. faults' \in 0..MaxFaults
    BY <1>1, <1>4, ConstantsAssumption DEF DriveFails, Fault, TypeOK
  <2> QED
    BY <1>1, <1>4, <2>1 DEF DriveFails, TypeOK, groupVars, rowVars, streamVars, engineVars
<1> QED
  BY <1>2, <1>3, <1>4 DEF Control

\* A step of a stream or of an engine.
LEMMA StreamingTypes ==
    ASSUME RolloutInv, NEW e \in Engines, Streaming(e)
    PROVE  TypeOK'
<1>t. TypeOK
  BY DEF RolloutInv
<1>f. ASSUME Fault PROVE faults' \in 0..MaxFaults
  BY <1>f, <1>t, ConstantsAssumption DEF Fault, TypeOK
<1>r. running[e].version \in 0..MaxVersion
  <2>1. running[e] \in Snapshot \cup {Nothing}
    BY <1>t DEF TypeOK
  <2> QED
    BY <2>1, EmptyTypes, ConstantsAssumption DEF Snapshot, Versions
<1> USE <1>t, EmptyTypes DEF TypeOK, groupVars, rowVars, txVars, streamVars, engineVars
<1>1. CASE RevokeEngine(e)
  BY <1>1 DEF RevokeEngine
<1>2. CASE Connect(e)
  BY <1>2, <1>r DEF Connect
<1>3. CASE Push(e)
  <2>1. Target(e) \in Versions
    BY TargetIsAllowed
  <2>2. [group |-> engineGroup[e], version |-> Target(e)] \in Snapshot /\ Target(e) \in 0..MaxVersion
    BY <2>1, ConstantsAssumption DEF Snapshot, Versions
  <2> QED
    BY <1>3, <2>2 DEF Push
<1>4. CASE Send(e)
  BY <1>4 DEF Send
<1>5. CASE Disconnect(e)
  BY <1>5, <1>f DEF Disconnect
<1>6. CASE ConnectionLapses(e)
  BY <1>6, <1>f DEF ConnectionLapses
<1>7. CASE HeartbeatResumes(e)
  BY <1>7 DEF HeartbeatResumes
<1>8. CASE HandleReply(e)
  <2>1. reply[e].version \in 0..MaxVersion /\ reply[e].persistError \in BOOLEAN
    BY DEF Reply
  <2>2. 0 \in 0..MaxVersion
    BY ConstantsAssumption
  <2> QED
    BY <1>8, <2>1, <2>2 DEF HandleReply
<1>9. ASSUME NEW written \in BOOLEAN, ApplySnapshot(e, written)
      PROVE  TypeOK'
  <2>1. wire[e] \in Snapshot
    BY <1>9 DEF ApplySnapshot
  <2>2. [type |-> "applied", version |-> wire[e].version, persistError |-> ~written] \in Reply
    BY <2>1, ConstantsAssumption DEF Reply, Snapshot, Versions
  <2>3. faults' \in 0..MaxFaults
    BY <1>9, <1>f DEF ApplySnapshot
  <2>4. running' \in [Engines -> Snapshot \cup {Nothing}] /\ disk' \in [Engines -> Snapshot \cup {Nothing}]
    BY <1>9, <2>1 DEF ApplySnapshot
  <2> QED
    BY <1>9, <2>2, <2>3, <2>4 DEF ApplySnapshot, Answers
<1>10. CASE RejectSnapshot(e)
  <2>1. wire[e] \in Snapshot
    BY <1>10 DEF RejectSnapshot
  <2>2. [type |-> "rejected", version |-> wire[e].version, persistError |-> FALSE] \in Reply
    BY <2>1, ConstantsAssumption DEF Reply, Snapshot, Versions
  <2> QED
    BY <1>10, <1>f, <2>2 DEF RejectSnapshot, Answers
<1>11. CASE Restart(e)
  BY <1>11, <1>f DEF Restart
<1> QED
  BY <1>1, <1>2, <1>3, <1>4, <1>5, <1>6, <1>7, <1>8, <1>9, <1>10, <1>11 DEF Streaming
----------------------------------------------------------------------------
(* The inductive invariant.                                                   *)

\* What engines have keeps being allowed when groups only grow and no engine moves.
LEMMA EnginesKept ==
    ASSUME RolloutInv, TypeOK', version' \in {version, version + 1}, \A g \in Groups : RowsGrow(g),
           UNCHANGED <<engineGroup, applied, out, wire, reply, running, disk>>
    PROVE  (\A e \in Engines : EngineIsCleared(e)') /\ CanaryContainment'
<1>1. TypeOK
  BY DEF RolloutInv
<1>2. ASSUME NEW e \in Engines, NEW v, Cleared(e, v)
      PROVE  Cleared(e, v)'
  <2>1. engineGroup[e] \in Groups /\ (v = 0 \/ (v \in 1..version' /\ v \in Versions))
    BY <1>1, <1>2, ConstantsAssumption DEF TypeOK, Cleared, Versions
  <2>2. RowsGrow(engineGroup[e])
    BY <2>1
  <2> QED
    BY <1>2, <2>1, <2>2 DEF Cleared, RowsGrow
<1>3. \A e \in Engines : EngineIsCleared(e)'
  BY <1>2 DEF RolloutInv, EngineIsCleared
<1>4. ASSUME NEW e \in Engines, NEW s \in {out[e], wire[e], running[e], disk[e]}, s # Nothing
      PROVE  s.version \in released'[s.group] \/ e \in rollouts'[s.group][s.version].canaries
  <2>1. s \in Snapshot
    BY <1>1, <1>4 DEF TypeOK
  <2>2. s.group \in Groups /\ s.version \in Versions
    BY <2>1 DEF Snapshot
  <2>3. s.version \in released[s.group] \/ e \in rollouts[s.group][s.version].canaries
    BY <1>4 DEF RolloutInv, CanaryContainment
  <2> QED
    BY <2>2, <2>3 DEF RowsGrow
<1> QED
  BY <1>3, <1>4 DEF CanaryContainment

\* A step that republishes nothing and changes no group hands an engine only what it had, what was
\* on its way to it, or its target.
LEMMA EngineStep ==
    ASSUME RolloutInv, TypeOK', UNCHANGED <<groupVars, engineGroup, released>>,
           \A g \in Groups : DecisionFits(g)' /\ ReadCompleted(g)',
           \A e \in Engines :
             /\ \A s \in {out'[e], wire'[e], running'[e], disk'[e]} :
                  \/ s \in {Nothing, out[e], wire[e], running[e], disk[e]}
                  \/ s = [group |-> engineGroup[e], version |-> Target(e)]
             /\ reply'[e].version \in {0, reply[e].version, wire[e].version}
             /\ applied'[e] \in {applied[e], reply[e].version}
    PROVE  RolloutInv'
<1> USE DEF groupVars
<1>t. TypeOK
  BY DEF RolloutInv
<1>1. ASSUME NEW g \in Groups
      PROVE  GroupInv(g)'
  BY <1>1, <1>t, InvByGroup, SameGroup
<1>2. ASSUME NEW e \in Engines
      PROVE  Cleared(e, Target(e))
  BY <1>2, TargetIsAllowed, <1>t, ConstantsAssumption DEF Cleared, TypeOK, Versions
<1>3. ASSUME NEW e \in Engines, NEW v, Cleared(e, v)
      PROVE  Cleared(e, v)'
  BY <1>3 DEF Cleared
<1>4. ASSUME NEW e \in Engines
      PROVE  EngineIsCleared(e)'
  <2>1. \A s \in {Nothing, out[e], wire[e], running[e], disk[e]} : Cleared(e, s.version)
    BY EmptyTypes DEF RolloutInv, EngineIsCleared, Cleared
  <2>2. ASSUME NEW s \in {out'[e], wire'[e], running'[e], disk'[e]}
        PROVE  Cleared(e, s.version)
    <3>1. CASE s \in {Nothing, out[e], wire[e], running[e], disk[e]}
      BY <2>1, <3>1
    <3>2. CASE s = [group |-> engineGroup[e], version |-> Target(e)]
      <4>1. s.version = Target(e)
        BY <3>2
      <4> QED
        BY <1>2, <4>1
    <3> QED
      BY <3>1, <3>2
  <2>3. Cleared(e, reply'[e].version) /\ Cleared(e, applied'[e])
    BY DEF RolloutInv, EngineIsCleared, Cleared
  <2> QED
    BY <1>3, <2>2, <2>3 DEF EngineIsCleared
<1>5. CanaryContainment'
  <2> SUFFICES ASSUME NEW e \in Engines, NEW s \in {out'[e], wire'[e], running'[e], disk'[e]},
                      s # Nothing
               PROVE  s.version \in released[s.group] \/ e \in rollouts[s.group][s.version].canaries
    BY DEF CanaryContainment
  <2>1. CASE s \in {Nothing, out[e], wire[e], running[e], disk[e]}
    BY <2>1 DEF RolloutInv, CanaryContainment
  <2>2. CASE s = [group |-> engineGroup[e], version |-> Target(e)]
    BY <2>2, TargetIsAllowed
  <2> QED
    BY <2>1, <2>2
<1> QED
  BY <1>1, <1>4, <1>5, InvFromGroups

\* Publishing for every group keeps the invariant.
LEMMA PublishStep ==
    ASSUME RolloutInv, TypeOK', NEW cs \in [Groups -> Contents], NEW p \in [Groups -> BOOLEAN],
           NEW s \in [Groups -> Strategies], \A g \in Groups : p[g] => paused[g],
           PublishAll(cs, p, s)
    PROVE  RolloutInv'
<1>1. ASSUME NEW g \in Groups
      PROVE  GroupInv(g)' /\ RowsGrow(g)
  <2>1. TypeOK /\ GroupInv(g) /\ version \in Nat
    BY InvByGroup, GroupTypes
  <2>2. /\ version < MaxVersion /\ version' = version + 1
        /\ rollouts'[g] = Create(g, version + 1, "change", Immediate(g, cs[g]), p[g], s[g])
        /\ stable'[g] = stable[g] /\ paused'[g] = p[g]
        /\ RowFree(g) /\ seen[g] # Unread /\ seen'[g] = Unread /\ driving'[g] = driving[g]
    BY DEF PublishAll
  <2>3. \A w \in Versions : w # version + 1 => content'[g][w] = content[g][w]
    BY <2>1 DEF PublishAll, TypeOK
  <2>4. released'[g] = released[g] \cup {v \in Versions : rollouts'[g][v].state = "rolling"}
    BY DEF PublishAll, Release
  <2>5. "change" \in Kinds /\ Immediate(g, cs[g]) \in BOOLEAN /\ p[g] \in BOOLEAN /\ s[g] \in Strategies
    BY DEF Kinds, Immediate
  <2>6. Immediate(g, cs[g]) =>
          \E w \in Versions : /\ rollouts[g][w].state = "completed"
                               /\ content[g][w] = content'[g][version + 1]
    <3>1. content'[g][version + 1] = cs[g]
      BY <2>1, <2>2, ConstantsAssumption DEF PublishAll, TypeOK, Versions
    <3>2. seen[g] \in Versions /\ rollouts[g][seen[g]].state = "completed"
      BY <2>1, <2>2 DEF GroupInv, ReadCompleted
    <3> QED
      BY <3>1, <3>2 DEF Immediate
  <2> QED
    BY <2>1, <2>2, <2>3, <2>4, <2>5, <2>6, CreateStep
<1>2. (\A e \in Engines : EngineIsCleared(e)') /\ CanaryContainment'
  BY <1>1, EnginesKept DEF PublishAll, rowVars, streamVars, engineVars
<1> QED
  BY <1>1, <1>2, InvFromGroups

\* Republishing keeps the invariant of every group, and the group has a row of the new version.
LEMMA RepublishStep ==
    ASSUME RolloutInv, NEW g \in Groups, NEW from \in Versions, NEW kind \in {"rollback", "republish"},
           Republish(g, from, kind), NEW k \in Groups
    PROVE  /\ GroupInv(k)' /\ RowsGrow(k)
           /\ rollouts'[g][version + 1] # NoRow
<1>1. TypeOK /\ GroupInv(g) /\ GroupInv(k) /\ version \in Nat /\ version + 1 \in Versions /\ kind \in Kinds
  BY InvByGroup, GroupTypes, ConstantsAssumption DEF Republish, Versions, Kinds
<1>2. /\ version < MaxVersion /\ version' = version + 1
      /\ rollouts'[g] = Create(g, version + 1, kind, TRUE, paused[g], strategy[g])
      /\ \A j \in Groups : released'[j] = released[j] \cup {v \in Versions : rollouts'[j][v].state = "rolling"}
      /\ stable' = stable
      /\ RowFree(g) /\ driving' = driving /\ seen' = seen /\ seen[g] = Unread
  BY <1>1 DEF Republish, Release, TypeOK, NoPublish
<1>3. rollouts'[g][version + 1] # NoRow
  <2>1. rollouts'[g][version + 1] = NewRow(kind, TRUE, Held(kind, TRUE, paused[g]), strategy[g])
    BY <1>1, <1>2 DEF Create
  <2>2. paused[g] \in BOOLEAN /\ strategy[g] \in Strategies /\ TRUE \in BOOLEAN
    BY <1>1, GroupTypes
  <2> DEFINE new == NewRow(kind, TRUE, Held(kind, TRUE, paused[g]), strategy[g])
  <2>3. new # NoRow
    <3>1. new.kind = kind
      BY DEF NewRow
    <3>2. NoRow.kind = "none"
      BY DEF NoRow
    <3> QED
      BY <1>1, <3>1, <3>2 DEF Kinds
  <2> QED
    BY <2>1, <2>3
<1>4. CASE k = g
  <2>1. \A w \in Versions : w # version + 1 => content'[g][w] = content[g][w]
    BY <1>1 DEF Republish, TypeOK
  <2>2. paused'[g] = (paused[g] \/ kind = "rollback")
    BY <1>1 DEF Republish, TypeOK
  <2>3. paused[g] \in BOOLEAN /\ strategy[g] \in Strategies /\ TRUE \in BOOLEAN
    BY <1>1, GroupTypes
  <2>4. stable'[g] = stable[g]
    BY <1>2
  <2>5. released'[g] = released[g] \cup {v \in Versions : rollouts'[g][v].state = "rolling"}
    BY <1>2
  <2>6. (paused'[g] => (paused[g] /\ paused[g]) \/ kind = "rollback") /\ (paused[g] => paused'[g])
    BY <2>2
  <2>7. GroupInv(g)' /\ RowsGrow(g)
    <3>1. kind # "change" /\ driving'[g] = driving[g] /\ seen'[g] = Unread
      BY <1>2
    <3> QED
      BY <1>1, <1>2, <2>1, <2>3, <2>4, <2>5, <2>6, <3>1, CreateStep
  <2> QED
    BY <1>3, <1>4, <2>7
<1>5. CASE k # g
  <2>1. rollouts'[k] = rollouts[k] /\ content'[k] = content[k] /\ paused'[k] = paused[k]
    BY <1>1, <1>5 DEF Republish, TypeOK
  <2>2. released'[k] = released[k]
    <3>1. \A v \in Versions : rollouts'[k][v].state = "rolling" => v \in released[k]
      BY <1>1, <2>1 DEF GroupInv, ReleasedIsKept
    <3> QED
      BY <1>2, <3>1
  <2>3. DecisionFits(k)' /\ ReadCompleted(k)'
    BY <1>1, <1>2, <2>1, SameTransactions
  <2> QED
    BY <1>1, <1>2, <1>3, <2>1, <2>2, <2>3, SameGroup
<1> QED
  BY <1>4, <1>5

\* A move keeps what the engine had allowed: it is older than the version the move publishes.
LEMMA MoveStep ==
    ASSUME RolloutInv, TypeOK', UpdateEngineCommit
    PROVE  RolloutInv'
<1>t. TypeOK
  BY DEF RolloutInv
<1>1. move.engine \in Engines /\ move.group \in Groups /\ move.from \in Versions
  BY <1>t DEF UpdateEngineCommit, TypeOK
<1>2. Republish(move.group, move.from, "republish") /\ version' = version + 1
  BY DEF UpdateEngineCommit, Republish
<1>3. /\ \A k \in Groups : GroupInv(k)' /\ RowsGrow(k)
      /\ rollouts'[move.group][version + 1] # NoRow
  BY <1>1, <1>2, RepublishStep
<1>4. /\ engineGroup' = [engineGroup EXCEPT ![move.engine] = move.group]
      /\ UNCHANGED <<applied, out, wire, reply, running, disk>>
  BY DEF UpdateEngineCommit, streamVars, engineVars
<1>v. version \in Nat /\ version + 1 \in Versions
  BY <1>t, GroupTypes, <1>1, ConstantsAssumption DEF Republish, UpdateEngineCommit, Versions
<1>5. ASSUME NEW e \in Engines, NEW v, Cleared(e, v)
      PROVE  Cleared(e, v)'
  <2>1. v = 0 \/ (v \in 1..version' /\ v \in Versions /\ v < version + 1)
    BY <1>2, <1>5, <1>v, ConstantsAssumption DEF Cleared, Versions
  <2>2. CASE e = move.engine
    <3>1. engineGroup'[e] = move.group
      BY <1>4, <1>t, <2>2 DEF TypeOK
    <3> QED
      BY <1>3, <1>v, <2>1, <3>1 DEF Cleared
  <2>3. CASE e # move.engine
    <3>1. engineGroup'[e] = engineGroup[e] /\ engineGroup[e] \in Groups
      BY <1>4, <1>t, <2>3 DEF TypeOK
    <3>2. RowsGrow(engineGroup[e])
      BY <1>3, <3>1
    <3> QED
      BY <1>5, <2>1, <3>1, <3>2 DEF Cleared, RowsGrow
  <2> QED
    BY <2>2, <2>3
<1>6. \A e \in Engines : EngineIsCleared(e)'
  BY <1>4, <1>5 DEF RolloutInv, EngineIsCleared
<1>7. CanaryContainment'
  <2> SUFFICES ASSUME NEW e \in Engines, NEW s \in {out[e], wire[e], running[e], disk[e]}, s # Nothing
               PROVE  s.version \in released'[s.group] \/ e \in rollouts'[s.group][s.version].canaries
    BY <1>4 DEF CanaryContainment
  <2>1. s \in Snapshot
    BY <1>t DEF TypeOK
  <2>2. s.group \in Groups /\ s.version \in Versions
    BY <2>1 DEF Snapshot
  <2>3. s.version \in released[s.group] \/ e \in rollouts[s.group][s.version].canaries
    BY DEF RolloutInv, CanaryContainment
  <2> QED
    BY <1>3, <2>2, <2>3 DEF RowsGrow
<1> QED
  BY <1>3, <1>6, <1>7, InvFromGroups

\* Every step of a stream or of an engine hands an engine only what it may have.
LEMMA StreamingStep ==
    ASSUME RolloutInv, TypeOK', NEW e \in Engines, Streaming(e)
    PROVE  RolloutInv'
<1>t. TypeOK
  BY DEF RolloutInv
<1> DEFINE Kept(k) ==
      /\ \A s \in {out'[k], wire'[k], running'[k], disk'[k]} :
           \/ s \in {Nothing, out[k], wire[k], running[k], disk[k]}
           \/ s = [group |-> engineGroup[k], version |-> Target(k)]
      /\ reply'[k].version \in {0, reply[k].version, wire[k].version}
      /\ applied'[k] \in {applied[k], reply[k].version}
<1> SUFFICES /\ UNCHANGED <<groupVars, engineGroup, released, seen, driving>>
             /\ \A k \in Engines : Kept(k)
  <2>1. ASSUME UNCHANGED <<groupVars, seen, driving>>
        PROVE  \A g \in Groups : DecisionFits(g)' /\ ReadCompleted(g)'
    BY <2>1, InvByGroup, SameTransactions DEF groupVars
  <2> QED
    BY <2>1, EngineStep
<1> USE <1>t, EmptyTypes DEF TypeOK, groupVars, rowVars, txVars, streamVars, engineVars
<1>1. CASE RevokeEngine(e)
  BY <1>1 DEF RevokeEngine
<1>2. CASE Connect(e)
  BY <1>2 DEF Connect
<1>3. CASE Push(e)
  BY <1>3 DEF Push
<1>4. CASE Send(e)
  BY <1>4 DEF Send
<1>5. CASE Disconnect(e)
  BY <1>5 DEF Disconnect
<1>6. CASE ConnectionLapses(e)
  BY <1>6 DEF ConnectionLapses
<1>7. CASE HeartbeatResumes(e)
  BY <1>7 DEF HeartbeatResumes
<1>8. CASE HandleReply(e)
  BY <1>8 DEF HandleReply
<1>9. ASSUME NEW written \in BOOLEAN, ApplySnapshot(e, written)
      PROVE  /\ UNCHANGED <<groupVars, engineGroup, released, seen, driving>>
             /\ \A k \in Engines : Kept(k)
  BY <1>9 DEF ApplySnapshot, Answers
<1>10. CASE RejectSnapshot(e)
  BY <1>10 DEF RejectSnapshot, Answers
<1>11. CASE Restart(e)
  BY <1>11 DEF Restart
<1> QED
  BY <1>1, <1>2, <1>3, <1>4, <1>5, <1>6, <1>7, <1>8, <1>9, <1>10, <1>11 DEF Streaming

\* A step that only notes what a transaction in progress read or decided keeps the invariant.
LEMMA NoteStep ==
    ASSUME RolloutInv, TypeOK', UNCHANGED <<groupVars, rowVars, streamVars, engineVars, released>>,
           \A g \in Groups : DecisionFits(g)' /\ ReadCompleted(g)'
    PROVE  RolloutInv'
BY EngineStep DEF rowVars, streamVars, engineVars

\* The same where nothing that the invariant speaks of was read or decided.
LEMMA TransactionStep ==
    ASSUME RolloutInv, TypeOK',
           UNCHANGED <<groupVars, rowVars, streamVars, engineVars, released, seen, driving>>
    PROVE  RolloutInv'
<1>1. \A g \in Groups : DecisionFits(g)' /\ ReadCompleted(g)'
  BY InvByGroup, SameTransactions DEF groupVars
<1> QED
  BY <1>1, NoteStep

\* A publish reads stable versions, which completed, or forgets them.
LEMMA ReadStep ==
    ASSUME RolloutInv, TypeOK',
           UNCHANGED <<groupVars, rowVars, streamVars, engineVars, released, driving>>,
           \A g \in Groups : seen'[g] \in {seen[g], stable[g], Unread}
    PROVE  RolloutInv'
<1>1. ASSUME NEW g \in Groups
      PROVE  DecisionFits(g)' /\ ReadCompleted(g)'
  <2>1. GroupInv(g)
    BY InvByGroup
  <2>2. seen'[g] \in {seen[g], stable[g], Unread}
    OBVIOUS
  <2>3. ReadCompleted(g)'
    BY <2>1, <2>2 DEF GroupInv, ReadCompleted, ReleasedIsKept, groupVars
  <2>4. DecisionFits(g)'
    BY <2>1 DEF GroupInv, DecisionFits, groupVars
  <2> QED
    BY <2>3, <2>4
<1> QED
  BY <1>1, NoteStep

\* What the controller decides, writes or leaves keeps the invariant.
LEMMA ControlStep ==
    ASSUME RolloutInv, NEW g \in Groups, Control(g) \/ DriveFails(g)
    PROVE  RolloutInv'
<1>t. TypeOK /\ TypeOK' /\ GroupInv(g)
  BY DriveTypes, InvByGroup
<1>1. ASSUME NEW v \in Versions, Drive(g, v)
      PROVE  RolloutInv'
  <2>1. PICK row \in Row, vouched \in SUBSET Engines :
          /\ driving' = [driving EXCEPT ![g] = [version |-> v, row |-> row, vouched |-> vouched]]
          /\ rollouts[g][v].state \in Open
          /\ rollouts[g][v].canaries \subseteq row.canaries
          /\ row.state \in Active \cup {"completed", "halted"}
          /\ row.state \in Active => ~paused[g]
          /\ row.state = "completed" => rollouts[g][v].state = "rolling"
          /\ row.state \in Active => rollouts[g][v].state # "rolling"
          /\ row.state = "canary" => rollouts[g][v].state = "pending"
          /\ row.state # "canary" => row.canaries = rollouts[g][v].canaries
          /\ UNCHANGED <<groupVars, rowVars, move, seen, streamVars, engineVars, faults, released>>
    BY <1>1, <1>t, DecideFacts
  <2>2. ASSUME NEW k \in Groups
        PROVE  DecisionFits(k)' /\ ReadCompleted(k)'
    <3>1. CASE k # g
      <4>1. driving'[k] = driving[k]
        BY <1>t, <2>1, <3>1 DEF TypeOK
      <4> QED
        BY <2>1, <4>1, InvByGroup, SameTransactions DEF groupVars
    <3>2. CASE k = g
      <4>1. driving'[g].version = v /\ driving'[g].row = row
        BY <1>t, <2>1 DEF TypeOK
      <4>2. DecisionFits(g)'
        BY <2>1, <4>1 DEF DecisionFits, groupVars
      <4>3. ReadCompleted(g)'
        BY <1>t, <2>1 DEF GroupInv, ReadCompleted, groupVars
      <4> QED
        BY <3>2, <4>2, <4>3
    <3> QED
      BY <3>1, <3>2
  <2> QED
    BY <1>t, <2>1, <2>2, NoteStep
<1>2. CASE DriveCommit(g)
  <2>1. PICK v \in Versions, row \in Row :
          /\ rollouts' = [rollouts EXCEPT ![g][v] = row]
          /\ stable' = [stable EXCEPT ![g] =
                          IF row.state = "completed" /\ stable[g] < v THEN v ELSE stable[g]]
          /\ driving' = [driving EXCEPT ![g] = NoDrive]
          /\ Release
          /\ UNCHANGED <<version, content, paused, rowVars, seen, streamVars, engineVars>>
    BY <1>2, <1>t, CommitFacts
  <2>2. ASSUME NEW k \in Groups
        PROVE  GroupInv(k)' /\ RowsGrow(k)
    <3>1. CASE k = g
      BY <1>2, <1>t, <3>1, DriveStep
    <3>2. CASE k # g
      <4>1. /\ rollouts'[k] = rollouts[k] /\ stable'[k] = stable[k]
            /\ content'[k] = content[k] /\ paused'[k] = paused[k]
            /\ driving'[k] = driving[k] /\ seen'[k] = seen[k]
        BY <1>t, <2>1, <3>2 DEF TypeOK
      <4>2. released'[k] = released[k]
        BY <2>1, <4>1, InvByGroup DEF Release, GroupInv, ReleasedIsKept
      <4>3. DecisionFits(k)' /\ ReadCompleted(k)'
        BY <4>1, InvByGroup, SameTransactions
      <4> QED
        BY <1>t, <2>1, <4>1, <4>2, <4>3, InvByGroup, SameGroup
    <3> QED
      BY <3>1, <3>2
  <2>3. (\A e \in Engines : EngineIsCleared(e)') /\ CanaryContainment'
    BY <1>t, <2>1, <2>2, EnginesKept DEF rowVars, streamVars, engineVars
  <2> QED
    BY <1>t, <2>2, <2>3, InvFromGroups
<1>3. CASE DriveFails(g)
  <2>1. ASSUME NEW k \in Groups
        PROVE  DecisionFits(k)' /\ ReadCompleted(k)'
    <3>1. driving'[k] \in {driving[k], NoDrive}
      BY <1>3, <1>t DEF DriveFails, TypeOK
    <3>2. GroupInv(k)
      BY InvByGroup
    <3> QED
      BY <1>3, <3>1, <3>2 DEF DriveFails, GroupInv, DecisionFits, ReadCompleted, groupVars
  <2> QED
    BY <1>3, <1>t, <2>1, NoteStep DEF DriveFails
<1> QED
  BY <1>1, <1>2, <1>3 DEF Control

\* Every publishing operation keeps the invariant.
LEMMA PublishingStep ==
    ASSUME RolloutInv, TypeOK', Publishing
    PROVE  RolloutInv'
<1>t. TypeOK
  BY DEF RolloutInv
<1>1. ASSUME NEW cs \in [Groups -> Contents], Mutate(cs)
      PROVE  RolloutInv'
  BY <1>1, <1>t, PublishStep DEF Mutate, TypeOK
<1>2. ASSUME NEW cs \in [Groups -> Contents], NEW g \in Groups, ResumeEngineGroupRollouts(g, cs)
      PROVE  RolloutInv'
  <2>1. /\ [paused EXCEPT ![g] = FALSE] \in [Groups -> BOOLEAN]
        /\ strategy \in [Groups -> Strategies]
        /\ \A k \in Groups : [paused EXCEPT ![g] = FALSE][k] => paused[k]
    BY <1>t DEF TypeOK
  <2> QED
    BY <1>2, <2>1, PublishStep DEF ResumeEngineGroupRollouts
<1>3. ASSUME NEW cs \in [Groups -> Contents], NEW g \in Groups, NEW s \in Strategies,
             UpdateEngineGroup(g, s, cs)
      PROVE  RolloutInv'
  <2>1. [strategy EXCEPT ![g] = s] \in [Groups -> Strategies] /\ paused \in [Groups -> BOOLEAN]
    BY <1>t DEF TypeOK
  <2> QED
    BY <1>3, <2>1, PublishStep DEF UpdateEngineGroup
<1>4. ASSUME NEW g \in Groups, NEW to \in Versions, RollbackEngineGroup(g, to)
      PROVE  RolloutInv'
  <2>1. Republish(g, to, "rollback") /\ version' = version + 1
    BY <1>4 DEF RollbackEngineGroup, Republish
  <2>2. \A k \in Groups : GroupInv(k)' /\ RowsGrow(k)
    BY <2>1, RepublishStep
  <2>3. (\A e \in Engines : EngineIsCleared(e)') /\ CanaryContainment'
    BY <1>4, <2>1, <2>2, EnginesKept DEF RollbackEngineGroup, rowVars, streamVars, engineVars
  <2> QED
    BY <2>2, <2>3, InvFromGroups
<1>6. ASSUME NEW e \in Engines, NEW g \in Groups, UpdateEngineRead(e, g)
      PROVE  RolloutInv'
  BY <1>6, TransactionStep DEF UpdateEngineRead
<1>7. CASE UpdateEngineAbort
  BY <1>7, TransactionStep DEF UpdateEngineAbort
<1>8. ASSUME NEW g \in Groups, PublishRead(g)
      PROVE  RolloutInv'
  <2>1. ASSUME NEW k \in Groups
        PROVE  seen'[k] \in {seen[k], stable[k], Unread}
    BY <1>8, <1>t DEF PublishRead, TypeOK
  <2> QED
    BY <1>8, <2>1, ReadStep DEF PublishRead
<1>9. CASE PublishAbort
  <2>1. ASSUME NEW k \in Groups
        PROVE  seen'[k] \in {seen[k], stable[k], Unread}
    BY <1>9 DEF PublishAbort
  <2> QED
    BY <1>9, <2>1, ReadStep DEF PublishAbort
<1> QED
  BY <1>1, <1>2, <1>3, <1>4, <1>6, <1>7, <1>8, <1>9, MoveStep DEF Publishing

\* Every step preserves the invariant.
LEMMA RolloutInvStep ==
    ASSUME RolloutInv, [Next]_vars
    PROVE  RolloutInv'
<1>1. CASE Publishing
  BY <1>1, PublishingTypes, PublishingStep
<1>2. ASSUME NEW g \in Groups, Control(g) \/ DriveFails(g)
      PROVE  RolloutInv'
  BY <1>2, ControlStep
<1>3. ASSUME NEW e \in Engines, Streaming(e)
      PROVE  RolloutInv'
  BY <1>3, StreamingTypes, StreamingStep
<1>4. CASE UNCHANGED vars
  <2>1. TypeOK'
    BY <1>4 DEF RolloutInv, TypeOK, vars, groupVars, rowVars, txVars, streamVars, engineVars
  <2> QED
    BY <1>4, <2>1, TransactionStep DEF vars, txVars
<1> QED
  BY <1>1, <1>2, <1>3, <1>4 DEF Next

\* A started management plane satisfies the invariant.
LEMMA RolloutInvInit == Init => RolloutInv
<1> SUFFICES ASSUME Init PROVE RolloutInv
  OBVIOUS
<1> DEFINE first == [state |-> "completed", kind |-> "change", strategy |-> "all_at_once", canaries |-> {}]
<1>1. first \in Row /\ first.state = "completed" /\ first.canaries = {}
  BY DEF Row, States, Kinds, Strategies
<1>2. 1 \in Versions /\ \A v \in Versions : v \in Nat /\ v >= 1
  BY ConstantsAssumption DEF Versions
<1>3. \A g \in Groups, v \in Versions : rollouts[g][v] = IF v = 1 THEN first ELSE NoRow
  BY DEF Init
<1> HIDE DEF first
<1>4. TypeOK
  <2>1. version \in Versions /\ content \in [Groups -> [Versions -> Contents \cup {NoContent}]]
    BY <1>2 DEF Init
  <2>2. rollouts \in [Groups -> [Versions -> Row \cup {NoRow}]]
    BY <1>1 DEF Init, first
  <2>3. /\ stable \in [Groups -> 0..MaxVersion]
        /\ applied \in [Engines -> 0..MaxVersion]
        /\ rejected \in [Engines -> 0..MaxVersion]
        /\ offered \in [Engines -> 0..MaxVersion]
        /\ faults \in 0..MaxFaults
    BY ConstantsAssumption DEF Init
  <2>4. released \in [Groups -> SUBSET Versions]
    BY <1>2 DEF Init
  <2>5. /\ out \in [Engines -> Snapshot \cup {Nothing}]
        /\ wire \in [Engines -> Snapshot \cup {Nothing}]
        /\ running \in [Engines -> Snapshot \cup {Nothing}]
        /\ disk \in [Engines -> Snapshot \cup {Nothing}]
        /\ reply \in [Engines -> Reply]
    BY EmptyTypes DEF Init
  <2>6. seen \in [Groups -> {Unread} \cup 0..MaxVersion] /\ driving \in [Groups -> Decision \cup {NoDrive}]
    BY DEF Init
  <2> QED
    BY <2>1, <2>2, <2>3, <2>4, <2>5, <2>6 DEF Init, TypeOK
<1>5. ASSUME NEW g \in Groups
      PROVE  GroupInv(g)
  <2>1. /\ \A v \in Versions : v > 1 => rollouts[g][v] = NoRow /\ content[g][v] = NoContent
        /\ rollouts[g][1].state = "completed" /\ version = 1 /\ stable[g] = 1 /\ 1 \in released[g]
    BY <1>1, <1>2, <1>3 DEF Init
  <2>2. \A v \in Versions : rollouts[g][v].state \in {"completed", "none"} /\ (rollouts[g][v].state = "completed" => v = 1)
    BY <1>1, <1>3, RowFacts
  <2>3. NewestIsLive(g)
    BY <1>2, <2>1 DEF NewestIsLive
  <2>4. DecisionFits(g) /\ ReadCompleted(g)
    BY DEF Init, DecisionFits, ReadCompleted
  <2> QED
    BY <1>2, <2>1, <2>2, <2>3, <2>4 DEF GroupInv, PendingWaits, ReleasedIsKept, Active
<1>6. \A e \in Engines : EngineIsCleared(e)
  BY EmptyTypes DEF Init, EngineIsCleared, Cleared
<1>7. CanaryContainment
  BY DEF Init, CanaryContainment
<1> QED
  BY <1>4, <1>5, <1>6, <1>7, InvByGroup
----------------------------------------------------------------------------
(* The theorems.                                                              *)

\* The invariant holds in every reachable state, for any fleet and any number of versions.
THEOREM RolloutInvariant == Spec => []RolloutInv
<1>1. RolloutInv /\ [Next]_vars => RolloutInv'
  BY RolloutInvStep
<1> QED
  BY <1>1, RolloutInvInit, PTL DEF Spec

\* Every variable keeps its type: versions stay within the bound, targets are real snapshots.
THEOREM TypeCorrect == Spec => []TypeOK
<1>1. RolloutInv => TypeOK
  BY DEF RolloutInv
<1> QED
  BY <1>1, RolloutInvariant, PTL

\* rollout.Create and the controller never leave a group with two active rollouts.
THEOREM OneActiveRolloutHolds == Spec => []OneActiveRollout
<1>1. RolloutInv => OneActiveRollout
  BY DEF RolloutInv
<1> QED
  BY <1>1, RolloutInvariant, PTL

\* No engine is ever offered, sent, running or keeping on disk a version that was not released to
\* the group it came from, unless it was a canary of it.
THEOREM CanaryContainmentHolds == Spec => []CanaryContainment
<1>1. RolloutInv => CanaryContainment
  BY DEF RolloutInv
<1> QED
  BY <1>1, RolloutInvariant, PTL

\* The stable version of a group is the newest one that completed.
THEOREM StableIsNewestCompletedHolds == Spec => []StableIsNewestCompleted
<1>1. RolloutInv => StableIsNewestCompleted
  BY DEF RolloutInv
<1> QED
  BY <1>1, RolloutInvariant, PTL

\* A paused group lets through nothing but rollbacks, republished snapshots and contents that once
\* completed for it, although a publish decides by a stable version it read before it locked the group.
THEOREM PausedHoldsChangesHolds == Spec => []PausedHoldsChanges
<1>1. RolloutInv => PausedHoldsChanges
  BY DEF RolloutInv
<1> QED
  BY <1>1, RolloutInvariant, PTL

\* Target always decides by the rollout of the newest snapshot of the group.
THEOREM NewestDecidesHolds == Spec => []NewestDecides
<1>1. ASSUME RolloutInv
      PROVE  NewestDecides
  BY <1>1, InvByGroup, LatestIsNewest, GroupTypes DEF NewestDecides
<1>2. RolloutInv => NewestDecides
  BY <1>1
<1> QED
  BY <1>2, RolloutInvariant, PTL
============================================================================
