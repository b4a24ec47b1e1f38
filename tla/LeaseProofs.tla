---------------------------- MODULE LeaseProofs ----------------------------
(* Proofs about Lease: at most one gate is open, for any number of holders,   *)
(* any window and any clock rates the margin covers.                          *)
EXTENDS Lease, TLAPS

----------------------------------------------------------------------------
(* Arithmetic of the clocks' rates.                                           *)

\* Multiplication by a natural number keeps an order.
LEMMA TimesMonotonic ==
    ASSUME NEW x \in Int, NEW y \in Int, NEW c \in Nat, x <= y
    PROVE  x * c <= y * c
<1>1. (y - x) * c >= 0
  BY SMT
<1>2. (y - x) * c = y * c - x * c
  BY SMT
<1> QED
  BY <1>1, <1>2, SMT

\* A holder that has just observed a resourceVersion has not waited at all.
LEMMA OutlastsZero ==
    ASSUME NEW y \in Nat
    PROVE  Outlasts(0, y)
<1>1. 0 * MinRate <= y * MaxRate
  BY ConstantsAssumption, SMT
<1> QED
  BY <1>1 DEF Outlasts

\* Whatever rates the two clocks have during a unit of time, the waiting one does not gain more
\* than the rates allow.
LEMMA OutlastsTick ==
    ASSUME NEW x \in Int, NEW y \in Int, Outlasts(x, y),
           NEW d \in MinRate..MaxRate, NEW e \in MinRate..MaxRate
    PROVE  Outlasts(x + d, y + e)
<1> USE ConstantsAssumption
<1>1. d * MinRate <= MaxRate * MinRate
  BY TimesMonotonic
<1>2. MinRate * MaxRate <= e * MaxRate
  BY TimesMonotonic
<1>3. (x + d) * MinRate = x * MinRate + d * MinRate
  BY SMT
<1>4. (y + e) * MaxRate = y * MaxRate + e * MaxRate
  BY SMT
<1>5. MinRate * MaxRate = MaxRate * MinRate
  BY SMT
<1> QED
  BY <1>1, <1>2, <1>3, <1>4, <1>5, SMT DEF Outlasts

\* After a wait of Window + Margin a ticket it does not outlast is at least Window old.
LEMMA WaitOutlastsWindow ==
    ASSUME NEW x \in Int, NEW y \in Int, Outlasts(x, y), x >= Window + Margin
    PROVE  y >= Window
<1> USE ConstantsAssumption
<1>1. (Window + Margin) * MinRate <= x * MinRate
  BY TimesMonotonic
<1>2. Window * MaxRate <= y * MaxRate
  BY <1>1, MarginCoversRateError, SMT DEF Outlasts
<1>3. ASSUME y < Window PROVE FALSE
  <2>1. (y + 1) * MaxRate <= Window * MaxRate
    BY <1>3, TimesMonotonic
  <2>2. (y + 1) * MaxRate = y * MaxRate + MaxRate
    BY SMT
  <2> QED
    BY <1>2, <2>1, <2>2, SMT
<1> QED
  BY <1>3, SMT
----------------------------------------------------------------------------
(* Type correctness.                                                          *)

\* The constant records have their types.
LEMMA NothingTypes == NoTicket \in Ticket /\ NoRecord \in Record
BY ConstantsAssumption DEF NoTicket, Ticket, NoRecord, Record

\* A denial leaves the gate and the phase in their types, whether it takes effect or not.
LEMMA DenyTypes ==
    ASSUME TypeOK, NEW h \in Holders, NEW next \in Phases, Deny(h, next)
    PROVE  /\ window' \in [Holders -> Ticket]
           /\ ticket' \in [Holders -> Ticket]
           /\ arming' \in [Holders -> BOOLEAN]
           /\ pc' \in [Holders -> Phases]
           /\ seen' \in [Holders -> Record]
<1>1. "terminal" \in Phases
  BY DEF Phases
<1> QED
  BY <1>1, NothingTypes DEF TypeOK, Deny, Ends

\* So does a failed Step.
LEMMA FailTypes ==
    ASSUME TypeOK, NEW h \in Holders, NEW next \in Phases, Fail(h, next), UNCHANGED <<lease, gone, writer>>,
           late' \subseteq Holders
    PROVE  TypeOK'
<1>1. Deny(h, next) /\ Forget(h) /\ UNCHANGED <<clock, pinned>>
  BY DEF Fail
<1>2. /\ own' \in [Holders -> 0..MaxRV]
      /\ stableRV' \in [Holders -> 0..MaxRV]
      /\ since' \in [Holders -> 0..MaxClock]
  BY <1>1, ConstantsAssumption DEF TypeOK, Forget
<1> QED
  BY <1>1, <1>2, DenyTypes DEF TypeOK

\* A committed write leaves a Lease of its type.
LEMMA CommitTypes ==
    ASSUME TypeOK, NEW h \in Holders, Commit(h)
    PROVE  /\ lease' \in Record
           /\ lease'.rv = lease.rv + 1
           /\ lease'.uid = lease.uid
           /\ late' = {}
           /\ writer' = h
           /\ gone' = gone
<1>1. lease.uid \in 0..MaxUID /\ lease.rv \in 0..MaxRV
  BY DEF TypeOK, Record
<1> QED
  BY <1>1, ConstantsAssumption DEF Commit, Record

\* Every step keeps the variables in their types.
LEMMA TypeStep ==
    ASSUME TypeOK, [Next]_vars
    PROVE  TypeOK'
<1> USE ConstantsAssumption
<1>p. {"new", "idle", "got", "capture", "ticket", "cas", "committed", "arm", "armed", "terminal"} = Phases
  BY DEF Phases
<1>1. CASE Tick
  <2>1. PICK d \in [Holders -> MinRate..MaxRate] :
          /\ \A h \in Holders : clock[h] + d[h] <= MaxClock
          /\ clock' = [h \in Holders |-> clock[h] + d[h]]
    BY <1>1 DEF Tick
  <2>2. clock' \in [Holders -> 1..MaxClock]
    BY <2>1 DEF TypeOK
  <2> QED
    BY <1>1, <2>2 DEF TypeOK, Tick, leaseVars, waitVars, gateVars
<1>2. ASSUME NEW h \in Holders, Step(h)
      PROVE  TypeOK'
  <2>1. CASE Start(h)
    BY <2>1, <1>p, DenyTypes DEF TypeOK, Start, leaseVars, waitVars
  <2>2. CASE Get(h)
    <3>1. CASE gone
      BY <2>2, <3>1, <1>p, FailTypes DEF TypeOK, Get, leaseVars
    <3>2. CASE ~gone
      BY <2>2, <3>2, <1>p DEF TypeOK, Get, leaseVars, waitVars, gateVars
    <3> QED
      BY <3>1, <3>2
  <2>3. CASE Observe(h)
    <3>1. CASE Fail(h, "terminal")
      BY <2>3, <3>1, <1>p, FailTypes DEF TypeOK, Observe, leaseVars
    <3>2. CASE ~Fail(h, "terminal")
      <4>1. seen[h].rv \in 0..MaxRV /\ seen[h].uid \in 0..MaxUID
        BY DEF TypeOK, Record
      <4>2. /\ own' \in [Holders -> 0..MaxRV]
            /\ pinned' \in [Holders -> 0..MaxUID]
            /\ stableRV' \in [Holders -> 0..MaxRV]
            /\ since' \in [Holders -> 0..MaxClock]
        BY <2>3, <3>2, <4>1 DEF TypeOK, Observe
      <4>3. /\ window' \in [Holders -> Ticket]
            /\ ticket' \in [Holders -> Ticket]
            /\ arming' \in [Holders -> BOOLEAN]
            /\ pc' \in [Holders -> Phases]
            /\ seen' \in [Holders -> Record]
        <5>1. CASE Deny(h, "idle")
          BY <5>1, <1>p, DenyTypes
        <5>2. CASE ~Deny(h, "idle")
          BY <2>3, <3>2, <5>2, <1>p, NothingTypes DEF TypeOK, Observe, Ends, gateVars
        <5> QED
          BY <5>1, <5>2
      <4> QED
        BY <2>3, <3>2, <4>2, <4>3 DEF TypeOK, Observe, leaseVars
    <3> QED
      BY <3>1, <3>2
  <2>4. CASE Capture(h)
    <3>1. [captured |-> clock[h], deadline |-> clock[h] + Window] \in Ticket
      BY DEF TypeOK, Ticket
    <3> QED
      BY <2>4, <3>1, <1>p DEF TypeOK, Capture, leaseVars, waitVars
  <2>5. CASE SendPut(h)
    <3>1. CASE clock[h] < ticket[h].deadline
      BY <2>5, <3>1, <1>p DEF TypeOK, SendPut, leaseVars, waitVars, gateVars
    <3>2. CASE ~(clock[h] < ticket[h].deadline)
      BY <2>5, <3>2, <1>p, FailTypes DEF TypeOK, SendPut, leaseVars
    <3> QED
      BY <3>1, <3>2
  <2>6. CASE ServePut(h)
    <3>1. CASE Matches(seen[h])
      BY <2>6, <3>1, <1>p, CommitTypes DEF TypeOK, ServePut, waitVars, gateVars
    <3>2. CASE ~Matches(seen[h])
      BY <2>6, <3>2, <1>p, FailTypes DEF TypeOK, ServePut, leaseVars
    <3> QED
      BY <3>1, <3>2
  <2>7. CASE ServeLatePut(h)
    BY <2>7, CommitTypes DEF TypeOK, ServeLatePut, waitVars, gateVars
  <2>8. CASE SendArm(h)
    <3>1. CASE clock[h] < ticket[h].deadline
      BY <2>8, <3>1, <1>p DEF TypeOK, SendArm, leaseVars, waitVars
    <3>2. CASE ~(clock[h] < ticket[h].deadline)
      BY <2>8, <3>2, <1>p, FailTypes DEF TypeOK, SendArm, leaseVars
    <3> QED
      BY <3>1, <3>2
  <2>9. CASE DriverArm(h)
    <3>1. /\ window' \in [Holders -> Ticket]
          /\ ticket' \in [Holders -> Ticket]
          /\ arming' \in [Holders -> BOOLEAN]
      BY <2>9, NothingTypes DEF TypeOK, DriverArm
    <3>2. /\ pc' \in [Holders -> Phases]
          /\ seen' \in [Holders -> Record]
          /\ own' \in [Holders -> 0..MaxRV]
          /\ stableRV' \in [Holders -> 0..MaxRV]
          /\ since' \in [Holders -> 0..MaxClock]
      BY <2>9, <1>p, NothingTypes DEF TypeOK, DriverArm, Forget, Ends, waitVars
    <3> QED
      BY <2>9, <3>1, <3>2 DEF TypeOK, DriverArm, leaseVars
  <2>10. CASE Finish(h)
    <3>1. CASE clock[h] < window[h].deadline
      <4>1. seen[h].rv \in 0..MaxRV
        BY DEF TypeOK, Record
      <4> QED
        BY <2>10, <3>1, <4>1, <1>p, NothingTypes DEF TypeOK, Finish, Ends, leaseVars, gateVars
    <3>2. CASE ~(clock[h] < window[h].deadline)
      BY <2>10, <3>2, <1>p, FailTypes DEF TypeOK, Finish, leaseVars
    <3> QED
      BY <3>1, <3>2
  <2>11. CASE TimeOut(h)
    BY <2>11, <1>p, FailTypes DEF TypeOK, TimeOut, GivesUp
  <2>12. CASE Dies(h)
    BY <2>12, <1>p, NothingTypes DEF TypeOK, Dies, GivesUp, Forget, Ends
  <2> QED
    BY <1>2, <2>1, <2>2, <2>3, <2>4, <2>5, <2>6, <2>7, <2>8, <2>9, <2>10, <2>11, <2>12 DEF Step
<1>3. CASE DeleteLease
  BY <1>3 DEF TypeOK, DeleteLease, waitVars, gateVars
<1>4. CASE ProvisionLease
  <2>1. lease.uid \in 0..MaxUID /\ lease.rv \in 0..MaxRV
    BY DEF TypeOK, Record
  <2>2. lease' \in Record
    BY <1>4, <2>1 DEF ProvisionLease, Record
  <2> QED
    BY <1>4, <2>2 DEF TypeOK, ProvisionLease, waitVars, gateVars
<1>5. CASE UNCHANGED vars
  BY <1>5 DEF TypeOK, vars, leaseVars, waitVars, gateVars
<1> QED
  BY <1>1, <1>2, <1>3, <1>4, <1>5 DEF Next
----------------------------------------------------------------------------
(* The inductive invariant.                                                   *)

\* Every step of a holder keeps tickets good.
LEMMA TicketsStep ==
    ASSUME LeaseInv, TypeOK', NEW h \in Holders, Step(h)
    PROVE  TicketsAreGood'
<1> USE ConstantsAssumption, NothingTypes DEF LeaseInv, TypeOK, TicketsAreGood, GoodTicket
<1> USE DEF leaseVars, waitVars, gateVars, Fail, Deny, Ends
<1>1. CASE Start(h)
  BY <1>1 DEF Start
<1>2. CASE Get(h)
  BY <1>2 DEF Get
<1>3. CASE Observe(h)
  BY <1>3 DEF Observe
<1>4. CASE Capture(h)
  BY <1>4 DEF Capture
<1>5. CASE SendPut(h)
  BY <1>5 DEF SendPut
<1>6. CASE ServePut(h)
  BY <1>6 DEF ServePut
<1>7. CASE ServeLatePut(h)
  BY <1>7 DEF ServeLatePut
<1>8. CASE SendArm(h)
  BY <1>8 DEF SendArm
<1>9. CASE DriverArm(h)
  BY <1>9 DEF DriverArm
<1>10. CASE Finish(h)
  BY <1>10 DEF Finish
<1>11. CASE TimeOut(h)
  BY <1>11 DEF TimeOut
<1>12. CASE Dies(h)
  BY <1>12 DEF Dies
<1> QED
  BY <1>1, <1>2, <1>3, <1>4, <1>5, <1>6, <1>7, <1>8, <1>9, <1>10, <1>11, <1>12 DEF Step

\* Every step of a holder keeps revisions old.
LEMMA RevisionsStep ==
    ASSUME LeaseInv, TypeOK', NEW h \in Holders, Step(h)
    PROVE  RevisionsAreOld'
<1> USE ConstantsAssumption, NothingTypes, CommitTypes DEF LeaseInv, TypeOK, RevisionsAreOld
<1> USE DEF leaseVars, waitVars, gateVars, Fail, Deny, Ends, Forget, GivesUp
<1>r. /\ lease.rv \in Nat /\ NoRecord.rv = 0
      /\ \A k \in Holders : seen[k].rv \in Nat /\ seen'[k].rv \in Nat
  BY DEF Record, NoRecord
<1>1. CASE Start(h)
  BY <1>r, <1>1 DEF Start
<1>2. CASE Get(h)
  BY <1>r, <1>2 DEF Get
<1>3. CASE Observe(h)
  BY <1>r, <1>3 DEF Observe
<1>4. CASE Capture(h)
  BY <1>r, <1>4 DEF Capture
<1>5. CASE SendPut(h)
  BY <1>r, <1>5 DEF SendPut
<1>6. CASE ServePut(h)
  BY <1>r, <1>6 DEF ServePut
<1>7. CASE ServeLatePut(h)
  BY <1>r, <1>7 DEF ServeLatePut
<1>8. CASE SendArm(h)
  BY <1>r, <1>8 DEF SendArm
<1>9. CASE DriverArm(h)
  BY <1>r, <1>9 DEF DriverArm
<1>10. CASE Finish(h)
  BY <1>r, <1>10 DEF Finish
<1>11. CASE TimeOut(h)
  BY <1>r, <1>11 DEF TimeOut
<1>12. CASE Dies(h)
  BY <1>r, <1>12 DEF Dies
<1> QED
  BY <1>1, <1>2, <1>3, <1>4, <1>5, <1>6, <1>7, <1>8, <1>9, <1>10, <1>11, <1>12 DEF Step

\* A step that takes no time and writes nothing, gives no gate more than it was granted, starts a
\* wait only now, and lets a holder go ahead only when nobody else is entitled.
Harmless ==
    /\ clock' = clock
    /\ writer' = writer
    /\ lease'.rv = lease.rv
    /\ \A b \in Holders :
         /\ window'[b] \in {NoTicket, window[b]} \/ (Granted(b) /\ window'[b] = ticket[b])
         /\ Granted(b)' => Granted(b) /\ ticket'[b] = ticket[b]
    /\ \A a \in Holders :
         /\ \/ stableRV'[a] = 0
            \/ stableRV'[a] = stableRV[a] /\ since'[a] = since[a]
            \/ since'[a] = clock[a]
         /\ GoesAhead(a)' => GoesAhead(a) \/ \A b \in Holders : Entitled(b) => a = b

\* Such a step keeps waits covered and the exclusion.
LEMMA HarmlessStep ==
    ASSUME LeaseInv, TypeOK', Harmless
    PROVE  WaitIsCovered' /\ Exclusion'
<1> USE DEF LeaseInv
<1>1. \A b \in Holders : Entitled(b)' => Entitled(b)
  <2> SUFFICES ASSUME NEW b \in Holders, Entitled(b)'
               PROVE  Entitled(b)
    OBVIOUS
  <2>1. clock[b] \in Nat /\ ~(clock[b] < NoTicket.deadline)
    BY ConstantsAssumption DEF TypeOK, NoTicket
  <2> QED
    BY <2>1 DEF Harmless, Entitled
<1>2. Exclusion'
  BY <1>1 DEF Exclusion, Harmless
<1>3. ASSUME NEW a \in Holders, NEW b \in Holders, a # b, stableRV'[a] = lease'.rv,
             NEW t \in Ticket, t # NoTicket,
             t = window'[b] \/ (Granted(b)' /\ t = ticket'[b])
      PROVE  Outlasts(clock'[a] - since'[a], clock'[b] - t.captured)
  <2>1. t = window[b] \/ (Granted(b) /\ t = ticket[b])
    BY <1>3 DEF Harmless
  <2>2. stableRV'[a] # 0
    BY <1>3 DEF Harmless, RevisionsAreOld
  <2>3. CASE stableRV'[a] = stableRV[a] /\ since'[a] = since[a]
    BY <1>3, <2>1, <2>3 DEF Harmless, WaitIsCovered
  <2>4. CASE since'[a] = clock[a]
    <3>1. clock[b] - t.captured \in Nat
      BY <1>3, <2>1, ConstantsAssumption DEF TicketsAreGood, GoodTicket, TypeOK, Ticket
    <3>2. clock'[a] - since'[a] = 0
      BY <2>4, ConstantsAssumption DEF Harmless, TypeOK
    <3> QED
      BY <3>1, <3>2, OutlastsZero DEF Harmless
  <2> QED
    BY <2>2, <2>3, <2>4 DEF Harmless
<1>4. WaitIsCovered'
  BY <1>3 DEF WaitIsCovered, TypeOK
<1> QED
  BY <1>2, <1>4

\* A failed Step is harmless: it only takes away.
LEMMA FailIsHarmless ==
    ASSUME LeaseInv, NEW h \in Holders, NEW next \in {"idle", "terminal"},
           Fail(h, next), UNCHANGED <<lease, gone, writer>>,
           \A k \in late' : GoesAhead(k)
    PROVE  Harmless
<1>1. TypeOK
  BY DEF LeaseInv
<1>2. pc'[h] \in {"idle", "terminal"} /\ \A k \in Holders \ {h} : pc'[k] = pc[k] /\ seen'[k] = seen[k]
  BY <1>1 DEF Fail, Deny, Ends, TypeOK
<1>3. /\ ~arming'[h] /\ window'[h] \in {NoTicket, window[h]}
      /\ \A k \in Holders \ {h} :
           arming'[k] = arming[k] /\ ticket'[k] = ticket[k] /\ window'[k] = window[k]
  BY <1>1 DEF Fail, Deny, TypeOK
<1>4. \A a \in Holders :
        stableRV'[a] = 0 \/ (stableRV'[a] = stableRV[a] /\ since'[a] = since[a])
  BY <1>1 DEF Fail, Forget, TypeOK
<1> QED
  BY <1>2, <1>3, <1>4 DEF Harmless, Granted, GoesAhead, Fail

\* The wait is over: nobody else is entitled any more.
LEMMA WaitedIsAlone ==
    ASSUME LeaseInv, NEW h \in Holders, stableRV[h] = lease.rv, Waited(h),
           NEW b \in Holders, Entitled(b)
    PROVE  h = b
<1> SUFFICES ASSUME h # b
             PROVE  FALSE
  OBVIOUS
<1> USE DEF LeaseInv
<1>1. ASSUME NEW t \in Ticket, t = window[b] \/ (Granted(b) /\ t = ticket[b])
      PROVE  ~(clock[b] < t.deadline)
  <2>1. CASE t = NoTicket
    BY <2>1, ConstantsAssumption DEF NoTicket, TypeOK
  <2>2. CASE t # NoTicket
    <3>1. Outlasts(clock[h] - since[h], clock[b] - t.captured)
      BY <1>1, <2>2 DEF WaitIsCovered
    <3>2. t.deadline = t.captured + Window
      BY <1>1, <2>2 DEF TicketsAreGood, GoodTicket
    <3>3. clock[b] - t.captured >= Window
      BY <3>1, WaitOutlastsWindow, ConstantsAssumption DEF Waited, TypeOK, Ticket
    <3> QED
      BY <3>2, <3>3, ConstantsAssumption DEF TypeOK, Ticket
  <2> QED
    BY <2>1, <2>2
<1> QED
  BY <1>1 DEF Entitled, TypeOK

\* Every step of a holder that commits no write is harmless.
LEMMA QuietStep ==
    ASSUME LeaseInv, TypeOK', NEW h \in Holders,
           Step(h), ~(ServePut(h) /\ Matches(seen[h])), ~ServeLatePut(h)
    PROVE  Harmless
<1> USE DEF LeaseInv
<1>1. CASE Start(h)
  BY <1>1 DEF Start, Deny, Ends, TypeOK, Harmless, Granted, GoesAhead, leaseVars, waitVars
<1>2. CASE Get(h)
  <2>1. CASE gone
    BY <1>2, <2>1, FailIsHarmless DEF Get, GoesAhead, leaseVars
  <2>2. CASE ~gone
    BY <1>2, <2>2 DEF Get, TypeOK, Harmless, Granted, GoesAhead, leaseVars, waitVars, gateVars
  <2> QED
    BY <2>1, <2>2
<1>3. CASE Observe(h)
  <2>1. CASE Fail(h, "terminal")
    BY <1>3, <2>1, FailIsHarmless DEF Observe, GoesAhead, leaseVars
  <2>2. CASE ~Renews(h) /\ stableRV[h] # seen[h].rv /\ ~Fail(h, "terminal")
    BY <1>3, <2>2 DEF Observe, Deny, Ends, TypeOK, Harmless, Granted, GoesAhead, leaseVars
  <2>3. CASE ~Renews(h) /\ stableRV[h] = seen[h].rv /\ ~Waited(h) /\ ~Fail(h, "terminal")
    BY <1>3, <2>3 DEF Observe, Ends, TypeOK, Harmless, Granted, GoesAhead, leaseVars, gateVars
  <2>4. CASE (Renews(h) \/ (stableRV[h] = seen[h].rv /\ Waited(h))) /\ ~Fail(h, "terminal")
    <3>1. ASSUME seen[h].rv = lease.rv, NEW b \in Holders, Entitled(b)
          PROVE  h = b
      <4>1. CASE Renews(h)
        BY <3>1, <4>1 DEF Renews, RevisionsAreOld, Exclusion
      <4>2. CASE ~Renews(h)
        BY <2>4, <3>1, <4>2, WaitedIsAlone
      <4> QED
        BY <4>1, <4>2
    <3> QED
      BY <1>3, <2>4, <3>1 DEF Observe, Ends, TypeOK, Harmless, Granted, GoesAhead, leaseVars, gateVars
  <2> QED
    BY <2>1, <2>2, <2>3, <2>4
<1>4. CASE Capture(h)
  BY <1>4 DEF Capture, TypeOK, Harmless, Granted, GoesAhead, TicketsAreGood, leaseVars, waitVars
<1>5. CASE SendPut(h)
  <2>1. CASE clock[h] < ticket[h].deadline
    BY <1>5, <2>1 DEF SendPut, TypeOK, Harmless, Granted, GoesAhead, leaseVars, waitVars, gateVars
  <2>2. CASE ~(clock[h] < ticket[h].deadline)
    BY <1>5, <2>2, FailIsHarmless DEF SendPut, GoesAhead, leaseVars
  <2> QED
    BY <2>1, <2>2
<1>6. CASE ServePut(h)
  BY <1>6, FailIsHarmless DEF ServePut, GoesAhead, leaseVars
<1>7. CASE SendArm(h)
  <2>1. CASE clock[h] < ticket[h].deadline
    BY <1>7, <2>1 DEF SendArm, TypeOK, Harmless, Granted, GoesAhead, leaseVars, waitVars
  <2>2. CASE ~(clock[h] < ticket[h].deadline)
    BY <1>7, <2>2, FailIsHarmless DEF SendArm, GoesAhead, leaseVars
  <2> QED
    BY <2>1, <2>2
<1>8. CASE DriverArm(h)
  <2>1. pc'[h] \in {"armed", "terminal"} /\ ~arming'[h]
    BY <1>8 DEF DriverArm, Ends, TypeOK
  <2>2. \A k \in Holders \ {h} :
          /\ pc'[k] = pc[k] /\ seen'[k] = seen[k] /\ arming'[k] = arming[k]
          /\ ticket'[k] = ticket[k] /\ window'[k] = window[k]
    BY <1>8 DEF DriverArm, Ends, TypeOK
  <2>3. Granted(h) /\ window'[h] \in {window[h], ticket[h]}
    BY <1>8 DEF DriverArm, Granted, TypeOK
  <2>4. \A a \in Holders :
          stableRV'[a] = 0 \/ (stableRV'[a] = stableRV[a] /\ since'[a] = since[a])
    BY <1>8 DEF DriverArm, Forget, TypeOK, waitVars
  <2> QED
    BY <1>8, <2>1, <2>2, <2>3, <2>4 DEF DriverArm, Harmless, Granted, GoesAhead, leaseVars
<1>9. CASE Finish(h)
  <2>1. CASE clock[h] < window[h].deadline
    BY <1>9, <2>1 DEF Finish, Ends, TypeOK, Harmless, Granted, GoesAhead, leaseVars, gateVars
  <2>2. CASE ~(clock[h] < window[h].deadline)
    BY <1>9, <2>2, FailIsHarmless DEF Finish, GoesAhead, leaseVars
  <2> QED
    BY <2>1, <2>2
<1>10. CASE TimeOut(h)
  BY <1>10, FailIsHarmless DEF TimeOut, GivesUp, GoesAhead, Matches
<1>11. CASE Dies(h)
  <2>1. pc'[h] = "terminal" /\ arming' = arming /\ window' = window
    BY <1>11 DEF Dies, Ends, TypeOK
  <2>2. \A k \in Holders \ {h} :
          pc'[k] = pc[k] /\ seen'[k] = seen[k] /\ ticket'[k] = ticket[k]
    BY <1>11 DEF Dies, Ends, TypeOK
  <2>3. arming[h] => ticket'[h] = ticket[h]
    BY <1>11 DEF Dies, TypeOK
  <2>4. \A a \in Holders :
          stableRV'[a] = 0 \/ (stableRV'[a] = stableRV[a] /\ since'[a] = since[a])
    BY <1>11 DEF Dies, Forget, TypeOK
  <2>5. \A k \in late' : GoesAhead(k)
    BY <1>11 DEF Dies, GivesUp, GoesAhead, Matches
  <2> QED
    BY <1>11, <2>1, <2>2, <2>3, <2>4, <2>5 DEF Dies, GivesUp, Harmless, Granted, GoesAhead
<1> QED
  BY <1>1, <1>2, <1>3, <1>4, <1>5, <1>6, <1>7, <1>8, <1>9, <1>10, <1>11 DEF Step

\* A committed write keeps waits covered and the exclusion: nobody has seen the new
\* resourceVersion, and the writer was the only one that could be entitled.
LEMMA CommitStep ==
    ASSUME LeaseInv, NEW h \in Holders, GoesAhead(h), Commit(h), clock' = clock,
           UNCHANGED <<waitVars, gateVars>>,
           \A k \in Holders : k # h => pc'[k] = pc[k] /\ seen'[k] = seen[k],
           \/ pc'[h] = pc[h] /\ seen'[h] = seen[h]
           \/ pc'[h] = "committed"
    PROVE  WaitIsCovered' /\ Exclusion'
<1> USE DEF LeaseInv
<1>1. lease'.rv = lease.rv + 1 /\ lease.rv \in Nat /\ late' = {} /\ writer' = h
  BY CommitTypes, ConstantsAssumption DEF TypeOK, Record
<1>2. \A k \in Holders : stableRV[k] # lease'.rv /\ seen[k].rv # lease'.rv
  BY <1>1, ConstantsAssumption DEF RevisionsAreOld, TypeOK, Record
<1>3. WaitIsCovered'
  BY <1>2 DEF WaitIsCovered, waitVars
<1>4. \A k \in Holders : Entitled(k)' => k = h
  BY DEF Exclusion, Entitled, Granted, gateVars
<1>5. \A k \in Holders : k # h => ~GoesAhead(k)'
  BY <1>1, <1>2 DEF GoesAhead
<1> QED
  BY <1>1, <1>3, <1>4, <1>5 DEF Exclusion

\* Time passes: waits and tickets age together, and nobody becomes entitled.
LEMMA TickStep ==
    ASSUME LeaseInv, TypeOK', Tick
    PROVE  LeaseInv'
<1> USE ConstantsAssumption DEF LeaseInv, leaseVars, waitVars, gateVars
<1>1. PICK d \in [Holders -> MinRate..MaxRate] :
        clock' = [h \in Holders |-> clock[h] + d[h]]
  BY DEF Tick
<1>2. \A h \in Holders : clock'[h] = clock[h] + d[h] /\ d[h] \in Nat
  BY <1>1 DEF TypeOK
<1>3. TicketsAreGood'
  BY <1>2 DEF Tick, TicketsAreGood, GoodTicket, TypeOK, Ticket
<1>4. RevisionsAreOld'
  BY <1>2 DEF Tick, RevisionsAreOld, TypeOK
<1>5. \A h \in Holders : Entitled(h)' => Entitled(h)
  BY <1>2 DEF Tick, Entitled, Granted, TypeOK, Ticket
<1>6. Exclusion'
  BY <1>5 DEF Tick, Exclusion, GoesAhead
<1>7. ASSUME NEW a \in Holders, NEW b \in Holders, NEW t \in Ticket,
             Outlasts(clock[a] - since[a], clock[b] - t.captured)
      PROVE  Outlasts(clock'[a] - since[a], clock'[b] - t.captured)
  <2>1. clock[a] - since[a] \in Int /\ clock[b] - t.captured \in Int
    BY DEF TypeOK, Ticket
  <2>2. Outlasts((clock[a] - since[a]) + d[a], (clock[b] - t.captured) + d[b])
    BY <1>7, <2>1, OutlastsTick
  <2>3. /\ clock'[a] - since[a] = (clock[a] - since[a]) + d[a]
        /\ clock'[b] - t.captured = (clock[b] - t.captured) + d[b]
    BY <1>2 DEF TypeOK, Ticket
  <2> QED
    BY <2>2, <2>3
<1>8. WaitIsCovered'
  BY <1>7 DEF Tick, WaitIsCovered, Granted, TypeOK
<1> QED
  BY <1>3, <1>4, <1>6, <1>8

\* An operator who replaces the Lease opens no gate and shortens no wait.
LEMMA OperatorStep ==
    ASSUME LeaseInv, TypeOK', DeleteLease \/ ProvisionLease
    PROVE  LeaseInv'
<1> USE ConstantsAssumption DEF LeaseInv, waitVars, gateVars
<1>1. /\ UNCHANGED <<clock, writer, pc, seen, stableRV, since, own, ticket, arming, window>>
      /\ late' \subseteq late
      /\ lease' = lease \/ lease'.rv = lease.rv + 1
  BY DEF DeleteLease, ProvisionLease
<1>2. /\ lease.rv \in Nat
      /\ \A h \in Holders : seen[h].rv \in Nat /\ stableRV[h] \in Nat /\ own[h] \in Nat
  BY DEF TypeOK, Record
<1>3. TicketsAreGood'
  BY <1>1 DEF TicketsAreGood, GoodTicket
<1>4. RevisionsAreOld'
  BY <1>1, <1>2 DEF RevisionsAreOld
<1>5. WaitIsCovered'
  BY <1>1, <1>2 DEF WaitIsCovered, Granted, RevisionsAreOld
<1>6. Exclusion'
  BY <1>1, <1>2 DEF Exclusion, Entitled, Granted, GoesAhead, RevisionsAreOld
<1> QED
  BY <1>3, <1>4, <1>5, <1>6

\* Every step preserves the invariant.
LEMMA LeaseInvStep ==
    ASSUME LeaseInv, [Next]_vars
    PROVE  LeaseInv'
<1>t. TypeOK'
  BY TypeStep DEF LeaseInv
<1>1. ASSUME NEW h \in Holders, Step(h)
      PROVE  LeaseInv'
  <2>1. TicketsAreGood' /\ RevisionsAreOld'
    BY <1>1, <1>t, TicketsStep, RevisionsStep
  <2>2. CASE ServePut(h) /\ Matches(seen[h])
    <3>1. GoesAhead(h)
      BY <2>2 DEF ServePut, Matches, GoesAhead
    <3>2. \A k \in Holders : k # h => pc'[k] = pc[k] /\ seen'[k] = seen[k]
      BY <2>2 DEF ServePut, LeaseInv, TypeOK
    <3>3. pc'[h] = "committed"
      BY <2>2 DEF ServePut, LeaseInv, TypeOK
    <3> QED
      BY <1>t, <2>1, <2>2, <3>1, <3>2, <3>3, CommitStep DEF ServePut, LeaseInv
  <2>3. CASE ServeLatePut(h)
    BY <1>t, <2>1, <2>3, CommitStep DEF ServeLatePut, GoesAhead, LeaseInv
  <2>4. CASE ~(ServePut(h) /\ Matches(seen[h])) /\ ~ServeLatePut(h)
    BY <1>1, <1>t, <2>1, <2>4, QuietStep, HarmlessStep DEF LeaseInv
  <2> QED
    BY <2>2, <2>3, <2>4
<1>2. CASE UNCHANGED vars
  BY <1>2, <1>t DEF vars, leaseVars, waitVars, gateVars, LeaseInv, TicketsAreGood, GoodTicket,
       RevisionsAreOld, WaitIsCovered, Exclusion, Entitled, Granted, GoesAhead
<1> QED
  BY <1>t, <1>1, <1>2, TickStep, OperatorStep DEF Next

\* A process starts with no ticket, an empty map and nothing observed.
LEMMA LeaseInvInit == Init => LeaseInv
<1> SUFFICES ASSUME Init PROVE LeaseInv
  OBVIOUS
<1> USE ConstantsAssumption DEF Init
<1>1. TypeOK
  <2>1. lease \in Record
    BY DEF Record
  <2>2. "new" \in Phases
    BY DEF Phases
  <2>3. clock \in [Holders -> 1..MaxClock] /\ since \in [Holders -> 0..MaxClock]
    OBVIOUS
  <2>4. /\ pinned \in [Holders -> 0..MaxUID]
        /\ stableRV \in [Holders -> 0..MaxRV]
        /\ own \in [Holders -> 0..MaxRV]
    OBVIOUS
  <2>5. /\ pc \in [Holders -> Phases]
        /\ seen \in [Holders -> Record]
        /\ ticket \in [Holders -> Ticket]
        /\ window \in [Holders -> Ticket]
        /\ arming \in [Holders -> BOOLEAN]
    BY <2>2, NothingTypes
  <2> QED
    BY <2>1, <2>3, <2>4, <2>5 DEF TypeOK
<1>2. /\ NoRecord.rv = 0 /\ lease.rv = 1
      /\ \A h \in Holders : ~Entitled(h) /\ ~GoesAhead(h)
  BY DEF NoRecord, NoTicket, Entitled, Granted, GoesAhead
<1>3. TicketsAreGood /\ RevisionsAreOld
  BY <1>2 DEF TicketsAreGood, GoodTicket, RevisionsAreOld
<1>4. WaitIsCovered /\ Exclusion
  BY <1>2 DEF WaitIsCovered, Exclusion, Granted
<1> QED
  BY <1>1, <1>3, <1>4 DEF LeaseInv
----------------------------------------------------------------------------
\* The invariant holds in every reachable state of every instance.
THEOREM LeaseInvariant == Spec => []LeaseInv
<1>1. LeaseInv /\ [Next]_vars => LeaseInv'
  BY LeaseInvStep
<1> QED
  BY <1>1, LeaseInvInit, PTL DEF Spec

\* A holder whose gate is open wrote the Lease last, for any number of holders and any rates the
\* margin covers: fence_allows and Controller.Step together.
THEOREM OpenIsLastWriterHolds == Spec => []OpenIsLastWriter
<1>1. LeaseInv => OpenIsLastWriter
  BY DEF LeaseInv, Exclusion, Entitled, OpenIsLastWriter, Open, Allows
<1> QED
  BY <1>1, LeaseInvariant, PTL

\* Two gates are never open at once.
THEOREM ExclusiveGateHolds == Spec => []ExclusiveGate
<1>1. OpenIsLastWriter => ExclusiveGate
  BY DEF OpenIsLastWriter, ExclusiveGate
<1> QED
  BY <1>1, OpenIsLastWriterHolds, PTL
============================================================================
