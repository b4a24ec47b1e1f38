------------------------ MODULE FailoverGroupsProofs ------------------------
(***************************************************************************)
(* For any groups, engines, addresses and bounds: the failover lifecycle   *)
(* keeps GroupsInv, and with it implements the abstract reservations.      *)
(***************************************************************************)
EXTENDS FailoverGroups, TLAPS

USE KindsAreDistinct, NobodyIsNoGroup, BoundsAreNat

\* A pair consists of engines.
LEMMA PairsAreEngines == \A p \in Pairs : p \subseteq Engines
  BY DEF Pairs

\* The transitions an operator can request end in a live lifecycle.
LEMMA TransitionTargets ==
  ASSUME NEW now, NEW next, ValidTransition(now, next)
  PROVE  /\ next \in {"active", "draining", "deleting"}
         /\ now \in {"active", "draining", "withdrawn"}
         /\ next = "active" => now = "withdrawn"
  BY DEF ValidTransition

LEMMA InitInv == Init => GroupsInv
  BY SMT DEF Init, GroupsInv, TypeOK, RowsAgree, RowAgrees, ReservationsMatchLifecycle,
         GrantsAreReserved, WithdrawalIsFinal, Lifecycles, Live, Resources,
         Token, GrantSet

\* Creating a group takes only what nobody holds.
LEMMA CreateInv ==
  ASSUME GroupsInv, NEW g \in Groups, NEW pair \in Pairs, NEW addr \in IPs,
         Create(g, pair, addr)
  PROVE  GroupsInv'
<1>0. pair \subseteq Engines /\ addr \in Resources /\ pair \subseteq Resources
  BY PairsAreEngines DEF Resources
<1> USE DEF GroupsInv
<1>1. TypeOK'
  BY <1>0 DEF TypeOK, Create, SetLifecycle, Reserve, Lifecycles, Resources
<1>2. \A r \in pair \cup {addr} : holder[r] = Nobody
  <2>1. ~Live(g)
    BY DEF Create, Live
  <2> QED
    BY <2>1, <1>0 DEF Create, Reserve, MayReserve, ReservationsMatchLifecycle
<1>3. \A h \in Groups \ {g} : \A r \in Resources : holder'[r] = h <=> holder[r] = h
  BY <1>2, <1>0 DEF Create, Reserve, TypeOK
<1>4. \A r \in Resources : holder'[r] = g <=> r \in pair \cup {addr}
  <2>1. ~Live(g)
    BY DEF Create, Live
  <2> QED
    BY <2>1, <1>0 DEF Create, Reserve, ReservationsMatchLifecycle
<1>5. /\ grants' = grants /\ withdrawals' = withdrawals
      /\ grants[g] = {}
      /\ lifecycle'[g] = "active" /\ generation'[g] = 1 /\ generation[g] = 0
      /\ ip'[g] = addr /\ members'[g] = pair
      /\ \A h \in Groups \ {g} : /\ lifecycle'[h] = lifecycle[h]
                                 /\ generation'[h] = generation[h]
                                 /\ ip'[h] = ip[h] /\ members'[h] = members[h]
  BY DEF Create, SetLifecycle, TypeOK, RowsAgree, RowAgrees, Live
<1>6. RowsAgree'
  BY <1>0, <1>3, <1>4, <1>5 DEF RowsAgree, RowAgrees, Live, Resources, TypeOK
<1>7. ReservationsMatchLifecycle'
  BY <1>0, <1>3, <1>4, <1>5 DEF ReservationsMatchLifecycle, Live
<1>8. GrantsAreReserved'
  BY <1>3, <1>5 DEF GrantsAreReserved, TypeOK, GrantSet, RowsAgree, RowAgrees, Live, Resources
<1>9. WithdrawalIsFinal'
  BY <1>5 DEF WithdrawalIsFinal
<1> QED
  BY <1>1, <1>6, <1>7, <1>8, <1>9

\* What an update or a transition does to the reservations: nothing but adding
\* its own members and address, which nobody else holds.
LEMMA ReserveKeeps ==
  ASSUME GroupsInv, NEW g \in Groups, NEW S \in SUBSET Resources, Reserve(g, S)
  PROVE  /\ holder' \in [Resources -> Groups \cup {Nobody}]
         /\ \A h \in Groups \ {g} : \A r \in Resources :
               holder'[r] = h <=> holder[r] = h
         /\ \A r \in Resources : holder'[r] = g <=> holder[r] = g \/ r \in S
  BY DEF GroupsInv, TypeOK, Reserve, MayReserve

\* The group row after a mutation, and the rows of the other groups.
LEMMA SetLifecycleKeeps ==
  ASSUME TypeOK, NEW g \in Groups, NEW next \in Lifecycles, SetLifecycle(g, next)
  PROVE  /\ lifecycle' \in [Groups -> Lifecycles]
         /\ generation' \in [Groups -> 0..MaxGeneration]
         /\ lifecycle'[g] = next /\ generation'[g] = generation[g] + 1
         /\ \A h \in Groups \ {g} : /\ lifecycle'[h] = lifecycle[h]
                                    /\ generation'[h] = generation[h]
  BY DEF TypeOK, SetLifecycle

\* Whatever the new pair is, an update keeps the engines it retires reserved.
LEMMA UpdateInv ==
  ASSUME GroupsInv, NEW g \in Groups, NEW pair \in Pairs, NEW x \in 1..MaxGeneration,
         Update(g, pair, x)
  PROVE  GroupsInv'
<1> DEFINE next == IF pair = members[g] THEN lifecycle[g] ELSE "draining"
<1>0. /\ pair \subseteq Engines /\ pair \subseteq Resources
      /\ ip[g] \in IPs /\ Live(g) /\ pair \cup {ip[g]} \in SUBSET Resources
  BY PairsAreEngines DEF Resources, Update, Updatable, Live, RowsAgree, RowAgrees, GroupsInv
<1>1. next \in {"active", "withdrawn", "draining"} /\ next \in Lifecycles
  BY DEF Update, Updatable, Lifecycles
<1>2. /\ holder' \in [Resources -> Groups \cup {Nobody}]
      /\ \A h \in Groups \ {g} : \A r \in Resources :
            holder'[r] = h <=> holder[r] = h
      /\ \A r \in Resources :
            holder'[r] = g <=> holder[r] = g \/ r \in pair \cup {ip[g]}
  <2>1. Reserve(g, pair \cup {ip[g]})
    BY DEF Update
  <2> QED
    BY <1>0, <2>1, ReserveKeeps
<1>3. /\ lifecycle' \in [Groups -> Lifecycles]
      /\ generation' \in [Groups -> 0..MaxGeneration]
      /\ lifecycle'[g] = next /\ generation'[g] = generation[g] + 1
      /\ \A h \in Groups \ {g} : /\ lifecycle'[h] = lifecycle[h]
                                 /\ generation'[h] = generation[h]
  <2>1. SetLifecycle(g, next)
    BY DEF Update
  <2> QED
    BY <1>1, <2>1, SetLifecycleKeeps DEF GroupsInv
<1>4. /\ grants' = grants /\ withdrawals' = withdrawals /\ ip' = ip
      /\ members' \in [Groups -> SUBSET Engines] /\ members'[g] = pair
      /\ \A h \in Groups \ {g} : members'[h] = members[h]
  BY <1>0 DEF Update, TypeOK, GroupsInv
<1> USE DEF GroupsInv
<1>5. TypeOK'
  BY <1>2, <1>3, <1>4 DEF TypeOK, Update
<1>6. RowsAgree'
  <2> SUFFICES ASSUME NEW h \in Groups PROVE RowAgrees(h)'
    BY DEF RowsAgree
  <2>1. RowAgrees(h)
    BY DEF RowsAgree
  <2>2. /\ \A w \in withdrawals[h] : w \in Nat
        /\ \A gr \in grants[h] : gr.generation \in Nat
        /\ generation[h] \in Nat
    BY DEF TypeOK, GrantSet
  <2>3. CASE h = g
    BY <2>1, <2>2, <2>3, <1>0, <1>1, <1>2, <1>3, <1>4
       DEF RowAgrees, Live, Resources
  <2>4. CASE h /= g
    BY <2>1, <2>2, <2>4, <1>0, <1>2, <1>3, <1>4 DEF RowAgrees, Live, Resources
  <2> QED
    BY <2>3, <2>4
<1>7. ReservationsMatchLifecycle'
  <2>1. next /= "draining" => pair = members[g] /\ next = lifecycle[g]
    OBVIOUS
  <2> QED
    BY <2>1, <1>0, <1>1, <1>2, <1>3, <1>4 DEF ReservationsMatchLifecycle, Live
<1>8. GrantsAreReserved'
  BY <1>2, <1>4 DEF GrantsAreReserved, TypeOK, GrantSet, RowsAgree, RowAgrees, Live, Resources
<1>9. WithdrawalIsFinal'
  BY <1>1, <1>3, <1>4 DEF WithdrawalIsFinal, Update, Updatable
<1> QED
  BY <1>5, <1>6, <1>7, <1>8, <1>9

\* Draining, requesting deletion and resuming neither free nor take anything.
LEMMA TransitionInv ==
  ASSUME GroupsInv, NEW g \in Groups, NEW x \in 1..MaxGeneration, NEW next,
         Transition(g, x, next)
  PROVE  GroupsInv'
<1>1. /\ next \in {"active", "draining", "deleting"} /\ next \in Lifecycles
      /\ lifecycle[g] \in {"active", "draining", "withdrawn"}
      /\ next = "active" => lifecycle[g] = "withdrawn"
  BY TransitionTargets DEF Transition, Lifecycles
<1>0. /\ ip[g] \in IPs /\ Live(g) /\ members[g] \cup {ip[g]} \in SUBSET Resources
  BY <1>1 DEF Resources, Live, RowsAgree, RowAgrees, GroupsInv, TypeOK
<1>2. /\ holder' \in [Resources -> Groups \cup {Nobody}]
      /\ \A h \in Groups : \A r \in Resources : holder'[r] = h <=> holder[r] = h
  <2>1. Reserve(g, members[g] \cup {ip[g]})
    BY DEF Transition
  <2>2. \A r \in members[g] \cup {ip[g]} : holder[r] = g
    BY <1>0 DEF GroupsInv, ReservationsMatchLifecycle
  <2> QED
    BY <1>0, <2>1, <2>2, ReserveKeeps
<1>3. /\ lifecycle' \in [Groups -> Lifecycles]
      /\ generation' \in [Groups -> 0..MaxGeneration]
      /\ lifecycle'[g] = next /\ generation'[g] = generation[g] + 1
      /\ \A h \in Groups \ {g} : /\ lifecycle'[h] = lifecycle[h]
                                 /\ generation'[h] = generation[h]
  <2>1. SetLifecycle(g, next)
    BY DEF Transition
  <2> QED
    BY <1>1, <2>1, SetLifecycleKeeps DEF GroupsInv
<1>4. /\ grants' = grants /\ withdrawals' = withdrawals /\ ip' = ip
      /\ members' = members
  BY DEF Transition
<1> USE DEF GroupsInv
<1>5. TypeOK'
  BY <1>2, <1>3, <1>4 DEF TypeOK, Transition
<1>6. RowsAgree'
  <2> SUFFICES ASSUME NEW h \in Groups PROVE RowAgrees(h)'
    BY DEF RowsAgree
  <2>1. RowAgrees(h)
    BY DEF RowsAgree
  <2>2. /\ \A w \in withdrawals[h] : w \in Nat
        /\ \A gr \in grants[h] : gr.generation \in Nat
        /\ generation[h] \in Nat
    BY DEF TypeOK, GrantSet
  <2>3. CASE h = g
    BY <2>1, <2>2, <2>3, <1>0, <1>1, <1>2, <1>3, <1>4
       DEF RowAgrees, Live, Resources
  <2>4. CASE h /= g
    BY <2>1, <2>2, <2>4, <1>0, <1>2, <1>3, <1>4 DEF RowAgrees, Live, Resources
  <2> QED
    BY <2>3, <2>4
<1>7. ReservationsMatchLifecycle'
  BY <1>0, <1>1, <1>2, <1>3, <1>4 DEF ReservationsMatchLifecycle, Live
<1>8. GrantsAreReserved'
  BY <1>2, <1>4 DEF GrantsAreReserved, TypeOK, GrantSet, RowsAgree, RowAgrees, Live, Resources
<1>9. WithdrawalIsFinal'
  BY <1>1, <1>3, <1>4 DEF WithdrawalIsFinal
<1> QED
  BY <1>5, <1>6, <1>7, <1>8, <1>9

\* A new reporting token changes nothing the invariant is about.
LEMMA RotateInv ==
  ASSUME GroupsInv, NEW g \in Groups, NEW x \in 1..MaxGeneration,
         NEW n \in 0..MaxEpoch, RotatePublisher(g, x, n)
  PROVE  GroupsInv'
<1>1. TypeOK'
  BY DEF GroupsInv, TypeOK, RotatePublisher, Token, Lock
<1> QED
  BY <1>1 DEF GroupsInv, RotatePublisher, RowsAgree, RowAgrees, ReservationsMatchLifecycle,
              GrantsAreReserved, WithdrawalIsFinal, Live

\* Every grant of the group is on an engine in the scope of the proof, so a
\* completed withdrawal leaves none, and what it releases is unused.
LEMMA WithdrawalClears ==
  ASSUME GroupsInv, NEW g \in Groups, NEW t \in tokens[g], CompleteWithdrawal(g, t)
  PROVE  /\ grants' = [grants EXCEPT ![g] = {}]
         /\ Live(g) /\ ip[g] \in IPs
         /\ generation[g] \in 1..MaxGeneration
<1>1. Live(g) /\ ip[g] \in IPs
  BY DEF GroupsInv, RowsAgree, RowAgrees, Live, CompleteWithdrawal
<1>2. \A gr \in grants[g] : gr.engine \in ReservedMembers(g)
  BY DEF GroupsInv, TypeOK, GrantSet, GrantsAreReserved, ReservedMembers
<1>3. {gr \in grants[g] : gr.engine \notin ReservedMembers(g)} = {}
  BY <1>2
<1>4. generation[g] \in 1..MaxGeneration
  BY <1>1 DEF GroupsInv, RowsAgree, RowAgrees, Live, TypeOK
<1> QED
  BY <1>1, <1>3, <1>4 DEF CompleteWithdrawal, GroupsInv, TypeOK

LEMMA WithdrawalInv ==
  ASSUME GroupsInv, NEW g \in Groups, NEW t \in tokens[g], CompleteWithdrawal(g, t)
  PROVE  GroupsInv'
<1> DEFINE next == IF lifecycle[g] = "deleting" THEN "deleted" ELSE "withdrawn"
<1>0. /\ grants' = [grants EXCEPT ![g] = {}]
      /\ Live(g) /\ ip[g] \in IPs
      /\ generation[g] \in 1..MaxGeneration
  BY WithdrawalClears
<1>1. /\ next \in {"withdrawn", "deleted"} /\ next \in Lifecycles
      /\ lifecycle[g] \in {"draining", "deleting"}
  BY DEF Lifecycles, CompleteWithdrawal
<1>2. holder' = [r \in Resources |->
                    IF r \in Released(g, next) THEN Nobody ELSE holder[r]]
  BY DEF CompleteWithdrawal
<1>3. /\ lifecycle' \in [Groups -> Lifecycles]
      /\ generation' \in [Groups -> 0..MaxGeneration]
      /\ lifecycle'[g] = next /\ generation'[g] = generation[g] + 1
      /\ \A h \in Groups \ {g} : /\ lifecycle'[h] = lifecycle[h]
                                 /\ generation'[h] = generation[h]
  <2>1. SetLifecycle(g, next)
    BY DEF CompleteWithdrawal
  <2> QED
    BY <1>1, <2>1, SetLifecycleKeeps DEF GroupsInv
<1>4. /\ withdrawals' = [withdrawals EXCEPT ![g] = @ \cup {generation[g]}]
      /\ ip' = ip /\ members' = members /\ epoch' = epoch /\ tokens' = tokens
  BY DEF CompleteWithdrawal
<1> HIDE DEF next
<1>5. \A r \in Released(g, next) : holder[r] = g
  BY DEF Released, ReservedMembers, GroupsInv, TypeOK, Resources
<1>6. /\ holder' \in [Resources -> Groups \cup {Nobody}]
      /\ \A h \in Groups \ {g} : \A r \in Resources :
            holder'[r] = h <=> holder[r] = h
      /\ \A r \in Resources :
            holder'[r] = g <=> holder[r] = g /\ r \notin Released(g, next)
  BY <1>2, <1>5 DEF GroupsInv, TypeOK
<1> USE DEF GroupsInv
<1>7. TypeOK'
  BY <1>0, <1>3, <1>4, <1>6 DEF TypeOK
<1>8. RowsAgree'
  BY <1>0, <1>1, <1>3, <1>4, <1>6 DEF RowsAgree, RowAgrees, Live, Resources, TypeOK
<1>9. ReservationsMatchLifecycle'
  <2>1. CASE next = "deleted"
    <3>1. \A r \in Resources : holder'[r] /= g
      BY <2>1, <1>6 DEF Released
    <3> QED
      BY <2>1, <3>1, <1>3, <1>4, <1>6 DEF ReservationsMatchLifecycle, Live
  <2>2. CASE next = "withdrawn"
    <3>1. \A r \in Resources : holder'[r] = g <=> r \in members[g] \cup {ip[g]}
      <4>1. members[g] \subseteq Engines
        BY DEF TypeOK
      <4>2. \A r \in Resources : holder[r] = g <=>
               r \in ReservedMembers(g) \cup {ip[g]}
        BY <1>0 DEF ReservedMembers, Resources, RowsAgree, RowAgrees,
                    ReservationsMatchLifecycle
      <4>3. members[g] \subseteq ReservedMembers(g)
        BY <1>0, <4>1 DEF ReservedMembers, ReservationsMatchLifecycle
      <4>4. ip[g] \notin ReservedMembers(g)
        BY <1>0 DEF ReservedMembers
      <4> QED
        BY <2>2, <4>1, <4>2, <4>3, <4>4, <1>6 DEF Released
    <3> QED
      BY <2>2, <3>1, <1>0, <1>3, <1>4, <1>6
         DEF ReservationsMatchLifecycle, Live, Resources, TypeOK
  <2> QED
    BY <2>1, <2>2, <1>1
<1>10. GrantsAreReserved'
  BY <1>0, <1>4, <1>6 DEF GrantsAreReserved, TypeOK, GrantSet, RowsAgree, RowAgrees, Live,
                          Resources
<1>11. WithdrawalIsFinal'
  BY <1>0, <1>3, <1>4 DEF WithdrawalIsFinal, TypeOK
<1> QED
  BY <1>7, <1>8, <1>9, <1>10, <1>11

\* A new grant is on a member and younger than every receipt.
LEMMA GrantInv ==
  ASSUME GroupsInv, NEW g \in Groups, NEW e \in Engines, Grant(g, e)
  PROVE  GroupsInv'
<1>1. /\ Live(g) /\ ip[g] \in IPs /\ generation[g] \in 1..MaxGeneration
      /\ holder[e] = g /\ holder[ip[g]] = g
  BY DEF GroupsInv, RowsAgree, RowAgrees, Live, Grant, TypeOK, ReservationsMatchLifecycle
<1>2. /\ \A h \in Groups \ {g} : grants'[h] = grants[h]
      /\ grants'[g] = grants[g] \cup {[engine |-> e, generation |-> generation[g]]}
      /\ grants' \in [Groups -> SUBSET GrantSet]
  BY <1>1 DEF GroupsInv, TypeOK, Grant, GrantSet
<1>3. TypeOK'
  BY <1>2 DEF GroupsInv, TypeOK, Grant
<1>4. RowsAgree'
  BY <1>1, <1>2 DEF GroupsInv, RowsAgree, RowAgrees, Live, Grant, TypeOK
<1>5. ReservationsMatchLifecycle'
  BY DEF GroupsInv, ReservationsMatchLifecycle, Live, Grant
<1>6. GrantsAreReserved'
  BY <1>1, <1>2 DEF GroupsInv, GrantsAreReserved, Grant
<1>7. WithdrawalIsFinal'
  BY <1>1, <1>2 DEF GroupsInv, WithdrawalIsFinal, Grant, RowsAgree, RowAgrees, TypeOK
<1> QED
  BY <1>3, <1>4, <1>5, <1>6, <1>7 DEF GroupsInv

LEMMA NextInv == GroupsInv /\ [Next]_vars => GroupsInv'
<1> SUFFICES ASSUME GroupsInv, [Next]_vars PROVE GroupsInv'
  OBVIOUS
<1>1. CASE UNCHANGED vars
  BY <1>1 DEF vars, GroupsInv, TypeOK, RowsAgree, RowAgrees, ReservationsMatchLifecycle,
              GrantsAreReserved, WithdrawalIsFinal, Live
<1>2. CASE Next
  BY <1>2, CreateInv, UpdateInv, TransitionInv, RotateInv, WithdrawalInv, GrantInv
     DEF Next, BeginDrain, RequestDeletion, Resume
<1> QED
  BY <1>1, <1>2

\* The failover lifecycle keeps its inductive invariant, for any number of
\* groups, engines and addresses.
THEOREM GroupsSafe == Spec => []GroupsInv
  BY InitInv, NextInv, PTL DEF Spec

\* No engine or frontend address is ever usable by a group that does not hold
\* its reservation, however memberships change.
THEOREM GrantsStayReserved == Spec => []GrantsAreReserved
<1>1. GroupsInv => GrantsAreReserved
  BY DEF GroupsInv
<1> QED
  BY <1>1, GroupsSafe, PTL

\* Grants of before a completed withdrawal never come back.
THEOREM WithdrawalsAreFinal == Spec => []WithdrawalIsFinal
<1>1. GroupsInv => WithdrawalIsFinal
  BY DEF GroupsInv
<1> QED
  BY <1>1, GroupsSafe, PTL

-----------------------------------------------------------------------------
(* The refinement: each operation is one abstract step or none.            *)

LEMMA InitImplements == Init => Promise!ResInit
  BY DEF Init, Promise!ResInit, Users

\* Operations that leave the grants and the addresses alone keep the users.
LEMMA UsersKept ==
  ASSUME grants' = grants,
         \A g \in Groups : grants[g] /= {} => ip'[g] = ip[g]
  PROVE  Users' = Users
  BY DEF Users

\* A reservation is an abstract acquisition.
LEMMA ReserveImplements ==
  ASSUME GroupsInv, NEW g \in Groups, NEW S \in SUBSET Resources,
         Reserve(g, S), Users' = Users
  PROVE  Promise!ResNext
<1>1. Promise!Acquire(g, S)
  BY DEF Reserve, MayReserve, Promise!Acquire, Resources
<1> QED
  BY <1>1 DEF Promise!ResNext

\* A withdrawal stops every use and then releases.
LEMMA WithdrawalImplements ==
  ASSUME GroupsInv, NEW g \in Groups, NEW t \in tokens[g], CompleteWithdrawal(g, t)
  PROVE  Promise!ResNext
<1> DEFINE next == IF lifecycle[g] = "deleting" THEN "deleted" ELSE "withdrawn"
           S == Released(g, next)
<1>1. grants' = [grants EXCEPT ![g] = {}]
  BY WithdrawalClears
<1>2. /\ S \in SUBSET Resources
      /\ \A r \in S : holder[r] = g
  BY DEF Released, ReservedMembers, Resources
<1>3. holder' = [r \in Resources |-> IF r \in S THEN Nobody ELSE holder[r]]
  BY DEF CompleteWithdrawal
<1>4. ip' = ip
  BY DEF CompleteWithdrawal
<1>5. Users' = [r \in Resources |-> Users[r] \ {g}]
  <2>1. /\ grants'[g] = {}
        /\ \A h \in Groups : h /= g => grants'[h] = grants[h]
    BY <1>1 DEF GroupsInv, TypeOK
  <2>2. ASSUME NEW r \in Resources
        PROVE  {h \in Groups : \E gr \in grants'[h] : r \in {gr.engine, ip[h]}}
               = {h \in Groups : \E gr \in grants[h] : r \in {gr.engine, ip[h]}} \ {g}
    BY <2>1
  <2> QED
    BY <2>2, <1>4 DEF Users
<1>6. Promise!Withdraw(g, S)
  BY <1>2, <1>3, <1>5 DEF Promise!Withdraw
<1> QED
  BY <1>2, <1>6 DEF Promise!ResNext

\* A grant uses the engine and the frontend address, both held.
LEMMA GrantImplements ==
  ASSUME GroupsInv, NEW g \in Groups, NEW e \in Engines, Grant(g, e)
  PROVE  Promise!ResNext
<1>1. /\ holder[e] = g /\ holder[ip[g]] = g
      /\ {e, ip[g]} \in SUBSET Resources
  BY DEF GroupsInv, RowsAgree, RowAgrees, Live, Grant, TypeOK,
         ReservationsMatchLifecycle, Resources
<1>2. /\ \A h \in Groups \ {g} : grants'[h] = grants[h]
      /\ grants'[g] = grants[g] \cup {[engine |-> e, generation |-> generation[g]]}
      /\ ip' = ip /\ holder' = holder
  BY DEF GroupsInv, TypeOK, Grant
<1>3. ASSUME NEW r \in Resources
      PROVE  {h \in Groups : \E gr \in grants'[h] : r \in {gr.engine, ip[h]}}
             = IF r \in {e, ip[g]}
               THEN {h \in Groups : \E gr \in grants[h] : r \in {gr.engine, ip[h]}}
                    \cup {g}
               ELSE {h \in Groups : \E gr \in grants[h] : r \in {gr.engine, ip[h]}}
  <2>1. \A h \in Groups :
           (\E gr \in grants'[h] : r \in {gr.engine, ip[h]})
           <=> (\E gr \in grants[h] : r \in {gr.engine, ip[h]})
               \/ (h = g /\ r \in {e, ip[g]})
    <3> SUFFICES ASSUME NEW h \in Groups
                 PROVE  (\E gr \in grants'[h] : r \in {gr.engine, ip[h]})
                        <=> (\E gr \in grants[h] : r \in {gr.engine, ip[h]})
                            \/ (h = g /\ r \in {e, ip[g]})
      OBVIOUS
    <3>1. CASE h /= g
      BY <3>1, <1>2
    <3>2. CASE h = g
      <4> DEFINE new == [engine |-> e, generation |-> generation[g]]
      <4>1. new.engine = e
        OBVIOUS
      <4>2. grants'[g] = grants[g] \cup {new}
        BY <1>2
      <4> QED
        BY <3>2, <4>1, <4>2
    <3> QED
      BY <3>1, <3>2
  <2> QED
    BY <2>1
<1>4. Users' = [r \in Resources |->
                  IF r \in {e, ip[g]} THEN Users[r] \cup {g} ELSE Users[r]]
  BY <1>2, <1>3 DEF Users
<1>5. Promise!Use(g, {e, ip[g]})
  BY <1>1, <1>2, <1>4 DEF Promise!Use
<1> QED
  BY <1>1, <1>5 DEF Promise!ResNext

LEMMA NextImplements ==
  GroupsInv /\ [Next]_vars => [Promise!ResNext]_(Promise!resVars)
<1> SUFFICES ASSUME GroupsInv, [Next]_vars
             PROVE  Promise!ResNext \/ UNCHANGED <<holder, Users>>
  BY DEF Promise!resVars
<1>1. CASE UNCHANGED vars
  BY <1>1 DEF vars, Users
<1>2. ASSUME NEW g \in Groups, NEW pair \in Pairs, NEW addr \in IPs,
             Create(g, pair, addr)
      PROVE  Promise!ResNext
  <2>1. pair \cup {addr} \in SUBSET Resources
    BY PairsAreEngines DEF Resources
  <2>2. grants[g] = {}
    BY <1>2 DEF Create, GroupsInv, RowsAgree, RowAgrees, Live
  <2>3. grants' = grants /\ \A h \in Groups : grants[h] /= {} => ip'[h] = ip[h]
    BY <1>2, <2>2 DEF Create, GroupsInv, TypeOK
  <2>4. Users' = Users
    BY <2>3, UsersKept
  <2> QED
    BY <1>2, <2>1, <2>4, ReserveImplements DEF Create
<1>3. ASSUME NEW g \in Groups, NEW pair \in Pairs, NEW x \in 1..MaxGeneration,
             Update(g, pair, x)
      PROVE  Promise!ResNext
  <2>1. pair \cup {ip[g]} \in SUBSET Resources
    BY <1>3, PairsAreEngines
       DEF Resources, Update, Updatable, Live, GroupsInv, RowsAgree, RowAgrees
  <2>2. Users' = Users
    BY <1>3, UsersKept DEF Update
  <2> QED
    BY <1>3, <2>1, <2>2, ReserveImplements DEF Update
<1>4. ASSUME NEW g \in Groups, NEW x \in 1..MaxGeneration, NEW next,
             Transition(g, x, next)
      PROVE  Promise!ResNext
  <2>1. members[g] \cup {ip[g]} \in SUBSET Resources
    BY <1>4, TransitionTargets
       DEF Resources, Transition, Live, GroupsInv, RowsAgree, RowAgrees, TypeOK
  <2>2. Users' = Users
    BY <1>4, UsersKept DEF Transition
  <2> QED
    BY <1>4, <2>1, <2>2, ReserveImplements DEF Transition
<1>5. ASSUME NEW g \in Groups, NEW x \in 1..MaxGeneration, NEW n \in 0..MaxEpoch,
             RotatePublisher(g, x, n)
      PROVE  UNCHANGED <<holder, Users>>
  BY <1>5, UsersKept DEF RotatePublisher
<1>6. CASE Next
  BY <1>2, <1>3, <1>4, <1>5, <1>6, WithdrawalImplements, GrantImplements
     DEF Next, BeginDrain, RequestDeletion, Resume
<1> QED
  BY <1>1, <1>6

\* The lifecycle of the failover groups implements the abstract reservations,
\* for every set of groups, engines and addresses: what is handed to another
\* group is used by nobody.
THEOREM GroupsImplementReservations == Spec => ImplementsReservations
  BY InitImplements, NextImplements, GroupsSafe, PTL
     DEF Spec, ImplementsReservations, Promise!ResSpec
=============================================================================
