---------------------------- MODULE FailoverGroups ----------------------------
(***************************************************************************)
(* Desired state of the failover groups (mgmt/internal/failover): their    *)
(* lifecycle, the generation every mutation is conditioned on, the         *)
(* reservations of member engines and frontend addresses the triggers of   *)
(* migration 01306 keep, the reporting tokens, and the withdrawal that     *)
(* alone releases a reservation.                                           *)
(*                                                                         *)
(* Each operation is one database transaction under a row lock on the      *)
(* group, so each is one action.  The runtime that acts on the desired     *)
(* state is external: it is modelled by the grants it may have handed out, *)
(* each a right to serve a group's frontend from an engine, usable at any  *)
(* later time until a verified withdrawal destroys it.                     *)
(***************************************************************************)
EXTENDS Integers, FiniteSets

CONSTANTS
    Groups,         \* the identities failover groups can be given
    Engines,
    IPs,            \* frontend addresses
    Nobody,         \* holder of an unreserved engine or address
    MaxGeneration,  \* bound on a group's generation
    MaxEpoch        \* bound on a group's publisher epochs

ASSUME KindsAreDistinct == Engines \cap IPs = {}
ASSUME NobodyIsNoGroup == Nobody \notin Groups
ASSUME BoundsAreNat == MaxGeneration \in Nat /\ MaxEpoch \in Nat

VARIABLES
    lifecycle,   \* failover_groups.lifecycle; "none" before Create
    generation,  \* failover_groups.generation
    members,     \* failover_groups.member_a and member_b, as a set
    ip,          \* failover_groups.frontend_ip
    holder,      \* failover_engine_reservations and failover_ip_reservations
    epoch,       \* failover_publishers.epoch, 0 when there is no row
    tokens,      \* failover_publisher_history: every token issued
    withdrawals, \* failover_withdrawals: generations with a receipt
    grants       \* rights to serve the runtime may have handed out (external)

vars == <<lifecycle, generation, members, ip, holder, epoch, tokens,
          withdrawals, grants>>

Resources == Engines \cup IPs

\* Two distinct engines.  Whether the engine rows admit the pair (alive,
\* placed on distinct nodes, one policy group) is left open: any pair may pass.
Pairs == {{a, b} : a, b \in Engines} \ {{a} : a \in Engines}

\* The lifecycles in which a name or membership update is accepted.
Updatable == {"active", "withdrawn"}

\* The transitions operators may request.
ValidTransition(now, next) ==
    \/ next = "draining" /\ now = "active"
    \/ next = "deleting" /\ now \in {"active", "draining", "withdrawn"}
    \/ next = "active" /\ now = "withdrawn"

\* Mutant: a conflicting reservation is taken over.
MayReserveAny(g, S) == TRUE

\* The reserve trigger: every resource is free or already this group's.
MayReserve(g, S) == \A r \in S : holder[r] \in {Nobody, g}

\* Mutant: the reservations follow the membership, retired members are freed.
ReserveDropsRetired(g, S) ==
    /\ MayReserve(g, S)
    /\ holder' = [r \in Resources |-> CASE r \in S -> g
                                       [] r \notin S /\ holder[r] = g -> Nobody
                                       [] OTHER -> holder[r]]

Reserve(g, S) ==
    /\ MayReserve(g, S)
    /\ holder' = [r \in Resources |-> IF r \in S THEN g ELSE holder[r]]

\* The generation CAS of lock: the caller names the generation it has seen.
Lock(g, expected) ==
    /\ lifecycle[g] /= "none"
    /\ expected > 0 /\ generation[g] = expected

\* One mutation of the group row, which always counts the generation up.
SetLifecycle(g, next) ==
    /\ generation[g] < MaxGeneration
    /\ lifecycle' = [lifecycle EXCEPT ![g] = next]
    /\ generation' = [generation EXCEPT ![g] = @ + 1]

Init ==
    /\ lifecycle = [g \in Groups |-> "none"]
    /\ generation = [g \in Groups |-> 0]
    /\ members = [g \in Groups |-> {}]
    /\ ip = [g \in Groups |-> Nobody]
    /\ holder = [r \in Resources |-> Nobody]
    /\ epoch = [g \in Groups |-> 0]
    /\ tokens = [g \in Groups |-> {}]
    /\ withdrawals = [g \in Groups |-> {}]
    /\ grants = [g \in Groups |-> {}]

\* A new identity; the row, its members and its reservations are one
\* transaction, which a resource of another group aborts.
Create(g, pair, addr) ==
    /\ lifecycle[g] = "none"
    /\ Reserve(g, pair \cup {addr})
    /\ SetLifecycle(g, "active")
    /\ members' = [members EXCEPT ![g] = pair]
    /\ ip' = [ip EXCEPT ![g] = addr]
    /\ UNCHANGED <<epoch, tokens, withdrawals, grants>>

\* Rename, or replace members: a changed pair drains as a whole.  The trigger
\* reserves the new members and leaves the removed ones reserved.
Update(g, pair, expected) ==
    /\ Lock(g, expected)
    /\ lifecycle[g] \in Updatable
    /\ SetLifecycle(g, IF pair = members[g] THEN lifecycle[g] ELSE "draining")
    /\ members' = [members EXCEPT ![g] = pair]
    /\ Reserve(g, pair \cup {ip[g]})
    /\ UNCHANGED <<ip, epoch, tokens, withdrawals, grants>>

\* BeginDrain, RequestDeletion and Resume.
Transition(g, expected, next) ==
    /\ Lock(g, expected)
    /\ ValidTransition(lifecycle[g], next)
    /\ SetLifecycle(g, next)
    /\ Reserve(g, members[g] \cup {ip[g]})
    /\ UNCHANGED <<members, ip, epoch, tokens, withdrawals, grants>>

BeginDrain(g, expected) == Transition(g, expected, "draining")
RequestDeletion(g, expected) == Transition(g, expected, "deleting")
Resume(g, expected) == Transition(g, expected, "active")

\* A new reporting incarnation, conditioned on the generation and on the epoch
\* the caller knows; the history keeps the token.
RotatePublisher(g, expected, expectedEpoch) ==
    /\ Lock(g, expected)
    /\ lifecycle[g] \notin {"deleted", "withdrawn"}
    /\ epoch[g] = expectedEpoch
    /\ epoch[g] < MaxEpoch
    /\ epoch' = [epoch EXCEPT ![g] = @ + 1]
    /\ tokens' = [tokens EXCEPT ![g] = @ \cup
                    {[epoch |-> expectedEpoch + 1, generation |-> expected]}]
    /\ UNCHANGED <<lifecycle, generation, members, ip, holder, withdrawals,
                   grants>>

\* The token is of the group's generation and of the current incarnation.
LockPublisher(g, t) == Lock(g, t.generation) /\ t.epoch = epoch[g]

\* Mutant: the proof covers the present members only.
ScopeIsMembers(g) == members[g]

\* The members a withdrawal proof has to cover: every retained reservation.
ReservedMembers(g) == {e \in Engines : holder[e] = g}

\* Mutant: deletion leaves the reservations of retired members behind.
ReleasedKeepsRetired(g, next) ==
    IF next = "deleted" THEN members[g] \cup {ip[g]}
    ELSE ReservedMembers(g) \ members[g]

\* What a completed withdrawal releases: everything on deletion, otherwise the
\* engines that are no longer members.
Released(g, next) ==
    IF next = "deleted"
    THEN {r \in Resources : holder[r] = g}
    ELSE ReservedMembers(g) \ members[g]

\* The verifier (external) has destroyed every grant on the engines in scope;
\* the receipt, the lifecycle and the releases commit with its verdict.
CompleteWithdrawal(g, t) ==
    /\ LockPublisher(g, t)
    /\ lifecycle[g] \in {"draining", "deleting"}
    /\ LET next == IF lifecycle[g] = "deleting" THEN "deleted" ELSE "withdrawn"
       IN /\ SetLifecycle(g, next)
          /\ holder' = [r \in Resources |->
                          IF r \in Released(g, next) THEN Nobody ELSE holder[r]]
    /\ grants' = [grants EXCEPT ![g] =
                     {gr \in @ : gr.engine \notin ReservedMembers(g)}]
    /\ withdrawals' = [withdrawals EXCEPT ![g] = @ \cup {generation[g]}]
    /\ UNCHANGED <<members, ip, epoch, tokens>>

\* External: the runtime hands a member of an active group the right to serve,
\* bound to the generation it read.
Grant(g, e) ==
    /\ lifecycle[g] = "active"
    /\ e \in members[g]
    /\ grants' = [grants EXCEPT ![g] = @ \cup
                    {[engine |-> e, generation |-> generation[g]]}]
    /\ UNCHANGED <<lifecycle, generation, members, ip, holder, epoch, tokens,
                   withdrawals>>

Next ==
    \E g \in Groups :
        \/ \E pair \in Pairs, addr \in IPs : Create(g, pair, addr)
        \/ \E pair \in Pairs, x \in 1..MaxGeneration : Update(g, pair, x)
        \/ \E x \in 1..MaxGeneration : BeginDrain(g, x)
        \/ \E x \in 1..MaxGeneration : RequestDeletion(g, x)
        \/ \E x \in 1..MaxGeneration : Resume(g, x)
        \/ \E x \in 1..MaxGeneration, n \in 0..MaxEpoch :
              RotatePublisher(g, x, n)
        \/ \E t \in tokens[g] : CompleteWithdrawal(g, t)
        \/ \E e \in Engines : Grant(g, e)

Spec == Init /\ [][Next]_vars

-----------------------------------------------------------------------------

Lifecycles == {"none", "active", "draining", "withdrawn", "deleting", "deleted"}
Token == [epoch : 1..MaxEpoch, generation : 1..MaxGeneration]
GrantSet == [engine : Engines, generation : 1..MaxGeneration]

\* Every row and every external grant has the shape its table allows.
TypeOK ==
    /\ lifecycle \in [Groups -> Lifecycles]
    /\ generation \in [Groups -> 0..MaxGeneration]
    /\ members \in [Groups -> SUBSET Engines]
    /\ ip \in [Groups -> IPs \cup {Nobody}]
    /\ holder \in [Resources -> Groups \cup {Nobody}]
    /\ epoch \in [Groups -> 0..MaxEpoch]
    /\ tokens \in [Groups -> SUBSET Token]
    /\ withdrawals \in [Groups -> SUBSET (1..MaxGeneration)]
    /\ grants \in [Groups -> SUBSET GrantSet]

Live(g) == lifecycle[g] \notin {"none", "deleted"}

\* A group that is not deleted holds its members and its frontend address, and
\* it holds further engines (retired members) only while a withdrawal is
\* pending: nothing stays reserved by a withdrawn or a deleted group for good.
ReservationsMatchLifecycle ==
    \A g \in Groups :
        LET held == {r \in Resources : holder[r] = g}
        IN  /\ Live(g) => members[g] \cup {ip[g]} \subseteq held
            /\ lifecycle[g] \in {"active", "withdrawn"}
                 => held = members[g] \cup {ip[g]}
            /\ ~Live(g) => held = {}

\* Whoever may still serve a group's frontend holds an engine that is reserved
\* for that group: no membership change, however often repeated, hands an
\* engine to another group while a grant on it is outstanding.
GrantsAreReserved ==
    \A g \in Groups : \A gr \in grants[g] :
        holder[gr.engine] = g /\ holder[ip[g]] = g

\* After a withdrawal completed nobody may serve the group, and no grant of
\* before it survives a later Resume: every outstanding grant is younger than
\* every receipt.
WithdrawalIsFinal ==
    \A g \in Groups :
        /\ lifecycle[g] \in {"withdrawn", "deleted"} => grants[g] = {}
        /\ \A gr \in grants[g] : \A w \in withdrawals[g] : gr.generation > w

\* The rows of one group agree with its lifecycle: what an operation may rely
\* on after the generation check.
RowAgrees(g) ==
    /\ lifecycle[g] = "none" => generation[g] = 0
    /\ lifecycle[g] /= "none" => generation[g] > 0
    /\ Live(g) => /\ ip[g] \in IPs
                  /\ \A a \in IPs : holder[a] = g => a = ip[g]
    /\ ~Live(g) => grants[g] = {}
    /\ \A w \in withdrawals[g] : w < generation[g]
    /\ \A gr \in grants[g] : gr.generation <= generation[g]

RowsAgree == \A g \in Groups : RowAgrees(g)

\* The inductive invariant.
GroupsInv ==
    /\ TypeOK
    /\ RowsAgree
    /\ ReservationsMatchLifecycle
    /\ GrantsAreReserved
    /\ WithdrawalIsFinal

-----------------------------------------------------------------------------

\* The owners that may be using a resource: an engine through a grant on it, a
\* frontend address through any grant of its group.
Users == [r \in Resources |->
            {g \in Groups : \E gr \in grants[g] : r \in {gr.engine, ip[g]}}]

Promise == INSTANCE Reservations
    WITH Owners <- Groups, users <- Users

\* The lifecycle implements the abstract reservations: a resource changes hands
\* only in a step after which its holder uses nothing.
ImplementsReservations == Promise!ResSpec
=============================================================================
