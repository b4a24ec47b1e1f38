---------------------------- MODULE Reservations ----------------------------
(***************************************************************************)
(* What the reservation tables of the failover groups promise, without     *)
(* lifecycles, generations or tokens: a resource (an engine or a frontend  *)
(* address) has at most one holder, only its holder uses it, and it        *)
(* changes hands only after its holder has stopped using everything.       *)
(* FailoverGroups implements this specification.                           *)
(***************************************************************************)

CONSTANTS
    Resources,  \* engines and frontend addresses
    Owners,     \* failover groups
    Nobody      \* the holder of a free resource

VARIABLES
    holder,     \* holder[r]: who has reserved r
    users       \* users[r]: the owners that may be using r

resVars == <<holder, users>>

ResInit ==
    /\ holder = [r \in Resources |-> Nobody]
    /\ users = [r \in Resources |-> {}]

\* Reserve resources that are free or already held; all of them or none.
Acquire(o, S) ==
    /\ \A r \in S : holder[r] \in {Nobody, o}
    /\ holder' = [r \in Resources |-> IF r \in S THEN o ELSE holder[r]]
    /\ UNCHANGED users

\* Start to use resources that are held.
Use(o, S) ==
    /\ \A r \in S : holder[r] = o
    /\ users' = [r \in Resources |->
                    IF r \in S THEN users[r] \cup {o} ELSE users[r]]
    /\ UNCHANGED holder

\* Stop using everything, and give up some of what is held.
Withdraw(o, S) ==
    /\ \A r \in S : holder[r] = o
    /\ users' = [r \in Resources |-> users[r] \ {o}]
    /\ holder' = [r \in Resources |-> IF r \in S THEN Nobody ELSE holder[r]]

ResNext ==
    \E o \in Owners, S \in SUBSET Resources :
        Acquire(o, S) \/ Use(o, S) \/ Withdraw(o, S)

ResSpec == ResInit /\ [][ResNext]_resVars

\* A resource is used by its holder alone: no engine answers for two
\* frontends, and no frontend address is announced for two groups.
OnlyTheHolderUses == \A r \in Resources : users[r] \subseteq {holder[r]}
=============================================================================
