------------------------------- MODULE Lease -------------------------------
(* The failover ownership candidate: holders compete for one Kubernetes Lease *)
(* by compare-and-swap on its resourceVersion, and each opens its kernel gate *)
(* only for a window whose ticket was captured before the write that won it.  *)
(*                                                                            *)
(* Controller.Step is split where another actor can come between: the GET and *)
(* the PUT are served by the API server some time before their answers are    *)
(* read, and the gate driver executes ARM on its own. Every clock is the      *)
(* holder's own; they only agree on rate, within MinRate..MaxRate local units *)
(* per unit of real time.                                                     *)
(*                                                                            *)
(* The API server is honest: a GET is a linearizable read and every write     *)
(* changes the resourceVersion, so the checks against a record that changes   *)
(* under one resourceVersion, a regressing boot clock and a malformed answer  *)
(* never fire and are left out. A resourceVersion tells writes apart as the   *)
(* nonce and epoch do.                                                        *)
EXTENDS Integers, FiniteSets

CONSTANTS
    Holders,    \* process incarnations, each with its own gate (NewHolderID)
    NoHolder,   \* the holder of a lease nobody has written
    Window,     \* MaxKernelWindow
    Margin,     \* Config.Margin
    MinRate,    \* the slowest and
    MaxRate,    \* the fastest a boot clock advances per unit of real time
    MaxClock,   \* bound: the latest time any clock shows
    MaxRV,      \* bound: the newest resourceVersion
    MaxUID      \* bound: how often the lease is provisioned

ASSUME ConstantsAssumption ==
    /\ NoHolder \notin Holders
    /\ Window \in Nat \ {0}
    /\ Margin \in Nat \ {0}
    /\ MinRate \in Nat \ {0}
    /\ MaxRate \in Nat
    /\ MinRate <= MaxRate
    /\ MaxClock \in Nat \ {0}
    /\ MaxRV \in Nat \ {0}
    /\ MaxUID \in Nat \ {0}

\* What Config.Margin must include: the wait of the fastest clock outlasts a window on the slowest.
ASSUME MarginCoversRateError == Window * MaxRate <= (Window + Margin) * MinRate

Ticket == [captured : Nat, deadline : Nat]
NoTicket == [captured |-> 0, deadline |-> 0]
Record == [uid : 0..MaxUID, rv : 0..MaxRV, holder : Holders \cup {NoHolder}]
NoRecord == [uid |-> 0, rv |-> 0, holder |-> NoHolder]
Phases == {"new", "idle", "got", "capture", "ticket", "cas", "committed", "arm", "armed", "terminal"}

VARIABLES
    clock       \* CLOCK_BOOTTIME of each holder

VARIABLES
    lease,      \* the Lease object
    gone,       \* it is deleted
    late,       \* who sent a PUT that would still commit and has given up on it
    writer      \* history: the holder whose write committed last

VARIABLES
    pc,         \* where Step is
    pinned,     \* the UID of the first record read (0 is none)
    seen,       \* the record the GET read, then the one the PUT returned; local to a Step
    stableRV,   \* the resourceVersion being waited on (0 is none)
    since,      \* when it was first observed
    own         \* the resourceVersion of the acknowledged write (0 while ack is false)

VARIABLES
    ticket,     \* the outstanding ticket
    arming,     \* ARM is in the driver's pipe
    window      \* the kernel map entry

leaseVars == <<lease, gone, late, writer>>
waitVars == <<stableRV, since, own>>
gateVars == <<ticket, arming, window>>
vars == <<clock, leaseVars, pc, pinned, seen, waitVars, gateVars>>

TypeOK ==
    /\ clock \in [Holders -> 1..MaxClock]
    /\ lease \in Record
    /\ gone \in BOOLEAN
    /\ late \subseteq Holders
    /\ writer \in Holders \cup {NoHolder}
    /\ pc \in [Holders -> Phases]
    /\ pinned \in [Holders -> 0..MaxUID]
    /\ seen \in [Holders -> Record]
    /\ stableRV \in [Holders -> 0..MaxRV]
    /\ since \in [Holders -> 0..MaxClock]
    /\ own \in [Holders -> 0..MaxRV]
    /\ ticket \in [Holders -> Ticket]
    /\ arming \in [Holders -> BOOLEAN]
    /\ window \in [Holders -> Ticket]

Init ==
    /\ clock = [h \in Holders |-> 1]
    /\ lease = [uid |-> 1, rv |-> 1, holder |-> NoHolder]
    /\ gone = FALSE
    /\ late = {}
    /\ writer = NoHolder
    /\ pc = [h \in Holders |-> "new"]
    /\ pinned = [h \in Holders |-> 0]
    /\ seen = [h \in Holders |-> NoRecord]
    /\ stableRV = [h \in Holders |-> 0]
    /\ since = [h \in Holders |-> 0]
    /\ own = [h \in Holders |-> 0]
    /\ ticket = [h \in Holders |-> NoTicket]
    /\ arming = [h \in Holders |-> FALSE]
    /\ window = [h \in Holders |-> NoTicket]
----------------------------------------------------------------------------
\* fence_allows: the packets of the holder pass.
Allows(w, n) ==
    /\ w.captured # 0
    /\ w.deadline > w.captured
    /\ w.deadline - w.captured <= Window
    /\ w.captured <= n
    /\ n < w.deadline

Open(h) == Allows(window[h], clock[h])

Tick ==
    /\ \E d \in [Holders -> MinRate..MaxRate] :
         /\ \A h \in Holders : clock[h] + d[h] <= MaxClock
         /\ clock' = [h \in Holders |-> clock[h] + d[h]]
    /\ UNCHANGED <<leaseVars, pc, pinned, seen, waitVars, gateVars>>
----------------------------------------------------------------------------
(* How a Step ends.                                                           *)

Ends(h, next) ==
    /\ pc' = [pc EXCEPT ![h] = next]
    /\ seen' = [seen EXCEPT ![h] = NoRecord]

\* DENY empties the map and drops the ticket. When it fails nobody knows whether it did, and the
\* controller is terminal.
Deny(h, next) ==
    /\ \/ /\ window' = [window EXCEPT ![h] = NoTicket]
          /\ Ends(h, next)
       \/ /\ window' \in {window, [window EXCEPT ![h] = NoTicket]}
          /\ Ends(h, "terminal")
    /\ ticket' = [ticket EXCEPT ![h] = NoTicket]
    /\ arming' = [arming EXCEPT ![h] = FALSE]

Forget(h) ==
    /\ own' = [own EXCEPT ![h] = 0]
    /\ stableRV' = [stableRV EXCEPT ![h] = 0]
    /\ since' = [since EXCEPT ![h] = 0]

\* fail: all cached authorization is discarded and the gate denied.
Fail(h, next) == Forget(h) /\ Deny(h, next) /\ UNCHANGED <<clock, pinned>>

\* A write against exactly this UID and resourceVersion commits.
Matches(r) == ~gone /\ lease.uid = r.uid /\ lease.rv = r.rv

\* A PUT in flight whose sender no longer waits may still arrive.
GivesUp(h) ==
    /\ late' = IF pc[h] = "cas" /\ Matches(seen[h]) THEN late \cup {h} ELSE late
    /\ UNCHANGED <<lease, gone, writer>>
----------------------------------------------------------------------------
(* Controller.Step.                                                           *)

\* The very first Step denies.
Start(h) ==
    /\ pc[h] = "new"
    /\ Deny(h, "idle")
    /\ UNCHANGED <<clock, leaseVars, pinned, waitVars>>

\* The API server serves the GET, with 404 when the Lease is gone.
Get(h) ==
    /\ pc[h] = "idle"
    /\ IF gone
       THEN Fail(h, "terminal")
       ELSE /\ seen' = [seen EXCEPT ![h] = lease]
            /\ pc' = [pc EXCEPT ![h] = "got"]
            /\ UNCHANGED <<clock, pinned, waitVars, gateVars>>
    /\ UNCHANGED leaseVars

\* Mutant: whoever once was acknowledged renews, whatever the record says.
RenewsOnAck(h) == own[h] # 0

Renews(h) == own[h] # 0 /\ seen[h].rv = own[h] /\ seen[h].holder = h

\* Mutant: the clocks are trusted to agree.
WaitedWindow(h) == clock[h] - since[h] >= Window

Waited(h) == clock[h] - since[h] >= Window + Margin

\* The answer is read: a holder that renews goes on at once, any other only after the same
\* resourceVersion was observed for Window + Margin. A record of another UID is terminal.
Observe(h) ==
    LET r == seen[h]
    IN  /\ pc[h] = "got"
        /\ \/ /\ pinned[h] \notin {0, r.uid}
              /\ Fail(h, "terminal")
           \/ /\ pinned[h] \in {0, r.uid}
              /\ pinned' = [pinned EXCEPT ![h] = r.uid]
              /\ own' = [own EXCEPT ![h] = IF Renews(h) THEN @ ELSE 0]
              /\ \/ /\ ~Renews(h) /\ stableRV[h] # r.rv
                    /\ stableRV' = [stableRV EXCEPT ![h] = r.rv]
                    /\ since' = [since EXCEPT ![h] = clock[h]]
                    /\ Deny(h, "idle")
                 \/ /\ ~Renews(h) /\ stableRV[h] = r.rv /\ ~Waited(h)
                    /\ Ends(h, "idle")
                    /\ UNCHANGED <<stableRV, since, gateVars>>
                 \/ /\ Renews(h) \/ (stableRV[h] = r.rv /\ Waited(h))
                    /\ pc' = [pc EXCEPT ![h] = "capture"]
                    /\ UNCHANGED <<seen, stableRV, since, gateVars>>
              /\ UNCHANGED clock
        /\ UNCHANGED leaseVars

\* The driver issues the ticket, before the write it is for.
Capture(h) ==
    /\ pc[h] = "capture"
    /\ ticket' = [ticket EXCEPT ![h] = [captured |-> clock[h], deadline |-> clock[h] + Window]]
    /\ pc' = [pc EXCEPT ![h] = "ticket"]
    /\ UNCHANGED <<clock, leaseVars, pinned, seen, waitVars, arming, window>>

\* A ticket that has not expired is followed by the PUT.
SendPut(h) ==
    /\ pc[h] = "ticket"
    /\ IF clock[h] < ticket[h].deadline
       THEN /\ pc' = [pc EXCEPT ![h] = "cas"]
            /\ UNCHANGED <<clock, pinned, seen, waitVars, gateVars>>
       ELSE Fail(h, "terminal")
    /\ UNCHANGED leaseVars

\* The API server commits a PUT; every other one in flight is now against an old resourceVersion.
Commit(h) ==
    /\ lease.rv < MaxRV
    /\ lease' = [uid |-> lease.uid, rv |-> lease.rv + 1, holder |-> h]
    /\ writer' = h
    /\ late' = {}
    /\ UNCHANGED gone

ServePut(h) ==
    /\ pc[h] = "cas"
    /\ IF Matches(seen[h])
       THEN /\ Commit(h)
            /\ seen' = [seen EXCEPT ![h] = lease']
            /\ pc' = [pc EXCEPT ![h] = "committed"]
            /\ UNCHANGED <<clock, pinned, waitVars, gateVars>>
       ELSE /\ Fail(h, IF gone THEN "terminal" ELSE "idle")
            /\ UNCHANGED leaseVars

\* A PUT arrives after its sender gave up; nobody reads the answer.
ServeLatePut(h) ==
    /\ h \in late
    /\ Commit(h)
    /\ UNCHANGED <<clock, pc, pinned, seen, waitVars, gateVars>>

\* Mutant: the ticket is captured after the write it is for.
SendArmFresh(h) ==
    /\ pc[h] = "committed"
    /\ ticket' = [ticket EXCEPT ![h] = [captured |-> clock[h], deadline |-> clock[h] + Window]]
    /\ arming' = [arming EXCEPT ![h] = TRUE]
    /\ pc' = [pc EXCEPT ![h] = "arm"]
    /\ UNCHANGED <<clock, leaseVars, pinned, seen, waitVars, window>>

\* The acknowledgement is read before the deadline: ARM is sent for the same ticket.
SendArm(h) ==
    /\ pc[h] = "committed"
    /\ IF clock[h] < ticket[h].deadline
       THEN /\ arming' = [arming EXCEPT ![h] = TRUE]
            /\ pc' = [pc EXCEPT ![h] = "arm"]
            /\ UNCHANGED <<clock, pinned, seen, waitVars, ticket, window>>
       ELSE Fail(h, "idle")
    /\ UNCHANGED leaseVars

\* The driver executes ARM if the ticket still allows, even when the controller gave up on it;
\* an ARM it rejects is terminal for the controller.
DriverArm(h) ==
    LET allowed == Allows(ticket[h], clock[h])
    IN  /\ arming[h]
        /\ arming' = [arming EXCEPT ![h] = FALSE]
        /\ window' = [window EXCEPT ![h] = IF allowed THEN ticket[h] ELSE @]
        /\ ticket' = [ticket EXCEPT ![h] = NoTicket]
        /\ IF pc[h] = "arm" /\ allowed
           THEN pc' = [pc EXCEPT ![h] = "armed"] /\ UNCHANGED <<seen, waitVars>>
           ELSE Forget(h) /\ Ends(h, "terminal")
        /\ UNCHANGED <<clock, leaseVars, pinned>>

\* ARMED is read before the deadline: the write is owned. After it, the Step failed.
Finish(h) ==
    /\ pc[h] = "armed"
    /\ IF clock[h] < window[h].deadline
       THEN /\ own' = [own EXCEPT ![h] = seen[h].rv]
            /\ stableRV' = [stableRV EXCEPT ![h] = 0]
            /\ since' = [since EXCEPT ![h] = 0]
            /\ Ends(h, "idle")
            /\ UNCHANGED <<clock, pinned, gateVars>>
       ELSE Fail(h, "idle")
    /\ UNCHANGED leaseVars

\* A request is lost, refused or out of time; a PUT may still take effect.
TimeOut(h) ==
    /\ pc[h] \in {"idle", "got", "cas", "committed"}
    /\ GivesUp(h)
    /\ Fail(h, "idle")

\* An error of the gate, or the end of the process: the controller never steps again, the kernel
\* keeps the window, and an ARM in the pipe may still be executed.
Dies(h) ==
    /\ pc[h] # "terminal"
    /\ GivesUp(h)
    /\ Forget(h)
    /\ Ends(h, "terminal")
    /\ ticket' = [ticket EXCEPT ![h] = IF arming[h] THEN @ ELSE NoTicket]
    /\ UNCHANGED <<clock, pinned, arming, window>>

\* An operator deletes the Lease, or provisions it again.
DeleteLease ==
    /\ ~gone
    /\ gone' = TRUE
    /\ late' = {}
    /\ UNCHANGED <<clock, lease, writer, pc, pinned, seen, waitVars, gateVars>>

ProvisionLease ==
    /\ gone
    /\ lease.uid < MaxUID
    /\ lease.rv < MaxRV
    /\ gone' = FALSE
    /\ lease' = [uid |-> lease.uid + 1, rv |-> lease.rv + 1, holder |-> NoHolder]
    /\ UNCHANGED <<clock, late, writer, pc, pinned, seen, waitVars, gateVars>>
----------------------------------------------------------------------------
Step(h) ==
    \/ Start(h)
    \/ Get(h)
    \/ Observe(h)
    \/ Capture(h)
    \/ SendPut(h)
    \/ ServePut(h)
    \/ ServeLatePut(h)
    \/ SendArm(h)
    \/ DriverArm(h)
    \/ Finish(h)
    \/ TimeOut(h)
    \/ Dies(h)

Next ==
    \/ Tick
    \/ \E h \in Holders : Step(h)
    \/ DeleteLease
    \/ ProvisionLease

Spec == Init /\ [][Next]_vars
----------------------------------------------------------------------------
(* Properties.                                                                *)

\* At most one holder's gate is open at any moment: through takeovers, ambiguous and late writes,
\* ARMs executed after their controller gave up, failed denials, dead processes whose window stays
\* in the kernel, a replaced Lease, and clocks that run at different rates.
ExclusiveGate == \A a, b \in Holders : Open(a) /\ Open(b) => a = b

\* A holder whose gate is open is the last one that wrote the Lease: no other holder's write
\* commits while the packets of this one pass.
OpenIsLastWriter == \A h \in Holders : Open(h) => writer = h
----------------------------------------------------------------------------
(* Why: the parts of an inductive invariant.                                  *)

\* An answered PUT entitles h to its ticket until h gives up or the driver armed it.
Granted(h) == pc[h] \in {"committed", "arm"} \/ arming[h]

\* The gate of h is open, or can become open with what h has been granted.
Entitled(h) ==
    \/ clock[h] < window[h].deadline
    \/ Granted(h) /\ clock[h] < ticket[h].deadline

\* h has observed the newest resourceVersion when it wrote, or is about to write.
GoesAhead(h) ==
    \/ pc[h] \in {"capture", "ticket", "cas"} /\ seen[h].rv = lease.rv
    \/ h \in late

\* While one clock advances by x every other one advances by at least some y with this.
Outlasts(x, y) == x * MinRate <= y * MaxRate

\* Tickets last for Window from a time that has passed.
GoodTicket(t, h) == t = NoTicket \/ (t.captured <= clock[h] /\ t.deadline = t.captured + Window)

TicketsAreGood ==
    \A h \in Holders :
        /\ GoodTicket(ticket[h], h)
        /\ GoodTicket(window[h], h)
        /\ arming[h] => pc[h] \in {"arm", "terminal"}

\* Nobody has seen a resourceVersion that does not exist yet, and who acknowledged the newest one
\* wrote it.
RevisionsAreOld ==
    \A h \in Holders :
        /\ lease.rv # 0
        /\ seen[h].rv <= lease.rv
        /\ stableRV[h] <= lease.rv
        /\ own[h] <= lease.rv
        /\ since[h] <= clock[h]
        /\ own[h] # 0 /\ own[h] = lease.rv => writer = h
        /\ pc[h] \in {"committed", "arm", "armed"} /\ seen[h].rv = lease.rv => writer = h

\* A holder that waits on the newest resourceVersion has, so far, waited no longer than every
\* other holder's ticket is old, whatever their clocks' rates.
WaitIsCovered ==
    \A a, b \in Holders :
        a # b /\ stableRV[a] = lease.rv =>
            /\ window[b] # NoTicket => Outlasts(clock[a] - since[a], clock[b] - window[b].captured)
            /\ Granted(b) /\ ticket[b] # NoTicket
                 => Outlasts(clock[a] - since[a], clock[b] - ticket[b].captured)

\* A holder whose write can commit finds every other holder without a live ticket or window, and
\* who still has one wrote last.
Exclusion ==
    /\ \A a, b \in Holders : GoesAhead(a) /\ Entitled(b) => a = b
    /\ \A h \in Holders : Entitled(h) => writer = h

\* What every step preserves: tickets last Window from their capture, a wait on the newest
\* resourceVersion never outlasts them, and only the last writer has a live one.
LeaseInv == TypeOK /\ TicketsAreGood /\ RevisionsAreOld /\ WaitIsCovered /\ Exclusion
============================================================================
