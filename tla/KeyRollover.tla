----------------------------- MODULE KeyRollover -----------------------------
(***************************************************************************)
(* Online signing of one hosted zone (mgmt/internal/dnssec): enabling and   *)
(* disabling, the ZSK pre-publish and KSK double-signature rollovers, the   *)
(* DS confirmation, the maintainer that applies what is due, and signing    *)
(* with its cache of signatures.                                           *)
(*                                                                         *)
(* Every operation is one transaction on the zone (zone.Service.Mutate)     *)
(* that ends by signing and publishing a version.  Outside the code are    *)
(* time, the engines (an engine may serve a version until Propagation after *)
(* it was replaced), resolvers (which keep an RRset for its TTL after they  *)
(* fetched it) and the parent zone with its DS set.                        *)
(*                                                                         *)
(* Neither the parent nor the operator is made to wait for anything, and an *)
(* edit may lower a TTL during a rollover.  What the code can promise about *)
(* cached records then depends on what was done when, which the history     *)
(* variable lapses records.                                                *)
(***************************************************************************)
EXTENDS Integers, FiniteSets, Sequences, FiniteSetsExt

CONSTANTS
    TTL,            \* the TTLs the zone may have: its SOA's and its largest
    Propagation,    \* propagation delay
    ParentDSTTL,    \* TTL of the DS RRset at the parent
    ZskLifetime,    \* automatic ZSK rollover age, 0 for none
    Validity,       \* lifetime of a signature
    RefreshBefore,  \* a signature is renewed when less than this remains,
    RefreshWindow,  \* or when it would come to that within the window
    Slack,          \* longest time between two rounds of the maintainer
    MaxTime,        \* bound on time
    MaxKeys,        \* bound on the keys ever created
    MaxPast         \* bound on the replaced versions under which TTLs change

ASSUME TimesAreNat ==
    {Propagation, ParentDSTTL, ZskLifetime, Validity, RefreshBefore, RefreshWindow,
     Slack, MaxTime, MaxKeys, MaxPast} \subseteq Nat
\* policyOf counts the SOA, whose TTL the DNSKEY RRset takes, among the records.
ASSUME TTLsAreNat ==
    \A t \in TTL : t \in [soa : Nat, max : Nat] /\ t.soa <= t.max
\* validate refuses a shorter propagation delay.
ASSUME PropagationIsPositive == Propagation > 0
\* The constants of sign.go: a new signature is not due for renewal.
ASSUME SignaturesLast == Validity > RefreshBefore

VARIABLES
    now,
    enabled,   \* zone_dnssec.enabled
    due,       \* zone_dnssec.next_maintenance_at
    keys,      \* dnssec_keys in the order of creation, removed ones included
    sigs,      \* zone_signatures: earliest expiry of a key's cached signatures
    ttl,       \* TTL of the SOA, and the largest TTL of the zone's records
    idle,      \* time since the maintainer looked at the zone
    past,      \* replaced versions engines or caches may still hold
    ds,        \* external: the keys with a DS record at the parent
    pastDS,    \* external: replaced DS sets caches may still hold
    lapses     \* history: what was done before every cache was ready for it

vars == <<now, enabled, due, keys, sigs, ttl, idle, past, ds, pastDS, lapses>>

Never == -1

NewKey(role, state, dsState) ==
    [role |-> role, state |-> state, dsState |-> dsState, publishedAt |-> now,
     activatedAt |-> IF state = "active" THEN now ELSE Never,
     retiredAt |-> Never, dsSeenAt |-> Never]

\* A removed key; nothing reads its times again, so they are forgotten.
Removed(k) == [k EXCEPT !.state = "removed", !.dsState = "none",
                        !.publishedAt = Never, !.activatedAt = Never,
                        !.retiredAt = Never, !.dsSeenAt = Never]

In(ks, role, state) ==
    {i \in DOMAIN ks : ks[i].role = role /\ ks[i].state = state}

\* When a published ZSK may sign, by the TTLs the zone has then.
ActivationTime(k, t) == k.publishedAt + t.soa + Propagation

\* Mutant: only the DNSKEY RRset is waited for, not the signatures.
RemovalTimeOfDnskey(k, t) == k.retiredAt + t.soa

\* When a retired ZSK may go, by the TTLs the zone has then.
RemovalTime(k, t) == k.retiredAt + t.max + Propagation

\* The two active KSKs of a rollover, by activation and then by creation.
Older(ks, pair) ==
    CHOOSE i \in pair : \A j \in pair \ {i} :
        \/ ks[i].activatedAt < ks[j].activatedAt
        \/ ks[i].activatedAt = ks[j].activatedAt /\ i < j

Newer(ks, pair) == CHOOSE i \in pair : i /= Older(ks, pair)

\* Mutant: the parent DS TTL is not waited for.
OldKskRemovalAtOnce(k) == k.dsSeenAt

\* When the older KSK of two may go: no cached DS set lacks the newer.
OldKskRemoval(k) == k.dsSeenAt + ParentDSTTL + Propagation

KskRolloverConfirmed(ks) ==
    LET pair == In(ks, "ksk", "active")
    IN  Cardinality(pair) = 2 /\ ks[Newer(ks, pair)].dsState = "seen"

\* The ZSKs that are due to sign now: none unless a ZSK is active already.
Activating(ks) ==
    IF In(ks, "zsk", "active") = {} THEN {}
    ELSE {i \in In(ks, "zsk", "published") : now >= ActivationTime(ks[i], ttl)}

\* The newest due ZSK signs from now on and every other signing ZSK retires.
AdvanceZsk(ks) ==
    LET due_ == Activating(ks)
    IN  [i \in DOMAIN ks |->
            IF due_ = {} THEN ks[i]
            ELSE IF i = Max(due_)
            THEN [ks[i] EXCEPT !.state = "active", !.activatedAt = now]
            ELSE IF i \in due_ \cup In(ks, "zsk", "active")
            THEN [ks[i] EXCEPT !.state = "retired", !.retiredAt = now]
            ELSE ks[i]]

RemoveRetired(ks) ==
    [i \in DOMAIN ks |->
        IF i \in In(ks, "zsk", "retired") /\ now >= RemovalTime(ks[i], ttl)
        THEN Removed(ks[i]) ELSE ks[i]]

AdvanceKsk(ks) ==
    LET pair == In(ks, "ksk", "active")
    IN  [i \in DOMAIN ks |->
            IF /\ KskRolloverConfirmed(ks)
               /\ i = Older(ks, pair)
               /\ now >= OldKskRemoval(ks[Newer(ks, pair)])
            THEN Removed(ks[i]) ELSE ks[i]]

\* The key rows after every transition due now.
Advance(ks) == AdvanceKsk(RemoveRetired(AdvanceZsk(ks)))

LifetimeEnd(k) == k.activatedAt + ZskLifetime

\* One ZSK signs, no successor is published, and an automatic rollover is set.
AwaitsLifetime(ks) ==
    /\ ZskLifetime > 0
    /\ Cardinality(In(ks, "zsk", "active")) = 1
    /\ In(ks, "zsk", "published") = {}

CreateZsk(ks) ==
    /\ AwaitsLifetime(ks)
    /\ \A i \in In(ks, "zsk", "active") : now >= LifetimeEnd(ks[i])

\* Mutant: the removal of the older KSK is not scheduled.
TransitionTimesWithoutKsk(ks, t) ==
    {ActivationTime(ks[i], t) : i \in In(ks, "zsk", "published")}
    \cup {RemovalTime(ks[i], t) : i \in In(ks, "zsk", "retired")}
    \cup (IF AwaitsLifetime(ks)
          THEN {LifetimeEnd(ks[i]) : i \in In(ks, "zsk", "active")} ELSE {})

\* The instants at which a transition is or will be due.
TransitionTimes(ks, t) ==
    {ActivationTime(ks[i], t) : i \in
        IF In(ks, "zsk", "active") = {} THEN {} ELSE In(ks, "zsk", "published")}
    \cup {RemovalTime(ks[i], t) : i \in In(ks, "zsk", "retired")}
    \cup (IF KskRolloverConfirmed(ks)
          THEN {OldKskRemoval(ks[Newer(ks, In(ks, "ksk", "active"))])} ELSE {})
    \cup (IF AwaitsLifetime(ks)
          THEN {LifetimeEnd(ks[i]) : i \in In(ks, "zsk", "active")} ELSE {})

-----------------------------------------------------------------------------
(* Signing and publishing.                                                 *)

\* The DNSKEY RRset: published, active and retired keys.
Dnskeys(ks) == {i \in DOMAIN ks : ks[i].state /= "removed"}
Signers(ks) == {i \in DOMAIN ks : ks[i].state = "active"}

\* Mutant: a cached signature is reused until it expires.
ReusableUntilExpiry(expires) == expires > now

\* A cached signature is kept when it is not due for renewal, now or soon.
Reusable(expires) == expires - now > RefreshBefore + RefreshWindow

\* The key in CDS and CDNSKEY: the newest active KSK while its DS is pending.
Offered(ks) ==
    {i \in In(ks, "ksk", "active") :
        /\ ks[i].dsState = "pending"
        /\ \A j \in In(ks, "ksk", "active") : j <= i}

\* Nothing the KSKs sign stays as it was: not the DNSKEY RRset, and no CDS.
KskDataChanged(ks, t) ==
    \/ t.soa /= ttl.soa
    \/ /\ Dnskeys(ks) /= Dnskeys(keys)
       /\ Offered(ks) = {} \/ Offered(ks) /= Offered(keys)

\* The signature cache after signing: a signature is kept when its RRset, TTL
\* included, is unchanged.  edited says that all the data the ZSK signs is new.
Sign(ks, t, edited) ==
    [i \in Signers(ks) |->
        IF /\ i \in DOMAIN sigs /\ Reusable(sigs[i])
           /\ IF ks[i].role = "ksk" THEN ~KskDataChanged(ks, t) ELSE ~edited
        THEN sigs[i] ELSE now + Validity]

\* next_maintenance_at: now when a transition is already due, otherwise the
\* earliest of the pending transitions and the signature renewals.
NextMaintenance(ks, t, sg) ==
    Min({IF at <= now THEN now ELSE at : at \in TransitionTimes(ks, t)}
        \cup {sg[i] - RefreshBefore : i \in DOMAIN sg})

\* What a version shows to a resolver.
Version(on, ks, t) ==
    [dnskeys |-> IF on THEN Dnskeys(ks) ELSE {},
     ksks |-> IF on THEN In(ks, "ksk", "active") ELSE {},
     zsks |-> IF on THEN In(ks, "zsk", "active") ELSE {},
     ttl |-> t]

Current == Version(enabled, keys, ttl)

\* The end of every mutation: sign, schedule, publish.  Signing fails (and the
\* transaction rolls back) without an active key of each role.
Publish(on, ks, t, edited) ==
    LET sg == IF on THEN Sign(ks, t, edited) ELSE <<>>
    IN  /\ on => In(ks, "ksk", "active") /= {} /\ In(ks, "zsk", "active") /= {}
        /\ enabled' = on
        /\ keys' = ks
        /\ sigs' = sg
        /\ ttl' = t
        /\ due' = IF on THEN NextMaintenance(ks, t, sg) ELSE Never
        /\ past' = IF Version(on, ks, t) = Current THEN past
                   ELSE {p \in past : p.version /= Current}
                        \cup {[version |-> Current, until |-> now]}

Init ==
    /\ now = 0
    /\ enabled = FALSE
    /\ due = Never
    /\ keys = <<>>
    /\ sigs = <<>>
    /\ ttl \in TTL
    /\ idle = 0
    /\ past = {}
    /\ ds = {}
    /\ pastDS = {}
    /\ lapses = {}

\* Enable creates a KSK and a ZSK, both active, when the zone has no keys.
Enable ==
    /\ ~enabled
    /\ Len(keys) + 2 <= MaxKeys
    /\ Publish(TRUE, keys \o <<NewKey("ksk", "active", "pending"),
                               NewKey("zsk", "active", "none")>>, ttl, TRUE)
    /\ UNCHANGED <<now, idle, ds, pastDS, lapses>>

\* The history after a step that was too early for a cache when early holds.
Lapse(kind, early) == lapses' = IF early THEN lapses \cup {kind} ELSE lapses

\* Disable removes every key and clears the cache, whether or not the parent, or
\* a cache, still has DS records.
Disable ==
    /\ enabled
    /\ Publish(FALSE, [i \in DOMAIN keys |-> Removed(keys[i])], ttl, TRUE)
    /\ Lapse("ds", ds /= {} \/ pastDS /= {})
    /\ UNCHANGED <<now, idle, ds, pastDS>>

\* Mutant: a rollover can start while one is in progress.
RolloverBusyNever(role) == FALSE

\* A rollover of the role is in progress.
RolloverBusy(role) ==
    IF role = "zsk" THEN In(keys, "zsk", "published") \cup In(keys, "zsk", "retired") /= {}
    ELSE Cardinality(In(keys, "ksk", "active")) >= 2

\* A pre-published ZSK, or a second active KSK with a pending DS.
StartRollover(role) ==
    /\ enabled
    /\ ~RolloverBusy(role)
    /\ Len(keys) < MaxKeys
    /\ Publish(TRUE, Append(keys, IF role = "zsk"
                                  THEN NewKey("zsk", "published", "none")
                                  ELSE NewKey("ksk", "active", "pending")), ttl, FALSE)
    /\ UNCHANGED <<now, idle, ds, pastDS, lapses>>

\* The operator reports the DS of an active KSK; nothing looks at the parent.
ConfirmDS(i) ==
    /\ i \in In(keys, "ksk", "active")
    /\ keys[i].dsState = "pending"
    /\ Publish(TRUE, [keys EXCEPT ![i].dsState = "seen", ![i].dsSeenAt = now], ttl, FALSE)
    /\ Lapse("ds", i \notin ds)
    /\ UNCHANGED <<now, idle, ds, pastDS>>

\* No version a cache may hold has a larger TTL than the zone has now.
LongWaits == \A p \in past : p.version.ttl.soa <= ttl.soa /\ p.version.ttl.max <= ttl.max

\* A ZSK is activated or removed now, too early for some cache.
ShortWait == RemoveRetired(AdvanceZsk(keys)) /= keys /\ ~LongWaits

\* The maintainer finds the zone due, advances its keys, creates a successor
\* for a ZSK at the end of its lifetime, and signs.
Maintain ==
    /\ enabled /\ due <= now
    /\ LET ks == Advance(keys)
           create == CreateZsk(ks) /\ Len(ks) < MaxKeys
       IN  Publish(TRUE, IF create THEN Append(ks, NewKey("zsk", "published", "none"))
                         ELSE ks, ttl, FALSE)
    /\ idle' = 0
    /\ Lapse("ttl", ShortWait)
    /\ UNCHANGED <<now, ds, pastDS>>

\* The maintainer finds nothing due.
MaintainNothing ==
    /\ idle > 0
    /\ ~enabled \/ due > now
    /\ idle' = 0
    /\ UNCHANGED <<now, enabled, due, keys, sigs, ttl, past, ds, pastDS, lapses>>

\* Any other change of the zone, its TTLs and all of its data or a part of it.
Edit ==
    /\ enabled
    /\ \E t \in TTL, edited \in BOOLEAN :
          /\ t = ttl \/ Cardinality(past) < MaxPast
          /\ Publish(TRUE, keys, t, edited)
    /\ UNCHANGED <<now, idle, ds, pastDS, lapses>>

-----------------------------------------------------------------------------
(* External: the parent and time.                                          *)

Newest == CHOOSE i \in In(keys, "ksk", "active") :
             \A j \in In(keys, "ksk", "active") : j <= i

\* The DS sets caches may hold once a set is replaced; an insecure delegation
\* demands nothing, so empty sets are left out.
Replaced(set) ==
    IF set = {} THEN pastDS
    ELSE {p \in pastDS : p.set /= set} \cup {[set |-> set, until |-> now]}

\* The parent adopts the DS the zone offers (that of the newest active KSK),
\* next to the old one or in its place, as soon as it likes: too early for a
\* cache that holds something from before the key was there.
ParentAdopts ==
    /\ enabled
    /\ Newest \notin ds
    /\ ds' \in {{Newest}, ds \cup {Newest}}
    /\ pastDS' = Replaced(ds)
    /\ Lapse("ds", \E p \in past : Newest \notin p.version.ksks)
    /\ UNCHANGED <<now, enabled, due, keys, sigs, ttl, idle, past>>

\* The operator makes the delegation insecure.
ParentWithdraws ==
    /\ ds /= {}
    /\ ds' = {}
    /\ pastDS' = Replaced(ds)
    /\ UNCHANGED <<now, enabled, due, keys, sigs, ttl, idle, past, lapses>>

\* A cache, or an engine, may hold an RRset of the TTL of a replaced version.
Alive(p, ttl_) == p.until + Propagation + ttl_ > now

\* Time passes; the maintainer's ticker lets no more than Slack pass between two
\* of its rounds.  (Time stands still while nothing's age matters.)
Tick ==
    /\ now < MaxTime
    /\ enabled \/ past \cup pastDS /= {}
    /\ idle < Slack
    /\ now' = now + 1
    /\ idle' = idle + 1
    /\ past' = {p \in past : p.until + Propagation + p.version.ttl.max > now + 1}
    /\ pastDS' = {p \in pastDS : p.until + Propagation + ParentDSTTL > now + 1}
    /\ UNCHANGED <<enabled, due, keys, sigs, ttl, ds, lapses>>

Next ==
    \/ Enable \/ Disable
    \/ \E role \in {"zsk", "ksk"} : StartRollover(role)
    \/ \E i \in DOMAIN keys : ConfirmDS(i)
    \/ Maintain \/ MaintainNothing \/ Edit
    \/ ParentAdopts \/ ParentWithdraws \/ Tick

Spec == Init /\ [][Next]_vars

-----------------------------------------------------------------------------

Time == 0 .. MaxTime
Key == [role : {"ksk", "zsk"}, state : {"published", "active", "retired", "removed"},
        dsState : {"none", "pending", "seen"}, publishedAt : Time \cup {Never},
        activatedAt : Time \cup {Never}, retiredAt : Time \cup {Never},
        dsSeenAt : Time \cup {Never}]

\* The versions a resolver may hold the DNSKEY RRset of, and data of.
HeldDnskey == {Current} \cup {p.version : p \in {q \in past : Alive(q, q.version.ttl.soa)}}
HeldData == {Current} \cup {p.version : p \in {q \in past : Alive(q, q.version.ttl.max)}}

HeldDS == {ds} \cup {p.set : p \in pastDS}

\* Whatever DS set and whatever DNSKEY RRset a resolver holds, a key of the
\* first has signed the second, over rollovers, TTL changes and a parent that
\* moves its DS set while caches keep the old one: the code removes no KSK in an
\* order that breaks the chain of trust.  That is all it can promise: the
\* parent may take a DS before every cache knows its key, the operator may
\* confirm a DS that is not there or disable signing under a DS, and nothing in
\* the code stops that (lapse "ds").
ChainOfTrust ==
    "ds" \notin lapses =>
        \A d \in HeldDS, v \in HeldDnskey : d /= {} => d \cap v.ksks /= {}

\* Whatever DNSKEY RRset and whatever data a resolver of the signed delegation
\* holds, a key of the first has signed the second: a ZSK signs only when every
\* cache knows it and goes only when no cached signature needs it, unless the
\* maintainer moved a ZSK by a TTL lowered since a cache was filled (lapse
\* "ttl") or the delegation itself was broken (lapse "ds").
DataValidates ==
    lapses = {} /\ (\E d \in HeldDS : d /= {}) =>
        \A v \in HeldDnskey, w \in HeldData : w.zsks \cap v.dnskeys /= {}

\* No served signature is within RefreshBefore of its end for longer than a
\* round of the maintainer, although whatever rebuilds the zone between two
\* rounds reuses signatures from the cache and schedules the next one.
SignaturesOutlast ==
    enabled => \A i \in DOMAIN sigs : sigs[i] + Slack > now + RefreshBefore

\* Nothing is due: no published ZSK should sign, no retired one and no old KSK of
\* a confirmed rollover should be gone.
NothingDue ==
    /\ \A i \in In(keys, "zsk", "published") : now < ActivationTime(keys[i], ttl)
    /\ \A i \in In(keys, "zsk", "retired") : now < RemovalTime(keys[i], ttl)
    /\ KskRolloverConfirmed(keys) =>
          now < OldKskRemoval(keys[Newer(keys, In(keys, "ksk", "active"))])

\* No rollover is forgotten, whichever operation signed and scheduled last and
\* whatever it did to the TTLs: after a round of the maintainer nothing is due.
RolloversOnTime == [][enabled /\ idle > 0 /\ idle' = 0 => NothingDue']_vars

\* Rows and times are of the shape the tables allow, and a signed zone has one
\* or two active KSKs, exactly one signing ZSK and at most one successor.
TypeOK ==
    /\ now \in Time /\ enabled \in BOOLEAN /\ due \in Nat \cup {Never}
    /\ ttl \in TTL /\ lapses \subseteq {"ds", "ttl"}
    /\ \A i \in DOMAIN keys : keys[i] \in Key
    /\ enabled =>
          /\ Cardinality(In(keys, "ksk", "active")) \in {1, 2}
          /\ Cardinality(In(keys, "zsk", "active")) = 1
          /\ Cardinality(In(keys, "zsk", "published")) <= 1
          /\ DOMAIN sigs = Signers(keys)
=============================================================================
