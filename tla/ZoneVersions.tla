---------------------------- MODULE ZoneVersions ----------------------------
(***************************************************************************)
(* One primary zone from an edit to the engine that serves it: the stored  *)
(* records and the versions built from them (mgmt/internal/zone build.go   *)
(* and service.go), what a config snapshot lists of the zone               *)
(* (snapshot/authzones.go), and how an engine that may have missed         *)
(* snapshots turns what it has into the listed version                     *)
(* (engine authoritative/loader.rs and zone.rs).                           *)
(*                                                                         *)
(* A served version is a set of records [rr, ttl]: the SOA and, when the   *)
(* zone generates it, the ZONEMD digest beside the stored records.  The    *)
(* apex NS records, which an edit may not all remove, and signatures are   *)
(* left out.  One transaction is one step: Mutate locks the zone's row.    *)
(***************************************************************************)
EXTENDS Integers, Sequences, FiniteSets, SequencesExt

CONSTANTS
    RRs,          \* owner, type and data of the records an edit may write
    SetOf,        \* the RRset of each
    Ttls,
    SoaFields,    \* the SOA without its serial
    Files,        \* zone files an operator imports
    Updates,      \* dynamic updates a client sends
    SerialSpace,  \* 2^32 in the code
    FirstSerial,  \* the default of zones.serial
    JournalKept, JournalListed, ImageEveryDelta,
    MaxSeq,           \* bound: versions of one zone
    MaxIncarnations,  \* bound: times the zone is created
    None

Record(rr, ttl) == [rr |-> rr, ttl |-> ttl]
Records == [rr : RRs, ttl : Ttls]
Serials == 0 .. SerialSpace - 1

ASSUME BoundsAreNat ==
    /\ {SerialSpace, JournalKept, JournalListed, ImageEveryDelta, MaxSeq, MaxIncarnations}
           \subseteq Nat \ {0}
    /\ FirstSerial \in Serials
\* A record repeated in a file is one record.
OnceEach(recs) == \A p, q \in recs : p.rr = q.rr => p = q
ASSUME FilesAreZones ==
    \A f \in Files : f.recs \subseteq Records /\ OnceEach(f.recs) /\ f.soa \in SoaFields
                     /\ f.serial \in Serials
ASSUME UpdatesAreOfTheZone ==
    \A u \in Updates : /\ u.del \subseteq RRs
                       /\ u.add \subseteq Records /\ IsFiniteSet(u.add)
                       /\ u.soa = None \/ u.soa \in [serial : Serials, fields : SoaFields]
\* SOA records are skipped when records are stored and ZONEMD is not a managed type: both are
\* made from the zone's row.
ASSUME StoredIsNotSoaData ==
    /\ \A rr \in RRs : SetOf[rr] \notin {"SOA", "ZONEMD"}
    /\ RRs \cap [type : {"SOA"}, serial : Serials, fields : SoaFields] = {}
    /\ RRs \cap [type : {"ZONEMD"}, serial : Serials, fields : SoaFields,
                 digest : SUBSET Records] = {}

\* What engines hold: records with the SOA data, deltas between two serials.
ServedRecords ==
    [rr : RRs \cup [type : {"SOA"}, serial : Serials, fields : SoaFields]
              \cup [type : {"ZONEMD"}, serial : Serials, fields : SoaFields, digest : SUBSET Records],
     ttl : Ttls \cup {0}]
Deltas ==
    [from : Serials, to : Serials, deleted : SUBSET ServedRecords, added : SUBSET ServedRecords]
EngineZones == [serial : Serials, recs : SUBSET ServedRecords, deltas : Seq(Deltas)]
ASSUME NoneIsNoZone == None \notin EngineZones

VARIABLES
    zone,         \* the row of zones, or None
    stored,       \* zone_records
    image,        \* the one row of zone_images
    journal,      \* zone_journal: sequence number |-> delta
    incarnation,  \* how often a zone of this name was created
    engine,       \* the zone in the engine's AuthSet, or None
    behind,       \* whether the engine has yet to load the newest config version
    mixed         \* history: a file with two TTLs in an RRset was imported

vars == <<zone, stored, image, journal, incarnation, engine, behind, mixed>>

NoImage == [serial |-> FirstSerial, recs |-> {}]

Init ==
    /\ zone = None
    /\ stored = {}
    /\ image = NoImage
    /\ journal = <<>>
    /\ incarnation = 0
    /\ engine = None
    /\ behind = FALSE
    /\ mixed = FALSE

-----------------------------------------------------------------------------
(* Serials and versions.                                                    *)

SerialNext(s) == (s + 1) % SerialSpace
SerialLess(a, b) ==
    \/ a < b /\ b - a < SerialSpace \div 2
    \/ a > b /\ a - b > SerialSpace \div 2

\* The proposed serial when it is greater, else the successor; the first version keeps its own.
NextSerial(z, proposed) ==
    CASE proposed # None -> IF SerialLess(z.serial, proposed) THEN proposed ELSE SerialNext(z.serial)
      [] z.seq = 0 -> z.serial
      [] OTHER -> SerialNext(z.serial)

Soa(serial, fields) == Record([type |-> "SOA", serial |-> serial, fields |-> fields], 0)
Zonemd(z, serial, recs) ==
    Record([type |-> "ZONEMD", serial |-> serial, fields |-> z.soa, digest |-> recs], 0)

\* What travels first in every delta because it carries the serial.
SoaData(z, serial, recs) ==
    {Soa(serial, z.soa)} \cup IF z.zonemd THEN {Zonemd(z, serial, recs)} ELSE {}
IsSoaData(p) == p.rr \notin RRs
SoaDataOf(recs) == {p \in recs : IsSoaData(p)}
DataOf(recs) == {p \in recs : ~IsSoaData(p)}

\* loadServed: the image with the later deltas applied.
Replay(set, d) == (set \ d.deleted) \cup d.added
DeltasAfter(seq) ==
    LET n == zone.seq - seq IN [i \in 1 .. n |-> journal[seq + i]]
LoadServed == FoldLeft(Replay, image.recs, DeltasAfter(zone.imageSeq))

SoaFieldsEqual(previous, z) ==
    \E p \in previous : p.rr \notin RRs /\ p.rr.type = "SOA" /\ p.rr.fields = z.soa

\* An image when there is none, after ImageEveryDelta deltas, or when the deltas are large.
NeedImage(z, seq) == IF z.imageSeq = 0 \/ seq - z.imageSeq >= ImageEveryDelta THEN {TRUE} ELSE BOOLEAN

\* A delta goes once it is both older than the window and covered by the image.
Kept(seq, imageSeq) == {s \in DOMAIN journal \cup {seq} : ~(s <= seq - JournalKept /\ s <= imageSeq)}

WriteVersion(z, serial, deleted, added, recs) ==
    LET seq == z.seq + 1
        delta == [from |-> z.serial, to |-> serial, deleted |-> deleted, added |-> added]
    IN  /\ seq <= MaxSeq
        /\ \E due \in NeedImage(z, seq) :
             LET imageSeq == IF due THEN seq ELSE z.imageSeq
                 rows == IF z.seq = 0 THEN {} ELSE Kept(seq, imageSeq)
             IN  /\ zone' = [z EXCEPT !.serial = serial, !.seq = seq, !.imageSeq = imageSeq]
                 /\ journal' = [s \in rows |-> IF s = seq THEN delta ELSE journal[s]]
                 /\ image' = IF due
                             THEN [serial |-> serial, recs |-> recs \cup SoaData(z, serial, recs)]
                             ELSE image

KeepVersion(z) == zone' = z /\ UNCHANGED <<image, journal>>

\* The delta of a record edit comes from the edited RRsets alone, and its SOA from the row.
RebuildEdit(z, recs, sets) ==
    LET before == {p \in stored : SetOf[p.rr] \in sets}
        after == {p \in recs : SetOf[p.rr] \in sets}
        serial == NextSerial(z, None)
    IN  IF before = after
        THEN KeepVersion(z)
        ELSE WriteVersion(z, serial, (before \ after) \cup {Soa(z.serial, z.soa)},
                          (after \ before) \cup {Soa(serial, z.soa)}, recs)

\* Every other version is the difference of the whole zone to what is served.
RebuildAll(z, recs, proposed, force) ==
    LET previous == IF z.seq = 0 THEN {} ELSE LoadServed
        serial == NextSerial(z, proposed)
        changed == DataOf(previous) # recs \/ ~SoaFieldsEqual(previous, z)
    IN  IF ~changed /\ ~force /\ proposed = None
        THEN KeepVersion(z)
        ELSE WriteVersion(z, serial, (DataOf(previous) \ recs) \cup SoaDataOf(previous),
                          (recs \ DataOf(previous)) \cup SoaData(z, serial, recs), recs)

\* Mutate: z and recs are the row and the records as the caller's function leaves them.
Published(recs) == stored' = recs /\ behind' = TRUE /\ UNCHANGED engine
MutateEdit(recs, sets) ==
    /\ Published(recs)
    /\ IF zone.zonemd THEN RebuildAll(zone, recs, None, FALSE) ELSE RebuildEdit(zone, recs, sets)
    /\ UNCHANGED <<incarnation, mixed>>
Mutate(z, recs, proposed, force) ==
    /\ Published(recs)
    /\ RebuildAll(z, recs, proposed, force)
    /\ UNCHANGED incarnation

-----------------------------------------------------------------------------
(* The operations of the management plane.                                  *)

\* setRRsetTTL: the whole RRset takes the TTL just written.
SetRRsetTtl(recs, set, ttl) ==
    {IF SetOf[p.rr] = set THEN [p EXCEPT !.ttl = ttl] ELSE p : p \in recs}
Has(recs, rr) == \E p \in recs : p.rr = rr
Without(recs, rr) == {p \in recs : p.rr # rr}
With(recs, p) == SetRRsetTtl(Without(recs, p.rr) \cup {p}, SetOf[p.rr], p.ttl)

CreateZone(fields, zonemd) ==
    /\ zone = None
    /\ incarnation < MaxIncarnations
    /\ incarnation' = incarnation + 1
    /\ Published({})
    /\ RebuildAll([serial |-> FirstSerial, seq |-> 0, imageSeq |-> 0, soa |-> fields,
                    zonemd |-> zonemd], {}, None, TRUE)
    /\ UNCHANGED mixed

CreateRecord(p) ==
    /\ zone # None
    /\ ~Has(stored, p.rr)
    /\ MutateEdit(With(stored, p), {SetOf[p.rr]})

\* Mutant: the RRset a record moves away from is forgotten.
EditedSetsNew(old, new) == {SetOf[new.rr]}

\* A record may move to another RRset: both are part of the edit.
EditedSets(old, new) == {SetOf[old.rr], SetOf[new.rr]}

UpdateRecord(old, new) ==
    /\ zone # None
    /\ old \in stored
    /\ new.rr = old.rr \/ ~Has(stored, new.rr)
    /\ MutateEdit(With(Without(stored, old.rr), new), EditedSets(old, new))

DeleteRecord(p) ==
    /\ zone # None
    /\ p \in stored
    /\ MutateEdit(stored \ {p}, {SetOf[p.rr]})

OneTtl(recs) == \A p, q \in recs : SetOf[p.rr] = SetOf[q.rr] => p.ttl = q.ttl

\* The records of the file are stored with the TTLs they have there.
Import(f) ==
    /\ zone # None
    /\ Mutate([zone EXCEPT !.soa = f.soa], f.recs, f.serial, FALSE)
    /\ mixed' = (mixed \/ ~OneTtl(f.recs))

\* The records after an update: it deletes, then adds (one order of its records stands for all:
\* it decides only which TTL an RRset takes).
Updated(u) ==
    FoldSet(LAMBDA p, set : With(set, p), {p \in stored : p.rr \notin u.del}, u.add)

\* An update that changes nothing commits nothing; its SOA counts when its serial is greater.
DynamicUpdate(u) ==
    LET recs == Updated(u)
        soaChanged == u.soa # None /\ SerialLess(zone.serial, u.soa.serial)
    IN  /\ zone # None
        /\ recs # stored \/ soaChanged
        /\ IF soaChanged
           THEN Mutate([zone EXCEPT !.soa = u.soa.fields], recs, u.soa.serial, FALSE)
           ELSE Mutate(zone, recs, None, FALSE)
        /\ UNCHANGED mixed

\* Switching ZONEMD generation forces a version: the digest is not part of the diff.
Forced(zonemd) == zonemd # zone.zonemd

UpdateZone(fields, zonemd) ==
    /\ zone # None
    /\ Mutate([zone EXCEPT !.soa = fields, !.zonemd = zonemd], stored, None, Forced(zonemd))
    /\ UNCHANGED mixed

\* Its records, images and journal go with the row.
DeleteZone ==
    /\ zone # None
    /\ zone' = None
    /\ image' = NoImage
    /\ journal' = <<>>
    /\ Published({})
    /\ UNCHANGED <<incarnation, mixed>>

-----------------------------------------------------------------------------
(* The snapshot and the engine.                                             *)

\* Mutant: only the window is listed, whatever the age of the image.
ListedFromWindow == zone.seq - JournalListed

\* The listed deltas start at the window or, when that is older, at the image.
ListedFrom == LET s == zone.seq - JournalListed IN IF s < zone.imageSeq THEN s ELSE zone.imageSeq
ListedSeqs == {s \in DOMAIN journal : s > ListedFrom /\ s <= zone.seq}

\* Sequence numbers in order.
Ascending(seqs) ==
    CHOOSE s \in [1 .. Cardinality(seqs) -> seqs] : \A i, j \in DOMAIN s : i < j => s[i] < s[j]

\* AddAuthZones: the image and the deltas of the window, or more when the image is older.
AuthZone ==
    LET seqs == Ascending(ListedSeqs)
    IN  [serial |-> zone.serial,
         image |-> image.recs,
         imageSerial |-> image.serial,
         deltas |-> [i \in DOMAIN seqs |-> journal[seqs[i]]],
         offset |-> Cardinality({s \in ListedSeqs : s <= zone.imageSeq})]

Validate(az) ==
    /\ \A i \in 1 .. Len(az.deltas) - 1 : az.deltas[i].to = az.deltas[i + 1].from
    /\ az.deltas # <<>> => Last(az.deltas).to = az.serial
    /\ az.offset <= Len(az.deltas)
    /\ az.imageSerial = IF az.offset < Len(az.deltas) THEN az.deltas[az.offset + 1].from ELSE az.serial

\* Zone.insert and remove compare records without their TTL.  An RRset has one TTL, that of the
\* record inserted last: which one that is depends on the order of the data (external).
SameData(p, q) == p.rr = q.rr
RRsetOf(p) == IF IsSoaData(p) THEN p.rr.type ELSE SetOf[p.rr]
TtlAfter(added, p) ==
    LET same == {q \in added : RRsetOf(q) = RRsetOf(p)}
    IN  IF same = {} THEN p.ttl ELSE (CHOOSE q \in same : TRUE).ttl
Inserted(recs, added) ==
    {Record(p.rr, TtlAfter(added, p)) :
        p \in added \cup {q \in recs : ~\E a \in added : SameData(q, a)}}
Removed(recs, deleted) == {p \in recs : ~\E q \in deleted : SameData(p, q)}
\* Mutant: the additions are applied before the deletions.
RewriteInsertFirst(recs, d) == Removed(Inserted(recs, d.added), d.deleted)

\* The deletions come first.
Rewrite(recs, d) == Inserted(Removed(recs, d.deleted), d.added)

\* Zone.apply: what the delta deletes must be there, and one SOA with the new serial remains.
Nowhere == [serial |-> None, recs |-> {}]
Apply(z, d) ==
    LET recs == Rewrite(z.recs, d)
        soas == {p \in SoaDataOf(recs) : p.rr.type = "SOA"}
    IN  IF /\ z.serial = d.from
           /\ \A q \in d.deleted : \E p \in z.recs : SameData(p, q)
           /\ Cardinality(soas) = 1 /\ \A p \in soas : p.rr.serial = d.to
        THEN [serial |-> d.to, recs |-> recs]
        ELSE Nowhere
ApplyDeltas(z, deltas) == FoldLeft(Apply, z, deltas)

\* load_zone: the data it has when the serial is the same, else the deltas from it, else the
\* image with the deltas after it.
Position(az, serial) == SelectInSeq(az.deltas, LAMBDA d : d.from = serial)
Rest(az, i) == SubSeq(az.deltas, i, Len(az.deltas))
FromImage(az) ==
    LET rest == Rest(az, az.offset + 1)
    IN  [zone |-> ApplyDeltas([serial |-> az.imageSerial, recs |-> Inserted({}, az.image)], rest),
         parsed |-> rest]
LoadData(old, az) ==
    LET i == Position(az, old.serial)
        applied == ApplyDeltas([serial |-> old.serial, recs |-> old.recs], Rest(az, i))
    IN  CASE old.serial = az.serial ->
               [zone |-> [serial |-> old.serial, recs |-> old.recs], parsed |-> <<>>]
          [] old.serial # az.serial /\ i > 0 /\ applied # Nowhere ->
               [zone |-> applied, parsed |-> Rest(az, i)]
          [] OTHER -> FromImage(az)

\* The IXFR history keeps each delta it knows by its two serials.
History(az, known) ==
    [i \in DOMAIN az.deltas |->
        LET k == SelectInSeq(known, LAMBDA d : d.from = az.deltas[i].from /\ d.to = az.deltas[i].to)
        IN  IF k > 0 THEN known[k] ELSE az.deltas[i]]

LoadZone(old, az) ==
    LET loaded == IF old = None THEN FromImage(az) ELSE LoadData(old, az)
        deltas == IF old = None THEN <<>> ELSE old.deltas
    IN  [serial |-> loaded.zone.serial, recs |-> loaded.zone.recs,
         deltas |-> History(az, loaded.parsed \o deltas)]

\* The engine applies the newest snapshot, whichever it applied before; a process that has
\* just started holds no zone.
Load(old) ==
    /\ behind
    /\ IF zone = None
       THEN engine' = None
       ELSE /\ Validate(AuthZone)
            /\ LoadZone(old, AuthZone).serial = zone.serial
            /\ engine' = LoadZone(old, AuthZone)
    /\ behind' = FALSE
    /\ UNCHANGED <<zone, stored, image, journal, incarnation, mixed>>

Next ==
    \/ \E fields \in SoaFields, zonemd \in BOOLEAN : CreateZone(fields, zonemd)
    \/ \E p \in Records : CreateRecord(p)
    \/ \E old, new \in Records : UpdateRecord(old, new)
    \/ \E p \in Records : DeleteRecord(p)
    \/ \E f \in Files : Import(f)
    \/ \E u \in Updates : DynamicUpdate(u)
    \/ \E fields \in SoaFields, zonemd \in BOOLEAN : UpdateZone(fields, zonemd)
    \/ DeleteZone
    \/ Load(engine)
    \/ Load(None)

Spec == Init /\ [][Next]_vars

\* A new version takes a serial that the journal, the engine's zone or its history still names.
\* Serials are 32 bits, so the successor does not do this; a serial of an import or an update may,
\* and so does a zone that is deleted and created again before the engine has loaded the deletion.
JournalSerials == {journal[s].from : s \in DOMAIN journal} \cup {zone.serial}
EngineSerials == {engine.deltas[i].to : i \in DOMAIN engine.deltas} \cup {engine.serial}
NewVersion == zone' # None /\ (zone = None \/ zone'.seq # zone.seq)
SerialReturns ==
    /\ NewVersion
    /\ \/ zone # None /\ zone'.serial \in JournalSerials
       \/ engine # None /\ zone'.serial \in EngineSerials

\* The behaviours in which no serial returns while it is remembered.
FreshSpec == Init /\ [][Next /\ ~SerialReturns]_vars

\* A way to be among them: serials do not wrap, and the name of a zone is used again only after the
\* engine has loaded its deletion.
SerialsRise == NewVersion => IF zone = None THEN engine = None ELSE zone'.serial > zone.serial
RisingSpec == Init /\ [][Next /\ SerialsRise]_vars

-----------------------------------------------------------------------------
(* Properties.                                                              *)

\* Whichever of the two paths wrote each version, the image with the deltas after it is the
\* stored records with the row's SOA and, when asked for, a digest of this very version.
ServedIsStored ==
    zone # None => LoadServed = stored \cup SoaData(zone, zone.serial, stored)

\* However images, pruning and the listed window meet, the listed zone passes the engine's
\* structural checks, and an engine that holds nothing can load it: no edit of a zone makes
\* the fleet reject a snapshot.
SnapshotLoads ==
    zone # None => Validate(AuthZone) /\ LoadZone(None, AuthZone).serial = zone.serial

\* The engine's records are the served ones: the data always, the TTLs unless a file gave an RRset
\* two, when they depend on how the engine got there.
Data(recs) == {p.rr : p \in recs}
SameRecords(recs, served) == Data(recs) = Data(served) /\ (~mixed => recs = served)

\* An engine on the newest snapshot serves its data and its IXFR history, whichever older
\* version it started from and whether it reused, applied deltas or read the image.
EngineServesSnapshot ==
    ~behind => IF zone = None THEN engine = None
               ELSE engine # None /\ SameRecords(engine.recs, LoadServed)
                    /\ engine.deltas = AuthZone.deltas

\* The claim of the loader's comment "Same data, different history window.": a zone held at the
\* listed serial has the listed data.
SameSerialSameData ==
    zone # None /\ engine # None =>
        (engine.serial = zone.serial => SameRecords(engine.recs, LoadServed))
=============================================================================
