--------------------------- MODULE MCZoneVersions ---------------------------
(* Instances of ZoneVersions for TLC: an RRset of two records and one of one;
   the second file gives an RRset two TTLs. *)
EXTENDS ZoneVersions

CONSTANTS a1, a2, b1

MCRRs == {a1, a2, b1}
MCSetOf == [rr \in MCRRs |-> IF rr = b1 THEN "B" ELSE "A"]

\* Serials less than half the space ahead: 1, 4, 7 and 1 again is a way round.
MCFiles == {[recs |-> {Record(a1, 2), Record(b1, 1)}, soa |-> "s1", serial |-> 4],
            [recs |-> {Record(a1, 2), Record(a2, 1)}, soa |-> "s2", serial |-> 7]}
MCUpdates == {[del |-> {a1}, add |-> {Record(b1, 2)}, soa |-> None],
              [del |-> {}, add |-> {Record(a1, 1), Record(a2, 1)}, soa |-> [serial |-> 1, fields |-> "s2"]]}
=============================================================================
