---------------------------- MODULE MCKeyRollover ----------------------------
(* A zone signed, rolled over and unsigned within the bounds on time and keys. *)
EXTENDS KeyRollover

\* A short and a long TTL, for the SOA and for all records.
MCTTL == {[soa |-> 1, max |-> 1], [soa |-> 2, max |-> 2]}

\* What follows a lapse is left to the theorems of KeyRolloverProofs.
NoLapse == lapses = {}
==============================================================================
