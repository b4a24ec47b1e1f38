------------------------------ MODULE MCLease ------------------------------
(* Instances of Lease for TLC.                                                *)
EXTENDS Lease, TLC

\* Holders are interchangeable: each is a random identity with a gate of its own.
Symmetry == Permutations(Holders)
============================================================================
