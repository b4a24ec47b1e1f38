-------------------------- MODULE MCFailoverGroups --------------------------
(* Two failover groups that compete for three engines and two addresses.    *)
EXTENDS FailoverGroups, TLC

MCSymmetry == Permutations(Engines) \cup Permutations(Groups) \cup Permutations(IPs)
=============================================================================
