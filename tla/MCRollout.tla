----------------------------- MODULE MCRollout -----------------------------
(* Instances of Rollout for TLC.                                              *)
EXTENDS Rollout, TLC

\* Engines are interchangeable: names and labels only decide which set SelectCanaries returns,
\* and the specification allows each set of the right size. So are contents and groups.
Symmetry == Permutations(Engines) \cup Permutations(Contents)
ContentSymmetry == Permutations(Contents)
GroupSymmetry == Permutations(Groups) \cup Permutations(Contents)
============================================================================
