---------------------------- MODULE MCTrustLedger ----------------------------
(***************************************************************************)
(* Instances of TrustLedger for TLC.                                       *)
(***************************************************************************)
EXTENDS TrustLedger, TLC

\* Ledgers next to the thresholds of tierOf: about to enter queue, to leave it
\* for watch, to enter auto, to leave it.
Edge == {[runs |-> 9, pass |-> 9], [runs |-> 9, pass |-> 8],
         [runs |-> 10, pass |-> 9], [runs |-> 19, pass |-> 18], [runs |-> 20, pass |-> 19]}
EdgeLedgers == {[s \in Skill |-> row] : row \in Edge}

Symmetry == Permutations(Proc) \cup Permutations(Skill)
=============================================================================
