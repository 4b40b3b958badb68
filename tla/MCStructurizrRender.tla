------------------------ MODULE MCStructurizrRender ------------------------
(***************************************************************************)
(* Instances of StructurizrRender for TLC.                                 *)
(***************************************************************************)
EXTENDS StructurizrRender, TLC

CONSTANT MaxWrong    \* bound: how much is wrong, with all renders together

FewWrong ==
  /\ \A c \in Cleans : wrong[c] = {}
  /\ Cardinality({w \in Renders \X Faults : w[2] \in wrong[w[1]]}) \leq MaxWrong
InitFew == Init /\ FewWrong
SpecFew == InitFew /\ [][Next]_vars
Symmetry == Permutations(Renders) \cup Permutations(Cleans)
=============================================================================
