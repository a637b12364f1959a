---------------------------- MODULE MCPackaging ----------------------------
(* Every lot is of one jurisdiction, and its stamps come on any roll.         *)
EXTENDS Packaging, TLC

MCStampsFor == [l \in Lots |-> Orders]

MCStarts == {Unnumbered, 1}

MCSymmetry == Permutations(Lots) \cup Permutations(Callers) \cup Permutations(Tanks)

=============================================================================
