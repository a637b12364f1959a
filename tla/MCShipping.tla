----------------------------- MODULE MCShipping -----------------------------
(* One order of two lines, two shipments of up to two picks, one lot. *)
EXTENDS Shipping, TLC

MCOrderOf == [k \in OrderLines |-> "order"]
MCOrdered == [k \in OrderLines |-> 1]
MCMatches == [k \in OrderLines |-> Lots]
MCSymmetry == Permutations(Clerks) \cup Permutations(Shipments)
              \cup Permutations(OrderLines)

MCFilled  == [l \in Lots |-> 2]

=============================================================================
