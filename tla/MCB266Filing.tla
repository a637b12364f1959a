---------------------------- MODULE MCB266Filing ----------------------------
(* Two months, filed one by one or as one period of two; three months, in    *)
(* every period of one or two of them and the whole.                         *)
EXTENDS B266Filing

Of(a, b) == [from |-> a, to |-> b]

MCRanges == { Of(1, 1), Of(2, 2), Of(1, 2) }
MCEveryRange == MCRanges \cup { Of(3, 3), Of(2, 3), Of(1, 3) }

=============================================================================
