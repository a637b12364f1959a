---------------------------- MODULE MCStockCount ----------------------------
(* A lot of three bottles, and one that is gone and on no sheet. *)
EXTENDS StockCount, TLC

MCFilled == <<0, 3>>

\* One clerk is as good as another.
MCClerks == Permutations(Clerks)

=============================================================================
