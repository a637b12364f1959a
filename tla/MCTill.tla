------------------------------- MODULE MCTill -------------------------------
(* Three sales of two SKUs, the last in a filed period, and two lots of one *)
(* product.                                                                 *)
EXTENDS Till

MCSkuOf     == <<"gin", "mini", "gin">>
MCQuantity  == <<1, 2, 1>>
\* The first two of them, a bottle each.
MCTwoSkus == <<"gin", "mini">>
MCOneEach == <<1, 1>>

MCFilled    == <<1, 2>>
MCProductOf == <<"gin", "gin">>

=============================================================================
