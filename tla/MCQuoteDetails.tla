--------------------------- MODULE MCQuoteDetails ----------------------------
(* Instances of QuoteDetails for TLC. *)
EXTENDS QuoteDetails

CONSTANTS v1, v2, v3, shirt, shorts

ThreeVariants == {v1, v2, v3}

(* Two variants of one garment, which differ in price, and one of another. *)
Garments == (v1 :> shirt) @@ (v2 :> shirt) @@ (v3 :> shorts)
Prices3 == (v1 :> 2) @@ (v2 :> 3) @@ (v3 :> 2)

OneOrTwo == {1, 2}
NoneToTwo == 0..2
=============================================================================
