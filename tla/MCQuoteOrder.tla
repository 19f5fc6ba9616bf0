---------------------------- MODULE MCQuoteOrder ----------------------------
(* Instances of QuoteOrder for TLC. *)
EXTENDS QuoteOrderRefinement, TLC

(* Calls are told apart by what they do only: their names may be permuted. *)
Symmetry == Permutations(Requests)

EveryOp == AllOps

(* The operations that decide between an order and a change of its quote. *)
QuoteOps == {"createQuote", "createOrder", "cancelQuote", "updateQuote", "deleteQuote"}

(* The operations on an order once its quote has been approved. *)
OrderOps == {"createQuote", "createOrder", "updateOrderStatus", "cancelOrder", "deleteOrder"}
=============================================================================
