------------------------------ MODULE MCOffers ------------------------------
(* Offers on a small instance.                                               *)
EXTENDS Offers, TLC

HandlerSymmetry == Permutations(Handlers)
=============================================================================
