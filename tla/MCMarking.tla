------------------------------ MODULE MCMarking ------------------------------
(* Marking on a small instance.                                              *)
EXTENDS Marking, TLC

CONSTANT MaxTroubles   \* bound: clicks and killed invocations together

HandlerSymmetry ==
  Permutations(Handlers) \cup Permutations(Answers) \cup Permutations(Sends)

Few == clicks + crashes <= MaxTroubles
=============================================================================
