---------------------------- MODULE MCRegistration ----------------------------
(* Registration on a small instance.                                         *)
EXTENDS Registration, TLC

CONSTANT MaxTroubles   \* bound: clicks, moves and killed invocations together

HandlerSymmetry == Permutations(Handlers)

\* Nor is an invocation killed in an instance that moves the child back.
Few == clicks + moves + crashes <= MaxTroubles /\ moves * crashes = 0
=============================================================================
