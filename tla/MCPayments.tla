----------------------------- MODULE MCPayments -----------------------------
(* Payments on a small instance, with what fairness makes of it.             *)
EXTENDS Payments, TLC

Symmetry == Permutations(Handlers) \cup Permutations(Payments)

\* "A payment that lands later still settles": whatever the gateway took
\* before the last answer the sweep gets about it is filed in the end, by
\* somebody, with no help from the parent.  (Money taken after that answer is
\* found only if somebody asks by hand.)
TakenIsFiled ==
  \A p \in Payments :
    gateway[p] = "paid" /\ age[p] # "over" ~> timeline[p] # {}
=============================================================================
