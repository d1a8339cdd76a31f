------------------------------ MODULE MCTickets ------------------------------
(* Tickets on a small instance.                                              *)
EXTENDS Tickets, TLC

HandlerSymmetry == Permutations(Handlers)

\* The stall is for everybody, the other order for one of them.
MCHolders == [o \in Orders |-> IF o \in Stalls THEN Names ELSE {CHOOSE n \in Names : TRUE}]

\* Bound: once an invocation was killed, sales stay open and the sweep's day lasts.
OneTrouble == crashes = 0 \/ (open /\ \A o \in Orders : row[o] # "none" => recent[o])
=============================================================================
