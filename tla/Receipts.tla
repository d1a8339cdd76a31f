------------------------------ MODULE Receipts ------------------------------
(* What the payment code promises about money that arrived, without rows,    *)
(* copies, retries or gateways: every payment received for an application is *)
(* filed exactly once, as the confirmation of the place (which moves the     *)
(* application on, at most once), as a part payment, or as money nobody was  *)
(* waiting for.                                                              *)
CONSTANT Payments

VARIABLES
  received, \* the payments that have settled
  filed,    \* what the timeline says of each
  place     \* "waiting" for money, "confirmed" by it, or gone "elsewhere"

rvars == <<received, filed, place>>

Kind == {"partial", "confirmed", "unexpected"}

RInit == received = {} /\ filed = [p \in Payments |-> {}] /\ place = "waiting"

Receive(p) ==
  /\ p \notin received
  /\ received' = received \cup {p}
  /\ UNCHANGED <<filed, place>>

FileAs(p, k) ==
  /\ p \in received /\ filed[p] = {}
  /\ filed' = [filed EXCEPT ![p] = {k}]
  /\ UNCHANGED received

Confirm(p)    == FileAs(p, "confirmed") /\ place = "waiting" /\ place' = "confirmed"
FilePart(p)   == FileAs(p, "partial") /\ UNCHANGED place
FileExcess(p) == FileAs(p, "unexpected") /\ place # "waiting" /\ UNCHANGED place

\* The application is withdrawn, or moves on without the money.
Leave == place # "elsewhere" /\ place' = "elsewhere" /\ UNCHANGED <<received, filed>>

RFile(p) == Confirm(p) \/ FilePart(p) \/ FileExcess(p)
RNext == Leave \/ \E p \in Payments : Receive(p) \/ RFile(p)
RSpec == RInit /\ [][RNext]_rvars
RFairSpec == RSpec /\ \A p \in Payments : WF_rvars(RFile(p))
=============================================================================
