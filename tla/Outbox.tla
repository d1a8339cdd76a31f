------------------------------- MODULE Outbox -------------------------------
(* What the job outbox promises whoever queues a letter, without locks,      *)
(* attempts, batches or drains: a letter once queued is delivered at most    *)
(* once, only while its job is open, and its job is closed in the end.  A    *)
(* job closed for want of success may be opened again by hand.               *)
EXTENDS Naturals

CONSTANT Letters

VARIABLES
  state,     \* "unknown", "open", "closed" (it went or need not) or "stuck"
  delivered  \* how often the letter arrived

ovars == <<state, delivered>>

OInit == state = [l \in Letters |-> "unknown"] /\ delivered = [l \in Letters |-> 0]

Move(l, from, to) ==
  state[l] \in from /\ state' = [state EXCEPT ![l] = to] /\ UNCHANGED delivered

Queue(l)  == Move(l, {"unknown"}, "open")
Close(l)  == Move(l, {"open"}, "closed") /\ delivered[l] > 0
GiveUp(l) == Move(l, {"open"}, "stuck")
Reopen(l) == Move(l, {"stuck"}, "open")

Deliver(l) ==
  /\ state[l] = "open" /\ delivered[l] = 0
  /\ delivered' = [delivered EXCEPT ![l] = 1]
  /\ UNCHANGED state

ONext ==
  \E l \in Letters : Queue(l) \/ Close(l) \/ GiveUp(l) \/ Reopen(l) \/ Deliver(l)

OSpec == OInit /\ [][ONext]_ovars

\* An open job is worked on until it is closed one way or the other.
OFairSpec == OSpec /\ \A l \in Letters : WF_ovars(Close(l) \/ GiveUp(l))
=============================================================================
