------------------------------- MODULE Tickets -------------------------------
(* Tickets and stalls for one event: the order a stranger places, the        *)
(* checkout it opens, the tickets it is issued when the money is confirmed    *)
(* (web/lib/events, and create_event_order and issue_event_tickets of the     *)
(* event_tickets migration).                                                  *)
(*                                                                            *)
(* An order has one payment request and one attempt, so an order names all    *)
(* three.  An invocation is one action per statement, as in Payments; the two *)
(* SQL functions hold the event's row and are one action each.  The attempt   *)
(* is always for the whole amount, which is copied from the order.            *)
EXTENDS Integers, FiniteSets

CONSTANTS
  Orders,         \* ids of the rows of public.event_orders the model may insert
  Stalls,         \* those for a stall, the rest being for tickets
  Names,          \* people
  Holders,        \* event_orders.holders, the people of each order
  Capacity,       \* crm_events.capacity
  StallCapacity,  \* event_sales.stall_capacity
  Handlers,       \* invocations that may be in flight together
  MaxCrashes      \* bound: invocations killed between two statements

ASSUME EventAssumption ==
  /\ IsFiniteSet(Orders) /\ IsFiniteSet(Names) /\ Stalls \subseteq Orders
  /\ Holders \in [Orders -> SUBSET Names] /\ \A o \in Orders : Holders[o] # {}
  /\ Capacity \in Nat /\ StallCapacity \in Nat
ASSUME TicketBounds == MaxCrashes \in Nat
ASSUME NoOrderAssumption == "none" \notin Orders

VARIABLES
  open,     \* tickets_open, stalls_open, and the event neither cancelled nor over
  order,    \* event_orders.status, "none" before the insert
  held,     \* created_at is less than a day ago
  givenUp,  \* history: the order's places went back on sale once
  req,      \* payment_requests.status of its request
  row,      \* payments.status of its attempt
  ref,      \* payments.provider_ref is not null
  late,     \* payments.expires_at has passed
  recent,   \* the attempt is within the day the sweep asks about
  gateway,  \* what the gateway would answer to verify
  numbers,  \* event_tickets.number of its tickets
  next,     \* event_sales.next_ticket_no
  mail,     \* the event_tickets email: "none", "queued", "sent"
  tasks,    \* open tasks about an order: <<type, order>>
  pc, sub, mem,  \* an invocation's next statement, its order, the rows it holds
  crashes

sale == <<open, order, held, givenUp>>
pay  == <<req, row, ref, late, recent, gateway>>
door == <<numbers, next, mail, tasks>>
self == <<pc, sub, mem>>
vars == <<open, order, held, givenUp, req, row, ref, late, recent, gateway,
          numbers, next, mail, tasks, pc, sub, mem, crashes>>

NoOrder == "none"
OrderStatus == {"none", "pending", "paid", "cancelled"}
ReqStatus == {"none", "required", "paid", "cancelled"}
RowStatus == {"none", "pending", "processing", "succeeded", "failed", "expired"}
Gateway == {"none", "open", "visited", "paid", "wrong", "declined", "expired"}
Answer == {"pending", "paid", "wrong", "declined", "expired"}
TaskType == {"late_payment", "review"}
Revivable == {"failed", "expired"}

PC == { "idle", "place", "request", "insert", "checkout", "launch", "dropRequest",
        "dropOrder", "ask", "branch", "claim", "credit", "readOrder", "settle",
        "issue", "mail", "tell", "fail", "closeRequest", "release", "review" }

\* What an invocation holds: whether it asks about an attempt given up on, the
\* gateway's answer, the order's status before it settled.
Memory == [revive : BOOLEAN, ans : Answer, before : OrderStatus]
Nothing == [revive |-> FALSE, ans |-> "pending", before |-> "none"]

Init ==
  /\ open = TRUE
  /\ order = [o \in Orders |-> "none"] /\ held = [o \in Orders |-> FALSE]
  /\ givenUp = [o \in Orders |-> FALSE]
  /\ req = [o \in Orders |-> "none"] /\ row = [o \in Orders |-> "none"]
  /\ ref = [o \in Orders |-> FALSE] /\ late = [o \in Orders |-> FALSE]
  /\ recent = [o \in Orders |-> FALSE] /\ gateway = [o \in Orders |-> "none"]
  /\ numbers = [o \in Orders |-> {}] /\ next = 1
  /\ mail = [o \in Orders |-> "none"] /\ tasks = {}
  /\ pc = [h \in Handlers |-> "idle"] /\ sub = [h \in Handlers |-> NoOrder]
  /\ mem = [h \in Handlers |-> Nothing] /\ crashes = 0

At(h, l) == pc[h] = l
Goto(h, l) == pc' = [pc EXCEPT ![h] = l] /\ UNCHANGED sub
Keep(h) == UNCHANGED mem
Hold(h, f, v) == mem' = [mem EXCEPT ![h][f] = v]
Done(h) ==
  /\ pc' = [pc EXCEPT ![h] = "idle"] /\ sub' = [sub EXCEPT ![h] = NoOrder]
  /\ mem' = [mem EXCEPT ![h] = Nothing]
Begin(h, l, o, revive) ==
  /\ At(h, "idle")
  /\ pc' = [pc EXCEPT ![h] = l] /\ sub' = [sub EXCEPT ![h] = o]
  /\ mem' = [mem EXCEPT ![h] = [Nothing EXCEPT !.revive = revive]]
-----------------------------------------------------------------------------
(* Taking an order: create_event_order and startOrderCheckout.               *)

\* An order that is paid keeps its places; a pending one for a day.
Taking(o) == order[o] = "paid" \/ (order[o] = "pending" /\ held[o])
Taken == {o \in Orders : Taking(o)}

\* The tickets of a set of orders, one for each holder.
TicketsOf(S) == UNION {{o} \X Holders[o] : o \in S}

\* Mutant: only what is paid for counts.
RoomBesidePaid(o) ==
  Cardinality(TicketsOf({x \in Orders : order[x] = "paid"} \cup {o})) <= Capacity

RoomFor(o) ==
  /\ o \in Stalls => Cardinality(Taken \cap Stalls) < StallCapacity
  /\ Cardinality(TicketsOf(Taken \cup {o})) <= Capacity

Buy(h, o) ==
  /\ order[o] = "none" /\ \A g \in Handlers : sub[g] # o
  /\ Begin(h, "place", o, FALSE)
  /\ UNCHANGED <<sale, pay, door, crashes>>

\* The event's sales row is locked: the count and the insert are one.
Place(h) ==
  /\ At(h, "place")
  /\ IF open /\ RoomFor(sub[h])
     THEN /\ order' = [order EXCEPT ![sub[h]] = "pending"]
          /\ held' = [held EXCEPT ![sub[h]] = TRUE]
          /\ Goto(h, "request") /\ Keep(h)
     ELSE Done(h) /\ UNCHANGED <<order, held>>
  /\ UNCHANGED <<open, givenUp, pay, door, crashes>>

OpenRequest(h) ==
  /\ At(h, "request")
  /\ req' = [req EXCEPT ![sub[h]] = "required"]
  /\ Goto(h, "insert") /\ Keep(h)
  /\ UNCHANGED <<sale, row, ref, late, recent, gateway, door, crashes>>

InsertAttempt(h) ==
  /\ At(h, "insert")
  /\ row' = [row EXCEPT ![sub[h]] = "pending"]
  /\ recent' = [recent EXCEPT ![sub[h]] = TRUE]
  /\ Goto(h, "checkout") /\ Keep(h)
  /\ UNCHANGED <<sale, req, ref, late, gateway, door, crashes>>

CheckoutOpened(h) ==
  /\ At(h, "checkout")
  /\ gateway' = [gateway EXCEPT ![sub[h]] = "open"]
  /\ Goto(h, "launch") /\ Keep(h)
  /\ UNCHANGED <<sale, req, row, ref, late, recent, door, crashes>>

CheckoutRefused(h) ==
  /\ At(h, "checkout")
  /\ row' = [row EXCEPT ![sub[h]] = "failed"]
  /\ Goto(h, "dropRequest") /\ Keep(h)
  /\ UNCHANGED <<sale, req, ref, late, recent, gateway, door, crashes>>

\* The checkout throws: before there is a row, as for a currency the gateway does
\* not take, or at the update that would send the buyer on.
CheckoutThrows(h) ==
  /\ pc[h] \in {"insert", "launch"}
  /\ Goto(h, "dropRequest") /\ Keep(h)
  /\ UNCHANGED <<sale, pay, door, crashes>>

\* The buyer is sent on; nothing else moves until the gateway says yes.
Launch(h) ==
  /\ At(h, "launch")
  /\ row' = [row EXCEPT ![sub[h]] = "processing"]
  /\ ref' = [ref EXCEPT ![sub[h]] = TRUE]
  /\ gateway' = [gateway EXCEPT ![sub[h]] = "visited"]
  /\ Done(h)
  /\ UNCHANGED <<sale, req, late, recent, door, crashes>>

\* Mutant: the request takes the attempt's word for it.
DropRequestAsFailed(h) ==
  /\ At(h, "dropRequest")
  /\ req' = [req EXCEPT ![sub[h]] = "failed"]
  /\ Goto(h, "dropOrder") /\ Keep(h)
  /\ UNCHANGED <<sale, row, ref, late, recent, gateway, door, crashes>>

\* "So its places are not held for a day by a checkout that never opened."
DropRequest(h) ==
  /\ At(h, "dropRequest")
  /\ req' = [req EXCEPT ![sub[h]] = "cancelled"]
  /\ Goto(h, "dropOrder") /\ Keep(h)
  /\ UNCHANGED <<sale, row, ref, late, recent, gateway, door, crashes>>

Cancel(o) ==
  /\ order' = [order EXCEPT ![o] = IF @ = "pending" THEN "cancelled" ELSE @]
  /\ givenUp' = [givenUp EXCEPT ![o] = @ \/ order[o] = "pending"]

DropOrder(h) ==
  /\ At(h, "dropOrder")
  /\ Cancel(sub[h])
  /\ Done(h)
  /\ UNCHANGED <<open, held, pay, door, crashes>>
-----------------------------------------------------------------------------
(* Asking the gateway: reconcilePayment, from the return page, Check again,  *)
(* the gateway's notify and the sweep.                                       *)

Reconcile(h, o, revive) ==
  /\ ref[o]
  /\ row[o] = "processing" \/ (revive /\ row[o] \in Revivable)
  /\ Begin(h, "ask", o, row[o] \in Revivable)
  /\ UNCHANGED <<sale, pay, door, crashes>>

\* The cron asks about every attempt in flight, and for a day about every one
\* it gave up on itself.
Sought(o) == row[o] = "processing" \/ (row[o] = "expired" /\ recent[o])

Sweep(h, o) ==
  /\ Sought(o)
  /\ Reconcile(h, o, row[o] = "expired")

VerifyAnswer(o) ==
  IF gateway[o] \in {"none", "open", "visited"} THEN "pending" ELSE gateway[o]

\* Past our own window a pending answer is an expiry, unless we are reviving.
Ask(h) ==
  /\ At(h, "ask")
  /\ LET ans == VerifyAnswer(sub[h]) IN
       Hold(h, "ans", IF ans = "pending" /\ ~mem[h].revive /\ late[sub[h]]
                      THEN "expired" ELSE ans)
  /\ Goto(h, "branch")
  /\ UNCHANGED <<sale, pay, door, crashes>>

\* The gateway cannot be reached.
VerifyThrows(h) == At(h, "ask") /\ Done(h) /\ UNCHANGED <<sale, pay, door, crashes>>

\* A revived attempt already failed: only news of money is acted on.
Branch(h) ==
  /\ At(h, "branch")
  /\ LET no == mem[h].ans \in {"declined", "expired"} IN
       \/ mem[h].ans = "paid" /\ Goto(h, "claim") /\ Keep(h)
       \/ (mem[h].ans = "wrong" \/ (no /\ ~mem[h].revive)) /\ Goto(h, "fail") /\ Keep(h)
       \/ (mem[h].ans = "pending" \/ (no /\ mem[h].revive)) /\ Done(h)
  /\ UNCHANGED <<sale, pay, door, crashes>>
-----------------------------------------------------------------------------
(* onEventOrderPaid: money that arrived.                                     *)

Claim(h) ==
  /\ At(h, "claim")
  /\ IF row[sub[h]] # "succeeded"
     THEN /\ row' = [row EXCEPT ![sub[h]] = "succeeded"]
          /\ Goto(h, "credit") /\ Keep(h)
     ELSE Done(h) /\ UNCHANGED row
  /\ UNCHANGED <<sale, req, ref, late, recent, gateway, door, crashes>>

Credit(h) ==
  /\ At(h, "credit")
  /\ req' = [req EXCEPT ![sub[h]] = "paid"]
  /\ Goto(h, "readOrder") /\ Keep(h)
  /\ UNCHANGED <<sale, row, ref, late, recent, gateway, door, crashes>>

ReadOrder(h) ==
  /\ At(h, "readOrder")
  /\ Hold(h, "before", order[sub[h]])
  /\ Goto(h, "settle")
  /\ UNCHANGED <<sale, pay, door, crashes>>

\* Paid, whatever we had decided while waiting.
Settle(h) ==
  /\ At(h, "settle")
  /\ order' = [order EXCEPT ![sub[h]] = "paid"]
  /\ Goto(h, "issue") /\ Keep(h)
  /\ UNCHANGED <<open, held, givenUp, pay, door, crashes>>

\* Mutant: the counter is not moved on.
IssueWithoutCount(h) ==
  /\ At(h, "issue")
  /\ IF numbers[sub[h]] = {}
     THEN numbers' = [numbers EXCEPT ![sub[h]] =
                        next .. (next + Cardinality(Holders[sub[h]]) - 1)]
     ELSE UNCHANGED numbers
  /\ Goto(h, "mail") /\ Keep(h)
  /\ UNCHANGED <<sale, pay, next, mail, tasks, crashes>>

\* issue_event_tickets, under the locks of the order and of the event's sales:
\* once, numbered from the event's counter.
Issue(h) ==
  /\ At(h, "issue")
  /\ LET n == next + Cardinality(Holders[sub[h]]) IN
       IF order[sub[h]] = "paid"
       THEN /\ IF numbers[sub[h]] = {}
               THEN numbers' = [numbers EXCEPT ![sub[h]] = next .. (n - 1)] /\ next' = n
               ELSE UNCHANGED <<numbers, next>>
            /\ Goto(h, "mail") /\ Keep(h)
       ELSE Done(h) /\ UNCHANGED <<numbers, next>>
  /\ UNCHANGED <<sale, pay, mail, tasks, crashes>>

\* Keyed by order, so two verifies send one email.
QueueMail(h) ==
  /\ At(h, "mail")
  /\ mail' = [mail EXCEPT ![sub[h]] = IF @ = "none" THEN "queued" ELSE @]
  /\ Goto(h, "tell") /\ Keep(h)
  /\ UNCHANGED <<sale, pay, numbers, next, tasks, crashes>>

\* Paid after the order was released: a person decides about the places.
TellLate(h) ==
  /\ At(h, "tell")
  /\ tasks' = IF mem[h].before = "cancelled" THEN tasks \cup {<<"late_payment", sub[h]>>} ELSE tasks
  /\ Done(h)
  /\ UNCHANGED <<sale, pay, numbers, next, mail, crashes>>
-----------------------------------------------------------------------------
(* onEventPaymentFailed: the gateway said no, or never said yes in time.     *)

\* Mutant: whoever says no, the attempt failed.
GivenAsFailed(h) == "failed"

Given(h) == IF mem[h].ans = "expired" THEN "expired" ELSE "failed"

\* Mutant: the failure does not ask what the attempt has become.
FailById(h) ==
  /\ At(h, "fail")
  /\ row' = [row EXCEPT ![sub[h]] = Given(h)]
  /\ Goto(h, "closeRequest") /\ Keep(h)
  /\ UNCHANGED <<sale, req, ref, late, recent, gateway, door, crashes>>

Fail(h) ==
  /\ At(h, "fail")
  /\ IF row[sub[h]] \in {"pending", "processing"}
     THEN /\ row' = [row EXCEPT ![sub[h]] = Given(h)]
          /\ Goto(h, "closeRequest") /\ Keep(h)
     ELSE /\ IF mem[h].ans = "wrong" THEN Goto(h, "review") /\ Keep(h) ELSE Done(h)
          /\ UNCHANGED row
  /\ UNCHANGED <<sale, req, ref, late, recent, gateway, door, crashes>>

CloseRequest(h) ==
  /\ At(h, "closeRequest")
  /\ req' = [req EXCEPT ![sub[h]] = IF @ = "required" THEN "cancelled" ELSE @]
  /\ Goto(h, "release") /\ Keep(h)
  /\ UNCHANGED <<sale, row, ref, late, recent, gateway, door, crashes>>

Release(h) ==
  /\ At(h, "release")
  /\ Cancel(sub[h])
  /\ IF mem[h].ans = "wrong" THEN Goto(h, "review") /\ Keep(h) ELSE Done(h)
  /\ UNCHANGED <<open, held, pay, door, crashes>>

FileReview(h) ==
  /\ At(h, "review")
  /\ tasks' = tasks \cup {<<"review", sub[h]>>}
  /\ Done(h)
  /\ UNCHANGED <<sale, pay, numbers, next, mail, crashes>>
-----------------------------------------------------------------------------
(* Staff and the drain.                                                      *)

\* saveSales, a cancellation, or the end of the event.
SwitchSales ==
  /\ open' = ~open
  /\ UNCHANGED <<order, held, givenUp, pay, door, self, crashes>>

\* resendTickets: a fresh email for a paid order.
Resend(o) ==
  /\ order[o] = "paid" /\ mail[o] = "sent"
  /\ mail' = [mail EXCEPT ![o] = "queued"]
  /\ UNCHANGED <<sale, pay, numbers, next, tasks, self, crashes>>

\* sendEventOrderEmail: a paid order's tickets; an email listing none is retried.
Deliver(o) ==
  /\ mail[o] = "queued" /\ order[o] = "paid" /\ numbers[o] # {}
  /\ mail' = [mail EXCEPT ![o] = "sent"]
  /\ UNCHANGED <<sale, pay, numbers, next, tasks, self, crashes>>
-----------------------------------------------------------------------------
(* The buyer at the gateway, the clock, and the platform.                    *)

BuyerEnds(o) ==
  /\ gateway[o] = "visited"
  /\ \E a \in {"paid", "wrong", "declined", "expired"} : gateway' = [gateway EXCEPT ![o] = a]
  /\ UNCHANGED <<sale, req, row, ref, late, recent, door, self, crashes>>

Expire(o) ==
  /\ row[o] = "processing" /\ ~late[o]
  /\ late' = [late EXCEPT ![o] = TRUE]
  /\ UNCHANGED <<sale, req, row, ref, recent, gateway, door, self, crashes>>

\* A day after the order; our own window on an attempt is a matter of minutes.
Lapse(o) ==
  /\ held[o] /\ (row[o] = "processing" => late[o])
  /\ held' = [held EXCEPT ![o] = FALSE]
  /\ givenUp' = [givenUp EXCEPT ![o] = @ \/ order[o] = "pending"]
  /\ UNCHANGED <<open, order, pay, door, self, crashes>>

\* A day after the attempt, which is later than a day after the order.
WindowCloses(o) ==
  /\ recent[o] /\ ~held[o]
  /\ recent' = [recent EXCEPT ![o] = FALSE]
  /\ UNCHANGED <<sale, req, row, ref, late, gateway, door, self, crashes>>

Crash(h) ==
  /\ ~At(h, "idle") /\ crashes < MaxCrashes
  /\ crashes' = crashes + 1
  /\ Done(h) /\ UNCHANGED <<sale, pay, door>>
-----------------------------------------------------------------------------
Checkout(h) ==
  \/ Place(h) \/ OpenRequest(h) \/ InsertAttempt(h) \/ CheckoutOpened(h)
  \/ CheckoutRefused(h) \/ CheckoutThrows(h) \/ Launch(h) \/ DropRequest(h) \/ DropOrder(h)
Asking(h)  == Ask(h) \/ VerifyThrows(h) \/ Branch(h)
Settling(h) ==
  \/ Claim(h) \/ Credit(h) \/ ReadOrder(h) \/ Settle(h) \/ Issue(h) \/ QueueMail(h)
  \/ TellLate(h)
Failing(h) == Fail(h) \/ CloseRequest(h) \/ Release(h) \/ FileReview(h)

Step(h) == Checkout(h) \/ Asking(h) \/ Settling(h) \/ Failing(h)

Console ==
  \/ SwitchSales
  \/ \E o \in Orders : Resend(o) \/ Deliver(o)

World == \E o \in Orders : BuyerEnds(o) \/ Expire(o) \/ Lapse(o) \/ WindowCloses(o)

Next ==
  \/ \E h \in Handlers : Step(h) \/ Crash(h)
  \/ \E h \in Handlers, o \in Orders :
       Buy(h, o) \/ Sweep(h, o) \/ \E revive \in BOOLEAN : Reconcile(h, o, revive)
  \/ Console \/ World

Spec == Init /\ [][Next]_vars
-----------------------------------------------------------------------------
Quiet == crashes = 0 /\ \A h \in Handlers : At(h, "idle")

\* Every row and every invocation is one the code can write.
TypeOK ==
  /\ open \in BOOLEAN /\ order \in [Orders -> OrderStatus]
  /\ held \in [Orders -> BOOLEAN] /\ givenUp \in [Orders -> BOOLEAN]
  /\ req \in [Orders -> ReqStatus] /\ row \in [Orders -> RowStatus]
  /\ ref \in [Orders -> BOOLEAN] /\ late \in [Orders -> BOOLEAN]
  /\ recent \in [Orders -> BOOLEAN] /\ gateway \in [Orders -> Gateway]
  /\ numbers \in [Orders -> SUBSET Nat] /\ next \in Nat \ {0}
  /\ mail \in [Orders -> {"none", "queued", "sent"}]
  /\ tasks \subseteq TaskType \X Orders
  /\ pc \in [Handlers -> PC] /\ sub \in [Handlers -> Orders \cup {NoOrder}]
  /\ mem \in [Handlers -> Memory] /\ crashes \in Nat

\* "Two families are never sold the last ticket": the orders whose places were
\* never put back on sale fit the event, and its stalls, whoever buys meanwhile
\* and however late the gateway answers (create_event_order).
Kept == {o \in Taken : ~givenUp[o]}

NeverOversold ==
  /\ Cardinality(TicketsOf(Kept)) <= Capacity
  /\ Cardinality(Kept \cap Stalls) <= StallCapacity

\* "Numbers never repeat and never skip": no two orders share a number, an order
\* has one for each of its people or none at all, and none is past the counter.
NumbersNeverShared ==
  /\ \A o \in Orders :
       /\ numbers[o] \subseteq 1 .. (next - 1)
       /\ numbers[o] # {} => Cardinality(numbers[o]) = Cardinality(Holders[o])
  /\ \A o, p \in Orders : o # p => numbers[o] \cap numbers[p] = {}

\* Once every invocation has ended, and none was killed, the attempt, its
\* request and its order tell one story, whoever raced whom: money confirmed is
\* a paid order with its tickets and their email; an order with no attempt, or
\* one that was never opened or was given up on, is off, and so is its request.
RowsAgree ==
  Quiet =>
    \A o \in Orders :
      /\ row[o] = "succeeded" =>
           /\ order[o] = "paid" /\ req[o] = "paid"
           /\ numbers[o] # {} /\ mail[o] # "none"
      /\ order[o] # "none" /\ row[o] \notin {"processing", "succeeded"} =>
           order[o] = "cancelled" /\ req[o] = "cancelled"

\* What the gateway took is not forgotten: once every invocation has ended, and
\* none was killed, money taken for an attempt that became no tickets belongs to
\* an attempt the sweep still asks about, for as long as it asks about any.
TakenIsSought ==
  Quiet =>
    \A o \in Orders :
      gateway[o] = "paid" /\ recent[o] =>
        (order[o] = "paid" /\ numbers[o] # {}) \/ (ref[o] /\ Sought(o))
=============================================================================
