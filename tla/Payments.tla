------------------------------ MODULE Payments ------------------------------
(* The money after an offer is accepted: one application, its open payment   *)
(* request, the attempts and receipts made against it, and every handler     *)
(* that touches them (web/lib/payments, web/lib/workflow/payment-actions.ts).*)
(*                                                                           *)
(* A handler is one serverless invocation: a page action, the webhook, the   *)
(* payment_verify job, the cron sweep, a member of staff.  The database runs *)
(* each statement atomically and nothing spans two of them, so a handler is  *)
(* a program counter, the rows it has already read (and may hold stale), and *)
(* one action per statement.  The gateway is external.                       *)
EXTENDS Integers, FiniteSets, Functions

CONSTANTS
  Payments,        \* ids of the rows of public.payments the model may insert
  Handlers,        \* invocations that may be in flight together
  Amount,          \* payment_requests.amount_minor
  SettleAttempts,  \* SETTLE_ATTEMPTS
  MaxCrashes,      \* bound: invocations killed between two statements
  Refunds,         \* "never", "settled" (nothing in flight) or "racing"
  Withdrawals,     \* whether the application may be withdrawn
  StageMoves,      \* whether staff may move the child to registration by hand
  DayEnds          \* bound: whether the day in which the sweep asks may run out

ASSUME AmountAssumption == Amount \in Nat \ {0}
ASSUME BoundsAssumption == SettleAttempts \in Nat \ {0} /\ MaxCrashes \in Nat
ASSUME SwitchAssumption ==
  /\ Refunds \in {"never", "settled", "racing"} 
  /\ Withdrawals \in BOOLEAN /\ StageMoves \in BOOLEAN /\ DayEnds \in BOOLEAN
ASSUME NoneAssumption == "none" \notin Payments

VARIABLES
  app,       \* applications.status
  moved,     \* the latest application.moved_to_stage event says "registration"
  reqStatus, \* payment_requests.status
  reqPaid,   \* payment_requests.paid_minor
  row,       \* payments.status, "none" before the insert
  amt,       \* payments.amount_minor
  ref,       \* payments.provider_ref is not null
  age,       \* how far the attempt's time has run, see Age
  timeline,  \* application_events that file a received payment, by payment
  tasks,     \* types of the open tasks that concern money
  gateway,   \* what the gateway would answer to verify
  pc, sub, mem,  \* a handler's next statement, its payment, the rows it holds
  crashes

db   == <<app, moved, reqStatus, reqPaid, row, amt, ref, age, timeline, tasks>>
vars == <<app, moved, reqStatus, reqPaid, row, amt, ref, age, timeline, tasks,
          gateway, pc, sub, mem, crashes>>

AppStatus ==
  { "payment_required", "payment_processing", "paid",
    "registration_incomplete", "withdrawn" }
ReqStatus ==
  { "required", "processing", "paid", "failed", "refunded",
    "partially_paid", "cancelled" }
RowStatus ==
  { "none", "pending", "processing", "succeeded", "failed", "expired", "refunded" }
Answer == { "pending", "paid", "wrong", "declined", "expired" }
\* Within our own window; past it, within CHECKOUT_TTL_HOURS; past the last answer
\* the sweep gets within those.
Age    == { "ours", "late", "over" }
Filed  == { "partial", "confirmed", "unexpected" }
Money  == { "payment_shortfall", "payment_refund_review", "payment_review" }

OpenRequest == {"required", "processing", "failed", "partially_paid"}
Payable     == {"required", "failed", "partially_paid"}
AwaitsMoney == {"payment_required", "payment_processing"}
MovedPastPayment == {"registration_incomplete"}

PC == { "idle",
        "startRequest", "insert", "checkout", "launch", "markRequest", "announce",
        "ask", "readRequest", "readApp",
        "claim", "credit", "partial", "settle", "file", "openRegistration",
        "fail", "review", "reopen", "demote",
        "eftRequest", "eftInsert", "giveUp",
        "refund", "refundRead", "refundRequest",
        "closeRequest", "expirePending", "cancelTasks", "withdraw",
        "moveClose", "moveExpire", "move" }

\* What a handler holds between statements: whether it may revive, the copies
\* of paid_minor and of the application's status, the gateway's answer (for a
\* move, whether the family says it has paid) and the settlement attempt.
Fresh(revive, status, ans) ==
  [revive |-> revive, paid |-> 0, app |-> status, ans |-> ans, tries |-> 1]
Blank == Fresh(FALSE, "payment_required", "pending")

-----------------------------------------------------------------------------
Init ==
  /\ app = "payment_required" /\ moved = FALSE
  /\ reqStatus = "required" /\ reqPaid = 0
  /\ row = [p \in Payments |-> "none"]
  /\ amt = [p \in Payments |-> 0]
  /\ ref = [p \in Payments |-> FALSE]
  /\ age = [p \in Payments |-> "ours"]
  /\ timeline = [p \in Payments |-> {}]
  /\ tasks = {}
  /\ gateway = [p \in Payments |-> "none"]
  /\ pc = [h \in Handlers |-> "idle"]
  /\ sub = [h \in Handlers |-> "none"]
  /\ mem = [h \in Handlers |-> Blank]
  /\ crashes = 0

At(h, l) == pc[h] = l
Goto(h, l) == pc' = [pc EXCEPT ![h] = l] /\ UNCHANGED sub
Keep(h)    == UNCHANGED mem
Hold(h, f, v) == mem' = [mem EXCEPT ![h] = [@ EXCEPT ![f] = v]]

\* The invocation ends: it returned, or it threw and its caller gave up.
Done(h) ==
  /\ pc'  = [pc  EXCEPT ![h] = "idle"]
  /\ sub' = [sub EXCEPT ![h] = "none"]
  /\ mem' = [mem EXCEPT ![h] = Blank]

\* A fresh invocation about payment p (or about no row yet) that has read m.
Begin(h, l, p, m) ==
  /\ At(h, "idle")
  /\ pc'  = [pc  EXCEPT ![h] = l]
  /\ sub' = [sub EXCEPT ![h] = p]
  /\ mem' = [mem EXCEPT ![h] = m]

File(h, kind) == timeline' = [timeline EXCEPT ![sub[h]] = @ \cup {kind}]
-----------------------------------------------------------------------------
(* A parent starts an online payment: pay/actions.ts startOnlinePayment,     *)
(* payments/checkout.ts startCheckout, then onPaymentStarted.                *)

StartPayment(h) ==
  /\ Begin(h, "startRequest", "none", Fresh(FALSE, app, "pending"))
  /\ UNCHANGED <<db, gateway, crashes>>

\* The open request is read after the application, and both are checked here.
StartReadRequest(h) ==
  /\ At(h, "startRequest")
  /\ IF /\ mem[h].app = "payment_required"
        /\ reqStatus \in OpenRequest \cap Payable
        /\ Amount - reqPaid > 0
     THEN Goto(h, "insert") /\ Hold(h, "paid", reqPaid)
     ELSE Done(h)
  /\ UNCHANGED <<db, gateway, crashes>>

\* Insert a payment of that many minor units and go on at l, or fail to.
InsertRow(h, l, minor) ==
  \/ \E p \in Payments :
       /\ row[p] = "none"
       /\ row' = [row EXCEPT ![p] = "pending"]
       /\ amt' = [amt EXCEPT ![p] = minor]
       /\ pc'  = [pc  EXCEPT ![h] = l]
       /\ sub' = [sub EXCEPT ![h] = p]
       /\ Keep(h)
  \/ Done(h) /\ UNCHANGED <<row, amt>>

StartInsert(h) ==
  /\ At(h, "insert")
  /\ InsertRow(h, "checkout", Amount - mem[h].paid)
  /\ UNCHANGED <<app, moved, reqStatus, reqPaid, ref, age, timeline, tasks,
                 gateway, crashes>>

CheckoutOpened(h) ==
  /\ At(h, "checkout")
  /\ gateway' = [gateway EXCEPT ![sub[h]] = "open"]
  /\ Goto(h, "launch") /\ Keep(h)
  /\ UNCHANGED <<db, crashes>>

CheckoutRefused(h) ==
  /\ At(h, "checkout")
  /\ row' = [row EXCEPT ![sub[h]] = "failed"]
  /\ Done(h)
  /\ UNCHANGED <<app, moved, reqStatus, reqPaid, amt, ref, age, timeline,
                 tasks, gateway, crashes>>

\* Still pending, or not at all.
Launch(h) ==
  /\ At(h, "launch")
  /\ IF row[sub[h]] = "pending"
     THEN /\ row' = [row EXCEPT ![sub[h]] = "processing"]
          /\ ref' = [ref EXCEPT ![sub[h]] = TRUE]
          /\ Goto(h, "markRequest") /\ Keep(h)
     ELSE Done(h) /\ UNCHANGED <<row, ref>>
  /\ UNCHANGED <<app, moved, reqStatus, reqPaid, amt, age, timeline, tasks,
                 gateway, crashes>>

MarkRequest(h) ==
  /\ At(h, "markRequest")
  /\ reqStatus' = IF reqStatus \in Payable THEN "processing" ELSE reqStatus
  /\ Goto(h, "announce") /\ Keep(h)
  /\ UNCHANGED <<app, moved, reqPaid, row, amt, ref, age, timeline, tasks,
                 gateway, crashes>>

\* Only a commit that goes through sends the parent on to the gateway's page.
Announce(h) ==
  /\ At(h, "announce")
  /\ IF app = "payment_required"
     THEN /\ app' = "payment_processing"
          /\ gateway' = [gateway EXCEPT ![sub[h]] = "visited"]
     ELSE UNCHANGED <<app, gateway>>
  /\ Done(h)
  /\ UNCHANGED <<moved, reqStatus, reqPaid, row, amt, ref, age, timeline,
                 tasks, crashes>>

-----------------------------------------------------------------------------
(* Asking the gateway: payments/reconcile.ts reconcilePayment, called by the *)
(* return page, Check again, the webhook, the verify job, staff and the sweep.*)

Revivable == {"failed", "expired"}

Reconcile(h, p, revive) ==
  /\ ref[p]
  /\ row[p] = "processing" \/ (revive /\ row[p] \in Revivable)
  /\ Begin(h, "ask", p, Fresh(row[p] \in Revivable, "payment_required", "pending"))
  /\ UNCHANGED <<db, gateway, crashes>>

\* Mutant: an attempt given up on is not asked about again.
SweepProcessingOnly(h, p) ==
  /\ row[p] = "processing"
  /\ Reconcile(h, p, FALSE)

\* The cron asks about every attempt in flight, and for a day about every one
\* it gave up on.
Sweep(h, p) ==
  /\ row[p] = "processing" \/ (row[p] = "expired" /\ age[p] # "over")
  /\ Reconcile(h, p, row[p] = "expired")

VerifyAnswer(p) ==
  IF gateway[p] \in {"none", "open", "visited"} THEN "pending" ELSE gateway[p]

\* Any answer after our window may be the last one within the gateway's day.
Ask(h) ==
  /\ At(h, "ask")
  /\ Hold(h, "ans", VerifyAnswer(sub[h]))
  /\ \/ UNCHANGED age
     \/ DayEnds /\ age[sub[h]] = "late" /\ age' = [age EXCEPT ![sub[h]] = "over"]
  /\ Goto(h, "readRequest")
  /\ UNCHANGED <<app, moved, reqStatus, reqPaid, row, amt, ref, timeline, tasks,
                 gateway, crashes>>

VerifyThrows(h) ==
  /\ At(h, "ask")
  /\ Done(h)
  /\ UNCHANGED <<db, gateway, crashes>>

\* Past our own window a pending answer is an expiry, unless we are reviving.
ReadRequest(h) ==
  /\ At(h, "readRequest")
  /\ LET gaveUp == mem[h].ans = "pending" /\ ~mem[h].revive /\ age[sub[h]] # "ours" IN
       mem' = [mem EXCEPT ![h] =
                 [revive |-> @.revive, paid |-> reqPaid, app |-> @.app,
                  ans |-> IF gaveUp THEN "expired" ELSE @.ans, tries |-> @.tries]]
  /\ Goto(h, "readApp")
  /\ UNCHANGED <<db, gateway, crashes>>

\* A revived row already failed: only news of money is acted on.
ReadApp(h) ==
  /\ At(h, "readApp")
  /\ \/ mem[h].ans = "paid" /\ Goto(h, "claim") /\ Hold(h, "app", app)
     \/ /\ \/ mem[h].ans = "wrong"
           \/ mem[h].ans \in {"declined", "expired"} /\ ~mem[h].revive
        /\ Goto(h, "fail") /\ Hold(h, "app", app)
     \/ /\ \/ mem[h].ans = "pending"
           \/ mem[h].ans \in {"declined", "expired"} /\ mem[h].revive
        /\ Done(h)
  /\ UNCHANGED <<db, gateway, crashes>>
-----------------------------------------------------------------------------
(* onPaymentVerified: money that arrived, from the gateway or a receipt.     *)

\* Mutant: the row is updated by id alone.
ClaimRowById(h) ==
  /\ At(h, "claim")
  /\ row' = [row EXCEPT ![sub[h]] = "succeeded"]
  /\ Goto(h, "credit") /\ Keep(h)
  /\ UNCHANGED <<app, moved, reqStatus, reqPaid, amt, ref, age, timeline,
                 tasks, gateway, crashes>>

ClaimRow(h) ==
  /\ At(h, "claim")
  /\ IF row[sub[h]] # "succeeded"
     THEN /\ row' = [row EXCEPT ![sub[h]] = "succeeded"]
          /\ Goto(h, "credit") /\ Keep(h)
     ELSE Done(h) /\ UNCHANGED row
  /\ UNCHANGED <<app, moved, reqStatus, reqPaid, amt, ref, age, timeline,
                 tasks, gateway, crashes>>

\* Mutant: any money settles the request.
CreditInFull(h) ==
  /\ At(h, "credit")
  /\ reqPaid' = mem[h].paid + amt[sub[h]]
  /\ reqStatus' = "paid"
  /\ Goto(h, "settle")
  /\ Keep(h)
  /\ UNCHANGED <<app, moved, row, amt, ref, age, timeline, tasks, gateway, crashes>>

\* Mutant: the balance is set as if each payment were for the whole amount.
CreditWhole(h) ==
  /\ At(h, "credit")
  /\ reqPaid' = mem[h].paid + Amount
  /\ reqStatus' = "paid"
  /\ Goto(h, "settle")
  /\ Keep(h)
  /\ UNCHANGED <<app, moved, row, amt, ref, age, timeline, tasks, gateway, crashes>>

\* The new balance is computed from the caller's copy of the request.
Credit(h) ==
  /\ At(h, "credit")
  /\ LET paid == mem[h].paid + amt[sub[h]] IN
       /\ reqPaid' = paid
       /\ reqStatus' = IF paid >= Amount THEN "paid" ELSE "partially_paid"
       /\ Goto(h, IF paid >= Amount THEN "settle" ELSE "partial")
  /\ Keep(h)
  /\ UNCHANGED <<app, moved, row, amt, ref, age, timeline, tasks, gateway, crashes>>

FilePartial(h) ==
  /\ At(h, "partial")
  /\ File(h, "partial")
  /\ tasks' = tasks \cup {"payment_shortfall"}
  /\ Done(h)
  /\ UNCHANGED <<app, moved, reqStatus, reqPaid, row, amt, ref, age, gateway, crashes>>

ReadStatus(h) ==
  /\ At(h, "settle")
  /\ Goto(h, "file") /\ Hold(h, "app", app)
  /\ UNCHANGED <<db, gateway, crashes>>

FirstSettlement(h) == mem[h].paid < Amount

FileAfterMove(h) ==
  /\ FirstSettlement(h) /\ mem[h].app \in MovedPastPayment /\ moved
  /\ File(h, "confirmed")
  /\ tasks' = tasks \ {"payment_review", "payment_shortfall"}
  /\ Done(h)
  /\ UNCHANGED app

FileUnexpected(h) ==
  /\ ~(FirstSettlement(h) /\ mem[h].app \in MovedPastPayment /\ moved)
  /\ mem[h].app \notin AwaitsMoney
  /\ File(h, "unexpected")
  /\ tasks' = tasks \cup {"payment_refund_review"}
  /\ Done(h)
  /\ UNCHANGED app

\* Mutant: the commit does not expect the status it read.
CommitPaidBlind(h) ==
  /\ mem[h].app \in AwaitsMoney
  /\ app' = "paid"
  /\ File(h, "confirmed")
  /\ tasks' = tasks \ {"payment_review", "payment_shortfall"}
  /\ Goto(h, "openRegistration") /\ Keep(h)

CommitPaid(h) ==
  /\ mem[h].app \in AwaitsMoney
  /\ app = mem[h].app
  /\ app' = "paid"
  /\ File(h, "confirmed")
  /\ tasks' = tasks \ {"payment_review", "payment_shortfall"}
  /\ Goto(h, "openRegistration") /\ Keep(h)

\* Mutant: a conflict ends the settlement, as it did when the status was read once.
CommitConflictThrows(h) ==
  /\ mem[h].app \in AwaitsMoney
  /\ app # mem[h].app
  /\ Done(h)
  /\ UNCHANGED <<app, timeline, tasks>>

\* status_conflict: the status moved since it was read.
CommitConflict(h) ==
  /\ mem[h].app \in AwaitsMoney
  /\ app # mem[h].app
  /\ IF mem[h].tries < SettleAttempts
     THEN Goto(h, "settle") /\ Hold(h, "tries", mem[h].tries + 1)
     ELSE Done(h)
  /\ UNCHANGED <<app, timeline, tasks>>

Settle(h) ==
  /\ At(h, "file")
  /\ \/ FileAfterMove(h) \/ FileUnexpected(h)
     \/ CommitPaid(h) \/ CommitConflict(h)
  /\ UNCHANGED <<moved, reqStatus, reqPaid, row, amt, ref, age, gateway, crashes>>

OpenRegistration(h) ==
  /\ At(h, "openRegistration")
  /\ app' = IF app = "paid" THEN "registration_incomplete" ELSE app
  /\ Done(h)
  /\ UNCHANGED <<moved, reqStatus, reqPaid, row, amt, ref, age, timeline,
                 tasks, gateway, crashes>>

-----------------------------------------------------------------------------
(* onPaymentFailed: the gateway said no, or never said yes in time.          *)

ClaimFailure(h) ==
  /\ At(h, "fail")
  /\ IF row[sub[h]] \in {"pending", "processing"}
     THEN /\ row' = [row EXCEPT ![sub[h]] =
                       IF mem[h].ans = "expired" THEN "expired" ELSE "failed"]
          /\ Goto(h, "reopen") /\ Keep(h)
     ELSE /\ IF mem[h].ans = "wrong" THEN Goto(h, "review") /\ Keep(h) ELSE Done(h)
          /\ UNCHANGED row
  /\ UNCHANGED <<app, moved, reqStatus, reqPaid, amt, ref, age, timeline,
                 tasks, gateway, crashes>>

\* A wrong amount on an attempt already given up on is still news.
FileReview(h) ==
  /\ At(h, "review")
  /\ tasks' = tasks \cup {"payment_review"}
  /\ Done(h)
  /\ UNCHANGED <<app, moved, reqStatus, reqPaid, row, amt, ref, age, timeline,
                 gateway, crashes>>

ReopenRequest(h) ==
  /\ At(h, "reopen")
  /\ reqStatus' = IF reqStatus = "processing" THEN "failed" ELSE reqStatus
  /\ Goto(h, "demote") /\ Keep(h)
  /\ UNCHANGED <<app, moved, reqPaid, row, amt, ref, age, timeline, tasks,
                 gateway, crashes>>

\* The caller's copy decides whether the application moves; the commit is
\* refused, with its tasks, when the status is no longer that copy.
Demote(h) ==
  /\ At(h, "demote")
  /\ LET conflict == mem[h].app = "payment_processing" /\ app # "payment_processing" IN
       /\ app' = IF mem[h].app = "payment_processing" /\ ~conflict
                 THEN "payment_required" ELSE app
       /\ tasks' = IF mem[h].ans = "wrong" /\ ~conflict
                   THEN tasks \cup {"payment_review"} ELSE tasks
  /\ Done(h)
  /\ UNCHANGED <<moved, reqStatus, reqPaid, row, amt, ref, age, timeline,
                 gateway, crashes>>
-----------------------------------------------------------------------------
(* Finance, at the desk: staff/(console)/payments/actions.ts.                *)

RecordEft(h) ==
  /\ Begin(h, "eftRequest", "none", Fresh(FALSE, app, "pending"))
  /\ UNCHANGED <<db, gateway, crashes>>

EftReadRequest(h) ==
  /\ At(h, "eftRequest")
  /\ IF reqStatus \in OpenRequest /\ reqPaid < Amount
     THEN Goto(h, "eftInsert") /\ Hold(h, "paid", reqPaid)
     ELSE Done(h)
  /\ UNCHANGED <<db, gateway, crashes>>

\* Never more than was outstanding on the copy of the request.
EftInsert(h) ==
  /\ At(h, "eftInsert")
  /\ \E minor \in 1 .. (Amount - mem[h].paid) : InsertRow(h, "claim", minor)
  /\ UNCHANGED <<app, moved, reqStatus, reqPaid, ref, age, timeline, tasks,
                 gateway, crashes>>

\* markNotCompleted: the timer's own move, as a button.
GiveUp(h) ==
  /\ Begin(h, "giveUp", "none", Fresh(FALSE, app, "expired"))
  /\ UNCHANGED <<db, gateway, crashes>>

GiveUpReadRow(h) ==
  /\ At(h, "giveUp")
  /\ \/ \E p \in Payments :
          /\ row[p] = "processing" /\ ref[p]
          /\ pc' = [pc EXCEPT ![h] = "fail"]
          /\ sub' = [sub EXCEPT ![h] = p]
          /\ Keep(h)
     \/ Done(h)
  /\ UNCHANGED <<db, gateway, crashes>>

Quiet == \A g \in Handlers : At(g, "idle")

RecordRefund(h, p) ==
  /\ Refunds = "racing" \/ (Refunds = "settled" /\ Quiet)
  /\ row[p] = "succeeded"
  /\ Begin(h, "refund", p, Blank)
  /\ UNCHANGED <<db, gateway, crashes>>

\* Guarded by status, but nothing asks whether the guard held.
RefundRow(h) ==
  /\ At(h, "refund")
  /\ row' = [row EXCEPT ![sub[h]] = IF @ = "succeeded" THEN "refunded" ELSE @]
  /\ Goto(h, "refundRead") /\ Keep(h)
  /\ UNCHANGED <<app, moved, reqStatus, reqPaid, amt, ref, age, timeline,
                 tasks, gateway, crashes>>

RefundReadRequest(h) ==
  /\ At(h, "refundRead")
  /\ Goto(h, "refundRequest") /\ Hold(h, "paid", reqPaid)
  /\ UNCHANGED <<db, gateway, crashes>>

RefundRequest(h) ==
  /\ At(h, "refundRequest")
  /\ LET less == mem[h].paid - amt[sub[h]]
         paid == IF less > 0 THEN less ELSE 0 IN
       /\ reqPaid' = paid
       /\ reqStatus' = IF paid >= Amount THEN "paid"
                       ELSE IF paid > 0 THEN "partially_paid" ELSE "refunded"
  /\ Done(h)
  /\ UNCHANGED <<app, moved, row, amt, ref, age, timeline, tasks, gateway, crashes>>

-----------------------------------------------------------------------------
(* onWithdrawn (workflow/actions.ts), the statements that concern money:     *)
(* everything is closed first and the status committed last.                 *)

Withdraw(h) ==
  /\ Withdrawals /\ app # "withdrawn"
  /\ Begin(h, "closeRequest", "none", Fresh(FALSE, app, "pending"))
  /\ UNCHANGED <<db, gateway, crashes>>

CloseRequest(h) ==
  /\ At(h, "closeRequest")
  /\ reqStatus' = IF reqStatus \in OpenRequest THEN "cancelled" ELSE reqStatus
  /\ Goto(h, "expirePending") /\ Keep(h)
  /\ UNCHANGED <<app, moved, reqPaid, row, amt, ref, age, timeline, tasks,
                 gateway, crashes>>

\* Mutant: a checkout is closed as a request is.
PendingCancelled == [p \in Payments |-> IF row[p] = "pending" THEN "cancelled" ELSE row[p]]

PendingExpired == [p \in Payments |-> IF row[p] = "pending" THEN "expired" ELSE row[p]]

ExpirePending(h) ==
  /\ At(h, "expirePending")
  /\ row' = PendingExpired
  /\ Goto(h, "cancelTasks") /\ Keep(h)
  /\ UNCHANGED <<app, moved, reqStatus, reqPaid, amt, ref, age, timeline,
                 tasks, gateway, crashes>>

CancelTasks(h) ==
  /\ At(h, "cancelTasks")
  /\ tasks' = {}
  /\ Goto(h, "withdraw") /\ Keep(h)
  /\ UNCHANGED <<app, moved, reqStatus, reqPaid, row, amt, ref, age, timeline,
                 gateway, crashes>>

CommitWithdrawn(h) ==
  /\ At(h, "withdraw")
  /\ app' = IF app = mem[h].app THEN "withdrawn" ELSE app
  /\ Done(h)
  /\ UNCHANGED <<moved, reqStatus, reqPaid, row, amt, ref, age, timeline,
                 tasks, gateway, crashes>>

-----------------------------------------------------------------------------
(* toRegistration (workflow/stage-move-actions.ts): an officer opens the     *)
(* registration of a child who waits for payment.                            *)

\* ans is "paid" when the officer ticks that the family says it has paid.
MoveToRegistration(h, alreadyPaid) ==
  /\ StageMoves
  /\ app = "payment_required"
  /\ Begin(h, IF alreadyPaid THEN "moveExpire" ELSE "moveClose", "none", Blank)
  /\ UNCHANGED <<db, gateway, crashes>>

MoveClose(h) ==
  /\ At(h, "moveClose")
  /\ reqStatus' = IF reqStatus \in {"required", "failed"} THEN "cancelled" ELSE reqStatus
  /\ Goto(h, "moveExpire") /\ Keep(h)
  /\ UNCHANGED <<app, moved, reqPaid, row, amt, ref, age, timeline, tasks,
                 gateway, crashes>>

MoveExpire(h) ==
  /\ At(h, "moveExpire")
  /\ row' = PendingExpired
  /\ Goto(h, "move") /\ Keep(h)
  /\ UNCHANGED <<app, moved, reqStatus, reqPaid, amt, ref, age, timeline,
                 tasks, gateway, crashes>>

CommitMove(h) ==
  /\ At(h, "move")
  /\ IF app = "payment_required"
     THEN app' = "registration_incomplete" /\ moved' = TRUE
     ELSE UNCHANGED <<app, moved>>
  /\ Done(h)
  /\ UNCHANGED <<reqStatus, reqPaid, row, amt, ref, age, timeline, tasks,
                 gateway, crashes>>

-----------------------------------------------------------------------------
(* The world: the gateway and the parent on its page, time, the platform.    *)

\* An answer the gateway gives once the parent has seen its page; a checkout
\* nobody finishes expires there too.
GatewayDecides(p) ==
  /\ \/ gateway[p] = "visited" /\ \E a \in Answer \ {"pending"} : gateway' = [gateway EXCEPT ![p] = a]
     \/ gateway[p] = "open" /\ age[p] # "ours" /\ gateway' = [gateway EXCEPT ![p] = "expired"]
  /\ UNCHANGED <<db, pc, sub, mem, crashes>>

\* The window is minutes and an invocation lives for less: it closes only
\* once the invocation that opened the checkout is over.
WindowCloses(p) ==
  /\ row[p] = "processing" /\ age[p] = "ours"
  /\ \A h \in Handlers : ~(sub[h] = p /\ pc[h] \in {"markRequest", "announce"})
  /\ age' = [age EXCEPT ![p] = "late"]
  /\ UNCHANGED <<app, moved, reqStatus, reqPaid, row, amt, ref, timeline, tasks,
                 gateway, pc, sub, mem, crashes>>

Crash(h) ==
  /\ ~At(h, "idle") /\ crashes < MaxCrashes
  /\ crashes' = crashes + 1
  /\ Done(h)
  /\ UNCHANGED <<db, gateway>>

-----------------------------------------------------------------------------
Statement(h) ==
  \/ StartReadRequest(h) \/ StartInsert(h) \/ CheckoutOpened(h)
  \/ CheckoutRefused(h) \/ Launch(h) \/ MarkRequest(h) \/ Announce(h)
  \/ Ask(h) \/ ReadRequest(h) \/ ReadApp(h)
  \/ ClaimRow(h) \/ Credit(h) \/ FilePartial(h) \/ ReadStatus(h) \/ Settle(h)
  \/ OpenRegistration(h)
  \/ ClaimFailure(h) \/ FileReview(h) \/ ReopenRequest(h) \/ Demote(h)
  \/ EftReadRequest(h) \/ EftInsert(h) \/ GiveUpReadRow(h)
  \/ RefundRow(h) \/ RefundReadRequest(h) \/ RefundRequest(h)
  \/ CloseRequest(h) \/ ExpirePending(h) \/ CancelTasks(h) \/ CommitWithdrawn(h)
  \/ MoveClose(h) \/ MoveExpire(h) \/ CommitMove(h)

Call(h) ==
  \/ StartPayment(h) \/ RecordEft(h) \/ GiveUp(h) \/ Withdraw(h)
  \/ \E p \in Payments :
       \/ \E revive \in BOOLEAN : Reconcile(h, p, revive)
       \/ RecordRefund(h, p)
  \/ \E alreadyPaid \in BOOLEAN : MoveToRegistration(h, alreadyPaid)

World ==
  \/ \E p \in Payments : GatewayDecides(p) \/ WindowCloses(p)
  \/ \E h \in Handlers : Crash(h)

Next ==
  \/ \E h \in Handlers : Call(h) \/ Statement(h) \/ VerifyThrows(h)
  \/ World

Spec == Init /\ [][Next]_vars

\* Invocations run to their end; the gateway is not down for ever, nor for the
\* rest of an attempt's day; the cron keeps asking while it has a question to
\* ask; our window closes.  Nothing obliges a parent to finish paying.
Fairness ==
  /\ \A h \in Handlers : WF_vars(Statement(h))
  /\ \A p \in Payments :
       /\ SF_vars(\E h \in Handlers : sub[h] = p /\ Ask(h))
       /\ SF_vars(\E h \in Handlers : Sweep(h, p))
       /\ WF_vars(WindowCloses(p))

FairSpec == Spec /\ Fairness

-----------------------------------------------------------------------------
Mem == [revive : BOOLEAN, paid : Nat, app : AppStatus, ans : Answer, tries : Nat]

\* Every row, event, task and copy has a status the code writes there.
TypeOK ==
  /\ app \in AppStatus /\ moved \in BOOLEAN
  /\ reqStatus \in ReqStatus /\ reqPaid \in Nat
  /\ row \in [Payments -> RowStatus] /\ amt \in [Payments -> Nat]
  /\ ref \in [Payments -> BOOLEAN] /\ age \in [Payments -> Age]
  /\ timeline \in [Payments -> SUBSET Filed] /\ tasks \subseteq Money
  /\ gateway \in [Payments -> Answer \cup {"none", "open", "visited"}]
  /\ pc \in [Handlers -> PC] /\ sub \in [Handlers -> Payments \cup {"none"}]
  /\ mem \in [Handlers -> Mem] /\ crashes \in Nat

\* The statements between winning a row and filing it.
Unfiled == {"credit", "partial", "settle", "file"}
Settling == Unfiled \cup {"openRegistration"}
Received(p) == row[p] \in {"succeeded", "refunded"}

\* "A verify that arrives twice settles once" (onPaymentVerified): however
\* many invocations ask about one payment, one of them files it, once.
SettlesOnce ==
  /\ \A p \in Payments : Cardinality(timeline[p]) <= 1
  /\ \A g, h \in Handlers :
       pc[g] \in Settling /\ pc[h] \in Settling /\ sub[g] = sub[h] => g = h

\* payment.confirmed is emitted at most once for the request, whichever of
\* two payments landing together gets there first (header of payment-actions).
ConfirmedOnce ==
  \A p, q \in Payments :
    "confirmed" \in timeline[p] /\ "confirmed" \in timeline[q] => p = q

\* Nobody who won a row stops before saying what became of the money, even
\* when the commit met a status that moved: part payment, confirmation or
\* refund review.  (An invocation killed half-way is the other runs' subject.)
EveryReceiptFiled ==
  \A p \in Payments :
    Received(p) /\ timeline[p] = {} =>
      \E h \in Handlers : sub[h] = p /\ pc[h] \in Unfiled

Held     == {p \in Payments : row[p] = "succeeded"}
EverHeld == {p \in Payments : Received(p)}
Sum(S)   == SumFunctionOnSet(amt, S)

\* An application leaves payment for registration by the system's own hand
\* only when money for the whole request was received, in however many
\* payments and whatever copies of the request the handlers added up from.
RegistrationIsPaid ==
  app \in {"paid", "registration_incomplete"} /\ ~moved => Sum(EverHeld) >= Amount

\* paid_minor may lag behind the receipts, never run ahead of them.
LedgerNotOverstated == reqPaid <= Sum(Held)

\* The handlers together keep the promise of Receipts: a payment received is
\* filed once, and neither it nor the place it confirmed is taken back by a
\* failure, an expiry or a give-up that comes late (onPaymentFailed).
Place ==
  CASE app \in AwaitsMoney -> "waiting"
    [] app = "withdrawn"   -> "elsewhere"
    [] OTHER               -> "confirmed"

Promise == INSTANCE Receipts WITH received <- EverHeld, filed <- timeline, place <- Place
KeepsPromise == Promise!RSpec
=============================================================================
