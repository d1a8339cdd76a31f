# A verification project for the Hibiscus admissions platform

The platform takes a child from an enquiry to an enrolled pupil: appointments,
assessments, a decision, an offer letter, a payment, a registration file. It
is a Next.js application over PostgreSQL (Supabase). Everything that changes
state is a *handler* in `web/lib`: an ordinary asynchronous function that a page
action, a webhook, a staff button or the job drain calls inside one serverless
invocation.

Four facts about that environment make the code hard to test, and shape every
module here.

1. **No transaction spans two statements.** Supabase runs each `select`,
   `update` or `rpc` by itself. A handler reads, writes row by row, and commits
   the application's status last, with `commit_transition`: a compare-and-set
   on `applications.status` that also writes the event, the tasks and the jobs.
   Whatever another invocation does between two statements, it may do.
2. **Copies go stale.** A handler passes the rows it read at the start to
   everything it calls. Some later statements check them again
   (`update ... where status = ...`), some go by id.
3. **Invocations die.** The platform kills one after its `maxDuration`, or with
   its instance, between any two statements. Nothing is rolled back.
4. **Everybody calls everything twice.** Webhook, browser, cron and staff all
   ask about one payment; a drain reclaims a job whose worker may have finished;
   the parent's link is clicked again.

So an invocation is modelled as a program counter, the rows it holds (`mem`), the
row it is about (`sub`), and **one action per database statement or external
call**. Tables are shared variables. Two invocations interleave at every
statement.

## Inventory

| Component | State it keeps | Operations | Where |
|---|---|---|---|
| Workflow engine | `applications.status`, events, tasks | `commit_transition`, `enqueueJobs`, the status graph and its override edges | `web/lib/workflow/engine.ts`, `states.ts`, `20260904120800_workflow_engine.sql` |
| Payments | `payment_requests`, `payments`, the gateway's session | start, verify, settle, fail, EFT, give up, refund, sweep | `web/lib/payments`, `workflow/payment-actions.ts` |
| Offers | `offers`, `offer_acceptances`, the request an acceptance raises | draft, approve, view, expire, withdraw, accept, decline, move the closing date | `workflow/offer-actions.ts`, `deadline-actions.ts`, `handlers/offers.ts` |
| Stage moves | none of its own: drives the others | to Decision, Offer, Payment, Registration | `workflow/stage-move.ts`, `stage-move-actions.ts` |
| Job outbox and drain | `jobs` | enqueue, claim, run, retry, reclaim, administrator's retry | `20260904120600_jobs.sql`, `workflow/jobs.ts`, `handlers` |
| Email and messaging | `messages`, delivery reports, inbound | send, companion send, receipts, opt-out | `lib/email`, `lib/messaging` |
| Bookings | `sessions`, `bookings` | book, reschedule, cancel, check in, no-show | `workflow/actions.ts`, `20260914110000_*.sql` |
| Applications | the row, its deferral and withdrawal | enquiry, defer, end the deferral, withdraw, call back | `workflow/actions.ts` |
| Assessment | `assessment_attempts`, responses, kiosk codes | launch, start, respond, hand in, mark | `lib/assessment`, `workflow/assessment-actions.ts` |
| Decisions | `admission_decisions`, the rules | rule decision, staff decision, the outcome sent | `workflow/decision-actions.ts`, `lib/rules` |
| Registration, enrolment | forms, documents, flags, students, export | save, upload, review, read, submit, enrol | `workflow/registration-actions.ts`, `enrolment-actions.ts`, `lib/enrolment`, `lib/documents` |
| Event tickets | orders, tickets, capacity | order, settle, fail, release, resend, check in | `lib/events`, `20261022100000_event_tickets.sql` |
| Extras | requests, catalogue | ask, settle | `lib/extras` |
| CRM | families, campaigns, opportunities | import, merge, campaign approval and send | `lib/crm` |
| Tokens, rate limits | link tokens, counters | issue, consume, count | `lib/tokens`, `lib/rate-limit.ts` |
| Automation | schedules | waitlist, onboarding, re-enrolment, retention sweeps | `workflow/automation` |
| Documents, AI, PDF; analytics; pages | none that others depend on | calls to services, queries, rendering | `lib/documents`, `lib/ai`, `lib/analytics`, `app`, `components` |

How they interact: every handler commits through the engine, which queues jobs
in the same statement; the drain runs jobs, some of which are handlers again
(`payment_verify`, `offer_expire`, `draft_offer`) and some of which write to the
parent; an accepted offer raises a payment request; a settled request opens the
registration; a stage move and a withdrawal reach into offers, payments,
bookings and jobs and close whatever is open there.

What makes each correct:

- **Payments.** A payment settles once, whoever asks. The confirmation is emitted
  once per request. Money that arrived is filed: as part, as the confirmation or
  for a refund. The registration opens only for the full amount. The ledger
  never claims more than arrived.
- **Jobs.** A job has one live worker, and ends. A parent gets at most one
  WhatsApp a moment. A job marked done did its work, the companion included.
- **Offers.** A letter is answered once. A family asked to pay has the letter
  and the request. A request outlives no acceptance. A letter that is out lapses,
  or is answered, or is withdrawn.
- **Bookings.** A session is never overfull. A booking ends one of two ways and
  never both. A booking that stands was recorded. A paper handed in is marked,
  and a child is decided on with a paper or an excuse.
- **Marking and decisions.** What a person decided stands, whatever the model or
  the rules come up with later. A paper handed in is never forgotten: somebody,
  or a job, has it next. Nor is a decision: the family's letter is sent, queued
  or somebody's to send. An attempt whose answers are all marked is complete.
- **Event tickets.** Places kept are never sold twice. No two orders share a
  number. The order, its request and its attempt tell one story. Money that
  became no tickets is still asked about.
- **Registration.** A document a family supplied stands, whatever is uploaded
  beside it. A child is put on the register once, and in full. A disagreement
  between a document and the form is in front of a person until it is answered.
- **Tokens** are consumed once. **Campaigns** are sent only after a second
  person's approval, once to each address. Neither is modelled yet.

`PROJECT.json` lists under `hazards` the lines where each of these can go wrong
in a way a test would hardly reach, and the properties that watch them.

## Modules

| Module | Models |
|---|---|
| `Payments` | everything that touches a payment request or a payment row |
| `Receipts` | what the payment code promises, abstractly |
| `Jobs` | the outbox, the drain and the two jobs that write to a parent |
| `Outbox` | what the outbox promises, abstractly |
| `Offers` | the letters of one application, from approval to the payment request |
| `Bookings` | places in sessions, from the booking to the sitting handed in |
| `Marking` | one paper, from the hand-in to the decision and its letter |
| `Registration` | one registration, from the first document to the enrolment |
| `Tickets` | the orders for one event, from the checkout to the tickets |
| `MCPayments`, `MCJobs`, `MCOffers`, `MCBookings`, `MCMarking`, `MCRegistration`, `MCTickets` | instances for TLC: symmetry, bounds and liveness properties of one instance |
| `PaymentsProofs`, `JobsProofs`, `OffersProofs`, `BookingsProofs`, `MarkingProofs`, `RegistrationProofs`, `TicketsProofs` | theorems |
| `Totals` | sums over finite sets, and what is provable about them |

### Payments

One application that has accepted its offer, one payment request, and the rows
in `Payments`. `app`, `reqStatus`, `reqPaid`, `row`, `amt` are the columns;
`ref` is "`provider_ref` is set", and `age` how far the attempt's time has run: within
our own window (`expires_at`), past it, past the last answer the sweep gets;
`timeline[p]` is the events that file payment `p`; `tasks` the open tasks about
money; `moved` the last `application.moved_to_stage` event. `gateway` is what
the gateway would answer: it is external, and decides for itself once the
parent has been sent to its page.

The actions follow the handlers: `StartPayment .. Announce` is
`startOnlinePayment`, `startCheckout` and `onPaymentStarted`; `Reconcile ..
ReadApp` is `reconcilePayment`, whoever calls it; `ClaimRow .. OpenRegistration`
is `onPaymentVerified` with its retry of a refused commit; `ClaimFailure ..
Demote` is `onPaymentFailed`; then finance's three buttons, the withdrawal and
the move to registration. The statement that decides a race is the update
guarded by `status <> 'succeeded'` (`ClaimRow`).

`Receipts` is the same component as finance thinks of it: payments are received
and each is filed once, as a part payment, as the one confirmation that moves
the application, or as money nobody was waiting for. `KeepsPromise`
says that `Payments` implements it: `received` is the rows that ever
succeeded, `filed` is the timeline, `place` is read off the application's
status.

Left out: settlements of nothing, which never reach the gateway and are in
`Offers`, and the moved due date, whose reminders are in `Jobs`. A first attempt is
due in 5 minutes or more and an invocation lives for at most one, so
`WindowCloses` waits for the invocation that opened the checkout. The cron asks
about an attempt in flight every few minutes, and about one it gave up on hourly,
for the 24 hours of the gateway's page: any answer after our window may be the last
one of that day (`Ask`, `DayEnds`), and from then on `Sweep` leaves an expired attempt
alone. Each sweep takes the 50 oldest attempts in flight and the 20 oldest given up
on; the model's has room for all.

### Jobs

`Moments` are the things a parent is written about. Each has an email job and
the `send_whatsapp` companion that `sendEmailHandler` queues. A drain claims
up to `Limit` jobs in one statement (`claim_jobs`), takes them one by one,
asks the precondition of the world as it is (`stands`), runs the handler, and
writes the outcome by id. The loop of six batches in `drainJobs` is claims in
succession. A drain that is killed leaves its jobs running until they are ten minutes
old; a drain lives for one minute, so `GoesStale` waits until nobody holds the job.

Both providers are external. Email passes the job's key as an idempotency key,
so a second request delivers nothing; WhatsApp has no such key, and the code
keys a `messages` row first. `onPaymentDeadlineMoved` rewrites pending reminders
one by one and puts back what it read if its commit is refused.

`Outbox` is the promise: a queued letter is delivered at most once, while its
job is open, and its job closes. Left out: the parent's opt-out and the
channel's switch, which only add ways to skip.

### Offers

Letters are numbered by `created_at`. `letter`, `past`, `opened`, `answer`,
`owed` and `sweep` are the letter's status, whether its closing date is behind
us, whether it was seen, the row in `offer_acceptances`, the payment request
raised for it and the pending `offer_expire` job. `call` is an invocation's
handler; a stage move runs the other handlers in turn and comes back to its own
loop (`Return`, `Reload`), so its letter may be drafted, approved in silence and
accepted by one invocation, and taken back when the acceptance fails (`Rescue`).

`FamilyPays` stands for `Payments` and `DecideAgain` for `onStaffDecision`, each as
one step. An acceptance with nothing to pay settles itself (`Credit`, `Settle`,
`OpenUp`): its request is "nothing" until it is "waived", it holds the open slot
like any other, but nobody can pay it, and a move back does not count it as money
held. `Settle` is one step where `onPaymentVerified` reads the status and commits
from it, up to three times; `Payments` has those statements. Left out: the deferral
of a child at Offer (it is a move to Decision first).

Two assumptions of the runs are explicit.
`Alone` lists the kinds of invocation that are never in flight beside another:
redrafting goes by id, and takes back a letter that was sent meanwhile, so the
runs ask what holds when nobody redrafts at the same moment. And the sweep is
due a minute after the closing date, which is longer than an invocation that
began before it lasts (`CallExpire`).

### Bookings

`Families` apply, `Rows` are their bookings in the order they are made, and a
session has `Capacity` places. `status`, `family`, `session`, `arrived` are the
booking's columns (`arrived` is "`checked_in_at` is set"); `attempt`,
`launches` and `coded` its last sitting, which sitting that is, and whether a
code was minted for it; `told[b]` and `notes[f]` those events of the timeline
that the code, or a property, asks about. A handler that finds the application
or the booking changed under it either asks (`update ... where status`) or does
not (`PutBack`, `Unmiss`, `Unlaunch` go by what was read), exactly as in the
code. `Sole` is what staff's `maybeSingle` returns, `Newest` what a parent's
page loads; the two differ for a family with a visit and an assessment.

`StartSitting`, `Mark`, `Decide` and `Close` are the world's: the child types
the code, the marking and the decision each happen in one step, a session
begins or is unpublished. A sitting starts whenever the attempt is ready, with the
code of its launch or with one issued again (`reissueCode` asks for no more), and staff
hand a paper in whatever became of it (`submitForChild`); the SQL function asks that it
is ready or under way. `LaunchFirst` is a hypothesis about the desk: between the
statement that makes an attempt and the commit that records its launch, nobody
begins or hands in that paper. The code on the launch's own screen comes after that
commit, so it takes a second officer, at another page, within one invocation. Left out: a
session's own edits (its capacity may be lowered below what is booked), two sittings of
one family told apart by more than the booking, callbacks and changes of grade.

### Marking

`Answers` are the written answers of one attempt; objective ones are marked the
same way every time and are left out. `mark`, `score`, `marking` are the
method of an answer's mark, the rows of `attempt_scores` and the attempt's
`marking_status`; a score is the set of answers whose marks it counts, and
`NoScore` the moment after `markAttempt` deleted the rows and before it
inserted them. `rows` are the decisions recorded; `decided` says what last brought the
application where it is (a history variable): the rules, an officer, a move back with a
task to decide again, or a move by hand that raises none. `job` are the jobs these
handlers queue, each under its key. A letter's key is the time, so each decision that
queues one takes an unused job of `Sends`, and `about` says which outcome it tells.

`AiRead .. AiMark` is the `ai_mark_response` job; `MarkWriting`, `Write` an
assessor's form, one answer a statement; `ReadResponses .. AssessmentMarked` is
`runMarking`, whoever calls it; `EvalAttempt .. EvalScores` is
`evaluateAndDecide`; `StaffDecision` and `ReadLatest` an officer's decision;
`Record` and `Decide` are `applyDecision`, for both; `ReadToSend .. Send` is
`onOutcomeSent`. A job that throws is queued again or has failed for good (`Throw`):
tries are not counted, so that any of them may be the last, and an error need not
be one that is retried. A failed or skipped job stands on the administrator's page, with a
button (`RetryJob`). A database error other than a refused commit is a killed
invocation, as far as this module can tell them apart.

The rest is what officers do to the child beside the paper. `MovedOn` takes the child on
to an offer, a payment or a registration, by hand or by the offer's own job; `MoveBack`
brings it back to Decision, with a task to decide again unless the family is pausing, or
`BackToOffer` to a draft, and `Tidy` then skips what is queued to be sent.
`Deferred`, `Withdrawn` and `ToDecision` pause, end and advance it. Each is one step
but the move back, whose commit and tidying are two. `TidyAlone` keeps a decision from
being committed between those two.

Left out: a grade changed, which sends the child back to book another paper; objective
items and answers with unusable keys, the learning profile, the suggestions to
assessors, the places left (another child's matter) and the trial week. The rules engine is its verdict (`Verdicts`), any outcome once there
are scores; a ruleset is taken to have a rule, as one without any approves a
child without scores.

### Registration

`docs` are the rows of `documents`, oldest first, with their requirement, whether
they were superseded (`aside`) and their review. `flags` is
`registrations.mismatch_flags`, `tasks` the open tasks these handlers raise,
`toRead` and `auto` the `document_extract` and `auto_enrol` jobs queued (one that throws
is queued again or has failed, `Again`),
`students` and `register` the child and the rest of what enrolment writes.

`Previous .. Link` is `recordDocument`, which sets the live document aside,
inserts the new one and puts the old one back if that fails; `Look`, `Uploaded` is
`onDocumentUploaded`; `WriteReview`, `Reviewed` an officer's review;
`ReadDocument .. DocumentExtracted` the reading and its flags; `SaveForm`,
`Saved` a save by the parent, which answers the flags, or at the desk, which
does not; `Bundle .. CompleteRegistration` handing in; `Papers ..
EnrolmentConfirmed` is `confirmEnrolment` with `promoteToStudent`. `MovedBack`
and `PaidAgain` take the child back to an offer and forward again. The
unique indexes are guards: one live document a requirement (`Insert`,
`Restore`), one student an application (`Promote`).

Left out: infected scans, the export, emails, the update of a child who is on
the register already, the onboarding checklist. One form stands for the five
sections that are not documents.

### Tickets

An order has one request and one attempt, so an order names all three: `order`,
`req`, `row`. `held` is "created less than a day ago", which is how long
`create_event_order` counts a pending order's places; `givenUp` is history: the
order's places went back on sale once. `numbers` and `next` are the tickets'
numbers and the event's counter.

`Place .. DropOrder` is the checkout, which may throw before the attempt's row, at the
gateway, or at the update that would send the buyer on (`CheckoutThrows`), and then
cancels its request and its order and leaves the attempt as it is;
`Reconcile .. Branch` the reconciliation it
shares with `Payments`, `Claim .. TellLate` is `onEventOrderPaid`, `Fail ..
FileReview` is `onEventPaymentFailed`. The two SQL functions, `Place` and `Issue`,
hold the event's row and are one action each.

Left out: the part payment (an order's attempt is always for the whole amount,
copied from it), staff edits of the capacity and of the price, check-in at the
gate, and the erasure of a buyer's name.

## Runs

All bounds are constants. Two invocations are enough for a race between two
statements, and the platform's own actions (time, the gateway, a killed
invocation) move beside them. Two payments are what it takes to complete a
request twice; two letters, to confuse an old letter with its replacement.
`Amount = 2` gives a part payment, an exact one and an excess. `SettleAttempts
= 3` is the code's own. A crash bound of one gives every placement of a killed
invocation, two give a job that is reclaimed and lost again. Invocations (and
payments) are symmetric in the safety runs, as nothing compares them; runs with
a liveness property use no symmetry.

| Run | Instance | Shows |
|---|---|---|
| `payments_two` | 2 payments, 2 invocations, 1 killed, withdrawals | `ConfirmedOnce`, `RegistrationIsPaid`, `LedgerNotOverstated`, and the refinement `KeepsPromise` |
| `payments_live` | 1 payment, 2 invocations, settled refunds, withdrawals, stage moves, a sweep whose day ends, fair | `SettlesOnce` and `EveryReceiptFiled` with staff at work beside the gateway; `TakenIsFiled`, with nobody's help, for what was taken before the sweep's last answer; the types |
| `jobs_one` | 1 moment, 2 drains, 2 killed, 1 retry by hand, fair | `OneRunner`, `DoneIsDelivered`, the refinement `KeepsOutbox`, and `EveryJobEnds` |
| `jobs_moved` | 1 moment, 2 drains, 1 killed, 1 retry, 1 moved deadline | `MessagedOnce`, and the types |
| `offers_answer` | 2 letters, 2 invocations, 1 killed, drafting alone | `AnsweredOnce`, `PaymentIsBilled`, `BilledWhileOwed`, and the types |
| `offers_out` | 2 letters, 2 invocations, drafting, answers and families leaving alone, fair | `SentWillLapse`, `SentEnds` |
| `bookings_seats` | 2 families, 3 bookings, 1 session of 1 place that may close, 2 invocations, 1 killed, moves and no-shows alone | `NeverOverfull`, `BookedIsRecorded` |
| `bookings_sit` | 1 family, 2 bookings, a sitting and a visit, 2 launches, places for all, 2 invocations; booking, abandoning, skipping, deferring and withdrawing alone; no paper begun or handed in before its launch is recorded | `NeverBothEnds`, `HandedInIsMarked`, `DecidedOnPaper`, `AtKeyboard`, and the types |
| `tickets` | a stall of 2 people and 1 ticket, 2 places, 1 stall, 2 invocations, 1 killed | `NeverOversold`, `NumbersNeverShared`, `RowsAgree`, `TakenIsSought`, and the types |
| `marking` | 2 answers, 2 letters, 2 invocations, 2 clicks, moves or kills in all; no decision committed while a move back tidies | `MarkingGoesOn`, `DecisionGoesOn`, `PersonStands`, and the types |
| `registration` | 2 kinds of document of which 1 is required, 2 documents, 2 invocations, 3 clicks, moves or kills in all; readings alone | `DocumentStands`, `EnrolledOnRegister`, `FlagsHaveTask`, and the types |

The largest are `registration` and `payments_two` (5 million states each), `marking`
(4.7 million) and `tickets` (4 million), about two minutes each.

`jobs_one` moves no deadline: the undo of a refused move queues again what the
drain has done, and two drains may then hold it. `offers_out`
keeps an answer from being in flight beside a moved closing date: one that
straddles an expiry and a reopening takes the letter and leaves the application
at `offer_sent`. It also keeps a family's leaving away from an approval,
leaves out staff's withdrawal of a letter, and kills nothing. The offer runs do not check for deadlock: an application that is
declined, paid for or withdrawn is finished. Nor do the bookings runs: a family
that has withdrawn, or was decided on, may have nothing left to do. Nor do
`tickets`, `marking` and `registration`: orders are paid or off, a decision has
been sent, a child is enrolled, and the bounds on clicks are spent.

One place and two families is the smallest session that can be overfull, and a
third booking lets a family move while the other books. `Settled` properties
speak of moments when nobody is at work and nobody was killed: in between they
are meant to fail; so are the properties of the last three modules that begin with
`Quiet`. `bookings_sit` has a visit so that the two kinds of booking
meet under one application, and two launches so that a paper of an abandoned
sitting meets its successor.

The stall in `tickets` is for two people and the other order for one, so that the
two do not fit together and an order of more than one number is issued. Two
answers are what it takes for the last mark to arrive beside another, and two letters for
a child to be told again after a move back. Two
documents let an upload replace one, and two uploads, of one
requirement or of two, meet at every statement. `marking` and
`registration` bound the clicks, the moves and the kills together (`MaxTroubles`):
which of them happen, and when, is free, but that no invocation is killed where
the child is moved back. Nor do sales close, or the sweep's day end, in `tickets` once
an invocation was killed (`OneTrouble`): both only take steps away. The parent's
page (`onOfferViewed`) is in `offers_out`, and left out of `offers_answer`, where it would only
double the states: an answer takes a letter seen or not.

### Fairness

An invocation that is not killed runs to its end (`WF` on its statements). Time
passes (`WF` on windows closing, jobs coming due, closing dates). The cron
calls the drain and the sweeps every minute for ever, so what is due again and
again is picked up (`SF`, because another invocation may take its place in
between). The gateway is not down for ever, nor for the whole of the day in
which the sweep asks about an attempt (`SF` on `Ask`: only an answer ends that day). Nothing obliges a
parent to finish paying, to answer, or staff to do anything.

### What the runs refute

One run checks a statement the repository makes, and TLC finds a behaviour of the
code that contradicts it. `PROJECT.json` quotes it under `findings`.

| Run | Statement that fails | Because |
|---|---|---|
| `marking_race` | the attempt completes when the last mark lands (`LastMarkCompletes`) | a run of marking writes `marking_status` by id from what it read first, so one that read before the last mark may write "awaiting rubric" over "complete", by id; the decision then has no complete attempt to evaluate, and no marking job is left, queued or failed, that would read again |

### What the runs leave out, and what it would break

The constants of the passing runs keep some interleavings apart, and properties
that begin with `Settled` or `Quiet` set killed invocations aside. What TLC finds
when they are let in, and what reading beside the model shows:

Payments and jobs.

- `StageMoves` in `payments_two`: `ConfirmedOnce` fails. After a move to
  registration the caller's copy of the request decides who was first
  (`payment-actions.ts:192`).
- `MaxCrashes = 1` in `payments_live`: `TakenIsFiled` fails. An invocation killed
  after winning the row leaves money that no sweep asks about again.
- Two payments in `payments_live`: `EveryReceiptFiled` fails. A demotion, another
  attempt's announcement and a withdrawal, each between the read and the commit of one
  settlement, spend its three tries, and nothing tries again.
- Money the gateway takes after the sweep's last answer about an attempt (a day after it
  was opened, or the last hourly question before that) is filed only if the parent's
  return page or staff ask. `TakenIsFiled` says nothing of it. Nor would a sweep with
  more than 50 attempts in flight, or 20 given up on, reach the youngest each time.
- A refund beside a verify in `payments_live`: `SettlesOnce` fails. A refunded row
  matches `neq succeeded` again (`payment-actions.ts:121`, against its lines
  109-111). Two officers who refund together reduce the balance twice (`:477`).
- An invocation killed between the paid row and the move to
  `registration_incomplete` (`payment-actions.ts:265`) leaves that move to staff.
- A refund after two settlements that each added to their own copy of
  `paid_minor` leaves the request refunded though one payment still pays it.
- A withdrawal cancels the refund review raised a moment before it.
- An email may leave after its precondition stopped holding: it is asked before
  the send, not with it.
- A wrong amount whose commit is refused never reaches finance: the review task
  is part of that commit (`payment-actions.ts:398`, against its line 296).
- A WhatsApp that fails for a passing reason is never sent: its key is taken
  before the provider is called, and the retry reads the key as "already sent"
  (`messaging/send.ts:160`).
- The undo of a refused deadline move queues again a reminder that went out
  meanwhile (`deadline-actions.ts:216`, against its lines 193-195).

Offers and stage moves.

- Redrafting beside anything: the redraft updates the letter by id
  (`offer-actions.ts:124`) after its check (`:60-61`), so a letter sent meanwhile is
  taken back to the queue, and the application commits without it. That such a letter is
  still answered once is a theorem (`OneAnswer`).
- A move back tidies by application (`stage-move-actions.ts:582`): a letter drafted,
  sent and accepted while it is still tidying is withdrawn with its request.
- `withdraw` or `leave` beside `approve` in `offers_out`: `SentWillLapse` fails.
  Neither handler asks whether its update of the letter matched.
- `leave` beside `accept` in `offers_answer`: `PaymentIsBilled` fails.
  `onWithdrawn` closes requests before the commit that may be refused.
- Killed invocations in `offers_out`: a signature without its letter's status, or
  a letter approved in silence, is left behind.
- An acceptance of nothing killed after `offer-actions.ts:544` leaves the child at
  `payment_required` with a request nobody can pay and no job
  (`BilledWhileOwed` speaks of moments when none was killed).

Bookings and sittings.

- A booking beside a hand-in in `bookings_sit`: `HandedInIsMarked` fails. The
  attempt is submitted before the application moves, and completes its booking;
  a parent who then books again moves the application to `assessment_booked`, and the
  hand-in's commit is refused. With one place the session is full and this cannot
  happen, so the run has a place for each booking and keeps bookings alone.
- A move beside the marking or the decision in `bookings_seats`:
  `BookedIsRecorded` fails. The move's record is refused, and a move has no undo.
- A move beside a sitting: `DecidedOnPaper` fails. The undo revives a booking
  whose sitting went on meanwhile, and the child may be launched again.
- Moves or no-shows beside other invocations in `bookings_seats`:
  `NeverOverfull` fails. Both put a booking back by id, and another family may
  have taken its place. A move may also revive a booking just marked missed.
- A move whose `onBookingCreated` is refused keeps the new booking, unlike a
  first booking (`actions.ts:690-705`).
- A move of a sitting in progress leaves its attempt open under a booking that
  was moved (against `assessment-actions.ts:15`), and the application at
  `assessment_in_progress`.
- Abandoning, skipping, deferring or withdrawing beside a launch or a hand-in:
  `AtKeyboard` and `HandedInIsMarked` fail. Each writes bookings and attempts
  first and may have its commit refused. The kiosk then reads the refused
  hand-in as "already submitted by the sweep or by staff: that is fine".
- `LaunchFirst = FALSE` in `bookings_sit`: `HandedInIsMarked` and `AtKeyboard` fail.
  Staff hand in an attempt that is ready while its launch has yet to commit: the paper is
  submitted, the hand-in's commit expects the status it read before the launch and is
  refused, the launch's commit succeeds, and the child stays at `assessment_in_progress`
  with a paper that no job will mark. `NeverBothEnds` and `DecidedOnPaper` still hold.
- A launch that is refused leaves an attempt without a code and without an
  expiry job; `LaunchFailed` takes such families out of `HandedInIsMarked`.
- A family that was deferred or withdrew may book: `bookSlot` does not ask, and
  the booking is recorded under the status as it is.
- Were a walk-in's session bookable, its check-in would still commit against the
  status read before its own booking changed it
  (`assessments/actions.ts:177,182`).
- A walk-in is always refused: Start now inserts an unpublished session that has
  begun, and `book_session` refuses both (`assessments/actions.ts:164`, against
  `docs/RUNBOOK.md:981-983`).

Marking and decisions.

- The model out of reach for longer than the job's five tries: the child stays at
  `assessment_completed` with a failed job on the administrator's page, and no assessor
  has a task. A failure worth a retry throws (`auto-mark.ts:75`), so the last one does
  not "hand the attempt to a person", as lines 18-22 have it of a provider that failed;
  only a refusal, or a failure that is not retried, does. `MarkingGoesOn` counts that
  failed job as what is left to go on from; so does `DecisionGoesOn` for an evaluation or
  a letter.
- `TidyAlone = FALSE` in `marking`: `DecisionGoesOn` fails. A decision committed
  after a move back's commit and before its tidying queues a letter that the tidying
  then skips (`stage-move-actions.ts:581-593`).
- A child sent on to Decision by hand, or brought back there after a pause, gets neither
  an evaluation nor a task: it waits on the decisions page until somebody looks. So does
  one whose evaluation ran while it was paused, which is then spent.
- A withdrawal whose commit is refused has closed every task of the child already; in
  `Marking` a withdrawal is one step.
- An invocation killed between the decision's row and its commit: the job, tried
  again, finds the row and ends (`decision-actions.ts:73`), and the child stays at
  `awaiting_decision` with nobody told. `DecisionGoesOn` sets kills aside.
- A decision whose commit is refused leaves its row in `admission_decisions`; the
  newest row is then not the decision that stands.
- The rules may read the scores of a run that is stale, or none at all, when a
  re-mark is between its delete and its insert. They then leave it to an officer.
- Two evaluations of two children read the same last place (`placesRemaining`
  takes no lock), and both may approve.
- Send pressed twice may queue two letters: both read the status before either
  commits, and the commit keeps the status it expects.

Registration and enrolment.

- A third upload of one requirement: `DocumentStands` fails. The first replaced the
  original and has yet to link it; the second, refused, is about to put the
  original back; the third sets the replacement aside. The second's original goes
  back, the third is refused by it, the first links it aside, and none is live.
- An invocation killed between setting aside and inserting leaves the requirement
  without a live document, and once the registration is complete the parent's
  page lets none be uploaded (`upload-guard.ts:36`).
- A reading beside a save or another reading: `FlagsHaveTask` fails. It writes back
  the flags it read (`registration-actions.ts:142`), so one is lost or comes back.
- An upload that found everything in resolves the `documents_missing` task a
  rejection has opened since (`registration-actions.ts:97,113`).
- An `auto_enrol` job whose papers are no longer in order is skipped, and nothing
  else is queued: the child stays at `registration_complete` with neither a job nor
  a task, against "skip, never strand" (`handlers/registration.ts:9`).
- An enrolment whose commit is refused, after a move back, leaves the child on the
  register. Two confirmations that meet export twice.
- Emergency contacts are deleted before they are inserted (`register/actions.ts:226`).

Event tickets.

- An order released or lapsed before its money came is honoured beside the orders
  that took its places since; `NeverOversold` speaks of the orders whose places were never
  given up. When it read the order as pending a moment before the release, or the
  day lapsed while it was pending, nobody is told (`settle.ts:93`).
- An invocation killed between the claim of the attempt and its tickets leaves a
  paid order without them, and nothing asks again: the attempt has succeeded.
  `RowsAgree` sets kills aside.
- The sweep asks about an attempt it gave up on once an hour for a day: money
  taken after its last question is never seen. `TakenIsSought` holds while the day
  lasts.

## Proofs

TLAPS checks every theorem from nothing, for all values of the constants. Where a
theorem has a hypothesis, it is one about which calls may meet, it is the one the
run makes or a weaker one, and the section above says what happens without it.

**Payments** (`PaymentsProofs`).

- `TypeCorrect` (`TypeOK`).
- `OneConfirmation` (`ConfirmedOnce`, when staff make no stage moves): the inductive
  invariant adds that a confirmed payment means the application has left the two
  statuses that await money, and that only a commit from those two confirms, so a
  second confirmation has no status to start from.
- `OneSettlement` (`SettlesOnce`, unless refunds race verifies): the invariant
  adds that an invocation between winning a row and filing it holds a row that
  has succeeded, holds it alone, and that nothing of it is filed yet; the guard of
  `ClaimRow` then gives each step.
- `LedgerBacked` (`LedgerNotOverstated`, where nothing is refunded): a settlement
  writes the amount it added to its own copy of `paid_minor`, so each copy must be
  covered by payments that arrived, without the one being settled.
- `PlaceIsPaid` (`RegistrationIsPaid`, unless refunds race verifies): the same for the
  payments that ever succeeded, and that the status leaves the ones that await
  money only in an invocation whose copy, with its own payment, makes the amount.
- `PromiseKept` (`KeepsPromise`, without stage moves and with refunds that wait):
  every step maps to a step of `Receipts` or to a stutter.

The sums in these are over the set of payments. Induction over data is out of reach,
but `Totals` proves what they need (a sum of a larger set, of a set without one of its
elements, of a function changed at one argument) from a smallest counterexample: of
the subsets at which two totals would differ, a minimal one, which then has an element
to take away.

**Jobs** (`JobsProofs`).

- `TypeCorrect` (`TypeOK`).
- `OneMessage` (`MessagedOnce`): a message is in flight only under its key, only one
  drain can be past the key, and a delivery uses that up. It needs no assumption about
  locks or reclaiming, which is the point of the key.
- `DoneWasDelivered` (`DoneIsDelivered`): a drain past the send has the email
  in the inbox, one past the companion has it in the queue, and nothing takes either
  away.
- `OneRunnerHolds` (`OneRunner`, where no deadline is moved): a job that a drain holds
  is running and is not stale, because it goes stale only when nobody holds it;
  the claim and the reclaim ask for the opposite.
- `OutboxKept` (`KeepsOutbox`, where no deadline is moved): every step maps to a step of
  `Outbox` or to a stutter, from the two before.

**Offers** (`OffersProofs`).

- `TypeCorrect` (`TypeOK`); the invariant adds that an invocation past its read
  of a letter knows which, and that one moving a closing date read an open or an
  expired letter.
- `OneAnswer` (`AnsweredOnce`): every statement but an answer's
  own makes no letter accepted or declined, whichever letters it rewrites and
  however stale its copy (`Still`); an invocation between its signature and its
  letter finds the signature it wrote (`AnswerHeld`), as the unique row is never
  replaced. It holds with redrafts, withdrawals, extensions and moves beside the
  answer, which `offers_answer` could not afford.
- `AskedIsBilled` (`PaymentIsBilled`) and `OwedIsAsked` (`BilledWhileOwed`), where
  drafting is alone and no family leaves: the invariant follows each answer from the
  signature to the status (`Signed`, one answer a letter), says which invocations may
  take a letter or a request away and under which statuses (`Gone`), and that these
  exclude the statuses that owe the family both (`Due`); a request is open only under
  an acceptance, or in the hands of the invocation that will settle or cancel it.
- `SentLapses` (`SentWillLapse`), under the calls of `offers_out`: what drafts,
  answers, moves on or leaves is alone, nobody withdraws by hand and nobody goes back
  to Offer. Approvals, the parent's page, sweeps, later closing dates and moves back to
  Decision meet at will, and the statements about the end of an offer are spread over
  all of them. The invariant has two halves, each speaking while no invocation has been
  killed: what an invocation that is alone may rely on at each of its statements
  (`Lone`), and what those that may meet leave one another (`Shared`). One letter is in
  play at a time (`OneInPlay`); one not yet sent has no sweep (`Unsent`); before the
  offer is out nothing can lapse, and a letter that has lapsed has spent its sweep
  (`Fresh`, `Swept`); a sweep at work on an offer that is out is the only one and is
  about the letter in play (`Lapses`); a reopened letter is held by one invocation, and
  a status that does not yet say lapsed has a sweep about to say it (`Reopens`); an
  approval begun before a move back finds nothing left to send (`Unsendable`). From
  these, an offer that is out is promised its sweep or someone is at work who will
  settle it (`Cover`).

**Bookings** (`BookingsProofs`).

- `TypeCorrect` (`TypeOK`); the invariant adds that a booking, a sitting
  and an invocation at work belong to a family.
- `NeverOverfullHolds` (`NeverOverfull`, when moves and no-shows are alone):
  `book_session` counts places under the session's lock, which settles the insert; but
  a move and a no-show free a place first and may write the booking back by id, without
  counting. The invariant therefore counts a place given up as taken until the
  invocation that gave it up has ended (`Reserved`), and says that such an
  invocation is alone (`Exclusive`), so that no insert can see the place free.
- The rest share `FlowInv`: which kind of invocation is at which statement, of whose
  rows, and that an invocation that is alone has nobody beside it.
- `NeverBothEndsHolds` (`NeverBothEnds`, when moves are alone): the row
  itself keeps the two apart. The invariant says that a booking marked missed has not
  arrived, that a miss on the timeline is still on the row, because an undo (`Unmiss`)
  only follows a miss that was not recorded, and that one invocation marks it.
- `DecidedOnPaperHolds` (`DecidedOnPaper`, where no booking is moved): a paper handed in
  is never begun again, because its booking is never back at the desk (`SeatsPaper`; a
  move, which puts a booking back by id, would break it). So the decision, a pause at
  the decision and the end of such a pause each stand on the paper or the skip that led
  there.
- `BookedIsRecordedHolds` (`BookedIsRecorded`, when moves and no-shows are alone and no
  family that may move is marked or decided on): a booked row is on the timeline, has
  arrived, or is being recorded or undone by the invocation that made it; a row put
  back was recorded before; a move finds the application as it read it.
- `AtKeyboardHolds` (`AtKeyboard`, where no booking is moved, abandoning, skipping,
  deferring and withdrawing are alone, and no paper is begun or handed in before its
  launch is recorded). `LaunchInv` says what a launch can count on: two
  live bookings of a family differ in kind, so a child has one sitting (`OneLive`); only an
  assessment is sat (`OnlySat`); and each launch about to be shown has an attempt of its
  own, ready and without a code (`LaunchOf`), which a hand-in meanwhile cannot be about,
  because that one was begun. `KeyInv` adds that a family shown at the keyboard has a
  seat, or the invocation that took the seat away read the status there and is about to
  commit (`ShownSeated`, `KeysOf`). A killed invocation commits nothing, so only this last
  part asks that none was killed, as the property does.
- `HandedInIsMarkedHolds` (`HandedInIsMarked`, under those hypotheses and with booking
  alone too). While a child may type, the family is shown at the keyboard (`SatOn`), so a
  hand-in read the status its commit asks for (`HandsOf`); a family has one sitting under
  way or able to come back (`OneSitting`), so until that commit no other can take the
  family off the keyboard (`OneHands`), and every paper submitted is on the timeline or
  about to be (`Filed`). Each part excepts a family that has withdrawn, or that a failed
  launch left with a booking that is over (`Excused`). The other invocations, and any
  number of families, interleave as they like.

**Marking** (`MarkingProofs`). The first three have no hypothesis on the calls.

- `TypeCorrect` (`TypeOK`).
- `PersonPrevails` (`PersonStands`): the invariant adds that a run of the rules set out
  from `awaiting_decision` and commits only there (`Held`), and that a status somebody
  has decided comes back there only by a person's move, which takes the decision's
  place (`DecidedInv`); the guard on the model's mark does the rest.
- `PaperGoesOn` (`MarkingGoesOn`), killed invocations and jobs that fail for good included.
  The invariant says who has the paper while no assessor does (`OnInv`): a marking job is
  queued or stands failed, or an invocation
  that runs one will see every answer, give the paper to a person, or queue an answer
  nobody has (`Good`). The hard step is the read: an answer it finds unmarked may have a
  job that another invocation runs, so that one must be on its way to a mark or a
  person, which follows from what each run knows of its own answer (`RunOK`), a mark
  never being taken back, and no job being run twice (`Holders`).
- `DecisionKept` (`DecisionGoesOn`, if no decision is committed while a move back is
  tidying): while the marks' own evaluation is due, a row with the paper's scores is there
  only while the rules that wrote it are about to move the child (`Ruled`), which is why
  the job that finds one may end; only a decision brings a child to an outcome with a
  letter, and it queues the letter under a new key or leaves a task (`Followed`), which
  only a tidying would skip, and none is under way while there is an outcome to tell
  (`TidyInv`); a task to decide again is there from the move back to the decision
  (`Reviewed`); a decline reaches its send only past the cancellation (`Freed`).

**Registration** (`RegistrationProofs`): `TypeCorrect`; the invariant adds that an
invocation at a document knows one that exists. `OneChild` (`EnrolledOnRegister`): the
invariant adds what an invocation has already written by each of its statements, so
that the commit to `enrolled` finds the form stamped and the register full
(`EnrolInv`), a move back in between notwithstanding. `FlagIsAsked` (`FlagsHaveTask`,
where readings are alone): flags and tasks differ only between two statements of one
invocation, and the invariant says which of the two is behind and in whose hands
(`Answering`, `Filing`). `DocumentKept` (`DocumentStands`, where at most two uploads
meet): an upload that set a row aside brings it or a new one back (`Bringing`), and one
that links a row another may still put back has its successor live (`Behind`), which is
what a third upload breaks.

**Tickets** (`TicketsProofs`): `TypeCorrect`. `OwnNumbers` (`NumbersNeverShared`) is
inductive as it stands, given the types. `LastTicketOnce` (`NeverOversold`), for every
capacity: the invariant adds that an order cancelled, or pending for a day, has given
up its places (`GivenUpInv`), and that nobody settles an order that was never placed
(`PlacedInv`); so money that comes late adds nothing to the orders that kept theirs,
and only `create_event_order`, which counts, does. `OneStory` (`RowsAgree`): the
attempt's status is the first thing a settlement or a failure writes, so it is ahead of
the request, the order, the tickets and the copies, and what they still miss is in the
hands of the invocation that won it (`FollowedUp`, `WoundUp`); a checkout that throws leaves its attempt as it was and its
order and request in its own hands; a checkout is alone on
its order until the gateway knows the attempt (`BuysAlone`). `TakenSought`
(`TakenIsSought`): an attempt is given up for good only by who heard from the gateway
that it took nothing, after which it takes nothing (`HeardInv`). Neither of the last
two has a hypothesis on the calls.

They rest on the constants' assumptions, which TLC evaluates on each run:
`AmountAssumption`, `BoundsAssumption`, `SwitchAssumption`, `NoneAssumption`
(`Payments`); `LimitAssumption`, `BoundAssumption` (`Jobs`); `CallsAssumption`,
`CrashAssumption`, `LetterAssumption` (`Offers`); `CallAssumption`, `RowAssumption`,
`CapacityAssumption` (`Bookings`); `AnswerAssumption`, `MarkingBounds`
(`Marking`); `CodeAssumption`, `CallAssumption`, `RegistrationBounds`
(`Registration`); `EventAssumption`, `TicketBounds`, `NoOrderAssumption`
(`Tickets`).

Every invariant and every action property the passing runs check is stated by one of
these theorems, but `EveryReceiptFiled`: it holds for one payment and three tries,
which is what `payments_live` checks, and fails for two (see above), so there is no
theorem for the code's own constants to prove. Only model-checked too are the liveness
properties `TakenIsFiled`, `EveryJobEnds` and `SentEnds`: fairness and `ENABLED` are out
of the prover's reach. The
hypotheses on `Calls` and `Alone` are stated in each theorem; "What the runs leave
out, and what it would break" says which of them the property needs.

## Plan

In this order, the most important behaviour first.

1. Payments, Jobs, Offers with their abstractions. *Done.*
2. `Bookings`: places, appointments and the sitting. *Done.* Left: editing
   a session's capacity beside `book_session`, and moves beside everything else.
3. `Tickets`: orders, capacity, expiry and late payment. *Done.* Left: a capacity
   lowered below what is sold, and the gate.
4. `Marking`: marks, scores, the decision and its letter. *Done.* Left: responses,
   and the kiosk's cookie.
5. `Registration`: documents, reviews, readings and the register. *Done.* Left: the
   export, and a child who is already on the register.
6. `Pipeline`: the status graph as a relation, with every handler's edges and
   the override edges; every status leads to an end; no handler leaves an end.
7. `Campaigns`: the second person's approval and the send loop over a drain
   that may be killed; composes with `Jobs`.
8. `Delivery`: the rank of delivery reports; `Tokens`: consume once, and the
   rate limit's window.
9. Extras, waitlist, re-enrolment and trial weeks.
10. Proofs of every invariant and action property above that holds for every value of
    the constants. *Done.*

## Not modelled

Rendering, scanning, storage and PDF, the AI providers, analytics, row-level
security and retention: they are input and output, pure queries, or single SQL
functions that run in one transaction, and leave a model checker nothing to
interleave. They are also most of the repository's lines: pages and components, the
generated database types, the texts of emails and letters, seed data. Extras
settle as tickets and payments do; campaigns, delivery reports, tokens, the status
graph and the later sweeps are the plan's items 6 to 9.
