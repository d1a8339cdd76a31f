-------------------------------- MODULE Jobs --------------------------------
(* The job outbox (supabase/migrations/20260904120600_jobs.sql), the drain   *)
(* that works through it (web/lib/workflow/jobs.ts) and the two job types    *)
(* that reach a parent: send_email, and the send_whatsapp each email queues  *)
(* as its companion (web/lib/workflow/handlers, lib/email, lib/messaging).   *)
(*                                                                           *)
(* A drain is a serverless invocation: it claims a batch in one statement    *)
(* and runs it job by job, one statement or one call at a time, and may be   *)
(* killed between any two.  The email and the WhatsApp provider are external.*)
EXTENDS Integers, FiniteSets

CONSTANTS
  Moments,      \* the moments a parent is written to, one idempotency key each
  Workers,      \* drains that may run at once
  Limit,        \* claim_jobs(p_limit)
  MaxAttempts,  \* jobs.max_attempts
  MaxCrashes,   \* bound: invocations killed between two statements
  MaxRetries,   \* bound: jobs put back by an administrator
  MaxMoves      \* bound: payment deadlines moved by staff

ASSUME LimitAssumption == Limit \in Nat \ {0} /\ MaxAttempts \in Nat \ {0}
ASSUME BoundAssumption ==
  MaxCrashes \in Nat /\ MaxRetries \in Nat /\ MaxMoves \in Nat

VARIABLES
  status,    \* jobs.status, "absent" before the insert
  attempts,  \* jobs.attempts
  due,       \* jobs.run_after has passed
  stale,     \* jobs.locked_at is more than ten minutes old
  stands,    \* the email's precondition is true of the world
  keyed,     \* public.messages has a row with the companion's idempotency key
  inbox,     \* how often the parent got it
  step, cur, batch,  \* a drain's next statement, its job, the rest of its claim
  mover, ours, togo, \* onPaymentDeadlineMoved: phase, jobs it read, jobs to do
  crashes, retries, moves

job    == <<status, attempts, due, stale>>
parent == <<stands, keyed, inbox>>
drain  == <<step, cur, batch>>
move   == <<mover, ours, togo, moves>>
vars   == <<status, attempts, due, stale, stands, keyed, inbox, step, cur, batch,
            mover, ours, togo, crashes, retries, moves>>

Job       == {"email", "whatsapp"} \X Moments
Email(m)  == <<"email", m>>
Emails    == {"email"} \X Moments
Companion(j) == <<"whatsapp", j[2]>>
JobStatus == {"absent", "pending", "running", "done", "failed", "skipped"}
Ended     == {"done", "failed", "skipped"}
Step      == {"idle", "next", "send", "companion", "key", "message",
              "done", "skip", "fail", "retry"}

\* A claimed row is the drain's copy of the job: tries is attempts as claimed.
Claimed == [job : Job, tries : Nat]
NoJob   == [job |-> <<"none", "none">>, tries |-> 0]
-----------------------------------------------------------------------------
Init ==
  /\ status = [j \in Job |-> "absent"] /\ attempts = [j \in Job |-> 0]
  /\ due = [j \in Job |-> FALSE] /\ stale = [j \in Job |-> FALSE]
  /\ stands = [m \in Moments |-> TRUE] /\ keyed = [m \in Moments |-> FALSE]
  /\ inbox = [j \in Job |-> 0]
  /\ step = [w \in Workers |-> "idle"] /\ cur = [w \in Workers |-> NoJob]
  /\ batch = [w \in Workers |-> {}]
  /\ mover = "idle" /\ ours = {} /\ togo = {}
  /\ crashes = 0 /\ retries = 0 /\ moves = 0

At(w, s)   == step[w] = s
Goto(w, s) == step' = [step EXCEPT ![w] = s] /\ UNCHANGED <<cur, batch>>
Mark(j, s) == status' = [status EXCEPT ![j] = s]

\* "on conflict (idempotency_key) do nothing": only a key never seen is queued.
Insert(j, isDue) ==
  IF status[j] = "absent"
  THEN Mark(j, "pending") /\ due' = [due EXCEPT ![j] = isDue]
  ELSE UNCHANGED <<status, due>>

\* commit_transition and enqueueJobs; a replayed caller comes here again.
Enqueue(m) ==
  /\ \E isDue \in BOOLEAN : Insert(Email(m), isDue)
  /\ UNCHANGED <<attempts, stale, parent, drain, move, crashes, retries>>

-----------------------------------------------------------------------------
(* The drain: claim_jobs, then runOne for each job of the batch.             *)

\* Give worker w the jobs S, attempts and lock included, in one statement.
TakeBatch(w, S) ==
  /\ status' = [j \in Job |-> IF j \in S THEN "running" ELSE status[j]]
  /\ attempts' = [j \in Job |-> IF j \in S THEN attempts[j] + 1 ELSE attempts[j]]
  /\ stale' = [j \in Job |-> stale[j] /\ j \notin S]
  /\ batch' = [batch EXCEPT ![w] = {[job |-> j, tries |-> attempts[j] + 1] : j \in S}]
  /\ step' = [step EXCEPT ![w] = "next"]
  /\ UNCHANGED <<due, cur, parent, move, crashes, retries>>

\* As many of the claimable jobs as the limit allows.
ClaimFrom(w, claimable) ==
  /\ At(w, "idle") /\ claimable # {}
  /\ \E S \in SUBSET claimable :
       /\ Cardinality(S) = Limit \/ (S = claimable /\ Cardinality(S) < Limit)
       /\ TakeBatch(w, S)

\* Mutant: a running job is never reclaimed.
ClaimPendingOnly(w) == ClaimFrom(w, {j \in Job : due[j] /\ status[j] = "pending"})

\* Mutant: a running job is reclaimed however young its lock.
ClaimRunning(w) == ClaimFrom(w, {j \in Job : due[j] /\ status[j] \in {"pending", "running"}})

\* Mutant: claims by run_after alone.
ClaimDue(w) == ClaimFrom(w, {j \in Job : due[j]})

Claim(w) ==
  ClaimFrom(w, {j \in Job : /\ due[j]
                            /\ status[j] = "pending" \/ (status[j] = "running" /\ stale[j])})

\* A companion is queued with no precondition.
Holds(j) == j \in Emails => stands[j[2]]

\* preconditionHolds is asked just before the handler, of the world as it is.
Take(w) ==
  /\ At(w, "next")
  /\ \E c \in batch[w] :
       /\ cur' = [cur EXCEPT ![w] = c]
       /\ batch' = [batch EXCEPT ![w] = @ \ {c}]
       /\ step' = [step EXCEPT ![w] =
                     IF ~Holds(c.job) THEN "skip"
                     ELSE IF c.job \in Emails THEN "send" ELSE "key"]
  /\ UNCHANGED <<job, parent, move, crashes, retries>>

BatchOver(w) ==
  /\ At(w, "next") /\ batch[w] = {}
  /\ Goto(w, "idle")
  /\ UNCHANGED <<job, parent, move, crashes, retries>>

\* Every outcome is written to the job by id.
Finish(w, s, ended) ==
  /\ At(w, s)
  /\ Mark(cur[w].job, ended)
  /\ step' = [step EXCEPT ![w] = "next"] /\ cur' = [cur EXCEPT ![w] = NoJob]
  /\ UNCHANGED <<attempts, due, stale, batch, parent, move, crashes, retries>>

\* Mutant: a status the column does not admit.
SkipAsCancelled(w) == Finish(w, "skip", "cancelled")

Done(w) == Finish(w, "done", "done")
Skip(w) == Finish(w, "skip", "skipped")
Fail(w) == Finish(w, "fail", "failed")

\* retryOrFail, for a failure worth another attempt.
Retry(w) ==
  /\ At(w, "retry")
  /\ IF cur[w].tries >= MaxAttempts
     THEN Mark(cur[w].job, "failed") /\ UNCHANGED <<due, stale>>
     ELSE /\ Mark(cur[w].job, "pending")
          /\ due' = [due EXCEPT ![cur[w].job] = FALSE]
          /\ stale' = [stale EXCEPT ![cur[w].job] = FALSE]
  /\ step' = [step EXCEPT ![w] = "next"] /\ cur' = [cur EXCEPT ![w] = NoJob]
  /\ UNCHANGED <<attempts, batch, parent, move, crashes, retries>>
-----------------------------------------------------------------------------
(* sendEmailHandler.  The provider knows the job's key: a second request     *)
(* with it delivers nothing.                                                 *)

SendEmail(w) ==
  /\ At(w, "send")
  /\ \E accepted \in BOOLEAN, next \in {"companion", "retry", "fail"} :
       /\ next = "companion" => accepted
       /\ next = "fail" => ~accepted
       /\ inbox' = [inbox EXCEPT ![cur[w].job] = IF accepted THEN 1 ELSE @]
       /\ Goto(w, next)
  /\ UNCHANGED <<job, stands, keyed, move, crashes, retries>>

\* Mutant: the job is marked done before its companion is queued.
CompanionLast(w) ==
  /\ At(w, "companion")
  /\ Mark(cur[w].job, "done")
  /\ Goto(w, "done")
  /\ UNCHANGED <<attempts, due, stale, parent, move, crashes, retries>>

QueueCompanion(w) ==
  /\ At(w, "companion")
  /\ Insert(Companion(cur[w].job), TRUE)
  /\ Goto(w, "done")
  /\ UNCHANGED <<attempts, stale, parent, move, crashes, retries>>

-----------------------------------------------------------------------------
(* sendWhatsAppHandler: the keyed row first, then the provider.              *)

\* Mutant: the row is inserted without looking at who holds the key.
KeyMessageAgain(w) ==
  /\ At(w, "key")
  /\ keyed' = [keyed EXCEPT ![cur[w].job[2]] = TRUE]
  /\ Goto(w, "message")
  /\ UNCHANGED <<job, stands, inbox, move, crashes, retries>>

KeyMessage(w) ==
  /\ At(w, "key")
  /\ keyed' = [keyed EXCEPT ![cur[w].job[2]] = TRUE]
  /\ Goto(w, IF keyed[cur[w].job[2]] THEN "skip" ELSE "message")
  /\ UNCHANGED <<job, stands, inbox, move, crashes, retries>>

\* A network error is retryable whether or not the message went.
SendMessage(w) ==
  /\ At(w, "message")
  /\ \E went \in BOOLEAN, next \in {"done", "retry", "fail"} :
       /\ next = "done" => went
       /\ next = "fail" => ~went
       /\ inbox' = [inbox EXCEPT ![cur[w].job] = IF went THEN @ + 1 ELSE @]
       /\ Goto(w, next)
  /\ UNCHANGED <<job, stands, keyed, move, crashes, retries>>
-----------------------------------------------------------------------------
(* An administrator retries a job that ended without doing its work.         *)

RetryJob(j) ==
  /\ retries < MaxRetries /\ status[j] \in {"failed", "skipped"}
  /\ Mark(j, "pending")
  /\ attempts' = [attempts EXCEPT ![j] = 0]
  /\ due' = [due EXCEPT ![j] = TRUE] /\ stale' = [stale EXCEPT ![j] = FALSE]
  /\ retries' = retries + 1
  /\ UNCHANGED <<parent, drain, move, crashes>>

(* onPaymentDeadlineMoved: the pending reminders are read, rescheduled or    *)
(* stood down one by one, and put back if anything on the way is refused.    *)

DeadlineRead ==
  /\ mover = "idle" /\ moves < MaxMoves
  /\ mover' = "moving" /\ moves' = moves + 1
  /\ ours' = {j \in Emails : status[j] = "pending"} /\ togo' = ours'
  /\ UNCHANGED <<job, parent, drain, crashes, retries>>

\* Pending only: one that has already gone out is history.
DeadlineReschedule(j) ==
  /\ mover = "moving" /\ j \in togo
  /\ togo' = togo \ {j}
  /\ IF status[j] = "pending"
     THEN \/ due' = [due EXCEPT ![j] = FALSE] /\ UNCHANGED status
          \/ Mark(j, "skipped") /\ UNCHANGED due
     ELSE UNCHANGED <<status, due>>
  /\ UNCHANGED <<attempts, stale, parent, drain, mover, ours, moves, crashes, retries>>

DeadlineCommitted ==
  /\ mover = "moving" /\ togo = {}
  /\ mover' = "idle" /\ ours' = {}
  /\ UNCHANGED <<job, parent, drain, togo, moves, crashes, retries>>

DeadlineRefused ==
  /\ mover = "moving"
  /\ mover' = "undoing" /\ togo' = ours
  /\ UNCHANGED <<job, parent, drain, ours, moves, crashes, retries>>

\* By id, whatever has become of the job since it was read.
DeadlineUndo(j) ==
  /\ mover = "undoing" /\ j \in togo
  /\ togo' = togo \ {j}
  /\ Mark(j, "pending") /\ due' = [due EXCEPT ![j] = FALSE]
  /\ UNCHANGED <<attempts, stale, parent, drain, mover, ours, moves, crashes, retries>>

DeadlineUndone ==
  /\ mover = "undoing" /\ togo = {}
  /\ mover' = "idle" /\ ours' = {}
  /\ UNCHANGED <<job, parent, drain, togo, moves, crashes, retries>>

-----------------------------------------------------------------------------
(* Time, the world and the platform.                                         *)

BecomesDue(j) ==
  /\ status[j] = "pending" /\ ~due[j]
  /\ due' = [due EXCEPT ![j] = TRUE]
  /\ UNCHANGED <<status, attempts, stale, parent, drain, move, crashes, retries>>

Holding(w, j) == cur[w].job = j \/ \E c \in batch[w] : c.job = j

\* Ten minutes is longer than an invocation may live: whoever locked it is gone.
GoesStale(j) ==
  /\ status[j] = "running" /\ ~stale[j]
  /\ \A w \in Workers : ~Holding(w, j)
  /\ stale' = [stale EXCEPT ![j] = TRUE]
  /\ UNCHANGED <<status, attempts, due, parent, drain, move, crashes, retries>>

MomentPasses(m) ==
  /\ stands[m]
  /\ stands' = [stands EXCEPT ![m] = FALSE]
  /\ UNCHANGED <<job, keyed, inbox, drain, move, crashes, retries>>

Crash(w) ==
  /\ ~At(w, "idle") /\ crashes < MaxCrashes
  /\ crashes' = crashes + 1
  /\ step' = [step EXCEPT ![w] = "idle"] /\ cur' = [cur EXCEPT ![w] = NoJob]
  /\ batch' = [batch EXCEPT ![w] = {}]
  /\ UNCHANGED <<job, parent, move, retries>>

-----------------------------------------------------------------------------
RunOne(w) ==
  \/ Take(w) \/ BatchOver(w) \/ SendEmail(w) \/ QueueCompanion(w)
  \/ KeyMessage(w) \/ SendMessage(w)
  \/ Done(w) \/ Skip(w) \/ Fail(w) \/ Retry(w)

Deadline ==
  \/ DeadlineRead \/ DeadlineCommitted \/ DeadlineRefused \/ DeadlineUndone
  \/ \E j \in Emails : DeadlineReschedule(j) \/ DeadlineUndo(j)

Next ==
  \/ \E w \in Workers : Claim(w) \/ RunOne(w) \/ Crash(w)
  \/ \E j \in Job : BecomesDue(j) \/ GoesStale(j) \/ RetryJob(j)
  \/ \E m \in Moments : Enqueue(m) \/ MomentPasses(m)
  \/ Deadline

Spec == Init /\ [][Next]_vars

\* The cron drains for ever, an invocation runs until it ends or is killed,
\* and time passes.
Fairness ==
  /\ WF_vars(\E w \in Workers : Claim(w))
  /\ \A w \in Workers : WF_vars(RunOne(w))
  /\ \A j \in Job : WF_vars(BecomesDue(j)) /\ WF_vars(GoesStale(j))

FairSpec == Spec /\ Fairness
-----------------------------------------------------------------------------
\* Every job, claim and copy is one the drain can write.
TypeOK ==
  /\ status \in [Job -> JobStatus] /\ attempts \in [Job -> Nat]
  /\ due \in [Job -> BOOLEAN] /\ stale \in [Job -> BOOLEAN]
  /\ stands \in [Moments -> BOOLEAN] /\ keyed \in [Moments -> BOOLEAN]
  /\ inbox \in [Job -> Nat]
  /\ step \in [Workers -> Step]
  /\ cur \in [Workers -> Claimed \cup {NoJob}]
  /\ batch \in [Workers -> SUBSET Claimed]
  /\ mover \in {"idle", "moving", "undoing"}
  /\ ours \subseteq Emails /\ togo \subseteq ours
  /\ crashes \in Nat /\ retries \in Nat /\ moves \in Nat
  /\ \A w \in Workers : step[w] \in {"idle", "next"} <=> cur[w] = NoJob

\* "Never send twice": a parent gets a WhatsApp at most once, however many
\* drains, crashes, retries by hand or moved deadlines its job goes through.
MessagedOnce == \A m \in Moments : inbox[<<"whatsapp", m>>] <= 1

\* "The database hands each job to exactly one worker": two live drains never
\* hold the same job.
OneRunner ==
  \A v, w \in Workers : \A j \in Job : Holding(v, j) /\ Holding(w, j) => v = w

\* An email's job that ended well was sent, and its companion is in the queue
\* (the two are separate statements a crash can fall between).
DoneIsDelivered ==
  \A j \in Emails :
    status[j] = "done" => inbox[j] > 0 /\ status[Companion(j)] # "absent"

\* The outbox keeps the promise of Outbox for every email and companion.
Seen(s) ==
  CASE s = "absent"               -> "unknown"
    [] s = "done"                 -> "closed"
    [] s \in {"failed", "skipped"} -> "stuck"
    [] OTHER                      -> "open"
Shown == [j \in Job |-> Seen(status[j])]

Promise == INSTANCE Outbox WITH Letters <- Job, delivered <- inbox, state <- Shown
KeepsOutbox == Promise!OSpec
=============================================================================
