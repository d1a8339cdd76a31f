------------------------------- MODULE Marking -------------------------------
(* One paper, from the moment it is handed in to the decision and its letter: *)
(* web/lib/assessment/mark-attempt.ts, the marking half of                    *)
(* workflow/assessment-actions.ts, ai/auto-mark.ts, rules/evaluate.ts and     *)
(* workflow/decision-actions.ts.                                             *)
(*                                                                           *)
(* Answers are the written ones, each waiting for the model or for a person;  *)
(* the rest are marked the same way every time and left out.  A score is the  *)
(* set of answers whose marks are in it: the others counted as nothing.  Jobs *)
(* are run one at a time by each invocation, as in Jobs; one that throws is   *)
(* queued again or, by its last try, marked failed; one whose drain is killed *)
(* is queued again.  The tries are not counted: any throw may be the last.    *)
EXTENDS Naturals, Sequences, FiniteSets

CONSTANTS
  Answers,      \* attempt_responses that need a rubric
  Sends,        \* bound: send_outcome rows, one for each decision that queues one
  Handlers,     \* invocations that may be in flight together
  MaxClicks,    \* bound: times staff mark, re-mark, decide, move the child or retry
  MaxCrashes,   \* bound: invocations killed between two statements
  TidyAlone     \* no decision is committed while a move back is tidying

ASSUME AnswerAssumption ==
  /\ Answers # {} /\ IsFiniteSet(Answers)
  /\ (Answers \cup Sends) \cap {"mark", "evaluate", "staff"} = {}
  /\ Answers \cap Sends = {}
ASSUME MarkingBounds == {MaxClicks, MaxCrashes} \subseteq Nat /\ TidyAlone \in BOOLEAN

VARIABLES
  app,       \* applications.status; "elsewhere" is offer, payment or registration
  mark,      \* attempt_responses.marking_method: "none", "ai", "rubric"
  score,     \* attempt_scores: no rows, or a score of the answers marked when computed
  marking,   \* attempts.marking_status, which its status follows
  rows,      \* admission_decisions, in order
  decided,   \* history: whose decision, or move to Decision, the child last had
  tasks,     \* open tasks of the kinds these handlers raise
  letters,   \* outcomes told to the family since they were last decided
  booked,    \* a visit the family still has ahead of them
  about,     \* the outcome a send_outcome row was queued for
  job,       \* jobs.status
  pc, run, mem,  \* an invocation's next statement, its job, what it holds
  clicks, crashes

paper == <<mark, score, marking>>
file  == <<rows, decided>>
desk  == <<tasks, letters, booked, about>>
self  == <<pc, run, mem>>
vars  == <<app, mark, score, marking, rows, decided, tasks, letters, booked, about,
           job, pc, run, mem, clicks, crashes>>

Letter  == {"waitlisted", "declined"}
Outcome == {"approved", "staff_review"} \cup Letter
Status  == {"assessment_completed", "awaiting_decision", "deferred", "withdrawn",
            "elsewhere"} \cup Outcome

\* ai_mark_response is keyed by answer; send_outcome's key is new every time.
Jobs == {"mark", "evaluate"} \cup Sends \cup Answers
NoScore == {}
Staff == "staff"
TaskType == {"mark_writing", "review_decision", "send_outcome"}

PC == { "idle", "aiRead", "aiCall", "aiMark", "write", "read", "delete", "insert",
        "complete", "readApp", "automatic", "task", "openTask", "move",
        "evalAttempt", "evalApp", "evalExisting", "evalScores", "latest", "record",
        "decide", "sendRead", "cancel", "send", "tidy" }

\* Rows and decisions an invocation holds.
Nothing == [todo |-> {}, seen |-> {}, force |-> FALSE, app |-> "elsewhere",
            outcome |-> "staff_review", paper |-> FALSE]
Row == [by : {"rules", "staff"}, outcome : Outcome, paper : BOOLEAN]

\* TRANSITIONS, between the statuses of a decision.
CanBecome(from, to) ==
  \/ from = "awaiting_decision" /\ to \in Outcome
  \/ from = "staff_review" /\ to \in Outcome \ {"staff_review"}
  \/ from = "waitlisted" /\ to \in {"approved", "declined"}

\* onAssessmentSubmitted has just committed.
Init ==
  /\ app = "assessment_completed"
  /\ mark = [q \in Answers |-> "none"] /\ score = NoScore /\ marking = "pending"
  /\ rows = <<>> /\ decided = "none"
  /\ tasks = {} /\ letters = {} /\ booked = TRUE /\ about = [s \in Sends |-> "none"]
  /\ job = [j \in Jobs |-> IF j = "mark" THEN "pending" ELSE "none"]
  /\ pc = [h \in Handlers |-> "idle"] /\ run = [h \in Handlers |-> Staff]
  /\ mem = [h \in Handlers |-> Nothing] /\ clicks = 0 /\ crashes = 0

At(h, l) == pc[h] = l
Goto(h, l) == pc' = [pc EXCEPT ![h] = l] /\ UNCHANGED run
Keep(h) == UNCHANGED mem
Forget(h) == mem' = [mem EXCEPT ![h] = Nothing]
Hold(h, f, v) == mem' = [mem EXCEPT ![h][f] = v]
Leave(h) ==
  /\ pc' = [pc EXCEPT ![h] = "idle"] /\ run' = [run EXCEPT ![h] = Staff]
  /\ Forget(h)

\* The job a finished invocation leaves, with jobs it queued if their keys are new.
After(h, status, new) ==
  [j \in Jobs |-> IF j = run[h] THEN status
                  ELSE IF j \in new /\ job[j] = "none" THEN "pending" ELSE job[j]]

\* An answer handed to a person ends its job "skipped".
Ended(h) == IF mem[h].force THEN "skipped" ELSE "done"
Queue(h, new) == Leave(h) /\ job' = After(h, Ended(h), new)
Done(h)  == Queue(h, {})

\* retryOrFail.  A failed job stands on the administrator's page, with Retry.
Standing == {"pending", "failed"}
Throw(h) == Leave(h) /\ \E s \in Standing : job' = After(h, s, {})

Begin(h, j, l) ==
  /\ At(h, "idle")
  /\ pc' = [pc EXCEPT ![h] = l] /\ run' = [run EXCEPT ![h] = j]

Click == clicks < MaxClicks /\ clicks' = clicks + 1
-----------------------------------------------------------------------------
(* The drain.                                                                *)

FirstOf(j) ==
  CASE j = "mark" -> "read" [] j = "evaluate" -> "evalAttempt"
    [] j \in Sends -> "sendRead" [] OTHER -> "aiRead"

\* send_outcome's precondition is the status it was queued for.
Claim(h, j) ==
  /\ job[j] = "pending"
  /\ IF j \in Sends /\ app # about[j]
     THEN job' = [job EXCEPT ![j] = "skipped"] /\ UNCHANGED self
     ELSE /\ job' = [job EXCEPT ![j] = "running"]
          /\ Begin(h, j, FirstOf(j)) /\ Keep(h)
  /\ UNCHANGED <<app, paper, file, desk, clicks, crashes>>

\* Retry, on the administrator's page of jobs.
RetryJob(j) ==
  /\ Click /\ job[j] \in {"failed", "skipped"}
  /\ job' = [job EXCEPT ![j] = "pending"]
  /\ UNCHANGED <<app, paper, file, desk, self, crashes>>
-----------------------------------------------------------------------------
(* Who gives the marks: autoMarkResponse and onWritingMarked.                *)

\* A person's mark hands the paper to people; the model's own is done already.
AiRead(h) ==
  /\ At(h, "aiRead")
  /\ Goto(h, IF mark[run[h]] = "none" THEN "aiCall" ELSE "read")
  /\ Hold(h, "force", mark[run[h]] = "rubric")
  /\ UNCHANGED <<app, paper, file, desk, job, clicks, crashes>>

AiAnswers(h) ==
  /\ At(h, "aiCall")
  /\ Goto(h, "aiMark") /\ Keep(h)
  /\ UNCHANGED <<app, paper, file, desk, job, clicks, crashes>>

\* Mutant: the run after a refusal chooses again who marks.
AiRefusesQuietly(h) ==
  /\ At(h, "aiCall")
  /\ Goto(h, "read") /\ Keep(h)
  /\ UNCHANGED <<app, paper, file, desk, job, clicks, crashes>>

\* No rubric, no band, or a refusal: the whole attempt goes to a person.
AiRefuses(h) ==
  /\ At(h, "aiCall")
  /\ Goto(h, "read") /\ Hold(h, "force", TRUE)
  /\ UNCHANGED <<app, paper, file, desk, job, clicks, crashes>>

AiThrows(h) ==
  /\ At(h, "aiCall") /\ Throw(h)
  /\ UNCHANGED <<app, paper, file, desk, clicks, crashes>>

\* Mutant: the model's mark is written to the answer it read.
AiMarkById(h) ==
  /\ At(h, "aiMark")
  /\ mark' = [mark EXCEPT ![run[h]] = "ai"]
  /\ Goto(h, "read") /\ Keep(h)
  /\ UNCHANGED <<app, score, marking, file, desk, job, clicks, crashes>>

AiMark(h) ==
  /\ At(h, "aiMark")
  /\ mark' = [mark EXCEPT ![run[h]] = IF @ = "none" THEN "ai" ELSE @]
  /\ Goto(h, "read") /\ Keep(h)
  /\ UNCHANGED <<app, score, marking, file, desk, job, clicks, crashes>>

\* An assessor marks some of the answers.
MarkWriting(h, S) ==
  /\ Click /\ S # {}
  /\ Begin(h, Staff, "write") /\ Hold(h, "todo", S)
  /\ UNCHANGED <<app, paper, file, desk, job, crashes>>

Write(h, q) ==
  /\ At(h, "write") /\ q \in mem[h].todo
  /\ mark' = [mark EXCEPT ![q] = "rubric"]
  /\ Hold(h, "todo", mem[h].todo \ {q})
  /\ Goto(h, IF mem[h].todo = {q} THEN "read" ELSE "write")
  /\ UNCHANGED <<app, score, marking, file, desk, job, clicks, crashes>>

\* Re-mark.
RemarkAttempt(h) ==
  /\ Click /\ Begin(h, Staff, "read") /\ Keep(h)
  /\ UNCHANGED <<app, paper, file, desk, job, crashes>>
-----------------------------------------------------------------------------
(* markAttempt.                                                              *)

ReadResponses(h) ==
  /\ At(h, "read")
  /\ Hold(h, "seen", {q \in Answers : mark[q] # "none"})
  /\ Goto(h, "delete")
  /\ UNCHANGED <<app, paper, file, desk, job, clicks, crashes>>

DeleteScores(h) ==
  /\ At(h, "delete")
  /\ score' = NoScore
  /\ Goto(h, "insert") /\ Keep(h)
  /\ UNCHANGED <<app, mark, marking, file, desk, job, clicks, crashes>>

\* Another run's rows are in the way: unique (attempt_id, scope, scope_id).
InsertScores(h) ==
  /\ At(h, "insert")
  /\ IF score = NoScore
     THEN score' = {mem[h].seen} /\ Goto(h, "complete") /\ Keep(h) /\ UNCHANGED job
     ELSE Throw(h) /\ UNCHANGED score
  /\ UNCHANGED <<app, mark, marking, file, desk, clicks, crashes>>

\* Mutant: an attempt awaiting marks says it is as it was.
WriteIfComplete(h) ==
  /\ At(h, "complete")
  /\ marking' = IF mem[h].seen = Answers THEN "auto_marked" ELSE marking
  /\ Goto(h, "readApp") /\ Keep(h)
  /\ UNCHANGED <<app, mark, score, file, desk, job, clicks, crashes>>

\* By id, from what this run read.
WriteComplete(h) ==
  /\ At(h, "complete")
  /\ marking' = IF mem[h].seen = Answers THEN "complete" ELSE "awaiting_rubric"
  /\ Goto(h, "readApp") /\ Keep(h)
  /\ UNCHANGED <<app, mark, score, file, desk, job, clicks, crashes>>
-----------------------------------------------------------------------------
(* runMarking, once markAttempt has returned.                                *)

\* All that is still wanted of what the run holds: how its job is to end.
KeepVerdict(h) == mem' = [mem EXCEPT ![h] = [Nothing EXCEPT !.force = mem[h].force]]

\* A paper whose child has moved on is marked, and nothing else.
ReadApp(h) ==
  /\ At(h, "readApp")
  /\ LET all == mem[h].seen = Answers IN
       \/ ~all /\ mem[h].force /\ Goto(h, "task") /\ KeepVerdict(h) /\ UNCHANGED job
       \/ ~all /\ ~mem[h].force /\ Goto(h, "automatic") /\ Keep(h) /\ UNCHANGED job
       \/ all /\ app = "assessment_completed" /\ Goto(h, "move") /\ KeepVerdict(h) /\ UNCHANGED job
       \/ all /\ app # "assessment_completed" /\ Done(h)
  /\ UNCHANGED <<app, paper, file, desk, clicks, crashes>>

\* The switch is on and the provider is real: one job for each answer left.
QueueAutomatic(h) ==
  /\ At(h, "automatic")
  /\ Queue(h, Answers \ mem[h].seen)
  /\ UNCHANGED <<app, paper, file, desk, clicks, crashes>>

ToAPerson(h) ==
  /\ At(h, "automatic")
  /\ Goto(h, "task") /\ Forget(h)
  /\ UNCHANGED <<app, paper, file, desk, job, clicks, crashes>>

FindTask(h) ==
  /\ At(h, "task")
  /\ IF "mark_writing" \in tasks THEN Done(h) ELSE Goto(h, "openTask") /\ Keep(h) /\ UNCHANGED job
  /\ UNCHANGED <<app, paper, file, desk, clicks, crashes>>

OpenTask(h) ==
  /\ At(h, "openTask")
  /\ tasks' = tasks \cup {"mark_writing"}
  /\ Done(h)
  /\ UNCHANGED <<app, paper, file, letters, booked, about, clicks, crashes>>

\* Mutant: a refused commit is somebody else's news.
AssessmentMarkedOnce(h) ==
  /\ At(h, "move")
  /\ IF app = "assessment_completed"
     THEN /\ app' = "awaiting_decision" /\ tasks' = tasks \ {"mark_writing"}
          /\ Done(h)
     ELSE Done(h) /\ UNCHANGED <<app, tasks>>
  /\ UNCHANGED <<paper, file, letters, booked, about, clicks, crashes>>

AssessmentMarked(h) ==
  /\ At(h, "move")
  /\ IF app = "assessment_completed"
     THEN /\ app' = "awaiting_decision" /\ tasks' = tasks \ {"mark_writing"}
          /\ Queue(h, {"evaluate"})
     ELSE Throw(h) /\ UNCHANGED <<app, tasks>>
  /\ UNCHANGED <<paper, file, letters, booked, about, clicks, crashes>>
-----------------------------------------------------------------------------
(* evaluateAndDecide.                                                        *)

EvalAttempt(h) ==
  /\ At(h, "evalAttempt")
  /\ IF marking = "complete" THEN Goto(h, "evalApp") /\ Keep(h) /\ UNCHANGED job ELSE Throw(h)
  /\ UNCHANGED <<app, paper, file, desk, clicks, crashes>>

EvalApp(h) ==
  /\ At(h, "evalApp")
  /\ IF app = "awaiting_decision"
     THEN Goto(h, "evalExisting") /\ Hold(h, "app", app) /\ UNCHANGED job
     ELSE Done(h)
  /\ UNCHANGED <<app, paper, file, desk, clicks, crashes>>

EvalExisting(h) ==
  /\ At(h, "evalExisting")
  /\ IF \E i \in DOMAIN rows : rows[i].paper
     THEN Done(h) ELSE Goto(h, "evalScores") /\ Keep(h) /\ UNCHANGED job
  /\ UNCHANGED <<app, paper, file, desk, clicks, crashes>>

\* evaluateAdmission: a rule without its score is left to a person; the rest
\* depends on the marks, the places left and the ruleset, which has a rule.
Verdicts == IF score = NoScore THEN {"staff_review"} ELSE Outcome

EvalScores(h) ==
  /\ At(h, "evalScores")
  /\ \E o \in Verdicts :
       mem' = [mem EXCEPT ![h] = [@ EXCEPT !.outcome = o, !.paper = TRUE]]
  /\ Goto(h, "record")
  /\ UNCHANGED <<app, paper, file, desk, job, clicks, crashes>>
-----------------------------------------------------------------------------
(* onStaffDecision, and applyDecision for both.                              *)

\* The status is the one the page's action has just read.
StaffDecision(h, o) ==
  /\ Click
  /\ CanBecome(app, "approved") /\ CanBecome(app, o)
  /\ Begin(h, Staff, "latest")
  /\ mem' = [mem EXCEPT ![h] = [@ EXCEPT !.outcome = o, !.app = app]]
  /\ UNCHANGED <<app, paper, file, desk, job, crashes>>

ReadLatest(h) ==
  /\ At(h, "latest")
  /\ Hold(h, "paper", rows # <<>> /\ rows[Len(rows)].paper)
  /\ Goto(h, "record")
  /\ UNCHANGED <<app, paper, file, desk, job, clicks, crashes>>

By(h) == IF run[h] = Staff THEN "staff" ELSE "rules"

Record(h) ==
  /\ At(h, "record")
  /\ rows' = Append(rows, [by |-> By(h), outcome |-> mem[h].outcome, paper |-> mem[h].paper])
  /\ Goto(h, "decide") /\ Keep(h)
  /\ UNCHANGED <<app, paper, decided, desk, job, clicks, crashes>>

\* What the commit raises: autoSendOutcomes chooses between a job and a task.
TaskFor(o) ==
  CASE o = "staff_review" -> {{"review_decision"}}
    [] o = "approved" -> {{}}
    [] OTHER -> {{}, {"send_outcome"}}

\* The letter's job: its key is the time, so that its row is always a new one.
QueueLetter(h, o, queued) ==
  IF queued
  THEN \E s \in Sends : /\ job[s] = "none" /\ Queue(h, {s})
                        /\ about' = [about EXCEPT ![s] = o]
  ELSE Done(h) /\ UNCHANGED about

Decide(h) ==
  /\ At(h, "decide")
  /\ TidyAlone => \A g \in Handlers : ~At(g, "tidy")
  /\ IF app = mem[h].app
     THEN \E T \in TaskFor(mem[h].outcome) :
            /\ app' = mem[h].outcome /\ decided' = By(h)
            /\ tasks' = IF mem[h].outcome = "staff_review" THEN tasks \cup T
                        ELSE (tasks \ {"review_decision"}) \cup T
            /\ letters' = letters \ {mem[h].outcome}
            /\ QueueLetter(h, mem[h].outcome, T = {} /\ mem[h].outcome \in Letter)
     ELSE Throw(h) /\ UNCHANGED <<app, decided, tasks, letters, about>>
  /\ UNCHANGED <<paper, rows, booked, clicks, crashes>>
-----------------------------------------------------------------------------
(* onOutcomeSent, by the job or by Send.                                     *)

SendOutcome(h) ==
  /\ "send_outcome" \in tasks /\ Begin(h, Staff, "sendRead") /\ Keep(h)
  /\ UNCHANGED <<app, paper, file, desk, job, clicks, crashes>>

ReadToSend(h) ==
  /\ At(h, "sendRead")
  /\ IF app \in Letter
     THEN /\ Hold(h, "app", app) /\ UNCHANGED job
          /\ Goto(h, IF app = "declined" THEN "cancel" ELSE "send")
     ELSE Throw(h)
  /\ UNCHANGED <<app, paper, file, desk, clicks, crashes>>

CancelBookings(h) ==
  /\ At(h, "cancel")
  /\ booked' = FALSE
  /\ Goto(h, "send") /\ Keep(h)
  /\ UNCHANGED <<app, paper, file, tasks, letters, about, job, clicks, crashes>>

Send(h) ==
  /\ At(h, "send")
  /\ IF app = mem[h].app
     THEN /\ letters' = letters \cup {app} /\ tasks' = tasks \ {"send_outcome"} /\ Done(h)
     ELSE Throw(h) /\ UNCHANGED <<letters, tasks>>
  /\ UNCHANGED <<app, paper, file, booked, about, clicks, crashes>>
-----------------------------------------------------------------------------
(* What officers do to the child beside the paper.  None of it touches jobs but *)
(* the tidying of a move back; a task it makes pointless is closed with it.    *)

\* To Offer, Payment or Registration, by hand or by the offer's own job.
MovedOn ==
  /\ Click
  /\ app \in {"assessment_completed", "awaiting_decision", "staff_review", "waitlisted",
             "approved", "deferred"}
  /\ app' = "elsewhere"
  /\ tasks' \in {tasks, tasks \ {"review_decision", "send_outcome"}}
  /\ UNCHANGED <<paper, file, letters, booked, about, job, self, crashes>>

\* Paused, and a sitting or visit still ahead cancelled.
Deferred ==
  /\ Click
  /\ app \in {"assessment_completed", "awaiting_decision", "staff_review"}
  /\ app' = "deferred" /\ booked' \in {booked, FALSE}
  /\ UNCHANGED <<paper, file, tasks, letters, about, job, self, crashes>>

Withdrawn ==
  /\ Click
  /\ app \notin {"declined", "withdrawn"}
  /\ app' = "withdrawn" /\ booked' = FALSE /\ tasks' = {}
  /\ UNCHANGED <<paper, file, letters, about, job, self, crashes>>

\* To Decision without the marks, or back there after a pause: no task, no job.
ToDecision ==
  /\ Click
  /\ app \in {"assessment_completed", "deferred"}
  /\ app' = "awaiting_decision" /\ decided' = "hand"
  /\ UNCHANGED <<paper, rows, desk, job, self, crashes>>

\* Back to Decision, with a task to decide again unless the family is pausing;
\* or from Payment or Registration back to a draft letter.
MoveBack(h, again) ==
  /\ Click /\ app \in {"approved", "elsewhere"}
  /\ Begin(h, Staff, "tidy") /\ Keep(h)
  /\ app' = "awaiting_decision"
  /\ decided' = IF again THEN "back" ELSE "hand"
  /\ tasks' = IF again THEN tasks \cup {"review_decision"} ELSE tasks
  /\ UNCHANGED <<paper, rows, letters, booked, about, job, crashes>>

BackToOffer(h) ==
  /\ Click /\ app = "elsewhere" /\ Begin(h, Staff, "tidy") /\ Keep(h)
  /\ UNCHANGED <<app, paper, file, desk, job, crashes>>

\* STALE_AFTER_MOVE_BACK: what was queued to be sent is skipped.
Tidy(h) ==
  /\ At(h, "tidy") /\ Leave(h)
  /\ job' = [j \in Jobs |-> IF j \in Sends /\ job[j] = "pending" THEN "skipped" ELSE job[j]]
  /\ letters' \in SUBSET letters
  /\ UNCHANGED <<app, paper, file, tasks, booked, about, clicks, crashes>>

\* A killed drain's job is claimed again once its lock is old.
Crash(h) ==
  /\ ~At(h, "idle") /\ crashes < MaxCrashes
  /\ crashes' = crashes + 1
  /\ Leave(h) /\ job' = After(h, "pending", {})
  /\ UNCHANGED <<app, paper, file, desk, clicks>>
-----------------------------------------------------------------------------
Marks(h) ==
  \/ AiRead(h) \/ AiAnswers(h) \/ AiRefuses(h) \/ AiThrows(h) \/ AiMark(h)
  \/ \E q \in Answers : Write(h, q)
Runs(h) ==
  \/ ReadResponses(h) \/ DeleteScores(h) \/ InsertScores(h) \/ WriteComplete(h)
  \/ ReadApp(h) \/ QueueAutomatic(h) \/ ToAPerson(h) \/ FindTask(h) \/ OpenTask(h)
  \/ AssessmentMarked(h)
Decides(h) ==
  \/ EvalAttempt(h) \/ EvalApp(h) \/ EvalExisting(h) \/ EvalScores(h)
  \/ ReadLatest(h) \/ Record(h) \/ Decide(h)
Tells(h) == ReadToSend(h) \/ CancelBookings(h) \/ Send(h)

Step(h) == Marks(h) \/ Runs(h) \/ Decides(h) \/ Tells(h)

Desk(h) ==
  \/ \E S \in SUBSET Answers : MarkWriting(h, S)
  \/ RemarkAttempt(h) \/ SendOutcome(h)
  \/ \E o \in Outcome \ {"staff_review"} : StaffDecision(h, o)

Moves(h) == BackToOffer(h) \/ Tidy(h) \/ \E again \in BOOLEAN : MoveBack(h, again)

Next ==
  \/ \E h \in Handlers :
       Step(h) \/ Desk(h) \/ Moves(h) \/ Crash(h) \/ \E j \in Jobs : Claim(h, j)
  \/ \E j \in Jobs : RetryJob(j)
  \/ MovedOn \/ Deferred \/ Withdrawn \/ ToDecision

Spec == Init /\ [][Next]_vars
-----------------------------------------------------------------------------
Quiet == \A h \in Handlers : At(h, "idle")
AllMarked == \A q \in Answers : mark[q] # "none"
Stands(j) == job[j] \in Standing

\* Every row, job and invocation is one the code can write.
TypeOK ==
  /\ app \in Status /\ mark \in [Answers -> {"none", "ai", "rubric"}]
  /\ score \in {NoScore} \cup {{S} : S \in SUBSET Answers}
  /\ marking \in {"pending", "awaiting_rubric", "complete"}
  /\ rows \in Seq(Row) /\ decided \in {"none", "rules", "staff", "back", "hand"}
  /\ tasks \subseteq TaskType /\ letters \subseteq Letter /\ booked \in BOOLEAN
  /\ about \in [Sends -> Letter \cup {"none"}]
  /\ job \in [Jobs -> {"none", "pending", "running", "done", "skipped", "failed"}]
  /\ pc \in [Handlers -> PC] /\ run \in [Handlers -> Jobs \cup {Staff}]
  /\ mem \in [Handlers ->
       [todo : SUBSET Answers, seen : SUBSET Answers, force : BOOLEAN, app : Status,
        outcome : Outcome, paper : BOOLEAN]]
  /\ clicks \in Nat /\ crashes \in Nat

\* What a person decided stands: neither the model's mark, however long it took
\* over the answer, nor the rules, evaluated beside the officer, replace it; only
\* a person sets it aside, by moving the child to Decision again (auto-mark.ts "A
\* person's mark is never overwritten"; the commit's status).
PersonStands ==
  [][ /\ \A q \in Answers : mark[q] = "rubric" => mark'[q] = "rubric"
      /\ decided = "staff" => decided' \in {"staff", "back", "hand"} ]_vars

\* A paper handed in is never lost sight of: once every invocation has ended, the
\* child is on to a decision, or an assessor has the task, or a job that marks is
\* queued or, its tries spent, stands failed on the administrator's page, whoever
\* marked what and whichever run of marking was refused, overtaken or killed
\* (runMarking, queueAutomaticMarking, retryOrFail).
MarkingGoesOn ==
  Quiet /\ app = "assessment_completed" =>
    "mark_writing" \in tasks \/ \E j \in {"mark"} \cup Answers : Stands(j)

\* Nor is the decision, unless an invocation was killed: for a child the marks
\* brought to Decision the rules are queued or failed, one moved back has a task to
\* decide again, and one referred its review; the letter of an outcome, decided for
\* the first time or again, is sent, queued, failed, or somebody's to send; and a
\* decline is sent once the visit ahead is cancelled.
DecisionGoesOn ==
  Quiet /\ crashes = 0 =>
    /\ app = "awaiting_decision" /\ decided = "none" => Stands("evaluate")
    /\ app = "awaiting_decision" /\ decided = "back" => "review_decision" \in tasks
    /\ app = "staff_review" => "review_decision" \in tasks
    /\ "declined" \in letters => ~booked
    /\ app \in Letter =>
         \/ app \in letters \/ "send_outcome" \in tasks
         \/ \E s \in Sends : about[s] = app /\ Stands(s)

\* "The attempt completes when the last one lands": with every answer marked, the
\* child brought to Decision by the marks and no job left to mark, the attempt is
\* fully marked, so the rules may decide on it (assessment-actions.ts,
\* queueAutomaticMarking).
LastMarkCompletes ==
  Quiet /\ crashes = 0 /\ AllMarked /\ (\A j \in {"mark"} \cup Answers : ~Stands(j)) =>
    (app = "awaiting_decision" /\ decided = "none" => marking = "complete")
=============================================================================
