----------------------------- MODULE MarkingProofs -----------------------------
(* What Marking keeps for any number of answers, invocations, clicks and      *)
(* killed invocations.                                                       *)
EXTENDS Marking, TLAPS

Memory ==
  [todo : SUBSET Answers, seen : SUBSET Answers, force : BOOLEAN, app : Status,
   outcome : Outcome, paper : BOOLEAN]

PaperOK ==
  /\ app \in Status /\ mark \in [Answers -> {"none", "ai", "rubric"}]
  /\ score \in {NoScore} \cup {{S} : S \in SUBSET Answers}
  /\ marking \in {"pending", "awaiting_rubric", "complete"}
FileOK ==
  /\ rows \in Seq(Row) /\ decided \in {"none", "rules", "staff", "back", "hand"}
  /\ tasks \subseteq TaskType /\ letters \subseteq Letter /\ booked \in BOOLEAN
  /\ about \in [Sends -> Letter \cup {"none"}]
  /\ clicks \in Nat /\ crashes \in Nat
JobsOK == job \in [Jobs -> {"none", "pending", "running", "done", "skipped", "failed"}]
SelfOK ==
  /\ pc \in [Handlers -> PC] /\ run \in [Handlers -> Jobs \cup {Staff}]
  /\ mem \in [Handlers -> Memory]

TypeInv == PaperOK /\ FileOK /\ JobsOK /\ SelfOK

\* The status an invocation found when it set out: a letter is written for one
\* that has a letter, and the rules decide on one that awaits them.
Ruling == {"evalExisting", "evalScores", "record", "decide"}
Held ==
  \A h \in Handlers :
    /\ pc[h] \in {"cancel", "send"} => mem[h].app \in Letter
    /\ pc[h] \in Ruling /\ run[h] # Staff => mem[h].app = "awaiting_decision"
    /\ pc[h] = "latest" => run[h] = Staff

\* How an invocation's job may end, and an invocation that ends: its job so, and
\* others queued.
Over  == {"done", "skipped"}
Final == Over \cup Standing
Ends(h, s, new) == Leave(h) /\ job' = After(h, s, new)

LEMMA TypeParts == TypeOK <=> TypeInv
  BY DEF TypeOK, TypeInv, PaperOK, FileOK, JobsOK, SelfOK, Memory

LEMMA MemoryFields ==
  ASSUME NEW m \in Memory
  PROVE  /\ m.todo \in SUBSET Answers /\ m.seen \in SUBSET Answers /\ m.force \in BOOLEAN
         /\ m.app \in Status /\ m.outcome \in Outcome /\ m.paper \in BOOLEAN
  BY DEF Memory

LEMMA NothingInMemory == Nothing \in Memory
  BY DEF Nothing, Memory, Status, Outcome

LEMMA VerdictInMemory ==
  ASSUME NEW b \in BOOLEAN
  PROVE  [Nothing EXCEPT !.force = b] \in Memory
  BY NothingInMemory DEF Memory

\* What an invocation remembers on the way.
LEMMA HoldSet ==
  ASSUME NEW m \in Memory, NEW S \in SUBSET Answers
  PROVE  /\ [m EXCEPT !["todo"] = S] \in Memory /\ [m EXCEPT !["todo"] = S].app = m.app
         /\ [m EXCEPT !["seen"] = S] \in Memory /\ [m EXCEPT !["seen"] = S].app = m.app
  BY DEF Memory

LEMMA HoldFlag ==
  ASSUME NEW m \in Memory, NEW b \in BOOLEAN
  PROVE  /\ [m EXCEPT !["force"] = b] \in Memory /\ [m EXCEPT !["force"] = b].app = m.app
         /\ [m EXCEPT !["paper"] = b] \in Memory /\ [m EXCEPT !["paper"] = b].app = m.app
  BY DEF Memory

LEMMA HoldApp ==
  ASSUME NEW m \in Memory, NEW a \in Status
  PROVE  [m EXCEPT !["app"] = a] \in Memory /\ [m EXCEPT !["app"] = a].app = a
  BY DEF Memory

LEMMA HoldVerdict ==
  ASSUME NEW m \in Memory, NEW o \in Outcome
  PROVE  /\ [m EXCEPT !.outcome = o, !.paper = TRUE] \in Memory
         /\ [m EXCEPT !.outcome = o, !.paper = TRUE].app = m.app
  BY DEF Memory

LEMMA HoldDecision ==
  ASSUME NEW m \in Memory, NEW o \in Outcome, NEW a \in Status
  PROVE  [m EXCEPT !.outcome = o, !.app = a] \in Memory
  BY DEF Memory

-----------------------------------------------------------------------------
(* The pieces the actions are made of keep the types.                        *)

LEMMA GotoKeeps ==
  ASSUME SelfOK, NEW h \in Handlers, NEW l \in PC, Goto(h, l), NEW m \in Memory,
         mem' = [mem EXCEPT ![h] = m]
  PROVE  SelfOK'
  BY DEF SelfOK, Goto

LEMMA StepKeeps ==
  ASSUME SelfOK, NEW h \in Handlers, NEW l \in PC, Goto(h, l),
         Keep(h) \/ Forget(h) \/ KeepVerdict(h)
  PROVE  SelfOK'
  <1>1. mem[h].force \in BOOLEAN
    BY MemoryFields DEF SelfOK
  <1>2. KeepVerdict(h) => mem' \in [Handlers -> Memory]
    BY <1>1, VerdictInMemory DEF KeepVerdict, SelfOK
  <1> QED
    BY <1>2, NothingInMemory DEF SelfOK, Goto, Keep, Forget

LEMMA BeginKeeps ==
  ASSUME SelfOK, NEW h \in Handlers, NEW l \in PC, NEW j \in Jobs \cup {Staff}, Begin(h, j, l),
         NEW m \in Memory, mem' = [mem EXCEPT ![h] = m] \/ Keep(h)
  PROVE  SelfOK'
  BY DEF SelfOK, Begin, Keep

LEMMA EndOf ==
  /\ Over \subseteq Final /\ Standing \subseteq Final /\ Over \cap Standing = {}
  /\ \A h : /\ Done(h) => \E s \in Over : Ends(h, s, {})
            /\ Throw(h) => \E s \in Standing : Ends(h, s, {})
            /\ \A new : Queue(h, new) => \E s \in Over : Ends(h, s, new)
            /\ Crash(h) => \E s \in Standing : Ends(h, s, {})
  BY DEF Done, Throw, Queue, Ends, Ended, Over, Crash, Standing, Final

\* The two actions that fill two fields of the memory, but for what they fill.
LEMMA EvalScoresFrame ==
  ASSUME NEW h, EvalScores(h)
  PROVE  At(h, "evalScores") /\ Goto(h, "record") /\ UNCHANGED <<app, paper, file, desk, job, clicks, crashes>>
  BY Zenon DEF EvalScores

LEMMA StaffDecisionFrame ==
  ASSUME NEW h, NEW o, StaffDecision(h, o)
  PROVE  /\ Click /\ CanBecome(app, "approved") /\ CanBecome(app, o) /\ Begin(h, Staff, "latest")
         /\ UNCHANGED <<app, paper, file, desk, job, crashes>>
  BY Zenon DEF StaffDecision

LEMMA AfterIsJobs ==
  ASSUME JobsOK, NEW h, NEW new, NEW s \in Final
  PROVE  After(h, s, new) \in [Jobs -> {"none", "pending", "running", "done", "skipped", "failed"}]
  BY DEF JobsOK, After, Final, Over, Standing

LEMMA LeaveKeeps ==
  ASSUME SelfOK, JobsOK, NEW h \in Handlers,
         Done(h) \/ Throw(h) \/ Crash(h) \/ \E new : Queue(h, new)
  PROVE  SelfOK' /\ JobsOK'
  <1>1. \E s \in Final : \E new : Ends(h, s, new)
    BY EndOf
  <1>2. Leave(h) /\ JobsOK'
    BY <1>1, AfterIsJobs DEF Ends, JobsOK
  <1> QED
    BY <1>2, NothingInMemory DEF Leave, Forget, SelfOK, PC

-----------------------------------------------------------------------------
(* One lemma for each group of statements.                                   *)

LEMMA MarksType ==
  ASSUME TypeInv, NEW h \in Handlers, Marks(h)
  PROVE  TypeInv'
  <1> USE DEF TypeInv, paper, file, desk
  <1>0. mem[h] \in Memory /\ mem[h].todo \in SUBSET Answers
    BY MemoryFields DEF SelfOK
  <1>1. CASE AiRead(h)
    <2> DEFINE b == mark[run[h]] = "rubric"
    <2>1. mem' = [mem EXCEPT ![h] = [mem[h] EXCEPT !["force"] = b]] /\ b \in BOOLEAN
      BY <1>1 DEF AiRead, Hold
    <2>2. PaperOK' /\ FileOK' /\ JobsOK'
      BY <1>1 DEF AiRead, PaperOK, FileOK, JobsOK
    <2> HIDE DEF b
    <2> QED
      BY <1>0, <1>1, <2>1, <2>2, HoldFlag, GotoKeeps DEF AiRead, PC
  <1>2. CASE AiRefuses(h)
    <2>1. mem' = [mem EXCEPT ![h] = [mem[h] EXCEPT !["force"] = TRUE]]
      BY <1>2 DEF AiRefuses, Hold
    <2>2. PaperOK' /\ FileOK' /\ JobsOK'
      BY <1>2 DEF AiRefuses, PaperOK, FileOK, JobsOK
    <2> QED
      BY <1>0, <1>2, <2>1, <2>2, HoldFlag, GotoKeeps DEF AiRefuses, PC
  <1>3. CASE AiAnswers(h) \/ AiThrows(h)
    <2>1. PaperOK' /\ FileOK'
      BY <1>3 DEF AiAnswers, AiThrows, PaperOK, FileOK
    <2> QED
      BY <1>3, <2>1, StepKeeps, LeaveKeeps DEF AiAnswers, AiThrows, PC, JobsOK
  <1>4. CASE AiMark(h)
    <2>1. PaperOK' /\ FileOK' /\ JobsOK'
      BY <1>4 DEF AiMark, PaperOK, FileOK, JobsOK
    <2> QED
      BY <1>4, <2>1, StepKeeps DEF AiMark, PC
  <1>5. ASSUME NEW q \in Answers, Write(h, q) PROVE TypeInv'
    <2> DEFINE S == mem[h].todo \ {q}
    <2>1. mem' = [mem EXCEPT ![h] = [mem[h] EXCEPT !["todo"] = S]] /\ S \in SUBSET Answers
      BY <1>0, <1>5 DEF Write, Hold
    <2>2. PaperOK' /\ FileOK' /\ JobsOK'
      BY <1>5 DEF Write, PaperOK, FileOK, JobsOK
    <2>3. \E l \in {"read", "write"} : Goto(h, l)
      BY <1>5 DEF Write
    <2> HIDE DEF S
    <2> QED
      BY <1>0, <2>1, <2>2, <2>3, HoldSet, GotoKeeps DEF PC
  <1> QED
    BY <1>1, <1>2, <1>3, <1>4, <1>5 DEF Marks

LEMMA RunsType ==
  ASSUME TypeInv, NEW h \in Handlers, Runs(h)
  PROVE  TypeInv'
  <1> USE DEF TypeInv, paper, file, desk
  <1>0. mem[h] \in Memory /\ mem[h].seen \in SUBSET Answers
    BY MemoryFields DEF SelfOK
  <1>1. CASE ReadResponses(h)
    <2> DEFINE S == {q \in Answers : mark[q] # "none"}
    <2>1. mem' = [mem EXCEPT ![h] = [mem[h] EXCEPT !["seen"] = S]] /\ S \in SUBSET Answers
      BY <1>1 DEF ReadResponses, Hold
    <2>2. PaperOK' /\ FileOK' /\ JobsOK'
      BY <1>1 DEF ReadResponses, PaperOK, FileOK, JobsOK
    <2> HIDE DEF S
    <2> QED
      BY <1>0, <1>1, <2>1, <2>2, HoldSet, GotoKeeps DEF ReadResponses, PC
  <1>2. CASE DeleteScores(h)
    <2>1. PaperOK' /\ FileOK' /\ JobsOK'
      BY <1>2 DEF DeleteScores, PaperOK, FileOK, JobsOK
    <2> QED
      BY <1>2, <2>1, StepKeeps DEF DeleteScores, PC
  <1>3. CASE InsertScores(h)
    <2>1. PaperOK' /\ FileOK'
      BY <1>0, <1>3 DEF InsertScores, PaperOK, FileOK
    <2> QED
      BY <1>3, <2>1, StepKeeps, LeaveKeeps DEF InsertScores, PC, JobsOK
  <1>4. CASE WriteComplete(h)
    <2>1. PaperOK' /\ FileOK' /\ JobsOK'
      BY <1>4 DEF WriteComplete, PaperOK, FileOK, JobsOK
    <2> QED
      BY <1>4, <2>1, StepKeeps DEF WriteComplete, PC
  <1>5. CASE ReadApp(h) \/ ToAPerson(h) \/ FindTask(h)
    <2>1. PaperOK' /\ FileOK'
      BY <1>5 DEF ReadApp, ToAPerson, FindTask, PaperOK, FileOK
    <2> QED
      BY <1>5, <2>1, StepKeeps, LeaveKeeps DEF ReadApp, ToAPerson, FindTask, PC, JobsOK
  <1>6. CASE QueueAutomatic(h)
    <2>1. PaperOK' /\ FileOK'
      BY <1>6 DEF QueueAutomatic, PaperOK, FileOK
    <2> QED
      BY <1>6, <2>1, LeaveKeeps DEF QueueAutomatic
  <1>7. CASE OpenTask(h)
    <2>1. PaperOK' /\ FileOK'
      BY <1>7 DEF OpenTask, PaperOK, FileOK, TaskType
    <2> QED
      BY <1>7, <2>1, LeaveKeeps DEF OpenTask
  <1>8. CASE AssessmentMarked(h)
    <2>1. PaperOK' /\ FileOK'
      BY <1>8 DEF AssessmentMarked, PaperOK, FileOK, Status
    <2> QED
      BY <1>8, <2>1, LeaveKeeps DEF AssessmentMarked
  <1> QED
    BY <1>1, <1>2, <1>3, <1>4, <1>5, <1>6, <1>7, <1>8 DEF Runs

LEMMA DecidesType ==
  ASSUME TypeInv, NEW h \in Handlers, Decides(h)
  PROVE  TypeInv'
  <1> USE DEF TypeInv, paper, file, desk
  <1>0. mem[h] \in Memory /\ mem[h].outcome \in Outcome /\ mem[h].paper \in BOOLEAN
    BY MemoryFields DEF SelfOK
  <1>1. CASE EvalAttempt(h) \/ EvalExisting(h)
    <2>1. PaperOK' /\ FileOK'
      BY <1>1 DEF EvalAttempt, EvalExisting, PaperOK, FileOK
    <2> QED
      BY <1>1, <2>1, StepKeeps, LeaveKeeps DEF EvalAttempt, EvalExisting, PC, JobsOK
  <1>2. CASE EvalApp(h)
    <2>1. PaperOK' /\ FileOK'
      BY <1>2 DEF EvalApp, PaperOK, FileOK
    <2>2. CASE Goto(h, "evalExisting") /\ Hold(h, "app", app) /\ UNCHANGED job
      <3>1. mem' = [mem EXCEPT ![h] = [mem[h] EXCEPT !["app"] = app]] /\ app \in Status
        BY <2>2 DEF Hold, PaperOK
      <3> QED
        BY <1>0, <2>1, <2>2, <3>1, HoldApp, GotoKeeps DEF PC, JobsOK
    <2> QED
      BY <1>2, <2>1, <2>2, LeaveKeeps DEF EvalApp
  <1>3. CASE EvalScores(h)
    <2>1. PaperOK' /\ FileOK' /\ JobsOK'
      BY <1>3 DEF EvalScores, PaperOK, FileOK, JobsOK
    <2>2. PICK o \in Outcome : mem' = [mem EXCEPT ![h] = [@ EXCEPT !.outcome = o, !.paper = TRUE]]
      BY <1>3, Zenon DEF EvalScores, Verdicts, Outcome
    <2> DEFINE m == [mem[h] EXCEPT !.outcome = o, !.paper = TRUE]
    <2>3. mem' = [mem EXCEPT ![h] = m]
      BY <2>2, Zenon
    <2>4. Goto(h, "record") /\ "record" \in PC
      BY <1>3 DEF EvalScores, PC
    <2>5. m \in Memory
      BY <1>0, HoldVerdict, Zenon
    <2> HIDE DEF m
    <2> QED
      BY <2>1, <2>3, <2>4, <2>5, GotoKeeps
  <1>4. CASE ReadLatest(h)
    <2> DEFINE b == rows # <<>> /\ rows[Len(rows)].paper
    <2>1. b \in BOOLEAN
      <3>1. rows # <<>> => rows[Len(rows)] \in Row
        BY DEF FileOK
      <3> QED
        BY <3>1 DEF Row
    <2>2. mem' = [mem EXCEPT ![h] = [mem[h] EXCEPT !["paper"] = b]]
      BY <1>4 DEF ReadLatest, Hold
    <2>3. PaperOK' /\ FileOK' /\ JobsOK'
      BY <1>4 DEF ReadLatest, PaperOK, FileOK, JobsOK
    <2>4. Goto(h, "record")
      BY <1>4 DEF ReadLatest
    <2> HIDE DEF b
    <2> QED
      BY <1>0, <2>1, <2>2, <2>3, <2>4, HoldFlag, GotoKeeps DEF PC
  <1>5. CASE Record(h)
    <2> DEFINE r == [by |-> By(h), outcome |-> mem[h].outcome, paper |-> mem[h].paper]
    <2>1. r \in Row
      BY <1>0 DEF Row, By
    <2>2. rows' = Append(rows, r) /\ Goto(h, "decide") /\ Keep(h)
      BY <1>5 DEF Record
    <2> HIDE DEF r
    <2>3. rows' \in Seq(Row)
      BY <2>1, <2>2 DEF FileOK
    <2>4. PaperOK' /\ FileOK' /\ JobsOK'
      BY <1>5, <2>3 DEF Record, PaperOK, FileOK, JobsOK
    <2> QED
      BY <2>2, <2>4, StepKeeps DEF PC
  <1>6. CASE Decide(h)
    <2>1. By(h) \in {"rules", "staff"}
      BY DEF By
    <2>2. \A T \in TaskFor(mem[h].outcome) : T \subseteq TaskType
      BY DEF TaskFor, TaskType
    <2>3. \A o \in Letter, q \in BOOLEAN : QueueLetter(h, o, q) =>
            about' \in [Sends -> Letter \cup {"none"}]
      BY DEF QueueLetter, FileOK
    <2>4. PaperOK' /\ FileOK'
      <3>1. CASE app = mem[h].app
        <4>1. about' \in [Sends -> Letter \cup {"none"}]
          <5>1. mem[h].outcome \notin Letter => UNCHANGED about
            BY <1>6, <3>1 DEF Decide, QueueLetter
          <5> QED
            BY <1>6, <2>3, <3>1, <5>1 DEF Decide, FileOK
        <4> QED
          BY <1>0, <1>6, <2>1, <2>2, <3>1, <4>1 DEF Decide, PaperOK, FileOK, Status
      <3>2. CASE app # mem[h].app
        BY <1>6, <3>2 DEF Decide, PaperOK, FileOK
      <3> QED
        BY <3>1, <3>2
    <2> QED
      BY <1>6, <2>4, LeaveKeeps DEF Decide, QueueLetter
  <1> QED
    BY <1>1, <1>2, <1>3, <1>4, <1>5, <1>6 DEF Decides

LEMMA TellsType ==
  ASSUME TypeInv, Held, NEW h \in Handlers, Tells(h)
  PROVE  TypeInv'
  <1> USE DEF TypeInv, paper, file, desk
  <1>0. mem[h] \in Memory
    BY DEF SelfOK
  <1>1. CASE ReadToSend(h)
    <2>1. PaperOK' /\ FileOK'
      BY <1>1 DEF ReadToSend, PaperOK, FileOK
    <2>2. CASE app \in Letter
      <3>1. mem' = [mem EXCEPT ![h] = [mem[h] EXCEPT !["app"] = app]] /\ app \in Status
        BY <1>1, <2>2 DEF ReadToSend, Hold, PaperOK
      <3>2. (\E l \in {"cancel", "send"} : Goto(h, l)) /\ UNCHANGED job
        BY <1>1, <2>2 DEF ReadToSend
      <3> QED
        BY <1>0, <2>1, <3>1, <3>2, HoldApp, GotoKeeps DEF PC, JobsOK
    <2> QED
      BY <1>1, <2>1, <2>2, LeaveKeeps DEF ReadToSend
  <1>2. CASE CancelBookings(h)
    <2>1. PaperOK' /\ FileOK' /\ JobsOK'
      BY <1>2 DEF CancelBookings, PaperOK, FileOK, JobsOK
    <2> QED
      BY <1>2, <2>1, StepKeeps DEF CancelBookings, PC
  <1>3. CASE Send(h)
    <2>1. app = mem[h].app => app \in Letter
      BY <1>3 DEF Send, At, Held
    <2>2. PaperOK' /\ FileOK'
      BY <1>3, <2>1 DEF Send, PaperOK, FileOK
    <2> QED
      BY <1>3, <2>2, LeaveKeeps DEF Send
  <1> QED
    BY <1>1, <1>2, <1>3 DEF Tells

\* Invocations that begin.
LEMMA DeskType ==
  ASSUME TypeInv, NEW h \in Handlers, Desk(h)
  PROVE  TypeInv'
  <1> USE DEF TypeInv, paper, file, desk
  <1>0. mem[h] \in Memory /\ {"write", "read", "sendRead", "latest"} \subseteq PC
    BY DEF SelfOK, PC
  <1>1. ASSUME NEW S \in SUBSET Answers, MarkWriting(h, S) PROVE TypeInv'
    <2>0. clicks' \in Nat /\ crashes' = crashes
      BY <1>1 DEF MarkWriting, Click, FileOK
    <2>1. PaperOK' /\ FileOK' /\ JobsOK'
      <3>1. PaperOK' /\ JobsOK'
        BY <1>1 DEF MarkWriting, PaperOK, JobsOK
      <3>2. FileOK'
        BY <1>1, <2>0 DEF MarkWriting, FileOK
      <3> QED
        BY <3>1, <3>2
    <2>2. mem' = [mem EXCEPT ![h] = [mem[h] EXCEPT !["todo"] = S]]
      BY <1>1 DEF MarkWriting, Hold
    <2>3. Begin(h, Staff, "write")
      BY <1>1 DEF MarkWriting
    <2> QED
      BY <1>0, <2>1, <2>2, <2>3, HoldSet, BeginKeeps
  <1>2. CASE RemarkAttempt(h) \/ SendOutcome(h)
    <2>1. PaperOK' /\ FileOK' /\ JobsOK'
      <3>1. clicks' \in Nat
        BY <1>2 DEF RemarkAttempt, SendOutcome, Click, FileOK
      <3>2. UNCHANGED <<app, paper, file, desk, job, crashes>>
        BY <1>2 DEF RemarkAttempt, SendOutcome
      <3> QED
        BY <3>1, <3>2 DEF PaperOK, FileOK, JobsOK
    <2> QED
      BY <1>0, <1>2, <2>1, BeginKeeps DEF RemarkAttempt, SendOutcome
  <1>3. ASSUME NEW o \in Outcome, StaffDecision(h, o) PROVE TypeInv'
    <2>1. PaperOK' /\ FileOK' /\ JobsOK'
      <3>1. clicks' \in Nat
        BY <1>3 DEF StaffDecision, Click, FileOK
      <3>2. UNCHANGED <<app, paper, file, desk, job, crashes>>
        BY <1>3 DEF StaffDecision
      <3> QED
        BY <3>1, <3>2 DEF PaperOK, FileOK, JobsOK
    <2> DEFINE m == [mem[h] EXCEPT !.outcome = o, !.app = app]
    <2>2. mem' = [mem EXCEPT ![h] = m]
      BY <1>3, Zenon DEF StaffDecision
    <2>3. Begin(h, Staff, "latest") /\ app \in Status
      BY <1>3 DEF StaffDecision, PaperOK
    <2>4. m \in Memory
      BY <1>0, <2>3, HoldDecision, Zenon
    <2> HIDE DEF m
    <2> QED
      BY <1>0, <2>1, <2>2, <2>3, <2>4, BeginKeeps
  <1> QED
    BY <1>1, <1>2, <1>3 DEF Desk

LEMMA FirstIsStatement == \A j : FirstOf(j) \in {"read", "evalAttempt", "sendRead", "aiRead"}
  BY DEF FirstOf

LEMMA ClaimType ==
  ASSUME TypeInv, NEW h \in Handlers, NEW j \in Jobs, Claim(h, j)
  PROVE  TypeInv'
  <1>1. PaperOK' /\ FileOK' /\ JobsOK'
    BY DEF TypeInv, Claim, PaperOK, FileOK, JobsOK, paper, file, desk
  <1>2. FirstOf(j) \in PC
    BY FirstIsStatement DEF PC
  <1>3. CASE Begin(h, j, FirstOf(j)) /\ Keep(h)
    BY <1>1, <1>2, <1>3, BeginKeeps, NothingInMemory DEF TypeInv
  <1>4. CASE UNCHANGED self
    BY <1>1, <1>4 DEF TypeInv, SelfOK, self
  <1> QED
    BY <1>3, <1>4 DEF Claim

\* What officers do, and Retry, leaves the paper and every invocation alone.
Officers == MovedOn \/ Deferred \/ Withdrawn \/ ToDecision
Outside  == Officers \/ (\E j \in Jobs : RetryJob(j)) \/ UNCHANGED vars

LEMMA OutsideKeeps ==
  ASSUME Outside
  PROVE  /\ UNCHANGED <<paper, rows, self, letters, about, crashes>>
         /\ Officers => job' = job
         /\ Officers \/ UNCHANGED <<app, file, desk>>
         /\ booked' = booked \/ booked' = FALSE
  BY DEF Outside, Officers, MovedOn, Deferred, Withdrawn, ToDecision, RetryJob, vars, paper, file,
     desk, self

LEMMA OutsideType ==
  ASSUME TypeInv, Outside
  PROVE  TypeInv'
  <1> USE DEF TypeInv, paper, file, desk
  <1>1. CASE Officers
    <2>1. clicks' \in Nat
      <3>1. clicks' = clicks + 1
        BY <1>1 DEF Officers, MovedOn, Deferred, Withdrawn, ToDecision, Click
      <3> QED
        BY <3>1 DEF FileOK
    <2>2. PaperOK'
      BY <1>1 DEF Officers, MovedOn, Deferred, Withdrawn, ToDecision, PaperOK, Status
    <2>3. FileOK'
      BY <1>1, <2>1 DEF Officers, MovedOn, Deferred, Withdrawn, ToDecision, FileOK
    <2>4. JobsOK' /\ SelfOK'
      BY <1>1 DEF Officers, MovedOn, Deferred, Withdrawn, ToDecision, JobsOK, SelfOK, self
    <2> QED
      BY <2>2, <2>3, <2>4
  <1>2. ASSUME NEW j \in Jobs, RetryJob(j) PROVE TypeInv'
    <2>1. clicks' \in Nat
      BY <1>2 DEF RetryJob, Click, FileOK
    <2> QED
      BY <1>2, <2>1 DEF RetryJob, PaperOK, FileOK, JobsOK, SelfOK, self
  <1>3. CASE UNCHANGED vars
    BY <1>3 DEF vars, PaperOK, FileOK, JobsOK, SelfOK
  <1> QED
    BY <1>1, <1>2, <1>3 DEF Outside

LEMMA CrashType ==
  ASSUME TypeInv, NEW h \in Handlers, Crash(h)
  PROVE  TypeInv'
  <1> USE DEF TypeInv, paper, file, desk
  <1>1. crashes' \in Nat /\ UNCHANGED <<app, paper, file, desk, clicks>>
    BY DEF Crash, FileOK
  <1> QED
    BY <1>1, LeaveKeeps DEF PaperOK, FileOK

LEMMA MovesType ==
  ASSUME TypeInv, NEW h \in Handlers, Moves(h)
  PROVE  TypeInv'
  <1> USE DEF TypeInv, paper, file, desk
  <1>1. ASSUME NEW again \in BOOLEAN, MoveBack(h, again) \/ BackToOffer(h) PROVE TypeInv'
    <2>1. clicks' \in Nat /\ job' = job /\ Begin(h, Staff, "tidy") /\ Keep(h)
      BY <1>1 DEF MoveBack, BackToOffer, Click, FileOK
    <2>2. PaperOK' /\ FileOK' /\ JobsOK'
      <3>1. PaperOK' /\ JobsOK'
        BY <1>1 DEF MoveBack, BackToOffer, PaperOK, JobsOK, Status
      <3>2. FileOK'
        BY <1>1, <2>1 DEF MoveBack, BackToOffer, FileOK, TaskType
      <3> QED
        BY <3>1, <3>2
    <2> QED
      BY <2>1, <2>2, BeginKeeps, NothingInMemory DEF PC
  <1>2. CASE Tidy(h)
    <2>1. PaperOK' /\ FileOK' /\ JobsOK'
      <3>1. PaperOK' /\ FileOK'
        BY <1>2 DEF Tidy, PaperOK, FileOK
      <3>2. JobsOK'
        BY <1>2 DEF Tidy, JobsOK
      <3> QED
        BY <3>1, <3>2
    <2> QED
      BY <1>2, <2>1, NothingInMemory DEF Tidy, Leave, Forget, SelfOK, PC
  <1> QED
    BY <1>1, <1>2 DEF Moves
-----------------------------------------------------------------------------
(* What an invocation found stays what it found.                             *)

Special == Ruling \cup {"cancel", "send", "latest"}

LEMMA HeldElsewhere ==
  ASSUME SelfOK, Held, NEW h \in Handlers, NEW l, l \notin Special,
         pc' = [pc EXCEPT ![h] = l],
         \A g \in Handlers \ {h} : run'[g] = run[g] /\ mem'[g] = mem[g]
  PROVE  Held'
  BY DEF SelfOK, Held, Special, Ruling

LEMMA LeaveHeld ==
  ASSUME SelfOK, Held, NEW h \in Handlers, Leave(h)
  PROVE  Held'
  <1>1. Leave(h)
    OBVIOUS
  <1>2. pc' = [pc EXCEPT ![h] = "idle"]
        /\ \A g \in Handlers \ {h} : run'[g] = run[g] /\ mem'[g] = mem[g]
    BY <1>1 DEF Leave, Forget, SelfOK
  <1> QED
    BY <1>2, HeldElsewhere DEF Special, Ruling

LEMMA GotoHeld ==
  ASSUME SelfOK, Held, NEW h \in Handlers, NEW l, Goto(h, l), l \notin Special,
         Keep(h) \/ Forget(h) \/ KeepVerdict(h) \/ \E f, v : Hold(h, f, v)
  PROVE  Held'
  <1>1. \A g \in Handlers \ {h} : run'[g] = run[g] /\ mem'[g] = mem[g]
    BY DEF Goto, Keep, Forget, KeepVerdict, Hold, SelfOK
  <1> QED
    BY <1>1, HeldElsewhere DEF Goto

LEMMA StepHeld ==
  ASSUME TypeInv, Held, NEW h \in Handlers, Step(h)
  PROVE  Held'
  <1> USE DEF TypeInv
  <1>0. mem[h] \in Memory
    BY DEF SelfOK
  <1>l. \A new : (Done(h) \/ Throw(h) \/ Queue(h, new)) => Held'
    BY LeaveHeld DEF Done, Throw, Queue
  <1>1. CASE Marks(h)
    BY <1>1, <1>l, GotoHeld DEF Marks, AiRead, AiAnswers, AiRefuses, AiThrows, AiMark,
       Write, Special, Ruling
  <1>2. CASE Runs(h)
    BY <1>2, <1>l, GotoHeld DEF Runs, ReadResponses, DeleteScores, InsertScores,
       WriteComplete, ReadApp, QueueAutomatic, ToAPerson, FindTask, OpenTask, AssessmentMarked,
       Special, Ruling
  <1>3. CASE EvalAttempt(h) \/ EvalExisting(h) \/ Record(h) \/ Decide(h)
    <2>1. CASE Goto(h, "evalApp") /\ Keep(h)
      BY <2>1, GotoHeld DEF Special, Ruling
    <2>2. CASE EvalExisting(h) /\ Goto(h, "evalScores") /\ Keep(h)
      BY <2>2 DEF EvalExisting, At, Goto, Keep, SelfOK, Held, Ruling
    <2>3. CASE Record(h)
      BY <2>3 DEF Record, At, Goto, Keep, SelfOK, Held, Ruling
    <2> QED
      BY <1>3, <2>1, <2>2, <2>3, <1>l DEF EvalAttempt, EvalExisting, Decide, QueueLetter
  <1>4. CASE EvalApp(h)
    <2>1. CASE Goto(h, "evalExisting") /\ Hold(h, "app", app) /\ app = "awaiting_decision"
      <3>1. mem' = [mem EXCEPT ![h] = [mem[h] EXCEPT !["app"] = app]] /\ app \in Status
        BY <2>1 DEF Hold, PaperOK
      <3>2. mem'[h].app = "awaiting_decision" /\ \A g \in Handlers \ {h} : mem'[g] = mem[g]
        BY <1>0, <2>1, <3>1, HoldApp DEF SelfOK
      <3> QED
        BY <2>1, <3>2 DEF Goto, SelfOK, Held, Ruling
    <2> QED
      BY <1>4, <2>1, <1>l DEF EvalApp
  <1>5. CASE EvalScores(h)
    <2>1. PICK o \in Outcome : mem' = [mem EXCEPT ![h] = [@ EXCEPT !.outcome = o, !.paper = TRUE]]
      BY <1>5, Zenon DEF EvalScores, Verdicts, Outcome
    <2> DEFINE m == [mem[h] EXCEPT !.outcome = o, !.paper = TRUE]
    <2>2. mem' = [mem EXCEPT ![h] = m]
      BY <2>1, Zenon
    <2>q. m.app = mem[h].app
      BY <1>0, HoldVerdict, Zenon
    <2> HIDE DEF m
    <2>3. mem'[h].app = mem[h].app /\ \A g \in Handlers \ {h} : mem'[g] = mem[g]
      BY <2>2, <2>q DEF SelfOK
    <2> QED
      BY <1>5, <2>3 DEF EvalScores, At, Goto, SelfOK, Held, Ruling
  <1>6. CASE ReadLatest(h)
    <2>1. run[h] = Staff /\ Goto(h, "record") /\ \E f, v : Hold(h, f, v)
      BY <1>6 DEF ReadLatest, At, Held
    <2>2. \A g \in Handlers \ {h} : mem'[g] = mem[g]
      BY <2>1 DEF Hold, SelfOK
    <2> QED
      BY <2>1, <2>2 DEF Goto, SelfOK, Held, Ruling
  <1>7. CASE ReadToSend(h)
    <2>1. CASE app \in Letter
      <3>1. mem' = [mem EXCEPT ![h] = [mem[h] EXCEPT !["app"] = app]] /\ app \in Status
        BY <1>7, <2>1 DEF ReadToSend, Hold, PaperOK
      <3>2. mem'[h].app \in Letter /\ \A g \in Handlers \ {h} : mem'[g] = mem[g]
        BY <1>0, <2>1, <3>1, HoldApp DEF SelfOK
      <3>3. \E l \in {"cancel", "send"} : Goto(h, l)
        BY <1>7, <2>1 DEF ReadToSend
      <3> QED
        BY <3>2, <3>3 DEF Goto, SelfOK, Held, Ruling
    <2> QED
      BY <1>7, <2>1, <1>l DEF ReadToSend
  <1>8. CASE CancelBookings(h)
    BY <1>8 DEF CancelBookings, At, Goto, Keep, SelfOK, Held, Ruling
  <1>9. CASE Send(h)
    BY <1>9, <1>l DEF Send
  <1> QED
    BY <1>1, <1>2, <1>3, <1>4, <1>5, <1>6, <1>7, <1>8, <1>9 DEF Step, Decides, Tells

LEMMA BeginHeld ==
  ASSUME SelfOK, Held, NEW h \in Handlers, Desk(h) \/ Moves(h) \/ \E j \in Jobs : Claim(h, j)
  PROVE  Held'
  <1>1. CASE UNCHANGED self
    BY <1>1 DEF Held, self
  <1>2. ASSUME NEW j, NEW l, Begin(h, j, l), l \notin Special \/ (l = "latest" /\ j = Staff),
               \A g \in Handlers \ {h} : mem'[g] = mem[g]
        PROVE  Held'
    BY <1>2 DEF Begin, SelfOK, Held, Special, Ruling
  <1>3. CASE Desk(h)
    <2>1. ASSUME NEW S, MarkWriting(h, S) PROVE Held'
      <3>1. Begin(h, Staff, "write") /\ \A g \in Handlers \ {h} : mem'[g] = mem[g]
        BY <2>1 DEF MarkWriting, Hold, SelfOK
      <3> QED
        BY <1>2, <3>1 DEF Special, Ruling
    <2>2. CASE RemarkAttempt(h) \/ SendOutcome(h)
      <3>1. (\E l \in {"read", "sendRead"} : Begin(h, Staff, l)) /\ mem' = mem
        BY <2>2 DEF RemarkAttempt, SendOutcome, Keep
      <3> QED
        BY <1>2, <3>1 DEF Special, Ruling
    <2>3. ASSUME NEW o, StaffDecision(h, o) PROVE Held'
      <3>1. Begin(h, Staff, "latest") /\ \A g \in Handlers \ {h} : mem'[g] = mem[g]
        BY <2>3 DEF StaffDecision, SelfOK
      <3> QED
        BY <1>2, <3>1 DEF Special, Ruling
    <2> QED
      BY <1>3, <2>1, <2>2, <2>3 DEF Desk
  <1>4. ASSUME NEW j \in Jobs, Claim(h, j) PROVE Held'
    <2>1. FirstOf(j) \notin Special
      BY FirstIsStatement DEF Special, Ruling
    <2> QED
      BY <1>1, <1>2, <1>4, <2>1 DEF Claim, Keep
  <1>5. CASE Moves(h)
    <2>1. CASE Tidy(h)
      BY <2>1, LeaveHeld DEF Tidy
    <2>2. CASE BackToOffer(h) \/ \E again \in BOOLEAN : MoveBack(h, again)
      <3>1. Begin(h, Staff, "tidy") /\ Keep(h)
        BY <2>2 DEF BackToOffer, MoveBack
      <3> QED
        BY <1>2, <3>1 DEF Keep, Special, Ruling
    <2> QED
      BY <1>5, <2>1, <2>2 DEF Moves
  <1> QED
    BY <1>3, <1>4, <1>5

LEMMA NextParts ==
  ASSUME [Next]_vars
  PROVE  \/ \E h \in Handlers :
              Step(h) \/ Desk(h) \/ Moves(h) \/ Crash(h) \/ \E j \in Jobs : Claim(h, j)
         \/ Outside
  BY DEF Next, Outside, Officers

LEMMA NextInv == TypeInv /\ Held /\ [Next]_vars => TypeInv' /\ Held'
  <1> SUFFICES ASSUME TypeInv, Held, [Next]_vars PROVE TypeInv' /\ Held'
    OBVIOUS
  <1>1. TypeInv'
    BY MarksType, RunsType, DecidesType, TellsType, DeskType, MovesType, CrashType, ClaimType,
       OutsideType, NextParts DEF Step
  <1>2. ASSUME NEW h \in Handlers, Crash(h) PROVE Held'
    BY <1>2, LeaveHeld DEF Crash, TypeInv
  <1>3. ASSUME Outside PROVE Held'
    BY <1>3, OutsideKeeps DEF Held, self
  <1> QED
    BY <1>1, <1>2, <1>3, StepHeld, BeginHeld, NextParts DEF TypeInv

LEMMA InitInv == Init => TypeInv /\ Held
  <1> SUFFICES ASSUME Init PROVE TypeInv /\ Held
    OBVIOUS
  <1>1. PaperOK
    BY DEF Init, PaperOK, Status
  <1>2. FileOK
    BY DEF Init, FileOK
  <1>3. JobsOK
    BY DEF Init, JobsOK
  <1>4. SelfOK /\ Held
    BY NothingInMemory DEF Init, SelfOK, Held, PC, Ruling
  <1> QED
    BY <1>1, <1>2, <1>3, <1>4 DEF TypeInv

\* Every row, job and invocation has its type: in particular no letter is
\* written but of a status that has one, whatever the child became meanwhile.
THEOREM TypeCorrect == Spec => []TypeOK
  <1>1. TypeInv => TypeOK
    BY TypeParts
  <1> QED
    BY <1>1, InitInv, NextInv, PTL DEF Spec
-----------------------------------------------------------------------------
(* A person's word.                                                          *)

\* Once anything is decided nothing awaits a decision, until a person moves the
\* child to Decision.
DecidedInv == decided \in {"rules", "staff"} => app \notin {"assessment_completed", "awaiting_decision"}

LEMMA OthersKeepFile ==
  ASSUME NEW h \in Handlers,
         Marks(h) \/ Runs(h) \/ Tells(h) \/ Desk(h) \/ Crash(h) \/ (\E j \in Jobs : Claim(h, j))
           \/ (Decides(h) /\ ~Decide(h))
  PROVE  /\ decided' = decided
         /\ app' # app => app = "assessment_completed"
  <1> USE DEF paper, file, desk
  <1>1. CASE Marks(h)
    BY <1>1 DEF Marks, AiRead, AiAnswers, AiRefuses, AiThrows, AiMark, Write
  <1>2. CASE Runs(h)
    BY <1>2 DEF Runs, ReadResponses, DeleteScores, InsertScores, WriteComplete, ReadApp,
       QueueAutomatic, ToAPerson, FindTask, OpenTask, AssessmentMarked
  <1>3. CASE Tells(h) \/ Desk(h) \/ Crash(h) \/ \E j \in Jobs : Claim(h, j)
    BY <1>3, StaffDecisionFrame DEF Tells, ReadToSend, CancelBookings, Send, Desk, MarkWriting,
       RemarkAttempt, SendOutcome, Crash, Claim
  <1>4. CASE Decides(h) /\ ~Decide(h)
    BY <1>4, EvalScoresFrame DEF Decides, EvalAttempt, EvalApp, EvalExisting, ReadLatest, Record
  <1> QED
    BY <1>1, <1>2, <1>3, <1>4

\* What officers do beside the paper, and a child it brings to Decision.
LEMMA OfficersDecide ==
  ASSUME Outside \/ \E h \in Handlers : Moves(h)
  PROVE  \/ decided' \in {"back", "hand"}
         \/ decided' = decided /\ (app' = app \/ app' \in {"elsewhere", "deferred", "withdrawn"})
  <1>1. CASE Outside
    BY <1>1 DEF Outside, Officers, MovedOn, Deferred, Withdrawn, ToDecision, RetryJob, vars, file
  <1>2. ASSUME NEW h \in Handlers, Moves(h)
        PROVE  decided' \in {"back", "hand"} \/ (decided' = decided /\ app' = app)
    BY <1>2 DEF Moves, MoveBack, BackToOffer, Tidy, file
  <1> QED
    BY <1>1, <1>2

LEMMA DecideStands ==
  ASSUME TypeInv, Held, DecidedInv, NEW h \in Handlers, Decide(h)
  PROVE  DecidedInv' /\ (decided = "staff" => decided' = "staff")
  <1>1. CASE app = mem[h].app
    <2>1. decided' = By(h) /\ app' = mem[h].outcome /\ mem[h].outcome \in Outcome
      BY <1>1, MemoryFields DEF Decide, TypeInv, SelfOK
    <2>2. run[h] # Staff => app = "awaiting_decision"
      BY <1>1 DEF Decide, At, Held, Ruling
    <2> QED
      BY <2>1, <2>2 DEF DecidedInv, By, Outcome, Letter
  <1>2. CASE app # mem[h].app
    BY <1>2 DEF Decide, DecidedInv
  <1> QED
    BY <1>1, <1>2

LEMMA MarkStands ==
  ASSUME TypeInv, [Next]_vars, NEW q \in Answers, mark[q] = "rubric"
  PROVE  mark'[q] = "rubric"
  <1> USE DEF paper, file, desk
  <1>1. ASSUME NEW h \in Handlers, Marks(h) PROVE mark'[q] = "rubric"
    BY <1>1 DEF Marks, AiRead, AiAnswers, AiRefuses, AiThrows, AiMark, Write, TypeInv, PaperOK
  <1>2. ASSUME NEW h \in Handlers, Runs(h) PROVE mark'[q] = "rubric"
    BY <1>2 DEF Runs, ReadResponses, DeleteScores, InsertScores, WriteComplete, ReadApp,
       QueueAutomatic, ToAPerson, FindTask, OpenTask, AssessmentMarked
  <1>3. ASSUME NEW h \in Handlers, Tells(h) \/ Desk(h) \/ Crash(h) \/ \E j \in Jobs : Claim(h, j)
        PROVE  mark'[q] = "rubric"
    BY <1>3, StaffDecisionFrame DEF Tells, ReadToSend, CancelBookings, Send, Desk, MarkWriting,
       RemarkAttempt, SendOutcome, Crash, Claim
  <1>4. ASSUME NEW h \in Handlers, Decides(h) PROVE mark'[q] = "rubric"
    BY <1>4, EvalScoresFrame DEF Decides, EvalAttempt, EvalApp, EvalExisting, ReadLatest, Record,
       Decide
  <1>5. ASSUME NEW h \in Handlers, Moves(h) PROVE mark'[q] = "rubric"
    BY <1>5 DEF Moves, MoveBack, BackToOffer, Tidy
  <1>6. CASE Outside
    BY <1>6, OutsideKeeps
  <1> QED
    BY <1>1, <1>2, <1>3, <1>4, <1>5, <1>6, NextParts DEF Step

LEMMA NextDecided ==
  ASSUME TypeInv, Held, DecidedInv, [Next]_vars
  PROVE  DecidedInv' /\ (decided = "staff" => decided' \in {"staff", "back", "hand"})
  <1>1. ASSUME NEW h \in Handlers, Step(h) \/ Desk(h) \/ Crash(h) \/ \E j \in Jobs : Claim(h, j)
        PROVE  DecidedInv' /\ (decided = "staff" => decided' = "staff")
    <2>1. CASE Decide(h)
      BY <2>1, DecideStands
    <2>2. CASE ~Decide(h)
      <3>1. decided' = decided /\ (app' # app => app = "assessment_completed")
        BY <1>1, <2>2, OthersKeepFile DEF Step
      <3> QED
        BY <3>1 DEF DecidedInv
    <2> QED
      BY <2>1, <2>2
  <1>2. CASE Outside \/ \E h \in Handlers : Moves(h)
    BY <1>2, OfficersDecide DEF DecidedInv
  <1> QED
    BY <1>1, <1>2, NextParts

\* However many runs of marking and evaluations are in flight beside the people:
\* an answer a person marked keeps that mark, and what an officer decided is not
\* decided again by the rules unless a person moves the child to Decision again.
THEOREM PersonPrevails == Spec => PersonStands
  <1>1. Init => DecidedInv
    BY DEF Init, DecidedInv
  <1>2. TypeInv /\ Held /\ DecidedInv /\ [Next]_vars
          => DecidedInv' /\ [ /\ \A q \in Answers : mark[q] = "rubric" => mark'[q] = "rubric"
                              /\ decided = "staff" => decided' \in {"staff", "back", "hand"} ]_vars
    BY NextDecided, MarkStands
  <1> QED
    BY <1>1, <1>2, InitInv, NextInv, PTL DEF Spec, PersonStands
-----------------------------------------------------------------------------
(* Who is at which statement, and who runs which job.                        *)

Asking   == {"aiRead", "aiCall", "aiMark"}
Post     == {"delete", "insert", "complete", "readApp"}
Ending   == {"automatic", "task", "openTask", "move"}
Weighing == {"evalAttempt", "evalApp", "evalExisting", "evalScores"}
Sending  == {"sendRead", "cancel", "send"}
MarkJobs == {"mark"} \cup Answers

\* Statement l is one of an invocation that runs r, a job or the staff's.
Suits(l, r) ==
  /\ l \in {"idle", "write", "latest", "tidy"} => r = Staff
  /\ l \in Asking => r \in Answers
  /\ l \in Post \cup Ending \cup {"read"} => r \in MarkJobs \cup {Staff}
  /\ l \in Weighing => r = "evaluate"
  /\ l \in {"record", "decide"} => r \in {"evaluate", Staff}
  /\ l \in Sending => r \in Sends \cup {Staff}

Flow == \A h \in Handlers : Suits(pc[h], run[h])

\* A job runs exactly while one invocation runs it.
Holders ==
  /\ \A h \in Handlers : run[h] # Staff => job[run[h]] = "running"
  /\ \A h, g \in Handlers : run[h] = run[g] /\ run[h] # Staff => h = g
  /\ \A j \in Jobs : job[j] = "running" => \E h \in Handlers : run[h] = j

LEMMA NamesApart ==
  /\ Staff \notin Jobs /\ "mark" \notin Answers /\ "evaluate" \notin MarkJobs
  /\ Sends \cap MarkJobs = {} /\ "evaluate" \notin Sends
  /\ MarkJobs \subseteq Jobs /\ Sends \subseteq Jobs /\ "evaluate" \in Jobs
  BY AnswerAssumption DEF Staff, Jobs, MarkJobs

LEMMA JobAfter ==
  ASSUME NEW h, NEW s, NEW new, Ends(h, s, new), NEW j \in Jobs
  PROVE  job'[j] = IF j = run[h] THEN s
                   ELSE IF j \in new /\ job[j] = "none" THEN "pending" ELSE job[j]
  BY DEF Ends, After

LEMMA EndHolders ==
  ASSUME SelfOK, Holders, NEW h \in Handlers, NEW s \in Final, NEW new, Ends(h, s, new)
  PROVE  Holders'
  <1>1. \A g \in Handlers : run'[g] = IF g = h THEN Staff ELSE run[g]
    BY DEF Ends, Leave, SelfOK
  <1>2. \A g \in Handlers : run[g] # Staff => run[g] \in Jobs
    BY DEF SelfOK
  <1>3. ASSUME NEW g \in Handlers, run'[g] # Staff PROVE job'[run'[g]] = "running"
    <2>1. run'[g] = run[g] /\ run[g] \in Jobs /\ run[g] # run[h] /\ job[run[g]] = "running"
      BY <1>1, <1>2, <1>3 DEF Holders
    <2> QED
      BY <2>1, JobAfter
  <1>4. ASSUME NEW j \in Jobs, job'[j] = "running" PROVE \E g \in Handlers : run'[g] = j
    <2>1. j # run[h] /\ job[j] = "running"
      BY <1>4, JobAfter DEF Final, Over, Standing
    <2>2. j # Staff
      BY NamesApart
    <2> QED
      BY <1>1, <2>1, <2>2 DEF Holders
  <1>5. \A f, g \in Handlers : run'[f] = run'[g] /\ run'[f] # Staff => f = g
    BY <1>1 DEF Holders
  <1> QED
    BY <1>3, <1>4, <1>5 DEF Holders

\* A statement ends the invocation, or goes on with the same job.
LEMMA MarksGo ==
  ASSUME NEW h \in Handlers, Flow, Marks(h)
  PROVE  \/ pc[h] \in Asking /\ \E s \in Standing : Ends(h, s, {})
         \/ \E l \in PC \ {"idle"} : Goto(h, l) /\ job' = job /\ Suits(l, run[h])
  <1> USE DEF Asking, Post, Ending, Weighing, Sending, MarkJobs, Suits, PC
  <1>1. CASE AiThrows(h)
    BY <1>1, EndOf DEF AiThrows, At
  <1>2. ASSUME NEW q \in Answers, Write(h, q) PROVE \E l \in PC \ {"idle"} : Goto(h, l) /\ job' = job /\ Suits(l, run[h])
    <2>1. run[h] = Staff /\ job' = job /\ \E l \in {"read", "write"} : Goto(h, l)
      BY <1>2 DEF Write, At, Flow
    <2> QED
      BY <2>1
  <1>3. ASSUME AiRead(h) \/ AiAnswers(h) \/ AiRefuses(h) \/ AiMark(h)
        PROVE  \E l \in PC \ {"idle"} : Goto(h, l) /\ job' = job /\ Suits(l, run[h])
    <2>1. run[h] \in Answers /\ job' = job /\ \E l \in {"read", "aiCall", "aiMark"} : Goto(h, l)
      BY <1>3 DEF AiRead, AiAnswers, AiRefuses, AiMark, At, Flow
    <2> QED
      BY <2>1
  <1> QED
    BY <1>1, <1>2, <1>3 DEF Marks

LEMMA RunsGo ==
  ASSUME NEW h \in Handlers, Flow, Runs(h)
  PROVE  /\ run[h] \in MarkJobs \cup {Staff} /\ pc[h] # "idle"
         /\ \/ \E s \in Final, new \in SUBSET ({"evaluate"} \cup Answers) : Ends(h, s, new)
            \/ \E l \in PC \ {"idle"} : Goto(h, l) /\ job' = job /\ Suits(l, run[h])
  <1>1. pc[h] \in Post \cup Ending \cup {"read"}
    BY DEF Runs, ReadResponses, DeleteScores, InsertScores, WriteComplete, ReadApp,
       QueueAutomatic, ToAPerson, FindTask, OpenTask, AssessmentMarked, At, Post, Ending
  <1>2. run[h] \in MarkJobs \cup {Staff}
    BY <1>1 DEF Flow, Suits
  <1>3. \/ Done(h) \/ Throw(h) \/ Queue(h, {"evaluate"}) \/ Queue(h, Answers \ mem[h].seen)
        \/ \E l \in Post \cup Ending : Goto(h, l) /\ job' = job
    BY DEF Runs, ReadResponses, DeleteScores, InsertScores, WriteComplete, ReadApp,
       QueueAutomatic, ToAPerson, FindTask, OpenTask, AssessmentMarked, Post, Ending
  <1>4. \A l \in Post \cup Ending : l \in PC \ {"idle"} /\ Suits(l, run[h])
    BY <1>2 DEF Post, Ending, PC, Suits, Asking, Weighing, Sending
  <1>5. "idle" \notin Post \cup Ending \cup {"read"}
    BY DEF Post, Ending
  <1> QED
    BY <1>1, <1>2, <1>3, <1>4, <1>5, EndOf

LEMMA DecidesGo ==
  ASSUME NEW h \in Handlers, Held, Flow, Decides(h)
  PROVE  /\ run[h] \in {"evaluate", Staff} /\ pc[h] # "idle"
         /\ \/ \E s \in Final, new \in SUBSET Sends : Ends(h, s, new)
            \/ \E l \in PC \ {"idle"} : Goto(h, l) /\ job' = job /\ Suits(l, run[h])
  <1> USE DEF Asking, Post, Ending, Weighing, Sending, MarkJobs, Suits, PC
  <1>1. CASE EvalAttempt(h) \/ EvalApp(h) \/ EvalExisting(h) \/ EvalScores(h)
    <2>1. run[h] = "evaluate" /\ pc[h] # "idle"
      BY <1>1, EvalScoresFrame DEF EvalAttempt, EvalApp, EvalExisting, At, Flow
    <2>2. Done(h) \/ Throw(h) \/ \E l \in Weighing \cup {"record"} : Goto(h, l) /\ job' = job
      BY <1>1, EvalScoresFrame DEF EvalAttempt, EvalApp, EvalExisting
    <2> QED
      BY <2>1, <2>2, EndOf
  <1>2. CASE ReadLatest(h) \/ Record(h)
    <2>1. run[h] \in {"evaluate", Staff} /\ pc[h] # "idle"
      BY <1>2 DEF ReadLatest, Record, At, Flow
    <2>2. \E l \in {"record", "decide"} : Goto(h, l) /\ job' = job
      BY <1>2 DEF ReadLatest, Record
    <2> QED
      BY <2>1, <2>2
  <1>3. CASE Decide(h)
    <2>1. run[h] \in {"evaluate", Staff} /\ pc[h] # "idle"
      BY <1>3 DEF Decide, At, Flow
    <2>2. Throw(h) \/ \E new \in SUBSET Sends : Queue(h, new)
      BY <1>3 DEF Decide, QueueLetter, Done
    <2> QED
      BY <2>1, <2>2, EndOf
  <1> QED
    BY <1>1, <1>2, <1>3 DEF Decides

LEMMA TellsGo ==
  ASSUME NEW h \in Handlers, Flow, Tells(h)
  PROVE  /\ run[h] \in Sends \cup {Staff} /\ pc[h] # "idle"
         /\ \/ \E s \in Final : Ends(h, s, {})
            \/ \E l \in PC \ {"idle"} : Goto(h, l) /\ job' = job /\ Suits(l, run[h])
  <1> USE DEF Asking, Post, Ending, Weighing, Sending, MarkJobs, Suits, PC
  <1>1. run[h] \in Sends \cup {Staff} /\ pc[h] # "idle"
    BY DEF Tells, ReadToSend, CancelBookings, Send, At, Flow
  <1>2. Done(h) \/ Throw(h) \/ \E l \in Sending : Goto(h, l) /\ job' = job
    BY DEF Tells, ReadToSend, CancelBookings, Send
  <1> QED
    BY <1>1, <1>2, EndOf

LEMMA NextHolders ==
  ASSUME TypeInv, Held, Flow, Holders, [Next]_vars
  PROVE  Flow' /\ Holders'
  <1> USE DEF TypeInv
  <1>0. ASSUME UNCHANGED self, \A j \in Jobs : job'[j] = "running" <=> job[j] = "running"
        PROVE  Flow' /\ Holders'
    <2>1. \A g \in Handlers : run[g] # Staff => run[g] \in Jobs
      BY DEF SelfOK
    <2> QED
      BY <1>0, <2>1 DEF Flow, Holders, self
  <1>1. ASSUME NEW h \in Handlers, NEW s \in Final, NEW new, Ends(h, s, new)
        PROVE  Flow' /\ Holders'
    <2>1. \A g \in Handlers : pc'[g] = IF g = h THEN "idle" ELSE pc[g]
      BY <1>1 DEF Ends, Leave, SelfOK
    <2>2. \A g \in Handlers : run'[g] = IF g = h THEN Staff ELSE run[g]
      BY <1>1 DEF Ends, Leave, SelfOK
    <2>3. Suits("idle", Staff)
      BY DEF Suits, Asking, Post, Ending, Weighing, Sending
    <2>4. Flow'
      BY <2>1, <2>2, <2>3 DEF Flow
    <2> QED
      BY <1>1, <2>4, EndHolders
  <1>2. ASSUME NEW h \in Handlers, NEW l, Goto(h, l), job' = job, Suits(l, run[h])
        PROVE  Flow' /\ Holders'
    <2>1. run' = run /\ \A g \in Handlers : pc'[g] = IF g = h THEN l ELSE pc[g]
      BY <1>2 DEF Goto, SelfOK
    <2>2. Flow'
      BY <1>2, <2>1 DEF Flow
    <2> QED
      BY <1>2, <2>1, <2>2 DEF Holders
  <1>3. ASSUME NEW h \in Handlers, NEW l \in {"write", "read", "sendRead", "latest", "tidy"},
               Begin(h, Staff, l), job' = job
        PROVE  Flow' /\ Holders'
    <2>1. Suits(l, Staff)
      BY DEF Suits, Asking, Post, Ending, Weighing, Sending
    <2>2. run[h] = Staff
      BY <1>3 DEF Begin, At, Flow, Suits
    <2>3. run' = run /\ \A g \in Handlers : pc'[g] = IF g = h THEN l ELSE pc[g]
      BY <1>3, <2>2 DEF Begin, SelfOK
    <2>4. Flow'
      BY <2>1, <2>2, <2>3 DEF Flow
    <2> QED
      BY <1>3, <2>3, <2>4 DEF Holders
  <1>4. ASSUME NEW h \in Handlers, NEW j \in Jobs, Claim(h, j) PROVE Flow' /\ Holders'
    <2>1. CASE job' = [job EXCEPT ![j] = "skipped"] /\ UNCHANGED self
      <3>1. job[j] = "pending"
        BY <1>4 DEF Claim
      <3>2. \A i \in Jobs : job'[i] = IF i = j THEN "skipped" ELSE job[i]
        BY <2>1 DEF JobsOK
      <3> QED
        BY <1>0, <2>1, <3>1, <3>2
    <2>2. CASE job' = [job EXCEPT ![j] = "running"] /\ Begin(h, j, FirstOf(j))
      <3>1. job[j] = "pending" /\ pc[h] = "idle" /\ run[h] = Staff
        BY <1>4, <2>2 DEF Claim, Begin, At, Flow, Suits
      <3>2. \A i \in Jobs : job'[i] = IF i = j THEN "running" ELSE job[i]
        BY <2>2 DEF JobsOK
      <3>3. \A g \in Handlers : run'[g] = IF g = h THEN j ELSE run[g]
        BY <2>2 DEF Begin, SelfOK
      <3>4. \A g \in Handlers : pc'[g] = IF g = h THEN FirstOf(j) ELSE pc[g]
        BY <2>2 DEF Begin, SelfOK
      <3>5. Suits(FirstOf(j), j)
        <4>1. j = "mark" \/ j = "evaluate" \/ j \in Sends \/ j \in Answers
          BY DEF Jobs
        <4> QED
          BY <4>1, NamesApart DEF FirstOf, Suits, Asking, Post, Ending, Weighing, Sending, MarkJobs
      <3>6. Flow'
        BY <3>3, <3>4, <3>5 DEF Flow
      <3>7. \A g \in Handlers : run[g] # Staff => run[g] \in Jobs /\ job[run[g]] = "running"
        BY DEF SelfOK, Holders
      <3>8. \A g \in Handlers : run[g] # j
        BY <3>1, <3>7, NamesApart
      <3>9. \A g \in Handlers : run'[g] # Staff => job'[run'[g]] = "running"
        BY <3>2, <3>3, <3>7
      <3>10. \A f, g \in Handlers : run'[f] = run'[g] /\ run'[f] # Staff => f = g
        BY <3>3, <3>8 DEF Holders
      <3>11. \A i \in Jobs : job'[i] = "running" => \E g \in Handlers : run'[g] = i
        BY <3>1, <3>2, <3>3, NamesApart DEF Holders
      <3> QED
        BY <3>6, <3>9, <3>10, <3>11 DEF Holders
    <2> QED
      BY <1>4, <2>1, <2>2 DEF Claim
  <1>5. ASSUME NEW h \in Handlers, Step(h) PROVE Flow' /\ Holders'
    <2>1. CASE Marks(h)
      BY <1>1, <1>2, <2>1, MarksGo, EndOf
    <2>2. CASE Runs(h)
      BY <1>1, <1>2, <2>2, RunsGo
    <2>3. CASE Decides(h) \/ Tells(h)
      BY <1>1, <1>2, <2>3, DecidesGo, TellsGo
    <2> QED
      BY <1>5, <2>1, <2>2, <2>3 DEF Step
  <1>6. ASSUME NEW h \in Handlers, Crash(h) PROVE Flow' /\ Holders'
    BY <1>1, <1>6, EndOf
  <1>7. ASSUME NEW h \in Handlers, Desk(h) PROVE Flow' /\ Holders'
    <2>1. job' = job /\ \E l \in {"write", "read", "sendRead", "latest"} : Begin(h, Staff, l)
      BY <1>7, StaffDecisionFrame DEF Desk, MarkWriting, RemarkAttempt, SendOutcome
    <2> QED
      BY <1>3, <2>1
  <1>8. ASSUME NEW h \in Handlers, Moves(h) PROVE Flow' /\ Holders'
    <2>1. CASE Tidy(h)
      <3>1. run[h] = Staff
        BY <2>1 DEF Tidy, At, Flow, Suits
      <3>2. run' = run /\ \A g \in Handlers : pc'[g] = IF g = h THEN "idle" ELSE pc[g]
        BY <2>1, <3>1 DEF Tidy, Leave, SelfOK
      <3>3. \A j \in Jobs : job'[j] = "running" <=> job[j] = "running"
        BY <2>1 DEF Tidy
      <3>4. Suits("idle", Staff)
        BY DEF Suits, Asking, Post, Ending, Weighing, Sending
      <3>5. Flow'
        BY <3>1, <3>2, <3>4 DEF Flow
      <3>6. \A g \in Handlers : run[g] # Staff => run[g] \in Jobs
        BY DEF SelfOK
      <3> QED
        BY <3>2, <3>3, <3>5, <3>6 DEF Holders
    <2> QED
      BY <1>3, <1>8, <2>1 DEF Moves, MoveBack, BackToOffer
  <1>9. ASSUME Outside PROVE Flow' /\ Holders'
    <2>1. \A j \in Jobs : job'[j] = "running" <=> job[j] = "running"
      <3>1. ASSUME NEW i \in Jobs, RetryJob(i) PROVE \A j \in Jobs : job'[j] = "running" <=> job[j] = "running"
        BY <3>1 DEF RetryJob, JobsOK
      <3> QED
        BY <1>9, <3>1, OutsideKeeps DEF Outside, vars
    <2> QED
      BY <1>0, <1>9, <2>1, OutsideKeeps
  <1> QED
    BY <1>4, <1>5, <1>6, <1>7, <1>8, <1>9, NextParts

LEMMA InitHolders == Init => Flow /\ Holders
  <1> SUFFICES ASSUME Init PROVE Flow /\ Holders
    OBVIOUS
  <1>1. Suits("idle", Staff)
    BY DEF Suits, Asking, Post, Ending, Weighing, Sending
  <1>2. Flow
    BY <1>1 DEF Init, Flow
  <1>3. \A j \in Jobs : job[j] # "running"
    BY DEF Init
  <1> QED
    BY <1>2, <1>3 DEF Init, Holders
-----------------------------------------------------------------------------
(* The paper.  A mark is written before the run that counts it reads, and is  *)
(* never taken back; so a job of one answer is over only once that answer is  *)
(* marked, or an assessor has the task.  And as long as nobody has, some job  *)
(* is queued or failed, or is run by an invocation that will see every answer, give the *)
(* paper to a person, or queue an answer nobody has.                          *)

Marked(q) == mark[q] # "none"

RunOK(h) ==
  /\ pc[h] \in Post => \A q \in mem[h].seen : Marked(q)
  /\ pc[h] \in Post \cup {"read"} /\ run[h] \in Answers => Marked(run[h]) \/ mem[h].force
  /\ pc[h] \in {"automatic", "move"} /\ run[h] \in Answers => Marked(run[h])

Good(h) ==
  /\ run[h] \in MarkJobs
  /\ \/ pc[h] \in Asking \cup {"read", "task", "openTask", "move"}
     \/ pc[h] \in Post /\ (mem[h].seen = Answers \/ mem[h].force)
     \/ pc[h] \in Post \cup {"automatic"} /\ \E q \in Answers \ mem[h].seen : job[q] = "none"

Queued == \E j \in MarkJobs : job[j] \in Standing
Waiting == app = "assessment_completed" /\ "mark_writing" \notin tasks

OnInv ==
  Waiting =>
    /\ \A q \in Answers : job[q] \in Over => Marked(q)
    /\ Queued \/ \E h \in Handlers : Good(h)

\* What a step of one invocation leaves of the others.
Beside(h) ==
  \A g \in Handlers \ {h} : pc'[g] = pc[g] /\ run'[g] = run[g] /\ mem'[g] = mem[g]

LEMMA StepBeside ==
  ASSUME SelfOK, NEW h \in Handlers,
         Step(h) \/ Desk(h) \/ Moves(h) \/ Crash(h) \/ \E j \in Jobs : Claim(h, j)
  PROVE  Beside(h)
  <1> DEFINE Local(f, g) == g = f \/ \E v : g = [f EXCEPT ![h] = v]
  <1>0. ASSUME NEW f, NEW g, Local(f, g), NEW S, f \in [Handlers -> S]
        PROVE  \A k \in Handlers \ {h} : g[k] = f[k]
    BY <1>0
  <1>1. Leave(h) => Local(pc, pc') /\ Local(run, run') /\ Local(mem, mem')
    BY DEF Leave, Forget
  <1>2. \A l : Goto(h, l) => Local(pc, pc') /\ Local(run, run')
    BY DEF Goto
  <1>3. (Keep(h) \/ Forget(h) \/ KeepVerdict(h) \/ \E x, v : Hold(h, x, v)) => Local(mem, mem')
    BY DEF Keep, Forget, KeepVerdict, Hold
  <1>4. \A j, l : Begin(h, j, l) => Local(pc, pc') /\ Local(run, run')
    BY DEF Begin
  <1>5. \A new : (Done(h) \/ Throw(h) \/ Queue(h, new)) => Leave(h)
    BY DEF Done, Throw, Queue
  <1> DEFINE All == Local(pc, pc') /\ Local(run, run') /\ Local(mem, mem')
  <1>6. ASSUME Marks(h) PROVE All
    BY <1>1, <1>2, <1>3, <1>5, <1>6 DEF Marks, AiRead, AiAnswers, AiRefuses, AiThrows, AiMark, Write
  <1>7. ASSUME Runs(h) PROVE All
    BY <1>1, <1>2, <1>3, <1>5, <1>7 DEF Runs, ReadResponses, DeleteScores, InsertScores,
       WriteComplete, ReadApp, QueueAutomatic, ToAPerson, FindTask, OpenTask, AssessmentMarked
  <1>8. ASSUME Decides(h) PROVE All
    <2>1. EvalScores(h) => All
      BY <1>2 DEF EvalScores
    <2> QED
      BY <1>1, <1>2, <1>3, <1>5, <1>8, <2>1 DEF Decides, EvalAttempt, EvalApp, EvalExisting, ReadLatest,
         Record, Decide, QueueLetter
  <1>9. ASSUME Tells(h) \/ Crash(h) PROVE All
    BY <1>1, <1>2, <1>3, <1>5, <1>9 DEF Tells, ReadToSend, CancelBookings, Send, Crash
  <1>10. ASSUME Desk(h) PROVE All
    <2>1. (\E o : StaffDecision(h, o)) => Local(mem, mem')
      BY DEF StaffDecision
    <2> QED
      <3>1. ASSUME NEW S \in SUBSET Answers, MarkWriting(h, S) PROVE All
        BY <1>3, <1>4, <3>1 DEF MarkWriting
      <3>2. ASSUME RemarkAttempt(h) \/ SendOutcome(h) PROVE All
        BY <1>3, <1>4, <3>2 DEF RemarkAttempt, SendOutcome
      <3>3. ASSUME NEW o, StaffDecision(h, o) PROVE All
        BY <1>4, <2>1, <3>3, StaffDecisionFrame
      <3> QED
        BY <1>10, <3>1, <3>2, <3>3 DEF Desk
  <1>11. ASSUME NEW j \in Jobs, Claim(h, j) PROVE All
    BY <1>3, <1>4, <1>11 DEF Claim, self
  <1>16. ASSUME Moves(h) PROVE All
    BY <1>1, <1>3, <1>4, <1>16 DEF Moves, MoveBack, BackToOffer, Tidy
  <1>12. All
    BY <1>6, <1>7, <1>8, <1>9, <1>10, <1>11, <1>16 DEF Step
  <1> HIDE DEF Local
  <1>13. \A k \in Handlers \ {h} : pc'[k] = pc[k]
    BY <1>0, <1>12 DEF SelfOK
  <1>14. \A k \in Handlers \ {h} : run'[k] = run[k]
    BY <1>0, <1>12 DEF SelfOK
  <1>15. \A k \in Handlers \ {h} : mem'[k] = mem[k]
    BY <1>0, <1>12 DEF SelfOK
  <1> QED
    BY <1>13, <1>14, <1>15 DEF Beside

LEMMA MarkStays ==
  ASSUME TypeInv, [Next]_vars, NEW q \in Answers, Marked(q)
  PROVE  Marked(q)'
  <1> USE DEF paper, file, desk, Marked
  <1>1. ASSUME NEW h \in Handlers, Marks(h) PROVE Marked(q)'
    BY <1>1 DEF Marks, AiRead, AiAnswers, AiRefuses, AiThrows, AiMark, Write, TypeInv, PaperOK
  <1>2. ASSUME NEW h \in Handlers, Runs(h) PROVE Marked(q)'
    BY <1>2 DEF Runs, ReadResponses, DeleteScores, InsertScores, WriteComplete, ReadApp,
       QueueAutomatic, ToAPerson, FindTask, OpenTask, AssessmentMarked
  <1>3. ASSUME NEW h \in Handlers, Tells(h) \/ Desk(h) \/ Crash(h) \/ \E j \in Jobs : Claim(h, j)
        PROVE  Marked(q)'
    BY <1>3, StaffDecisionFrame DEF Tells, ReadToSend, CancelBookings, Send, Desk, MarkWriting,
       RemarkAttempt, SendOutcome, Crash, Claim
  <1>4. ASSUME NEW h \in Handlers, Decides(h) PROVE Marked(q)'
    BY <1>4, EvalScoresFrame DEF Decides, EvalAttempt, EvalApp, EvalExisting, ReadLatest, Record,
       Decide
  <1>5. ASSUME NEW h \in Handlers, Moves(h) PROVE Marked(q)'
    BY <1>5 DEF Moves, MoveBack, BackToOffer, Tidy
  <1>6. CASE Outside
    BY <1>6, OutsideKeeps
  <1> QED
    BY <1>1, <1>2, <1>3, <1>4, <1>5, <1>6, NextParts DEF Step

\* The invocation that moves knows what it counted.
LEMMA RunOthers ==
  ASSUME TypeInv, \A k \in Handlers : RunOK(k), NEW h \in Handlers, Beside(h),
         \A q \in Answers : Marked(q) => Marked(q)', RunOK(h)'
  PROVE  \A k \in Handlers : RunOK(k)'
  <1> SUFFICES ASSUME NEW g \in Handlers \ {h} PROVE RunOK(g)'
    OBVIOUS
  <1>1. pc'[g] = pc[g] /\ run'[g] = run[g] /\ mem'[g] = mem[g] /\ RunOK(g)
    BY DEF Beside
  <1>2. mem[g].seen \subseteq Answers
    BY MemoryFields DEF TypeInv, SelfOK
  <1> QED
    BY <1>1, <1>2 DEF RunOK

LEMMA RunAway ==
  ASSUME NEW h \in Handlers, pc'[h] \notin Post \cup {"read", "automatic", "move"}
  PROVE  RunOK(h)'
  BY DEF RunOK

LEMMA MarksRun ==
  ASSUME TypeInv, Flow, NEW h \in Handlers, RunOK(h), Marks(h)
  PROVE  RunOK(h)'
  <1> USE DEF TypeInv
  <1>0. mem[h] \in Memory /\ run[h] \in Jobs \cup {Staff}
    BY DEF SelfOK
  <1>1. CASE AiRead(h)
    <2>1. run[h] \in Answers /\ run' = run
      BY <1>1 DEF AiRead, At, Goto, Flow, Suits, Asking
    <2>2. mem'[h] = [mem[h] EXCEPT !["force"] = (mark[run[h]] = "rubric")]
      BY <1>1 DEF AiRead, Hold, SelfOK
    <2>3. pc'[h] = IF mark[run[h]] = "none" THEN "aiCall" ELSE "read"
      BY <1>1 DEF AiRead, Goto, SelfOK
    <2>4. mark' = mark
      BY <1>1 DEF AiRead, paper
    <2> QED
      BY <2>1, <2>3, <2>4 DEF RunOK, Post, Marked
  <1>2. CASE AiAnswers(h) \/ AiThrows(h)
    <2>1. pc'[h] \in {"aiMark", "idle"}
      BY <1>2 DEF AiAnswers, AiThrows, Throw, Leave, Goto, SelfOK
    <2> QED
      BY <2>1, RunAway DEF Post
  <1>3. CASE AiRefuses(h)
    <2>1. mem'[h] = [mem[h] EXCEPT !["force"] = TRUE] /\ pc'[h] = "read"
      BY <1>3 DEF AiRefuses, Hold, Goto, SelfOK
    <2>2. mem'[h].force
      BY <1>0, <2>1 DEF Memory
    <2> QED
      BY <2>1, <2>2 DEF RunOK, Post
  <1>4. CASE AiMark(h)
    <2>1. run[h] \in Answers /\ run' = run /\ pc'[h] = "read"
      BY <1>4 DEF AiMark, At, Goto, Flow, Suits, Asking, SelfOK
    <2>2. mark'[run[h]] = IF mark[run[h]] = "none" THEN "ai" ELSE mark[run[h]]
      BY <1>4, <2>1 DEF AiMark, PaperOK
    <2> QED
      BY <2>1, <2>2 DEF RunOK, Post, Marked
  <1>5. ASSUME NEW q \in Answers, Write(h, q) PROVE RunOK(h)'
    <2>1. run[h] = Staff /\ run' = run /\ pc'[h] \in {"read", "write"}
      BY <1>5 DEF Write, At, Goto, Flow, Suits, SelfOK
    <2> QED
      BY <2>1, NamesApart DEF RunOK, Post, MarkJobs
  <1> QED
    BY <1>1, <1>2, <1>3, <1>4, <1>5 DEF Marks

LEMMA RunsRun ==
  ASSUME TypeInv, NEW h \in Handlers, RunOK(h), Runs(h)
  PROVE  RunOK(h)'
  <1> USE DEF TypeInv
  <1>0. mem[h] \in Memory /\ mem[h].seen \subseteq Answers
    BY MemoryFields DEF SelfOK
  <1>1. CASE ReadResponses(h)
    <2> DEFINE S == {q \in Answers : mark[q] # "none"}
    <2>1. mem'[h] = [mem[h] EXCEPT !["seen"] = S] /\ pc[h] = "read" /\ pc'[h] = "delete"
          /\ run' = run /\ mark' = mark
      BY <1>1 DEF ReadResponses, Hold, At, Goto, paper, SelfOK
    <2>2. mem'[h].seen = S /\ mem'[h].force = mem[h].force
      <3> HIDE DEF S
      <3> QED
        BY <1>0, <2>1 DEF Memory
    <2> QED
      BY <2>1, <2>2 DEF RunOK, Post, Marked
  <1>2. CASE DeleteScores(h) \/ WriteComplete(h)
    <2>1. mem' = mem /\ run' = run /\ mark' = mark /\ pc[h] \in Post /\ pc'[h] \in Post
      BY <1>2 DEF DeleteScores, WriteComplete, At, Goto, Keep, SelfOK, Post
    <2> QED
      BY <2>1 DEF RunOK, Marked, Post
  <1>3. CASE InsertScores(h)
    <2>1. CASE Throw(h)
      <3>1. pc'[h] = "idle"
        BY <2>1 DEF Throw, Leave, SelfOK
      <3> QED
        BY <3>1, RunAway DEF Post
    <2>2. CASE Goto(h, "complete") /\ Keep(h)
      <3>1. mem' = mem /\ run' = run /\ mark' = mark /\ pc[h] \in Post /\ pc'[h] \in Post
        BY <1>3, <2>2 DEF InsertScores, At, Goto, Keep, SelfOK, Post
      <3> QED
        BY <3>1 DEF RunOK, Marked, Post
    <2> QED
      BY <1>3, <2>1, <2>2 DEF InsertScores
  <1>4. CASE ReadApp(h)
    <2>1. mark' = mark /\ pc[h] = "readApp"
      BY <1>4 DEF ReadApp, At, paper
    <2>2. \/ pc'[h] \in {"task", "idle"}
          \/ pc'[h] = "automatic" /\ ~mem[h].force /\ run' = run
          \/ pc'[h] = "move" /\ mem[h].seen = Answers /\ run' = run
      BY <1>4 DEF ReadApp, Goto, Done, Queue, Leave, SelfOK
    <2> QED
      BY <2>1, <2>2, RunAway DEF RunOK, Post, Marked
  <1>5. CASE QueueAutomatic(h) \/ ToAPerson(h) \/ FindTask(h) \/ OpenTask(h) \/ AssessmentMarked(h)
    <2>1. pc'[h] \in {"task", "openTask", "idle"}
      BY <1>5 DEF QueueAutomatic, ToAPerson, FindTask, OpenTask, AssessmentMarked, Goto, Done,
         Throw, Queue, Leave, SelfOK
    <2> QED
      BY <2>1, RunAway DEF Post
  <1> QED
    BY <1>1, <1>2, <1>3, <1>4, <1>5 DEF Runs

LEMMA NextRun ==
  ASSUME TypeInv, Held, Flow, \A k \in Handlers : RunOK(k), [Next]_vars
  PROVE  \A k \in Handlers : RunOK(k)'
  <1>1. \A q \in Answers : Marked(q) => Marked(q)'
    BY MarkStays
  <1>2. ASSUME NEW h \in Handlers, Beside(h), RunOK(h)' PROVE \A k \in Handlers : RunOK(k)'
    BY <1>1, <1>2, RunOthers
  <1>3. ASSUME NEW h \in Handlers, Step(h) PROVE RunOK(h)'
    <2>1. CASE Decides(h) \/ Tells(h)
      <3>1. pc'[h] \in Weighing \cup Sending \cup {"record", "decide", "idle"}
        BY <2>1, EvalScoresFrame DEF Decides, EvalAttempt, EvalApp, EvalExisting, ReadLatest, Record,
           Decide, QueueLetter, Tells, ReadToSend, CancelBookings, Send, Goto, Done, Throw, Queue,
           Leave, TypeInv, SelfOK, Weighing, Sending
      <3> QED
        BY <3>1, RunAway DEF Post, Weighing, Sending
    <2> QED
      BY <1>3, <2>1, MarksRun, RunsRun DEF Step
  <1>4. ASSUME NEW h \in Handlers, Desk(h) \/ Moves(h) PROVE RunOK(h)'
    <2>0. Tidy(h) \/ \E l \in {"write", "read", "sendRead", "latest", "tidy"} : Begin(h, Staff, l)
      BY <1>4, StaffDecisionFrame DEF Desk, MarkWriting, RemarkAttempt, SendOutcome, Moves, MoveBack,
         BackToOffer
    <2>1. run'[h] = Staff /\ pc'[h] \in {"idle", "write", "read", "sendRead", "latest", "tidy"}
      BY <2>0 DEF Tidy, Leave, Begin, TypeInv, SelfOK
    <2> QED
      BY <2>1, NamesApart DEF RunOK, Post, MarkJobs
  <1>5. ASSUME NEW h \in Handlers, Crash(h) PROVE RunOK(h)'
    <2>1. pc'[h] = "idle"
      BY <1>5 DEF Crash, Throw, Leave, TypeInv, SelfOK
    <2> QED
      BY <2>1, RunAway DEF Post
  <1>6. ASSUME NEW h \in Handlers, NEW j \in Jobs, Claim(h, j) PROVE RunOK(h)'
    <2>1. CASE UNCHANGED self
      <3>1. mark' = mark
        BY <1>6 DEF Claim, paper
      <3>2. RunOK(h)
        OBVIOUS
      <3> QED
        BY <2>1, <3>1, <3>2 DEF RunOK, Marked, self
    <2>2. CASE Begin(h, j, FirstOf(j))
      <3>1. run'[h] = j /\ pc'[h] = FirstOf(j)
        BY <2>2 DEF Begin, TypeInv, SelfOK
      <3>2. j \in Answers => FirstOf(j) = "aiRead"
        BY NamesApart DEF FirstOf, MarkJobs
      <3>3. FirstOf(j) \notin Post \cup {"automatic", "move"}
        BY FirstIsStatement DEF Post
      <3> QED
        BY <3>1, <3>2, <3>3 DEF RunOK, Post
    <2> QED
      BY <1>6, <2>1, <2>2 DEF Claim
  <1>7. ASSUME Outside PROVE \A k \in Handlers : RunOK(k)'
    <2>1. UNCHANGED <<paper, self>>
      BY <1>7, OutsideKeeps
    <2> QED
      BY <2>1 DEF self, paper, RunOK, Marked
  <1>8. \A h \in Handlers :
          Step(h) \/ Desk(h) \/ Moves(h) \/ Crash(h) \/ (\E j \in Jobs : Claim(h, j)) => Beside(h)
    BY StepBeside DEF TypeInv
  <1> QED
    BY <1>2, <1>3, <1>4, <1>5, <1>6, <1>7, <1>8, NextParts

\* The others stay good, unless the answer they would queue is queued already.
LEMMA GoodOthers ==
  ASSUME TypeInv, NEW h \in Handlers, Beside(h), NEW g \in Handlers \ {h}, Good(g),
         \A q \in Answers : job[q] = "none" => job'[q] \in {"none", "pending"}
  PROVE  Good(g)' \/ Queued'
  <1>1. pc'[g] = pc[g] /\ run'[g] = run[g] /\ mem'[g] = mem[g]
    BY DEF Beside
  <1>2. CASE \E q \in Answers : job'[q] = "pending"
    BY <1>2 DEF Queued, Standing, MarkJobs
  <1>3. CASE \A q \in Answers : job[q] = "none" => job'[q] = "none"
    BY <1>1, <1>3 DEF Good
  <1> QED
    BY <1>2, <1>3

\* One step: what it owes the paper.
LEMMA OnStep ==
  ASSUME TypeInv, OnInv, NEW h \in Handlers, Beside(h),
         \A q \in Answers : Marked(q) => Marked(q)',
         Waiting' => /\ Waiting
                     /\ \A q \in Answers : job[q] = "none" => job'[q] \in {"none", "pending"}
                     /\ \A q \in Answers : job'[q] \in Over => job[q] \in Over \/ Marked(q)'
                     /\ Queued \/ Good(h) => Queued' \/ \E g \in Handlers : Good(g)'
  PROVE  OnInv'
  <1> SUFFICES ASSUME Waiting' PROVE OnInv'
    BY DEF OnInv
  <1>1. Queued' \/ \E g \in Handlers : Good(g)'
    BY GoodOthers DEF OnInv
  <1>2. \A q \in Answers : job'[q] \in Over => Marked(q)'
    BY DEF OnInv
  <1> QED
    BY <1>1, <1>2 DEF OnInv

\* A job is only ever done by who runs it: the rest keep theirs or are queued.
LEMMA EndJobs ==
  ASSUME TypeInv, Holders, NEW h \in Handlers, NEW s \in Final, NEW new, Ends(h, s, new)
  PROVE  /\ \A j \in Jobs : job[j] = "none" => job'[j] \in {"none", "pending"}
         /\ \A j \in Jobs : job'[j] \in Over => job[j] \in Over \/ (j = run[h] /\ s \in Over)
         /\ \A j \in Jobs : job[j] \in Standing => job'[j] \in Standing
         /\ run[h] \in Jobs => job'[run[h]] = s
  <1>1. ASSUME NEW j \in Jobs, j = run[h] PROVE job[j] = "running" /\ job'[j] = s
    BY <1>1, JobAfter, NamesApart DEF Holders
  <1>2. ASSUME NEW j \in Jobs, j # run[h] PROVE job'[j] = job[j] \/ (job[j] = "none" /\ job'[j] = "pending")
    BY <1>2, JobAfter
  <1> QED
    BY <1>1, <1>2 DEF Over, Standing

LEMMA OnMarks ==
  ASSUME TypeInv, Flow, Holders, OnInv, NEW h \in Handlers, Beside(h), Marks(h),
         \A q \in Answers : Marked(q) => Marked(q)'
  PROVE  OnInv'
  <1>1. app' = app /\ tasks' = tasks
    BY DEF Marks, AiRead, AiAnswers, AiRefuses, AiThrows, AiMark, Write, desk
  <1>2. Waiting' = Waiting
    BY <1>1 DEF Waiting
  <1>3. CASE AiThrows(h)
    <2>0. PICK s \in Standing : Ends(h, s, {})
      BY <1>3, EndOf DEF AiThrows
    <2>1. run[h] \in Answers /\ run[h] \in MarkJobs
      BY <1>3 DEF AiThrows, At, Flow, Suits, Asking, MarkJobs
    <2>2. /\ \A j \in Jobs : job[j] = "none" => job'[j] \in {"none", "pending"}
          /\ \A j \in Jobs : job'[j] \in Over => job[j] \in Over
          /\ job'[run[h]] \in Standing
      BY <2>0, <2>1, EndJobs, EndOf, NamesApart
    <2>3. Queued'
      BY <2>1, <2>2 DEF Queued
    <2> QED
      BY <1>2, <2>2, <2>3, OnStep, NamesApart DEF MarkJobs
  <1>4. CASE ~AiThrows(h)
    <2>1. job' = job /\ run' = run
      BY <1>4 DEF Marks, AiRead, AiAnswers, AiRefuses, AiMark, Write, Goto
    <2>2. Good(h) => Good(h)'
      <3>1. CASE \E q \in Answers : Write(h, q)
        <4>1. run[h] = Staff
          BY <3>1 DEF Write, At, Flow, Suits
        <4> QED
          BY <4>1, NamesApart DEF Good
      <3>2. CASE AiRead(h) \/ AiAnswers(h) \/ AiRefuses(h) \/ AiMark(h)
        <4>1. pc'[h] \in Asking \cup {"read"}
          BY <3>2 DEF AiRead, AiAnswers, AiRefuses, AiMark, Goto, TypeInv, SelfOK, Asking
        <4> QED
          BY <2>1, <4>1 DEF Good
      <3> QED
        BY <1>4, <3>1, <3>2 DEF Marks
    <2>3. Queued' = Queued
      BY <2>1 DEF Queued
    <2> QED
      BY <1>2, <2>1, <2>2, <2>3, OnStep
  <1> QED
    BY <1>3, <1>4

\* An invocation that ends leaves the paper to somebody.
LEMMA OnEnds ==
  ASSUME TypeInv, Holders, OnInv, NEW h \in Handlers, Beside(h),
         \A q \in Answers : Marked(q) => Marked(q)',
         NEW s \in Final, NEW new, Ends(h, s, new),
         Waiting' => /\ Waiting
                     /\ s \in Over /\ run[h] \in Answers => Marked(run[h])
                     /\ Good(h) => s \in Standing \/ \E q \in new \cap Answers : job[q] = "none"
  PROVE  OnInv'
  <1>1. /\ \A j \in Jobs : job[j] = "none" => job'[j] \in {"none", "pending"}
        /\ \A j \in Jobs : job'[j] \in Over => job[j] \in Over \/ (j = run[h] /\ s \in Over)
        /\ \A j \in Jobs : job[j] \in Standing => job'[j] \in Standing
        /\ run[h] \in Jobs => job'[run[h]] = s
    BY EndJobs
  <1>2. Answers \subseteq MarkJobs /\ MarkJobs \subseteq Jobs
    BY NamesApart DEF MarkJobs
  <1>3. Queued => Queued'
    BY <1>1, <1>2 DEF Queued
  <1>4. ASSUME Waiting', Good(h) PROVE Queued'
    <2>1. run[h] \in MarkJobs
      BY <1>4 DEF Good
    <2>2. CASE s \in Standing
      BY <1>1, <1>2, <2>1, <2>2 DEF Queued
    <2>3. ASSUME NEW q \in new \cap Answers, job[q] = "none" PROVE Queued'
      <3>1. q \in Jobs /\ q # run[h]
        BY <1>2, <2>1, <2>3, NamesApart DEF Holders
      <3>2. job'[q] = "pending"
        BY <2>3, <3>1, JobAfter
      <3> QED
        BY <1>2, <3>2 DEF Queued, Standing
    <2> QED
      BY <1>4, <2>2, <2>3
  <1>5. Waiting' =>
          /\ Waiting
          /\ \A q \in Answers : job[q] = "none" => job'[q] \in {"none", "pending"}
          /\ \A q \in Answers : job'[q] \in Over => job[q] \in Over \/ Marked(q)'
          /\ Queued \/ Good(h) => Queued' \/ \E g \in Handlers : Good(g)'
    BY <1>1, <1>2, <1>3, <1>4
  <1> QED
    BY <1>5, OnStep

LEMMA OnGoes ==
  ASSUME TypeInv, OnInv, NEW h \in Handlers, Beside(h),
         \A q \in Answers : Marked(q) => Marked(q)', job' = job,
         Waiting' => Waiting /\ (Good(h) => Queued' \/ \E g \in Handlers : Good(g)')
  PROVE  OnInv'
  <1>1. Queued' = Queued
    BY DEF Queued
  <1> QED
    BY <1>1, OnStep

\* An answer nobody has marked, when a run of marking reads: it is queued, or
\* nobody has it, or whoever has it goes on.
LEMMA OnRead ==
  ASSUME TypeInv, Flow, Holders, OnInv, Waiting, \A k \in Handlers : RunOK(k),
         NEW h \in Handlers, Good(h), ReadResponses(h), Beside(h), mark' = mark
  PROVE  Queued' \/ \E g \in Handlers : Good(g)'
  <1> DEFINE S == {q \in Answers : Marked(q)}
  <1>0. mem[h] \in Memory /\ S \in SUBSET Answers
    BY DEF TypeInv, SelfOK
  <1>1. mem'[h] = [mem[h] EXCEPT !["seen"] = S] /\ pc[h] = "read" /\ pc'[h] = "delete"
        /\ run' = run /\ job' = job
    BY DEF ReadResponses, Hold, At, Goto, TypeInv, SelfOK, Marked
  <1>2. mem'[h].seen = S /\ mem'[h].force = mem[h].force
    <2> HIDE DEF S
    <2> QED
      BY <1>0, <1>1 DEF Memory
  <1>3. run'[h] \in MarkJobs /\ pc'[h] \in Post
    BY <1>1 DEF Good, Post
  <1>4. CASE \A q \in Answers : Marked(q)
    <2>1. mem'[h].seen = Answers
      BY <1>2, <1>4
    <2> QED
      BY <1>3, <2>1 DEF Good
  <1>5. ASSUME NEW q \in Answers, ~Marked(q) PROVE Queued' \/ \E g \in Handlers : Good(g)'
    <2>1. q \in Jobs /\ q \in MarkJobs /\ q # Staff
      BY NamesApart DEF MarkJobs
    <2>2. job[q] \in {"none", "running"} \cup Standing
      BY <1>5, <2>1 DEF OnInv, TypeInv, JobsOK, Over, Standing
    <2>3. CASE job[q] = "none"
      <3>1. q \in Answers \ mem'[h].seen /\ job'[q] = "none"
        BY <1>1, <1>2, <1>5, <2>3
      <3> QED
        BY <1>3, <3>1 DEF Good
    <2>4. CASE job[q] \in Standing
      BY <1>1, <2>1, <2>4 DEF Queued
    <2>5. CASE job[q] = "running"
      <3>1. PICK g \in Handlers : run[g] = q
        BY <2>1, <2>5 DEF Holders
      <3>2. CASE g = h
        <4>1. mem'[h].force
          BY <1>1, <1>2, <1>5, <3>1, <3>2 DEF RunOK
        <4> QED
          BY <1>3, <4>1 DEF Good
      <3>3. CASE g # h
        <4>1. pc[g] \in Asking \cup Post \cup Ending \cup {"read"}
          <5>1. pc[g] \in PC /\ Suits(pc[g], q)
            BY <3>1 DEF Flow, TypeInv, SelfOK
          <5>2. q # "evaluate" /\ q \notin Sends
            BY <2>1, NamesApart
          <5> QED
            BY <2>1, <5>1, <5>2 DEF PC, Suits, Asking, Post, Ending, Weighing, Sending
        <4>2. pc[g] # "automatic" /\ (pc[g] \in Post => mem[g].force)
          BY <1>5, <3>1 DEF RunOK
        <4>3. Good(g)
          BY <2>1, <3>1, <4>1, <4>2 DEF Good, Ending
        <4> QED
          BY <1>1, <3>3, <4>3, GoodOthers
      <3> QED
        BY <3>2, <3>3
    <2> QED
      BY <2>2, <2>3, <2>4, <2>5
  <1> QED
    BY <1>4, <1>5

LEMMA OnRuns ==
  ASSUME TypeInv, Flow, Holders, OnInv, \A k \in Handlers : RunOK(k),
         NEW h \in Handlers, Beside(h), Runs(h)
  PROVE  OnInv'
  <1>0. mark' = mark /\ \A q \in Answers : Marked(q) => Marked(q)'
    BY DEF Runs, ReadResponses, DeleteScores, InsertScores, WriteComplete, ReadApp,
       QueueAutomatic, ToAPerson, FindTask, OpenTask, AssessmentMarked, paper, Marked
  <1>1. CASE ReadResponses(h)
    <2>1. job' = job /\ Waiting' = Waiting
      BY <1>1 DEF ReadResponses, desk, Waiting
    <2> QED
      BY <1>0, <1>1, <2>1, OnRead, OnGoes
  <1>2. ASSUME \/ DeleteScores(h) \/ WriteComplete(h)
               \/ InsertScores(h) /\ Goto(h, "complete") /\ Keep(h) /\ job' = job
        PROVE  OnInv'
    <2>1. pc[h] \in Post /\ pc'[h] \in Post /\ run' = run /\ mem' = mem /\ job' = job
      BY <1>2 DEF DeleteScores, WriteComplete, InsertScores, At, Goto, Keep, Post, TypeInv, SelfOK
    <2>2. Good(h) => Good(h)'
      BY <2>1 DEF Good, Post, Asking
    <2>3. Waiting' = Waiting
      BY <1>2 DEF DeleteScores, WriteComplete, InsertScores, desk, Waiting
    <2> QED
      BY <1>0, <2>1, <2>2, <2>3, OnGoes
  <1>3. ASSUME InsertScores(h), Throw(h) PROVE OnInv'
    <2>1. Waiting' = Waiting
      BY <1>3 DEF InsertScores, desk, Waiting
    <2>2. PICK s \in Standing : Ends(h, s, {})
      BY <1>3, EndOf
    <2>3. s \in Final /\ s \notin Over
      BY EndOf
    <2> QED
      BY <1>0, <2>1, <2>2, <2>3, OnEnds
  <1>4. CASE ReadApp(h)
    <2>1. pc[h] = "readApp" /\ Waiting' = Waiting
      BY <1>4 DEF ReadApp, At, desk, Waiting
    <2>2. CASE \E l \in {"task", "move"} : Goto(h, l) /\ UNCHANGED job
      <3>1. run' = run /\ pc'[h] \in {"task", "move"} /\ job' = job
        BY <2>2 DEF Goto, TypeInv, SelfOK
      <3>2. Good(h) => Good(h)'
        BY <3>1 DEF Good
      <3> QED
        BY <1>0, <2>1, <3>1, <3>2, OnGoes
    <2>3. CASE mem[h].seen # Answers /\ ~mem[h].force /\ Goto(h, "automatic") /\ Keep(h) /\ UNCHANGED job
      <3>1. run' = run /\ pc'[h] = "automatic" /\ mem' = mem /\ job' = job
        BY <2>3 DEF Goto, Keep, TypeInv, SelfOK
      <3>2. Good(h) => Good(h)'
        BY <2>1, <2>3, <3>1 DEF Good, Post, Asking
      <3> QED
        BY <1>0, <2>1, <3>1, <3>2, OnGoes
    <2>4. CASE app # "assessment_completed" /\ Done(h)
      <3>1. ~Waiting'
        BY <2>1, <2>4 DEF Waiting
      <3> QED
        BY <3>1 DEF OnInv
    <2> QED
      BY <1>4, <2>2, <2>3, <2>4 DEF ReadApp
  <1>5. CASE QueueAutomatic(h)
    <2>0. PICK s \in Over : Ends(h, s, Answers \ mem[h].seen)
      BY <1>5, EndOf DEF QueueAutomatic
    <2>1. pc[h] = "automatic" /\ Waiting' = Waiting /\ s \in Final
      BY <1>5, EndOf DEF QueueAutomatic, At, desk, Waiting
    <2>2. run[h] \in Answers => Marked(run[h])
      BY <2>1 DEF RunOK
    <2>3. Good(h) => \E q \in (Answers \ mem[h].seen) \cap Answers : job[q] = "none"
      BY <2>1 DEF Good, Post, Asking
    <2> QED
      BY <1>0, <2>0, <2>1, <2>2, <2>3, OnEnds
  <1>6. CASE ToAPerson(h) \/ (FindTask(h) /\ "mark_writing" \notin tasks)
    <2>1. run' = run /\ pc'[h] \in {"task", "openTask"} /\ job' = job /\ Waiting' = Waiting
      BY <1>6 DEF ToAPerson, FindTask, Goto, desk, Waiting, TypeInv, SelfOK
    <2>2. Good(h) => Good(h)'
      BY <2>1 DEF Good
    <2> QED
      BY <1>0, <2>1, <2>2, OnGoes
  <1>7. CASE (FindTask(h) /\ "mark_writing" \in tasks) \/ OpenTask(h) \/ AssessmentMarked(h)
    <2>1. ~Waiting'
      BY <1>7 DEF FindTask, OpenTask, AssessmentMarked, desk, Waiting
    <2> QED
      BY <2>1 DEF OnInv
  <1>8. InsertScores(h) => (Goto(h, "complete") /\ Keep(h) /\ job' = job) \/ Throw(h)
    BY DEF InsertScores
  <1> QED
    BY <1>1, <1>2, <1>3, <1>4, <1>5, <1>6, <1>7, <1>8 DEF Runs

\* Deciding, sending and setting out leave the paper with who has it.
LEMMA OnApart ==
  ASSUME TypeInv, Held, Flow, Holders, OnInv, NEW h \in Handlers, Beside(h),
         Decides(h) \/ Tells(h) \/ Desk(h)
  PROVE  OnInv'
  <1>0. \A q \in Answers : Marked(q) => Marked(q)'
    BY EvalScoresFrame, StaffDecisionFrame DEF Decides, EvalAttempt, EvalApp, EvalExisting,
       ReadLatest, Record, Decide, Tells, ReadToSend, CancelBookings, Send, Desk, MarkWriting,
       RemarkAttempt, SendOutcome, paper, Marked
  <1>1. Waiting' => Waiting
    <2>1. CASE Decide(h)
      <3>1. mem[h].outcome \in Outcome
        BY MemoryFields DEF TypeInv, SelfOK
      <3> QED
        BY <2>1, <3>1 DEF Decide, Waiting, Outcome, Letter
    <2>2. CASE ~Decide(h)
      BY <2>2, EvalScoresFrame, StaffDecisionFrame DEF Decides, EvalAttempt, EvalApp, EvalExisting,
         ReadLatest, Record, Tells, ReadToSend, CancelBookings, Send, Desk, MarkWriting,
         RemarkAttempt, SendOutcome, desk, Waiting
    <2> QED
      BY <2>1, <2>2
  <1>2. run[h] \notin MarkJobs
    <2>1. Desk(h) => run[h] = Staff
      BY StaffDecisionFrame DEF Desk, MarkWriting, RemarkAttempt, SendOutcome, Begin, At, Flow, Suits
    <2>2. run[h] \in {"evaluate", Staff} \cup Sends
      BY <2>1, DecidesGo, TellsGo
    <2> QED
      BY <2>2, NamesApart
  <1>3. ~Good(h) /\ run[h] \notin Answers
    BY <1>2 DEF Good, MarkJobs
  <1>4. job' = job \/ \E s \in Final : \E new : Ends(h, s, new)
    <2>1. Desk(h) => job' = job
      BY StaffDecisionFrame DEF Desk, MarkWriting, RemarkAttempt, SendOutcome
    <2> QED
      BY <2>1, DecidesGo, TellsGo
  <1>5. CASE job' = job
    BY <1>0, <1>1, <1>3, <1>5, OnGoes
  <1>6. ASSUME NEW s \in Final, NEW new, Ends(h, s, new) PROVE OnInv'
    BY <1>0, <1>1, <1>3, <1>6, OnEnds
  <1> QED
    BY <1>4, <1>5, <1>6

LEMMA OnClaim ==
  ASSUME TypeInv, Flow, OnInv, NEW h \in Handlers, Beside(h), NEW j \in Jobs, Claim(h, j)
  PROVE  OnInv'
  <1>1. mark' = mark /\ Waiting' = Waiting /\ job[j] = "pending"
    BY DEF Claim, paper, desk, Waiting
  <1>2. \A q \in Answers : Marked(q) => Marked(q)'
    BY <1>1 DEF Marked
  <1>3. CASE j \in Sends
    <2>1. \E s : job' = [job EXCEPT ![j] = s]
      BY DEF Claim
    <2>2. \A i \in MarkJobs : job'[i] = job[i]
      BY <1>3, <2>1, NamesApart DEF TypeInv, JobsOK
    <2>3. Queued' = Queued /\ Answers \subseteq MarkJobs
      BY <2>2 DEF Queued, MarkJobs
    <2>4. Good(h) => Good(h)'
      <3>1. pc[h] = "idle" \/ UNCHANGED self
        BY DEF Claim, Begin, At
      <3>2. pc[h] = "idle" => ~Good(h)
        BY NamesApart DEF Flow, Suits, Good, MarkJobs
      <3>3. UNCHANGED self /\ Good(h) => Good(h)'
        BY <2>2, <2>3 DEF self, Good
      <3> QED
        BY <3>1, <3>2, <3>3
    <2> QED
      BY <1>1, <1>2, <2>2, <2>3, <2>4, OnStep
  <1>4. CASE j \notin Sends
    <2>1. job' = [job EXCEPT ![j] = "running"] /\ Begin(h, j, FirstOf(j))
      BY <1>4 DEF Claim
    <2>2. run'[h] = j /\ pc'[h] = FirstOf(j) /\ ~Good(h)
      BY <2>1, NamesApart DEF Begin, At, Flow, Suits, Good, MarkJobs, TypeInv, SelfOK
    <2>3. \A i \in Jobs : job'[i] = IF i = j THEN "running" ELSE job[i]
      BY <2>1 DEF TypeInv, JobsOK
    <2>4. MarkJobs \subseteq Jobs /\ Answers \subseteq MarkJobs
      BY NamesApart DEF MarkJobs
    <2>5. j \in MarkJobs => Good(h)'
      <3>1. j \in MarkJobs => FirstOf(j) \in {"read", "aiRead"}
        BY NamesApart DEF FirstOf, MarkJobs
      <3> QED
        BY <2>2, <3>1 DEF Good, Asking
    <2>6. j \notin MarkJobs => Queued' = Queued
      BY <2>3, <2>4 DEF Queued
    <2>7. \A q \in Answers : /\ job[q] = "none" => job'[q] = "none"
                             /\ job'[q] \in Over => job[q] \in Over
      BY <1>1, <2>3, <2>4 DEF Over
    <2> QED
      BY <1>1, <1>2, <2>2, <2>5, <2>6, <2>7, OnStep
  <1> QED
    BY <1>3, <1>4

LEMMA OnOthers ==
  ASSUME TypeInv, Flow, Holders, OnInv,
         Outside \/ \E h \in Handlers : (Crash(h) \/ Moves(h)) /\ Beside(h)
  PROVE  OnInv'
  <1>0. Answers \subseteq MarkJobs /\ MarkJobs \subseteq Jobs /\ MarkJobs \cap Sends = {}
    BY NamesApart DEF MarkJobs
  <1>1. ASSUME NEW h \in Handlers, Crash(h), Beside(h) PROVE OnInv'
    <2>1. mark' = mark /\ Waiting' = Waiting
      BY <1>1 DEF Crash, paper, desk, Waiting
    <2>2. PICK s \in Standing : Ends(h, s, {})
      BY <1>1, EndOf
    <2>3. s \in Final /\ s \notin Over
      BY EndOf
    <2>4. \A q \in Answers : Marked(q) => Marked(q)'
      BY <2>1 DEF Marked
    <2> QED
      BY <1>1, <2>1, <2>2, <2>3, <2>4, OnEnds
  <1>2. ASSUME NEW h \in Handlers, Moves(h), Beside(h) PROVE OnInv'
    <2>1. CASE Tidy(h)
      <3>1. mark' = mark /\ Waiting' = Waiting /\ pc[h] = "tidy"
        BY <2>1 DEF Tidy, paper, Waiting, At
      <3>2. \A j \in MarkJobs : job'[j] = job[j]
        BY <1>0, <2>1 DEF Tidy
      <3>3. Queued' = Queued
        BY <3>2 DEF Queued
      <3>4. ~Good(h)
        BY <3>1, NamesApart DEF Flow, Suits, Good
      <3>5. \A q \in Answers : Marked(q) => Marked(q)'
        BY <3>1 DEF Marked
      <3> QED
        BY <1>0, <1>2, <3>1, <3>2, <3>3, <3>4, <3>5, OnStep
    <2>2. CASE ~Tidy(h)
      <3>1. app' # "assessment_completed"
        BY <1>2, <2>2 DEF Moves, MoveBack, BackToOffer
      <3> QED
        BY <3>1 DEF OnInv, Waiting
    <2> QED
      BY <2>1, <2>2
  <1>3. CASE Officers
    <2>1. app' # "assessment_completed"
      BY <1>3 DEF Officers, MovedOn, Deferred, Withdrawn, ToDecision
    <2> QED
      BY <2>1 DEF OnInv, Waiting
  <1>4. ASSUME NEW j \in Jobs, RetryJob(j) PROVE OnInv'
    <2>1. UNCHANGED <<app, mark, tasks, pc, run, mem>> /\ job[j] \in {"failed", "skipped"}
      BY <1>4 DEF RetryJob, paper, desk, self
    <2>2. \A i \in Jobs : job'[i] = IF i = j THEN "pending" ELSE job[i]
      BY <1>4 DEF RetryJob, TypeInv, JobsOK
    <2>3. /\ \A q \in Answers : /\ job[q] = "none" => job'[q] = "none"
                                /\ job'[q] \in Over => job[q] \in Over
          /\ Queued => Queued'
      BY <1>0, <2>1, <2>2 DEF Over, Queued, Standing
    <2>4. \A g \in Handlers : Good(g) => Good(g)'
      BY <2>1, <2>3 DEF Good
    <2>5. \A q \in Answers : Marked(q)' = Marked(q)
      BY <2>1 DEF Marked
    <2>6. Waiting' = Waiting
      BY <2>1 DEF Waiting
    <2> QED
      BY <2>3, <2>4, <2>5, <2>6 DEF OnInv
  <1>5. CASE UNCHANGED vars
    BY <1>5 DEF vars, OnInv, Waiting, Queued, Good, Marked
  <1> QED
    BY <1>1, <1>2, <1>3, <1>4, <1>5 DEF Outside

PaperInv == TypeInv /\ Held /\ Flow /\ Holders /\ (\A h \in Handlers : RunOK(h)) /\ OnInv

LEMMA NextPaper == PaperInv /\ [Next]_vars => PaperInv'
  <1> SUFFICES ASSUME PaperInv, [Next]_vars PROVE PaperInv'
    OBVIOUS
  <1> USE DEF PaperInv
  <1>1. TypeInv' /\ Held' /\ Flow' /\ Holders' /\ \A h \in Handlers : RunOK(h)'
    BY NextInv, NextHolders, NextRun
  <1>2. \A h \in Handlers :
          Step(h) \/ Desk(h) \/ Moves(h) \/ Crash(h) \/ (\E j \in Jobs : Claim(h, j)) => Beside(h)
    BY StepBeside DEF TypeInv
  <1>3. \A q \in Answers : Marked(q) => Marked(q)'
    BY MarkStays
  <1>4. ASSUME NEW h \in Handlers, Step(h) \/ Desk(h) PROVE OnInv'
    BY <1>2, <1>3, <1>4, OnMarks, OnRuns, OnApart DEF Step
  <1>5. ASSUME NEW h \in Handlers, NEW j \in Jobs, Claim(h, j) PROVE OnInv'
    BY <1>2, <1>5, OnClaim
  <1>6. OnInv'
    BY <1>2, <1>4, <1>5, OnOthers, NextParts
  <1> QED
    BY <1>1, <1>6

LEMMA InitPaper == Init => PaperInv
  <1> SUFFICES ASSUME Init PROVE PaperInv
    OBVIOUS
  <1>1. \A h \in Handlers : RunOK(h)
    BY DEF Init, RunOK, Post
  <1>2. OnInv
    <2>1. "mark" \in Jobs /\ "mark" \in MarkJobs
      BY DEF Jobs, MarkJobs
    <2>2. job["mark"] = "pending"
      BY <2>1 DEF Init
    <2>3. \A q \in Answers : job[q] = "none"
      BY NamesApart DEF Init, MarkJobs
    <2> QED
      BY <2>1, <2>2, <2>3 DEF OnInv, Queued, Over, Standing
  <1> QED
    BY <1>1, <1>2, InitInv, InitHolders DEF PaperInv

\* Whoever marked what, and whichever run of marking was refused, overtaken or
\* killed: once every invocation has ended, a paper whose child still waits has a
\* job that marks, queued or failed for good, or an assessor has the task.
THEOREM PaperGoesOn == Spec => []MarkingGoesOn
  <1>1. PaperInv => MarkingGoesOn
    <2> SUFFICES ASSUME PaperInv, Quiet, Waiting PROVE \E j \in {"mark"} \cup Answers : Stands(j)
      BY DEF MarkingGoesOn, Waiting
    <2>1. \A h \in Handlers : run[h] = Staff
      BY DEF Quiet, At, PaperInv, Flow, Suits
    <2>2. \A h \in Handlers : ~Good(h)
      BY <2>1, NamesApart DEF Good
    <2>3. Queued
      BY <2>2 DEF PaperInv, OnInv
    <2> QED
      BY <2>3 DEF Queued, MarkJobs, Stands
  <1> QED
    BY <1>1, InitPaper, NextPaper, PTL DEF Spec
-----------------------------------------------------------------------------
(* The decision.                                                             *)

Deciding == {"latest", "record", "decide"}

\* Nobody decides before the paper is marked.
Before ==
  app = "assessment_completed" =>
    /\ job["evaluate"] = "none" /\ rows = <<>> /\ decided = "none"
    /\ \A h \in Handlers : pc[h] \notin Deciding

Reviewed ==
  app = "staff_review" \/ (app = "awaiting_decision" /\ decided = "back") =>
    "review_decision" \in tasks

\* A decline is sent once the visit is cancelled.
Freed ==
  /\ "declined" \in letters => ~booked
  /\ \A h \in Handlers : pc[h] = "send" /\ mem[h].app = "declined" => ~booked

\* Statements that touch neither the child's status nor what was decided of it.
Telling(h) ==
  \/ AssessmentMarked(h) \/ OpenTask(h) \/ Record(h) \/ Decide(h) \/ CancelBookings(h) \/ Send(h)

Told == <<app, rows, decided, tasks, letters, booked, about>>

LEMMA Untold ==
  ASSUME NEW h \in Handlers, ~Telling(h),
         Step(h) \/ Desk(h) \/ Crash(h) \/ \E j \in Jobs : Claim(h, j)
  PROVE  UNCHANGED Told
  <1> USE DEF Told, Telling, desk, file
  <1>1. CASE Marks(h)
    BY <1>1 DEF Marks, AiRead, AiAnswers, AiRefuses, AiThrows, AiMark, Write
  <1>2. CASE Runs(h)
    BY <1>2 DEF Runs, ReadResponses, DeleteScores, InsertScores, WriteComplete, ReadApp,
       QueueAutomatic, ToAPerson, FindTask
  <1>3. CASE Decides(h) \/ Tells(h)
    BY <1>3, EvalScoresFrame DEF Decides, EvalAttempt, EvalApp, EvalExisting, ReadLatest, Tells,
       ReadToSend
  <1>4. CASE Desk(h) \/ Crash(h) \/ \E j \in Jobs : Claim(h, j)
    BY <1>4, StaffDecisionFrame DEF Desk, MarkWriting, RemarkAttempt, SendOutcome, Crash, Claim
  <1> QED
    BY <1>1, <1>2, <1>3, <1>4 DEF Step

\* A child is handed in once: nothing leads back there.
LEMMA HandedInOnce ==
  ASSUME TypeInv, [Next]_vars, app' = "assessment_completed"
  PROVE  app = "assessment_completed"
  <1>1. ASSUME NEW h \in Handlers, Telling(h) PROVE app = "assessment_completed"
    <2>1. mem[h].outcome \in Outcome
      BY MemoryFields DEF TypeInv, SelfOK
    <2> QED
      BY <1>1, <2>1 DEF Telling, AssessmentMarked, OpenTask, Record, Decide, CancelBookings, Send,
         Outcome, Letter
  <1>2. ASSUME NEW h \in Handlers, Moves(h) PROVE app = "assessment_completed"
    BY <1>2 DEF Moves, MoveBack, BackToOffer, Tidy
  <1>3. CASE Outside
    BY <1>3 DEF Outside, Officers, MovedOn, Deferred, Withdrawn, ToDecision, RetryJob, vars
  <1> QED
    BY <1>1, <1>2, <1>3, Untold, NextParts DEF Told

LEMMA NextBefore ==
  ASSUME TypeInv, Held, Flow, Holders, Before, [Next]_vars
  PROVE  Before'
  <1> SUFFICES ASSUME app' = "assessment_completed"
               PROVE  /\ job'["evaluate"] = "none" /\ rows' = <<>> /\ decided' = "none"
                      /\ \A h \in Handlers : pc'[h] \notin Deciding
    BY DEF Before
  <1>1. /\ app = "assessment_completed" /\ job["evaluate"] = "none" /\ rows = <<>>
        /\ decided = "none"
        /\ \A h \in Handlers : pc[h] \notin Deciding
    BY HandedInOnce DEF Before
  <1>2. \A h \in Handlers : run[h] # "evaluate"
    BY <1>1, NamesApart DEF Holders
  <1>3. ASSUME NEW h \in Handlers, Step(h) \/ Desk(h) \/ Crash(h) \/ \E j \in Jobs : Claim(h, j)
        PROVE  job'["evaluate"] = "none" /\ rows' = <<>> /\ decided' = "none" /\ pc'[h] \notin Deciding
    <2>1. CASE Decides(h)
      <3>1. pc[h] \in Weighing \cup Deciding
        BY <2>1, EvalScoresFrame DEF Decides, EvalAttempt, EvalApp, EvalExisting, ReadLatest, Record,
           Decide, At, Weighing, Deciding
      <3> QED
        BY <1>1, <1>2, <3>1 DEF Flow, Suits
    <2>2. rows' = rows /\ decided' = decided
      <3>1. ~Record(h) /\ ~Decide(h)
        BY <1>1 DEF Record, Decide, At, Deciding
      <3> QED
        BY <1>3, <3>1, Untold DEF Telling, Told, AssessmentMarked, OpenTask, CancelBookings, Send, file
    <2>3. ~AssessmentMarked(h)
      BY <1>1 DEF AssessmentMarked
    <2>4. ASSUME NEW s, NEW new, Ends(h, s, new), "evaluate" \notin new
          PROVE  job'["evaluate"] = "none" /\ pc'[h] \notin Deciding
      <3>1. "evaluate" \in Jobs
        BY NamesApart
      <3>2. job'["evaluate"] = "none"
        BY <1>1, <1>2, <2>4, <3>1, JobAfter
      <3>3. pc'[h] = "idle"
        BY <2>4 DEF Ends, Leave, TypeInv, SelfOK
      <3> QED
        BY <3>2, <3>3 DEF Deciding
    <2>5. ASSUME NEW l, Goto(h, l), l \notin Deciding, job' = job
          PROVE  job'["evaluate"] = "none" /\ pc'[h] \notin Deciding
      BY <1>1, <2>5 DEF Goto, TypeInv, SelfOK
    <2>6. CASE Marks(h)
      <3>1. \/ Throw(h)
            \/ \E l \in {"aiCall", "aiMark", "read", "write"} : Goto(h, l) /\ job' = job
        BY <2>6 DEF Marks, AiRead, AiAnswers, AiRefuses, AiThrows, AiMark, Write
      <3> QED
        BY <1>1, <2>2, <2>4, <2>5, <3>1, EndOf DEF Deciding
    <2>7. CASE Runs(h)
      <3>1. \/ Done(h) \/ Throw(h) \/ Queue(h, Answers \ mem[h].seen)
            \/ \E l \in Post \cup Ending : Goto(h, l) /\ job' = job
        BY <2>3, <2>7 DEF Runs, ReadResponses, DeleteScores, InsertScores, WriteComplete, ReadApp,
           QueueAutomatic, ToAPerson, FindTask, OpenTask, Post, Ending
      <3>2. "evaluate" \notin Answers
        BY NamesApart DEF MarkJobs
      <3> QED
        BY <1>1, <2>2, <2>4, <2>5, <3>1, <3>2, EndOf DEF Deciding, Post, Ending
    <2>8. CASE Tells(h)
      <3>1. Done(h) \/ Throw(h) \/ \E l \in Sending : Goto(h, l) /\ job' = job
        BY <2>8 DEF Tells, ReadToSend, CancelBookings, Send, Sending
      <3> QED
        BY <1>1, <2>2, <2>4, <2>5, <3>1, EndOf DEF Deciding, Sending
    <2>9. CASE Desk(h)
      <3>1. ~\E o : StaffDecision(h, o)
        BY <1>1, StaffDecisionFrame DEF CanBecome
      <3>2. job' = job /\ \E l \in {"write", "read", "sendRead"} : Begin(h, Staff, l)
        BY <2>9, <3>1 DEF Desk, MarkWriting, RemarkAttempt, SendOutcome
      <3> QED
        BY <1>1, <2>2, <3>2 DEF Begin, Deciding, TypeInv, SelfOK
    <2>10. CASE Crash(h)
      BY <1>1, <2>2, <2>4, <2>10, EndOf
    <2>11. ASSUME NEW j \in Jobs, Claim(h, j)
           PROVE  job'["evaluate"] = "none" /\ pc'[h] \notin Deciding
      <3>1. j # "evaluate" /\ \E s : job' = [job EXCEPT ![j] = s]
        BY <1>1, <2>11 DEF Claim
      <3>2. job'["evaluate"] = "none"
        BY <1>1, <3>1, NamesApart DEF TypeInv, JobsOK
      <3>3. FirstOf(j) \notin Deciding
        BY FirstIsStatement DEF Deciding
      <3>4. pc'[h] \in {pc[h], FirstOf(j)}
        BY <2>11 DEF Claim, Begin, self, TypeInv, SelfOK
      <3> QED
        BY <1>1, <3>2, <3>3, <3>4
    <2> QED
      BY <1>1, <1>3, <2>1, <2>2, <2>6, <2>7, <2>8, <2>9, <2>10, <2>11 DEF Step
  <1>4. \A h \in Handlers :
          Step(h) \/ Desk(h) \/ Crash(h) \/ (\E j \in Jobs : Claim(h, j)) => Beside(h)
    BY StepBeside DEF TypeInv
  <1>5. ASSUME NEW h \in Handlers, Moves(h)
        PROVE  job'["evaluate"] = "none" /\ rows' = <<>> /\ decided' = "none" /\ pc'[h] \notin Deciding
    <2>1. Tidy(h)
      BY <1>1, <1>5 DEF Moves, MoveBack, BackToOffer
    <2>2. job'["evaluate"] = job["evaluate"]
      BY <2>1, NamesApart DEF Tidy
    <2>3. pc'[h] = "idle" /\ UNCHANGED <<rows, decided>>
      BY <2>1 DEF Tidy, Leave, file, TypeInv, SelfOK
    <2> QED
      BY <1>1, <2>2, <2>3 DEF Deciding
  <1>6. CASE Outside
    <2>1. UNCHANGED <<rows, self>>
      BY <1>6, OutsideKeeps
    <2>2. decided' = decided
      BY <1>6 DEF Outside, Officers, MovedOn, Deferred, Withdrawn, ToDecision, RetryJob, vars, file
    <2>3. job'["evaluate"] = "none"
      <3>1. ASSUME NEW j \in Jobs, RetryJob(j) PROVE job'["evaluate"] = "none"
        <4>1. j # "evaluate"
          BY <1>1, <3>1 DEF RetryJob
        <4> QED
          BY <1>1, <3>1, <4>1, NamesApart DEF RetryJob, TypeInv, JobsOK
      <3> QED
        BY <1>1, <1>6, <3>1, OutsideKeeps DEF Outside, vars
    <2> QED
      BY <1>1, <2>1, <2>2, <2>3 DEF self
  <1>7. \A h \in Handlers : Moves(h) => Beside(h)
    BY StepBeside DEF TypeInv
  <1> QED
    BY <1>1, <1>3, <1>4, <1>5, <1>6, <1>7, NextParts DEF Beside

LEMMA NotDeciding ==
  ASSUME SelfOK, NEW h \in Handlers,
         Marks(h) \/ Runs(h) \/ Tells(h) \/ Crash(h) \/ \E j \in Jobs : Claim(h, j)
  PROVE  pc'[h] \notin Deciding \/ UNCHANGED self
  <1> USE DEF Deciding, SelfOK, Goto, Leave, Done, Throw, Queue
  <1>1. CASE Marks(h)
    BY <1>1 DEF Marks, AiRead, AiAnswers, AiRefuses, AiThrows, AiMark, Write
  <1>2. CASE Runs(h)
    BY <1>2 DEF Runs, ReadResponses, DeleteScores, InsertScores, WriteComplete, ReadApp,
       QueueAutomatic, ToAPerson, FindTask, OpenTask, AssessmentMarked
  <1>3. CASE Tells(h)
    BY <1>3 DEF Tells, ReadToSend, CancelBookings, Send
  <1>4. CASE Crash(h)
    BY <1>4 DEF Crash
  <1>5. ASSUME NEW j \in Jobs, Claim(h, j) PROVE pc'[h] \notin Deciding \/ UNCHANGED self
    BY <1>5, FirstIsStatement DEF Claim, Begin
  <1> QED
    BY <1>1, <1>2, <1>3, <1>4, <1>5

\* What is read of the decision before.
LEMMA LatestReads ==
  ASSUME TypeInv, NEW h \in Handlers, ReadLatest(h)
  PROVE  /\ mem'[h].app = mem[h].app /\ mem'[h].outcome = mem[h].outcome
         /\ mem'[h].paper = (rows # <<>> /\ rows[Len(rows)].paper)
  <1> DEFINE b == rows # <<>> /\ rows[Len(rows)].paper
  <1>1. b \in BOOLEAN
    <2>1. rows # <<>> => rows[Len(rows)] \in Row
      BY DEF TypeInv, FileOK
    <2> QED
      BY <2>1 DEF Row
  <1>2. mem'[h] = [mem[h] EXCEPT !["paper"] = b] /\ mem[h] \in Memory
    BY DEF ReadLatest, Hold, TypeInv, SelfOK
  <1> HIDE DEF b
  <1>3. mem'[h].app = mem[h].app /\ mem'[h].outcome = mem[h].outcome /\ mem'[h].paper = b
    BY <1>1, <1>2 DEF Memory
  <1> QED
    BY <1>3 DEF b

LEMMA NextReviewed ==
  ASSUME TypeInv, Before, Reviewed, [Next]_vars
  PROVE  Reviewed'
  <1>1. ASSUME NEW h \in Handlers, Telling(h) PROVE Reviewed'
    <2>1. CASE Decide(h)
      <3>1. CASE app = mem[h].app
        <4>1. PICK T \in TaskFor(mem[h].outcome) :
                /\ app' = mem[h].outcome /\ decided' = By(h)
                /\ tasks' = IF mem[h].outcome = "staff_review" THEN tasks \cup T
                            ELSE (tasks \ {"review_decision"}) \cup T
          BY <2>1, <3>1 DEF Decide
        <4> QED
          BY <4>1 DEF Reviewed, TaskFor, By
      <3> QED
        BY <2>1, <3>1 DEF Decide, Reviewed
    <2>2. CASE AssessmentMarked(h)
      BY <2>2 DEF AssessmentMarked, Before, Reviewed, file
    <2>3. CASE OpenTask(h) \/ Record(h) \/ CancelBookings(h) \/ Send(h)
      BY <2>3 DEF OpenTask, Record, CancelBookings, Send, desk, file, Reviewed
    <2> QED
      BY <1>1, <2>1, <2>2, <2>3 DEF Telling
  <1>2. ASSUME NEW h \in Handlers, ~Telling(h),
               Step(h) \/ Desk(h) \/ Crash(h) \/ \E j \in Jobs : Claim(h, j)
        PROVE  Reviewed'
    BY <1>2, Untold DEF Told, Reviewed
  <1>3. ASSUME NEW h \in Handlers, Moves(h) PROVE Reviewed'
    BY <1>3 DEF Moves, MoveBack, BackToOffer, Tidy, desk, file, Reviewed
  <1>4. CASE Outside
    BY <1>4 DEF Outside, Officers, MovedOn, Deferred, Withdrawn, ToDecision, RetryJob, vars, desk,
       file, Reviewed
  <1> QED
    BY <1>1, <1>2, <1>3, <1>4, NextParts

LEMMA NextFreed ==
  ASSUME TypeInv, Held, Freed, [Next]_vars
  PROVE  Freed'
  <1>1. ASSUME booked' = booked \/ ~booked', letters' \subseteq letters,
               NEW h \in Handlers, Beside(h), pc'[h] = "send" /\ mem'[h].app = "declined" => ~booked'
        PROVE  Freed'
    BY <1>1 DEF Freed, Beside
  <1>2. ASSUME NEW h \in Handlers, Step(h) \/ Desk(h) \/ Crash(h) \/ (\E j \in Jobs : Claim(h, j)),
               ~Send(h)
        PROVE  Freed'
    <2>1. Beside(h)
      BY <1>2, StepBeside DEF TypeInv
    <2>2. letters' \subseteq letters /\ (booked' = booked \/ ~booked')
      BY <1>2, Untold DEF Telling, Told, AssessmentMarked, OpenTask, Record, Decide, CancelBookings, desk
    <2>3. CASE CancelBookings(h)
      BY <1>1, <2>1, <2>2, <2>3 DEF CancelBookings
    <2>4. CASE ReadToSend(h)
      <3>1. CASE app \in Letter
        <4>1. mem'[h] = [mem[h] EXCEPT !["app"] = app] /\ app \in Status /\ mem[h] \in Memory
          BY <2>4, <3>1 DEF ReadToSend, Hold, TypeInv, PaperOK, SelfOK
        <4>2. mem'[h].app = app
          BY <4>1, HoldApp
        <4>3. pc'[h] = "send" => app # "declined"
          BY <2>4, <3>1 DEF ReadToSend, Goto, TypeInv, SelfOK
        <4> QED
          BY <1>1, <2>1, <2>2, <4>2, <4>3
      <3>2. CASE app \notin Letter
        <4>1. pc'[h] = "idle"
          BY <2>4, <3>2 DEF ReadToSend, Throw, Leave, TypeInv, SelfOK
        <4> QED
          BY <1>1, <2>1, <2>2, <4>1
      <3> QED
        BY <3>1, <3>2
    <2>5. ASSUME ~CancelBookings(h), ~ReadToSend(h) PROVE pc'[h] # "send" \/ UNCHANGED <<self, booked>>
      <3> USE DEF Goto, Leave, Done, Throw, Queue, TypeInv, SelfOK
      <3>1. ASSUME NEW j \in Jobs, Claim(h, j) PROVE pc'[h] # "send" \/ UNCHANGED <<self, booked>>
        BY <3>1, FirstIsStatement DEF Claim, Begin, desk
      <3>2. CASE Marks(h)
        BY <3>2 DEF Marks, AiRead, AiAnswers, AiRefuses, AiThrows, AiMark, Write
      <3>3. CASE Runs(h)
        BY <3>3 DEF Runs, ReadResponses, DeleteScores, InsertScores, WriteComplete, ReadApp,
           QueueAutomatic, ToAPerson, FindTask, OpenTask, AssessmentMarked
      <3>4. CASE Decides(h)
        BY <3>4, EvalScoresFrame DEF Decides, EvalAttempt, EvalApp, EvalExisting, ReadLatest, Record,
           Decide, QueueLetter
      <3>5. CASE Desk(h) \/ Crash(h)
        BY <3>5, StaffDecisionFrame DEF Desk, MarkWriting, RemarkAttempt, SendOutcome, Begin, Crash
      <3> QED
        BY <1>2, <2>5, <3>1, <3>2, <3>3, <3>4, <3>5 DEF Step, Tells
    <2>6. ASSUME UNCHANGED <<self, booked>> PROVE Freed'
      BY <2>2, <2>6 DEF Freed, self
    <2> QED
      BY <1>1, <2>1, <2>2, <2>3, <2>4, <2>5, <2>6
  <1>3. ASSUME NEW h \in Handlers, Send(h) PROVE Freed'
    <2>1. Beside(h)
      BY <1>3, StepBeside DEF Step, Tells, TypeInv
    <2>2. pc'[h] = "idle" /\ booked' = booked
      BY <1>3 DEF Send, Done, Queue, Throw, Leave, TypeInv, SelfOK
    <2>3. "declined" \in letters' => "declined" \in letters \/ mem[h].app = "declined"
      BY <1>3 DEF Send
    <2>4. pc[h] = "send"
      BY <1>3 DEF Send, At
    <2> QED
      BY <2>1, <2>2, <2>3, <2>4 DEF Freed, Beside
  <1>4. ASSUME NEW h \in Handlers, Moves(h) PROVE Freed'
    <2>1. Beside(h)
      BY <1>4, StepBeside DEF TypeInv
    <2>2. letters' \subseteq letters /\ booked' = booked
      BY <1>4 DEF Moves, MoveBack, BackToOffer, Tidy, desk
    <2>3. pc'[h] # "send"
      BY <1>4 DEF Moves, MoveBack, BackToOffer, Tidy, Begin, Leave, TypeInv, SelfOK
    <2> QED
      BY <1>1, <2>1, <2>2, <2>3
  <1>5. CASE Outside
    <2>1. letters' = letters /\ pc' = pc /\ mem' = mem
      BY <1>5, OutsideKeeps DEF self
    <2>2. ~booked => ~booked'
      BY <1>5, OutsideKeeps, Zenon
    <2> QED
      BY <2>1, <2>2 DEF Freed
  <1> QED
    BY <1>2, <1>3, <1>4, <1>5, NextParts DEF Step, Tells
-----------------------------------------------------------------------------
(* The letter.                                                               *)

\* A letter is queued, or somebody's to send, each time the child comes to its
\* outcome; then it is sent, or queued, or under way.  Tidying up after a move back,
\* which skips what is queued, is over before the child comes to an outcome again.
TidyInv == \A h \in Handlers : pc[h] = "tidy" => app \notin Letter

Sought(s) == job[s] \in Standing \cup {"running"}

Followed ==
  app \in Letter =>
    \/ app \in letters \/ "send_outcome" \in tasks
    \/ \E s \in Sends : about[s] = app /\ Sought(s)

\* Only a decision brings a child to an outcome that has a letter.
LEMMA OutcomeDecided ==
  ASSUME TypeInv, [Next]_vars, app' \in Letter
  PROVE  app' = app \/ \E h \in Handlers : Decide(h) /\ app = mem[h].app
  <1>1. ASSUME NEW h \in Handlers, Step(h) \/ Desk(h) \/ Crash(h) \/ (\E j \in Jobs : Claim(h, j)),
               app' # app
        PROVE  Decide(h) /\ app = mem[h].app
    <2>1. Telling(h)
      BY <1>1, Untold DEF Told
    <2> QED
      BY <1>1, <2>1 DEF Telling, AssessmentMarked, OpenTask, Record, Decide, CancelBookings, Send,
         Letter
  <1>2. ASSUME NEW h \in Handlers, Moves(h) PROVE app' = app
    BY <1>2 DEF Moves, MoveBack, BackToOffer, Tidy, Letter
  <1>3. CASE Outside
    BY <1>3 DEF Outside, Officers, MovedOn, Deferred, Withdrawn, ToDecision, RetryJob, vars, Letter
  <1> QED
    BY <1>1, <1>2, <1>3, NextParts

LEMMA NextTidy ==
  ASSUME TypeInv, TidyAlone, TidyInv, [Next]_vars
  PROVE  TidyInv'
  <1> SUFFICES ASSUME NEW h \in Handlers, pc'[h] = "tidy", app' \in Letter PROVE FALSE
    BY DEF TidyInv
  <1>1. ASSUME NEW g \in Handlers, Decide(g) PROVE FALSE
    <2>1. pc[h] # "tidy"
      BY <1>1 DEF Decide, At
    <2>2. pc'[g] = "idle"
      BY <1>1 DEF Decide, QueueLetter, Done, Throw, Queue, Leave, TypeInv, SelfOK
    <2>3. Beside(g)
      BY <1>1, StepBeside DEF Step, Decides, TypeInv
    <2> QED
      BY <2>1, <2>2, <2>3 DEF Beside
  <1>2. app' = app
    BY <1>1, OutcomeDecided
  <1>3. pc[h] # "tidy"
    BY <1>2 DEF TidyInv
  <1>4. ASSUME NEW g \in Handlers, Moves(g) PROVE FALSE
    <2>1. app \notin Letter \/ Tidy(g)
      BY <1>4, <1>2 DEF Moves, MoveBack, BackToOffer, Letter
    <2>2. Beside(g)
      BY <1>4, StepBeside DEF TypeInv
    <2>3. Tidy(g) => pc'[g] = "idle"
      BY DEF Tidy, Leave, TypeInv, SelfOK
    <2> QED
      BY <1>2, <1>3, <2>1, <2>2, <2>3 DEF Beside
  <1>5. ASSUME NEW g \in Handlers, Step(g) \/ Desk(g) \/ Crash(g) \/ \E j \in Jobs : Claim(g, j)
        PROVE  FALSE
    <2>1. Beside(g)
      BY <1>5, StepBeside DEF TypeInv
    <2>2. pc'[g] # "tidy" \/ UNCHANGED self
      <3> USE DEF Goto, Leave, Done, Throw, Queue, TypeInv, SelfOK
      <3>1. ASSUME NEW j \in Jobs, Claim(g, j) PROVE pc'[g] # "tidy" \/ UNCHANGED self
        BY <3>1, FirstIsStatement DEF Claim, Begin
      <3>2. CASE Marks(g)
        BY <3>2 DEF Marks, AiRead, AiAnswers, AiRefuses, AiThrows, AiMark, Write
      <3>3. CASE Runs(g)
        BY <3>3 DEF Runs, ReadResponses, DeleteScores, InsertScores, WriteComplete, ReadApp,
           QueueAutomatic, ToAPerson, FindTask, OpenTask, AssessmentMarked
      <3>4. CASE Decides(g)
        BY <3>4, EvalScoresFrame DEF Decides, EvalAttempt, EvalApp, EvalExisting, ReadLatest, Record,
           Decide, QueueLetter
      <3>5. CASE Tells(g)
        BY <3>5 DEF Tells, ReadToSend, CancelBookings, Send
      <3>6. CASE Desk(g) \/ Crash(g)
        BY <3>6, StaffDecisionFrame DEF Desk, MarkWriting, RemarkAttempt, SendOutcome, Begin, Crash
      <3> QED
        BY <1>5, <3>1, <3>2, <3>3, <3>4, <3>5, <3>6 DEF Step
    <2> QED
      BY <1>3, <2>1, <2>2 DEF Beside, self
  <1>6. CASE Outside
    <2>1. UNCHANGED self
      BY <1>6, OutsideKeeps
    <2> QED
      BY <1>3, <2>1 DEF self
  <1> QED
    BY <1>4, <1>5, <1>6, NextParts

\* A step that leaves the child where it is.
LEMMA FollowedStays ==
  ASSUME Followed, app' = app, letters \subseteq letters' \/ app \notin Letter,
         "send_outcome" \in tasks => "send_outcome" \in tasks' \/ app \in letters',
         \A w \in Sends : about[w] = app /\ Sought(w) =>
           (about'[w] = app /\ Sought(w)') \/ app \in letters'
  PROVE  Followed'
  BY DEF Followed

\* The letters' jobs, when an invocation ends.
LEMMA LetterAfter ==
  ASSUME TypeInv, Holders, NEW h \in Handlers, NEW s \in Final, NEW new, Ends(h, s, new),
         s \in Standing \/ run[h] \notin Sends
  PROVE  \A w \in Sends : Sought(w) => Sought(w)'
  <1> SUFFICES ASSUME NEW w \in Sends, Sought(w) PROVE Sought(w)'
    OBVIOUS
  <1>1. w \in Jobs
    BY NamesApart
  <1>2. job[w] # "none"
    BY DEF Sought, Standing
  <1>3. job'[w] = IF w = run[h] THEN s ELSE job[w]
    BY <1>1, <1>2, JobAfter
  <1> QED
    BY <1>3 DEF Sought

LEMMA DecideFollowed ==
  ASSUME TypeInv, Flow, Holders, Followed, NEW h \in Handlers, Decide(h)
  PROVE  Followed'
  <1>1. run[h] \in {"evaluate", Staff}
    BY DEF Decide, At, Flow, Suits
  <1>2. run[h] \notin Sends
    BY <1>1, NamesApart
  <1>3. CASE app = mem[h].app
    <2> SUFFICES ASSUME app' \in Letter
                 PROVE  "send_outcome" \in tasks' \/ \E w \in Sends : about'[w] = app' /\ Sought(w)'
      BY DEF Followed
    <2> DEFINE o == mem[h].outcome
    <2>1. PICK T \in TaskFor(o) :
            /\ app' = o
            /\ tasks' = IF o = "staff_review" THEN tasks \cup T
                        ELSE (tasks \ {"review_decision"}) \cup T
            /\ QueueLetter(h, o, T = {} /\ o \in Letter)
      BY <1>3 DEF Decide
    <2>2. o \in Letter /\ o # "staff_review" /\ o # "approved"
      BY <2>1 DEF Letter
    <2>3. CASE T = {}
      <3>1. PICK w \in Sends : /\ job[w] = "none" /\ Queue(h, {w})
                               /\ about' = [about EXCEPT ![w] = o]
        BY <2>1, <2>2, <2>3 DEF QueueLetter
      <3>2. PICK x \in Over : Ends(h, x, {w})
        BY <3>1, EndOf
      <3>3. w \in Jobs /\ w # run[h]
        BY <1>2, NamesApart
      <3>4. job'[w] = "pending"
        BY <3>1, <3>2, <3>3, JobAfter
      <3>5. about'[w] = o
        BY <3>1 DEF TypeInv, FileOK
      <3> QED
        BY <2>1, <3>4, <3>5 DEF Sought, Standing
    <2>4. CASE T # {}
      <3>1. T = {"send_outcome"}
        BY <2>2, <2>4 DEF TaskFor
      <3> QED
        BY <2>1, <3>1
    <2> QED
      BY <2>3, <2>4
  <1>4. CASE app # mem[h].app
    <2>1. UNCHANGED <<app, tasks, letters, about>> /\ Throw(h)
      BY <1>4 DEF Decide
    <2>2. \A w \in Sends : Sought(w) => Sought(w)'
      BY <2>1, EndOf, LetterAfter
    <2> QED
      BY <2>1, <2>2, FollowedStays
  <1> QED
    BY <1>3, <1>4

LEMMA RunsFollowed ==
  ASSUME TypeInv, Flow, Holders, Followed, NEW h \in Handlers, Runs(h)
  PROVE  Followed'
  <1>1. run[h] \notin Sends
    BY RunsGo, NamesApart
  <1>2. \A w \in Sends : Sought(w) => Sought(w)'
    <2>1. CASE job' = job
      BY <2>1 DEF Sought
    <2>2. ASSUME NEW s \in Final, NEW new, Ends(h, s, new)
          PROVE  \A w \in Sends : Sought(w) => Sought(w)'
      BY <1>1, <2>2, LetterAfter
    <2> QED
      BY <2>1, <2>2, RunsGo
  <1>3. CASE app' = app
    <2>1. UNCHANGED <<letters, about>> /\ ("send_outcome" \in tasks => "send_outcome" \in tasks')
      BY DEF Runs, ReadResponses, DeleteScores, InsertScores, WriteComplete, ReadApp,
         QueueAutomatic, ToAPerson, FindTask, OpenTask, AssessmentMarked, desk
    <2> QED
      BY <1>2, <1>3, <2>1, FollowedStays
  <1>4. CASE app' # app
    <2>1. app' = "awaiting_decision"
      BY <1>4 DEF Runs, ReadResponses, DeleteScores, InsertScores, WriteComplete, ReadApp,
         QueueAutomatic, ToAPerson, FindTask, OpenTask, AssessmentMarked
    <2> QED
      BY <2>1 DEF Followed, Letter
  <1> QED
    BY <1>3, <1>4

LEMMA TellsFollowed ==
  ASSUME TypeInv, Flow, Holders, Followed, NEW h \in Handlers, Tells(h)
  PROVE  Followed'
  <1>1. CASE ReadToSend(h) \/ CancelBookings(h) \/ (Send(h) /\ app # mem[h].app)
    <2>1. Throw(h) \/ job' = job
      BY <1>1 DEF ReadToSend, CancelBookings, Send
    <2>2. \A w \in Sends : Sought(w) => Sought(w)'
      <3>1. CASE job' = job
        BY <3>1 DEF Sought
      <3> QED
        BY <2>1, <3>1, EndOf, LetterAfter
    <2>3. UNCHANGED <<app, tasks, letters, about>>
      BY <1>1 DEF ReadToSend, CancelBookings, Send, desk
    <2> QED
      BY <2>2, <2>3, FollowedStays
  <1>2. CASE Send(h) /\ app = mem[h].app
    <2>1. app' = app /\ letters' = letters \cup {app}
      BY <1>2 DEF Send
    <2> QED
      BY <2>1 DEF Followed
  <1> QED
    BY <1>1, <1>2 DEF Tells

\* What officers do: a letter's job is skipped only once its outcome is undone.
LEMMA OfficersFollowed ==
  ASSUME TypeInv, TidyInv, Followed, [Next]_vars, Outside \/ \E h \in Handlers : Moves(h)
  PROVE  Followed'
  <1> SUFFICES ASSUME app' \in Letter PROVE Followed'
    BY DEF Followed
  <1>1. CASE Outside
    <2>1. ~Officers
      BY DEF Officers, MovedOn, Deferred, Withdrawn, ToDecision, Letter
    <2>2. UNCHANGED <<app, desk>>
      BY <1>1, <2>1, OutsideKeeps
    <2>3. \A w \in Sends : Sought(w) => Sought(w)'
      <3>1. ASSUME NEW j \in Jobs, RetryJob(j) PROVE \A w \in Sends : Sought(w) => Sought(w)'
        BY <3>1, NamesApart DEF RetryJob, Sought, Standing, TypeInv, JobsOK
      <3> QED
        BY <1>1, <2>1, <3>1 DEF Outside, vars, Sought
    <2> QED
      BY <2>2, <2>3, FollowedStays DEF desk
  <1>2. ASSUME NEW h \in Handlers, Moves(h) PROVE Followed'
    <2>1. Tidy(h) \/ app' \notin Letter
      BY <1>2 DEF Moves, MoveBack, BackToOffer, Letter
    <2>2. Tidy(h) => app' \notin Letter
      BY DEF Tidy, At, TidyInv
    <2> QED
      BY <2>1, <2>2
  <1> QED
    BY <1>1, <1>2

LEMMA NextFollowed ==
  ASSUME TypeInv, Held, Flow, Holders, TidyInv, Followed, [Next]_vars
  PROVE  Followed'
  <1>1. ASSUME NEW h \in Handlers, Marks(h) \/ Desk(h) \/ Crash(h) \/ (Decides(h) /\ ~Decide(h))
        PROVE  Followed'
    <2>1. UNCHANGED <<app, tasks, letters, about>>
      <3>1. CASE Marks(h)
        BY <3>1 DEF Marks, AiRead, AiAnswers, AiRefuses, AiThrows, AiMark, Write, desk
      <3>2. CASE Desk(h) \/ Crash(h)
        BY <3>2, StaffDecisionFrame DEF Desk, MarkWriting, RemarkAttempt, SendOutcome, Crash, desk
      <3>3. CASE Decides(h) /\ ~Decide(h)
        BY <3>3, EvalScoresFrame DEF Decides, EvalAttempt, EvalApp, EvalExisting, ReadLatest, Record,
           desk
      <3> QED
        BY <1>1, <3>1, <3>2, <3>3
    <2>2. \/ job' = job
          \/ \E s \in Final : Ends(h, s, {}) /\ (s \in Standing \/ run[h] = "evaluate")
      <3>1. CASE Marks(h)
        BY <3>1, MarksGo, EndOf
      <3>2. CASE Desk(h) \/ Crash(h)
        BY <3>2, EndOf, StaffDecisionFrame DEF Desk, MarkWriting, RemarkAttempt, SendOutcome
      <3>3. CASE Decides(h) /\ ~Decide(h)
        <4>1. job' = job \/ Throw(h) \/ (Done(h) /\ run[h] = "evaluate")
          BY <3>3, EvalScoresFrame DEF Decides, EvalAttempt, EvalApp, EvalExisting, ReadLatest, Record,
             At, Flow, Suits, Weighing
        <4> QED
          BY <4>1, EndOf
      <3> QED
        BY <1>1, <3>1, <3>2, <3>3
    <2>3. "evaluate" \notin Sends
      BY NamesApart
    <2>4. \A w \in Sends : Sought(w) => Sought(w)'
      <3>1. CASE job' = job
        BY <3>1 DEF Sought
      <3> QED
        BY <2>2, <2>3, <3>1, LetterAfter
    <2> QED
      BY <2>1, <2>4, FollowedStays
  <1>2. ASSUME NEW h \in Handlers, NEW j \in Jobs, Claim(h, j) PROVE Followed'
    <2>1. UNCHANGED <<app, tasks, letters, about>> /\ job[j] = "pending"
      BY <1>2 DEF Claim, desk
    <2>2. \/ job' = [job EXCEPT ![j] = "running"]
          \/ job' = [job EXCEPT ![j] = "skipped"] /\ app # about[j]
      BY <1>2 DEF Claim
    <2>3. \A w \in Sends : about[w] = app /\ Sought(w) => Sought(w)'
      BY <2>1, <2>2, NamesApart DEF TypeInv, JobsOK, Sought
    <2> QED
      BY <2>1, <2>3, FollowedStays
  <1>3. ASSUME NEW h \in Handlers, Step(h) PROVE Followed'
    BY <1>1, <1>3, DecideFollowed, RunsFollowed, TellsFollowed DEF Step
  <1>4. CASE Outside \/ \E h \in Handlers : Moves(h)
    BY <1>4, OfficersFollowed
  <1> QED
    BY <1>1, <1>2, <1>3, <1>4, NextParts
-----------------------------------------------------------------------------
(* The rules.  Until they decide, for a child the marks brought to Decision,   *)
(* their job is queued, failed or run; the first row with the paper's scores   *)
(* is theirs, and an officer's row repeats it, so a row that has them is there *)
(* only while the rules are about to move the child.                          *)

Last(h) == pc[h] = "decide" /\ run[h] = "evaluate"
Papered == \E i \in DOMAIN rows : rows[i].paper
Copied == \E h \in Handlers : pc[h] = "record" /\ run[h] = Staff /\ mem[h].paper

Due == app = "awaiting_decision" /\ decided = "none"
Ruled ==
  crashes = 0 /\ Due =>
    /\ job["evaluate"] \in Standing \cup {"running"}
    /\ Papered \/ Copied => \E h \in Handlers : Last(h)

LEMMA RuledArrives ==
  ASSUME TypeInv, Flow, Holders, Before, NEW h \in Handlers, Beside(h), AssessmentMarked(h),
         app = "assessment_completed"
  PROVE  Ruled'
  <1>1. /\ job["evaluate"] = "none" /\ rows' = <<>>
        /\ \A g \in Handlers : pc[g] \notin Deciding
    BY DEF Before, AssessmentMarked, file
  <1>2. PICK s \in Over : Ends(h, s, {"evaluate"})
    BY EndOf DEF AssessmentMarked
  <1>3. job'["evaluate"] = "pending"
    <2>1. run[h] # "evaluate"
      BY <1>1, NamesApart DEF Holders
    <2> QED
      BY <1>1, <1>2, <2>1, JobAfter, NamesApart
  <1>4. pc'[h] = "idle"
    BY <1>2 DEF Ends, Leave, TypeInv, SelfOK
  <1>5. ~Copied'
    BY <1>1, <1>4 DEF Copied, Beside, Deciding
  <1>6. ~Papered'
    BY <1>1 DEF Papered
  <1> QED
    BY <1>3, <1>5, <1>6 DEF Ruled, Standing

LEMMA RuledRows ==
  ASSUME TypeInv, Flow, NEW h \in Handlers, Beside(h), Papered' \/ Copied',
         Step(h) \/ Desk(h) \/ \E j \in Jobs : Claim(h, j)
  PROVE  Papered \/ Copied \/ Last(h)'
  <1>1. CASE Record(h)
    <2> DEFINE r == [by |-> By(h), outcome |-> mem[h].outcome, paper |-> mem[h].paper]
    <2>1. pc[h] = "record" /\ pc'[h] = "decide" /\ run' = run /\ run[h] \in {"evaluate", Staff}
          /\ rows' = Append(rows, r)
      BY <1>1 DEF Record, At, Goto, Flow, Suits, TypeInv, SelfOK
    <2>2. CASE run[h] = "evaluate"
      BY <2>1, <2>2 DEF Last
    <2>3. CASE run[h] = Staff
      <3>1. r.paper = mem[h].paper
        OBVIOUS
      <3> HIDE DEF r
      <3>2. rows \in Seq(Row)
        BY DEF TypeInv, FileOK
      <3>3. DOMAIN rows' = 1..(Len(rows) + 1) /\ DOMAIN rows = 1..Len(rows)
            /\ rows'[Len(rows) + 1] = r /\ \A i \in 1..Len(rows) : rows'[i] = rows[i]
        BY <2>1, <3>2
      <3>4. Papered' => Papered \/ mem[h].paper
        <4> SUFFICES ASSUME NEW i \in DOMAIN rows', rows'[i].paper PROVE Papered \/ mem[h].paper
          BY DEF Papered
        <4>1. CASE i = Len(rows) + 1
          BY <3>1, <3>3, <4>1
        <4>2. CASE i # Len(rows) + 1
          <5>1. i \in 1..Len(rows)
            BY <3>2, <3>3, <4>2
          <5> QED
            BY <3>3, <5>1 DEF Papered
        <4> QED
          BY <4>1, <4>2
      <3>5. Copied' => Copied
        BY <2>1 DEF Copied, Beside
      <3> QED
        BY <2>1, <2>3, <3>4, <3>5 DEF Copied
    <2> QED
      BY <2>1, <2>2, <2>3
  <1>2. CASE ReadLatest(h)
    <2>1. rows' = rows
      BY <1>2 DEF ReadLatest, file
    <2>2. Papered' => Papered
      BY <2>1 DEF Papered
    <2>3. ASSUME mem'[h].paper PROVE Papered
      <3>1. rows # <<>> /\ rows[Len(rows)].paper /\ rows \in Seq(Row)
        BY <1>2, <2>3, LatestReads DEF TypeInv, FileOK
      <3>2. Len(rows) \in DOMAIN rows
        BY <3>1
      <3> QED
        BY <3>1, <3>2 DEF Papered
    <2>4. Copied' => Copied \/ mem'[h].paper
      BY DEF Copied, Beside
    <2> QED
      BY <2>2, <2>3, <2>4
  <1>3. CASE ~Record(h) /\ ~ReadLatest(h)
    <2>1. rows' = rows
      BY <1>3, Untold DEF Telling, Told, AssessmentMarked, OpenTask, Decide, CancelBookings, Send, file
    <2>2. Papered' => Papered
      BY <2>1 DEF Papered
    <2>3. pc'[h] # "record" \/ run'[h] # Staff \/ UNCHANGED self
      <3>1. CASE EvalScores(h)
        <4>1. run[h] = "evaluate" /\ run' = run
          BY <3>1, EvalScoresFrame DEF At, Goto, Flow, Suits, Weighing
        <4> QED
          BY <4>1, NamesApart
      <3>2. CASE EvalAttempt(h) \/ EvalApp(h) \/ EvalExisting(h) \/ Decide(h) \/ Desk(h)
        BY <3>2, StaffDecisionFrame DEF EvalAttempt, EvalApp, EvalExisting, Decide, QueueLetter, Desk,
           MarkWriting, RemarkAttempt, SendOutcome, Begin, Goto, Leave, Done, Throw, Queue, TypeInv,
           SelfOK
      <3> QED
        BY <1>3, <3>1, <3>2, NotDeciding DEF Step, Decides, Deciding, TypeInv
    <2>4. Copied' => Copied
      BY <2>3 DEF Copied, Beside, self
    <2> QED
      BY <2>2, <2>4
  <1> QED
    BY <1>1, <1>2, <1>3

LEMMA RuledJob ==
  ASSUME TypeInv, Held, Flow, Holders, Ruled, crashes = 0,
         Due, app' = "awaiting_decision", NEW h \in Handlers,
         Step(h) \/ Desk(h) \/ \E j \in Jobs : Claim(h, j)
  PROVE  job'["evaluate"] \in Standing \cup {"running"} /\ (~Last(h) \/ UNCHANGED self)
  <1>0. /\ job["evaluate"] \in Standing \cup {"running"} /\ "evaluate" \in Jobs
        /\ Papered => \E g \in Handlers : Last(g)
    BY NamesApart DEF Ruled
  <1>1. ~(run[h] = "evaluate" /\ Decide(h))
    <2> SUFFICES ASSUME run[h] = "evaluate", Decide(h) PROVE FALSE
      OBVIOUS
    <2>1. mem[h].app = "awaiting_decision" /\ mem[h].outcome \in Outcome
      BY MemoryFields, NamesApart DEF Decide, At, Held, Ruling, TypeInv, SelfOK
    <2>2. app' \in Outcome
      BY <2>1 DEF Decide, Due
    <2> QED
      BY <2>2 DEF Outcome, Letter
  <1>2. ASSUME NEW s, NEW new, Ends(h, s, new), run[h] # "evaluate" \/ s \in Standing
        PROVE  job'["evaluate"] \in Standing \cup {"running"}
    <2>1. job["evaluate"] # "none"
      BY <1>0 DEF Standing
    <2> QED
      BY <1>0, <1>2, <2>1, JobAfter
  <1>3. CASE Marks(h)
    <2>1. (\E s \in Standing : Ends(h, s, {})) \/ job' = job
      BY <1>3, MarksGo
    <2>2. pc[h] # "decide"
      BY <1>3 DEF Marks, AiRead, AiAnswers, AiRefuses, AiThrows, AiMark, Write, At
    <2> QED
      BY <1>0, <1>2, <2>1, <2>2 DEF Last
  <1>4. CASE Runs(h) \/ Tells(h)
    <2>1. run[h] # "evaluate"
      BY <1>4, RunsGo, TellsGo, NamesApart
    <2>2. job' = job \/ \E s, new : Ends(h, s, new)
      BY <1>4, RunsGo, TellsGo
    <2> QED
      BY <1>0, <1>2, <2>1, <2>2 DEF Last
  <1>5. CASE Decides(h)
    <2>1. CASE Decide(h)
      <3>1. run[h] # "evaluate" /\ \E s, new : Ends(h, s, new)
        BY <1>1, <2>1, EndOf DEF Decide, QueueLetter
      <3> QED
        BY <1>2, <3>1 DEF Last
    <2>2. CASE ~Decide(h)
      <3>1. pc[h] # "decide"
        BY <1>5, <2>2, EvalScoresFrame DEF Decides, EvalAttempt, EvalApp, EvalExisting, ReadLatest,
           Record, At
      <3>2. ~(EvalExisting(h) /\ Papered)
        <4>1. EvalExisting(h) => pc[h] = "evalExisting" /\ run[h] = "evaluate"
          BY DEF EvalExisting, At, Flow, Suits, Weighing
        <4>2. ASSUME NEW g \in Handlers, Last(g), EvalExisting(h) PROVE FALSE
          BY <4>1, <4>2, NamesApart DEF Last, Holders
        <4> QED
          BY <1>0, <4>2
      <3>3. job' = job \/ Throw(h)
        BY <1>5, <2>2, <3>2, EvalScoresFrame DEF Decides, EvalAttempt, EvalApp, EvalExisting, ReadLatest,
           Record, Papered, Due
      <3> QED
        BY <1>0, <1>2, <3>1, <3>3, EndOf DEF Last
    <2> QED
      BY <2>1, <2>2
  <1>6. CASE Desk(h)
    <2>1. job' = job /\ pc[h] = "idle"
      BY <1>6, StaffDecisionFrame DEF Desk, MarkWriting, RemarkAttempt, SendOutcome, Begin, At
    <2> QED
      BY <1>0, <2>1 DEF Last
  <1>7. ASSUME NEW j \in Jobs, Claim(h, j)
        PROVE  job'["evaluate"] \in Standing \cup {"running"} /\ (~Last(h) \/ UNCHANGED self)
    <2>1. \/ job' = [job EXCEPT ![j] = "running"] /\ pc[h] = "idle"
          \/ job' = [job EXCEPT ![j] = "skipped"] /\ j \in Sends /\ UNCHANGED self
      BY <1>7 DEF Claim, Begin, At
    <2>2. job'["evaluate"] \in Standing \cup {"running"}
      BY <1>0, <2>1, NamesApart DEF TypeInv, JobsOK
    <2> QED
      BY <2>1, <2>2 DEF Last
  <1> QED
    BY <1>3, <1>4, <1>5, <1>6, <1>7 DEF Step

LEMMA NextRuled ==
  ASSUME TypeInv, Held, Flow, Holders, Before, Ruled, [Next]_vars
  PROVE  Ruled'
  <1> SUFFICES ASSUME crashes' = 0, app' = "awaiting_decision", decided' = "none" PROVE Ruled'
    BY DEF Ruled, Due
  <1>1. \A h \in Handlers :
          Step(h) \/ Desk(h) \/ Crash(h) \/ (\E j \in Jobs : Claim(h, j)) => Beside(h)
    BY StepBeside DEF TypeInv
  <1>2. \A h \in Handlers : ~Crash(h)
    BY DEF Crash, TypeInv, FileOK
  <1>3. crashes = 0
    <2>1. ASSUME NEW h \in Handlers, Step(h) \/ Desk(h) \/ \E j \in Jobs : Claim(h, j)
          PROVE  crashes' = crashes
      <3>1. CASE Marks(h)
        BY <3>1 DEF Marks, AiRead, AiAnswers, AiRefuses, AiThrows, AiMark, Write
      <3>2. CASE Runs(h)
        BY <3>2 DEF Runs, ReadResponses, DeleteScores, InsertScores, WriteComplete, ReadApp,
           QueueAutomatic, ToAPerson, FindTask, OpenTask, AssessmentMarked
      <3>3. CASE Decides(h) \/ Tells(h)
        BY <3>3, EvalScoresFrame DEF Decides, EvalAttempt, EvalApp, EvalExisting, ReadLatest, Record,
           Decide, Tells, ReadToSend, CancelBookings, Send
      <3>4. CASE Desk(h) \/ \E j \in Jobs : Claim(h, j)
        BY <3>4, StaffDecisionFrame DEF Desk, MarkWriting, RemarkAttempt, SendOutcome, Claim
      <3> QED
        BY <2>1, <3>1, <3>2, <3>3, <3>4 DEF Step
    <2>2. \A h \in Handlers : Moves(h) => crashes' = crashes
      BY DEF Moves, MoveBack, BackToOffer, Tidy
    <2> QED
      BY <1>2, <2>1, <2>2, OutsideKeeps, NextParts
  <1>4. ASSUME NEW h \in Handlers, app # "awaiting_decision",
               Step(h) \/ Desk(h) \/ \E j \in Jobs : Claim(h, j)
        PROVE  Ruled'
    <2>1. AssessmentMarked(h) /\ app = "assessment_completed"
      <3>1. ~Decide(h)
        <4>1. mem[h].outcome \in Outcome
          BY MemoryFields DEF TypeInv, SelfOK
        <4> QED
          BY <1>4, <4>1 DEF Decide, Outcome, Letter
      <3> QED
        BY <1>4, <3>1, Untold DEF Telling, Told, AssessmentMarked, OpenTask, Record, CancelBookings, Send
    <2> QED
      BY <1>1, <1>4, <2>1, RuledArrives
  <1>5. ASSUME NEW h \in Handlers, app = "awaiting_decision",
               Step(h) \/ Desk(h) \/ \E j \in Jobs : Claim(h, j)
        PROVE  Ruled'
    <2>0. Due
      <3>1. ~Decide(h) \/ app # mem[h].app
        BY DEF Decide, By
      <3> QED
        BY <1>5, <3>1, Untold DEF Due, Telling, Told, AssessmentMarked, OpenTask, Record, Decide,
           CancelBookings, Send, file
    <2>1. job'["evaluate"] \in Standing \cup {"running"} /\ (~Last(h) \/ UNCHANGED self)
      BY <1>3, <1>5, <2>0, RuledJob
    <2>2. Papered' \/ Copied' => Papered \/ Copied \/ Last(h)'
      BY <1>1, <1>5, RuledRows
    <2>3. ASSUME NEW g \in Handlers, Last(g) PROVE Last(g)'
      BY <1>1, <1>5, <2>1, <2>3 DEF Last, Beside, self
    <2>4. Papered \/ Copied => \E g \in Handlers : Last(g)
      BY <1>3, <2>0 DEF Ruled
    <2> QED
      BY <2>1, <2>2, <2>3, <2>4 DEF Ruled
  <1>6. ASSUME NEW h \in Handlers, Moves(h) PROVE Ruled'
    <2>1. pc'[h] \in {"tidy", "idle"} /\ Beside(h) /\ UNCHANGED <<rows, crashes>>
      BY <1>6, StepBeside DEF Moves, MoveBack, BackToOffer, Tidy, Begin, Leave, file, TypeInv, SelfOK
    <2>2. Due /\ job'["evaluate"] = job["evaluate"]
      BY <1>6, NamesApart DEF Moves, MoveBack, BackToOffer, Tidy, file, Due
    <2>3. pc[h] \in {"tidy", "idle"}
      BY <1>6 DEF Moves, MoveBack, BackToOffer, Tidy, Begin, At
    <2>4. Papered' = Papered
      BY <2>1 DEF Papered
    <2>5. Copied' => Copied
      BY <2>1 DEF Copied, Beside
    <2>6. (\E g \in Handlers : Last(g)) => \E g \in Handlers : Last(g)'
      BY <2>1, <2>3 DEF Last, Beside
    <2> QED
      BY <1>3, <2>2, <2>4, <2>5, <2>6 DEF Ruled
  <1>7. CASE Outside
    <2>1. UNCHANGED <<rows, self>>
      BY <1>7, OutsideKeeps
    <2>2. Due
      BY <1>7 DEF Outside, Officers, MovedOn, Deferred, Withdrawn, ToDecision, RetryJob, vars, file, Due
    <2>3. job["evaluate"] \in Standing \cup {"running"} => job'["evaluate"] \in Standing \cup {"running"}
      <3>1. ASSUME NEW j \in Jobs, RetryJob(j)
            PROVE  job["evaluate"] \in Standing \cup {"running"} => job'["evaluate"] \in Standing \cup {"running"}
        BY <3>1, NamesApart DEF RetryJob, Standing, TypeInv, JobsOK
      <3> QED
        BY <1>7, <3>1, OutsideKeeps DEF Outside, vars
    <2>4. UNCHANGED <<Papered, Copied>> /\ \A g \in Handlers : Last(g)' = Last(g)
      BY <2>1 DEF Papered, Copied, Last, self
    <2> QED
      BY <1>3, <2>2, <2>3, <2>4 DEF Ruled
  <1> QED
    BY <1>2, <1>4, <1>5, <1>6, <1>7, NextParts

DecisionInv ==
  /\ TypeInv /\ Held /\ Flow /\ Holders
  /\ Before /\ TidyInv
  /\ Ruled /\ Reviewed /\ Freed /\ Followed

LEMMA InitDecision == Init => DecisionInv
  <1> SUFFICES ASSUME Init PROVE DecisionInv
    OBVIOUS
  <1>1. job["evaluate"] = "none"
    BY DEF Init, Jobs
  <1>2. \A h \in Handlers : pc[h] = "idle"
    BY DEF Init
  <1>3. Before /\ TidyInv
    BY <1>1, <1>2 DEF Init, Before, TidyInv, Deciding
  <1>4. Ruled /\ Reviewed /\ Freed /\ Followed
    BY <1>1, <1>2 DEF Init, Ruled, Due, Reviewed, Freed, Followed, Letter
  <1> QED
    BY <1>3, <1>4, InitInv, InitHolders DEF DecisionInv

LEMMA NextDecision ==
  ASSUME TidyAlone
  PROVE  DecisionInv /\ [Next]_vars => DecisionInv'
  BY NextInv, NextHolders, NextBefore, NextTidy, NextRuled, NextReviewed, NextFreed,
     NextFollowed DEF DecisionInv

\* However the rules, the officers, the letters and the moves back meet, if no
\* decision is committed while a move back is tidying: once every invocation has
\* ended and none was killed, the evaluation of a child the marks brought to
\* Decision is queued or failed, a review, and a child moved back to be decided
\* again, has its task, an outcome has its letter sent, queued, failed or to send,
\* and a decline was not sent over a visit still ahead.
THEOREM DecisionKept ==
  ASSUME TidyAlone
  PROVE  Spec => []DecisionGoesOn
  <1>1. DecisionInv => DecisionGoesOn
    <2> SUFFICES ASSUME DecisionInv, Quiet, crashes = 0
                 PROVE  /\ app = "awaiting_decision" /\ decided = "none" => Stands("evaluate")
                        /\ app = "awaiting_decision" /\ decided = "back" => "review_decision" \in tasks
                        /\ app = "staff_review" => "review_decision" \in tasks
                        /\ "declined" \in letters => ~booked
                        /\ app \in Letter =>
                             \/ app \in letters \/ "send_outcome" \in tasks
                             \/ \E s \in Sends : about[s] = app /\ Stands(s)
      BY DEF DecisionGoesOn
    <2>1. \A h \in Handlers : run[h] = Staff
      BY DEF Quiet, At, DecisionInv, Flow, Suits
    <2>2. \A j \in Jobs : job[j] # "running"
      BY <2>1, NamesApart DEF DecisionInv, Holders
    <2>3. "evaluate" \in Jobs /\ Sends \subseteq Jobs
      BY NamesApart
    <2>4. \A s \in Sends : Sought(s) => Stands(s)
      BY <2>2, <2>3 DEF Sought, Stands
    <2>5. app = "awaiting_decision" /\ decided = "none" => Stands("evaluate")
      BY <2>2, <2>3 DEF DecisionInv, Ruled, Due, Stands
    <2> QED
      BY <2>4, <2>5 DEF DecisionInv, Reviewed, Freed, Followed
  <1>2. DecisionInv /\ [Next]_vars => DecisionInv'
    BY NextDecision
  <1> QED
    BY <1>1, <1>2, InitDecision, PTL DEF Spec
===============================================================================
