------------------------------ MODULE JobsProofs ------------------------------
(* What Jobs keeps for any number of moments, drains, crashes, retries by    *)
(* hand and moved deadlines.                                                 *)
EXTENDS Jobs, TLAPS

\* A drain that works on a job knows which kind it is.
Kinds ==
  \A w \in Workers :
    /\ step[w] \in {"send", "companion"} => cur[w].job \in Emails
    /\ step[w] \in {"key", "message"} => cur[w].job \in Job \ Emails
    /\ step[w] \notin {"idle", "next"} => cur[w] \in Claimed

\* One drain at most is past the keyed insert for a message not yet sent.
Keyed ==
  /\ \A w \in Workers :
       step[w] = "message" => /\ keyed[cur[w].job[2]]
                              /\ inbox[cur[w].job] = 0
  /\ \A v, w \in Workers :
       step[v] = "message" /\ step[w] = "message" /\ cur[v].job = cur[w].job => v = w
  /\ \A m \in Moments : ~keyed[m] => inbox[<<"whatsapp", m>>] = 0

LEMMA ClaimedFields ==
  ASSUME NEW c \in Claimed
  PROVE  c.job \in Job /\ c.tries \in Nat
  BY DEF Claimed

LEMMA NoJobIsNone == NoJob \notin Claimed /\ NoJob.job \notin Job
  BY DEF NoJob, Claimed, Job

LEMMA JobKinds ==
  /\ \A m \in Moments : Email(m) \in Job /\ Email(m) \in Emails
                        /\ <<"whatsapp", m>> \in Job /\ <<"whatsapp", m>> \notin Emails
  /\ \A j \in Job : j[2] \in Moments /\ Companion(j) \in Job
                    /\ (j \notin Emails => j = <<"whatsapp", j[2]>>)
  /\ Emails \subseteq Job
  BY DEF Email, Emails, Job, Companion

LEMMA InitType == Init => TypeOK /\ Kinds
  BY DEF Init, TypeOK, Kinds, JobStatus, Step, Emails, NoJob

LEMMA NextType == TypeOK /\ Kinds /\ [Next]_vars => TypeOK' /\ Kinds'
  <1> SUFFICES ASSUME TypeOK, Kinds, [Next]_vars PROVE TypeOK' /\ Kinds'
    OBVIOUS
  <1> USE NoJobIsNone, JobKinds, LimitAssumption, BoundAssumption
      DEF TypeOK, Kinds, JobStatus, Step
  <1>1. ASSUME NEW w \in Workers, Claim(w) PROVE TypeOK' /\ Kinds'
    <2>1. PICK S \in SUBSET Job : TakeBatch(w, S)
      BY <1>1 DEF Claim, ClaimFrom
    <2>2. {[job |-> j, tries |-> attempts[j] + 1] : j \in S} \in SUBSET Claimed
      BY DEF Claimed
    <2>3. At(w, "idle")
      BY <1>1 DEF Claim, ClaimFrom
    <2> QED
      BY <2>1, <2>2, <2>3 DEF TakeBatch, At, parent, move
  <1>2. ASSUME NEW w \in Workers, RunOne(w) PROVE TypeOK' /\ Kinds'
    <2>1. CASE Take(w)
      BY <2>1, ClaimedFields DEF Take, At, job, parent, move
    <2>2. CASE BatchOver(w)
      BY <2>2 DEF BatchOver, At, Goto, job, parent, move
    <2>3. CASE SendEmail(w)
      BY <2>3, ClaimedFields DEF SendEmail, At, Goto, job, move
    <2>4. CASE QueueCompanion(w)
      <3>1. cur[w].job \in Job /\ Companion(cur[w].job) \in Job
        BY <2>4, ClaimedFields DEF QueueCompanion, At
      <3>2. status' \in [Job -> JobStatus] /\ due' \in [Job -> BOOLEAN]
        BY <2>4, <3>1 DEF QueueCompanion, Insert, Mark
      <3> QED
        BY <2>4, <3>1, <3>2 DEF QueueCompanion, At, Goto, parent, move
    <2>5. CASE KeyMessage(w)
      BY <2>5, ClaimedFields DEF KeyMessage, At, Goto, job, move
    <2>6. CASE SendMessage(w)
      BY <2>6, ClaimedFields DEF SendMessage, At, Goto, job, move
    <2>7. ASSUME NEW s \in {"done", "skip", "fail"}, NEW e \in Ended, Finish(w, s, e)
          PROVE  TypeOK' /\ Kinds'
      BY <2>7, ClaimedFields DEF Finish, Ended, Mark, At, parent, move
    <2>8. CASE Retry(w)
      <3>1. cur[w].job \in Job
        BY <2>8, ClaimedFields DEF Retry, At
      <3>2. CASE cur[w].tries >= MaxAttempts
        BY <2>8, <3>1, <3>2 DEF Retry, Mark, At, parent, move
      <3>3. CASE ~(cur[w].tries >= MaxAttempts)
        <4>1. status' \in [Job -> JobStatus] /\ due' \in [Job -> BOOLEAN] /\ stale' \in [Job -> BOOLEAN]
          BY <2>8, <3>1, <3>3 DEF Retry, Mark
        <4> QED
          BY <2>8, <3>1, <3>3, <4>1 DEF Retry, Mark, At, parent, move
      <3> QED
        BY <3>2, <3>3
    <2> QED
      BY <1>2, <2>1, <2>2, <2>3, <2>4, <2>5, <2>6, <2>7, <2>8
      DEF RunOne, Done, Skip, Fail, Ended
  <1>3. ASSUME NEW w \in Workers, Crash(w) PROVE TypeOK' /\ Kinds'
    BY <1>3 DEF Crash, job, parent, move
  <1>4. ASSUME NEW j \in Job, BecomesDue(j) \/ GoesStale(j) \/ RetryJob(j)
        PROVE  TypeOK' /\ Kinds'
    <2>1. CASE BecomesDue(j)
      BY <2>1 DEF BecomesDue, parent, drain, move
    <2>2. CASE GoesStale(j)
      BY <2>2 DEF GoesStale, parent, drain, move
    <2>3. CASE RetryJob(j)
      BY <2>3 DEF RetryJob, Mark, parent, drain, move
    <2> QED
      BY <1>4, <2>1, <2>2, <2>3
  <1>5. ASSUME NEW m \in Moments, Enqueue(m) \/ MomentPasses(m) PROVE TypeOK' /\ Kinds'
    <2>1. CASE Enqueue(m)
      BY <2>1 DEF Enqueue, Insert, Mark, parent, drain, move
    <2>2. CASE MomentPasses(m)
      BY <2>2 DEF MomentPasses, job, drain, move
    <2> QED
      BY <1>5, <2>1, <2>2
  <1>6. CASE Deadline
    <2>1. CASE DeadlineRead
      BY <2>1 DEF DeadlineRead, job, parent, drain
    <2>2. CASE DeadlineCommitted \/ DeadlineRefused \/ DeadlineUndone
      BY <2>2 DEF DeadlineCommitted, DeadlineRefused, DeadlineUndone, job, parent, drain
    <2>3. ASSUME NEW j \in Emails, DeadlineReschedule(j) PROVE TypeOK' /\ Kinds'
      BY <2>3 DEF DeadlineReschedule, Mark, parent, drain
    <2>4. ASSUME NEW j \in Emails, DeadlineUndo(j) PROVE TypeOK' /\ Kinds'
      BY <2>4 DEF DeadlineUndo, Mark, parent, drain
    <2> QED
      BY <1>6, <2>1, <2>2, <2>3, <2>4 DEF Deadline
  <1>7. CASE UNCHANGED vars
    BY <1>7 DEF vars
  <1> QED
    BY <1>1, <1>2, <1>3, <1>4, <1>5, <1>6, <1>7 DEF Next

\* Type correctness: jobs.ts and jobs.sql never leave a job, a claim or a
\* drain's copy in a state the code does not name.
THEOREM TypeCorrect == Spec => []TypeOK
  <1>1. Init => TypeOK /\ Kinds
    BY InitType
  <1>2. TypeOK /\ Kinds /\ [Next]_vars => TypeOK' /\ Kinds'
    BY NextType
  <1> QED
    BY <1>1, <1>2, PTL DEF Spec

-----------------------------------------------------------------------------
\* What a step must leave alone for the message rows to stay consistent.
LEMMA KeyedStays ==
  ASSUME TypeOK, Kinds, Keyed, MessagedOnce, UNCHANGED <<keyed, inbox>>,
         \A w \in Workers : step'[w] = "message" => step[w] = "message" /\ cur'[w] = cur[w]
  PROVE  Keyed' /\ MessagedOnce'
  BY DEF Keyed, MessagedOnce

LEMMA NextKeyed ==
  TypeOK /\ Kinds /\ Keyed /\ MessagedOnce /\ [Next]_vars => Keyed' /\ MessagedOnce'
  <1> SUFFICES ASSUME TypeOK, Kinds, Keyed, MessagedOnce, [Next]_vars
               PROVE  Keyed' /\ MessagedOnce'
    OBVIOUS
  <1> DEFINE Calm == /\ UNCHANGED <<keyed, inbox>>
                     /\ \A w \in Workers :
                          step'[w] = "message" => step[w] = "message" /\ cur'[w] = cur[w]
  <1>1. ASSUME NEW w \in Workers, Claim(w) \/ Crash(w) PROVE Keyed' /\ MessagedOnce'
    <2>1. Calm
      BY <1>1 DEF TypeOK, Claim, ClaimFrom, TakeBatch, Crash, At, parent
    <2> QED
      BY <2>1, KeyedStays
  <1>2. ASSUME NEW w \in Workers, RunOne(w) PROVE Keyed' /\ MessagedOnce'
    <2>1. CASE Take(w) \/ BatchOver(w)
      <3>1. Calm
        BY <2>1 DEF TypeOK, Take, BatchOver, At, Goto, job, parent
      <3> QED
        BY <3>1, KeyedStays
    <2>2. CASE SendEmail(w)
      <3>1. /\ cur[w].job \in Emails /\ UNCHANGED <<keyed, cur>>
            /\ \A j \in Job \ Emails : inbox'[j] = inbox[j]
            /\ \A v \in Workers : step'[v] = "message" => step[v] = "message"
        BY <2>2 DEF TypeOK, Kinds, SendEmail, At, Goto
      <3> QED
        BY <3>1, JobKinds DEF TypeOK, Kinds, Keyed, MessagedOnce
    <2>3. CASE QueueCompanion(w)
      <3>1. Calm
        BY <2>3 DEF TypeOK, QueueCompanion, At, Goto, parent
      <3> QED
        BY <3>1, KeyedStays
    <2>4. CASE KeyMessage(w)
      <3> DEFINE j == cur[w].job
                 m == j[2]
      <3>1. j \in Job \ Emails /\ m \in Moments /\ j = <<"whatsapp", m>>
        BY <2>4, JobKinds DEF Kinds, KeyMessage, At
      <3>2. CASE keyed[m]
        <4>1. Calm
          BY <2>4, <3>1, <3>2 DEF TypeOK, KeyMessage, At, Goto
        <4> QED
          BY <4>1, KeyedStays
      <3>3. CASE ~keyed[m]
        <4>1. inbox[j] = 0 /\ \A v \in Workers : step[v] = "message" => cur[v].job # j
          BY <3>1, <3>3 DEF Keyed
        <4>2. /\ \A v \in Workers : step'[v] = "message" => v = w \/ step[v] = "message"
              /\ keyed' = [keyed EXCEPT ![m] = TRUE] /\ UNCHANGED <<cur, inbox>>
          BY <2>4 DEF TypeOK, KeyMessage, At, Goto
        <4>3. \A n \in Moments : keyed[n] => keyed'[n]
          BY <4>2, <3>1 DEF TypeOK
        <4>4. keyed'[m]
          BY <4>2, <3>1 DEF TypeOK
        <4>5. \A v \in Workers : step[v] = "message" => cur[v].job[2] \in Moments
          BY JobKinds DEF Kinds
        <4>6. \A v \in Workers :
                step'[v] = "message" => keyed'[cur'[v].job[2]] /\ inbox'[cur'[v].job] = 0
          BY <4>1, <4>2, <4>3, <4>4, <4>5 DEF Keyed
        <4>7. \A u, v \in Workers :
                step'[u] = "message" /\ step'[v] = "message" /\ cur'[u].job = cur'[v].job
                  => u = v
          BY <4>1, <4>2 DEF Keyed
        <4> QED
          BY <4>2, <4>3, <4>6, <4>7 DEF Keyed, MessagedOnce
      <3> QED
        BY <3>2, <3>3
    <2>5. CASE SendMessage(w)
      <3> DEFINE j == cur[w].job
      <3>1. j \in Job \ Emails /\ inbox[j] = 0 /\ keyed[j[2]]
        BY <2>5, JobKinds DEF Kinds, Keyed, SendMessage, At
      <3>2. /\ UNCHANGED <<keyed, cur>> /\ inbox'[j] \in {0, 1}
            /\ \A k \in Job \ {j} : inbox'[k] = inbox[k]
            /\ \A v \in Workers : step'[v] = "message" => v # w /\ step[v] = "message"
        BY <2>5, <3>1 DEF TypeOK, SendMessage, At, Goto
      <3>3. \A v \in Workers : v # w /\ step[v] = "message" => cur[v].job # j
        BY <2>5 DEF Keyed, SendMessage, At
      <3> QED
        BY <3>1, <3>2, <3>3, JobKinds DEF Keyed, MessagedOnce, Kinds
    <2>6. CASE Done(w) \/ Skip(w) \/ Fail(w) \/ Retry(w)
      <3>1. Calm
        BY <2>6 DEF TypeOK, Done, Skip, Fail, Finish, Retry, At, parent
      <3> QED
        BY <3>1, KeyedStays
    <2> QED
      BY <1>2, <2>1, <2>2, <2>3, <2>4, <2>5, <2>6 DEF RunOne
  <1>3. ASSUME NEW j \in Job, BecomesDue(j) \/ GoesStale(j) \/ RetryJob(j)
        PROVE  Keyed' /\ MessagedOnce'
    <2>1. Calm
      BY <1>3 DEF BecomesDue, GoesStale, RetryJob, parent, drain
    <2> QED
      BY <2>1, KeyedStays
  <1>4. ASSUME NEW m \in Moments, Enqueue(m) \/ MomentPasses(m) PROVE Keyed' /\ MessagedOnce'
    <2>1. Calm
      BY <1>4 DEF Enqueue, MomentPasses, parent, drain
    <2> QED
      BY <2>1, KeyedStays
  <1>5. CASE Deadline \/ UNCHANGED vars
    <2>1. Calm
      BY <1>5 DEF Deadline, DeadlineRead, DeadlineCommitted, DeadlineRefused, DeadlineUndone,
                  DeadlineReschedule, DeadlineUndo, parent, drain, vars
    <2> QED
      BY <2>1, KeyedStays
  <1> QED
    BY <1>1, <1>2, <1>3, <1>4, <1>5 DEF Next

LEMMA AlwaysKeyed == Spec => [](TypeOK /\ Kinds /\ Keyed /\ MessagedOnce)
  <1>1. Init => Keyed /\ MessagedOnce
    BY JobKinds DEF Init, Keyed, MessagedOnce
  <1>2. TypeOK /\ Kinds /\ Keyed /\ MessagedOnce /\ [Next]_vars
          => TypeOK' /\ Kinds' /\ Keyed' /\ MessagedOnce'
    BY NextType, NextKeyed
  <1>3. Init => TypeOK /\ Kinds
    BY InitType
  <1> QED
    BY <1>1, <1>2, <1>3, PTL DEF Spec

\* A parent is never sent the same WhatsApp twice, whatever happens to its
\* job: the row inserted under the key before the call is what stops it.
THEOREM OneMessage == Spec => []MessagedOnce
  BY AlwaysKeyed, PTL

-----------------------------------------------------------------------------
(* What a drain knows of its job when it writes the outcome: an email that   *)
(* went, with its companion queued, or a message that went.  It holds with   *)
(* deadlines moved as well: nothing takes a letter back or an insert away.   *)
Delivered ==
  \A w \in Workers :
    /\ step[w] \in {"companion", "done"} => inbox[cur[w].job] > 0
    /\ step[w] = "done" /\ cur[w].job \in Emails => status[Companion(cur[w].job)] # "absent"

Lasts == \A j \in Job : /\ inbox[j] > 0 => inbox'[j] > 0
                        /\ status[j] # "absent" => status'[j] # "absent"

\* What comes of a step for the outcome a drain is about to write.
LEMMA Grows == ASSUME TypeOK, Kinds, [Next]_vars PROVE Lasts
  <1> USE NoJobIsNone, JobKinds DEF TypeOK, Kinds, Lasts, Mark, At, parent, job
  <1>1. ASSUME NEW w \in Workers, Claim(w) \/ Crash(w) PROVE Lasts
    BY <1>1 DEF Claim, ClaimFrom, TakeBatch, Crash
  <1>2. ASSUME NEW w \in Workers, RunOne(w) PROVE Lasts
    <2>1. CASE SendEmail(w)
      BY <2>1 DEF SendEmail
    <2>2. CASE SendMessage(w)
      BY <2>2 DEF SendMessage
    <2>3. CASE Take(w) \/ BatchOver(w) \/ KeyMessage(w)
      BY <2>3 DEF Take, BatchOver, KeyMessage
    <2>4. CASE QueueCompanion(w)
      BY <2>4 DEF QueueCompanion, Insert
    <2>5. CASE Done(w) \/ Skip(w) \/ Fail(w) \/ Retry(w)
      BY <2>5 DEF Done, Skip, Fail, Finish, Retry
    <2> QED
      BY <1>2, <2>1, <2>2, <2>3, <2>4, <2>5 DEF RunOne
  <1>3. ASSUME NEW j \in Job, BecomesDue(j) \/ GoesStale(j) \/ RetryJob(j) PROVE Lasts
    BY <1>3 DEF BecomesDue, GoesStale, RetryJob
  <1>4. ASSUME NEW m \in Moments, Enqueue(m) \/ MomentPasses(m) PROVE Lasts
    BY <1>4 DEF Enqueue, MomentPasses, Insert
  <1>5. CASE Deadline
    BY <1>5 DEF Deadline, DeadlineRead, DeadlineCommitted, DeadlineRefused, DeadlineUndone,
                DeadlineReschedule, DeadlineUndo
  <1>6. CASE UNCHANGED vars
    BY <1>6 DEF vars
  <1> HIDE DEF TypeOK, Kinds, Lasts
  <1> QED
    BY <1>1, <1>2, <1>3, <1>4, <1>5, <1>6 DEF Next

\* A step that neither starts an outcome nor closes a job as done.
LEMMA DeliveredStays ==
  ASSUME TypeOK, Kinds, Delivered, DoneIsDelivered, Lasts,
         \A w \in Workers : step'[w] \in {"companion", "done"} =>
                              step'[w] = step[w] /\ cur'[w] = cur[w],
         \A j \in Emails : status'[j] = "done" => status[j] = "done"
  PROVE  Delivered' /\ DoneIsDelivered'
  BY JobKinds, ClaimedFields DEF Delivered, DoneIsDelivered, Lasts, Kinds

LEMMA NextDelivered ==
  TypeOK /\ Kinds /\ Delivered /\ DoneIsDelivered /\ [Next]_vars => Delivered' /\ DoneIsDelivered'
  <1> SUFFICES ASSUME TypeOK, Kinds, Delivered, DoneIsDelivered, [Next]_vars
               PROVE  Delivered' /\ DoneIsDelivered'
    OBVIOUS
  <1> DEFINE Calm == /\ \A w \in Workers : step'[w] \in {"companion", "done"} =>
                                             step'[w] = step[w] /\ cur'[w] = cur[w]
                     /\ \A j \in Emails : status'[j] = "done" => status[j] = "done"
  <1>l. Lasts
    BY Grows
  <1>c. ASSUME Calm PROVE Delivered' /\ DoneIsDelivered'
    BY <1>c, <1>l, DeliveredStays
  <1> USE JobKinds DEF TypeOK, Mark, At, Goto, parent, job
  <1>1. ASSUME NEW w \in Workers, RunOne(w) PROVE Delivered' /\ DoneIsDelivered'
    <2>1. CASE SendEmail(w)
      <3>1. cur[w].job \in Emails /\ UNCHANGED <<status, cur>>
        BY <2>1 DEF SendEmail, Kinds
      <3>2. step'[w] = "companion" => inbox'[cur[w].job] > 0
        BY <2>1, <3>1 DEF SendEmail
      <3>3. step'[w] # "done" /\ \A v \in Workers : v # w => step'[v] = step[v]
        BY <2>1 DEF SendEmail
      <3>4. \A v \in Workers : step[v] \in {"companion", "done"} => cur[v].job \in Job
        BY ClaimedFields DEF Kinds
      <3> QED
        BY <1>l, <3>1, <3>2, <3>3, <3>4 DEF Delivered, DoneIsDelivered, Lasts
    <2>2. CASE SendMessage(w)
      <3>1. cur[w].job \in Job \ Emails /\ UNCHANGED <<status, cur>>
        BY <2>2 DEF SendMessage, Kinds
      <3>2. step'[w] = "done" => inbox'[cur[w].job] > 0
        BY <2>2, <3>1 DEF SendMessage
      <3>3. step'[w] # "companion" /\ \A v \in Workers : v # w => step'[v] = step[v]
        BY <2>2 DEF SendMessage
      <3>4. \A v \in Workers : step[v] \in {"companion", "done"} => cur[v].job \in Job
        BY ClaimedFields DEF Kinds
      <3> QED
        BY <1>l, <3>1, <3>2, <3>3, <3>4 DEF Delivered, DoneIsDelivered, Lasts
    <2>3. CASE QueueCompanion(w)
      <3>1. cur[w].job \in Emails /\ inbox[cur[w].job] > 0
        BY <2>3 DEF QueueCompanion, Kinds, Delivered
      <3>2. status'[Companion(cur[w].job)] # "absent"
        BY <2>3, <3>1 DEF QueueCompanion, Insert
      <3>3. \A j \in Job : status'[j] = "done" => status[j] = "done"
        BY <2>3 DEF QueueCompanion, Insert
      <3>4. \A v \in Workers : step[v] \in {"companion", "done"} => cur[v].job \in Job
        BY ClaimedFields DEF Kinds
      <3>5. UNCHANGED <<cur, inbox>> /\ step' = [step EXCEPT ![w] = "done"]
        BY <2>3 DEF QueueCompanion
      <3> QED
        BY <1>l, <3>1, <3>2, <3>3, <3>4, <3>5 DEF Delivered, DoneIsDelivered, Lasts
    <2>4. CASE Done(w)
      <3>1. inbox[cur[w].job] > 0 /\ cur[w].job \in Job
            /\ (cur[w].job \in Emails => status[Companion(cur[w].job)] # "absent")
        BY <2>4, ClaimedFields DEF Done, Finish, Delivered, Kinds
      <3>2. /\ \A v \in Workers : v # w => step'[v] = step[v] /\ cur'[v] = cur[v]
            /\ step'[w] = "next" /\ UNCHANGED inbox
            /\ \A j \in Job : j # cur[w].job => status'[j] = status[j]
        BY <2>4, <3>1 DEF Done, Finish
      <3>3. \A v \in Workers : step[v] \in {"companion", "done"} => cur[v].job \in Job
        BY ClaimedFields DEF Kinds
      <3> QED
        BY <1>l, <3>1, <3>2, <3>3 DEF Delivered, DoneIsDelivered, Lasts
    <2>5. CASE Take(w) \/ BatchOver(w) \/ KeyMessage(w)
      BY <2>5, <1>c DEF Take, BatchOver, KeyMessage
    <2>6. CASE Skip(w) \/ Fail(w) \/ Retry(w)
      BY <2>6, <1>c DEF Skip, Fail, Finish, Retry
    <2> QED
      BY <1>1, <2>1, <2>2, <2>3, <2>4, <2>5, <2>6 DEF RunOne
  <1>2. ASSUME NEW w \in Workers, Claim(w) \/ Crash(w) PROVE Delivered' /\ DoneIsDelivered'
    BY <1>2, <1>c DEF Claim, ClaimFrom, TakeBatch, Crash
  <1>3. ASSUME NEW j \in Job, BecomesDue(j) \/ GoesStale(j) \/ RetryJob(j)
        PROVE  Delivered' /\ DoneIsDelivered'
    BY <1>3, <1>c DEF BecomesDue, GoesStale, RetryJob, drain
  <1>4. ASSUME NEW m \in Moments, Enqueue(m) \/ MomentPasses(m) PROVE Delivered' /\ DoneIsDelivered'
    BY <1>4, <1>c DEF Enqueue, MomentPasses, Insert, drain
  <1>5. CASE Deadline
    BY <1>5, <1>c DEF Deadline, DeadlineRead, DeadlineCommitted, DeadlineRefused, DeadlineUndone,
                DeadlineReschedule, DeadlineUndo, drain
  <1>6. CASE UNCHANGED vars
    BY <1>6, <1>c DEF vars
  <1> HIDE DEF TypeOK, Calm
  <1> QED
    BY <1>1, <1>2, <1>3, <1>4, <1>5, <1>6 DEF Next

LEMMA AlwaysDelivered == Spec => [](TypeOK /\ Kinds /\ Delivered /\ DoneIsDelivered)
  <1>1. Init => Delivered /\ DoneIsDelivered
    BY JobKinds DEF Init, Delivered, DoneIsDelivered
  <1> QED
    BY <1>1, InitType, NextType, NextDelivered, PTL DEF Spec

\* An email's job that says done was sent and has its companion queued, for
\* any number of moments and drains, wherever an invocation is killed between
\* the two statements and whoever moves a deadline under them.
THEOREM DoneWasDelivered == Spec => []DoneIsDelivered
  BY AlwaysDelivered, PTL

-----------------------------------------------------------------------------
(* One live runner.  A claim takes what is pending or was locked long ago,   *)
(* and a lock grows old only once its drain is gone: so what a live drain    *)
(* holds is running, freshly locked and nobody else's.  The undoing of a     *)
(* moved deadline writes to a job by id, so this is about the drains alone.  *)
Unmoved == MaxMoves = 0 => mover = "idle" /\ ours = {} /\ togo = {} /\ moves = 0
Locked  == \A w \in Workers : \A j \in Job : Holding(w, j) => status[j] = "running" /\ ~stale[j]
OneCopy ==
  \A w \in Workers :
    /\ \A c \in batch[w] : c.job # cur[w].job
    /\ \A c, d \in batch[w] : c.job = d.job => c = d
Locks == Unmoved /\ Locked /\ OneRunner /\ OneCopy

\* A step by which no drain comes to hold another job, nor loses the lock of
\* one it goes on holding.
LEMMA LocksStay ==
  ASSUME TypeOK, Locks, Unmoved',
         \A w \in Workers : batch'[w] \subseteq batch[w] /\ (cur'[w] = cur[w] \/ cur'[w] = NoJob),
         \A w \in Workers : \A j \in Job : Holding(w, j)' =>
           status'[j] = status[j] /\ (stale'[j] => stale[j])
  PROVE  Locks'
  <1>1. \A w \in Workers : \A j \in Job : Holding(w, j)' => Holding(w, j)
    BY NoJobIsNone DEF Holding
  <1>2. Locked' /\ OneRunner'
    BY <1>1 DEF Locks, Locked, OneRunner, TypeOK
  <1>3. \A w \in Workers : \A c \in batch[w] : c.job # NoJob.job
    BY NoJobIsNone, ClaimedFields DEF TypeOK
  <1>4. OneCopy'
    BY <1>3 DEF Locks, OneCopy
  <1> QED
    BY <1>2, <1>4 DEF Locks

LEMMA NextLocks ==
  ASSUME MaxMoves = 0, TypeOK, Kinds, Locks, [Next]_vars
  PROVE  Locks'
  <1> USE DEF TypeOK, At, Mark, Goto, job, drain, move
  <1>h. \A w \in Workers : \A j \in Job : Holding(w, j) => status[j] = "running" /\ ~stale[j]
    BY DEF Locks, Locked
  <1>s. ASSUME UNCHANGED <<batch, cur>>, Unmoved',
               \A j \in Job : (\E w \in Workers : Holding(w, j)) =>
                 status'[j] = status[j] /\ (stale'[j] => stale[j])
        PROVE  Locks'
    BY <1>s, LocksStay DEF Holding
  <1>d. ~Deadline
    <2>1. mover = "idle" /\ moves = 0
      BY DEF Locks, Unmoved
    <2> QED
      BY <2>1 DEF Deadline, DeadlineRead, DeadlineCommitted, DeadlineRefused, DeadlineUndone,
         DeadlineReschedule, DeadlineUndo
  <1>u. Unmoved'
    <2> HIDE DEF TypeOK
    <2>1. UNCHANGED move
      BY <1>d DEF Next, Claim, ClaimFrom, TakeBatch, RunOne, Take, BatchOver, SendEmail,
         QueueCompanion, KeyMessage, SendMessage, Done, Skip, Fail, Finish, Retry, Crash,
         BecomesDue, GoesStale, RetryJob, Enqueue, MomentPasses, vars
    <2> QED
      BY <2>1 DEF Locks, Unmoved
  <1>1. ASSUME NEW w \in Workers, Claim(w) PROVE Locks'
    <2> DEFINE Free == {j \in Job : /\ due[j]
                                    /\ status[j] = "pending" \/ (status[j] = "running" /\ stale[j])}
    <2>1. PICK S \in SUBSET Free : TakeBatch(w, S)
      BY <1>1 DEF Claim, ClaimFrom
    <2>2. cur[w] = NoJob
      BY <1>1 DEF Claim, ClaimFrom
    <2>3. \A v \in Workers : \A j \in S : ~Holding(v, j)
      BY <1>h
    <2>4. /\ batch'[w] = {[job |-> j, tries |-> attempts[j] + 1] : j \in S}
          /\ \A v \in Workers : v # w => batch'[v] = batch[v]
          /\ UNCHANGED cur
      BY <2>1 DEF TakeBatch
    <2>5. \A j \in Job : /\ Holding(w, j)' <=> j \in S
                         /\ \A v \in Workers : v # w => (Holding(v, j)' <=> Holding(v, j))
      <3>1. \A j \in S : [job |-> j, tries |-> attempts[j] + 1] \in batch'[w]
        BY <2>4
      <3>2. \A c \in batch'[w] : c.job \in S
        BY <2>4
      <3>3. \A j \in Job : cur'[w].job # j
        BY <2>2, <2>4, NoJobIsNone
      <3>4. \A j \in Job : (\E c \in batch'[w] : c.job = j) <=> j \in S
        BY <3>1, <3>2
      <3>5. \A j \in Job : Holding(w, j)' <=> j \in S
        BY <3>3, <3>4 DEF Holding
      <3>6. \A j \in Job : \A v \in Workers : v # w => (Holding(v, j)' <=> Holding(v, j))
        BY <2>4 DEF Holding
      <3> QED
        BY <3>5, <3>6
    <2>6. \A j \in Job : /\ j \in S => status'[j] = "running" /\ ~stale'[j]
                         /\ j \notin S => status'[j] = status[j] /\ (stale'[j] <=> stale[j])
      BY <2>1 DEF TakeBatch
    <2>7. Locked'
      BY <1>h, <2>3, <2>5, <2>6 DEF Locked
    <2>8. OneRunner'
      BY <2>3, <2>5 DEF Locks, OneRunner
    <2>9. OneCopy'
      BY <2>2, <2>4, NoJobIsNone DEF Locks, OneCopy
    <2> QED
      BY <1>u, <2>7, <2>8, <2>9 DEF Locks
  <1>2. ASSUME NEW w \in Workers, Take(w) PROVE Locks'
    <2>1. PICK c \in batch[w] : cur' = [cur EXCEPT ![w] = c] /\ batch' = [batch EXCEPT ![w] = @ \ {c}]
      BY <1>2 DEF Take
    <2>2. cur[w] = NoJob
      BY <1>2 DEF Take
    <2>3. \A v \in Workers : \A j \in Job : Holding(v, j)' => Holding(v, j)
      BY <2>1 DEF Holding
    <2>4. UNCHANGED <<status, stale>>
      BY <1>2 DEF Take
    <2>5. Locked' /\ OneRunner'
      BY <1>h, <2>3, <2>4 DEF Locks, Locked, OneRunner
    <2>6. OneCopy'
      BY <2>1 DEF Locks, OneCopy
    <2> QED
      BY <1>u, <2>5, <2>6 DEF Locks
  <1>3. ASSUME NEW w \in Workers, Done(w) \/ Skip(w) \/ Fail(w) \/ Retry(w) PROVE Locks'
    <2>1. cur' = [cur EXCEPT ![w] = NoJob] /\ UNCHANGED batch /\ cur[w].job \in Job
      BY <1>3, ClaimedFields DEF Done, Skip, Fail, Finish, Retry, Kinds
    <2>2. \A j \in Job : j # cur[w].job => status'[j] = status[j] /\ (stale'[j] <=> stale[j])
      BY <1>3 DEF Done, Skip, Fail, Finish, Retry
    <2>3. PICK k \in Job : k = cur[w].job
      BY <2>1
    <2>4. Holding(w, k) /\ \A v \in Workers : v # w => ~Holding(v, k)
      BY <2>3 DEF Holding, Locks, OneRunner
    <2>5. \A v \in Workers : v # w => ~Holding(v, k)'
      BY <2>1, <2>4 DEF Holding
    <2>6. ~Holding(w, k)'
      BY <2>1, <2>3, NoJobIsNone DEF Holding, Locks, OneCopy
    <2>7. \A v \in Workers : \A j \in Job : Holding(v, j)' => j # k
      BY <2>5, <2>6
    <2>8. \A v \in Workers : \A j \in Job :
            Holding(v, j)' => status'[j] = status[j] /\ (stale'[j] => stale[j])
      BY <2>2, <2>3, <2>7
    <2> QED
      BY <1>u, <2>1, <2>8, LocksStay
  <1>4. ASSUME NEW w \in Workers, BatchOver(w) \/ SendEmail(w) \/ KeyMessage(w) \/ SendMessage(w)
        PROVE  Locks'
    <2>1. UNCHANGED <<batch, cur, status, stale>>
      BY <1>4 DEF BatchOver, SendEmail, KeyMessage, SendMessage
    <2> QED
      BY <1>s, <1>u, <2>1
  <1>5. ASSUME NEW j, Insert(j, TRUE) \/ Insert(j, FALSE), UNCHANGED <<batch, cur, stale>> PROVE Locks'
    <2>1. \A k \in Job : status[k] # "absent" => status'[k] = status[k]
      BY <1>5 DEF Insert
    <2> QED
      BY <1>h, <1>s, <1>u, <1>5, <2>1
  <1>6. ASSUME NEW w \in Workers, QueueCompanion(w) PROVE Locks'
    BY <1>5, <1>6 DEF QueueCompanion
  <1>7. ASSUME NEW m \in Moments, Enqueue(m) \/ MomentPasses(m) PROVE Locks'
    <2>1. CASE Enqueue(m)
      BY <1>5, <2>1 DEF Enqueue
    <2>2. CASE MomentPasses(m)
      <3>1. UNCHANGED <<batch, cur, status, stale>>
        BY <2>2 DEF MomentPasses
      <3> QED
        BY <1>s, <1>u, <3>1
    <2> QED
      BY <1>7, <2>1, <2>2
  <1>8. ASSUME NEW w \in Workers, Crash(w) PROVE Locks'
    <2>1. /\ cur' = [cur EXCEPT ![w] = NoJob] /\ batch' = [batch EXCEPT ![w] = {}]
          /\ UNCHANGED <<status, stale>>
      BY <1>8 DEF Crash
    <2> QED
      BY <1>u, <2>1, LocksStay
  <1>9. ASSUME NEW j \in Job, BecomesDue(j) \/ GoesStale(j) \/ RetryJob(j) PROVE Locks'
    <2>1. CASE BecomesDue(j)
      BY <1>s, <1>u, <2>1 DEF BecomesDue
    <2>2. CASE GoesStale(j)
      BY <1>s, <1>u, <2>2 DEF GoesStale
    <2>3. CASE RetryJob(j)
      <3>1. \A w \in Workers : ~Holding(w, j)
        BY <1>h, <2>3 DEF RetryJob
      <3>2. /\ UNCHANGED <<batch, cur>>
            /\ \A k \in Job : k # j => status'[k] = status[k] /\ stale'[k] = stale[k]
        BY <2>3 DEF RetryJob
      <3> QED
        BY <1>s, <1>u, <3>1, <3>2
    <2> QED
      BY <1>9, <2>1, <2>2, <2>3
  <1>11. CASE UNCHANGED vars
    BY <1>11, <1>s, <1>u DEF vars
  <1> HIDE DEF TypeOK
  <1> QED
    BY <1>1, <1>2, <1>3, <1>4, <1>6, <1>7, <1>8, <1>9, <1>d, <1>11 DEF Next, RunOne

LEMMA AlwaysLocked == MaxMoves = 0 => (Spec => []Locks)
  <1> SUFFICES ASSUME MaxMoves = 0 PROVE Spec => []Locks
    OBVIOUS
  <1>1. Init => Locks
    BY NoJobIsNone DEF Init, Locks, Unmoved, Locked, OneRunner, OneCopy, Holding
  <1>2. TypeOK /\ Kinds /\ Locks /\ [Next]_vars => Locks'
    BY NextLocks
  <1> QED
    BY <1>1, <1>2, AlwaysDelivered, PTL DEF Spec

\* The database hands each job to one drain: while no deadline is moved, two
\* live drains never hold one job, for any batch size and number of drains,
\* kills, reclaims and retries by hand.
THEOREM OneRunnerHolds == MaxMoves = 0 => (Spec => []OneRunner)
  <1> SUFFICES ASSUME MaxMoves = 0 PROVE Spec => []OneRunner
    OBVIOUS
  <1>1. Locks => OneRunner
    BY DEF Locks
  <1> QED
    BY <1>1, AlwaysLocked, PTL

-----------------------------------------------------------------------------
(* The drains implement Outbox.  A claim and a retry move a job between two  *)
(* statuses Outbox calls open; the provider's answer is the delivery, and    *)
(* the outcome written by id closes the job or gives it up.                  *)

EmailedOnce == \A j \in Emails : inbox[j] \in {0, 1}

LEMMA NextEmailed == TypeOK /\ Kinds /\ EmailedOnce /\ [Next]_vars => EmailedOnce'
  <1> SUFFICES ASSUME TypeOK, Kinds, EmailedOnce, [Next]_vars PROVE EmailedOnce'
    OBVIOUS
  <1>1. ASSUME NEW w \in Workers, SendEmail(w) PROVE EmailedOnce'
    BY <1>1, JobKinds DEF SendEmail, EmailedOnce, TypeOK
  <1>2. ASSUME NEW w \in Workers, SendMessage(w) PROVE EmailedOnce'
    BY <1>2, JobKinds DEF SendMessage, EmailedOnce, TypeOK, Kinds, At
  <1>3. CASE UNCHANGED inbox
    BY <1>3 DEF EmailedOnce
  <1> QED
    BY <1>1, <1>2, <1>3
       DEF Next, Claim, ClaimFrom, TakeBatch, RunOne, Take, BatchOver, QueueCompanion, KeyMessage,
           Done, Skip, Fail, Finish, Retry, Crash, BecomesDue, GoesStale, RetryJob, Enqueue,
           MomentPasses, Deadline, DeadlineRead, DeadlineCommitted, DeadlineRefused,
           DeadlineUndone, DeadlineReschedule, DeadlineUndo, parent, vars

\* Writing one status shows as one letter's move, or not at all.
LEMMA ShownUpdate ==
  ASSUME TypeOK, NEW j \in Job, NEW s, Mark(j, s)
  PROVE  Shown[j] = Seen(status[j]) /\ Shown' = [Shown EXCEPT ![j] = Seen(s)]
  BY DEF TypeOK, Mark, Shown

LEMMA ShownSame ==
  ASSUME UNCHANGED inbox, \A j \in Job : Seen(status'[j]) = Seen(status[j])
  PROVE  UNCHANGED Promise!ovars
  BY DEF Shown, Promise!ovars

LEMMA ShownMove ==
  ASSUME TypeOK, UNCHANGED inbox, NEW j \in Job, NEW s, Mark(j, s),
         \/ status[j] = "absent" /\ s = "pending"
         \/ status[j] = "running" /\ s \in {"failed", "skipped"}
         \/ status[j] = "running" /\ s = "done" /\ inbox[j] > 0
         \/ status[j] \in {"failed", "skipped"} /\ s = "pending"
         \/ status[j] = "running" /\ s = "pending"
  PROVE  Promise!ONext \/ UNCHANGED Promise!ovars
  <1>1. Shown[j] = Seen(status[j]) /\ Shown' = [Shown EXCEPT ![j] = Seen(s)]
    BY ShownUpdate
  <1>2. CASE status[j] = "running" /\ s = "pending"
    <2>1. \A k \in Job : Seen(status'[k]) = Seen(status[k])
      BY <1>2 DEF TypeOK, Mark, Seen
    <2> QED
      BY <2>1, ShownSame
  <1>3. CASE status[j] = "absent" /\ s = "pending"
    BY <1>1, <1>3 DEF Promise!ONext, Promise!Queue, Promise!Move, Seen
  <1>4. CASE status[j] = "running" /\ s \in {"failed", "skipped"}
    BY <1>1, <1>4 DEF Promise!ONext, Promise!GiveUp, Promise!Move, Seen
  <1>5. CASE status[j] = "running" /\ s = "done" /\ inbox[j] > 0
    BY <1>1, <1>5 DEF Promise!ONext, Promise!Close, Promise!Move, Seen
  <1>6. CASE status[j] \in {"failed", "skipped"} /\ s = "pending"
    BY <1>1, <1>6 DEF Promise!ONext, Promise!Reopen, Promise!Move, Seen
  <1> QED
    BY <1>2, <1>3, <1>4, <1>5, <1>6

LEMMA NextShown ==
  ASSUME MaxMoves = 0, TypeOK, Kinds, Keyed, Delivered, Locks, EmailedOnce, [Next]_vars
  PROVE  Promise!ONext \/ UNCHANGED Promise!ovars
  <1> DEFINE Goal == Promise!ONext \/ UNCHANGED Promise!ovars
  <1>s. ASSUME UNCHANGED <<status, inbox>> PROVE Goal
    BY <1>s, ShownSame
  <1>r. ASSUME NEW w \in Workers, step[w] \notin {"idle", "next"}
        PROVE  cur[w].job \in Job /\ status[cur[w].job] = "running"
    BY <1>r, ClaimedFields DEF Kinds, Locks, Locked, Holding
  <1>m. ASSUME NEW j \in Job, status[j] = "running", UNCHANGED status,
               inbox[j] = 0, inbox' = [inbox EXCEPT ![j] = 1]
        PROVE  Goal
    <2>1. Shown[j] = "open" /\ UNCHANGED Shown
      BY <1>m DEF Shown, Seen
    <2> QED
      BY <1>m, <2>1 DEF Promise!ONext, Promise!Deliver
  <1>i. ASSUME NEW j \in Job, NEW b \in BOOLEAN, Insert(j, b), UNCHANGED inbox PROVE Goal
    BY <1>i, <1>s, ShownMove DEF Insert
  <1> USE DEF job, parent, At
  <1>1. ASSUME NEW w \in Workers, Claim(w) PROVE Goal
    <2>1. PICK S \in SUBSET {j \in Job : status[j] \in {"pending", "running"}} : TakeBatch(w, S)
      BY <1>1 DEF Claim, ClaimFrom
    <2>2. \A j \in Job : Seen(status'[j]) = Seen(status[j])
      BY <2>1 DEF TakeBatch, Seen
    <2> QED
      BY <2>1, <2>2, ShownSame DEF TakeBatch
  <1>2. ASSUME NEW w \in Workers, SendEmail(w) PROVE Goal
    <2>1. cur[w].job \in Emails /\ inbox[cur[w].job] \in {0, 1} /\ status[cur[w].job] = "running"
      BY <1>2, <1>r DEF SendEmail, Kinds, EmailedOnce
    <2>2. inbox' = [inbox EXCEPT ![cur[w].job] = 1] \/ UNCHANGED inbox
      BY <1>2 DEF SendEmail, TypeOK
    <2>3. UNCHANGED status
      BY <1>2 DEF SendEmail
    <2>4. CASE inbox[cur[w].job] = 1 \/ UNCHANGED inbox
      <3>1. UNCHANGED inbox
        BY <2>1, <2>2, <2>4, JobKinds DEF TypeOK
      <3> QED
        BY <1>s, <2>3, <3>1
    <2> QED
      BY <1>m, <2>1, <2>2, <2>3, <2>4, JobKinds
  <1>3. ASSUME NEW w \in Workers, SendMessage(w) PROVE Goal
    <2>1. cur[w].job \in Job /\ inbox[cur[w].job] = 0 /\ status[cur[w].job] = "running"
      BY <1>3, <1>r DEF SendMessage, Keyed
    <2>2. inbox' = [inbox EXCEPT ![cur[w].job] = 1] \/ UNCHANGED inbox
      <3>1. PICK went \in BOOLEAN : inbox' = [inbox EXCEPT ![cur[w].job] = IF went THEN @ + 1 ELSE @]
        BY <1>3 DEF SendMessage
      <3>2. CASE went
        BY <2>1, <3>1, <3>2
      <3>3. CASE ~went
        BY <2>1, <3>1, <3>3 DEF TypeOK
      <3> QED
        BY <3>2, <3>3
    <2> QED
      BY <1>3, <1>m, <1>s, <2>1, <2>2 DEF SendMessage
  <1>4. ASSUME NEW w \in Workers, Done(w) PROVE Goal
    <2>1. cur[w].job \in Job /\ status[cur[w].job] = "running" /\ inbox[cur[w].job] > 0
      BY <1>4, <1>r DEF Done, Finish, Delivered
    <2> QED
      BY <1>4, <2>1, ShownMove DEF Done, Finish
  <1>5. ASSUME NEW w \in Workers, Skip(w) \/ Fail(w) \/ Retry(w) PROVE Goal
    <2>1. cur[w].job \in Job /\ status[cur[w].job] = "running" /\ UNCHANGED inbox
      BY <1>5, <1>r DEF Skip, Fail, Retry, Finish
    <2>2. \E s \in {"skipped", "failed", "pending"} : Mark(cur[w].job, s)
      BY <1>5 DEF Skip, Fail, Retry, Finish
    <2> QED
      BY <2>1, <2>2, ShownMove
  <1>6. ASSUME NEW w \in Workers, QueueCompanion(w) PROVE Goal
    <2>1. Companion(cur[w].job) \in Job
      BY <1>6, <1>r, JobKinds DEF QueueCompanion
    <2> QED
      BY <1>6, <1>i, <2>1 DEF QueueCompanion
  <1>7. ASSUME NEW m \in Moments, Enqueue(m) PROVE Goal
    BY <1>7, <1>i, JobKinds DEF Enqueue
  <1>8. ASSUME NEW j \in Job, RetryJob(j) PROVE Goal
    BY <1>8, ShownMove DEF RetryJob
  <1>9. ~Deadline
    <2>1. mover = "idle" /\ moves = 0
      BY DEF Locks, Unmoved
    <2> QED
      BY <2>1 DEF Deadline, DeadlineRead, DeadlineCommitted, DeadlineRefused, DeadlineUndone,
         DeadlineReschedule, DeadlineUndo
  <1> HIDE DEF Goal, At
  <1> QED
    BY <1>s, <1>1, <1>2, <1>3, <1>4, <1>5, <1>6, <1>7, <1>8, <1>9
       DEF Next, RunOne, Take, BatchOver, KeyMessage, Crash, BecomesDue, GoesStale, MomentPasses, vars, Goal

\* The drains keep the promise of Outbox: a letter is queued once, delivered
\* at most once and only while its job is open, and closed as done only after
\* it went; for any number of moments and drains, any batch, kills, reclaims
\* and retries by hand, while no deadline is moved.
THEOREM OutboxKept == MaxMoves = 0 => (Spec => KeepsOutbox)
  <1> SUFFICES ASSUME MaxMoves = 0 PROVE Spec => KeepsOutbox
    OBVIOUS
  <1>1. Init => Promise!OInit
    BY DEF Init, Promise!OInit, Shown, Seen
  <1>2. Init => EmailedOnce
    BY JobKinds DEF Init, EmailedOnce
  <1>3. Spec => []EmailedOnce
    BY <1>2, NextEmailed, AlwaysKeyed, PTL DEF Spec
  <1>4. TypeOK /\ Kinds /\ Keyed /\ Delivered /\ Locks /\ EmailedOnce /\ [Next]_vars
          => [Promise!ONext]_(Promise!ovars)
    BY NextShown
  <1> QED
    BY <1>1, <1>3, <1>4, AlwaysKeyed, AlwaysDelivered, AlwaysLocked, PTL
       DEF Spec, KeepsOutbox, Promise!OSpec
=============================================================================
