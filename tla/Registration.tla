----------------------------- MODULE Registration -----------------------------
(* One registration, from the first document to the enrolment:               *)
(* workflow/registration-actions.ts and enrolment-actions.ts, the upload in  *)
(* documents/storage.ts, the reading in handlers/documents.ts and the child  *)
(* put on the register by enrolment/promote.ts.                              *)
(*                                                                           *)
(* One form stands for the five sections that are not documents, and a        *)
(* reading either differs from it or agrees.  An invocation holds what it     *)
(* read; each action is one of its statements.                                *)
EXTENDS Naturals, Sequences, FiniteSets

CONSTANTS
  Codes,        \* document_requirements.code, of documents that are read
  Required,     \* those a child of this grade must supply
  Handlers,     \* invocations that may be in flight together
  Calls,        \* what may be called: members of Call
  Alone,        \* those never in flight beside another invocation
  MaxDocs,      \* bound: rows of documents
  MaxUploads,   \* bound: uploads in flight together
  MaxClicks,    \* bound: saves, reviews, submissions and confirmations
  MaxMoves,     \* bound: times officers move the child back to an offer
  MaxCrashes    \* bound: invocations killed between two statements

Call == {"save", "upload", "review", "read", "submit", "enrol"}

ASSUME CodeAssumption == Required \subseteq Codes /\ Required # {}
ASSUME CallAssumption == Calls \subseteq Call /\ Alone \subseteq Call
ASSUME RegistrationBounds ==
  {MaxDocs, MaxUploads, MaxClicks, MaxMoves, MaxCrashes} \subseteq Nat

VARIABLES
  app,        \* applications.status; "elsewhere" while back at the offer
  answered,   \* every section but the documents is stamped
  submitted,  \* registrations.submitted_at
  docs,       \* documents, oldest first
  flags,      \* registrations.mismatch_flags: the documents the form differs from
  tasks,      \* open tasks of the kinds these handlers raise
  toRead,     \* document_extract jobs queued
  auto,       \* auto_enrol jobs queued: their keys are stamped
  students,   \* students of this application
  register,   \* what else enrolment writes: "record", "enrolment"
  pc, call, mem,  \* an invocation's next statement, what was called, what it holds
  clicks, moves, crashes

form  == <<answered, submitted, flags>>
place == <<students, register>>
queue == <<toRead, auto>>
self  == <<pc, call, mem>>
spent == <<clicks, moves, crashes>>
vars  == <<app, answered, submitted, docs, flags, tasks, toRead, auto, students,
           register, pc, call, mem, clicks, moves, crashes>>

Ids    == 1..MaxDocs
Status == {"registration_incomplete", "registration_complete", "enrolled", "elsewhere"}
Review == {"pending", "accepted", "rejected"}
Doc    == [code : Codes, aside : BOOLEAN, review : Review]

\* Mutant: one type for every kind of document.
OneMismatchTask(c) == <<"review_document_mismatch">>

\* mismatchTaskType: one for each kind of document.
MismatchTask(c) == <<"review_document_mismatch", c>>

TaskType == {<<"documents_missing">>, <<"confirm_enrolment">>, <<"notify_campus_enrolled">>}
              \cup {MismatchTask(c) : c \in Codes}

PC == { "idle", "saveForm", "saved", "previous", "stepAside", "insert", "restore", "link",
        "look", "uploaded", "review", "reviewed", "readDoc", "readForm", "flag", "readDone",
        "bundle", "incomplete", "stamp", "complete", "papers", "record", "find",
        "promote", "enrolment", "enrolled" }

Nothing == [by |-> "parent", code |-> CHOOSE c \in Codes : TRUE, doc |-> 0, prev |-> 0,
            ok |-> FALSE, flags |-> {}]

\* onPaymentPaid has opened the form; the family may have filled it in since.
Init ==
  /\ app = "registration_incomplete" /\ answered \in BOOLEAN /\ submitted = FALSE
  /\ docs = <<>> /\ flags = {} /\ tasks = {} /\ toRead = {} /\ auto = 0
  /\ students = 0 /\ register = {}
  /\ pc = [h \in Handlers |-> "idle"] /\ call = [h \in Handlers |-> "none"]
  /\ mem = [h \in Handlers |-> Nothing]
  /\ clicks = 0 /\ moves = 0 /\ crashes = 0

At(h, l) == pc[h] = l
Goto(h, l) == pc' = [pc EXCEPT ![h] = l] /\ UNCHANGED call
Keep(h) == UNCHANGED mem
Hold(h, f, v) == mem' = [mem EXCEPT ![h][f] = v]
Leave(h) ==
  /\ pc' = [pc EXCEPT ![h] = "idle"] /\ call' = [call EXCEPT ![h] = "none"]
  /\ mem' = [mem EXCEPT ![h] = Nothing]

\* A parent, an officer or a job starts an invocation.
Begin(h, what, l, m) ==
  /\ what \in Calls /\ At(h, "idle")
  /\ \A g \in Handlers \ {h} :
       At(g, "idle") \/ (what \notin Alone /\ call[g] \notin Alone)
  /\ pc' = [pc EXCEPT ![h] = l] /\ call' = [call EXCEPT ![h] = what]
  /\ mem' = [mem EXCEPT ![h] = m]

\* A job that threw, or whose drain was killed, is queued again, or that was its
\* last try.
Again(h) == {auto} \cup (IF mem[h].by = "job" THEN {auto + 1} ELSE {})

Click == clicks < MaxClicks /\ clicks' = clicks + 1 /\ UNCHANGED <<moves, crashes>>
Person == {"parent", "staff"}

Live(c)  == {i \in DOMAIN docs : docs[i].code = c /\ ~docs[i].aside}
Missing  == {c \in Required : Live(c) = {}}
Rejected == {c \in Required : \E i \in Live(c) : docs[i].review = "rejected"}
Pending  == {c \in Required : \E i \in Live(c) : docs[i].review = "pending"}

\* registrationCompleteness.
PapersIn == Missing = {} /\ Rejected = {}
Complete == answered /\ PapersIn
-----------------------------------------------------------------------------
(* The form.                                                                 *)

\* A parent's save answers the flags; one at the desk leaves them.
Save(h, who) ==
  /\ Click /\ app = "registration_incomplete"
  /\ Begin(h, "save", "saveForm", [Nothing EXCEPT !.by = who, !.ok = who = "parent" /\ flags # {}])
  /\ UNCHANGED <<app, form, docs, tasks, queue, place>>

SaveForm(h) ==
  /\ At(h, "saveForm")
  /\ answered' = TRUE
  /\ flags' = IF mem[h].by = "parent" THEN {} ELSE flags
  /\ Goto(h, "saved") /\ Keep(h)
  /\ UNCHANGED <<app, submitted, docs, tasks, queue, place, spent>>

Saved(h) ==
  /\ At(h, "saved")
  /\ tasks' = IF mem[h].ok THEN tasks \ {MismatchTask(c) : c \in Codes} ELSE tasks
  /\ Leave(h)
  /\ UNCHANGED <<app, form, docs, queue, place, spent>>
-----------------------------------------------------------------------------
(* An upload: recordDocument, then onDocumentUploaded.                       *)

\* The parent's page is open, or lets a rejected document be replaced; the
\* office may upload at any time.
Upload(h, who, c) ==
  /\ Cardinality({g \in Handlers : call[g] = "upload"}) < MaxUploads
  /\ \/ who = "staff"
     \/ app = "registration_incomplete"
     \/ /\ app \in {"registration_complete", "enrolled"}
        /\ \E i \in Live(c) : docs[i].review = "rejected"
  /\ Begin(h, "upload", "previous", [Nothing EXCEPT !.code = c])
  /\ UNCHANGED <<app, form, docs, tasks, queue, place, spent>>

Previous(h) ==
  /\ At(h, "previous")
  /\ LET live == Live(mem[h].code) IN
       IF live = {} THEN Goto(h, "insert") /\ Keep(h)
       ELSE Goto(h, "stepAside") /\ \E i \in live : Hold(h, "prev", i)
  /\ UNCHANGED <<app, form, docs, tasks, queue, place, spent>>

\* By id: whatever has happened to it since.
StepAside(h) ==
  /\ At(h, "stepAside")
  /\ docs' = [docs EXCEPT ![mem[h].prev].aside = TRUE]
  /\ Goto(h, "insert") /\ Keep(h)
  /\ UNCHANGED <<app, form, tasks, queue, place, spent>>

\* documents_one_live_idx allows one live row for a requirement.
Insert(h) ==
  /\ At(h, "insert") /\ Live(mem[h].code) = {} /\ Len(docs) < MaxDocs
  /\ docs' = Append(docs, [code |-> mem[h].code, aside |-> FALSE, review |-> "pending"])
  /\ Hold(h, "doc", Len(docs) + 1)
  /\ Goto(h, IF mem[h].prev = 0 THEN "look" ELSE "link")
  /\ UNCHANGED <<app, form, tasks, queue, place, spent>>

\* Refused by the index, or by a database that failed.
InsertRefused(h) ==
  /\ At(h, "insert")
  /\ IF mem[h].prev = 0 THEN Leave(h) ELSE Goto(h, "restore") /\ Keep(h)
  /\ UNCHANGED <<app, form, docs, tasks, queue, place, spent>>

\* Mutant: the row that stepped aside stays there.
RestoreNothing(h) ==
  /\ At(h, "restore") /\ Leave(h)
  /\ UNCHANGED <<app, form, docs, tasks, queue, place, spent>>

\* The index refuses this too, if another upload is live by now.
Restore(h) ==
  /\ At(h, "restore")
  /\ docs' = IF Live(mem[h].code) = {} THEN [docs EXCEPT ![mem[h].prev].aside = FALSE] ELSE docs
  /\ Leave(h)
  /\ UNCHANGED <<app, form, tasks, queue, place, spent>>

\* superseded_by becomes the new row's id, by id again.
Link(h) ==
  /\ At(h, "link")
  /\ docs' = [docs EXCEPT ![mem[h].prev].aside = TRUE]
  /\ Goto(h, "look") /\ Keep(h)
  /\ UNCHANGED <<app, form, tasks, queue, place, spent>>

Look(h) ==
  /\ At(h, "look")
  /\ Hold(h, "ok", PapersIn) /\ Goto(h, "uploaded")
  /\ UNCHANGED <<app, form, docs, tasks, queue, place, spent>>

\* aiExtractionEnabled is the school's to switch.
Uploaded(h) ==
  /\ At(h, "uploaded")
  /\ tasks' = IF mem[h].ok THEN tasks \ {<<"documents_missing">>} ELSE tasks
  /\ toRead' \in {toRead, toRead \cup {mem[h].doc}}
  /\ Leave(h)
  /\ UNCHANGED <<app, form, docs, auto, place, spent>>
-----------------------------------------------------------------------------
(* A review, and a reading.                                                  *)

ReviewDocument(h, i, verdict) ==
  /\ Click
  /\ Begin(h, "review", "review", [Nothing EXCEPT !.doc = i, !.ok = verdict = "accepted"])
  /\ UNCHANGED <<app, form, docs, tasks, queue, place>>

\* Mutant: a rejected document is marked as the email words it.
WriteReviewAsWorded(h) ==
  /\ At(h, "review")
  /\ LET i == mem[h].doc IN
       IF docs[i].aside THEN Leave(h) /\ UNCHANGED docs
       ELSE /\ docs' = [docs EXCEPT ![i].review = IF mem[h].ok THEN "accepted" ELSE "missing"]
            /\ Goto(h, "reviewed") /\ Keep(h)
  /\ UNCHANGED <<app, form, tasks, queue, place, spent>>

\* Where it has not been replaced.
WriteReview(h) ==
  /\ At(h, "review")
  /\ LET i == mem[h].doc IN
       IF docs[i].aside THEN Leave(h) /\ UNCHANGED docs
       ELSE /\ docs' = [docs EXCEPT ![i].review = IF mem[h].ok THEN "accepted" ELSE "rejected"]
            /\ Goto(h, "reviewed") /\ Keep(h)
  /\ UNCHANGED <<app, form, tasks, queue, place, spent>>

Reviewed(h) ==
  /\ At(h, "reviewed")
  /\ tasks' = IF mem[h].ok THEN tasks ELSE tasks \cup {<<"documents_missing">>}
  /\ Leave(h)
  /\ UNCHANGED <<app, form, docs, queue, place, spent>>

\* extractDocument: staff ask for it to be read again.
ReadAgain(i) ==
  /\ "read" \in Calls /\ Click
  /\ ~docs[i].aside /\ toRead' = toRead \cup {i}
  /\ UNCHANGED <<app, form, docs, tasks, auto, place, self>>

ExtractDocument(h, i) ==
  /\ i \in toRead /\ toRead' = toRead \ {i}
  /\ Begin(h, "read", "readDoc", [Nothing EXCEPT !.doc = i])
  /\ UNCHANGED <<app, form, docs, tasks, auto, place, spent>>

ReadDocument(h) ==
  /\ At(h, "readDoc")
  /\ IF docs[mem[h].doc].aside THEN Leave(h) ELSE Goto(h, "readForm") /\ Keep(h)
  /\ UNCHANGED <<app, form, docs, tasks, queue, place, spent>>

\* The model has answered; the form is read, flags and all.  ok: they agree.
ReadForm(h, agree) ==
  /\ At(h, "readForm")
  /\ mem' = [mem EXCEPT ![h] = [@ EXCEPT !.ok = agree, !.flags = flags]]
  /\ Goto(h, "flag")
  /\ UNCHANGED <<app, form, docs, tasks, queue, place, spent>>

CodeOf(h) == docs[mem[h].doc].code
Differs(h) == IF mem[h].ok THEN {} ELSE {CodeOf(h)}

\* This document's flags replaced in the copy, and the copy written.
Flag(h) ==
  /\ At(h, "flag")
  /\ flags' = (mem[h].flags \ {CodeOf(h)}) \cup Differs(h)
  /\ Goto(h, "readDone") /\ Keep(h)
  /\ UNCHANGED <<app, answered, submitted, docs, tasks, queue, place, spent>>

DocumentExtracted(h) ==
  /\ At(h, "readDone")
  /\ tasks' = (tasks \ {MismatchTask(CodeOf(h))}) \cup {MismatchTask(c) : c \in Differs(h)}
  /\ Leave(h)
  /\ UNCHANGED <<app, form, docs, queue, place, spent>>
-----------------------------------------------------------------------------
(* Handing it in: by the parent, or by staff for a parent who did not.       *)

Submit(h, who) ==
  /\ Click /\ app = "registration_incomplete"
  /\ Begin(h, "submit", "bundle", [Nothing EXCEPT !.by = who])
  /\ UNCHANGED <<app, form, docs, tasks, queue, place>>

\* Staff are told what is missing; the parent's submission is recorded.
Bundle(h) ==
  /\ At(h, "bundle")
  /\ \/ Complete /\ Goto(h, "stamp") /\ Keep(h)
     \/ ~Complete /\ mem[h].by = "staff" /\ Leave(h)
     \/ ~Complete /\ mem[h].by = "parent" /\ Goto(h, "incomplete") /\ Hold(h, "ok", PapersIn)
  /\ UNCHANGED <<app, form, docs, tasks, queue, place, spent>>

Incomplete(h) ==
  /\ At(h, "incomplete")
  /\ tasks' = IF mem[h].ok THEN tasks ELSE tasks \cup {<<"documents_missing">>}
  /\ Leave(h)
  /\ UNCHANGED <<app, form, docs, queue, place, spent>>

Stamp(h) ==
  /\ At(h, "stamp")
  /\ submitted' = TRUE
  /\ Goto(h, "complete") /\ Keep(h)
  /\ UNCHANGED <<app, answered, flags, docs, tasks, queue, place, spent>>

\* completeRegistration: autoEnrol chooses between a job and a task.
CompleteRegistration(h) ==
  /\ At(h, "complete")
  /\ IF app = "registration_incomplete"
     THEN /\ app' = "registration_complete"
          /\ \/ auto' = auto + 1 /\ tasks' = tasks \ {<<"documents_missing">>}
             \/ tasks' = (tasks \ {<<"documents_missing">>}) \cup {<<"confirm_enrolment">>} /\ UNCHANGED auto
     ELSE UNCHANGED <<app, tasks, auto>>
  /\ Leave(h)
  /\ UNCHANGED <<form, docs, toRead, place, spent>>
-----------------------------------------------------------------------------
(* Enrolment: by an officer, or by the auto_enrol job.                       *)

ConfirmEnrolment(h) ==
  /\ Click /\ app = "registration_complete"
  /\ Begin(h, "enrol", "papers", [Nothing EXCEPT !.by = "staff"])
  /\ UNCHANGED <<app, form, docs, tasks, queue, place>>

AutoEnrol(h) ==
  /\ auto > 0 /\ auto' = auto - 1
  /\ IF app = "registration_complete"
     THEN Begin(h, "enrol", "papers", [Nothing EXCEPT !.by = "job"])
     ELSE UNCHANGED self
  /\ UNCHANGED <<app, form, docs, tasks, toRead, place, spent>>

\* A job refused here is skipped.
Papers(h) ==
  /\ At(h, "papers")
  /\ IF Complete /\ (mem[h].by = "staff" => Pending = {})
     THEN Goto(h, "record") /\ Keep(h) ELSE Leave(h)
  /\ UNCHANGED <<app, form, docs, tasks, queue, place, spent>>

Record(h) ==
  /\ At(h, "record")
  /\ register' = register \cup {"record"}
  /\ Goto(h, "find") /\ Keep(h)
  /\ UNCHANGED <<app, form, docs, tasks, queue, students, spent>>

Find(h) ==
  /\ At(h, "find")
  /\ Goto(h, IF students = 0 THEN "promote" ELSE "enrolment") /\ Keep(h)
  /\ UNCHANGED <<app, form, docs, tasks, queue, place, spent>>

\* Mutant: a child is minted for every confirmation that found none.
PromoteUnkeyed(h) ==
  /\ At(h, "promote")
  /\ students' = students + 1 /\ Goto(h, "enrolment") /\ Keep(h)
  /\ UNCHANGED <<app, form, docs, tasks, queue, register, spent>>

\* origin_application_id is unique: a second child is refused, a job tried again.
Promote(h) ==
  /\ At(h, "promote")
  /\ IF students = 0
     THEN students' = 1 /\ Goto(h, "enrolment") /\ Keep(h) /\ UNCHANGED auto
     ELSE Leave(h) /\ auto' \in Again(h) /\ UNCHANGED students
  /\ UNCHANGED <<app, form, docs, tasks, toRead, register, spent>>

Enrolment(h) ==
  /\ At(h, "enrolment")
  /\ register' = register \cup {"enrolment"}
  /\ Goto(h, "enrolled") /\ Keep(h)
  /\ UNCHANGED <<app, form, docs, tasks, queue, students, spent>>

\* A refused commit leaves the child on the register; a job is then skipped.
EnrolmentConfirmed(h) ==
  /\ At(h, "enrolled")
  /\ IF app = "registration_complete"
     THEN /\ app' = "enrolled"
          /\ tasks' = (tasks \ {<<"confirm_enrolment">>}) \cup {<<"notify_campus_enrolled">>}
     ELSE UNCHANGED <<app, tasks>>
  /\ Leave(h)
  /\ UNCHANGED <<form, docs, queue, place, spent>>
-----------------------------------------------------------------------------
\* Move to stage, back to an offer: BACK_MOOT_TASKS go.
MovedBack ==
  /\ app \in {"registration_incomplete", "registration_complete"} /\ moves < MaxMoves
  /\ app' = "elsewhere" /\ moves' = moves + 1
  /\ tasks' = tasks \ {<<"confirm_enrolment">>, <<"documents_missing">>}
  /\ UNCHANGED <<form, docs, queue, place, self, clicks, crashes>>

\* The new offer is accepted and paid.
PaidAgain ==
  /\ app = "elsewhere" /\ app' = "registration_incomplete"
  /\ UNCHANGED <<form, docs, tasks, queue, place, self, spent>>

Crash(h) ==
  /\ ~At(h, "idle") /\ crashes < MaxCrashes
  /\ crashes' = crashes + 1
  /\ toRead' \in {toRead} \cup (IF call[h] = "read" THEN {toRead \cup {mem[h].doc}} ELSE {})
  /\ auto' \in Again(h)
  /\ Leave(h)
  /\ UNCHANGED <<app, form, docs, tasks, place, clicks, moves>>
-----------------------------------------------------------------------------
Uploads(h) ==
  \/ Previous(h) \/ StepAside(h) \/ Insert(h) \/ InsertRefused(h) \/ Restore(h)
  \/ Link(h) \/ Look(h) \/ Uploaded(h)
Reads(h) ==
  \/ WriteReview(h) \/ Reviewed(h) \/ ReadDocument(h) \/ (\E a \in BOOLEAN : ReadForm(h, a))
  \/ Flag(h) \/ DocumentExtracted(h)
Submits(h) ==
  SaveForm(h) \/ Saved(h) \/ Bundle(h) \/ Incomplete(h) \/ Stamp(h) \/ CompleteRegistration(h)
Enrols(h) ==
  Papers(h) \/ Record(h) \/ Find(h) \/ Promote(h) \/ Enrolment(h) \/ EnrolmentConfirmed(h)

Start(h) ==
  \/ \E who \in Person : Save(h, who) \/ Submit(h, who) \/ \E c \in Codes : Upload(h, who, c)
  \/ \E i \in DOMAIN docs :
       \/ \E v \in Review \ {"pending"} : ReviewDocument(h, i, v)
       \/ ExtractDocument(h, i)
  \/ ConfirmEnrolment(h) \/ AutoEnrol(h)

Next ==
  \/ \E h \in Handlers :
       Start(h) \/ Uploads(h) \/ Reads(h) \/ Submits(h) \/ Enrols(h) \/ Crash(h)
  \/ \E i \in DOMAIN docs : ReadAgain(i)
  \/ MovedBack \/ PaidAgain

Spec == Init /\ [][Next]_vars
-----------------------------------------------------------------------------
Quiet == crashes = 0 /\ \A h \in Handlers : At(h, "idle")

\* Every row, task and invocation is one the code can write.
TypeOK ==
  /\ app \in Status /\ answered \in BOOLEAN /\ submitted \in BOOLEAN
  /\ docs \in Seq(Doc) /\ Len(docs) <= MaxDocs
  /\ flags \subseteq Codes /\ tasks \subseteq TaskType
  /\ toRead \subseteq Ids /\ auto \in Nat
  /\ students \in Nat /\ register \subseteq {"record", "enrolment"}
  /\ pc \in [Handlers -> PC] /\ call \in [Handlers -> Call \cup {"none"}]
  /\ mem \in [Handlers ->
       [by : Person \cup {"job"}, code : Codes, doc : 0..MaxDocs, prev : 0..MaxDocs,
        ok : BOOLEAN, flags : SUBSET Codes]]
  /\ {clicks, moves, crashes} \subseteq Nat

\* What a family has handed in is never lost to a second upload: once every
\* upload has ended, whichever of two met, were refused or undid what they had
\* set aside, each requirement ever supplied has exactly one live document
\* (storage.ts, recordDocument).
DocumentStands ==
  Quiet => \A c \in Codes :
    (\E i \in DOMAIN docs : docs[i].code = c) => Cardinality(Live(c)) = 1

\* "Confirming an enrolment twice produces the same student rather than a second
\* child", and a child who is enrolled handed the form in and is on the register
\* in full, however the confirmations, the job, a kill and a move back met
\* (promote.ts, enrolment-actions.ts).
EnrolledOnRegister ==
  /\ students <= 1
  /\ app = "enrolled" => submitted /\ students = 1 /\ register = {"record", "enrolment"}

\* A disagreement on the parent's form is in front of a person, and a person is
\* told of none that is not: a flag and its task come and go together, read,
\* replaced, read again and answered (onDocumentExtracted, onRegistrationSaved).
FlagsHaveTask ==
  Quiet => \A c \in Codes : c \in flags <=> MismatchTask(c) \in tasks
=============================================================================
