-------------------------- MODULE RegistrationProofs --------------------------
(* What Registration keeps for any number of documents, uploads, saves,      *)
(* confirmations and killed invocations.                                     *)
EXTENDS Registration, FiniteSetTheorems, TLAPS

Memory ==
  [by : Person \cup {"job"}, code : Codes, doc : 0..MaxDocs, prev : 0..MaxDocs,
   ok : BOOLEAN, flags : SUBSET Codes]

DbOK ==
  /\ app \in Status /\ answered \in BOOLEAN /\ submitted \in BOOLEAN
  /\ docs \in Seq(Doc) /\ Len(docs) <= MaxDocs
  /\ flags \subseteq Codes /\ tasks \subseteq TaskType
  /\ toRead \subseteq Ids /\ auto \in Nat
  /\ students \in Nat /\ register \subseteq {"record", "enrolment"}
SelfOK ==
  /\ pc \in [Handlers -> PC] /\ call \in [Handlers -> Call \cup {"none"}]
  /\ mem \in [Handlers -> Memory]
SpentOK == {clicks, moves, crashes} \subseteq Nat

\* An invocation that reads a document, or has inserted one, knows its row.
RowAt == {"readDoc", "readForm", "flag", "readDone", "link", "look", "uploaded"}
Known ==
  \A h \in Handlers :
    call[h] = "read" \/ pc[h] \in RowAt => mem[h].doc \in DOMAIN docs

TypeInv == DbOK /\ SelfOK /\ SpentOK /\ Known

LEMMA TypeParts == TypeOK <=> DbOK /\ SelfOK /\ SpentOK
  BY DEF TypeOK, DbOK, SelfOK, SpentOK, Memory

LEMMA DocIds == DbOK => DOMAIN docs \subseteq Ids /\ DOMAIN docs \subseteq 0..MaxDocs
  <1> SUFFICES ASSUME DbOK PROVE DOMAIN docs \subseteq Ids /\ DOMAIN docs \subseteq 0..MaxDocs
    OBVIOUS
  <1>1. DOMAIN docs = 1..Len(docs) /\ Len(docs) \in Nat /\ Len(docs) <= MaxDocs /\ MaxDocs \in Nat
    BY RegistrationBounds DEF DbOK
  <1> QED
    BY <1>1 DEF Ids

LEMMA MemoryFields ==
  ASSUME NEW m \in Memory
  PROVE  /\ m.by \in Person \cup {"job"} /\ m.code \in Codes /\ m.doc \in 0..MaxDocs
         /\ m.prev \in 0..MaxDocs /\ m.ok \in BOOLEAN /\ m.flags \in SUBSET Codes
  BY DEF Memory

\* What an invocation begins with.
LEMMA NothingInMemory == Nothing \in Memory
  <1>1. (CHOOSE c \in Codes : TRUE) \in Codes
    BY CodeAssumption
  <1>2. 0 \in 0..MaxDocs
    BY RegistrationBounds
  <1> QED
    BY <1>1, <1>2 DEF Nothing, Memory, Person

LEMMA StartOf ==
  ASSUME NEW who \in Person \cup {"job"}, NEW b \in BOOLEAN, NEW c \in Codes,
         NEW i \in 0..MaxDocs
  PROVE  /\ [Nothing EXCEPT !.by = who] \in Memory
         /\ [Nothing EXCEPT !.by = who, !.ok = b] \in Memory
         /\ [Nothing EXCEPT !.code = c] \in Memory
         /\ [Nothing EXCEPT !.doc = i] \in Memory /\ [Nothing EXCEPT !.doc = i].doc = i
         /\ [Nothing EXCEPT !.doc = i, !.ok = b] \in Memory
         /\ [Nothing EXCEPT !.doc = i, !.ok = b].doc = i
  <1> DEFINE m == Nothing
  <1>1. m \in Memory
    BY NothingInMemory
  <1> HIDE DEF m
  <1>2. [m EXCEPT !.by = who] \in Memory /\ [m EXCEPT !.by = who, !.ok = b] \in Memory
    BY <1>1 DEF Memory
  <1>3. [m EXCEPT !.code = c] \in Memory
    BY <1>1 DEF Memory
  <1>4. [m EXCEPT !.doc = i] \in Memory /\ [m EXCEPT !.doc = i].doc = i
    BY <1>1 DEF Memory
  <1>5. [m EXCEPT !.doc = i, !.ok = b] \in Memory /\ [m EXCEPT !.doc = i, !.ok = b].doc = i
    BY <1>1 DEF Memory
  <1> QED
    BY <1>2, <1>3, <1>4, <1>5 DEF m

\* What it remembers on the way.
LEMMA HoldDoc ==
  ASSUME NEW m \in Memory, NEW d \in 0..MaxDocs
  PROVE  [m EXCEPT !["doc"] = d] \in Memory /\ [m EXCEPT !["doc"] = d].doc = d
  BY DEF Memory

LEMMA HoldPrev ==
  ASSUME NEW m \in Memory, NEW d \in 0..MaxDocs
  PROVE  [m EXCEPT !["prev"] = d] \in Memory /\ [m EXCEPT !["prev"] = d].doc = m.doc
  BY DEF Memory

LEMMA HoldOk ==
  ASSUME NEW m \in Memory, NEW b \in BOOLEAN
  PROVE  [m EXCEPT !["ok"] = b] \in Memory /\ [m EXCEPT !["ok"] = b].doc = m.doc
  BY DEF Memory

LEMMA HoldReading ==
  ASSUME NEW m \in Memory, NEW b \in BOOLEAN, NEW F \in SUBSET Codes
  PROVE  /\ [m EXCEPT !.ok = b, !.flags = F] \in Memory
         /\ [m EXCEPT !.ok = b, !.flags = F].doc = m.doc
  BY DEF Memory

-----------------------------------------------------------------------------
(* The pieces the actions are made of keep the types.                        *)

LEMMA BeginKeeps ==
  ASSUME SelfOK, Known, NEW h \in Handlers, NEW what, NEW l \in PC, NEW m \in Memory,
         Begin(h, what, l, m), docs' = docs,
         what = "read" \/ l \in RowAt => m.doc \in DOMAIN docs
  PROVE  SelfOK' /\ Known'
  BY CallAssumption DEF SelfOK, Known, Begin

LEMMA GotoKeeps ==
  ASSUME SelfOK, Known, NEW h \in Handlers, NEW l \in PC, Goto(h, l), NEW m \in Memory,
         mem' = [mem EXCEPT ![h] = m], DOMAIN docs \subseteq DOMAIN docs',
         call[h] = "read" \/ l \in RowAt => m.doc \in DOMAIN docs'
  PROVE  SelfOK' /\ Known'
  BY DEF SelfOK, Known, Goto

\* A statement that remembers nothing more.
LEMMA StepKeeps ==
  ASSUME SelfOK, Known, NEW h \in Handlers, NEW l \in PC, Goto(h, l), Keep(h),
         DOMAIN docs \subseteq DOMAIN docs',
         l \in RowAt => pc[h] \in RowAt \/ call[h] = "read"
  PROVE  SelfOK' /\ Known'
  BY DEF SelfOK, Known, Goto, Keep

LEMMA LeaveKeeps ==
  ASSUME SelfOK, Known, NEW h \in Handlers, Leave(h), DOMAIN docs \subseteq DOMAIN docs'
  PROVE  SelfOK' /\ Known'
  BY NothingInMemory DEF SelfOK, Known, Leave, PC, RowAt

\* A statement on one document, found by its id.
LEMMA SetKeeps ==
  ASSUME docs \in Seq(Doc), NEW i, NEW r, i \in DOMAIN docs => r \in Doc
  PROVE  LET d == [docs EXCEPT ![i] = r]
         IN  d \in Seq(Doc) /\ Len(d) = Len(docs) /\ DOMAIN d = DOMAIN docs
  <1> DEFINE d == [docs EXCEPT ![i] = r]
  <1>1. PICK n \in Nat : docs \in [1..n -> Doc]
    OBVIOUS
  <1>2. d \in [1..n -> Doc]
    BY <1>1
  <1> QED
    BY <1>1, <1>2

LEMMA DocsKeep ==
  ASSUME docs \in Seq(Doc), NEW i, NEW b \in BOOLEAN, NEW v \in Review
  PROVE  /\ LET d == [docs EXCEPT ![i].aside = b]
            IN  d \in Seq(Doc) /\ Len(d) = Len(docs) /\ DOMAIN d = DOMAIN docs
         /\ LET d == [docs EXCEPT ![i].review = v]
            IN  d \in Seq(Doc) /\ Len(d) = Len(docs) /\ DOMAIN d = DOMAIN docs
  <1>1. \A d \in Doc : [d EXCEPT !.aside = b] \in Doc /\ [d EXCEPT !.review = v] \in Doc
    BY DEF Doc
  <1>2. i \in DOMAIN docs => docs[i] \in Doc
    OBVIOUS
  <1> QED
    BY <1>1, <1>2, SetKeeps

LEMMA CodeIsCode ==
  ASSUME TypeInv, NEW h \in Handlers, call[h] = "read" \/ pc[h] \in RowAt
  PROVE  mem[h].doc \in DOMAIN docs /\ CodeOf(h) \in Codes /\ Differs(h) \in SUBSET Codes
  <1>1. mem[h].doc \in DOMAIN docs /\ docs[mem[h].doc] \in Doc
    BY DEF TypeInv, Known, DbOK
  <1>2. \A d \in Doc : d.code \in Codes
    BY DEF Doc
  <1> QED
    BY <1>1, <1>2 DEF CodeOf, Differs

-----------------------------------------------------------------------------
(* One lemma for each group of statements.                                   *)

LEMMA UploadsType ==
  ASSUME TypeInv, NEW h \in Handlers, Uploads(h)
  PROVE  TypeInv'
  <1> USE DEF TypeInv, form, place, queue, spent, At
  <1>0. mem[h] \in Memory /\ mem[h].code \in Codes
    BY MemoryFields DEF SelfOK
  <1>1. CASE Previous(h)
    <2>1. DbOK' /\ SpentOK' /\ docs' = docs
      BY <1>1 DEF DbOK, SpentOK, Previous
    <2>2. CASE Goto(h, "insert") /\ Keep(h)
      BY <2>1, <2>2, StepKeeps DEF PC, RowAt
    <2>3. ASSUME Goto(h, "stepAside"), NEW i \in Live(mem[h].code), Hold(h, "prev", i)
          PROVE  SelfOK' /\ Known'
      <3>1. i \in 0..MaxDocs
        BY DocIds DEF Live
      <3>2. mem' = [mem EXCEPT ![h] = [mem[h] EXCEPT !["prev"] = i]]
        BY <2>3 DEF Hold
      <3> QED
        <4>1. [mem[h] EXCEPT !["prev"] = i] \in Memory /\ [mem[h] EXCEPT !["prev"] = i].doc = mem[h].doc
          BY <1>0, <3>1, HoldPrev
        <4>2. call[h] = "read" => mem[h].doc \in DOMAIN docs
          BY DEF Known
        <4>3. "stepAside" \in PC /\ "stepAside" \notin RowAt
          BY DEF PC, RowAt
        <4> HIDE DEF TypeInv, form, place, queue, spent
        <4> QED
          BY <2>1, <2>3, <3>2, <4>1, <4>2, <4>3, GotoKeeps DEF TypeInv
    <2> QED
      BY <1>1, <2>1, <2>2, <2>3 DEF Previous
  <1>2. CASE StepAside(h)
    <2>1. DbOK' /\ SpentOK' /\ DOMAIN docs' = DOMAIN docs
      BY <1>2, DocsKeep DEF DbOK, SpentOK, StepAside, Review
    <2> QED
      BY <1>2, <2>1, StepKeeps DEF StepAside, PC, RowAt
  <1>3. CASE Insert(h)
    <2> DEFINE d == [code |-> mem[h].code, aside |-> FALSE, review |-> "pending"]
               n == Len(docs) + 1
               l == IF mem[h].prev = 0 THEN "look" ELSE "link"
    <2>1. d \in Doc
      BY <1>0 DEF Doc, Review
    <2>2. /\ docs' \in Seq(Doc) /\ Len(docs') = n /\ DOMAIN docs \subseteq DOMAIN docs'
          /\ n \in DOMAIN docs' /\ n \in 0..MaxDocs
      BY <1>3, <2>1, RegistrationBounds DEF Insert, DbOK
    <2>3. DbOK' /\ SpentOK'
      BY <1>3, <2>2, RegistrationBounds DEF DbOK, SpentOK, Insert
    <2>4. mem' = [mem EXCEPT ![h] = [mem[h] EXCEPT !["doc"] = n]]
      BY <1>3 DEF Insert, Hold
    <2>5. Goto(h, l) /\ l \in PC
      BY <1>3 DEF Insert, PC
    <2> HIDE DEF n, l, d
    <2>6. [mem[h] EXCEPT !["doc"] = n] \in Memory /\ [mem[h] EXCEPT !["doc"] = n].doc = n
      BY <1>0, <2>2, HoldDoc
    <2>7. SelfOK /\ Known
      OBVIOUS
    <2> HIDE DEF TypeInv, form, place, queue, spent
    <2>8. SelfOK' /\ Known'
      BY <2>2, <2>4, <2>5, <2>6, <2>7, GotoKeeps
    <2> QED
      BY <2>3, <2>8 DEF TypeInv
  <1>4. CASE InsertRefused(h)
    <2>1. DbOK' /\ SpentOK' /\ docs' = docs
      BY <1>4 DEF DbOK, SpentOK, InsertRefused
    <2> QED
      BY <1>4, <2>1, LeaveKeeps, StepKeeps DEF InsertRefused, PC, RowAt
  <1>5. CASE Restore(h)
    <2>1. DbOK' /\ SpentOK' /\ DOMAIN docs' = DOMAIN docs
      BY <1>5, DocsKeep DEF DbOK, SpentOK, Restore, Review
    <2> QED
      BY <1>5, <2>1, LeaveKeeps DEF Restore
  <1>6. CASE Link(h)
    <2>1. DbOK' /\ SpentOK' /\ DOMAIN docs' = DOMAIN docs
      BY <1>6, DocsKeep DEF DbOK, SpentOK, Link, Review
    <2> QED
      BY <1>6, <2>1, StepKeeps DEF Link, PC, RowAt
  <1>7. CASE Look(h)
    <2>1. DbOK' /\ SpentOK' /\ docs' = docs
      BY <1>7 DEF DbOK, SpentOK, Look
    <2>2. PapersIn \in BOOLEAN
      BY DEF PapersIn
    <2>3. mem' = [mem EXCEPT ![h] = [mem[h] EXCEPT !["ok"] = PapersIn]]
      BY <1>7 DEF Look, Hold
    <2>4. mem[h].doc \in DOMAIN docs
      BY <1>7 DEF Look, Known, RowAt
    <2> QED
      BY <1>0, <1>7, <2>1, <2>2, <2>3, <2>4, HoldOk, GotoKeeps DEF Look, PC
  <1>8. CASE Uploaded(h)
    <2>1. mem[h].doc \in Ids
      BY <1>8, DocIds DEF Uploaded, Known, RowAt
    <2>2. DbOK' /\ SpentOK' /\ docs' = docs
      BY <1>8, <2>1 DEF DbOK, SpentOK, Uploaded
    <2> QED
      BY <1>8, <2>2, LeaveKeeps DEF Uploaded
  <1> QED
    BY <1>1, <1>2, <1>3, <1>4, <1>5, <1>6, <1>7, <1>8 DEF Uploads

LEMMA ReadsType ==
  ASSUME TypeInv, NEW h \in Handlers, Reads(h)
  PROVE  TypeInv'
  <1> USE DEF TypeInv, form, place, queue, spent, At
  <1>0. mem[h] \in Memory
    BY DEF SelfOK
  <1>1. CASE WriteReview(h)
    <2>0. docs' \in Seq(Doc) /\ Len(docs') = Len(docs) /\ DOMAIN docs' = DOMAIN docs
      <3>1. docs \in Seq(Doc) /\ {"accepted", "rejected"} \subseteq Review
        BY DEF DbOK, Review
      <3>2. ASSUME NEW v \in {"accepted", "rejected"}, docs' = [docs EXCEPT ![mem[h].doc].review = v]
            PROVE  docs' \in Seq(Doc) /\ Len(docs') = Len(docs) /\ DOMAIN docs' = DOMAIN docs
        BY <3>1, <3>2, DocsKeep
      <3>3. docs' = docs \/ \E v \in {"accepted", "rejected"} :
                              docs' = [docs EXCEPT ![mem[h].doc].review = v]
        BY <1>1 DEF WriteReview
      <3> QED
        BY <3>1, <3>2, <3>3
    <2>1. DbOK' /\ SpentOK' /\ DOMAIN docs' = DOMAIN docs
      BY <1>1, <2>0 DEF DbOK, SpentOK, WriteReview
    <2>2. CASE Leave(h)
      BY <2>1, <2>2, LeaveKeeps
    <2>3. CASE Goto(h, "reviewed") /\ Keep(h)
      <3>1. "reviewed" \in PC /\ "reviewed" \notin RowAt
        BY DEF PC, RowAt
      <3> QED
        BY <2>1, <2>3, <3>1, StepKeeps
    <2> QED
      BY <1>1, <2>2, <2>3 DEF WriteReview
  <1>2. CASE Reviewed(h)
    <2>1. DbOK' /\ SpentOK' /\ docs' = docs
      BY <1>2 DEF DbOK, SpentOK, Reviewed, TaskType
    <2> QED
      BY <1>2, <2>1, LeaveKeeps DEF Reviewed
  <1>3. CASE ReadDocument(h)
    <2>1. DbOK' /\ SpentOK' /\ docs' = docs
      BY <1>3 DEF DbOK, SpentOK, ReadDocument
    <2> QED
      BY <1>3, <2>1, LeaveKeeps, StepKeeps DEF ReadDocument, PC, RowAt
  <1>4. ASSUME NEW a \in BOOLEAN, ReadForm(h, a) PROVE TypeInv'
    <2>1. DbOK' /\ SpentOK' /\ docs' = docs
      BY <1>4 DEF DbOK, SpentOK, ReadForm
    <2>2. mem[h].doc \in DOMAIN docs /\ flags \in SUBSET Codes
      BY <1>4 DEF ReadForm, Known, RowAt, DbOK
    <2>3. mem' = [mem EXCEPT ![h] = [mem[h] EXCEPT !.ok = a, !.flags = flags]]
      BY <1>4, Zenon DEF ReadForm
    <2>4. Goto(h, "flag")
      BY <1>4 DEF ReadForm
    <2> QED
      BY <1>0, <2>1, <2>2, <2>3, <2>4, HoldReading, GotoKeeps DEF PC
  <1>5. CASE Flag(h)
    <2>1. CodeOf(h) \in Codes /\ Differs(h) \in SUBSET Codes /\ mem[h].flags \in SUBSET Codes
      BY <1>0, <1>5, CodeIsCode, MemoryFields DEF Flag, RowAt
    <2>2. DbOK' /\ SpentOK' /\ docs' = docs
      BY <1>5, <2>1 DEF DbOK, SpentOK, Flag
    <2> QED
      BY <1>5, <2>2, StepKeeps DEF Flag, PC, RowAt
  <1>6. CASE DocumentExtracted(h)
    <2>1. Differs(h) \in SUBSET Codes
      BY <1>6, CodeIsCode DEF DocumentExtracted, RowAt
    <2>2. DbOK' /\ SpentOK' /\ docs' = docs
      BY <1>6, <2>1 DEF DbOK, SpentOK, DocumentExtracted, TaskType
    <2> QED
      BY <1>6, <2>2, LeaveKeeps DEF DocumentExtracted
  <1> QED
    BY <1>1, <1>2, <1>3, <1>4, <1>5, <1>6 DEF Reads

LEMMA SubmitsType ==
  ASSUME TypeInv, NEW h \in Handlers, Submits(h)
  PROVE  TypeInv'
  <1> USE DEF TypeInv, form, place, queue, spent, At
  <1>0. mem[h] \in Memory
    BY DEF SelfOK
  <1>1. CASE SaveForm(h)
    <2>1. DbOK' /\ SpentOK' /\ docs' = docs
      BY <1>1 DEF DbOK, SpentOK, SaveForm
    <2> QED
      BY <1>1, <2>1, StepKeeps DEF SaveForm, PC, RowAt
  <1>2. CASE Saved(h)
    <2>1. DbOK' /\ SpentOK' /\ docs' = docs
      BY <1>2 DEF DbOK, SpentOK, Saved
    <2> QED
      BY <1>2, <2>1, LeaveKeeps DEF Saved
  <1>3. CASE Bundle(h)
    <2>1. DbOK' /\ SpentOK' /\ docs' = docs
      BY <1>3 DEF DbOK, SpentOK, Bundle
    <2>2. CASE Goto(h, "stamp") /\ Keep(h)
      BY <2>1, <2>2, StepKeeps DEF PC, RowAt
    <2>3. CASE Goto(h, "incomplete") /\ Hold(h, "ok", PapersIn)
      <3>1. mem' = [mem EXCEPT ![h] = [mem[h] EXCEPT !["ok"] = PapersIn]]
        BY <2>3 DEF Hold
      <3>2. PapersIn \in BOOLEAN
        BY DEF PapersIn
      <3> DEFINE m == [mem[h] EXCEPT !["ok"] = PapersIn]
      <3>3. m \in Memory /\ m.doc = mem[h].doc
        BY <1>0, <3>2, HoldOk
      <3>4. call[h] = "read" => m.doc \in DOMAIN docs'
        BY <2>1, <3>3 DEF Known
      <3> HIDE DEF m
      <3> QED
        BY <2>1, <2>3, <3>1, <3>3, <3>4, GotoKeeps DEF PC, RowAt, m
    <2> QED
      BY <1>3, <2>1, <2>2, <2>3, LeaveKeeps DEF Bundle
  <1>4. CASE Incomplete(h)
    <2>1. DbOK' /\ SpentOK' /\ docs' = docs
      BY <1>4 DEF DbOK, SpentOK, Incomplete, TaskType
    <2> QED
      BY <1>4, <2>1, LeaveKeeps DEF Incomplete
  <1>5. CASE Stamp(h)
    <2>1. DbOK' /\ SpentOK' /\ docs' = docs
      BY <1>5 DEF DbOK, SpentOK, Stamp
    <2> QED
      BY <1>5, <2>1, StepKeeps DEF Stamp, PC, RowAt
  <1>6. CASE CompleteRegistration(h)
    <2>1. DbOK' /\ SpentOK' /\ docs' = docs
      BY <1>6 DEF DbOK, SpentOK, CompleteRegistration, TaskType, Status
    <2> QED
      BY <1>6, <2>1, LeaveKeeps DEF CompleteRegistration
  <1> QED
    BY <1>1, <1>2, <1>3, <1>4, <1>5, <1>6 DEF Submits

LEMMA EnrolsType ==
  ASSUME TypeInv, NEW h \in Handlers, Enrols(h)
  PROVE  TypeInv'
  <1> USE DEF TypeInv, form, place, queue, spent, At
  <1>1. CASE Papers(h) \/ Find(h)
    <2>1. DbOK' /\ SpentOK' /\ docs' = docs
      BY <1>1 DEF DbOK, SpentOK, Papers, Find
    <2> QED
      BY <1>1, <2>1, LeaveKeeps, StepKeeps DEF Papers, Find, PC, RowAt
  <1>2. CASE Record(h) \/ Enrolment(h)
    <2>1. DbOK' /\ SpentOK' /\ docs' = docs
      BY <1>2 DEF DbOK, SpentOK, Record, Enrolment
    <2> QED
      BY <1>2, <2>1, StepKeeps DEF Record, Enrolment, PC, RowAt
  <1>3. CASE Promote(h)
    <2>1. DbOK' /\ SpentOK' /\ docs' = docs
      BY <1>3 DEF DbOK, SpentOK, Promote, Again
    <2> QED
      BY <1>3, <2>1, LeaveKeeps, StepKeeps DEF Promote, PC, RowAt
  <1>4. CASE EnrolmentConfirmed(h)
    <2>1. DbOK' /\ SpentOK' /\ docs' = docs
      BY <1>4 DEF DbOK, SpentOK, EnrolmentConfirmed, TaskType, Status
    <2> QED
      BY <1>4, <2>1, LeaveKeeps DEF EnrolmentConfirmed
  <1> QED
    BY <1>1, <1>2, <1>3, <1>4 DEF Enrols

\* Invocations that begin.
LEMMA StartType ==
  ASSUME TypeInv, NEW h \in Handlers, Start(h)
  PROVE  TypeInv'
  <1> USE DEF TypeInv, form, place, queue, spent, self
  <1>0. {"saveForm", "bundle", "previous", "review", "readDoc", "papers"} \subseteq PC
    BY DEF PC
  <1>1. ASSUME NEW who \in Person, Save(h, who) \/ Submit(h, who) PROVE TypeInv'
    <2>1. DbOK' /\ SpentOK' /\ docs' = docs
      BY <1>1 DEF DbOK, SpentOK, Save, Submit, Click
    <2> DEFINE b == who = "parent" /\ flags # {}
               m == [Nothing EXCEPT !.by = who, !.ok = b]
               n == [Nothing EXCEPT !.by = who]
    <2>2. m \in Memory /\ n \in Memory
      BY StartOf, RegistrationBounds, NothingInMemory, MemoryFields
    <2>3. Begin(h, "save", "saveForm", m) \/ Begin(h, "submit", "bundle", n)
      BY <1>1 DEF Save, Submit
    <2> HIDE DEF m, n
    <2> QED
      BY <1>0, <2>1, <2>2, <2>3, BeginKeeps DEF RowAt
  <1>2. ASSUME NEW who \in Person, NEW c \in Codes, Upload(h, who, c) PROVE TypeInv'
    <2>1. DbOK' /\ SpentOK' /\ docs' = docs
      BY <1>2 DEF DbOK, SpentOK, Upload
    <2> DEFINE m == [Nothing EXCEPT !.code = c]
    <2>2. m \in Memory
      BY StartOf, NothingInMemory, MemoryFields
    <2>3. Begin(h, "upload", "previous", m)
      BY <1>2 DEF Upload
    <2> HIDE DEF m
    <2> QED
      BY <1>0, <2>1, <2>2, <2>3, BeginKeeps DEF RowAt
  <1>3. ASSUME NEW i \in DOMAIN docs, NEW v, ReviewDocument(h, i, v) PROVE TypeInv'
    <2>1. DbOK' /\ SpentOK' /\ docs' = docs
      BY <1>3 DEF DbOK, SpentOK, ReviewDocument, Click
    <2> DEFINE b == v = "accepted"
               m == [Nothing EXCEPT !.doc = i, !.ok = b]
    <2>2. i \in 0..MaxDocs
      BY DocIds
    <2>3. m \in Memory
      BY <2>2, StartOf, NothingInMemory, MemoryFields
    <2>4. Begin(h, "review", "review", m)
      BY <1>3 DEF ReviewDocument
    <2> HIDE DEF m
    <2> QED
      BY <1>0, <2>1, <2>3, <2>4, BeginKeeps DEF RowAt
  <1>4. ASSUME NEW i \in DOMAIN docs, ExtractDocument(h, i) PROVE TypeInv'
    <2>1. DbOK' /\ SpentOK' /\ docs' = docs
      BY <1>4 DEF DbOK, SpentOK, ExtractDocument
    <2> DEFINE m == [Nothing EXCEPT !.doc = i]
    <2>2. i \in 0..MaxDocs
      BY DocIds
    <2>3. m \in Memory /\ m.doc = i
      BY <2>2, StartOf, NothingInMemory, MemoryFields
    <2>4. Begin(h, "read", "readDoc", m)
      BY <1>4 DEF ExtractDocument
    <2> HIDE DEF m
    <2> QED
      BY <1>0, <2>1, <2>3, <2>4, BeginKeeps
  <1>5. CASE ConfirmEnrolment(h) \/ AutoEnrol(h)
    <2>1. DbOK' /\ SpentOK' /\ docs' = docs
      BY <1>5 DEF DbOK, SpentOK, ConfirmEnrolment, AutoEnrol, Click
    <2> DEFINE m == [Nothing EXCEPT !.by = "staff"]
               n == [Nothing EXCEPT !.by = "job"]
    <2>2. m \in Memory /\ n \in Memory
      BY StartOf, NothingInMemory, MemoryFields DEF Person
    <2>3. Begin(h, "enrol", "papers", m) \/ Begin(h, "enrol", "papers", n) \/ UNCHANGED self
      BY <1>5 DEF ConfirmEnrolment, AutoEnrol
    <2> HIDE DEF m, n
    <2>4. CASE UNCHANGED self
      BY <2>1, <2>4 DEF SelfOK, Known
    <2> QED
      BY <1>0, <2>1, <2>2, <2>3, <2>4, BeginKeeps DEF RowAt
  <1> QED
    BY <1>1, <1>2, <1>3, <1>4, <1>5 DEF Start

LEMMA WorldType ==
  ASSUME TypeInv, MovedBack \/ PaidAgain \/ \E i \in DOMAIN docs : ReadAgain(i)
  PROVE  TypeInv'
  <1> USE DEF TypeInv, form, place, queue, spent, self
  <1>1. DOMAIN docs \subseteq Ids
    BY DocIds
  <1>2. DbOK' /\ docs' = docs
    BY <1>1 DEF DbOK, MovedBack, PaidAgain, ReadAgain, Status
  <1>3. SpentOK'
    BY DEF SpentOK, MovedBack, PaidAgain, ReadAgain, Click
  <1>4. UNCHANGED self
    BY DEF MovedBack, PaidAgain, ReadAgain
  <1> QED
    BY <1>2, <1>3, <1>4 DEF SelfOK, Known

LEMMA CrashType ==
  ASSUME TypeInv, NEW h \in Handlers, Crash(h)
  PROVE  TypeInv'
  <1>1. call[h] = "read" => mem[h].doc \in Ids
    BY DocIds DEF TypeInv, Known
  <1>2. DbOK' /\ SpentOK' /\ docs' = docs
    BY <1>1 DEF TypeInv, DbOK, SpentOK, Crash, Again, form, place
  <1> QED
    BY <1>2, LeaveKeeps DEF TypeInv, Crash

LEMMA NextType == TypeInv /\ [Next]_vars => TypeInv'
  <1> SUFFICES ASSUME TypeInv, [Next]_vars PROVE TypeInv'
    OBVIOUS
  <1>1. CASE UNCHANGED vars
    BY <1>1 DEF TypeInv, DbOK, SelfOK, SpentOK, Known, vars
  <1> QED
    BY <1>1, UploadsType, ReadsType, SubmitsType, EnrolsType, StartType, WorldType, CrashType
       DEF Next

LEMMA InitType == Init => TypeInv
  <1> SUFFICES ASSUME Init PROVE TypeInv
    OBVIOUS
  <1>1. DbOK /\ SpentOK
    <2>1. docs \in Seq(Doc) /\ Len(docs) <= MaxDocs
      BY RegistrationBounds DEF Init
    <2>2. SpentOK
      BY DEF Init, SpentOK
    <2> QED
      BY <2>1, <2>2 DEF Init, DbOK, Status
  <1>2. SelfOK /\ Known
    BY NothingInMemory DEF Init, SelfOK, Known, PC, RowAt
  <1> QED
    BY <1>1, <1>2 DEF TypeInv

\* Every row, task and invocation has its type: in particular each reading knows
\* a document that is there, so the flag it writes is one of a document.
THEOREM TypeCorrect == Spec => []TypeOK
  <1>1. TypeInv => TypeOK
    BY TypeParts DEF TypeInv
  <1> QED
    BY <1>1, InitType, NextType, PTL DEF Spec

-----------------------------------------------------------------------------
(* Enrolment.  An invocation past the first writes of confirmEnrolment knows   *)
(* they are there, for no action takes them back; and a registration is       *)
(* complete only after the statement that stamps it.                          *)

Late == {"complete", "find", "promote", "enrolment", "enrolled"}

EnrolInv ==
  /\ students \in {0, 1}
  /\ app \in {"registration_complete", "enrolled"} => submitted
  /\ app = "enrolled" => students = 1 /\ register = {"record", "enrolment"}
  /\ \A h \in Handlers :
       /\ pc[h] = "complete" => submitted
       /\ pc[h] \in Late \ {"complete"} => "record" \in register
       /\ pc[h] \in {"enrolment", "enrolled"} => students = 1
       /\ pc[h] = "enrolled" => "enrolment" \in register

\* A statement of the rest leaves all of that alone.
LEMMA RestKeeps ==
  ASSUME SelfOK, EnrolInv, NEW h \in Handlers, NEW l, l \notin Late,
         pc' = [pc EXCEPT ![h] = l], UNCHANGED <<app, submitted, students, register>>
  PROVE  EnrolInv'
  BY DEF SelfOK, EnrolInv, Late

LEMMA StartKeeps ==
  ASSUME SelfOK, EnrolInv, NEW h \in Handlers, Start(h) \/ Crash(h)
  PROVE  EnrolInv'
  <1>1. UNCHANGED <<app, submitted, students, register>>
    BY DEF Start, Crash, Save, Submit, Upload, ReviewDocument, ExtractDocument,
       ConfirmEnrolment, AutoEnrol, form, place
  <1>2. UNCHANGED pc \/ \E l \in {"saveForm", "bundle", "previous", "review", "readDoc",
                                  "papers", "idle"} : pc' = [pc EXCEPT ![h] = l]
    BY DEF Start, Crash, Save, Submit, Upload, ReviewDocument, ExtractDocument,
       ConfirmEnrolment, AutoEnrol, Begin, Leave, self
  <1>3. CASE UNCHANGED pc
    BY <1>1, <1>3 DEF EnrolInv
  <1> QED
    BY <1>1, <1>2, <1>3, RestKeeps DEF Late

LEMMA UploadsAndReadsKeep ==
  ASSUME SelfOK, EnrolInv, NEW h \in Handlers, Uploads(h) \/ Reads(h)
  PROVE  EnrolInv'
  <1>1. UNCHANGED <<app, submitted, students, register>>
    BY DEF Uploads, Previous, StepAside, Insert, InsertRefused, Restore, Link, Look, Uploaded,
       Reads, WriteReview, Reviewed, ReadDocument, ReadForm, Flag, DocumentExtracted,
       form, place
  <1>2. \E l \in {"idle", "insert", "stepAside", "look", "link", "restore", "uploaded",
                  "reviewed", "readForm", "flag", "readDone"} : pc' = [pc EXCEPT ![h] = l]
    BY DEF Uploads, Previous, StepAside, Insert, InsertRefused, Restore, Link, Look, Uploaded,
       Reads, WriteReview, Reviewed, ReadDocument, ReadForm, Flag, DocumentExtracted,
       Goto, Leave
  <1> QED
    BY <1>1, <1>2, RestKeeps DEF Late

LEMMA SubmitsKeep ==
  ASSUME SelfOK, EnrolInv, NEW h \in Handlers, Submits(h)
  PROVE  EnrolInv'
  <1> USE DEF form, place
  <1>1. CASE SaveForm(h) \/ Saved(h) \/ Incomplete(h)
    <2>1. UNCHANGED <<app, submitted, students, register>>
      BY <1>1 DEF SaveForm, Saved, Incomplete
    <2>2. \E l \in {"saved", "idle"} : pc' = [pc EXCEPT ![h] = l]
      BY <1>1 DEF SaveForm, Saved, Incomplete, Goto, Leave
    <2> QED
      BY <2>1, <2>2, RestKeeps DEF Late
  <1>2. CASE Bundle(h)
    <2>1. \E l \in {"idle", "stamp", "incomplete"} : pc' = [pc EXCEPT ![h] = l]
      BY <1>2 DEF Bundle, Goto, Leave
    <2> QED
      BY <1>2, <2>1, RestKeeps DEF Bundle, Late
  <1>3. CASE Stamp(h)
    BY <1>3 DEF Stamp, Goto, SelfOK, EnrolInv, Late
  <1>4. CASE CompleteRegistration(h)
    <2>1. submitted /\ UNCHANGED <<submitted, students, register>>
      BY <1>4 DEF CompleteRegistration, EnrolInv, At
    <2>2. app' = app \/ app' = "registration_complete"
      BY <1>4 DEF CompleteRegistration
    <2>3. pc' = [pc EXCEPT ![h] = "idle"]
      BY <1>4 DEF CompleteRegistration, Leave
    <2> QED
      BY <2>1, <2>2, <2>3 DEF SelfOK, EnrolInv, Late
  <1> QED
    BY <1>1, <1>2, <1>3, <1>4 DEF Submits

LEMMA EnrolsKeep ==
  ASSUME SelfOK, DbOK, EnrolInv, NEW h \in Handlers, Enrols(h)
  PROVE  EnrolInv'
  <1> USE DEF form, place
  <1>1. CASE Papers(h)
    <2>1. \E l \in {"idle", "record"} : pc' = [pc EXCEPT ![h] = l]
      BY <1>1 DEF Papers, Goto, Leave
    <2> QED
      BY <1>1, <2>1, RestKeeps DEF Papers, Late
  <1>2. CASE Record(h)
    BY <1>2 DEF Record, Goto, SelfOK, EnrolInv, Late
  <1>3. CASE Find(h)
    BY <1>3 DEF Find, Goto, At, SelfOK, EnrolInv, Late
  <1>4. CASE Promote(h)
    <2>1. CASE students = 0
      BY <1>4, <2>1 DEF Promote, Goto, At, SelfOK, EnrolInv, Late
    <2>2. CASE students # 0
      BY <1>4, <2>2, RestKeeps DEF Promote, Leave, Late
    <2> QED
      BY <2>1, <2>2
  <1>5. CASE Enrolment(h)
    BY <1>5 DEF Enrolment, Goto, At, SelfOK, EnrolInv, Late
  <1>6. CASE EnrolmentConfirmed(h)
    <2>1. students = 1 /\ register = {"record", "enrolment"}
      BY <1>6 DEF EnrolmentConfirmed, At, EnrolInv, DbOK, Late
    <2>2. UNCHANGED <<submitted, students, register>> /\ pc' = [pc EXCEPT ![h] = "idle"]
      BY <1>6 DEF EnrolmentConfirmed, Leave
    <2>3. app' = app \/ (app = "registration_complete" /\ app' = "enrolled")
      BY <1>6 DEF EnrolmentConfirmed
    <2> QED
      BY <2>1, <2>2, <2>3 DEF SelfOK, EnrolInv, Late
  <1> QED
    BY <1>1, <1>2, <1>3, <1>4, <1>5, <1>6 DEF Enrols

LEMMA WorldKeeps ==
  ASSUME EnrolInv, MovedBack \/ PaidAgain \/ (\E i \in DOMAIN docs : ReadAgain(i)) \/ UNCHANGED vars
  PROVE  EnrolInv'
  <1>1. UNCHANGED <<submitted, students, register, pc>>
    BY DEF MovedBack, PaidAgain, ReadAgain, vars, form, place, self
  <1>2. app' \in {app, "elsewhere", "registration_incomplete"}
    BY DEF MovedBack, PaidAgain, ReadAgain, vars
  <1> QED
    BY <1>1, <1>2 DEF EnrolInv

\* However many officers confirm an enrolment beside the job, whatever is killed
\* or moved back: there is one child at most, and one who is enrolled is on the
\* register in full and handed the form in.
THEOREM OneChild == Spec => []EnrolledOnRegister
  <1>1. Init => EnrolInv
    BY DEF Init, EnrolInv, Late
  <1>2. TypeInv /\ EnrolInv /\ [Next]_vars => EnrolInv'
    BY StartKeeps, UploadsAndReadsKeep, SubmitsKeep, EnrolsKeep, WorldKeeps DEF Next, TypeInv
  <1>3. EnrolInv => EnrolledOnRegister
    BY DEF EnrolInv, EnrolledOnRegister
  <1> QED
    BY <1>1, <1>2, <1>3, InitType, NextType, PTL DEF Spec
-----------------------------------------------------------------------------
(* Who is at which statement of what, and that only the code an invocation is *)
(* started for has them.                                                      *)

Supplying == {"previous", "stepAside", "insert", "restore", "link", "look", "uploaded"}
Reading == {"readDoc", "readForm", "flag", "readDone"}
Saving == {"saveForm", "saved"}

\* A reading has nobody beside it, where that is so when it starts.
Flow ==
  /\ \A h \in Handlers :
       /\ pc[h] = "idle" => call[h] = "none"
       /\ pc[h] \in Supplying => call[h] = "upload"
       /\ pc[h] \in Reading => call[h] = "read"
       /\ pc[h] \in Saving => call[h] = "save"
       /\ call[h] = "read" => "read" \in Calls
  /\ {"read"} \cap Calls \subseteq Alone =>
       \A h, g \in Handlers : call[h] = "read" /\ g # h => pc[g] = "idle"

\* A statement that goes on with the same call.
Onward(h, l) ==
  /\ l # "idle" /\ pc[h] # "idle" /\ Goto(h, l)
  /\ \A S \in {Supplying, Reading, Saving} : l \in S => pc[h] \in S

LEMMA OnwardFlow ==
  ASSUME SelfOK, Flow, NEW h \in Handlers, NEW l, Onward(h, l)
  PROVE  Flow'
  <1>1. \A g \in Handlers : pc'[g] = IF g = h THEN l ELSE pc[g]
    BY DEF SelfOK, Onward, Goto
  <1>2. call' = call
    BY DEF Onward, Goto
  <1>3. l \in Supplying => pc[h] \in Supplying
    BY DEF Onward
  <1>4. l \in Reading => pc[h] \in Reading
    BY DEF Onward
  <1>5. l \in Saving => pc[h] \in Saving
    BY DEF Onward
  <1>6. l # "idle" /\ pc[h] # "idle"
    BY DEF Onward
  <1> HIDE DEF Onward
  <1> QED
    BY <1>1, <1>2, <1>3, <1>4, <1>5, <1>6 DEF Flow

LEMMA LeaveFlow ==
  ASSUME SelfOK, Flow, NEW h \in Handlers, Leave(h)
  PROVE  Flow'
  <1>1. \A g \in Handlers : /\ pc'[g] = IF g = h THEN "idle" ELSE pc[g]
                            /\ call'[g] = IF g = h THEN "none" ELSE call[g]
    BY DEF SelfOK, Leave
  <1>2. "idle" \notin Supplying \cup Reading \cup Saving
    BY DEF Supplying, Reading, Saving
  <1> QED
    BY <1>1, <1>2 DEF Flow

LEMMA BeginFlow ==
  ASSUME SelfOK, Flow, NEW h \in Handlers, NEW what, NEW l, NEW m, Begin(h, what, l, m),
         l # "idle", what = "upload" <=> l \in Supplying, what = "read" <=> l \in Reading,
         what = "save" <=> l \in Saving
  PROVE  Flow'
  <1>1. \A g \in Handlers : /\ pc'[g] = IF g = h THEN l ELSE pc[g]
                            /\ call'[g] = IF g = h THEN what ELSE call[g]
    BY DEF SelfOK, Begin
  <1>2. what \in Calls
    BY DEF Begin
  <1>3. ASSUME NEW g \in Handlers \ {h}, pc[g] # "idle"
        PROVE  what \notin Alone /\ call[g] \notin Alone
    BY <1>3 DEF Begin, At
  <1> QED
    BY <1>1, <1>2, <1>3 DEF Flow

\* Every statement leaves, or goes on with its call.
LEMMA StatementGoes ==
  ASSUME NEW h \in Handlers, Uploads(h) \/ Reads(h) \/ Submits(h) \/ Enrols(h)
  PROVE  Leave(h) \/ \E l \in PC : Onward(h, l)
  <1> DEFINE Goes == \E l \in PC : Onward(h, l)
  <1>1. CASE Uploads(h)
    <2>1. Leave(h) \/ (pc[h] \in Supplying /\ \E l \in Supplying : Goto(h, l))
      BY <1>1 DEF Uploads, Previous, StepAside, Insert, InsertRefused, Restore, Link, Look,
         Uploaded, At, Supplying
    <2> QED
      BY <2>1 DEF Onward, Supplying, Reading, Saving, PC
  <1>2. CASE Reads(h)
    <2>1. \/ Leave(h)
          \/ pc[h] = "review" /\ Goto(h, "reviewed")
          \/ pc[h] \in Reading /\ \E l \in Reading : Goto(h, l)
      BY <1>2 DEF Reads, WriteReview, Reviewed, ReadDocument, ReadForm, Flag,
         DocumentExtracted, At, Reading
    <2> QED
      BY <2>1 DEF Onward, Supplying, Reading, Saving, PC
  <1>3. CASE Submits(h)
    <2>1. \/ Leave(h)
          \/ pc[h] = "saveForm" /\ Goto(h, "saved")
          \/ pc[h] # "idle" /\ \E l \in {"stamp", "incomplete", "complete"} : Goto(h, l)
      BY <1>3 DEF Submits, SaveForm, Saved, Bundle, Incomplete, Stamp, CompleteRegistration, At
    <2> QED
      BY <2>1 DEF Onward, Supplying, Reading, Saving, PC
  <1>4. CASE Enrols(h)
    <2>1. \/ Leave(h)
          \/ /\ pc[h] # "idle"
             /\ \E l \in {"record", "find", "promote", "enrolment", "enrolled"} : Goto(h, l)
      BY <1>4 DEF Enrols, Papers, Record, Find, Promote, Enrolment, EnrolmentConfirmed, At
    <2> QED
      BY <2>1 DEF Onward, Supplying, Reading, Saving, PC
  <1> QED
    BY <1>1, <1>2, <1>3, <1>4

\* What an invocation starts as.
LEMMA StartGoes ==
  ASSUME NEW h \in Handlers, Start(h)
  PROVE  \/ UNCHANGED self
         \/ \E what \in Call, l \in PC \ {"idle"} : \E m :
              /\ Begin(h, what, l, m)
              /\ what = "upload" <=> l \in Supplying
              /\ what = "read" <=> l \in Reading
              /\ what = "save" <=> l \in Saving
  <1> USE DEF Supplying, Reading, Saving, PC, Call
  <1>1. ASSUME NEW who \in Person, Save(h, who)
        PROVE  \E m : Begin(h, "save", "saveForm", m)
    BY <1>1 DEF Save
  <1>2. ASSUME NEW who \in Person, Submit(h, who)
        PROVE  \E m : Begin(h, "submit", "bundle", m)
    BY <1>2 DEF Submit
  <1>3. ASSUME NEW who \in Person, NEW c \in Codes, Upload(h, who, c)
        PROVE  \E m : Begin(h, "upload", "previous", m)
    BY <1>3 DEF Upload
  <1>4. ASSUME NEW i \in DOMAIN docs, NEW v, ReviewDocument(h, i, v)
        PROVE  \E m : Begin(h, "review", "review", m)
    BY <1>4 DEF ReviewDocument
  <1>5. ASSUME NEW i \in DOMAIN docs, ExtractDocument(h, i)
        PROVE  \E m : Begin(h, "read", "readDoc", m)
    BY <1>5 DEF ExtractDocument
  <1>6. ASSUME ConfirmEnrolment(h) \/ AutoEnrol(h)
        PROVE  UNCHANGED self \/ \E m : Begin(h, "enrol", "papers", m)
    BY <1>6 DEF ConfirmEnrolment, AutoEnrol
  <1> HIDE DEF Supplying, Reading, Saving, PC, Call
  <1>7. \/ UNCHANGED self
        \/ \E m : \/ Begin(h, "save", "saveForm", m) \/ Begin(h, "submit", "bundle", m)
                  \/ Begin(h, "upload", "previous", m) \/ Begin(h, "review", "review", m)
                  \/ Begin(h, "read", "readDoc", m) \/ Begin(h, "enrol", "papers", m)
    BY <1>1, <1>2, <1>3, <1>4, <1>5, <1>6 DEF Start
  <1> QED
    BY <1>7 DEF Supplying, Reading, Saving, PC, Call

LEMMA NextFlow == TypeInv /\ Flow /\ [Next]_vars => Flow'
  <1> SUFFICES ASSUME TypeInv, Flow, [Next]_vars PROVE Flow'
    OBVIOUS
  <1>1. CASE UNCHANGED self
    BY <1>1 DEF Flow, self
  <1>2. ASSUME NEW h \in Handlers, Uploads(h) \/ Reads(h) \/ Submits(h) \/ Enrols(h)
        PROVE  Flow'
    BY <1>2, StatementGoes, OnwardFlow, LeaveFlow DEF TypeInv
  <1>3. ASSUME NEW h \in Handlers, Start(h) PROVE Flow'
    BY <1>1, <1>3, StartGoes, BeginFlow DEF TypeInv
  <1>4. ASSUME NEW h \in Handlers, Crash(h) PROVE Flow'
    BY <1>4, LeaveFlow DEF Crash, TypeInv
  <1>5. MovedBack \/ PaidAgain \/ (\E i \in DOMAIN docs : ReadAgain(i)) \/ UNCHANGED vars
          => UNCHANGED self
    BY DEF MovedBack, PaidAgain, ReadAgain, vars, self
  <1> QED
    BY <1>1, <1>2, <1>3, <1>4, <1>5 DEF Next

LEMMA InitFlow == Init => Flow
  BY DEF Init, Flow, Supplying, Reading, Saving

\* What a step of one invocation leaves alone: the others, and what documents are of.
Beside(h) ==
  \A g \in Handlers \ {h} : pc'[g] = pc[g] /\ call'[g] = call[g] /\ mem'[g] = mem[g]

CodesStay ==
  \A i \in DOMAIN docs : i \in DOMAIN docs' /\ docs'[i].code = docs[i].code

LEMMA StepBeside ==
  ASSUME SelfOK, NEW h \in Handlers,
         Start(h) \/ Uploads(h) \/ Reads(h) \/ Submits(h) \/ Enrols(h) \/ Crash(h)
  PROVE  Beside(h)
  <1>1. \/ UNCHANGED self \/ Leave(h)
        \/ \E l : Goto(h, l) \/ \E what, m : Begin(h, what, l, m)
    <2>1. Crash(h) => Leave(h)
      BY DEF Crash
    <2> QED
      BY <2>1, StatementGoes, StartGoes DEF Onward
  <1> DEFINE Local == UNCHANGED mem \/ \E m : mem' = [mem EXCEPT ![h] = m]
  <1>2. Local
    <2>1. ASSUME Uploads(h) PROVE Local
      BY <2>1 DEF Uploads, Previous, StepAside, Insert, InsertRefused, Restore, Link, Look,
         Uploaded, Keep, Hold, Leave
    <2>2. ASSUME Reads(h) PROVE Local
      BY <2>2 DEF Reads, WriteReview, Reviewed, ReadDocument, ReadForm, Flag,
         DocumentExtracted, Keep, Leave
    <2>3. ASSUME Submits(h) PROVE Local
      BY <2>3 DEF Submits, SaveForm, Saved, Bundle, Incomplete, Stamp, CompleteRegistration,
         Keep, Hold, Leave
    <2>4. ASSUME Enrols(h) PROVE Local
      BY <2>4 DEF Enrols, Papers, Record, Find, Promote, Enrolment, EnrolmentConfirmed,
         Keep, Leave
    <2>5. ASSUME Start(h) PROVE Local
      BY <2>5, StartGoes DEF Begin, self
    <2>6. ASSUME Crash(h) PROVE Local
      BY <2>6 DEF Crash, Leave
    <2> QED
      BY <2>1, <2>2, <2>3, <2>4, <2>5, <2>6
  <1>3. \A g \in Handlers \ {h} : pc'[g] = pc[g] /\ call'[g] = call[g]
    BY <1>1 DEF SelfOK, Goto, Leave, Begin, self
  <1> QED
    BY <1>2, <1>3 DEF SelfOK, Beside

LEMMA StepCodes == TypeInv /\ [Next]_vars => CodesStay
  <1> SUFFICES ASSUME TypeInv, [Next]_vars PROVE CodesStay
    OBVIOUS
  <1>0. docs \in Seq(Doc)
    BY DEF TypeInv, DbOK
  <1>1. CASE docs' = docs
    BY <1>1 DEF CodesStay
  <1>2. ASSUME NEW i, NEW b, docs' = [docs EXCEPT ![i].aside = b] \/ docs' = [docs EXCEPT ![i].review = b]
        PROVE  CodesStay
    <2>1. \A k \in DOMAIN docs : docs[k] \in Doc
      BY <1>0
    <2>2. \A d \in Doc : [d EXCEPT !.aside = b].code = d.code /\ [d EXCEPT !.review = b].code = d.code
      BY DEF Doc
    <2>3. DOMAIN docs' = DOMAIN docs
      BY <1>2
    <2>4. \A k \in DOMAIN docs : docs'[k] \in {docs[k], [docs[k] EXCEPT !.aside = b], [docs[k] EXCEPT !.review = b]}
      BY <1>2
    <2> QED
      BY <2>1, <2>2, <2>3, <2>4 DEF CodesStay
  <1>3. ASSUME NEW d, docs' = Append(docs, d) PROVE CodesStay
    BY <1>0, <1>3 DEF CodesStay
  <1>4. ASSUME NEW h \in Handlers, Uploads(h)
        PROVE  docs' = docs \/ (\E i, b : docs' = [docs EXCEPT ![i].aside = b]) \/ \E d : docs' = Append(docs, d)
    BY <1>4 DEF Uploads, Previous, StepAside, Insert, InsertRefused, Restore, Link, Look, Uploaded
  <1>5. ASSUME NEW h \in Handlers, Reads(h)
        PROVE  docs' = docs \/ \E i, b : docs' = [docs EXCEPT ![i].review = b]
    BY <1>5 DEF Reads, WriteReview, Reviewed, ReadDocument, ReadForm, Flag, DocumentExtracted
  <1>6. ASSUME NEW h \in Handlers, Start(h) \/ Submits(h) \/ Enrols(h) \/ Crash(h)
        PROVE  docs' = docs
    <2>1. Start(h) => docs' = docs
      BY DEF Start, Save, Submit, Upload, ReviewDocument, ExtractDocument, ConfirmEnrolment, AutoEnrol
    <2>2. Submits(h) => docs' = docs
      BY DEF Submits, SaveForm, Saved, Bundle, Incomplete, Stamp, CompleteRegistration
    <2>3. Enrols(h) => docs' = docs
      BY DEF Enrols, Papers, Record, Find, Promote, Enrolment, EnrolmentConfirmed
    <2> QED
      BY <1>6, <2>1, <2>2, <2>3 DEF Crash
  <1>7. MovedBack \/ PaidAgain \/ (\E i \in DOMAIN docs : ReadAgain(i)) \/ UNCHANGED vars => docs' = docs
    BY DEF MovedBack, PaidAgain, ReadAgain, vars
  <1> QED
    BY <1>1, <1>2, <1>3, <1>4, <1>5, <1>6, <1>7 DEF Next
-----------------------------------------------------------------------------
(* Flags and tasks.  They differ only between two statements of one           *)
(* invocation: a parent's save that found flags, or the reading, which has    *)
(* nobody beside it.                                                          *)

Asked == {c \in Codes : MismatchTask(c) \in tasks}

Answering(h) == pc[h] = "saved" /\ mem[h].ok
Filing(h) ==
  pc[h] = "readDone" /\ Asked \ {CodeOf(h)} = flags \ {CodeOf(h)}

\* What an invocation read of the flags is still so when it relies on it.
FlagsSeen(h) ==
  /\ pc[h] = "saveForm" /\ mem[h].by = "parent" /\ ~mem[h].ok => flags = {}
  /\ pc[h] \in Saving /\ mem[h].ok => mem[h].by = "parent"
  /\ pc[h] = "saved" /\ mem[h].ok => flags = {}
  /\ pc[h] = "flag" => mem[h].flags = flags
  /\ pc[h] = "readDone" => flags \cap {CodeOf(h)} = Differs(h)

FlagInv ==
  crashes = 0 =>
    /\ \A h \in Handlers : FlagsSeen(h)
    /\ Asked = flags \/ \E h \in Handlers : Answering(h) \/ Filing(h)

\* No other task is one of these, and no two documents share theirs.
LEMMA TasksApart ==
  /\ \A c : MismatchTask(c) \notin {<<"documents_missing">>, <<"confirm_enrolment">>,
                                    <<"notify_campus_enrolled">>}
  /\ \A c, d : MismatchTask(c) = MismatchTask(d) => c = d
  BY DEF MismatchTask

\* A step that touches neither, of an invocation with nothing outstanding.
LEMMA FlagRest ==
  ASSUME TypeInv, FlagInv, NEW h \in Handlers, Beside(h), CodesStay, crashes' = crashes,
         flags' = flags, Asked' = Asked, ~Answering(h), pc[h] # "readDone", FlagsSeen(h)'
  PROVE  FlagInv'
  <1> SUFFICES ASSUME crashes = 0 PROVE FlagInv'
    BY DEF FlagInv
  <1>1. \A g \in Handlers : FlagsSeen(g)'
    <2> SUFFICES ASSUME NEW g \in Handlers \ {h} PROVE FlagsSeen(g)'
      OBVIOUS
    <2>1. pc'[g] = pc[g] /\ mem'[g] = mem[g]
      BY DEF Beside
    <2>2. FlagsSeen(g)
      BY DEF FlagInv
    <2>3. pc[g] = "readDone" => CodeOf(g)' = CodeOf(g) /\ Differs(g)' = Differs(g)
      BY <2>1 DEF TypeInv, Known, RowAt, CodesStay, CodeOf, Differs
    <2> QED
      BY <2>1, <2>2, <2>3 DEF FlagsSeen
  <1>2. ASSUME NEW g \in Handlers \ {h}
        PROVE  (Answering(g) => Answering(g)') /\ (Filing(g) => Filing(g)')
    <2>1. pc'[g] = pc[g] /\ mem'[g] = mem[g]
      BY DEF Beside
    <2>2. pc[g] = "readDone" => CodeOf(g)' = CodeOf(g) /\ Differs(g)' = Differs(g)
      BY <2>1 DEF TypeInv, Known, RowAt, CodesStay, CodeOf, Differs
    <2> QED
      BY <2>1, <2>2 DEF Answering, Filing
  <1>3. (Asked = flags)' \/ \E g \in Handlers : (Answering(g) \/ Filing(g))'
    BY <1>2 DEF FlagInv, Filing
  <1> QED
    BY <1>1, <1>3 DEF FlagInv

\* A statement that raises or clears only other tasks.
LEMMA OtherTasks ==
  ASSUME NEW T,
         T \subseteq {<<"documents_missing">>, <<"confirm_enrolment">>, <<"notify_campus_enrolled">>},
         tasks \subseteq tasks' \cup T, tasks' \subseteq tasks \cup T
  PROVE  Asked' = Asked
  BY TasksApart DEF Asked

LEMMA UploadsApart ==
  ASSUME TypeInv, NEW h \in Handlers, Uploads(h)
  PROVE  flags' = flags /\ crashes' = crashes /\ Asked' = Asked
  <1> USE DEF form, spent
  <1>1. CASE Uploaded(h)
    BY <1>1, OtherTasks DEF Uploaded
  <1>2. tasks' = tasks => Asked' = Asked
    BY DEF Asked
  <1> QED
    BY <1>1, <1>2 DEF Uploads, Uploaded, Previous, StepAside, Insert, InsertRefused, Restore, Link, Look

LEMMA EnrolsApart ==
  ASSUME TypeInv, NEW h \in Handlers, Enrols(h)
  PROVE  flags' = flags /\ crashes' = crashes /\ Asked' = Asked
  <1> USE DEF form, spent
  <1>1. CASE EnrolmentConfirmed(h)
    <2>1. flags' = flags /\ crashes' = crashes
      BY <1>1 DEF EnrolmentConfirmed
    <2> DEFINE T == {<<"confirm_enrolment">>, <<"notify_campus_enrolled">>}
    <2>2. tasks \subseteq tasks' \cup T /\ tasks' \subseteq tasks \cup T
      BY <1>1 DEF EnrolmentConfirmed
    <2>3. Asked' = Asked
      BY <2>2, OtherTasks
    <2> QED
      BY <2>1, <2>3
  <1>2. tasks' = tasks => Asked' = Asked
    BY DEF Asked
  <1> QED
    BY <1>1, <1>2 DEF Enrols, Papers, Record, Find, Promote, Enrolment

\* The statements of a submission and a review, and the ones before a flag is written.
LEMMA SubmitsApart ==
  ASSUME TypeInv, NEW h \in Handlers,
         \/ Bundle(h) \/ Incomplete(h) \/ Stamp(h) \/ CompleteRegistration(h)
         \/ WriteReview(h) \/ Reviewed(h) \/ ReadDocument(h) \/ \E a \in BOOLEAN : ReadForm(h, a)
  PROVE  flags' = flags /\ crashes' = crashes /\ Asked' = Asked
  <1> USE DEF form, spent
  <1>1. flags' = flags /\ crashes' = crashes
    BY DEF Bundle, Incomplete, Stamp, CompleteRegistration, WriteReview, Reviewed, ReadDocument, ReadForm
  <1>2. CASE Incomplete(h) \/ Reviewed(h)
    BY <1>1, <1>2, OtherTasks DEF Incomplete, Reviewed
  <1>3. CASE CompleteRegistration(h)
    <2> DEFINE T == {<<"documents_missing">>, <<"confirm_enrolment">>}
    <2>1. tasks \subseteq tasks' \cup T /\ tasks' \subseteq tasks \cup T
      BY <1>3 DEF CompleteRegistration
    <2>2. Asked' = Asked
      BY <2>1, OtherTasks
    <2> QED
      BY <1>1, <2>2
  <1>4. tasks' = tasks => Asked' = Asked
    BY DEF Asked
  <1> QED
    BY <1>1, <1>2, <1>3, <1>4 DEF Bundle, Stamp, WriteReview, ReadDocument, ReadForm

LEMMA StartApart ==
  ASSUME TypeInv, NEW h \in Handlers, Start(h)
  PROVE  flags' = flags /\ crashes' = crashes /\ Asked' = Asked
  <1>1. flags' = flags /\ crashes' = crashes /\ tasks' = tasks
    BY DEF Start, Save, Submit, Upload, ReviewDocument, ExtractDocument, ConfirmEnrolment,
       AutoEnrol, form, spent, Click
  <1> QED
    BY <1>1 DEF Asked

\* No invocation moves, and neither does a flag or its task.
LEMMA NobodyMoves ==
  ASSUME TypeInv, FlagInv, UNCHANGED self, flags' = flags, crashes' = crashes, docs' = docs,
         Asked' = Asked
  PROVE  FlagInv'
  BY DEF FlagInv, FlagsSeen, Answering, Filing, CodeOf, Differs, self

LEMMA WorldFlags ==
  ASSUME TypeInv, FlagInv,
         MovedBack \/ PaidAgain \/ (\E i \in DOMAIN docs : ReadAgain(i)) \/ UNCHANGED vars
  PROVE  FlagInv'
  <1>1. flags' = flags /\ crashes' = crashes /\ docs' = docs /\ UNCHANGED self
    BY DEF MovedBack, PaidAgain, ReadAgain, vars, form, self, spent, Click
  <1>2. Asked' = Asked
    <2>1. CASE MovedBack
      <3> DEFINE T == {<<"confirm_enrolment">>, <<"documents_missing">>}
      <3>1. tasks \subseteq tasks' \cup T /\ tasks' \subseteq tasks \cup T
        BY <2>1 DEF MovedBack
      <3> QED
        BY <3>1, OtherTasks
    <2>2. tasks' = tasks => Asked' = Asked
      BY DEF Asked
    <2> QED
      BY <2>1, <2>2 DEF PaidAgain, ReadAgain, vars
  <1> QED
    BY <1>1, <1>2, NobodyMoves

\* A parent's save remembers whether there were flags to answer.
LEMMA StartFlags ==
  ASSUME TypeInv, FlagInv, NEW h \in Handlers, Start(h), CodesStay, Beside(h)
  PROVE  FlagInv'
  <1>0. flags' = flags /\ crashes' = crashes /\ Asked' = Asked
    BY StartApart
  <1>1. docs' = docs
    BY DEF Start, Save, Submit, Upload, ReviewDocument, ExtractDocument, ConfirmEnrolment, AutoEnrol
  <1>2. CASE UNCHANGED self
    BY <1>0, <1>1, <1>2, NobodyMoves
  <1>3. ASSUME NEW what \in Call, NEW l \in PC \ {"idle"}, NEW m, Begin(h, what, l, m),
               FlagsSeen(h)'
        PROVE  FlagInv'
    <2>1. pc[h] = "idle"
      BY <1>3 DEF Begin, At
    <2> QED
      BY <1>0, <1>3, <2>1, FlagRest DEF Answering
  <1>4. ASSUME NEW who \in Person, Save(h, who) PROVE FlagInv'
    <2> DEFINE b == who = "parent" /\ flags # {}
               m == [Nothing EXCEPT !.by = who, !.ok = b]
    <2>1. m.by = who /\ m.ok = b
      BY NothingInMemory DEF Memory
    <2>2. Begin(h, "save", "saveForm", m)
      BY <1>4 DEF Save
    <2>3. pc'[h] = "saveForm" /\ mem'[h] = m
      BY <2>2 DEF Begin, TypeInv, SelfOK
    <2> HIDE DEF m
    <2>4. FlagsSeen(h)'
      BY <1>0, <2>1, <2>3 DEF FlagsSeen
    <2> QED
      BY <1>3, <2>2, <2>4 DEF Call, PC
  <1>5. ASSUME ~ \E who \in Person : Save(h, who), ~ UNCHANGED self PROVE FlagInv'
    <2>1. PICK what \in Call, l \in PC \ {"idle"} : l \notin Saving \cup {"flag", "readDone"} /\ \E m : Begin(h, what, l, m)
      BY <1>5 DEF Start, Submit, Upload, ReviewDocument, ExtractDocument, ConfirmEnrolment,
         AutoEnrol, Saving, PC, Call
    <2>2. pc'[h] = l
      BY <2>1 DEF Begin, TypeInv, SelfOK
    <2>3. FlagsSeen(h)'
      BY <2>1, <2>2 DEF FlagsSeen, Saving
    <2> QED
      BY <1>3, <2>1, <2>3
  <1> QED
    BY <1>2, <1>4, <1>5

\* The statements that touch neither.
LEMMA RestFlags ==
  ASSUME TypeInv, FlagInv, NEW h \in Handlers, CodesStay, Beside(h),
         \/ Uploads(h) \/ Enrols(h)
         \/ Bundle(h) \/ Incomplete(h) \/ Stamp(h) \/ CompleteRegistration(h)
         \/ WriteReview(h) \/ Reviewed(h) \/ ReadDocument(h) \/ \E a \in BOOLEAN : ReadForm(h, a)
  PROVE  FlagInv'
  <1>1. flags' = flags /\ crashes' = crashes /\ Asked' = Asked
    BY UploadsApart, EnrolsApart, SubmitsApart
  <1>2. pc[h] \notin Saving \cup {"readDone", "flag"}
    <2>1. Uploads(h) => pc[h] \in Supplying
      BY DEF Uploads, Previous, StepAside, Insert, InsertRefused, Restore, Link, Look,
         Uploaded, At, Supplying
    <2>2. Enrols(h) => pc[h] \in {"papers", "record", "find", "promote", "enrolment", "enrolled"}
      BY DEF Enrols, Papers, Record, Find, Promote, Enrolment, EnrolmentConfirmed, At
    <2> QED
      BY <2>1, <2>2 DEF Bundle, Incomplete, Stamp, CompleteRegistration, WriteReview, Reviewed,
         ReadDocument, ReadForm, At, Supplying, Saving
  <1>3. ASSUME NEW a \in BOOLEAN, ReadForm(h, a) PROVE FlagsSeen(h)'
    <2>1. pc'[h] = "flag"
      BY <1>3 DEF ReadForm, Goto, TypeInv, SelfOK
    <2>2. mem'[h] = [mem[h] EXCEPT !.ok = a, !.flags = flags]
      BY <1>3 DEF ReadForm, TypeInv, SelfOK
    <2>3. mem[h] \in Memory
      BY DEF TypeInv, SelfOK
    <2>4. mem'[h].flags = flags
      BY <2>2, <2>3 DEF Memory
    <2> QED
      BY <1>1, <2>1, <2>4 DEF FlagsSeen, Saving
  <1>4. ASSUME ~ \E a \in BOOLEAN : ReadForm(h, a) PROVE FlagsSeen(h)'
    <2>1. Leave(h) \/ \E l : l \notin Saving \cup {"flag", "readDone"} /\ Goto(h, l)
      <3>1. Uploads(h) => Leave(h) \/ \E l \in Supplying : Goto(h, l)
        BY DEF Uploads, Previous, StepAside, Insert, InsertRefused, Restore, Link, Look,
           Uploaded, Supplying
      <3>2. Enrols(h) => Leave(h) \/ \E l \in {"record", "find", "promote", "enrolment", "enrolled"} : Goto(h, l)
        BY DEF Enrols, Papers, Record, Find, Promote, Enrolment, EnrolmentConfirmed
      <3>3. Uploads(h) \/ Enrols(h) \/ Leave(h)
              \/ \E l \in {"stamp", "incomplete", "complete", "reviewed", "readForm"} : Goto(h, l)
        BY <1>4 DEF Bundle, Incomplete, Stamp, CompleteRegistration, WriteReview, Reviewed,
           ReadDocument
      <3> QED
        BY <3>1, <3>2, <3>3 DEF Supplying, Saving
    <2>2. pc'[h] \notin Saving \cup {"flag", "readDone"}
      BY <2>1 DEF Leave, Goto, TypeInv, SelfOK, Saving
    <2> QED
      BY <2>2 DEF FlagsSeen, Saving
  <1> QED
    BY <1>1, <1>2, <1>3, <1>4, FlagRest DEF Answering, Saving

\* What is still so of the others, when an invocation changes the flags or the tasks.
LEMMA OthersSee ==
  ASSUME FlagInv, crashes = 0, NEW h \in Handlers, Beside(h), flags' \in {{}, flags}
  PROVE  \A g \in Handlers \ {h} : pc[g] \notin {"flag", "readDone"} => FlagsSeen(g)'
  <1> SUFFICES ASSUME NEW g \in Handlers \ {h}, pc[g] \notin {"flag", "readDone"} PROVE FlagsSeen(g)'
    OBVIOUS
  <1>1. pc'[g] = pc[g] /\ mem'[g] = mem[g] /\ FlagsSeen(g)
    BY DEF Beside, FlagInv
  <1> QED
    BY <1>1 DEF FlagsSeen

LEMMA SavesFlags ==
  ASSUME TypeInv, Flow, {"read"} \cap Calls \subseteq Alone, FlagInv,
         NEW h \in Handlers, Beside(h), CodesStay, SaveForm(h) \/ Saved(h)
  PROVE  FlagInv'
  <1> SUFFICES ASSUME crashes = 0 PROVE FlagInv'
    BY DEF FlagInv, SaveForm, Saved, spent
  <1>0. pc[h] \in Saving /\ FlagsSeen(h) /\ mem[h] \in Memory
    BY DEF SaveForm, Saved, At, Saving, FlagInv, TypeInv, SelfOK
  <1>1. \A g \in Handlers : pc[g] \notin Reading
    BY <1>0 DEF Flow, Saving, Reading
  <1>2. flags' \in {{}, flags}
    BY DEF SaveForm, Saved, form
  <1>3. \A g \in Handlers \ {h} : FlagsSeen(g)'
    BY <1>1, <1>2, OthersSee DEF Reading
  <1>4. \A g \in Handlers \ {h} : Answering(g)' <=> Answering(g)
    BY DEF Beside, Answering
  <1>5. Asked = flags \/ \E g \in Handlers : Answering(g)
    BY <1>1 DEF FlagInv, Filing, Reading
  <1>6. CASE SaveForm(h)
    <2>1. pc[h] = "saveForm" /\ pc'[h] = "saved" /\ mem'[h] = mem[h] /\ Asked' = Asked
      BY <1>6 DEF SaveForm, At, Goto, Keep, TypeInv, SelfOK, Asked
    <2>2. flags' = IF mem[h].by = "parent" THEN {} ELSE flags
      BY <1>6 DEF SaveForm
    <2>3. mem[h].ok => Answering(h)' /\ flags' = {} /\ mem[h].by = "parent"
      BY <1>0, <2>1, <2>2 DEF FlagsSeen, Answering
    <2>4. ~mem[h].ok => flags' = flags
      BY <1>0, <2>1, <2>2 DEF FlagsSeen
    <2>5. FlagsSeen(h)'
      BY <1>0, <2>1, <2>3 DEF FlagsSeen, Saving
    <2>6. ~Answering(h)
      BY <2>1 DEF Answering
    <2>7. (Asked = flags)' \/ \E g \in Handlers : Answering(g)'
      BY <1>4, <1>5, <2>1, <2>3, <2>4, <2>6
    <2> QED
      BY <1>3, <2>5, <2>7 DEF FlagInv
  <1>7. CASE Saved(h)
    <2>1. pc[h] = "saved" /\ pc'[h] = "idle" /\ flags' = flags
      BY <1>7 DEF Saved, At, Leave, TypeInv, SelfOK, form
    <2>2. FlagsSeen(h)'
      BY <2>1 DEF FlagsSeen, Saving
    <2>3. CASE mem[h].ok
      <3>1. Asked' = {}
        BY <1>7, <2>3 DEF Saved, Asked
      <3>2. flags' = {}
        BY <1>0, <2>1, <2>3 DEF FlagsSeen
      <3> QED
        BY <1>3, <2>2, <3>1, <3>2 DEF FlagInv
    <2>4. CASE ~mem[h].ok
      <3>1. Asked' = Asked /\ ~Answering(h)
        BY <1>7, <2>4 DEF Saved, Asked, Answering
      <3> QED
        BY <1>3, <1>4, <1>5, <2>1, <2>2, <3>1 DEF FlagInv
    <2> QED
      BY <2>3, <2>4
  <1> QED
    BY <1>6, <1>7

\* The reading: nobody has changed the flags since it read them, and nobody sees
\* them until their task is there.
LEMMA ReadsFlags ==
  ASSUME TypeInv, Flow, {"read"} \cap Calls \subseteq Alone, FlagInv,
         NEW h \in Handlers, Beside(h), CodesStay, Flag(h) \/ DocumentExtracted(h)
  PROVE  FlagInv'
  <1> SUFFICES ASSUME crashes = 0 PROVE FlagInv'
    BY DEF FlagInv, Flag, DocumentExtracted, spent
  <1>0. pc[h] \in {"flag", "readDone"} /\ FlagsSeen(h)
    BY DEF Flag, DocumentExtracted, At, FlagInv
  <1>1. \A g \in Handlers \ {h} : pc[g] = "idle"
    BY <1>0 DEF Flow, Reading
  <1>2. \A g \in Handlers \ {h} : FlagsSeen(g)'
    BY <1>1 DEF Beside, FlagsSeen, Saving
  <1>3. Asked = flags \/ Filing(h)
    BY <1>0, <1>1 DEF FlagInv, Answering, Filing
  <1>4. CodeOf(h) \in Codes /\ Differs(h) \subseteq {CodeOf(h)} /\ Differs(h) \subseteq Codes
        /\ mem[h].doc \in DOMAIN docs
    BY <1>0, CodeIsCode DEF RowAt, Differs
  <1>5. CASE Flag(h)
    <2>1. pc[h] = "flag" /\ pc'[h] = "readDone" /\ mem'[h] = mem[h] /\ Asked' = Asked
      BY <1>5 DEF Flag, At, Goto, Keep, TypeInv, SelfOK, Asked
    <2>2. flags' = (flags \ {CodeOf(h)}) \cup Differs(h)
      BY <1>0, <1>5, <2>1 DEF Flag, FlagsSeen
    <2>3. CodeOf(h)' = CodeOf(h) /\ Differs(h)' = Differs(h)
      BY <1>4, <2>1 DEF CodesStay, CodeOf, Differs
    <2>4. Asked = flags
      BY <1>3, <2>1 DEF Filing
    <2>5. Filing(h)'
      BY <1>4, <2>1, <2>2, <2>3, <2>4 DEF Filing
    <2>6. FlagsSeen(h)'
      BY <1>4, <2>1, <2>2, <2>3 DEF FlagsSeen, Saving
    <2> QED
      BY <1>2, <2>5, <2>6 DEF FlagInv
  <1>6. CASE DocumentExtracted(h)
    <2>1. pc[h] = "readDone" /\ pc'[h] = "idle" /\ flags' = flags
      BY <1>6 DEF DocumentExtracted, At, Leave, TypeInv, SelfOK, form
    <2>2. tasks' = (tasks \ {MismatchTask(CodeOf(h))}) \cup {MismatchTask(c) : c \in Differs(h)}
      BY <1>6 DEF DocumentExtracted
    <2>3. Asked' = (Asked \ {CodeOf(h)}) \cup Differs(h)
      BY <1>4, <2>2, TasksApart DEF Asked
    <2>4. FlagsSeen(h)'
      BY <2>1 DEF FlagsSeen, Saving
    <2>5. (Asked = flags)'
      BY <1>0, <1>3, <1>4, <2>1, <2>3 DEF Filing, FlagsSeen
    <2> QED
      BY <1>2, <2>4, <2>5 DEF FlagInv
  <1> QED
    BY <1>5, <1>6

LEMMA NextFlags ==
  ASSUME TypeInv, Flow, {"read"} \cap Calls \subseteq Alone, FlagInv, [Next]_vars
  PROVE  FlagInv'
  <1>1. CodesStay
    BY StepCodes
  <1>2. ASSUME NEW h \in Handlers,
               Start(h) \/ Uploads(h) \/ Reads(h) \/ Submits(h) \/ Enrols(h) \/ Crash(h)
        PROVE  FlagInv'
    <2>1. Beside(h)
      BY <1>2, StepBeside DEF TypeInv
    <2>2. CASE Crash(h)
      <3>1. crashes \in Nat /\ crashes' = crashes + 1
        BY <2>2 DEF TypeInv, SpentOK, Crash
      <3>2. crashes' # 0
        BY <3>1
      <3> QED
        BY <3>2 DEF FlagInv
    <2>3. CASE Start(h)
      BY <1>1, <2>1, <2>3, StartFlags
    <2>4. CASE SaveForm(h) \/ Saved(h)
      BY <1>1, <2>1, <2>4, SavesFlags
    <2>5. CASE Flag(h) \/ DocumentExtracted(h)
      BY <1>1, <2>1, <2>5, ReadsFlags
    <2> QED
      BY <1>1, <1>2, <2>1, <2>2, <2>3, <2>4, <2>5, RestFlags DEF Reads, Submits
  <1> QED
    BY <1>2, WorldFlags DEF Next

\* Where a reading has nobody beside it, whatever else meets: once every
\* invocation has ended, and none was killed, the form differs from a document
\* exactly where a person has the task to look (onDocumentExtracted,
\* onRegistrationSaved).
THEOREM FlagIsAsked ==
  ASSUME {"read"} \cap Calls \subseteq Alone
  PROVE  Spec => []FlagsHaveTask
  <1>1. Init => FlagInv
    BY DEF Init, FlagInv, FlagsSeen, Asked, Saving
  <1>2. TypeInv /\ Flow /\ FlagInv /\ [Next]_vars => FlagInv'
    BY NextFlags
  <1>3. TypeInv /\ FlagInv => FlagsHaveTask
    <2> SUFFICES ASSUME TypeInv, FlagInv, Quiet PROVE FlagsHaveTask
      BY DEF FlagsHaveTask
    <2>1. Asked = flags
      BY DEF Quiet, At, FlagInv, Answering, Filing
    <2> QED
      BY <2>1 DEF FlagsHaveTask, Asked
  <1> QED
    BY <1>1, <1>2, <1>3, InitType, NextType, InitFlow, NextFlow, PTL DEF Spec
-----------------------------------------------------------------------------
(* What a family has handed in.  An upload that set a document aside puts it  *)
(* back or a new one in its place, and the late write of its id               *)
(* (superseded_by) finds the old row still aside: with two uploads, the other *)
(* may put the same row back only while the new one is not live.              *)

AtUpload == {g \in Handlers : call[g] = "upload"}
FewUploads == IsFiniteSet(AtUpload) /\ Cardinality(AtUpload) <= MaxUploads

Holding == {"stepAside", "insert", "restore", "link"}

\* What an upload knows of the rows it will write by id.
WayOK(h) ==
  /\ pc[h] = "previous" => mem[h].prev = 0
  /\ pc[h] \in {"stepAside", "restore", "link"} => mem[h].prev # 0
  /\ pc[h] \in Holding /\ mem[h].prev # 0 =>
       mem[h].prev \in DOMAIN docs /\ docs[mem[h].prev].code = mem[h].code
  /\ pc[h] = "link" =>
       /\ mem[h].doc # mem[h].prev /\ docs[mem[h].prev].aside
       /\ docs[mem[h].doc].code = mem[h].code

\* A row another upload may still put back has its successor live.
Behind(h, g) ==
  pc[h] = "link" /\ pc[g] \in Holding /\ mem[g].prev = mem[h].prev =>
    ~docs[mem[h].doc].aside

Bringing(h, c) == pc[h] \in {"insert", "restore"} /\ mem[h].prev # 0 /\ mem[h].code = c
Stands(c) ==
  (\E i \in DOMAIN docs : docs[i].code = c) =>
    Live(c) # {} \/ \E h \in Handlers : Bringing(h, c)

StandInv ==
  /\ \A c \in Codes : \A i, j \in Live(c) : i = j
  /\ \A h \in Handlers : WayOK(h)
  /\ \A h \in Handlers : \A g \in Handlers \ {h} : Behind(h, g)
  /\ crashes = 0 => \A c \in Codes : Stands(c)

LEMMA TwoOfThree ==
  ASSUME NEW U, IsFiniteSet(U), Cardinality(U) <= 2, NEW x \in U, NEW y \in U, NEW z \in U
  PROVE  x = y \/ y = z \/ x = z
  <1> SUFFICES ASSUME x # y, y # z, x # z PROVE FALSE
    OBVIOUS
  <1>1. IsFiniteSet({}) /\ Cardinality({}) = 0
    BY FS_EmptySet
  <1>2. IsFiniteSet({x}) /\ Cardinality({x}) = 1
    BY FS_Singleton
  <1>3. IsFiniteSet({x, y}) /\ Cardinality({x, y}) = 2
    <2>1. {x, y} = {x} \cup {y} /\ y \notin {x}
      OBVIOUS
    <2>2. IsFiniteSet({x} \cup {y}) /\ Cardinality({x} \cup {y}) = Cardinality({x}) + 1
      BY <1>2, <2>1, FS_AddElement
    <2> QED
      BY <1>2, <2>1, <2>2
  <1>4. IsFiniteSet({x, y, z}) /\ Cardinality({x, y, z}) = 3
    <2>1. {x, y, z} = {x, y} \cup {z} /\ z \notin {x, y}
      OBVIOUS
    <2> QED
      BY <1>3, <2>1, FS_AddElement
  <1>5. {x, y, z} \subseteq U
    OBVIOUS
  <1>6. Cardinality({x, y, z}) <= Cardinality(U)
    BY <1>5, FS_Subset
  <1>7. Cardinality(U) \in Nat
    BY FS_CardinalityType
  <1> QED
    BY <1>4, <1>6, <1>7

LEMMA NextFew ==
  ASSUME TypeInv, Flow, FewUploads, MaxUploads \in Nat, [Next]_vars
  PROVE  FewUploads'
  <1> USE DEF FewUploads
  <1>1. CASE call' = call
    BY <1>1 DEF AtUpload
  <1>2. ASSUME NEW h \in Handlers, NEW k, call' = [call EXCEPT ![h] = k], k # "upload"
        PROVE  FewUploads'
    <2>1. AtUpload' = AtUpload \ {h}
      BY <1>2 DEF AtUpload, TypeInv, SelfOK
    <2>2. AtUpload' \subseteq AtUpload
      BY <2>1
    <2>3. IsFiniteSet(AtUpload') /\ Cardinality(AtUpload') <= Cardinality(AtUpload)
      BY <2>2, FS_Subset
    <2>4. Cardinality(AtUpload) \in Nat /\ Cardinality(AtUpload') \in Nat
      BY <2>3, FS_CardinalityType
    <2>5. Cardinality(AtUpload) <= MaxUploads
      OBVIOUS
    <2>6. Cardinality(AtUpload') <= MaxUploads
      BY <2>3, <2>4, <2>5
    <2> QED
      BY <2>3, <2>6
  <1>3. ASSUME NEW h \in Handlers, NEW who \in Person, NEW c \in Codes, Upload(h, who, c)
        PROVE  FewUploads'
    <2>1. call' = [call EXCEPT ![h] = "upload"] /\ Cardinality(AtUpload) < MaxUploads
      BY <1>3 DEF Upload, Begin, AtUpload
    <2>2. AtUpload' = AtUpload \cup {h} /\ h \notin AtUpload
      BY <1>3, <2>1 DEF AtUpload, TypeInv, SelfOK, Flow, Upload, Begin, At
    <2>3. IsFiniteSet(AtUpload') /\ Cardinality(AtUpload') = Cardinality(AtUpload) + 1
      BY <2>2, FS_AddElement
    <2> HIDE DEF AtUpload
    <2> QED
      BY <2>1, <2>3, FS_CardinalityType
  <1>4. ASSUME NEW h \in Handlers, Uploads(h) \/ Reads(h) \/ Submits(h) \/ Enrols(h) \/ Crash(h)
        PROVE  call' = call \/ call' = [call EXCEPT ![h] = "none"]
    BY <1>4, StatementGoes DEF Onward, Goto, Leave, Crash
  <1>5. ASSUME NEW h \in Handlers, Start(h), ~ \E who \in Person, c \in Codes : Upload(h, who, c)
        PROVE  call' = call \/ \E k : k # "upload" /\ call' = [call EXCEPT ![h] = k]
    BY <1>5 DEF Start, Save, Submit, ReviewDocument, ExtractDocument, ConfirmEnrolment,
       AutoEnrol, Begin, self
  <1>6. MovedBack \/ PaidAgain \/ (\E i \in DOMAIN docs : ReadAgain(i)) \/ UNCHANGED vars => call' = call
    BY DEF MovedBack, PaidAgain, ReadAgain, vars, self
  <1> QED
    BY <1>1, <1>2, <1>3, <1>4, <1>5, <1>6 DEF Next

\* Which documents are live, before and after a write of one row.
AsidesStay ==
  /\ DOMAIN docs' = DOMAIN docs
  /\ \A i \in DOMAIN docs : docs'[i].code = docs[i].code /\ docs'[i].aside = docs[i].aside

LEMMA SetAside ==
  ASSUME TypeInv, NEW p \in DOMAIN docs, NEW b \in BOOLEAN, docs' = [docs EXCEPT ![p].aside = b]
  PROVE  /\ DOMAIN docs' = DOMAIN docs
         /\ \A i \in DOMAIN docs :
              docs'[i].code = docs[i].code /\ docs'[i].aside = IF i = p THEN b ELSE docs[i].aside
  <1>1. docs \in Seq(Doc) /\ \A i \in DOMAIN docs : docs[i] \in Doc
    BY DEF TypeInv, DbOK
  <1>2. \A d \in Doc : [d EXCEPT !.aside = b].code = d.code /\ [d EXCEPT !.aside = b].aside = b
    BY DEF Doc
  <1> QED
    BY <1>1, <1>2

LEMMA NewRow ==
  ASSUME TypeInv, NEW d, docs' = Append(docs, d)
  PROVE  LET n == Len(docs) + 1
         IN  /\ DOMAIN docs' = DOMAIN docs \cup {n} /\ n \notin DOMAIN docs
             /\ docs'[n] = d /\ \A i \in DOMAIN docs : docs'[i] = docs[i]
  BY DEF TypeInv, DbOK

\* What an invocation that moves does not disturb for the others.
LEMMA OthersOnTheirWay ==
  ASSUME TypeInv, StandInv, NEW h \in Handlers, Beside(h), CodesStay,
         NEW g \in Handlers \ {h},
         pc[g] = "link" => docs'[mem[g].prev].aside
  PROVE  WayOK(g)'
  <1>1. pc'[g] = pc[g] /\ mem'[g] = mem[g] /\ WayOK(g)
    BY DEF Beside, StandInv
  <1>2. pc[g] = "link" => mem[g].doc \in DOMAIN docs
    BY DEF TypeInv, Known, RowAt
  <1> QED
    BY <1>1, <1>2 DEF WayOK, CodesStay, Holding

\* A step that changes no live document, of an invocation that brings none.
LEMMA StandRest ==
  ASSUME TypeInv, StandInv, NEW h \in Handlers, Beside(h), CodesStay, AsidesStay,
         crashes' = 0 => crashes = 0 /\ \A c \in Codes : ~Bringing(h, c),
         pc'[h] \notin Holding, pc'[h] = "previous" => mem'[h].prev = 0
  PROVE  StandInv'
  <1>1. \A c \in Codes : Live(c)' = Live(c)
    BY DEF AsidesStay, Live
  <1>2. \A c \in Codes : \A i, j \in Live(c)' : i = j
    BY <1>1 DEF StandInv
  <1>3. WayOK(h)'
    BY DEF WayOK, Holding
  <1>4. ASSUME NEW g \in Handlers \ {h} PROVE WayOK(g)'
    <2>1. WayOK(g)
      BY DEF StandInv
    <2>2. pc[g] = "link" => docs'[mem[g].prev].aside
      BY <2>1 DEF WayOK, AsidesStay, Holding
    <2> QED
      BY <2>2, OthersOnTheirWay
  <1>5. ASSUME NEW x \in Handlers, NEW g \in Handlers \ {x} PROVE Behind(x, g)'
    <2>1. CASE x = h \/ g = h
      BY <2>1 DEF Behind, Holding
    <2>2. CASE x # h /\ g # h
      <3>1. pc'[x] = pc[x] /\ mem'[x] = mem[x] /\ pc'[g] = pc[g] /\ mem'[g] = mem[g]
        BY <2>2 DEF Beside
      <3>2. Behind(x, g)
        BY DEF StandInv
      <3>3. pc[x] = "link" => mem[x].doc \in DOMAIN docs
        BY DEF TypeInv, Known, RowAt
      <3> QED
        BY <3>1, <3>2, <3>3 DEF Behind, AsidesStay
    <2> QED
      BY <2>1, <2>2
  <1>6. ASSUME crashes' = 0, NEW c \in Codes PROVE Stands(c)'
    <2>1. Stands(c) /\ ~Bringing(h, c)
      BY <1>6 DEF StandInv
    <2>2. \A g \in Handlers \ {h} : Bringing(g, c)' = Bringing(g, c)
      BY DEF Beside, Bringing
    <2> QED
      BY <1>1, <2>1, <2>2 DEF Stands, AsidesStay
  <1> QED
    BY <1>2, <1>3, <1>4, <1>5, <1>6 DEF StandInv

\* Nobody moves.
LEMMA StandStill ==
  ASSUME StandInv, UNCHANGED self, docs' = docs, crashes' = crashes
  PROVE  StandInv'
  BY DEF StandInv, WayOK, Behind, Stands, Bringing, Live, Holding, self

LEMMA PreviousStands ==
  ASSUME TypeInv, StandInv, NEW h \in Handlers, Beside(h), CodesStay, Previous(h)
  PROVE  StandInv'
  <1>1. docs' = docs /\ crashes' = crashes /\ pc[h] = "previous" /\ mem[h].prev = 0
    BY DEF Previous, spent, At, StandInv, WayOK
  <1>2. \A c \in Codes : Live(c)' = Live(c)
    BY <1>1 DEF Live
  <1>3. mem[h] \in Memory /\ docs \in Seq(Doc)
    BY DEF TypeInv, SelfOK, DbOK
  <1>4. \/ pc'[h] = "insert" /\ mem'[h] = mem[h]
        \/ /\ pc'[h] = "stepAside"
           /\ \E i \in Live(mem[h].code) : mem'[h] = [mem[h] EXCEPT !["prev"] = i]
    BY DEF Previous, Goto, Keep, Hold, TypeInv, SelfOK
  <1>5. \/ pc'[h] = "insert" /\ mem'[h].prev = 0 /\ mem'[h].code = mem[h].code
        \/ /\ pc'[h] = "stepAside" /\ mem'[h].prev \in Live(mem[h].code)
           /\ mem'[h].code = mem[h].code
    <2>1. ASSUME NEW i PROVE LET m == [mem[h] EXCEPT !["prev"] = i] IN m.prev = i /\ m.code = mem[h].code
      BY <1>3 DEF Memory
    <2> QED
      BY <1>1, <1>4, <2>1
  <1>6. \A i \in Live(mem[h].code) : i \in DOMAIN docs /\ i # 0 /\ docs[i].code = mem[h].code /\ ~docs[i].aside
    BY <1>3 DEF Live
  <1>7. WayOK(h)'
    BY <1>1, <1>5, <1>6 DEF WayOK, Holding
  <1>8. ASSUME NEW g \in Handlers \ {h} PROVE WayOK(g)'
    BY <1>1, OthersOnTheirWay DEF StandInv, WayOK, Holding
  <1>9. ASSUME NEW x \in Handlers, NEW g \in Handlers \ {x} PROVE Behind(x, g)'
    <2>1. CASE x = h
      BY <1>5, <2>1 DEF Behind
    <2>2. CASE x # h /\ g # h
      <3>1. Behind(x, g)
        BY DEF StandInv
      <3> QED
        BY <1>1, <2>2, <3>1 DEF Behind, Beside
    <2>3. CASE x # h /\ g = h
      <3>1. pc'[x] = pc[x] /\ mem'[x] = mem[x] /\ WayOK(x)
        BY <2>3 DEF Beside, StandInv
      <3>2. pc[x] = "link" => mem[x].prev # mem'[h].prev
        BY <1>5, <1>6, <3>1 DEF WayOK
      <3> QED
        BY <2>3, <3>1, <3>2 DEF Behind
    <2> QED
      BY <2>1, <2>2, <2>3
  <1>10. ASSUME crashes' = 0, NEW c \in Codes PROVE Stands(c)'
    <2>1. Stands(c) /\ ~Bringing(h, c)
      BY <1>1, <1>10 DEF StandInv, Bringing
    <2>2. \A g \in Handlers \ {h} : Bringing(g, c)' = Bringing(g, c)
      BY DEF Beside, Bringing
    <2> QED
      BY <1>1, <1>2, <2>1, <2>2 DEF Stands
  <1>11. \A c \in Codes : \A i, j \in Live(c)' : i = j
    BY <1>2 DEF StandInv
  <1> QED
    BY <1>7, <1>8, <1>9, <1>10, <1>11 DEF StandInv

\* By id, whatever became of the row since; no third upload can be looking on.
LEMMA StepAsideStands ==
  ASSUME TypeInv, Flow, FewUploads, MaxUploads <= 2, StandInv,
         NEW h \in Handlers, Beside(h), CodesStay, StepAside(h)
  PROVE  StandInv'
  <1> DEFINE p == mem[h].prev  k == mem[h].code
  <1>0. pc[h] = "stepAside" /\ pc'[h] = "insert" /\ mem' = mem /\ crashes' = crashes
    BY DEF StepAside, At, Goto, Keep, TypeInv, SelfOK, spent
  <1>1. p \in DOMAIN docs /\ p # 0 /\ docs[p].code = k
    BY <1>0 DEF StandInv, WayOK, Holding
  <1>2. /\ DOMAIN docs' = DOMAIN docs
        /\ \A i \in DOMAIN docs :
             docs'[i].code = docs[i].code /\ docs'[i].aside = IF i = p THEN TRUE ELSE docs[i].aside
    <2>1. docs' = [docs EXCEPT ![p].aside = TRUE]
      BY DEF StepAside
    <2> HIDE DEF p
    <2> QED
      BY <1>1, <2>1, SetAside
  <1> HIDE DEF p, k
  <1>3. \A c \in Codes : Live(c)' = Live(c) \ {p}
    BY <1>2 DEF Live
  <1>4. \A c \in Codes : c # k => Live(c)' = Live(c)
    BY <1>1, <1>3 DEF Live
  <1>5. \A c \in Codes : \A i, j \in Live(c)' : i = j
    BY <1>3 DEF StandInv
  <1>6. WayOK(h)'
    BY <1>0, <1>1, <1>2 DEF WayOK, Holding, p, k
  <1>7. ASSUME NEW g \in Handlers \ {h} PROVE WayOK(g)'
    <2>1. WayOK(g)
      BY DEF StandInv
    <2>2. pc[g] = "link" => docs'[mem[g].prev].aside
      BY <1>2, <2>1 DEF WayOK, Holding
    <2> QED
      BY <2>2, OthersOnTheirWay
  <1>8. ASSUME NEW x \in Handlers, NEW g \in Handlers \ {x} PROVE Behind(x, g)'
    <2>1. CASE x = h
      BY <1>0, <2>1 DEF Behind
    <2>2. CASE x # h
      <3> SUFFICES ASSUME pc[x] = "link", pc'[g] \in Holding, mem[g].prev = mem[x].prev
                   PROVE  ~docs'[mem[x].doc].aside
        BY <1>0, <2>2 DEF Behind, Beside
      <3>1. pc[g] \in Holding
        BY <1>0 DEF Beside, Holding
      <3>2. ~docs[mem[x].doc].aside /\ mem[x].doc # mem[x].prev /\ mem[x].doc \in DOMAIN docs
        BY <3>1 DEF StandInv, Behind, WayOK, TypeInv, Known, RowAt
      <3>3. h \in AtUpload /\ x \in AtUpload /\ g \in AtUpload
        BY <1>0, <3>1 DEF AtUpload, Flow, Supplying, Holding
      <3>4. Cardinality(AtUpload) <= 2
        <4>1. Cardinality(AtUpload) \in Nat /\ Cardinality(AtUpload) <= MaxUploads
          BY FS_CardinalityType DEF FewUploads
        <4>2. MaxUploads \in Nat
          BY RegistrationBounds
        <4> QED
          BY <4>1, <4>2
      <3>5. g = h
        BY <2>2, <3>3, <3>4, TwoOfThree DEF FewUploads
      <3>6. mem[x].doc # p
        BY <3>2, <3>5 DEF p
      <3> QED
        BY <1>2, <3>2, <3>6
    <2> QED
      BY <2>1, <2>2
  <1>9. ASSUME crashes' = 0, NEW c \in Codes PROVE Stands(c)'
    <2>1. CASE c = k
      BY <1>0, <1>1, <2>1 DEF Stands, Bringing, p, k
    <2>2. CASE c # k
      <3>1. Stands(c) /\ ~Bringing(h, c)
        BY <1>0, <1>9 DEF StandInv, Bringing
      <3>2. \A g \in Handlers \ {h} : Bringing(g, c)' = Bringing(g, c)
        BY DEF Beside, Bringing
      <3> QED
        BY <1>2, <1>4, <2>2, <3>1, <3>2 DEF Stands
    <2> QED
      BY <2>1, <2>2
  <1> QED
    BY <1>5, <1>6, <1>7, <1>8, <1>9 DEF StandInv

LEMMA InsertStands ==
  ASSUME TypeInv, StandInv, NEW h \in Handlers, Beside(h), CodesStay, Insert(h)
  PROVE  StandInv'
  <1>a. PICK k \in Codes : k = mem[h].code
    BY MemoryFields DEF TypeInv, SelfOK
  <1> DEFINE n == Len(docs) + 1
             d == [code |-> k, aside |-> FALSE, review |-> "pending"]
  <1>0. /\ pc[h] = "insert" /\ Live(k) = {} /\ crashes' = crashes
        /\ pc'[h] = IF mem[h].prev = 0 THEN "look" ELSE "link"
    BY <1>a DEF Insert, At, Goto, TypeInv, SelfOK, spent
  <1>1. mem'[h].doc = n /\ mem'[h].prev = mem[h].prev /\ mem'[h].code = k
    <2>1. mem' = [mem EXCEPT ![h]["doc"] = n] /\ mem[h] \in Memory
      BY DEF Insert, Hold, TypeInv, SelfOK
    <2>2. mem'[h] = [mem[h] EXCEPT !["doc"] = n]
      BY <1>a, <2>1 DEF TypeInv, SelfOK
    <2> HIDE DEF n
    <2> QED
      BY <1>a, <2>1, <2>2 DEF Memory
  <1>2. /\ DOMAIN docs' = DOMAIN docs \cup {n} /\ n \notin DOMAIN docs
        /\ docs'[n] = d /\ \A i \in DOMAIN docs : docs'[i] = docs[i]
    <2>1. docs' = Append(docs, d)
      BY <1>a DEF Insert
    <2> HIDE DEF d
    <2> QED
      BY <2>1, NewRow
  <1>3. docs'[n].code = k /\ ~docs'[n].aside
    BY <1>a, <1>2
  <1> HIDE DEF n, d
  <1>4. Live(k)' = {n}
    BY <1>a, <1>0, <1>2, <1>3 DEF Live
  <1>5. \A c \in Codes : c # k => Live(c)' = Live(c)
    BY <1>a, <1>2, <1>3 DEF Live
  <1>6. \A c \in Codes : \A i, j \in Live(c)' : i = j
    BY <1>a, <1>4, <1>5 DEF StandInv
  <1>7. WayOK(h)'
    <2>1. mem[h].prev # 0 => /\ mem[h].prev \in DOMAIN docs /\ docs[mem[h].prev].code = k
                             /\ docs[mem[h].prev].aside
      <3>1. mem[h].prev # 0 => mem[h].prev \in DOMAIN docs /\ docs[mem[h].prev].code = k
        BY <1>a, <1>0 DEF StandInv, WayOK, Holding
      <3>2. \A i \in DOMAIN docs : docs[i].code = k => docs[i].aside
        BY <1>a, <1>0 DEF Live
      <3> QED
        BY <1>a, <3>1, <3>2
    <2> QED
      BY <1>a, <1>0, <1>1, <1>2, <1>3, <2>1 DEF WayOK, Holding
  <1>8. ASSUME NEW g \in Handlers \ {h} PROVE WayOK(g)'
    <2>1. WayOK(g)
      BY DEF StandInv
    <2>2. pc[g] = "link" => docs'[mem[g].prev].aside
      BY <1>a, <1>2, <2>1 DEF WayOK, Holding
    <2> QED
      BY <1>a, <2>2, OthersOnTheirWay
  <1>9. ASSUME NEW x \in Handlers, NEW g \in Handlers \ {x} PROVE Behind(x, g)'
    <2>1. CASE x = h
      BY <1>a, <1>1, <1>3, <2>1 DEF Behind
    <2>2. CASE x # h
      <3> SUFFICES ASSUME pc[x] = "link", pc'[g] \in Holding, mem[g].prev = mem[x].prev
                   PROVE  ~docs'[mem[x].doc].aside
        BY <1>a, <1>1, <2>2 DEF Behind, Beside
      <3>1. pc[g] \in Holding
        BY <1>a, <1>0 DEF Beside, Holding
      <3>2. ~docs[mem[x].doc].aside /\ mem[x].doc \in DOMAIN docs
        BY <1>a, <3>1 DEF StandInv, Behind, TypeInv, Known, RowAt
      <3> QED
        BY <1>a, <1>2, <3>2
    <2> QED
      BY <1>a, <2>1, <2>2
  <1>10. ASSUME crashes' = 0, NEW c \in Codes PROVE Stands(c)'
    <2>1. CASE c = k
      BY <1>a, <1>4, <2>1 DEF Stands
    <2>2. CASE c # k
      <3>1. Stands(c) /\ ~Bringing(h, c)
        BY <1>a, <1>0, <1>10, <2>2 DEF StandInv, Bringing
      <3>2. \A g \in Handlers \ {h} : Bringing(g, c)' = Bringing(g, c)
        BY DEF Beside, Bringing
      <3> QED
        BY <1>a, <1>2, <1>3, <1>5, <2>2, <3>1, <3>2 DEF Stands
    <2> QED
      BY <1>a, <2>1, <2>2
  <1> QED
    BY <1>a, <1>6, <1>7, <1>8, <1>9, <1>10 DEF StandInv

\* Only where nothing is live; and then no late write of superseded_by is ahead.
LEMMA RestoreStands ==
  ASSUME TypeInv, StandInv, NEW h \in Handlers, Beside(h), CodesStay, Restore(h)
  PROVE  StandInv'
  <1>a. PICK k \in Codes : k = mem[h].code
    BY MemoryFields DEF TypeInv, SelfOK
  <1> DEFINE p == mem[h].prev
  <1>0. pc[h] = "restore" /\ pc'[h] = "idle" /\ crashes' = crashes
    BY DEF Restore, At, Leave, TypeInv, SelfOK, spent
  <1>1. p \in DOMAIN docs /\ p # 0 /\ docs[p].code = k
    BY <1>a, <1>0 DEF StandInv, WayOK, Holding
  <1>2. WayOK(h)'
    BY <1>a, <1>0 DEF WayOK, Holding
  <1>3. CASE Live(k) # {}
    <2>1. docs' = docs
      BY <1>a, <1>3 DEF Restore
    <2>2. ASSUME crashes' = 0, NEW c \in Codes PROVE Stands(c)'
      <3>1. CASE c = k
        BY <1>a, <1>3, <2>1, <3>1 DEF Stands, Live
      <3>2. CASE c # k
        <4>1. Stands(c) /\ ~Bringing(h, c)
          BY <1>a, <1>0, <2>2, <3>2 DEF StandInv, Bringing
        <4>2. \A g \in Handlers \ {h} : Bringing(g, c)' = Bringing(g, c)
          BY DEF Beside, Bringing
        <4> QED
          BY <1>a, <2>1, <4>1, <4>2 DEF Stands, Live
      <3> QED
        BY <1>a, <3>1, <3>2
    <2>3. ASSUME NEW g \in Handlers \ {h} PROVE WayOK(g)'
      BY <1>a, <2>1, OthersOnTheirWay DEF StandInv, WayOK, Holding
    <2>4. ASSUME NEW x \in Handlers, NEW g \in Handlers \ {x} PROVE Behind(x, g)'
      <3>1. Behind(x, g)
        BY DEF StandInv
      <3> QED
        BY <1>a, <1>0, <2>1, <3>1 DEF Behind, Beside, Holding
    <2>5. \A c \in Codes : \A i, j \in Live(c)' : i = j
      BY <1>a, <2>1 DEF StandInv, Live
    <2> QED
      BY <1>a, <1>2, <2>2, <2>3, <2>4, <2>5 DEF StandInv
  <1>4. CASE Live(k) = {}
    <2>1. /\ DOMAIN docs' = DOMAIN docs
          /\ \A i \in DOMAIN docs :
               docs'[i].code = docs[i].code /\ docs'[i].aside = IF i = p THEN FALSE ELSE docs[i].aside
      <3>1. docs' = [docs EXCEPT ![p].aside = FALSE]
        BY <1>a, <1>4 DEF Restore
      <3> HIDE DEF p
      <3> QED
        BY <1>a, <1>1, <3>1, SetAside
    <2> HIDE DEF p
    <2>2. Live(k)' = {p}
      BY <1>a, <1>1, <1>4, <2>1 DEF Live
    <2>3. \A c \in Codes : c # k => Live(c)' = Live(c)
      BY <1>a, <1>1, <2>1 DEF Live
    <2>4. \A c \in Codes : \A i, j \in Live(c)' : i = j
      BY <1>a, <2>2, <2>3 DEF StandInv
    <2>5. ASSUME NEW g \in Handlers \ {h} PROVE WayOK(g)'
      <3>1. WayOK(g)
        BY DEF StandInv
      <3>2. ASSUME pc[g] = "link" PROVE docs'[mem[g].prev].aside
        <4>1. mem[g].prev \in DOMAIN docs /\ docs[mem[g].prev].aside
              /\ docs[mem[g].prev].code = mem[g].code /\ docs[mem[g].doc].code = mem[g].code
          BY <1>a, <3>1, <3>2 DEF WayOK, Holding
        <4>2. mem[g].doc \in DOMAIN docs
          BY <1>a, <3>2 DEF TypeInv, Known, RowAt
        <4>3. CASE mem[g].prev # p
          BY <1>a, <2>1, <4>1, <4>3
        <4>4. CASE mem[g].prev = p
          <5>1. ~docs[mem[g].doc].aside
            BY <1>a, <1>0, <3>2, <4>4 DEF StandInv, Behind, Holding, p
          <5>2. mem[g].doc \in Live(k)
            BY <1>a, <1>1, <4>1, <4>2, <4>4, <5>1 DEF Live
          <5> QED
            BY <1>a, <1>4, <5>2
        <4> QED
          BY <1>a, <4>3, <4>4
      <3> QED
        BY <1>a, <3>2, OthersOnTheirWay
    <2>6. ASSUME NEW x \in Handlers, NEW g \in Handlers \ {x} PROVE Behind(x, g)'
      <3>1. Behind(x, g)
        BY DEF StandInv
      <3>2. pc[x] = "link" => mem[x].doc \in DOMAIN docs
        BY DEF TypeInv, Known, RowAt
      <3> QED
        BY <1>a, <1>0, <2>1, <3>1, <3>2 DEF Behind, Beside, Holding
    <2>7. ASSUME crashes' = 0, NEW c \in Codes PROVE Stands(c)'
      <3>1. CASE c = k
        BY <1>a, <2>2, <3>1 DEF Stands
      <3>2. CASE c # k
        <4>1. Stands(c) /\ ~Bringing(h, c)
          BY <1>a, <1>0, <2>7, <3>2 DEF StandInv, Bringing
        <4>2. \A g \in Handlers \ {h} : Bringing(g, c)' = Bringing(g, c)
          BY DEF Beside, Bringing
        <4> QED
          BY <1>a, <2>1, <2>3, <3>2, <4>1, <4>2 DEF Stands
      <3> QED
        BY <1>a, <3>1, <3>2
    <2> QED
      BY <1>a, <1>2, <2>4, <2>5, <2>6, <2>7 DEF StandInv
  <1> QED
    BY <1>a, <1>3, <1>4

\* The rest change nothing a document stands on: Link writes what is so already.
LEMMA OtherUploadsStand ==
  ASSUME TypeInv, StandInv, NEW h \in Handlers, Beside(h), CodesStay,
         InsertRefused(h) \/ Link(h) \/ Look(h) \/ Uploaded(h)
  PROVE  StandInv'
  <1>0. crashes' = crashes
    BY DEF InsertRefused, Link, Look, Uploaded, spent
  <1>1. CASE Link(h)
    <2>1. pc[h] = "link" /\ pc'[h] = "look"
      BY <1>1 DEF Link, At, Goto, TypeInv, SelfOK
    <2> DEFINE p == mem[h].prev
    <2>2. p \in DOMAIN docs /\ docs[p].aside
      BY <2>1 DEF StandInv, WayOK, Holding
    <2>3. docs' = [docs EXCEPT ![p].aside = TRUE]
      BY <1>1 DEF Link
    <2> HIDE DEF p
    <2>4. AsidesStay
      BY <2>2, <2>3, SetAside DEF AsidesStay
    <2> QED
      BY <1>0, <2>1, <2>4, StandRest DEF Bringing, Holding
  <1>2. CASE Look(h) \/ Uploaded(h)
    <2>1. pc[h] \in {"look", "uploaded"} /\ pc'[h] \in {"uploaded", "idle"} /\ docs' = docs
      BY <1>2 DEF Look, Uploaded, At, Goto, Leave, TypeInv, SelfOK
    <2> QED
      BY <1>0, <2>1, StandRest DEF Bringing, Holding, AsidesStay
  <1>3. CASE InsertRefused(h) /\ mem[h].prev = 0
    <2>1. pc'[h] = "idle" /\ docs' = docs
      BY <1>3 DEF InsertRefused, Leave, TypeInv, SelfOK
    <2> QED
      BY <1>0, <1>3, <2>1, StandRest DEF Bringing, Holding, AsidesStay
  <1>4. CASE InsertRefused(h) /\ mem[h].prev # 0
    <2>1. pc[h] = "insert" /\ pc'[h] = "restore" /\ mem' = mem /\ docs' = docs
      BY <1>4 DEF InsertRefused, At, Goto, Keep, TypeInv, SelfOK
    <2>2. \A g \in Handlers \ {h} : pc'[g] = pc[g]
      BY DEF Beside
    <2>3. \A g \in Handlers : \A c : Bringing(g, c)' = Bringing(g, c)
      BY <2>1, <2>2 DEF Bringing
    <2>4. \A g \in Handlers : WayOK(g)'
      BY <1>4, <2>1, <2>2 DEF StandInv, WayOK, Holding
    <2>5. \A x \in Handlers : \A g \in Handlers \ {x} : Behind(x, g)'
      <3> SUFFICES ASSUME NEW x \in Handlers, NEW g \in Handlers \ {x} PROVE Behind(x, g)'
        OBVIOUS
      <3>1. Behind(x, g)
        BY DEF StandInv
      <3> QED
        BY <2>1, <2>2, <3>1 DEF Behind, Holding
    <2> QED
      BY <1>0, <2>1, <2>3, <2>4, <2>5 DEF StandInv, Stands, Live
  <1> QED
    BY <1>1, <1>2, <1>3, <1>4

LEMMA NextStand ==
  ASSUME TypeInv, Flow, FewUploads, MaxUploads <= 2, StandInv, [Next]_vars
  PROVE  StandInv'
  <1>1. CodesStay
    BY StepCodes
  <1>2. ASSUME NEW h \in Handlers, Beside(h), Start(h) PROVE StandInv'
    <2>1. docs' = docs /\ crashes' = crashes
      BY <1>2, StartApart DEF Start, Save, Submit, Upload, ReviewDocument, ExtractDocument,
         ConfirmEnrolment, AutoEnrol
    <2>2. CASE UNCHANGED self
      BY <2>1, <2>2, StandStill
    <2>3. ASSUME ~UNCHANGED self PROVE StandInv'
      <3>1. pc[h] = "idle" /\ pc'[h] \notin Holding
        BY <1>2, <2>3 DEF Start, Save, Submit, Upload, ReviewDocument, ExtractDocument,
           ConfirmEnrolment, AutoEnrol, Begin, At, TypeInv, SelfOK, Holding
      <3>2. pc'[h] = "previous" => mem'[h].prev = 0
        <4>1. ASSUME NEW who \in Person, NEW c \in Codes, Upload(h, who, c) PROVE mem'[h].prev = 0
          <5> DEFINE m == [Nothing EXCEPT !.code = c]
          <5>1. m.prev = 0
            BY DEF Nothing
          <5>2. mem' = [mem EXCEPT ![h] = m]
            BY <4>1 DEF Upload, Begin
          <5> HIDE DEF m
          <5> QED
            BY <5>1, <5>2 DEF TypeInv, SelfOK
        <4> QED
          BY <1>2, <2>3, <4>1 DEF Start, Save, Submit, ReviewDocument, ExtractDocument,
             ConfirmEnrolment, AutoEnrol, Begin, TypeInv, SelfOK
      <3> QED
        BY <1>1, <1>2, <2>1, <3>1, <3>2, StandRest DEF Bringing, AsidesStay
    <2> QED
      BY <2>2, <2>3
  <1>3. ASSUME NEW h \in Handlers, Beside(h), Reads(h) \/ Submits(h) \/ Enrols(h) PROVE StandInv'
    <2>1. AsidesStay
      <3>1. CASE docs' = docs
        BY <3>1 DEF AsidesStay
      <3>2. ASSUME NEW i, NEW v, docs' = [docs EXCEPT ![i].review = v] PROVE AsidesStay
        <4>1. \A k \in DOMAIN docs : docs[k] \in Doc
          BY DEF TypeInv, DbOK
        <4>2. \A d \in Doc : [d EXCEPT !.review = v].aside = d.aside /\ [d EXCEPT !.review = v].code = d.code
          BY DEF Doc
        <4>3. DOMAIN docs' = DOMAIN docs
          BY <3>2
        <4>4. \A k \in DOMAIN docs : docs'[k] \in {docs[k], [docs[k] EXCEPT !.review = v]}
          BY <3>2
        <4> QED
          BY <4>1, <4>2, <4>3, <4>4 DEF AsidesStay
      <3>3. Reads(h) => docs' = docs \/ \E i, v : docs' = [docs EXCEPT ![i].review = v]
        BY DEF Reads, WriteReview, Reviewed, ReadDocument, ReadForm, Flag, DocumentExtracted
      <3>4. Submits(h) => docs' = docs
        BY DEF Submits, SaveForm, Saved, Bundle, Incomplete, Stamp, CompleteRegistration
      <3>5. Enrols(h) => docs' = docs
        BY DEF Enrols, Papers, Record, Find, Promote, Enrolment, EnrolmentConfirmed
      <3> QED
        BY <1>3, <3>1, <3>2, <3>3, <3>4, <3>5
    <2>2. crashes' = crashes
      BY <1>3, SubmitsApart, EnrolsApart DEF Reads, Submits, Flag, DocumentExtracted, SaveForm,
         Saved, spent
    <2>3. pc[h] \notin {"insert", "restore"} /\ pc'[h] \notin Holding \cup {"previous"}
      <3>1. CASE Reads(h)
        BY <3>1 DEF Reads, WriteReview, Reviewed, ReadDocument, ReadForm, Flag,
           DocumentExtracted, At, Goto, Leave, TypeInv, SelfOK, Holding
      <3>2. CASE Submits(h)
        BY <3>2 DEF Submits, SaveForm, Saved, Bundle, Incomplete, Stamp, CompleteRegistration,
           At, Goto, Leave, TypeInv, SelfOK, Holding
      <3>3. CASE Enrols(h)
        BY <3>3 DEF Enrols, Papers, Record, Find, Promote, Enrolment, EnrolmentConfirmed,
           At, Goto, Leave, TypeInv, SelfOK, Holding
      <3> QED
        BY <1>3, <3>1, <3>2, <3>3
    <2> QED
      BY <1>1, <1>3, <2>1, <2>2, <2>3, StandRest DEF Bringing
  <1>4. ASSUME NEW h \in Handlers, Beside(h), Crash(h) PROVE StandInv'
    <2>1. docs' = docs /\ pc'[h] = "idle" /\ crashes' = crashes + 1 /\ crashes \in Nat
      BY <1>4 DEF Crash, Leave, TypeInv, SelfOK, SpentOK
    <2>2. crashes' # 0
      BY <2>1
    <2> QED
      BY <1>1, <1>4, <2>1, <2>2, StandRest DEF AsidesStay, Holding
  <1>5. ASSUME NEW h \in Handlers, Beside(h), Uploads(h) PROVE StandInv'
    BY <1>1, <1>5, PreviousStands, StepAsideStands, InsertStands, RestoreStands,
       OtherUploadsStand DEF Uploads
  <1>6. ASSUME MovedBack \/ PaidAgain \/ (\E i \in DOMAIN docs : ReadAgain(i)) \/ UNCHANGED vars
        PROVE  StandInv'
    <2>1. UNCHANGED self /\ docs' = docs /\ crashes' = crashes
      BY <1>6 DEF MovedBack, PaidAgain, ReadAgain, vars, self, spent, Click
    <2> QED
      BY <2>1, StandStill
  <1>7. \A h \in Handlers :
          Start(h) \/ Uploads(h) \/ Reads(h) \/ Submits(h) \/ Enrols(h) \/ Crash(h) => Beside(h)
    BY StepBeside DEF TypeInv
  <1> QED
    BY <1>2, <1>3, <1>4, <1>5, <1>6, <1>7 DEF Next

\* Where two uploads may meet but never three: once every upload has ended, and
\* none was killed, each requirement ever supplied has exactly one live document,
\* whichever were refused or put back what they had set aside (recordDocument).
THEOREM DocumentKept ==
  ASSUME MaxUploads <= 2
  PROVE  Spec => []DocumentStands
  <1>0. MaxUploads \in Nat
    BY RegistrationBounds
  <1>1. Init => FewUploads
    <2> SUFFICES ASSUME Init PROVE FewUploads
      OBVIOUS
    <2>1. AtUpload = {}
      BY DEF Init, AtUpload
    <2> QED
      BY <1>0, <2>1, FS_EmptySet DEF FewUploads
  <1>2. Init => StandInv
    BY DEF Init, StandInv, WayOK, Behind, Stands, Live, Holding
  <1>3. TypeInv /\ Flow /\ FewUploads /\ [Next]_vars => FewUploads'
    BY <1>0, NextFew
  <1>4. TypeInv /\ Flow /\ FewUploads /\ StandInv /\ [Next]_vars => StandInv'
    BY NextStand
  <1>5. StandInv => DocumentStands
    <2> SUFFICES ASSUME StandInv, Quiet, NEW c \in Codes, NEW k \in DOMAIN docs, docs[k].code = c
                 PROVE  Cardinality(Live(c)) = 1
      BY DEF DocumentStands
    <2>1. Live(c) # {}
      BY DEF StandInv, Stands, Bringing, Quiet, At
    <2>2. PICK i : Live(c) = {i}
      BY <2>1 DEF StandInv
    <2> QED
      BY <2>2, FS_Singleton
  <1> QED
    BY <1>1, <1>2, <1>3, <1>4, <1>5, InitType, NextType, InitFlow, NextFlow, PTL DEF Spec
===============================================================================
