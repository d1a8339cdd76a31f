--------------------------- MODULE BookingsProofs ---------------------------
(* What Bookings keeps for any number of families, bookings, sessions and    *)
(* invocations.                                                              *)
EXTENDS Bookings, FiniteSetTheorems, TLAPS

\* The type of the database's rows, and of the invocations' copies.
DbOK ==
  /\ app \in [Families -> AppStatus] /\ notes \in [Families -> SUBSET {"skipped", "paused"}]
  /\ status \in [Rows -> Status] /\ family \in [Rows -> Families \cup {"none"}]
  /\ session \in [Rows -> Sessions \cup {"none"}] /\ arrived \in [Rows -> BOOLEAN]
  /\ attempt \in [Rows -> {"none", "ready", "in_progress", "submitted", "abandoned"}]
  /\ launches \in [Rows -> Nat] /\ coded \in [Rows -> BOOLEAN]
  /\ told \in [Rows -> SUBSET Events]
  /\ open \subseteq Sessions

SelfOK ==
  /\ call \in [Handlers -> Calls \cup {"none"}] /\ pc \in [Handlers -> PC]
  /\ who \in [Handlers -> Families \cup {"none"}]
  /\ old \in [Handlers -> Rows \cup {NoRow}] /\ new \in [Handlers -> Rows \cup {NoRow}]
  /\ mem \in [Handlers -> Memory]

\* A booking somebody made, or a sitting, is a family's; so is an invocation
\* at work, and the booking it found.
Owned ==
  \A b \in Rows : status[b] # "none" \/ attempt[b] # "none" => family[b] \in Families
Known ==
  /\ \A h \in Handlers : ~At(h, "idle") => who[h] \in Families
  /\ \A h \in Handlers : old[h] \in Rows => family[old[h]] \in Families
  /\ \A h \in Handlers : At(h, "resume") => mem[h].target \in AppStatus

TypeInv == DbOK /\ Owned /\ SelfOK /\ Known /\ crashes \in Nat

LEMMA TypeParts == TypeOK <=> DbOK /\ SelfOK /\ crashes \in Nat
  BY DEF TypeOK, DbOK, SelfOK

LEMMA StatusNames ==
  AppStatus = { "new_enquiry", "visit_booked", "assessment_booked", "no_show",
                "assessment_in_progress", "assessment_completed", "awaiting_decision",
                "deferred", "decided", "withdrawn" }
  BY DEF AppStatus, Graph

LEMMA MemoryFields ==
  ASSUME NEW m \in Memory
  PROVE  /\ m.app \in AppStatus /\ m.round \in Nat
         /\ m.target \in Sessions \cup {WalkIn, "none", "new_enquiry", "awaiting_decision"}
  BY DEF Memory

LEMMA MemoryOf ==
  ASSUME NEW a \in AppStatus, NEW r \in Nat,
         NEW t \in Sessions \cup {WalkIn, "none", "new_enquiry", "awaiting_decision"}
  PROVE  [app |-> a, target |-> t, round |-> r] \in Memory
  BY DEF Memory

LEMMA BlankInMemory == Blank \in Memory
  BY StatusNames, MemoryOf DEF Blank

\* Where each helper leads from a status is a status.
LEMMA StatusAfter ==
  ASSUME NEW a \in AppStatus, NEW f, NEW k
  PROVE  /\ StatusAfterBooking(a, k) \in AppStatus
         /\ StatusAfterVisitArrival(a, f) \in AppStatus
         /\ StatusAfterCancellation(a) \in AppStatus
         /\ StatusAfterDeferral(f) \in {"new_enquiry", "awaiting_decision"}
  BY StatusNames DEF StatusAfterBooking, StatusAfterVisitArrival, StatusAfterCancellation,
     StatusAfterDeferral

-----------------------------------------------------------------------------
(* The pieces the actions are made of keep the types.                        *)

LEMMA NoRowIsNoRow == NoRow \notin Rows
  BY RowAssumption DEF NoRow

LEMMA DbStays == DbOK /\ Owned /\ UNCHANGED db => DbOK' /\ Owned' /\ family' = family
  BY DEF DbOK, Owned, db, rows, paper

LEMMA RewriteKeeps ==
  ASSUME DbOK, Owned, NEW S, NEW s \in Status, RewriteOnly(S, s),
         \A b \in S \cap Rows : family[b] \in Families
  PROVE  DbOK' /\ Owned' /\ family' = family /\ crashes' = crashes
  BY DEF DbOK, Owned, RewriteOnly, Rewrite, paper

LEMMA CommitKeeps ==
  ASSUME DbOK, Owned, NEW h \in Handlers, NEW to \in AppStatus, NEW b, NEW e,
         e \in Events \/ b \notin Rows, Commit(h, to, b, e)
  PROVE  DbOK' /\ Owned' /\ family' = family /\ crashes' = crashes
  BY DEF DbOK, Owned, Commit, rows, paper

LEMMA AbandonKeeps ==
  ASSUME DbOK, Owned, NEW h \in Handlers, ~At(h, "idle"), Known, NEW S, AbandonOf(h, S)
  PROVE  DbOK' /\ Owned' /\ family' = family /\ crashes' = crashes
  BY DEF DbOK, Owned, Known, AbandonOf

LEMMA DoneKeeps ==
  ASSUME SelfOK, Known, NEW h \in Handlers, Done(h), family' = family
  PROVE  SelfOK' /\ Known'
  BY BlankInMemory, NoRowIsNoRow DEF SelfOK, Known, Done, PC, At

LEMMA GotoKeeps ==
  ASSUME SelfOK, Known, NEW h \in Handlers, ~At(h, "idle"), NEW l \in PC \ {"resume"},
         Goto(h, l), family' = family
  PROVE  SelfOK' /\ Known'
  BY DEF SelfOK, Known, Goto, At

LEMMA FoundKeeps ==
  ASSUME TypeInv, NEW h \in Handlers, ~At(h, "idle"), NEW b \in LiveOf(who[h]),
         NEW l \in PC \ {"resume"}, Found(h, b, l)
  PROVE  TypeInv'
  <1>1. DbOK' /\ Owned' /\ family' = family /\ crashes' = crashes
    BY DbStays DEF TypeInv, Found
  <1>2. b \in Rows /\ family[b] \in Families
    BY DEF TypeInv, Known, LiveOf, Of
  <1> QED
    BY <1>1, <1>2 DEF TypeInv, SelfOK, Known, Found, At

LEMMA BeginKeeps ==
  ASSUME TypeInv, NEW h \in Handlers, NEW kind, NEW f \in Families,
         NEW b \in Rows \cup {NoRow}, b \in Rows => family[b] \in Families, NEW l \in PC,
         NEW t \in Sessions \cup {WalkIn, "none", "new_enquiry", "awaiting_decision"},
         l = "resume" => t \in AppStatus, Begin(h, kind, f, b, t, l)
  PROVE  TypeInv'
  <1> DEFINE r == IF b = NoRow THEN 0 ELSE launches[b]
             m == [app |-> app[f], target |-> t, round |-> r]
  <1>1. r \in Nat /\ app[f] \in AppStatus
    BY DEF TypeInv, DbOK
  <1>2. m \in Memory
    BY <1>1, MemoryOf
  <1>3. m.target = t
    OBVIOUS
  <1>4. DbOK' /\ Owned' /\ family' = family /\ crashes' = crashes
    BY DbStays DEF TypeInv, Begin
  <1>5. mem' = [mem EXCEPT ![h] = m]
    BY DEF Begin
  <1> HIDE DEF m
  <1> QED
    BY <1>2, <1>3, <1>4, <1>5 DEF TypeInv, SelfOK, Known, Begin, At
-----------------------------------------------------------------------------
(* The shapes statements have: nothing or some bookings or a commit, then    *)
(* the next statement or the end.                                            *)

LEMMA DoneQuiet ==
  ASSUME TypeInv, NEW h \in Handlers, Done(h), UNCHANGED db, crashes' = crashes
  PROVE  TypeInv'
  BY DbStays, DoneKeeps DEF TypeInv

LEMMA GotoQuiet ==
  ASSUME TypeInv, NEW h \in Handlers, ~At(h, "idle"), NEW l \in PC \ {"resume"}, Goto(h, l),
         UNCHANGED db, crashes' = crashes
  PROVE  TypeInv'
  BY DbStays, GotoKeeps DEF TypeInv

\* Bookings an invocation may rewrite: the one it found, and its family's.
Theirs(h) == {b \in Rows : b = old[h] \/ status[b] # "none" \/ b \in Of(who[h])}

LEMMA RewriteDone ==
  ASSUME TypeInv, NEW h \in Handlers, ~At(h, "idle"), NEW S, NEW s \in Status,
         S \cap Rows \subseteq Theirs(h), RewriteOnly(S, s), Done(h)
  PROVE  TypeInv'
  <1>1. \A b \in S \cap Rows : family[b] \in Families
    BY DEF TypeInv, Owned, Known, Theirs, Of
  <1> QED
    BY <1>1, RewriteKeeps, DoneKeeps DEF TypeInv

LEMMA RewriteGoto ==
  ASSUME TypeInv, NEW h \in Handlers, ~At(h, "idle"), NEW S, NEW s \in Status,
         S \cap Rows \subseteq Theirs(h), RewriteOnly(S, s),
         NEW l \in PC \ {"resume"}, Goto(h, l)
  PROVE  TypeInv'
  <1>1. \A b \in S \cap Rows : family[b] \in Families
    BY DEF TypeInv, Owned, Known, Theirs, Of
  <1> QED
    BY <1>1, RewriteKeeps, GotoKeeps DEF TypeInv

LEMMA CommitDone ==
  ASSUME TypeInv, NEW h \in Handlers, NEW to \in AppStatus, NEW b, NEW e,
         e \in Events \/ b \notin Rows,
         Commit(h, to, b, e) \/ Refused(h, to), Done(h)
  PROVE  TypeInv'
  <1>1. CASE Commit(h, to, b, e)
    BY <1>1, CommitKeeps, DoneKeeps DEF TypeInv
  <1>2. CASE Refused(h, to)
    BY <1>2, DoneQuiet DEF Refused
  <1> QED
    BY <1>1, <1>2

LEMMA AppAndRow ==
  ASSUME TypeInv, NEW h \in Handlers
  PROVE  mem[h].app \in AppStatus /\ (old[h] \in Rows => family[old[h]] \in Families)
  BY MemoryFields DEF TypeInv, SelfOK, Known

LEMMA SoleIsLive ==
  \A f : Sole(f) \subseteq LiveOf(f) /\ Newest(f) \subseteq LiveOf(f)
  BY DEF Sole, Newest

LEMMA BookSessionKeeps ==
  ASSUME TypeInv, NEW h \in Handlers, ~At(h, "idle"), NEW b \in Rows, BookSession(h, b)
  PROVE  TypeInv'
  <1>1. who[h] \in Families /\ mem[h].target \in Sessions /\ family[b] \in Families \cup {"none"}
    BY DEF TypeInv, DbOK, Known, BookSession, CanBook, Vacant
  <1>2. DbOK' /\ crashes' = crashes
    BY <1>1 DEF TypeInv, DbOK, BookSession, Status, Taken, Live, paper
  <1>3. Owned' /\ \A c \in Rows : family[c] \in Families => family'[c] \in Families
    BY <1>1 DEF TypeInv, Owned, DbOK, BookSession, paper
  <1>4. SelfOK'
    BY DEF TypeInv, SelfOK, BookSession, PC
  <1>5. Known'
    BY <1>3 DEF TypeInv, SelfOK, Known, BookSession, At
  <1> QED
    BY <1>2, <1>3, <1>4, <1>5 DEF TypeInv

-----------------------------------------------------------------------------
(* One lemma for each group of statements.                                   *)

LEMMA ChoosingType ==
  ASSUME TypeInv, NEW h \in Handlers, Choosing(h)
  PROVE  TypeInv'
  <1>1. CASE ReadToBook(h)
    <2>1. ~At(h, "idle") /\ {"book", "complete"} \subseteq PC \ {"resume"}
      BY <1>1 DEF ReadToBook, At, PC
    <2>2. ASSUME NEW b \in LiveOf(who[h]), Found(h, b, "complete") PROVE TypeInv'
      BY <2>1, <2>2, FoundKeeps
    <2> QED
      BY <1>1, <2>1, <2>2, DoneQuiet, GotoQuiet, SoleIsLive DEF ReadToBook
  <1>2. CASE ReadToMove(h)
    <2>1. ~At(h, "idle") /\ "release" \in PC \ {"resume"}
      BY <1>2 DEF ReadToMove, At, PC
    <2>2. ASSUME NEW b \in LiveOf(who[h]), Found(h, b, "release") PROVE TypeInv'
      BY <2>1, <2>2, FoundKeeps
    <2> QED
      BY <1>2, <2>2, DoneQuiet, SoleIsLive DEF ReadToMove
  <1>3. CASE Complete(h)
    BY <1>3, RewriteGoto DEF Complete, At, PC, Status, Taken, Theirs
  <1>4. CASE Book(h)
    BY <1>4, DoneQuiet, BookSessionKeeps DEF Book, At
  <1>5. CASE Record(h)
    <2> DEFINE to == StatusAfterBooking(mem[h].app, Kind(mem[h].target))
    <2>1. to \in AppStatus /\ "created" \in Events
      BY AppAndRow, StatusAfter DEF Events
    <2>2. ~At(h, "idle") /\ "unbook" \in PC \ {"resume"}
      BY <1>5 DEF Record, At, PC
    <2> HIDE DEF to
    <2>3. CASE Commit(h, to, new[h], "created") /\ Done(h)
      BY <2>1, <2>3, CommitDone
    <2>4. CASE Refused(h, to) /\ IF call[h] = "book" THEN Goto(h, "unbook") ELSE Done(h)
      BY <2>2, <2>4, DoneQuiet, GotoQuiet DEF Refused
    <2> QED
      BY <1>5, <2>3, <2>4 DEF Record, to
  <1>6. CASE Unbook(h)
    BY <1>6, RewriteDone DEF Unbook, At, Status, Theirs
  <1>7. CASE Release(h)
    BY <1>7, RewriteGoto DEF Release, At, PC, Status, Theirs
  <1>8. CASE Rebook(h)
    BY <1>8, GotoQuiet, BookSessionKeeps DEF Rebook, At, PC
  <1>9. CASE PutBack(h)
    BY <1>9, RewriteDone DEF PutBack, At, Status, Taken, Live, Theirs
  <1> QED
    BY <1>1, <1>2, <1>3, <1>4, <1>5, <1>6, <1>7, <1>8, <1>9 DEF Choosing

LEMMA CancellingType ==
  ASSUME TypeInv, NEW h \in Handlers, Cancelling(h)
  PROVE  TypeInv'
  <1>1. CASE ReadToCancel(h)
    <2>1. ~At(h, "idle") /\ "cancel" \in PC \ {"resume"}
      BY <1>1 DEF ReadToCancel, At, PC
    <2>2. ASSUME NEW b \in LiveOf(who[h]), Found(h, b, "cancel") PROVE TypeInv'
      BY <2>1, <2>2, FoundKeeps
    <2> QED
      BY <1>1, <2>2, DoneQuiet, SoleIsLive DEF ReadToCancel
  <1>2. CASE Cancel(h)
    BY <1>2, RewriteGoto DEF Cancel, At, PC, Status, Theirs
  <1>3. CASE Cancelled(h)
    BY <1>3, AppAndRow, StatusAfter, NoRowIsNoRow, CommitDone DEF Cancelled
  <1> QED
    BY <1>1, <1>2, <1>3 DEF Cancelling

LEMMA MissingType ==
  ASSUME TypeInv, NEW h \in Handlers, Missing(h)
  PROVE  TypeInv'
  <1>1. CASE ReadToMiss(h)
    <2>1. ~At(h, "idle") /\ "miss" \in PC \ {"resume"}
      BY <1>1 DEF ReadToMiss, At, PC
    <2>2. ASSUME NEW b \in LiveOf(who[h]), Found(h, b, "miss") PROVE TypeInv'
      BY <2>1, <2>2, FoundKeeps
    <2> QED
      BY <1>1, <2>2, DoneQuiet, SoleIsLive DEF ReadToMiss
  <1>2. CASE Miss(h)
    BY <1>2, RewriteGoto, DoneQuiet DEF Miss, At, PC, Status, Theirs
  <1>3. CASE Missed(h)
    <2> DEFINE to == IF KindOf(old[h]) = "visit" THEN StatusAfterCancellation(mem[h].app)
                     ELSE "no_show"
    <2>1. to \in AppStatus /\ "no_show" \in Events
      BY AppAndRow, StatusAfter, StatusNames DEF Events
    <2>2. ~At(h, "idle") /\ "unmiss" \in PC \ {"resume"}
      BY <1>3 DEF Missed, At, PC
    <2> HIDE DEF to
    <2>3. CASE Commit(h, to, old[h], "no_show") /\ Done(h)
      BY <2>1, <2>3, CommitDone
    <2>4. CASE Refused(h, to) /\ Goto(h, "unmiss")
      BY <2>2, <2>4, GotoQuiet DEF Refused
    <2> QED
      BY <1>3, <2>3, <2>4 DEF Missed, to
  <1>4. CASE Unmiss(h)
    BY <1>4, RewriteDone DEF Unmiss, At, Status, Taken, Live, Theirs
  <1> QED
    BY <1>1, <1>2, <1>3, <1>4 DEF Missing

LEMMA ArrivingType ==
  ASSUME TypeInv, NEW h \in Handlers, Arriving(h)
  PROVE  TypeInv'
  <1>1. CASE ReadToCheckIn(h)
    <2>1. ~At(h, "idle") /\ "arrive" \in PC \ {"resume"}
      BY <1>1 DEF ReadToCheckIn, At, PC
    <2>2. ASSUME NEW b \in LiveOf(who[h]), Found(h, b, "arrive") PROVE TypeInv'
      BY <2>1, <2>2, FoundKeeps
    <2> QED
      BY <1>1, <2>2, DoneQuiet, SoleIsLive DEF ReadToCheckIn
  <1>2. CASE Arrive(h)
    <2>1. ~At(h, "idle") /\ "arrivedAs" \in PC \ {"resume"} /\ family' = family /\ crashes' = crashes
      BY <1>2 DEF Arrive, At, PC
    <2>2. DbOK'
      <3>1. status' \in [Rows -> Status]
        BY <1>2 DEF TypeInv, DbOK, Arrive, Status, Taken, Live
      <3> QED
        BY <1>2, <3>1 DEF TypeInv, DbOK, Arrive, paper
    <2>3. Owned'
      BY <1>2, AppAndRow DEF TypeInv, DbOK, Owned, Arrive, paper
    <2> QED
      BY <1>2, <2>1, <2>2, <2>3, DoneKeeps, GotoKeeps DEF TypeInv, Arrive
  <1>3. CASE ArrivedAs(h)
    <2> DEFINE to == IF KindOf(old[h]) = "visit"
                       THEN StatusAfterVisitArrival(mem[h].app, who[h]) ELSE mem[h].app
    <2>1. to \in AppStatus /\ "checked_in" \in Events
      BY AppAndRow, StatusAfter DEF Events
    <2>2. ~At(h, "idle") /\ "launch" \in PC \ {"resume"}
      BY <1>3 DEF ArrivedAs, At, PC
    <2> HIDE DEF to
    <2>3. CASE Commit(h, to, old[h], "checked_in") /\ Onward(h, "launch")
      <3>1. DbOK' /\ Owned' /\ family' = family /\ crashes' = crashes
        BY <2>1, <2>3, CommitKeeps DEF TypeInv
      <3> QED
        BY <2>2, <2>3, <3>1, DoneKeeps, GotoKeeps DEF TypeInv, Onward
    <2>4. CASE Refused(h, to) /\ Done(h)
      BY <2>4, DoneQuiet DEF Refused
    <2> QED
      BY <1>3, <2>3, <2>4 DEF ArrivedAs, to
  <1> QED
    BY <1>1, <1>2, <1>3 DEF Arriving

\* A commit that writes on the timeline what no property of a booking reads.
LEMMA NoteKeeps ==
  ASSUME TypeInv, NEW h \in Handlers, Done(h), UNCHANGED <<rows, told, open, crashes>>,
         app' \in [Families -> AppStatus], notes' \in [Families -> SUBSET {"skipped", "paused"}]
  PROVE  TypeInv'
  <1>1. DbOK' /\ Owned' /\ family' = family
    BY DEF TypeInv, DbOK, Owned, rows, paper
  <1> QED
    BY <1>1, DoneKeeps DEF TypeInv

LEMMA DeferringType ==
  ASSUME TypeInv, NEW h \in Handlers, Deferring(h)
  PROVE  TypeInv'
  <1>1. CASE FreeBooked(h)
    BY <1>1, RewriteGoto DEF FreeBooked, At, PC, Status, Theirs, RowsOf
  <1>2. CASE FreeArrived(h)
    BY <1>2, RewriteGoto DEF FreeArrived, At, PC, Status, Theirs, RowsOf, SatFor
  <1>3. CASE Defer(h)
    BY <1>3, StatusNames, NoteKeeps DEF Defer, TypeInv, DbOK
  <1>4. CASE Resume(h)
    BY <1>4, NoteKeeps DEF Resume, TypeInv, DbOK, Known
  <1> QED
    BY <1>1, <1>2, <1>3, <1>4 DEF Deferring

LEMMA LeavingType ==
  ASSUME TypeInv, NEW h \in Handlers, Leaving(h)
  PROVE  TypeInv'
  <1>1. CASE LeaveRows(h)
    BY <1>1, RewriteGoto DEF LeaveRows, At, PC, Status, Theirs, RowsOf
  <1>2. CASE LeaveSitting(h)
    BY <1>2, AbandonKeeps, GotoKeeps DEF TypeInv, LeaveSitting, At, PC
  <1>3. CASE Leave(h)
    BY <1>3, StatusNames, NoRowIsNoRow, CommitDone DEF Leave
  <1> QED
    BY <1>1, <1>2, <1>3 DEF Leaving

LEMMA SkippingType ==
  ASSUME TypeInv, NEW h \in Handlers, Skipping(h)
  PROVE  TypeInv'
  <1> USE DEF At, PC, Status, Theirs, RowsOf, SatFor
  <1>1. CASE SkipSitting(h)
    BY <1>1, RewriteGoto DEF SkipSitting
  <1>2. CASE SkipVisit(h)
    BY <1>2, RewriteGoto DEF SkipVisit
  <1>3. CASE SkipArrived(h)
    BY <1>3, RewriteGoto DEF SkipArrived
  <1>4. CASE SkipReady(h)
    BY <1>4, AbandonKeeps, GotoKeeps DEF TypeInv, SkipReady
  <1>5. CASE Skip(h)
    BY <1>5, StatusNames, NoteKeeps DEF Skip, TypeInv, DbOK
  <1> QED
    BY <1>1, <1>2, <1>3, <1>4, <1>5 DEF Skipping

LEMMA SittingType ==
  ASSUME TypeInv, NEW h \in Handlers, Sitting(h)
  PROVE  TypeInv'
  <1>0. {"launch", "launched", "arrive", "book", "handedIn", "unlaunch", "abandoned"}
          \subseteq PC \ {"resume"}
    BY DEF PC
  <1>1. CASE ReadToLaunch(h) \/ ReadForWalkIn(h)
    <2>1. ~At(h, "idle")
      BY <1>1 DEF ReadToLaunch, ReadForWalkIn, At
    <2>2. ASSUME NEW b \in LiveOf(who[h]), NEW l \in {"launch", "arrive"}, Found(h, b, l)
          PROVE  TypeInv'
      BY <1>0, <2>1, <2>2, FoundKeeps
    <2>3. CASE Goto(h, "book") /\ UNCHANGED <<db, crashes>>
      BY <1>0, <2>1, <2>3, GotoQuiet
    <2> QED
      BY <1>1, <2>2, <2>3, DoneQuiet, SoleIsLive DEF ReadToLaunch, ReadForWalkIn
  <1>2. CASE Launch(h)
    <2>1. ~At(h, "idle") /\ family' = family /\ crashes' = crashes
      BY <1>2 DEF Launch, At
    <2>2. DbOK'
      <3>1. CASE CanLaunch(old[h])
        <4>1. launches' \in [Rows -> Nat]
          BY <1>2, <3>1 DEF TypeInv, DbOK, Launch
        <4> QED
          BY <1>2, <3>1, <4>1 DEF TypeInv, DbOK, Launch, Status, Taken, Live
      <3>2. CASE ~CanLaunch(old[h])
        BY <1>2, <3>2 DEF TypeInv, DbOK, Launch, paper
      <3> QED
        BY <3>1, <3>2
    <2>3. Owned'
      BY <1>2, AppAndRow DEF TypeInv, DbOK, Owned, Launch, paper
    <2> QED
      BY <1>0, <1>2, <2>1, <2>2, <2>3, DoneKeeps, GotoKeeps DEF TypeInv, Launch
  <1>3. CASE Launched(h)
    <2>1. DbOK' /\ Owned' /\ family' = family /\ crashes' = crashes
      BY <1>3, StatusNames DEF TypeInv, DbOK, Owned, Launched
    <2> QED
      BY <1>3, <2>1, DoneKeeps DEF TypeInv, Launched
  <1>4. CASE HandIn(h)
    <2>1. ~At(h, "idle") /\ family' = family /\ crashes' = crashes
      BY <1>4 DEF HandIn, At
    <2>2. DbOK'
      BY <1>4 DEF TypeInv, DbOK, HandIn, Rewrite, Status, Taken, Live
    <2>3. Owned'
      BY <1>4, AppAndRow DEF TypeInv, DbOK, Owned, HandIn, Rewrite
    <2> QED
      BY <1>0, <1>4, <2>1, <2>2, <2>3, DoneKeeps, GotoKeeps DEF TypeInv, HandIn
  <1>5. CASE HandedIn(h)
    BY <1>5, StatusNames, CommitDone DEF HandedIn, Events
  <1>6. CASE Abandon(h)
    <2>1. ~At(h, "idle") /\ family' = family /\ crashes' = crashes /\ Goto(h, "unlaunch")
      BY <1>6 DEF Abandon, At
    <2>2. DbOK'
      BY <1>6 DEF TypeInv, DbOK, Abandon
    <2>3. Owned'
      BY <1>6, AppAndRow DEF TypeInv, DbOK, Owned, Abandon
    <2> QED
      BY <1>0, <2>1, <2>2, <2>3, GotoKeeps DEF TypeInv
  <1>7. CASE Unlaunch(h)
    BY <1>0, <1>7, RewriteGoto DEF Unlaunch, At, Status, Taken, Live, Theirs
  <1>8. CASE Abandoned(h)
    BY <1>8, StatusNames, NoRowIsNoRow, CommitDone DEF Abandoned
  <1> QED
    BY <1>1, <1>2, <1>3, <1>4, <1>5, <1>6, <1>7, <1>8 DEF Sitting

\* Invocations that begin.
LEMMA CallType ==
  ASSUME TypeInv, NEW h \in Handlers, NEW f \in Families, CallFor(h, f)
  PROVE  TypeInv'
  <1>0. {"live", "freeBooked", "resume", "leaveRows", "skipSitting"} \subseteq PC
    BY DEF PC
  <1>1. ASSUME NEW kind, NEW s \in Sessions, CallChoose(h, kind, f, s) PROVE TypeInv'
    BY <1>0, <1>1, NoRowIsNoRow, BeginKeeps DEF CallChoose
  <1>2. CASE CallResume(h, f)
    <2>1. StatusAfterDeferral(f) \in {"new_enquiry", "awaiting_decision"}
      BY StatusAfter, StatusNames
    <2> QED
      BY <1>0, <1>2, <2>1, NoRowIsNoRow, StatusNames, BeginKeeps DEF CallResume
  <1>3. CASE CallCancel(h, f) \/ CallCheckIn(h, f) \/ CallNoShow(h, f) \/ CallDefer(h, f)
    BY <1>0, <1>3, NoRowIsNoRow, BeginKeeps DEF CallCancel, CallCheckIn, CallNoShow, CallDefer
  <1>4. CASE CallWithdraw(h, f) \/ CallSkip(h, f) \/ CallLaunch(h, f) \/ CallWalkIn(h, f)
    BY <1>0, <1>4, NoRowIsNoRow, BeginKeeps DEF CallWithdraw, CallSkip, CallLaunch, CallWalkIn
  <1> QED
    BY <1>1, <1>2, <1>3, <1>4 DEF CallFor

LEMMA CallSittingType ==
  ASSUME TypeInv, NEW h \in Handlers, NEW b \in Rows, CallHandIn(h, b) \/ CallAbandon(h, b)
  PROVE  TypeInv'
  <1>1. family[b] \in Families /\ {"handIn", "abandon"} \subseteq PC
    BY DEF TypeInv, Owned, CallHandIn, CallAbandon, PC
  <1> QED
    BY <1>1, BeginKeeps DEF CallHandIn, CallAbandon

LEMMA WorldType == ASSUME TypeInv, World PROVE TypeInv'
  <1>1. DbOK' /\ Owned' /\ family' = family
    <2>1. ASSUME NEW b \in Rows, StartSitting(b) PROVE DbOK' /\ Owned' /\ family' = family
      BY <2>1 DEF TypeInv, DbOK, Owned, StartSitting
    <2>2. ASSUME NEW f \in Families, Mark(f) \/ Decide(f) PROVE DbOK' /\ Owned' /\ family' = family
      BY <2>2, StatusNames DEF TypeInv, DbOK, Owned, Mark, Decide, rows, paper
    <2>3. ASSUME NEW s \in Sessions, Close(s) PROVE DbOK' /\ Owned' /\ family' = family
      BY <2>3 DEF TypeInv, DbOK, Owned, Close, rows, paper
    <2> QED
      BY <2>1, <2>2, <2>3 DEF World
  <1>2. UNCHANGED self /\ crashes' = crashes
    BY DEF World, StartSitting, Mark, Decide, Close
  <1> QED
    BY <1>1, <1>2 DEF TypeInv, SelfOK, Known, At, self

LEMMA NextType == TypeInv /\ [Next]_vars => TypeInv'
  <1> SUFFICES ASSUME TypeInv, [Next]_vars PROVE TypeInv'
    OBVIOUS
  <1>1. ASSUME NEW h \in Handlers, Step(h) PROVE TypeInv'
    BY <1>1, ChoosingType, CancellingType, ArrivingType, MissingType, DeferringType,
       LeavingType, SkippingType, SittingType DEF Step
  <1>2. ASSUME NEW h \in Handlers, Crash(h) PROVE TypeInv'
    <2>1. DbOK' /\ Owned' /\ family' = family /\ crashes' \in Nat
      BY <1>2, DbStays DEF TypeInv, Crash
    <2> QED
      BY <1>2, <2>1, DoneKeeps DEF TypeInv, Crash
  <1>3. CASE UNCHANGED vars
    BY <1>3, DbStays DEF TypeInv, SelfOK, Known, At, vars, self
  <1> QED
    BY <1>1, <1>2, <1>3, CallType, CallSittingType, WorldType DEF Next

LEMMA InitType == Init => TypeInv
  BY StatusNames, BlankInMemory, NoRowIsNoRow
  DEF Init, TypeInv, DbOK, SelfOK, Owned, Known, At, Status, PC

\* Type correctness: no handler writes a row, or keeps a copy, that the schema
\* and the code do not name.
THEOREM TypeCorrect == Spec => []TypeOK
  <1>1. TypeInv => TypeOK
    BY TypeParts DEF TypeInv
  <1> QED
    BY <1>1, InitType, NextType, PTL DEF Spec
-----------------------------------------------------------------------------
(* A session is never overfull, as long as moves and no-shows are alone: both *)
(* give up a place and may take it back without asking book_session.  Until   *)
(* they have ended, the place they gave up still counts.                      *)

Holding == {"release", "rebook", "putBack", "miss", "missed", "unmiss"}
Held(b) == \E h \in Handlers : pc[h] \in Holding /\ old[h] = b
Reserved(s) == {b \in Rows : session[b] = s /\ (status[b] \in Taken \/ Held(b))}

SeatsHeld == \A s \in Sessions : Cardinality(Reserved(s)) <= Capacity

\* Who holds a place given up is alone.
Exclusive ==
  /\ \A h \in Handlers : pc[h] \in Holding => call[h] \in Alone
  /\ \A g, h \in Handlers : call[g] \in Alone /\ g # h => At(h, "idle")

\* A step that takes no new place.
TakesNone ==
  \A b \in Rows :
    /\ session'[b] = session[b]
    /\ status'[b] \in Taken => status[b] \in Taken \/ Held(b)

\* A step that gives nothing a new hold on a place nobody takes.
HoldsNone ==
  \A h \in Handlers :
    pc'[h] \in Holding => \/ pc[h] \in Holding /\ old'[h] = old[h]
                          \/ status[old'[h]] \in Taken

LEMMA FiniteSeats ==
  ASSUME NEW S \in SUBSET Rows, NEW T \in SUBSET S
  PROVE  /\ IsFiniteSet(S) /\ Cardinality(S) \in Nat
         /\ Cardinality(T) <= Cardinality(S)
  <1>1. IsFiniteSet(S)
    BY RowAssumption, FS_Subset
  <1> QED
    BY <1>1, FS_Subset, FS_CardinalityType

LEMMA FewerSeats ==
  ASSUME NEW S \in SUBSET Rows, NEW T \in SUBSET S, Cardinality(S) <= Capacity
  PROVE  Cardinality(T) <= Capacity
  <1>1. /\ Cardinality(S) \in Nat /\ Cardinality(T) \in Nat
        /\ Cardinality(T) <= Cardinality(S)
    BY FiniteSeats, T \in SUBSET Rows, T \in SUBSET T
  <1> QED
    BY <1>1, CapacityAssumption

LEMMA SeatsStay ==
  ASSUME SeatsHeld, TakesNone, HoldsNone
  PROVE  SeatsHeld'
  <1> SUFFICES ASSUME NEW s \in Sessions PROVE Cardinality(Reserved(s)') <= Capacity
    BY DEF SeatsHeld
  <1>1. Reserved(s)' \in SUBSET Reserved(s) /\ Reserved(s) \in SUBSET Rows
    BY DEF Reserved, Held, TakesNone, HoldsNone
  <1> QED
    BY <1>1, FewerSeats DEF SeatsHeld

\* book_session: the place is counted under the lock it is taken under.
LEMMA SeatTaken ==
  ASSUME TypeInv, SeatsHeld, Exclusive, NEW h \in Handlers, ~At(h, "idle"),
         NEW b \in Rows, BookSession(h, b)
  PROVE  SeatsHeld'
  <1> SUFFICES ASSUME NEW s \in Sessions PROVE Cardinality(Reserved(s)') <= Capacity
    BY DEF SeatsHeld
  <1>1. \A c : ~Held(c)'
    BY DEF TypeInv, SelfOK, Exclusive, At, BookSession, Held, Holding
  <1>2. status[b] = "none" /\ Places(mem[h].target) \subseteq Rows \ {b}
    BY DEF BookSession, CanBook, NextRow, Places, Taken, Live
  <1>3. CASE s = mem[h].target
    <2>1. Reserved(s)' = Places(s) \cup {b}
      BY <1>1, <1>2, <1>3 DEF TypeInv, DbOK, Reserved, Places, BookSession, Taken, Live
    <2>2. IsFiniteSet(Places(s)) /\ Cardinality(Places(s)) \in Nat /\ b \notin Places(s)
      BY <1>2, <1>3, FiniteSeats
    <2>3. Cardinality(Places(s)) < Capacity
      BY <1>3 DEF BookSession, CanBook, Vacant
    <2>4. Cardinality(Places(s) \cup {b}) = Cardinality(Places(s)) + 1
      BY <2>2, FS_AddElement
    <2> QED
      BY <2>1, <2>2, <2>3, <2>4, CapacityAssumption
  <1>4. CASE s # mem[h].target
    <2>1. Reserved(s)' \in SUBSET Reserved(s) /\ Reserved(s) \in SUBSET Rows
      BY <1>1, <1>4 DEF TypeInv, DbOK, Reserved, BookSession, Taken, Live
    <2>2. Cardinality(Reserved(s)) <= Capacity
      BY DEF SeatsHeld
    <2> QED
      BY <2>1, <2>2, FewerSeats
  <1> QED
    BY <1>3, <1>4

SeatInv == SeatsHeld /\ Exclusive

\* A step of one invocation that takes no place keeps a hold it has, and gets
\* one only on a place taken, when it is alone.
LEMMA SeatsStep ==
  ASSUME TypeInv, SeatInv, NEW h \in Handlers, ~At(h, "idle"), TakesNone,
         \A g \in Handlers \ {h} : pc'[g] = pc[g] /\ old'[g] = old[g] /\ call'[g] = call[g],
         call'[h] \in {call[h], "none"},
         pc'[h] \in Holding => /\ call'[h] = call[h]
                               /\ \/ pc[h] \in Holding /\ old'[h] = old[h]
                                  \/ call[h] \in Alone /\ status[old'[h]] \in Taken
  PROVE  SeatInv'
  <1>1. HoldsNone
    BY DEF HoldsNone
  <1>2. "none" \notin Alone
    BY CallAssumption DEF Kinds
  <1>3. Exclusive'
    BY <1>2 DEF SeatInv, Exclusive, At
  <1> QED
    BY <1>1, <1>3, SeatsStay DEF SeatInv

LEMMA DoneSeats ==
  ASSUME TypeInv, SeatInv, NEW h \in Handlers, ~At(h, "idle"), TakesNone, Done(h)
  PROVE  SeatInv'
  <1>1. /\ pc'[h] \notin Holding /\ call'[h] = "none"
        /\ \A g \in Handlers \ {h} : pc'[g] = pc[g] /\ old'[g] = old[g] /\ call'[g] = call[g]
    BY DEF TypeInv, SelfOK, Done, Holding
  <1> QED
    BY <1>1, SeatsStep

LEMMA GotoSeats ==
  ASSUME TypeInv, SeatInv, NEW h \in Handlers, ~At(h, "idle"), TakesNone, NEW l, Goto(h, l),
         l \in Holding => pc[h] \in Holding
  PROVE  SeatInv'
  <1>1. /\ pc'[h] = l /\ call'[h] = call[h] /\ old'[h] = old[h]
        /\ \A g \in Handlers \ {h} : pc'[g] = pc[g] /\ old'[g] = old[g] /\ call'[g] = call[g]
    BY DEF TypeInv, SelfOK, Goto
  <1> QED
    BY <1>1, SeatsStep

LEMMA FoundSeats ==
  ASSUME TypeInv, SeatInv, NEW h \in Handlers, ~At(h, "idle"), NEW l, NEW b \in LiveOf(who[h]),
         Found(h, b, l), l \in Holding => call[h] \in Alone
  PROVE  SeatInv'
  <1>1. TakesNone /\ status[b] \in Taken
    BY DEF Found, TakesNone, LiveOf, Taken, db, rows
  <1>2. /\ pc'[h] = l /\ call'[h] = call[h] /\ old'[h] = b
        /\ \A g \in Handlers \ {h} : pc'[g] = pc[g] /\ old'[g] = old[g] /\ call'[g] = call[g]
    BY DEF TypeInv, SelfOK, Found
  <1> QED
    BY <1>1, <1>2, SeatsStep

LEMMA BookSeats ==
  ASSUME TypeInv, SeatInv, NEW h \in Handlers, ~At(h, "idle"), NEW b \in Rows, BookSession(h, b)
  PROVE  SeatInv'
  <1>1. "none" \notin Alone
    BY CallAssumption DEF Kinds
  <1>2. Exclusive'
    BY <1>1 DEF TypeInv, SelfOK, SeatInv, Exclusive, At, BookSession, Holding
  <1> QED
    BY <1>2, SeatTaken DEF SeatInv

\* Statements that only free places, or move bookings among those that take one.
LEMMA QuietTakesNone == UNCHANGED db => TakesNone
  BY DEF TakesNone, db, rows

LEMMA RewriteTakesNone ==
  ASSUME NEW S, NEW s, RewriteOnly(S, s),
         s \in Taken => \A b \in S \cap Rows : status[b] \in Taken \/ Held(b)
  PROVE  TakesNone
  BY DEF TakesNone, RewriteOnly, Rewrite

LEMMA CommitTakesNone ==
  ASSUME NEW h, NEW to, NEW b, NEW e, Commit(h, to, b, e) \/ Refused(h, to)
  PROVE  TakesNone
  BY DEF TakesNone, Commit, Refused, db, rows

LEMMA AbandonTakesNone ==
  ASSUME NEW h, NEW S, AbandonOf(h, S)
  PROVE  TakesNone
  BY DEF TakesNone, AbandonOf
-----------------------------------------------------------------------------
(* And so for every statement.                                               *)

GivesBackAlone == {"move", "noShow"} \cap Calls \subseteq Alone

LEMMA ChoosingSeats ==
  ASSUME TypeInv, SeatInv, GivesBackAlone, NEW h \in Handlers, Choosing(h)
  PROVE  SeatInv'
  <1> USE SoleIsLive, QuietTakesNone DEF At, Holding
  <1>0. Status \ Taken = {"none", "no_show", "cancelled", "rescheduled"} /\ Live \subseteq Taken
    BY DEF Status, Taken, Live
  <1>1. CASE ReadToBook(h)
    <2>1. ASSUME NEW b \in LiveOf(who[h]), Found(h, b, "complete") PROVE SeatInv'
      BY <1>1, <2>1, FoundSeats DEF ReadToBook
    <2> QED
      BY <1>1, <2>1, DoneSeats, GotoSeats DEF ReadToBook
  <1>2. CASE ReadToMove(h)
    <2>1. call[h] \in Alone
      BY <1>2 DEF TypeInv, SelfOK, GivesBackAlone, ReadToMove
    <2>2. ASSUME NEW b \in LiveOf(who[h]), Found(h, b, "release") PROVE SeatInv'
      BY <1>2, <2>1, <2>2, FoundSeats DEF ReadToMove
    <2> QED
      BY <1>2, <2>2, DoneSeats DEF ReadToMove
  <1>3. CASE Complete(h)
    <2>1. TakesNone
      BY <1>3, RewriteTakesNone DEF Complete, Taken, Live
    <2> QED
      BY <1>3, <2>1, GotoSeats DEF Complete
  <1>4. CASE Book(h)
    BY <1>4, BookSeats, DoneSeats DEF Book
  <1>5. CASE Record(h)
    <2>1. TakesNone
      BY <1>5, CommitTakesNone DEF Record
    <2> QED
      BY <1>5, <2>1, DoneSeats, GotoSeats DEF Record
  <1>6. CASE Unbook(h)
    <2>1. TakesNone
      BY <1>0, <1>6, RewriteTakesNone DEF Unbook
    <2> QED
      BY <1>6, <2>1, DoneSeats DEF Unbook
  <1>7. CASE Release(h)
    <2>1. TakesNone
      BY <1>0, <1>7, RewriteTakesNone DEF Release
    <2> QED
      BY <1>7, <2>1, GotoSeats DEF Release
  <1>8. CASE Rebook(h)
    BY <1>8, BookSeats, GotoSeats DEF Rebook
  <1>9. CASE PutBack(h)
    <2>1. Held(old[h])
      BY <1>9 DEF PutBack, Held
    <2>2. TakesNone
      BY <1>9, <2>1, RewriteTakesNone DEF PutBack
    <2> QED
      BY <1>9, <2>2, DoneSeats DEF PutBack
  <1> QED
    BY <1>1, <1>2, <1>3, <1>4, <1>5, <1>6, <1>7, <1>8, <1>9 DEF Choosing

LEMMA MissingSeats ==
  ASSUME TypeInv, SeatInv, GivesBackAlone, NEW h \in Handlers, Missing(h)
  PROVE  SeatInv'
  <1> USE SoleIsLive, QuietTakesNone DEF At, Holding
  <1>0. "no_show" \notin Taken
    BY DEF Taken, Live
  <1>1. CASE ReadToMiss(h)
    <2>1. call[h] \in Alone
      BY <1>1 DEF TypeInv, SelfOK, GivesBackAlone, ReadToMiss
    <2>2. ASSUME NEW b \in LiveOf(who[h]), Found(h, b, "miss") PROVE SeatInv'
      BY <1>1, <2>1, <2>2, FoundSeats DEF ReadToMiss
    <2> QED
      BY <1>1, <2>2, DoneSeats DEF ReadToMiss
  <1>2. CASE Miss(h)
    <2>1. TakesNone
      BY <1>0, <1>2, RewriteTakesNone DEF Miss
    <2> QED
      BY <1>2, <2>1, DoneSeats, GotoSeats DEF Miss
  <1>3. CASE Missed(h)
    <2>1. TakesNone
      BY <1>3, CommitTakesNone DEF Missed
    <2> QED
      BY <1>3, <2>1, DoneSeats, GotoSeats DEF Missed
  <1>4. CASE Unmiss(h)
    <2>1. Held(old[h])
      BY <1>4 DEF Unmiss, Held
    <2>2. TakesNone
      BY <1>4, <2>1, RewriteTakesNone DEF Unmiss
    <2> QED
      BY <1>4, <2>2, DoneSeats DEF Unmiss
  <1> QED
    BY <1>1, <1>2, <1>3, <1>4 DEF Missing

LEMMA FreeingSeats ==
  ASSUME TypeInv, SeatInv, NEW h \in Handlers,
         Cancelling(h) \/ Deferring(h) \/ Leaving(h) \/ Skipping(h)
  PROVE  SeatInv'
  <1> USE SoleIsLive, QuietTakesNone, RewriteTakesNone, CommitTakesNone, AbandonTakesNone
      DEF At, Holding
  <1>0. "cancelled" \notin Taken
    BY DEF Taken, Live
  <1>1. CASE Cancelling(h)
    <2>1. CASE ReadToCancel(h)
      <3>1. ASSUME NEW b \in LiveOf(who[h]), Found(h, b, "cancel") PROVE SeatInv'
        BY <2>1, <3>1, FoundSeats DEF ReadToCancel
      <3> QED
        BY <2>1, <3>1, DoneSeats DEF ReadToCancel
    <2>2. CASE Cancel(h)
      BY <1>0, <2>2, GotoSeats DEF Cancel
    <2>3. CASE Cancelled(h)
      BY <2>3, DoneSeats DEF Cancelled
    <2> QED
      BY <1>1, <2>1, <2>2, <2>3 DEF Cancelling
  <1>2. CASE Deferring(h)
    <2>1. CASE FreeBooked(h) \/ FreeArrived(h)
      BY <1>0, <2>1, GotoSeats DEF FreeBooked, FreeArrived
    <2>2. CASE Defer(h) \/ Resume(h)
      <3>1. TakesNone
        BY <2>2 DEF Defer, Resume, TakesNone, rows
      <3> QED
        BY <2>2, <3>1, DoneSeats DEF Defer, Resume
    <2> QED
      BY <1>2, <2>1, <2>2 DEF Deferring
  <1>3. CASE Leaving(h)
    BY <1>0, <1>3, DoneSeats, GotoSeats DEF Leaving, LeaveRows, LeaveSitting, Leave
  <1>4. CASE Skipping(h)
    <2>1. CASE Skip(h)
      <3>1. TakesNone
        BY <2>1 DEF Skip, TakesNone, rows
      <3> QED
        BY <2>1, <3>1, DoneSeats DEF Skip
    <2>2. CASE SkipSitting(h) \/ SkipVisit(h) \/ SkipArrived(h) \/ SkipReady(h)
      BY <1>0, <2>2, GotoSeats DEF SkipSitting, SkipVisit, SkipArrived, SkipReady
    <2> QED
      BY <1>4, <2>1, <2>2 DEF Skipping
  <1> QED
    BY <1>1, <1>2, <1>3, <1>4

LEMMA ArrivingSeats ==
  ASSUME TypeInv, SeatInv, NEW h \in Handlers, Arriving(h)
  PROVE  SeatInv'
  <1> USE SoleIsLive, QuietTakesNone DEF At, Holding
  <1>1. CASE ReadToCheckIn(h)
    <2>1. ASSUME NEW b \in LiveOf(who[h]), Found(h, b, "arrive") PROVE SeatInv'
      BY <1>1, <2>1, FoundSeats DEF ReadToCheckIn
    <2> QED
      BY <1>1, <2>1, DoneSeats DEF ReadToCheckIn
  <1>2. CASE Arrive(h)
    <2>1. TakesNone
      BY <1>2 DEF TypeInv, DbOK, TakesNone, Arrive, paper, Taken, Live
    <2> QED
      BY <1>2, <2>1, DoneSeats, GotoSeats DEF Arrive
  <1>3. CASE ArrivedAs(h)
    <2>1. TakesNone
      BY <1>3, CommitTakesNone DEF ArrivedAs
    <2> QED
      BY <1>3, <2>1, DoneSeats, GotoSeats DEF ArrivedAs, Onward
  <1> QED
    BY <1>1, <1>2, <1>3 DEF Arriving

LEMMA SittingSeats ==
  ASSUME TypeInv, SeatInv, NEW h \in Handlers, Sitting(h)
  PROVE  SeatInv'
  <1> USE SoleIsLive, QuietTakesNone DEF At, Holding
  <1>1. CASE ReadToLaunch(h) \/ ReadForWalkIn(h)
    <2>1. ~At(h, "idle")
      BY <1>1 DEF ReadToLaunch, ReadForWalkIn
    <2>2. ASSUME NEW b \in LiveOf(who[h]), NEW l \in {"launch", "arrive"}, Found(h, b, l)
          PROVE  SeatInv'
      BY <2>1, <2>2, FoundSeats
    <2> QED
      BY <1>1, <2>1, <2>2, DoneSeats, GotoSeats DEF ReadToLaunch, ReadForWalkIn
  <1>2. CASE Launch(h)
    <2>1. TakesNone
      BY <1>2 DEF TypeInv, DbOK, TakesNone, Launch, CanLaunch, Taken, Live
    <2> QED
      BY <1>2, <2>1, DoneSeats, GotoSeats DEF Launch
  <1>3. CASE Launched(h)
    <2>1. TakesNone
      BY <1>3 DEF TakesNone, Launched
    <2> QED
      BY <1>3, <2>1, DoneSeats DEF Launched
  <1>4. CASE HandIn(h)
    <2>1. TakesNone
      BY <1>4 DEF TakesNone, HandIn, Rewrite, Taken, Live
    <2> QED
      BY <1>4, <2>1, DoneSeats, GotoSeats DEF HandIn
  <1>5. CASE HandedIn(h)
    BY <1>5, CommitTakesNone, DoneSeats DEF HandedIn
  <1>6. CASE Abandon(h)
    <2>1. TakesNone
      BY <1>6 DEF TakesNone, Abandon
    <2> QED
      BY <1>6, <2>1, GotoSeats DEF Abandon
  <1>7. CASE Unlaunch(h)
    <2>1. TakesNone
      BY <1>7, RewriteTakesNone DEF Unlaunch, Taken, Live
    <2> QED
      BY <1>7, <2>1, GotoSeats DEF Unlaunch
  <1>8. CASE Abandoned(h)
    BY <1>8, CommitTakesNone, DoneSeats DEF Abandoned
  <1> QED
    BY <1>1, <1>2, <1>3, <1>4, <1>5, <1>6, <1>7, <1>8 DEF Sitting

\* An invocation that begins finds nobody alone, and nobody at all if it is to
\* be alone.
LEMMA BeginSeats ==
  ASSUME TypeInv, SeatInv, NEW h \in Handlers, NEW kind, NEW f, NEW b, NEW t,
         NEW l \in PC \ Holding, Begin(h, kind, f, b, t, l)
  PROVE  SeatInv'
  <1>1. TakesNone
    BY QuietTakesNone DEF Begin
  <1>2. HoldsNone
    BY DEF TypeInv, SelfOK, HoldsNone, Begin
  <1>3. Exclusive'
    BY DEF TypeInv, SelfOK, SeatInv, Exclusive, Begin, Quiet, At
  <1> QED
    BY <1>1, <1>2, <1>3, SeatsStay DEF SeatInv

LEMMA NextSeats ==
  TypeInv /\ SeatInv /\ GivesBackAlone /\ [Next]_vars => SeatInv'
  <1> SUFFICES ASSUME TypeInv, SeatInv, GivesBackAlone, [Next]_vars PROVE SeatInv'
    OBVIOUS
  <1>0. {"live", "freeBooked", "resume", "leaveRows", "skipSitting", "handIn", "abandon"}
          \subseteq PC \ Holding
    BY DEF PC, Holding
  <1>1. ASSUME NEW h \in Handlers, Step(h) PROVE SeatInv'
    BY <1>1, ChoosingSeats, FreeingSeats, ArrivingSeats, MissingSeats, SittingSeats DEF Step
  <1>2. ASSUME NEW h \in Handlers, Crash(h) PROVE SeatInv'
    BY <1>2, QuietTakesNone, DoneSeats DEF Crash
  <1>3. ASSUME NEW h \in Handlers, NEW f \in Families, CallFor(h, f) PROVE SeatInv'
    BY <1>0, <1>3, BeginSeats
    DEF CallFor, CallChoose, CallCancel, CallCheckIn, CallNoShow, CallDefer, CallResume,
        CallWithdraw, CallSkip, CallLaunch, CallWalkIn
  <1>4. ASSUME NEW h \in Handlers, NEW b \in Rows, CallHandIn(h, b) \/ CallAbandon(h, b)
        PROVE  SeatInv'
    BY <1>0, <1>4, BeginSeats DEF CallHandIn, CallAbandon
  <1>5. CASE World \/ UNCHANGED vars
    <2>1. UNCHANGED self /\ TakesNone
      BY <1>5 DEF World, StartSitting, Mark, Decide, Close, vars, db, rows, TakesNone
    <2>2. HoldsNone /\ Exclusive'
      BY <2>1 DEF HoldsNone, Exclusive, SeatInv, At, self
    <2> QED
      BY <2>1, <2>2, SeatsStay DEF SeatInv
  <1> QED
    BY <1>1, <1>2, <1>3, <1>4, <1>5 DEF Next

LEMMA InitSeats == Init => SeatInv
  <1> SUFFICES ASSUME Init PROVE SeatInv
    OBVIOUS
  <1>1. \A s : Reserved(s) = {}
    BY DEF Init, Reserved, Held, Holding, Taken, Live
  <1>2. Exclusive
    BY CallAssumption DEF Init, Exclusive, Holding, At, Kinds
  <1> QED
    BY <1>1, <1>2, FS_EmptySet, CapacityAssumption DEF SeatInv, SeatsHeld

\* A session never holds more children than it has places, however many book,
\* arrive, sit, miss and cancel together (book_session), provided that what
\* puts a booking back by id, a move and a no-show, is alone.
THEOREM NeverOverfullHolds ==
  ASSUME GivesBackAlone
  PROVE  Spec => []NeverOverfull
  <1>1. SeatInv => NeverOverfull
    <2> SUFFICES ASSUME SeatInv, NEW s \in Sessions PROVE Cardinality(Places(s)) <= Capacity
      BY DEF NeverOverfull
    <2>1. Places(s) \in SUBSET Reserved(s) /\ Reserved(s) \in SUBSET Rows
      BY DEF Places, Reserved
    <2>2. Cardinality(Reserved(s)) <= Capacity
      BY DEF SeatInv, SeatsHeld
    <2> QED
      BY <2>1, <2>2, FewerSeats
  <1> QED
    BY <1>1, GivesBackAlone, InitType, NextType, InitSeats, NextSeats, PTL DEF Spec
-----------------------------------------------------------------------------
(* Whose statements these are, and which invocations have company: what the  *)
(* rest of this module builds on.                                            *)

\* The kinds of invocation that may be about to run the statement l.
KindsAt(l) ==
  CASE l = "idle" -> {"none"}
    [] l = "live" -> {"book", "move", "cancel", "checkIn", "noShow", "launch", "walkIn"}
    [] l \in {"complete", "unbook"} -> {"book"}
    [] l = "book" -> {"book", "walkIn"}
    [] l = "record" -> {"book", "move"}
    [] l \in {"release", "rebook", "putBack"} -> {"move"}
    [] l \in {"cancel", "cancelled"} -> {"cancel"}
    [] l \in {"arrive", "arrivedAs"} -> {"checkIn", "walkIn"}
    [] l \in {"miss", "missed", "unmiss"} -> {"noShow"}
    [] l \in {"freeBooked", "freeArrived", "defer"} -> {"defer"}
    [] l = "resume" -> {"resume"}
    [] l \in {"leaveRows", "leaveSitting", "leave"} -> {"withdraw"}
    [] l \in {"skipSitting", "skipVisit", "skipArrived", "skipReady", "skip"} -> {"skip"}
    [] l \in {"launch", "launched"} -> {"launch", "walkIn"}
    [] l \in {"handIn", "handedIn"} -> {"handIn"}
    [] OTHER -> {"abandon"}

AtKind == \A h \in Handlers : call[h] \in KindsAt(pc[h])
ByItself == \A g, h \in Handlers : call[g] \in Alone /\ g # h => call[h] = "none"

\* A walk-in asks for no session that can be booked.
WalkedIn == \A h \in Handlers : call[h] = "walkIn" => mem[h].target = WalkIn

\* The statements about a booking found, and about one just made.
About == { "complete", "release", "rebook", "putBack", "cancel", "arrive", "arrivedAs", "miss",
           "missed", "unmiss", "launch", "launched", "handIn", "handedIn", "abandon", "unlaunch" }
Rowed ==
  \A h \in Handlers :
    /\ pc[h] \in About => old[h] \in Rows
    /\ pc[h] \in {"record", "unbook"} => new[h] \in Rows

\* A deferral that ends leads to one of two places.
Resumes ==
  \A h \in Handlers :
    At(h, "resume") => mem[h].target \in {"new_enquiry", "awaiting_decision"}

FlowInv == TypeInv /\ AtKind /\ ByItself /\ WalkedIn /\ Rowed /\ Resumes

LEMMA KindOfLabel ==
  /\ KindsAt("idle") = {"none"}
  /\ KindsAt("live") = {"book", "move", "cancel", "checkIn", "noShow", "launch", "walkIn"}
  /\ KindsAt("complete") = {"book"} /\ KindsAt("unbook") = {"book"}
  /\ KindsAt("book") = {"book", "walkIn"} /\ KindsAt("record") = {"book", "move"}
  /\ \A l \in {"release", "rebook", "putBack"} : KindsAt(l) = {"move"}
  /\ \A l \in {"cancel", "cancelled"} : KindsAt(l) = {"cancel"}
  /\ \A l \in {"arrive", "arrivedAs"} : KindsAt(l) = {"checkIn", "walkIn"}
  /\ \A l \in {"miss", "missed", "unmiss"} : KindsAt(l) = {"noShow"}
  /\ \A l \in {"freeBooked", "freeArrived", "defer"} : KindsAt(l) = {"defer"}
  /\ KindsAt("resume") = {"resume"}
  /\ \A l \in {"leaveRows", "leaveSitting", "leave"} : KindsAt(l) = {"withdraw"}
  /\ \A l \in {"skipSitting", "skipVisit", "skipArrived", "skipReady", "skip"} :
       KindsAt(l) = {"skip"}
  /\ \A l \in {"launch", "launched"} : KindsAt(l) = {"launch", "walkIn"}
  /\ \A l \in {"handIn", "handedIn"} : KindsAt(l) = {"handIn"}
  /\ \A l \in {"abandon", "unlaunch", "abandoned"} : KindsAt(l) = {"abandon"}
  BY DEF KindsAt

\* What a step of h leaves of the others' affairs.
Mine(h) ==
  \A g \in Handlers \ {h} :
    /\ call'[g] = call[g] /\ pc'[g] = pc[g] /\ who'[g] = who[g]
    /\ old'[g] = old[g] /\ new'[g] = new[g] /\ mem'[g] = mem[g]

LEMMA DoneMine ==
  ASSUME TypeInv, NEW h \in Handlers, Done(h)
  PROVE  Mine(h) /\ call'[h] = "none" /\ pc'[h] = "idle"
  BY DEF TypeInv, SelfOK, Mine, Done

LEMMA GotoMine ==
  ASSUME TypeInv, NEW h \in Handlers, NEW l, Goto(h, l)
  PROVE  /\ Mine(h) /\ call'[h] = call[h] /\ pc'[h] = l /\ who'[h] = who[h]
         /\ old'[h] = old[h] /\ new'[h] = new[h] /\ mem'[h] = mem[h]
  BY DEF TypeInv, SelfOK, Mine, Goto

LEMMA FoundMine ==
  ASSUME TypeInv, NEW h \in Handlers, NEW b, NEW l, Found(h, b, l)
  PROVE  /\ Mine(h) /\ call'[h] = call[h] /\ pc'[h] = l /\ who'[h] = who[h]
         /\ old'[h] = b /\ new'[h] = new[h] /\ mem'[h] = mem[h] /\ UNCHANGED <<db, crashes>>
  BY DEF TypeInv, SelfOK, Mine, Found

LEMMA BookMine ==
  ASSUME TypeInv, NEW h \in Handlers, NEW b \in Rows, BookSession(h, b)
  PROVE  /\ Mine(h) /\ call'[h] = call[h] /\ pc'[h] = "record" /\ who'[h] = who[h]
         /\ old'[h] = old[h] /\ new'[h] = b /\ mem'[h] = mem[h]
  BY DEF TypeInv, SelfOK, Mine, BookSession

LEMMA BeginMine ==
  ASSUME TypeInv, NEW h \in Handlers, NEW kind, NEW f, NEW b, NEW t, NEW l,
         Begin(h, kind, f, b, t, l)
  PROVE  /\ Mine(h) /\ call'[h] = kind /\ pc'[h] = l /\ who'[h] = f /\ old'[h] = b
         /\ new'[h] = new[h] /\ mem'[h].app = app[f] /\ mem'[h].target = t
         /\ mem'[h].round = (IF b = NoRow THEN 0 ELSE launches[b])
         /\ UNCHANGED <<db, crashes>>
  BY DEF TypeInv, SelfOK, Mine, Begin

\* A step that goes on as the same kind of invocation, or ends it.
LEMMA FlowStep ==
  ASSUME FlowInv, TypeInv', NEW h \in Handlers, ~At(h, "idle"), Mine(h),
         \/ call'[h] = "none" /\ pc'[h] = "idle"
         \/ call'[h] = call[h] /\ call[h] \in KindsAt(pc'[h]) /\ mem'[h] = mem[h],
         pc'[h] \in About => old'[h] \in Rows, pc'[h] # "resume",
         pc'[h] \in {"record", "unbook"} => new'[h] \in Rows
  PROVE  FlowInv'
  <1>1. "none" \notin Alone /\ "none" # "walkIn" /\ KindsAt("idle") = {"none"}
    BY CallAssumption, KindOfLabel DEF Kinds
  <1> QED
    BY <1>1 DEF FlowInv, AtKind, ByItself, WalkedIn, Rowed, Resumes, Mine, At

LEMMA DoneFlow ==
  ASSUME FlowInv, TypeInv', NEW h \in Handlers, ~At(h, "idle"), Done(h)
  PROVE  FlowInv' /\ Mine(h)
  BY FlowStep, DoneMine DEF FlowInv, About

LEMMA GotoFlow ==
  ASSUME FlowInv, TypeInv', NEW h \in Handlers, ~At(h, "idle"), NEW l, call[h] \in KindsAt(l),
         Goto(h, l), l \in About => pc[h] \in About,
         l \in {"record", "unbook"} => pc[h] = "record", l # "resume"
  PROVE  FlowInv' /\ Mine(h)
  BY FlowStep, GotoMine DEF FlowInv, Rowed

LEMMA FoundFlow ==
  ASSUME FlowInv, TypeInv', NEW h \in Handlers, ~At(h, "idle"), NEW l, call[h] \in KindsAt(l),
         NEW b \in LiveOf(who[h]), Found(h, b, l), l \notin {"record", "unbook", "resume"}
  PROVE  FlowInv' /\ Mine(h)
  <1>1. b \in Rows
    BY DEF LiveOf, Of
  <1> QED
    BY <1>1, FlowStep, FoundMine DEF FlowInv

\* No walk-in is booked: its session is not open.
LEMMA BookFlow ==
  ASSUME FlowInv, TypeInv', NEW h \in Handlers, At(h, "book") \/ At(h, "rebook"),
         NEW b \in Rows, BookSession(h, b)
  PROVE  FlowInv' /\ Mine(h) /\ call[h] # "walkIn"
  <1>1. call[h] \in {"book", "walkIn", "move"}
    BY KindOfLabel DEF FlowInv, AtKind, At
  <1>2. mem[h].target \in Sessions
    BY DEF FlowInv, TypeInv, DbOK, BookSession, CanBook, Vacant
  <1>3. call[h] # "walkIn"
    BY <1>2, SessionAssumption DEF FlowInv, WalkedIn, Sessions, WalkIn
  <1>4. call[h] \in KindsAt("record")
    BY <1>1, <1>3, KindOfLabel
  <1> QED
    BY <1>3, <1>4, FlowStep, BookMine DEF FlowInv, About, At

LEMMA BeginFlow ==
  ASSUME FlowInv, TypeInv', NEW h \in Handlers, NEW kind \in Kinds, NEW f, NEW b, NEW t, NEW l,
         Begin(h, kind, f, b, t, l), kind \in KindsAt(l), kind = "walkIn" => t = WalkIn,
         l \in About => b \in Rows, l \notin {"record", "unbook"},
         l = "resume" => t \in {"new_enquiry", "awaiting_decision"}
  PROVE  FlowInv' /\ Mine(h)
  <1>1. KindsAt("idle") = {"none"} /\ "none" \notin Kinds
    BY KindOfLabel DEF Kinds
  <1>2. /\ Mine(h) /\ call'[h] = kind /\ pc'[h] = l /\ old'[h] = b /\ mem'[h].target = t
    BY BeginMine DEF FlowInv
  <1>3. pc[h] = "idle" /\ (kind \in Alone => \A g \in Handlers : call[g] = "none")
    BY <1>1 DEF FlowInv, AtKind, Begin, At, Quiet
  <1>4. \A g \in Handlers : call[g] \notin Alone
    BY DEF Begin
  <1> QED
    BY <1>1, <1>2, <1>3, <1>4 DEF FlowInv, AtKind, ByItself, WalkedIn, Rowed, Resumes, Mine, At

LEMMA ChoosingFlow ==
  ASSUME FlowInv, TypeInv', NEW h \in Handlers, Choosing(h)
  PROVE  FlowInv' /\ Mine(h)
  <1>0. ~At(h, "idle") /\ call[h] \in KindsAt(pc[h])
    BY DEF Choosing, ReadToBook, ReadToMove, Complete, Book, Record, Unbook, Release, Rebook,
       PutBack, At, FlowInv, AtKind
  <1>1. CASE ReadToBook(h) \/ ReadToMove(h)
    BY <1>0, <1>1, KindOfLabel, SoleIsLive, DoneFlow, GotoFlow, FoundFlow DEF About, ReadToBook, ReadToMove
  <1>2. CASE Book(h) \/ Rebook(h)
    BY <1>0, <1>2, KindOfLabel, DoneFlow, GotoFlow, BookFlow DEF About, Book, Rebook, At
  <1>3. CASE Record(h)
    BY <1>0, <1>3, KindOfLabel, DoneFlow, GotoFlow DEF About, Record, At
  <1>4. CASE Complete(h) \/ Unbook(h) \/ Release(h) \/ PutBack(h)
    BY <1>0, <1>4, KindOfLabel, DoneFlow, GotoFlow DEF About, Complete, Unbook, Release, PutBack, At
  <1> QED
    BY <1>1, <1>2, <1>3, <1>4 DEF Choosing

LEMMA ArrivingFlow ==
  ASSUME FlowInv, TypeInv', NEW h \in Handlers, Cancelling(h) \/ Arriving(h) \/ Missing(h)
  PROVE  FlowInv' /\ Mine(h)
  <1>0. ~At(h, "idle") /\ call[h] \in KindsAt(pc[h])
    BY DEF Cancelling, ReadToCancel, Cancel, Cancelled, Arriving, ReadToCheckIn, Arrive, ArrivedAs,
       Missing, ReadToMiss, Miss, Missed, Unmiss, At, FlowInv, AtKind
  <1>1. CASE Cancelling(h)
    BY <1>0, <1>1, KindOfLabel, SoleIsLive, DoneFlow, GotoFlow, FoundFlow
    DEF About, Cancelling, ReadToCancel, Cancel, Cancelled, At
  <1>2. CASE Arriving(h)
    BY <1>0, <1>2, KindOfLabel, SoleIsLive, DoneFlow, GotoFlow, FoundFlow
    DEF About, Arriving, ReadToCheckIn, Arrive, ArrivedAs, Onward, At
  <1>3. CASE Missing(h)
    BY <1>0, <1>3, KindOfLabel, SoleIsLive, DoneFlow, GotoFlow, FoundFlow
    DEF About, Missing, ReadToMiss, Miss, Missed, Unmiss, At
  <1> QED
    BY <1>1, <1>2, <1>3

LEMMA FreeingFlow ==
  ASSUME FlowInv, TypeInv', NEW h \in Handlers, Deferring(h) \/ Leaving(h) \/ Skipping(h)
  PROVE  FlowInv' /\ Mine(h)
  <1>0. ~At(h, "idle") /\ call[h] \in KindsAt(pc[h])
    BY DEF Deferring, FreeBooked, FreeArrived, Defer, Resume, Leaving, LeaveRows, LeaveSitting,
       Leave, Skipping, SkipSitting, SkipVisit, SkipArrived, SkipReady, Skip, At, FlowInv, AtKind
  <1>1. CASE Deferring(h)
    BY <1>0, <1>1, KindOfLabel, DoneFlow, GotoFlow
    DEF About, Deferring, FreeBooked, FreeArrived, Defer, Resume, At
  <1>2. CASE Leaving(h)
    BY <1>0, <1>2, KindOfLabel, DoneFlow, GotoFlow DEF About, Leaving, LeaveRows, LeaveSitting, Leave, At
  <1>3. CASE Skipping(h)
    BY <1>0, <1>3, KindOfLabel, DoneFlow, GotoFlow
    DEF About, Skipping, SkipSitting, SkipVisit, SkipArrived, SkipReady, Skip, At
  <1> QED
    BY <1>1, <1>2, <1>3

LEMMA SittingFlow ==
  ASSUME FlowInv, TypeInv', NEW h \in Handlers, Sitting(h)
  PROVE  FlowInv' /\ Mine(h)
  <1>0. ~At(h, "idle") /\ call[h] \in KindsAt(pc[h])
    BY DEF Sitting, ReadToLaunch, ReadForWalkIn, Launch, Launched, HandIn, HandedIn, Abandon,
       Unlaunch, Abandoned, At, FlowInv, AtKind
  <1>1. CASE ReadToLaunch(h) \/ ReadForWalkIn(h)
    BY <1>0, <1>1, KindOfLabel, SoleIsLive, DoneFlow, GotoFlow, FoundFlow DEF About, ReadToLaunch, ReadForWalkIn
  <1>2. CASE Launch(h) \/ Launched(h)
    BY <1>0, <1>2, KindOfLabel, DoneFlow, GotoFlow DEF About, Launch, Launched, At
  <1>3. CASE HandIn(h) \/ HandedIn(h) \/ Abandon(h) \/ Unlaunch(h) \/ Abandoned(h)
    BY <1>0, <1>3, KindOfLabel, DoneFlow, GotoFlow
    DEF About, HandIn, HandedIn, Abandon, Unlaunch, Abandoned, At
  <1> QED
    BY <1>1, <1>2, <1>3 DEF Sitting

\* The label a kind starts at.
Start(kind) ==
  CASE kind = "defer" -> "freeBooked" [] kind = "resume" -> "resume"
    [] kind = "withdraw" -> "leaveRows" [] kind = "skip" -> "skipSitting"
    [] kind = "handIn" -> "handIn" [] kind = "abandon" -> "abandon" [] OTHER -> "live"

\* What is known of an invocation that begins.
Fit(kind, f, b, t) ==
  /\ kind = "handIn" => /\ b \in Rows /\ f = family[b] /\ attempt[b] # "none"
                        /\ LaunchFirst => ~BeingLaunched(b)
  /\ kind = "abandon" => b \in Rows /\ f = family[b] /\ attempt[b] \in {"ready", "in_progress"}
  /\ kind \notin {"handIn", "abandon"} => b = NoRow
  /\ kind = "walkIn" => t = WalkIn
  /\ kind = "resume" => t = StatusAfterDeferral(f)
  /\ kind = "defer" => CanTransition(app[f], "deferred")
  /\ kind = "skip" => app[f] \in SkipFrom

Begins(h) ==
  (\E f \in Families : CallFor(h, f)) \/ (\E b \in Rows : CallHandIn(h, b) \/ CallAbandon(h, b))

LEMMA StartAt ==
  /\ Start("defer") = "freeBooked" /\ Start("resume") = "resume"
  /\ Start("withdraw") = "leaveRows" /\ Start("skip") = "skipSitting"
  /\ Start("handIn") = "handIn" /\ Start("abandon") = "abandon"
  /\ \A kind \in {"book", "move", "cancel", "checkIn", "noShow", "launch", "walkIn"} :
       Start(kind) = "live"
  BY DEF Start

\* What an invocation may be asked for: a session, or where a deferral ends.
Targets == Sessions \cup {WalkIn, "none", "new_enquiry", "awaiting_decision"}

LEMMA Beginnings ==
  ASSUME TypeInv, NEW h \in Handlers, Begins(h)
  PROVE  \E kind \in Kinds, f \in Families, b \in Rows \cup {NoRow}, t \in Targets :
           Begin(h, kind, f, b, t, Start(kind)) /\ Fit(kind, f, b, t)
  <1> DEFINE Found1(kind, f, b, t) == Begin(h, kind, f, b, t, Start(kind)) /\ Fit(kind, f, b, t)
             Goal == \E kind \in Kinds, f \in Families, b \in Rows \cup {NoRow}, t \in Targets :
                       Found1(kind, f, b, t)
  <1>0. \A kind, f, b, t, l : Begin(h, kind, f, b, t, l) => kind \in Kinds
    BY CallAssumption DEF Begin
  <1>1. ASSUME NEW f \in Families, NEW kind \in {"book", "move"}, NEW s \in Sessions,
               CallChoose(h, kind, f, s)
        PROVE  Goal
    <2>1. Found1(kind, f, NoRow, s)
      BY <1>1, StartAt DEF CallChoose, Fit
    <2> QED
      BY <1>0, <1>1, <2>1 DEF Targets
  <1>2. ASSUME NEW f \in Families, NEW kind \in {"cancel", "checkIn", "noShow", "launch"},
               Begin(h, kind, f, NoRow, "none", "live")
        PROVE  Goal
    <2>1. Found1(kind, f, NoRow, "none")
      BY <1>2, StartAt DEF Fit
    <2> QED
      BY <1>0, <1>2, <2>1 DEF Targets
  <1>3. ASSUME NEW f \in Families, CallDefer(h, f) \/ CallWithdraw(h, f) \/ CallSkip(h, f)
        PROVE  Goal
    <2>1. \E kind \in {"defer", "withdraw", "skip"} : Found1(kind, f, NoRow, "none")
      BY <1>3, StartAt DEF CallDefer, CallWithdraw, CallSkip, Fit
    <2> QED
      BY <1>0, <1>3, <2>1 DEF Targets
  <1>4. ASSUME NEW f \in Families, CallWalkIn(h, f) PROVE Goal
    <2>1. Found1("walkIn", f, NoRow, WalkIn)
      BY <1>4, StartAt DEF CallWalkIn, Fit
    <2> QED
      BY <1>0, <1>4, <2>1 DEF Targets
  <1>5. ASSUME NEW f \in Families, CallResume(h, f) PROVE Goal
    <2>1. Found1("resume", f, NoRow, StatusAfterDeferral(f))
      BY <1>5, StartAt DEF CallResume, Fit
    <2>2. StatusAfterDeferral(f) \in Targets
      BY StatusAfter, StatusNames DEF Targets
    <2> QED
      BY <1>0, <1>5, <2>1, <2>2
  <1>6. ASSUME NEW b \in Rows, CallHandIn(h, b) \/ CallAbandon(h, b) PROVE Goal
    <2>1. \E kind \in {"handIn", "abandon"} : Found1(kind, family[b], b, "none")
      BY <1>6, StartAt DEF CallHandIn, CallAbandon, Fit
    <2>2. family[b] \in Families
      BY <1>6 DEF TypeInv, Owned, CallHandIn, CallAbandon
    <2> QED
      BY <1>0, <1>6, <2>1, <2>2 DEF Targets
  <1> HIDE DEF Found1, Goal
  <1>7. Goal
    BY <1>1, <1>2, <1>3, <1>4, <1>5, <1>6
    DEF Begins, CallFor, CallCancel, CallCheckIn, CallNoShow, CallLaunch
  <1> QED
    BY <1>7 DEF Goal, Found1

LEMMA BeginsFlow ==
  ASSUME FlowInv, TypeInv', NEW h \in Handlers, Begins(h)
  PROVE  FlowInv' /\ Mine(h)
  <1>1. PICK kind \in Kinds, f \in Families, b \in Rows \cup {NoRow}, t \in Targets :
          Begin(h, kind, f, b, t, Start(kind)) /\ Fit(kind, f, b, t)
    BY Beginnings DEF FlowInv
  <1>2. kind \in KindsAt(Start(kind)) /\ Start(kind) \notin {"record", "unbook"}
    BY KindOfLabel, StartAt DEF Kinds
  <1>3. (kind = "walkIn" => t = WalkIn) /\ (Start(kind) \in About => b \in Rows)
        /\ (Start(kind) = "resume" => t \in {"new_enquiry", "awaiting_decision"})
    BY <1>1, StartAt, StatusAfter, StatusNames DEF Fit, About, Kinds
  <1> QED
    BY <1>1, <1>2, <1>3, BeginFlow

\* The shapes of a step.
Shape ==
  \/ \E h \in Handlers : Step(h) \/ Crash(h) \/ Begins(h)
  \/ World /\ UNCHANGED self
  \/ UNCHANGED vars

LEMMA NextShape == [Next]_vars => Shape
  BY DEF Next, Shape, Begins, World, StartSitting, Mark, Decide, Close

LEMMA StepFlow ==
  ASSUME FlowInv, TypeInv', NEW h \in Handlers, Step(h) \/ Crash(h)
  PROVE  FlowInv' /\ Mine(h)
  <1>1. CASE Crash(h)
    BY <1>1, DoneFlow DEF Crash
  <1> QED
    BY <1>1, ChoosingFlow, ArrivingFlow, FreeingFlow, SittingFlow DEF Step

LEMMA NextFlow == FlowInv /\ [Next]_vars => FlowInv'
  <1> SUFFICES ASSUME FlowInv, [Next]_vars PROVE FlowInv'
    OBVIOUS
  <1>1. TypeInv' /\ Shape
    BY NextType, NextShape DEF FlowInv
  <1>2. CASE UNCHANGED self
    BY <1>1, <1>2 DEF FlowInv, AtKind, ByItself, WalkedIn, Rowed, Resumes, At, self
  <1>3. UNCHANGED vars => UNCHANGED self
    BY DEF vars
  <1> QED
    BY <1>1, <1>2, <1>3, StepFlow, BeginsFlow DEF Shape

LEMMA InitFlow == Init => FlowInv
  <1>1. "none" \notin Alone /\ KindsAt("idle") = {"none"}
    BY CallAssumption, KindOfLabel DEF Kinds
  <1> QED
    BY <1>1, InitType DEF Init, FlowInv, AtKind, ByItself, WalkedIn, Rowed, Resumes, At, About

LEMMA StepBusy ==
  ASSUME NEW h \in Handlers, Step(h) \/ Crash(h)
  PROVE  ~At(h, "idle")
  <1>1. CASE Choosing(h) \/ Cancelling(h)
    BY <1>1 DEF Choosing, ReadToBook, ReadToMove, Complete, Book, Record, Unbook, Release, Rebook,
       PutBack, Cancelling, ReadToCancel, Cancel, Cancelled, At
  <1>2. CASE Arriving(h) \/ Missing(h) \/ Deferring(h) \/ Leaving(h)
    BY <1>2 DEF Arriving, ReadToCheckIn, Arrive, ArrivedAs, Missing, ReadToMiss, Miss, Missed,
       Unmiss, Deferring, FreeBooked, FreeArrived, Defer, Resume, Leaving, LeaveRows, LeaveSitting,
       Leave, At
  <1>3. CASE Skipping(h) \/ Sitting(h)
    BY <1>3 DEF Skipping, SkipSitting, SkipVisit, SkipArrived, SkipReady, Skip, Sitting,
       ReadToLaunch, ReadForWalkIn, Launch, Launched, HandIn, HandedIn, Abandon, Unlaunch,
       Abandoned, At
  <1> QED
    BY <1>1, <1>2, <1>3 DEF Step, Crash

\* Nobody steps beside an invocation that is alone.
LEMMA NobodyAlone ==
  ASSUME FlowInv, NEW h \in Handlers, Step(h) \/ Crash(h) \/ Begins(h)
  PROVE  \A g \in Handlers \ {h} : call[g] \notin Alone
  <1>1. CASE Begins(h)
    BY <1>1, Beginnings DEF FlowInv, Begin
  <1>2. CASE ~At(h, "idle")
    <2>1. \A l \in PC : l # "idle" => "none" \notin KindsAt(l)
      BY DEF KindsAt, PC
    <2>2. call[h] # "none"
      BY <1>2, <2>1 DEF FlowInv, TypeInv, SelfOK, AtKind, At
    <2> QED
      BY <2>2 DEF FlowInv, ByItself
  <1> QED
    BY <1>1, <1>2, StepBusy

-----------------------------------------------------------------------------
(* A booking ends one of two ways.  The row itself keeps the two apart: a     *)
(* booking is missed only while nobody has arrived for it, and nothing        *)
(* revives it once the timeline says so.                                      *)

MovesAlone == {"move"} \cap Calls \subseteq Alone

AbsentStay == \A b \in Rows : status[b] = "no_show" => ~arrived[b]
AbsentTold == \A b \in Rows : "no_show" \in told[b] => status[b] = "no_show"
ArrivedTold == \A b \in Rows : "checked_in" \in told[b] => arrived[b]

Marking == {"missed", "unmiss"}
MarkedBy(h) ==
  /\ pc[h] \in Marking => status[old[h]] = "no_show" /\ "no_show" \notin told[old[h]]
  /\ pc[h] = "arrivedAs" => arrived[old[h]]
  /\ pc[h] = "release" => status[old[h]] \in Live
  /\ pc[h] \in {"rebook", "putBack"} => status[old[h]] = "rescheduled"
OneMarks == \A g, h \in Handlers : pc[g] \in Marking /\ pc[h] \in Marking /\ g # h => old[g] # old[h]

EndsInv ==
  /\ FlowInv /\ AbsentStay /\ AbsentTold /\ ArrivedTold /\ OneMarks
  /\ \A h \in Handlers : MarkedBy(h)

\* Nobody else is in the middle of a move.
NoMoveBeside(h) == \A g \in Handlers \ {h} : pc[g] \notin {"release", "rebook", "putBack"}

LEMMA NoMove ==
  ASSUME FlowInv, MovesAlone, NEW h \in Handlers, Step(h) \/ Crash(h) \/ Begins(h)
  PROVE  NoMoveBeside(h)
  <1>1. \A g \in Handlers : pc[g] \in {"release", "rebook", "putBack"} => call[g] = "move"
    BY KindOfLabel DEF FlowInv, AtKind
  <1>2. \A g \in Handlers : call[g] \in Calls \cup {"none"}
    BY DEF FlowInv, TypeInv, SelfOK
  <1> QED
    BY <1>1, <1>2, NobodyAlone DEF MovesAlone, NoMoveBeside

\* A step that leaves missed bookings missed, the rest as present as they were,
\* and the timeline's word of it.
Calm ==
  /\ arrived' = arrived
  /\ \A b \in Rows :
       /\ status'[b] = status[b] \/ (status[b] # "no_show" /\ status'[b] # "no_show")
       /\ "no_show" \in told'[b] <=> "no_show" \in told[b]
       /\ "checked_in" \in told'[b] <=> "checked_in" \in told[b]

LEMMA EndsStay ==
  ASSUME EndsInv, FlowInv', NEW h \in Handlers, Mine(h), NoMoveBeside(h), Calm,
         pc'[h] \in Marking \cup {"arrivedAs", "release", "rebook", "putBack"} => MarkedBy(h)',
         pc'[h] \in Marking => pc[h] \in Marking /\ old'[h] = old[h]
  PROVE  EndsInv'
  <1>1. AbsentStay' /\ AbsentTold' /\ ArrivedTold'
    BY DEF EndsInv, FlowInv, TypeInv, DbOK, Calm, AbsentStay, AbsentTold, ArrivedTold
  <1>2. OneMarks'
    BY DEF EndsInv, OneMarks, Mine
  <1>3. ASSUME NEW g \in Handlers \ {h} PROVE MarkedBy(g)'
    <2>1. pc[g] \in Marking \cup {"arrivedAs"} => old[g] \in Rows
      BY DEF EndsInv, FlowInv, Rowed, About, Marking
    <2> QED
      BY <2>1 DEF EndsInv, MarkedBy, Mine, NoMoveBeside, Calm, Marking
  <1>4. MarkedBy(h)'
    BY DEF MarkedBy, Marking
  <1> QED
    BY <1>1, <1>2, <1>3, <1>4 DEF EndsInv

\* Statements that are calm.
LEMMA QuietCalm == UNCHANGED db => Calm
  BY DEF db, rows, Calm

LEMMA RewriteCalm ==
  ASSUME NEW S, NEW s, RewriteOnly(S, s), s # "no_show", \A b \in S \cap Rows : status[b] # "no_show"
  PROVE  Calm
  BY DEF RewriteOnly, Rewrite, Calm

LEMMA CommitCalm ==
  ASSUME TypeInv, NEW h, NEW to, NEW b, NEW e,
         Commit(h, to, b, e) \/ Refused(h, to), e \notin {"checked_in", "no_show"} \/ b \notin Rows
  PROVE  Calm
  BY DEF TypeInv, DbOK, Commit, Refused, db, rows, Calm

LEMMA AbandonCalm ==
  ASSUME NEW h, NEW S, AbandonOf(h, S)
  PROVE  Calm
  BY DEF AbandonOf, Calm

LEMMA BookCalm ==
  ASSUME TypeInv, NEW h, NEW b \in Rows, BookSession(h, b)
  PROVE  Calm
  BY DEF TypeInv, DbOK, BookSession, CanBook, NextRow, Calm

\* A calm step to a statement where nothing is asked of the booking.
LEMMA CalmStep ==
  ASSUME EndsInv, FlowInv', NEW h \in Handlers, Mine(h), NoMoveBeside(h), Calm,
         pc'[h] \notin Marking \cup {"arrivedAs", "release", "rebook", "putBack"}
  PROVE  EndsInv'
  BY EndsStay

LEMMA ChoosingEnds ==
  ASSUME EndsInv, FlowInv', NEW h \in Handlers, Choosing(h), Mine(h), NoMoveBeside(h)
  PROVE  EndsInv'
  <1> USE DEF Marking
  <1>0. TypeInv /\ (pc[h] \in About => old[h] \in Rows) /\ MarkedBy(h)
    BY DEF EndsInv, FlowInv, Rowed
  <1>1. CASE ReadToBook(h) \/ Book(h) \/ Record(h)
    <2>1. Calm
      BY <1>0, <1>1, QuietCalm, CommitCalm, BookCalm DEF ReadToBook, Found, Book, Record
    <2>2. pc'[h] \in {"complete", "book", "record", "unbook", "idle"}
      BY <1>0, <1>1, DoneMine, GotoMine, FoundMine, BookMine DEF ReadToBook, Book, Record
    <2> QED
      BY <2>1, <2>2, CalmStep
  <1>2. CASE ReadToMove(h)
    <2>1. CASE Done(h)
      BY <1>0, <1>2, <2>1, DoneMine, QuietCalm, CalmStep DEF ReadToMove, Found
    <2>2. ASSUME NEW b \in LiveOf(who[h]), Found(h, b, "release") PROVE EndsInv'
      <3>1. Calm /\ pc'[h] = "release" /\ old'[h] = b /\ status' = status
        BY <1>0, <2>2, FoundMine, QuietCalm DEF db, rows
      <3>2. status[b] \in Live
        BY DEF LiveOf
      <3> QED
        BY <3>1, <3>2, EndsStay DEF MarkedBy
    <2> QED
      BY <1>2, <2>1, <2>2, SoleIsLive DEF ReadToMove
  <1>3. CASE Complete(h) \/ Unbook(h)
    <2>1. Calm
      BY <1>3, RewriteCalm DEF Complete, Unbook
    <2>2. pc'[h] \in {"book", "idle"}
      BY <1>0, <1>3, DoneMine, GotoMine DEF Complete, Unbook
    <2> QED
      BY <2>1, <2>2, CalmStep
  <1>4. CASE Release(h)
    <2>1. Calm
      BY <1>4, RewriteCalm DEF Release, Live
    <2>2. pc'[h] = "rebook" /\ old'[h] = old[h]
      BY <1>0, <1>4, GotoMine DEF Release
    <2>3. status'[old[h]] = "rescheduled"
      BY <1>0, <1>4 DEF Release, RewriteOnly, Rewrite, MarkedBy, About, At
    <2> QED
      BY <2>1, <2>2, <2>3, EndsStay DEF MarkedBy
  <1>5. CASE Rebook(h)
    <2>1. Calm
      BY <1>0, <1>5, QuietCalm, BookCalm DEF Rebook
    <2>2. pc'[h] = "record" \/ (pc'[h] = "putBack" /\ old'[h] = old[h] /\ status' = status)
      BY <1>0, <1>5, BookMine, GotoMine DEF Rebook, db, rows
    <2>3. status[old[h]] = "rescheduled"
      BY <1>0, <1>5 DEF Rebook, MarkedBy, At
    <2> QED
      BY <2>1, <2>2, <2>3, EndsStay DEF MarkedBy
  <1>6. CASE PutBack(h)
    <2>1. status[old[h]] = "rescheduled"
      BY <1>0, <1>6 DEF PutBack, MarkedBy, At
    <2>2. Calm
      BY <1>6, <2>1, RewriteCalm DEF PutBack
    <2> QED
      BY <1>0, <1>6, <2>2, DoneMine, CalmStep DEF PutBack
  <1> QED
    BY <1>1, <1>2, <1>3, <1>4, <1>5, <1>6 DEF Choosing

LEMMA ArrivingEnds ==
  ASSUME EndsInv, FlowInv', NEW h \in Handlers, Cancelling(h) \/ Arriving(h), Mine(h),
         NoMoveBeside(h)
  PROVE  EndsInv'
  <1> USE DEF Marking
  <1>0. TypeInv /\ (pc[h] \in About => old[h] \in Rows) /\ MarkedBy(h)
    BY DEF EndsInv, FlowInv, Rowed
  <1>1. CASE Cancelling(h)
    <2>1. Calm
      BY <1>0, <1>1, QuietCalm, RewriteCalm, CommitCalm, NoRowIsNoRow
      DEF Cancelling, ReadToCancel, Cancel, Cancelled, Found
    <2>2. pc'[h] \in {"cancel", "cancelled", "idle"}
      BY <1>0, <1>1, DoneMine, GotoMine, FoundMine DEF Cancelling, ReadToCancel, Cancel, Cancelled
    <2> QED
      BY <2>1, <2>2, CalmStep
  <1>2. CASE ReadToCheckIn(h)
    <2>1. Calm
      BY <1>2, QuietCalm DEF ReadToCheckIn, Found
    <2>2. pc'[h] \in {"arrive", "idle"}
      BY <1>0, <1>2, DoneMine, FoundMine DEF ReadToCheckIn
    <2> QED
      BY <2>1, <2>2, CalmStep
  <1>3. CASE Arrive(h)
    <2>1. CASE status[old[h]] # "booked"
      <3>1. Calm
        BY <1>3, <2>1 DEF Arrive, Calm
      <3> QED
        BY <1>0, <1>3, <2>1, <3>1, DoneMine, CalmStep DEF Arrive
    <2>2. CASE status[old[h]] = "booked"
      <3>1. old[h] \in Rows /\ pc'[h] = "arrivedAs" /\ old'[h] = old[h]
        BY <1>0, <1>3, <2>2, GotoMine DEF Arrive, About, At
      <3>2. /\ status' = [status EXCEPT ![old[h]] = "checked_in"]
            /\ arrived' = [arrived EXCEPT ![old[h]] = TRUE] /\ told' = told
        BY <1>3, <2>2 DEF Arrive
      <3>3. AbsentStay' /\ AbsentTold' /\ ArrivedTold'
        BY <1>0, <2>2, <3>1, <3>2 DEF EndsInv, TypeInv, DbOK, AbsentStay, AbsentTold, ArrivedTold
      <3>4. OneMarks'
        BY <3>1 DEF EndsInv, OneMarks, Mine
      <3>5. ASSUME NEW g \in Handlers \ {h} PROVE MarkedBy(g)'
        <4>1. pc[g] \in Marking \cup {"arrivedAs"} => old[g] \in Rows
          BY DEF EndsInv, FlowInv, Rowed, About
        <4> QED
          BY <1>0, <2>2, <3>1, <3>2, <4>1 DEF EndsInv, TypeInv, DbOK, MarkedBy, Mine, NoMoveBeside
      <3>6. MarkedBy(h)'
        BY <1>0, <3>1, <3>2 DEF MarkedBy, TypeInv, DbOK
      <3> QED
        BY <3>3, <3>4, <3>5, <3>6 DEF EndsInv
    <2> QED
      BY <2>1, <2>2
  <1>4. CASE ArrivedAs(h)
    <2>1. pc'[h] \in {"launch", "idle"}
      BY <1>0, <1>4, DoneMine, GotoMine DEF ArrivedAs, Onward
    <2>2. PICK to : \/ Commit(h, to, old[h], "checked_in")
                    \/ Refused(h, to)
      BY <1>4 DEF ArrivedAs
    <2>3. CASE Refused(h, to)
      BY <2>1, <2>3, QuietCalm, CalmStep DEF Refused
    <2>4. CASE Commit(h, to, old[h], "checked_in")
      <3>1. arrived[old[h]]
        BY <1>0, <1>4 DEF ArrivedAs, MarkedBy, At
      <3>2. /\ status' = status /\ arrived' = arrived
            /\ \A c \in Rows : /\ "no_show" \in told'[c] <=> "no_show" \in told[c]
                               /\ "checked_in" \in told'[c] => "checked_in" \in told[c] \/ c = old[h]
        BY <2>4 DEF Commit, rows
      <3>3. AbsentStay' /\ AbsentTold' /\ ArrivedTold'
        BY <3>1, <3>2 DEF EndsInv, AbsentStay, AbsentTold, ArrivedTold
      <3>4. OneMarks'
        BY <2>1 DEF EndsInv, OneMarks, Mine
      <3>5. ASSUME NEW g \in Handlers \ {h} PROVE MarkedBy(g)'
        <4>1. pc[g] \in Marking \cup {"arrivedAs"} => old[g] \in Rows
          BY DEF EndsInv, FlowInv, Rowed, About
        <4> QED
          BY <3>2, <4>1 DEF EndsInv, MarkedBy, Mine, NoMoveBeside
      <3>6. MarkedBy(h)'
        BY <2>1 DEF MarkedBy
      <3> QED
        BY <3>3, <3>4, <3>5, <3>6 DEF EndsInv
    <2> QED
      BY <2>2, <2>3, <2>4
  <1> QED
    BY <1>1, <1>2, <1>3, <1>4 DEF Arriving

\* A booking missed is nobody else's to mark, and not yet on the timeline.
LEMMA MissingEnds ==
  ASSUME EndsInv, FlowInv', NEW h \in Handlers, Missing(h), Mine(h), NoMoveBeside(h)
  PROVE  EndsInv'
  <1> USE DEF Marking
  <1>0. TypeInv /\ (pc[h] \in About => old[h] \in Rows) /\ MarkedBy(h)
    BY DEF EndsInv, FlowInv, Rowed
  <1>a. \A g \in Handlers : pc[g] \in Marking => old[g] \in Rows
    BY DEF EndsInv, FlowInv, Rowed, About
  <1>1. CASE ReadToMiss(h)
    <2>1. Calm
      BY <1>1, QuietCalm DEF ReadToMiss, Found
    <2>2. pc'[h] \in {"miss", "idle"}
      BY <1>0, <1>1, DoneMine, FoundMine DEF ReadToMiss
    <2> QED
      BY <2>1, <2>2, CalmStep
  <1>2. CASE Miss(h)
    <2>1. CASE Done(h) /\ UNCHANGED <<db, crashes>>
      BY <1>0, <2>1, DoneMine, QuietCalm, CalmStep
    <2>2. CASE status[old[h]] = "booked" /\ ~arrived[old[h]] /\ RewriteOnly({old[h]}, "no_show")
               /\ Goto(h, "missed")
      <3>1. old[h] \in Rows /\ pc'[h] = "missed" /\ old'[h] = old[h]
        BY <1>0, <1>2, <2>2, GotoMine DEF Miss, About, At
      <3>2. /\ told' = told /\ arrived' = arrived
            /\ \A c \in Rows : status'[c] = IF c = old[h] THEN "no_show" ELSE status[c]
        BY <2>2 DEF RewriteOnly, Rewrite
      <3>3. AbsentStay' /\ AbsentTold' /\ ArrivedTold'
        BY <2>2, <3>1, <3>2 DEF EndsInv, AbsentStay, AbsentTold, ArrivedTold
      <3>4. OneMarks'
        <4>1. \A g \in Handlers : pc[g] \in Marking => old[g] # old[h]
          BY <2>2 DEF EndsInv, MarkedBy
        <4> QED
          BY <3>1, <4>1 DEF EndsInv, OneMarks, Mine
      <3>5. ASSUME NEW g \in Handlers \ {h} PROVE MarkedBy(g)'
        BY <1>a, <3>2 DEF EndsInv, MarkedBy, Mine, NoMoveBeside
      <3>6. "no_show" \notin told[old[h]]
        BY <2>2, <3>1 DEF EndsInv, AbsentTold
      <3>7. MarkedBy(h)'
        BY <3>1, <3>2, <3>6 DEF MarkedBy
      <3> QED
        BY <3>3, <3>4, <3>5, <3>7 DEF EndsInv
    <2> QED
      BY <1>2, <2>1, <2>2 DEF Miss
  <1>3. CASE Missed(h)
    <2>1. PICK to : \/ Commit(h, to, old[h], "no_show") /\ Done(h)
                    \/ Refused(h, to) /\ Goto(h, "unmiss")
      BY <1>3 DEF Missed
    <2>2. old[h] \in Rows /\ status[old[h]] = "no_show" /\ "no_show" \notin told[old[h]]
      BY <1>0, <1>3 DEF Missed, About, At, MarkedBy
    <2>3. CASE Refused(h, to) /\ Goto(h, "unmiss")
      <3>1. Calm /\ pc'[h] = "unmiss" /\ old'[h] = old[h] /\ status' = status /\ told' = told
        BY <1>0, <2>3, GotoMine, QuietCalm DEF Refused, db, rows
      <3> QED
        BY <1>3, <2>2, <3>1, EndsStay DEF MarkedBy, Missed, At
    <2>4. CASE Commit(h, to, old[h], "no_show") /\ Done(h)
      <3>1. pc'[h] = "idle"
        BY <1>0, <2>4, DoneMine
      <3>2. /\ status' = status /\ arrived' = arrived
            /\ \A c \in Rows : /\ "checked_in" \in told'[c] <=> "checked_in" \in told[c]
                               /\ "no_show" \in told'[c] => "no_show" \in told[c] \/ c = old[h]
        BY <2>4 DEF Commit, rows
      <3>3. AbsentStay' /\ AbsentTold' /\ ArrivedTold'
        BY <2>2, <3>2 DEF EndsInv, AbsentStay, AbsentTold, ArrivedTold
      <3>4. OneMarks'
        BY <3>1 DEF EndsInv, OneMarks, Mine
      <3>5. ASSUME NEW g \in Handlers \ {h} PROVE MarkedBy(g)'
        <4>1. pc[g] \in Marking => old[g] # old[h]
          BY <1>3 DEF EndsInv, OneMarks, Missed, At
        <4> QED
          BY <1>a, <3>2, <4>1 DEF EndsInv, MarkedBy, Mine, NoMoveBeside
      <3>6. MarkedBy(h)'
        BY <3>1 DEF MarkedBy
      <3> QED
        BY <3>3, <3>4, <3>5, <3>6 DEF EndsInv
    <2> QED
      BY <2>1, <2>3, <2>4
  <1>4. CASE Unmiss(h)
    <2>1. pc'[h] = "idle"
      BY <1>0, <1>4, DoneMine DEF Unmiss
    <2>2. /\ told' = told /\ arrived' = arrived
          /\ \A c \in Rows : status'[c] = status[c] \/ (c = old[h] /\ status'[c] = "booked")
      BY <1>4 DEF Unmiss, RewriteOnly, Rewrite
    <2>3. "no_show" \notin told[old[h]]
      BY <1>0, <1>4 DEF Unmiss, At, MarkedBy
    <2>4. AbsentStay' /\ AbsentTold' /\ ArrivedTold'
      BY <2>2, <2>3 DEF EndsInv, AbsentStay, AbsentTold, ArrivedTold
    <2>5. OneMarks'
      BY <2>1 DEF EndsInv, OneMarks, Mine
    <2>6. ASSUME NEW g \in Handlers \ {h} PROVE MarkedBy(g)'
      <3>1. pc[g] \in Marking => old[g] # old[h]
        BY <1>4 DEF EndsInv, OneMarks, Unmiss, At
      <3> QED
        BY <1>a, <2>2, <3>1 DEF EndsInv, MarkedBy, Mine, NoMoveBeside
    <2>7. MarkedBy(h)'
      BY <2>1 DEF MarkedBy
    <2> QED
      BY <2>4, <2>5, <2>6, <2>7 DEF EndsInv
  <1> QED
    BY <1>1, <1>2, <1>3, <1>4 DEF Missing

LEMMA FreeingEnds ==
  ASSUME EndsInv, FlowInv', NEW h \in Handlers, Deferring(h) \/ Leaving(h) \/ Skipping(h),
         Mine(h), NoMoveBeside(h)
  PROVE  EndsInv'
  <1>0. TypeInv
    BY DEF EndsInv, FlowInv
  <1>1. Calm
    <2>1. CASE Deferring(h)
      <3>1. CASE FreeBooked(h) \/ FreeArrived(h)
        BY <3>1, RewriteCalm DEF FreeBooked, FreeArrived, RowsOf, SatFor
      <3>2. CASE Defer(h) \/ Resume(h)
        BY <3>2 DEF Defer, Resume, rows, Calm
      <3> QED
        BY <2>1, <3>1, <3>2 DEF Deferring
    <2>2. CASE Leaving(h)
      BY <1>0, <2>2, RewriteCalm, AbandonCalm, CommitCalm, NoRowIsNoRow
      DEF Leaving, LeaveRows, LeaveSitting, Leave, RowsOf, Live
    <2>3. CASE Skipping(h)
      <3>1. CASE SkipSitting(h) \/ SkipVisit(h) \/ SkipArrived(h)
        BY <3>1, RewriteCalm DEF SkipSitting, SkipVisit, SkipArrived, RowsOf, SatFor
      <3>2. CASE SkipReady(h) \/ Skip(h)
        BY <3>2, AbandonCalm DEF SkipReady, Skip, rows, Calm
      <3> QED
        BY <2>3, <3>1, <3>2 DEF Skipping
    <2> QED
      BY <2>1, <2>2, <2>3
  <1>2. pc'[h] \in { "idle", "freeArrived", "defer", "leaveSitting", "leave", "skipVisit",
                     "skipArrived", "skipReady", "skip" }
    BY <1>0, DoneMine, GotoMine
    DEF Deferring, FreeBooked, FreeArrived, Defer, Resume, Leaving, LeaveRows, LeaveSitting, Leave,
        Skipping, SkipSitting, SkipVisit, SkipArrived, SkipReady, Skip
  <1> QED
    BY <1>1, <1>2, CalmStep DEF Marking

LEMMA SittingEnds ==
  ASSUME EndsInv, FlowInv', NEW h \in Handlers, Sitting(h), Mine(h), NoMoveBeside(h)
  PROVE  EndsInv'
  <1>0. TypeInv /\ (pc[h] \in About => old[h] \in Rows)
    BY DEF EndsInv, FlowInv, Rowed
  <1>1. Calm
    <2>1. CASE ReadToLaunch(h) \/ ReadForWalkIn(h)
      BY <2>1, QuietCalm DEF ReadToLaunch, ReadForWalkIn, Found
    <2>2. CASE Launch(h)
      BY <1>0, <2>2 DEF Launch, CanLaunch, TypeInv, DbOK, paper, Calm
    <2>3. CASE Launched(h) \/ Abandon(h)
      BY <2>3 DEF Launched, Abandon, Calm
    <2>4. CASE HandIn(h)
      BY <2>4 DEF HandIn, Rewrite, Calm
    <2>5. CASE HandedIn(h) \/ Abandoned(h)
      BY <1>0, <2>5, CommitCalm DEF HandedIn, Abandoned
    <2>6. CASE Unlaunch(h)
      BY <2>6, RewriteCalm DEF Unlaunch
    <2> QED
      BY <2>1, <2>2, <2>3, <2>4, <2>5, <2>6 DEF Sitting
  <1>2. pc'[h] \in { "idle", "launch", "arrive", "book", "launched", "handedIn", "unlaunch",
                     "abandoned" }
    BY <1>0, DoneMine, GotoMine, FoundMine
    DEF Sitting, ReadToLaunch, ReadForWalkIn, Launch, Launched, HandIn, HandedIn, Abandon,
        Unlaunch, Abandoned
  <1> QED
    BY <1>1, <1>2, CalmStep DEF Marking

LEMMA BeginsEnds ==
  ASSUME EndsInv, FlowInv', NEW h \in Handlers, Begins(h), Mine(h), NoMoveBeside(h)
  PROVE  EndsInv'
  <1>0. TypeInv
    BY DEF EndsInv, FlowInv
  <1>1. PICK kind \in Kinds, f \in Families, b \in Rows \cup {NoRow}, t \in Targets :
          Begin(h, kind, f, b, t, Start(kind))
    BY <1>0, Beginnings
  <1>2. Start(kind) \notin Marking \cup {"arrivedAs", "release", "rebook", "putBack"}
    BY StartAt DEF Kinds, Marking
  <1> QED
    BY <1>0, <1>1, <1>2, BeginMine, QuietCalm, CalmStep

LEMMA WorldEnds ==
  ASSUME EndsInv, FlowInv', World \/ UNCHANGED vars, UNCHANGED self
  PROVE  EndsInv'
  <1>1. UNCHANGED <<status, arrived, told>>
    BY DEF World, StartSitting, Mark, Decide, Close, vars, db, rows
  <1> QED
    BY <1>1 DEF EndsInv, AbsentStay, AbsentTold, ArrivedTold, OneMarks, MarkedBy, self

LEMMA NextEnds == FlowInv' /\ EndsInv /\ MovesAlone /\ [Next]_vars => EndsInv'
  <1> SUFFICES ASSUME FlowInv', EndsInv, MovesAlone, [Next]_vars PROVE EndsInv'
    OBVIOUS
  <1>0. FlowInv /\ TypeInv' /\ Shape
    BY NextShape DEF EndsInv, FlowInv
  <1>1. ASSUME NEW h \in Handlers, Step(h) \/ Crash(h) PROVE EndsInv'
    <2>1. Mine(h) /\ NoMoveBeside(h)
      BY <1>0, <1>1, StepFlow, NoMove
    <2>2. CASE Crash(h)
      BY <1>0, <2>1, <2>2, DoneMine, QuietCalm, CalmStep DEF Crash, FlowInv, Marking
    <2> QED
      BY <1>1, <2>1, <2>2, ChoosingEnds, ArrivingEnds, MissingEnds, FreeingEnds, SittingEnds DEF Step
  <1>2. ASSUME NEW h \in Handlers, Begins(h) PROVE EndsInv'
    BY <1>0, <1>2, BeginsFlow, NoMove, BeginsEnds
  <1>3. UNCHANGED vars => UNCHANGED self
    BY DEF vars
  <1> QED
    BY <1>0, <1>1, <1>2, <1>3, WorldEnds DEF Shape

\* "A booking ends one of two ways and never both": whoever checks in, marks,
\* cancels, sits and is killed together, the timeline never says of one booking
\* both that the child came and that the child did not (onCheckedIn, onNoShow),
\* provided that a move, which puts its booking back by id, is alone.
THEOREM NeverBothEndsHolds ==
  ASSUME MovesAlone
  PROVE  Spec => []NeverBothEnds
  <1>1. Init /\ FlowInv => EndsInv
    BY DEF Init, EndsInv, AbsentStay, AbsentTold, ArrivedTold, OneMarks, MarkedBy, Marking
  <1>2. EndsInv => NeverBothEnds
    BY DEF EndsInv, AbsentStay, AbsentTold, ArrivedTold, NeverBothEnds
  <1> QED
    BY <1>1, <1>2, MovesAlone, InitFlow, NextFlow, NextEnds, PTL DEF Spec

-----------------------------------------------------------------------------
(* A child at the decision has a paper in, or a skip.  A paper handed in is   *)
(* never begun again, because its booking is never at the desk again; that is *)
(* where a move, which puts a booking back by id, would break it.             *)

NoMoves == "move" \notin Calls

Proper(f) == HasSat(f) \/ "skipped" \in notes[f]
Judged == {"assessment_completed", "awaiting_decision", "decided"}

\* Where the row is once it has an attempt, and once that is handed in.
Begun(b) == attempt[b] # "none" => status[b] \notin {"none", "booked", "no_show"}
Over(b) == attempt[b] = "submitted" => status[b] \notin {"checked_in", "in_progress"}
SeatsPaper == \A b \in Rows : Begun(b) /\ Over(b)

JudgedOn == \A f \in Assessed : app[f] \in Judged => Proper(f)
PausedOn == \A f \in Assessed : "paused" \in notes[f] => Proper(f)
SittingOf(h) ==
  /\ pc[h] \in {"handIn", "handedIn"} => attempt[old[h]] # "none" /\ family[old[h]] = who[h]
  /\ pc[h] = "handedIn" => attempt[old[h]] = "submitted"
  /\ pc[h] = "resume" /\ who[h] \in Assessed /\ mem[h].target = "awaiting_decision" => Proper(who[h])

PaperInv ==
  /\ FlowInv /\ SeatsPaper /\ JudgedOn /\ PausedOn
  /\ \A h \in Handlers : SittingOf(h)

\* What a step takes away from nobody.
PaperStays ==
  \A b \in Rows :
    /\ attempt[b] # "none" => attempt'[b] # "none" /\ family'[b] = family[b]
    /\ attempt[b] = "submitted" => attempt'[b] = "submitted"
SkipStays == \A f \in Families : "skipped" \in notes[f] => "skipped" \in notes'[f]

LEMMA ProperStays ==
  ASSUME PaperStays, SkipStays, NEW f \in Families, Proper(f)
  PROVE  Proper(f)'
  BY DEF PaperStays, SkipStays, Proper, HasSat, Of

\* Nobody is judged, or paused, anew without a paper.
JudgesNobody ==
  \A f \in Assessed :
    /\ app'[f] \in Judged => app[f] \in Judged \/ Proper(f)'
    /\ "paused" \in notes'[f] => "paused" \in notes[f] \/ Proper(f)'

LEMMA PaperStep ==
  ASSUME PaperInv, FlowInv', NEW h \in Handlers, Mine(h), PaperStays, SkipStays, JudgesNobody,
         SeatsPaper', SittingOf(h)'
  PROVE  PaperInv'
  <1>1. JudgedOn' /\ PausedOn'
    BY ProperStays, FamilyAssumption DEF PaperInv, JudgedOn, PausedOn, JudgesNobody
  <1>2. ASSUME NEW g \in Handlers \ {h} PROVE SittingOf(g)'
    <2>1. pc[g] \in {"handIn", "handedIn"} => old[g] \in Rows
      BY DEF PaperInv, FlowInv, Rowed, About
    <2>2. SittingOf(g) /\ pc'[g] = pc[g] /\ old'[g] = old[g] /\ who'[g] = who[g] /\ mem'[g] = mem[g]
      BY DEF PaperInv, Mine
    <2> QED
      BY <2>1, <2>2, ProperStays, FamilyAssumption DEF SittingOf, PaperStays
  <1> QED
    BY <1>1, <1>2 DEF PaperInv

\* A step that touches neither the rows' papers nor the timelines' notes.
LEMMA SamePapers ==
  ASSUME SeatsPaper, UNCHANGED <<family, attempt, notes>>,
         \A b \in Rows : \/ status'[b] = status[b]
                         \/ status'[b] \in {"cancelled", "completed"}
                         \/ attempt[b] = "none"
                         \/ status[b] = "in_progress" /\ status'[b] = "checked_in"
  PROVE  PaperStays /\ SkipStays /\ SeatsPaper'
  BY DEF SeatsPaper, Begun, Over, PaperStays, SkipStays

LEMMA NotJudged ==
  ASSUME UNCHANGED notes, \A f \in Families : app'[f] \in Judged => (f \in Assessed => app[f] \in Judged)
  PROVE  JudgesNobody
  BY FamilyAssumption DEF JudgesNobody

\* Where a commit leads without a paper.
LEMMA CommitJudges ==
  ASSUME TypeInv, NEW h \in Handlers, NEW to, NEW b, NEW e, Commit(h, to, b, e) \/ Refused(h, to),
         to \in Judged /\ who[h] \in Assessed => mem[h].app \in Judged
  PROVE  JudgesNobody /\ UNCHANGED <<family, attempt, notes, status>>
  <1>1. UNCHANGED <<family, attempt, notes, status>>
    BY DEF Commit, Refused, db, rows, paper
  <1>2. \A f \in Families : app'[f] \in Judged => (f \in Assessed => app[f] \in Judged)
    BY DEF TypeInv, DbOK, Commit, Refused, db
  <1> QED
    BY <1>1, <1>2, NotJudged

LEMMA LeadsNowhere ==
  ASSUME NEW a, NEW k, NEW f
  PROVE  /\ StatusAfterBooking(a, k) \in Judged => a \in Judged
         /\ StatusAfterCancellation(a) \in Judged => a \in Judged
         /\ f \in Assessed /\ StatusAfterVisitArrival(a, f) \in Judged => a \in Judged
  BY DEF StatusAfterBooking, StatusAfterCancellation, StatusAfterVisitArrival, Judged

LEMMA RewriteSame ==
  ASSUME NEW S, NEW s, RewriteOnly(S, s)
  PROVE  /\ UNCHANGED <<family, attempt, notes, app>>
         /\ \A b \in Rows : status'[b] = IF b \in S THEN s ELSE status[b]
  BY DEF RewriteOnly, Rewrite, paper

LEMMA QuietSame ==
  ASSUME UNCHANGED db
  PROVE  UNCHANGED <<family, attempt, notes, app, status>>
  BY DEF db, rows, paper

\* A step of those kinds, to a statement that asks nothing of the paper.
Asking == {"handIn", "handedIn", "resume"}
LEMMA PlainStep ==
  ASSUME PaperInv, FlowInv', NEW h \in Handlers, Mine(h), pc'[h] \notin Asking,
         UNCHANGED <<family, attempt, notes>>, JudgesNobody,
         \A b \in Rows : \/ status'[b] = status[b]
                         \/ status'[b] \in {"cancelled", "completed"}
                         \/ attempt[b] = "none"
                         \/ status[b] = "in_progress" /\ status'[b] = "checked_in"
  PROVE  PaperInv'
  <1>1. PaperStays /\ SkipStays /\ SeatsPaper'
    BY SamePapers DEF PaperInv
  <1>2. SittingOf(h)'
    BY DEF SittingOf, Asking
  <1> QED
    BY <1>1, <1>2, PaperStep

LEMMA NobodyMoves ==
  ASSUME FlowInv, NoMoves, NEW h \in Handlers
  PROVE  ~At(h, "release") /\ ~At(h, "rebook") /\ ~At(h, "putBack") /\ call[h] # "move"
  <1>1. call[h] \in Calls \cup {"none"} /\ call[h] \in KindsAt(pc[h])
    BY DEF FlowInv, TypeInv, SelfOK, AtKind
  <1> QED
    BY <1>1, KindOfLabel DEF NoMoves, At

LEMMA ChoosingPaper ==
  ASSUME PaperInv, FlowInv', NoMoves, NEW h \in Handlers, Choosing(h), Mine(h)
  PROVE  PaperInv'
  <1> USE DEF Asking
  <1>0. TypeInv /\ FlowInv /\ SeatsPaper
    BY DEF PaperInv, FlowInv
  <1>1. CASE ReadToBook(h)
    <2>1. UNCHANGED db
      BY <1>1 DEF ReadToBook, Found
    <2>2. pc'[h] \in {"complete", "book", "idle"}
      BY <1>0, <1>1, DoneMine, GotoMine, FoundMine DEF ReadToBook
    <2> QED
      BY <2>1, <2>2, QuietSame, NotJudged, PlainStep
  <1>2. CASE Book(h)
    <2>1. CASE Done(h) /\ UNCHANGED <<db, crashes>>
      BY <1>0, <2>1, DoneMine, QuietSame, NotJudged, PlainStep
    <2>2. ASSUME NEW b \in Rows, BookSession(h, b) PROVE PaperInv'
      <3>1. status[b] = "none" /\ attempt[b] = "none"
        BY <1>0, <2>2 DEF BookSession, CanBook, NextRow, SeatsPaper, Begun
      <3>2. /\ UNCHANGED <<attempt, notes, app>>
            /\ \A c \in Rows \ {b} : family'[c] = family[c] /\ status'[c] = status[c]
        BY <1>0, <2>2 DEF BookSession, TypeInv, DbOK, paper
      <3>3. PaperStays /\ SkipStays /\ SeatsPaper' /\ JudgesNobody
        BY <1>0, <3>1, <3>2, NotJudged DEF PaperStays, SkipStays, SeatsPaper, Begun, Over
      <3>4. SittingOf(h)'
        BY <1>0, <2>2, BookMine DEF SittingOf
      <3> QED
        BY <3>3, <3>4, PaperStep
    <2> QED
      BY <1>2, <2>1, <2>2 DEF Book
  <1>3. CASE Record(h)
    <2> DEFINE to == StatusAfterBooking(mem[h].app, Kind(mem[h].target))
    <2>1. to \in Judged => mem[h].app \in Judged
      BY LeadsNowhere
    <2>2. Commit(h, to, new[h], "created") \/ Refused(h, to)
      BY <1>3 DEF Record
    <2>3. pc'[h] \in {"unbook", "idle"}
      BY <1>0, <1>3, DoneMine, GotoMine DEF Record
    <2> HIDE DEF to
    <2> QED
      BY <1>0, <2>1, <2>2, <2>3, CommitJudges, PlainStep
  <1>4. CASE Complete(h) \/ Unbook(h)
    <2>1. /\ UNCHANGED <<family, attempt, notes, app>>
          /\ \A b \in Rows : status'[b] = status[b] \/ status'[b] \in {"completed", "cancelled"}
      BY <1>4, RewriteSame DEF Complete, Unbook
    <2>2. pc'[h] \in {"book", "idle"}
      BY <1>0, <1>4, DoneMine, GotoMine DEF Complete, Unbook
    <2> QED
      BY <2>1, <2>2, NotJudged, PlainStep
  <1>5. ~ReadToMove(h) /\ ~Release(h) /\ ~Rebook(h) /\ ~PutBack(h)
    BY <1>0, NobodyMoves DEF ReadToMove, Release, Rebook, PutBack
  <1> QED
    BY <1>1, <1>2, <1>3, <1>4, <1>5 DEF Choosing

LEMMA ArrivingPaper ==
  ASSUME PaperInv, FlowInv', NEW h \in Handlers, Cancelling(h) \/ Arriving(h), Mine(h)
  PROVE  PaperInv'
  <1> USE DEF Asking
  <1>0. TypeInv /\ FlowInv /\ SeatsPaper /\ (pc[h] \in About => old[h] \in Rows)
    BY DEF PaperInv, FlowInv, Rowed
  <1>1. CASE ReadToCancel(h) \/ ReadToCheckIn(h)
    <2>1. UNCHANGED db
      BY <1>1 DEF ReadToCancel, ReadToCheckIn, Found
    <2>2. pc'[h] \in {"cancel", "arrive", "idle"}
      BY <1>0, <1>1, DoneMine, FoundMine DEF ReadToCancel, ReadToCheckIn
    <2> QED
      BY <2>1, <2>2, QuietSame, NotJudged, PlainStep
  <1>2. CASE Cancel(h)
    BY <1>0, <1>2, GotoMine, RewriteSame, NotJudged, PlainStep DEF Cancel
  <1>3. CASE Cancelled(h)
    <2> DEFINE to == StatusAfterCancellation(mem[h].app)
    <2>1. to \in Judged => mem[h].app \in Judged
      BY LeadsNowhere
    <2>2. (Commit(h, to, NoRow, "none") \/ Refused(h, to)) /\ Done(h)
      BY <1>3 DEF Cancelled
    <2> HIDE DEF to
    <2> QED
      BY <1>0, <2>1, <2>2, DoneMine, CommitJudges, PlainStep
  <1>4. CASE Arrive(h)
    <2>1. UNCHANGED <<family, attempt, notes, app>>
      BY <1>4 DEF Arrive, paper
    <2>2. \A b \in Rows : status'[b] = status[b] \/ attempt[b] = "none"
      BY <1>0, <1>4 DEF Arrive, TypeInv, DbOK, SeatsPaper, Begun
    <2>3. pc'[h] \in {"arrivedAs", "idle"}
      BY <1>0, <1>4, DoneMine, GotoMine DEF Arrive
    <2> QED
      BY <2>1, <2>2, <2>3, NotJudged, PlainStep
  <1>5. CASE ArrivedAs(h)
    <2> DEFINE to == IF KindOf(old[h]) = "visit"
                       THEN StatusAfterVisitArrival(mem[h].app, who[h]) ELSE mem[h].app
    <2>1. to \in Judged /\ who[h] \in Assessed => mem[h].app \in Judged
      BY LeadsNowhere
    <2>2. Commit(h, to, old[h], "checked_in") \/ Refused(h, to)
      BY <1>5 DEF ArrivedAs
    <2>3. pc'[h] \in {"launch", "idle"}
      BY <1>0, <1>5, DoneMine, GotoMine DEF ArrivedAs, Onward
    <2> HIDE DEF to
    <2> QED
      BY <1>0, <2>1, <2>2, <2>3, CommitJudges, PlainStep
  <1> QED
    BY <1>1, <1>2, <1>3, <1>4, <1>5 DEF Cancelling, Arriving

LEMMA MissingPaper ==
  ASSUME PaperInv, FlowInv', NEW h \in Handlers, Missing(h), Mine(h)
  PROVE  PaperInv'
  <1> USE DEF Asking
  <1>0. TypeInv /\ FlowInv /\ SeatsPaper
    BY DEF PaperInv, FlowInv
  <1>1. CASE ReadToMiss(h)
    BY <1>0, <1>1, DoneMine, FoundMine, QuietSame, NotJudged, PlainStep DEF ReadToMiss
  <1>2. CASE Miss(h) \/ Unmiss(h)
    <2>1. UNCHANGED <<family, attempt, notes, app>>
      BY <1>2, RewriteSame, QuietSame DEF Miss, Unmiss
    <2>2. \A b \in Rows : status'[b] = status[b] \/ attempt[b] = "none"
      <3>1. \A b \in Rows : status[b] \in {"booked", "no_show"} => attempt[b] = "none"
        BY <1>0 DEF SeatsPaper, Begun
      <3>2. \A b \in Rows : status'[b] = status[b] \/ status[b] \in {"booked", "no_show"}
        BY <1>2, RewriteSame, QuietSame DEF Miss, Unmiss
      <3> QED
        BY <3>1, <3>2
    <2>3. pc'[h] \in {"missed", "idle"}
      BY <1>0, <1>2, DoneMine, GotoMine DEF Miss, Unmiss
    <2> QED
      BY <2>1, <2>2, <2>3, NotJudged, PlainStep
  <1>3. CASE Missed(h)
    <2> DEFINE to == IF KindOf(old[h]) = "visit" THEN StatusAfterCancellation(mem[h].app)
                     ELSE "no_show"
    <2>1. to \in Judged => mem[h].app \in Judged
      BY LeadsNowhere DEF Judged
    <2>2. Commit(h, to, old[h], "no_show") \/ Refused(h, to)
      BY <1>3 DEF Missed
    <2>3. pc'[h] \in {"unmiss", "idle"}
      BY <1>0, <1>3, DoneMine, GotoMine DEF Missed
    <2> HIDE DEF to
    <2> QED
      BY <1>0, <2>1, <2>2, <2>3, CommitJudges, PlainStep
  <1> QED
    BY <1>1, <1>2, <1>3 DEF Missing

LEMMA FreeingPaper ==
  ASSUME PaperInv, FlowInv', NEW h \in Handlers, Deferring(h) \/ Leaving(h) \/ Skipping(h),
         Mine(h)
  PROVE  PaperInv'
  <1> USE DEF Asking
  <1>0. TypeInv /\ FlowInv /\ SeatsPaper /\ (~At(h, "idle") => who[h] \in Families)
    BY DEF PaperInv, FlowInv, TypeInv, Known
  <1>1. pc'[h] \notin Asking
    BY <1>0, DoneMine, GotoMine
    DEF Deferring, FreeBooked, FreeArrived, Defer, Resume, Leaving, LeaveRows, LeaveSitting, Leave,
        Skipping, SkipSitting, SkipVisit, SkipArrived, SkipReady, Skip
  <1>2. CASE \/ FreeBooked(h) \/ FreeArrived(h) \/ LeaveRows(h) \/ SkipSitting(h)
             \/ SkipVisit(h) \/ SkipArrived(h)
    <2>1. /\ UNCHANGED <<family, attempt, notes, app>>
          /\ \A b \in Rows : status'[b] = status[b] \/ status'[b] = "cancelled"
      BY <1>2, RewriteSame DEF FreeBooked, FreeArrived, LeaveRows, SkipSitting, SkipVisit, SkipArrived
    <2> QED
      BY <1>1, <2>1, NotJudged, PlainStep
  <1>3. CASE LeaveSitting(h) \/ SkipReady(h)
    <2>1. PICK S \in {{"ready", "in_progress"}, {"ready"}} : AbandonOf(h, S)
      BY <1>3 DEF LeaveSitting, SkipReady
    <2>2. UNCHANGED <<family, notes, app, status>>
      BY <2>1 DEF AbandonOf
    <2>3. PaperStays /\ SkipStays /\ SeatsPaper'
      BY <1>0, <2>1, <2>2 DEF AbandonOf, PaperStays, SkipStays, SeatsPaper, Begun, Over
    <2>4. JudgesNobody
      BY <2>2, NotJudged
    <2>5. SittingOf(h)'
      BY <1>1 DEF SittingOf
    <2> QED
      BY <2>3, <2>4, <2>5, PaperStep
  <1>4. CASE Leave(h)
    <2>1. Commit(h, "withdrawn", NoRow, "none") \/ Refused(h, "withdrawn")
      BY <1>4 DEF Leave
    <2> QED
      BY <1>0, <1>1, <2>1, CommitJudges, PlainStep DEF Judged
  <1>5. CASE Defer(h) \/ Resume(h) \/ Skip(h)
    <2>1. UNCHANGED <<family, attempt, status>> /\ ~At(h, "idle")
      BY <1>5 DEF Defer, Resume, Skip, rows, paper, At
    <2>2. SkipStays
      BY <1>0, <1>5 DEF Defer, Resume, Skip, SkipStays, TypeInv, DbOK
    <2>3. PaperStays /\ SeatsPaper'
      BY <1>0, <2>1 DEF PaperStays, SeatsPaper, Begun, Over
    <2>4. SittingOf(h)'
      BY <1>1 DEF SittingOf
    <2>5. JudgesNobody
      <3> SUFFICES ASSUME NEW f \in Assessed
                   PROVE  /\ app'[f] \in Judged => app[f] \in Judged \/ Proper(f)'
                          /\ "paused" \in notes'[f] => "paused" \in notes[f] \/ Proper(f)'
        BY DEF JudgesNobody
      <3>1. f \in Families /\ (Proper(f) => Proper(f)')
        BY <2>2, <2>3, ProperStays, FamilyAssumption
      <3>2. CASE who[h] # f
        BY <1>0, <1>5, <3>1, <3>2 DEF Defer, Resume, Skip, TypeInv, DbOK
      <3>3. CASE who[h] = f
        <4>1. CASE Defer(h)
          <5>1. app'[f] = app[f] \/ app'[f] = "deferred"
            BY <1>0, <3>1, <3>3, <4>1 DEF Defer, TypeInv, DbOK
          <5>2. "paused" \in notes'[f] => "paused" \in notes[f] \/ app[f] = "awaiting_decision"
            BY <1>0, <3>1, <3>3, <4>1 DEF Defer, TypeInv, DbOK
          <5>3. app[f] = "awaiting_decision" => Proper(f)
            BY DEF PaperInv, JudgedOn, Judged
          <5> QED
            BY <3>1, <5>1, <5>2, <5>3 DEF Judged
        <4>2. CASE Resume(h)
          <5>1. notes' = notes /\ app'[f] \in {app[f], mem[h].target}
            BY <1>0, <3>1, <3>3, <4>2 DEF Resume, TypeInv, DbOK
          <5>2. mem[h].target = "awaiting_decision" => Proper(f)
            BY <3>3, <4>2 DEF PaperInv, SittingOf, Resume, At
          <5>3. mem[h].target \notin {"assessment_completed", "decided"}
            <6>1. mem[h].target \in Sessions \cup {WalkIn, "none", "new_enquiry", "awaiting_decision"}
              BY <1>0, MemoryFields DEF TypeInv, SelfOK
            <6>2. mem[h].target \in {"new_enquiry", "awaiting_decision"}
              BY <4>2 DEF PaperInv, FlowInv, Resumes, Resume, At
            <6> QED
              BY <6>2
          <5> QED
            BY <3>1, <5>1, <5>2, <5>3 DEF Judged
        <4>3. CASE Skip(h)
          <5>1. app'[f] = app[f] \/ "skipped" \in notes'[f]
            BY <1>0, <3>1, <3>3, <4>3 DEF Skip, TypeInv, DbOK
          <5>2. "paused" \in notes'[f] => "paused" \in notes[f]
            BY <1>0, <3>1, <3>3, <4>3 DEF Skip, TypeInv, DbOK
          <5> QED
            BY <5>1, <5>2 DEF Proper
        <4> QED
          BY <1>5, <4>1, <4>2, <4>3
      <3> QED
        BY <3>2, <3>3
    <2> QED
      BY <2>2, <2>3, <2>4, <2>5, PaperStep
  <1> QED
    BY <1>2, <1>3, <1>4, <1>5 DEF Deferring, Leaving, Skipping

LEMMA SittingPaper ==
  ASSUME PaperInv, FlowInv', NEW h \in Handlers, Sitting(h), Mine(h)
  PROVE  PaperInv'
  <1> USE DEF Asking
  <1>0. TypeInv /\ FlowInv /\ SeatsPaper /\ (pc[h] \in About => old[h] \in Rows) /\ SittingOf(h)
    BY DEF PaperInv, FlowInv, Rowed
  <1>1. CASE ReadToLaunch(h) \/ ReadForWalkIn(h)
    <2>1. UNCHANGED db
      BY <1>1 DEF ReadToLaunch, ReadForWalkIn, Found
    <2>2. pc'[h] \in {"launch", "arrive", "book", "idle"}
      BY <1>0, <1>1, DoneMine, GotoMine, FoundMine DEF ReadToLaunch, ReadForWalkIn
    <2> QED
      BY <2>1, <2>2, QuietSame, NotJudged, PlainStep
  <1>2. CASE Launch(h) \/ Abandon(h)
    <2>1. UNCHANGED <<family, notes, app>> /\ pc'[h] \notin Asking /\ old[h] \in Rows
      BY <1>0, <1>2, DoneMine, GotoMine DEF Launch, Abandon, About, At
    <2>2. PaperStays /\ SeatsPaper'
      <3>1. CASE Launch(h)
        BY <1>0, <2>1, <3>1
        DEF Launch, CanLaunch, TypeInv, DbOK, paper, PaperStays, SeatsPaper, Begun, Over
      <3>2. CASE Abandon(h)
        BY <1>0, <2>1, <3>2
        DEF Abandon, SameOpen, TypeInv, DbOK, PaperStays, SeatsPaper, Begun, Over
      <3> QED
        BY <1>2, <3>1, <3>2
    <2>3. SkipStays /\ JudgesNobody
      BY <2>1, NotJudged DEF SkipStays
    <2>4. SittingOf(h)'
      BY <2>1 DEF SittingOf
    <2> QED
      BY <2>2, <2>3, <2>4, PaperStep
  <1>3. CASE Launched(h)
    <2>1. UNCHANGED <<family, attempt, notes, status>>
      BY <1>3 DEF Launched
    <2>2. \A f \in Families : app'[f] \in Judged => app[f] \in Judged
      BY <1>0, <1>3 DEF Launched, TypeInv, DbOK, Judged
    <2> QED
      BY <1>0, <1>3, <2>1, <2>2, DoneMine, NotJudged, PlainStep DEF Launched
  <1>4. CASE HandIn(h)
    <2>1. CASE ~SameOpen(h, old[h])
      <3>1. UNCHANGED <<family, attempt, notes, status, app>> /\ pc'[h] = "idle"
        BY <1>0, <1>4, <2>1, DoneMine DEF HandIn
      <3> QED
        BY <3>1, NotJudged, PlainStep
    <2>2. CASE SameOpen(h, old[h])
      <3>1. /\ UNCHANGED <<family, notes, app>> /\ old[h] \in Rows
            /\ pc'[h] = "handedIn" /\ old'[h] = old[h] /\ who'[h] = who[h]
        BY <1>0, <1>4, <2>2, GotoMine DEF HandIn, About, At
      <3>2. /\ attempt' = [attempt EXCEPT ![old[h]] = "submitted"]
            /\ \A b \in Rows : IF b = old[h] /\ status[b] \in {"checked_in", "in_progress"}
                                 THEN status'[b] = "completed" ELSE status'[b] = status[b]
        BY <1>4, <2>2 DEF HandIn, Rewrite
      <3>3. attempt[old[h]] \in {"ready", "in_progress"} /\ family[old[h]] = who[h]
        BY <1>0, <1>4, <2>2 DEF SameOpen, HandIn, SittingOf, At
      <3>4. PaperStays /\ SeatsPaper'
        BY <1>0, <3>1, <3>2, <3>3 DEF TypeInv, DbOK, PaperStays, SeatsPaper, Begun, Over
      <3>5. SkipStays /\ JudgesNobody
        BY <3>1, NotJudged DEF SkipStays
      <3>6. SittingOf(h)'
        BY <1>0, <3>1, <3>2, <3>3 DEF TypeInv, DbOK, SittingOf
      <3> QED
        BY <3>4, <3>5, <3>6, PaperStep
    <2> QED
      BY <2>1, <2>2
  <1>5. CASE HandedIn(h)
    <2>1. Commit(h, "assessment_completed", old[h], "completed") \/ Refused(h, "assessment_completed")
      BY <1>5 DEF HandedIn
    <2>2. UNCHANGED <<family, attempt, notes, status>>
      BY <2>1 DEF Commit, Refused, db, rows, paper
    <2>3. \A f \in Families : app'[f] \in Judged => app[f] \in Judged \/ f = who[h]
      BY <1>0, <2>1 DEF Commit, Refused, db, TypeInv, DbOK
    <2>4. old[h] \in Rows /\ attempt[old[h]] = "submitted" /\ family[old[h]] = who[h]
      BY <1>0, <1>5 DEF HandedIn, About, At, SittingOf
    <2>5. \A f : f = who[h] => Proper(f)'
      BY <2>2, <2>4 DEF Proper, HasSat, Of
    <2>6. JudgesNobody
      BY <2>2, <2>3, <2>5, FamilyAssumption DEF JudgesNobody
    <2> QED
      BY <1>0, <1>5, <2>2, <2>6, DoneMine, PlainStep DEF HandedIn
  <1>6. CASE Unlaunch(h)
    <2>1. /\ UNCHANGED <<family, attempt, notes, app>>
          /\ \A b \in Rows : \/ status'[b] = status[b]
                             \/ status[b] = "in_progress" /\ status'[b] = "checked_in"
      BY <1>6, RewriteSame DEF Unlaunch
    <2> QED
      BY <1>0, <1>6, <2>1, GotoMine, NotJudged, PlainStep DEF Unlaunch
  <1>7. CASE Abandoned(h)
    <2>1. Commit(h, "assessment_booked", NoRow, "none") \/ Refused(h, "assessment_booked")
      BY <1>7 DEF Abandoned
    <2> QED
      BY <1>0, <1>7, <2>1, DoneMine, CommitJudges, PlainStep DEF Abandoned, Judged
  <1> QED
    BY <1>1, <1>2, <1>3, <1>4, <1>5, <1>6, <1>7 DEF Sitting

LEMMA BeginsPaper ==
  ASSUME PaperInv, FlowInv', NEW h \in Handlers, Begins(h), Mine(h)
  PROVE  PaperInv'
  <1>0. TypeInv
    BY DEF PaperInv, FlowInv
  <1>1. PICK kind \in Kinds, f \in Families, b \in Rows \cup {NoRow}, t \in Targets :
          Begin(h, kind, f, b, t, Start(kind)) /\ Fit(kind, f, b, t)
    BY <1>0, Beginnings
  <1>2. UNCHANGED <<family, attempt, notes, app, status>>
    BY <1>0, <1>1, BeginMine, QuietSame
  <1>3. JudgesNobody /\ PaperStays /\ SkipStays /\ SeatsPaper'
    BY <1>2, NotJudged DEF PaperInv, PaperStays, SkipStays, SeatsPaper, Begun, Over
  <1>4. /\ pc'[h] = Start(kind) /\ who'[h] = f /\ old'[h] = b /\ mem'[h].target = t
    BY <1>0, <1>1, BeginMine
  <1>5. SittingOf(h)'
    <2>1. Start(kind) = "handIn" => attempt[b] # "none" /\ family[b] = f
      BY <1>1, StartAt DEF Fit, Kinds
    <2>2. Start(kind) = "resume" /\ f \in Assessed /\ t = "awaiting_decision" => Proper(f)
      <3>1. Start(kind) = "resume" => t = StatusAfterDeferral(f)
        BY <1>1, StartAt DEF Fit, Kinds
      <3>2. f \in Assessed /\ "paused" \in notes[f] => Proper(f)
        BY DEF PaperInv, PausedOn
      <3> QED
        BY <3>1, <3>2 DEF StatusAfterDeferral, Proper
    <2>3. Start(kind) # "handedIn"
      BY StartAt DEF Kinds
    <2>4. /\ Start(kind) = "handIn" => attempt'[b] # "none" /\ family'[b] = f
          /\ Proper(f) => Proper(f)'
      BY <1>2, <2>1, <1>3, ProperStays
    <2> QED
      BY <1>4, <2>2, <2>3, <2>4 DEF SittingOf
  <1> QED
    BY <1>3, <1>5, PaperStep

LEMMA WorldPaper ==
  ASSUME PaperInv, FlowInv', World \/ UNCHANGED vars, UNCHANGED self
  PROVE  PaperInv'
  <1>0. TypeInv
    BY DEF PaperInv, FlowInv
  <1>1. UNCHANGED <<family, notes, status>>
    BY DEF World, StartSitting, Mark, Decide, Close, vars, db, rows
  <1>2. PaperStays /\ SeatsPaper'
    BY <1>0, <1>1
    DEF World, StartSitting, Mark, Decide, Close, vars, db, rows, paper, TypeInv, DbOK, PaperInv,
        PaperStays, SeatsPaper, Begun, Over
  <1>3. SkipStays
    BY <1>1 DEF SkipStays
  <1>4. \A f \in Families : app'[f] \in Judged => app[f] \in Judged
    BY <1>0 DEF World, StartSitting, Mark, Decide, Close, vars, db, TypeInv, DbOK, Judged
  <1>5. JudgedOn' /\ PausedOn'
    BY <1>1, <1>2, <1>3, <1>4, ProperStays, FamilyAssumption DEF PaperInv, JudgedOn, PausedOn
  <1>6. ASSUME NEW h \in Handlers PROVE SittingOf(h)'
    <2>1. pc[h] \in {"handIn", "handedIn"} => old[h] \in Rows
      BY DEF PaperInv, FlowInv, Rowed, About
    <2>2. SittingOf(h) /\ pc'[h] = pc[h] /\ old'[h] = old[h] /\ who'[h] = who[h] /\ mem'[h] = mem[h]
      BY DEF PaperInv, self
    <2> QED
      BY <1>2, <1>3, <2>1, <2>2, ProperStays, FamilyAssumption DEF SittingOf, PaperStays
  <1> QED
    BY <1>5, <1>6, <1>2 DEF PaperInv

LEMMA NextPaper == FlowInv' /\ PaperInv /\ NoMoves /\ [Next]_vars => PaperInv'
  <1> SUFFICES ASSUME FlowInv', PaperInv, NoMoves, [Next]_vars PROVE PaperInv'
    OBVIOUS
  <1>0. FlowInv /\ TypeInv /\ TypeInv' /\ Shape
    BY NextShape DEF PaperInv, FlowInv
  <1>1. ASSUME NEW h \in Handlers, Step(h) \/ Crash(h) PROVE PaperInv'
    <2>1. Mine(h)
      BY <1>0, <1>1, StepFlow
    <2>2. CASE Crash(h)
      <3>1. UNCHANGED db /\ pc'[h] = "idle"
        BY <1>0, <2>2, DoneMine DEF Crash
      <3> QED
        BY <2>1, <3>1, QuietSame, NotJudged, PlainStep DEF Asking
    <2> QED
      BY <1>1, <2>1, <2>2, ChoosingPaper, ArrivingPaper, MissingPaper, FreeingPaper, SittingPaper
      DEF Step
  <1>2. ASSUME NEW h \in Handlers, Begins(h) PROVE PaperInv'
    BY <1>0, <1>2, BeginsFlow, BeginsPaper
  <1>3. UNCHANGED vars => UNCHANGED self
    BY DEF vars
  <1> QED
    BY <1>0, <1>1, <1>2, <1>3, WorldPaper DEF Shape

\* A child who sits an assessment reaches the decision with a paper handed in or
\* a skip on the timeline, however the pauses, walk-ins, relaunches and kills
\* interleave (onAssessmentSubmitted, statusAfterDeferral), as long as no
\* booking is moved: PutBack would bring a sitting back to the desk.
THEOREM DecidedOnPaperHolds ==
  ASSUME NoMoves
  PROVE  Spec => []DecidedOnPaper
  <1>1. Init /\ FlowInv => PaperInv
    BY FamilyAssumption
    DEF Init, PaperInv, SeatsPaper, Begun, Over, JudgedOn, PausedOn, SittingOf, Judged
  <1>2. PaperInv => DecidedOnPaper
    BY DEF PaperInv, JudgedOn, Judged, Proper, DecidedOnPaper
  <1> QED
    BY <1>1, <1>2, NoMoves, InitFlow, NextFlow, NextPaper, PTL DEF Spec

\* A step goes on with the copies the invocation has, or ends it.
LEMMA StepKeepsCopy ==
  ASSUME TypeInv, NEW h \in Handlers, Step(h) \/ Crash(h)
  PROVE  \/ Done(h)
         \/ mem'[h] = mem[h] /\ call'[h] = call[h] /\ who'[h] = who[h]
  <1>1. (\E l : Goto(h, l)) \/ (\E b, l : Found(h, b, l)) \/ (\E b \in Rows : BookSession(h, b)) =>
          mem'[h] = mem[h] /\ call'[h] = call[h] /\ who'[h] = who[h]
    BY GotoMine, FoundMine, BookMine
  <1>2. CASE Choosing(h) \/ Cancelling(h)
    BY <1>1, <1>2
    DEF Choosing, ReadToBook, ReadToMove, Complete, Book, Record, Unbook, Release, Rebook, PutBack,
        Cancelling, ReadToCancel, Cancel, Cancelled
  <1>3. CASE Arriving(h) \/ Missing(h)
    BY <1>1, <1>3
    DEF Arriving, ReadToCheckIn, Arrive, ArrivedAs, Onward, Missing, ReadToMiss, Miss, Missed, Unmiss
  <1>4. CASE Deferring(h) \/ Leaving(h) \/ Skipping(h)
    BY <1>1, <1>4
    DEF Deferring, FreeBooked, FreeArrived, Defer, Resume, Leaving, LeaveRows, LeaveSitting, Leave,
        Skipping, SkipSitting, SkipVisit, SkipArrived, SkipReady, Skip
  <1>5. CASE Sitting(h)
    BY <1>1, <1>5
    DEF Sitting, ReadToLaunch, ReadForWalkIn, Launch, Launched, HandIn, HandedIn, Abandon, Unlaunch,
        Abandoned
  <1> QED
    BY <1>2, <1>3, <1>4, <1>5 DEF Step, Crash

-----------------------------------------------------------------------------
(* No family is told its booking failed and holds one.  Between the row and   *)
(* its record stands the invocation that made it.  A move has no undo, so it  *)
(* must find the application as it read it: it is alone, and nothing marks or *)
(* decides meanwhile.                                                         *)

MovesUndisturbed ==
  "move" \in Calls => Assessed = Families /\ Calls \cap {"handIn", "skip", "resume"} = {}

\* Nobody is at the decision where a booking may be moved.
Young ==
  "move" \in Calls =>
    /\ \A f \in Families : app[f] \notin Judged
    /\ \A h \in Handlers : mem[h].app \notin Judged

Recorded(b) == "created" \in told[b] \/ arrived[b]
BeingMade(b) == \E h \in Handlers : pc[h] \in {"record", "unbook"} /\ new[h] = b

BookedOn == \A b \in Rows : status[b] = "booked" => Recorded(b) \/ BeingMade(b)
CameIn == \A b \in Rows : status[b] \in {"checked_in", "in_progress"} => arrived[b]
Returning == {"missed", "unmiss", "release", "rebook", "putBack"}
ReturnsRecorded(h) == pc[h] \in Returning => Recorded(old[h])
Fresh(h) == call[h] = "move" => app[who[h]] = mem[h].app

RecInv ==
  /\ FlowInv /\ Young
  /\ \A h \in Handlers : Fresh(h)
  /\ crashes = 0 => BookedOn /\ CameIn /\ \A h \in Handlers : ReturnsRecorded(h)

\* Where no family is judged, a step judges nobody.
LEMMA YoungStep ==
  ASSUME RecInv, MovesUndisturbed, FlowInv', NEW h \in Handlers, Step(h) \/ Crash(h) \/ Begins(h)
  PROVE  Young'
  <1> SUFFICES ASSUME "move" \in Calls
               PROVE  /\ \A f \in Families : app'[f] \notin Judged
                      /\ \A g \in Handlers : mem'[g].app \notin Judged
    BY DEF Young
  <1>0. /\ TypeInv /\ FlowInv /\ Assessed = Families
        /\ \A f \in Families : app[f] \notin Judged
        /\ \A g \in Handlers : mem[g].app \notin Judged
    BY DEF RecInv, FlowInv, Young, MovesUndisturbed
  <1>1. call[h] \notin {"handIn", "skip", "resume"}
    BY DEF RecInv, FlowInv, TypeInv, SelfOK, MovesUndisturbed
  <1>2. pc[h] \notin {"handedIn", "skip", "resume"}
    BY <1>0, <1>1, KindOfLabel DEF FlowInv, AtKind
  <1>3. UNCHANGED app \/ \E to : to \notin Judged /\ app' = [app EXCEPT ![who[h]] = to]
    <2>1. CASE Begins(h) \/ Crash(h)
      <3>1. UNCHANGED db
        BY <1>0, <2>1, Beginnings DEF Begin, Crash
      <3> QED
        BY <3>1 DEF db
    <2>2. ASSUME NEW to, NEW b, NEW e, Commit(h, to, b, e) \/ Refused(h, to), to \notin Judged
          PROVE  UNCHANGED app \/ app' = [app EXCEPT ![who[h]] = to]
      BY <2>2 DEF Commit, Refused, db
    <2>3. ~At(h, "idle") => mem[h].app \notin Judged /\ (who[h] \in Families => who[h] \in Assessed)
      BY <1>0
    <2>4. who[h] \in Assessed \/ At(h, "idle")
      BY <1>0 DEF TypeInv, Known
    <2>5. CASE Choosing(h) \/ Cancelling(h)
      <3>1. CASE Choosing(h)
        <4>1. CASE Record(h)
          <5> DEFINE to == StatusAfterBooking(mem[h].app, Kind(mem[h].target))
          <5>1. mem[h].app \notin Judged
            BY <2>3, <4>1 DEF Record, At
          <5>2. to \notin Judged
            BY <5>1, LeadsNowhere
          <5>3. Commit(h, to, new[h], "created") \/ Refused(h, to)
            BY <4>1 DEF Record
          <5> QED
            BY <2>2, <5>2, <5>3
        <4>2. CASE ~Record(h)
          BY <3>1, <4>2
          DEF Choosing, ReadToBook, ReadToMove, Complete, Book, Unbook, Release, Rebook, PutBack,
              Found, BookSession, RewriteOnly, db
        <4> QED
          BY <4>1, <4>2
      <3>2. CASE Cancelling(h)
        BY <1>0, <2>2, <3>2, LeadsNowhere
        DEF Cancelling, ReadToCancel, Cancel, Cancelled, Found, RewriteOnly, db
      <3> QED
        BY <2>5, <3>1, <3>2
    <2>6. CASE Arriving(h) \/ Missing(h)
      <3>1. CASE ReadToCheckIn(h) \/ Arrive(h) \/ ReadToMiss(h) \/ Miss(h) \/ Unmiss(h)
        BY <3>1 DEF ReadToCheckIn, Arrive, ReadToMiss, Miss, Unmiss, Found, RewriteOnly, db
      <3>2. CASE ArrivedAs(h) \/ Missed(h)
        <4>1. mem[h].app \notin Judged /\ who[h] \in Assessed
          BY <2>3, <2>4, <3>2 DEF ArrivedAs, Missed, At
        <4>2. CASE ArrivedAs(h)
          <5> DEFINE to == IF KindOf(old[h]) = "visit"
                             THEN StatusAfterVisitArrival(mem[h].app, who[h]) ELSE mem[h].app
          <5>1. Commit(h, to, old[h], "checked_in") \/ Refused(h, to)
            BY <4>2 DEF ArrivedAs
          <5>2. to \notin Judged
            BY <4>1, LeadsNowhere
          <5> QED
            BY <2>2, <5>1, <5>2
        <4>3. CASE Missed(h)
          <5> DEFINE to == IF KindOf(old[h]) = "visit" THEN StatusAfterCancellation(mem[h].app)
                           ELSE "no_show"
          <5>1. Commit(h, to, old[h], "no_show") \/ Refused(h, to)
            BY <4>3 DEF Missed
          <5>2. to \notin Judged
            BY <4>1, LeadsNowhere DEF Judged
          <5> QED
            BY <2>2, <5>1, <5>2
        <4> QED
          BY <3>2, <4>2, <4>3
      <3> QED
        BY <2>6, <3>1, <3>2 DEF Arriving, Missing
    <2>7. CASE Deferring(h) \/ Leaving(h) \/ Skipping(h)
      <3>1. CASE FreeBooked(h) \/ FreeArrived(h) \/ LeaveRows(h) \/ LeaveSitting(h)
                 \/ SkipSitting(h) \/ SkipVisit(h) \/ SkipArrived(h) \/ SkipReady(h)
        BY <3>1 DEF FreeBooked, FreeArrived, LeaveRows, LeaveSitting, SkipSitting, SkipVisit,
           SkipArrived, SkipReady, RewriteOnly, AbandonOf
      <3>2. CASE Defer(h)
        BY <3>2 DEF Defer, Judged
      <3>3. CASE Leave(h)
        <4>1. Commit(h, "withdrawn", NoRow, "none") \/ Refused(h, "withdrawn")
          BY <3>3 DEF Leave
        <4>2. "withdrawn" \notin Judged
          BY DEF Judged
        <4> QED
          BY <2>2, <4>1, <4>2
      <3>4. ~Resume(h) /\ ~Skip(h)
        BY <1>2 DEF Resume, Skip, At
      <3> QED
        BY <2>7, <3>1, <3>2, <3>3, <3>4 DEF Deferring, Leaving, Skipping
    <2>8. CASE Sitting(h)
      <3>1. CASE ReadToLaunch(h) \/ ReadForWalkIn(h) \/ Launch(h) \/ HandIn(h) \/ Abandon(h)
                 \/ Unlaunch(h)
        BY <3>1 DEF ReadToLaunch, ReadForWalkIn, Launch, HandIn, Abandon, Unlaunch, Found,
           RewriteOnly, db
      <3>2. CASE Launched(h)
        BY <3>2 DEF Launched, Judged
      <3>3. CASE Abandoned(h)
        BY <2>2, <3>3 DEF Abandoned, Judged
      <3>4. ~HandedIn(h)
        BY <1>2 DEF HandedIn, At
      <3> QED
        BY <2>8, <3>1, <3>2, <3>3, <3>4 DEF Sitting
    <2> QED
      BY <2>1, <2>5, <2>6, <2>7, <2>8 DEF Step
  <1>4. \A f \in Families : app'[f] \notin Judged
    BY <1>0, <1>3 DEF TypeInv, DbOK
  <1>5. mem'[h] = mem[h] \/ mem'[h].app = "new_enquiry" \/ \E f \in Families : mem'[h].app = app[f]
    <2>1. CASE Begins(h)
      BY <1>0, <2>1, Beginnings, BeginMine
    <2>2. ASSUME Done(h) PROVE mem'[h].app = "new_enquiry"
      BY <1>0, <2>2 DEF Done, Blank, TypeInv, SelfOK
    <2>3. CASE Step(h) \/ Crash(h)
      BY <1>0, <2>2, <2>3, StepKeepsCopy
    <2> QED
      BY <2>1, <2>3
  <1>6. Mine(h)
    BY <1>0, StepFlow, BeginsFlow DEF FlowInv
  <1> QED
    BY <1>0, <1>4, <1>5, <1>6 DEF Mine, Judged

LEMMA MoveLabels ==
  ASSUME FlowInv, NEW h \in Handlers, call[h] = "move"
  PROVE  pc[h] \in {"live", "record", "release", "rebook", "putBack"}
  <1>1. \A l \in PC : "move" \in KindsAt(l) => l \in {"live", "record", "release", "rebook", "putBack"}
    BY DEF KindsAt, PC
  <1> QED
    BY <1>1 DEF FlowInv, TypeInv, SelfOK, AtKind

\* Beside a move, or once one has read, nothing changes an application.
LEMMA FreshStep ==
  ASSUME RecInv, FlowInv', GivesBackAlone, MovesUndisturbed, NEW h \in Handlers,
         Step(h) \/ Crash(h) \/ Begins(h)
  PROVE  \A g \in Handlers : Fresh(g)'
  <1>0. FlowInv /\ TypeInv
    BY DEF RecInv, FlowInv
  <1>1. Mine(h)
    BY <1>0, StepFlow, BeginsFlow DEF FlowInv
  <1>2. ASSUME NEW g \in Handlers \ {h} PROVE Fresh(g)'
    <2>1. call[g] # "move"
      BY <1>0, NobodyAlone DEF GivesBackAlone, TypeInv, SelfOK
    <2> QED
      BY <1>1, <2>1 DEF Mine, Fresh
  <1>3. CASE Begins(h)
    <2>1. PICK kind \in Kinds, f \in Families, b \in Rows \cup {NoRow}, t \in Targets :
            Begin(h, kind, f, b, t, Start(kind))
      BY <1>0, <1>3, Beginnings
    <2>2. mem'[h].app = app[f] /\ who'[h] = f /\ app' = app
      BY <1>0, <2>1, BeginMine DEF db
    <2> QED
      BY <1>2, <2>2 DEF Fresh
  <1>4. CASE Step(h) \/ Crash(h)
    <2>1. CASE Done(h)
      BY <1>0, <1>2, <2>1, DoneMine DEF Fresh
    <2>2. CASE mem'[h] = mem[h] /\ call'[h] = call[h] /\ who'[h] = who[h] /\ ~Done(h)
      <3>1. call[h] = "move" => pc[h] \in {"live", "record", "release", "rebook", "putBack"}
        BY <1>0, MoveLabels
      <3>2. call[h] = "move" => app' = app
        BY <1>4, <2>2, <3>1
        DEF Step, Crash, Choosing, ReadToBook, ReadToMove, Complete, Book, Record, Unbook, Release,
            Rebook, PutBack, Found, BookSession, RewriteOnly, db,
            Cancelling, ReadToCancel, Cancel, Cancelled, Arriving, ReadToCheckIn, Arrive, ArrivedAs,
            Missing, ReadToMiss, Miss, Missed, Unmiss, Deferring, FreeBooked, FreeArrived, Defer,
            Resume, Leaving, LeaveRows, LeaveSitting, Leave, Skipping, SkipSitting, SkipVisit,
            SkipArrived, SkipReady, Skip, Sitting, ReadToLaunch, ReadForWalkIn, Launch, Launched,
            HandIn, HandedIn, Abandon, Unlaunch, Abandoned, At
      <3> QED
        BY <1>2, <2>2, <3>2 DEF RecInv, Fresh
    <2> QED
      BY <1>0, <1>4, <2>1, <2>2, StepKeepsCopy
  <1> QED
    BY <1>3, <1>4

RowsInv == BookedOn /\ CameIn /\ \A h \in Handlers : ReturnsRecorded(h)

\* What a statement owes the rows: nobody forgotten, nobody booked in silence.
RecordsStay ==
  \A b \in Rows : /\ arrived[b] => arrived'[b]
                  /\ "created" \in told[b] => "created" \in told'[b]
LEMMA RowsStep ==
  ASSUME FlowInv, FlowInv', RowsInv, NEW h \in Handlers, Mine(h), RecordsStay,
         \A b \in Rows : status'[b] = "booked" =>
           status[b] = "booked" \/ Recorded(b) \/ (pc'[h] = "record" /\ new'[h] = b),
         \A b \in Rows : status'[b] \in {"checked_in", "in_progress"} =>
           status[b] \in {"checked_in", "in_progress"} \/ arrived'[b],
         pc[h] \in {"record", "unbook"} =>
           \/ status'[new[h]] # "booked" \/ "created" \in told'[new[h]]
           \/ pc'[h] \in {"record", "unbook"} /\ new'[h] = new[h],
         pc'[h] \in Returning =>
           \/ pc[h] \in Returning /\ old'[h] = old[h]
           \/ old'[h] \in Rows /\ Recorded(old'[h])
  PROVE  RowsInv'
  <1>0. \A b \in Rows : Recorded(b) => Recorded(b)'
    BY DEF RecordsStay, Recorded
  <1>1. BookedOn'
    <2> SUFFICES ASSUME NEW b \in Rows, status'[b] = "booked"
                 PROVE  Recorded(b)' \/ BeingMade(b)'
      BY DEF BookedOn
    <2>1. CASE Recorded(b)
      BY <1>0, <2>1
    <2>2. CASE pc'[h] = "record" /\ new'[h] = b
      BY <2>2 DEF BeingMade
    <2>3. ASSUME NEW g \in Handlers, pc[g] \in {"record", "unbook"}, new[g] = b
          PROVE  Recorded(b)' \/ BeingMade(b)'
      <3>1. CASE g = h
        BY <2>3, <3>1 DEF BeingMade, Recorded
      <3>2. CASE g # h
        BY <2>3, <3>2 DEF BeingMade, Mine
      <3> QED
        BY <3>1, <3>2
    <2> QED
      BY <2>1, <2>2, <2>3 DEF RowsInv, BookedOn, BeingMade
  <1>2. CameIn'
    BY DEF RowsInv, CameIn, RecordsStay
  <1>3. ASSUME NEW g \in Handlers PROVE ReturnsRecorded(g)'
    <2>1. pc[g] \in Returning => old[g] \in Rows
      BY DEF FlowInv, Rowed, About, Returning
    <2>2. pc'[g] \in Returning => \/ pc[g] \in Returning /\ old'[g] = old[g]
                                  \/ old'[g] \in Rows /\ Recorded(old'[g])
      BY DEF Mine
    <2>3. ASSUME pc'[g] \in Returning PROVE old'[g] \in Rows /\ Recorded(old'[g])
      BY <2>1, <2>2, <2>3 DEF RowsInv, ReturnsRecorded
    <2>4. \A b \in Rows : Recorded(b) => "created" \in told'[b] \/ arrived'[b]
      BY DEF RecordsStay, Recorded
    <2> QED
      BY <2>3, <2>4 DEF ReturnsRecorded, Recorded
  <1> QED
    BY <1>1, <1>2, <1>3 DEF RowsInv

\* A step that books nothing and brings nobody in.
LEMMA NoNewRows ==
  ASSUME FlowInv, FlowInv', RowsInv, NEW h \in Handlers, Mine(h), RecordsStay,
         \A b \in Rows : status'[b] \in {"booked", "checked_in", "in_progress"} =>
           \/ status'[b] = status[b]
           \/ {status[b], status'[b]} = {"checked_in", "in_progress"},
         pc[h] \notin {"record", "unbook"}, pc'[h] \notin Returning
  PROVE  RowsInv'
  BY RowsStep

LEMMA CommitStays ==
  ASSUME NEW h, NEW to, NEW b, NEW e, Commit(h, to, b, e) \/ Refused(h, to)
  PROVE  RecordsStay /\ status' = status
  BY DEF Commit, Refused, db, rows, RecordsStay

LEMMA RewriteStays ==
  ASSUME NEW S, NEW s, RewriteOnly(S, s)
  PROVE  RecordsStay /\ \A b \in Rows : status'[b] = IF b \in S THEN s ELSE status[b]
  BY DEF RewriteOnly, Rewrite, RecordsStay

LEMMA QuietStays ==
  ASSUME UNCHANGED db
  PROVE  RecordsStay /\ status' = status
  BY DEF db, rows, RecordsStay

\* Beside an invocation that is alone, no booking is being made.
LEMMA NobodyMakes ==
  ASSUME FlowInv, NEW h \in Handlers, call[h] \in Alone, pc[h] \notin {"record", "unbook"}
  PROVE  \A b : ~BeingMade(b)
  <1>1. \A g \in Handlers : pc[g] \in {"record", "unbook"} => call[g] # "none"
    BY KindOfLabel DEF FlowInv, AtKind
  <1> QED
    BY <1>1 DEF FlowInv, ByItself, BeingMade

LEMMA ChoosingRows ==
  ASSUME RecInv, FlowInv', GivesBackAlone, RowsInv, NEW h \in Handlers, Choosing(h), Mine(h)
  PROVE  RowsInv'
  <1> USE DEF Returning
  <1>0. /\ TypeInv /\ FlowInv /\ (pc[h] \in About => old[h] \in Rows) /\ ReturnsRecorded(h)
        /\ (pc[h] \in {"record", "unbook"} => new[h] \in Rows)
    BY DEF RecInv, FlowInv, Rowed, RowsInv
  <1>1. CASE ReadToBook(h)
    <2>1. RecordsStay /\ status' = status /\ pc[h] = "live"
      BY <1>1, QuietStays DEF ReadToBook, Found, At
    <2>2. pc'[h] \in {"complete", "book", "idle"}
      BY <1>0, <1>1, DoneMine, GotoMine, FoundMine DEF ReadToBook
    <2> QED
      BY <1>0, <2>1, <2>2, NoNewRows
  <1>2. CASE ReadToMove(h)
    <2>0. pc[h] = "live" /\ call[h] \in Alone
      BY <1>0, <1>2 DEF ReadToMove, At, GivesBackAlone, TypeInv, SelfOK
    <2>1. CASE Done(h) /\ UNCHANGED <<db, crashes>>
      BY <1>0, <2>0, <2>1, DoneMine, QuietStays, NoNewRows
    <2>2. ASSUME NEW b \in LiveOf(who[h]), Found(h, b, "release") PROVE RowsInv'
      <3>1. RecordsStay /\ status' = status /\ pc'[h] = "release" /\ old'[h] = b /\ b \in Rows
        BY <1>0, <2>2, FoundMine, QuietStays DEF LiveOf, Of
      <3>2. Recorded(b)
        BY <1>0, <2>0, NobodyMakes DEF LiveOf, Live, Of, RowsInv, BookedOn, CameIn, Recorded
      <3> QED
        BY <1>0, <2>0, <3>1, <3>2, RowsStep
    <2> QED
      BY <1>2, <2>1, <2>2, SoleIsLive DEF ReadToMove
  <1>3. CASE Complete(h)
    BY <1>0, <1>3, GotoMine, RewriteStays, NoNewRows DEF Complete, At
  <1>4. CASE Book(h) \/ Rebook(h)
    <2>1. ASSUME NEW b \in Rows, BookSession(h, b) PROVE RowsInv'
      <3>1. pc'[h] = "record" /\ new'[h] = b /\ pc[h] \in {"book", "rebook"}
        BY <1>0, <1>4, <2>1, BookMine DEF Book, Rebook, At
      <3>2. RecordsStay /\ status' = [status EXCEPT ![b] = "booked"]
        BY <2>1 DEF BookSession, RecordsStay
      <3> QED
        BY <1>0, <3>1, <3>2, RowsStep DEF TypeInv, DbOK
    <2>2. CASE UNCHANGED <<db, crashes>> /\ (Done(h) \/ Goto(h, "putBack"))
      <3>1. /\ pc'[h] = "idle" \/ (pc[h] = "rebook" /\ pc'[h] = "putBack" /\ old'[h] = old[h])
            /\ pc[h] \notin {"record", "unbook"}
        BY <1>0, <1>4, <2>2, DoneMine, GotoMine DEF Book, Rebook, BookSession, Done, Goto, At
      <3> QED
        BY <1>0, <2>2, <3>1, QuietStays, RowsStep
    <2> QED
      BY <1>4, <2>1, <2>2 DEF Book, Rebook
  <1>5. CASE Record(h)
    <2> DEFINE to == StatusAfterBooking(mem[h].app, Kind(mem[h].target))
    <2>1. call[h] = "book" \/ (call[h] = "move" /\ app[who[h]] = mem[h].app)
      BY <1>0, <1>5, KindOfLabel DEF Record, At, FlowInv, AtKind, RecInv, Fresh
    <2>2. Legal(mem[h].app, to)
      BY DEF StatusAfterBooking, Legal
    <2>3. pc[h] = "record" /\ new[h] \in Rows
      BY <1>0, <1>5 DEF Record, At
    <2>4. CASE Commit(h, to, new[h], "created") /\ Done(h)
      <3>1. "created" \in told'[new[h]] /\ pc'[h] = "idle"
        BY <1>0, <2>3, <2>4, DoneMine DEF Commit
      <3>2. RecordsStay /\ status' = status
        BY <2>4, CommitStays
      <3> QED
        BY <1>0, <3>1, <3>2, RowsStep
    <2>5. CASE Refused(h, to) /\ call[h] = "book" /\ Goto(h, "unbook")
      <3>1. pc'[h] = "unbook" /\ new'[h] = new[h]
        BY <1>0, <2>5, GotoMine
      <3>2. RecordsStay /\ status' = status
        BY <2>5, QuietStays DEF Refused
      <3> QED
        BY <1>0, <3>1, <3>2, RowsStep
    <2>6. call[h] = "move" => ~Refused(h, to)
      BY <2>1, <2>2 DEF Refused
    <2> HIDE DEF to
    <2>7. Record(h) => \/ Commit(h, to, new[h], "created") /\ Done(h)
                       \/ Refused(h, to) /\ IF call[h] = "book" THEN Goto(h, "unbook") ELSE Done(h)
      BY DEF Record, to
    <2> QED
      BY <1>5, <2>1, <2>4, <2>5, <2>6, <2>7
  <1>6. CASE Unbook(h)
    <2>1. pc[h] = "unbook" /\ new[h] \in Rows
      BY <1>0, <1>6 DEF Unbook, At
    <2>2. /\ RecordsStay /\ status'[new[h]] # "booked"
          /\ \A b \in Rows : status'[b] \in {status[b], "cancelled"}
      BY <1>6, <2>1, RewriteStays DEF Unbook
    <2> QED
      BY <1>0, <1>6, <2>2, DoneMine, RowsStep DEF Unbook
  <1>7. CASE Release(h)
    <2>1. RecordsStay /\ \A b \in Rows : status'[b] \in {status[b], "rescheduled"}
      BY <1>7, RewriteStays DEF Release
    <2> QED
      BY <1>0, <1>7, <2>1, GotoMine, RowsStep DEF Release, At
  <1>8. CASE PutBack(h)
    <2>1. Recorded(old[h])
      BY <1>0, <1>8 DEF PutBack, At, ReturnsRecorded
    <2>2. RecordsStay /\ \A b \in Rows : status'[b] = status[b] \/ (b = old[h] /\ status'[b] = "booked")
      BY <1>8, RewriteStays DEF PutBack
    <2> QED
      BY <1>0, <1>8, <2>1, <2>2, DoneMine, RowsStep DEF PutBack, At
  <1> QED
    BY <1>1, <1>2, <1>3, <1>4, <1>5, <1>6, <1>7, <1>8 DEF Choosing

LEMMA ArrivingRows ==
  ASSUME FlowInv, FlowInv', RowsInv, NEW h \in Handlers, Cancelling(h) \/ Arriving(h), Mine(h)
  PROVE  RowsInv'
  <1> USE DEF Returning
  <1>0. /\ TypeInv /\ (pc[h] \in About => old[h] \in Rows)
    BY DEF FlowInv, Rowed
  <1>1. CASE ReadToCancel(h) \/ ReadToCheckIn(h)
    <2>1. RecordsStay /\ status' = status /\ pc[h] = "live"
      BY <1>1, QuietStays DEF ReadToCancel, ReadToCheckIn, Found, At
    <2>2. pc'[h] \in {"cancel", "arrive", "idle"}
      BY <1>0, <1>1, DoneMine, FoundMine DEF ReadToCancel, ReadToCheckIn
    <2> QED
      BY <2>1, <2>2, NoNewRows
  <1>2. CASE Cancel(h)
    BY <1>0, <1>2, GotoMine, RewriteStays, NoNewRows DEF Cancel, At
  <1>3. CASE Cancelled(h)
    <2>1. RecordsStay /\ status' = status
      BY <1>3, CommitStays DEF Cancelled
    <2> QED
      BY <1>0, <1>3, <2>1, DoneMine, NoNewRows DEF Cancelled, At
  <1>4. CASE Arrive(h)
    <2>1. pc'[h] \in {"arrivedAs", "idle"} /\ pc[h] = "arrive" /\ old[h] \in Rows
      BY <1>0, <1>4, DoneMine, GotoMine DEF Arrive, About, At
    <2>2. /\ RecordsStay
          /\ \A b \in Rows : \/ status'[b] = status[b]
                             \/ status'[b] = "checked_in" /\ arrived'[b]
      BY <1>0, <1>4, <2>1 DEF Arrive, TypeInv, DbOK, RecordsStay
    <2> QED
      BY <2>1, <2>2, RowsStep
  <1>5. CASE ArrivedAs(h)
    <2>1. RecordsStay /\ status' = status /\ pc[h] = "arrivedAs"
      BY <1>5, CommitStays DEF ArrivedAs, At
    <2>2. pc'[h] \in {"launch", "idle"}
      BY <1>0, <1>5, DoneMine, GotoMine DEF ArrivedAs, Onward
    <2> QED
      BY <2>1, <2>2, NoNewRows
  <1> QED
    BY <1>1, <1>2, <1>3, <1>4, <1>5 DEF Cancelling, Arriving

LEMMA MissingRows ==
  ASSUME FlowInv, FlowInv', GivesBackAlone, RowsInv, NEW h \in Handlers, Missing(h), Mine(h)
  PROVE  RowsInv'
  <1> USE DEF Returning
  <1>0. TypeInv /\ (pc[h] \in About => old[h] \in Rows) /\ ReturnsRecorded(h)
    BY DEF FlowInv, Rowed, RowsInv
  <1>1. CASE ReadToMiss(h)
    <2>1. RecordsStay /\ status' = status /\ pc[h] = "live"
      BY <1>1, QuietStays DEF ReadToMiss, Found, At
    <2> QED
      BY <1>0, <1>1, <2>1, DoneMine, FoundMine, NoNewRows DEF ReadToMiss
  <1>2. CASE Miss(h)
    <2>0. pc[h] = "miss" /\ old[h] \in Rows /\ call[h] \in Alone
      <3>1. call[h] = "noShow" /\ call[h] \in Calls
        BY <1>0, <1>2, KindOfLabel DEF Miss, At, FlowInv, AtKind, TypeInv, SelfOK
      <3> QED
        BY <1>0, <1>2, <3>1 DEF Miss, At, About, GivesBackAlone
    <2>1. CASE Done(h) /\ UNCHANGED <<db, crashes>>
      BY <1>0, <2>0, <2>1, DoneMine, QuietStays, NoNewRows
    <2>2. CASE status[old[h]] = "booked" /\ RewriteOnly({old[h]}, "no_show") /\ Goto(h, "missed")
      <3>1. Recorded(old[h])
        BY <2>0, <2>2, NobodyMakes DEF RowsInv, BookedOn
      <3>2. RecordsStay /\ \A b \in Rows : status'[b] \in {status[b], "no_show"}
        BY <2>2, RewriteStays
      <3> QED
        BY <1>0, <2>0, <2>2, <3>1, <3>2, GotoMine, RowsStep
    <2> QED
      BY <1>2, <2>1, <2>2 DEF Miss
  <1>3. CASE Missed(h)
    <2>1. RecordsStay /\ status' = status /\ pc[h] = "missed"
      BY <1>3, CommitStays DEF Missed, At
    <2>2. pc'[h] = "idle" \/ (pc'[h] = "unmiss" /\ old'[h] = old[h])
      BY <1>0, <1>3, DoneMine, GotoMine DEF Missed
    <2> QED
      BY <2>1, <2>2, RowsStep
  <1>4. CASE Unmiss(h)
    <2>1. Recorded(old[h])
      BY <1>0, <1>4 DEF Unmiss, At, ReturnsRecorded
    <2>2. RecordsStay /\ \A b \in Rows : status'[b] = status[b] \/ (b = old[h] /\ status'[b] = "booked")
      BY <1>4, RewriteStays DEF Unmiss
    <2> QED
      BY <1>0, <1>4, <2>1, <2>2, DoneMine, RowsStep DEF Unmiss, At
  <1> QED
    BY <1>1, <1>2, <1>3, <1>4 DEF Missing

LEMMA FreeingRows ==
  ASSUME FlowInv, FlowInv', RowsInv, NEW h \in Handlers, Deferring(h) \/ Leaving(h) \/ Skipping(h),
         Mine(h)
  PROVE  RowsInv'
  <1>0. TypeInv
    BY DEF FlowInv
  <1>1. pc'[h] \notin Returning /\ pc[h] \notin {"record", "unbook"}
    BY <1>0, DoneMine, GotoMine
    DEF Deferring, FreeBooked, FreeArrived, Defer, Resume, Leaving, LeaveRows, LeaveSitting, Leave,
        Skipping, SkipSitting, SkipVisit, SkipArrived, SkipReady, Skip, Returning, At
  <1>2. RecordsStay /\ \A b \in Rows : status'[b] \in {status[b], "cancelled"}
    <2>1. CASE \/ FreeBooked(h) \/ FreeArrived(h) \/ LeaveRows(h) \/ SkipSitting(h)
               \/ SkipVisit(h) \/ SkipArrived(h)
      BY <2>1, RewriteStays DEF FreeBooked, FreeArrived, LeaveRows, SkipSitting, SkipVisit, SkipArrived
    <2>2. CASE Defer(h) \/ Resume(h) \/ Skip(h) \/ LeaveSitting(h) \/ SkipReady(h)
      BY <2>2 DEF Defer, Resume, Skip, LeaveSitting, SkipReady, AbandonOf, rows, RecordsStay
    <2>3. CASE Leave(h)
      BY <2>3, CommitStays DEF Leave
    <2> QED
      BY <2>1, <2>2, <2>3 DEF Deferring, Leaving, Skipping
  <1> QED
    BY <1>1, <1>2, NoNewRows

LEMMA SittingRows ==
  ASSUME FlowInv, FlowInv', RowsInv, NEW h \in Handlers, Sitting(h), Mine(h)
  PROVE  RowsInv'
  <1>0. TypeInv /\ (pc[h] \in About => old[h] \in Rows)
    BY DEF FlowInv, Rowed
  <1>1. pc'[h] \notin Returning /\ pc[h] \notin {"record", "unbook"}
    BY <1>0, DoneMine, GotoMine, FoundMine
    DEF Sitting, ReadToLaunch, ReadForWalkIn, Launch, Launched, HandIn, HandedIn, Abandon, Unlaunch,
        Abandoned, Returning, At
  <1>2. /\ RecordsStay
        /\ \A b \in Rows : status'[b] \in {"booked", "checked_in", "in_progress"} =>
             \/ status'[b] = status[b]
             \/ {status[b], status'[b]} = {"checked_in", "in_progress"}
    <2>1. CASE ReadToLaunch(h) \/ ReadForWalkIn(h)
      BY <2>1, QuietStays DEF ReadToLaunch, ReadForWalkIn, Found
    <2>2. CASE Launch(h)
      BY <1>0, <2>2 DEF Launch, CanLaunch, TypeInv, DbOK, RecordsStay
    <2>3. CASE Launched(h) \/ Abandon(h)
      BY <2>3 DEF Launched, Abandon, RecordsStay
    <2>4. CASE HandIn(h)
      BY <2>4 DEF HandIn, Rewrite, RecordsStay
    <2>5. CASE HandedIn(h) \/ Abandoned(h)
      BY <2>5, CommitStays DEF HandedIn, Abandoned
    <2>6. CASE Unlaunch(h)
      BY <2>6, RewriteStays DEF Unlaunch
    <2> QED
      BY <2>1, <2>2, <2>3, <2>4, <2>5, <2>6 DEF Sitting
  <1> QED
    BY <1>1, <1>2, NoNewRows

LEMMA StepCrashes ==
  ASSUME NEW h \in Handlers, Step(h) \/ Begins(h), TypeInv
  PROVE  crashes' = crashes
  <1>1. CASE Begins(h)
    BY <1>1, Beginnings DEF Begin
  <1>2. CASE Choosing(h) \/ Cancelling(h)
    BY <1>2
    DEF Choosing, ReadToBook, ReadToMove, Complete, Book, Record, Unbook, Release, Rebook, PutBack,
        Cancelling, ReadToCancel, Cancel, Cancelled, Found, BookSession, RewriteOnly, Commit, Refused
  <1>3. CASE Arriving(h) \/ Missing(h)
    BY <1>3
    DEF Arriving, ReadToCheckIn, Arrive, ArrivedAs, Missing, ReadToMiss, Miss, Missed, Unmiss,
        Found, RewriteOnly, Commit, Refused
  <1>4. CASE Deferring(h) \/ Leaving(h) \/ Skipping(h)
    BY <1>4
    DEF Deferring, FreeBooked, FreeArrived, Defer, Resume, Leaving, LeaveRows, LeaveSitting, Leave,
        Skipping, SkipSitting, SkipVisit, SkipArrived, SkipReady, Skip, RewriteOnly, AbandonOf,
        Commit, Refused
  <1>5. CASE Sitting(h)
    BY <1>5
    DEF Sitting, ReadToLaunch, ReadForWalkIn, Launch, Launched, HandIn, HandedIn, Abandon, Unlaunch,
        Abandoned, Found, RewriteOnly, Commit, Refused
  <1> QED
    BY <1>1, <1>2, <1>3, <1>4, <1>5 DEF Step

LEMMA NextRec ==
  FlowInv' /\ RecInv /\ GivesBackAlone /\ MovesUndisturbed /\ [Next]_vars => RecInv'
  <1> SUFFICES ASSUME FlowInv', RecInv, GivesBackAlone, MovesUndisturbed, [Next]_vars PROVE RecInv'
    OBVIOUS
  <1>0. FlowInv /\ TypeInv /\ TypeInv' /\ Shape
    BY NextShape DEF RecInv, FlowInv
  <1>1. ASSUME NEW h \in Handlers, Step(h) \/ Begins(h) PROVE RecInv'
    <2>1. Mine(h) /\ crashes' = crashes
      BY <1>0, <1>1, StepFlow, BeginsFlow, StepCrashes
    <2>2. Young' /\ \A g \in Handlers : Fresh(g)'
      BY <1>1, YoungStep, FreshStep
    <2>3. CASE RowsInv
      <3>1. ASSUME Step(h) PROVE RowsInv'
        BY <1>0, <2>1, <2>3, <3>1, ChoosingRows, ArrivingRows, MissingRows, FreeingRows, SittingRows
        DEF Step
      <3>2. ASSUME Begins(h) PROVE RowsInv'
        <4>1. PICK kind \in Kinds, f \in Families, b \in Rows \cup {NoRow}, t \in Targets :
                Begin(h, kind, f, b, t, Start(kind))
          BY <1>0, <3>2, Beginnings
        <4>2. RecordsStay /\ status' = status /\ pc'[h] = Start(kind) /\ pc[h] = "idle"
          <5>1. UNCHANGED db /\ pc'[h] = Start(kind)
            BY <1>0, <4>1, BeginMine
          <5>2. pc[h] = "idle"
            BY <4>1 DEF Begin, At
          <5> QED
            BY <5>1, <5>2, QuietStays
        <4>3. Start(kind) \notin Returning
          BY StartAt DEF Kinds, Returning
        <4> QED
          BY <1>0, <2>1, <2>3, <4>2, <4>3, NoNewRows
      <3>3. RowsInv'
        BY <1>1, <3>1, <3>2
      <3> QED
        BY <2>2, <3>3 DEF RecInv, RowsInv
    <2>4. crashes = 0 => RowsInv
      BY DEF RecInv, RowsInv
    <2> QED
      BY <2>1, <2>2, <2>3, <2>4 DEF RecInv
  <1>2. ASSUME NEW h \in Handlers, Crash(h) PROVE RecInv'
    <2>1. Young' /\ \A g \in Handlers : Fresh(g)'
      BY <1>2, YoungStep, FreshStep
    <2>2. crashes' # 0
      BY <1>0, <1>2 DEF Crash, TypeInv
    <2> QED
      BY <2>1, <2>2 DEF RecInv
  <1>3. CASE (World \/ UNCHANGED vars) /\ UNCHANGED self
    <2>1. UNCHANGED <<status, told, arrived, crashes>>
      BY <1>3 DEF World, StartSitting, Mark, Decide, Close, vars, db, rows
    <2>2. "move" \in Calls => app' = app
      BY <1>3 DEF World, StartSitting, Mark, Decide, Close, vars, db, RecInv, Young, Judged
    <2>3. Young'
      BY <1>3, <2>2 DEF RecInv, Young, self
    <2>4. \A g \in Handlers : Fresh(g)'
      BY <1>0, <1>3, <2>2 DEF RecInv, Fresh, self, TypeInv, SelfOK
    <2>5. RowsInv => RowsInv'
      BY <1>3, <2>1
      DEF RowsInv, BookedOn, CameIn, ReturnsRecorded, Recorded, BeingMade, self
    <2> QED
      BY <2>1, <2>3, <2>4, <2>5 DEF RecInv, RowsInv
  <1>4. UNCHANGED vars => UNCHANGED self
    BY DEF vars
  <1> QED
    BY <1>0, <1>1, <1>2, <1>3, <1>4 DEF Shape

\* No parent "is told the booking failed and holds one anyway": when every
\* invocation has ended and none was killed, a row that is booked is on the
\* timeline, or somebody has arrived for it (onSessionChosen, onRescheduled,
\* onNoShow), provided that moves and no-shows are alone and that no
\* application that may be moved is marked or decided meanwhile.
THEOREM BookedIsRecordedHolds ==
  ASSUME GivesBackAlone, MovesUndisturbed
  PROVE  Spec => []BookedIsRecorded
  <1>1. Init /\ FlowInv => RecInv
    <2> SUFFICES ASSUME Init, FlowInv PROVE RecInv
      OBVIOUS
    <2>1. Young
      BY DEF Init, Young, Judged, Blank
    <2>2. BookedOn /\ CameIn /\ \A h \in Handlers : ReturnsRecorded(h) /\ Fresh(h)
      BY DEF Init, BookedOn, CameIn, ReturnsRecorded, Returning, Fresh
    <2> QED
      BY <2>1, <2>2 DEF RecInv
  <1>2. RecInv => BookedIsRecorded
    <2> SUFFICES ASSUME RecInv, Settled PROVE BookedIsRecorded
      BY DEF BookedIsRecorded
    <2>1. \A b : ~BeingMade(b)
      BY DEF Settled, Quiet, At, BeingMade
    <2> QED
      BY <2>1 DEF RecInv, Settled, BookedOn, Recorded, BookedIsRecorded
  <1> QED
    BY <1>1, <1>2, GivesBackAlone, MovesUndisturbed, InitFlow, NextFlow, NextRec, PTL DEF Spec
-----------------------------------------------------------------------------
(* A child at the keyboard.  Two bookings of a family that are live differ in *)
(* kind, so the sitting a launch is about to show is the family's only one;   *)
(* what ends a sitting and is not alone, a paper handed in, is about a paper  *)
(* whose launch is recorded, if LaunchFirst.                                  *)

EndsAlone == {"abandon", "skip", "defer", "withdraw"} \cap Calls \subseteq Alone

OneLive ==
  \A b, c \in Rows : b # c /\ family[b] = family[c] /\ status[b] \in Live /\ status[c] \in Live =>
                       KindOf(b) # KindOf(c)
OnlySat ==
  \A b \in Rows : attempt[b] # "none" \/ status[b] = "in_progress" => KindOf(b) = "assessment"

\* The labels of an invocation about a booking of its family.
Owning == {"arrive", "arrivedAs", "launch", "launched", "abandon", "unlaunch"}
Uncoded(b) == status[b] = "in_progress" /\ attempt[b] = "ready" /\ ~coded[b]
LaunchOf(h) ==
  /\ pc[h] \in Owning => family[old[h]] = who[h] /\ status[old[h]] # "none"
  /\ pc[h] = "launched" => Uncoded(old[h])
  /\ pc[h] = "handIn" => /\ mem[h].round <= launches[old[h]]
                         /\ mem[h].round = launches[old[h]] => ~BeingLaunched(old[h])
OneLaunches ==
  \A g, h \in Handlers : pc[g] = "launched" /\ pc[h] = "launched" /\ g # h => old[g] # old[h]

LaunchInv == PaperInv /\ OneLive /\ OnlySat /\ OneLaunches /\ \A h \in Handlers : LaunchOf(h)

\* What a step leaves of the bookings, and of the launches that are under way.
RowsKept ==
  \A b \in Rows :
    /\ status[b] # "none" => /\ family'[b] = family[b] /\ session'[b] = session[b]
                             /\ status'[b] # "none"
    /\ launches[b] <= launches'[b]
Spares(h) ==
  \A g \in Handlers \ {h} :
    pc[g] = "launched" => Uncoded(old[g])'

LEMMA LaunchStep ==
  ASSUME LaunchInv, PaperInv', NEW h \in Handlers, Mine(h), RowsKept, Spares(h), OneLive', OnlySat',
         LaunchOf(h)',
         pc'[h] = "launched" =>
           /\ old'[h] \in Rows /\ launches[old'[h]] < launches'[old'[h]]
           /\ \A g \in Handlers \ {h} : pc[g] = "launched" => old[g] # old'[h]
  PROVE  LaunchInv'
  <1>1. OneLaunches'
    BY DEF LaunchInv, OneLaunches, Mine
  <1>2. ASSUME NEW g \in Handlers \ {h} PROVE LaunchOf(g)'
    <2>1. /\ pc'[g] = pc[g] /\ old'[g] = old[g] /\ who'[g] = who[g] /\ mem'[g] = mem[g]
          /\ LaunchOf(g) /\ SittingOf(g)
      BY DEF Mine, LaunchInv, PaperInv
    <2>2. pc[g] \in Owning \cup {"handIn"} => old[g] \in Rows
      BY DEF LaunchInv, PaperInv, FlowInv, Rowed, About, Owning
    <2>3. /\ mem[g].round \in Nat
          /\ old[g] \in Rows => launches[old[g]] \in Nat /\ launches'[old[g]] \in Nat
      BY MemoryFields DEF LaunchInv, PaperInv, FlowInv, TypeInv, SelfOK, DbOK
    <2>4. pc[g] \in Owning => family'[old[g]] = who[g] /\ status'[old[g]] # "none"
      BY <2>1, <2>2 DEF LaunchOf, RowsKept
    <2>5. pc[g] = "launched" => Uncoded(old[g])'
      BY <2>1 DEF Spares
    <2>6. pc[g] = "handIn" => /\ mem[g].round <= launches'[old[g]]
                              /\ mem[g].round = launches'[old[g]] => ~BeingLaunched(old[g])'
      <3> SUFFICES ASSUME pc[g] = "handIn"
                   PROVE  /\ mem[g].round <= launches'[old[g]]
                          /\ mem[g].round = launches'[old[g]] => ~BeingLaunched(old[g])'
        OBVIOUS
      <3>1. /\ mem[g].round <= launches[old[g]] /\ launches[old[g]] <= launches'[old[g]]
            /\ mem[g].round = launches[old[g]] => ~BeingLaunched(old[g])
        BY <2>1, <2>2 DEF LaunchOf, RowsKept
      <3>2. ASSUME mem[g].round = launches'[old[g]] PROVE ~BeingLaunched(old[g])'
        <4>1. launches[old[g]] = launches'[old[g]] /\ ~BeingLaunched(old[g])
          BY <2>2, <2>3, <3>1, <3>2
        <4>2. ~(pc'[h] = "launched" /\ old'[h] = old[g])
          BY <2>2, <2>3, <4>1
        <4>3. \A x \in Handlers \ {h} : ~(pc'[x] = "launched" /\ old'[x] = old[g])
          BY <4>1 DEF BeingLaunched, Mine
        <4> QED
          BY <2>1, <4>2, <4>3 DEF BeingLaunched
      <3> QED
        BY <2>2, <2>3, <3>1, <3>2
    <2> QED
      BY <2>1, <2>4, <2>5, <2>6 DEF LaunchOf
  <1> QED
    BY <1>1, <1>2 DEF LaunchInv

\* A step that touches no sitting and makes no booking live.
Tame ==
  /\ UNCHANGED <<family, session, attempt, launches, coded>>
  /\ \A b \in Rows : \/ status'[b] = status[b]
                     \/ /\ status[b] \notin {"none", "in_progress"}
                        /\ status'[b] \notin {"none", "in_progress"}
                        /\ status'[b] \in Live => status[b] \in Live

LEMMA TameRows ==
  ASSUME LaunchInv, UNCHANGED <<family, session, launches>>,
         \A b \in Rows : /\ status[b] # "none" => status'[b] # "none"
                         /\ status'[b] \in Live => status[b] \in Live
                         /\ attempt'[b] # "none" => attempt[b] # "none"
                         /\ status'[b] = "in_progress" => status[b] = "in_progress"
  PROVE  RowsKept /\ OneLive' /\ OnlySat'
  <1>1. \A b : launches[b] = launches'[b] /\ KindOf(b)' = KindOf(b)
    BY DEF KindOf
  <1>2. OneLive' /\ OnlySat'
    BY <1>1 DEF LaunchInv, OneLive, OnlySat
  <1>3. \A b \in Rows : launches[b] \in Nat
    BY DEF LaunchInv, PaperInv, FlowInv, TypeInv, DbOK
  <1>4. RowsKept
    BY <1>1, <1>3 DEF RowsKept
  <1> QED
    BY <1>2, <1>4

LEMMA TameStep ==
  ASSUME LaunchInv, PaperInv', NEW h \in Handlers, Mine(h), Tame, pc'[h] \notin {"launched", "handIn"},
         pc'[h] \in Owning => /\ old'[h] \in Rows /\ who'[h] = family[old'[h]]
                              /\ status[old'[h]] # "none"
  PROVE  LaunchInv'
  <1>1. RowsKept /\ OneLive' /\ OnlySat'
    BY TameRows DEF Tame
  <1>2. ASSUME NEW g \in Handlers \ {h}, pc[g] = "launched" PROVE Uncoded(old[g])'
    <2>1. old[g] \in Rows /\ Uncoded(old[g]) /\ old'[g] = old[g]
      BY <1>2 DEF LaunchInv, LaunchOf, PaperInv, FlowInv, Rowed, About, Mine
    <2> QED
      BY <2>1 DEF Tame, Uncoded
  <1>3. LaunchOf(h)'
    BY DEF LaunchOf, Tame
  <1> QED
    BY <1>1, <1>2, <1>3, LaunchStep DEF Spares

LEMMA RewriteRows ==
  ASSUME NEW S, NEW s, RewriteOnly(S, s)
  PROVE  /\ UNCHANGED <<family, session, attempt, launches, coded>>
         /\ \A b \in Rows : status'[b] = IF b \in S THEN s ELSE status[b]
  BY DEF RewriteOnly, Rewrite, paper

LEMMA QuietTame == UNCHANGED db => Tame
  BY DEF db, rows, paper, Tame

LEMMA CommitTame ==
  ASSUME NEW h, NEW to, NEW b, NEW e, Commit(h, to, b, e) \/ Refused(h, to)
  PROVE  Tame
  BY DEF Commit, Refused, db, rows, paper, Tame

LEMMA RewriteTame ==
  ASSUME NEW S, NEW s \in {"cancelled", "completed", "no_show"}, RewriteOnly(S, s),
         \A b \in S \cap Rows : status[b] \in {"booked", "checked_in"}
  PROVE  Tame
  BY DEF RewriteOnly, Rewrite, paper, Tame, Live

\* What ends a sitting, or an attempt, is alone.
LEMMA AloneStep ==
  ASSUME LaunchInv, PaperInv', NEW h \in Handlers, Mine(h), call[h] \in Alone,
         UNCHANGED <<family, session, launches>>,
         \A b \in Rows : /\ status[b] # "none" => status'[b] # "none"
                         /\ status'[b] \in Live => status[b] \in Live
                         /\ attempt'[b] # "none" => attempt[b] # "none"
                         /\ status'[b] = "in_progress" => status[b] = "in_progress",
         pc'[h] \notin {"launched", "handIn"},
         pc'[h] \in Owning => pc[h] \in Owning /\ old'[h] = old[h] /\ who'[h] = who[h] /\ old[h] \in Rows
  PROVE  LaunchInv'
  <1>1. RowsKept /\ OneLive' /\ OnlySat'
    BY TameRows
  <1>2. \A g \in Handlers \ {h} : call[g] = "none" /\ call[g] \in KindsAt(pc[g])
    BY DEF LaunchInv, PaperInv, FlowInv, ByItself, AtKind
  <1>3. \A g \in Handlers \ {h} : pc[g] # "launched"
    BY <1>2, KindOfLabel
  <1>4. LaunchOf(h)'
    BY DEF LaunchOf, LaunchInv
  <1> QED
    BY <1>1, <1>3, <1>4, LaunchStep DEF Spares

\* The one live booking of the family, once it is found, is the family's.
LEMMA FoundOwned ==
  ASSUME LaunchInv, PaperInv', NEW h \in Handlers, Mine(h), NEW b \in LiveOf(who[h]), NEW l,
         Found(h, b, l), l \notin {"launched", "handIn"}
  PROVE  LaunchInv'
  <1>0. TypeInv /\ "none" \notin Live
    BY DEF LaunchInv, PaperInv, FlowInv, Live
  <1>1. b \in Rows /\ family[b] = who[h] /\ status[b] # "none"
    BY <1>0 DEF LiveOf, Of
  <1>2. Tame
    BY QuietTame DEF Found
  <1>3. pc'[h] = l /\ old'[h] = b /\ who'[h] = who[h]
    BY <1>0, FoundMine
  <1> QED
    BY <1>1, <1>2, <1>3, TameStep DEF Tame

LEMMA ChoosingLaunch ==
  ASSUME LaunchInv, PaperInv', NoMoves, NEW h \in Handlers, Choosing(h), Mine(h)
  PROVE  LaunchInv'
  <1> USE DEF Owning
  <1>0. TypeInv /\ FlowInv /\ SeatsPaper
    BY DEF LaunchInv, PaperInv, FlowInv
  <1>1. CASE ReadToBook(h)
    <2>1. Tame
      BY <1>1, QuietTame DEF ReadToBook, Found
    <2>2. pc'[h] \in {"complete", "book", "idle"}
      BY <1>0, <1>1, DoneMine, GotoMine, FoundMine DEF ReadToBook
    <2> QED
      BY <2>1, <2>2, TameStep
  <1>2. CASE Book(h)
    <2>1. CASE Done(h) /\ UNCHANGED <<db, crashes>>
      BY <1>0, <2>1, DoneMine, QuietTame, TameStep
    <2>2. ASSUME NEW b \in Rows, BookSession(h, b) PROVE LaunchInv'
      <3>1. status[b] = "none" /\ attempt[b] = "none"
        BY <1>0, <2>2 DEF BookSession, CanBook, NextRow, SeatsPaper, Begun
      <3>2. /\ UNCHANGED <<attempt, launches, coded>>
            /\ status' = [status EXCEPT ![b] = "booked"]
            /\ family' = [family EXCEPT ![b] = who[h]]
            /\ session' = [session EXCEPT ![b] = mem[h].target]
            /\ \A c \in LiveOf(who[h]) : KindOf(c) # Kind(mem[h].target)
        BY <2>2 DEF BookSession, CanBook, paper
      <3>3. /\ \A c \in Rows \ {b} : /\ family'[c] = family[c] /\ status'[c] = status[c]
                                     /\ KindOf(c)' = KindOf(c)
            /\ status'[b] = "booked" /\ family'[b] = who[h] /\ KindOf(b)' = Kind(mem[h].target)
        BY <1>0, <3>2 DEF TypeInv, DbOK, KindOf
      <3>4. RowsKept
        <4>1. \A c \in Rows : launches[c] \in Nat
          BY <1>0 DEF TypeInv, DbOK
        <4> QED
          BY <1>0, <3>1, <3>2, <4>1 DEF TypeInv, DbOK, RowsKept
      <3>5. OnlySat'
        BY <3>1, <3>2, <3>3 DEF LaunchInv, OnlySat
      <3>6. OneLive'
        <4>1. \A c \in Rows \ {b} : family[c] = who[h] /\ status[c] \in Live =>
                                      KindOf(c)' # KindOf(b)'
          BY <3>2, <3>3 DEF LiveOf, Of
        <4> QED
          BY <3>3, <4>1 DEF LaunchInv, OneLive
      <3>7. Spares(h)
        <4>1. \A g \in Handlers : pc[g] = "launched" => old[g] \in Rows \ {b} /\ Uncoded(old[g])
          BY <3>1 DEF LaunchInv, LaunchOf, Uncoded, PaperInv, FlowInv, Rowed, About
        <4>2. \A g \in Handlers \ {h} : old'[g] = old[g]
          BY DEF Mine
        <4> QED
          BY <3>2, <3>3, <4>1, <4>2 DEF Spares, Uncoded
      <3>8. pc'[h] = "record" /\ LaunchOf(h)'
        BY <1>0, <2>2, BookMine DEF LaunchOf
      <3> QED
        BY <3>4, <3>5, <3>6, <3>7, <3>8, LaunchStep
    <2> QED
      BY <1>2, <2>1, <2>2 DEF Book
  <1>3. CASE Record(h)
    <2>1. Tame
      BY <1>3, CommitTame DEF Record
    <2>2. pc'[h] \in {"unbook", "idle"}
      BY <1>0, <1>3, DoneMine, GotoMine DEF Record
    <2> QED
      BY <2>1, <2>2, TameStep
  <1>4. CASE Complete(h) \/ Unbook(h)
    <2>1. Tame
      BY <1>4, RewriteTame DEF Complete, Unbook
    <2>2. pc'[h] \in {"book", "idle"}
      BY <1>0, <1>4, DoneMine, GotoMine DEF Complete, Unbook
    <2> QED
      BY <2>1, <2>2, TameStep
  <1>5. ~ReadToMove(h) /\ ~Release(h) /\ ~Rebook(h) /\ ~PutBack(h)
    BY <1>0, NobodyMoves DEF ReadToMove, Release, Rebook, PutBack
  <1> QED
    BY <1>1, <1>2, <1>3, <1>4, <1>5 DEF Choosing

LEMMA ArrivingLaunch ==
  ASSUME LaunchInv, PaperInv', NEW h \in Handlers, Cancelling(h) \/ Arriving(h), Mine(h)
  PROVE  LaunchInv'
  <1> USE DEF Owning
  <1>0. TypeInv /\ FlowInv /\ (pc[h] \in About => old[h] \in Rows) /\ LaunchOf(h)
    BY DEF LaunchInv, PaperInv, FlowInv, Rowed
  <1>1. CASE ReadToCancel(h) \/ ReadToCheckIn(h)
    <2>1. ASSUME NEW b \in LiveOf(who[h]), Found(h, b, "cancel") \/ Found(h, b, "arrive")
          PROVE  LaunchInv'
      BY <2>1, FoundOwned
    <2>2. CASE Done(h) /\ UNCHANGED <<db, crashes>>
      BY <1>0, <2>2, DoneMine, QuietTame, TameStep
    <2> QED
      BY <1>1, <2>1, <2>2, SoleIsLive DEF ReadToCancel, ReadToCheckIn
  <1>2. CASE Cancel(h)
    <2>1. Tame
      BY <1>2, RewriteTame DEF Cancel
    <2> QED
      BY <1>0, <1>2, <2>1, GotoMine, TameStep DEF Cancel
  <1>3. CASE Cancelled(h)
    <2>1. Tame
      BY <1>3, CommitTame DEF Cancelled
    <2> QED
      BY <1>0, <1>3, <2>1, DoneMine, TameStep DEF Cancelled
  <1>4. CASE Arrive(h)
    <2>1. Tame
      BY <1>0, <1>4 DEF Arrive, paper, Tame, TypeInv, DbOK, Live
    <2>2. \/ pc'[h] = "idle"
          \/ pc'[h] = "arrivedAs" /\ old'[h] = old[h] /\ who'[h] = who[h]
      BY <1>0, <1>4, DoneMine, GotoMine DEF Arrive
    <2>3. old[h] \in Rows /\ family[old[h]] = who[h] /\ status[old[h]] # "none"
      BY <1>0, <1>4 DEF Arrive, At, About, LaunchOf
    <2> QED
      BY <2>1, <2>2, <2>3, TameStep DEF Tame
  <1>5. CASE ArrivedAs(h)
    <2>1. Tame
      BY <1>5, CommitTame DEF ArrivedAs
    <2>2. \/ pc'[h] = "idle"
          \/ pc'[h] = "launch" /\ old'[h] = old[h] /\ who'[h] = who[h]
      BY <1>0, <1>5, DoneMine, GotoMine DEF ArrivedAs, Onward
    <2>3. old[h] \in Rows /\ family[old[h]] = who[h] /\ status[old[h]] # "none"
      BY <1>0, <1>5 DEF ArrivedAs, At, About, LaunchOf
    <2> QED
      BY <2>1, <2>2, <2>3, TameStep DEF Tame
  <1> QED
    BY <1>1, <1>2, <1>3, <1>4, <1>5 DEF Cancelling, Arriving

LEMMA MissingLaunch ==
  ASSUME LaunchInv, PaperInv', NEW h \in Handlers, Missing(h), Mine(h)
  PROVE  LaunchInv'
  <1> USE DEF Owning
  <1>0. TypeInv /\ FlowInv /\ SeatsPaper /\ (pc[h] \in About => old[h] \in Rows)
    BY DEF LaunchInv, PaperInv, FlowInv, Rowed
  <1>1. CASE ReadToMiss(h)
    <2>1. Tame
      BY <1>1, QuietTame DEF ReadToMiss, Found
    <2>2. pc'[h] \in {"miss", "idle"}
      BY <1>0, <1>1, DoneMine, FoundMine DEF ReadToMiss
    <2> QED
      BY <2>1, <2>2, TameStep
  <1>2. CASE Miss(h)
    <2>1. Tame
      <3>1. CASE RewriteOnly({old[h]}, "no_show") /\ status[old[h]] = "booked"
        BY <3>1, RewriteTame
      <3> QED
        BY <1>2, <3>1, QuietTame DEF Miss
    <2>2. pc'[h] \in {"missed", "idle"}
      BY <1>0, <1>2, DoneMine, GotoMine DEF Miss
    <2> QED
      BY <2>1, <2>2, TameStep
  <1>3. CASE Missed(h)
    <2>1. Tame
      BY <1>3, CommitTame DEF Missed
    <2>2. pc'[h] \in {"unmiss", "idle"}
      BY <1>0, <1>3, DoneMine, GotoMine DEF Missed
    <2> QED
      BY <2>1, <2>2, TameStep
  <1>4. CASE Unmiss(h)
    <2> DEFINE b == old[h]
    <2>1. b \in Rows /\ pc'[h] = "idle"
      BY <1>0, <1>4, DoneMine DEF Unmiss, At, About
    <2>2. /\ UNCHANGED <<family, session, attempt, launches, coded>>
          /\ \A c \in Rows :
               \/ status'[c] = status[c]
               \/ c = b /\ status[b] = "no_show" /\ status'[b] = "booked" /\ OnlyLive(b)
      BY <1>4, RewriteRows DEF Unmiss
    <2> HIDE DEF b
    <2>3. \A c : KindOf(c)' = KindOf(c)
      BY <2>2 DEF KindOf
    <2>4. RowsKept
      <3>1. \A c \in Rows : launches[c] \in Nat
        BY <1>0 DEF TypeInv, DbOK
      <3> QED
        BY <2>2, <3>1 DEF RowsKept
    <2>5. OnlySat'
      BY <2>2, <2>3 DEF LaunchInv, OnlySat
    <2>6. OneLive'
      <3>1. OneLive
        BY DEF LaunchInv
      <3>2. ASSUME NEW c \in Rows, NEW d \in Rows, c # d, family[c] = family[d],
                   status'[c] \in Live, status'[d] \in Live
            PROVE  KindOf(c) # KindOf(d)
        <4>1. CASE status'[c] = status[c] /\ status'[d] = status[d]
          BY <3>1, <3>2, <4>1 DEF OneLive
        <4>2. CASE status'[c] # status[c]
          <5>1. c = b /\ OnlyLive(c) /\ status'[d] = status[d]
            BY <2>2, <3>2, <4>2
          <5> QED
            BY <3>2, <5>1 DEF OnlyLive
        <4>3. CASE status'[d] # status[d]
          <5>1. d = b /\ OnlyLive(d) /\ status'[c] = status[c]
            BY <2>2, <3>2, <4>3
          <5> QED
            BY <3>2, <5>1 DEF OnlyLive
        <4> QED
          BY <4>1, <4>2, <4>3
      <3> QED
        BY <2>2, <2>3, <3>2 DEF OneLive
    <2>7. Spares(h)
      <3>1. \A g \in Handlers \ {h} : pc[g] = "launched" =>
              old'[g] = old[g] /\ old[g] \in Rows /\ Uncoded(old[g])
        BY DEF LaunchInv, LaunchOf, PaperInv, FlowInv, Rowed, About, Mine
      <3> QED
        BY <2>2, <3>1 DEF Spares, Uncoded
    <2>8. LaunchOf(h)'
      BY <2>1 DEF LaunchOf
    <2> QED
      BY <2>1, <2>4, <2>5, <2>6, <2>7, <2>8, LaunchStep
  <1> QED
    BY <1>1, <1>2, <1>3, <1>4 DEF Missing

LEMMA FreeingLaunch ==
  ASSUME LaunchInv, PaperInv', EndsAlone, NEW h \in Handlers,
         Deferring(h) \/ Leaving(h) \/ Skipping(h), Mine(h)
  PROVE  LaunchInv'
  <1>0. TypeInv /\ FlowInv /\ call[h] \in Calls \cup {"none"}
    BY DEF LaunchInv, PaperInv, FlowInv, TypeInv, SelfOK
  <1>1. pc'[h] \notin Owning \cup {"launched", "handIn"}
    BY <1>0, DoneMine, GotoMine
    DEF Owning, Deferring, FreeBooked, FreeArrived, Defer, Resume, Leaving, LeaveRows, LeaveSitting,
        Leave, Skipping, SkipSitting, SkipVisit, SkipArrived, SkipReady, Skip
  <1>2. CASE FreeBooked(h) \/ SkipSitting(h) \/ SkipVisit(h) \/ SkipArrived(h)
    <2>1. Tame
      BY <1>2, RewriteTame
      DEF FreeBooked, SkipSitting, SkipVisit, SkipArrived, RowsOf, SatFor
    <2> QED
      BY <1>1, <2>1, TameStep
  <1>3. CASE FreeArrived(h) \/ LeaveRows(h) \/ LeaveSitting(h) \/ SkipReady(h)
    <2>1. call[h] \in Alone
      BY <1>0, <1>3, KindOfLabel
      DEF EndsAlone, FlowInv, AtKind, FreeArrived, LeaveRows, LeaveSitting, SkipReady, At
    <2>2. UNCHANGED <<family, session, launches>>
      BY <1>3 DEF FreeArrived, LeaveRows, LeaveSitting, SkipReady, RewriteOnly, AbandonOf, paper
    <2>3. \A b \in Rows : /\ status'[b] = status[b] \/ status'[b] = "cancelled"
                          /\ \/ attempt'[b] = attempt[b]
                             \/ attempt[b] # "none" /\ attempt'[b] = "abandoned"
      <3>1. CASE FreeArrived(h) \/ LeaveRows(h)
        BY <3>1, RewriteRows DEF FreeArrived, LeaveRows
      <3>2. CASE LeaveSitting(h) \/ SkipReady(h)
        BY <3>2 DEF LeaveSitting, SkipReady, AbandonOf
      <3> QED
        BY <1>3, <3>1, <3>2
    <2> QED
      BY <1>1, <2>1, <2>2, <2>3, AloneStep DEF Live
  <1>4. CASE Leave(h)
    <2>1. Tame
      BY <1>4, CommitTame DEF Leave
    <2> QED
      BY <1>1, <2>1, TameStep
  <1>5. CASE Defer(h) \/ Resume(h) \/ Skip(h)
    <2>1. Tame
      BY <1>5 DEF Defer, Resume, Skip, rows, paper, Tame
    <2> QED
      BY <1>1, <2>1, TameStep
  <1> QED
    BY <1>2, <1>3, <1>4, <1>5 DEF Deferring, Leaving, Skipping

LEMMA LaunchLaunch ==
  ASSUME LaunchInv, PaperInv', NEW h \in Handlers, Launch(h), Mine(h)
  PROVE  LaunchInv'
  <1>0. /\ TypeInv /\ FlowInv /\ old[h] \in Rows
        /\ family[old[h]] = who[h] /\ status[old[h]] # "none"
    BY DEF LaunchInv, PaperInv, FlowInv, Rowed, About, LaunchOf, Owning, Launch, At
  <1>1. CASE ~CanLaunch(old[h])
    <2>1. Tame /\ pc'[h] = "idle"
      BY <1>0, <1>1, DoneMine DEF Launch, Tame, paper
    <2> QED
      BY <2>1, TameStep DEF Owning
  <1>2. ASSUME CanLaunch(old[h]) PROVE LaunchInv'
    <2> DEFINE b == old[h]
    <2>1. /\ UNCHANGED <<family, session>> /\ b \in Rows
          /\ status' = [status EXCEPT ![b] = "in_progress"]
          /\ attempt' = [attempt EXCEPT ![b] = "ready"]
          /\ launches' = [launches EXCEPT ![b] = @ + 1]
          /\ coded' = [coded EXCEPT ![b] = FALSE]
          /\ pc'[h] = "launched" /\ old'[h] = b /\ who'[h] = who[h]
      BY <1>0, <1>2, GotoMine DEF Launch
    <2>2. KindOf(b) = "assessment" /\ status[b] = "checked_in" /\ attempt[b] \notin {"ready", "in_progress"}
      BY <1>2 DEF CanLaunch
    <2>3. /\ status'[b] = "in_progress" /\ attempt'[b] = "ready" /\ launches'[b] = launches[b] + 1
          /\ coded'[b] = FALSE /\ family[b] = who[h]
          /\ \A c \in Rows \ {b} : /\ status'[c] = status[c] /\ attempt'[c] = attempt[c]
                                   /\ launches'[c] = launches[c] /\ coded'[c] = coded[c]
          /\ \A c \in Rows : launches[c] \in Nat
      BY <1>0, <2>1 DEF TypeInv, DbOK
    <2>4. \A c : KindOf(c)' = KindOf(c)
      BY <2>1 DEF KindOf
    <2> HIDE DEF b
    <2>5. RowsKept
      BY <2>1, <2>3 DEF RowsKept
    <2>6. OnlySat'
      BY <2>2, <2>3, <2>4 DEF LaunchInv, OnlySat
    <2>7. OneLive'
      <3>1. \A c \in Rows : status'[c] \in Live => status[c] \in Live
        BY <2>2, <2>3 DEF Live
      <3> QED
        BY <2>1, <2>4, <3>1 DEF LaunchInv, OneLive
    <2>8. \A g \in Handlers \ {h} : pc[g] = "launched" => old[g] \in Rows \ {b} /\ Uncoded(old[g])
      BY <2>2 DEF LaunchInv, LaunchOf, Uncoded, PaperInv, FlowInv, Rowed, About
    <2>9. Spares(h)
      <3>1. \A g \in Handlers \ {h} : old'[g] = old[g]
        BY DEF Mine
      <3> QED
        BY <2>3, <2>8, <3>1 DEF Spares, Uncoded
    <2>10. LaunchOf(h)'
      BY <2>1, <2>3 DEF LaunchOf, Uncoded
    <2> QED
      BY <2>1, <2>3, <2>5, <2>6, <2>7, <2>8, <2>9, <2>10, LaunchStep
  <1> QED
    BY <1>1, <1>2

LEMMA LaunchedLaunch ==
  ASSUME LaunchInv, PaperInv', NEW h \in Handlers, Launched(h), Mine(h)
  PROVE  LaunchInv'
  <1>0. TypeInv /\ old[h] \in Rows /\ pc[h] = "launched"
    BY DEF LaunchInv, PaperInv, FlowInv, Rowed, About, Launched, At
  <1>1. /\ UNCHANGED <<status, family, session, attempt, launches>> /\ pc'[h] = "idle"
        /\ \A c \in Rows : coded'[c] = coded[c] \/ c = old[h]
    BY <1>0, DoneMine DEF Launched, TypeInv, DbOK
  <1>2. RowsKept /\ OneLive' /\ OnlySat'
    BY <1>1, TameRows
  <1>3. Spares(h)
    <2>1. \A g \in Handlers \ {h} : pc[g] = "launched" =>
            old'[g] = old[g] /\ old[g] \in Rows \ {old[h]} /\ Uncoded(old[g])
      BY <1>0 DEF LaunchInv, OneLaunches, LaunchOf, PaperInv, FlowInv, Rowed, About, Mine
    <2> QED
      BY <1>1, <2>1 DEF Spares, Uncoded
  <1>4. LaunchOf(h)'
    BY <1>1 DEF LaunchOf, Owning
  <1> QED
    BY <1>1, <1>2, <1>3, <1>4, LaunchStep

LEMMA HandInLaunch ==
  ASSUME LaunchInv, PaperInv', NEW h \in Handlers, HandIn(h), Mine(h)
  PROVE  LaunchInv'
  <1>0. /\ TypeInv /\ old[h] \in Rows /\ pc[h] = "handIn" /\ LaunchOf(h)
        /\ UNCHANGED <<family, session, launches, coded>>
    BY DEF LaunchInv, PaperInv, FlowInv, Rowed, About, HandIn, At
  <1>1. pc'[h] \in {"handedIn", "idle"}
    BY <1>0, DoneMine, GotoMine DEF HandIn
  <1>2. CASE ~SameOpen(h, old[h])
    <2>1. Tame
      BY <1>0, <1>2 DEF HandIn, Tame
    <2> QED
      BY <1>1, <2>1, TameStep DEF Owning
  <1>3. ASSUME SameOpen(h, old[h]) PROVE LaunchInv'
    <2>1. attempt[old[h]] # "none" /\ ~BeingLaunched(old[h])
      BY <1>0, <1>3 DEF SameOpen, LaunchOf
    <2>2. /\ attempt' = [attempt EXCEPT ![old[h]] = "submitted"]
          /\ \A c \in Rows :
               \/ status'[c] = status[c]
               \/ c = old[h] /\ status[c] # "none" /\ status'[c] = "completed"
      <3>1. /\ attempt' = [attempt EXCEPT ![old[h]] = "submitted"]
            /\ Rewrite({old[h]} \cap {b \in Rows : status[b] \in {"checked_in", "in_progress"}},
                       "completed")
        BY <1>3 DEF HandIn
      <3> QED
        BY <3>1 DEF Rewrite
    <2>3. \A c \in Rows \ {old[h]} : attempt'[c] = attempt[c] /\ status'[c] = status[c]
      BY <1>0, <2>2 DEF TypeInv, DbOK
    <2>4. attempt'[old[h]] = "submitted"
      BY <1>0, <2>2 DEF TypeInv, DbOK
    <2>5. RowsKept /\ OneLive' /\ OnlySat'
      BY <1>0, <2>1, <2>2, <2>3, <2>4, TameRows DEF Live
    <2>6. Spares(h)
      <3>1. \A g \in Handlers \ {h} : pc[g] = "launched" =>
              old'[g] = old[g] /\ old[g] \in Rows \ {old[h]} /\ Uncoded(old[g])
        BY <2>1 DEF BeingLaunched, LaunchInv, LaunchOf, PaperInv, FlowInv, Rowed, About, Mine
      <3> QED
        BY <1>0, <2>3, <3>1 DEF Spares, Uncoded
    <2>7. LaunchOf(h)'
      BY <1>1 DEF LaunchOf, Owning
    <2> QED
      BY <1>1, <2>5, <2>6, <2>7, LaunchStep
  <1> QED
    BY <1>2, <1>3

LEMMA SittingLaunch ==
  ASSUME LaunchInv, PaperInv', EndsAlone, NEW h \in Handlers, Sitting(h), Mine(h)
  PROVE  LaunchInv'
  <1>0. /\ TypeInv /\ FlowInv /\ (pc[h] \in About => old[h] \in Rows)
        /\ call[h] \in Calls \cup {"none"}
    BY DEF LaunchInv, PaperInv, FlowInv, TypeInv, SelfOK, Rowed
  <1>1. CASE ReadToLaunch(h) \/ ReadForWalkIn(h)
    <2>1. ASSUME NEW b \in LiveOf(who[h]), Found(h, b, "launch") \/ Found(h, b, "arrive")
          PROVE  LaunchInv'
      BY <2>1, FoundOwned
    <2>2. CASE (Done(h) \/ Goto(h, "book")) /\ UNCHANGED <<db, crashes>>
      BY <1>0, <2>2, DoneMine, GotoMine, QuietTame, TameStep DEF Owning
    <2> QED
      BY <1>1, <2>1, <2>2, SoleIsLive DEF ReadToLaunch, ReadForWalkIn
  <1>2. CASE HandedIn(h) \/ Abandoned(h)
    <2>1. Tame
      BY <1>2, CommitTame DEF HandedIn, Abandoned
    <2> QED
      BY <1>0, <1>2, <2>1, DoneMine, TameStep DEF HandedIn, Abandoned, Owning
  <1>3. CASE Abandon(h) \/ Unlaunch(h)
    <2>1. call[h] \in Alone /\ old[h] \in Rows
      BY <1>0, <1>3, KindOfLabel DEF EndsAlone, FlowInv, AtKind, Abandon, Unlaunch, At, About
    <2>2. UNCHANGED <<family, session, launches>>
      BY <1>3 DEF Abandon, Unlaunch, RewriteOnly, paper
    <2>3. \A b \in Rows : /\ \/ status'[b] = status[b]
                             \/ status[b] = "in_progress" /\ status'[b] = "checked_in"
                          /\ \/ attempt'[b] = attempt[b]
                             \/ attempt[b] # "none" /\ attempt'[b] = "abandoned"
      <3>1. CASE Abandon(h)
        <4>1. /\ attempt' = [attempt EXCEPT ![old[h]] = IF SameOpen(h, old[h]) THEN "abandoned" ELSE @]
              /\ status' = status
          BY <3>1 DEF Abandon
        <4>2. SameOpen(h, old[h]) => attempt[old[h]] # "none"
          BY DEF SameOpen
        <4> QED
          BY <1>0, <2>1, <4>1, <4>2 DEF TypeInv, DbOK
      <3>2. CASE Unlaunch(h)
        BY <3>2, RewriteRows DEF Unlaunch
      <3> QED
        BY <1>3, <3>1, <3>2
    <2>4. /\ pc'[h] \in {"unlaunch", "abandoned"} /\ pc[h] \in Owning
          /\ old'[h] = old[h] /\ who'[h] = who[h]
      BY <1>0, <1>3, GotoMine DEF Abandon, Unlaunch, At, Owning
    <2> QED
      BY <2>1, <2>2, <2>3, <2>4, AloneStep DEF Live
  <1> QED
    BY <1>1, <1>2, <1>3, LaunchLaunch, LaunchedLaunch, HandInLaunch DEF Sitting

LEMMA BeginsLaunch ==
  ASSUME LaunchFirst, LaunchInv, PaperInv', NEW h \in Handlers, Begins(h), Mine(h)
  PROVE  LaunchInv'
  <1>0. TypeInv /\ SeatsPaper
    BY DEF LaunchInv, PaperInv, FlowInv
  <1>1. PICK kind \in Kinds, f \in Families, b \in Rows \cup {NoRow}, t \in Targets :
          Begin(h, kind, f, b, t, Start(kind)) /\ Fit(kind, f, b, t)
    BY <1>0, Beginnings
  <1>2. /\ pc'[h] = Start(kind) /\ who'[h] = f /\ old'[h] = b
        /\ mem'[h].round = (IF b = NoRow THEN 0 ELSE launches[b]) /\ UNCHANGED db
    BY <1>0, <1>1, BeginMine
  <1>3. Tame
    BY <1>2, QuietTame
  <1>4. CASE kind # "handIn"
    <2>1. Start(kind) \notin {"launched", "handIn"}
      BY <1>4, StartAt DEF Kinds
    <2>2. Start(kind) \in Owning => b \in Rows /\ f = family[b] /\ attempt[b] # "none"
      BY <1>1, <1>4, StartAt DEF Kinds, Owning, Fit
    <2> QED
      BY <1>0, <1>2, <1>3, <2>1, <2>2, TameStep DEF SeatsPaper, Begun
  <1>5. CASE kind = "handIn"
    <2>1. pc'[h] = "handIn" /\ b \in Rows /\ ~BeingLaunched(b) /\ mem'[h].round = launches[b]
      BY <1>1, <1>2, <1>5, StartAt, NoRowIsNoRow DEF Fit
    <2>2. RowsKept /\ OneLive' /\ OnlySat'
      BY <1>2, QuietSame, TameRows DEF db, rows, paper
    <2>3. Spares(h)
      <3>1. \A g \in Handlers \ {h} : pc[g] = "launched" => old'[g] = old[g] /\ Uncoded(old[g])
        BY DEF LaunchInv, LaunchOf, Mine
      <3> QED
        BY <1>2, <3>1 DEF Spares, Uncoded, db, rows, paper
    <2>4. LaunchOf(h)'
      <3>1. launches'[b] = launches[b] /\ launches[b] \in Nat
        BY <1>0, <1>2, <2>1 DEF db, rows, paper, TypeInv, DbOK
      <3>2. ~BeingLaunched(b)'
        BY <2>1 DEF BeingLaunched, Mine
      <3> QED
        BY <1>2, <2>1, <3>1, <3>2 DEF LaunchOf, Owning
    <2> QED
      BY <2>1, <2>2, <2>3, <2>4, LaunchStep
  <1> QED
    BY <1>4, <1>5

LEMMA WorldLaunch ==
  ASSUME LaunchFirst, LaunchInv, PaperInv', World \/ UNCHANGED vars, UNCHANGED self
  PROVE  LaunchInv'
  <1>0. TypeInv
    BY DEF LaunchInv, PaperInv, FlowInv
  <1>1. UNCHANGED <<status, family, session, launches, coded>>
    BY DEF World, StartSitting, Mark, Decide, Close, vars, db, rows, paper
  <1>2. \A b \in Rows : \/ attempt'[b] = attempt[b]
                        \/ attempt[b] = "ready" /\ ~BeingLaunched(b) /\ attempt'[b] = "in_progress"
    <2>1. CASE UNCHANGED attempt
      BY <2>1
    <2>2. ASSUME NEW c \in Rows, StartSitting(c)
          PROVE  \A b \in Rows :
                   \/ attempt'[b] = attempt[b]
                   \/ attempt[b] = "ready" /\ ~BeingLaunched(b) /\ attempt'[b] = "in_progress"
      BY <1>0, <2>2 DEF StartSitting, TypeInv, DbOK
    <2>3. UNCHANGED attempt \/ \E c \in Rows : StartSitting(c)
      BY DEF World, Mark, Decide, Close, vars, db, rows, paper
    <2> QED
      BY <2>1, <2>2, <2>3
  <1>3. OneLive' /\ OnlySat'
    BY <1>1, <1>2, TameRows
  <1>4. OneLaunches'
    BY DEF LaunchInv, OneLaunches, self
  <1>5. ASSUME NEW h \in Handlers PROVE LaunchOf(h)'
    <2>1. /\ LaunchOf(h) /\ pc'[h] = pc[h] /\ old'[h] = old[h] /\ who'[h] = who[h]
          /\ mem'[h] = mem[h] /\ (pc[h] \in About => old[h] \in Rows)
      BY DEF LaunchInv, PaperInv, FlowInv, Rowed, self
    <2>2. \A b : BeingLaunched(b)' <=> BeingLaunched(b)
      BY DEF BeingLaunched, self
    <2>3. pc[h] = "launched" => attempt'[old[h]] = attempt[old[h]]
      BY <1>2, <2>1 DEF BeingLaunched, About
    <2> QED
      BY <1>1, <2>1, <2>2, <2>3 DEF LaunchOf, Uncoded
  <1> QED
    BY <1>3, <1>4, <1>5 DEF LaunchInv

LEMMA NextLaunch ==
  LaunchFirst /\ PaperInv' /\ LaunchInv /\ NoMoves /\ EndsAlone /\ [Next]_vars => LaunchInv'
  <1> SUFFICES ASSUME LaunchFirst, PaperInv', LaunchInv, NoMoves, EndsAlone, [Next]_vars
               PROVE  LaunchInv'
    OBVIOUS
  <1>0. FlowInv /\ TypeInv /\ TypeInv' /\ Shape
    BY NextShape DEF LaunchInv, PaperInv, FlowInv
  <1>1. ASSUME NEW h \in Handlers, Step(h) \/ Crash(h) PROVE LaunchInv'
    <2>1. Mine(h)
      BY <1>0, <1>1, StepFlow
    <2>2. CASE Crash(h)
      <3>1. Tame /\ pc'[h] = "idle"
        BY <1>0, <2>2, DoneMine, QuietTame DEF Crash
      <3> QED
        BY <2>1, <3>1, TameStep DEF Owning
    <2> QED
      BY <1>1, <2>1, <2>2, ChoosingLaunch, ArrivingLaunch, MissingLaunch, FreeingLaunch, SittingLaunch
      DEF Step
  <1>2. ASSUME NEW h \in Handlers, Begins(h) PROVE LaunchInv'
    BY <1>0, <1>2, BeginsFlow, BeginsLaunch
  <1>3. UNCHANGED vars => UNCHANGED self
    BY DEF vars
  <1> QED
    BY <1>0, <1>1, <1>2, <1>3, WorldLaunch DEF Shape

-----------------------------------------------------------------------------
(* So a family is shown at the keyboard while it has a seat there, or while   *)
(* the invocation that took the seat away has read it there and is about to   *)
(* say so; a paper is handed in from a seat only by somebody who knows.       *)

AtKeys == "assessment_in_progress"
OnPaper(b) == attempt[b] \in {"ready", "in_progress"}
Seat(b) == status[b] = "in_progress" /\ OnPaper(b)
Seated(f) == \E b \in Of(f) : Seat(b)

Breaks == {"abandon", "withdraw", "skip", "defer"}
Clearing == {"handedIn", "unlaunch", "abandoned", "leaveSitting", "leave"}
Clears(h, f) == who[h] = f /\ mem[h].app = AtKeys /\ pc[h] \in Clearing

ShownSeated ==
  \A f \in Families : app[f] = AtKeys => Seated(f) \/ \E h \in Handlers : Clears(h, f)
KeysOf(h) ==
  /\ call[h] \in Breaks => (app[who[h]] = AtKeys <=> mem[h].app = AtKeys)
  /\ call[h] \in {"skip", "defer"} => mem[h].app # AtKeys
  /\ pc[h] = "handIn" =>
       (SameOpen(h, old[h]) /\ Seat(old[h]) /\ app[who[h]] = AtKeys => mem[h].app = AtKeys)
Keys == ShownSeated /\ \A h \in Handlers : KeysOf(h)

KeyInv == LaunchInv /\ (crashes = 0 => Keys)

\* No sitting begins, or begins again, but with a launch.
NoReopen ==
  \A b \in Rows : \/ launches[b] < launches'[b]
                  \/ /\ launches'[b] = launches[b]
                     /\ Seat(b)' => Seat(b)
                     /\ OnPaper(b)' => OnPaper(b)
\* Nobody else is about to hand in a seat of the family's.
NoneIn(h, f) ==
  \A g \in Handlers \ {h} : pc[g] = "handIn" /\ who[g] = f => ~(SameOpen(g, old[g]) /\ Seat(old[g]))

LEMMA KeyStep ==
  ASSUME LaunchInv, LaunchInv', Keys, NEW h \in Handlers, Mine(h),
         \A g \in Handlers \ {h} : call[g] \notin Breaks,
         NoReopen, KeysOf(h)',
         \A f \in Families : app'[f] = AtKeys =>
           \/ app[f] = AtKeys /\ (Seated(f) \/ Clears(h, f) => Seated(f)' \/ Clears(h, f)')
           \/ Seated(f)' /\ NoneIn(h, f)
  PROVE  Keys'
  <1>1. ShownSeated'
    <2> SUFFICES ASSUME NEW f \in Families, app'[f] = AtKeys
                 PROVE  Seated(f)' \/ \E g \in Handlers : Clears(g, f)'
      BY DEF ShownSeated
    <2>1. CASE Seated(f)'
      BY <2>1
    <2>2. ASSUME app[f] = AtKeys, Seated(f) \/ Clears(h, f) => Seated(f)' \/ Clears(h, f)'
          PROVE  Seated(f)' \/ \E g \in Handlers : Clears(g, f)'
      <3>1. Seated(f) \/ \E g \in Handlers : Clears(g, f)
        BY <2>2 DEF Keys, ShownSeated
      <3>2. \A g \in Handlers \ {h} : Clears(g, f) => Clears(g, f)'
        BY DEF Clears, Mine
      <3> QED
        BY <2>2, <3>1, <3>2
    <2> QED
      BY <2>1, <2>2
  <1>2. ASSUME NEW g \in Handlers \ {h} PROVE KeysOf(g)'
    <2>1. /\ KeysOf(g) /\ LaunchOf(g) /\ call'[g] = call[g] /\ pc'[g] = pc[g] /\ old'[g] = old[g]
          /\ who'[g] = who[g] /\ mem'[g] = mem[g]
      BY DEF Keys, LaunchInv, Mine
    <2>2. ASSUME pc[g] = "handIn", SameOpen(g, old[g])', Seat(old[g])', app'[who[g]] = AtKeys
          PROVE  mem[g].app = AtKeys
      <3>1. /\ old[g] \in Rows /\ launches[old[g]] \in Nat /\ launches'[old[g]] \in Nat
            /\ mem[g].round \in Nat
        BY <2>2, MemoryFields
        DEF LaunchInv, PaperInv, FlowInv, TypeInv, DbOK, SelfOK, Rowed, About
      <3>2. mem[g].round <= launches[old[g]] /\ launches'[old[g]] = mem[g].round
        BY <2>1, <2>2 DEF LaunchOf, SameOpen
      <3>3. ~(launches[old[g]] < launches'[old[g]])
        BY <3>1, <3>2
      <3>4. launches'[old[g]] = launches[old[g]] /\ Seat(old[g]) /\ OnPaper(old[g])
        BY <2>1, <2>2, <3>1, <3>3 DEF NoReopen, Seat
      <3>5. SameOpen(g, old[g])
        BY <3>2, <3>4 DEF SameOpen, OnPaper
      <3>6. who[g] \in Families
        BY <2>2 DEF LaunchInv, PaperInv, FlowInv, TypeInv, Known, At
      <3>7. app[who[g]] = AtKeys
        BY <2>2, <3>4, <3>5, <3>6 DEF NoneIn
      <3> QED
        BY <2>1, <2>2, <3>4, <3>5, <3>7 DEF KeysOf
    <2>3. call[g] \notin Breaks /\ call[g] \notin {"skip", "defer"}
      BY DEF Breaks
    <2> QED
      BY <2>1, <2>2, <2>3 DEF KeysOf
  <1> QED
    BY <1>1, <1>2 DEF Keys

\* A step that takes no seat away, of an invocation that breaks nothing off.
SeatsLeft == \A b \in Rows : Seat(b) => Seat(b)' /\ family'[b] = family[b]
ShowsNobody == \A f \in Families : app'[f] = AtKeys => app[f] = AtKeys

LEMMA SeatedStays ==
  ASSUME SeatsLeft, NEW f, Seated(f)
  PROVE  Seated(f)'
  BY DEF SeatsLeft, Seated, Of

LEMMA PlainKey ==
  ASSUME LaunchInv, LaunchInv', Keys, NEW h \in Handlers, Mine(h),
         \A g \in Handlers \ {h} : call[g] \notin Breaks,
         NoReopen, SeatsLeft, ShowsNobody, pc[h] \notin Clearing,
         call'[h] \notin Breaks, pc'[h] # "handIn"
  PROVE  Keys'
  <1>1. KeysOf(h)'
    BY DEF KeysOf, Breaks
  <1>2. ASSUME NEW f \in Families, app'[f] = AtKeys
        PROVE  app[f] = AtKeys /\ (Seated(f) \/ Clears(h, f) => Seated(f)' \/ Clears(h, f)')
    BY <1>2, SeatedStays DEF ShowsNobody, Clears
  <1> QED
    BY <1>1, <1>2, KeyStep

\* One that breaks off what its own family has.
LEMMA BreakKey ==
  ASSUME LaunchInv, LaunchInv', Keys, NEW h \in Handlers, Mine(h),
         \A g \in Handlers \ {h} : call[g] \notin Breaks,
         NoReopen, UNCHANGED <<app, family>>,
         \A b \in Rows : Seat(b) /\ family[b] # who[h] => Seat(b)',
         call[h] \in Breaks, call'[h] = call[h], who'[h] = who[h], mem'[h] = mem[h],
         pc'[h] # "handIn", pc'[h] \in Clearing \/ call[h] \in {"skip", "defer"}
  PROVE  Keys'
  <1>0. KeysOf(h)
    BY DEF Keys
  <1>1. KeysOf(h)'
    BY <1>0 DEF KeysOf
  <1>2. ASSUME NEW f \in Families, app'[f] = AtKeys
        PROVE  app[f] = AtKeys /\ (Seated(f) \/ Clears(h, f) => Seated(f)' \/ Clears(h, f)')
    <2>1. CASE f = who[h]
      <3>1. mem[h].app = AtKeys /\ pc'[h] \in Clearing
        BY <1>0, <1>2, <2>1 DEF KeysOf
      <3> QED
        BY <1>2, <2>1, <3>1 DEF Clears
    <2>2. CASE f # who[h]
      BY <1>2, <2>2 DEF Clears, Seated, Of
    <2> QED
      BY <2>1, <2>2
  <1> QED
    BY <1>1, <1>2, KeyStep

\* One that ends having said so.
LEMMA EndKey ==
  ASSUME LaunchInv, LaunchInv', Keys, NEW h \in Handlers, Mine(h),
         \A g \in Handlers \ {h} : call[g] \notin Breaks,
         NoReopen, SeatsLeft, ShowsNobody, call'[h] = "none", pc'[h] = "idle",
         who[h] \in Families, app'[who[h]] = AtKeys => mem[h].app # AtKeys
  PROVE  Keys'
  <1>1. KeysOf(h)'
    BY DEF KeysOf, Breaks
  <1>2. ASSUME NEW f \in Families, app'[f] = AtKeys
        PROVE  app[f] = AtKeys /\ (Seated(f) \/ Clears(h, f) => Seated(f)' \/ Clears(h, f)')
    <2>1. app[f] = AtKeys /\ ~Clears(h, f)
      BY <1>2 DEF ShowsNobody, Clears
    <2> QED
      BY <2>1, SeatedStays
  <1> QED
    BY <1>1, <1>2, KeyStep

\* Which statements leave the seats alone.
LEMMA TameSeats == Tame => NoReopen /\ SeatsLeft
  BY DEF Tame, NoReopen, SeatsLeft, Seat, OnPaper

LEMMA CommitShows ==
  ASSUME TypeInv, NEW h \in Handlers, NEW to, NEW b, NEW e, Commit(h, to, b, e) \/ Refused(h, to),
         to = AtKeys => mem[h].app = AtKeys
  PROVE  ShowsNobody
  BY DEF TypeInv, DbOK, Commit, Refused, db, ShowsNobody

LEMMA CommitClears ==
  ASSUME TypeInv, NEW h \in Handlers, who[h] \in Families,
         NEW to \in {"assessment_completed", "assessment_booked", "withdrawn"}, NEW b, NEW e,
         Commit(h, to, b, e) \/ Refused(h, to)
  PROVE  ShowsNobody /\ (app'[who[h]] = AtKeys => mem[h].app # AtKeys)
  <1>1. Legal(AtKeys, to)
    BY DEF Legal, CanTransition, Graph, AtKeys
  <1>2. CASE Commit(h, to, b, e)
    <2>1. app' = [app EXCEPT ![who[h]] = to] /\ to # AtKeys
      BY <1>2 DEF Commit, AtKeys
    <2> QED
      BY <2>1 DEF TypeInv, DbOK, ShowsNobody
  <1>3. CASE Refused(h, to)
    BY <1>1, <1>3 DEF Refused, db, ShowsNobody
  <1> QED
    BY <1>2, <1>3

LEMMA LeadsToNoKeys ==
  ASSUME NEW a, NEW k, NEW f
  PROVE  /\ StatusAfterBooking(a, k) = AtKeys => a = AtKeys
         /\ StatusAfterCancellation(a) = AtKeys => a = AtKeys
         /\ StatusAfterVisitArrival(a, f) = AtKeys => a = AtKeys
  BY DEF StatusAfterBooking, StatusAfterCancellation, StatusAfterVisitArrival, AtKeys

\* Nobody else is breaking anything off.
NoneBreaks(h) == \A g \in Handlers \ {h} : call[g] \notin Breaks

LEMMA BreaksAlone ==
  ASSUME FlowInv, EndsAlone, NEW h \in Handlers, Step(h) \/ Crash(h) \/ Begins(h)
  PROVE  NoneBreaks(h)
  <1>1. \A g \in Handlers : call[g] \in Calls \cup {"none"}
    BY DEF FlowInv, TypeInv, SelfOK
  <1> QED
    BY <1>1, NobodyAlone DEF EndsAlone, NoneBreaks, Breaks

\* A step of an invocation that breaks nothing off.
LEMMA GoesOnKey ==
  ASSUME LaunchInv, LaunchInv', Keys, NEW h \in Handlers, Mine(h), NoneBreaks(h),
         NoReopen, SeatsLeft, ShowsNobody, pc[h] \notin Clearing, call[h] \notin Breaks,
         Done(h) \/ (\E l : l # "handIn" /\ Goto(h, l))
                 \/ (\E l, b : l # "handIn" /\ Found(h, b, l))
                 \/ (\E b \in Rows : BookSession(h, b))
  PROVE  Keys'
  <1>0. TypeInv
    BY DEF LaunchInv, PaperInv, FlowInv
  <1>1. call'[h] \in {call[h], "none"} /\ pc'[h] # "handIn"
    BY <1>0, DoneMine, GotoMine, FoundMine, BookMine
  <1> QED
    BY <1>1, PlainKey DEF NoneBreaks, Breaks

LEMMA ChoosingKey ==
  ASSUME LaunchInv, LaunchInv', Keys, NoMoves, NEW h \in Handlers, Choosing(h), Mine(h), NoneBreaks(h)
  PROVE  Keys'
  <1>0. TypeInv /\ FlowInv
    BY DEF LaunchInv, PaperInv, FlowInv
  <1>1. ~ReadToMove(h) /\ ~Release(h) /\ ~Rebook(h) /\ ~PutBack(h)
    BY <1>0, NobodyMoves DEF ReadToMove, Release, Rebook, PutBack
  <1>2. call[h] \notin Breaks /\ pc[h] \notin Clearing
    BY <1>0, <1>1, KindOfLabel
    DEF FlowInv, AtKind, Choosing, ReadToBook, Complete, Book, Record, Unbook, At, Breaks, Clearing
  <1>3. ASSUME NEW b \in Rows, BookSession(h, b) PROVE NoReopen /\ SeatsLeft /\ ShowsNobody
    <2>1. status[b] = "none" /\ UNCHANGED <<app, attempt, launches>>
      BY <1>3 DEF BookSession, CanBook, NextRow, paper
    <2>2. /\ \A c \in Rows \ {b} : status'[c] = status[c] /\ family'[c] = family[c]
          /\ status'[b] = "booked"
      BY <1>0, <1>3 DEF BookSession, TypeInv, DbOK
    <2> QED
      BY <2>1, <2>2 DEF NoReopen, SeatsLeft, ShowsNobody, Seat, OnPaper
  <1>4. CASE ReadToBook(h) \/ Book(h)
    <2>1. UNCHANGED db => Tame /\ ShowsNobody
      BY QuietTame DEF db, ShowsNobody
    <2>2. CASE ReadToBook(h)
      <3>1. NoReopen /\ SeatsLeft /\ ShowsNobody
        BY <2>1, <2>2, TameSeats DEF ReadToBook, Found
      <3> QED
        BY <1>2, <2>2, <3>1, GoesOnKey DEF ReadToBook
    <2>3. CASE Book(h)
      <3>1. NoReopen /\ SeatsLeft /\ ShowsNobody
        BY <1>3, <2>1, <2>3, TameSeats DEF Book
      <3> QED
        BY <1>2, <2>3, <3>1, GoesOnKey DEF Book
    <2> QED
      BY <1>4, <2>2, <2>3
  <1>5. CASE Record(h)
    <2> DEFINE to == StatusAfterBooking(mem[h].app, Kind(mem[h].target))
    <2>1. to = AtKeys => mem[h].app = AtKeys
      BY LeadsToNoKeys
    <2>2. Commit(h, to, new[h], "created") \/ Refused(h, to)
      BY <1>5 DEF Record
    <2>3. Done(h) \/ Goto(h, "unbook")
      BY <1>5 DEF Record
    <2> HIDE DEF to
    <2>4. NoReopen /\ SeatsLeft /\ ShowsNobody
      BY <1>0, <2>1, <2>2, CommitTame, CommitShows, TameSeats
    <2> QED
      BY <1>2, <2>3, <2>4, GoesOnKey
  <1>6. CASE Complete(h) \/ Unbook(h)
    <2>1. Tame
      BY <1>6, RewriteTame DEF Complete, Unbook
    <2>2. ShowsNobody
      BY <1>6 DEF Complete, Unbook, RewriteOnly, ShowsNobody
    <2> QED
      BY <1>2, <1>6, <2>1, <2>2, TameSeats, GoesOnKey DEF Complete, Unbook
  <1> QED
    BY <1>1, <1>4, <1>5, <1>6 DEF Choosing

LEMMA ArrivingKey ==
  ASSUME LaunchInv, LaunchInv', Keys, NEW h \in Handlers, Cancelling(h) \/ Arriving(h), Mine(h),
         NoneBreaks(h)
  PROVE  Keys'
  <1>0. TypeInv /\ FlowInv
    BY DEF LaunchInv, PaperInv, FlowInv
  <1>1. call[h] \notin Breaks /\ pc[h] \notin Clearing
    BY <1>0, KindOfLabel
    DEF FlowInv, AtKind, Cancelling, ReadToCancel, Cancel, Cancelled, Arriving, ReadToCheckIn,
        Arrive, ArrivedAs, At, Breaks, Clearing
  <1>2. CASE ReadToCancel(h) \/ ReadToCheckIn(h)
    <2>1. Tame /\ ShowsNobody
      BY <1>2, QuietTame DEF ReadToCancel, ReadToCheckIn, Found, db, ShowsNobody
    <2> QED
      BY <1>1, <1>2, <2>1, TameSeats, GoesOnKey DEF ReadToCancel, ReadToCheckIn
  <1>3. CASE Cancel(h)
    <2>1. Tame
      BY <1>3, RewriteTame DEF Cancel
    <2>2. ShowsNobody
      BY <1>3 DEF Cancel, RewriteOnly, ShowsNobody
    <2> QED
      BY <1>1, <1>3, <2>1, <2>2, TameSeats, GoesOnKey DEF Cancel
  <1>4. CASE Cancelled(h)
    <2> DEFINE to == StatusAfterCancellation(mem[h].app)
    <2>1. to = AtKeys => mem[h].app = AtKeys
      BY LeadsToNoKeys
    <2>2. (Commit(h, to, NoRow, "none") \/ Refused(h, to)) /\ Done(h)
      BY <1>4 DEF Cancelled
    <2> HIDE DEF to
    <2> QED
      BY <1>0, <1>1, <2>1, <2>2, CommitTame, CommitShows, TameSeats, GoesOnKey
  <1>5. CASE Arrive(h)
    <2>1. Tame
      BY <1>0, <1>5 DEF Arrive, paper, Tame, TypeInv, DbOK, Live
    <2>2. ShowsNobody
      BY <1>5 DEF Arrive, ShowsNobody
    <2> QED
      BY <1>1, <1>5, <2>1, <2>2, TameSeats, GoesOnKey DEF Arrive
  <1>6. CASE ArrivedAs(h)
    <2> DEFINE to == IF KindOf(old[h]) = "visit"
                       THEN StatusAfterVisitArrival(mem[h].app, who[h]) ELSE mem[h].app
    <2>1. to = AtKeys => mem[h].app = AtKeys
      BY LeadsToNoKeys
    <2>2. Commit(h, to, old[h], "checked_in") \/ Refused(h, to)
      BY <1>6 DEF ArrivedAs
    <2>3. Done(h) \/ Goto(h, "launch")
      BY <1>6 DEF ArrivedAs, Onward
    <2> HIDE DEF to
    <2> QED
      BY <1>0, <1>1, <2>1, <2>2, <2>3, CommitTame, CommitShows, TameSeats, GoesOnKey
  <1> QED
    BY <1>2, <1>3, <1>4, <1>5, <1>6 DEF Cancelling, Arriving

LEMMA MissingKey ==
  ASSUME LaunchInv, LaunchInv', Keys, NEW h \in Handlers, Missing(h), Mine(h), NoneBreaks(h)
  PROVE  Keys'
  <1>0. TypeInv /\ FlowInv
    BY DEF LaunchInv, PaperInv, FlowInv
  <1>1. call[h] \notin Breaks /\ pc[h] \notin Clearing
    BY <1>0, KindOfLabel
    DEF FlowInv, AtKind, Missing, ReadToMiss, Miss, Missed, Unmiss, At, Breaks, Clearing
  <1>2. CASE ReadToMiss(h)
    <2>1. Tame /\ ShowsNobody
      BY <1>2, QuietTame DEF ReadToMiss, Found, db, ShowsNobody
    <2> QED
      BY <1>1, <1>2, <2>1, TameSeats, GoesOnKey DEF ReadToMiss
  <1>3. CASE Miss(h)
    <2>1. Tame
      <3>1. CASE RewriteOnly({old[h]}, "no_show") /\ status[old[h]] = "booked"
        BY <3>1, RewriteTame
      <3> QED
        BY <1>3, <3>1, QuietTame DEF Miss
    <2>2. ShowsNobody
      BY <1>3 DEF Miss, RewriteOnly, db, ShowsNobody
    <2> QED
      BY <1>1, <1>3, <2>1, <2>2, TameSeats, GoesOnKey DEF Miss
  <1>4. CASE Missed(h)
    <2> DEFINE to == IF KindOf(old[h]) = "visit" THEN StatusAfterCancellation(mem[h].app)
                     ELSE "no_show"
    <2>1. to = AtKeys => mem[h].app = AtKeys
      BY LeadsToNoKeys DEF AtKeys
    <2>2. Commit(h, to, old[h], "no_show") \/ Refused(h, to)
      BY <1>4 DEF Missed
    <2>3. Done(h) \/ Goto(h, "unmiss")
      BY <1>4 DEF Missed
    <2> HIDE DEF to
    <2> QED
      BY <1>0, <1>1, <2>1, <2>2, <2>3, CommitTame, CommitShows, TameSeats, GoesOnKey
  <1>5. CASE Unmiss(h)
    <2>1. /\ UNCHANGED <<app, family, attempt, launches>>
          /\ \A b \in Rows : \/ status'[b] = status[b]
                             \/ status[b] = "no_show" /\ status'[b] = "booked"
      BY <1>5, RewriteRows DEF Unmiss, RewriteOnly
    <2>2. NoReopen /\ SeatsLeft /\ ShowsNobody
      BY <2>1 DEF NoReopen, SeatsLeft, ShowsNobody, Seat, OnPaper
    <2> QED
      BY <1>1, <1>5, <2>2, GoesOnKey DEF Unmiss
  <1> QED
    BY <1>2, <1>3, <1>4, <1>5 DEF Missing

LEMMA FreeingKey ==
  ASSUME LaunchInv, LaunchInv', Keys, NEW h \in Handlers,
         Deferring(h) \/ Leaving(h) \/ Skipping(h), Mine(h), NoneBreaks(h)
  PROVE  Keys'
  <1>0. /\ TypeInv /\ FlowInv /\ KeysOf(h) /\ call[h] \in KindsAt(pc[h])
        /\ ~At(h, "idle") => who[h] \in Families
    BY DEF LaunchInv, PaperInv, FlowInv, TypeInv, Known, AtKind, Keys
  <1>1. CASE \/ FreeBooked(h) \/ FreeArrived(h) \/ LeaveRows(h) \/ LeaveSitting(h)
             \/ SkipSitting(h) \/ SkipVisit(h) \/ SkipArrived(h) \/ SkipReady(h)
    <2>1. PICK l \in {"freeArrived", "defer", "leaveSitting", "leave", "skipVisit", "skipArrived",
                      "skipReady", "skip"} : Goto(h, l) /\ (call[h] = "withdraw" => l \in Clearing)
      BY <1>0, <1>1, KindOfLabel
      DEF FreeBooked, FreeArrived, LeaveRows, LeaveSitting, SkipSitting, SkipVisit, SkipArrived,
          SkipReady, At, Clearing
    <2>2. call[h] \in Breaks /\ (call[h] # "withdraw" => call[h] \in {"skip", "defer"})
      BY <1>0, <1>1, KindOfLabel
      DEF FreeBooked, FreeArrived, LeaveRows, LeaveSitting, SkipSitting, SkipVisit, SkipArrived,
          SkipReady, At, Breaks
    <2>3. UNCHANGED <<app, family, launches>>
      BY <1>1
      DEF FreeBooked, FreeArrived, LeaveRows, LeaveSitting, SkipSitting, SkipVisit, SkipArrived,
          SkipReady, RewriteOnly, AbandonOf, paper
    <2>4. \A b \in Rows :
            /\ \/ status'[b] = status[b]
               \/ status'[b] = "cancelled" /\ family[b] = who[h]
            /\ \/ attempt'[b] = attempt[b]
               \/ attempt'[b] = "abandoned" /\ family[b] = who[h]
      <3>1. CASE \/ FreeBooked(h) \/ FreeArrived(h) \/ LeaveRows(h) \/ SkipSitting(h)
                 \/ SkipVisit(h) \/ SkipArrived(h)
        <4>1. PICK S \in SUBSET Of(who[h]) : RewriteOnly(S, "cancelled")
          BY <3>1
          DEF FreeBooked, FreeArrived, LeaveRows, SkipSitting, SkipVisit, SkipArrived, RowsOf, SatFor
        <4> QED
          BY <4>1, RewriteRows DEF Of
      <3>2. CASE LeaveSitting(h) \/ SkipReady(h)
        BY <3>2 DEF LeaveSitting, SkipReady, AbandonOf
      <3> QED
        BY <1>1, <3>1, <3>2
    <2>5. NoReopen /\ \A b \in Rows : Seat(b) /\ family[b] # who[h] => Seat(b)'
      BY <2>3, <2>4 DEF NoReopen, Seat, OnPaper
    <2>6. /\ call'[h] = call[h] /\ who'[h] = who[h] /\ mem'[h] = mem[h] /\ pc'[h] = l
          /\ l # "handIn"
      BY <1>0, <2>1, GotoMine
    <2> QED
      BY <2>1, <2>2, <2>3, <2>5, <2>6, BreakKey DEF NoneBreaks
  <1>2. CASE Leave(h)
    <2>1. (Commit(h, "withdrawn", NoRow, "none") \/ Refused(h, "withdrawn")) /\ Done(h)
      BY <1>2 DEF Leave
    <2>2. who[h] \in Families
      BY <1>0, <1>2 DEF Leave, At
    <2>3. ShowsNobody /\ (app'[who[h]] = AtKeys => mem[h].app # AtKeys)
      BY <1>0, <2>1, <2>2, CommitClears
    <2>4. NoReopen /\ SeatsLeft
      BY <2>1, CommitTame, TameSeats
    <2> QED
      BY <1>0, <2>1, <2>2, <2>3, <2>4, DoneMine, EndKey DEF NoneBreaks
  <1>3. CASE Defer(h) \/ Skip(h) \/ Resume(h)
    <2>1. NoReopen /\ SeatsLeft
      <3>1. Tame
        BY <1>3 DEF Defer, Resume, Skip, rows, paper, Tame
      <3> QED
        BY <3>1, TameSeats
    <2>2. Done(h) /\ who[h] \in Families
      BY <1>0, <1>3 DEF Defer, Skip, Resume, At
    <2>3. ShowsNobody
      <3>1. At(h, "resume") => mem[h].target \in {"new_enquiry", "awaiting_decision"}
        BY <1>0 DEF FlowInv, Resumes
      <3> QED
        BY <1>0, <1>3, <3>1 DEF Defer, Skip, Resume, TypeInv, DbOK, ShowsNobody, AtKeys
    <2>4. CASE Resume(h)
      <3>1. call[h] \notin Breaks /\ pc[h] \notin Clearing
        BY <1>0, <2>4, KindOfLabel DEF Resume, At, Breaks, Clearing
      <3> QED
        BY <2>1, <2>2, <2>3, <3>1, GoesOnKey
    <2>5. CASE Defer(h) \/ Skip(h)
      <3>1. call[h] \in {"skip", "defer"}
        BY <1>0, <2>5, KindOfLabel DEF Defer, Skip, At
      <3>2. mem[h].app # AtKeys
        BY <1>0, <3>1 DEF KeysOf
      <3> QED
        BY <1>0, <2>1, <2>2, <2>3, <3>2, DoneMine, EndKey DEF NoneBreaks
    <2> QED
      BY <1>3, <2>4, <2>5
  <1> QED
    BY <1>1, <1>2, <1>3 DEF Deferring, Leaving, Skipping

\* The launch that shows a family at the keyboard: the seat is the one it made,
\* and no paper is about to be handed in from another.
LEMMA LaunchedKey ==
  ASSUME LaunchInv, LaunchInv', Keys, NEW h \in Handlers, Launched(h), Mine(h), NoneBreaks(h)
  PROVE  Keys'
  <1>0. /\ TypeInv /\ FlowInv /\ pc[h] = "launched" /\ old[h] \in Rows
        /\ Uncoded(old[h]) /\ family[old[h]] = who[h] /\ who[h] \in Families
    BY DEF LaunchInv, LaunchOf, Owning, PaperInv, FlowInv, TypeInv, Known, Rowed, About, Launched, At
  <1>1. /\ UNCHANGED <<status, family, attempt, launches>> /\ pc'[h] = "idle" /\ call'[h] = "none"
    BY <1>0, DoneMine DEF Launched
  <1>2. NoReopen /\ SeatsLeft
    BY <1>1 DEF NoReopen, SeatsLeft, Seat, OnPaper
  <1>3. KeysOf(h)'
    BY <1>1 DEF KeysOf, Breaks
  <1>4. \A f \in Families : app'[f] = app[f] \/ f = who[h]
    BY <1>0 DEF Launched, TypeInv, DbOK
  <1>5. Seat(old[h]) /\ Seated(who[h])
    BY <1>0 DEF Uncoded, Seat, OnPaper, Seated, Of
  <1>6. NoneIn(h, who[h])
    <2> SUFFICES ASSUME NEW g \in Handlers \ {h}, pc[g] = "handIn", who[g] = who[h],
                        SameOpen(g, old[g]), Seat(old[g])
                 PROVE  FALSE
      BY DEF NoneIn
    <2>1. /\ old[g] \in Rows /\ family[old[g]] = who[g] /\ ~BeingLaunched(old[g])
      BY DEF LaunchInv, LaunchOf, PaperInv, SittingOf, FlowInv, Rowed, About, SameOpen
    <2>2. old[g] # old[h]
      BY <1>0, <2>1 DEF BeingLaunched
    <2>3. KindOf(old[g]) = "assessment" /\ KindOf(old[h]) = "assessment"
      BY <1>0, <1>5, <2>1 DEF LaunchInv, OnlySat, Seat
    <2>4. status[old[g]] \in Live /\ status[old[h]] \in Live
      BY <1>5 DEF Seat, Live
    <2> QED
      BY <1>0, <2>1, <2>2, <2>3, <2>4 DEF LaunchInv, OneLive
  <1>7. ASSUME NEW f \in Families, app'[f] = AtKeys
        PROVE  \/ app[f] = AtKeys /\ (Seated(f) \/ Clears(h, f) => Seated(f)' \/ Clears(h, f)')
               \/ Seated(f)' /\ NoneIn(h, f)
    <2>1. CASE f = who[h]
      BY <1>2, <1>5, <1>6, <2>1, SeatedStays
    <2>2. CASE f # who[h]
      BY <1>2, <1>4, <1>7, <2>2, SeatedStays DEF Clears
    <2> QED
      BY <2>1, <2>2
  <1> QED
    BY <1>2, <1>3, <1>7, KeyStep DEF NoneBreaks

LEMMA LaunchKey ==
  ASSUME LaunchInv, LaunchInv', Keys, NEW h \in Handlers, Launch(h), Mine(h), NoneBreaks(h)
  PROVE  Keys'
  <1>0. /\ TypeInv /\ old[h] \in Rows /\ call[h] \notin Breaks /\ pc[h] \notin Clearing
        /\ UNCHANGED <<app, family>>
    BY KindOfLabel
    DEF LaunchInv, PaperInv, FlowInv, AtKind, Rowed, About, Launch, At, Breaks, Clearing
  <1>1. Done(h) \/ Goto(h, "launched")
    BY DEF Launch
  <1>2. NoReopen /\ SeatsLeft
    <2>1. CASE ~CanLaunch(old[h])
      <3>1. UNCHANGED <<status, attempt, launches>>
        BY <2>1 DEF Launch, paper
      <3> QED
        BY <1>0, <3>1 DEF NoReopen, SeatsLeft, Seat, OnPaper
    <2>2. CASE CanLaunch(old[h])
      <3>1. /\ status' = [status EXCEPT ![old[h]] = "in_progress"]
            /\ attempt' = [attempt EXCEPT ![old[h]] = "ready"]
            /\ launches' = [launches EXCEPT ![old[h]] = @ + 1]
        BY <2>2 DEF Launch
      <3>2. status[old[h]] = "checked_in"
        BY <2>2 DEF CanLaunch
      <3>3. /\ \A c \in Rows \ {old[h]} : /\ status'[c] = status[c] /\ attempt'[c] = attempt[c]
                                          /\ launches'[c] = launches[c]
            /\ launches[old[h]] < launches'[old[h]]
        BY <1>0, <3>1 DEF TypeInv, DbOK
      <3> QED
        BY <1>0, <3>2, <3>3 DEF NoReopen, SeatsLeft, Seat, OnPaper
    <2> QED
      BY <2>1, <2>2
  <1>3. ShowsNobody
    BY <1>0 DEF ShowsNobody
  <1> QED
    BY <1>0, <1>1, <1>2, <1>3, GoesOnKey

LEMMA HandInKey ==
  ASSUME LaunchInv, LaunchInv', Keys, NEW h \in Handlers, HandIn(h), Mine(h), NoneBreaks(h)
  PROVE  Keys'
  <1>0. /\ TypeInv /\ old[h] \in Rows /\ call[h] \notin Breaks /\ pc[h] = "handIn"
        /\ UNCHANGED <<app, family, launches>> /\ KeysOf(h) /\ family[old[h]] = who[h]
    BY KindOfLabel
    DEF LaunchInv, PaperInv, SittingOf, FlowInv, AtKind, Rowed, About, HandIn, At, Breaks, Keys
  <1>1. CASE ~SameOpen(h, old[h])
    <2>1. UNCHANGED <<status, attempt>> /\ Done(h)
      BY <1>1 DEF HandIn
    <2>2. NoReopen /\ SeatsLeft /\ ShowsNobody /\ pc[h] \notin Clearing
      BY <1>0, <2>1 DEF NoReopen, SeatsLeft, ShowsNobody, Seat, OnPaper, Clearing
    <2> QED
      BY <1>0, <2>1, <2>2, GoesOnKey
  <1>2. CASE SameOpen(h, old[h])
    <2>1. /\ attempt' = [attempt EXCEPT ![old[h]] = "submitted"]
          /\ Rewrite({old[h]} \cap {b \in Rows : status[b] \in {"checked_in", "in_progress"}},
                     "completed")
          /\ Goto(h, "handedIn")
      BY <1>2 DEF HandIn
    <2>2. /\ \A c \in Rows \ {old[h]} : attempt'[c] = attempt[c] /\ status'[c] = status[c]
          /\ attempt'[old[h]] = "submitted"
      BY <1>0, <2>1 DEF TypeInv, DbOK, Rewrite
    <2>3. /\ call'[h] = call[h] /\ pc'[h] = "handedIn" /\ who'[h] = who[h] /\ mem'[h] = mem[h]
      BY <1>0, <2>1, GotoMine
    <2>4. NoReopen
      BY <1>0, <2>2 DEF NoReopen, Seat, OnPaper
    <2>5. KeysOf(h)'
      BY <1>0, <2>3 DEF KeysOf, Breaks
    <2>6. ASSUME NEW f \in Families, app'[f] = AtKeys
          PROVE  app[f] = AtKeys /\ (Seated(f) \/ Clears(h, f) => Seated(f)' \/ Clears(h, f)')
      <3>1. app[f] = AtKeys /\ ~Clears(h, f)
        BY <1>0, <2>6 DEF Clears, Clearing
      <3>2. CASE f = who[h] /\ Seat(old[h])
        <4>1. mem[h].app = AtKeys
          BY <1>0, <1>2, <3>1, <3>2 DEF KeysOf
        <4> QED
          BY <2>3, <3>1, <3>2, <4>1 DEF Clears, Clearing
      <3>3. CASE f # who[h] \/ ~Seat(old[h])
        <4>1. \A b \in Rows : Seat(b) /\ family[b] = f => Seat(b)' /\ family'[b] = f
          BY <1>0, <2>2, <3>3 DEF Seat, OnPaper
        <4> QED
          BY <3>1, <4>1 DEF Seated, Of
      <3> QED
        BY <3>2, <3>3
    <2> QED
      BY <2>4, <2>5, <2>6, KeyStep DEF NoneBreaks
  <1> QED
    BY <1>1, <1>2

LEMMA SittingKey ==
  ASSUME LaunchInv, LaunchInv', Keys, NEW h \in Handlers, Sitting(h), Mine(h), NoneBreaks(h)
  PROVE  Keys'
  <1>0. /\ TypeInv /\ FlowInv /\ KeysOf(h) /\ LaunchOf(h) /\ call[h] \in KindsAt(pc[h])
        /\ ~At(h, "idle") => who[h] \in Families
        /\ pc[h] \in About => old[h] \in Rows
    BY DEF LaunchInv, PaperInv, FlowInv, TypeInv, Known, AtKind, Keys, Rowed
  <1>1. CASE ReadToLaunch(h) \/ ReadForWalkIn(h)
    <2>1. Tame /\ ShowsNobody
      BY <1>1, QuietTame DEF ReadToLaunch, ReadForWalkIn, Found, db, ShowsNobody
    <2>2. call[h] \notin Breaks /\ pc[h] \notin Clearing
      BY <1>1 DEF ReadToLaunch, ReadForWalkIn, At, Breaks, Clearing
    <2> QED
      BY <1>1, <2>1, <2>2, TameSeats, GoesOnKey DEF ReadToLaunch, ReadForWalkIn
  <1>2. CASE HandedIn(h) \/ Abandoned(h)
    <2>1. PICK to \in {"assessment_completed", "assessment_booked"}, b \in {old[h], NoRow},
               e \in {"completed", "none"} :
            (Commit(h, to, b, e) \/ Refused(h, to)) /\ Done(h)
      BY <1>2 DEF HandedIn, Abandoned
    <2>2. who[h] \in Families
      BY <1>0, <1>2 DEF HandedIn, Abandoned, At
    <2>3. ShowsNobody /\ (app'[who[h]] = AtKeys => mem[h].app # AtKeys)
      BY <1>0, <2>1, <2>2, CommitClears
    <2>4. NoReopen /\ SeatsLeft
      BY <2>1, CommitTame, TameSeats
    <2> QED
      BY <1>0, <2>1, <2>2, <2>3, <2>4, DoneMine, EndKey DEF NoneBreaks
  <1>3. CASE Abandon(h) \/ Unlaunch(h)
    <2>1. call[h] \in Breaks /\ family[old[h]] = who[h] /\ old[h] \in Rows
      BY <1>0, <1>3, KindOfLabel DEF Abandon, Unlaunch, At, Breaks, LaunchOf, Owning, About
    <2>2. UNCHANGED <<app, family, launches>>
      BY <1>3 DEF Abandon, Unlaunch, RewriteOnly, paper
    <2>3. /\ \A b \in Rows \ {old[h]} : status'[b] = status[b] /\ attempt'[b] = attempt[b]
          /\ status'[old[h]] \in {status[old[h]], "checked_in"}
          /\ attempt'[old[h]] \in {attempt[old[h]], "abandoned"}
      <3>1. CASE Abandon(h)
        BY <1>0, <2>1, <3>1 DEF Abandon, TypeInv, DbOK
      <3>2. CASE Unlaunch(h)
        BY <2>1, <3>2, RewriteRows DEF Unlaunch
      <3> QED
        BY <1>3, <3>1, <3>2
    <2>4. NoReopen /\ \A b \in Rows : Seat(b) /\ family[b] # who[h] => Seat(b)'
      BY <2>1, <2>2, <2>3 DEF NoReopen, Seat, OnPaper
    <2>5. /\ pc'[h] \in {"unlaunch", "abandoned"} /\ call'[h] = call[h] /\ who'[h] = who[h]
          /\ mem'[h] = mem[h]
      BY <1>0, <1>3, GotoMine DEF Abandon, Unlaunch
    <2> QED
      BY <2>1, <2>2, <2>4, <2>5, BreakKey DEF NoneBreaks, Clearing
  <1> QED
    BY <1>1, <1>2, <1>3, LaunchKey, LaunchedKey, HandInKey DEF Sitting

LEMMA BeginsKey ==
  ASSUME LaunchInv, LaunchInv', Keys, NEW h \in Handlers, Begins(h), Mine(h), NoneBreaks(h)
  PROVE  Keys'
  <1>0. TypeInv
    BY DEF LaunchInv, PaperInv, FlowInv
  <1>1. PICK kind \in Kinds, f \in Families, b \in Rows \cup {NoRow}, t \in Targets :
          Begin(h, kind, f, b, t, Start(kind)) /\ Fit(kind, f, b, t)
    BY <1>0, Beginnings
  <1>2. /\ call'[h] = kind /\ who'[h] = f /\ mem'[h].app = app[f] /\ UNCHANGED db /\ pc[h] = "idle"
    <2>1. /\ call'[h] = kind /\ who'[h] = f /\ mem'[h].app = app[f]
          /\ UNCHANGED db
      BY <1>0, <1>1, BeginMine
    <2>2. pc[h] = "idle"
      BY <1>1 DEF Begin, At
    <2> QED
      BY <2>1, <2>2
  <1>3. NoReopen /\ SeatsLeft /\ app' = app
    BY <1>2, QuietTame, TameSeats DEF db
  <1>4. kind \in {"skip", "defer"} => app[f] # AtKeys
    BY <1>1 DEF Fit, CanTransition, Graph, SkipFrom, AtKeys
  <1>5. KeysOf(h)'
    BY <1>2, <1>3, <1>4 DEF KeysOf
  <1>6. ASSUME NEW g \in Families, app'[g] = AtKeys
        PROVE  app[g] = AtKeys /\ (Seated(g) \/ Clears(h, g) => Seated(g)' \/ Clears(h, g)')
    BY <1>2, <1>3, <1>6, SeatedStays DEF Clears, Clearing
  <1> QED
    BY <1>3, <1>5, <1>6, KeyStep DEF NoneBreaks

LEMMA WorldKey ==
  ASSUME LaunchInv, LaunchInv', Keys, World \/ UNCHANGED vars, UNCHANGED self
  PROVE  Keys'
  <1>0. TypeInv
    BY DEF LaunchInv, PaperInv, FlowInv
  <1>1. UNCHANGED <<status, family, launches>>
    BY DEF World, StartSitting, Mark, Decide, Close, vars, db, rows, paper
  <1>2. \A b \in Rows : OnPaper(b)' <=> OnPaper(b)
    <2>1. ASSUME NEW c \in Rows, StartSitting(c) PROVE \A b \in Rows : OnPaper(b)' <=> OnPaper(b)
      BY <1>0, <2>1 DEF StartSitting, TypeInv, DbOK, OnPaper
    <2>2. UNCHANGED attempt \/ \E c \in Rows : StartSitting(c)
      BY DEF World, Mark, Decide, Close, vars, db, rows, paper
    <2> QED
      BY <2>1, <2>2 DEF OnPaper
  <1>3. \A f \in Families : app'[f] = AtKeys <=> app[f] = AtKeys
    BY <1>0 DEF World, StartSitting, Mark, Decide, Close, vars, db, TypeInv, DbOK, AtKeys
  <1>4. \A f : Seated(f) => Seated(f)'
    BY <1>1, <1>2 DEF Seated, Seat, Of
  <1>5. ShownSeated'
    <2>1. \A f, h : Clears(h, f) => Clears(h, f)'
      BY DEF Clears, self
    <2> QED
      BY <1>3, <1>4, <2>1 DEF Keys, ShownSeated
  <1>6. ASSUME NEW h \in Handlers PROVE KeysOf(h)'
    <2>1. /\ KeysOf(h) /\ call'[h] = call[h] /\ pc'[h] = pc[h] /\ old'[h] = old[h]
          /\ who'[h] = who[h] /\ mem'[h] = mem[h]
      BY DEF Keys, self
    <2>2. call[h] \in Breaks \/ pc[h] = "handIn" => who[h] \in Families
      <3>1. pc[h] = "idle" => call[h] = "none"
        BY KindOfLabel DEF LaunchInv, PaperInv, FlowInv, AtKind
      <3> QED
        BY <3>1 DEF LaunchInv, PaperInv, FlowInv, TypeInv, Known, At, Breaks
    <2>3. pc[h] = "handIn" => old[h] \in Rows
      BY DEF LaunchInv, PaperInv, FlowInv, Rowed, About
    <2>4. pc[h] = "handIn" => /\ SameOpen(h, old[h])' => SameOpen(h, old[h])
                              /\ Seat(old[h])' => Seat(old[h])
      BY <1>1, <1>2, <2>1, <2>3 DEF SameOpen, Seat, OnPaper
    <2> QED
      BY <1>3, <2>1, <2>2, <2>4 DEF KeysOf
  <1> QED
    BY <1>5, <1>6 DEF Keys

LEMMA NextKey ==
  LaunchInv' /\ KeyInv /\ NoMoves /\ EndsAlone /\ [Next]_vars => KeyInv'
  <1> SUFFICES ASSUME LaunchInv', KeyInv, NoMoves, EndsAlone, [Next]_vars PROVE KeyInv'
    OBVIOUS
  <1>0. LaunchInv /\ FlowInv /\ TypeInv /\ TypeInv' /\ Shape /\ (crashes = 0 => Keys)
    BY NextShape DEF KeyInv, LaunchInv, PaperInv, FlowInv
  <1>1. ASSUME NEW h \in Handlers, Step(h) \/ Begins(h) PROVE KeyInv'
    <2>1. Mine(h) /\ NoneBreaks(h) /\ crashes' = crashes
      BY <1>0, <1>1, StepFlow, BeginsFlow, BreaksAlone, StepCrashes
    <2>2. ASSUME Keys PROVE Keys'
      BY <1>0, <1>1, <2>1, <2>2, ChoosingKey, ArrivingKey, MissingKey, FreeingKey, SittingKey, BeginsKey
      DEF Step
    <2> QED
      BY <1>0, <2>1, <2>2 DEF KeyInv
  <1>2. ASSUME NEW h \in Handlers, Crash(h) PROVE KeyInv'
    <2>1. crashes' # 0
      BY <1>0, <1>2 DEF Crash, TypeInv
    <2> QED
      BY <2>1 DEF KeyInv
  <1>3. CASE (World \/ UNCHANGED vars) /\ UNCHANGED self
    <2>1. crashes' = crashes
      BY <1>3 DEF World, StartSitting, Mark, Decide, Close, vars
    <2> QED
      BY <1>0, <1>3, <2>1, WorldKey DEF KeyInv
  <1>4. UNCHANGED vars => UNCHANGED self
    BY DEF vars
  <1> QED
    BY <1>0, <1>1, <1>2, <1>3, <1>4 DEF Shape

\* When every invocation has ended and none was killed, a child shown at the
\* keyboard has a paper in front of them, however launches, hand-ins and new
\* launches of other bookings interleave (onAssessmentLaunched,
\* onAssessmentSubmitted), provided that what breaks a sitting off, an
\* abandonment, a withdrawal, a skip and a deferral, is alone, that no booking
\* is moved, and that no paper is begun or handed in before its launch is
\* recorded.
THEOREM AtKeyboardHolds ==
  ASSUME NoMoves, EndsAlone, LaunchFirst
  PROVE  Spec => []AtKeyboard
  <1>1. Init /\ FlowInv => PaperInv
    BY FamilyAssumption
    DEF Init, PaperInv, SeatsPaper, Begun, Over, JudgedOn, PausedOn, SittingOf, Judged
  <1>2. Init /\ PaperInv => LaunchInv
    BY DEF Init, LaunchInv, OneLive, OnlySat, OneLaunches, LaunchOf, Owning, Live
  <1>3. Init /\ LaunchInv => KeyInv
    BY DEF Init, KeyInv, Keys, ShownSeated, KeysOf, AtKeys, Breaks
  <1>4. KeyInv => AtKeyboard
    <2> SUFFICES ASSUME KeyInv, Settled, NEW f \in Families, app[f] = AtKeys PROVE Seated(f)
      BY DEF AtKeyboard, AtKeys, Seated, Seat, OnPaper
    <2>1. \A h \in Handlers : ~Clears(h, f)
      BY DEF Settled, Quiet, At, Clears, Clearing
    <2> QED
      BY <2>1 DEF KeyInv, Settled, Keys, ShownSeated
  <1> QED
    BY <1>1, <1>2, <1>3, <1>4, NoMoves, EndsAlone, LaunchFirst, InitFlow, NextFlow, NextPaper,
       NextLaunch, NextKey, PTL DEF Spec

-----------------------------------------------------------------------------
(* A paper on its way to be marked.  While a child may type, the family is    *)
(* shown at the keyboard, so a hand-in read the status its commit asks for,   *)
(* and nothing takes the family off the keyboard before the commit: no other  *)
(* sitting of theirs is under way or can come back.  The exception is a       *)
(* family left with a launch that failed and a booking that is over.          *)

BooksAlone == {"book"} \cap Calls \subseteq Alone

Gone == {"completed", "cancelled", "rescheduled"}
Dud(f) == \E b \in Of(f) : attempt[b] # "none" /\ ~coded[b] /\ status[b] \in Gone
Excused == {f \in Families : app[f] = "withdrawn" \/ Dud(f)}

\* A sitting to come, or to come back.
Sittable ==
  {b \in Rows : /\ KindOf(b) = "assessment"
                /\ status[b] \in Live \/ \E h \in Handlers : pc[h] \in Marking /\ old[h] = b}
OneSitting ==
  \A b, c \in Sittable : family[b] = family[c] => b = c

OpenUp == \A b \in Rows : OnPaper(b) => status[b] # "checked_in"
Leaves(f) == \E h \in Handlers : pc[h] = "leaveSitting" /\ who[h] = f
Typing(b) == OnPaper(b) /\ coded[b]
SatOn ==
  \A b \in Rows : Typing(b) =>
    \/ family[b] \in Excused \/ Leaves(family[b])
    \/ Seat(b) /\ app[family[b]] = AtKeys

HandsOf(h) ==
  pc[h] = "handedIn" =>
    \/ who[h] \in Excused
    \/ /\ app[who[h]] = AtKeys /\ mem[h].app = AtKeys
       /\ \A b \in Of(who[h]) : b \notin Sittable
OneHands ==
  \A g, h \in Handlers :
    pc[g] = "handedIn" /\ pc[h] = "handedIn" /\ g # h /\ who[g] = who[h] => who[h] \in Excused
Filed ==
  \A b \in Rows : attempt[b] = "submitted" =>
    \/ "completed" \in told[b] \/ family[b] \in Excused
    \/ \E h \in Handlers : pc[h] = "handedIn" /\ old[h] = b

\* What the invocations that are alone know.
Tidies == {"abandon", "unlaunch", "abandoned"}
BreakOf(h) ==
  /\ call[h] \in {"skip", "defer"} => mem[h].app # "withdrawn"
  /\ pc[h] = "record" => /\ new[h] \in Rows /\ family[new[h]] = who[h]
                         /\ status[new[h]] = "booked" /\ KindOf(new[h]) = Kind(mem[h].target)
  /\ pc[h] = "abandon" => SameOpen(h, old[h])
  /\ pc[h] \in {"unlaunch", "abandoned"} => old[h] \in Rows /\ ~OnPaper(old[h])
  /\ pc[h] \in Tidies => who[h] \in Excused \/ \A b \in Of(who[h]) \ {old[h]} : ~Seat(b)

Hands ==
  /\ OneSitting /\ OpenUp /\ SatOn /\ OneHands /\ Filed
  /\ \A h \in Handlers : HandsOf(h) /\ BreakOf(h)
Before == LaunchInv /\ Keys /\ EndsInv /\ Hands

\* Nobody else is where one is alone; or nobody else is anywhere.
NoneSolo(h) ==
  \A g \in Handlers \ {h} : call[g] \notin Breaks /\ pc[g] \notin Tidies \cup {"record", "leaveSitting"}
Lone(h) == \A g \in Handlers \ {h} : pc[g] = "idle"

\* An excuse lasts, and so does the timeline.
Lasting ==
  /\ \A b \in Rows :
       /\ attempt[b] # "none" => attempt'[b] # "none" /\ family'[b] = family[b]
       /\ attempt[b] # "none" /\ status[b] \in Gone => status'[b] \in Gone /\ coded'[b] = coded[b]
       /\ "completed" \in told[b] => "completed" \in told'[b]
  /\ \A f \in Families : app[f] = "withdrawn" => app'[f] = "withdrawn"

LEMMA ExcuseLasts == Lasting => Excused \subseteq Excused'
  BY DEF Lasting, Excused, Dud, Of

LEMMA AloneLone ==
  ASSUME FlowInv, NEW h \in Handlers, call[h] \in Alone
  PROVE  Lone(h)
  <1>1. \A l \in PC : l # "idle" => "none" \notin KindsAt(l)
    BY DEF KindsAt, PC
  <1> QED
    BY <1>1 DEF FlowInv, TypeInv, SelfOK, ByItself, AtKind, Lone

LEMMA SoloAlone ==
  ASSUME FlowInv, EndsAlone, BooksAlone, NoMoves
  PROVE  \A h \in Handlers : call[h] \in Breaks \cup {"book"} => call[h] \in Alone
  BY DEF FlowInv, TypeInv, SelfOK, EndsAlone, BooksAlone, Breaks

LEMMA SoloKinds ==
  ASSUME FlowInv, NoMoves
  PROVE  \A h \in Handlers :
           pc[h] \in Tidies \cup {"record", "leaveSitting"} => call[h] \in Breaks \cup {"book"}
  <1>1. \A h \in Handlers : call[h] # "move"
    BY DEF FlowInv, TypeInv, SelfOK, NoMoves
  <1> QED
    BY <1>1, KindOfLabel DEF FlowInv, AtKind, Tidies, Breaks

LEMMA NobodySolo ==
  ASSUME FlowInv, EndsAlone, BooksAlone, NoMoves, NEW h \in Handlers, Step(h) \/ Crash(h) \/ Begins(h)
  PROVE  NoneSolo(h)
  BY NobodyAlone, SoloAlone, SoloKinds DEF NoneSolo

\* What a step leaves of a paper that somebody else has just handed in.
SparesHands(h) ==
  \A g \in Handlers \ {h} : pc[g] = "handedIn" =>
    \/ who[g] \in Excused'
    \/ /\ app[who[g]] = AtKeys => app'[who[g]] = AtKeys
       /\ \A b \in Sittable' : family'[b] = who[g] => family[b] = who[g] /\ b \in Sittable

LEMMA HandStep ==
  ASSUME Before, NEW h \in Handlers, Mine(h), NoneSolo(h), Lasting, SparesHands(h),
         OneSitting', OpenUp', SatOn', Filed', HandsOf(h)', BreakOf(h)',
         pc'[h] = "handedIn" =>
           \A g \in Handlers \ {h} : pc[g] = "handedIn" /\ who[g] = who'[h] => who'[h] \in Excused'
  PROVE  Hands'
  <1>1. \A g \in Handlers : pc[g] = "handedIn" => who[g] \in Families
    BY DEF Before, LaunchInv, PaperInv, FlowInv, TypeInv, Known, At
  <1>2. ASSUME NEW g \in Handlers \ {h} PROVE HandsOf(g)' /\ BreakOf(g)'
    <2>1. /\ call'[g] = call[g] /\ pc'[g] = pc[g] /\ old'[g] = old[g] /\ new'[g] = new[g]
          /\ who'[g] = who[g] /\ mem'[g] = mem[g]
      BY DEF Mine
    <2>2. BreakOf(g)'
      BY <2>1 DEF NoneSolo, Breaks, Tidies, BreakOf
    <2>3. ASSUME pc[g] = "handedIn", who[g] \notin Excused'
          PROVE  /\ app'[who[g]] = AtKeys /\ mem[g].app = AtKeys
                 /\ \A b \in Rows : family'[b] = who[g] => b \notin Sittable'
      <3>1. who[g] \notin Excused
        BY <1>1, <2>3, ExcuseLasts
      <3>2. /\ app[who[g]] = AtKeys /\ mem[g].app = AtKeys /\ \A b \in Of(who[g]) : b \notin Sittable
        BY <2>3, <3>1 DEF Before, Hands, HandsOf
      <3> QED
        BY <2>3, <3>2 DEF SparesHands, Of
    <2> QED
      BY <2>1, <2>2, <2>3 DEF HandsOf, Of
  <1>3. OneHands'
    <2> SUFFICES ASSUME NEW g \in Handlers, NEW k \in Handlers, pc'[g] = "handedIn",
                        pc'[k] = "handedIn", g # k, who'[g] = who'[k]
                 PROVE  who'[k] \in Excused'
      BY DEF OneHands
    <2>1. CASE g # h /\ k # h
      <3>1. pc[g] = "handedIn" /\ pc[k] = "handedIn" /\ who[g] = who[k] /\ who'[k] = who[k]
        BY <2>1 DEF Mine
      <3> QED
        BY <1>1, <3>1, ExcuseLasts DEF Before, Hands, OneHands
    <2>2. CASE g = h \/ k = h
      BY <2>2 DEF Mine
    <2> QED
      BY <2>1, <2>2
  <1> QED
    BY <1>2, <1>3 DEF Hands

\* A step that begins no sitting and takes nobody off the keyboard.
LEMMA SatStays ==
  ASSUME Before, NEW h \in Handlers, Mine(h), NoneSolo(h), Lasting, pc[h] # "leaveSitting",
         \A b \in Rows : Typing(b)' => Typing(b) /\ (Seat(b) => Seat(b)'),
         \A f \in Families : app[f] = AtKeys => app'[f] = AtKeys
  PROVE  SatOn'
  <1> SUFFICES ASSUME NEW b \in Rows, Typing(b)'
               PROVE  \/ family'[b] \in Excused'
                      \/ Seat(b)' /\ app'[family'[b]] = AtKeys
    BY DEF SatOn
  <1>1. Typing(b) /\ attempt[b] # "none"
    BY DEF Typing, OnPaper
  <1>2. family[b] \in Families /\ family'[b] = family[b]
    BY <1>1 DEF Lasting, Before, LaunchInv, PaperInv, FlowInv, TypeInv, Owned
  <1>3. ~Leaves(family[b])
    BY DEF Leaves, NoneSolo
  <1>4. family[b] \in Excused \/ (Seat(b) /\ app[family[b]] = AtKeys)
    BY <1>1, <1>3 DEF Before, Hands, SatOn
  <1> QED
    BY <1>2, <1>4, ExcuseLasts

LEMMA FiledStays ==
  ASSUME Before, NEW h \in Handlers, Mine(h), Lasting, pc[h] # "handedIn",
         \A b \in Rows : attempt'[b] = "submitted" => attempt[b] = "submitted"
  PROVE  Filed'
  <1> SUFFICES ASSUME NEW b \in Rows, attempt'[b] = "submitted"
               PROVE  \/ "completed" \in told'[b] \/ family'[b] \in Excused'
                      \/ \E g \in Handlers : pc'[g] = "handedIn" /\ old'[g] = b
    BY DEF Filed
  <1>1. attempt[b] = "submitted"
    OBVIOUS
  <1>2. family[b] \in Families /\ family'[b] = family[b]
    BY <1>1 DEF Lasting, Before, LaunchInv, PaperInv, FlowInv, TypeInv, Owned
  <1>3. \/ "completed" \in told[b] \/ family[b] \in Excused
        \/ \E g \in Handlers \ {h} : pc[g] = "handedIn" /\ old[g] = b
    BY <1>1 DEF Before, Hands, Filed
  <1> QED
    BY <1>2, <1>3, ExcuseLasts DEF Mine, Lasting

\* A step that leaves the sittings as they are, and the statuses that matter.
Mild ==
  /\ Tame
  /\ \A b \in Rows : /\ status[b] \in Gone => status'[b] \in Gone
                     /\ status'[b] = "checked_in" => status[b] \in {"checked_in", "booked"}
                     /\ "completed" \in told[b] => "completed" \in told'[b]
  /\ \A f \in Families : app[f] \in {AtKeys, "withdrawn"} => app'[f] = app[f]

LEMMA MildLasts == Mild => Lasting
  BY DEF Mild, Tame, Lasting, AtKeys

LEMMA MildHand ==
  ASSUME Before, NEW h \in Handlers, Mine(h), NoneSolo(h), Mild,
         pc[h] \notin {"handedIn", "leaveSitting"},
         pc'[h] # "handedIn", BreakOf(h)',
         pc'[h] \in Marking /\ KindOf(old'[h]) = "assessment" => old'[h] \in Sittable
  PROVE  Hands'
  <1>1. Lasting
    BY MildLasts
  <1>2. Sittable' \subseteq Sittable
    <2> SUFFICES ASSUME NEW b \in Sittable' PROVE b \in Sittable
      OBVIOUS
    <2>1. b \in Rows /\ KindOf(b) = "assessment"
      BY DEF Sittable, Mild, Tame, KindOf
    <2>2. CASE status'[b] \in Live
      <3>1. status[b] \in Live
        BY <2>1, <2>2 DEF Mild, Tame
      <3> QED
        BY <2>1, <3>1 DEF Sittable
    <2>3. ASSUME NEW g \in Handlers, pc'[g] \in Marking, old'[g] = b PROVE b \in Sittable
      BY <2>1, <2>3 DEF Mine, Sittable
    <2> QED
      BY <2>2, <2>3 DEF Sittable
  <1>3. UNCHANGED <<family, attempt, coded>>
    BY DEF Mild, Tame
  <1>4. OneSitting'
    BY <1>2, <1>3 DEF Before, Hands, OneSitting
  <1>6. OpenUp'
    <2>1. \A b \in Rows : OnPaper(b) => status[b] # "booked"
      BY DEF Before, LaunchInv, PaperInv, SeatsPaper, Begun, OnPaper
    <2> QED
      BY <1>3, <2>1 DEF Before, Hands, OpenUp, OnPaper, Mild
  <1>7. \A b \in Rows : Typing(b)' => Typing(b) /\ (Seat(b) => Seat(b)')
    BY <1>3 DEF Typing, OnPaper, Seat, Mild, Tame
  <1>8. SatOn'
    BY <1>1, <1>7, SatStays DEF Mild, AtKeys
  <1>9. Filed'
    BY <1>1, <1>3, FiledStays
  <1>10. SparesHands(h)
    <2>1. \A g \in Handlers : pc[g] = "handedIn" => who[g] \in Families
      BY DEF Before, LaunchInv, PaperInv, FlowInv, TypeInv, Known, At
    <2> QED
      BY <1>2, <1>3, <2>1 DEF SparesHands, Mild, AtKeys
  <1>11. HandsOf(h)'
    BY DEF HandsOf
  <1> QED
    BY <1>1, <1>4, <1>6, <1>8, <1>9, <1>10, <1>11, HandStep

\* Which statements are mild.
LEMMA QuietMild == UNCHANGED db => Mild
  BY QuietTame DEF db, rows, Mild

LEMMA RewriteMild ==
  ASSUME NEW S, NEW s \in {"cancelled", "completed", "no_show"}, RewriteOnly(S, s),
         \A b \in S \cap Rows : status[b] \in {"booked", "checked_in"}
  PROVE  Mild
  <1>1. Tame
    BY RewriteTame
  <1>2. UNCHANGED <<app, told>> /\ \A b \in Rows : status'[b] = IF b \in S THEN s ELSE status[b]
    BY DEF RewriteOnly, Rewrite
  <1> QED
    BY <1>1, <1>2 DEF Mild, Gone

LEMMA FromKeys ==
  /\ \A to : Legal("withdrawn", to) => to = "withdrawn"
  /\ ~Legal(AtKeys, "visit_booked") /\ ~Legal(AtKeys, "awaiting_decision")
  /\ ~Legal(AtKeys, "no_show") /\ ~Legal(AtKeys, "new_enquiry")
  BY DEF Legal, CanTransition, Graph, AtKeys

LEMMA CommitMild ==
  ASSUME TypeInv, NEW h \in Handlers, who[h] \in Families, NEW to, NEW b, NEW e,
         Commit(h, to, b, e) \/ Refused(h, to),
         mem[h].app = AtKeys /\ Legal(AtKeys, to) => to = AtKeys
  PROVE  Mild
  <1>1. Tame
    BY CommitTame
  <1>2. status' = status /\ \A c \in Rows : "completed" \in told[c] => "completed" \in told'[c]
    BY DEF Commit, Refused, db, rows
  <1>3. \A f \in Families : app[f] \in {AtKeys, "withdrawn"} => app'[f] = app[f]
    <2>1. CASE Refused(h, to)
      BY <2>1 DEF Refused, db
    <2>2. CASE Commit(h, to, b, e)
      <3>1. app[who[h]] = mem[h].app /\ Legal(mem[h].app, to) /\ app' = [app EXCEPT ![who[h]] = to]
        BY <2>2 DEF Commit
      <3>2. app[who[h]] \in {AtKeys, "withdrawn"} => to = app[who[h]]
        BY <3>1, FromKeys
      <3> QED
        BY <3>1, <3>2 DEF TypeInv, DbOK
    <2> QED
      BY <2>1, <2>2
  <1> QED
    BY <1>1, <1>2, <1>3 DEF Mild

\* Labels of which Hands asks something.
Asked == Tidies \cup Marking \cup {"handedIn", "record"}

LEMMA GoesOnHand ==
  ASSUME Before, NEW h \in Handlers, Mine(h), NoneSolo(h), Mild,
         pc[h] \notin {"handedIn", "leaveSitting"},
         Done(h) \/ (\E l : l \notin Asked /\ Goto(h, l)) \/ (\E l, b : l \notin Asked /\ Found(h, b, l))
  PROVE  Hands'
  <1>0. TypeInv
    BY DEF Before, LaunchInv, PaperInv, FlowInv
  <1>1. /\ call'[h] = "none" \/ (call'[h] = call[h] /\ mem'[h] = mem[h])
        /\ pc'[h] \notin Asked
    BY <1>0, DoneMine, GotoMine, FoundMine DEF Asked, Tidies, Marking
  <1>2. BreakOf(h)'
    BY <1>1 DEF Before, Hands, BreakOf, Asked, Tidies
  <1> QED
    BY <1>1, <1>2, MildHand DEF Asked

\* A booking begins a sitting while nobody has a paper in hand.
LEMMA BookHand ==
  ASSUME Before, NEW h \in Handlers, Mine(h), NoneSolo(h), Lone(h), At(h, "book"), NEW b \in Rows,
         BookSession(h, b)
  PROVE  Hands'
  <1>0. /\ TypeInv /\ SeatsPaper /\ EndsInv /\ call[h] \notin {"skip", "defer"}
    BY KindOfLabel DEF Before, LaunchInv, PaperInv, FlowInv, AtKind, At
  <1>1. /\ status[b] = "none" /\ attempt[b] = "none"
        /\ \A c \in LiveOf(who[h]) : KindOf(c) # Kind(mem[h].target)
    BY <1>0 DEF BookSession, CanBook, NextRow, SeatsPaper, Begun
  <1>2. /\ UNCHANGED <<app, attempt, coded, launches, told>>
        /\ \A c \in Rows \ {b} : /\ family'[c] = family[c] /\ status'[c] = status[c]
                                 /\ KindOf(c)' = KindOf(c)
        /\ status'[b] = "booked" /\ family'[b] = who[h] /\ KindOf(b)' = Kind(mem[h].target)
    BY <1>0 DEF BookSession, TypeInv, DbOK, KindOf, paper
  <1>3. /\ call'[h] = call[h] /\ pc'[h] = "record" /\ who'[h] = who[h] /\ new'[h] = b
        /\ mem'[h] = mem[h]
    BY <1>0, BookMine
  <1>4. Lasting
    BY <1>1, <1>2 DEF Lasting
  <1>5. \A c \in Sittable' : c \in Rows /\ (c # b => c \in Sittable /\ status[c] \in Live)
    BY <1>2, <1>3 DEF Sittable, Mine, Lone, Marking
  <1>6. OneSitting'
    <2>1. ASSUME NEW c \in Sittable', c # b, family'[c] = who[h], b \in Sittable' PROVE FALSE
      <3>1. c \in LiveOf(who[h])
        BY <1>2, <1>5, <2>1 DEF LiveOf, Of
      <3>2. KindOf(c) = "assessment" /\ Kind(mem[h].target) = "assessment"
        BY <1>2, <1>5, <2>1 DEF Sittable
      <3> QED
        BY <1>1, <3>1, <3>2
    <2> QED
      BY <1>2, <1>5, <2>1 DEF Before, Hands, OneSitting
  <1>8. OpenUp'
    BY <1>1, <1>2 DEF Before, Hands, OpenUp, OnPaper
  <1>9. SatOn'
    <2>1. \A c \in Rows : Typing(c)' => Typing(c) /\ (Seat(c) => Seat(c)')
      BY <1>1, <1>2 DEF Typing, OnPaper, Seat
    <2> QED
      BY <1>2, <1>4, <2>1, SatStays DEF At
  <1>10. Filed'
    BY <1>2, <1>4, FiledStays DEF At
  <1>11. HandsOf(h)' /\ BreakOf(h)'
    BY <1>0, <1>2, <1>3 DEF HandsOf, BreakOf, Tidies
  <1>12. SparesHands(h)
    BY DEF SparesHands, Lone
  <1> QED
    BY <1>3, <1>4, <1>6, <1>8, <1>9, <1>10, <1>11, <1>12, HandStep

\* One that is recorded takes the family off the keyboard only if there was no
\* sitting to take it off.
LEMMA RecordHand ==
  ASSUME Before, NEW h \in Handlers, Mine(h), NoneSolo(h), Lone(h), Record(h), NoMoves
  PROVE  Hands'
  <1> DEFINE to == StatusAfterBooking(mem[h].app, Kind(mem[h].target))
  <1>0. /\ TypeInv /\ FlowInv /\ pc[h] = "record" /\ BreakOf(h) /\ who[h] \in Families
        /\ call[h] = "book"
    <2>1. FlowInv /\ TypeInv /\ pc[h] = "record" /\ BreakOf(h)
      BY DEF Before, LaunchInv, PaperInv, FlowInv, Record, At, Hands
    <2>2. call[h] \in {"book", "move"}
      BY <2>1, KindOfLabel DEF FlowInv, AtKind
    <2> QED
      BY <2>1, <2>2, NobodyMoves DEF TypeInv, Known, At
  <1>1. CASE Refused(h, to)
    <2>1. Mild
      BY <1>1, QuietMild DEF Refused
    <2>2. Done(h) \/ Goto(h, "unbook")
      BY DEF Record
    <2> QED
      BY <1>0, <2>1, <2>2, GoesOnHand DEF Asked, Tidies, Marking
  <1>2. CASE Commit(h, to, new[h], "created")
    <2>1. Done(h)
      BY <1>1, <1>2 DEF Record, Commit, Refused
    <2>2. CASE to = AtKeys \/ mem[h].app # AtKeys
      <3>1. Mild
        BY <1>0, <1>2, <2>2, CommitMild
      <3> QED
        BY <1>0, <2>1, <3>1, GoesOnHand
    <2>3. CASE to # AtKeys /\ mem[h].app = AtKeys
      <3>1. Kind(mem[h].target) = "assessment"
        BY <2>3, FromKeys DEF StatusAfterBooking, Kind, Legal
      <3>2. /\ new[h] \in Rows /\ family[new[h]] = who[h] /\ status[new[h]] = "booked"
            /\ KindOf(new[h]) = "assessment"
        BY <1>0, <3>1 DEF BreakOf
      <3>3. /\ app' = [app EXCEPT ![who[h]] = to] /\ app[who[h]] = AtKeys
            /\ UNCHANGED <<status, family, session, attempt, launches, coded>>
            /\ \A c \in Rows : told[c] \subseteq told'[c]
        BY <1>2, <2>3 DEF Commit, rows, paper
      <3>4. pc'[h] = "idle" /\ call'[h] = "none"
        BY <1>0, <2>1, DoneMine
      <3>5. Lasting
        BY <1>0, <3>3 DEF Lasting, TypeInv, DbOK, AtKeys
      <3>6. Sittable' \subseteq Sittable
        BY <3>3, <3>4 DEF Sittable, KindOf, Mine, Marking
      <3>7. OneSitting' /\ OpenUp'
        BY <3>3, <3>6 DEF Before, Hands, OneSitting, OpenUp, OnPaper
      <3>8. \A b \in Rows : Seat(b) => family[b] # who[h]
        <4> SUFFICES ASSUME NEW b \in Rows, Seat(b), family[b] = who[h] PROVE FALSE
          OBVIOUS
        <4>1. new[h] \in Sittable /\ b # new[h]
          BY <3>2 DEF Sittable, Live, Seat
        <4>2. b \in Sittable
          BY DEF Before, LaunchInv, OnlySat, Sittable, Live, Seat
        <4> QED
          BY <3>2, <4>1, <4>2 DEF Before, Hands, OneSitting
      <3>9. SatOn'
        <4> SUFFICES ASSUME NEW b \in Rows, Typing(b)'
                     PROVE  family'[b] \in Excused' \/ (Seat(b)' /\ app'[family'[b]] = AtKeys)
          BY DEF SatOn
        <4>1. Typing(b) /\ family[b] \in Families /\ (Seat(b) => Seat(b)')
          BY <1>0, <3>3 DEF Typing, OnPaper, Seat, TypeInv, Owned
        <4>2. ~Leaves(family[b])
          BY <1>0 DEF Leaves, Lone
        <4>3. family[b] \in Excused \/ (Seat(b) /\ app[family[b]] = AtKeys)
          BY <4>1, <4>2 DEF Before, Hands, SatOn
        <4>4. family[b] # who[h] => app'[family[b]] = app[family[b]]
          BY <1>0, <3>3, <4>1 DEF TypeInv, DbOK
        <4> QED
          BY <3>3, <3>5, <3>8, <4>1, <4>3, <4>4, ExcuseLasts
      <3>10. Filed'
        BY <1>0, <3>3, <3>5, FiledStays
      <3>11. HandsOf(h)' /\ BreakOf(h)' /\ SparesHands(h)
        BY <3>4 DEF HandsOf, BreakOf, Tidies, SparesHands, Lone
      <3> QED
        BY <3>4, <3>5, <3>7, <3>9, <3>10, <3>11, HandStep
    <2> QED
      BY <2>2, <2>3
  <1> QED
    BY <1>1, <1>2 DEF Record

LEMMA ChoosingHand ==
  ASSUME Before, NoMoves, NEW h \in Handlers, Choosing(h), Mine(h), NoneSolo(h),
         call[h] = "book" => Lone(h)
  PROVE  Hands'
  <1>0. TypeInv /\ FlowInv /\ call[h] \in KindsAt(pc[h])
    BY DEF Before, LaunchInv, PaperInv, FlowInv, AtKind
  <1>1. ~ReadToMove(h) /\ ~Release(h) /\ ~Rebook(h) /\ ~PutBack(h)
    BY <1>0, NobodyMoves DEF ReadToMove, Release, Rebook, PutBack
  <1> USE DEF Asked, Tidies, Marking
  <1>2. CASE ReadToBook(h)
    <2>1. Mild
      BY <1>2, QuietMild DEF ReadToBook, Found
    <2> QED
      BY <1>2, <2>1, GoesOnHand DEF ReadToBook, At
  <1>3. CASE Book(h)
    <2>1. ASSUME NEW b \in Rows, BookSession(h, b) PROVE Hands'
      <3>1. call[h] \in {"book", "walkIn"} /\ At(h, "book")
        BY <1>0, <1>3, KindOfLabel DEF Book, At
      <3>2. mem[h].target \in Sessions
        BY <1>0, <2>1 DEF TypeInv, DbOK, BookSession, CanBook, Vacant
      <3>3. call[h] # "walkIn"
        BY <1>0, <3>2, SessionAssumption DEF FlowInv, WalkedIn, Sessions, WalkIn
      <3> QED
        BY <2>1, <3>1, <3>3, BookHand
    <2>2. CASE Done(h) /\ UNCHANGED <<db, crashes>>
      <3>1. Mild
        BY <2>2, QuietMild
      <3> QED
        BY <1>3, <2>2, <3>1, GoesOnHand DEF Book, At
    <2> QED
      BY <1>3, <2>1, <2>2 DEF Book
  <1>4. CASE Record(h)
    <2>1. call[h] \in {"book", "move"}
      BY <1>0, <1>4, KindOfLabel DEF Record, At
    <2> QED
      BY <1>0, <1>4, <2>1, NobodyMoves, RecordHand
  <1>5. CASE Complete(h) \/ Unbook(h)
    <2>1. Mild
      BY <1>5, RewriteMild DEF Complete, Unbook
    <2> QED
      BY <1>5, <2>1, GoesOnHand DEF Complete, Unbook, At
  <1> QED
    BY <1>1, <1>2, <1>3, <1>4, <1>5 DEF Choosing

LEMMA ArrivingHand ==
  ASSUME Before, NEW h \in Handlers, Cancelling(h) \/ Arriving(h), Mine(h), NoneSolo(h)
  PROVE  Hands'
  <1> USE DEF Asked, Tidies, Marking
  <1>0. TypeInv /\ (~At(h, "idle") => who[h] \in Families) /\ (pc[h] \in About => old[h] \in Rows)
    BY DEF Before, LaunchInv, PaperInv, FlowInv, TypeInv, Known, Rowed
  <1>1. CASE ReadToCancel(h) \/ ReadToCheckIn(h)
    <2>1. Mild
      BY <1>1, QuietMild DEF ReadToCancel, ReadToCheckIn, Found
    <2> QED
      BY <1>1, <2>1, GoesOnHand DEF ReadToCancel, ReadToCheckIn, At
  <1>2. CASE Cancel(h)
    <2>1. Mild
      BY <1>2, RewriteMild DEF Cancel
    <2> QED
      BY <1>2, <2>1, GoesOnHand DEF Cancel, At
  <1>3. CASE Cancelled(h)
    <2> DEFINE to == StatusAfterCancellation(mem[h].app)
    <2>1. mem[h].app = AtKeys => to = AtKeys
      BY DEF StatusAfterCancellation, AtKeys
    <2>2. (Commit(h, to, NoRow, "none") \/ Refused(h, to)) /\ Done(h)
      BY <1>3 DEF Cancelled
    <2> HIDE DEF to
    <2>3. Mild
      BY <1>0, <1>3, <2>1, <2>2, CommitMild DEF Cancelled, At
    <2> QED
      BY <1>3, <2>2, <2>3, GoesOnHand DEF Cancelled, At
  <1>4. CASE Arrive(h)
    <2>1. Tame
      BY <1>0, <1>4 DEF Arrive, paper, Tame, TypeInv, DbOK, Live
    <2>2. UNCHANGED <<app, told>>
          /\ \A b \in Rows : status'[b] = status[b] \/ (status[b] = "booked" /\ status'[b] = "checked_in")
      BY <1>0, <1>4 DEF Arrive, TypeInv, DbOK
    <2>3. Mild
      BY <2>1, <2>2 DEF Mild, Gone
    <2> QED
      BY <1>4, <2>3, GoesOnHand DEF Arrive, At
  <1>5. CASE ArrivedAs(h)
    <2> DEFINE to == IF KindOf(old[h]) = "visit"
                       THEN StatusAfterVisitArrival(mem[h].app, who[h]) ELSE mem[h].app
    <2>1. mem[h].app = AtKeys /\ Legal(AtKeys, to) => to = AtKeys
      BY FromKeys DEF StatusAfterVisitArrival
    <2>2. Commit(h, to, old[h], "checked_in") \/ Refused(h, to)
      BY <1>5 DEF ArrivedAs
    <2>3. Done(h) \/ Goto(h, "launch")
      BY <1>5 DEF ArrivedAs, Onward
    <2> HIDE DEF to
    <2>4. Mild
      BY <1>0, <1>5, <2>1, <2>2, CommitMild DEF ArrivedAs, At
    <2> QED
      BY <1>5, <2>3, <2>4, GoesOnHand DEF ArrivedAs, At
  <1> QED
    BY <1>1, <1>2, <1>3, <1>4, <1>5 DEF Cancelling, Arriving

\* A booking that is missed may come back, so its sitting counts until then.
LEMMA MissingHand ==
  ASSUME Before, NEW h \in Handlers, Missing(h), Mine(h), NoneSolo(h)
  PROVE  Hands'
  <1>0. /\ TypeInv /\ (~At(h, "idle") => who[h] \in Families) /\ (pc[h] \in About => old[h] \in Rows)
        /\ call[h] \in KindsAt(pc[h]) /\ BreakOf(h)
    BY DEF Before, LaunchInv, PaperInv, FlowInv, TypeInv, Known, Rowed, AtKind, Hands
  <1>1. CASE ReadToMiss(h)
    <2>1. Mild
      BY <1>1, QuietMild DEF ReadToMiss, Found
    <2> QED
      BY <1>1, <2>1, GoesOnHand DEF ReadToMiss, At, Asked, Tidies, Marking
  <1>2. CASE Miss(h)
    <2>1. CASE Done(h) /\ UNCHANGED <<db, crashes>>
      BY <1>2, <2>1, QuietMild, GoesOnHand DEF Miss, At
    <2>2. CASE status[old[h]] = "booked" /\ RewriteOnly({old[h]}, "no_show") /\ Goto(h, "missed")
      <3>1. Mild
        BY <2>2, RewriteMild
      <3>2. /\ pc'[h] = "missed" /\ call'[h] = call[h] /\ old'[h] = old[h] /\ old[h] \in Rows
            /\ call[h] = "noShow"
        BY <1>0, <1>2, <2>2, GotoMine, KindOfLabel DEF Miss, At, About
      <3>3. KindOf(old'[h]) = "assessment" => old'[h] \in Sittable
        BY <2>2, <3>2 DEF Sittable, Live
      <3>4. BreakOf(h)'
        BY <3>2 DEF BreakOf, Tidies
      <3> QED
        BY <1>2, <3>1, <3>2, <3>3, <3>4, MildHand DEF Miss, At
    <2> QED
      BY <1>2, <2>1, <2>2 DEF Miss
  <1>3. CASE Missed(h)
    <2> DEFINE to == IF KindOf(old[h]) = "visit" THEN StatusAfterCancellation(mem[h].app)
                     ELSE "no_show"
    <2>1. mem[h].app = AtKeys /\ Legal(AtKeys, to) => to = AtKeys
      BY FromKeys DEF StatusAfterCancellation, AtKeys
    <2>2. Commit(h, to, old[h], "no_show") \/ Refused(h, to)
      BY <1>3 DEF Missed
    <2>3. Done(h) \/ Goto(h, "unmiss")
      BY <1>3 DEF Missed
    <2> HIDE DEF to
    <2>4. Mild
      BY <1>0, <1>3, <2>1, <2>2, CommitMild DEF Missed, At
    <2>5. CASE Done(h)
      BY <1>3, <2>4, <2>5, GoesOnHand DEF Missed, At
    <2>6. CASE Goto(h, "unmiss")
      <3>1. /\ pc'[h] = "unmiss" /\ call'[h] = call[h] /\ old'[h] = old[h] /\ old[h] \in Rows
            /\ call[h] = "noShow" /\ pc[h] = "missed"
        BY <1>0, <1>3, <2>6, GotoMine, KindOfLabel DEF Missed, At, About
      <3>2. KindOf(old'[h]) = "assessment" => old'[h] \in Sittable
        BY <3>1 DEF Sittable, Marking
      <3>3. BreakOf(h)'
        BY <3>1 DEF BreakOf, Tidies
      <3> QED
        BY <2>4, <3>1, <3>2, <3>3, MildHand
    <2> QED
      BY <2>3, <2>5, <2>6
  <1>4. CASE Unmiss(h)
    <2>1. /\ pc[h] = "unmiss" /\ old[h] \in Rows /\ pc'[h] = "idle" /\ call'[h] = "none"
      BY <1>0, <1>4, DoneMine DEF Unmiss, At, About
    <2>2. /\ UNCHANGED <<app, family, session, attempt, launches, coded, told>>
          /\ \A b \in Rows : \/ status'[b] = status[b]
                             \/ b = old[h] /\ status[b] = "no_show" /\ status'[b] = "booked"
      BY <1>4, RewriteRows DEF Unmiss, RewriteOnly
    <2>3. Lasting
      BY <2>2 DEF Lasting, Gone
    <2>4. Sittable' \subseteq Sittable
      <3>1. \A b \in Rows : status'[b] \in Live => status[b] \in Live \/ b = old[h]
        BY <2>2
      <3> QED
        BY <2>1, <2>2, <3>1 DEF Sittable, KindOf, Mine, Marking
    <2>5. OneSitting'
      BY <2>2, <2>4 DEF Before, Hands, OneSitting
    <2>6. OpenUp'
      BY <2>2 DEF Before, Hands, OpenUp, OnPaper
    <2>7. \A b \in Rows : Typing(b)' => Typing(b) /\ (Seat(b) => Seat(b)')
      BY <2>2 DEF Typing, OnPaper, Seat
    <2>8. SatOn' /\ Filed'
      BY <2>1, <2>2, <2>3, <2>7, SatStays, FiledStays
    <2>9. HandsOf(h)' /\ BreakOf(h)' /\ SparesHands(h)
      BY <2>1, <2>2, <2>4 DEF HandsOf, BreakOf, Tidies, SparesHands
    <2> QED
      BY <2>1, <2>3, <2>5, <2>6, <2>8, <2>9, HandStep
  <1> QED
    BY <1>1, <1>2, <1>3, <1>4 DEF Missing

\* What an invocation that is alone cancels, and puts aside.
LEMMA LoneHand ==
  ASSUME Before, NEW h \in Handlers, Mine(h), NoneSolo(h), Lone(h), pc[h] # "handedIn",
         pc'[h] \notin Marking \cup {"handedIn"}, BreakOf(h)', SatOn',
         UNCHANGED <<app, family, session, coded, told>>,
         \A b \in Rows :
           /\ \/ status'[b] = status[b]
              \/ status[b] \in Live /\ status'[b] = "cancelled"
              \/ status[b] = "in_progress" /\ status'[b] = "checked_in" /\ ~OnPaper(b)
           /\ attempt'[b] = attempt[b] \/ (OnPaper(b) /\ attempt'[b] = "abandoned")
  PROVE  Hands'
  <1>1. Lasting
    BY DEF Lasting, Gone, Live, OnPaper
  <1>2. Sittable' \subseteq Sittable
    <2>1. \A b \in Rows : status'[b] \in Live => status[b] \in Live
      BY DEF Live
    <2> QED
      BY <2>1 DEF Sittable, KindOf, Mine, Lone, Marking
  <1>3. OneSitting'
    BY <1>2 DEF Before, Hands, OneSitting
  <1>4. OpenUp'
    BY DEF Before, Hands, OpenUp, OnPaper
  <1>5. Filed'
    BY <1>1, FiledStays
  <1>6. HandsOf(h)' /\ SparesHands(h)
    BY DEF HandsOf, SparesHands, Lone
  <1> QED
    BY <1>1, <1>3, <1>4, <1>5, <1>6, HandStep

LEMMA FreeingHand ==
  ASSUME Before, NEW h \in Handlers, Deferring(h) \/ Leaving(h) \/ Skipping(h), Mine(h),
         NoneSolo(h), call[h] \in Breaks => Lone(h)
  PROVE  Hands'
  <1>0. /\ TypeInv /\ FlowInv /\ KeysOf(h) /\ BreakOf(h) /\ call[h] \in KindsAt(pc[h])
        /\ ~At(h, "idle") => who[h] \in Families
    BY DEF Before, LaunchInv, PaperInv, FlowInv, TypeInv, Known, AtKind, Keys, Hands
  <1>1. CASE FreeBooked(h) \/ SkipSitting(h) \/ SkipVisit(h) \/ SkipArrived(h)
    <2>1. PICK S : RewriteOnly(S, "cancelled") /\ \A b \in S \cap Rows : status[b] \in {"booked", "checked_in"}
      BY <1>1 DEF FreeBooked, SkipSitting, SkipVisit, SkipArrived, RowsOf, SatFor
    <2>2. Mild
      BY <2>1, RewriteMild
    <2>3. PICK l \in {"freeArrived", "skipVisit", "skipArrived", "skipReady"} : Goto(h, l)
      BY <1>1 DEF FreeBooked, SkipSitting, SkipVisit, SkipArrived
    <2> QED
      BY <1>1, <2>2, <2>3, GoesOnHand
      DEF FreeBooked, SkipSitting, SkipVisit, SkipArrived, At, Asked, Tidies, Marking
  <1>2. CASE Defer(h) \/ Skip(h) \/ Resume(h)
    <2>1. Done(h) /\ who[h] \in Families /\ UNCHANGED <<rows, told>>
      BY <1>0, <1>2 DEF Defer, Skip, Resume, At
    <2>2. Tame
      BY <2>1 DEF Tame, rows, paper
    <2>3. Resume(h) \/ mem[h].app \notin {AtKeys, "withdrawn"}
      <3>1. CASE Defer(h) \/ Skip(h)
        <4>1. call[h] \in {"skip", "defer"}
          BY <1>0, <3>1, KindOfLabel DEF Defer, Skip, At
        <4> QED
          BY <1>0, <4>1 DEF KeysOf, BreakOf
      <3> QED
        BY <1>2, <3>1
    <2>4. \A f \in Families : app[f] \in {AtKeys, "withdrawn"} => app'[f] = app[f]
      <3>1. CASE Resume(h)
        BY <1>0, <2>1, <3>1 DEF Resume, TypeInv, DbOK, AtKeys
      <3>2. CASE Defer(h) \/ Skip(h)
        BY <1>0, <2>1, <2>3, <3>2 DEF Defer, Skip, TypeInv, DbOK, Resume, At
      <3> QED
        BY <1>2, <3>1, <3>2
    <2>5. Mild
      BY <2>1, <2>2, <2>4 DEF Mild, rows
    <2> QED
      BY <1>2, <2>1, <2>5, GoesOnHand DEF Defer, Skip, Resume, At
  <1>3. CASE FreeArrived(h) \/ LeaveRows(h)
    <2>1. PICK S \in SUBSET Of(who[h]), l \in {"defer", "leaveSitting"} :
            /\ RewriteOnly(S, "cancelled") /\ Goto(h, l) /\ \A b \in S : status[b] \in Live
            /\ LeaveRows(h) => l = "leaveSitting"
      BY <1>3 DEF FreeArrived, LeaveRows, RowsOf, SatFor, Live, Of, At
    <2>2. /\ UNCHANGED <<app, family, session, attempt, coded, told>>
          /\ \A b \in Rows : status'[b] = IF b \in S THEN "cancelled" ELSE status[b]
      BY <2>1 DEF RewriteOnly, Rewrite, paper
    <2>3. /\ call'[h] = call[h] /\ who'[h] = who[h] /\ mem'[h] = mem[h] /\ pc'[h] = l
          /\ pc[h] \in {"freeArrived", "leaveRows"} /\ call[h] \in Breaks
      BY <1>0, <1>3, <2>1, GotoMine, KindOfLabel DEF FreeArrived, LeaveRows, At, Breaks
    <2>4. Lone(h)
      BY <1>0, <2>3
    <2>5. Lasting
      BY <2>1, <2>2 DEF Lasting, Gone, Live
    <2>6. FreeArrived(h) => app[who[h]] # AtKeys
      BY <1>0, KindOfLabel DEF FreeArrived, At, KeysOf, Breaks
    <2>7. SatOn'
      <3> SUFFICES ASSUME NEW b \in Rows, Typing(b)'
                   PROVE  \/ family'[b] \in Excused' \/ Leaves(family[b])'
                          \/ Seat(b)' /\ app'[family'[b]] = AtKeys
        BY <2>2 DEF SatOn
      <3>1. Typing(b)
        BY <2>2 DEF Typing, OnPaper
      <3>2. ~Leaves(family[b])
        BY <2>3, <2>4 DEF Leaves, Lone
      <3>3. CASE family[b] = who[h] /\ LeaveRows(h)
        BY <2>1, <2>2, <2>3, <3>3 DEF Leaves
      <3>4. CASE family[b] \in Excused
        BY <2>2, <2>5, <3>4, ExcuseLasts
      <3>5. CASE Seat(b) /\ app[family[b]] = AtKeys /\ ~(family[b] = who[h] /\ LeaveRows(h))
        <4>1. b \notin S
          BY <1>3, <2>1, <2>6, <3>5 DEF Of
        <4> QED
          BY <2>2, <3>5, <4>1 DEF Seat, OnPaper
      <3> QED
        BY <3>1, <3>2, <3>3, <3>4, <3>5 DEF Before, Hands, SatOn
    <2>8. BreakOf(h)'
      BY <1>0, <2>3 DEF BreakOf, Tidies
    <2> QED
      BY <2>1, <2>2, <2>3, <2>4, <2>7, <2>8, LoneHand DEF Marking
  <1>4. CASE LeaveSitting(h) \/ SkipReady(h)
    <2>1. PICK S \in SUBSET {"ready", "in_progress"}, l \in {"leave", "skip"} :
            /\ AbandonOf(h, S) /\ Goto(h, l)
            /\ LeaveSitting(h) => S = {"ready", "in_progress"}
      BY <1>4 DEF LeaveSitting, SkipReady, At
    <2>2. /\ UNCHANGED <<app, family, session, status, coded, told>>
          /\ \A b \in Rows : attempt'[b] = IF family[b] = who[h] /\ attempt[b] \in S
                                             THEN "abandoned" ELSE attempt[b]
      BY <2>1 DEF AbandonOf
    <2>3. /\ call'[h] = call[h] /\ who'[h] = who[h] /\ mem'[h] = mem[h] /\ pc'[h] = l
          /\ pc[h] \in {"leaveSitting", "skipReady"} /\ call[h] \in Breaks
      BY <1>0, <1>4, <2>1, GotoMine, KindOfLabel DEF LeaveSitting, SkipReady, At, Breaks
    <2>4. Lone(h)
      BY <1>0, <2>3
    <2>5. Lasting
      BY <2>1, <2>2 DEF Lasting
    <2>6. SatOn'
      <3> SUFFICES ASSUME NEW b \in Rows, Typing(b)'
                   PROVE  \/ family'[b] \in Excused'
                          \/ Seat(b)' /\ app'[family'[b]] = AtKeys
        BY DEF SatOn
      <3>1. Typing(b) /\ attempt'[b] = attempt[b]
        BY <2>2 DEF Typing, OnPaper
      <3>2. ~Leaves(family[b])
        <4>1. CASE LeaveSitting(h)
          BY <2>1, <2>2, <2>4, <3>1, <4>1 DEF Leaves, Lone, Typing, OnPaper
        <4>2. CASE SkipReady(h)
          BY <2>4, <4>2 DEF Leaves, Lone, SkipReady, At
        <4> QED
          BY <1>4, <4>1, <4>2
      <3>3. family[b] \in Excused \/ (Seat(b) /\ app[family[b]] = AtKeys)
        BY <3>1, <3>2 DEF Before, Hands, SatOn
      <3> QED
        BY <2>2, <2>5, <3>1, <3>3, ExcuseLasts DEF Seat, OnPaper
    <2>7. BreakOf(h)'
      BY <1>0, <2>3 DEF BreakOf, Tidies
    <2>8. \A b \in Rows : attempt'[b] = attempt[b] \/ (OnPaper(b) /\ attempt'[b] = "abandoned")
      BY <2>1, <2>2 DEF OnPaper
    <2> QED
      BY <2>1, <2>2, <2>3, <2>4, <2>6, <2>7, <2>8, LoneHand DEF Marking
  <1>5. CASE Leave(h)
    <2>1. Done(h) /\ who[h] \in Families /\ Lone(h) /\ pc[h] = "leave"
      BY <1>0, <1>5, KindOfLabel DEF Leave, At, Breaks
    <2>2. CASE Refused(h, "withdrawn")
      <3>1. Mild
        BY <2>2, QuietMild DEF Refused
      <3> QED
        BY <2>1, <3>1, GoesOnHand
    <2>3. CASE Commit(h, "withdrawn", NoRow, "none")
      <3>1. app' = [app EXCEPT ![who[h]] = "withdrawn"]
            /\ UNCHANGED <<status, family, session, attempt, coded, launches>>
            /\ \A b \in Rows : told[b] \subseteq told'[b]
        BY <2>3 DEF Commit, rows, paper
      <3>2. pc'[h] = "idle" /\ call'[h] = "none"
        BY <1>0, <2>1, DoneMine
      <3>3. Lasting /\ who[h] \in Excused'
        BY <1>0, <2>1, <3>1 DEF Lasting, TypeInv, DbOK, Excused
      <3>4. Sittable' \subseteq Sittable
        BY <3>1, <3>2 DEF Sittable, KindOf, Mine, Marking
      <3>5. OneSitting' /\ OpenUp'
        BY <3>1, <3>4 DEF Before, Hands, OneSitting, OpenUp, OnPaper
      <3>6. SatOn'
        <4> SUFFICES ASSUME NEW b \in Rows, Typing(b)', family[b] # who[h]
                     PROVE  family'[b] \in Excused' \/ (Seat(b)' /\ app'[family'[b]] = AtKeys)
          BY <3>1, <3>3 DEF SatOn
        <4>1. Typing(b) /\ family[b] \in Families /\ (Seat(b) => Seat(b)')
          BY <1>0, <3>1 DEF Typing, OnPaper, Seat, TypeInv, Owned
        <4>2. ~Leaves(family[b])
          BY <2>1 DEF Leaves, Lone
        <4>3. family[b] \in Excused \/ (Seat(b) /\ app[family[b]] = AtKeys)
          BY <4>1, <4>2 DEF Before, Hands, SatOn
        <4>4. app'[family[b]] = app[family[b]]
          BY <1>0, <3>1, <4>1 DEF TypeInv, DbOK
        <4> QED
          BY <3>1, <3>3, <4>1, <4>3, <4>4, ExcuseLasts
      <3>7. Filed'
        BY <2>1, <3>1, <3>3, FiledStays
      <3>8. HandsOf(h)' /\ BreakOf(h)' /\ SparesHands(h)
        BY <2>1, <3>2 DEF HandsOf, BreakOf, Tidies, SparesHands, Lone
      <3> QED
        BY <3>2, <3>3, <3>5, <3>6, <3>7, <3>8, HandStep
    <2> QED
      BY <1>5, <2>2, <2>3 DEF Leave
  <1> QED
    BY <1>1, <1>2, <1>3, <1>4, <1>5 DEF Deferring, Leaving, Skipping

LEMMA LaunchHand ==
  ASSUME Before, NEW h \in Handlers, Launch(h), Mine(h), NoneSolo(h)
  PROVE  Hands'
  <1>0. TypeInv /\ old[h] \in Rows /\ pc[h] = "launch" /\ call[h] \in {"launch", "walkIn"}
    BY KindOfLabel DEF Before, LaunchInv, PaperInv, FlowInv, AtKind, Rowed, About, Launch, At
  <1>1. CASE ~CanLaunch(old[h])
    <2>1. UNCHANGED db /\ Done(h)
      BY <1>1 DEF Launch, db, rows
    <2> QED
      BY <1>0, <2>1, QuietMild, GoesOnHand
  <1>2. CASE CanLaunch(old[h])
    <2>1. /\ KindOf(old[h]) = "assessment" /\ status[old[h]] = "checked_in"
      BY <1>2 DEF CanLaunch
    <2>2. /\ status' = [status EXCEPT ![old[h]] = "in_progress"]
          /\ attempt' = [attempt EXCEPT ![old[h]] = "ready"]
          /\ coded' = [coded EXCEPT ![old[h]] = FALSE]
          /\ UNCHANGED <<app, family, session, told>> /\ Goto(h, "launched")
      BY <1>2 DEF Launch
    <2>3. /\ \A b \in Rows \ {old[h]} : /\ status'[b] = status[b] /\ attempt'[b] = attempt[b]
                                        /\ coded'[b] = coded[b]
          /\ status'[old[h]] = "in_progress" /\ attempt'[old[h]] = "ready" /\ ~coded'[old[h]]
      BY <1>0, <2>2 DEF TypeInv, DbOK
    <2>4. pc'[h] = "launched" /\ call'[h] = call[h]
      BY <1>0, <2>2, GotoMine
    <2>5. Lasting
      BY <1>0, <2>1, <2>2, <2>3 DEF Lasting, Gone
    <2>6. Sittable' \subseteq Sittable
      <3>1. \A b \in Rows : status'[b] \in Live => status[b] \in Live
        BY <1>0, <2>1, <2>3 DEF Live
      <3> QED
        BY <2>2, <2>4, <3>1 DEF Sittable, KindOf, Mine, Marking
    <2>7. OneSitting' /\ OpenUp'
      <3>1. OneSitting'
        BY <2>2, <2>6 DEF Before, Hands, OneSitting
      <3> QED
        BY <1>0, <2>3, <3>1 DEF Before, Hands, OpenUp, OnPaper
    <2>8. \A b \in Rows : Typing(b)' => Typing(b) /\ (Seat(b) => Seat(b)')
      BY <1>0, <2>3 DEF Typing, OnPaper, Seat
    <2>9. SatOn' /\ Filed'
      <3>1. \A b \in Rows : attempt'[b] = "submitted" => attempt[b] = "submitted"
        BY <2>3
      <3> QED
        BY <1>0, <2>2, <2>5, <2>8, <3>1, SatStays, FiledStays
    <2>10. HandsOf(h)' /\ BreakOf(h)' /\ SparesHands(h)
      BY <1>0, <2>2, <2>4, <2>6 DEF HandsOf, BreakOf, Tidies, SparesHands
    <2> QED
      BY <2>4, <2>5, <2>7, <2>9, <2>10, HandStep
  <1> QED
    BY <1>1, <1>2

\* The code comes with the commit, so a child who may type is shown.
LEMMA LaunchedHand ==
  ASSUME Before, NEW h \in Handlers, Launched(h), Mine(h), NoneSolo(h)
  PROVE  Hands'
  <1>0. /\ TypeInv /\ pc[h] = "launched" /\ old[h] \in Rows
        /\ Uncoded(old[h]) /\ family[old[h]] = who[h] /\ who[h] \in Families
    BY DEF Before, LaunchInv, LaunchOf, Owning, PaperInv, FlowInv, TypeInv, Known, Rowed, About, Launched, At
  <1>1. Done(h)
    BY DEF Launched
  <1>2. CASE UNCHANGED <<app, coded>>
    <2>1. UNCHANGED db
      BY <1>2 DEF Launched, db, rows, paper
    <2> QED
      BY <1>0, <1>1, <2>1, QuietMild, GoesOnHand
  <1>3. CASE /\ app[who[h]] = mem[h].app /\ Legal(mem[h].app, AtKeys)
             /\ app' = [app EXCEPT ![who[h]] = AtKeys]
             /\ coded' = [coded EXCEPT ![old[h]] = TRUE]
    <2>1. UNCHANGED <<status, family, session, attempt, launches, told>>
      BY DEF Launched
    <2>2. pc'[h] = "idle" /\ call'[h] = "none"
      BY <1>0, <1>1, DoneMine
    <2>3. /\ app'[who[h]] = AtKeys /\ app[who[h]] # "withdrawn"
          /\ \A f \in Families \ {who[h]} : app'[f] = app[f]
      <3>1. ~Legal("withdrawn", AtKeys)
        BY FromKeys DEF AtKeys
      <3> QED
        BY <1>0, <1>3, <3>1 DEF TypeInv, DbOK
    <2>4. coded'[old[h]] /\ \A b \in Rows \ {old[h]} : coded'[b] = coded[b]
      BY <1>0, <1>3 DEF TypeInv, DbOK
    <2>5. Lasting
      BY <1>0, <2>1, <2>3, <2>4 DEF Lasting, Uncoded, Gone
    <2>6. Sittable' \subseteq Sittable
      BY <2>1, <2>2 DEF Sittable, KindOf, Mine, Marking
    <2>7. OneSitting' /\ OpenUp'
      <3>1. OneSitting'
        BY <2>1, <2>6 DEF Before, Hands, OneSitting
      <3> QED
        BY <2>1, <2>4, <3>1 DEF Before, Hands, OpenUp, OnPaper
    <2>8. SatOn'
      <3> SUFFICES ASSUME NEW b \in Rows, Typing(b)'
                   PROVE  family'[b] \in Excused' \/ (Seat(b)' /\ app'[family'[b]] = AtKeys)
        BY DEF SatOn
      <3>1. CASE b = old[h]
        BY <1>0, <2>1, <2>3, <3>1 DEF Uncoded, Seat, OnPaper
      <3>2. CASE b # old[h]
        <4>1. Typing(b) /\ family[b] \in Families /\ (Seat(b) => Seat(b)')
          BY <1>0, <2>1, <2>4, <3>2 DEF Typing, OnPaper, Seat, TypeInv, Owned
        <4>2. ~Leaves(family[b])
          BY <1>0 DEF Leaves, NoneSolo
        <4>3. family[b] \in Excused \/ (Seat(b) /\ app[family[b]] = AtKeys)
          BY <4>1, <4>2 DEF Before, Hands, SatOn
        <4>4. app[family[b]] = AtKeys => app'[family[b]] = AtKeys
          BY <2>3, <4>1
        <4> QED
          BY <2>1, <2>5, <4>1, <4>3, <4>4, ExcuseLasts
      <3> QED
        BY <3>1, <3>2
    <2>9. Filed'
      BY <1>0, <2>1, <2>5, FiledStays
    <2>10. HandsOf(h)' /\ BreakOf(h)'
      BY <2>2 DEF HandsOf, BreakOf, Tidies
    <2>11. SparesHands(h)
      <3>1. \A g \in Handlers : pc[g] = "handedIn" => who[g] \in Families
        BY <1>0 DEF TypeInv, Known, At
      <3> QED
        BY <2>1, <2>3, <2>6, <3>1 DEF SparesHands
    <2> QED
      BY <2>2, <2>5, <2>7, <2>8, <2>9, <2>10, <2>11, HandStep
  <1> QED
    BY <1>2, <1>3 DEF Launched, AtKeys

\* A paper is handed in by somebody who read that the family is shown, unless
\* the family is excused, or is so by this, the launch having failed; and it was
\* the family's only sitting.
LEMMA HandInHand ==
  ASSUME Before, NEW h \in Handlers, HandIn(h), Mine(h), NoneSolo(h)
  PROVE  Hands'
  <1>0. /\ TypeInv /\ old[h] \in Rows /\ pc[h] = "handIn" /\ call[h] = "handIn"
        /\ family[old[h]] = who[h] /\ who[h] \in Families /\ LaunchOf(h) /\ KeysOf(h)
    BY KindOfLabel
    DEF Before, Keys, LaunchInv, PaperInv, SittingOf, FlowInv, TypeInv, Known, AtKind, Rowed, About,
        HandIn, At
  <1>1. CASE ~SameOpen(h, old[h])
    <2>1. UNCHANGED db /\ Done(h)
      BY <1>1 DEF HandIn, db, rows, paper
    <2> QED
      BY <1>0, <2>1, QuietMild, GoesOnHand
  <1>2. CASE SameOpen(h, old[h])
    <2>1. /\ attempt' = [attempt EXCEPT ![old[h]] = "submitted"]
          /\ Rewrite({old[h]} \cap {b \in Rows : status[b] \in {"checked_in", "in_progress"}},
                     "completed")
          /\ UNCHANGED <<app, family, session, launches, coded, told>> /\ Goto(h, "handedIn")
      BY <1>2 DEF HandIn
    <2>2. /\ \A c \in Rows \ {old[h]} : attempt'[c] = attempt[c] /\ status'[c] = status[c]
          /\ attempt'[old[h]] = "submitted"
          /\ status'[old[h]] = IF status[old[h]] \in {"checked_in", "in_progress"}
                                 THEN "completed" ELSE status[old[h]]
      BY <1>0, <2>1 DEF TypeInv, DbOK, Rewrite
    <2>3. /\ call'[h] = call[h] /\ pc'[h] = "handedIn" /\ who'[h] = who[h] /\ mem'[h] = mem[h]
          /\ old'[h] = old[h]
      BY <1>0, <2>1, GotoMine
    <2>4. ASSUME coded[old[h]]
          PROVE  \/ who[h] \in Excused
                 \/ Seat(old[h]) /\ app[who[h]] = AtKeys /\ mem[h].app = AtKeys
      <3>1. ~Leaves(who[h]) /\ Typing(old[h])
        BY <1>0, <1>2, <2>4 DEF Leaves, NoneSolo, SameOpen, Typing, OnPaper
      <3>2. who[h] \in Excused \/ (Seat(old[h]) /\ app[who[h]] = AtKeys)
        BY <1>0, <3>1 DEF Before, Hands, SatOn
      <3> QED
        BY <1>0, <1>2, <3>2 DEF KeysOf
    <2>5. ASSUME ~coded[old[h]] PROVE who[h] \in Excused'
      <3>1. status[old[h]] \in Status /\ status[old[h]] \notin {"none", "booked", "no_show"}
        BY <1>0, <1>2 DEF Before, LaunchInv, PaperInv, SeatsPaper, Begun, SameOpen, TypeInv, DbOK
      <3>2. status'[old[h]] \in Gone
        BY <2>2, <3>1 DEF Status, Taken, Live, Gone
      <3>3. /\ old[h] \in Rows /\ attempt'[old[h]] # "none" /\ ~coded'[old[h]]
            /\ family'[old[h]] = who[h]
        BY <1>0, <2>1, <2>2, <2>5
      <3> QED
        BY <1>0, <3>2, <3>3 DEF Excused, Dud, Of
    <2>6. Lasting
      BY <1>0, <2>1, <2>2 DEF Lasting, Gone
    <2>7. Sittable' \subseteq Sittable
      <3>1. \A b \in Rows : status'[b] \in Live => status[b] \in Live
        BY <1>0, <2>2 DEF Live
      <3> QED
        BY <2>1, <2>3, <3>1 DEF Sittable, KindOf, Mine, Marking
    <2>8. OneSitting' /\ OpenUp'
      <3>1. OneSitting'
        BY <2>1, <2>7 DEF Before, Hands, OneSitting
      <3> QED
        BY <1>0, <2>1, <2>2, <3>1 DEF Before, Hands, OpenUp, OnPaper
    <2>9. SatOn'
      <3>1. \A b \in Rows : Typing(b)' => Typing(b) /\ (Seat(b) => Seat(b)')
        BY <1>0, <2>1, <2>2 DEF Typing, OnPaper, Seat
      <3> QED
        BY <1>0, <2>1, <2>6, <3>1, SatStays
    <2>10. Filed'
      <3> SUFFICES ASSUME NEW b \in Rows, attempt'[b] = "submitted", b # old[h]
                   PROVE  \/ "completed" \in told'[b] \/ family'[b] \in Excused'
                          \/ \E g \in Handlers : pc'[g] = "handedIn" /\ old'[g] = b
        BY <2>3 DEF Filed
      <3>1. \/ "completed" \in told[b] \/ family[b] \in Excused
            \/ \E g \in Handlers \ {h} : pc[g] = "handedIn" /\ old[g] = b
        BY <1>0, <2>2 DEF Before, Hands, Filed
      <3> QED
        BY <2>1, <2>6, <3>1, ExcuseLasts DEF Mine
    <2>11. Seat(old[h]) => old[h] \in Sittable /\ old[h] \notin Sittable'
      <3> SUFFICES ASSUME Seat(old[h]) PROVE old[h] \in Sittable /\ old[h] \notin Sittable'
        OBVIOUS
      <3>1. old[h] \in Sittable
        BY <1>0 DEF Before, LaunchInv, OnlySat, Sittable, Seat, Live
      <3>2. status'[old[h]] = "completed"
        BY <2>2 DEF Seat
      <3>3. \A g \in Handlers : pc[g] \in Marking => old[g] # old[h]
        BY DEF Before, EndsInv, MarkedBy, Seat
      <3>4. \A g \in Handlers : pc'[g] \in Marking => old'[g] # old[h]
        BY <2>3, <3>3 DEF Mine, Marking
      <3> QED
        BY <3>1, <3>2, <3>4 DEF Sittable, Live
    <2>12. HandsOf(h)'
      <3>1. CASE who[h] \in Excused
        BY <2>3, <2>6, <3>1, ExcuseLasts DEF HandsOf
      <3>2. CASE Seat(old[h]) /\ app[who[h]] = AtKeys /\ mem[h].app = AtKeys
        <4>1. \A b \in Sittable' : family[b] # who[h]
          BY <1>0, <2>7, <2>11, <3>2 DEF Before, Hands, OneSitting
        <4> QED
          BY <2>1, <2>3, <3>2, <4>1 DEF HandsOf, Of
      <3>3. CASE ~coded[old[h]]
        BY <2>3, <2>5, <3>3 DEF HandsOf
      <3> QED
        BY <2>4, <3>1, <3>2, <3>3
    <2>13. \A g \in Handlers \ {h} : pc[g] = "handedIn" /\ who[g] = who'[h] => who'[h] \in Excused'
      <3> SUFFICES ASSUME NEW g \in Handlers \ {h}, pc[g] = "handedIn", who[g] = who[h],
                          who[h] \notin Excused, coded[old[h]]
                   PROVE  FALSE
        BY <2>3, <2>5, <2>6, ExcuseLasts
      <3>1. old[h] \in Sittable /\ old[h] \in Of(who[g])
        BY <1>0, <2>4, <2>11 DEF Of
      <3> QED
        BY <3>1 DEF Before, Hands, HandsOf
    <2>14. BreakOf(h)' /\ SparesHands(h)
      BY <1>0, <2>1, <2>3, <2>7 DEF BreakOf, Tidies, SparesHands
    <2> QED
      BY <2>6, <2>8, <2>9, <2>10, <2>12, <2>13, <2>14, HandStep
  <1> QED
    BY <1>1, <1>2

\* The commit of a hand-in goes through, unless the family is excused; and it
\* takes no child away from another sitting.
LEMMA HandedInHand ==
  ASSUME Before, NEW h \in Handlers, HandedIn(h), Mine(h), NoneSolo(h)
  PROVE  Hands'
  <1>0. /\ TypeInv /\ old[h] \in Rows /\ pc[h] = "handedIn"
        /\ family[old[h]] = who[h] /\ who[h] \in Families
    BY DEF Before, LaunchInv, PaperInv, SittingOf, FlowInv, TypeInv, Known, Rowed, About, HandedIn, At
  <1>1. \/ Refused(h, "assessment_completed")
        \/ Commit(h, "assessment_completed", old[h], "completed")
    BY DEF HandedIn
  <1>2. UNCHANGED <<status, family, session, attempt, launches, coded>>
        /\ \A b \in Rows : told[b] \subseteq told'[b]
    BY <1>1 DEF Commit, Refused, db, rows, paper
  <1>3. pc'[h] = "idle" /\ call'[h] = "none"
    BY <1>0, DoneMine DEF HandedIn
  <1>4. /\ \A f \in Families \ {who[h]} : app'[f] = app[f]
        /\ app[who[h]] = "withdrawn" => app'[who[h]] = "withdrawn"
    <2>1. ~Legal("withdrawn", "assessment_completed")
      BY FromKeys
    <2> QED
      BY <1>0, <1>1, <2>1 DEF Commit, Refused, db, TypeInv, DbOK
  <1>5. Lasting
    BY <1>2, <1>4 DEF Lasting
  <1>6. Sittable' \subseteq Sittable
    BY <1>2, <1>3 DEF Sittable, KindOf, Mine, Marking
  <1>7. OneSitting' /\ OpenUp'
    BY <1>2, <1>6 DEF Before, Hands, OneSitting, OpenUp, OnPaper
  <1>8. \/ who[h] \in Excused
        \/ /\ "completed" \in told'[old[h]]
           /\ \A b \in Of(who[h]) : b \notin Sittable
           /\ \A g \in Handlers \ {h} : pc[g] = "handedIn" => who[g] # who[h]
    <2> SUFFICES ASSUME who[h] \notin Excused
                 PROVE  /\ "completed" \in told'[old[h]]
                        /\ \A b \in Of(who[h]) : b \notin Sittable
                        /\ \A g \in Handlers \ {h} : pc[g] = "handedIn" => who[g] # who[h]
      OBVIOUS
    <2>1. /\ app[who[h]] = AtKeys /\ mem[h].app = AtKeys /\ \A b \in Of(who[h]) : b \notin Sittable
      BY <1>0 DEF Before, Hands, HandsOf
    <2>2. Legal(AtKeys, "assessment_completed")
      BY DEF Legal, CanTransition, Graph, AtKeys
    <2>3. "completed" \in told'[old[h]]
      BY <1>0, <1>1, <2>1, <2>2 DEF Commit, Refused
    <2>4. \A g \in Handlers \ {h} : pc[g] = "handedIn" => who[g] # who[h]
      BY <1>0 DEF Before, Hands, OneHands
    <2> QED
      BY <2>1, <2>3, <2>4
  <1>9. SatOn'
    <2> SUFFICES ASSUME NEW b \in Rows, Typing(b)'
                 PROVE  family'[b] \in Excused' \/ (Seat(b)' /\ app'[family'[b]] = AtKeys)
      BY DEF SatOn
    <2>1. Typing(b) /\ family[b] \in Families /\ (Seat(b) => Seat(b)')
      BY <1>0, <1>2 DEF Typing, OnPaper, Seat, TypeInv, Owned
    <2>2. ~Leaves(family[b])
      BY <1>0 DEF Leaves, NoneSolo
    <2>3. family[b] \in Excused \/ (Seat(b) /\ app[family[b]] = AtKeys)
      BY <2>1, <2>2 DEF Before, Hands, SatOn
    <2>4. Seat(b) => b \in Sittable
      BY DEF Before, LaunchInv, OnlySat, Sittable, Seat, Live
    <2>5. family[b] \in Excused \/ family[b] # who[h]
      BY <1>8, <2>3, <2>4 DEF Of
    <2> QED
      BY <1>2, <1>4, <1>5, <2>1, <2>3, <2>5, ExcuseLasts
  <1>10. Filed'
    <2> SUFFICES ASSUME NEW b \in Rows, attempt'[b] = "submitted"
                 PROVE  \/ "completed" \in told'[b] \/ family'[b] \in Excused'
                        \/ \E g \in Handlers : pc'[g] = "handedIn" /\ old'[g] = b
      BY DEF Filed
    <2>1. CASE b = old[h]
      BY <1>0, <1>2, <1>5, <1>8, <2>1, ExcuseLasts
    <2>2. CASE b # old[h]
      <3>1. \/ "completed" \in told[b] \/ family[b] \in Excused
            \/ \E g \in Handlers \ {h} : pc[g] = "handedIn" /\ old[g] = b
        BY <1>2, <2>2 DEF Before, Hands, Filed
      <3> QED
        BY <1>2, <1>5, <3>1, ExcuseLasts DEF Mine
    <2> QED
      BY <2>1, <2>2
  <1>11. HandsOf(h)' /\ BreakOf(h)'
    BY <1>3 DEF HandsOf, BreakOf, Tidies
  <1>12. SparesHands(h)
    <2> SUFFICES ASSUME NEW g \in Handlers \ {h}, pc[g] = "handedIn", who[g] \notin Excused'
                 PROVE  /\ app[who[g]] = AtKeys => app'[who[g]] = AtKeys
                        /\ \A b \in Sittable' : family'[b] = who[g] => family[b] = who[g] /\ b \in Sittable
      BY DEF SparesHands
    <2>1. who[g] \in Families
      BY <1>0 DEF TypeInv, Known, At
    <2>2. who[g] # who[h]
      BY <1>5, <1>8, ExcuseLasts
    <2> QED
      BY <1>2, <1>4, <1>6, <2>1, <2>2
  <1> QED
    BY <1>3, <1>5, <1>7, <1>9, <1>10, <1>11, <1>12, HandStep

\* Who abandons a sitting knows that the family has no other.
LEMMA AbandonHand ==
  ASSUME Before, NEW h \in Handlers, Abandon(h) \/ Unlaunch(h), Mine(h), NoneSolo(h), Lone(h)
  PROVE  Hands'
  <1>0. /\ TypeInv /\ old[h] \in Rows /\ pc[h] \in {"abandon", "unlaunch"} /\ call[h] = "abandon"
        /\ BreakOf(h) /\ who[h] \in Families
    BY KindOfLabel
    DEF Before, LaunchInv, PaperInv, FlowInv, TypeInv, Known, AtKind, Rowed, About, Abandon, Unlaunch,
        At, Hands
  <1>1. UNCHANGED <<app, family, session, launches, coded, told>>
    BY DEF Abandon, Unlaunch, RewriteOnly, paper
  <1>2. /\ pc'[h] \in {"unlaunch", "abandoned"} /\ call'[h] = call[h] /\ who'[h] = who[h]
        /\ mem'[h] = mem[h] /\ old'[h] = old[h]
    BY <1>0, GotoMine DEF Abandon, Unlaunch
  <1>3. /\ \A b \in Rows \ {old[h]} : status'[b] = status[b] /\ attempt'[b] = attempt[b]
        /\ attempt'[old[h]] = attempt[old[h]] \/ (OnPaper(old[h]) /\ attempt'[old[h]] = "abandoned")
        /\ \/ status'[old[h]] = status[old[h]]
           \/ status[old[h]] = "in_progress" /\ status'[old[h]] = "checked_in" /\ ~OnPaper(old[h])
        /\ attempt'[old[h]] \notin {"ready", "in_progress"}
    <2>1. CASE Abandon(h)
      <3>1. SameOpen(h, old[h])
        BY <1>0, <2>1 DEF BreakOf, Abandon, At
      <3> QED
        BY <1>0, <2>1, <3>1 DEF Abandon, SameOpen, OnPaper, TypeInv, DbOK
    <2>2. CASE Unlaunch(h)
      <3>1. ~OnPaper(old[h])
        BY <1>0, <2>2 DEF BreakOf, Unlaunch, At
      <3> QED
        BY <1>0, <2>2, <3>1, RewriteRows DEF Unlaunch, OnPaper
    <2> QED
      BY <2>1, <2>2
  <1>4. Lasting
    BY <1>0, <1>1, <1>3 DEF Lasting, Gone
  <1>5. \A b \in Rows : Typing(b)' => Typing(b) /\ (Seat(b) => Seat(b)')
    BY <1>0, <1>1, <1>3 DEF Typing, OnPaper, Seat
  <1>6. SatOn'
    BY <1>0, <1>1, <1>4, <1>5, SatStays
  <1>7. BreakOf(h)'
    <2>1. who[h] \in Excused \/ \A b \in Of(who[h]) \ {old[h]} : ~Seat(b)
      BY <1>0 DEF BreakOf, Tidies
    <2>2. who[h] \in Excused' \/ \A b \in Of(who[h]) \ {old[h]} : ~Seat(b)'
      BY <1>3, <1>4, <2>1, ExcuseLasts DEF Of, Seat, OnPaper
    <2> QED
      BY <1>0, <1>1, <1>2, <1>3, <2>2 DEF BreakOf, Tidies, OnPaper, Of
  <1>8. \A b \in Rows :
          /\ \/ status'[b] = status[b]
             \/ status[b] = "in_progress" /\ status'[b] = "checked_in" /\ ~OnPaper(b)
          /\ attempt'[b] = attempt[b] \/ (OnPaper(b) /\ attempt'[b] = "abandoned")
    BY <1>3
  <1> QED
    BY <1>0, <1>1, <1>2, <1>6, <1>7, <1>8, LoneHand DEF Marking

LEMMA AbandonedHand ==
  ASSUME Before, NEW h \in Handlers, Abandoned(h), Mine(h), NoneSolo(h), Lone(h)
  PROVE  Hands'
  <1>0. TypeInv /\ pc[h] = "abandoned" /\ BreakOf(h) /\ who[h] \in Families /\ Done(h)
    BY DEF Before, LaunchInv, PaperInv, FlowInv, TypeInv, Known, Abandoned, At, Hands
  <1>1. CASE Refused(h, "assessment_booked")
    <2>1. Mild
      BY <1>1, QuietMild DEF Refused
    <2> QED
      BY <1>0, <2>1, GoesOnHand
  <1>2. CASE Commit(h, "assessment_booked", NoRow, "none")
    <2>1. /\ app' = [app EXCEPT ![who[h]] = "assessment_booked"]
          /\ UNCHANGED <<status, family, session, attempt, launches, coded>>
          /\ \A b \in Rows : told[b] \subseteq told'[b]
      BY <1>2 DEF Commit, rows, paper
    <2>2. pc'[h] = "idle" /\ call'[h] = "none"
      BY <1>0, DoneMine
    <2>3. app[who[h]] # "withdrawn" /\ \A f \in Families \ {who[h]} : app'[f] = app[f]
      BY <1>0, <1>2, <2>1, FromKeys DEF Commit, TypeInv, DbOK
    <2>4. Lasting
      BY <2>1, <2>3 DEF Lasting
    <2>5. Sittable' \subseteq Sittable
      BY <2>1, <2>2 DEF Sittable, KindOf, Mine, Marking
    <2>6. OneSitting' /\ OpenUp'
      BY <2>1, <2>5 DEF Before, Hands, OneSitting, OpenUp, OnPaper
    <2>7. who[h] \in Excused \/ \A b \in Of(who[h]) : ~Seat(b)
      BY <1>0 DEF BreakOf, Tidies, Seat
    <2>8. SatOn'
      <3> SUFFICES ASSUME NEW b \in Rows, Typing(b)'
                   PROVE  family'[b] \in Excused' \/ (Seat(b)' /\ app'[family'[b]] = AtKeys)
        BY DEF SatOn
      <3>1. Typing(b) /\ family[b] \in Families /\ (Seat(b) => Seat(b)')
        BY <1>0, <2>1 DEF Typing, OnPaper, Seat, TypeInv, Owned
      <3>2. ~Leaves(family[b])
        BY <1>0 DEF Leaves, Lone
      <3>3. family[b] \in Excused \/ (Seat(b) /\ app[family[b]] = AtKeys)
        BY <3>1, <3>2 DEF Before, Hands, SatOn
      <3>4. family[b] \in Excused \/ family[b] # who[h]
        BY <2>7, <3>3 DEF Of
      <3> QED
        BY <2>1, <2>3, <2>4, <3>1, <3>3, <3>4, ExcuseLasts
    <2>9. Filed'
      BY <1>0, <2>1, <2>4, FiledStays
    <2>10. HandsOf(h)' /\ BreakOf(h)' /\ SparesHands(h)
      BY <2>2 DEF HandsOf, BreakOf, Tidies, SparesHands, Lone
    <2> QED
      BY <2>2, <2>4, <2>6, <2>8, <2>9, <2>10, HandStep
  <1> QED
    BY <1>1, <1>2 DEF Abandoned

LEMMA SittingHand ==
  ASSUME Before, NEW h \in Handlers, Sitting(h), Mine(h), NoneSolo(h), call[h] \in Breaks => Lone(h)
  PROVE  Hands'
  <1>1. CASE ReadToLaunch(h) \/ ReadForWalkIn(h)
    <2>1. Mild
      BY <1>1, QuietMild DEF ReadToLaunch, ReadForWalkIn, Found
    <2> QED
      BY <1>1, <2>1, GoesOnHand DEF ReadToLaunch, ReadForWalkIn, At, Asked, Tidies, Marking
  <1>2. CASE Abandon(h) \/ Unlaunch(h) \/ Abandoned(h)
    <2>1. call[h] = "abandon"
      BY <1>2, KindOfLabel
      DEF Before, LaunchInv, PaperInv, FlowInv, AtKind, Abandon, Unlaunch, Abandoned, At
    <2> QED
      BY <1>2, <2>1, AbandonHand, AbandonedHand DEF Breaks
  <1> QED
    BY <1>1, <1>2, LaunchHand, LaunchedHand, HandInHand, HandedInHand DEF Sitting

\* What begins: a sitting is abandoned by somebody who sees it, and it is the
\* only one the family has.
LEMMA BeginsHand ==
  ASSUME Before, NEW h \in Handlers, Begins(h), Mine(h), NoneSolo(h)
  PROVE  Hands'
  <1>0. TypeInv /\ SeatsPaper
    BY DEF Before, LaunchInv, PaperInv, FlowInv
  <1>1. PICK kind \in Kinds, f \in Families, b \in Rows \cup {NoRow}, t \in Targets :
          Begin(h, kind, f, b, t, Start(kind)) /\ Fit(kind, f, b, t)
    BY <1>0, Beginnings
  <1>2. /\ call'[h] = kind /\ pc'[h] = Start(kind) /\ who'[h] = f /\ old'[h] = b
        /\ mem'[h].app = app[f] /\ mem'[h].round = (IF b = NoRow THEN 0 ELSE launches[b])
        /\ UNCHANGED db
    BY <1>0, <1>1, BeginMine
  <1>3. pc[h] = "idle"
    BY <1>1 DEF Begin, At
  <1>4. Mild
    BY <1>2, QuietMild
  <1>5. /\ Start(kind) \notin Marking \cup {"handedIn", "record", "unlaunch", "abandoned"}
        /\ Start(kind) = "abandon" => kind = "abandon"
    BY StartAt DEF Kinds, Marking
  <1>6. kind \in {"skip", "defer"} => app[f] # "withdrawn"
    BY <1>1 DEF Fit, CanTransition, Graph, SkipFrom
  <1>7. ASSUME kind = "abandon"
        PROVE  /\ b \in Rows /\ b # NoRow /\ f = family[b] /\ OnPaper(b)
               /\ f \in Excused \/ \A c \in Of(f) \ {b} : ~Seat(c)
    <2>1. b \in Rows /\ b # NoRow /\ f = family[b] /\ OnPaper(b)
      BY <1>1, <1>7, NoRowIsNoRow DEF Fit, OnPaper
    <2>2. status[b] \in {"in_progress"} \cup Gone
      <3>1. status[b] \in Status /\ status[b] \notin {"none", "booked", "no_show"}
        BY <1>0, <2>1 DEF SeatsPaper, Begun, OnPaper, TypeInv, DbOK
      <3>2. status[b] # "checked_in"
        BY <2>1 DEF Before, Hands, OpenUp
      <3> QED
        BY <3>1, <3>2 DEF Status, Taken, Live, Gone
    <2>3. CASE status[b] = "in_progress"
      <3>1. b \in Sittable
        BY <2>1, <2>3 DEF Before, LaunchInv, OnlySat, Sittable, Live
      <3>2. \A c \in Rows : Seat(c) => c \in Sittable
        BY DEF Before, LaunchInv, OnlySat, Sittable, Live, Seat
      <3> QED
        BY <2>1, <3>1, <3>2 DEF Before, Hands, OneSitting, Of
    <2>4. CASE status[b] \in Gone
      <3>1. CASE coded[b]
        <4>1. ~Leaves(f)
          BY <1>3 DEF Leaves, NoneSolo
        <4>2. Typing(b) /\ ~Seat(b)
          BY <2>1, <2>4, <3>1 DEF Typing, Seat, Gone
        <4> QED
          BY <2>1, <4>1, <4>2 DEF Before, Hands, SatOn
      <3>2. CASE ~coded[b]
        BY <2>1, <2>4, <3>2 DEF Excused, Dud, Of, OnPaper
      <3> QED
        BY <3>1, <3>2
    <2> QED
      BY <2>1, <2>2, <2>3, <2>4
  <1>8. BreakOf(h)'
    <2>1. UNCHANGED <<family, status, attempt, launches>>
      BY <1>2 DEF db, rows, paper
    <2>2. f \in Excused => f \in Excused'
      BY <1>4, MildLasts, ExcuseLasts
    <2>3. ASSUME pc'[h] \in Tidies
          PROVE  /\ pc'[h] = "abandon" /\ SameOpen(h, old[h])'
                 /\ who'[h] \in Excused' \/ \A c \in Rows : family'[c] = who'[h] /\ c # old'[h] => ~Seat(c)'
      <3>1. pc'[h] = "abandon" /\ kind = "abandon"
        BY <1>2, <1>5, <2>3 DEF Tidies
      <3>2. SameOpen(h, old[h])'
        BY <1>2, <1>7, <2>1, <3>1 DEF SameOpen, OnPaper
      <3> QED
        BY <1>2, <1>7, <2>1, <2>2, <3>1, <3>2 DEF Of, Seat, OnPaper
    <2> QED
      BY <1>2, <1>5, <1>6, <2>3 DEF BreakOf, Tidies, Of
  <1> QED
    BY <1>2, <1>3, <1>4, <1>5, <1>8, MildHand

LEMMA WorldHand ==
  ASSUME Before, World \/ UNCHANGED vars, UNCHANGED self
  PROVE  Hands'
  <1>0. TypeInv /\ \A h \in Handlers : pc[h] = "handedIn" => who[h] \in Families
    BY DEF Before, LaunchInv, PaperInv, FlowInv, TypeInv, Known, At
  <1>1. UNCHANGED <<status, family, session, launches, coded, told>>
    BY DEF World, StartSitting, Mark, Decide, Close, vars, db, rows, paper
  <1>2. \A b \in Rows : \/ attempt'[b] = attempt[b]
                        \/ attempt[b] = "ready" /\ attempt'[b] = "in_progress"
    <2>1. ASSUME NEW c \in Rows, StartSitting(c)
          PROVE  \A b \in Rows :
                   \/ attempt'[b] = attempt[b]
                   \/ attempt[b] = "ready" /\ attempt'[b] = "in_progress"
      BY <1>0, <2>1 DEF StartSitting, TypeInv, DbOK
    <2>2. UNCHANGED attempt \/ \E c \in Rows : StartSitting(c)
      BY DEF World, Mark, Decide, Close, vars, db, rows, paper
    <2> QED
      BY <2>1, <2>2
  <1>3. \A f \in Families : app[f] \in {AtKeys, "withdrawn"} => app'[f] = app[f]
    BY <1>0 DEF World, StartSitting, Mark, Decide, Close, vars, db, TypeInv, DbOK, AtKeys
  <1>4. /\ \A b \in Rows : /\ OnPaper(b)' <=> OnPaper(b)
                           /\ Seat(b)' <=> Seat(b)
                           /\ Typing(b)' <=> Typing(b)
                           /\ attempt'[b] = "submitted" <=> attempt[b] = "submitted"
        /\ \A f, b : f = family'[b] <=> f = family[b]
    BY <1>1, <1>2 DEF OnPaper, Seat, Typing
  <1>5. Excused \subseteq Excused'
    BY <1>1, <1>2, <1>3, ExcuseLasts DEF Lasting
  <1>6. Sittable' = Sittable
    BY <1>1 DEF Sittable, KindOf, self
  <1>7. OneSitting' /\ OpenUp'
    BY <1>1, <1>2, <1>4, <1>6 DEF Before, Hands, OneSitting, OpenUp
  <1>8. SatOn'
    <2> SUFFICES ASSUME NEW b \in Rows, Typing(b)'
                 PROVE  \/ family'[b] \in Excused'
                        \/ \E h \in Handlers : pc'[h] = "leaveSitting" /\ who'[h] = family'[b]
                        \/ Seat(b)' /\ app'[family'[b]] = AtKeys
      BY DEF SatOn, Leaves
    <2>1. Typing(b) /\ family[b] \in Families /\ family'[b] = family[b]
      BY <1>0, <1>1, <1>4 DEF Typing, OnPaper, TypeInv, Owned
    <2>2. Leaves(family[b]) => \E h \in Handlers : pc'[h] = "leaveSitting" /\ who'[h] = family[b]
      BY DEF Leaves, self
    <2>3. family[b] \in Excused \/ Leaves(family[b]) \/ (Seat(b) /\ app[family[b]] = AtKeys)
      BY <2>1 DEF Before, Hands, SatOn
    <2> QED
      BY <1>3, <1>4, <1>5, <2>1, <2>2, <2>3
  <1>9. Filed'
    <2>1. \A b \in Rows : attempt[b] = "submitted" => family[b] \in Families
      BY <1>0 DEF TypeInv, Owned
    <2> QED
      BY <1>1, <1>4, <1>5, <2>1 DEF Before, Hands, Filed, self
  <1>10. OneHands'
    BY <1>5 DEF Before, Hands, OneHands, self
  <1>11. ASSUME NEW h \in Handlers PROVE HandsOf(h)' /\ BreakOf(h)'
    <2>1. /\ HandsOf(h) /\ BreakOf(h) /\ call'[h] = call[h] /\ pc'[h] = pc[h] /\ old'[h] = old[h]
          /\ new'[h] = new[h] /\ who'[h] = who[h] /\ mem'[h] = mem[h]
          /\ pc[h] = "abandon" => old[h] \in Rows
      BY DEF Before, Hands, self, LaunchInv, PaperInv, FlowInv, Rowed, About, Tidies
    <2>2. HandsOf(h)'
      BY <1>0, <1>1, <1>3, <1>5, <1>6, <2>1 DEF HandsOf, Of
    <2>3. pc[h] = "abandon" => SameOpen(h, old[h])'
      BY <1>1, <1>4, <2>1 DEF BreakOf, SameOpen, OnPaper, Tidies
    <2>4. pc[h] \in {"unlaunch", "abandoned"} => old[h] \in Rows /\ ~OnPaper(old[h])'
      BY <1>4, <2>1 DEF BreakOf, Tidies
    <2>5. pc[h] \in Tidies =>
            who[h] \in Excused' \/ \A b \in Rows : family'[b] = who[h] /\ b # old[h] => ~Seat(b)'
      BY <1>1, <1>4, <1>5, <2>1 DEF BreakOf, Of
    <2>6. pc[h] = "record" => /\ new[h] \in Rows /\ family'[new[h]] = who[h]
                              /\ status'[new[h]] = "booked" /\ KindOf(new[h])' = Kind(mem[h].target)
      BY <1>1, <2>1 DEF BreakOf, KindOf
    <2> QED
      BY <2>1, <2>2, <2>3, <2>4, <2>5, <2>6 DEF BreakOf, Of
  <1> QED
    BY <1>7, <1>8, <1>9, <1>10, <1>11 DEF Hands

HandInv == KeyInv /\ EndsInv /\ (crashes = 0 => Hands)

LEMMA NextHand ==
  KeyInv' /\ EndsInv' /\ HandInv /\ NoMoves /\ EndsAlone /\ BooksAlone /\ [Next]_vars => HandInv'
  <1> SUFFICES ASSUME KeyInv', EndsInv', HandInv, NoMoves, EndsAlone, BooksAlone, [Next]_vars
               PROVE  HandInv'
    OBVIOUS
  <1>0. FlowInv /\ TypeInv /\ TypeInv' /\ Shape /\ (crashes = 0 => Before)
    BY NextShape DEF HandInv, Before, KeyInv, EndsInv, FlowInv
  <1>1. ASSUME NEW h \in Handlers, Step(h) \/ Begins(h) PROVE HandInv'
    <2>1. Mine(h) /\ NoneSolo(h) /\ crashes' = crashes
      BY <1>0, <1>1, StepFlow, BeginsFlow, NobodySolo, StepCrashes
    <2>2. call[h] \in Breaks \cup {"book"} => Lone(h)
      BY <1>0, SoloAlone, AloneLone
    <2>3. ASSUME Before PROVE Hands'
      <3>1. CASE Begins(h)
        BY <2>1, <2>3, <3>1, BeginsHand
      <3>2. CASE Choosing(h)
        BY <2>1, <2>2, <2>3, <3>2, ChoosingHand
      <3>3. CASE Cancelling(h) \/ Arriving(h) \/ Missing(h)
        BY <2>1, <2>3, <3>3, ArrivingHand, MissingHand
      <3>4. CASE Deferring(h) \/ Leaving(h) \/ Skipping(h) \/ Sitting(h)
        BY <2>1, <2>2, <2>3, <3>4, FreeingHand, SittingHand
      <3> QED
        BY <1>1, <3>1, <3>2, <3>3, <3>4 DEF Step
    <2> QED
      BY <1>0, <2>1, <2>3 DEF HandInv
  <1>2. ASSUME NEW h \in Handlers, Crash(h) PROVE HandInv'
    <2>1. crashes' # 0
      BY <1>0, <1>2 DEF Crash, TypeInv
    <2> QED
      BY <2>1 DEF HandInv
  <1>3. CASE (World \/ UNCHANGED vars) /\ UNCHANGED self
    <2>1. crashes' = crashes
      BY <1>3 DEF World, StartSitting, Mark, Decide, Close, vars
    <2> QED
      BY <1>0, <1>3, <2>1, WorldHand DEF HandInv
  <1>4. UNCHANGED vars => UNCHANGED self
    BY DEF vars
  <1> QED
    BY <1>0, <1>1, <1>2, <1>3, <1>4 DEF Shape

\* When every invocation has ended and none was killed, every paper handed in
\* is on its way to be marked, unless the family has withdrawn or was left with
\* a launch that failed (onAssessmentSubmitted commits from the status it read):
\* check-ins, no-shows, launches, walk-ins and hand-ins of any number of
\* families interleave as they like; a booking made, an abandonment, a
\* withdrawal, a skip and a deferral are alone, no booking is moved, and no
\* paper is begun or handed in before its launch is recorded.
THEOREM HandedInIsMarkedHolds ==
  ASSUME NoMoves, EndsAlone, BooksAlone, LaunchFirst
  PROVE  Spec => []HandedInIsMarked
  <1>0. MovesAlone
    BY DEF NoMoves, MovesAlone
  <1>1. Init /\ FlowInv => PaperInv /\ EndsInv
    <2>1. Init /\ FlowInv => PaperInv
      BY FamilyAssumption
      DEF Init, PaperInv, SeatsPaper, Begun, Over, JudgedOn, PausedOn, SittingOf, Judged
    <2>2. Init /\ FlowInv => EndsInv
      BY DEF Init, EndsInv, AbsentStay, AbsentTold, ArrivedTold, OneMarks, MarkedBy, Marking
    <2> QED
      BY <2>1, <2>2
  <1>2. Init /\ PaperInv => LaunchInv /\ KeyInv
    <2>1. Init /\ PaperInv => LaunchInv
      BY DEF Init, LaunchInv, OneLive, OnlySat, OneLaunches, LaunchOf, Owning, Live
    <2> QED
      BY <2>1 DEF Init, KeyInv, Keys, ShownSeated, KeysOf, AtKeys, Breaks
  <1>3. Init /\ KeyInv /\ EndsInv => HandInv
    <2> SUFFICES ASSUME Init PROVE Hands
      BY DEF HandInv
    <2>1. Sittable = {}
      BY DEF Init, Sittable, Live, Marking
    <2>2. \A h \in Handlers : HandsOf(h) /\ BreakOf(h)
      BY DEF Init, HandsOf, BreakOf, Tidies
    <2> QED
      BY <2>1, <2>2
      DEF Init, Hands, OneSitting, OpenUp, SatOn, Typing, OnPaper, OneHands, Filed
  <1>4. HandInv => HandedInIsMarked
    <2> SUFFICES ASSUME HandInv, Settled, NEW b \in Rows, attempt[b] = "submitted",
                        "completed" \notin told[b]
                 PROVE  app[family[b]] = "withdrawn" \/ LaunchFailed(family[b])
      BY DEF HandedInIsMarked
    <2>1. family[b] \in Excused
      BY DEF HandInv, Settled, Quiet, At, Hands, Filed
    <2> QED
      BY <2>1 DEF Excused, Dud, LaunchFailed
  <1> QED
    BY <1>0, <1>1, <1>2, <1>3, <1>4, NoMoves, EndsAlone, BooksAlone, LaunchFirst, InitFlow, NextFlow,
       NextPaper, NextLaunch, NextKey, NextEnds, NextHand, PTL DEF Spec
===============================================================================
