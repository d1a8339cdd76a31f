------------------------------ MODULE Bookings ------------------------------
(* The places families hold in sessions, from the first booking to a sitting *)
(* handed in (web/lib/workflow/actions.ts, appointment.ts,                   *)
(* assessment-actions.ts, the SQL of book_session and launch_attempt).       *)
(*                                                                           *)
(* As in Payments and Offers, an invocation reads the application, reads the *)
(* booking, writes rows one statement at a time and commits the status last. *)
EXTENDS Naturals, FiniteSets

CONSTANTS
  Families,     \* rows of public.applications
  Assessed,     \* of those, the ones whose grade sits an assessment
  Rows,         \* rows of public.bookings, by booked_at; bound: when none is left
                \* book_session refuses, as it does for many reasons
  Sittings,     \* sessions of kind assessment
  Visits,       \* sessions of kind visit
  Ending,       \* bound: those that begin, or are unpublished, in this instance
  Capacity,     \* sessions.capacity
  Handlers,     \* invocations that may be in flight together
  Calls,        \* the kinds of invocation made in this instance
  Alone,        \* of those, the kinds never in flight beside another
  LaunchFirst,  \* whether a paper is begun or handed in only after its launch
  MaxLaunches,  \* bound: launches of one booking
  MaxCrashes    \* bound: invocations killed between two statements

Kinds == { "book", "move", "cancel", "checkIn", "noShow", "defer", "resume",
           "withdraw", "skip", "launch", "walkIn", "handIn", "abandon" }

ASSUME CallAssumption == Calls \subseteq Kinds /\ Alone \subseteq Calls /\ LaunchFirst \in BOOLEAN
ASSUME RowAssumption == Rows \subseteq Nat \ {0} /\ IsFiniteSet(Rows)
ASSUME CapacityAssumption == Capacity \in Nat
ASSUME CrashBound == MaxCrashes \in Nat /\ MaxLaunches \in Nat
ASSUME FamilyAssumption == Assessed \subseteq Families /\ "none" \notin Families
ASSUME SessionAssumption ==
  "walkIn" \notin Sittings \cup Visits /\ "none" \notin Sittings \cup Visits

VARIABLES
  app,       \* applications.status
  notes,     \* of the family's timeline: "skipped", the assessment was skipped;
             \* "paused", the last deferral says an assessed child waited for a decision
  status,    \* bookings.status, "none" before the insert
  family,    \* bookings.application_id
  session,   \* bookings.session_id
  arrived,   \* bookings.checked_in_at is set
  attempt,   \* attempts.status of the booking's last attempt
  launches,  \* the attempts opened for the booking
  coded,     \* the launch of the last of them was recorded, and its code shown
  told,      \* those Events on the timeline that name the booking
  open,      \* sessions that are published and not yet begun
  call, pc, who, old, new, mem,  \* an invocation's kind, next statement,
             \* family, the booking it found, the one it made, copies
  crashes

paper == <<attempt, launches, coded>>
rows == <<status, family, session, arrived, paper>>
db   == <<app, notes, rows, told, open>>
self == <<call, pc, who, old, new, mem>>
vars == <<db, self, crashes>>

Sessions == Sittings \cup Visits
WalkIn   == "walkIn"   \* the unpublished session a walk-in opens for itself
NoRow    == 0

\* public.session_places_taken counts these; the index allows one of the
\* live ones to a family and kind.
Live  == {"booked", "checked_in", "in_progress"}
Taken == Live \cup {"completed"}
Status == Taken \cup {"none", "no_show", "cancelled", "rescheduled"}

\* Every status past a decision is "decided", a staff review is a wait for the
\* decision; nobody asks for a callback.
Graph ==
  [ new_enquiry            |-> {"assessment_booked", "visit_booked", "awaiting_decision", "deferred"},
    visit_booked           |-> {"new_enquiry", "assessment_booked", "awaiting_decision",
                                "visit_booked", "deferred"},
    assessment_booked      |-> {"no_show", "assessment_in_progress", "assessment_completed",
                                "assessment_booked", "new_enquiry", "deferred"},
    no_show                |-> {"assessment_booked", "new_enquiry", "deferred"},
    assessment_in_progress |-> {"assessment_completed", "assessment_booked"},
    assessment_completed   |-> {"awaiting_decision", "deferred"},
    awaiting_decision      |-> {"decided", "deferred", "new_enquiry"},
    deferred               |-> {"awaiting_decision", "new_enquiry"},
    decided                |-> {},
    withdrawn              |-> {} ]

AppStatus == DOMAIN Graph
CanTransition(from, to) == to \in Graph[from] \/ (to = "withdrawn" /\ from # "withdrawn")

\* A commit asks the graph only when the status changes.
Legal(from, to) == from = to \/ CanTransition(from, to)

Kind(s) == IF s \in Visits THEN "visit" ELSE "assessment"
KindOf(b) == Kind(session[b])
Of(f) == {b \in Rows : family[b] = f}
LiveOf(f) == {b \in Of(f) : status[b] \in Live}
Places(s) == {b \in Rows : session[b] = s /\ status[b] \in Taken}
HasSat(f) == \E b \in Of(f) : attempt[b] = "submitted"

StatusAfterBooking(from, kind) ==
  LET to == IF kind = "visit" THEN "visit_booked" ELSE "assessment_booked"
  IN  IF CanTransition(from, to) THEN to ELSE from

StatusAfterVisitArrival(from, f) ==
  IF f \notin Assessed /\ CanTransition(from, "awaiting_decision")
    THEN "awaiting_decision" ELSE from

StatusAfterCancellation(from) ==
  IF from \in {"assessment_booked", "visit_booked", "no_show"} THEN "new_enquiry" ELSE from

\* Mutant: every family that paused goes back to the decision.
AlwaysAtDecision(f) == "awaiting_decision"

StatusAfterDeferral(f) ==
  IF f \in Assessed /\ ~HasSat(f) /\ "paused" \notin notes[f] THEN "new_enquiry" ELSE "awaiting_decision"

PC == { "idle", "live", "complete", "book", "record", "unbook", "release", "rebook",
        "putBack", "cancel", "cancelled", "arrive", "arrivedAs", "miss", "missed",
        "unmiss", "freeBooked", "freeArrived", "defer", "resume",
        "leaveRows", "leaveSitting", "leave", "skipSitting", "skipVisit",
        "skipArrived", "skipReady", "skip",
        "launch", "launched", "handIn", "handedIn", "abandon", "unlaunch", "abandoned" }

Events == {"created", "checked_in", "no_show", "completed"}

\* What an invocation holds between statements: the status it read, the session
\* asked for (or the status to resume at), the attempt it is about.
Blank == [app |-> "new_enquiry", target |-> "none", round |-> 0]
-----------------------------------------------------------------------------
Init ==
  /\ app = [f \in Families |-> "new_enquiry"] /\ notes = [f \in Families |-> {}]
  /\ status = [b \in Rows |-> "none"] /\ family = [b \in Rows |-> "none"]
  /\ session = [b \in Rows |-> "none"] /\ arrived = [b \in Rows |-> FALSE]
  /\ attempt = [b \in Rows |-> "none"] /\ launches = [b \in Rows |-> 0]
  /\ coded = [b \in Rows |-> FALSE]
  /\ told = [b \in Rows |-> {}] /\ open = Sessions
  /\ call = [h \in Handlers |-> "none"] /\ pc = [h \in Handlers |-> "idle"]
  /\ who = [h \in Handlers |-> "none"] /\ old = [h \in Handlers |-> NoRow]
  /\ new = [h \in Handlers |-> NoRow] /\ mem = [h \in Handlers |-> Blank]
  /\ crashes = 0

At(h, l) == pc[h] = l
Goto(h, l) == pc' = [pc EXCEPT ![h] = l] /\ UNCHANGED <<call, who, old, new, mem>>
Quiet == \A g \in Handlers : At(g, "idle")

Done(h) ==
  /\ call' = [call EXCEPT ![h] = "none"] /\ pc' = [pc EXCEPT ![h] = "idle"]
  /\ who' = [who EXCEPT ![h] = "none"] /\ old' = [old EXCEPT ![h] = NoRow]
  /\ new' = [new EXCEPT ![h] = NoRow] /\ mem' = [mem EXCEPT ![h] = Blank]

\* A walk-in runs the next handler, any other invocation ends.
Onward(h, l) == IF call[h] = "walkIn" THEN Goto(h, l) ELSE Done(h)

\* An invocation of this kind reads the application f and goes on at l.
Begin(h, kind, f, b, target, l) ==
  /\ kind \in Calls /\ At(h, "idle")
  /\ kind \in Alone => Quiet
  /\ \A g \in Handlers : call[g] \notin Alone
  /\ call' = [call EXCEPT ![h] = kind] /\ pc' = [pc EXCEPT ![h] = l]
  /\ who' = [who EXCEPT ![h] = f] /\ old' = [old EXCEPT ![h] = b]
  /\ mem' = [mem EXCEPT ![h] =
               [app |-> app[f], target |-> target,
                round |-> IF b = NoRow THEN 0 ELSE launches[b]]]
  /\ UNCHANGED <<db, new, crashes>>

\* Bookings matching a condition become s, in one statement.
Rewrite(S, s) == status' = [b \in Rows |-> IF b \in S THEN s ELSE status[b]]
RewriteOnly(S, s) ==
  Rewrite(S, s) /\ UNCHANGED <<app, notes, family, session, arrived, paper, told, open, crashes>>

\* bookings_one_live_per_application_idx, for b to be live.
OnlyLive(b) == \A c \in Rows \ {b} : family[c] = family[b] /\ status[c] \in Live => KindOf(c) # KindOf(b)

\* commit_transition for the invocation's family, with the event it writes
\* about the booking b, if a property asks about it.
Commit(h, to, b, event) ==
  /\ app[who[h]] = mem[h].app /\ Legal(mem[h].app, to)
  /\ app' = [app EXCEPT ![who[h]] = to]
  /\ told' = [c \in Rows |-> IF c = b THEN told[c] \cup {event} ELSE told[c]]
  /\ UNCHANGED <<notes, rows, open, crashes>>
Refused(h, to) ==
  /\ app[who[h]] # mem[h].app \/ ~Legal(mem[h].app, to)
  /\ UNCHANGED <<db, crashes>>
-----------------------------------------------------------------------------
(* onSessionChosen and onRescheduled: the parent's picker, the staff form.   *)

\* The one live booking; staff who find two are told there is none.
Sole(f) == {b \in LiveOf(f) : LiveOf(f) = {b}}
\* What a parent's page loads.
Newest(f) == {b \in LiveOf(f) : \A c \in LiveOf(f) : c <= b}

\* A pre-school family is offered visits alone.  The kind of the invocation is
\* what it turns out to be when the booking has been read.
CallChoose(h, kind, f, s) ==
  /\ kind \in {"book", "move"} /\ s \in open /\ (s \in Sittings => f \in Assessed)
  /\ Begin(h, kind, f, NoRow, s, "live")

\* A visit the family came for is completed; any other live booking is moved.
Attended(h, b) ==
  KindOf(b) = "visit" /\ status[b] = "checked_in" /\ Kind(mem[h].target) = "assessment"

\* The live booking b is read and kept, and the handler goes on at l.
Found(h, b, l) ==
  /\ pc' = [pc EXCEPT ![h] = l] /\ old' = [old EXCEPT ![h] = b]
  /\ UNCHANGED <<db, call, who, new, mem, crashes>>

\* Staff may not book a first sitting past its stage.
StaffMayBook(h) ==
  mem[h].target \in Sittings => CanTransition(mem[h].app, "assessment_booked")

ReadToBook(h) ==
  /\ At(h, "live") /\ call[h] = "book"
  /\ \/ /\ LiveOf(who[h]) = {} \/ (Sole(who[h]) = {} /\ StaffMayBook(h))
        /\ Goto(h, "book") /\ UNCHANGED <<db, crashes>>
     \/ \E b \in Sole(who[h]) \cup Newest(who[h]) : Attended(h, b) /\ Found(h, b, "complete")
     \/ /\ LiveOf(who[h]) # {} /\ Done(h) /\ UNCHANGED <<db, crashes>>

ReadToMove(h) ==
  /\ At(h, "live") /\ call[h] = "move"
  /\ \/ \E b \in Sole(who[h]) \cup Newest(who[h]) : ~Attended(h, b) /\ Found(h, b, "release")
     \/ Done(h) /\ UNCHANGED <<db, crashes>>

Complete(h) ==
  /\ At(h, "complete")
  /\ RewriteOnly({old[h]} \cap {b \in Rows : status[b] = "checked_in"}, "completed")
  /\ Goto(h, "book")

\* Mutant: a child who has arrived no longer takes a place.
VacantUntilArrival(s) ==
  s \in open /\ Cardinality({b \in Places(s) : status[b] = "booked"}) < Capacity

\* book_session, under the lock on the session's row, inserts b.  The walk-in's
\* own session is not published.
Vacant(s) == s \in open /\ Cardinality(Places(s)) < Capacity
NextRow(b) == status[b] = "none" /\ \A c \in Rows : c < b => status[c] # "none"
CanBook(h, b) ==
  /\ Vacant(mem[h].target) /\ NextRow(b)
  /\ \A c \in LiveOf(who[h]) : KindOf(c) # Kind(mem[h].target)
BookSession(h, b) ==
  /\ CanBook(h, b)
  /\ status' = [status EXCEPT ![b] = "booked"]
  /\ family' = [family EXCEPT ![b] = who[h]]
  /\ session' = [session EXCEPT ![b] = mem[h].target]
  /\ new' = [new EXCEPT ![h] = b] /\ pc' = [pc EXCEPT ![h] = "record"]
  /\ UNCHANGED <<app, notes, arrived, paper, told, open, call, who, old, mem, crashes>>

\* A walk-in that got its booking would go on to the check-in; none does.
Book(h) ==
  /\ At(h, "book")
  /\ \/ \E b \in Rows : BookSession(h, b)
     \/ (\A b \in Rows : ~CanBook(h, b)) /\ Done(h) /\ UNCHANGED <<db, crashes>>

\* Mutant: a booking that cannot be recorded is left.
RecordOnly(h) ==
  /\ At(h, "record") /\ Done(h)
  /\ LET to == StatusAfterBooking(mem[h].app, Kind(mem[h].target))
     IN  Commit(h, to, new[h], "created") \/ Refused(h, to)

\* onBookingCreated.  A fresh booking that cannot be recorded is undone.
Record(h) ==
  /\ At(h, "record")
  /\ LET to == StatusAfterBooking(mem[h].app, Kind(mem[h].target))
     IN  \/ Commit(h, to, new[h], "created") /\ Done(h)
         \/ Refused(h, to) /\ IF call[h] = "book" THEN Goto(h, "unbook") ELSE Done(h)

Unbook(h) ==
  /\ At(h, "unbook")
  /\ RewriteOnly({new[h]} \cap {b \in Rows : status[b] = "booked"}, "cancelled")
  /\ Done(h)

Release(h) ==
  /\ At(h, "release")
  /\ RewriteOnly({old[h]} \cap {b \in Rows : status[b] \in Live}, "rescheduled")
  /\ Goto(h, "rebook")

Rebook(h) ==
  /\ At(h, "rebook")
  /\ \/ \E b \in Rows : BookSession(h, b)
     \/ (\A b \in Rows : ~CanBook(h, b)) /\ Goto(h, "putBack") /\ UNCHANGED <<db, crashes>>

\* By id, unless the index refuses, which nobody is told of.
PutBack(h) ==
  /\ At(h, "putBack")
  /\ RewriteOnly({b \in {old[h]} : OnlyLive(b)}, "booked")
  /\ Done(h)

(* onBookingCancelled                                                        *)
CallCancel(h, f) == Begin(h, "cancel", f, NoRow, "none", "live")

ReadToCancel(h) ==
  /\ At(h, "live") /\ call[h] = "cancel"
  /\ \/ \E b \in Sole(who[h]) \cup Newest(who[h]) : Found(h, b, "cancel")
     \/ Sole(who[h]) = {} /\ Done(h) /\ UNCHANGED <<db, crashes>>

Cancel(h) ==
  /\ At(h, "cancel")
  /\ RewriteOnly({old[h]} \cap {b \in Rows : status[b] \in {"booked", "checked_in"}}, "cancelled")
  /\ Goto(h, "cancelled")

Cancelled(h) ==
  /\ At(h, "cancelled")
  /\ LET to == StatusAfterCancellation(mem[h].app)
     IN  Commit(h, to, NoRow, "none") \/ Refused(h, to)
  /\ Done(h)
-----------------------------------------------------------------------------
(* onCheckedIn: by the desk, and on the way of a walk-in.                    *)
CallCheckIn(h, f) == Begin(h, "checkIn", f, NoRow, "none", "live")

CanCheckIn(h, b) == status[b] = "booked" /\ mem[h].app \notin {"withdrawn", "deferred"}

ReadToCheckIn(h) ==
  /\ At(h, "live") /\ call[h] = "checkIn"
  /\ \/ \E b \in Sole(who[h]) : CanCheckIn(h, b) /\ Found(h, b, "arrive")
     \/ /\ \A b \in Sole(who[h]) : ~CanCheckIn(h, b)
        /\ Done(h) /\ UNCHANGED <<db, crashes>>

\* Mutant: the booking is updated by id alone.
ArriveById(h) ==
  /\ At(h, "arrive") /\ Goto(h, "arrivedAs")
  /\ status' = [status EXCEPT ![old[h]] = "checked_in"]
  /\ arrived' = [arrived EXCEPT ![old[h]] = TRUE]
  /\ UNCHANGED <<app, notes, family, session, paper, told, open, crashes>>

Arrive(h) ==
  /\ At(h, "arrive")
  /\ IF status[old[h]] = "booked"
       THEN /\ status' = [status EXCEPT ![old[h]] = "checked_in"]
            /\ arrived' = [arrived EXCEPT ![old[h]] = TRUE]
            /\ Goto(h, "arrivedAs")
       ELSE UNCHANGED <<status, arrived>> /\ Done(h)
  /\ UNCHANGED <<app, notes, family, session, paper, told, open, crashes>>

ArrivedAs(h) ==
  /\ At(h, "arrivedAs")
  /\ LET to == IF KindOf(old[h]) = "visit"
                 THEN StatusAfterVisitArrival(mem[h].app, who[h]) ELSE mem[h].app
     IN  \/ Commit(h, to, old[h], "checked_in") /\ Onward(h, "launch")
         \/ Refused(h, to) /\ Done(h)

(* onNoShow                                                                  *)
CallNoShow(h, f) == Begin(h, "noShow", f, NoRow, "none", "live")

NoShowMove(h, b) ==
  /\ status[b] = "booked" /\ ~arrived[b] /\ mem[h].app # "withdrawn"
  /\ KindOf(b) = "assessment" => CanTransition(mem[h].app, "no_show")

ReadToMiss(h) ==
  /\ At(h, "live") /\ call[h] = "noShow"
  /\ \/ \E b \in Sole(who[h]) : NoShowMove(h, b) /\ Found(h, b, "miss")
     \/ /\ \A b \in Sole(who[h]) : ~NoShowMove(h, b)
        /\ Done(h) /\ UNCHANGED <<db, crashes>>

\* The trigger bookings_guard_no_show refuses a booking somebody arrived for.
Miss(h) ==
  /\ At(h, "miss")
  /\ IF status[old[h]] = "booked" /\ ~arrived[old[h]]
       THEN RewriteOnly({old[h]}, "no_show") /\ Goto(h, "missed")
       ELSE Done(h) /\ UNCHANGED <<db, crashes>>

Missed(h) ==
  /\ At(h, "missed")
  /\ LET to == IF KindOf(old[h]) = "visit" THEN StatusAfterCancellation(mem[h].app) ELSE "no_show"
     IN  \/ Commit(h, to, old[h], "no_show") /\ Done(h)
         \/ Refused(h, to) /\ Goto(h, "unmiss")

Unmiss(h) ==
  /\ At(h, "unmiss")
  /\ RewriteOnly({b \in {old[h]} : status[b] = "no_show" /\ OnlyLive(b)}, "booked")
  /\ Done(h)
-----------------------------------------------------------------------------
(* onDeferred, onDeferralEnded, onWithdrawn, and releaseAssessment on the    *)
(* way to a decision.                                                        *)
RowsOf(h, S) == {b \in Of(who[h]) : status[b] \in S}
SatFor(h, S) == {b \in RowsOf(h, S) : KindOf(b) = "assessment"}

CallDefer(h, f) ==
  CanTransition(app[f], "deferred") /\ Begin(h, "defer", f, NoRow, "none", "freeBooked")

FreeBooked(h) ==
  At(h, "freeBooked") /\ RewriteOnly(RowsOf(h, {"booked"}), "cancelled") /\ Goto(h, "freeArrived")

\* Mutant: the application's word is written on the booking.
FreeArrivedAsDeferred(h) ==
  /\ At(h, "freeArrived")
  /\ RewriteOnly(SatFor(h, {"checked_in", "in_progress"}), "deferred")
  /\ Goto(h, "defer")

FreeArrived(h) ==
  /\ At(h, "freeArrived")
  /\ RewriteOnly(SatFor(h, {"checked_in", "in_progress"}), "cancelled")
  /\ Goto(h, "defer")

Defer(h) ==
  /\ At(h, "defer") /\ Done(h)
  /\ IF app[who[h]] = mem[h].app
       THEN /\ app' = [app EXCEPT ![who[h]] = "deferred"]
            /\ notes' = [notes EXCEPT ![who[h]] =
                  IF mem[h].app = "awaiting_decision" /\ who[h] \in Assessed
                    THEN @ \cup {"paused"} ELSE @ \ {"paused"}]
       ELSE UNCHANGED <<app, notes>>
  /\ UNCHANGED <<rows, told, open, crashes>>

\* Where the family resumes is decided before the commit.
CallResume(h, f) ==
  app[f] = "deferred" /\ Begin(h, "resume", f, NoRow, StatusAfterDeferral(f), "resume")

Resume(h) ==
  /\ At(h, "resume") /\ Done(h)
  /\ app' = IF app[who[h]] = "deferred"
              THEN [app EXCEPT ![who[h]] = mem[h].target] ELSE app
  /\ UNCHANGED <<notes, rows, told, open, crashes>>

CallWithdraw(h, f) ==
  app[f] # "withdrawn" /\ Begin(h, "withdraw", f, NoRow, "none", "leaveRows")

LeaveRows(h) ==
  At(h, "leaveRows") /\ RewriteOnly(RowsOf(h, Live), "cancelled") /\ Goto(h, "leaveSitting")

\* The family's open attempts with these statuses are abandoned.
AbandonOf(h, S) ==
  /\ attempt' = [b \in Rows |->
        IF family[b] = who[h] /\ attempt[b] \in S THEN "abandoned" ELSE attempt[b]]
  /\ UNCHANGED <<app, notes, status, family, session, arrived, launches, coded, told, open, crashes>>

LeaveSitting(h) ==
  At(h, "leaveSitting") /\ AbandonOf(h, {"ready", "in_progress"}) /\ Goto(h, "leave")

Leave(h) ==
  /\ At(h, "leave")
  /\ Commit(h, "withdrawn", NoRow, "none") \/ Refused(h, "withdrawn")
  /\ Done(h)

SkipFrom == {"new_enquiry", "visit_booked", "assessment_booked", "no_show",
             "assessment_completed", "deferred"}
CallSkip(h, f) == app[f] \in SkipFrom /\ Begin(h, "skip", f, NoRow, "none", "skipSitting")

SkipSitting(h) ==
  /\ At(h, "skipSitting")
  /\ RewriteOnly(SatFor(h, {"booked"}), "cancelled")
  /\ Goto(h, "skipVisit")

\* Only while the visit is the stage being skipped.
SkipVisit(h) ==
  /\ At(h, "skipVisit")
  /\ RewriteOnly(IF mem[h].app = "visit_booked"
                   THEN RowsOf(h, {"booked"}) \ SatFor(h, {"booked"}) ELSE {}, "cancelled")
  /\ Goto(h, "skipArrived")

SkipArrived(h) ==
  /\ At(h, "skipArrived")
  /\ RewriteOnly(IF mem[h].app = "assessment_booked"
                   THEN SatFor(h, {"checked_in"}) ELSE {}, "cancelled")
  /\ Goto(h, "skipReady")

SkipReady(h) == At(h, "skipReady") /\ AbandonOf(h, {"ready"}) /\ Goto(h, "skip")

\* The override's edges reach the decision from every status it starts from.
Skip(h) ==
  /\ At(h, "skip") /\ Done(h)
  /\ IF app[who[h]] = mem[h].app
       THEN /\ app' = [app EXCEPT ![who[h]] = "awaiting_decision"]
            /\ notes' = [notes EXCEPT ![who[h]] = @ \cup {"skipped"}]
       ELSE UNCHANGED <<app, notes>>
  /\ UNCHANGED <<rows, told, open, crashes>>
-----------------------------------------------------------------------------
(* The sitting: onAssessmentLaunched, startWalkIn, onAssessmentSubmitted,    *)
(* onAssessmentAbandoned.                                                    *)
CallLaunch(h, f) == Begin(h, "launch", f, NoRow, "none", "live")

ReadToLaunch(h) ==
  /\ At(h, "live") /\ call[h] = "launch"
  /\ \/ \E b \in Sole(who[h]) : status[b] = "checked_in" /\ Found(h, b, "launch")
     \/ /\ \A b \in Sole(who[h]) : status[b] # "checked_in"
        /\ Done(h) /\ UNCHANGED <<db, crashes>>

CallWalkIn(h, f) ==
  /\ f \in Assessed /\ CanTransition(app[f], "assessment_booked")
  /\ Begin(h, "walkIn", f, NoRow, WalkIn, "live")

\* A booking the child has is used instead of a new one.
ReadForWalkIn(h) ==
  /\ At(h, "live") /\ call[h] = "walkIn"
  /\ \/ \E b \in Sole(who[h]) :
          \/ CanCheckIn(h, b) /\ Found(h, b, "arrive")
          \/ status[b] = "checked_in" /\ Found(h, b, "launch")
          \/ status[b] = "in_progress" /\ Done(h) /\ UNCHANGED <<db, crashes>>
     \/ Sole(who[h]) = {} /\ Goto(h, "book") /\ UNCHANGED <<db, crashes>>

\* launch_attempt: the booking and its attempt in one transaction, unless there
\* is no template to draw from (as when MaxLaunches is reached).
CanLaunch(b) ==
  /\ KindOf(b) = "assessment" /\ status[b] = "checked_in"
  /\ attempt[b] \notin {"ready", "in_progress"} /\ launches[b] < MaxLaunches

Launch(h) ==
  /\ At(h, "launch")
  /\ IF CanLaunch(old[h])
       THEN /\ status' = [status EXCEPT ![old[h]] = "in_progress"]
            /\ attempt' = [attempt EXCEPT ![old[h]] = "ready"]
            /\ launches' = [launches EXCEPT ![old[h]] = @ + 1]
            /\ coded' = [coded EXCEPT ![old[h]] = FALSE]
            /\ Goto(h, "launched")
       ELSE UNCHANGED <<status, paper>> /\ Done(h)
  /\ UNCHANGED <<app, notes, family, session, arrived, told, open, crashes>>

\* Mutant: the code is minted before the commit.
LaunchedWithCode(h) ==
  /\ At(h, "launched") /\ Done(h)
  /\ coded' = [coded EXCEPT ![old[h]] = TRUE]
  /\ app' = IF app[who[h]] = mem[h].app /\ Legal(mem[h].app, "assessment_in_progress")
              THEN [app EXCEPT ![who[h]] = "assessment_in_progress"] ELSE app
  /\ UNCHANGED <<notes, status, family, session, arrived, attempt, launches, told, open, crashes>>

\* The code is minted once the commit went through.
Launched(h) ==
  /\ At(h, "launched") /\ Done(h)
  /\ IF app[who[h]] = mem[h].app /\ Legal(mem[h].app, "assessment_in_progress")
       THEN /\ app' = [app EXCEPT ![who[h]] = "assessment_in_progress"]
            /\ coded' = [coded EXCEPT ![old[h]] = TRUE]
       ELSE UNCHANGED <<app, coded>>
  /\ UNCHANGED <<notes, status, family, session, arrived, attempt, launches, told, open, crashes>>

\* Of this launch's attempt, and still open.
SameOpen(h, b) == attempt[b] \in {"ready", "in_progress"} /\ launches[b] = mem[h].round

\* The launch of the booking's paper is not recorded yet.
BeingLaunched(b) == \E g \in Handlers : pc[g] = "launched" /\ old[g] = b

\* The child, the sweep, or staff for the child, whatever became of the paper.
CallHandIn(h, b) ==
  /\ attempt[b] # "none" /\ (LaunchFirst => ~BeingLaunched(b))
  /\ Begin(h, "handIn", family[b], b, "none", "handIn")

\* submit_attempt: the attempt and its booking in one transaction.
HandIn(h) ==
  /\ At(h, "handIn")
  /\ IF SameOpen(h, old[h])
       THEN /\ attempt' = [attempt EXCEPT ![old[h]] = "submitted"]
            /\ Rewrite({old[h]} \cap {b \in Rows : status[b] \in {"checked_in", "in_progress"}},
                       "completed")
            /\ Goto(h, "handedIn")
       ELSE UNCHANGED <<status, attempt>> /\ Done(h)
  /\ UNCHANGED <<app, notes, family, session, arrived, launches, coded, told, open, crashes>>

HandedIn(h) ==
  /\ At(h, "handedIn")
  /\ Commit(h, "assessment_completed", old[h], "completed") \/ Refused(h, "assessment_completed")
  /\ Done(h)

CallAbandon(h, b) ==
  attempt[b] \in {"ready", "in_progress"} /\ Begin(h, "abandon", family[b], b, "none", "abandon")

\* Guarded by status, but nothing asks whether the guard held.
Abandon(h) ==
  /\ At(h, "abandon")
  /\ attempt' = [attempt EXCEPT ![old[h]] = IF SameOpen(h, old[h]) THEN "abandoned" ELSE @]
  /\ Goto(h, "unlaunch")
  /\ UNCHANGED <<app, notes, status, family, session, arrived, launches, coded, told, open, crashes>>

Unlaunch(h) ==
  /\ At(h, "unlaunch")
  /\ RewriteOnly({old[h]} \cap {b \in Rows : status[b] = "in_progress"}, "checked_in")
  /\ Goto(h, "abandoned")

\* Mutant: the application is left where it was.
AbandonedQuietly(h) == At(h, "abandoned") /\ Done(h) /\ UNCHANGED <<db, crashes>>

Abandoned(h) ==
  /\ At(h, "abandoned")
  /\ Commit(h, "assessment_booked", NoRow, "none") \/ Refused(h, "assessment_booked")
  /\ Done(h)
-----------------------------------------------------------------------------
(* The world: the child's code, marking, the decision, the clock and staff   *)
(* who unpublish a session, the platform.                                    *)
\* start_attempt, with the code of the launch or one that staff issued anew, for
\* which the attempt need only be ready.
StartSitting(b) ==
  /\ attempt[b] = "ready" /\ (LaunchFirst => ~BeingLaunched(b))
  /\ attempt' = [attempt EXCEPT ![b] = "in_progress"]
  /\ UNCHANGED <<app, notes, status, family, session, arrived, launches, coded, told, open, self, crashes>>

Mark(f) ==
  /\ app[f] = "assessment_completed" /\ app' = [app EXCEPT ![f] = "awaiting_decision"]
  /\ UNCHANGED <<notes, rows, told, open, self, crashes>>

Decide(f) ==
  /\ app[f] = "awaiting_decision" /\ app' = [app EXCEPT ![f] = "decided"]
  /\ UNCHANGED <<notes, rows, told, open, self, crashes>>

Close(s) ==
  /\ s \in open \cap Ending /\ open' = open \ {s}
  /\ UNCHANGED <<app, notes, rows, told, self, crashes>>

Crash(h) ==
  /\ ~At(h, "idle") /\ crashes < MaxCrashes
  /\ crashes' = crashes + 1
  /\ Done(h) /\ UNCHANGED db
-----------------------------------------------------------------------------
Choosing(h) == \/ ReadToBook(h) \/ ReadToMove(h) \/ Complete(h) \/ Book(h) \/ Record(h)
               \/ Unbook(h) \/ Release(h) \/ Rebook(h) \/ PutBack(h)
Cancelling(h) == ReadToCancel(h) \/ Cancel(h) \/ Cancelled(h)
Arriving(h) == ReadToCheckIn(h) \/ Arrive(h) \/ ArrivedAs(h)
Missing(h) == ReadToMiss(h) \/ Miss(h) \/ Missed(h) \/ Unmiss(h)
Deferring(h) == FreeBooked(h) \/ FreeArrived(h) \/ Defer(h) \/ Resume(h)
Leaving(h) == LeaveRows(h) \/ LeaveSitting(h) \/ Leave(h)
Skipping(h) == \/ SkipSitting(h) \/ SkipVisit(h) \/ SkipArrived(h) \/ SkipReady(h) \/ Skip(h)
Sitting(h) == \/ ReadToLaunch(h) \/ ReadForWalkIn(h) \/ Launch(h) \/ Launched(h) \/ HandIn(h)
              \/ HandedIn(h) \/ Abandon(h) \/ Unlaunch(h) \/ Abandoned(h)

Step(h) == \/ Choosing(h) \/ Cancelling(h) \/ Arriving(h) \/ Missing(h)
           \/ Deferring(h) \/ Leaving(h) \/ Skipping(h) \/ Sitting(h)

CallFor(h, f) ==
  \/ \E kind \in {"book", "move"}, s \in Sessions : CallChoose(h, kind, f, s)
  \/ CallCancel(h, f) \/ CallCheckIn(h, f) \/ CallNoShow(h, f) \/ CallDefer(h, f)
  \/ CallResume(h, f) \/ CallWithdraw(h, f) \/ CallSkip(h, f) \/ CallLaunch(h, f)
  \/ CallWalkIn(h, f)

World ==
  \/ \E b \in Rows : StartSitting(b)
  \/ \E f \in Families : Mark(f) \/ Decide(f)
  \/ \E s \in Sessions : Close(s)

Next ==
  \/ \E h \in Handlers : Step(h) \/ Crash(h)
  \/ \E h \in Handlers, f \in Families : CallFor(h, f)
  \/ \E h \in Handlers, b \in Rows : CallHandIn(h, b) \/ CallAbandon(h, b)
  \/ World

Spec == Init /\ [][Next]_vars
-----------------------------------------------------------------------------
Memory ==
  [app : AppStatus,
   target : Sessions \cup {WalkIn, "none", "new_enquiry", "awaiting_decision"}, round : Nat]

\* Every row and every invocation is one the handlers can write.
TypeOK ==
  /\ app \in [Families -> AppStatus] /\ notes \in [Families -> SUBSET {"skipped", "paused"}]
  /\ status \in [Rows -> Status] /\ family \in [Rows -> Families \cup {"none"}]
  /\ session \in [Rows -> Sessions \cup {"none"}] /\ arrived \in [Rows -> BOOLEAN]
  /\ attempt \in [Rows -> {"none", "ready", "in_progress", "submitted", "abandoned"}]
  /\ launches \in [Rows -> Nat] /\ coded \in [Rows -> BOOLEAN]
  /\ told \in [Rows -> SUBSET Events]
  /\ open \subseteq Sessions
  /\ call \in [Handlers -> Calls \cup {"none"}] /\ pc \in [Handlers -> PC]
  /\ who \in [Handlers -> Families \cup {"none"}]
  /\ old \in [Handlers -> Rows \cup {NoRow}] /\ new \in [Handlers -> Rows \cup {NoRow}]
  /\ mem \in [Handlers -> Memory] /\ crashes \in Nat

Settled == Quiet /\ crashes = 0

\* A session never holds more children than it has places (book_session).
NeverOverfull == \A s \in Sessions : Cardinality(Places(s)) <= Capacity

\* "A booking ends one of two ways and never both": the timeline never says of
\* one booking that the child came and did not come.
NeverBothEnds == \A b \in Rows : ~({"checked_in", "no_show"} \subseteq told[b])

\* No parent "is told the booking failed and holds one anyway".
BookedIsRecorded ==
  Settled => \A b \in Rows : status[b] = "booked" => "created" \in told[b] \/ arrived[b]

\* Staff were told that a launch of the family's did not go through.
LaunchFailed(f) == \E b \in Of(f) : attempt[b] # "none" /\ ~coded[b]

\* A paper handed in is on its way to be marked, unless the family has left.
HandedInIsMarked ==
  Settled => \A b \in Rows :
    attempt[b] = "submitted" =>
      \/ "completed" \in told[b]
      \/ app[family[b]] = "withdrawn" \/ LaunchFailed(family[b])

\* A child who sits an assessment is at the decision, or past it, with a paper
\* handed in or a skip on the timeline, however often the family paused.
DecidedOnPaper ==
  \A f \in Assessed :
    app[f] \in {"assessment_completed", "awaiting_decision", "decided"} =>
      HasSat(f) \/ "skipped" \in notes[f]

\* A child shown at the keyboard has a paper in front of them.
AtKeyboard ==
  Settled => \A f \in Families : app[f] = "assessment_in_progress" =>
    \E b \in Of(f) : status[b] = "in_progress" /\ attempt[b] \in {"ready", "in_progress"}
=============================================================================
