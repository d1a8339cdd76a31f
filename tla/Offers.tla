------------------------------- MODULE Offers -------------------------------
(* The offer letters of one application, from the approval of the child to   *)
(* the payment request an acceptance raises (web/lib/workflow/               *)
(* offer-actions.ts, deadline-actions.ts, stage-move-actions.ts).            *)
(*                                                                           *)
(* Staff, the parent's browser and the drain each run a handler: one         *)
(* serverless invocation that reads the application and a letter, writes     *)
(* rows one statement at a time, and commits the application's status last,  *)
(* refused when the status is no longer the one it read.                     *)
EXTENDS Naturals, FiniteSets

CONSTANTS
  Letters,    \* rows of public.offers the model may insert, by created_at
  Handlers,   \* invocations that may be in flight together
  Calls,      \* the kinds of invocation made in this instance
  Alone,      \* of those, the kinds never in flight beside another
  MaxCrashes  \* bound: invocations killed between two statements

Kinds == { "draft", "approve", "view", "expire", "withdraw", "accept", "decline",
           "extend", "toDecision", "toOffer", "moveOn", "draftOn", "leave" }

ASSUME CallsAssumption == Calls \subseteq Kinds /\ Alone \subseteq Calls
ASSUME CrashAssumption == MaxCrashes \in Nat
ASSUME LetterAssumption == Letters \subseteq Nat \ {0}

VARIABLES
  app,      \* applications.status
  letter,   \* offers.status, "none" before the insert
  past,     \* offers.expires_at is behind us
  opened,   \* offers.first_viewed_at is set
  answer,   \* offer_acceptances.decision of the letter, "none" without a row
  owed,     \* the status of the payment request raised for the letter
  sweep,    \* an offer_expire job for the letter is pending or running
  call, pc, sub, mem,  \* an invocation's kind, next statement, letter, copies
  crashes

db   == <<app, letter, past, opened, answer, owed, sweep>>
self == <<call, pc, sub, mem>>
vars == <<app, letter, past, opened, answer, owed, sweep, call, pc, sub, mem, crashes>>

NoLetter == 0

AppStatus ==
  { "awaiting_decision", "approved", "offer_draft", "offer_pending_approval",
    "offer_sent", "offer_expired", "offer_declined", "offer_accepted",
    "payment_required", "paid", "registration_incomplete", "withdrawn" }
Status ==
  { "none", "draft", "pending_approval", "sent", "viewed", "accepted",
    "declined", "expired", "withdrawn" }
Live == {"draft", "pending_approval", "sent", "viewed"}
Open == {"sent", "viewed"}
\* payment_requests.status, "none" before the insert.  A letter whose fees are
\* waived, or that asks for none, has a request for nothing: required is then
\* "nothing" here, and paid is "waived".
Request == {"none", "required", "nothing", "paid", "waived", "cancelled"}
Unpaid == {"required", "nothing"}
\* What a parent may see: the newest of these.
Visible == Open \cup {"expired", "accepted", "declined"}
DraftFrom    == {"approved", "offer_draft", "offer_pending_approval"}
WithdrawFrom == {"offer_sent", "offer_pending_approval", "offer_draft", "offer_expired"}

PC == { "idle", "letter", "draft", "write", "toDraft", "toQueue", "check",
        "send", "announce", "view", "readApp", "lapse", "expired",
        "pull", "pulled", "sign", "flip", "bill", "accepted", "cancelBill",
        "ask", "credit", "settle", "openUp", "refuse", "turnDown", "declined", "reopen", "reopened", "putBack",
        "move", "tidyLetters", "tidyBills", "reload", "reissue", "replace",
        "rescue",
        "leaveLetters", "leaveBills", "leave" }

\* What an invocation holds between statements: its copies of the application
\* and of the letter, whether a closing date was behind us when it looked,
\* whether the letter could be priced, and whether what it sends is announced
\* (Move to stage approves in silence).
Blank ==
  [app |-> "approved", was |-> "none", past |-> FALSE, opened |-> FALSE,
   priced |-> TRUE, notify |-> TRUE]
-----------------------------------------------------------------------------
Init ==
  /\ app = "approved"
  /\ letter = [o \in Letters |-> "none"] /\ past = [o \in Letters |-> FALSE]
  /\ opened = [o \in Letters |-> FALSE] /\ answer = [o \in Letters |-> "none"]
  /\ owed = [o \in Letters |-> "none"] /\ sweep = [o \in Letters |-> FALSE]
  /\ call = [h \in Handlers |-> "none"] /\ pc = [h \in Handlers |-> "idle"]
  /\ sub = [h \in Handlers |-> NoLetter] /\ mem = [h \in Handlers |-> Blank]
  /\ crashes = 0

At(h, l) == pc[h] = l
MovesOn(h) == call[h] \in {"moveOn", "draftOn"}
Goto(h, l) == pc' = [pc EXCEPT ![h] = l] /\ UNCHANGED <<call, sub, mem>>
Quiet == \A g \in Handlers : At(g, "idle")

\* The invocation ends.
Done(h) ==
  /\ call' = [call EXCEPT ![h] = "none"] /\ pc' = [pc EXCEPT ![h] = "idle"]
  /\ sub' = [sub EXCEPT ![h] = NoLetter] /\ mem' = [mem EXCEPT ![h] = Blank]

\* A handler called by Move to stage returns to it, any other ends.
Return(h) == IF MovesOn(h) THEN Goto(h, "reload") ELSE Done(h)

\* A handler that throws ends its caller too.
Throw(h) == Done(h)

\* An acceptance that throws inside Move to stage has its letter taken back.
ThrowAnswer(h) == IF MovesOn(h) THEN Goto(h, "rescue") ELSE Done(h)

\* An invocation of this kind begins, at l, with the application it has read.
Begin(h, kind, l, notify) ==
  /\ kind \in Calls /\ At(h, "idle")
  /\ kind \in Alone => Quiet
  /\ \A g \in Handlers : call[g] \notin Alone
  /\ call' = [call EXCEPT ![h] = kind] /\ pc' = [pc EXCEPT ![h] = l]
  /\ mem' = [mem EXCEPT ![h] =
               [app |-> app, was |-> "none", opened |-> FALSE, priced |-> TRUE,
                past |-> \E o \in Letters : letter[o] \in Open /\ past[o],
                notify |-> notify]]
  /\ UNCHANGED <<db, sub, crashes>>

\* The letter o is read and kept, and the handler goes on at l.
Read(h, o, l) ==
  /\ pc' = [pc EXCEPT ![h] = l] /\ sub' = [sub EXCEPT ![h] = o]
  /\ mem' = [mem EXCEPT ![h] =
               [app |-> @.app, was |-> letter[o], past |-> past[o],
                opened |-> opened[o], priced |-> @.priced, notify |-> @.notify]]
  /\ UNCHANGED <<db, call, crashes>>

\* The newest letter in one of these statuses is o.
Newest(o, S) == letter[o] \in S /\ \A q \in Letters : letter[q] \in S => q <= o

\* Letters with these statuses become s, in one statement.
Rewrite(S, from, s) ==
  letter' = [o \in Letters |-> IF o \in S /\ letter[o] \in from THEN s ELSE letter[o]]

\* commit_transition: refused when the status is no longer the expected one.
Commit(expected, new) == app = expected /\ app' = new
Conflict(expected)    == app # expected /\ UNCHANGED app
-----------------------------------------------------------------------------
(* onOfferDrafted: the draft_offer job, Generate, a promotion put on.        *)

\* auto: what offer_auto_approve says, never for Move to stage.
CallDraft(h) ==
  /\ app \in DraftFrom
  /\ \E auto \in BOOLEAN : Begin(h, "draft", "draft", auto)

\* The live letter is read, if there is one, and a letter already sent refused.
ReadLive(h) ==
  /\ At(h, "draft")
  /\ \E priced \in BOOLEAN :
       \/ \E o \in Letters :
            /\ letter[o] \in Live
            /\ IF letter[o] \in Open THEN Throw(h)
               ELSE /\ pc' = [pc EXCEPT ![h] = "write"] /\ sub' = [sub EXCEPT ![h] = o]
                    /\ mem' = [mem EXCEPT ![h] = [@ EXCEPT !.priced = priced]]
                    /\ UNCHANGED call
       \/ /\ \A o \in Letters : letter[o] \notin Live
          /\ pc' = [pc EXCEPT ![h] = "write"] /\ sub' = [sub EXCEPT ![h] = NoLetter]
          /\ mem' = [mem EXCEPT ![h] = [@ EXCEPT !.priced = priced]]
          /\ UNCHANGED call
  /\ UNCHANGED <<db, crashes>>

\* Mutant: an unpriced letter gets a status of its own.
DraftedBlocked(h) == IF mem[h].priced THEN "pending_approval" ELSE "blocked"

Drafted(h) == IF mem[h].priced THEN "pending_approval" ELSE "draft"

\* offers_one_live_per_application_idx: one letter in flight.
OnlyLive(o) == \A q \in Letters \ {o} : letter[q] \notin Live

WriteLetter(h, o) ==
  /\ letter' = [letter EXCEPT ![o] = Drafted(h)]
  /\ pc' = [pc EXCEPT ![h] = IF mem[h].app = "approved" THEN "toDraft" ELSE "toQueue"]
  /\ sub' = [sub EXCEPT ![h] = o]
  /\ UNCHANGED <<call, mem>>

\* An existing letter is updated by id, whatever it has become; otherwise one
\* is inserted.
Write(h) ==
  /\ At(h, "write")
  /\ \/ sub[h] # NoLetter /\ OnlyLive(sub[h]) /\ WriteLetter(h, sub[h])
     \/ sub[h] # NoLetter /\ ~OnlyLive(sub[h]) /\ Throw(h) /\ UNCHANGED letter
     \/ \E o \in Letters :
          /\ sub[h] = NoLetter /\ letter[o] = "none" /\ OnlyLive(o)
          /\ \A q \in Letters : q < o => letter[q] # "none"
          /\ WriteLetter(h, o)
     \/ sub[h] = NoLetter /\ Throw(h) /\ UNCHANGED letter
  /\ UNCHANGED <<app, past, opened, answer, owed, sweep, crashes>>

ToDraft(h) ==
  /\ At(h, "toDraft")
  /\ \/ Commit("approved", "offer_draft") /\ Goto(h, "toQueue")
     \/ Conflict("approved") /\ Throw(h)
  /\ UNCHANGED <<letter, past, opened, answer, owed, sweep, crashes>>

\* Blocked on fees, re-drafted in the queue, or put in it.
ToQueue(h) ==
  /\ At(h, "toQueue")
  /\ IF ~mem[h].priced THEN UNCHANGED app /\ Throw(h)
     ELSE IF mem[h].app = "offer_pending_approval" THEN UNCHANGED app /\ Return(h)
     ELSE \/ /\ Commit("offer_draft", "offer_pending_approval")
             /\ IF mem[h].notify THEN Goto(h, "check") ELSE Return(h)
          \/ Conflict("offer_draft") /\ Throw(h)
  /\ UNCHANGED <<letter, past, opened, answer, owed, sweep, crashes>>

-----------------------------------------------------------------------------
(* onOfferApproved: by hand, by the auto-approve switch, or by Move to stage.*)

CallApprove(h) == app = "offer_pending_approval" /\ Begin(h, "approve", "letter", TRUE)

ReadToApprove(h) ==
  /\ At(h, "letter")
  /\ call[h] = "approve" \/ (MovesOn(h) /\ mem[h].app = "offer_pending_approval")
  /\ \/ \E o \in Letters : letter[o] = "pending_approval" /\ Read(h, o, "send")
     \/ /\ \A o \in Letters : letter[o] # "pending_approval"
        /\ Throw(h) /\ UNCHANGED <<db, crashes>>

\* The auto-approve switch reads again the letter it has just written.
Check(h) ==
  /\ At(h, "check")
  /\ IF letter[sub[h]] = "pending_approval" THEN Goto(h, "send") ELSE Throw(h)
  /\ UNCHANGED <<db, crashes>>

\* Guarded by status, but nothing asks whether the guard held.
Send(h) ==
  /\ At(h, "send")
  /\ Rewrite({sub[h]}, {"pending_approval"}, "sent")
  /\ past' = [past EXCEPT ![sub[h]] = @ /\ letter[sub[h]] # "pending_approval"]
  /\ Goto(h, "announce")
  /\ UNCHANGED <<app, opened, answer, owed, sweep, crashes>>

Announce(h) ==
  /\ At(h, "announce")
  /\ \/ /\ Commit("offer_pending_approval", "offer_sent")
        /\ sweep' = [sweep EXCEPT ![sub[h]] = @ \/ mem[h].notify]
        /\ Return(h)
     \/ Conflict("offer_pending_approval") /\ Throw(h) /\ UNCHANGED sweep
  /\ UNCHANGED <<letter, past, opened, answer, owed, crashes>>

(* onOfferViewed: the parent's page.                                         *)

CallView(h) == Begin(h, "view", "letter", TRUE)

ReadToView(h) ==
  /\ At(h, "letter") /\ call[h] = "view"
  /\ \/ \E o \in Letters :
          Newest(o, Visible) /\ letter[o] = "sent" /\ Read(h, o, "view")
     \/ /\ ~\E o \in Letters : Newest(o, Visible) /\ letter[o] = "sent"
        /\ Done(h) /\ UNCHANGED <<db, crashes>>

View(h) ==
  /\ At(h, "view")
  /\ Rewrite({sub[h]}, {"sent"}, "viewed")
  /\ opened' = [opened EXCEPT ![sub[h]] = @ \/ letter[sub[h]] = "sent"]
  /\ Done(h)
  /\ UNCHANGED <<app, past, answer, owed, sweep, crashes>>
-----------------------------------------------------------------------------
(* offerExpireHandler and onOfferExpired: the expiry sweep, one job at a     *)
(* time.  Jobs models its queue; here it is pending or it is not.            *)

\* The sweep is due a minute after the closing date, which is taken to be
\* longer than an invocation begun before it lasts.
CallExpire(h, o) ==
  /\ sweep[o] /\ past[o]
  /\ \A g \in Handlers :
       ~At(g, "idle") /\ sub[g] \in {o, NoLetter} => mem[g].past /\ call[g] # "expire"
  /\ "expire" \in Calls /\ At(h, "idle")
  /\ "expire" \in Alone => Quiet
  /\ \A g \in Handlers : call[g] \notin Alone
  /\ IF letter[o] \in Open
     THEN /\ call' = [call EXCEPT ![h] = "expire"]
          /\ pc' = [pc EXCEPT ![h] = "readApp"] /\ sub' = [sub EXCEPT ![h] = o]
          /\ mem' = [mem EXCEPT ![h] = [@ EXCEPT !.past = TRUE]]
          /\ UNCHANGED sweep
     ELSE sweep' = [sweep EXCEPT ![o] = FALSE] /\ UNCHANGED self
  /\ UNCHANGED <<app, letter, past, opened, answer, owed, crashes>>

ReadAppToExpire(h) ==
  /\ At(h, "readApp")
  /\ IF app = "offer_sent" THEN Goto(h, "lapse") /\ UNCHANGED sweep
     ELSE Done(h) /\ sweep' = [sweep EXCEPT ![sub[h]] = FALSE]
  /\ UNCHANGED <<app, letter, past, opened, answer, owed, crashes>>

Lapse(h) ==
  /\ At(h, "lapse")
  /\ Rewrite({sub[h]}, Open, "expired")
  /\ Goto(h, "expired")
  /\ UNCHANGED <<app, past, opened, answer, owed, sweep, crashes>>

\* A refused commit throws, and the job is tried again.
Expired(h) ==
  /\ At(h, "expired")
  /\ \/ /\ Commit("offer_sent", "offer_expired")
        /\ sweep' = [sweep EXCEPT ![sub[h]] = FALSE]
     \/ Conflict("offer_sent") /\ UNCHANGED sweep
  /\ Done(h)
  /\ UNCHANGED <<letter, past, opened, answer, owed, crashes>>

(* onOfferWithdrawn: by hand, and by Move to stage for an expired letter.    *)

CallWithdraw(h) == app \in WithdrawFrom /\ Begin(h, "withdraw", "letter", TRUE)

ReadToWithdraw(h) ==
  /\ At(h, "letter") /\ call[h] = "withdraw"
  /\ \E o \in Letters : letter[o] # "none" /\ Read(h, o, "pull")

Pull(h) ==
  /\ At(h, "pull")
  /\ Rewrite({sub[h]}, Live \cup {"expired"}, "withdrawn")
  /\ Goto(h, "pulled")
  /\ UNCHANGED <<app, past, opened, answer, owed, sweep, crashes>>

Pulled(h) ==
  /\ At(h, "pulled")
  /\ \/ Commit(mem[h].app, "offer_draft") /\ Return(h)
     \/ Conflict(mem[h].app) /\ Throw(h)
  /\ UNCHANGED <<letter, past, opened, answer, owed, sweep, crashes>>
-----------------------------------------------------------------------------
(* onOfferAccepted and onOfferDeclined: the parent's answer.                 *)

CallAnswer(h) ==
  /\ app = "offer_sent"
  /\ \E kind \in {"accept", "decline"} : Begin(h, kind, "letter", TRUE)

OfferIsOpen(o) == letter[o] \in Open /\ ~past[o]

ReadToAnswer(h) ==
  /\ At(h, "letter") /\ call[h] \in {"accept", "decline"}
  /\ \/ \E o \in Letters :
          /\ Newest(o, Visible) /\ OfferIsOpen(o)
          /\ Read(h, o, IF call[h] = "accept" THEN "sign" ELSE "refuse")
     \/ /\ ~\E o \in Letters : Newest(o, Visible) /\ OfferIsOpen(o)
        /\ Throw(h) /\ UNCHANGED <<db, crashes>>

\* Mutant: a second answer replaces the first.
SignOver(h) ==
  /\ At(h, "sign")
  /\ answer' = [answer EXCEPT ![sub[h]] = "accepted"] /\ Goto(h, "flip")
  /\ UNCHANGED <<app, letter, past, opened, owed, sweep, crashes>>

\* offer_acceptances.offer_id is unique: a letter is answered once.
Sign(h) ==
  /\ At(h, "sign")
  /\ IF answer[sub[h]] = "none"
     THEN answer' = [answer EXCEPT ![sub[h]] = "accepted"] /\ Goto(h, "flip")
     ELSE ThrowAnswer(h) /\ UNCHANGED answer
  /\ UNCHANGED <<app, letter, past, opened, owed, sweep, crashes>>

Flip(h) ==
  /\ At(h, "flip")
  /\ IF letter[sub[h]] \in Open
     THEN letter' = [letter EXCEPT ![sub[h]] = "accepted"] /\ Goto(h, "bill")
     ELSE ThrowAnswer(h) /\ UNCHANGED letter
  /\ UNCHANGED <<app, past, opened, answer, owed, sweep, crashes>>

\* createPaymentRequest, one open request an application.
Bill(h) ==
  /\ At(h, "bill")
  /\ IF \A o \in Letters : owed[o] \notin Unpaid
     THEN /\ \E bill \in Unpaid : owed' = [owed EXCEPT ![sub[h]] = bill]
          /\ Goto(h, "accepted")
     ELSE ThrowAnswer(h) /\ UNCHANGED owed
  /\ UNCHANGED <<app, letter, past, opened, answer, sweep, crashes>>

\* Mutant: a refused commit leaves its request behind.
AcceptedOrThrown(h) ==
  /\ At(h, "accepted")
  /\ \/ Commit("offer_sent", "offer_accepted") /\ Goto(h, "ask")
     \/ Conflict("offer_sent") /\ ThrowAnswer(h)
  /\ UNCHANGED <<letter, past, opened, answer, owed, sweep, crashes>>

Accepted(h) ==
  /\ At(h, "accepted")
  /\ \/ Commit("offer_sent", "offer_accepted") /\ Goto(h, "ask")
     \/ Conflict("offer_sent") /\ Goto(h, "cancelBill")
  /\ UNCHANGED <<letter, past, opened, answer, owed, sweep, crashes>>

\* The acceptance did not take: its request gives up the one open slot.
CancelBill(h) ==
  /\ At(h, "cancelBill")
  /\ owed' = [owed EXCEPT ![sub[h]] = IF @ \in Unpaid THEN "cancelled" ELSE @]
  /\ ThrowAnswer(h)
  /\ UNCHANGED <<app, letter, past, opened, answer, sweep, crashes>>

\* The letter's fees say whether there is anything to collect; a request
\* cancelled meanwhile no longer tells.
Ask(h) ==
  /\ At(h, "ask")
  /\ \/ /\ Commit("offer_accepted", "payment_required")
        /\ \/ owed[sub[h]] # "nothing" /\ Return(h)
           \/ owed[sub[h]] # "required" /\ Goto(h, "credit")
     \/ Conflict("offer_accepted") /\ ThrowAnswer(h)
  /\ UNCHANGED <<letter, past, opened, answer, owed, sweep, crashes>>

\* Nothing to collect: onPaymentVerified, with a payment of nothing that is
\* this invocation's alone.  The request is credited by id, whatever it is.
Credit(h) ==
  /\ At(h, "credit")
  /\ owed' = [owed EXCEPT ![sub[h]] = "waived"] /\ Goto(h, "settle")
  /\ UNCHANGED <<app, letter, past, opened, answer, sweep, crashes>>

\* The status is read again until a commit that expects it is not refused, and
\* an application that no longer awaits payment is left alone (Payments has
\* the reads, and their number).
Settle(h) ==
  /\ At(h, "settle")
  /\ \/ Commit("payment_required", "paid") /\ Goto(h, "openUp")
     \/ Conflict("payment_required") /\ Return(h)
  /\ UNCHANGED <<letter, past, opened, answer, owed, sweep, crashes>>

OpenUp(h) ==
  /\ At(h, "openUp")
  /\ \/ Commit("paid", "registration_incomplete") /\ Return(h)
     \/ Conflict("paid") /\ ThrowAnswer(h)
  /\ UNCHANGED <<letter, past, opened, answer, owed, sweep, crashes>>

Refuse(h) ==
  /\ At(h, "refuse")
  /\ IF answer[sub[h]] = "none"
     THEN answer' = [answer EXCEPT ![sub[h]] = "declined"] /\ Goto(h, "turnDown")
     ELSE Throw(h) /\ UNCHANGED answer
  /\ UNCHANGED <<app, letter, past, opened, owed, sweep, crashes>>

TurnDown(h) ==
  /\ At(h, "turnDown")
  /\ IF letter[sub[h]] \in Open
     THEN letter' = [letter EXCEPT ![sub[h]] = "declined"] /\ Goto(h, "declined")
     ELSE Throw(h) /\ UNCHANGED letter
  /\ UNCHANGED <<app, past, opened, answer, owed, sweep, crashes>>

Declined(h) ==
  /\ At(h, "declined")
  /\ Commit("offer_sent", "offer_declined") \/ Conflict("offer_sent")
  /\ Done(h)
  /\ UNCHANGED <<letter, past, opened, answer, owed, sweep, crashes>>
-----------------------------------------------------------------------------
(* onOfferDeadlineMoved: a later closing date, and a lapsed letter reopened. *)

CallExtend(h) == app \in {"offer_sent", "offer_expired"} /\ Begin(h, "extend", "letter", TRUE)

ReadToExtend(h) ==
  /\ At(h, "letter") /\ call[h] = "extend"
  /\ \/ \E o \in Letters :
          /\ \/ letter[o] \in Open /\ mem[h].app = "offer_sent"
             \/ letter[o] = "expired" /\ mem[h].app = "offer_expired"
          /\ Read(h, o, "reopen")
     \/ Throw(h) /\ UNCHANGED <<db, crashes>>

\* Back to where it was before it lapsed.
Reopening(h) ==
  IF mem[h].was # "expired" THEN mem[h].was
  ELSE IF mem[h].opened THEN "viewed" ELSE "sent"

Reopen(h) ==
  /\ At(h, "reopen")
  /\ IF letter[sub[h]] = mem[h].was /\ OnlyLive(sub[h])
     THEN /\ letter' = [letter EXCEPT ![sub[h]] = Reopening(h)]
          /\ past' = [past EXCEPT ![sub[h]] = FALSE]
          /\ Goto(h, "reopened")
     ELSE Throw(h) /\ UNCHANGED <<letter, past>>
  /\ UNCHANGED <<app, opened, answer, owed, sweep, crashes>>

\* Mutant: the sweep's key is the one already used, and no sweep is queued.
ReopenedSameKey(h) ==
  /\ At(h, "reopened")
  /\ \/ Commit(mem[h].app, "offer_sent") /\ Done(h)
     \/ Conflict(mem[h].app) /\ Goto(h, "putBack")
  /\ UNCHANGED <<letter, past, opened, answer, owed, sweep, crashes>>

Reopened(h) ==
  /\ At(h, "reopened")
  /\ \/ /\ Commit(mem[h].app, "offer_sent")
        /\ sweep' = [sweep EXCEPT ![sub[h]] = TRUE]
        /\ Done(h)
     \/ Conflict(mem[h].app) /\ Goto(h, "putBack") /\ UNCHANGED sweep
  /\ UNCHANGED <<letter, past, opened, answer, owed, crashes>>

\* The application did not move, so neither does the offer.
PutBack(h) ==
  /\ At(h, "putBack")
  /\ IF letter[sub[h]] = Reopening(h)
     THEN /\ letter' = [letter EXCEPT ![sub[h]] = mem[h].was]
          /\ past' = [past EXCEPT ![sub[h]] = mem[h].past]
     ELSE UNCHANGED <<letter, past>>
  /\ Throw(h)
  /\ UNCHANGED <<app, opened, answer, owed, sweep, crashes>>
-----------------------------------------------------------------------------
(* moveBack: to Decision, or to Offer with a new letter.                     *)

BackFrom(kind) ==
  {"offer_accepted", "payment_required"} \cup
  IF kind = "toOffer" THEN {}
  ELSE { "approved", "offer_draft", "offer_pending_approval", "offer_sent",
         "offer_expired", "offer_declined" }

\* assertNoMoneyHeld first, which a payment of nothing is not.
CallMoveBack(h) ==
  \E kind \in {"toDecision", "toOffer"} :
    /\ app \in BackFrom(kind) /\ \A o \in Letters : owed[o] # "paid"
    /\ Begin(h, kind, "move", FALSE)

\* Mutant: the tidying first, the move after.
TidyThenMove(h) ==
  /\ At(h, "move")
  /\ Rewrite(Letters, Live \cup {"expired", "accepted"}, "withdrawn")
  /\ \/ /\ Commit(mem[h].app, IF call[h] = "toOffer" THEN "offer_draft" ELSE "awaiting_decision")
        /\ Goto(h, "tidyLetters")
     \/ Conflict(mem[h].app) /\ Throw(h)
  /\ UNCHANGED <<past, opened, answer, owed, sweep, crashes>>

\* The move first, the tidying after.
Move(h) ==
  /\ At(h, "move")
  /\ \/ /\ Commit(mem[h].app, IF call[h] = "toOffer" THEN "offer_draft" ELSE "awaiting_decision")
        /\ Goto(h, "tidyLetters")
     \/ Conflict(mem[h].app) /\ Throw(h)
  /\ UNCHANGED <<letter, past, opened, answer, owed, sweep, crashes>>

TidyLetters(h) ==
  /\ At(h, "tidyLetters")
  /\ Rewrite(Letters, Live \cup {"expired", "accepted"}, "withdrawn")
  /\ Goto(h, "tidyBills")
  /\ UNCHANGED <<app, past, opened, answer, owed, sweep, crashes>>

CancelBills == [o \in Letters |-> IF owed[o] \in Unpaid THEN "cancelled" ELSE owed[o]]

\* Bills and the jobs not yet running; then the application is read again and,
\* back at Offer, its letter drafted.
TidyBills(h) ==
  /\ At(h, "tidyBills")
  /\ owed' = CancelBills
  /\ sweep' = [o \in Letters |->
                 sweep[o] /\ \E g \in Handlers : call[g] = "expire" /\ sub[g] = o]
  /\ IF call[h] = "toOffer" /\ app \in DraftFrom
     THEN /\ pc' = [pc EXCEPT ![h] = "draft"]
          /\ mem' = [mem EXCEPT ![h] = [@ EXCEPT !.app = app]]
          /\ UNCHANGED <<call, sub>>
     ELSE Done(h)
  /\ UNCHANGED <<app, letter, past, opened, answer, crashes>>
-----------------------------------------------------------------------------
(* toPayment: Move to stage drafts, approves and accepts on the family's     *)
(* behalf, from wherever the offer is.                                       *)

\* The order in which it asks about the status.
Rank(status) ==
  CASE status = "offer_expired" -> 1
    [] status = "offer_declined" -> 2
    [] status \in {"approved", "offer_draft"} -> 3
    [] status = "offer_pending_approval" -> 4
    [] status = "offer_sent" -> 5
    [] OTHER -> 0

Stage(status) == << "reissue", "replace", "draft", "letter", "letter" >>[Rank(status)]

\* A move that has to draft the letter first is a kind of its own.
CallMoveOn(h) ==
  /\ Rank(app) > 0
  /\ Begin(h, IF Rank(app) > 3 THEN "moveOn" ELSE "draftOn", Stage(app), FALSE)

Reload(h) ==
  /\ At(h, "reload")
  /\ IF Rank(app) > Rank(mem[h].app)
     THEN /\ pc' = [pc EXCEPT ![h] = Stage(app)]
          /\ mem' = [mem EXCEPT ![h] = [@ EXCEPT !.app = app]]
          /\ sub' = [sub EXCEPT ![h] = NoLetter] /\ UNCHANGED call
     ELSE Done(h)
  /\ UNCHANGED <<db, crashes>>

Reissue(h) ==
  /\ At(h, "reissue")
  /\ \/ \E o \in Letters : Newest(o, Open \cup {"expired"}) /\ Read(h, o, "pull")
     \/ /\ \A o \in Letters : letter[o] \notin Open \cup {"expired"}
        /\ Throw(h) /\ UNCHANGED <<db, crashes>>

Replace(h) ==
  /\ At(h, "replace")
  /\ \/ Commit("offer_declined", "offer_draft") /\ Return(h)
     \/ Conflict("offer_declined") /\ Throw(h)
  /\ UNCHANGED <<letter, past, opened, answer, owed, sweep, crashes>>

ReadToSign(h) ==
  /\ At(h, "letter") /\ MovesOn(h) /\ mem[h].app = "offer_sent"
  /\ \/ \E o \in Letters :
          letter[o] \in Open /\ Read(h, o, IF past[o] THEN "rescue" ELSE "sign")
     \/ /\ \A o \in Letters : letter[o] \notin Open
        /\ Throw(h) /\ UNCHANGED <<db, crashes>>

\* Mutant: a failed acceptance leaves the letter it approved.
NoRescue(h) == At(h, "rescue") /\ Throw(h) /\ UNCHANGED <<db, crashes>>

\* The letter it approved in silence is taken back, if still unanswered; the
\* reload after it finds nothing left to do.
Rescue(h) ==
  /\ At(h, "rescue")
  /\ IF app = "offer_sent" /\ letter[sub[h]] \in Open THEN Goto(h, "pull") ELSE Throw(h)
  /\ UNCHANGED <<db, crashes>>
-----------------------------------------------------------------------------
(* onWithdrawn: the family leaves.                                           *)

CallLeave(h) == app # "withdrawn" /\ Begin(h, "leave", "leaveLetters", TRUE)

LeaveLetters(h) ==
  /\ At(h, "leaveLetters")
  /\ Rewrite(Letters, Live, "withdrawn")
  /\ Goto(h, "leaveBills")
  /\ UNCHANGED <<app, past, opened, answer, owed, sweep, crashes>>

LeaveBills(h) ==
  /\ At(h, "leaveBills")
  /\ owed' = CancelBills /\ Goto(h, "leave")
  /\ UNCHANGED <<app, letter, past, opened, answer, sweep, crashes>>

Leave(h) ==
  /\ At(h, "leave")
  /\ Commit(mem[h].app, "withdrawn") \/ Conflict(mem[h].app)
  /\ Done(h)
  /\ UNCHANGED <<letter, past, opened, answer, owed, sweep, crashes>>
-----------------------------------------------------------------------------
(* The world: the payment component, the decision, the clock, the platform.  *)

\* A request for nothing can be neither checked out nor recorded as received.
FamilyPays(o) ==
  /\ app = "payment_required" /\ owed[o] = "required"
  /\ owed' = [owed EXCEPT ![o] = "paid"] /\ app' = "registration_incomplete"
  /\ UNCHANGED <<letter, past, opened, answer, sweep, self, crashes>>

DecideAgain ==
  /\ app = "awaiting_decision" /\ app' = "approved"
  /\ UNCHANGED <<letter, past, opened, answer, owed, sweep, self, crashes>>

TimePasses(o) ==
  /\ letter[o] \in Open /\ ~past[o]
  /\ past' = [past EXCEPT ![o] = TRUE]
  /\ UNCHANGED <<app, letter, opened, answer, owed, sweep, self, crashes>>

Crash(h) ==
  /\ ~At(h, "idle") /\ crashes < MaxCrashes
  /\ crashes' = crashes + 1
  /\ Done(h) /\ UNCHANGED db
-----------------------------------------------------------------------------
Draft(h)    == ReadLive(h) \/ Write(h) \/ ToDraft(h) \/ ToQueue(h)
Approve(h)  == ReadToApprove(h) \/ Check(h) \/ Send(h) \/ Announce(h)
Lapsing(h)  == ReadAppToExpire(h) \/ Lapse(h) \/ Expired(h)
Withdraw(h) == ReadToWithdraw(h) \/ Pull(h) \/ Pulled(h)
Answer(h)   == \/ ReadToAnswer(h) \/ Sign(h) \/ Flip(h) \/ Bill(h) \/ Accepted(h)
               \/ CancelBill(h) \/ Ask(h) \/ Credit(h) \/ Settle(h) \/ OpenUp(h)
               \/ Refuse(h) \/ TurnDown(h) \/ Declined(h)
Extend(h)   == ReadToExtend(h) \/ Reopen(h) \/ Reopened(h) \/ PutBack(h)
MoveBack(h) == Move(h) \/ TidyLetters(h) \/ TidyBills(h)
MoveOn(h)   == Reload(h) \/ Reissue(h) \/ Replace(h) \/ ReadToSign(h) \/ Rescue(h)
Leaving(h)  == LeaveLetters(h) \/ LeaveBills(h) \/ Leave(h)

Step(h) ==
  \/ Draft(h) \/ Approve(h) \/ ReadToView(h) \/ View(h) \/ Lapsing(h) \/ Withdraw(h)
  \/ Answer(h) \/ Extend(h) \/ MoveBack(h) \/ MoveOn(h) \/ Leaving(h)

Call(h) ==
  \/ CallDraft(h) \/ CallApprove(h) \/ CallView(h) \/ CallWithdraw(h)
  \/ CallAnswer(h) \/ CallExtend(h) \/ CallMoveBack(h) \/ CallMoveOn(h) \/ CallLeave(h)

Sweep(o) == \E h \in Handlers : CallExpire(h, o)

World == DecideAgain \/ \E o \in Letters : FamilyPays(o) \/ TimePasses(o)

Next ==
  \/ \E h \in Handlers : Call(h) \/ Step(h) \/ Crash(h)
  \/ \E o \in Letters : Sweep(o)
  \/ World

Spec == Init /\ [][Next]_vars

\* An invocation runs until it ends or is killed, the clock runs, and the
\* cron drains for ever: a sweep due again and again is claimed.
Fairness ==
  /\ \A h \in Handlers : WF_vars(Step(h))
  /\ \A o \in Letters : WF_vars(TimePasses(o)) /\ SF_vars(Sweep(o))

FairSpec == Spec /\ Fairness
-----------------------------------------------------------------------------
Memory ==
  [app : AppStatus, was : Status, past : BOOLEAN, opened : BOOLEAN,
   priced : BOOLEAN, notify : BOOLEAN]

\* Every row and every invocation is one the handlers can write.
TypeOK ==
  /\ app \in AppStatus
  /\ letter \in [Letters -> Status] /\ past \in [Letters -> BOOLEAN]
  /\ opened \in [Letters -> BOOLEAN]
  /\ answer \in [Letters -> {"none", "accepted", "declined"}]
  /\ owed \in [Letters -> Request]
  /\ sweep \in [Letters -> BOOLEAN]
  /\ call \in [Handlers -> Calls \cup {"none"}] /\ pc \in [Handlers -> PC]
  /\ sub \in [Handlers -> Letters \cup {NoLetter}] /\ mem \in [Handlers -> Memory]
  /\ crashes \in Nat

\* A letter is answered once, and nothing is asked of a family whose answer on
\* file is not an acceptance (offer_acceptances, payment_requests).
AnsweredOnce ==
  \A o \in Letters :
    /\ letter[o] = "accepted" => answer[o] = "accepted"
    /\ letter[o] = "declined" => answer[o] = "declined"
    /\ owed[o] # "none" => answer[o] = "accepted"

\* A family asked to pay has the accepted letter and the open request it pays,
\* or the one for nothing just settled: a move back never takes them away
\* underneath an acceptance ("The move first, the tidying after").
PaymentIsBilled ==
  app \in {"offer_accepted", "payment_required"} =>
    \E o \in Letters : letter[o] = "accepted" /\ owed[o] \in Unpaid \cup {"waived"}

\* Every invocation has ended, and none was killed.
Settled == Quiet /\ crashes = 0

\* Once every invocation has ended, an open request asks for money a family
\* that accepted ("would otherwise hold the one open slot"), and nobody is
\* left to pay nothing ("so registration opens at once").
BilledWhileOwed ==
  Settled =>
    /\ \A o \in Letters :
         owed[o] \in Unpaid =>
           owed[o] = "required" /\ app = "payment_required" /\ letter[o] = "accepted"
    /\ app = "payment_required" => \E o \in Letters : owed[o] = "required"
    /\ app # "paid"

\* Once every invocation has ended, a sent offer has a letter that is open and
\* will lapse by itself: never "at offer sent for ever with the family holding
\* nothing".
SentWillLapse ==
  Settled /\ app = "offer_sent" => \E o \in Letters : letter[o] \in Open /\ sweep[o]

\* An offer that is out is answered, withdrawn or lapses, unless staff move its
\* closing date for ever.
SentEnds ==
  <>[][\A h \in Handlers : call'[h] = "extend" => call[h] = "extend"]_vars
    => (app = "offer_sent" ~> app # "offer_sent")
=============================================================================
