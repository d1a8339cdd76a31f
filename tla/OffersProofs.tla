----------------------------- MODULE OffersProofs -----------------------------
(* What Offers keeps for any number of letters and invocations.  A theorem    *)
(* that needs some calls to be absent, or never beside another, assumes it.   *)
EXTENDS Offers, TLAPS

DbOK ==
  /\ app \in AppStatus
  /\ letter \in [Letters -> Status] /\ past \in [Letters -> BOOLEAN]
  /\ opened \in [Letters -> BOOLEAN]
  /\ answer \in [Letters -> {"none", "accepted", "declined"}]
  /\ owed \in [Letters -> Request]
  /\ sweep \in [Letters -> BOOLEAN]
SelfOK ==
  /\ call \in [Handlers -> Calls \cup {"none"}] /\ pc \in [Handlers -> PC]
  /\ sub \in [Handlers -> Letters \cup {NoLetter}] /\ mem \in [Handlers -> Memory]

\* An invocation past its read of a letter knows which; one that moves a
\* closing date read an open letter or one that lapsed.
LetterAt ==
  { "toDraft", "toQueue", "check", "send", "announce", "view", "readApp", "lapse", "expired",
    "pull", "pulled", "sign", "flip", "bill", "accepted", "cancelBill", "ask", "credit",
    "settle", "openUp", "refuse", "turnDown", "declined", "reopen", "reopened", "putBack", "rescue" }
Extending == {"reopen", "reopened", "putBack"}
Known ==
  \A h \in Handlers :
    /\ pc[h] \in LetterAt => sub[h] \in Letters
    /\ pc[h] \in Extending => mem[h].was \in Open \cup {"expired"}

TypeInv == DbOK /\ SelfOK /\ crashes \in Nat /\ Known

LEMMA TypeParts == TypeOK <=> DbOK /\ SelfOK /\ crashes \in Nat
  BY DEF TypeOK, DbOK, SelfOK

LEMMA MemoryFields ==
  ASSUME NEW m \in Memory
  PROVE  /\ m.app \in AppStatus /\ m.was \in Status /\ m.past \in BOOLEAN
         /\ m.opened \in BOOLEAN /\ m.priced \in BOOLEAN /\ m.notify \in BOOLEAN
  BY DEF Memory

LEMMA MemoryOf ==
  ASSUME NEW a \in AppStatus, NEW w \in Status, NEW p \in BOOLEAN, NEW o \in BOOLEAN,
         NEW q \in BOOLEAN, NEW n \in BOOLEAN
  PROVE  /\ [app |-> a, was |-> w, past |-> p, opened |-> o, priced |-> q, notify |-> n] \in Memory
         /\ [app |-> a, was |-> w, past |-> p, opened |-> o, priced |-> q, notify |-> n].was = w
  BY DEF Memory

LEMMA BlankInMemory == Blank \in Memory
  <1>1. "approved" \in AppStatus /\ "none" \in Status
    BY DEF AppStatus, Status
  <1> QED
    BY <1>1 DEF Blank, Memory

LEMMA HoldFlag ==
  ASSUME NEW m \in Memory, NEW b \in BOOLEAN
  PROVE  [m EXCEPT !.priced = b] \in Memory /\ [m EXCEPT !.past = b] \in Memory
  BY DEF Memory

LEMMA HoldApp ==
  ASSUME NEW m \in Memory, NEW a \in AppStatus
  PROVE  [m EXCEPT !.app = a] \in Memory
  BY DEF Memory

LEMMA StatusNames ==
  /\ Live \subseteq Status /\ Open \subseteq Status /\ Visible \subseteq Status
  /\ Open = {"sent", "viewed"} /\ Extending \subseteq LetterAt
  /\ {"pending_approval", "draft", "expired", "withdrawn", "accepted", "declined"} \subseteq Status
  BY DEF Live, Open, Visible, Status, Extending, LetterAt

\* Where Move to stage goes from a status it knows.
LEMMA StageIs ==
  ASSUME NEW a, Rank(a) > 0
  PROVE  Stage(a) \in {"reissue", "replace", "draft", "letter"}
  <1>1. Rank(a) \in 1..5
    BY DEF Rank
  <1> QED
    BY <1>1 DEF Stage
-----------------------------------------------------------------------------
(* The pieces the actions are made of keep the types.                        *)

LEMMA GotoKeeps ==
  ASSUME SelfOK, Known, NEW h \in Handlers, NEW l \in PC, Goto(h, l),
         l \in LetterAt => sub[h] \in Letters,
         l \in Extending => mem[h].was \in Open \cup {"expired"}
  PROVE  SelfOK' /\ Known'
  BY DEF SelfOK, Known, Goto

LEMMA DoneKeeps ==
  ASSUME SelfOK, Known, NEW h \in Handlers, Done(h) \/ Throw(h)
  PROVE  SelfOK' /\ Known'
  BY BlankInMemory DEF SelfOK, Known, Done, Throw, PC, LetterAt, Extending

LEMMA ReturnKeeps ==
  ASSUME SelfOK, Known, NEW h \in Handlers, Return(h)
  PROVE  SelfOK' /\ Known'
  BY DoneKeeps, GotoKeeps DEF Return, PC, LetterAt, Extending

LEMMA ThrowAnswerKeeps ==
  ASSUME SelfOK, Known, NEW h \in Handlers, pc[h] \in LetterAt, ThrowAnswer(h)
  PROVE  SelfOK' /\ Known'
  BY DoneKeeps, GotoKeeps DEF ThrowAnswer, PC, LetterAt, Extending, Known

LEMMA DbStays == DbOK /\ UNCHANGED db => DbOK'
  BY DEF DbOK, db

LEMMA RewriteKeeps ==
  ASSUME letter \in [Letters -> Status], NEW S, NEW from, NEW s \in Status, Rewrite(S, from, s)
  PROVE  letter' \in [Letters -> Status]
  BY DEF Rewrite

LEMMA BeginKeeps ==
  ASSUME TypeInv, NEW h \in Handlers, NEW kind, NEW l \in PC \ LetterAt, NEW n \in BOOLEAN,
         Begin(h, kind, l, n)
  PROVE  TypeInv'
  <1> DEFINE p == \E o \in Letters : letter[o] \in Open /\ past[o]
             m == [app |-> app, was |-> "none", opened |-> FALSE, priced |-> TRUE,
                   past |-> p, notify |-> n]
  <1>1. p \in BOOLEAN /\ app \in AppStatus /\ "none" \in Status
    BY DEF TypeInv, DbOK, Status
  <1> HIDE DEF p
  <1>2. m \in Memory
    BY <1>1, MemoryOf
  <1>3. mem' = [mem EXCEPT ![h] = m] /\ kind \in Calls
    BY DEF Begin, p
  <1> HIDE DEF m
  <1>4. SelfOK'
    BY <1>2, <1>3 DEF TypeInv, SelfOK, Begin
  <1>5. Known'
    BY <1>2, <1>3, StatusNames DEF TypeInv, SelfOK, Known, Begin
  <1> QED
    BY <1>4, <1>5, DbStays DEF TypeInv, Begin

LEMMA ReadKeeps ==
  ASSUME TypeInv, NEW h \in Handlers, NEW o \in Letters, NEW l \in PC, Read(h, o, l),
         l \in Extending => letter[o] \in Open \cup {"expired"}
  PROVE  TypeInv'
  <1> DEFINE m == [app |-> mem[h].app, was |-> letter[o], past |-> past[o],
                   opened |-> opened[o], priced |-> mem[h].priced, notify |-> mem[h].notify]
  <1>1. m \in Memory /\ m.was = letter[o]
    <2>1. mem[h] \in Memory /\ letter[o] \in Status /\ past[o] \in BOOLEAN /\ opened[o] \in BOOLEAN
      BY DEF TypeInv, SelfOK, DbOK
    <2> QED
      BY <2>1, MemoryFields, MemoryOf
  <1>2. mem' = [mem EXCEPT ![h] = m]
    BY DEF Read
  <1> HIDE DEF m
  <1> QED
    BY <1>1, <1>2, DbStays DEF TypeInv, SelfOK, Known, Read
-----------------------------------------------------------------------------
(* One lemma for each group of statements.                                   *)

LEMMA DraftType ==
  ASSUME TypeInv, NEW h \in Handlers, Draft(h)
  PROVE  TypeInv'
  <1> USE DEF TypeInv
  <1>1. CASE ReadLive(h)
    <2>1. DbOK' /\ crashes' = crashes
      BY <1>1, DbStays DEF ReadLive
    <2>2. ASSUME NEW priced \in BOOLEAN, NEW o \in Letters \cup {NoLetter},
                 pc' = [pc EXCEPT ![h] = "write"], sub' = [sub EXCEPT ![h] = o],
                 mem' = [mem EXCEPT ![h] = [@ EXCEPT !.priced = priced]], UNCHANGED call
          PROVE  SelfOK' /\ Known'
      <3> DEFINE m == [mem[h] EXCEPT !.priced = priced]
      <3>1. m \in Memory
        BY HoldFlag DEF SelfOK
      <3>2. mem' = [mem EXCEPT ![h] = m]
        BY <2>2
      <3> HIDE DEF m
      <3> QED
        BY <2>2, <3>1, <3>2 DEF SelfOK, Known, PC, LetterAt, Extending
    <2>3. PICK priced \in BOOLEAN :
            \/ Throw(h)
            \/ \E o \in Letters \cup {NoLetter} :
                 /\ pc' = [pc EXCEPT ![h] = "write"] /\ sub' = [sub EXCEPT ![h] = o]
                 /\ mem' = [mem EXCEPT ![h] = [@ EXCEPT !.priced = priced]] /\ UNCHANGED call
      BY <1>1 DEF ReadLive
    <2> QED
      BY <2>1, <2>2, <2>3, DoneKeeps
  <1>2. CASE Write(h)
    <2>1. ASSUME NEW o \in Letters, WriteLetter(h, o), UNCHANGED <<app, past, opened, answer, owed, sweep, crashes>>
          PROVE  TypeInv'
      <3>1. Drafted(h) \in Status
        BY StatusNames DEF Drafted
      <3>2. DbOK'
        BY <2>1, <3>1 DEF WriteLetter, DbOK
      <3> QED
        BY <2>1, <3>2 DEF WriteLetter, SelfOK, Known, PC, LetterAt, Extending
    <2>2. CASE Throw(h) /\ UNCHANGED letter
      BY <1>2, <2>2, DoneKeeps DEF Write, DbOK
    <2> QED
      BY <1>2, <2>1, <2>2 DEF Write, SelfOK
  <1>3. CASE ToDraft(h) \/ ToQueue(h)
    <2>1. DbOK' /\ crashes' = crashes
      BY <1>3 DEF ToDraft, ToQueue, Commit, Conflict, DbOK, AppStatus
    <2>2. sub[h] \in Letters
      BY <1>3 DEF ToDraft, ToQueue, At, Known, LetterAt
    <2> QED
      BY <1>3, <2>1, <2>2, DoneKeeps, ReturnKeeps, GotoKeeps DEF ToDraft, ToQueue, PC, Extending
  <1> QED
    BY <1>1, <1>2, <1>3 DEF Draft

LEMMA ApproveType ==
  ASSUME TypeInv, NEW h \in Handlers, Approve(h) \/ ReadToView(h) \/ View(h)
  PROVE  TypeInv'
  <1> USE DEF TypeInv
  <1>0. {"send", "view", "announce"} \subseteq PC \ Extending
    BY DEF PC, Extending
  <1>1. CASE ReadToApprove(h)
    <2>1. ASSUME NEW o \in Letters, Read(h, o, "send") PROVE TypeInv'
      BY <1>0, <2>1, ReadKeeps
    <2> QED
      BY <1>1, <2>1, DbStays, DoneKeeps DEF ReadToApprove
  <1>2. CASE ReadToView(h)
    <2>1. ASSUME NEW o \in Letters, Read(h, o, "view") PROVE TypeInv'
      BY <1>0, <2>1, ReadKeeps
    <2> QED
      BY <1>2, <2>1, DbStays, DoneKeeps DEF ReadToView
  <1>3. CASE Check(h)
    <2>1. sub[h] \in Letters
      BY <1>3 DEF Check, At, Known, LetterAt
    <2> QED
      BY <1>0, <1>3, <2>1, DbStays, DoneKeeps, GotoKeeps DEF Check
  <1>4. CASE Send(h)
    <2>1. sub[h] \in Letters
      BY <1>4 DEF Send, At, Known, LetterAt
    <2>2. DbOK' /\ crashes' = crashes
      BY <1>4, RewriteKeeps, StatusNames DEF Send, DbOK, Open
    <2> QED
      BY <1>0, <1>4, <2>1, <2>2, GotoKeeps DEF Send
  <1>5. CASE View(h)
    <2>1. DbOK' /\ crashes' = crashes
      BY <1>5, RewriteKeeps, StatusNames DEF View, DbOK, Open
    <2> QED
      BY <1>5, <2>1, DoneKeeps DEF View
  <1>6. CASE Announce(h)
    <2>1. mem[h].notify \in BOOLEAN
      BY MemoryFields DEF SelfOK
    <2>2. DbOK' /\ crashes' = crashes
      BY <1>6, <2>1 DEF Announce, Commit, Conflict, DbOK, AppStatus
    <2> QED
      BY <1>6, <2>2, DoneKeeps, ReturnKeeps DEF Announce
  <1> QED
    BY <1>1, <1>2, <1>3, <1>4, <1>5, <1>6 DEF Approve

LEMMA EndType ==
  ASSUME TypeInv, NEW h \in Handlers, Lapsing(h) \/ Withdraw(h)
  PROVE  TypeInv'
  <1> USE DEF TypeInv
  <1>0. /\ {"lapse", "expired", "pull", "pulled"} \subseteq PC \ Extending
        /\ pc[h] \in LetterAt => sub[h] \in Letters
    BY DEF PC, Extending, Known
  <1>1. CASE ReadAppToExpire(h)
    <2>1. DbOK' /\ crashes' = crashes
      BY <1>1 DEF ReadAppToExpire, DbOK
    <2> QED
      BY <1>0, <1>1, <2>1, DoneKeeps, GotoKeeps DEF ReadAppToExpire, At, LetterAt
  <1>2. CASE Lapse(h) \/ Pull(h)
    <2>1. DbOK' /\ crashes' = crashes
      BY <1>2, RewriteKeeps, StatusNames DEF Lapse, Pull, DbOK
    <2> QED
      BY <1>0, <1>2, <2>1, GotoKeeps DEF Lapse, Pull, At, LetterAt
  <1>3. CASE Expired(h) \/ Pulled(h)
    <2>1. DbOK' /\ crashes' = crashes
      BY <1>3 DEF Expired, Pulled, Commit, Conflict, DbOK, AppStatus
    <2> QED
      BY <1>3, <2>1, DoneKeeps, ReturnKeeps DEF Expired, Pulled
  <1>4. CASE ReadToWithdraw(h)
    <2>1. ASSUME NEW o \in Letters, Read(h, o, "pull") PROVE TypeInv'
      BY <1>0, <2>1, ReadKeeps
    <2> QED
      BY <1>4, <2>1 DEF ReadToWithdraw
  <1> QED
    BY <1>1, <1>2, <1>3, <1>4 DEF Lapsing, Withdraw

LEMMA AnswerType ==
  ASSUME TypeInv, NEW h \in Handlers, Answer(h)
  PROVE  TypeInv'
  <1> USE DEF TypeInv
  <1>0. /\ {"sign", "refuse", "flip", "bill", "accepted", "cancelBill", "ask", "credit", "settle",
            "openUp", "turnDown", "declined"} \subseteq PC \ Extending
        /\ {"sign", "refuse", "flip", "bill", "accepted", "cancelBill", "ask", "credit", "settle",
            "openUp", "turnDown", "declined"} \subseteq LetterAt
        /\ pc[h] \in LetterAt => sub[h] \in Letters
    BY DEF PC, Extending, Known, LetterAt
  <1>1. CASE ReadToAnswer(h)
    <2>1. ASSUME NEW o \in Letters, NEW l \in {"sign", "refuse"}, Read(h, o, l) PROVE TypeInv'
      BY <1>0, <2>1, ReadKeeps
    <2> QED
      BY <1>1, <2>1, DbStays, DoneKeeps DEF ReadToAnswer
  <1>2. CASE Sign(h) \/ Flip(h) \/ Bill(h) \/ Refuse(h) \/ TurnDown(h)
    <2>1. DbOK' /\ crashes' = crashes
      BY <1>2, StatusNames DEF Sign, Flip, Bill, Refuse, TurnDown, DbOK, Request, Unpaid
    <2> QED
      BY <1>0, <1>2, <2>1, DoneKeeps, ThrowAnswerKeeps, GotoKeeps
         DEF Sign, Flip, Bill, Refuse, TurnDown, At
  <1>3. CASE \/ Accepted(h) \/ CancelBill(h) \/ Ask(h) \/ Credit(h) \/ Settle(h) \/ OpenUp(h)
             \/ Declined(h)
    <2>1. DbOK' /\ crashes' = crashes
      BY <1>3 DEF Accepted, CancelBill, Ask, Credit, Settle, OpenUp, Declined, Commit, Conflict,
         DbOK, AppStatus, Request
    <2> QED
      BY <1>0, <1>3, <2>1, DoneKeeps, ReturnKeeps, ThrowAnswerKeeps, GotoKeeps
         DEF Accepted, CancelBill, Ask, Credit, Settle, OpenUp, Declined, At
  <1> QED
    BY <1>1, <1>2, <1>3 DEF Answer

LEMMA ExtendType ==
  ASSUME TypeInv, NEW h \in Handlers, Extend(h)
  PROVE  TypeInv'
  <1> USE DEF TypeInv
  <1>0. /\ Extending \subseteq PC
        /\ pc[h] \in Extending => sub[h] \in Letters /\ mem[h].was \in Open \cup {"expired"}
        /\ mem[h].past \in BOOLEAN
    BY StatusNames, MemoryFields DEF PC, Extending, Known, SelfOK
  <1>1. CASE ReadToExtend(h)
    <2>1. ASSUME NEW o \in Letters, letter[o] \in Open \cup {"expired"}, Read(h, o, "reopen")
          PROVE  TypeInv'
      BY <1>0, <2>1, ReadKeeps DEF Extending
    <2> QED
      BY <1>1, <2>1, DbStays, DoneKeeps DEF ReadToExtend
  <1>2. CASE Reopen(h) \/ PutBack(h)
    <2>1. Reopening(h) \in Status /\ mem[h].was \in Status
      BY <1>0, <1>2, StatusNames DEF Reopen, PutBack, At, Extending, Reopening
    <2>2. DbOK' /\ crashes' = crashes
      BY <1>0, <1>2, <2>1 DEF Reopen, PutBack, DbOK
    <2> QED
      BY <1>0, <1>2, <2>2, DoneKeeps, GotoKeeps DEF Reopen, PutBack, At, Extending
  <1>3. CASE Reopened(h)
    <2>1. DbOK' /\ crashes' = crashes
      BY <1>3 DEF Reopened, Commit, Conflict, DbOK, AppStatus
    <2> QED
      BY <1>0, <1>3, <2>1, DoneKeeps, GotoKeeps DEF Reopened, At, Extending
  <1> QED
    BY <1>1, <1>2, <1>3 DEF Extend

\* An invocation that goes on at l with the application as it is now.
LEMMA AgainKeeps ==
  ASSUME TypeInv, NEW h \in Handlers, NEW l \in PC \ LetterAt,
         pc' = [pc EXCEPT ![h] = l], mem' = [mem EXCEPT ![h] = [@ EXCEPT !.app = app]],
         sub' = sub \/ sub' = [sub EXCEPT ![h] = NoLetter], UNCHANGED call
  PROVE  SelfOK' /\ Known'
  <1> DEFINE m == [mem[h] EXCEPT !.app = app]
  <1>1. m \in Memory
    BY HoldApp DEF TypeInv, SelfOK, DbOK
  <1>2. mem' = [mem EXCEPT ![h] = m]
    OBVIOUS
  <1> HIDE DEF m
  <1> QED
    BY <1>1, <1>2, StatusNames DEF TypeInv, SelfOK, Known

LEMMA MoveType ==
  ASSUME TypeInv, NEW h \in Handlers, MoveBack(h) \/ MoveOn(h) \/ Leaving(h)
  PROVE  TypeInv'
  <1> USE DEF TypeInv
  <1>0. /\ {"tidyLetters", "tidyBills", "draft", "leaveBills", "leave", "reissue", "replace",
            "letter"} \subseteq PC \ LetterAt
        /\ {"pull", "sign", "rescue"} \subseteq PC \ Extending
        /\ Extending \subseteq LetterAt
    BY StatusNames DEF PC, LetterAt, Extending
  <1>1. CASE Move(h) \/ TidyLetters(h) \/ LeaveLetters(h) \/ LeaveBills(h) \/ Leave(h) \/ Replace(h)
    <2>1. DbOK' /\ crashes' = crashes
      BY <1>1, RewriteKeeps, StatusNames DEF Move, TidyLetters, LeaveLetters, LeaveBills, Leave,
         Replace, Commit, Conflict, CancelBills, DbOK, Request, AppStatus
    <2> QED
      BY <1>0, <1>1, <2>1, DoneKeeps, ReturnKeeps, GotoKeeps DEF Move, TidyLetters, LeaveLetters,
         LeaveBills, Leave, Replace
  <1>2. CASE TidyBills(h)
    <2>1. DbOK' /\ crashes' = crashes
      BY <1>2 DEF TidyBills, CancelBills, DbOK, Request
    <2> QED
      BY <1>0, <1>2, <2>1, DoneKeeps, AgainKeeps DEF TidyBills
  <1>3. CASE Reload(h)
    <2>1. DbOK' /\ crashes' = crashes
      BY <1>3, DbStays DEF Reload
    <2>2. CASE Done(h)
      BY <2>1, <2>2, DoneKeeps
    <2>3. CASE Rank(app) > Rank(mem[h].app) /\ ~Done(h)
      <3>1. Rank(app) > 0
        BY <2>3 DEF Rank
      <3> QED
        BY <1>0, <1>3, <2>1, <2>3, <3>1, StageIs, AgainKeeps DEF Reload
    <2> QED
      BY <1>3, <2>2, <2>3 DEF Reload
  <1>4. CASE Reissue(h) \/ ReadToSign(h)
    <2>1. ASSUME NEW o \in Letters, NEW l \in {"pull", "sign", "rescue"}, Read(h, o, l)
          PROVE  TypeInv'
      BY <1>0, <2>1, ReadKeeps
    <2> QED
      BY <1>4, <2>1, DbStays, DoneKeeps DEF Reissue, ReadToSign
  <1>5. CASE Rescue(h)
    <2>1. sub[h] \in Letters
      BY <1>5 DEF Rescue, At, Known, LetterAt
    <2> QED
      BY <1>0, <1>5, <2>1, DbStays, DoneKeeps, GotoKeeps DEF Rescue
  <1> QED
    BY <1>1, <1>2, <1>3, <1>4, <1>5 DEF MoveBack, MoveOn, Leaving

\* Invocations that begin, and the world.
LEMMA CallType ==
  ASSUME TypeInv, NEW h \in Handlers, Call(h)
  PROVE  TypeInv'
  <1>1. {"draft", "letter", "move", "leaveLetters", "reissue", "replace"} \subseteq PC \ LetterAt
    BY DEF PC, LetterAt
  <1>2. CASE CallMoveOn(h)
    <2>1. Stage(app) \in PC \ LetterAt
      BY <1>1, <1>2, StageIs DEF CallMoveOn
    <2> QED
      BY <1>2, <2>1, BeginKeeps DEF CallMoveOn
  <1>3. CASE ~CallMoveOn(h)
    <2>1. \E kind \in Kinds, l \in PC \ LetterAt, n \in BOOLEAN : Begin(h, kind, l, n)
      BY <1>1, <1>3 DEF Call, CallDraft, CallApprove, CallView, CallWithdraw, CallAnswer,
         CallExtend, CallMoveBack, CallLeave, Kinds
    <2> QED
      BY <2>1, BeginKeeps
  <1> QED
    BY <1>2, <1>3

LEMMA SweepType ==
  ASSUME TypeInv, NEW o \in Letters, NEW h \in Handlers, CallExpire(h, o)
  PROVE  TypeInv'
  <1> DEFINE m == [mem[h] EXCEPT !.past = TRUE]
  <1>1. DbOK' /\ crashes' = crashes
    BY DEF TypeInv, DbOK, CallExpire
  <1>2. m \in Memory
    BY HoldFlag DEF TypeInv, SelfOK
  <1>3. CASE UNCHANGED self
    BY <1>1, <1>3 DEF TypeInv, SelfOK, Known, self
  <1>4. CASE mem' = [mem EXCEPT ![h] = m] /\ ~UNCHANGED self
    <2> HIDE DEF m
    <2>1. /\ call' = [call EXCEPT ![h] = "expire"] /\ "expire" \in Calls
          /\ pc' = [pc EXCEPT ![h] = "readApp"] /\ sub' = [sub EXCEPT ![h] = o]
      BY <1>4 DEF CallExpire
    <2> QED
      BY <1>1, <1>2, <1>4, <2>1 DEF TypeInv, SelfOK, Known, PC, Extending
  <1> QED
    BY <1>3, <1>4 DEF CallExpire

LEMMA WorldType ==
  ASSUME TypeInv, World \/ (\E h \in Handlers : Crash(h)) \/ UNCHANGED vars
  PROVE  TypeInv'
  <1>1. CASE World
    BY <1>1 DEF World, DecideAgain, FamilyPays, TimePasses, TypeInv, DbOK, SelfOK, Known, self,
       AppStatus, Request
  <1>2. ASSUME NEW h \in Handlers, Crash(h) PROVE TypeInv'
    BY <1>2, DbStays, DoneKeeps DEF Crash, TypeInv
  <1>3. CASE UNCHANGED vars
    BY <1>3 DEF vars, TypeInv, DbOK, SelfOK, Known
  <1> QED
    BY <1>1, <1>2, <1>3

LEMMA NextType == TypeInv /\ [Next]_vars => TypeInv'
  BY DraftType, ApproveType, EndType, AnswerType, ExtendType, MoveType, CallType, SweepType,
     WorldType DEF Next, Step, Sweep

LEMMA InitType == Init => TypeInv
  BY BlankInMemory DEF Request, Init, TypeInv, DbOK, SelfOK, Known, AppStatus, Status, PC, LetterAt,
     Extending

\* Every letter has a status its table knows, and every invocation that acts on
\* a letter knows which.
THEOREM TypeCorrect == Spec => []TypeOK
  <1>1. TypeInv => TypeOK
    BY TypeParts DEF TypeInv
  <1> QED
    BY <1>1, InitType, NextType, PTL DEF Spec
-----------------------------------------------------------------------------
(* A letter is answered once.                                                *)

\* An invocation that has written an answer finds it where it wrote it.
AnswerHeld ==
  \A h \in Handlers :
    /\ pc[h] \in {"flip", "bill", "accepted", "ask", "credit"} => answer[sub[h]] = "accepted"
    /\ pc[h] = "turnDown" => answer[sub[h]] = "declined"

AnswerInv == TypeInv /\ AnsweredOnce /\ AnswerHeld

\* No letter comes to be accepted or declined.
Unanswered == \A o \in Letters : letter'[o] \in {"accepted", "declined"} => letter'[o] = letter[o]
NoBill == \A o \in Letters : owed'[o] # "none" => owed[o] # "none"
\* An invocation that is not at a statement which writes an answer.
Away(h) ==
  /\ pc' \in [Handlers -> PC] /\ sub' \in [Handlers -> Letters \cup {NoLetter}]
  /\ \A g \in Handlers \ {h} : pc'[g] = pc[g] /\ sub'[g] = sub[g]
  /\ pc'[h] \notin {"flip", "bill", "accepted", "ask", "credit", "turnDown"}

LEMMA AwayKeeps ==
  ASSUME AnswerInv, NEW h \in Handlers, Away(h), Unanswered, NoBill, UNCHANGED answer
  PROVE  AnsweredOnce' /\ AnswerHeld'
  BY DEF AnswerInv, AnsweredOnce, AnswerHeld, Away, Unanswered, NoBill

LEMMA GoesAway ==
  ASSUME TypeInv, TypeInv', NEW h \in Handlers, NEW l, NEW o,
         l \notin {"flip", "bill", "accepted", "ask", "credit", "turnDown"},
         pc' = [pc EXCEPT ![h] = l], sub' = sub \/ sub' = [sub EXCEPT ![h] = o]
  PROVE  Away(h)
  BY DEF TypeInv, SelfOK, Away

LEMMA SubAway ==
  ASSUME TypeInv, TypeInv', NEW h \in Handlers, NEW l, pc' = [pc EXCEPT ![h] = l],
         l \notin {"flip", "bill", "accepted", "ask", "credit", "turnDown"}, UNCHANGED sub
  PROVE  Away(h)
  BY DEF TypeInv, SelfOK, Away

LEMMA GotoAway ==
  ASSUME TypeInv, TypeInv', NEW h \in Handlers, NEW l, Goto(h, l),
         l \notin {"flip", "bill", "accepted", "ask", "credit", "turnDown"}
  PROVE  Away(h)
  BY DEF TypeInv, SelfOK, Away, Goto

LEMMA DoneAway ==
  ASSUME TypeInv, TypeInv', NEW h \in Handlers, Done(h) \/ Throw(h)
  PROVE  Away(h)
  BY DEF TypeInv, SelfOK, Away, Done, Throw

LEMMA ReturnAway ==
  ASSUME TypeInv, TypeInv', NEW h \in Handlers, Return(h) \/ ThrowAnswer(h)
  PROVE  Away(h)
  BY GotoAway, DoneAway DEF Return, ThrowAnswer

LEMMA ReadAway ==
  ASSUME TypeInv, TypeInv', NEW h \in Handlers, NEW o, NEW l, Read(h, o, l),
         l \notin {"flip", "bill", "accepted", "ask", "credit", "turnDown"}
  PROVE  Away(h) /\ UNCHANGED <<letter, answer, owed>>
  BY DEF TypeInv, SelfOK, Away, Read, db

LEMMA RewriteUnanswered ==
  ASSUME NEW S, NEW from, NEW s \in Status \ {"accepted", "declined"}, Rewrite(S, from, s)
  PROVE  Unanswered
  BY DEF Rewrite, Unanswered

LEMMA SameUnanswered == UNCHANGED letter => Unanswered
  BY DEF Unanswered

LEMMA SameNoBill == UNCHANGED owed => NoBill
  BY DEF NoBill

\* An acceptance signed goes on to its next statement.
LEMMA SignedGoesOn ==
  ASSUME AnswerInv, NEW h \in Handlers, NEW l \in {"bill", "accepted", "ask", "credit"}, Goto(h, l),
         pc[h] \in {"flip", "bill", "accepted", "ask", "credit"}, Unanswered, NoBill, UNCHANGED answer
  PROVE  AnsweredOnce' /\ AnswerHeld'
  BY DEF AnswerInv, AnsweredOnce, AnswerHeld, Unanswered, NoBill, Goto, TypeInv, SelfOK

\* What every step but an answer's own does.
Still(h) == Away(h) /\ Unanswered /\ NoBill /\ UNCHANGED answer

LEMMA DraftStill ==
  ASSUME TypeInv, TypeInv', NEW h \in Handlers, Draft(h)
  PROVE  Still(h)
  <1>1. CASE ReadLive(h)
    <2>1. UNCHANGED <<letter, answer, owed>>
      BY <1>1 DEF ReadLive, db
    <2>2. Away(h)
      <3>1. \/ Throw(h)
            \/ \E o \in Letters \cup {NoLetter} :
                 pc' = [pc EXCEPT ![h] = "write"] /\ sub' = [sub EXCEPT ![h] = o]
        BY <1>1 DEF ReadLive
      <3> QED
        BY <3>1, DoneAway, GoesAway
    <2> QED
      BY <2>1, <2>2, SameUnanswered, SameNoBill DEF Still
  <1>2. CASE Write(h)
    <2>1. UNCHANGED <<answer, owed>>
      BY <1>2 DEF Write
    <2>2. ASSUME NEW o \in Letters, WriteLetter(h, o) PROVE Away(h) /\ Unanswered
      <3>1. Drafted(h) \notin {"accepted", "declined"}
        BY DEF Drafted
      <3>2. Unanswered
        BY <2>2, <3>1 DEF WriteLetter, Unanswered, TypeInv, DbOK
      <3>3. PICK l \in {"toDraft", "toQueue"} : pc' = [pc EXCEPT ![h] = l]
        BY <2>2 DEF WriteLetter
      <3>4. sub' = [sub EXCEPT ![h] = o]
        BY <2>2 DEF WriteLetter
      <3> QED
        BY <3>2, <3>3, <3>4, GoesAway
    <2>3. CASE Throw(h) /\ UNCHANGED letter
      BY <2>1, <2>3, DoneAway, SameUnanswered, SameNoBill DEF Still
    <2>4. sub[h] # NoLetter => sub[h] \in Letters
      BY DEF TypeInv, SelfOK
    <2> QED
      BY <1>2, <2>1, <2>2, <2>3, <2>4, SameNoBill DEF Write, Still
  <1>3. CASE ToDraft(h) \/ ToQueue(h)
    <2>1. UNCHANGED <<letter, answer, owed>>
      BY <1>3 DEF ToDraft, ToQueue
    <2>2. Away(h)
      BY <1>3, GotoAway, DoneAway, ReturnAway DEF ToDraft, ToQueue
    <2> QED
      BY <2>1, <2>2, SameUnanswered, SameNoBill DEF Still
  <1> QED
    BY <1>1, <1>2, <1>3 DEF Draft

LEMMA ApproveStill ==
  ASSUME TypeInv, TypeInv', NEW h \in Handlers, Approve(h) \/ ReadToView(h) \/ View(h)
  PROVE  Still(h)
  <1>1. CASE ReadToApprove(h) \/ ReadToView(h) \/ Check(h) \/ Announce(h)
    <2>1. UNCHANGED <<letter, answer, owed>>
      BY <1>1 DEF ReadToApprove, ReadToView, Check, Announce, Read, db
    <2>2. Away(h)
      BY <1>1, ReadAway, GotoAway, DoneAway, ReturnAway DEF ReadToApprove, ReadToView, Check, Announce
    <2> QED
      BY <2>1, <2>2, SameUnanswered, SameNoBill DEF Still
  <1>2. CASE Send(h) \/ View(h)
    <2>1. Unanswered
      BY <1>2, RewriteUnanswered, StatusNames DEF Send, View, Open
    <2>2. Away(h)
      BY <1>2, GotoAway, DoneAway DEF Send, View
    <2> QED
      BY <1>2, <2>1, <2>2, SameNoBill DEF Send, View, Still
  <1> QED
    BY <1>1, <1>2 DEF Approve

LEMMA EndStill ==
  ASSUME TypeInv, TypeInv', NEW h \in Handlers, Lapsing(h) \/ Withdraw(h)
  PROVE  Still(h)
  <1>1. CASE ReadAppToExpire(h) \/ Expired(h) \/ ReadToWithdraw(h) \/ Pulled(h)
    <2>1. UNCHANGED <<letter, answer, owed>>
      BY <1>1 DEF ReadAppToExpire, Expired, ReadToWithdraw, Pulled, Read, db
    <2>2. Away(h)
      BY <1>1, ReadAway, GotoAway, DoneAway, ReturnAway
         DEF ReadAppToExpire, Expired, ReadToWithdraw, Pulled
    <2> QED
      BY <2>1, <2>2, SameUnanswered, SameNoBill DEF Still
  <1>2. CASE Lapse(h) \/ Pull(h)
    <2>1. Unanswered
      BY <1>2, RewriteUnanswered, StatusNames DEF Lapse, Pull
    <2>2. Away(h)
      BY <1>2, GotoAway DEF Lapse, Pull
    <2> QED
      BY <1>2, <2>1, <2>2, SameNoBill DEF Lapse, Pull, Still
  <1> QED
    BY <1>1, <1>2 DEF Lapsing, Withdraw

LEMMA ExtendStill ==
  ASSUME TypeInv, TypeInv', NEW h \in Handlers, Extend(h)
  PROVE  Still(h)
  <1>1. CASE ReadToExtend(h) \/ Reopened(h)
    <2>1. UNCHANGED <<letter, answer, owed>>
      BY <1>1 DEF ReadToExtend, Reopened, Read, db
    <2>2. Away(h)
      BY <1>1, ReadAway, GotoAway, DoneAway DEF ReadToExtend, Reopened
    <2> QED
      BY <2>1, <2>2, SameUnanswered, SameNoBill DEF Still
  <1>2. CASE Reopen(h) \/ PutBack(h)
    <2>1. mem[h].was \in Open \cup {"expired"}
      BY <1>2 DEF TypeInv, Known, Reopen, PutBack, At, Extending
    <2>2. {mem[h].was, Reopening(h)} \cap {"accepted", "declined"} = {}
      BY <2>1, StatusNames DEF Reopening
    <2>3. Unanswered
      BY <1>2, <2>2 DEF Reopen, PutBack, Unanswered, TypeInv, DbOK
    <2>4. Away(h)
      BY <1>2, GotoAway, DoneAway DEF Reopen, PutBack
    <2> QED
      BY <1>2, <2>3, <2>4, SameNoBill DEF Reopen, PutBack, Still
  <1> QED
    BY <1>1, <1>2 DEF Extend

LEMMA MoveStill ==
  ASSUME TypeInv, TypeInv', NEW h \in Handlers, MoveBack(h) \/ MoveOn(h) \/ Leaving(h)
  PROVE  Still(h)
  <1>0. \A a : Rank(a) > 0 => Stage(a) \notin {"flip", "bill", "accepted", "ask", "credit", "turnDown"}
    BY StageIs
  <1>1. CASE Move(h) \/ Leave(h) \/ Replace(h) \/ Rescue(h)
    <2>1. UNCHANGED <<letter, answer, owed>>
      BY <1>1 DEF Move, Leave, Replace, Rescue, db
    <2>2. Away(h)
      BY <1>1, GotoAway, DoneAway, ReturnAway DEF Move, Leave, Replace, Rescue
    <2> QED
      BY <2>1, <2>2, SameUnanswered, SameNoBill DEF Still
  <1>2. CASE TidyLetters(h) \/ LeaveLetters(h)
    <2>1. Unanswered
      BY <1>2, RewriteUnanswered, StatusNames DEF TidyLetters, LeaveLetters
    <2>2. Away(h)
      BY <1>2, GotoAway DEF TidyLetters, LeaveLetters
    <2> QED
      BY <1>2, <2>1, <2>2, SameNoBill DEF TidyLetters, LeaveLetters, Still
  <1>3. CASE TidyBills(h) \/ LeaveBills(h)
    <2>1. NoBill
      BY <1>3 DEF TidyBills, LeaveBills, CancelBills, NoBill, Unpaid
    <2>2. CASE Done(h) \/ Goto(h, "leave")
      BY <1>3, <2>1, <2>2, DoneAway, GotoAway, SameUnanswered DEF TidyBills, LeaveBills, Still
    <2>3. CASE pc' = [pc EXCEPT ![h] = "draft"] /\ UNCHANGED sub
      <3>1. Away(h)
        BY <2>3, SubAway
      <3> QED
        BY <1>3, <2>1, <3>1, SameUnanswered DEF TidyBills, LeaveBills, Still
    <2> QED
      BY <1>3, <2>2, <2>3 DEF TidyBills, LeaveBills
  <1>4. CASE Reload(h)
    <2>1. UNCHANGED <<letter, answer, owed>>
      BY <1>4 DEF Reload, db
    <2>2. CASE Done(h)
      BY <2>1, <2>2, DoneAway, SameUnanswered, SameNoBill DEF Still
    <2>3. CASE Rank(app) > Rank(mem[h].app) /\ ~Done(h)
      <3>1. Rank(app) > 0
        BY <2>3 DEF Rank
      <3>2. pc' = [pc EXCEPT ![h] = Stage(app)] /\ sub' = [sub EXCEPT ![h] = NoLetter]
        BY <1>4, <2>3 DEF Reload
      <3> QED
        BY <1>0, <2>1, <3>1, <3>2, GoesAway, SameUnanswered, SameNoBill DEF Still
    <2> QED
      BY <1>4, <2>2, <2>3 DEF Reload
  <1>5. CASE Reissue(h) \/ ReadToSign(h)
    <2>1. UNCHANGED <<letter, answer, owed>>
      BY <1>5 DEF Reissue, ReadToSign, Read, db
    <2>2. Away(h)
      BY <1>5, ReadAway, DoneAway DEF Reissue, ReadToSign
    <2> QED
      BY <2>1, <2>2, SameUnanswered, SameNoBill DEF Still
  <1> QED
    BY <1>1, <1>2, <1>3, <1>4, <1>5 DEF MoveBack, MoveOn, Leaving

LEMMA CallStill ==
  ASSUME TypeInv, TypeInv', NEW h \in Handlers,
         Call(h) \/ (\E o \in Letters : CallExpire(h, o)) \/ Crash(h)
  PROVE  Still(h)
  <1>1. CASE Call(h)
    <2>0. \A a : Rank(a) > 0 => Stage(a) \notin {"flip", "bill", "accepted", "ask", "credit", "turnDown"}
      BY StageIs
    <2>1. \E kind \in Kinds, n \in BOOLEAN : \E l : Begin(h, kind, l, n) /\ l \notin {"flip", "bill", "accepted", "ask", "credit", "turnDown"}
      <3>1. CASE CallMoveOn(h)
        BY <2>0, <3>1 DEF CallMoveOn, Kinds
      <3>2. CASE ~CallMoveOn(h)
        <4>1. \E kind \in Kinds, l \in {"draft", "letter", "move", "leaveLetters"}, n \in BOOLEAN :
                Begin(h, kind, l, n)
          BY <1>1, <3>2 DEF Call, CallDraft, CallApprove, CallView, CallWithdraw, CallAnswer,
             CallExtend, CallMoveBack, CallLeave, Kinds
        <4> QED
          BY <4>1
      <3> QED
        BY <3>1, <3>2
    <2>2. PICK l : /\ pc' = [pc EXCEPT ![h] = l] /\ l \notin {"flip", "bill", "accepted", "ask", "credit", "turnDown"}
                   /\ UNCHANGED <<db, sub>>
      BY <2>1 DEF Begin
    <2> QED
      BY <2>2, SubAway, SameUnanswered, SameNoBill DEF Still, db
  <1>2. ASSUME NEW o \in Letters, CallExpire(h, o) PROVE Still(h)
    <2>1. UNCHANGED <<letter, answer, owed>>
      BY <1>2 DEF CallExpire
    <2>2. CASE pc' = [pc EXCEPT ![h] = "readApp"] /\ sub' = [sub EXCEPT ![h] = o]
      BY <2>1, <2>2, GoesAway, SameUnanswered, SameNoBill DEF Still
    <2>3. CASE UNCHANGED self
      <3>1. pc'[h] = "idle"
        BY <1>2, <2>3 DEF CallExpire, At, self
      <3> QED
        BY <2>1, <2>3, <3>1, SameUnanswered, SameNoBill DEF Still, Away, TypeInv, SelfOK, self
    <2> QED
      BY <1>2, <2>2, <2>3 DEF CallExpire
  <1>3. CASE Crash(h)
    BY <1>3, DoneAway, SameUnanswered, SameNoBill DEF Crash, Still, db
  <1> QED
    BY <1>1, <1>2, <1>3

LEMMA AnswerHolds ==
  ASSUME AnswerInv, TypeInv', NEW h \in Handlers, Answer(h)
  PROVE  AnsweredOnce' /\ AnswerHeld'
  <1> USE DEF AnswerInv
  <1>0. pc[h] \in LetterAt => sub[h] \in Letters
    BY DEF TypeInv, Known
  <1>1. CASE ReadToAnswer(h) \/ Accepted(h) \/ Ask(h) \/ Settle(h) \/ OpenUp(h) \/ Declined(h)
    <2>1. UNCHANGED <<letter, answer, owed>>
      BY <1>1 DEF ReadToAnswer, Accepted, Ask, Settle, OpenUp, Declined, Read, db
    <2>2. \/ Away(h)
          \/ (Accepted(h) \/ Ask(h)) /\ (Goto(h, "ask") \/ Goto(h, "credit"))
      BY <1>1, ReadAway, GotoAway, DoneAway, ReturnAway
         DEF ReadToAnswer, Accepted, Ask, Settle, OpenUp, Declined
    <2>3. CASE Away(h)
      BY <2>1, <2>3, AwayKeeps, SameUnanswered, SameNoBill
    <2>4. CASE (Accepted(h) \/ Ask(h)) /\ (Goto(h, "ask") \/ Goto(h, "credit"))
      <3>1. pc[h] \in {"accepted", "ask"}
        BY <2>4 DEF Accepted, Ask, At
      <3> QED
        BY <2>1, <2>4, <3>1, SignedGoesOn, SameUnanswered, SameNoBill
    <2> QED
      BY <2>2, <2>3, <2>4
  <1>2. CASE CancelBill(h)
    <2>1. NoBill
      BY <1>2 DEF CancelBill, NoBill, Unpaid, TypeInv, DbOK
    <2>2. Away(h)
      BY <1>2, ReturnAway DEF CancelBill
    <2> QED
      BY <1>2, <2>1, <2>2, AwayKeeps, SameUnanswered DEF CancelBill
  <1>3. CASE (Sign(h) \/ Refuse(h) \/ Flip(h) \/ Bill(h) \/ TurnDown(h)) /\ UNCHANGED <<letter, answer, owed>>
    <2>1. CASE Away(h)
      BY <1>3, <2>1, AwayKeeps, SameUnanswered, SameNoBill
    <2>2. Away(h)
      <3>1. ThrowAnswer(h) \/ Throw(h)
        BY <1>0, <1>3 DEF Sign, Refuse, Flip, Bill, TurnDown, TypeInv, DbOK, At, LetterAt, Open
      <3> QED
        BY <3>1, ReturnAway, DoneAway
    <2> QED
      BY <2>1, <2>2
  <1>4. CASE Sign(h) /\ answer[sub[h]] = "none"
    <2>1. /\ sub[h] \in Letters /\ answer' = [answer EXCEPT ![sub[h]] = "accepted"]
          /\ Goto(h, "flip") /\ UNCHANGED <<letter, owed>>
      BY <1>0, <1>4 DEF Sign, At, LetterAt
    <2>2. \A o \in Letters : answer[o] # "none" => answer'[o] = answer[o]
      BY <1>4, <2>1 DEF TypeInv, DbOK
    <2>3. AnsweredOnce'
      BY <2>1, <2>2 DEF AnsweredOnce
    <2>4. AnswerHeld'
      BY <1>4, <2>1, <2>2 DEF AnswerHeld, TypeInv, DbOK, SelfOK, Goto
    <2> QED
      BY <2>3, <2>4
  <1>5. CASE Refuse(h) /\ answer[sub[h]] = "none"
    <2>1. /\ sub[h] \in Letters /\ answer' = [answer EXCEPT ![sub[h]] = "declined"]
          /\ Goto(h, "turnDown") /\ UNCHANGED <<letter, owed>>
      BY <1>0, <1>5 DEF Refuse, At, LetterAt
    <2>2. \A o \in Letters : answer[o] # "none" => answer'[o] = answer[o]
      BY <1>5, <2>1 DEF TypeInv, DbOK
    <2>3. AnsweredOnce'
      BY <2>1, <2>2 DEF AnsweredOnce
    <2>4. AnswerHeld'
      BY <1>5, <2>1, <2>2 DEF AnswerHeld, TypeInv, DbOK, SelfOK, Goto
    <2> QED
      BY <2>3, <2>4
  <1>6. CASE (Flip(h) \/ TurnDown(h)) /\ letter[sub[h]] \in Open
    BY <1>0, <1>6 DEF Flip, TurnDown, At, LetterAt, AnsweredOnce, AnswerHeld, TypeInv, DbOK, SelfOK, Goto
  <1>7. CASE \/ Bill(h) /\ ~UNCHANGED owed /\ Goto(h, "accepted")
             \/ Credit(h)
    <2>1. PICK s \in Request : owed' = [owed EXCEPT ![sub[h]] = s]
      BY <1>7 DEF Bill, Credit, Request, Unpaid
    <2>2. /\ sub[h] \in Letters /\ pc[h] \in {"bill", "credit"} /\ UNCHANGED <<letter, answer>>
          /\ Goto(h, "accepted") \/ Goto(h, "settle")
      BY <1>0, <1>7 DEF Bill, Credit, At, LetterAt
    <2>3. answer[sub[h]] = "accepted"
      BY <2>2 DEF AnswerHeld
    <2>4. AnsweredOnce'
      BY <2>1, <2>2, <2>3 DEF AnsweredOnce, TypeInv, DbOK
    <2>5. AnswerHeld'
      BY <2>2, <2>3 DEF AnswerHeld, TypeInv, SelfOK, Goto
    <2> QED
      BY <2>4, <2>5
  <1>8. ASSUME Sign(h) \/ Refuse(h), answer[sub[h]] # "none" PROVE UNCHANGED <<letter, answer, owed>>
    BY <1>8 DEF Sign, Refuse
  <1>9. ASSUME Flip(h) \/ TurnDown(h), letter[sub[h]] \notin Open PROVE UNCHANGED <<letter, answer, owed>>
    BY <1>9 DEF Flip, TurnDown
  <1>10. ASSUME Bill(h)
         PROVE  \/ ~UNCHANGED owed /\ Goto(h, "accepted")
                \/ UNCHANGED <<letter, answer, owed>>
    BY <1>10 DEF Bill
  <1> QED
    BY <1>1, <1>2, <1>3, <1>4, <1>5, <1>6, <1>7, <1>8, <1>9, <1>10 DEF Answer

LEMMA NextAnswer == AnswerInv /\ [Next]_vars => AnswerInv'
  <1> SUFFICES ASSUME AnswerInv, [Next]_vars PROVE AnsweredOnce' /\ AnswerHeld'
    BY NextType DEF AnswerInv
  <1>0. TypeInv /\ TypeInv'
    BY NextType DEF AnswerInv
  <1>1. ASSUME NEW h \in Handlers, Still(h) PROVE AnsweredOnce' /\ AnswerHeld'
    BY <1>1, AwayKeeps DEF Still
  <1>2. ASSUME NEW h \in Handlers, Call(h) \/ Step(h) \/ Crash(h) PROVE AnsweredOnce' /\ AnswerHeld'
    <2>1. CASE Answer(h)
      BY <1>0, <2>1, AnswerHolds
    <2> QED
      BY <1>0, <1>1, <1>2, <2>1, DraftStill, ApproveStill, EndStill, ExtendStill, MoveStill,
         CallStill DEF Step
  <1>3. ASSUME NEW o \in Letters, Sweep(o) PROVE AnsweredOnce' /\ AnswerHeld'
    BY <1>0, <1>1, <1>3, CallStill DEF Sweep
  <1>4. CASE World \/ UNCHANGED vars
    BY <1>4 DEF World, DecideAgain, FamilyPays, TimePasses, vars, self, AnswerInv, AnsweredOnce,
       AnswerHeld, TypeInv, DbOK
  <1> QED
    BY <1>2, <1>3, <1>4 DEF Next

LEMMA InitAnswer == Init => AnswerInv
  BY InitType DEF Init, AnswerInv, AnsweredOnce, AnswerHeld

\* A letter is answered once, whoever signs, drafts over it, withdraws it or
\* moves the child beside the answer, and nothing is asked of a family whose
\* answer on file is not an acceptance.
THEOREM OneAnswer == Spec => []AnsweredOnce
  <1>1. AnswerInv => AnsweredOnce
    BY DEF AnswerInv
  <1> QED
    BY <1>1, InitAnswer, NextAnswer, PTL DEF Spec
-----------------------------------------------------------------------------
(* What the kinds of invocation say of one another.  Drafting, by hand, from *)
(* Move to stage or back at Offer, is taken to be beside nothing else.        *)

Drafting == {"draft", "draftOn", "toOffer"}

\* The kinds of invocation that come to a statement.
KindsAt(l) ==
  CASE l = "idle" -> {"none"}
    [] l \in {"draft", "write", "toDraft", "toQueue", "check"} -> Drafting
    [] l \in {"reissue", "replace"} -> {"draftOn"}
    [] l \in {"reload", "rescue"} -> {"moveOn", "draftOn"}
    [] l \in {"pull", "pulled"} -> {"withdraw", "moveOn", "draftOn"}
    [] l \in {"move", "tidyLetters", "tidyBills"} -> {"toDecision", "toOffer"}
    [] l \in Extending -> {"extend"}
    [] l \in {"leaveLetters", "leaveBills", "leave"} -> {"leave"}
    [] OTHER -> Kinds

\* What an invocation of this kind knew of the application it read.
Read1(kind, a) ==
  /\ kind = "withdraw" => a \in WithdrawFrom
  /\ kind = "extend" => a \in {"offer_sent", "offer_expired"}
  /\ kind = "draftOn" => Rank(a) > 0
  /\ kind = "moveOn" => Rank(a) > 3

AtKind == \A h \in Handlers : call[h] \in KindsAt(pc[h])
Knew   == \A h \in Handlers : Read1(call[h], mem[h].app)
ByItself == \A h, g \in Handlers : call[h] \in Alone /\ g # h => call[g] = "none"

CallInv == TypeInv /\ AtKind /\ Knew /\ ByItself

LEMMA RankIs ==
  ASSUME NEW a
  PROVE  /\ Rank(a) > 0 => a \in { "offer_expired", "offer_declined", "approved", "offer_draft",
                                   "offer_pending_approval", "offer_sent" }
         /\ Rank(a) > 3 => a \in {"offer_pending_approval", "offer_sent"} /\ Stage(a) = "letter"
         /\ Rank(a) \in Nat
  BY DEF Rank, Stage

\* Everything a kind may do next it may be at.
LEMMA KindOf ==
  /\ KindsAt("idle") = {"none"}
  /\ \A l \in {"draft", "write", "toDraft", "toQueue", "check"} : KindsAt(l) = Drafting
  /\ \A l \in {"reissue", "replace"} : KindsAt(l) = {"draftOn"}
  /\ \A l \in {"reload", "rescue"} : KindsAt(l) = {"moveOn", "draftOn"}
  /\ \A l \in {"pull", "pulled"} : KindsAt(l) = {"withdraw", "moveOn", "draftOn"}
  /\ \A l \in {"move", "tidyLetters", "tidyBills"} : KindsAt(l) = {"toDecision", "toOffer"}
  /\ \A l \in {"reopen", "reopened", "putBack"} : KindsAt(l) = {"extend"}
  /\ \A l \in {"leaveLetters", "leaveBills", "leave"} : KindsAt(l) = {"leave"}
  /\ \A l \in { "letter", "send", "announce", "view", "readApp", "lapse", "expired", "sign", "flip",
                "bill", "accepted", "cancelBill", "ask", "credit", "settle", "openUp", "refuse",
                "turnDown", "declined" } : KindsAt(l) = Kinds
  /\ "none" \notin Kinds /\ Drafting \subseteq Kinds
  /\ \A l \in PC : l # "idle" => KindsAt(l) \subseteq Kinds
  BY DEF KindsAt, Extending, PC, Drafting, Kinds

LEMMA GotoKind ==
  ASSUME CallInv, NEW h \in Handlers, NEW l, call[h] \in KindsAt(l), Goto(h, l)
  PROVE  AtKind' /\ Knew' /\ ByItself'
  BY DEF CallInv, TypeInv, SelfOK, AtKind, Knew, ByItself, Goto

LEMMA DoneKind ==
  ASSUME CallInv, NEW h \in Handlers, Done(h) \/ Throw(h)
  PROVE  AtKind' /\ Knew' /\ ByItself'
  <1>1. "none" \notin Alone
    BY CallsAssumption, KindOf
  <1> QED
    BY <1>1, KindOf DEF CallInv, TypeInv, SelfOK, AtKind, Knew, ByItself, Done, Throw, Read1

LEMMA ReturnKind ==
  ASSUME CallInv, NEW h \in Handlers, Return(h) \/ ThrowAnswer(h)
  PROVE  AtKind' /\ Knew' /\ ByItself'
  BY DoneKind, GotoKind, KindOf DEF Return, ThrowAnswer, MovesOn

LEMMA ReadKind ==
  ASSUME CallInv, NEW h \in Handlers, NEW o, NEW l, call[h] \in KindsAt(l), Read(h, o, l)
  PROVE  AtKind' /\ Knew' /\ ByItself'
  <1>1. mem'[h].app = mem[h].app /\ \A g \in Handlers \ {h} : mem'[g] = mem[g]
    BY DEF CallInv, TypeInv, SelfOK, Read
  <1>2. pc' = [pc EXCEPT ![h] = l] /\ call' = call
    BY DEF Read
  <1> QED
    BY <1>1, <1>2 DEF CallInv, TypeInv, SelfOK, AtKind, Knew, ByItself

LEMMA BeginKind ==
  ASSUME CallInv, NEW h \in Handlers, NEW kind, NEW l, NEW n, Begin(h, kind, l, n),
         kind \in KindsAt(l), Read1(kind, app)
  PROVE  AtKind' /\ Knew' /\ ByItself'
  <1>1. mem'[h].app = app /\ \A g \in Handlers \ {h} : mem'[g] = mem[g]
    BY DEF CallInv, TypeInv, SelfOK, Begin
  <1>2. \A g \in Handlers : pc[g] = "idle" => call[g] = "none"
    BY KindOf DEF CallInv, AtKind
  <1>3. /\ pc' = [pc EXCEPT ![h] = l] /\ call' = [call EXCEPT ![h] = kind] /\ pc[h] = "idle"
        /\ kind \in Alone => \A g \in Handlers : pc[g] = "idle"
        /\ \A g \in Handlers : call[g] \notin Alone
    BY DEF Begin, At, Quiet
  <1> QED
    BY <1>1, <1>2, <1>3 DEF CallInv, TypeInv, SelfOK, AtKind, Knew, ByItself

\* An invocation that goes on with the application as it is now.
LEMMA AgainKind ==
  ASSUME CallInv, NEW h \in Handlers, NEW l, call[h] \in KindsAt(l), Read1(call[h], app),
         pc' = [pc EXCEPT ![h] = l], mem' = [mem EXCEPT ![h] = [@ EXCEPT !.app = app]],
         UNCHANGED call
  PROVE  AtKind' /\ Knew' /\ ByItself'
  <1>1. mem'[h].app = app /\ \A g \in Handlers \ {h} : mem'[g] = mem[g]
    <2>1. mem[h] \in Memory
      BY DEF CallInv, TypeInv, SelfOK
    <2> QED
      BY <2>1 DEF CallInv, TypeInv, SelfOK, Memory
  <1> QED
    BY <1>1 DEF CallInv, TypeInv, SelfOK, AtKind, Knew, ByItself

LEMMA DraftKind ==
  ASSUME CallInv, NEW h \in Handlers, Draft(h)
  PROVE  AtKind' /\ Knew' /\ ByItself'
  <1>0. pc[h] \in {"draft", "write", "toDraft", "toQueue"} => call[h] \in Drafting
    BY KindOf DEF CallInv, AtKind
  <1>1. CASE ReadLive(h)
    <2>1. ASSUME NEW b \in BOOLEAN, mem' = [mem EXCEPT ![h] = [@ EXCEPT !.priced = b]],
                 pc' = [pc EXCEPT ![h] = "write"], UNCHANGED call
          PROVE  AtKind' /\ Knew' /\ ByItself'
      <3>1. mem'[h].app = mem[h].app /\ \A g \in Handlers \ {h} : mem'[g] = mem[g]
        <4>1. mem[h] \in Memory
          BY DEF CallInv, TypeInv, SelfOK
        <4> QED
          BY <2>1, <4>1 DEF CallInv, TypeInv, SelfOK, Memory
      <3>2. call[h] \in Drafting
        BY <1>0, <1>1 DEF ReadLive, At
      <3> QED
        BY <2>1, <3>1, <3>2, KindOf DEF CallInv, TypeInv, SelfOK, AtKind, Knew, ByItself
    <2> QED
      BY <1>1, <2>1, DoneKind DEF ReadLive
  <1>2. CASE Write(h)
    <2>1. ASSUME NEW o, WriteLetter(h, o) PROVE AtKind' /\ Knew' /\ ByItself'
      <3>1. PICK l \in {"toDraft", "toQueue"} : pc' = [pc EXCEPT ![h] = l]
        BY <2>1 DEF WriteLetter
      <3>2. UNCHANGED <<call, mem>> /\ call[h] \in Drafting
        BY <1>0, <1>2, <2>1 DEF WriteLetter, Write, At
      <3> QED
        BY <3>1, <3>2, KindOf DEF CallInv, TypeInv, SelfOK, AtKind, Knew, ByItself
    <2> QED
      BY <1>2, <2>1, DoneKind DEF Write
  <1>3. CASE ToDraft(h) \/ ToQueue(h)
    BY <1>0, <1>3, KindOf, GotoKind, DoneKind, ReturnKind DEF ToDraft, ToQueue, At
  <1> QED
    BY <1>1, <1>2, <1>3 DEF Draft

LEMMA OtherKind ==
  ASSUME CallInv, NEW h \in Handlers,
         \/ Approve(h) \/ ReadToView(h) \/ View(h) \/ Lapsing(h) \/ Withdraw(h) \/ Answer(h)
         \/ Extend(h)
  PROVE  AtKind' /\ Knew' /\ ByItself'
  <1>0. pc[h] # "idle" => call[h] \in Kinds
    BY KindOf DEF CallInv, AtKind, TypeInv, SelfOK
  <1>1. pc[h] \in {"reopen", "reopened", "putBack"} => call[h] = "extend"
    BY KindOf DEF CallInv, AtKind
  <1>2. pc[h] \in {"pull", "pulled"} => call[h] \in {"withdraw", "moveOn", "draftOn"}
    BY KindOf DEF CallInv, AtKind
  <1>3. CASE Approve(h) \/ ReadToView(h) \/ View(h)
    BY <1>0, <1>3, KindOf, GotoKind, DoneKind, ReadKind, ReturnKind DEF Approve, ReadToApprove, Check, Send, Announce,
       ReadToView, View, At
  <1>4. CASE Lapsing(h) \/ Withdraw(h)
    BY <1>0, <1>2, <1>4, KindOf, GotoKind, DoneKind, ReadKind, ReturnKind DEF Lapsing, ReadAppToExpire, Lapse, Expired,
       Withdraw, ReadToWithdraw, Pull, Pulled, At
  <1>5. CASE ReadToAnswer(h) \/ Refuse(h) \/ TurnDown(h) \/ Declined(h)
    <2>1. ASSUME NEW o, NEW l \in {"sign", "refuse"}, Read(h, o, l), pc[h] = "letter" PROVE AtKind' /\ Knew' /\ ByItself'
      BY <1>0, <2>1, KindOf, ReadKind
    <2> QED
      BY <1>0, <1>5, <2>1, KindOf, GotoKind, DoneKind DEF ReadToAnswer, Refuse, TurnDown, Declined, At
  <1>6. CASE \/ Sign(h) \/ Flip(h) \/ Bill(h) \/ Accepted(h) \/ CancelBill(h) \/ Ask(h) \/ Credit(h)
             \/ Settle(h) \/ OpenUp(h)
    BY <1>0, <1>6, KindOf, GotoKind, ReturnKind DEF Sign, Flip, Bill, Accepted, CancelBill, Ask, Credit, Settle,
       OpenUp, At
  <1>7. CASE Extend(h)
    BY <1>0, <1>1, <1>7, KindOf, GotoKind, DoneKind, ReadKind DEF Extend, ReadToExtend, Reopen, Reopened, PutBack, At
  <1> QED
    BY <1>3, <1>4, <1>5, <1>6, <1>7 DEF Answer

LEMMA MoveKind ==
  ASSUME CallInv, NEW h \in Handlers, MoveBack(h) \/ MoveOn(h) \/ Leaving(h)
  PROVE  AtKind' /\ Knew' /\ ByItself'
  <1>0. /\ pc[h] \in {"move", "tidyLetters", "tidyBills"} => call[h] \in {"toDecision", "toOffer"}
        /\ pc[h] \in {"reload", "rescue"} => call[h] \in {"moveOn", "draftOn"}
        /\ pc[h] \in {"reissue", "replace"} => call[h] = "draftOn"
        /\ pc[h] \in {"leaveLetters", "leaveBills", "leave"} => call[h] = "leave"
        /\ Read1(call[h], mem[h].app)
    BY KindOf DEF CallInv, AtKind, Knew
  <1>1. CASE Move(h) \/ TidyLetters(h) \/ LeaveLetters(h) \/ LeaveBills(h) \/ Leave(h)
    BY <1>0, <1>1, KindOf, GotoKind, DoneKind DEF Move, TidyLetters, LeaveLetters, LeaveBills, Leave, At
  <1>2. CASE TidyBills(h)
    <2>1. call[h] = "toOffer" => Read1(call[h], app)
      BY DEF Read1
    <2>2. "toOffer" \in KindsAt("draft")
      BY KindOf DEF Drafting
    <2> QED
      BY <1>2, <2>1, <2>2, DoneKind, AgainKind DEF TidyBills
  <1>3. CASE Reload(h)
    <2>1. CASE Done(h)
      BY <2>1, DoneKind
    <2>2. CASE Rank(app) > Rank(mem[h].app) /\ ~Done(h)
      <3>1. Rank(app) \in Nat /\ Rank(mem[h].app) \in Nat
        BY RankIs
      <3>2. Read1(call[h], app)
        BY <1>0, <1>3, <2>2, <3>1 DEF Read1, Reload, At
      <3>3. call[h] \in KindsAt(Stage(app))
        <4>1. call[h] = "moveOn" => Stage(app) = "letter"
          BY <3>2, RankIs DEF Read1
        <4>2. Stage(app) \in {"reissue", "replace", "draft", "letter"}
          BY <2>2, <3>1, StageIs
        <4> QED
          BY <1>0, <1>3, <4>1, <4>2, KindOf DEF Reload, At, Drafting, Kinds
      <3>4. /\ pc' = [pc EXCEPT ![h] = Stage(app)] /\ UNCHANGED call
            /\ mem' = [mem EXCEPT ![h] = [@ EXCEPT !.app = app]]
        BY <1>3, <2>2 DEF Reload
      <3> QED
        BY <3>2, <3>3, <3>4, AgainKind
    <2> QED
      BY <1>3, <2>1, <2>2 DEF Reload
  <1>4. CASE Reissue(h) \/ Replace(h) \/ ReadToSign(h) \/ Rescue(h)
    <2>1. pc[h] = "letter" /\ MovesOn(h) => call[h] \in {"moveOn", "draftOn"}
      BY DEF MovesOn
    <2>2. {"moveOn", "draftOn"} \subseteq Kinds
      BY DEF Kinds
    <2>3. ASSUME NEW o, NEW l \in {"pull", "sign", "rescue"}, Read(h, o, l), call[h] \in {"moveOn", "draftOn"}
          PROVE  AtKind' /\ Knew' /\ ByItself'
      BY <2>2, <2>3, KindOf, ReadKind
    <2> QED
      BY <1>0, <1>4, <2>1, <2>3, KindOf, GotoKind, DoneKind, ReturnKind DEF Reissue, Replace, ReadToSign, Rescue, At
  <1> QED
    BY <1>1, <1>2, <1>3, <1>4 DEF MoveBack, MoveOn, Leaving

LEMMA CallKind ==
  ASSUME CallInv, NEW h \in Handlers, Call(h)
  PROVE  AtKind' /\ Knew' /\ ByItself'
  <1>1. CASE CallMoveOn(h)
    <2>1. Rank(app) > 0 /\ Stage(app) \in {"reissue", "replace", "draft", "letter"}
      BY <1>1, StageIs DEF CallMoveOn
    <2>2. PICK kind \in {"moveOn", "draftOn"} :
            /\ Begin(h, kind, Stage(app), FALSE) /\ (kind = "moveOn" => Rank(app) > 3)
      BY <1>1 DEF CallMoveOn
    <2>3. Read1(kind, app) /\ (kind = "moveOn" => Stage(app) = "letter")
      BY <2>1, <2>2, RankIs DEF Read1
    <2>4. kind \in KindsAt(Stage(app))
      BY <2>1, <2>3, KindOf DEF Drafting, Kinds
    <2> QED
      BY <2>2, <2>3, <2>4, BeginKind
  <1>2. CASE CallDraft(h) \/ CallApprove(h) \/ CallView(h) \/ CallAnswer(h) \/ CallMoveBack(h) \/ CallLeave(h)
    <2>1. PICK kind \in {"draft", "approve", "view", "accept", "decline", "toDecision", "toOffer", "leave"},
               l \in {"draft", "letter", "move", "leaveLetters"}, n \in BOOLEAN :
            /\ Begin(h, kind, l, n) /\ (kind = "draft" <=> l = "draft") /\ (kind = "leave" <=> l = "leaveLetters")
            /\ kind \in {"toDecision", "toOffer"} <=> l = "move"
      BY <1>2 DEF CallDraft, CallApprove, CallView, CallAnswer, CallMoveBack, CallLeave
    <2>2. kind \in KindsAt(l) /\ Read1(kind, app)
      BY <2>1, KindOf DEF Drafting, Kinds, Read1
    <2> QED
      BY <2>1, <2>2, BeginKind
  <1>3. CASE CallWithdraw(h) \/ CallExtend(h)
    <2>1. PICK kind \in {"withdraw", "extend"} : Begin(h, kind, "letter", TRUE) /\ Read1(kind, app)
      BY <1>3 DEF CallWithdraw, CallExtend, Read1
    <2>2. kind \in KindsAt("letter")
      BY KindOf DEF Kinds
    <2> QED
      BY <2>1, <2>2, BeginKind
  <1> QED
    BY <1>1, <1>2, <1>3 DEF Call

LEMMA SweepKind ==
  ASSUME CallInv, NEW h \in Handlers, NEW o \in Letters, CallExpire(h, o)
  PROVE  AtKind' /\ Knew' /\ ByItself'
  <1>1. CASE UNCHANGED self
    BY <1>1 DEF CallInv, self, AtKind, Knew, ByItself
  <1>2. CASE call' = [call EXCEPT ![h] = "expire"] /\ pc' = [pc EXCEPT ![h] = "readApp"]
    <2>1. \A g \in Handlers : pc[g] = "idle" => call[g] = "none"
      BY KindOf DEF CallInv, AtKind
    <2>2. /\ "expire" \in Alone => \A g \in Handlers : pc[g] = "idle"
          /\ \A g \in Handlers : call[g] \notin Alone
          /\ pc[h] = "idle" /\ mem' = [mem EXCEPT ![h] = [@ EXCEPT !.past = TRUE]]
      <3>1. letter[o] \in Open
        BY <1>2 DEF CallExpire, CallInv, TypeInv, SelfOK, At, self
      <3> QED
        BY <3>1 DEF CallExpire, At, Quiet
    <2>3. /\ \A g \in Handlers \ {h} : mem'[g] = mem[g]
          /\ "expire" \in KindsAt("readApp") /\ Read1("expire", mem'[h].app)
      BY <2>2, KindOf DEF CallInv, TypeInv, SelfOK, Kinds, Read1
    <2> QED
      BY <1>2, <2>1, <2>2, <2>3 DEF CallInv, TypeInv, SelfOK, AtKind, Knew, ByItself
  <1> QED
    BY <1>1, <1>2 DEF CallExpire

LEMMA NextCall == CallInv /\ [Next]_vars => CallInv'
  <1> SUFFICES ASSUME CallInv, [Next]_vars PROVE AtKind' /\ Knew' /\ ByItself'
    BY NextType DEF CallInv
  <1>1. ASSUME NEW h \in Handlers, Call(h) \/ Step(h) \/ Crash(h) PROVE AtKind' /\ Knew' /\ ByItself'
    BY <1>1, CallKind, DraftKind, OtherKind, MoveKind, DoneKind DEF Step, Crash
  <1>2. ASSUME NEW o \in Letters, Sweep(o) PROVE AtKind' /\ Knew' /\ ByItself'
    BY <1>2, SweepKind DEF Sweep
  <1>3. CASE World \/ UNCHANGED vars
    BY <1>3 DEF World, DecideAgain, FamilyPays, TimePasses, vars, self, CallInv, AtKind, Knew, ByItself
  <1> QED
    BY <1>1, <1>2, <1>3 DEF Next

LEMMA InitCall == Init => CallInv
  <1>1. "none" \notin Alone
    BY CallsAssumption, KindOf
  <1> QED
    BY <1>1, InitType, KindOf DEF Init, CallInv, AtKind, Knew, ByItself, Read1
-----------------------------------------------------------------------------
(* A family asked to pay has its letter and its request.                     *)

\* The statuses that owe a family its letter and request (Due) and those under
\* which letters and requests may be taken away (Gone); the statements of an
\* answer, and those that stand between the signature and the status.
Due  == {"offer_accepted", "payment_required"}
Gone == {"awaiting_decision", "approved", "paid", "registration_incomplete", "withdrawn"}
Answering == {"flip", "bill", "accepted", "ask", "credit", "cancelBill"}
Taking    == {"flip", "bill", "accepted", "cancelBill"}
Tidying   == {"tidyLetters", "tidyBills"}

Orderly == Drafting \cap Calls \subseteq Alone /\ "leave" \notin Calls

\* An acceptance has a letter of its own, which the family signed.
Mine ==
  \A h, g \in Handlers : g # h /\ {pc[h], pc[g]} \subseteq Answering => sub[g] # sub[h]
Signed == \A h \in Handlers : pc[h] \in Answering => answer[sub[h]] = "accepted"
\* A letter redrafted is one nobody has answered.
Redrafts ==
  \A h \in Handlers : pc[h] = "write" /\ sub[h] # NoLetter => letter[sub[h]] \in Live
\* The move comes first, the tidying after.
Moved ==
  \A h \in Handlers :
    pc[h] \in Tidying => app \in Gone \/ (call[h] = "toOffer" /\ app = "offer_draft")
\* An acceptance on its way has its letter, and its request once it has one.
Going ==
  \A h \in Handlers :
    pc[h] \in {"bill", "accepted", "ask"} /\ app \notin Gone =>
      /\ letter[sub[h]] = "accepted"
      /\ pc[h] # "bill" => owed[sub[h]] \in Unpaid
\* What the family was asked to pay for is not being taken back.
Backs(o, S) ==
  /\ letter[o] = "accepted" /\ owed[o] \in S
  /\ \A h \in Handlers : pc[h] \in Taking => sub[h] # o
Backed == app \in Due => \E o \in Letters : Backs(o, Unpaid \cup {"waived"})

Paper   == Mine /\ Signed /\ Redrafts /\ Moved /\ Going /\ Backed
BillInv == CallInv /\ AnswerInv /\ Paper

\* The statements a step may not come to if it says nothing of bills.
Busy == Answering \cup Tidying \cup {"write", "settle"}
Others(h) ==
  \A g \in Handlers \ {h} : pc'[g] = pc[g] /\ sub'[g] = sub[g] /\ call'[g] = call[g]
Out(h) == Others(h) /\ pc'[h] \notin Busy
\* What everybody else may still rely on after a step of one invocation.
Kept(h) ==
  /\ \A o \in Letters : letter[o] = "accepted" => letter'[o] = "accepted"
  /\ \A o \in Letters : answer[o] = "accepted" => answer'[o] = "accepted"
  /\ UNCHANGED owed
  /\ pc[h] = "idle" => UNCHANGED <<letter, app>>
Aside(h) ==
  \/ UNCHANGED app
  \/ /\ app' \notin Due \cup Gone /\ app \notin Due
     /\ app \in Gone => \A g \in Handlers \ {h} : pc[g] = "idle"
\* A step that goes on to write over a letter has read one nobody answered.
Redrafting(h) ==
  Others(h) /\ pc'[h] = "write" /\ (sub'[h] # NoLetter => letter'[sub'[h]] \in Live)
Passes(h) == (Out(h) \/ Redrafting(h)) /\ Kept(h) /\ Aside(h)

LEMMA ByItselfIs ==
  ASSUME CallInv, Orderly, NEW h \in Handlers, call[h] \in Drafting
  PROVE  \A g \in Handlers \ {h} : pc[g] = "idle"
  <1>1. call[h] \in Alone
    BY KindOf DEF CallInv, TypeInv, SelfOK, Orderly, Drafting
  <1>2. \A g \in Handlers \ {h} : call[g] = "none"
    BY <1>1 DEF CallInv, ByItself
  <1> QED
    BY <1>2, KindOf DEF CallInv, TypeInv, SelfOK, AtKind

LEMMA DraftsAre ==
  ASSUME CallInv, NEW h \in Handlers, pc[h] \in {"draft", "write", "toDraft", "toQueue", "check"}
  PROVE  call[h] \in Drafting
  BY KindOf DEF CallInv, AtKind

LEMMA Idles ==
  ASSUME CallInv, NEW h \in Handlers
  PROVE  pc[h] = "idle" <=> call[h] = "none"
  BY KindOf DEF CallInv, TypeInv, SelfOK, AtKind

LEMMA OutKeeps ==
  ASSUME BillInv, Orderly, NEW h \in Handlers, Passes(h)
  PROVE  Paper'
  <1> USE DEF BillInv, AnswerInv, Paper
  <1>0. \A g \in Handlers \ {h} : pc'[g] = pc[g] /\ sub'[g] = sub[g] /\ call'[g] = call[g]
    BY DEF Passes, Out, Redrafting, Others
  <1>b. Kept(h) /\ Aside(h)
    BY DEF Passes
  <1>a. pc'[h] \notin Busy \ {"write"}
    BY DEF Passes, Out, Redrafting, Busy, Answering, Tidying
  <1>1. Mine' /\ Signed'
    <2>1. \A g \in Handlers : pc[g] \in Answering => sub[g] \in Letters
      BY DEF CallInv, TypeInv, Known, Answering, LetterAt
    <2> QED
      BY <1>0, <1>b, <1>a, <2>1 DEF Mine, Signed, Busy, Answering, Kept
  <1>2. ASSUME NEW g \in Handlers \ {h}, pc[g] = "write" \/ call[g] = "toOffer"
        PROVE  UNCHANGED <<letter, app>>
    <2>1. call[g] \in Drafting
      BY <1>2, DraftsAre DEF Drafting
    <2> QED
      BY <1>b, <2>1, ByItselfIs DEF Kept
  <1>3. Redrafts'
    BY <1>0, <1>2 DEF Redrafts, Passes, Out, Redrafting, Busy
  <1>4. Moved'
    BY <1>0, <1>b, <1>a, <1>2 DEF Moved, Busy, Aside, Tidying
  <1>5. Going'
    <2>1. ASSUME NEW g \in Handlers \ {h}, pc[g] \in {"bill", "accepted", "ask"}, app' \notin Gone
          PROVE  letter'[sub[g]] = "accepted" /\ (pc[g] # "bill" => owed'[sub[g]] \in Unpaid)
      <3>1. sub[g] \in Letters
        BY <2>1 DEF CallInv, TypeInv, Known, LetterAt
      <3>2. app \notin Gone
        BY <1>b, <2>1 DEF Aside
      <3> QED
        BY <1>b, <2>1, <3>1, <3>2 DEF Going, Kept
    <2> QED
      BY <1>0, <1>a, <2>1 DEF Going, Busy, Answering
  <1>6. Backed'
    <2>1. SUFFICES ASSUME app' \in Due PROVE \E o \in Letters : Backs(o, Unpaid \cup {"waived"})'
      BY DEF Backed
    <2>2. app \in Due
      BY <1>b, <2>1 DEF Aside
    <2>3. PICK o \in Letters : Backs(o, Unpaid \cup {"waived"})
      BY <2>2 DEF Backed
    <2>4. Backs(o, Unpaid \cup {"waived"})'
      BY <1>0, <1>b, <1>a, <2>3 DEF Backs, Kept, Busy, Answering, Taking
    <2> QED
      BY <2>4
  <1> QED
    BY <1>1, <1>3, <1>4, <1>5, <1>6

LEMMA BusyIs ==
  Busy = { "flip", "bill", "accepted", "ask", "credit", "cancelBill", "tidyLetters", "tidyBills", "write",
           "settle" }
  BY DEF Busy, Answering, Tidying

LEMMA GotoOut ==
  ASSUME TypeInv, NEW h \in Handlers, NEW l, l \notin Busy, Goto(h, l)
  PROVE  Out(h)
  BY DEF TypeInv, SelfOK, Out, Others, Goto

LEMMA DoneOut ==
  ASSUME TypeInv, NEW h \in Handlers, Done(h) \/ Throw(h)
  PROVE  Out(h)
  BY BusyIs DEF TypeInv, SelfOK, Out, Others, Done, Throw

LEMMA ReturnOut ==
  ASSUME TypeInv, NEW h \in Handlers, Return(h) \/ ThrowAnswer(h)
  PROVE  Out(h)
  BY GotoOut, DoneOut, BusyIs DEF Return, ThrowAnswer

LEMMA ReadOut ==
  ASSUME TypeInv, NEW h \in Handlers, NEW o, NEW l, l \notin Busy, Read(h, o, l)
  PROVE  Out(h) /\ UNCHANGED db
  BY DEF TypeInv, SelfOK, Out, Others, Read

LEMMA BeginOut ==
  ASSUME TypeInv, NEW h \in Handlers, NEW kind, NEW l, NEW n, l \notin Busy, Begin(h, kind, l, n)
  PROVE  Out(h) /\ UNCHANGED db
  BY DEF TypeInv, SelfOK, Out, Others, Begin

\* A step that writes nothing anybody relies on.
LEMMA SameKept ==
  ASSUME NEW h \in Handlers, UNCHANGED <<letter, answer, owed>>, pc[h] # "idle" \/ UNCHANGED app
  PROVE  Kept(h)
  BY DEF Kept

\* One that moves letters the family has not accepted.
LEMMA RewriteKept ==
  ASSUME TypeInv, NEW h \in Handlers, NEW S, NEW from, NEW s, "accepted" \notin from, Rewrite(S, from, s),
         UNCHANGED <<answer, owed>>, pc[h] # "idle"
  PROVE  Kept(h)
  BY DEF Kept, Rewrite

LEMMA DraftOut ==
  ASSUME BillInv, Orderly, NEW h \in Handlers, Draft(h)
  PROVE  Passes(h)
  <1> USE DEF BillInv, CallInv, AnswerInv
  <1>0. pc[h] \in {"draft", "write", "toDraft", "toQueue"} => \A g \in Handlers \ {h} : pc[g] = "idle"
    BY DraftsAre, ByItselfIs
  <1>1. CASE ReadLive(h)
    <2>1. CASE Throw(h)
      <3>1. Out(h) /\ Kept(h) /\ Aside(h)
        BY <1>1, <2>1, DoneOut, SameKept DEF ReadLive, db, At, Aside
      <3> QED
        BY <3>1 DEF Passes
    <2>2. CASE ~Throw(h)
      <3>1. PICK o \in Letters \cup {NoLetter} :
              /\ pc' = [pc EXCEPT ![h] = "write"] /\ sub' = [sub EXCEPT ![h] = o]
              /\ o \in Letters => letter[o] \in Live
        BY <1>1, <2>2, LetterAssumption DEF ReadLive, NoLetter
      <3>2. UNCHANGED db /\ \A g \in Handlers \ {h} : pc[g] = "idle"
        BY <1>0, <1>1 DEF ReadLive, At
      <3>3. UNCHANGED call
        BY <1>1, <2>2 DEF ReadLive
      <3>4. Redrafting(h)
        BY <3>1, <3>2, <3>3 DEF Redrafting, Others, TypeInv, SelfOK, db
      <3>5. Kept(h) /\ Aside(h)
        BY <3>2, <1>1, SameKept DEF ReadLive, At, db, Aside
      <3> QED
        BY <3>4, <3>5 DEF Passes
    <2> QED
      BY <2>1, <2>2
  <1>2. CASE Write(h)
    <2>1. ASSUME NEW o \in Letters, WriteLetter(h, o), letter[o] # "accepted" PROVE Out(h) /\ Kept(h) /\ Aside(h)
      <3>1. PICK l \in {"toDraft", "toQueue"} : pc' = [pc EXCEPT ![h] = l]
        BY <2>1 DEF WriteLetter
      <3>2. Out(h)
        BY <2>1, <3>1, BusyIs DEF WriteLetter, Out, Others, TypeInv, SelfOK
      <3> QED
        BY <1>2, <2>1, <3>2 DEF WriteLetter, Write, Kept, Aside, TypeInv, DbOK, At
    <2>2. CASE Throw(h) /\ UNCHANGED letter
      BY <1>2, <2>2, DoneOut, SameKept DEF Write, At, Aside, Passes
    <2>3. sub[h] # NoLetter => sub[h] \in Letters /\ letter[sub[h]] # "accepted"
      <3>1. "accepted" \notin Live
        BY DEF Live
      <3> QED
        BY <1>2, <3>1 DEF Write, At, Paper, Redrafts, TypeInv, SelfOK
    <2> QED
      BY <1>2, <2>1, <2>2, <2>3 DEF Write, Passes
  <1>3. CASE ToDraft(h) \/ ToQueue(h)
    <2>1. Out(h)
      BY <1>3, BusyIs, GotoOut, DoneOut, ReturnOut DEF ToDraft, ToQueue
    <2>2. Kept(h)
      BY <1>3, SameKept DEF ToDraft, ToQueue, At
    <2>3. Aside(h)
      BY <1>0, <1>3 DEF ToDraft, ToQueue, At, Commit, Conflict, Aside, Due, Gone
    <2> QED
      BY <2>1, <2>2, <2>3 DEF Passes
  <1> QED
    BY <1>1, <1>2, <1>3 DEF Draft

LEMMA ApproveOut ==
  ASSUME BillInv, Orderly, NEW h \in Handlers, Approve(h) \/ ReadToView(h) \/ View(h)
  PROVE  Passes(h)
  <1> USE DEF BillInv, CallInv, AnswerInv
  <1>1. Out(h)
    BY BusyIs, ReadOut, GotoOut, DoneOut, ReturnOut DEF Approve, ReadToApprove, Check, Send, Announce, ReadToView, View
  <1>2. Kept(h)
    <2>1. CASE Send(h) \/ View(h)
      BY <2>1, RewriteKept DEF Send, View, At
    <2>2. CASE ReadToApprove(h) \/ Check(h) \/ Announce(h) \/ ReadToView(h)
      BY <2>2, SameKept DEF ReadToApprove, Check, Announce, ReadToView, Read, db, At
    <2> QED
      BY <2>1, <2>2 DEF Approve
  <1>3. Aside(h)
    BY DEF Approve, ReadToApprove, Check, Send, Announce, ReadToView, View, Read, db, Commit, Conflict, Aside, Due, Gone
  <1> QED
    BY <1>1, <1>2, <1>3 DEF Passes

LEMMA EndOut ==
  ASSUME BillInv, Orderly, NEW h \in Handlers, Lapsing(h) \/ Withdraw(h)
  PROVE  Passes(h)
  <1> USE DEF BillInv, CallInv, AnswerInv
  <1>1. Out(h)
    BY BusyIs, ReadOut, GotoOut, DoneOut, ReturnOut DEF Lapsing, ReadAppToExpire, Lapse, Expired, Withdraw,
       ReadToWithdraw, Pull, Pulled
  <1>2. Kept(h)
    <2>1. CASE Lapse(h) \/ Pull(h)
      BY <2>1, RewriteKept DEF Lapse, Pull, At, Open, Live
    <2>2. CASE ReadAppToExpire(h) \/ Expired(h) \/ ReadToWithdraw(h) \/ Pulled(h)
      BY <2>2, SameKept DEF ReadAppToExpire, Expired, ReadToWithdraw, Pulled, Read, db, At
    <2> QED
      BY <2>1, <2>2 DEF Lapsing, Withdraw
  <1>3. Aside(h)
    <2>1. CASE Pulled(h)
      <3>1. call[h] \in {"withdraw", "moveOn", "draftOn"} /\ Read1(call[h], mem[h].app)
        BY <2>1, KindOf DEF Pulled, At, AtKind, Knew
      <3>2. /\ mem[h].app \notin Due
            /\ mem[h].app \in Gone => call[h] = "draftOn"
        BY <3>1, RankIs DEF Read1, WithdrawFrom, Due, Gone
      <3>3. call[h] = "draftOn" => \A g \in Handlers \ {h} : pc[g] = "idle"
        BY ByItselfIs DEF Drafting
      <3> QED
        BY <2>1, <3>2, <3>3 DEF Pulled, Commit, Conflict, Aside, Due, Gone
    <2>2. CASE ~Pulled(h)
      BY <2>2 DEF Lapsing, ReadAppToExpire, Lapse, Expired, Withdraw, ReadToWithdraw, Pull, Read, db, Commit,
         Conflict, Aside, Due, Gone
    <2> QED
      BY <2>1, <2>2
  <1> QED
    BY <1>1, <1>2, <1>3 DEF Passes

LEMMA ExtendOut ==
  ASSUME BillInv, Orderly, NEW h \in Handlers, Extend(h)
  PROVE  Passes(h)
  <1> USE DEF BillInv, CallInv, AnswerInv
  <1>1. Out(h)
    BY BusyIs, ReadOut, GotoOut, DoneOut DEF Extend, ReadToExtend, Reopen, Reopened, PutBack
  <1>2. Kept(h)
    <2>1. CASE Reopen(h) \/ PutBack(h)
      <3>1. sub[h] \in Letters /\ mem[h].was \in Open \cup {"expired"}
        BY <2>1, StatusNames DEF TypeInv, Known, Reopen, PutBack, At, Extending
      <3>2. mem[h].was # "accepted" /\ Reopening(h) # "accepted"
        BY <3>1, StatusNames DEF Reopening
      <3> QED
        BY <2>1, <3>1, <3>2 DEF Reopen, PutBack, At, Kept, TypeInv, DbOK
    <2>2. CASE ReadToExtend(h) \/ Reopened(h)
      BY <2>2, SameKept DEF ReadToExtend, Reopened, Read, db, At
    <2> QED
      BY <2>1, <2>2 DEF Extend
  <1>3. Aside(h)
    <2>1. CASE Reopened(h)
      <3>1. call[h] = "extend" /\ Read1(call[h], mem[h].app)
        BY <2>1, KindOf DEF Reopened, At, AtKind, Knew
      <3> QED
        BY <2>1, <3>1 DEF Reopened, Commit, Conflict, Aside, Due, Gone, Read1
    <2>2. CASE ~Reopened(h)
      BY <2>2 DEF Extend, ReadToExtend, Reopen, PutBack, Read, db, Aside
    <2> QED
      BY <2>1, <2>2
  <1> QED
    BY <1>1, <1>2, <1>3 DEF Passes

\* Move to stage, and moves back until they commit.
LEMMA MoveOnOut ==
  ASSUME BillInv, Orderly, NEW h \in Handlers, MoveOn(h) \/ (Move(h) /\ Conflict(mem[h].app) /\ Throw(h))
  PROVE  Passes(h)
  <1> USE DEF BillInv, CallInv, AnswerInv
  <1>1. Out(h)
    <2>1. CASE Reload(h)
      <3>1. CASE Done(h)
        BY <3>1, DoneOut
      <3>2. CASE Rank(app) > Rank(mem[h].app) /\ ~Done(h)
        <4>1. Stage(app) \in {"reissue", "replace", "draft", "letter"}
          BY <3>2, StageIs, RankIs
        <4>2. /\ pc' = [pc EXCEPT ![h] = Stage(app)] /\ sub' = [sub EXCEPT ![h] = NoLetter]
              /\ UNCHANGED call
          BY <2>1, <3>2 DEF Reload
        <4> QED
          BY <4>1, <4>2, BusyIs DEF Out, Others, TypeInv, SelfOK
      <3> QED
        BY <2>1, <3>1, <3>2 DEF Reload
    <2>2. CASE Reissue(h) \/ Replace(h) \/ ReadToSign(h) \/ Rescue(h) \/ Throw(h)
      BY <2>2, BusyIs, ReadOut, GotoOut, DoneOut, ReturnOut DEF Reissue, Replace, ReadToSign, Rescue
    <2> QED
      BY <2>1, <2>2 DEF MoveOn
  <1>2. Kept(h)
    BY SameKept DEF MoveOn, Move, Reload, Reissue, Replace, ReadToSign, Rescue, Read, db, At
  <1>3. Aside(h)
    BY DEF MoveOn, Move, Reload, Reissue, Replace, ReadToSign, Rescue, Read, db, Commit, Conflict,
        Aside, Due, Gone
  <1> QED
    BY <1>1, <1>2, <1>3 DEF Passes

\* A move back commits first and tidies after.
LEMMA MovePaper ==
  ASSUME BillInv, Orderly, NEW h \in Handlers, MoveBack(h) \/ MoveOn(h) \/ Leaving(h)
  PROVE  Paper'
  <1> USE DEF BillInv, CallInv, AnswerInv
  <1>0. pc[h] \notin {"leaveLetters", "leaveBills", "leave"}
    BY KindOf DEF AtKind, Orderly, TypeInv, SelfOK
  <1>1. CASE MoveOn(h) \/ (Move(h) /\ Conflict(mem[h].app) /\ Throw(h))
    BY <1>1, MoveOnOut, OutKeeps
  <1>2. CASE /\ Move(h) /\ Goto(h, "tidyLetters")
             /\ app' = IF call[h] = "toOffer" THEN "offer_draft" ELSE "awaiting_decision"
    <2>1. /\ pc[h] = "move" /\ UNCHANGED <<letter, owed, answer>> /\ Goto(h, "tidyLetters")
          /\ app' = IF call[h] = "toOffer" THEN "offer_draft" ELSE "awaiting_decision"
      BY <1>2 DEF Move, At, Commit
    <2>2. call[h] = "toOffer" => \A g \in Handlers \ {h} : pc[g] = "idle"
      BY ByItselfIs DEF Drafting
    <2>3. /\ pc'[h] = "tidyLetters" /\ sub' = sub /\ call' = call
          /\ \A g \in Handlers \ {h} : pc'[g] = pc[g]
      BY <2>1 DEF Goto, TypeInv, SelfOK
    <2>4. Mine' /\ Signed' /\ Redrafts'
      BY <2>1, <2>3 DEF Paper, Mine, Signed, Redrafts, Answering
    <2>5. Moved' /\ Going' /\ Backed'
      BY <2>1, <2>2, <2>3 DEF Paper, Moved, Going, Backed, Tidying, Gone, Due
    <2> QED
      BY <2>4, <2>5 DEF Paper
  <1>3. CASE TidyLetters(h) \/ TidyBills(h)
    <2>1. pc[h] \in Tidying /\ UNCHANGED <<app, answer>>
      BY <1>3 DEF TidyLetters, TidyBills, Tidying, At
    <2>2. app \in Gone \/ (call[h] = "toOffer" /\ app = "offer_draft")
      BY <2>1 DEF Paper, Moved
    <2>3. call[h] = "toOffer" => \A g \in Handlers \ {h} : pc[g] = "idle"
      BY ByItselfIs DEF Drafting
    <2>4. Others(h) /\ pc'[h] \in {"tidyBills", "draft", "idle"} /\ (pc'[h] = "tidyBills" => call' = call)
      BY <1>3 DEF TidyLetters, TidyBills, Goto, Done, Others, TypeInv, SelfOK
    <2>5. ASSUME NEW g \in Handlers PROVE pc'[g] # "write"
      <3>1. g # h => pc[g] # "write"
        <4>1. ASSUME g # h, pc[g] = "write" PROVE FALSE
          <5>1. pc[h] = "idle"
            BY <4>1, DraftsAre, ByItselfIs
          <5> QED
            BY <2>1, <5>1 DEF Tidying
        <4> QED
          BY <4>1
      <3> QED
        BY <2>4, <3>1 DEF Others
    <2>6. Mine' /\ Signed' /\ Redrafts'
      BY <2>1, <2>4, <2>5 DEF Paper, Mine, Signed, Redrafts, Answering, Others
    <2>7. Moved'
      BY <2>1, <2>2, <2>3, <2>4 DEF Paper, Moved, Tidying, Others
    <2>8. Going' /\ Backed'
      BY <2>1, <2>2, <2>3, <2>4 DEF Going, Backed, Due, Gone, Others
    <2> QED
      BY <2>6, <2>7, <2>8 DEF Paper
  <1>4. ASSUME LeaveLetters(h) \/ LeaveBills(h) \/ Leave(h) PROVE FALSE
    BY <1>0, <1>4 DEF LeaveLetters, LeaveBills, Leave, At
  <1> QED
    BY <1>1, <1>2, <1>3, <1>4 DEF MoveBack, Leaving, Move, Commit

LEMMA CallOut ==
  ASSUME BillInv, Orderly, NEW h \in Handlers,
         Call(h) \/ (\E o \in Letters : CallExpire(h, o)) \/ Crash(h)
  PROVE  Passes(h)
  <1> USE DEF BillInv, CallInv, AnswerInv
  <1>1. CASE Call(h)
    <2>1. \E kind \in Kinds, n \in BOOLEAN, l \in {"draft", "letter", "move", "leaveLetters", "reissue", "replace"} :
            Begin(h, kind, l, n)
      <3>1. CASE CallMoveOn(h)
        BY <3>1, StageIs DEF CallMoveOn, Kinds
      <3>2. CASE ~CallMoveOn(h)
        BY <1>1, <3>2 DEF Call, CallDraft, CallApprove, CallView, CallWithdraw, CallAnswer,
           CallExtend, CallMoveBack, CallLeave, Kinds
      <3> QED
        BY <3>1, <3>2
    <2>2. Out(h) /\ UNCHANGED db
      BY <2>1, BeginOut, BusyIs
    <2> QED
      BY <2>2, SameKept DEF db, Aside, Passes
  <1>2. ASSUME NEW o \in Letters, CallExpire(h, o) PROVE Passes(h)
    <2>1. UNCHANGED <<app, letter, answer, owed>>
      BY <1>2 DEF CallExpire
    <2>2. Out(h)
      BY <1>2, BusyIs DEF CallExpire, Out, Others, At, self, TypeInv, SelfOK
    <2> QED
      BY <2>1, <2>2, SameKept DEF Aside, Passes
  <1>3. CASE Crash(h)
    BY <1>3, DoneOut, SameKept DEF Crash, db, Aside, At, Passes
  <1> QED
    BY <1>1, <1>2, <1>3

\* Nothing is asked of a family whose application has gone elsewhere.
LEMMA GoneKeeps ==
  ASSUME BillInv, app' \in Gone, UNCHANGED <<letter, answer>>,
         \A g \in Handlers : pc'[g] \notin Busy \/ (pc'[g] = pc[g] /\ sub'[g] = sub[g])
  PROVE  Paper'
  <1>1. Mine' /\ Signed'
    BY DEF BillInv, Paper, Mine, Signed, Busy
  <1>2. Redrafts'
    BY DEF BillInv, Paper, Redrafts, Busy
  <1>3. Moved' /\ Going' /\ Backed'
    BY DEF Moved, Going, Backed, Gone, Due
  <1> QED
    BY <1>1, <1>2, <1>3 DEF Paper

\* An acceptance that goes on: what the others rely on is theirs.
LEMMA AnswerOn ==
  ASSUME BillInv, NEW h \in Handlers, NEW l \in Answering \cup {"settle"}, pc[h] \in Answering \cup {"sign"},
         Goto(h, l), \A o \in Letters : answer[o] = "accepted" => answer'[o] = "accepted",
         answer'[sub[h]] = "accepted", pc[h] = "sign" => answer[sub[h]] = "none", Orderly
  PROVE  /\ Mine' /\ Signed' /\ sub' = sub /\ call' = call /\ pc'[h] = l /\ sub[h] \in Letters
         /\ \A g \in Handlers \ {h} : pc'[g] = pc[g] /\ pc[g] # "write"
         /\ \A g \in Handlers \ {h} : pc[g] \in Answering => sub[g] # sub[h] /\ sub[g] \in Letters
  <1> USE DEF BillInv, CallInv, AnswerInv
  <1>1. /\ sub' = sub /\ call' = call /\ pc'[h] = l
        /\ \A g \in Handlers \ {h} : pc'[g] = pc[g]
    BY DEF Goto, TypeInv, SelfOK
  <1>2. \A g \in Handlers : pc[g] \in Answering \cup {"sign"} => sub[g] \in Letters
    BY DEF TypeInv, Known, Answering, LetterAt
  <1>3. \A g \in Handlers \ {h} : pc[g] \in Answering => sub[g] # sub[h]
    BY DEF Paper, Mine, Signed
  <1>4. Mine' /\ Signed'
    BY <1>1, <1>2, <1>3 DEF Paper, Mine, Signed
  <1>5. ASSUME NEW g \in Handlers \ {h}, pc[g] = "write" PROVE FALSE
    <2>1. pc[h] = "idle"
      BY <1>5, DraftsAre, ByItselfIs
    <2> QED
      BY <2>1 DEF Answering
  <1> QED
    BY <1>1, <1>2, <1>3, <1>4, <1>5

\* An answer's statements that say nothing of bills, and those refused.
Refused(h) ==
  /\ Sign(h) \/ Flip(h) \/ Bill(h) \/ Ask(h) \/ Settle(h) \/ OpenUp(h)
  /\ ThrowAnswer(h) \/ Return(h)
  /\ UNCHANGED <<app, letter, owed, answer>>

LEMMA AnswerOut ==
  ASSUME BillInv, Orderly, NEW h \in Handlers,
         ReadToAnswer(h) \/ Refuse(h) \/ TurnDown(h) \/ Declined(h) \/ Refused(h)
  PROVE  Passes(h)
  <1> USE DEF BillInv, CallInv, AnswerInv
  <1>0. \A l \in {"reload", "rescue", "idle", "turnDown", "declined", "openUp", "sign", "refuse"} : l \notin Busy
    BY BusyIs
  <1>1. CASE ReadToAnswer(h) \/ Refuse(h) \/ TurnDown(h) \/ Declined(h)
    <2>1. Out(h)
      BY <1>0, <1>1, ReadOut, GotoOut, DoneOut DEF ReadToAnswer, Refuse, TurnDown, Declined
    <2>2. Kept(h)
      BY <1>1 DEF ReadToAnswer, Refuse, TurnDown, Declined, Read, db, At, Kept, TypeInv, DbOK, Open
    <2>3. Aside(h)
      BY <1>1 DEF ReadToAnswer, Refuse, TurnDown, Declined, Read, db, Commit, Conflict, Aside, Due, Gone
    <2> QED
      BY <2>1, <2>2, <2>3 DEF Passes
  <1>2. CASE Refused(h)
    <2>1. Out(h) /\ Kept(h) /\ Aside(h)
      BY <1>2, ReturnOut, SameKept DEF Refused, Sign, Flip, Bill, Ask, Settle, OpenUp, At, Aside
    <2> QED
      BY <2>1 DEF Passes
  <1> QED
    BY <1>1, <1>2

LEMMA AnswerPaper ==
  ASSUME BillInv, Orderly, NEW h \in Handlers, Answer(h)
  PROVE  Paper'
  <1> USE DEF BillInv, CallInv, AnswerInv
  <1>0. \A l \in {"reload", "rescue", "idle", "turnDown", "declined", "openUp", "sign", "refuse"} : l \notin Busy
    BY BusyIs
  <1>1. CASE ReadToAnswer(h) \/ Refuse(h) \/ TurnDown(h) \/ Declined(h) \/ Refused(h)
    BY <1>1, AnswerOut, OutKeeps
  <1>3. CASE /\ Settle(h) \/ OpenUp(h)
             /\ Goto(h, "openUp") \/ Return(h)
             /\ app' \in Gone
    <2>1. Out(h)
      BY <1>0, <1>3, GotoOut, ReturnOut
    <2> QED
      BY <1>3, <2>1, GoneKeeps DEF Settle, OpenUp, Out, Others
  <1>4. CASE Sign(h) /\ answer[sub[h]] = "none"
    <2>1. /\ pc[h] = "sign" /\ Goto(h, "flip") /\ answer' = [answer EXCEPT ![sub[h]] = "accepted"]
          /\ UNCHANGED <<app, letter, owed>>
      BY <1>4 DEF Sign, At
    <2>2. sub[h] \in Letters
      BY <2>1 DEF TypeInv, Known, LetterAt
    <2>3. /\ \A o \in Letters : answer[o] = "accepted" => answer'[o] = "accepted"
          /\ answer'[sub[h]] = "accepted"
      BY <2>1, <2>2 DEF TypeInv, DbOK
    <2>4. /\ Mine' /\ Signed' /\ sub' = sub /\ call' = call /\ pc'[h] = "flip"
          /\ \A g \in Handlers \ {h} : pc'[g] = pc[g] /\ pc[g] # "write"
      BY <1>4, <2>1, <2>3, AnswerOn DEF Answering
    <2>5. Redrafts' /\ Moved' /\ Going'
      BY <2>1, <2>4 DEF Paper, Redrafts, Moved, Going, Tidying
    <2>6. Backed'
      BY <1>4, <2>1, <2>4 DEF Paper, Backed, Backs, Taking, AnsweredOnce
    <2> QED
      BY <2>4, <2>5, <2>6 DEF Paper
  <1>5. CASE Flip(h) /\ letter[sub[h]] \in Open
    <2>1. /\ pc[h] = "flip" /\ Goto(h, "bill") /\ letter' = [letter EXCEPT ![sub[h]] = "accepted"]
          /\ UNCHANGED <<app, answer, owed>>
      BY <1>5 DEF Flip, At
    <2>2. answer[sub[h]] = "accepted"
      BY <2>1 DEF Paper, Signed, Answering
    <2>3. /\ Mine' /\ Signed' /\ sub' = sub /\ call' = call /\ pc'[h] = "bill" /\ sub[h] \in Letters
          /\ \A g \in Handlers \ {h} : pc'[g] = pc[g] /\ pc[g] # "write"
          /\ \A g \in Handlers \ {h} : pc[g] \in Answering => sub[g] # sub[h] /\ sub[g] \in Letters
      BY <2>1, <2>2, AnswerOn DEF Answering
    <2>4. Redrafts' /\ Moved' /\ Going'
      BY <2>1, <2>3 DEF Paper, Redrafts, Moved, Going, Tidying, Answering, TypeInv, DbOK
    <2>5. Backed'
      BY <2>1, <2>3 DEF Paper, Backed, Backs, Taking, TypeInv, DbOK
    <2> QED
      BY <2>3, <2>4, <2>5 DEF Paper
  <1>6. CASE Bill(h) /\ Goto(h, "accepted") /\ \E bill \in Unpaid : owed' = [owed EXCEPT ![sub[h]] = bill]
    <2>1. PICK bill \in Unpaid : owed' = [owed EXCEPT ![sub[h]] = bill]
      BY <1>6
    <2>2. /\ pc[h] = "bill" /\ Goto(h, "accepted") /\ UNCHANGED <<app, answer, letter>>
      BY <1>6 DEF Bill, At
    <2>3. answer[sub[h]] = "accepted"
      BY <2>2 DEF Paper, Signed, Answering
    <2>4. /\ Mine' /\ Signed' /\ sub' = sub /\ call' = call /\ pc'[h] = "accepted" /\ sub[h] \in Letters
          /\ \A g \in Handlers \ {h} : pc'[g] = pc[g] /\ pc[g] # "write"
          /\ \A g \in Handlers \ {h} : pc[g] \in Answering => sub[g] # sub[h] /\ sub[g] \in Letters
      BY <2>2, <2>3, AnswerOn DEF Answering
    <2>5. Redrafts' /\ Moved' /\ Going'
      BY <2>1, <2>2, <2>4 DEF Paper, Redrafts, Moved, Going, Tidying, Answering, TypeInv, DbOK
    <2>6. Backed'
      BY <2>1, <2>2, <2>4 DEF Paper, Backed, Backs, Taking, TypeInv, DbOK
    <2> QED
      BY <2>4, <2>5, <2>6 DEF Paper
  <1>7. CASE Accepted(h)
    <2>1. pc[h] = "accepted" /\ UNCHANGED <<answer, letter, owed>>
      BY <1>7 DEF Accepted, At
    <2>2. PICK l \in {"ask", "cancelBill"} :
            /\ Goto(h, l) /\ (l = "cancelBill" => UNCHANGED app)
            /\ l = "ask" => app = "offer_sent" /\ app' = "offer_accepted"
      BY <1>7 DEF Accepted, Commit, Conflict
    <2>3. answer[sub[h]] = "accepted"
      BY <2>1 DEF Paper, Signed, Answering
    <2>4. /\ Mine' /\ Signed' /\ sub' = sub /\ call' = call /\ pc'[h] = l /\ sub[h] \in Letters
          /\ \A g \in Handlers \ {h} : pc'[g] = pc[g] /\ pc[g] # "write"
          /\ \A g \in Handlers \ {h} : pc[g] \in Answering => sub[g] # sub[h] /\ sub[g] \in Letters
      BY <2>1, <2>2, <2>3, AnswerOn DEF Answering
    <2>5. Redrafts' /\ Moved'
      BY <2>1, <2>2, <2>4 DEF Paper, Redrafts, Moved, Tidying, Gone
    <2>6. Going'
      BY <2>1, <2>2, <2>4 DEF Paper, Going, Gone
    <2>7. CASE l = "cancelBill"
      <3>1. Backed'
        BY <2>1, <2>2, <2>4, <2>7 DEF Paper, Backed, Backs, Taking
      <3> QED
        BY <2>4, <2>5, <2>6, <3>1 DEF Paper
    <2>8. CASE l = "ask"
      <3>1. letter[sub[h]] = "accepted" /\ owed[sub[h]] \in Unpaid
        BY <2>1, <2>2, <2>8 DEF Paper, Going, Gone
      <3>2. Backs(sub[h], Unpaid \cup {"waived"})'
        BY <2>1, <2>4, <2>8, <3>1 DEF Backs, Taking, Answering
      <3>3. Backed'
        BY <2>4, <3>2 DEF Backed
      <3> QED
        BY <2>4, <2>5, <2>6, <3>3 DEF Paper
    <2> QED
      BY <2>7, <2>8
  <1>8. CASE CancelBill(h)
    <2>1. pc[h] = "cancelBill" /\ UNCHANGED <<app, answer, letter>> /\ Out(h)
      BY <1>8, ReturnOut DEF CancelBill, At
    <2>2. \A o \in Letters \ {sub[h]} : owed'[o] = owed[o]
      BY <1>8 DEF CancelBill, TypeInv, DbOK
    <2>3. \A g \in Handlers \ {h} : pc[g] \in Answering => sub[g] # sub[h] /\ sub[g] \in Letters
      BY <2>1 DEF Paper, Mine, Answering, TypeInv, Known, LetterAt
    <2>4. \A g \in Handlers \ {h} : pc'[g] = pc[g] /\ sub'[g] = sub[g] /\ call'[g] = call[g]
      BY <2>1 DEF Out, Others
    <2>5. Mine' /\ Signed'
      BY <2>1, <2>4 DEF Paper, Mine, Signed, Out, Busy
    <2>6. Redrafts' /\ Moved' /\ Going'
      BY <2>1, <2>2, <2>3, <2>4, BusyIs DEF Paper, Redrafts, Moved, Going, Out, Tidying, Answering
    <2>7. Backed'
      BY <2>1, <2>2, <2>4, BusyIs DEF Paper, Backed, Backs, Taking, Out
    <2> QED
      BY <2>5, <2>6, <2>7 DEF Paper
  <1>9. CASE Ask(h) /\ app = "offer_accepted" /\ app' = "payment_required"
    <2>1. pc[h] = "ask" /\ UNCHANGED <<answer, letter, owed>>
      BY <1>9 DEF Ask, At
    <2>2. Others(h) /\ (pc'[h] \notin Busy \/ (pc'[h] = "credit" /\ sub'[h] = sub[h]))
      <3>1. CASE Return(h) \/ ThrowAnswer(h)
        BY <3>1, ReturnOut DEF Out
      <3>2. CASE Goto(h, "credit")
        BY <3>2 DEF Goto, Others, TypeInv, SelfOK
      <3> QED
        BY <1>9, <3>1, <3>2 DEF Ask
    <2>3. \A g \in Handlers \ {h} : pc'[g] = pc[g] /\ sub'[g] = sub[g] /\ call'[g] = call[g]
      BY <2>2 DEF Others
    <2>4. Mine' /\ Signed'
      BY <2>1, <2>2, <2>3 DEF Paper, Mine, Signed, Busy, Answering
    <2>5. Redrafts' /\ Moved' /\ Going'
      BY <1>9, <2>1, <2>2, <2>3, BusyIs DEF Paper, Redrafts, Moved, Going, Tidying, Gone
    <2>6. Backed'
      BY <1>9, <2>1, <2>2, <2>3, BusyIs DEF Paper, Backed, Backs, Taking, Due
    <2> QED
      BY <2>4, <2>5, <2>6 DEF Paper
  <1>10. CASE Credit(h)
    <2>1. /\ pc[h] = "credit" /\ Goto(h, "settle") /\ UNCHANGED <<app, answer, letter>>
          /\ owed' = [owed EXCEPT ![sub[h]] = "waived"]
      BY <1>10 DEF Credit, At
    <2>2. answer[sub[h]] = "accepted"
      BY <2>1 DEF Paper, Signed, Answering
    <2>3. /\ Mine' /\ Signed' /\ sub' = sub /\ call' = call /\ pc'[h] = "settle" /\ sub[h] \in Letters
          /\ \A g \in Handlers \ {h} : pc'[g] = pc[g] /\ pc[g] # "write"
          /\ \A g \in Handlers \ {h} : pc[g] \in Answering => sub[g] # sub[h] /\ sub[g] \in Letters
      BY <2>1, <2>2, AnswerOn DEF Answering
    <2>4. Redrafts' /\ Moved' /\ Going'
      BY <2>1, <2>3 DEF Paper, Redrafts, Moved, Going, Tidying, Answering, TypeInv, DbOK
    <2>5. Backed'
      BY <2>1, <2>3 DEF Paper, Backed, Backs, Taking, TypeInv, DbOK
    <2> QED
      BY <2>3, <2>4, <2>5 DEF Paper
  <1>11. ASSUME Sign(h) PROVE answer[sub[h]] = "none" \/ Refused(h)
    BY <1>11 DEF Sign, Refused
  <1>12. ASSUME Flip(h) PROVE letter[sub[h]] \in Open \/ Refused(h)
    BY <1>12 DEF Flip, Refused
  <1>13. ASSUME Bill(h)
         PROVE  \/ Goto(h, "accepted") /\ \E bill \in Unpaid : owed' = [owed EXCEPT ![sub[h]] = bill]
                \/ Refused(h)
    BY <1>13 DEF Bill, Refused
  <1>14. ASSUME Ask(h)
         PROVE  \/ app = "offer_accepted" /\ app' = "payment_required"
                \/ Refused(h)
    BY <1>14 DEF Ask, Commit, Conflict, Refused
  <1>15. ASSUME Settle(h) \/ OpenUp(h)
         PROVE  \/ (Goto(h, "openUp") \/ Return(h)) /\ app' \in Gone
                \/ Refused(h)
    BY <1>15 DEF Settle, OpenUp, Commit, Conflict, Gone, Refused
  <1> QED
    BY <1>1, <1>3, <1>4, <1>5, <1>6, <1>7, <1>8, <1>9, <1>10, <1>11, <1>12, <1>13, <1>14, <1>15 DEF Answer

LEMMA WorldPaper ==
  ASSUME BillInv, Orderly, World \/ UNCHANGED vars
  PROVE  Paper'
  <1> USE DEF BillInv, CallInv, AnswerInv
  <1>1. CASE DecideAgain
    <2>1. app = "awaiting_decision" /\ app' = "approved" /\ UNCHANGED <<letter, answer, owed, pc, sub>>
      BY <1>1 DEF DecideAgain, self
    <2> QED
      BY <2>1, GoneKeeps DEF Gone
  <1>2. ASSUME NEW o \in Letters, FamilyPays(o) PROVE Paper'
    <2>1. app' = "registration_incomplete" /\ UNCHANGED <<letter, answer, pc, sub>>
      BY <1>2 DEF FamilyPays, self
    <2> QED
      BY <2>1, GoneKeeps DEF Gone
  <1>3. CASE UNCHANGED vars \/ \E o \in Letters : TimePasses(o)
    BY <1>3 DEF vars, TimePasses, self, Paper, Mine, Signed, Redrafts, Moved, Going, Backed, Backs
  <1> QED
    BY <1>1, <1>2, <1>3 DEF World

LEMMA NextBill == Orderly /\ BillInv /\ [Next]_vars => BillInv'
  <1> SUFFICES ASSUME Orderly, BillInv, [Next]_vars PROVE Paper'
    BY NextCall, NextAnswer DEF BillInv
  <1>1. ASSUME NEW h \in Handlers, Call(h) \/ Step(h) \/ Crash(h) PROVE Paper'
    BY <1>1, DraftOut, ApproveOut, EndOut, AnswerPaper, ExtendOut, MovePaper, CallOut, OutKeeps DEF Step
  <1>2. ASSUME NEW o \in Letters, Sweep(o) PROVE Paper'
    BY <1>2, CallOut, OutKeeps DEF Sweep
  <1> QED
    BY <1>1, <1>2, WorldPaper DEF Next

LEMMA InitBill == Init => BillInv
  <1> SUFFICES ASSUME Init PROVE Paper
    BY InitCall, InitAnswer DEF BillInv
  <1>1. app = "approved" /\ \A h \in Handlers : pc[h] = "idle"
    BY DEF Init
  <1> QED
    BY <1>1 DEF Paper, Mine, Signed, Redrafts, Moved, Going, Backed, Answering, Tidying, Due

LEMMA AlwaysBill ==
  ASSUME Orderly
  PROVE  Spec => []BillInv
  BY InitBill, NextBill, PTL DEF Spec

\* A family asked to pay has the accepted letter and the open request it pays,
\* for any number of letters, invocations and kills, with views and extensions
\* beside the answer: while nobody drafts beside another and the family stays,
\* a move back never takes them away underneath an acceptance.
THEOREM AskedIsBilled == Drafting \cap Calls \subseteq Alone /\ "leave" \notin Calls => (Spec => []PaymentIsBilled)
  <1> SUFFICES ASSUME Orderly PROVE Spec => []PaymentIsBilled
    BY DEF Orderly
  <1>1. BillInv => PaymentIsBilled
    BY DEF BillInv, Paper, Backed, Backs, Due, PaymentIsBilled
  <1> QED
    BY <1>1, AlwaysBill, PTL
-----------------------------------------------------------------------------
(* When every invocation has ended, what is owed is asked for.               *)

Turned == {"ask", "credit", "settle"}

OneOpen == \A o, q \in Letters : {owed[o], owed[q]} \subseteq Unpaid => o = q
\* One acceptance at a time asks for its payment.
Turn ==
  \A h \in Handlers :
    /\ pc[h] = "ask" => app \in Gone \cup {"offer_accepted"}
    /\ pc[h] \in {"credit", "settle"} => app \in Gone \cup {"payment_required"}
    /\ \A g \in Handlers \ {h} : {pc[h], pc[g]} \subseteq Turned => app \in Gone

\* Somebody is at the request, or the family is asked to pay it.
InHand(o) ==
  \/ \E h \in Handlers : pc[h] \in Tidying
  \/ \E h \in Handlers : sub[h] = o /\ pc[h] \in {"accepted", "cancelBill", "credit"}
  \/ app = "offer_accepted" /\ \E h \in Handlers : sub[h] = o /\ pc[h] = "ask"
  \/ /\ app = "payment_required" /\ letter[o] = "accepted" /\ owed[o] = "required"
     /\ \A h \in Handlers : pc[h] \notin Turned
Owing == \A o \in Letters : owed[o] \in Unpaid => InHand(o)
\* A family asked to pay has something to pay, or is being let off.
ToPay ==
  app = "payment_required" =>
    \/ \E h \in Handlers : pc[h] \in {"credit", "settle"}
    \/ \E o \in Letters : Backs(o, {"required"})
ToOpen == app = "paid" => \E h \in Handlers : pc[h] = "openUp"
Books  == crashes = 0 => Owing /\ ToPay /\ ToOpen

BooksInv == BillInv /\ OneOpen /\ Turn /\ Books

\* An invocation that ends or goes on without what it had in hand.
Free(h) ==
  /\ pc[h] \notin Tidying \cup {"accepted", "cancelBill", "credit"}
  /\ pc[h] = "ask" => app # "offer_accepted"
  /\ pc[h] = "settle" => app # "payment_required"
  /\ pc[h] = "openUp" => app # "paid"

LEMMA PassTurn ==
  ASSUME BooksInv, NEW h \in Handlers, Passes(h)
  PROVE  OneOpen' /\ Turn'
  <1>1. OneOpen'
    BY DEF BooksInv, OneOpen, Passes, Kept
  <1>2. pc'[h] \notin Turned /\ \A g \in Handlers \ {h} : pc'[g] = pc[g]
    BY DEF Passes, Out, Redrafting, Others, Busy, Turned, Answering
  <1>3. Aside(h)
    BY DEF Passes
  <1> QED
    BY <1>1, <1>2, <1>3 DEF BooksInv, Turn, Aside, Due, Turned

LEMMA PassBooks ==
  ASSUME BooksInv, NEW h \in Handlers, Passes(h), Free(h), UNCHANGED crashes
  PROVE  Books'
  <1>1. pc'[h] \notin Busy \ {"write"} /\ \A g \in Handlers \ {h} : pc'[g] = pc[g] /\ sub'[g] = sub[g]
    BY DEF Passes, Out, Redrafting, Others, Busy, Answering, Tidying
  <1>2. /\ \A o \in Letters : letter[o] = "accepted" => letter'[o] = "accepted"
        /\ UNCHANGED owed
        /\ app' = app \/ (app' \notin Due \cup Gone /\ app \notin Due)
    BY DEF Passes, Kept, Aside
  <1> SUFFICES ASSUME crashes = 0, Owing, ToPay, ToOpen PROVE Owing' /\ ToPay' /\ ToOpen'
    BY DEF Books, BooksInv
  <1>3. ASSUME NEW o \in Letters, owed[o] \in Unpaid, InHand(o) PROVE InHand(o)'
    BY <1>1, <1>2, <1>3 DEF InHand, Free, Due, Turned, Busy, Answering
  <1>4. Owing'
    BY <1>2, <1>3 DEF Owing
  <1>5. ASSUME NEW o \in Letters, Backs(o, {"required"}) PROVE Backs(o, {"required"})'
    BY <1>1, <1>2, <1>5 DEF Backs, Busy, Answering, Taking
  <1>6. ToPay'
    BY <1>1, <1>2, <1>5 DEF ToPay, Free, Due
  <1>7. ToOpen'
    BY <1>1, <1>2 DEF ToOpen, Free, Due, Gone
  <1> QED
    BY <1>4, <1>6, <1>7

LEMMA FreeAt ==
  ASSUME NEW h \in Handlers,
         pc[h] \notin {"tidyLetters", "tidyBills", "accepted", "cancelBill", "credit", "ask", "settle", "openUp"}
  PROVE  Free(h)
  BY DEF Free, Tidying

LEMMA FreeBooks ==
  ASSUME BooksInv, Orderly, NEW h \in Handlers,
         \/ Draft(h) \/ Approve(h) \/ ReadToView(h) \/ View(h) \/ Lapsing(h) \/ Withdraw(h)
         \/ Extend(h) \/ MoveOn(h) \/ Call(h) \/ (\E o \in Letters : CallExpire(h, o))
  PROVE  OneOpen' /\ Turn' /\ Books'
  <1>1. Passes(h)
    BY DraftOut, ApproveOut, EndOut, ExtendOut, MoveOnOut, CallOut DEF BooksInv
  <1>2. CASE Draft(h) \/ Approve(h) \/ ReadToView(h) \/ View(h)
    <2>1. Free(h) /\ UNCHANGED crashes
      BY <1>2, FreeAt DEF Draft, ReadLive, Write, ToDraft, ToQueue, Approve, ReadToApprove, Check, Send, Announce,
         ReadToView, View, Read, At
    <2> QED
      BY <1>1, <2>1, PassTurn, PassBooks
  <1>3. CASE Lapsing(h) \/ Withdraw(h) \/ Extend(h)
    <2>1. Free(h) /\ UNCHANGED crashes
      BY <1>3, FreeAt DEF Lapsing, ReadAppToExpire, Lapse, Expired, Withdraw, ReadToWithdraw, Pull, Pulled,
         Extend, ReadToExtend, Reopen, Reopened, PutBack, Read, At
    <2> QED
      BY <1>1, <2>1, PassTurn, PassBooks
  <1>4. CASE MoveOn(h) \/ (\E o \in Letters : CallExpire(h, o))
    <2>1. Free(h) /\ UNCHANGED crashes
      BY <1>4, FreeAt DEF MoveOn, Reload, Reissue, Replace, ReadToSign, Rescue, CallExpire, Read, At
    <2> QED
      BY <1>1, <2>1, PassTurn, PassBooks
  <1>5. CASE Call(h)
    <2>1. pc[h] = "idle" /\ UNCHANGED crashes
      <3>1. \E kind, l, n : Begin(h, kind, l, n)
        BY <1>5 DEF Call, CallDraft, CallApprove, CallView, CallWithdraw, CallAnswer, CallExtend, CallMoveBack,
           CallMoveOn, CallLeave
      <3> QED
        BY <3>1 DEF Begin, At
    <2> QED
      BY <1>1, <2>1, FreeAt, PassTurn, PassBooks
  <1> QED
    BY <1>2, <1>3, <1>4, <1>5

\* A move back leaves its bills to itself, and cancels them last.
LEMMA MoveBooks ==
  ASSUME BooksInv, Orderly, NEW h \in Handlers, MoveBack(h)
  PROVE  OneOpen' /\ Turn' /\ Books'
  <1> USE DEF BooksInv, BillInv, CallInv, TypeInv
  <1>0. call[h] = "toOffer" => \A g \in Handlers \ {h} : pc[g] = "idle"
    BY ByItselfIs DEF Drafting
  <1>1. CASE Move(h) /\ Conflict(mem[h].app) /\ Throw(h)
    <2>1. Passes(h) /\ Free(h) /\ UNCHANGED crashes
      BY <1>1, MoveOnOut, FreeAt DEF Move, At
    <2> QED
      BY <2>1, PassTurn, PassBooks
  <1>2. CASE /\ Move(h) /\ Goto(h, "tidyLetters")
             /\ app' = IF call[h] = "toOffer" THEN "offer_draft" ELSE "awaiting_decision"
    <2>1. /\ pc'[h] = "tidyLetters" /\ \A g \in Handlers \ {h} : pc'[g] = pc[g]
          /\ UNCHANGED <<owed, crashes>>
      BY <1>2 DEF Move, Goto, SelfOK
    <2>2. OneOpen'
      BY <2>1 DEF OneOpen
    <2>3. Turn'
      BY <1>0, <1>2, <2>1 DEF Turn, Turned, Gone
    <2>4. Owing'
      BY <2>1 DEF Owing, InHand, Tidying
    <2>5. ToPay' /\ ToOpen'
      BY <1>2 DEF ToPay, ToOpen
    <2> QED
      BY <2>2, <2>3, <2>4, <2>5 DEF Books
  <1>3. CASE TidyLetters(h)
    <2>1. /\ pc'[h] = "tidyBills" /\ \A g \in Handlers \ {h} : pc'[g] = pc[g]
          /\ UNCHANGED <<app, owed, crashes>> /\ pc[h] = "tidyLetters"
      BY <1>3 DEF TidyLetters, Goto, At, SelfOK
    <2>2. app \notin Due
      BY <2>1 DEF Paper, Moved, Tidying, Gone, Due
    <2>3. OneOpen' /\ Turn'
      BY <2>1 DEF OneOpen, Turn, Turned
    <2>4. Owing' /\ ToPay'
      BY <2>1, <2>2 DEF Owing, InHand, Tidying, ToPay, Due
    <2>5. ToOpen => ToOpen'
      BY <2>1 DEF ToOpen
    <2> QED
      BY <2>1, <2>3, <2>4, <2>5 DEF Books
  <1>4. CASE TidyBills(h)
    <2>1. /\ pc'[h] \in {"draft", "idle"} /\ \A g \in Handlers \ {h} : pc'[g] = pc[g]
          /\ UNCHANGED <<app, crashes>> /\ pc[h] = "tidyBills"
      BY <1>4 DEF TidyBills, Done, At, SelfOK
    <2>2. app \notin Due
      BY <2>1 DEF Paper, Moved, Tidying, Gone, Due
    <2>3. \A o \in Letters : owed'[o] \notin Unpaid
      BY <1>4 DEF TidyBills, CancelBills, Unpaid
    <2>4. OneOpen' /\ Turn' /\ Owing' /\ ToPay'
      BY <2>1, <2>2, <2>3 DEF OneOpen, Turn, Turned, Owing, ToPay, Due
    <2>5. ToOpen => ToOpen'
      BY <2>1 DEF ToOpen
    <2> QED
      BY <2>1, <2>4, <2>5 DEF Books
  <1> QED
    BY <1>1, <1>2, <1>3, <1>4 DEF MoveBack, Move, Commit

LEMMA AnswerBooks ==
  ASSUME BooksInv, Orderly, NEW h \in Handlers, Answer(h)
  PROVE  OneOpen' /\ Turn' /\ Books'
  <1> USE DEF BooksInv, BillInv, CallInv, AnswerInv, TypeInv
  <1>0. /\ pc[h] \in Answering => sub[h] \in Letters
        /\ \A g \in Handlers \ {h} : {pc[h], pc[g]} \subseteq Answering => sub[g] # sub[h]
    BY DEF Known, Answering, LetterAt, Paper, Mine
  <1>1. CASE ReadToAnswer(h) \/ Refuse(h) \/ TurnDown(h) \/ Declined(h) \/ Refused(h)
    <2>1. Passes(h)
      BY <1>1, AnswerOut
    <2>2. UNCHANGED crashes
      BY <1>1 DEF ReadToAnswer, Refuse, TurnDown, Declined, Refused, Read, Sign, Flip, Bill, Ask, Settle, OpenUp
    <2>3. Free(h)
      <3>1. CASE Refused(h)
        BY <3>1 DEF Free, Tidying, Refused, Sign, Flip, Bill, Ask, Settle, OpenUp, Commit, Conflict, At
      <3>2. CASE ReadToAnswer(h) \/ Refuse(h) \/ TurnDown(h) \/ Declined(h)
        BY <3>2, FreeAt DEF ReadToAnswer, Refuse, TurnDown, Declined, At
      <3> QED
        BY <1>1, <3>1, <3>2
    <2> QED
      BY <2>1, <2>2, <2>3, PassTurn, PassBooks
  <1>2. CASE Sign(h) /\ answer[sub[h]] = "none"
    <2>1. /\ pc[h] = "sign" /\ pc'[h] = "flip" /\ sub' = sub /\ \A g \in Handlers \ {h} : pc'[g] = pc[g]
          /\ UNCHANGED <<app, letter, owed, crashes>> /\ sub[h] \in Letters
      BY <1>2 DEF Sign, At, Goto, SelfOK, Known, LetterAt
    <2>2. letter[sub[h]] # "accepted"
      BY <1>2, <2>1 DEF AnsweredOnce
    <2>3. OneOpen' /\ Turn'
      BY <2>1 DEF OneOpen, Turn, Turned
    <2>4. ASSUME NEW o \in Letters, InHand(o) PROVE InHand(o)'
      BY <2>1, <2>4 DEF InHand, Tidying, Turned
    <2>5. ASSUME NEW o \in Letters, Backs(o, {"required"}) PROVE Backs(o, {"required"})'
      BY <2>1, <2>2, <2>5 DEF Backs, Taking
    <2>6. (Owing => Owing') /\ (ToPay => ToPay') /\ (ToOpen => ToOpen')
      BY <2>1, <2>4, <2>5 DEF Owing, ToPay, ToOpen
    <2> QED
      BY <2>1, <2>3, <2>6 DEF Books
  <1>3. CASE Flip(h) /\ letter[sub[h]] \in Open
    <2>1. /\ pc[h] = "flip" /\ pc'[h] = "bill" /\ sub' = sub /\ \A g \in Handlers \ {h} : pc'[g] = pc[g]
          /\ UNCHANGED <<app, owed, crashes>> /\ letter' = [letter EXCEPT ![sub[h]] = "accepted"]
      BY <1>3 DEF Flip, At, Goto, SelfOK
    <2>2. OneOpen' /\ Turn'
      BY <2>1 DEF OneOpen, Turn, Turned
    <2>3. \A o \in Letters : letter[o] = "accepted" => letter'[o] = "accepted"
      BY <2>1 DEF DbOK
    <2>4. ASSUME NEW o \in Letters, InHand(o) PROVE InHand(o)'
      BY <2>1, <2>3, <2>4 DEF InHand, Tidying, Turned
    <2>5. ASSUME NEW o \in Letters, Backs(o, {"required"}) PROVE Backs(o, {"required"})'
      BY <2>1, <2>3, <2>5 DEF Backs, Taking
    <2>6. (Owing => Owing') /\ (ToPay => ToPay') /\ (ToOpen => ToOpen')
      BY <2>1, <2>4, <2>5 DEF Owing, ToPay, ToOpen
    <2> QED
      BY <2>1, <2>2, <2>6 DEF Books
  <1>4. CASE /\ Bill(h) /\ Goto(h, "accepted") /\ \A o \in Letters : owed[o] \notin Unpaid
             /\ \E bill \in Unpaid : owed' = [owed EXCEPT ![sub[h]] = bill]
    <2>1. /\ pc[h] = "bill" /\ pc'[h] = "accepted" /\ sub' = sub /\ \A g \in Handlers \ {h} : pc'[g] = pc[g]
          /\ UNCHANGED <<app, letter, crashes>> /\ sub[h] \in Letters
      BY <1>0, <1>4 DEF Bill, At, Goto, SelfOK, Answering
    <2>2. \A o \in Letters : owed'[o] \in Unpaid => o = sub[h]
      BY <1>4 DEF DbOK
    <2>3. OneOpen' /\ Turn'
      BY <2>1, <2>2 DEF OneOpen, Turn, Turned
    <2>4. Owing'
      BY <2>1, <2>2 DEF Owing, InHand
    <2>5. ToPay => ToPay'
      BY <1>4, <2>1 DEF ToPay, Backs, Unpaid
    <2>6. ToOpen => ToOpen'
      BY <2>1 DEF ToOpen
    <2> QED
      BY <2>1, <2>3, <2>4, <2>5, <2>6 DEF Books
  <1>5. CASE Accepted(h)
    <2>1. PICK l \in {"ask", "cancelBill"} :
            /\ Goto(h, l) /\ (l = "cancelBill" => UNCHANGED app)
            /\ l = "ask" => app = "offer_sent" /\ app' = "offer_accepted"
      BY <1>5 DEF Accepted, Commit, Conflict
    <2>2. /\ pc[h] = "accepted" /\ pc'[h] = l /\ sub' = sub /\ \A g \in Handlers \ {h} : pc'[g] = pc[g]
          /\ UNCHANGED <<owed, letter, crashes>>
      BY <1>5, <2>1 DEF Accepted, At, Goto, SelfOK
    <2>3. OneOpen'
      BY <2>2 DEF OneOpen
    <2>4. Turn'
      BY <2>1, <2>2 DEF Turn, Turned, Gone
    <2>5. ASSUME NEW o \in Letters, InHand(o) PROVE InHand(o)'
      BY <2>1, <2>2, <2>5 DEF InHand, Tidying, Turned
    <2>6. ASSUME NEW o \in Letters, Backs(o, {"required"}), l = "cancelBill" PROVE Backs(o, {"required"})'
      BY <2>2, <2>6 DEF Backs, Taking
    <2>7. (Owing => Owing') /\ (ToPay => ToPay') /\ (ToOpen => ToOpen')
      BY <2>1, <2>2, <2>5, <2>6 DEF Owing, ToPay, ToOpen
    <2> QED
      BY <2>2, <2>3, <2>4, <2>7 DEF Books
  <1>6. CASE CancelBill(h)
    <2>1. /\ pc[h] = "cancelBill" /\ pc'[h] \notin Busy /\ Others(h)
          /\ UNCHANGED <<app, letter, crashes>> /\ sub[h] \in Letters
      BY <1>0, <1>6, ReturnOut DEF CancelBill, At, Out, Answering
    <2>2. /\ \A o \in Letters \ {sub[h]} : owed'[o] = owed[o]
          /\ owed'[sub[h]] \notin Unpaid
      BY <1>6, <2>1 DEF CancelBill, Unpaid, DbOK
    <2>3. OneOpen'
      BY <2>1, <2>2 DEF OneOpen
    <2>4. Turn'
      BY <2>1, BusyIs DEF Turn, Turned, Others
    <2>5. ASSUME NEW o \in Letters, InHand(o), o # sub[h] PROVE InHand(o)'
      BY <2>1, <2>2, <2>5, BusyIs DEF InHand, Tidying, Turned, Others
    <2>6. ASSUME NEW o \in Letters, Backs(o, {"required"}) PROVE Backs(o, {"required"})'
      BY <2>1, <2>2, <2>6, BusyIs DEF Backs, Taking, Others
    <2>7. Owing => Owing'
      BY <2>2, <2>5 DEF Owing
    <2>8. (ToPay => ToPay') /\ (ToOpen => ToOpen')
      BY <2>1, <2>6 DEF ToPay, ToOpen, Others
    <2> QED
      BY <2>1, <2>3, <2>4, <2>7, <2>8 DEF Books
  <1>7. CASE Ask(h) /\ app = "offer_accepted" /\ app' = "payment_required"
    <2>1. /\ pc[h] = "ask" /\ UNCHANGED <<letter, owed, crashes>> /\ sub[h] \in Letters
      BY <1>0, <1>7 DEF Ask, At, Answering
    <2>2. letter[sub[h]] = "accepted" /\ owed[sub[h]] \in Unpaid
      BY <1>7, <2>1 DEF Paper, Going, Gone
    <2>3. \A g \in Handlers \ {h} : pc[g] \notin Turned
      BY <1>7, <2>1 DEF Turn, Turned, Gone
    <2>4. \A o \in Letters : owed'[o] \in Unpaid => o = sub[h]
      BY <2>1, <2>2 DEF OneOpen
    <2>5. OneOpen' /\ ToOpen'
      BY <1>7, <2>1, <2>4 DEF OneOpen, ToOpen
    <2>6. CASE Return(h) /\ owed[sub[h]] # "nothing"
      <3>1. pc'[h] \notin Busy /\ Others(h)
        BY <2>6, ReturnOut DEF Out
      <3>2. owed[sub[h]] = "required" /\ \A g \in Handlers : pc'[g] \notin Turned
        BY <2>2, <2>3, <2>6, <3>1, BusyIs DEF Unpaid, Turned, Others
      <3>3. Turn'
        BY <3>2 DEF Turn, Turned
      <3>4. PICK k \in Letters : k = sub[h]
        BY <2>1
      <3>5. InHand(k)' /\ Backs(k, {"required"})'
        <4>1. \A g \in Handlers : pc'[g] \in Taking => sub'[g] # k
          BY <1>0, <2>1, <3>1, <3>4, BusyIs DEF Others, Taking, Answering
        <4> QED
          BY <1>7, <2>1, <2>2, <3>2, <3>4, <4>1 DEF InHand, Backs
      <3> QED
        BY <2>1, <2>4, <2>5, <3>3, <3>4, <3>5 DEF Books, Owing, ToPay
    <2>7. CASE Goto(h, "credit")
      <3>1. pc'[h] = "credit" /\ sub' = sub /\ \A g \in Handlers \ {h} : pc'[g] = pc[g]
        BY <2>7 DEF Goto, SelfOK
      <3>2. Turn'
        BY <1>7, <2>3, <3>1 DEF Turn, Turned
      <3>3. Owing' /\ ToPay'
        BY <2>4, <3>1 DEF Owing, ToPay, InHand
      <3> QED
        BY <2>5, <3>2, <3>3 DEF Books
    <2> QED
      BY <1>7, <2>6, <2>7 DEF Ask, Conflict
  <1>8. CASE Credit(h)
    <2>1. /\ pc[h] = "credit" /\ pc'[h] = "settle" /\ sub' = sub /\ \A g \in Handlers \ {h} : pc'[g] = pc[g]
          /\ UNCHANGED <<app, letter, crashes>> /\ owed' = [owed EXCEPT ![sub[h]] = "waived"] /\ sub[h] \in Letters
      BY <1>0, <1>8 DEF Credit, At, Goto, SelfOK, Answering
    <2>2. /\ \A o \in Letters \ {sub[h]} : owed'[o] = owed[o]
          /\ owed'[sub[h]] \notin Unpaid
      BY <2>1 DEF Unpaid, DbOK
    <2>3. OneOpen'
      BY <2>1, <2>2 DEF OneOpen
    <2>4. Turn'
      BY <2>1 DEF Turn, Turned
    <2>5. ASSUME NEW o \in Letters, InHand(o), o # sub[h] PROVE InHand(o)'
      BY <2>1, <2>2, <2>5 DEF InHand, Tidying, Turned
    <2>6. Owing => Owing'
      BY <2>2, <2>5 DEF Owing
    <2>7. ToPay' /\ (ToOpen => ToOpen')
      BY <2>1 DEF ToPay, ToOpen
    <2> QED
      BY <2>1, <2>3, <2>4, <2>6, <2>7 DEF Books
  <1>9. CASE Settle(h) /\ Goto(h, "openUp") /\ app = "payment_required" /\ app' = "paid"
    <2>1. /\ pc[h] = "settle" /\ pc'[h] = "openUp" /\ sub' = sub /\ \A g \in Handlers \ {h} : pc'[g] = pc[g]
          /\ UNCHANGED <<owed, crashes>>
      BY <1>9 DEF Settle, At, Goto, SelfOK
    <2>2. OneOpen' /\ Turn'
      BY <1>9, <2>1 DEF OneOpen, Turn, Turned, Gone
    <2>3. ASSUME NEW o \in Letters, InHand(o) PROVE InHand(o)'
      BY <1>9, <2>1, <2>3 DEF InHand, Tidying, Turned
    <2>4. (Owing => Owing') /\ ToPay' /\ ToOpen'
      BY <1>9, <2>1, <2>3 DEF Owing, ToPay, ToOpen
    <2> QED
      BY <2>1, <2>2, <2>4 DEF Books
  <1>10. CASE OpenUp(h) /\ Return(h) /\ app = "paid" /\ app' = "registration_incomplete"
    <2>1. /\ pc[h] = "openUp" /\ pc'[h] \notin Busy /\ Others(h) /\ UNCHANGED <<owed, crashes>>
      BY <1>10, ReturnOut DEF OpenUp, At, Out
    <2>2. OneOpen' /\ Turn'
      BY <1>10, <2>1 DEF OneOpen, Turn, Gone
    <2>3. ASSUME NEW o \in Letters, InHand(o) PROVE InHand(o)'
      BY <1>10, <2>1, <2>3 DEF InHand, Tidying, Others
    <2>4. (Owing => Owing') /\ ToPay' /\ ToOpen'
      BY <1>10, <2>1, <2>3 DEF Owing, ToPay, ToOpen
    <2> QED
      BY <2>1, <2>2, <2>4 DEF Books
  <1>11. ASSUME Sign(h) \/ Flip(h) \/ Bill(h)
         PROVE  \/ Sign(h) /\ answer[sub[h]] = "none"
                \/ Flip(h) /\ letter[sub[h]] \in Open
                \/ /\ Bill(h) /\ Goto(h, "accepted") /\ \A o \in Letters : owed[o] \notin Unpaid
                   /\ \E bill \in Unpaid : owed' = [owed EXCEPT ![sub[h]] = bill]
                \/ Refused(h)
    BY <1>11 DEF Sign, Flip, Bill, Refused
  <1>12. ASSUME Ask(h) PROVE (app = "offer_accepted" /\ app' = "payment_required") \/ Refused(h)
    BY <1>12 DEF Ask, Commit, Conflict, Refused
  <1>13. ASSUME Settle(h) PROVE (Goto(h, "openUp") /\ app = "payment_required" /\ app' = "paid") \/ Refused(h)
    BY <1>13 DEF Settle, Commit, Conflict, Refused
  <1>14. ASSUME OpenUp(h) PROVE (Return(h) /\ app = "paid" /\ app' = "registration_incomplete") \/ Refused(h)
    BY <1>14 DEF OpenUp, Commit, Conflict, Refused
  <1> QED
    BY <1>1, <1>2, <1>3, <1>4, <1>5, <1>6, <1>7, <1>8, <1>9, <1>10, <1>11, <1>12, <1>13, <1>14 DEF Answer

LEMMA WorldBooks ==
  ASSUME BooksInv, World \/ UNCHANGED vars
  PROVE  OneOpen' /\ Turn' /\ Books'
  <1> USE DEF BooksInv, BillInv, CallInv, TypeInv
  <1>1. CASE DecideAgain
    <2>1. /\ app = "awaiting_decision" /\ app' = "approved"
          /\ UNCHANGED <<letter, owed, pc, sub, crashes>>
      BY <1>1 DEF DecideAgain, self
    <2> QED
      BY <2>1 DEF OneOpen, Turn, Gone, Turned, Books, Owing, InHand, ToPay, ToOpen
  <1>2. ASSUME NEW o \in Letters, FamilyPays(o) PROVE OneOpen' /\ Turn' /\ Books'
    <2>1. /\ owed[o] = "required" /\ owed' = [owed EXCEPT ![o] = "paid"]
          /\ app' = "registration_incomplete" /\ UNCHANGED <<letter, pc, sub>>
      BY <1>2 DEF FamilyPays, self
    <2>2. \A q \in Letters : owed'[q] \notin Unpaid
      BY <2>1 DEF OneOpen, Unpaid, DbOK
    <2> QED
      BY <2>1, <2>2 DEF OneOpen, Turn, Gone, Books, Owing, ToPay, ToOpen
  <1>3. CASE UNCHANGED vars \/ \E o \in Letters : TimePasses(o)
    <2>1. UNCHANGED <<app, letter, owed, pc, sub, crashes>>
      BY <1>3 DEF vars, TimePasses, self
    <2> QED
      BY <2>1 DEF OneOpen, Turn, Turned, Books, Owing, InHand, ToPay, ToOpen, Backs
  <1> QED
    BY <1>1, <1>2, <1>3 DEF World

LEMMA NextBooks == Orderly /\ BooksInv /\ [Next]_vars => BooksInv'
  <1> SUFFICES ASSUME Orderly, BooksInv, [Next]_vars PROVE OneOpen' /\ Turn' /\ Books'
    BY NextBill DEF BooksInv
  <1>1. ASSUME NEW h \in Handlers, Call(h) \/ Step(h) \/ Crash(h) PROVE OneOpen' /\ Turn' /\ Books'
    <2>1. CASE Crash(h)
      <3>1. crashes' # 0
        BY <2>1 DEF Crash, BooksInv, BillInv, CallInv, TypeInv
      <3> QED
        BY <2>1, <3>1, CallOut, PassTurn DEF BooksInv, Books
    <2>2. ASSUME Leaving(h) PROVE FALSE
      BY <2>2, KindOf DEF Leaving, LeaveLetters, LeaveBills, Leave, At, Orderly, BooksInv, BillInv, CallInv, TypeInv,
         SelfOK, AtKind
    <2> QED
      BY <1>1, <2>1, <2>2, FreeBooks, MoveBooks, AnswerBooks DEF Step
  <1>2. ASSUME NEW o \in Letters, Sweep(o) PROVE OneOpen' /\ Turn' /\ Books'
    BY <1>2, FreeBooks DEF Sweep
  <1> QED
    BY <1>1, <1>2, WorldBooks DEF Next

LEMMA InitBooks == Init => BooksInv
  <1> SUFFICES ASSUME Init PROVE OneOpen /\ Turn /\ Books
    BY InitBill DEF BooksInv
  <1>1. app = "approved" /\ (\A h \in Handlers : pc[h] = "idle") /\ \A o \in Letters : owed[o] = "none"
    BY DEF Init
  <1> QED
    BY <1>1 DEF OneOpen, Turn, Turned, Books, Owing, ToPay, ToOpen, Unpaid

\* Once every invocation has ended, and none was killed, an open request asks
\* for money a family that accepted, a family asked to pay has one, and nobody
\* is left to pay nothing, under the hypotheses of AskedIsBilled.
THEOREM OwedIsAsked == Drafting \cap Calls \subseteq Alone /\ "leave" \notin Calls => (Spec => []BilledWhileOwed)
  <1> SUFFICES ASSUME Orderly PROVE Spec => []BilledWhileOwed
    BY DEF Orderly
  <1>1. BooksInv => BilledWhileOwed
    <2> SUFFICES ASSUME BooksInv, Quiet, crashes = 0
                 PROVE  /\ \A o \in Letters :
                             owed[o] \in Unpaid =>
                               owed[o] = "required" /\ app = "payment_required" /\ letter[o] = "accepted"
                        /\ app = "payment_required" => \E o \in Letters : owed[o] = "required"
                        /\ app # "paid"
      BY DEF BilledWhileOwed, Settled
    <2>1. \A h \in Handlers : pc[h] = "idle"
      BY DEF Quiet, At
    <2>2. Owing /\ ToPay /\ ToOpen
      BY DEF BooksInv, Books
    <2> QED
      BY <2>1, <2>2 DEF Owing, InHand, ToPay, ToOpen, Backs, Tidying
  <1> QED
    BY <1>1, InitBooks, NextBooks, PTL DEF Spec
-----------------------------------------------------------------------------
(* A sent offer lapses by itself.  What is beside nothing else moves the     *)
(* offer from one status to the next; an approval, the parent's page, the    *)
(* expiry sweep, a later closing date and a move back to Decision may all be *)
(* in flight together, and the invariant says what each may still find.      *)
Solo == {"draft", "draftOn", "moveOn", "accept", "decline", "leave"}
Disciplined == Solo \cap Calls \subseteq Alone /\ {"withdraw", "toOffer"} \cap Calls = {}

Post    == {"offer_accepted", "payment_required", "paid", "registration_incomplete", "withdrawn"}
Resting == {"awaiting_decision", "approved", "offer_draft", "offer_declined"}
Passing == Open \cup {"expired"}
Unready == {"none", "draft", "pending_approval"}
InPlay  == Live \cup {"expired"}
Signing == {"sign", "flip", "bill", "accepted", "cancelBill", "ask", "credit", "settle", "openUp"}
Turning == {"refuse", "turnDown", "declined"}

NonePassing == \A o \in Letters : letter[o] \notin Passing
SomeOpen    == \E o \in Letters : letter[o] \in Open
Promised    == \E o \in Letters : letter[o] \in Open /\ sweep[o]
Billed      == \E o \in Letters : owed[o] \in Unpaid

\* Who is at which statement.
WhoseAt(h) ==
  /\ pc[h] \in Signing => call[h] \in {"accept", "moveOn", "draftOn"}
  /\ pc[h] \in Turning => call[h] = "decline"
  /\ pc[h] \in {"send", "announce"} => call[h] \in {"approve", "draft", "moveOn", "draftOn"}
  /\ pc[h] = "view" => call[h] = "view"
  /\ pc[h] \in {"readApp", "lapse", "expired"} => call[h] = "expire"
  /\ pc[h] = "letter" =>
       call[h] \in {"approve", "view", "extend", "accept", "decline", "moveOn", "draftOn"}

\* One letter at a time can still be sent, answered or reopened, and one that
\* was never sent has no sweep.
OneInPlay == \A o, q \in Letters : {letter[o], letter[q]} \subseteq InPlay => o = q
Unsent    == \A o \in Letters : letter[o] \in Unready => ~sweep[o]

\* What the letters are under a status: before the offer is out nothing can
\* lapse, and once it has lapsed its sweep is spent.
Fresh   == \A o \in Letters : letter[o] # "expired" /\ (letter[o] \in Open => ~sweep[o])
Swept   == \A o \in Letters : letter[o] \in Passing => ~sweep[o]
WhilePending ==
  app = "offer_pending_approval" =>
    Fresh /\ \A h \in Handlers : call[h] \notin {"expire", "extend"}
WhileExpired ==
  app = "offer_expired" => Swept /\ \A h \in Handlers : call[h] # "expire"
AtRest ==
  app \in Resting => NonePassing \/ \E h \in Handlers : pc[h] = "tidyLetters"
\* An approval that began before the child went back finds nothing to send.
Unsendable ==
  app \in Resting /\ (\E h \in Handlers : call[h] = "approve") =>
    \/ \A o \in Letters : letter[o] # "pending_approval"
    \/ \E h \in Handlers : pc[h] = "tidyLetters"
TidiesAfter ==
  \A h \in Handlers : pc[h] \in Tidying => app \in {"awaiting_decision", "approved"}

\* An approval that can still announce its letter has sent it, and queues a
\* sweep unless Move to stage, which goes on to accept, made it.
Sends(h) ==
  /\ pc[h] = "announce" /\ app = "offer_pending_approval" => letter[sub[h]] \in Open
  /\ pc[h] = "send" /\ app = "offer_pending_approval" =>
       letter[sub[h]] \in Open \cup {"pending_approval"}
  /\ pc[h] \in {"send", "announce"} => mem[h].notify \/ MovesOn(h)
  /\ pc[h] = "check" => mem[h].notify
  /\ pc[h] = "letter" /\ call[h] = "approve" => mem[h].notify

\* While the offer is out the sweep is about the letter in play, alone.
Lapses ==
  /\ \A h \in Handlers :
       call[h] = "expire" /\ app \in {"offer_sent", "offer_expired"} => letter[sub[h]] \in Passing
  /\ \A g, h \in Handlers : call[g] = "expire" /\ call[h] = "expire" /\ sub[g] = sub[h] => g = h

\* A lapsed letter is reopened by one invocation at a time, and when the
\* status does not say lapsed yet, the sweep is about to.
Reviving(h) == pc[h] \in {"reopened", "putBack"} /\ mem[h].was = "expired"
Knows(h) ==
  pc[h] \in Extending =>
    /\ mem[h].app = IF mem[h].was = "expired" THEN "offer_expired" ELSE "offer_sent"
    /\ letter[sub[h]] \notin Unready
Reopens ==
  app \in {"offer_sent", "offer_expired"} =>
    /\ \A h \in Handlers : Reviving(h) =>
         /\ letter[sub[h]] \in Open
         /\ app = "offer_sent" => \E g \in Handlers : pc[g] = "expired"
    /\ \A g, h \in Handlers : Reviving(g) /\ Reviving(h) => g = h

\* What an invocation that is beside nothing else may rely on.
Relies(h) ==
  /\ MovesOn(h) => ~mem[h].notify
  /\ pc[h] \in {"check", "send", "announce"} /\ call[h] \in Solo => app = "offer_pending_approval"
  /\ pc[h] \in {"draft", "write", "toDraft", "toQueue"} => app \in DraftFrom
  /\ pc[h] = "write" /\ sub[h] # NoLetter => letter[sub[h]] \in {"draft", "pending_approval"}
  /\ pc[h] = "letter" /\ call[h] \in {"accept", "decline"} => app = "offer_sent"
  /\ pc[h] = "letter" /\ MovesOn(h) => app = mem[h].app /\ (app = "offer_sent" => SomeOpen)
  /\ MovesOn(h) /\ pc[h] \in {"send", "announce"} => mem[h].app = "offer_pending_approval"
  /\ pc[h] \in {"sign", "flip", "refuse", "turnDown"} =>
       app = "offer_sent" /\ letter[sub[h]] \in Open
  /\ pc[h] \in {"sign", "flip", "bill", "accepted"} /\ MovesOn(h) => mem[h].app = "offer_sent"
  /\ pc[h] \in {"bill", "accepted", "declined"} => app = "offer_sent" /\ NonePassing
  /\ pc[h] # "cancelBill"
  /\ pc[h] \in {"ask", "credit", "settle", "openUp"} => app \in Post
  /\ pc[h] = "rescue" =>
       \/ app \in Post
       \/ app = "offer_sent" /\ mem[h].app = "offer_sent" /\ letter[sub[h]] \in Open
  /\ pc[h] \in {"pull", "pulled"} => mem[h].app = app
  /\ pc[h] = "pull" => letter[sub[h]] \in Passing
  /\ pc[h] = "pulled" => NonePassing
  /\ pc[h] = "reload" /\ app = "offer_sent" => mem[h].app # "offer_sent" /\ SomeOpen
  /\ pc[h] = "reissue" => mem[h].app = app
  /\ pc[h] \in {"leaveLetters", "leaveBills", "leave"} /\ app = "offer_sent" =>
       mem[h].app = "offer_sent"

\* A request is open only once the answer is in, or until it is tidied away.
Bills ==
  Billed => app \in Post \/ \E h \in Handlers : pc[h] \in Tidying \cup {"accepted"}

\* A sent offer will lapse, or the invocation that settles it is at work.
Settles(h) ==
  \/ pc[h] \in {"expired", "bill", "accepted", "declined", "pulled", "leaveBills", "leave"}
  \/ MovesOn(h) /\ pc[h] \in {"reload", "letter", "sign", "flip", "rescue", "pull"}
Cover == app = "offer_sent" => Promised \/ \E h \in Handlers : Settles(h)

Letterwise ==
  OneInPlay /\ Unsent /\ WhilePending /\ WhileExpired /\ AtRest /\ Unsendable /\ TidiesAfter
Lasting ==
  /\ \A h \in Handlers : WhoseAt(h) /\ Sends(h) /\ Knows(h) /\ Relies(h)
  /\ Letterwise /\ Lapses /\ Reopens /\ Bills /\ Cover

\* The same for one invocation that nothing is beside.
Lone(h) ==
  /\ WhoseAt(h) /\ Sends(h) /\ Relies(h)
  /\ OneInPlay /\ Unsent
  /\ app = "offer_pending_approval" => Fresh
  /\ app = "offer_expired" => Swept
  /\ app \in Resting => NonePassing
  /\ Billed => app \in Post \/ pc[h] = "accepted"
  /\ app = "offer_sent" => Promised \/ Settles(h)

Rest(h) == \A g \in Handlers \ {h} : pc[g] = "idle" /\ call[g] = "none"
SameOthers(h) ==
  \A g \in Handlers \ {h} :
    pc'[g] = pc[g] /\ call'[g] = call[g] /\ sub'[g] = sub[g] /\ mem'[g] = mem[g]

LEMMA WhoIsAt ==
  ASSUME CallInv, Disciplined, NEW h \in Handlers, WhoseAt(h)
  PROVE  /\ pc[h] = "idle" <=> call[h] = "none"
         /\ pc[h] \in {"draft", "write", "toDraft", "toQueue", "check"} => call[h] \in {"draft", "draftOn"}
         /\ pc[h] \in {"reissue", "replace"} => call[h] = "draftOn"
         /\ pc[h] \in {"reload", "rescue", "pull", "pulled"} => MovesOn(h)
         /\ pc[h] \in {"move", "tidyLetters", "tidyBills"} => call[h] = "toDecision"
         /\ pc[h] \in Extending => call[h] = "extend"
         /\ pc[h] \in {"leaveLetters", "leaveBills", "leave"} => call[h] = "leave"
         /\ pc[h] \in {"bill", "accepted", "declined"} => call[h] \in Solo
  <1>1. call[h] \in Calls \cup {"none"} /\ pc[h] \in PC /\ call[h] \in KindsAt(pc[h])
    BY DEF CallInv, TypeInv, SelfOK, AtKind
  <1>2. Calls \subseteq Kinds /\ "none" \notin Kinds /\ "withdraw" \notin Calls /\ "toOffer" \notin Calls
    BY CallsAssumption, KindOf DEF Disciplined
  <1>3. pc[h] = "idle" <=> call[h] = "none"
    BY Idles
  <1>4. pc[h] \in {"draft", "write", "toDraft", "toQueue", "check"} => call[h] \in {"draft", "draftOn"}
    BY <1>1, <1>2, KindOf DEF Drafting
  <1>5. pc[h] \in {"reload", "rescue", "pull", "pulled"} => MovesOn(h)
    BY <1>1, <1>2, KindOf DEF MovesOn
  <1>6. /\ pc[h] \in {"reissue", "replace"} => call[h] = "draftOn"
        /\ pc[h] \in {"move", "tidyLetters", "tidyBills"} => call[h] = "toDecision"
        /\ pc[h] \in {"leaveLetters", "leaveBills", "leave"} => call[h] = "leave"
    BY <1>1, <1>2, KindOf
  <1>7. pc[h] \in Extending => call[h] = "extend"
    BY <1>1, <1>2, KindOf DEF Extending
  <1>8. pc[h] \in {"bill", "accepted", "declined"} => call[h] \in Solo
    BY DEF WhoseAt, Signing, Turning, Solo
  <1> QED
    BY <1>3, <1>4, <1>5, <1>6, <1>7, <1>8

LEMMA SoloIs ==
  ASSUME CallInv, Disciplined, NEW h \in Handlers, call[h] \in Solo
  PROVE  Rest(h)
  <1>1. call[h] \in Alone
    BY DEF CallInv, TypeInv, SelfOK, Disciplined, Solo
  <1>2. \A g \in Handlers \ {h} : call[g] = "none"
    BY <1>1 DEF CallInv, ByItself
  <1> QED
    BY <1>2, Idles DEF Rest

LEMMA LoneIs ==
  ASSUME CallInv, Disciplined, Lasting, NEW h \in Handlers, call[h] \in Solo
  PROVE  Lone(h)
  <1>1. Rest(h)
    BY SoloIs
  <1>2. pc[h] \notin Tidying
    BY WhoIsAt DEF Lasting, Tidying, Solo
  <1>3. \A g \in Handlers : pc[g] # "tidyLetters" /\ (pc[g] \in Tidying \cup {"accepted"} => g = h /\ pc[g] = "accepted")
    BY <1>1, <1>2 DEF Rest, Tidying
  <1>4. \A g \in Handlers : Settles(g) => g = h
    BY <1>1 DEF Rest, Settles, MovesOn
  <1>5. app = "offer_sent" => Promised \/ Settles(h)
    BY <1>4 DEF Lasting, Cover
  <1>6. Billed => app \in Post \/ pc[h] = "accepted"
    BY <1>3 DEF Lasting, Bills
  <1> QED
    BY <1>3, <1>5, <1>6 DEF Lasting, Lone, Letterwise, WhilePending, WhileExpired, AtRest

LEMMA LoneEnough ==
  ASSUME NEW h \in Handlers, Rest(h), SameOthers(h), Lone(h)',
         pc'[h] \notin {"tidyLetters", "tidyBills", "reopen", "reopened", "putBack"},
         call'[h] \notin {"expire", "extend", "approve"}
  PROVE  Lasting'
  <1>1. \A g \in Handlers \ {h} : pc'[g] = "idle" /\ call'[g] = "none"
    BY DEF Rest, SameOthers
  <1>2. \A g \in Handlers \ {h} : (WhoseAt(g) /\ Sends(g) /\ Knows(g) /\ Relies(g))'
    BY <1>1 DEF WhoseAt, Sends, Knows, Relies, MovesOn, Signing, Turning, Extending
  <1>3. (WhoseAt(h) /\ Sends(h) /\ Knows(h) /\ Relies(h))'
    BY DEF Lone, Knows, Extending
  <1>4. Letterwise'
    BY <1>1 DEF Lone, Letterwise, WhilePending, WhileExpired, AtRest, Unsendable, TidiesAfter, Tidying
  <1>5. Lapses' /\ Reopens'
    BY <1>1 DEF Lapses, Reopens, Reviving
  <1>6. Bills' /\ Cover'
    BY DEF Lone, Bills, Cover
  <1> QED
    BY <1>2, <1>3, <1>4, <1>5, <1>6 DEF Lasting
-----------------------------------------------------------------------------
(* How a statement leaves the invocation, and the others as they were.       *)

LEMMA GotoIs ==
  ASSUME CallInv, NEW h \in Handlers, NEW l, Goto(h, l)
  PROVE  /\ pc'[h] = l /\ call'[h] = call[h] /\ sub'[h] = sub[h] /\ mem'[h] = mem[h]
         /\ SameOthers(h)
  BY DEF CallInv, TypeInv, SelfOK, Goto, SameOthers

LEMMA DoneIs ==
  ASSUME CallInv, NEW h \in Handlers, Done(h) \/ Throw(h)
  PROVE  pc'[h] = "idle" /\ call'[h] = "none" /\ SameOthers(h)
  BY DEF CallInv, TypeInv, SelfOK, Done, Throw, SameOthers

LEMMA ReadIs ==
  ASSUME CallInv, NEW h \in Handlers, NEW o, NEW l, Read(h, o, l)
  PROVE  /\ pc'[h] = l /\ call'[h] = call[h] /\ sub'[h] = o /\ mem'[h].app = mem[h].app
         /\ mem'[h].was = letter[o] /\ mem'[h].notify = mem[h].notify
         /\ SameOthers(h) /\ UNCHANGED <<app, letter, owed, sweep>>
  BY DEF CallInv, TypeInv, SelfOK, Read, SameOthers, db

LEMMA AgainIs ==
  ASSUME CallInv, NEW h \in Handlers, NEW l, pc' = [pc EXCEPT ![h] = l], UNCHANGED call
  PROVE  /\ pc'[h] = l /\ call'[h] = call[h]
         /\ \A g \in Handlers \ {h} : pc'[g] = pc[g] /\ call'[g] = call[g]
  BY DEF CallInv, TypeInv, SelfOK

\* The rows as an invocation that is beside nothing else leaves them.
Rows ==
  /\ OneInPlay /\ Unsent
  /\ app = "offer_pending_approval" => Fresh
  /\ app = "offer_expired" => Swept
  /\ app \in Resting => NonePassing
Here(h) == WhoseAt(h) /\ Sends(h) /\ Relies(h)

LEMMA Apart ==
  /\ "offer_sent" \notin Post \cup Resting \cup DraftFrom
  /\ "offer_expired" \notin Post \cup Resting \cup DraftFrom
  /\ "offer_pending_approval" \notin Post \cup Resting
  /\ Post \cap (Resting \cup DraftFrom) = {}
  /\ DraftFrom = {"approved", "offer_draft", "offer_pending_approval"}
  BY DEF Post, Resting, DraftFrom

LEMMA Statuses ==
  /\ Open = {"sent", "viewed"} /\ Passing = {"sent", "viewed", "expired"}
  /\ InPlay = {"draft", "pending_approval", "sent", "viewed", "expired"}
  /\ Live = {"draft", "pending_approval", "sent", "viewed"}
  /\ Unready = {"none", "draft", "pending_approval"}
  BY DEF Open, Passing, InPlay, Live, Unready

LEMMA LoneRows ==
  ASSUME NEW h, Lone(h), pc[h] # "accepted"
  PROVE  Rows /\ (Billed => app \in Post)
  BY DEF Lone, Rows

LEMMA SameRows ==
  ASSUME Rows, UNCHANGED <<app, letter, sweep>>
  PROVE  Rows'
  BY DEF Rows, OneInPlay, Unsent, Fresh, Swept, NonePassing

\* A status that says nothing of the letters.
LEMMA RowsUnder ==
  ASSUME Rows, UNCHANGED <<letter, sweep>>,
         app' \notin Resting \cup {"offer_pending_approval", "offer_expired"}
  PROVE  Rows'
  BY DEF Rows, OneInPlay, Unsent

LEMMA RowsRest ==
  ASSUME Rows, NonePassing, UNCHANGED <<letter, sweep>>, app' \in Resting
  PROVE  Rows'
  BY Apart DEF Rows, OneInPlay, Unsent, NonePassing

LEMMA SameBilled == UNCHANGED owed => Billed' = Billed
  BY DEF Billed

LEMMA SamePromise ==
  UNCHANGED <<letter, sweep>> => Promised' = Promised /\ SomeOpen' = SomeOpen /\ NonePassing' = NonePassing
  BY DEF Promised, SomeOpen, NonePassing

LEMMA AtEnd ==
  ASSUME CallInv, NEW h \in Handlers, Done(h) \/ Throw(h)
  PROVE  Here(h)' /\ SameOthers(h)
  <1>1. pc'[h] = "idle" /\ call'[h] = "none" /\ SameOthers(h)
    BY DoneIs
  <1> QED
    BY <1>1 DEF Here, WhoseAt, Sends, Relies, MovesOn, Signing, Turning, Solo

LEMMA LoneEnd ==
  ASSUME CallInv, NEW h \in Handlers, Done(h) \/ Throw(h), Rows',
         (Billed => app \in Post)', (app = "offer_sent" => Promised)'
  PROVE  Lone(h)' /\ SameOthers(h)
  BY AtEnd DEF Lone, Rows, Here

\* A statement that only reads, or is refused.
LEMMA LoneOn ==
  ASSUME NEW h \in Handlers, Lone(h), pc[h] # "accepted", UNCHANGED <<app, letter, owed, sweep>>,
         Here(h)', app = "offer_sent" => Promised \/ Settles(h)'
  PROVE  Lone(h)'
  BY LoneRows, SameRows, SameBilled, SamePromise DEF Lone, Rows, Here

LEMMA LoneStop ==
  ASSUME CallInv, NEW h \in Handlers, Lone(h), pc[h] # "accepted",
         UNCHANGED <<app, letter, owed, sweep>>, Done(h) \/ Throw(h),
         app = "offer_sent" => Promised
  PROVE  Lone(h)' /\ SameOthers(h)
  BY LoneOn, AtEnd
-----------------------------------------------------------------------------
(* What is beside nothing else, statement by statement.                      *)

LEMMA LoneReadLive ==
  ASSUME CallInv, NEW h \in Handlers, Lone(h), ReadLive(h)
  PROVE  Lone(h)' /\ SameOthers(h)
  <1>0. UNCHANGED <<app, letter, owed, sweep>> /\ app \in DraftFrom /\ pc[h] = "draft"
    BY DEF ReadLive, db, Lone, Relies, At
  <1>1. CASE Throw(h)
    BY <1>0, <1>1, LoneStop, Apart
  <1>2. ASSUME NEW o \in Letters \cup {NoLetter}, NEW b \in BOOLEAN, UNCHANGED call,
               pc' = [pc EXCEPT ![h] = "write"], sub' = [sub EXCEPT ![h] = o],
               mem' = [mem EXCEPT ![h] = [@ EXCEPT !.priced = b]],
               o # NoLetter => letter[o] \in {"draft", "pending_approval"}
        PROVE  Lone(h)' /\ SameOthers(h)
    <2>1. /\ pc'[h] = "write" /\ call'[h] = call[h] /\ sub'[h] = o /\ SameOthers(h)
          /\ mem'[h].notify = mem[h].notify
      <3>1. mem[h] \in Memory
        BY DEF CallInv, TypeInv, SelfOK
      <3>2. mem'[h].notify = mem[h].notify
        BY <1>2, <3>1 DEF CallInv, TypeInv, SelfOK, Memory
      <3> QED
        BY <1>2, <3>2 DEF CallInv, TypeInv, SelfOK, SameOthers
    <2>2. Here(h)'
      BY <1>0, <1>2, <2>1 DEF Here, WhoseAt, Sends, Relies, Signing, Turning, MovesOn, Lone
    <2> QED
      BY <1>0, <2>1, <2>2, LoneOn, Apart
  <1>3. PICK b \in BOOLEAN :
          \/ \E o \in Letters :
               /\ letter[o] \in Live
               /\ IF letter[o] \in Open THEN Throw(h)
                  ELSE /\ pc' = [pc EXCEPT ![h] = "write"] /\ sub' = [sub EXCEPT ![h] = o]
                       /\ mem' = [mem EXCEPT ![h] = [@ EXCEPT !.priced = b]]
                       /\ UNCHANGED call
          \/ /\ pc' = [pc EXCEPT ![h] = "write"] /\ sub' = [sub EXCEPT ![h] = NoLetter]
             /\ mem' = [mem EXCEPT ![h] = [@ EXCEPT !.priced = b]]
             /\ UNCHANGED call
    BY DEF ReadLive
  <1>4. CASE /\ pc' = [pc EXCEPT ![h] = "write"] /\ sub' = [sub EXCEPT ![h] = NoLetter]
             /\ mem' = [mem EXCEPT ![h] = [@ EXCEPT !.priced = b]]
             /\ UNCHANGED call
    BY <1>2, <1>4
  <1>5. ASSUME NEW o \in Letters, letter[o] \in Live,
               IF letter[o] \in Open THEN Throw(h)
               ELSE /\ pc' = [pc EXCEPT ![h] = "write"] /\ sub' = [sub EXCEPT ![h] = o]
                    /\ mem' = [mem EXCEPT ![h] = [@ EXCEPT !.priced = b]]
                    /\ UNCHANGED call
        PROVE  Lone(h)' /\ SameOthers(h)
    <2>1. letter[o] \in Open \/ letter[o] \in {"draft", "pending_approval"}
      BY <1>5, Statuses
    <2> QED
      BY <1>1, <1>2, <1>5, <2>1
  <1> QED
    BY <1>3, <1>4, <1>5

LEMMA LoneWrite ==
  ASSUME CallInv, NEW h \in Handlers, Lone(h), Write(h)
  PROVE  Lone(h)' /\ SameOthers(h)
  <1>0. UNCHANGED <<app, owed, sweep>> /\ app \in DraftFrom /\ pc[h] = "write"
    BY DEF Write, Lone, Relies, At
  <1>a. Rows /\ ~Billed /\ app # "offer_sent"
    BY <1>0, LoneRows, Apart
  <1>1. CASE Throw(h) /\ UNCHANGED letter
    BY <1>0, <1>1, LoneStop, Apart
  <1>2. ASSUME NEW o \in Letters, WriteLetter(h, o), OnlyLive(o), letter[o] \in Unready
        PROVE  Lone(h)' /\ SameOthers(h)
    <2>1. /\ pc'[h] \in {"toDraft", "toQueue"} /\ call'[h] = call[h] /\ SameOthers(h)
          /\ mem'[h].notify = mem[h].notify
      BY <1>2 DEF WriteLetter, CallInv, TypeInv, SelfOK, SameOthers
    <2>2. letter'[o] \in {"draft", "pending_approval"} /\ \A q \in Letters \ {o} : letter'[q] = letter[q]
      BY <1>2 DEF WriteLetter, Drafted, CallInv, TypeInv, DbOK
    <2>3. Here(h)'
      BY <1>0, <2>1 DEF Here, WhoseAt, Sends, Relies, Signing, Turning, MovesOn, Lone
    <2>4. \A q \in Letters \ {o} : letter[q] \notin InPlay
      <3>1. \A q \in Letters : letter[q] # "expired"
        BY <1>0, <1>a, Apart, Statuses DEF Rows, Fresh, NonePassing, Resting
      <3> QED
        BY <1>2, <3>1 DEF OnlyLive, InPlay
    <2>5. OneInPlay'
      BY <2>2, <2>4 DEF OneInPlay
    <2>6. Unsent'
      BY <1>0, <1>2, <1>a, <2>2 DEF Rows, Unsent
    <2>7. (app = "offer_pending_approval" => Fresh)' /\ (app \in Resting => NonePassing)'
      BY <1>0, <1>a, <2>2, Statuses DEF Rows, Fresh, NonePassing
    <2>8. Rows' /\ ~Billed'
      BY <1>0, <1>a, <2>5, <2>6, <2>7, SameBilled, Apart DEF Rows
    <2> QED
      BY <1>0, <1>a, <2>1, <2>3, <2>8 DEF Lone, Rows, Here
  <1>3. sub[h] # NoLetter => sub[h] \in Letters /\ letter[sub[h]] \in Unready
    BY <1>0, Statuses DEF Lone, Relies, CallInv, TypeInv, SelfOK
  <1>4. "none" \in Unready
    BY Statuses
  <1> QED
    BY <1>1, <1>2, <1>3, <1>4 DEF Write

LEMMA LoneToDraft ==
  ASSUME CallInv, NEW h \in Handlers, Lone(h), ToDraft(h)
  PROVE  Lone(h)' /\ SameOthers(h)
  <1>0. UNCHANGED <<letter, owed, sweep>> /\ app \in DraftFrom /\ pc[h] = "toDraft"
    BY DEF ToDraft, Lone, Relies, At
  <1>a. Rows /\ ~Billed /\ app # "offer_sent"
    BY <1>0, LoneRows, Apart
  <1>1. CASE Commit("approved", "offer_draft") /\ Goto(h, "toQueue")
    <2>1. Rows'
      BY <1>0, <1>1, <1>a, RowsRest DEF Commit, Rows, Resting
    <2>2. Here(h)' /\ SameOthers(h)
      BY <1>1, GotoIs DEF Here, WhoseAt, Sends, Relies, Signing, Turning, MovesOn, Lone, Commit, DraftFrom
    <2> QED
      BY <1>0, <1>1, <1>a, <2>1, <2>2, SameBilled DEF Lone, Rows, Here, Commit
  <1>2. CASE Throw(h) /\ UNCHANGED app
    BY <1>0, <1>2, LoneStop, Apart
  <1> QED
    BY <1>1, <1>2 DEF ToDraft, Conflict

LEMMA LoneToQueue ==
  ASSUME CallInv, NEW h \in Handlers, Lone(h), ToQueue(h), Disciplined
  PROVE  Lone(h)' /\ SameOthers(h)
  <1>0. UNCHANGED <<letter, owed, sweep>> /\ app \in DraftFrom /\ pc[h] = "toQueue"
    BY DEF ToQueue, Lone, Relies, At
  <1>a. Rows /\ ~Billed
    BY <1>0, LoneRows, Apart
  <1>1. Rows' /\ ~Billed' /\ app' \in DraftFrom
    <2>1. CASE UNCHANGED app
      BY <1>0, <1>a, <2>1, SameRows, SameBilled
    <2>2. CASE Commit("offer_draft", "offer_pending_approval")
      <3>1. NonePassing
        BY <1>a, <2>2 DEF Commit, Rows, Resting
      <3>2. Fresh' /\ OneInPlay' /\ Unsent'
        BY <1>0, <1>a, <3>1, Statuses DEF NonePassing, Fresh, Rows, OneInPlay, Unsent
      <3> QED
        BY <1>0, <1>a, <2>2, <3>2, SameBilled, Apart DEF Commit, Rows
    <2> QED
      BY <2>1, <2>2 DEF ToQueue, Conflict
  <1>2. app' # "offer_sent" /\ app' \notin Post
    BY <1>1, Apart
  <1>3. CASE Throw(h) \/ Done(h)
    BY <1>1, <1>2, <1>3, LoneEnd
  <1>4. CASE Goto(h, "check") /\ mem[h].notify /\ app' = "offer_pending_approval"
    <2>1. Here(h)' /\ SameOthers(h)
      BY <1>4, GotoIs DEF Here, WhoseAt, Sends, Relies, Signing, Turning, MovesOn, Lone
    <2> QED
      BY <1>1, <1>2, <2>1 DEF Lone, Rows, Here
  <1>5. CASE Goto(h, "reload")
    <2>1. Here(h)' /\ SameOthers(h)
      BY <1>2, <1>5, GotoIs DEF Here, WhoseAt, Sends, Relies, Signing, Turning, MovesOn, Lone
    <2> QED
      BY <1>1, <1>2, <2>1 DEF Lone, Rows, Here
  <1> QED
    BY <1>3, <1>4, <1>5 DEF ToQueue, Return, Commit

LEMMA LoneCheck ==
  ASSUME CallInv, NEW h \in Handlers, Lone(h), call[h] \in Solo, Check(h)
  PROVE  Lone(h)' /\ SameOthers(h)
  <1>0. UNCHANGED <<app, letter, owed, sweep>> /\ app = "offer_pending_approval" /\ pc[h] = "check"
    BY DEF Check, Lone, Relies, At, db
  <1>1. CASE Throw(h)
    BY <1>0, <1>1, LoneStop
  <1>2. CASE Goto(h, "send") /\ letter[sub[h]] = "pending_approval"
    <2>1. call[h] \in {"draft", "draftOn"}
      <3>1. call[h] \in Drafting
        BY <1>0, DraftsAre
      <3> QED
        BY <3>1 DEF Drafting, Solo
    <2>2. Here(h)' /\ SameOthers(h)
      BY <1>0, <1>2, <2>1, GotoIs DEF Here, WhoseAt, Sends, Relies, Signing, Turning, MovesOn, Lone
    <2> QED
      BY <1>0, <2>2, LoneOn
  <1> QED
    BY <1>1, <1>2 DEF Check

LEMMA LoneReadToApprove ==
  ASSUME CallInv, NEW h \in Handlers, Lone(h), call[h] \in Solo, ReadToApprove(h)
  PROVE  Lone(h)' /\ SameOthers(h)
  <1>0. /\ pc[h] = "letter" /\ MovesOn(h) /\ mem[h].app = "offer_pending_approval"
        /\ app = "offer_pending_approval"
    BY DEF ReadToApprove, At, Solo, Lone, Relies
  <1>1. CASE Throw(h) /\ UNCHANGED db
    BY <1>0, <1>1, LoneStop DEF db
  <1>2. ASSUME NEW o \in Letters, letter[o] = "pending_approval", Read(h, o, "send")
        PROVE  Lone(h)' /\ SameOthers(h)
    <2>1. /\ pc'[h] = "send" /\ call'[h] = call[h] /\ sub'[h] = o /\ mem'[h].app = mem[h].app
          /\ mem'[h].notify = mem[h].notify /\ SameOthers(h) /\ UNCHANGED <<app, letter, owed, sweep>>
      BY <1>2, ReadIs
    <2>2. Here(h)'
      BY <1>0, <1>2, <2>1 DEF Here, WhoseAt, Sends, Relies, Signing, Turning, MovesOn, Lone
    <2> QED
      BY <1>0, <2>1, <2>2, LoneOn
  <1> QED
    BY <1>1, <1>2 DEF ReadToApprove

\* A statement that takes the letter of the invocation from one status to
\* the next.
LEMMA Turns ==
  ASSUME Rows, NEW o \in Letters, letter[o] \in InPlay, UNCHANGED <<app, sweep>>,
         \A q \in Letters \ {o} : letter'[q] = letter[q],
         letter'[o] \notin InPlay \cup {"none"}
  PROVE  Rows' /\ NonePassing'
  <1>1. \A q \in Letters : letter'[q] \in InPlay => FALSE
    BY DEF Rows, OneInPlay
  <1>2. NonePassing' /\ OneInPlay'
    BY <1>1, Statuses DEF NonePassing, OneInPlay
  <1>3. Fresh' /\ Swept'
    BY <1>1, Statuses DEF Fresh, Swept
  <1>4. Unsent'
    BY Statuses DEF Rows, Unsent
  <1> QED
    BY <1>2, <1>3, <1>4 DEF Rows

LEMMA RewriteOne ==
  ASSUME CallInv, NEW o \in Letters, NEW S, NEW s, Rewrite({o}, S, s)
  PROVE  /\ letter'[o] = IF letter[o] \in S THEN s ELSE letter[o]
         /\ \A q \in Letters \ {o} : letter'[q] = letter[q]
  BY DEF Rewrite

LEMMA SubIs ==
  ASSUME CallInv, NEW h \in Handlers, pc[h] \in LetterAt
  PROVE  sub[h] \in Letters
  BY DEF CallInv, TypeInv, Known

LEMMA LoneSend ==
  ASSUME CallInv, NEW h \in Handlers, Lone(h), call[h] \in Solo, Send(h)
  PROVE  Lone(h)' /\ SameOthers(h)
  <1>0. pc[h] = "send" /\ app = "offer_pending_approval" /\ UNCHANGED <<app, owed, sweep>> /\ sub[h] \in Letters
    BY SubIs DEF Send, At, Lone, Relies, LetterAt
  <1>1. /\ letter'[sub[h]] = IF letter[sub[h]] = "pending_approval" THEN "sent" ELSE letter[sub[h]]
        /\ \A q \in Letters \ {sub[h]} : letter'[q] = letter[q]
    BY <1>0, RewriteOne DEF Send
  <1>2. /\ pc'[h] = "announce" /\ call'[h] = call[h] /\ sub'[h] = sub[h] /\ mem'[h] = mem[h] /\ SameOthers(h)
    BY GotoIs DEF Send
  <1>3. letter'[sub[h]] \in Open
    BY <1>0, <1>1, Statuses DEF Lone, Sends
  <1>4. Here(h)'
    BY <1>0, <1>2, <1>3 DEF Here, WhoseAt, Sends, Relies, Signing, Turning, MovesOn, Lone
  <1>5. Rows'
    BY <1>0, <1>1, Statuses, Apart DEF Lone, Rows, OneInPlay, Unsent, Fresh
  <1>6. ~Billed'
    BY <1>0, SameBilled, Apart DEF Lone
  <1> QED
    BY <1>0, <1>2, <1>4, <1>5, <1>6 DEF Lone, Rows, Here

LEMMA LoneAnnounce ==
  ASSUME CallInv, NEW h \in Handlers, Lone(h), call[h] \in Solo, Announce(h)
  PROVE  Lone(h)' /\ SameOthers(h)
  <1>0. pc[h] = "announce" /\ app = "offer_pending_approval" /\ sub[h] \in Letters /\ letter[sub[h]] \in Open
    BY SubIs DEF Announce, At, Lone, Relies, Sends, LetterAt
  <1>1. /\ app' = "offer_sent" /\ Return(h) /\ UNCHANGED <<letter, owed>>
        /\ sweep' = [sweep EXCEPT ![sub[h]] = @ \/ mem[h].notify]
    BY <1>0 DEF Announce, Commit, Conflict
  <1>2. Rows' /\ ~Billed'
    <2>1. \A q \in Letters : q # sub[h] => sweep'[q] = sweep[q]
      BY <1>1 DEF CallInv, TypeInv, DbOK
    <2>2. Unsent'
      BY <1>0, <1>1, <2>1, Statuses DEF Lone, Unsent
    <2> QED
      BY <1>0, <1>1, <2>2, SameBilled, Apart DEF Lone, Rows, OneInPlay
  <1>3. SomeOpen' /\ (mem[h].notify => Promised')
    BY <1>0, <1>1 DEF SomeOpen, Promised, CallInv, TypeInv, DbOK
  <1>4. CASE MovesOn(h)
    <2>1. Goto(h, "reload") /\ mem[h].app = "offer_pending_approval"
      BY <1>0, <1>1, <1>4 DEF Return, Lone, Relies
    <2>2. Here(h)' /\ SameOthers(h) /\ Settles(h)'
      BY <1>3, <1>4, <2>1, GotoIs
         DEF Here, WhoseAt, Sends, Relies, Signing, Turning, MovesOn, Lone, Settles
    <2> QED
      BY <1>2, <2>2 DEF Lone, Rows, Here
  <1>5. CASE ~MovesOn(h)
    <2>1. Promised' /\ Done(h)
      BY <1>0, <1>1, <1>3, <1>5 DEF Return, Lone, Sends
    <2> QED
      BY <1>2, <2>1, LoneEnd
  <1> QED
    BY <1>4, <1>5
-----------------------------------------------------------------------------
(* The letter taken back by Move to stage.                                   *)

\* Move to stage goes on from these statuses alone.
LEMMA MovesFrom ==
  ASSUME CallInv, NEW h \in Handlers, MovesOn(h)
  PROVE  mem[h].app \in { "offer_expired", "offer_declined", "approved", "offer_draft",
                          "offer_pending_approval", "offer_sent" }
  <1>1. Rank(mem[h].app) > 0
    <2>1. \A n \in Nat : n > 3 => n > 0
      OBVIOUS
    <2> QED
      BY <2>1, RankIs DEF CallInv, Knew, Read1, MovesOn
  <1> QED
    BY <1>1, RankIs

LEMMA LonePull ==
  ASSUME CallInv, NEW h \in Handlers, Lone(h), MovesOn(h), Pull(h)
  PROVE  Lone(h)' /\ SameOthers(h)
  <1>0. pc[h] = "pull" /\ UNCHANGED <<app, owed, sweep>> /\ sub[h] \in Letters /\ letter[sub[h]] \in Passing
    BY SubIs DEF Pull, At, Lone, Relies, LetterAt
  <1>1. letter'[sub[h]] = "withdrawn" /\ \A q \in Letters \ {sub[h]} : letter'[q] = letter[q]
    BY <1>0, RewriteOne, Statuses DEF Pull
  <1>2. Rows' /\ NonePassing'
    <2>1. Rows
      BY DEF Lone, Rows
    <2> QED
      BY <1>0, <1>1, <2>1, Turns, Statuses
  <1>3. /\ pc'[h] = "pulled" /\ call'[h] = call[h] /\ sub'[h] = sub[h] /\ mem'[h] = mem[h] /\ SameOthers(h)
    BY GotoIs DEF Pull
  <1>4. Here(h)' /\ Settles(h)'
    BY <1>0, <1>2, <1>3 DEF Here, WhoseAt, Sends, Relies, Signing, Turning, MovesOn, Lone, Settles
  <1> QED
    BY <1>0, <1>2, <1>3, <1>4, SameBilled DEF Lone, Rows, Here

LEMMA LonePulled ==
  ASSUME CallInv, NEW h \in Handlers, Lone(h), MovesOn(h), Pulled(h)
  PROVE  Lone(h)' /\ SameOthers(h)
  <1>0. pc[h] = "pulled" /\ app = mem[h].app /\ NonePassing
    BY DEF Pulled, At, Lone, Relies
  <1>1. app' = "offer_draft" /\ Goto(h, "reload") /\ UNCHANGED <<letter, owed, sweep>>
    BY <1>0 DEF Pulled, Commit, Conflict, Return
  <1>2. app \notin Post
    BY <1>0, MovesFrom DEF Post
  <1>3. Rows' /\ ~Billed'
    BY <1>0, <1>1, <1>2, RowsRest, SameBilled, LoneRows DEF Resting
  <1>4. Here(h)' /\ SameOthers(h)
    BY <1>1, GotoIs DEF Here, WhoseAt, Sends, Relies, Signing, Turning, MovesOn, Lone
  <1> QED
    BY <1>1, <1>3, <1>4 DEF Lone, Rows, Here
-----------------------------------------------------------------------------
(* The answer, the family's own or on its behalf.                            *)

\* An acceptance that is refused ends, or takes back the letter it approved.
LEMMA LoneThrown ==
  ASSUME CallInv, NEW h \in Handlers, Lone(h), pc[h] # "accepted", ThrowAnswer(h),
         UNCHANGED <<app, letter, owed, sweep>>,
         \/ app \in Post
         \/ /\ app = "offer_sent" /\ letter[sub[h]] \in Open
            /\ IF MovesOn(h) THEN mem[h].app = "offer_sent" ELSE Promised
  PROVE  Lone(h)' /\ SameOthers(h)
  <1>1. CASE MovesOn(h)
    <2>1. Here(h)' /\ SameOthers(h) /\ Settles(h)'
      BY <1>1, GotoIs
         DEF ThrowAnswer, Here, WhoseAt, Sends, Relies, Signing, Turning, MovesOn, Lone, Settles
    <2> QED
      BY <2>1, LoneOn
  <1>2. CASE ~MovesOn(h)
    <2>1. Done(h) /\ (app = "offer_sent" => Promised)
      BY <1>2, Apart DEF ThrowAnswer
    <2> QED
      BY <2>1, LoneStop
  <1> QED
    BY <1>1, <1>2

LEMMA LoneReadToAnswer ==
  ASSUME CallInv, NEW h \in Handlers, Lone(h), ReadToAnswer(h)
  PROVE  Lone(h)' /\ SameOthers(h)
  <1>0. /\ pc[h] = "letter" /\ call[h] \in {"accept", "decline"} /\ app = "offer_sent" /\ Promised
    BY DEF ReadToAnswer, At, Lone, Relies, Settles, MovesOn
  <1>1. CASE Throw(h) /\ UNCHANGED db
    BY <1>0, <1>1, LoneStop DEF db
  <1>2. ASSUME NEW o \in Letters, letter[o] \in Open,
               Read(h, o, IF call[h] = "accept" THEN "sign" ELSE "refuse")
        PROVE  Lone(h)' /\ SameOthers(h)
    <2>1. /\ pc'[h] = (IF call[h] = "accept" THEN "sign" ELSE "refuse")
          /\ call'[h] = call[h] /\ sub'[h] = o /\ mem'[h].app = mem[h].app
          /\ mem'[h].notify = mem[h].notify /\ SameOthers(h) /\ UNCHANGED <<app, letter, owed, sweep>>
      BY <1>2, ReadIs
    <2>2. Here(h)'
      BY <1>0, <1>2, <2>1 DEF Here, WhoseAt, Sends, Relies, Signing, Turning, MovesOn
    <2> QED
      BY <1>0, <2>1, <2>2, LoneOn
  <1> QED
    BY <1>1, <1>2 DEF ReadToAnswer, OfferIsOpen

LEMMA LoneSign ==
  ASSUME CallInv, NEW h \in Handlers, Lone(h), Sign(h)
  PROVE  Lone(h)' /\ SameOthers(h)
  <1>0. /\ pc[h] = "sign" /\ app = "offer_sent" /\ letter[sub[h]] \in Open
        /\ IF MovesOn(h) THEN mem[h].app = "offer_sent" ELSE Promised
        /\ UNCHANGED <<app, letter, owed, sweep>>
    BY DEF Sign, At, Lone, Relies, Settles
  <1>1. CASE ThrowAnswer(h)
    BY <1>0, <1>1, LoneThrown
  <1>2. CASE Goto(h, "flip")
    <2>1. Here(h)' /\ SameOthers(h) /\ (MovesOn(h) => Settles(h)')
      BY <1>0, <1>2, GotoIs
         DEF Here, WhoseAt, Sends, Relies, Signing, Turning, MovesOn, Lone, Settles
    <2> QED
      BY <1>0, <2>1, LoneOn
  <1> QED
    BY <1>1, <1>2 DEF Sign

LEMMA LoneFlip ==
  ASSUME CallInv, NEW h \in Handlers, Lone(h), Flip(h)
  PROVE  Lone(h)' /\ SameOthers(h)
  <1>0. /\ pc[h] = "flip" /\ app = "offer_sent" /\ letter[sub[h]] \in Open /\ sub[h] \in Letters
        /\ UNCHANGED <<app, owed, sweep>>
    BY SubIs DEF Flip, At, Lone, Relies, LetterAt
  <1>1. letter' = [letter EXCEPT ![sub[h]] = "accepted"] /\ Goto(h, "bill")
    BY <1>0 DEF Flip
  <1>2. letter'[sub[h]] = "accepted" /\ \A q \in Letters \ {sub[h]} : letter'[q] = letter[q]
    BY <1>0, <1>1 DEF CallInv, TypeInv, DbOK
  <1>3. Rows' /\ NonePassing'
    <2>1. Rows
      BY DEF Lone, Rows
    <2> QED
      BY <1>0, <1>2, <2>1, Turns, Statuses
  <1>4. Here(h)' /\ SameOthers(h) /\ Settles(h)'
    BY <1>0, <1>1, <1>3, GotoIs
       DEF Here, WhoseAt, Sends, Relies, Signing, Turning, MovesOn, Lone, Settles
  <1> QED
    BY <1>0, <1>3, <1>4, SameBilled DEF Lone, Rows, Here

LEMMA LoneBill ==
  ASSUME CallInv, NEW h \in Handlers, Lone(h), Bill(h)
  PROVE  Lone(h)' /\ SameOthers(h)
  <1>0. /\ pc[h] = "bill" /\ app = "offer_sent" /\ NonePassing /\ ~Billed
        /\ UNCHANGED <<app, letter, sweep>>
    BY Apart DEF Bill, At, Lone, Relies
  <1>1. Goto(h, "accepted")
    BY <1>0 DEF Bill, Billed
  <1>2. Here(h)' /\ SameOthers(h) /\ Settles(h)' /\ pc'[h] = "accepted"
    BY <1>0, <1>1, GotoIs, SamePromise
       DEF Here, WhoseAt, Sends, Relies, Signing, Turning, MovesOn, Lone, Settles
  <1>3. Rows'
    <2>1. Rows
      BY DEF Lone, Rows
    <2> QED
      BY <1>0, <2>1, SameRows
  <1> QED
    BY <1>2, <1>3 DEF Lone, Rows, Here

LEMMA LoneAccepted ==
  ASSUME CallInv, NEW h \in Handlers, Lone(h), Accepted(h)
  PROVE  Lone(h)' /\ SameOthers(h)
  <1>0. pc[h] = "accepted" /\ app = "offer_sent" /\ UNCHANGED <<letter, owed, sweep>>
    BY DEF Accepted, At, Lone, Relies
  <1>1. app' = "offer_accepted" /\ Goto(h, "ask")
    BY <1>0 DEF Accepted, Commit, Conflict
  <1>2. Here(h)' /\ SameOthers(h)
    BY <1>0, <1>1, GotoIs DEF Here, WhoseAt, Sends, Relies, Signing, Turning, MovesOn, Lone, Post
  <1>3. Rows'
    <2>1. Rows
      BY DEF Lone, Rows
    <2> QED
      BY <1>0, <1>1, <2>1, RowsUnder DEF Resting
  <1> QED
    BY <1>1, <1>2, <1>3 DEF Lone, Rows, Here, Post

\* Once the answer is in, the invocation only goes on with the payment.
LEMMA LonePost ==
  ASSUME CallInv, NEW h \in Handlers, Lone(h), call[h] \in {"accept", "moveOn", "draftOn"},
         app' \in Post, UNCHANGED <<letter, sweep>>, pc[h] # "accepted",
         NEW l \in {"ask", "credit", "settle", "openUp", "rescue", "reload"}, Goto(h, l) \/ Done(h)
  PROVE  Lone(h)' /\ SameOthers(h)
  <1>1. Rows'
    BY LoneRows, RowsUnder, Apart
  <1>2. app' # "offer_sent"
    BY Apart
  <1>3. Here(h)' /\ SameOthers(h)
    <2>1. CASE Goto(h, l)
      BY <1>2, <2>1, GotoIs DEF Here, WhoseAt, Sends, Relies, Signing, Turning, MovesOn, Lone
    <2> QED
      BY <2>1, AtEnd
  <1> QED
    BY <1>1, <1>2, <1>3 DEF Lone, Rows, Here

LEMMA LoneAsks ==
  ASSUME CallInv, NEW h \in Handlers, Lone(h), Ask(h) \/ Credit(h) \/ Settle(h) \/ OpenUp(h)
  PROVE  Lone(h)' /\ SameOthers(h)
  <1>1. pc[h] \in {"ask", "credit", "settle", "openUp"} /\ UNCHANGED <<letter, sweep>>
    BY DEF Ask, Credit, Settle, OpenUp, At
  <1>2. app \in Post /\ call[h] \in {"accept", "moveOn", "draftOn"}
    BY <1>1 DEF Lone, Relies, WhoseAt, Signing
  <1>3. app' \in Post
    BY <1>2 DEF Ask, Credit, Settle, OpenUp, Commit, Conflict, Post
  <1>4. \E l \in {"ask", "credit", "settle", "openUp", "rescue", "reload"} : Goto(h, l) \/ Done(h)
    BY DEF Ask, Credit, Settle, OpenUp, Return, ThrowAnswer
  <1> QED
    BY <1>1, <1>2, <1>3, <1>4, LonePost

LEMMA LoneRefuse ==
  ASSUME CallInv, NEW h \in Handlers, Lone(h), Refuse(h)
  PROVE  Lone(h)' /\ SameOthers(h)
  <1>0. /\ pc[h] = "refuse" /\ call[h] = "decline" /\ app = "offer_sent" /\ letter[sub[h]] \in Open
        /\ Promised /\ UNCHANGED <<app, letter, owed, sweep>>
    BY DEF Refuse, At, Lone, Relies, Settles, MovesOn, WhoseAt, Turning
  <1>1. CASE Throw(h)
    BY <1>0, <1>1, LoneStop
  <1>2. CASE Goto(h, "turnDown")
    <2>1. Here(h)' /\ SameOthers(h)
      BY <1>0, <1>2, GotoIs DEF Here, WhoseAt, Sends, Relies, Signing, Turning, MovesOn, Lone
    <2> QED
      BY <1>0, <2>1, LoneOn
  <1> QED
    BY <1>1, <1>2 DEF Refuse

LEMMA LoneTurnDown ==
  ASSUME CallInv, NEW h \in Handlers, Lone(h), TurnDown(h)
  PROVE  Lone(h)' /\ SameOthers(h)
  <1>0. /\ pc[h] = "turnDown" /\ call[h] = "decline" /\ app = "offer_sent" /\ letter[sub[h]] \in Open
        /\ sub[h] \in Letters /\ UNCHANGED <<app, owed, sweep>>
    BY SubIs DEF TurnDown, At, Lone, Relies, LetterAt, WhoseAt, Turning
  <1>1. letter' = [letter EXCEPT ![sub[h]] = "declined"] /\ Goto(h, "declined")
    BY <1>0 DEF TurnDown
  <1>2. letter'[sub[h]] = "declined" /\ \A q \in Letters \ {sub[h]} : letter'[q] = letter[q]
    BY <1>0, <1>1 DEF CallInv, TypeInv, DbOK
  <1>3. Rows' /\ NonePassing'
    <2>1. Rows
      BY DEF Lone, Rows
    <2> QED
      BY <1>0, <1>2, <2>1, Turns, Statuses
  <1>4. Here(h)' /\ SameOthers(h) /\ Settles(h)'
    BY <1>0, <1>1, <1>3, GotoIs
       DEF Here, WhoseAt, Sends, Relies, Signing, Turning, MovesOn, Lone, Settles
  <1> QED
    BY <1>0, <1>3, <1>4, SameBilled DEF Lone, Rows, Here

LEMMA LoneDeclined ==
  ASSUME CallInv, NEW h \in Handlers, Lone(h), Declined(h)
  PROVE  Lone(h)' /\ SameOthers(h)
  <1>0. pc[h] = "declined" /\ app = "offer_sent" /\ NonePassing /\ UNCHANGED <<letter, owed, sweep>>
    BY DEF Declined, At, Lone, Relies
  <1>1. app' = "offer_declined" /\ Done(h)
    BY <1>0 DEF Declined, Commit, Conflict
  <1>2. Rows' /\ ~Billed'
    BY <1>0, <1>1, LoneRows, RowsRest, SameBilled, Apart DEF Resting
  <1> QED
    BY <1>1, <1>2, LoneEnd

LEMMA LoneAnswer ==
  ASSUME CallInv, NEW h \in Handlers, Lone(h), Answer(h)
  PROVE  Lone(h)' /\ SameOthers(h)
  <1>1. ~CancelBill(h)
    BY DEF CancelBill, At, Lone, Relies
  <1> QED
    BY <1>1, LoneReadToAnswer, LoneSign, LoneFlip, LoneBill, LoneAccepted, LoneAsks, LoneRefuse,
       LoneTurnDown, LoneDeclined DEF Answer
-----------------------------------------------------------------------------
(* Move to stage, from wherever the offer is, and the family that leaves.    *)

LEMMA LoneReload ==
  ASSUME CallInv, NEW h \in Handlers, Lone(h), MovesOn(h), Reload(h)
  PROVE  Lone(h)' /\ SameOthers(h)
  <1>0. pc[h] = "reload" /\ UNCHANGED <<app, letter, owed, sweep>>
    BY DEF Reload, At, db
  <1>1. CASE Rank(app) > Rank(mem[h].app)
    <2>1. /\ pc' = [pc EXCEPT ![h] = Stage(app)] /\ mem' = [mem EXCEPT ![h] = [@ EXCEPT !.app = app]]
          /\ sub' = [sub EXCEPT ![h] = NoLetter] /\ UNCHANGED call
      BY <1>1 DEF Reload
    <2>2. mem[h] \in Memory
      BY DEF CallInv, TypeInv, SelfOK
    <2>3. /\ pc'[h] = Stage(app) /\ call'[h] = call[h] /\ sub'[h] = NoLetter /\ SameOthers(h)
          /\ mem'[h].app = app /\ mem'[h].notify = mem[h].notify
      BY <2>1, <2>2 DEF CallInv, TypeInv, SelfOK, SameOthers, Memory
    <2>4. Rank(app) > 0
      BY <1>1, RankIs
    <2>5. /\ app \in { "offer_expired", "offer_declined", "approved", "offer_draft",
                       "offer_pending_approval", "offer_sent" }
          /\ Stage(app) = CASE app = "offer_expired" -> "reissue"
                            [] app = "offer_declined" -> "replace"
                            [] app \in {"approved", "offer_draft"} -> "draft"
                            [] app \in {"offer_pending_approval", "offer_sent"} -> "letter"
      BY <2>4 DEF Rank, Stage
    <2>6. app = "offer_sent" => SomeOpen'
      BY <1>0, SamePromise DEF Lone, Relies
    <2>7. Here(h)' /\ (app = "offer_sent" => Settles(h)')
      BY <1>0, <2>3, <2>5, <2>6
         DEF Here, WhoseAt, Sends, Relies, Signing, Turning, MovesOn, Lone, Settles, DraftFrom
    <2> QED
      BY <1>0, <2>3, <2>7, LoneOn
  <1>2. CASE ~(Rank(app) > Rank(mem[h].app))
    <2>1. app # "offer_sent"
      <3>1. SUFFICES ASSUME app = "offer_sent" PROVE FALSE
        OBVIOUS
      <3>2. mem[h].app # "offer_sent"
        BY <1>0, <3>1 DEF Lone, Relies
      <3> QED
        BY <1>2, <3>1, <3>2, MovesFrom DEF Rank
    <2>2. Done(h)
      BY <1>2 DEF Reload
    <2> QED
      BY <1>0, <2>1, <2>2, LoneStop
  <1> QED
    BY <1>1, <1>2

LEMMA LoneReissue ==
  ASSUME CallInv, NEW h \in Handlers, Lone(h), MovesOn(h), Reissue(h)
  PROVE  Lone(h)' /\ SameOthers(h)
  <1>0. pc[h] = "reissue" /\ mem[h].app = app /\ (app = "offer_sent" => Promised)
    BY DEF Reissue, At, Lone, Relies, Settles
  <1>1. CASE Throw(h) /\ UNCHANGED db
    BY <1>0, <1>1, LoneStop DEF db
  <1>2. ASSUME NEW o \in Letters, letter[o] \in Open \cup {"expired"}, Read(h, o, "pull")
        PROVE  Lone(h)' /\ SameOthers(h)
    <2>1. /\ pc'[h] = "pull" /\ call'[h] = call[h] /\ sub'[h] = o /\ mem'[h].app = mem[h].app
          /\ mem'[h].notify = mem[h].notify /\ SameOthers(h) /\ UNCHANGED <<app, letter, owed, sweep>>
      BY <1>2, ReadIs
    <2>2. Here(h)'
      BY <1>0, <1>2, <2>1 DEF Here, WhoseAt, Sends, Relies, Signing, Turning, MovesOn, Lone, Passing
    <2> QED
      BY <1>0, <2>1, <2>2, LoneOn
  <1> QED
    BY <1>1, <1>2 DEF Reissue, Newest

LEMMA LoneReplace ==
  ASSUME CallInv, NEW h \in Handlers, Lone(h), MovesOn(h), Replace(h)
  PROVE  Lone(h)' /\ SameOthers(h)
  <1>0. pc[h] = "replace" /\ (app = "offer_sent" => Promised) /\ UNCHANGED <<letter, owed, sweep>>
    BY DEF Replace, At, Lone, Settles
  <1>1. CASE Throw(h) /\ UNCHANGED app
    BY <1>0, <1>1, LoneStop
  <1>2. CASE Commit("offer_declined", "offer_draft") /\ Goto(h, "reload")
    <2>1. Rows' /\ ~Billed'
      BY <1>0, <1>2, LoneRows, RowsRest, SameBilled DEF Commit, Rows, Resting, Post
    <2>2. Here(h)' /\ SameOthers(h)
      BY <1>2, GotoIs DEF Here, WhoseAt, Sends, Relies, Signing, Turning, MovesOn, Lone, Commit
    <2> QED
      BY <1>2, <2>1, <2>2 DEF Lone, Rows, Here, Commit
  <1> QED
    BY <1>1, <1>2 DEF Replace, Return, Conflict

LEMMA LoneReadToSign ==
  ASSUME CallInv, NEW h \in Handlers, Lone(h), ReadToSign(h)
  PROVE  Lone(h)' /\ SameOthers(h)
  <1>0. pc[h] = "letter" /\ MovesOn(h) /\ mem[h].app = "offer_sent" /\ app = "offer_sent" /\ SomeOpen
    BY DEF ReadToSign, At, Lone, Relies
  <1>1. PICK o \in Letters : letter[o] \in Open /\ Read(h, o, IF past[o] THEN "rescue" ELSE "sign")
    BY <1>0 DEF ReadToSign, SomeOpen
  <1>2. /\ pc'[h] \in {"rescue", "sign"} /\ call'[h] = call[h] /\ sub'[h] = o /\ mem'[h].app = mem[h].app
        /\ mem'[h].notify = mem[h].notify /\ SameOthers(h) /\ UNCHANGED <<app, letter, owed, sweep>>
    BY <1>1, ReadIs
  <1>3. Here(h)' /\ Settles(h)'
    BY <1>0, <1>1, <1>2 DEF Here, WhoseAt, Sends, Relies, Signing, Turning, MovesOn, Lone, Settles
  <1> QED
    BY <1>0, <1>2, <1>3, LoneOn

LEMMA LoneRescue ==
  ASSUME CallInv, NEW h \in Handlers, Lone(h), MovesOn(h), Rescue(h)
  PROVE  Lone(h)' /\ SameOthers(h)
  <1>0. pc[h] = "rescue" /\ UNCHANGED <<app, letter, owed, sweep>>
    BY DEF Rescue, At, db
  <1>1. CASE app = "offer_sent" /\ letter[sub[h]] \in Open
    <2>1. Goto(h, "pull") /\ mem[h].app = app
      BY <1>0, <1>1, Apart DEF Rescue, Lone, Relies
    <2>2. Here(h)' /\ SameOthers(h) /\ Settles(h)'
      BY <1>0, <1>1, <2>1, GotoIs
         DEF Here, WhoseAt, Sends, Relies, Signing, Turning, MovesOn, Lone, Settles, Passing
    <2> QED
      BY <1>0, <2>2, LoneOn
  <1>2. CASE ~(app = "offer_sent" /\ letter[sub[h]] \in Open)
    <2>1. Throw(h) /\ app # "offer_sent"
      BY <1>0, <1>2, Apart DEF Rescue, Lone, Relies
    <2> QED
      BY <1>0, <2>1, LoneStop
  <1> QED
    BY <1>1, <1>2

LEMMA LoneLeaving ==
  ASSUME CallInv, NEW h \in Handlers, Lone(h), Leaving(h)
  PROVE  Lone(h)' /\ SameOthers(h)
  <1>0. /\ pc[h] \in {"leaveLetters", "leaveBills", "leave"}
        /\ app = "offer_sent" => mem[h].app = "offer_sent"
    BY DEF Leaving, LeaveLetters, LeaveBills, Leave, At, Lone, Relies
  <1>1. Rows /\ (Billed => app \in Post)
    BY <1>0, LoneRows
  <1>2. CASE LeaveLetters(h)
    <2>1. UNCHANGED <<app, owed, sweep>> /\ Goto(h, "leaveBills")
      BY <1>2 DEF LeaveLetters
    <2>2. \A o \in Letters : letter'[o] = IF letter[o] \in Live THEN "withdrawn" ELSE letter[o]
      BY <1>2 DEF LeaveLetters, Rewrite
    <2>3. Rows'
      BY <1>1, <2>1, <2>2, Statuses DEF Rows, OneInPlay, Unsent, Fresh, Swept, NonePassing
    <2>4. Here(h)' /\ SameOthers(h) /\ Settles(h)'
      BY <1>0, <2>1, GotoIs
         DEF Here, WhoseAt, Sends, Relies, Signing, Turning, MovesOn, Lone, Settles
    <2> QED
      BY <1>1, <2>1, <2>3, <2>4, SameBilled DEF Lone, Rows, Here
  <1>3. CASE LeaveBills(h)
    <2>1. UNCHANGED <<app, letter, sweep>> /\ Goto(h, "leave") /\ owed' = CancelBills
      BY <1>3 DEF LeaveBills
    <2>2. ~Billed'
      BY <2>1 DEF Billed, CancelBills, Unpaid
    <2>3. Here(h)' /\ SameOthers(h) /\ Settles(h)'
      BY <1>0, <2>1, GotoIs
         DEF Here, WhoseAt, Sends, Relies, Signing, Turning, MovesOn, Lone, Settles
    <2> QED
      BY <1>1, <2>1, <2>2, <2>3, SameRows DEF Lone, Rows, Here
  <1>4. CASE Leave(h)
    <2>1. UNCHANGED <<letter, owed, sweep>> /\ Done(h)
      BY <1>4 DEF Leave
    <2>2. CASE app' = "withdrawn"
      BY <1>1, <2>1, <2>2, RowsUnder, LoneEnd DEF Resting, Post
    <2>3. CASE Conflict(mem[h].app)
      BY <1>0, <2>1, <2>3, LoneStop DEF Conflict
    <2> QED
      BY <1>4, <2>2, <2>3 DEF Leave, Commit
  <1> QED
    BY <1>2, <1>3, <1>4 DEF Leaving

\* An invocation stays the one it is until it ends.
LEMMA StaysItself ==
  ASSUME CallInv, NEW h \in Handlers, Step(h)
  PROVE  call'[h] \in {call[h], "none"}
  <1>0. /\ UNCHANGED call => call'[h] = call[h]
        /\ Done(h) \/ Throw(h) => call'[h] = "none"
        /\ \A l : Goto(h, l) => call'[h] = call[h]
        /\ Return(h) \/ ThrowAnswer(h) => call'[h] \in {call[h], "none"}
        /\ \A o, l : Read(h, o, l) => call'[h] = call[h]
    BY DEF CallInv, TypeInv, SelfOK, Done, Throw, Goto, Return, ThrowAnswer, Read
  <1>1. CASE Draft(h)
    BY <1>0, <1>1 DEF Draft, ReadLive, Write, WriteLetter, ToDraft, ToQueue
  <1>2. CASE Approve(h) \/ ReadToView(h) \/ View(h)
    BY <1>0, <1>2 DEF Approve, ReadToApprove, Check, Send, Announce, ReadToView, View
  <1>3. CASE Lapsing(h) \/ Withdraw(h)
    BY <1>0, <1>3 DEF Lapsing, ReadAppToExpire, Lapse, Expired, Withdraw, ReadToWithdraw, Pull, Pulled
  <1>4. CASE Answer(h)
    BY <1>0, <1>4 DEF Answer, ReadToAnswer, Sign, Flip, Bill, Accepted, CancelBill, Ask, Credit,
                      Settle, OpenUp, Refuse, TurnDown, Declined
  <1>5. CASE Extend(h) \/ MoveBack(h)
    BY <1>0, <1>5 DEF Extend, ReadToExtend, Reopen, Reopened, PutBack, MoveBack, Move, TidyLetters,
                      TidyBills
  <1>6. CASE MoveOn(h) \/ Leaving(h)
    BY <1>0, <1>6 DEF MoveOn, Reload, Reissue, Replace, ReadToSign, Rescue, Leaving, LeaveLetters,
                      LeaveBills, Leave
  <1> QED
    BY <1>1, <1>2, <1>3, <1>4, <1>5, <1>6 DEF Step

\* Whatever it does, what the letters and the status promise is kept.
LEMMA SoloStep ==
  ASSUME CallInv, Disciplined, Lasting, NEW h \in Handlers, call[h] \in Solo, Step(h)
  PROVE  Lasting'
  <1>0. Lone(h) /\ Rest(h)
    BY LoneIs, SoloIs
  <1>1. /\ ~ReadToView(h) /\ ~View(h) /\ ~Lapsing(h) /\ ~Extend(h) /\ ~MoveBack(h)
        /\ Withdraw(h) => MovesOn(h) /\ ~ReadToWithdraw(h)
        /\ MoveOn(h) => MovesOn(h)
    <2>1. /\ pc[h] \notin {"view", "readApp", "lapse", "expired", "move", "tidyLetters", "tidyBills"}
          /\ pc[h] \notin Extending /\ call[h] \notin {"view", "extend", "withdraw"}
          /\ pc[h] \in {"reissue", "replace", "reload", "rescue", "pull", "pulled"} => MovesOn(h)
      BY <1>0, WhoIsAt DEF Lone, WhoseAt, Solo, MovesOn
    <2> QED
      BY <2>1 DEF ReadToView, View, Lapsing, ReadAppToExpire, Lapse, Expired, Extend, ReadToExtend,
                  Reopen, Reopened, PutBack, Extending, MoveBack, Move, TidyLetters, TidyBills,
                  Withdraw, ReadToWithdraw, Pull, Pulled, MoveOn, Reload, Reissue, Replace,
                  ReadToSign, Rescue, At
  <1>2. Lone(h)' /\ SameOthers(h)
    BY <1>0, <1>1, LoneReadLive, LoneWrite, LoneToDraft, LoneToQueue, LoneReadToApprove, LoneCheck,
       LoneSend, LoneAnnounce, LonePull, LonePulled, LoneAnswer, LoneReload, LoneReissue,
       LoneReplace, LoneReadToSign, LoneRescue, LoneLeaving
    DEF Step, Draft, Approve, Withdraw, MoveOn
  <1>3. call'[h] \in Solo \cup {"none"}
    BY StaysItself
  <1>4. call'[h] \in KindsAt(pc'[h])
    BY NextCall DEF Next, CallInv, AtKind
  <1>5. /\ pc'[h] \notin {"tidyLetters", "tidyBills", "reopen", "reopened", "putBack"}
        /\ call'[h] \notin {"expire", "extend", "approve"}
    BY <1>3, <1>4, KindOf DEF Solo
  <1> QED
    BY <1>0, <1>2, <1>5, LoneEnough
-----------------------------------------------------------------------------
(* What may be beside something else: an approval, the parent's page, the    *)
(* sweep, a later closing date and a move back to Decision.                  *)

SharedPC ==
  { "idle", "letter", "send", "announce", "view", "readApp", "lapse", "expired",
    "reopen", "reopened", "putBack", "move", "tidyLetters", "tidyBills" }
Shared == \A g \in Handlers : call[g] \notin Solo /\ pc[g] \in SharedPC

LEMMA SharedIs ==
  ASSUME CallInv, Disciplined, Lasting, \A g \in Handlers : call[g] \notin Solo
  PROVE  Shared
  <1> SUFFICES ASSUME NEW g \in Handlers PROVE pc[g] \in SharedPC
    BY DEF Shared
  <1>1. /\ pc[g] \notin {"draft", "write", "toDraft", "toQueue", "check", "reissue", "replace"}
        /\ pc[g] \notin {"reload", "rescue", "pull", "pulled", "leaveLetters", "leaveBills", "leave"}
    BY WhoIsAt DEF Lasting, Solo, MovesOn
  <1>2. pc[g] \notin Signing \cup Turning
    BY DEF Lasting, WhoseAt, Solo
  <1>3. pc[g] \in PC
    BY DEF CallInv, TypeInv, SelfOK
  <1> QED
    BY <1>1, <1>2, <1>3 DEF PC, Signing, Turning, SharedPC

\* Then a sent offer has no other cover than the sweep about to say so.
LEMMA SharedSettles ==
  ASSUME NEW g, call[g] \notin Solo, pc[g] \in SharedPC
  PROVE  Settles(g) <=> pc[g] = "expired"
  BY DEF Settles, SharedPC, MovesOn, Solo

LEMMA SharedRelies ==
  ASSUME NEW g \in Handlers, (call[g] \notin Solo /\ pc[g] \in SharedPC)'
  PROVE  Relies(g)'
  BY DEF Relies, SharedPC, MovesOn, Solo

LEMMA SharedEnough ==
  ASSUME Shared, Lasting, NEW h \in Handlers, SameOthers(h), call'[h] \notin Solo, pc'[h] \in SharedPC,
         (\A g \in Handlers : Sends(g) /\ Knows(g))', WhoseAt(h)',
         Letterwise', Lapses', Reopens', Bills', Cover'
  PROVE  Lasting'
  <1>1. \A g \in Handlers : (call[g] \notin Solo /\ pc[g] \in SharedPC)'
    BY DEF Shared, SameOthers
  <1>2. \A g \in Handlers : WhoseAt(g)'
    BY DEF Lasting, WhoseAt, SameOthers
  <1> QED
    BY <1>1, <1>2, SharedRelies DEF Lasting

\* Who has a letter of its own.
Subs == \A g \in Handlers : pc[g] \in LetterAt \/ call[g] = "expire" => sub[g] \in Letters

LEMMA SubsAre ==
  ASSUME CallInv, Shared, Lasting
  PROVE  Subs
  <1> SUFFICES ASSUME NEW g \in Handlers, call[g] = "expire" PROVE pc[g] \in LetterAt
    BY SubIs DEF Subs
  <1>1. pc[g] \notin {"letter", "send", "announce", "view"}
    BY DEF Lasting, WhoseAt
  <1>2. pc[g] \notin {"idle", "reopen", "reopened", "putBack", "move", "tidyLetters", "tidyBills"}
    BY KindOf DEF CallInv, AtKind
  <1> QED
    BY <1>1, <1>2 DEF Shared, SharedPC, LetterAt

\* Where no letter that is open is lost, nothing uncovers the offer.
LEMMA StaysCovered ==
  ASSUME Shared, Lasting, NEW h \in Handlers, SameOthers(h), UNCHANGED <<app, sweep>>,
         \A o \in Letters : letter[o] \in Open => letter'[o] \in Open,
         pc[h] = "expired" => app # "offer_sent",
         Reviving(h)' => Reviving(h) /\ sub'[h] = sub[h],
         Subs
  PROVE  Cover' /\ Reopens'
  <1>1. \A g \in Handlers : Settles(g) <=> pc[g] = "expired"
    BY SharedSettles DEF Shared
  <1>2. \A g \in Handlers : pc[g] = "expired" /\ app = "offer_sent" => pc'[g] = "expired" /\ Settles(g)'
    BY DEF SameOthers, Settles
  <1>3. Cover'
    BY <1>1, <1>2 DEF Lasting, Cover, Promised
  <1>4. \A g \in Handlers : Reviving(g)' => Reviving(g) /\ sub'[g] = sub[g] /\ sub[g] \in Letters
    BY DEF SameOthers, Reviving, Subs, LetterAt
  <1>5. Reopens'
    <2>1. \A g \in Handlers : Reviving(g)' /\ letter[sub[g]] \in Open => letter'[sub'[g]] \in Open
      BY <1>4
    <2> QED
      BY <1>2, <1>4, <2>1 DEF Lasting, Reopens
  <1> QED
    BY <1>3, <1>5

\* A statement that only reads, or is refused, and a call.
LEMMA SharedOn ==
  ASSUME Shared, Lasting, NEW h \in Handlers, SameOthers(h), UNCHANGED <<app, letter, owed, sweep>>,
         call'[h] \notin Solo, pc'[h] \in SharedPC \ Tidying, pc[h] \notin Tidying,
         (WhoseAt(h) /\ Sends(h) /\ Knows(h))',
         call'[h] = "expire" => call[h] = "expire" /\ sub'[h] = sub[h],
         call'[h] = "extend" => call[h] = "extend" \/ app # "offer_pending_approval",
         call'[h] = "approve" => call[h] = "approve" \/ app \notin Resting,
         Cover', Reopens'
  PROVE  Lasting'
  <1>1. \A g \in Handlers : pc[g] \in Tidying \/ pc'[g] \in Tidying => pc'[g] = pc[g]
    BY DEF SameOthers
  <1>2. (\A g \in Handlers : Sends(g) /\ Knows(g))'
    BY DEF Lasting, Sends, Knows, SameOthers, MovesOn, Extending
  <1>3. (OneInPlay /\ Unsent /\ AtRest /\ TidiesAfter)'
    <2>1. (OneInPlay /\ Unsent)'
      BY DEF Lasting, Letterwise, OneInPlay, Unsent
    <2>2. AtRest'
      BY <1>1, SamePromise DEF Lasting, Letterwise, AtRest, Tidying
    <2>3. TidiesAfter'
      BY <1>1 DEF Lasting, Letterwise, TidiesAfter
    <2> QED
      BY <2>1, <2>2, <2>3
  <1>4. (WhilePending /\ WhileExpired)'
    BY DEF Lasting, Letterwise, WhilePending, WhileExpired, Fresh, Swept, SameOthers
  <1>5. Unsendable'
    BY <1>1 DEF Lasting, Letterwise, Unsendable, SameOthers, Tidying
  <1>6. Lapses'
    BY DEF Lasting, Lapses, SameOthers
  <1>7. Bills'
    <2>1. \A g \in Handlers : pc[g] # "accepted"
      BY DEF Shared, SharedPC
    <2> QED
      BY <1>1, <2>1, SameBilled DEF Lasting, Bills
  <1> QED
    BY <1>2, <1>3, <1>4, <1>5, <1>6, <1>7, SharedEnough DEF Letterwise, Tidying

\* A statement that takes one letter on.
LEMMA SharedTurn ==
  ASSUME Shared, Lasting, NEW h \in Handlers, SameOthers(h), UNCHANGED <<app, owed, sweep>>,
         NEW o \in Letters, letter[o] \in Passing \cup {"pending_approval"}, letter'[o] \in Passing,
         \A q \in Letters \ {o} : letter'[q] = letter[q],
         Subs,
         letter[o] = "pending_approval" => call[h] = "approve",
         letter'[o] = "expired" => letter[o] = "expired" \/ app # "offer_pending_approval",
         (call'[h] = call[h] /\ sub'[h] = sub[h]) \/ call'[h] = "none",
         pc'[h] \in SharedPC \ Tidying, pc[h] \notin Tidying,
         (WhoseAt(h) /\ Sends(h) /\ Knows(h))', Cover', Reopens'
  PROVE  Lasting'
  <1>1. \A g \in Handlers : pc[g] \in Tidying \/ pc'[g] \in Tidying => pc'[g] = pc[g]
    BY DEF SameOthers
  <1>2. (\A g \in Handlers : Sends(g) /\ Knows(g))'
    <2> SUFFICES ASSUME NEW g \in Handlers \ {h} PROVE (Sends(g) /\ Knows(g))'
      OBVIOUS
    <2>1. /\ pc'[g] = pc[g] /\ call'[g] = call[g] /\ sub'[g] = sub[g] /\ mem'[g] = mem[g]
          /\ Sends(g) /\ Knows(g)
      BY DEF SameOthers, Lasting
    <2>2. pc[g] \in LetterAt => letter'[sub[g]] = letter[sub[g]] \/ sub[g] = o
      BY DEF Subs
    <2>3. Sends(g)'
      BY <2>1, <2>2, Statuses DEF Sends, MovesOn, LetterAt
    <2>4. Knows(g)'
      BY <2>1, <2>2, Statuses DEF Knows, Extending, LetterAt
    <2> QED
      BY <2>3, <2>4
  <1>3. (OneInPlay /\ Unsent)'
    BY Statuses DEF Lasting, Letterwise, OneInPlay, Unsent
  <1>4. (WhilePending /\ WhileExpired)'
    BY Statuses DEF Lasting, Letterwise, WhilePending, WhileExpired, Fresh, Swept, Unsent, SameOthers
  <1>5. (AtRest /\ Unsendable /\ TidiesAfter)'
    <2>1. TidiesAfter'
      BY <1>1 DEF Lasting, Letterwise, TidiesAfter
    <2>2. (\E g \in Handlers : pc[g] = "tidyLetters") => \E g \in Handlers : pc'[g] = "tidyLetters"
      BY <1>1 DEF Tidying
    <2>3. AtRest'
      <3>1. CASE letter[o] \in Passing
        BY <2>2, <3>1 DEF Lasting, Letterwise, AtRest, NonePassing
      <3>2. CASE letter[o] = "pending_approval"
        BY <2>2, <3>2 DEF Lasting, Letterwise, AtRest, Unsendable
      <3> QED
        BY <3>1, <3>2
    <2>4. Unsendable'
      <3>1. \A g \in Handlers : call'[g] = "approve" => call[g] = "approve"
        BY DEF SameOthers
      <3>2. \A q \in Letters : letter'[q] = "pending_approval" => letter[q] = "pending_approval"
        BY Statuses
      <3> QED
        BY <2>2, <3>1, <3>2 DEF Lasting, Letterwise, Unsendable
    <2> QED
      BY <2>1, <2>3, <2>4
  <1>6. Lapses'
    <2>1. \A g \in Handlers : call'[g] = "expire" => call[g] = "expire" /\ sub'[g] = sub[g] /\ sub[g] \in Letters
      BY DEF SameOthers, Subs
    <2>2. \A q \in Letters : letter[q] \in Passing => letter'[q] \in Passing
      OBVIOUS
    <2> QED
      BY <2>1, <2>2 DEF Lasting, Lapses
  <1>7. Bills'
    <2>1. \A g \in Handlers : pc[g] # "accepted"
      BY DEF Shared, SharedPC
    <2> QED
      BY <1>1, <2>1, SameBilled DEF Lasting, Bills
  <1> QED
    BY <1>2, <1>3, <1>4, <1>5, <1>6, <1>7, SharedEnough DEF Letterwise, Tidying, Shared, Solo

\* A statement that is refused, or finds nothing to do.
LEMMA SharedStop ==
  ASSUME CallInv, Shared, Lasting, NEW h \in Handlers, UNCHANGED <<app, letter, owed, sweep>>,
         Done(h) \/ Throw(h), pc[h] \notin Tidying, pc[h] = "expired" => app # "offer_sent"
  PROVE  Lasting'
  <1>1. pc'[h] = "idle" /\ call'[h] = "none" /\ SameOthers(h)
    BY DoneIs
  <1>2. /\ call'[h] \notin Solo \cup {"expire", "extend", "approve"}
        /\ pc'[h] \in SharedPC \ Tidying
        /\ (WhoseAt(h) /\ Sends(h) /\ Knows(h))' /\ ~Reviving(h)'
    BY <1>1 DEF Solo, SharedPC, Tidying, WhoseAt, Sends, Knows, Signing, Turning, Extending, MovesOn, Reviving
  <1>3. Cover' /\ Reopens'
    BY <1>1, <1>2, SubsAre, StaysCovered
  <1> QED
    BY <1>1, <1>2, <1>3, SharedOn

\* A statement that only reads, and goes on.
LEMMA SharedGoes ==
  ASSUME CallInv, Shared, Lasting, NEW h \in Handlers, SameOthers(h), UNCHANGED <<app, letter, owed, sweep>>,
         call'[h] = call[h], call[h] = "expire" => sub'[h] = sub[h],
         pc'[h] \in {"send", "view", "lapse", "reopen"}, pc[h] \notin Tidying \cup {"expired"},
         (WhoseAt(h) /\ Sends(h) /\ Knows(h))'
  PROVE  Lasting'
  <1>1. ~Reviving(h)' /\ pc'[h] \in SharedPC \ Tidying /\ call'[h] \notin Solo
    BY DEF Reviving, SharedPC, Tidying, Shared
  <1>2. Cover' /\ Reopens'
    BY <1>1, SubsAre, StaysCovered
  <1> QED
    BY <1>1, <1>2, SharedOn

LEMMA SharedReadToApprove ==
  ASSUME CallInv, Shared, Lasting, NEW h \in Handlers, ReadToApprove(h)
  PROVE  Lasting'
  <1>0. pc[h] = "letter" /\ call[h] = "approve" /\ mem[h].notify
    BY DEF ReadToApprove, At, Shared, Solo, MovesOn, Lasting, Sends
  <1>1. CASE Throw(h) /\ UNCHANGED db
    BY <1>0, <1>1, SharedStop DEF db, Tidying
  <1>2. ASSUME NEW o \in Letters, letter[o] = "pending_approval", Read(h, o, "send")
        PROVE  Lasting'
    <2>1. /\ pc'[h] = "send" /\ call'[h] = call[h] /\ sub'[h] = o /\ mem'[h].notify = mem[h].notify
          /\ SameOthers(h) /\ UNCHANGED <<app, letter, owed, sweep>>
      BY <1>2, ReadIs
    <2>2. (WhoseAt(h) /\ Sends(h) /\ Knows(h))'
      BY <1>0, <1>2, <2>1 DEF WhoseAt, Sends, Knows, Signing, Turning, Extending
    <2> QED
      BY <1>0, <2>1, <2>2, SharedGoes DEF Tidying
  <1> QED
    BY <1>1, <1>2 DEF ReadToApprove

LEMMA SharedReadToView ==
  ASSUME CallInv, Shared, Lasting, NEW h \in Handlers, ReadToView(h)
  PROVE  Lasting'
  <1>0. pc[h] = "letter" /\ call[h] = "view"
    BY DEF ReadToView, At
  <1>1. CASE Done(h) /\ UNCHANGED db
    BY <1>0, <1>1, SharedStop DEF db, Tidying
  <1>2. ASSUME NEW o \in Letters, Read(h, o, "view")
        PROVE  Lasting'
    <2>1. /\ pc'[h] = "view" /\ call'[h] = call[h]
          /\ SameOthers(h) /\ UNCHANGED <<app, letter, owed, sweep>>
      BY <1>2, ReadIs
    <2>2. (WhoseAt(h) /\ Sends(h) /\ Knows(h))'
      BY <1>0, <1>2, <2>1 DEF WhoseAt, Sends, Knows, Signing, Turning, Extending
    <2> QED
      BY <1>0, <2>1, <2>2, SharedGoes DEF Tidying
  <1> QED
    BY <1>1, <1>2 DEF ReadToView

LEMMA SharedReadToExtend ==
  ASSUME CallInv, Shared, Lasting, NEW h \in Handlers, ReadToExtend(h)
  PROVE  Lasting'
  <1>0. pc[h] = "letter" /\ call[h] = "extend"
    BY DEF ReadToExtend, At
  <1>1. CASE Throw(h) /\ UNCHANGED db
    BY <1>0, <1>1, SharedStop DEF db, Tidying
  <1>2. ASSUME NEW o \in Letters, Read(h, o, "reopen"),
               \/ letter[o] \in Open /\ mem[h].app = "offer_sent"
               \/ letter[o] = "expired" /\ mem[h].app = "offer_expired"
        PROVE  Lasting'
    <2>1. /\ pc'[h] = "reopen" /\ call'[h] = call[h] /\ sub'[h] = o /\ mem'[h].was = letter[o]
          /\ mem'[h].app = mem[h].app /\ SameOthers(h) /\ UNCHANGED <<app, letter, owed, sweep>>
      BY <1>2, ReadIs
    <2>2. Knows(h)'
      BY <1>2, <2>1, Statuses DEF Knows
    <2>3. (WhoseAt(h) /\ Sends(h))'
      BY <1>0, <2>1 DEF WhoseAt, Sends, Signing, Turning
    <2> QED
      BY <1>0, <2>1, <2>2, <2>3, SharedGoes DEF Tidying
  <1> QED
    BY <1>1, <1>2 DEF ReadToExtend

LEMMA SharedSend ==
  ASSUME CallInv, Shared, Lasting, NEW h \in Handlers, Send(h)
  PROVE  Lasting'
  <1>0. /\ pc[h] = "send" /\ UNCHANGED <<app, owed, sweep>> /\ sub[h] \in Letters /\ Subs
        /\ Sends(h) /\ call[h] = "approve"
    BY SubsAre DEF Send, At, Subs, LetterAt, Lasting, WhoseAt, Shared, Solo
  <1>1. /\ letter'[sub[h]] = IF letter[sub[h]] = "pending_approval" THEN "sent" ELSE letter[sub[h]]
        /\ \A q \in Letters \ {sub[h]} : letter'[q] = letter[q]
    BY <1>0, RewriteOne DEF Send
  <1>2. /\ pc'[h] = "announce" /\ call'[h] = call[h] /\ sub'[h] = sub[h] /\ mem'[h] = mem[h] /\ SameOthers(h)
    BY GotoIs DEF Send
  <1>3. (WhoseAt(h) /\ Sends(h) /\ Knows(h))' /\ ~Reviving(h)' /\ pc'[h] \in SharedPC \ Tidying
    BY <1>0, <1>1, <1>2, Statuses
       DEF WhoseAt, Sends, Knows, Signing, Turning, Extending, Reviving, SharedPC, Tidying, MovesOn
  <1>4. \A o \in Letters : letter[o] \in Open => letter'[o] \in Open
    BY <1>0, <1>1, Statuses
  <1>5. Cover' /\ Reopens'
    BY <1>0, <1>2, <1>3, <1>4, StaysCovered
  <1>6. CASE letter[sub[h]] = "pending_approval"
    <2>1. letter'[sub[h]] = "sent"
      BY <1>1, <1>6
    <2> QED
      BY <1>0, <1>1, <1>2, <1>3, <1>5, <1>6, <2>1, SharedTurn, Statuses DEF Tidying
  <1>7. CASE letter[sub[h]] # "pending_approval"
    <2>1. letter' = letter
      <3>1. letter \in [Letters -> Status] /\ letter' \in [Letters -> Status]
        BY NextType DEF CallInv, TypeInv, DbOK, Next, Step, Approve
      <3> QED
        BY <1>1, <1>7, <3>1
    <2> QED
      BY <1>0, <1>2, <1>3, <1>5, <2>1, SharedOn DEF Tidying, Shared
  <1> QED
    BY <1>6, <1>7

LEMMA SharedView ==
  ASSUME CallInv, Shared, Lasting, NEW h \in Handlers, View(h)
  PROVE  Lasting'
  <1>0. pc[h] = "view" /\ UNCHANGED <<app, owed, sweep>> /\ sub[h] \in Letters /\ Subs
    BY SubsAre DEF View, At, Subs, LetterAt
  <1>1. /\ letter'[sub[h]] = IF letter[sub[h]] = "sent" THEN "viewed" ELSE letter[sub[h]]
        /\ \A q \in Letters \ {sub[h]} : letter'[q] = letter[q]
    BY <1>0, RewriteOne DEF View
  <1>2. pc'[h] = "idle" /\ call'[h] = "none" /\ SameOthers(h) /\ Done(h)
    BY DoneIs DEF View
  <1>3. (WhoseAt(h) /\ Sends(h) /\ Knows(h))' /\ ~Reviving(h)' /\ pc'[h] \in SharedPC \ Tidying
    BY <1>2 DEF WhoseAt, Sends, Knows, Signing, Turning, Extending, Reviving, SharedPC, Tidying, MovesOn
  <1>4. \A o \in Letters : letter[o] \in Open => letter'[o] \in Open
    BY <1>0, <1>1, Statuses
  <1>5. Cover' /\ Reopens'
    BY <1>0, <1>2, <1>3, <1>4, StaysCovered
  <1>6. CASE letter[sub[h]] = "sent"
    <2>1. letter'[sub[h]] = "viewed"
      BY <1>1, <1>6
    <2> QED
      BY <1>0, <1>1, <1>2, <1>3, <1>5, <1>6, <2>1, SharedTurn, Statuses DEF Tidying
  <1>7. CASE letter[sub[h]] # "sent"
    <2>1. letter' = letter
      <3>1. letter \in [Letters -> Status] /\ letter' \in [Letters -> Status]
        BY NextType DEF CallInv, TypeInv, DbOK, Next, Step
      <3> QED
        BY <1>1, <1>7, <3>1
    <2> QED
      BY <1>0, <1>2, <2>1, SharedStop DEF Tidying
  <1> QED
    BY <1>6, <1>7

LEMMA SharedAnnounce ==
  ASSUME CallInv, Shared, Lasting, NEW h \in Handlers, Announce(h)
  PROVE  Lasting'
  <1>0. /\ pc[h] = "announce" /\ UNCHANGED <<letter, owed>> /\ sub[h] \in Letters
        /\ Sends(h) /\ call[h] = "approve" /\ ~MovesOn(h)
    BY SubsAre DEF Announce, At, Subs, LetterAt, Lasting, WhoseAt, Shared, Solo, MovesOn
  <1>1. CASE Throw(h) /\ UNCHANGED <<app, sweep>>
    BY <1>0, <1>1, SharedStop DEF Tidying
  <1>2. CASE Commit("offer_pending_approval", "offer_sent") /\ Done(h)
    <2>1. /\ app = "offer_pending_approval" /\ app' = "offer_sent" /\ letter[sub[h]] \in Open
          /\ pc'[h] = "idle" /\ call'[h] = "none" /\ SameOthers(h)
      BY <1>0, <1>2, DoneIs DEF Commit, Sends
    <2>2. sweep'[sub[h]] = TRUE /\ \A q \in Letters \ {sub[h]} : sweep'[q] = sweep[q]
      BY <1>0, <2>1 DEF Announce, Sends, CallInv, TypeInv, DbOK, Conflict
    <2>3. /\ \A g \in Handlers : call'[g] \notin {"expire", "extend"} /\ pc'[g] \notin Tidying
          /\ \A g \in Handlers : pc'[g] \notin Extending
      <3>1. \A g \in Handlers : call[g] \notin {"expire", "extend"} /\ pc[g] \notin Tidying
        BY <2>1 DEF Lasting, Letterwise, WhilePending, TidiesAfter
      <3>2. \A g \in Handlers : pc[g] \in Extending => call[g] = "extend"
        BY KindOf DEF CallInv, AtKind, Extending
      <3> QED
        BY <2>1, <3>1, <3>2 DEF SameOthers, Tidying, Extending
    <2>4. (\A g \in Handlers : Sends(g) /\ Knows(g))' /\ WhoseAt(h)'
      <3>1. \A g \in Handlers \ {h} : Sends(g)'
        BY <2>1 DEF Lasting, Sends, SameOthers, MovesOn
      <3> QED
        BY <2>1, <2>3, <3>1 DEF Sends, Knows, WhoseAt, Signing, Turning
    <2>5. Letterwise'
      <3>1. (OneInPlay /\ Unsent)'
        BY <1>0, <2>1, <2>2, Statuses DEF Lasting, Letterwise, OneInPlay, Unsent
      <3> QED
        BY <2>1, <2>3, <3>1, Apart DEF Letterwise, WhilePending, WhileExpired, AtRest, Unsendable, TidiesAfter
    <2>6. (Lapses /\ Reopens)'
      BY <2>3 DEF Lapses, Reopens, Reviving, Extending
    <2>7. ~Billed'
      <3>1. ~Billed
        BY <2>1, Apart DEF Lasting, Bills, Letterwise, TidiesAfter, Shared, SharedPC
      <3> QED
        BY <1>0, <3>1, SameBilled
    <2>8. Promised'
      BY <1>0, <2>1, <2>2 DEF Promised
    <2> QED
      BY <2>1, <2>4, <2>5, <2>6, <2>7, <2>8, SharedEnough DEF Bills, Cover, Solo, SharedPC
  <1> QED
    BY <1>0, <1>1, <1>2 DEF Announce, Conflict, Return
-----------------------------------------------------------------------------
(* The sweep.                                                                *)

\* The sweep at work on an offer that is out is about the letter in play, and
\* the only one.
LEMMA Sweeping ==
  ASSUME CallInv, Shared, Lasting, NEW h \in Handlers, call[h] = "expire", app = "offer_sent"
  PROVE  /\ sub[h] \in Letters /\ letter[sub[h]] \in Passing
         /\ \A o \in Letters : letter[o] \in Passing => o = sub[h]
         /\ \A g \in Handlers : call[g] = "expire" => g = h
  <1>1. \A g \in Handlers : call[g] = "expire" => sub[g] \in Letters /\ letter[sub[g]] \in Passing
    BY SubsAre DEF Subs, Lasting, Lapses
  <1>2. \A o \in Letters : letter[o] \in Passing => o = sub[h]
    BY <1>1, Statuses DEF Lasting, Letterwise, OneInPlay
  <1> QED
    BY <1>1, <1>2 DEF Lasting, Lapses

\* A statement that ends where the offer is not out, and takes sweeps away.
LEMMA SharedUnswept ==
  ASSUME CallInv, Shared, Lasting, NEW h \in Handlers, UNCHANGED <<app, letter, owed>>,
         Done(h), pc[h] \notin Tidying, app # "offer_sent",
         \A o \in Letters : sweep'[o] => sweep[o]
  PROVE  Lasting'
  <1>1. pc'[h] = "idle" /\ call'[h] = "none" /\ SameOthers(h)
    BY DoneIs
  <1>2. \A g \in Handlers : pc[g] \in Tidying \/ pc'[g] \in Tidying => pc'[g] = pc[g]
    BY <1>1 DEF SameOthers, Tidying
  <1>3. (\A g \in Handlers : Sends(g) /\ Knows(g))' /\ WhoseAt(h)'
    BY <1>1 DEF Lasting, Sends, Knows, WhoseAt, Signing, Turning, Extending, SameOthers, MovesOn
  <1>4. (OneInPlay /\ Unsent)' /\ TidiesAfter'
    BY <1>2 DEF Lasting, Letterwise, OneInPlay, Unsent, TidiesAfter
  <1>5. (WhilePending /\ WhileExpired)'
    BY <1>1 DEF Lasting, Letterwise, WhilePending, WhileExpired, Fresh, Swept, SameOthers
  <1>6. (AtRest /\ Unsendable)'
    BY <1>1, <1>2 DEF Lasting, Letterwise, AtRest, NonePassing, Unsendable, SameOthers, Tidying
  <1>7. Lapses'
    BY <1>1 DEF Lasting, Lapses, SameOthers
  <1>8. Reopens'
    BY <1>1 DEF Lasting, Reopens, Reviving, SameOthers
  <1>9. Bills'
    <2>1. \A g \in Handlers : pc[g] # "accepted"
      BY DEF Shared, SharedPC
    <2> QED
      BY <1>2, <2>1, SameBilled DEF Lasting, Bills
  <1> QED
    BY <1>1, <1>3, <1>4, <1>5, <1>6, <1>7, <1>8, <1>9, SharedEnough DEF Letterwise, Cover, Solo, SharedPC

LEMMA SharedReadAppToExpire ==
  ASSUME CallInv, Shared, Lasting, NEW h \in Handlers, ReadAppToExpire(h)
  PROVE  Lasting'
  <1>0. pc[h] = "readApp" /\ call[h] = "expire" /\ UNCHANGED <<app, letter, owed>>
    BY DEF ReadAppToExpire, At, Lasting, WhoseAt
  <1>1. CASE app = "offer_sent"
    <2>1. /\ pc'[h] = "lapse" /\ call'[h] = call[h] /\ sub'[h] = sub[h] /\ SameOthers(h)
          /\ UNCHANGED sweep
      BY <1>1, GotoIs DEF ReadAppToExpire
    <2>2. (WhoseAt(h) /\ Sends(h) /\ Knows(h))'
      BY <1>0, <2>1 DEF WhoseAt, Sends, Knows, Signing, Turning, Extending
    <2> QED
      BY <1>0, <2>1, <2>2, SharedGoes DEF Tidying
  <1>2. CASE app # "offer_sent"
    <2>1. Done(h) /\ sweep' = [sweep EXCEPT ![sub[h]] = FALSE]
      BY <1>2 DEF ReadAppToExpire
    <2>2. \A o \in Letters : sweep'[o] => sweep[o]
      BY <2>1 DEF CallInv, TypeInv, DbOK
    <2> QED
      BY <1>0, <1>2, <2>1, <2>2, SharedUnswept DEF Tidying
  <1> QED
    BY <1>1, <1>2

LEMMA SharedLapse ==
  ASSUME CallInv, Disciplined, Shared, Lasting, NEW h \in Handlers, Lapse(h)
  PROVE  Lasting'
  <1>0. /\ pc[h] = "lapse" /\ call[h] = "expire" /\ UNCHANGED <<app, owed, sweep>> /\ Subs
        /\ sub[h] \in Letters
    BY SubsAre DEF Lapse, At, Lasting, WhoseAt, Subs
  <1>1. /\ letter'[sub[h]] = IF letter[sub[h]] \in Open THEN "expired" ELSE letter[sub[h]]
        /\ \A q \in Letters \ {sub[h]} : letter'[q] = letter[q]
    BY <1>0, RewriteOne DEF Lapse
  <1>2. /\ pc'[h] = "expired" /\ call'[h] = call[h] /\ sub'[h] = sub[h] /\ mem'[h] = mem[h] /\ SameOthers(h)
    BY GotoIs DEF Lapse
  <1>3. (WhoseAt(h) /\ Sends(h) /\ Knows(h))' /\ ~Reviving(h)' /\ pc'[h] \in SharedPC \ Tidying
    BY <1>0, <1>2 DEF WhoseAt, Sends, Knows, Signing, Turning, Extending, Reviving, SharedPC, Tidying, MovesOn
  <1>4. Cover'
    BY <1>2 DEF Cover, Settles
  <1>5. app # "offer_pending_approval" /\ app # "offer_expired"
    BY <1>0 DEF Lasting, Letterwise, WhilePending, WhileExpired
  <1>6. Reopens'
    <2> SUFFICES ASSUME app = "offer_sent" PROVE \A g \in Handlers : ~Reviving(g)'
      BY <1>0, <1>5 DEF Reopens
    <2>1. \A g \in Handlers : pc[g] # "expired"
      <3>1. \A g \in Handlers : pc[g] = "expired" => call[g] = "expire"
        BY DEF Lasting, WhoseAt
      <3> QED
        BY <1>0, <3>1, Sweeping
    <2>2. \A g \in Handlers : ~Reviving(g)
      BY <2>1 DEF Lasting, Reopens
    <2> QED
      BY <1>2, <1>3, <2>2 DEF SameOthers, Reviving
  <1>7. CASE letter[sub[h]] \in Open
    <2>1. letter'[sub[h]] = "expired"
      BY <1>1, <1>7
    <2> QED
      BY <1>0, <1>1, <1>2, <1>3, <1>4, <1>5, <1>6, <1>7, <2>1, SharedTurn, Statuses DEF Tidying
  <1>8. CASE letter[sub[h]] \notin Open
    <2>1. letter' = letter
      <3>1. letter \in [Letters -> Status] /\ letter' \in [Letters -> Status]
        BY NextType DEF CallInv, TypeInv, DbOK, Next, Step, Lapsing
      <3> QED
        BY <1>1, <1>8, <3>1
    <2> QED
      BY <1>0, <1>2, <1>3, <1>4, <1>6, <2>1, SharedOn DEF Tidying, Solo
  <1> QED
    BY <1>7, <1>8

LEMMA SharedExpired ==
  ASSUME CallInv, Shared, Lasting, NEW h \in Handlers, Expired(h)
  PROVE  Lasting'
  <1>0. /\ pc[h] = "expired" /\ call[h] = "expire" /\ UNCHANGED <<letter, owed>> /\ Done(h)
        /\ pc'[h] = "idle" /\ call'[h] = "none" /\ SameOthers(h)
    BY DoneIs DEF Expired, At, Lasting, WhoseAt
  <1>1. CASE app # "offer_sent"
    <2>1. UNCHANGED <<app, sweep>>
      BY <1>1 DEF Expired, Commit, Conflict
    <2> QED
      BY <1>0, <1>1, <2>1, SharedStop DEF Tidying
  <1>2. CASE app = "offer_sent"
    <2>1. app' = "offer_expired" /\ sweep' = [sweep EXCEPT ![sub[h]] = FALSE]
      BY <1>2 DEF Expired, Commit, Conflict
    <2>2. /\ sub[h] \in Letters /\ \A o \in Letters : letter[o] \in Passing => o = sub[h]
          /\ \A g \in Handlers : call[g] = "expire" => g = h
      BY <1>0, <1>2, Sweeping
    <2>3. \A o \in Letters : (sweep'[o] => sweep[o]) /\ (letter[o] \in Passing => ~sweep'[o])
      BY <2>1, <2>2 DEF CallInv, TypeInv, DbOK
    <2>4. \A g \in Handlers : call'[g] # "expire" /\ pc'[g] \notin Tidying
      <3>1. \A g \in Handlers : pc[g] \notin Tidying
        BY <1>2 DEF Lasting, Letterwise, TidiesAfter
      <3> QED
        BY <1>0, <2>2, <3>1 DEF SameOthers, Tidying
    <2>5. (\A g \in Handlers : Sends(g) /\ Knows(g))' /\ WhoseAt(h)'
      BY <1>0, <2>1 DEF Lasting, Sends, Knows, WhoseAt, Signing, Turning, Extending, SameOthers, MovesOn
    <2>6. Letterwise'
      <3>1. (OneInPlay /\ Unsent)'
        BY <1>0, <2>3 DEF Lasting, Letterwise, OneInPlay, Unsent
      <3>2. WhileExpired'
        BY <1>0, <2>3, <2>4 DEF WhileExpired, Swept
      <3> QED
        BY <2>1, <2>4, <3>1, <3>2, Apart DEF Letterwise, WhilePending, AtRest, Unsendable, TidiesAfter
    <2>7. Lapses'
      BY <2>4 DEF Lapses
    <2>8. Reopens'
      BY <1>0, <1>2, <2>1 DEF Lasting, Reopens, Reviving, SameOthers
    <2>9. ~Billed' /\ Cover'
      <3>1. ~Billed
        BY <1>2, Apart DEF Lasting, Bills, Letterwise, TidiesAfter, Shared, SharedPC
      <3> QED
        BY <1>0, <2>1, <3>1, SameBilled DEF Cover
    <2> QED
      BY <1>0, <2>5, <2>6, <2>7, <2>8, <2>9, SharedEnough DEF Bills, Solo, SharedPC
  <1> QED
    BY <1>1, <1>2
-----------------------------------------------------------------------------
(* A later closing date, and a lapsed letter reopened.                       *)

\* What an invocation that moves a closing date may find of its letter.
LEMMA ExtendsIs ==
  ASSUME CallInv, Shared, Lasting, NEW h \in Handlers, pc[h] \in Extending
  PROVE  /\ call[h] = "extend" /\ sub[h] \in Letters /\ mem[h].was \in Passing
         /\ mem[h].was = "expired" => mem[h].app = "offer_expired" /\ Reopening(h) \in Open
         /\ mem[h].was # "expired" => mem[h].app = "offer_sent" /\ Reopening(h) = mem[h].was
         /\ letter[sub[h]] \notin Unready /\ app # "offer_pending_approval"
  <1>1. call[h] = "extend"
    BY KindOf DEF CallInv, AtKind, Extending
  <1>2. sub[h] \in Letters /\ mem[h].was \in Passing
    BY Statuses DEF CallInv, TypeInv, Known, LetterAt, Extending
  <1>3. Knows(h)
    BY DEF Lasting
  <1> QED
    BY <1>1, <1>2, <1>3, Statuses DEF Knows, Reopening, Lasting, Letterwise, WhilePending

LEMMA SharedReopen ==
  ASSUME CallInv, Disciplined, Shared, Lasting, NEW h \in Handlers, Reopen(h)
  PROVE  Lasting'
  <1>0. /\ pc[h] = "reopen" /\ UNCHANGED <<app, owed, sweep>> /\ Subs /\ pc[h] \in Extending
        /\ letter \in [Letters -> Status]
    BY SubsAre DEF Reopen, At, Extending, CallInv, TypeInv, DbOK
  <1>e. /\ call[h] = "extend" /\ sub[h] \in Letters /\ mem[h].was \in Passing
        /\ mem[h].was = "expired" => mem[h].app = "offer_expired" /\ Reopening(h) \in Open
        /\ mem[h].was # "expired" => mem[h].app = "offer_sent" /\ Reopening(h) = mem[h].was
        /\ letter[sub[h]] \notin Unready /\ app # "offer_pending_approval"
    BY <1>0, ExtendsIs
  <1>1. CASE Throw(h) /\ UNCHANGED letter
    BY <1>0, <1>1, SharedStop DEF Tidying
  <1>2. CASE /\ letter[sub[h]] = mem[h].was /\ letter' = [letter EXCEPT ![sub[h]] = Reopening(h)]
             /\ Goto(h, "reopened")
    <2>1. /\ pc'[h] = "reopened" /\ call'[h] = call[h] /\ sub'[h] = sub[h] /\ mem'[h] = mem[h]
          /\ SameOthers(h)
      BY <1>2, GotoIs
    <2>2. letter'[sub[h]] = Reopening(h) /\ \A q \in Letters \ {sub[h]} : letter'[q] = letter[q]
      BY <1>0, <1>2, <1>e
    <2>3. letter'[sub[h]] \in Passing /\ (letter'[sub[h]] = "expired" => letter[sub[h]] = "expired")
      BY <1>2, <1>e, <2>2, Statuses
    <2>4. (WhoseAt(h) /\ Sends(h) /\ Knows(h))' /\ pc'[h] \in SharedPC \ Tidying
      <3>1. Knows(h)
        BY DEF Lasting
      <3> QED
        BY <1>0, <1>e, <2>1, <2>3, <3>1, Statuses
           DEF WhoseAt, Sends, Knows, Signing, Turning, Extending, SharedPC, Tidying, MovesOn
    <2>5. Cover' /\ Reopens'
      <3>1. \A o \in Letters : letter[o] \in Open => letter'[o] \in Open
        BY <1>2, <1>e, <2>2, Statuses
      <3>2. CASE mem[h].was # "expired"
        <4>1. ~Reviving(h)'
          BY <2>1, <3>2 DEF Reviving
        <4> QED
          BY <1>0, <2>1, <3>1, <4>1, StaysCovered
      <3>3. CASE mem[h].was = "expired"
        <4>1. letter[sub[h]] = "expired" /\ letter'[sub[h]] \in Open
          BY <1>2, <1>e, <2>2, <3>3
        <4>2. \A o \in Letters : letter[o] \notin Open
          BY <1>e, <4>1, Statuses DEF Lasting, Letterwise, OneInPlay
        <4>3. app = "offer_sent" => \E g \in Handlers : pc[g] = "expired" /\ pc'[g] = "expired"
          <5>1. app = "offer_sent" => \E g \in Handlers : pc[g] = "expired"
            BY <4>2, SharedSettles DEF Lasting, Cover, Promised, Shared
          <5> QED
            BY <1>0, <2>1, <5>1 DEF SameOthers
        <4>4. app \in {"offer_sent", "offer_expired"} => \A g \in Handlers \ {h} : ~Reviving(g)'
          <5>1. \A g \in Handlers : Reviving(g) => sub[g] \in Letters
            BY <1>0 DEF Subs, Reviving, LetterAt
          <5>2. app \in {"offer_sent", "offer_expired"} => \A g \in Handlers \ {h} : ~Reviving(g)
            BY <4>2, <5>1 DEF Lasting, Reopens
          <5> QED
            BY <2>1, <5>2 DEF SameOthers, Reviving
        <4>5. Cover'
          BY <1>0, <4>3 DEF Cover, Settles
        <4>6. Reopens'
          BY <1>0, <2>1, <4>1, <4>3, <4>4 DEF Reopens
        <4> QED
          BY <4>5, <4>6
      <3> QED
        BY <3>2, <3>3
    <2>6. letter[sub[h]] \in Passing /\ letter[sub[h]] # "pending_approval"
      BY <1>2, <1>e, Statuses
    <2> QED
      BY <1>0, <1>e, <2>1, <2>2, <2>3, <2>4, <2>5, <2>6, SharedTurn DEF Tidying
  <1> QED
    BY <1>1, <1>2 DEF Reopen

LEMMA SharedPutBack ==
  ASSUME CallInv, Disciplined, Shared, Lasting, NEW h \in Handlers, PutBack(h)
  PROVE  Lasting'
  <1>0. /\ pc[h] = "putBack" /\ UNCHANGED <<app, owed, sweep>> /\ Subs /\ pc[h] \in Extending
        /\ letter \in [Letters -> Status] /\ Throw(h)
        /\ pc'[h] = "idle" /\ call'[h] = "none" /\ SameOthers(h)
    BY SubsAre, DoneIs DEF PutBack, At, Extending, CallInv, TypeInv, DbOK
  <1>e. /\ call[h] = "extend" /\ sub[h] \in Letters /\ mem[h].was \in Passing
        /\ mem[h].was = "expired" => mem[h].app = "offer_expired" /\ Reopening(h) \in Open
        /\ mem[h].was # "expired" => mem[h].app = "offer_sent" /\ Reopening(h) = mem[h].was
        /\ letter[sub[h]] \notin Unready /\ app # "offer_pending_approval"
    BY <1>0, ExtendsIs
  <1>1. CASE UNCHANGED letter
    BY <1>0, <1>1, SharedStop DEF Tidying
  <1>2. CASE letter[sub[h]] = Reopening(h) /\ letter' = [letter EXCEPT ![sub[h]] = mem[h].was]
    <2>1. letter'[sub[h]] = mem[h].was /\ \A q \in Letters \ {sub[h]} : letter'[q] = letter[q]
      BY <1>0, <1>2, <1>e
    <2>2. CASE mem[h].was # "expired"
      <3>1. letter' = letter
        BY <1>0, <1>2, <1>e, <2>2
      <3> QED
        BY <1>1, <3>1
    <2>3. CASE mem[h].was = "expired"
      <3>1. (WhoseAt(h) /\ Sends(h) /\ Knows(h))' /\ ~Reviving(h)' /\ pc'[h] \in SharedPC \ Tidying
        BY <1>0 DEF WhoseAt, Sends, Knows, Signing, Turning, Extending, Reviving, SharedPC, Tidying, MovesOn
      <3>2. Reviving(h) /\ letter[sub[h]] \in Passing /\ letter[sub[h]] # "pending_approval"
        BY <1>0, <1>2, <1>e, <2>3, Statuses DEF Reviving
      <3>3. Cover'
        <4>1. app = "offer_sent" => \E g \in Handlers : pc[g] = "expired" /\ pc'[g] = "expired"
          BY <1>0, <3>2 DEF Lasting, Reopens, SameOthers
        <4> QED
          BY <1>0, <4>1 DEF Cover, Settles
      <3>4. Reopens'
        <4>1. app \in {"offer_sent", "offer_expired"} => \A g \in Handlers \ {h} : ~Reviving(g)
          BY <3>2 DEF Lasting, Reopens
        <4>2. app \in {"offer_sent", "offer_expired"} => \A g \in Handlers : ~Reviving(g)'
          BY <1>0, <3>1, <4>1 DEF SameOthers, Reviving
        <4> QED
          BY <1>0, <4>2 DEF Reopens
      <3> QED
        BY <1>0, <1>e, <2>1, <2>3, <3>1, <3>2, <3>3, <3>4, SharedTurn DEF Tidying
    <2> QED
      BY <2>2, <2>3
  <1> QED
    BY <1>0, <1>1, <1>2 DEF PutBack

LEMMA SharedReopened ==
  ASSUME CallInv, Disciplined, Shared, Lasting, NEW h \in Handlers, Reopened(h)
  PROVE  Lasting'
  <1>0. /\ pc[h] = "reopened" /\ UNCHANGED <<letter, owed>> /\ Subs /\ pc[h] \in Extending
    BY SubsAre DEF Reopened, At, Extending
  <1>e. /\ call[h] = "extend" /\ sub[h] \in Letters /\ mem[h].was \in Passing
        /\ mem[h].was = "expired" => mem[h].app = "offer_expired"
        /\ mem[h].was # "expired" => mem[h].app = "offer_sent"
        /\ letter[sub[h]] \notin Unready /\ app # "offer_pending_approval"
    BY <1>0, ExtendsIs
  <1>1. CASE Conflict(mem[h].app) /\ Goto(h, "putBack") /\ UNCHANGED sweep
    <2>1. /\ pc'[h] = "putBack" /\ call'[h] = call[h] /\ sub'[h] = sub[h] /\ mem'[h] = mem[h]
          /\ SameOthers(h) /\ UNCHANGED <<app, letter, owed, sweep>>
      BY <1>0, <1>1, GotoIs DEF Conflict
    <2>2. (WhoseAt(h) /\ Sends(h) /\ Knows(h))' /\ pc'[h] \in SharedPC \ Tidying
          /\ (Reviving(h)' => Reviving(h))
      <3>1. Knows(h)
        BY DEF Lasting
      <3> QED
        BY <1>0, <1>e, <2>1, <3>1
           DEF WhoseAt, Sends, Knows, Signing, Turning, Extending, Reviving, SharedPC, Tidying, MovesOn
    <2>3. Cover' /\ Reopens'
      BY <1>0, <2>1, <2>2, StaysCovered
    <2> QED
      BY <1>0, <1>e, <2>1, <2>2, <2>3, SharedOn DEF Tidying, Solo
  <1>2. CASE Commit(mem[h].app, "offer_sent") /\ sweep' = [sweep EXCEPT ![sub[h]] = TRUE] /\ Done(h)
    <2>1. /\ app = mem[h].app /\ app' = "offer_sent"
          /\ pc'[h] = "idle" /\ call'[h] = "none" /\ SameOthers(h)
      BY <1>2, DoneIs DEF Commit
    <2>2. sweep'[sub[h]] = TRUE /\ \A q \in Letters \ {sub[h]} : sweep'[q] = sweep[q]
      BY <1>2, <1>e DEF CallInv, TypeInv, DbOK
    <2>3. \A g \in Handlers : pc'[g] \notin Tidying
      <3>1. \A g \in Handlers : pc[g] \notin Tidying
        BY <1>e, <2>1 DEF Lasting, Letterwise, TidiesAfter
      <3> QED
        BY <2>1, <3>1 DEF SameOthers, Tidying
    <2>4. (\A g \in Handlers : Sends(g) /\ Knows(g))' /\ WhoseAt(h)'
      BY <1>0, <2>1 DEF Lasting, Sends, Knows, WhoseAt, Signing, Turning, Extending, SameOthers, MovesOn
    <2>5. Letterwise'
      <3>1. OneInPlay' /\ Unsent'
        BY <1>0, <1>e, <2>2 DEF Lasting, Letterwise, OneInPlay, Unsent
      <3> QED
        BY <2>1, <2>3, <3>1, Apart DEF Letterwise, WhilePending, WhileExpired, AtRest, Unsendable, TidiesAfter
    <2>6. ~Billed'
      <3>1. ~Billed
        BY <1>e, <2>1, Apart DEF Lasting, Bills, Letterwise, TidiesAfter, Shared, SharedPC
      <3> QED
        BY <1>0, <3>1, SameBilled
    <2>7. Lapses' /\ Reopens' /\ Cover'
      <3>1. CASE mem[h].was = "expired"
        <4>1. Reviving(h) /\ app = "offer_expired"
          BY <1>0, <1>e, <2>1, <3>1 DEF Reviving
        <4>2. \A g \in Handlers : call'[g] # "expire"
          BY <2>1, <4>1 DEF Lasting, Letterwise, WhileExpired, SameOthers
        <4>3. \A g \in Handlers : ~Reviving(g)'
          <5>1. \A g \in Handlers \ {h} : ~Reviving(g)
            BY <4>1 DEF Lasting, Reopens
          <5> QED
            BY <2>1, <5>1 DEF SameOthers, Reviving
        <4>4. Promised'
          BY <1>0, <1>e, <2>2, <4>1 DEF Lasting, Reopens, Promised
        <4> QED
          BY <4>2, <4>3, <4>4 DEF Lapses, Reopens, Cover
      <3>2. CASE mem[h].was # "expired"
        <4>1. app = "offer_sent" /\ UNCHANGED app
          BY <1>e, <2>1, <3>2
        <4>2. Lapses'
          BY <1>0, <2>1, <4>1 DEF Lasting, Lapses, SameOthers
        <4>3. \A g \in Handlers : pc[g] = "expired" => pc'[g] = "expired"
          BY <1>0, <2>1 DEF SameOthers
        <4>4. Reopens'
          BY <1>0, <2>1, <4>1, <4>3 DEF Lasting, Reopens, Reviving, SameOthers
        <4>5. \A o \in Letters : sweep[o] => sweep'[o]
          BY <2>2
        <4>6. Cover'
          <5>1. Promised => Promised'
            BY <1>0, <4>5 DEF Promised
          <5>2. \A g \in Handlers : Settles(g) => pc'[g] = "expired" /\ Settles(g)'
            BY <4>3, SharedSettles DEF Shared, Settles
          <5> QED
            BY <4>1, <5>1, <5>2 DEF Lasting, Cover
        <4> QED
          BY <4>2, <4>4, <4>6
      <3> QED
        BY <3>1, <3>2
    <2> QED
      BY <2>1, <2>4, <2>5, <2>6, <2>7, SharedEnough DEF Bills, Solo, SharedPC
  <1> QED
    BY <1>1, <1>2 DEF Reopened
-----------------------------------------------------------------------------
(* A move back to Decision.                                                  *)

LEMMA SharedMove ==
  ASSUME CallInv, Disciplined, Shared, Lasting, NEW h \in Handlers, Move(h)
  PROVE  Lasting'
  <1>0. pc[h] = "move" /\ call[h] = "toDecision" /\ UNCHANGED <<letter, owed, sweep>>
    BY WhoIsAt DEF Move, At, Lasting
  <1>1. CASE Conflict(mem[h].app) /\ Throw(h)
    BY <1>0, <1>1, SharedStop DEF Tidying, Conflict
  <1>2. CASE app' = "awaiting_decision" /\ Goto(h, "tidyLetters")
    <2>1. /\ pc'[h] = "tidyLetters" /\ call'[h] = call[h] /\ sub'[h] = sub[h] /\ mem'[h] = mem[h]
          /\ SameOthers(h)
      BY <1>2, GotoIs
    <2>2. (\A g \in Handlers : Sends(g) /\ Knows(g))' /\ WhoseAt(h)'
      BY <1>0, <1>2, <2>1
         DEF Lasting, Sends, Knows, WhoseAt, Signing, Turning, Extending, SameOthers, MovesOn
    <2>3. Letterwise'
      <3>1. (OneInPlay /\ Unsent)'
        BY <1>0 DEF Lasting, Letterwise, OneInPlay, Unsent
      <3> QED
        BY <1>2, <2>1, <3>1 DEF Letterwise, WhilePending, WhileExpired, AtRest, Unsendable, TidiesAfter
    <2>4. Lapses' /\ Reopens' /\ Bills' /\ Cover'
      <3>1. Lapses'
        BY <1>0, <1>2, <2>1 DEF Lasting, Lapses, SameOthers
      <3> QED
        BY <1>2, <2>1, <3>1 DEF Reopens, Bills, Cover, Tidying
    <2> QED
      BY <1>0, <2>1, <2>2, <2>3, <2>4, SharedEnough DEF Solo, SharedPC
  <1> QED
    BY <1>0, <1>1, <1>2 DEF Move, Commit

LEMMA SharedTidyLetters ==
  ASSUME CallInv, Disciplined, Shared, Lasting, NEW h \in Handlers, TidyLetters(h)
  PROVE  Lasting'
  <1>0. /\ pc[h] = "tidyLetters" /\ call[h] = "toDecision" /\ UNCHANGED <<app, owed, sweep>>
        /\ app \in {"awaiting_decision", "approved"} /\ Subs
    BY WhoIsAt, SubsAre DEF TidyLetters, At, Lasting, Letterwise, TidiesAfter, Tidying
  <1>1. /\ pc'[h] = "tidyBills" /\ call'[h] = call[h] /\ sub'[h] = sub[h] /\ mem'[h] = mem[h]
        /\ SameOthers(h)
    BY GotoIs DEF TidyLetters
  <1>2. \A o \in Letters :
          letter'[o] \notin InPlay /\ (letter'[o] = "withdrawn" \/ letter'[o] = letter[o])
    BY Statuses DEF TidyLetters, Rewrite
  <1>3. (\A g \in Handlers : Sends(g) /\ Knows(g))' /\ WhoseAt(h)'
    <2>1. \A g \in Handlers : Sends(g)'
      BY <1>0, <1>1 DEF Lasting, Sends, SameOthers, MovesOn
    <2>2. ASSUME NEW g \in Handlers PROVE Knows(g)'
      <3>1. pc'[g] \in Extending => pc[g] \in Extending /\ mem'[g] = mem[g] /\ sub'[g] = sub[g] /\ sub[g] \in Letters
        BY <1>0, <1>1 DEF SameOthers, Extending, Subs, LetterAt
      <3> QED
        BY <1>2, <3>1, Statuses DEF Lasting, Knows
    <2> QED
      BY <1>0, <1>1, <2>1, <2>2 DEF WhoseAt, Signing, Turning
  <1>4. Letterwise'
    <2>1. OneInPlay' /\ NonePassing' /\ \A o \in Letters : letter'[o] # "pending_approval"
      BY <1>2, Statuses DEF OneInPlay, NonePassing
    <2>2. Unsent'
      BY <1>0, <1>2, Statuses DEF Lasting, Letterwise, Unsent
    <2>3. TidiesAfter'
      BY <1>0 DEF TidiesAfter
    <2> QED
      BY <1>0, <2>1, <2>2, <2>3 DEF Letterwise, WhilePending, WhileExpired, AtRest, Unsendable
  <1>5. Lapses' /\ Reopens' /\ Bills' /\ Cover'
    <2>1. Lapses'
      BY <1>0, <1>1 DEF Lasting, Lapses, SameOthers
    <2> QED
      BY <1>0, <1>1, <2>1 DEF Reopens, Bills, Cover, Tidying
  <1> QED
    BY <1>0, <1>1, <1>3, <1>4, <1>5, SharedEnough DEF Solo, SharedPC

LEMMA SharedTidyBills ==
  ASSUME CallInv, Disciplined, Shared, Lasting, NEW h \in Handlers, TidyBills(h)
  PROVE  Lasting'
  <1>0. /\ pc[h] = "tidyBills" /\ call[h] = "toDecision" /\ UNCHANGED <<app, letter>>
        /\ app \in {"awaiting_decision", "approved"}
    BY WhoIsAt DEF TidyBills, At, Lasting, Letterwise, TidiesAfter, Tidying
  <1>1. pc'[h] = "idle" /\ call'[h] = "none" /\ SameOthers(h)
    BY <1>0, DoneIs DEF TidyBills
  <1>2. ~Billed' /\ \A o \in Letters : sweep'[o] => sweep[o]
    BY DEF TidyBills, CancelBills, Billed, Unpaid
  <1>3. (\A g \in Handlers : Sends(g) /\ Knows(g))' /\ WhoseAt(h)'
    BY <1>0, <1>1 DEF Lasting, Sends, Knows, WhoseAt, Signing, Turning, Extending, SameOthers, MovesOn
  <1>4. Letterwise'
    <2>1. (OneInPlay /\ Unsent)'
      BY <1>0, <1>2 DEF Lasting, Letterwise, OneInPlay, Unsent
    <2>2. (\E g \in Handlers : pc[g] = "tidyLetters") => \E g \in Handlers : pc'[g] = "tidyLetters"
      BY <1>0, <1>1 DEF SameOthers
    <2>3. AtRest'
      BY <1>0, <2>2 DEF Lasting, Letterwise, AtRest, NonePassing
    <2>4. Unsendable'
      BY <1>0, <1>1, <2>2 DEF Lasting, Letterwise, Unsendable, SameOthers
    <2>5. TidiesAfter'
      BY <1>0 DEF TidiesAfter
    <2> QED
      BY <1>0, <2>1, <2>3, <2>4, <2>5 DEF Letterwise, WhilePending, WhileExpired
  <1>5. Lapses' /\ Reopens' /\ Bills' /\ Cover'
    <2>1. Lapses'
      BY <1>0, <1>1 DEF Lasting, Lapses, SameOthers
    <2> QED
      BY <1>0, <1>2, <2>1 DEF Reopens, Bills, Cover
  <1> QED
    BY <1>1, <1>3, <1>4, <1>5, SharedEnough DEF Solo, SharedPC

\* Whoever may be beside it, a step keeps what the offer promises.
LEMMA SharedStep ==
  ASSUME CallInv, Disciplined, Shared, Lasting, NEW h \in Handlers, Step(h)
  PROVE  Lasting'
  <1>1. pc[h] \in SharedPC /\ call[h] \notin Solo
    BY DEF Shared
  <1>2. ~Draft(h) /\ ~Check(h) /\ ~Leaving(h)
    BY <1>1 DEF Draft, ReadLive, Write, ToDraft, ToQueue, Check, Leaving, LeaveLetters, LeaveBills, Leave,
                At, SharedPC
  <1>3. ~Withdraw(h) /\ ~MoveOn(h)
    <2>1. call[h] # "withdraw" /\ ~MovesOn(h)
      BY <1>1, CallsAssumption DEF Disciplined, CallInv, TypeInv, SelfOK, Solo, MovesOn
    <2> QED
      BY <1>1, <2>1 DEF Withdraw, ReadToWithdraw, Pull, Pulled, MoveOn, Reload, Reissue, Replace,
                        ReadToSign, Rescue, At, SharedPC
  <1>4. ~Answer(h)
    BY <1>1 DEF Answer, ReadToAnswer, Sign, Flip, Bill, Accepted, CancelBill, Ask, Credit,
                Settle, OpenUp, Refuse, TurnDown, Declined, At, SharedPC, Solo
  <1> QED
    BY <1>2, <1>3, <1>4, SharedReadToApprove, SharedSend, SharedAnnounce, SharedReadToView, SharedView,
       SharedReadAppToExpire, SharedLapse, SharedExpired, SharedReadToExtend, SharedReopen,
       SharedReopened, SharedPutBack, SharedMove, SharedTidyLetters, SharedTidyBills
    DEF Step, Approve, Lapsing, Extend, MoveBack
-----------------------------------------------------------------------------
(* The calls.                                                                *)

\* Who is called finds nobody who is alone at work.
LEMMA CalledShared ==
  ASSUME CallInv, Disciplined, Lasting, \A g \in Handlers : call[g] \notin Alone
  PROVE  Shared
  <1>1. \A g \in Handlers : call[g] \notin Solo
    BY DEF CallInv, TypeInv, SelfOK, Disciplined, Solo
  <1> QED
    BY <1>1, SharedIs

LEMMA BeginIs ==
  ASSUME CallInv, NEW h \in Handlers, NEW kind, NEW l, NEW n, Begin(h, kind, l, n)
  PROVE  /\ pc[h] = "idle" /\ kind \in Calls /\ \A g \in Handlers : call[g] \notin Alone
         /\ kind \in Alone => Quiet
         /\ pc'[h] = l /\ call'[h] = kind /\ mem'[h].app = app /\ mem'[h].notify = n
         /\ SameOthers(h) /\ UNCHANGED <<app, letter, owed, sweep>>
  BY DEF CallInv, TypeInv, SelfOK, Begin, At, SameOthers, db

LEMMA CalledBeside ==
  ASSUME CallInv, Disciplined, Lasting, NEW h \in Handlers, NEW kind, NEW l, NEW n, Begin(h, kind, l, n),
         (kind \in {"approve", "view", "extend"} /\ l = "letter") \/ (kind = "toDecision" /\ l = "move"),
         kind = "approve" => app = "offer_pending_approval" /\ n,
         kind = "extend" => app # "offer_pending_approval"
  PROVE  Lasting'
  <1>1. /\ pc[h] = "idle" /\ pc'[h] = l /\ call'[h] = kind /\ mem'[h].notify = n
        /\ SameOthers(h) /\ UNCHANGED <<app, letter, owed, sweep>> /\ Shared
    BY BeginIs, CalledShared
  <1>2. /\ kind \notin Solo \cup {"expire"} /\ l \in SharedPC \ Tidying
        /\ (WhoseAt(h) /\ Sends(h) /\ Knows(h))' /\ ~Reviving(h)'
    BY <1>1 DEF Solo, SharedPC, Tidying, WhoseAt, Sends, Knows, Signing, Turning, Extending, MovesOn, Reviving
  <1>3. Cover' /\ Reopens'
    BY <1>1, <1>2, SubsAre, StaysCovered
  <1> QED
    BY <1>1, <1>2, <1>3, SharedOn, Apart DEF Tidying

LEMMA CalledAlone ==
  ASSUME CallInv, Disciplined, Lasting, NEW h \in Handlers, NEW kind, NEW l, NEW n, Begin(h, kind, l, n),
         kind \in Solo, l \in {"draft", "letter", "reissue", "replace", "leaveLetters"},
         app = "offer_sent" /\ Promised => SomeOpen',
         (app = "offer_sent" => SomeOpen') => Here(h)'
  PROVE  Lasting'
  <1>1. /\ pc[h] = "idle" /\ pc'[h] = l /\ call'[h] = kind /\ Quiet
        /\ SameOthers(h) /\ UNCHANGED <<app, letter, owed, sweep>>
    BY BeginIs DEF Disciplined
  <1>2. \A g \in Handlers : pc[g] = "idle" /\ call[g] = "none" /\ ~Settles(g)
    BY <1>1, Idles DEF Quiet, At, Settles
  <1>3. Rest(h)
    BY <1>2 DEF Rest
  <1>4. Rows /\ (Billed => app \in Post) /\ (app = "offer_sent" => Promised)
    BY <1>2 DEF Lasting, Letterwise, WhilePending, WhileExpired, AtRest, Bills, Cover, Rows, Tidying
  <1>5. Lone(h)'
    BY <1>1, <1>4, SameRows, SameBilled, SamePromise DEF Lone, Rows, Here
  <1> QED
    BY <1>1, <1>3, <1>5, LoneEnough DEF Solo

LEMMA CallLasts ==
  ASSUME CallInv, Disciplined, Lasting, NEW h \in Handlers, Call(h)
  PROVE  Lasting'
  <1>0. Promised => SomeOpen
    BY DEF Promised, SomeOpen
  <1>1. CASE CallDraft(h)
    <2>1. PICK n \in BOOLEAN : Begin(h, "draft", "draft", n)
      BY <1>1 DEF CallDraft
    <2>2. Here(h)'
      BY <1>1, <2>1, BeginIs DEF CallDraft, Here, WhoseAt, Sends, Relies, Signing, Turning, MovesOn
    <2>3. Promised => SomeOpen'
      BY <1>0, <2>1, BeginIs, SamePromise
    <2> QED
      BY <2>1, <2>2, <2>3, CalledAlone DEF Solo
  <1>2. CASE CallApprove(h) \/ CallView(h) \/ CallExtend(h)
    BY <1>2, CalledBeside DEF CallApprove, CallView, CallExtend
  <1>3. CASE CallWithdraw(h)
    BY <1>3 DEF CallWithdraw, Begin, Disciplined
  <1>4. CASE CallAnswer(h)
    <2>1. PICK kind \in {"accept", "decline"} : app = "offer_sent" /\ Begin(h, kind, "letter", TRUE)
      BY <1>4 DEF CallAnswer
    <2>a. pc'[h] = "letter" /\ call'[h] = kind /\ app' = "offer_sent"
      BY <2>1, BeginIs
    <2>2. Here(h)'
      BY <2>a DEF Here, WhoseAt, Sends, Relies, Signing, Turning, MovesOn
    <2>3. Promised => SomeOpen'
      BY <1>0, <2>1, BeginIs, SamePromise
    <2> QED
      BY <2>1, <2>2, <2>3, CalledAlone DEF Solo
  <1>5. CASE CallMoveBack(h)
    <2>1. PICK kind \in {"toDecision", "toOffer"} : Begin(h, kind, "move", FALSE)
      BY <1>5 DEF CallMoveBack
    <2>2. kind = "toDecision"
      BY <2>1, BeginIs DEF Disciplined
    <2> QED
      BY <2>1, <2>2, CalledBeside
  <1>6. CASE CallMoveOn(h)
    <2>1. Rank(app) > 0 /\ Begin(h, IF Rank(app) > 3 THEN "moveOn" ELSE "draftOn", Stage(app), FALSE)
      BY <1>6 DEF CallMoveOn
    <2>2. /\ app \in { "offer_expired", "offer_declined", "approved", "offer_draft",
                       "offer_pending_approval", "offer_sent" }
          /\ Stage(app) = CASE app = "offer_expired" -> "reissue"
                            [] app = "offer_declined" -> "replace"
                            [] app \in {"approved", "offer_draft"} -> "draft"
                            [] app \in {"offer_pending_approval", "offer_sent"} -> "letter"
      BY <2>1 DEF Rank, Stage
    <2>3. /\ pc'[h] = Stage(app) /\ call'[h] \in {"moveOn", "draftOn"} /\ mem'[h].app = app /\ ~mem'[h].notify
          /\ UNCHANGED <<app, letter, owed, sweep>>
      BY <2>1, BeginIs
    <2>4. (app = "offer_sent" => SomeOpen') => Here(h)'
      BY <2>2, <2>3 DEF Here, WhoseAt, Sends, Relies, Signing, Turning, MovesOn, DraftFrom
    <2>5. Promised => SomeOpen'
      BY <1>0, <2>3, SamePromise
    <2>6. /\ Stage(app) \in {"draft", "letter", "reissue", "replace", "leaveLetters"}
          /\ (IF Rank(app) > 3 THEN "moveOn" ELSE "draftOn") \in Solo
      BY <2>2 DEF Solo
    <2> QED
      BY <2>1, <2>4, <2>5, <2>6, CalledAlone
  <1>7. CASE CallLeave(h)
    <2>1. Begin(h, "leave", "leaveLetters", TRUE)
      BY <1>7 DEF CallLeave
    <2>a. pc'[h] = "leaveLetters" /\ call'[h] = "leave" /\ mem'[h].app = app'
      BY <2>1, BeginIs
    <2>2. Here(h)'
      BY <2>a DEF Here, WhoseAt, Sends, Relies, Signing, Turning, MovesOn
    <2>3. Promised => SomeOpen'
      BY <1>0, <2>1, BeginIs, SamePromise
    <2> QED
      BY <2>1, <2>2, <2>3, CalledAlone DEF Solo
  <1> QED
    BY <1>1, <1>2, <1>3, <1>4, <1>5, <1>6, <1>7 DEF Call

LEMMA SweepLasts ==
  ASSUME CallInv, Disciplined, Lasting, NEW h \in Handlers, NEW o \in Letters, CallExpire(h, o)
  PROVE  Lasting'
  <1>0. /\ sweep[o] /\ pc[h] = "idle" /\ Shared /\ UNCHANGED <<app, letter, owed>>
        /\ \A g \in Handlers : pc[g] # "idle" /\ sub[g] = o => call[g] # "expire"
    BY CalledShared DEF CallExpire, At
  <1>1. CASE letter[o] \in Open
    <2>1. /\ call' = [call EXCEPT ![h] = "expire"] /\ pc' = [pc EXCEPT ![h] = "readApp"]
          /\ sub' = [sub EXCEPT ![h] = o] /\ mem' = [mem EXCEPT ![h] = [@ EXCEPT !.past = TRUE]]
          /\ UNCHANGED sweep
      BY <1>1 DEF CallExpire
    <2>2. pc'[h] = "readApp" /\ call'[h] = "expire" /\ sub'[h] = o /\ SameOthers(h)
      BY <2>1 DEF CallInv, TypeInv, SelfOK, SameOthers
    <2>3. app \notin {"offer_pending_approval", "offer_expired"}
      BY <1>0, <1>1, Statuses DEF Lasting, Letterwise, WhilePending, WhileExpired, Fresh, Swept
    <2>4. /\ "expire" \notin Solo /\ (WhoseAt(h) /\ Sends(h) /\ Knows(h))' /\ ~Reviving(h)'
          /\ pc'[h] \in SharedPC \ Tidying /\ pc[h] \notin Tidying
      BY <1>0, <2>2
         DEF Solo, WhoseAt, Sends, Knows, Signing, Turning, Extending, Reviving, SharedPC, Tidying, MovesOn
    <2>5. Cover' /\ Reopens'
      BY <1>0, <2>1, <2>2, <2>4, SubsAre, StaysCovered
    <2>6. \A g \in Handlers : pc[g] \in Tidying \/ pc'[g] \in Tidying => pc'[g] = pc[g]
      BY <2>2, <2>4 DEF SameOthers
    <2>7. (\A g \in Handlers : Sends(g) /\ Knows(g))'
      BY <1>0, <2>2, <2>4 DEF Lasting, Sends, Knows, SameOthers, MovesOn, Extending
    <2>8. Letterwise'
      <3>1. (OneInPlay /\ Unsent /\ TidiesAfter)'
        BY <1>0, <2>1, <2>6 DEF Lasting, Letterwise, OneInPlay, Unsent, TidiesAfter
      <3>2. (AtRest /\ Unsendable)'
        BY <1>0, <2>2, <2>6 DEF Lasting, Letterwise, AtRest, NonePassing, Unsendable, SameOthers, Tidying
      <3> QED
        BY <1>0, <2>3, <3>1, <3>2 DEF Letterwise, WhilePending, WhileExpired
    <2>9. Lapses'
      <3>1. \A g \in Handlers \ {h} : call[g] = "expire" => sub[g] # o
        BY <1>0, Idles, KindOf
      <3>2. letter[o] \in Passing
        BY <1>1, Statuses
      <3> QED
        BY <1>0, <2>2, <3>1, <3>2 DEF Lasting, Lapses, SameOthers
    <2>10. Bills'
      <3>1. \A g \in Handlers : pc[g] # "accepted"
        BY <1>0 DEF Shared, SharedPC
      <3> QED
        BY <1>0, <2>6, <3>1, SameBilled DEF Lasting, Bills
    <2> QED
      BY <1>0, <2>2, <2>4, <2>5, <2>7, <2>8, <2>9, <2>10, SharedEnough
  <1>2. CASE letter[o] \notin Open
    <2>1. sweep' = [sweep EXCEPT ![o] = FALSE] /\ UNCHANGED self
      BY <1>2 DEF CallExpire
    <2>2. \A q \in Letters : (sweep'[q] => sweep[q]) /\ (letter[q] \in Open /\ sweep[q] => sweep'[q])
      BY <1>2, <2>1 DEF CallInv, TypeInv, DbOK
    <2>3. \A g \in Handlers : (WhoseAt(g) /\ Sends(g) /\ Knows(g) /\ Relies(g))'
      BY <1>0, <2>1
         DEF self, Lasting, WhoseAt, Sends, Knows, Relies, MovesOn, SomeOpen, NonePassing
    <2>4. Letterwise'
      BY <1>0, <2>1, <2>2
         DEF self, Lasting, Letterwise, OneInPlay, Unsent, WhilePending, WhileExpired, Fresh, Swept,
             AtRest, NonePassing, Unsendable, TidiesAfter
    <2>5. (Lapses /\ Reopens /\ Bills)'
      BY <1>0, <2>1 DEF self, Lasting, Lapses, Reopens, Reviving, Bills, Billed
    <2>6. Cover'
      BY <1>0, <2>1, <2>2 DEF self, Lasting, Cover, Promised, Settles, MovesOn
    <2> QED
      BY <2>3, <2>4, <2>5, <2>6 DEF Lasting
  <1> QED
    BY <1>1, <1>2

\* The decision taken again, and the family that pays, are of no moment to the
\* letters.
LEMMA WorldLasts ==
  ASSUME CallInv, Disciplined, Lasting, UNCHANGED <<letter, sweep, self>>,
         \/ app = "awaiting_decision" /\ app' = "approved" /\ UNCHANGED owed
         \/ app = "payment_required" /\ app' = "registration_incomplete"
  PROVE  Lasting'
  <1>1. ASSUME NEW g \in Handlers PROVE (WhoseAt(g) /\ Sends(g) /\ Knows(g) /\ Relies(g))'
    <2>1. /\ WhoseAt(g) /\ Sends(g) /\ Knows(g) /\ Relies(g)
          /\ MovesOn(g) => mem[g].app # app
          /\ pc[g] \in {"pull", "pulled", "reissue"} => MovesOn(g)
      BY MovesFrom, WhoIsAt DEF Lasting, MovesOn
    <2>2. (WhoseAt(g) /\ Sends(g) /\ Knows(g))'
      BY <2>1 DEF self, WhoseAt, Sends, Knows, MovesOn
    <2>3. Relies(g)'
      BY <2>1, SamePromise DEF self, Relies, MovesOn, Post, DraftFrom
    <2> QED
      BY <2>2, <2>3
  <1>2. Letterwise'
    <2>1. (OneInPlay /\ Unsent)'
      BY DEF self, Lasting, Letterwise, OneInPlay, Unsent
    <2>2. (AtRest /\ Unsendable /\ TidiesAfter)'
      BY SamePromise DEF self, Lasting, Letterwise, AtRest, Unsendable, TidiesAfter, Resting
    <2> QED
      BY <2>1, <2>2 DEF Letterwise, WhilePending, WhileExpired
  <1>3. Lapses' /\ Reopens' /\ Cover'
    BY DEF self, Lasting, Lapses, Reopens, Cover
  <1>4. Bills'
    BY SameBilled DEF self, Lasting, Bills, Post
  <1> QED
    BY <1>1, <1>2, <1>3, <1>4 DEF Lasting

LEMMA SameLasts ==
  ASSUME Lasting, UNCHANGED <<app, letter, owed, sweep, self>>
  PROVE  Lasting'
  <1>1. \A g \in Handlers : (WhoseAt(g) /\ Sends(g) /\ Knows(g) /\ Relies(g))'
    BY DEF self, Lasting, WhoseAt, Sends, Knows, Relies, MovesOn, SomeOpen, NonePassing
  <1>2. Letterwise'
    BY DEF self, Lasting, Letterwise, OneInPlay, Unsent, WhilePending, WhileExpired, Fresh, Swept,
           AtRest, NonePassing, Unsendable, TidiesAfter
  <1>3. (Lapses /\ Reopens /\ Bills /\ Cover)'
    BY DEF self, Lasting, Lapses, Reopens, Reviving, Bills, Billed, Cover, Promised, Settles, MovesOn
  <1> QED
    BY <1>1, <1>2, <1>3 DEF Lasting

\* A step is somebody's at work, and kills nobody.
LEMMA StepIsAt ==
  ASSUME NEW h \in Handlers, Step(h)
  PROVE  pc[h] # "idle" /\ UNCHANGED crashes
  <1>1. CASE Draft(h) \/ Approve(h) \/ ReadToView(h) \/ View(h)
    BY <1>1 DEF Draft, ReadLive, Write, ToDraft, ToQueue, Approve, ReadToApprove, Check, Send, Announce,
                ReadToView, View, Read, At
  <1>2. CASE Lapsing(h) \/ Withdraw(h)
    BY <1>2 DEF Lapsing, ReadAppToExpire, Lapse, Expired, Withdraw, ReadToWithdraw, Pull, Pulled, Read, At
  <1>3. CASE Answer(h)
    BY <1>3 DEF Answer, ReadToAnswer, Sign, Flip, Bill, Accepted, CancelBill, Ask, Credit,
                Settle, OpenUp, Refuse, TurnDown, Declined, Read, At
  <1>4. CASE Extend(h) \/ MoveBack(h)
    BY <1>4 DEF Extend, ReadToExtend, Reopen, Reopened, PutBack, MoveBack, Move, TidyLetters, TidyBills,
                Read, At
  <1>5. CASE MoveOn(h) \/ Leaving(h)
    BY <1>5 DEF MoveOn, Reload, Reissue, Replace, ReadToSign, Rescue, Leaving, LeaveLetters, LeaveBills,
                Leave, Read, At
  <1> QED
    BY <1>1, <1>2, <1>3, <1>4, <1>5 DEF Step

\* As long as nobody has been killed.
LastingInv == CallInv /\ (crashes = 0 => Lasting)

LEMMA NextLasting == Disciplined /\ LastingInv /\ [Next]_vars => LastingInv'
  <1> SUFFICES ASSUME Disciplined, CallInv, crashes = 0 => Lasting, [Next]_vars, crashes' = 0
               PROVE  Lasting'
    BY NextCall DEF LastingInv
  <1>0. crashes \in Nat
    BY DEF CallInv, TypeInv
  <1>1. ASSUME NEW h \in Handlers, Step(h) PROVE Lasting'
    <2>1. Lasting
      BY <1>1, StepIsAt
    <2>2. CASE call[h] \in Solo
      BY <1>1, <2>1, <2>2, SoloStep
    <2>3. CASE call[h] \notin Solo
      <3>1. pc[h] # "idle"
        BY <1>1, StepIsAt
      <3>2. \A g \in Handlers : call[g] \notin Solo
        BY <2>3, <3>1, SoloIs, Idles, KindOf DEF Rest
      <3> QED
        BY <1>1, <2>1, <3>2, SharedIs, SharedStep
    <2> QED
      BY <2>2, <2>3
  <1>2. ASSUME NEW h \in Handlers, Call(h) PROVE Lasting'
    BY <1>2, CallLasts DEF Call, CallDraft, CallApprove, CallView, CallWithdraw, CallAnswer, CallExtend,
                           CallMoveBack, CallMoveOn, CallLeave, Begin
  <1>3. ASSUME NEW o \in Letters, Sweep(o) PROVE Lasting'
    BY <1>3, SweepLasts DEF Sweep, CallExpire
  <1>4. ASSUME NEW h \in Handlers, Crash(h) PROVE FALSE
    BY <1>0, <1>4 DEF Crash
  <1>5. CASE World
    <2>1. Lasting
      BY <1>5 DEF World, DecideAgain, FamilyPays, TimePasses
    <2> QED
      BY <1>5, <2>1, WorldLasts, SameLasts DEF World, DecideAgain, FamilyPays, TimePasses
  <1>6. CASE UNCHANGED vars
    BY <1>6, SameLasts DEF vars, self
  <1> QED
    BY <1>1, <1>2, <1>3, <1>4, <1>5, <1>6 DEF Next

LEMMA InitLasting == Init => LastingInv
  <1> SUFFICES ASSUME Init PROVE Lasting
    BY InitCall DEF LastingInv
  <1>1. /\ app = "approved" /\ \A o \in Letters : letter[o] = "none" /\ ~sweep[o] /\ owed[o] = "none"
        /\ \A h \in Handlers : pc[h] = "idle" /\ call[h] = "none"
    BY DEF Init
  <1>2. \A h \in Handlers : WhoseAt(h) /\ Sends(h) /\ Knows(h) /\ Relies(h)
    BY <1>1 DEF WhoseAt, Sends, Knows, Relies, MovesOn, Signing, Turning, Extending, Solo
  <1>3. Letterwise
    BY <1>1, Statuses DEF Letterwise, OneInPlay, Unsent, WhilePending, WhileExpired, AtRest, NonePassing,
                          Unsendable, TidiesAfter, Tidying
  <1>4. Lapses /\ Reopens /\ Bills /\ Cover
    BY <1>1 DEF Lapses, Reopens, Bills, Billed, Unpaid, Cover
  <1> QED
    BY <1>2, <1>3, <1>4 DEF Lasting

\* Once every invocation has ended, a sent offer has a letter that is open and
\* a sweep that will close it: never "at offer sent for ever with the family
\* holding nothing".  An approval, the parent's page, the sweep, a later
\* closing date and a move back to Decision may meet at will; what drafts,
\* answers, moves on or leaves is beside nothing else, and nobody withdraws a
\* letter by hand or goes back to Offer (onOfferApproved, onOfferExpired,
\* onOfferDeadlineMoved, moveBack and toPayment).
THEOREM SentLapses ==
  ASSUME {"draft", "draftOn", "moveOn", "accept", "decline", "leave"} \cap Calls \subseteq Alone,
         {"withdraw", "toOffer"} \cap Calls = {}
  PROVE  Spec => []SentWillLapse
  <1>0. Disciplined
    BY DEF Disciplined, Solo
  <1>1. Init => LastingInv
    BY InitLasting
  <1>2. LastingInv /\ [Next]_vars => LastingInv'
    BY <1>0, NextLasting
  <1>3. LastingInv => SentWillLapse
    <2> SUFFICES ASSUME LastingInv, Settled, app = "offer_sent" PROVE Promised
      BY DEF SentWillLapse, Promised
    <2>1. \A h \in Handlers : ~Settles(h)
      BY DEF Settled, Quiet, At, Settles
    <2> QED
      BY <2>1 DEF LastingInv, Settled, Lasting, Cover
  <1> QED
    BY <1>1, <1>2, <1>3, PTL DEF Spec
===============================================================================
