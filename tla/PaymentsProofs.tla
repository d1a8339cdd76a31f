---------------------------- MODULE PaymentsProofs ----------------------------
(* Payments for any number of payments and invocations: the types, who        *)
(* confirms and who settles, what the registration and the ledger rest on,    *)
(* and the steps of Receipts that its steps are.                              *)
EXTENDS Payments, Totals, FiniteSetTheorems, TLAPS

\* What an invocation holds has its type.
Control ==
  /\ pc \in [Handlers -> PC] /\ sub \in [Handlers -> Payments \cup {"none"}]
  /\ mem \in [Handlers -> Mem]

\* A checkout is opened for something still outstanding.
Outstanding == \A h \in Handlers : pc[h] = "insert" => mem[h].paid < Amount

\* The statements of an invocation that is about a payment.
AboutOne ==
  { "checkout", "launch", "markRequest", "announce", "ask", "readRequest", "readApp",
    "claim", "credit", "partial", "settle", "file", "openRegistration",
    "fail", "review", "reopen", "demote", "refund", "refundRead", "refundRequest" }
Subjects == \A h \in Handlers : pc[h] \in AboutOne => sub[h] \in Payments

LEMMA FreshType ==
  ASSUME NEW b \in BOOLEAN, NEW s \in AppStatus, NEW a \in Answer
  PROVE  Fresh(b, s, a) \in Mem
  BY DEF Fresh, Mem

LEMMA BlankType == Blank \in Mem
  BY FreshType DEF Blank, AppStatus, Answer

LEMMA MemUpdate ==
  ASSUME NEW m \in Mem
  PROVE  /\ \A v \in AppStatus : [m EXCEPT !["app"] = v] \in Mem
         /\ \A v \in Nat : [m EXCEPT !["paid"] = v] \in Mem
         /\ \A v \in Nat : [m EXCEPT !["tries"] = v] \in Mem
         /\ \A v \in Answer : [m EXCEPT !["ans"] = v] \in Mem
  BY DEF Mem

LEMMA MemFields ==
  ASSUME NEW m \in Mem
  PROVE  m.paid \in Nat /\ m.app \in AppStatus /\ m.ans \in Answer /\ m.tries \in Nat
  BY DEF Mem

\* The five ways a statement ends keep the types of what the invocation holds.
LEMMA DoneType ==
  ASSUME TypeOK, NEW h \in Handlers, Done(h)
  PROVE  Control'
  BY BlankType DEF TypeOK, Done, Control, PC

LEMMA GotoType ==
  ASSUME TypeOK, NEW h \in Handlers, NEW l \in PC, Goto(h, l)
  PROVE  pc' \in [Handlers -> PC] /\ sub' \in [Handlers -> Payments \cup {"none"}]
  BY DEF TypeOK, Goto

LEMMA KeepType ==
  ASSUME TypeOK, NEW h \in Handlers, Keep(h)
  PROVE  mem' \in [Handlers -> Mem]
  BY DEF TypeOK, Keep

LEMMA HoldType ==
  ASSUME TypeOK, NEW h \in Handlers, NEW v,
         \/ Hold(h, "app", v) /\ v \in AppStatus
         \/ Hold(h, "paid", v) /\ v \in Nat
         \/ Hold(h, "tries", v) /\ v \in Nat
         \/ Hold(h, "ans", v) /\ v \in Answer
  PROVE  mem' \in [Handlers -> Mem]
  <1>1. mem[h] \in Mem
    BY DEF TypeOK
  <1> QED
    BY <1>1, MemUpdate DEF TypeOK, Hold

LEMMA BeginType ==
  ASSUME TypeOK, NEW h \in Handlers, NEW l \in PC, NEW p \in Payments \cup {"none"},
         NEW m \in Mem, Begin(h, l, p, m)
  PROVE  Control'
  BY DEF TypeOK, Begin, Control

LEMMA InitType == Init => TypeOK
  <1> SUFFICES ASSUME Init PROVE TypeOK
    OBVIOUS
  <1> USE NoneAssumption
  <1>1. mem \in [Handlers -> Mem]
    BY BlankType DEF Init
  <1>2. /\ app \in AppStatus /\ moved \in BOOLEAN
        /\ reqStatus \in ReqStatus /\ reqPaid \in Nat
    BY DEF Init, AppStatus, ReqStatus
  <1>3. /\ row \in [Payments -> RowStatus] /\ amt \in [Payments -> Nat]
        /\ ref \in [Payments -> BOOLEAN] /\ age \in [Payments -> Age]
    BY DEF Init, RowStatus, Age
  <1>4. /\ timeline \in [Payments -> SUBSET Filed] /\ tasks \subseteq Money
        /\ gateway \in [Payments -> Answer \cup {"none", "open", "visited"}]
    BY DEF Init
  <1>5. /\ pc \in [Handlers -> PC] /\ sub \in [Handlers -> Payments \cup {"none"}]
        /\ crashes \in Nat
    BY DEF Init, PC
  <1> QED
    BY <1>1, <1>2, <1>3, <1>4, <1>5 DEF TypeOK

LEMMA StatementType ==
  ASSUME TypeOK, Outstanding, Subjects, NEW h \in Handlers, Statement(h) \/ VerifyThrows(h)
  PROVE  TypeOK'
  <1> USE AmountAssumption, BoundsAssumption DEF TypeOK, db
  <1>f. mem[h] \in Mem /\ Blank \in Mem
    BY BlankType
  <1>m. mem[h].paid \in Nat /\ mem[h].app \in AppStatus /\ mem[h].ans \in Answer /\ mem[h].tries \in Nat
    BY <1>f, MemFields
  <1>1. CASE StartReadRequest(h)
    BY <1>1, <1>m, DoneType, GotoType, KeepType, HoldType DEF StartReadRequest, Control, File, AppStatus, ReqStatus, RowStatus, Answer, Filed, Money, PC
  <1>2. CASE StartInsert(h)
    <2>1. CASE Done(h) /\ UNCHANGED <<row, amt>>
      BY <2>1, <1>2, DoneType DEF StartInsert, Control
    <2>2. Amount - mem[h].paid \in Nat
      BY <1>2, <1>m DEF StartInsert, At, Outstanding
    <2>3. ASSUME NEW p \in Payments,
                 row' = [row EXCEPT ![p] = "pending"],
                 amt' = [amt EXCEPT ![p] = Amount - mem[h].paid],
                 pc'  = [pc  EXCEPT ![h] = "checkout"],
                 sub' = [sub EXCEPT ![h] = p], Keep(h)
          PROVE  TypeOK'
      BY <2>2, <2>3, <1>2, KeepType DEF StartInsert, RowStatus, PC
    <2> QED
      BY <2>1, <2>3, <1>2 DEF StartInsert, InsertRow
  <1>3. CASE CheckoutOpened(h)
    BY <1>3, <1>m, DoneType, GotoType, KeepType, HoldType DEF CheckoutOpened, Control, File, AppStatus, ReqStatus, RowStatus, Answer, Filed, Money, PC
  <1>4. CASE CheckoutRefused(h)
    BY <1>4, <1>m, DoneType, GotoType, KeepType, HoldType DEF CheckoutRefused, Control, File, AppStatus, ReqStatus, RowStatus, Answer, Filed, Money, PC
  <1>5. CASE Launch(h)
    <2>0. sub[h] \in Payments
      BY <1>5 DEF Launch, At, Subjects, AboutOne
    <2>1. CASE row[sub[h]] = "pending"
      <3>1. row' \in [Payments -> RowStatus] /\ ref' \in [Payments -> BOOLEAN]
        BY <2>0, <2>1, <1>5 DEF Launch, RowStatus
      <3> QED
        BY <2>1, <3>1, <1>5, GotoType, KeepType DEF Launch, PC
    <2>2. CASE row[sub[h]] # "pending"
      BY <2>2, <1>5, DoneType DEF Launch, Control
    <2> QED
      BY <2>1, <2>2
  <1>6. CASE MarkRequest(h)
    BY <1>6, <1>m, DoneType, GotoType, KeepType, HoldType DEF MarkRequest, Control, File, AppStatus, ReqStatus, RowStatus, Answer, Filed, Money, PC
  <1>7. CASE Announce(h)
    BY <1>7, <1>m, DoneType, GotoType, KeepType, HoldType DEF Announce, Control, File, AppStatus, ReqStatus, RowStatus, Answer, Filed, Money, PC
  <1>8. CASE Ask(h)
    <2>1. sub[h] \in Payments
      BY <1>8 DEF Ask, At, Subjects, AboutOne
    <2>2. VerifyAnswer(sub[h]) \in Answer
      BY <2>1 DEF VerifyAnswer, Answer
    <2>3. mem' \in [Handlers -> Mem]
      BY <2>2, <1>8, HoldType DEF Ask
    <2>4. age' \in [Payments -> Age]
      BY <1>8 DEF Ask, Age
    <2> QED
      BY <2>3, <2>4, <1>8, GotoType DEF Ask, PC
  <1>9. CASE ReadRequest(h)
    <2>1. mem' \in [Handlers -> Mem]
      <3> DEFINE a == IF mem[h].ans = "pending" /\ ~mem[h].revive /\ age[sub[h]] # "ours"
                      THEN "expired" ELSE mem[h].ans
      <3>1. a \in Answer
        BY <1>m DEF Answer
      <3>2. mem[h].revive \in BOOLEAN
        BY <1>f DEF Mem
      <3>3. [revive |-> mem[h].revive, paid |-> reqPaid, app |-> mem[h].app,
             ans |-> a, tries |-> mem[h].tries] \in Mem
        BY <3>1, <3>2, <1>m DEF Mem
      <3> QED
        BY <3>3, <1>9 DEF ReadRequest
    <2> QED
      BY <2>1, <1>9, GotoType DEF ReadRequest, PC
  <1>10. CASE ReadApp(h)
    BY <1>10, <1>m, DoneType, GotoType, KeepType, HoldType DEF ReadApp, Control, File, AppStatus, ReqStatus, RowStatus, Answer, Filed, Money, PC
  <1>11. CASE ClaimRow(h)
    BY <1>11, <1>m, DoneType, GotoType, KeepType, HoldType DEF ClaimRow, Control, File, AppStatus, ReqStatus, RowStatus, Answer, Filed, Money, PC
  <1>12. CASE Credit(h)
    <2>1. sub[h] \in Payments
      BY <1>12 DEF Credit, At, Subjects, AboutOne
    <2>2. reqPaid' \in Nat /\ reqStatus' \in ReqStatus
      BY <2>1, <1>12, <1>m DEF Credit, ReqStatus
    <2> QED
      BY <2>2, <1>12, <1>m, GotoType, KeepType DEF Credit, PC
  <1>13. CASE FilePartial(h)
    BY <1>13, <1>m, DoneType, GotoType, KeepType, HoldType DEF FilePartial, Control, File, AppStatus, ReqStatus, RowStatus, Answer, Filed, Money, PC
  <1>14. CASE ReadStatus(h)
    BY <1>14, <1>m, DoneType, GotoType, KeepType, HoldType DEF ReadStatus, Control, File, AppStatus, ReqStatus, RowStatus, Answer, Filed, Money, PC
  <1>15. CASE Settle(h)
    <2> USE <1>15 DEF Settle
    <2>1. CASE FileAfterMove(h)
      BY <2>1, DoneType DEF FileAfterMove, File, Control, Filed
    <2>2. CASE FileUnexpected(h)
      BY <2>2, DoneType DEF FileUnexpected, File, Control, Filed, Money
    <2>3. CASE CommitPaid(h)
      BY <2>3, GotoType, KeepType DEF CommitPaid, File, Filed, AppStatus, PC
    <2>4. CASE CommitConflict(h)
      <3>1. mem[h].tries + 1 \in Nat
        BY <1>m
      <3> QED
        BY <3>1, <2>4, DoneType, GotoType, HoldType DEF CommitConflict, Control, PC
    <2> QED
      BY <2>1, <2>2, <2>3, <2>4
  <1>16. CASE OpenRegistration(h)
    BY <1>16, <1>m, DoneType, GotoType, KeepType, HoldType DEF OpenRegistration, Control, File, AppStatus, ReqStatus, RowStatus, Answer, Filed, Money, PC
  <1>17. CASE ClaimFailure(h)
    BY <1>17, <1>m, DoneType, GotoType, KeepType, HoldType DEF ClaimFailure, Control, File, AppStatus, ReqStatus, RowStatus, Answer, Filed, Money, PC
  <1>18. CASE FileReview(h)
    BY <1>18, <1>m, DoneType, GotoType, KeepType, HoldType DEF FileReview, Control, File, AppStatus, ReqStatus, RowStatus, Answer, Filed, Money, PC
  <1>19. CASE ReopenRequest(h)
    BY <1>19, <1>m, DoneType, GotoType, KeepType, HoldType DEF ReopenRequest, Control, File, AppStatus, ReqStatus, RowStatus, Answer, Filed, Money, PC
  <1>20. CASE Demote(h)
    BY <1>20, <1>m, DoneType, GotoType, KeepType, HoldType DEF Demote, Control, File, AppStatus, ReqStatus, RowStatus, Answer, Filed, Money, PC
  <1>21. CASE EftReadRequest(h)
    BY <1>21, <1>m, DoneType, GotoType, KeepType, HoldType DEF EftReadRequest, Control, File, AppStatus, ReqStatus, RowStatus, Answer, Filed, Money, PC
  <1>22. CASE EftInsert(h)
    BY <1>22, <1>m, DoneType, GotoType, KeepType, HoldType DEF EftInsert, InsertRow, Control, File, AppStatus, ReqStatus, RowStatus, Answer, Filed, Money, PC
  <1>23. CASE GiveUpReadRow(h)
    BY <1>23, <1>m, DoneType, GotoType, KeepType, HoldType DEF GiveUpReadRow, Control, File, AppStatus, ReqStatus, RowStatus, Answer, Filed, Money, PC
  <1>24. CASE RefundRow(h)
    BY <1>24, <1>m, DoneType, GotoType, KeepType, HoldType DEF RefundRow, Control, File, AppStatus, ReqStatus, RowStatus, Answer, Filed, Money, PC
  <1>25. CASE RefundReadRequest(h)
    BY <1>25, <1>m, DoneType, GotoType, KeepType, HoldType DEF RefundReadRequest, Control, File, AppStatus, ReqStatus, RowStatus, Answer, Filed, Money, PC
  <1>26. CASE RefundRequest(h)
    <2>1. sub[h] \in Payments
      BY <1>26 DEF RefundRequest, At, Subjects, AboutOne
    <2>2. reqPaid' \in Nat /\ reqStatus' \in ReqStatus
      BY <2>1, <1>26, <1>m DEF RefundRequest, ReqStatus
    <2> QED
      BY <2>2, <1>26, DoneType DEF RefundRequest, Control
  <1>27. CASE CloseRequest(h)
    BY <1>27, <1>m, DoneType, GotoType, KeepType, HoldType DEF CloseRequest, Control, File, AppStatus, ReqStatus, RowStatus, Answer, Filed, Money, PC
  <1>28. CASE ExpirePending(h)
    BY <1>28, <1>m, DoneType, GotoType, KeepType, HoldType DEF ExpirePending, PendingExpired, Control, File, AppStatus, ReqStatus, RowStatus, Answer, Filed, Money, PC
  <1>29. CASE CancelTasks(h)
    BY <1>29, <1>m, DoneType, GotoType, KeepType, HoldType DEF CancelTasks, Control, File, AppStatus, ReqStatus, RowStatus, Answer, Filed, Money, PC
  <1>30. CASE CommitWithdrawn(h)
    BY <1>30, <1>m, DoneType, GotoType, KeepType, HoldType DEF CommitWithdrawn, Control, File, AppStatus, ReqStatus, RowStatus, Answer, Filed, Money, PC
  <1>31. CASE MoveClose(h)
    BY <1>31, <1>m, DoneType, GotoType, KeepType, HoldType DEF MoveClose, Control, File, AppStatus, ReqStatus, RowStatus, Answer, Filed, Money, PC
  <1>32. CASE MoveExpire(h)
    BY <1>32, <1>m, DoneType, GotoType, KeepType, HoldType DEF MoveExpire, PendingExpired, Control, File, AppStatus, ReqStatus, RowStatus, Answer, Filed, Money, PC
  <1>33. CASE CommitMove(h)
    BY <1>33, <1>m, DoneType, GotoType, KeepType, HoldType DEF CommitMove, Control, File, AppStatus, ReqStatus, RowStatus, Answer, Filed, Money, PC
  <1>34. CASE VerifyThrows(h)
    BY <1>34, <1>m, DoneType, GotoType, KeepType, HoldType DEF VerifyThrows, Control, File, AppStatus, ReqStatus, RowStatus, Answer, Filed, Money, PC
  <1> QED
    BY <1>1, <1>2, <1>3, <1>4, <1>5, <1>6, <1>7, <1>8, <1>9, <1>10, <1>11, <1>12, <1>13, <1>14, <1>15, <1>16, <1>17, <1>18, <1>19, <1>20, <1>21, <1>22, <1>23, <1>24, <1>25, <1>26, <1>27, <1>28, <1>29, <1>30, <1>31, <1>32, <1>33, <1>34 DEF Statement

LEMMA CallType ==
  ASSUME TypeOK, NEW h \in Handlers, Call(h)
  PROVE  TypeOK'
  <1> USE DEF TypeOK, db
  <1>f. /\ Blank \in Mem
        /\ \A b \in BOOLEAN : Fresh(b, "payment_required", "pending") \in Mem
        /\ Fresh(FALSE, app, "pending") \in Mem /\ Fresh(FALSE, app, "expired") \in Mem
    BY BlankType, FreshType DEF AppStatus, Answer
  <1>1. CASE StartPayment(h)
    BY <1>1, <1>f, BeginType DEF StartPayment, Control, PC
  <1>2. CASE RecordEft(h)
    BY <1>2, <1>f, BeginType DEF RecordEft, Control, PC
  <1>3. CASE GiveUp(h)
    BY <1>3, <1>f, BeginType DEF GiveUp, Control, PC
  <1>4. CASE Withdraw(h)
    BY <1>4, <1>f, BeginType DEF Withdraw, Control, PC
  <1>5. ASSUME NEW p \in Payments, NEW revive \in BOOLEAN, Reconcile(h, p, revive)
        PROVE  TypeOK'
    <2>1. (row[p] \in Revivable) \in BOOLEAN
      OBVIOUS
    <2>2. Fresh(row[p] \in Revivable, "payment_required", "pending") \in Mem
      BY <2>1, FreshType, Zenon DEF AppStatus, Answer
    <2>3. Control'
      <3>1. Begin(h, "ask", p, Fresh(row[p] \in Revivable, "payment_required", "pending"))
        BY <1>5 DEF Reconcile
      <3> QED
        BY <2>2, <3>1, BeginType DEF PC
    <2> QED
      BY <1>5, <2>3 DEF Reconcile, Control
  <1>6. ASSUME NEW p \in Payments, RecordRefund(h, p)
        PROVE  TypeOK'
    BY <1>6, <1>f, BeginType DEF RecordRefund, Control, PC
  <1>7. ASSUME NEW b \in BOOLEAN, MoveToRegistration(h, b)
        PROVE  TypeOK'
    BY <1>7, <1>f, BeginType DEF MoveToRegistration, Control, PC
  <1> QED
    BY <1>1, <1>2, <1>3, <1>4, <1>5, <1>6, <1>7 DEF Call

LEMMA WorldType ==
  ASSUME TypeOK, World
  PROVE  TypeOK'
  <1> USE DEF TypeOK, db
  <1>1. ASSUME NEW p \in Payments, GatewayDecides(p)
        PROVE  TypeOK'
    <2>1. gateway' \in [Payments -> Answer \cup {"none", "open", "visited"}]
      BY <1>1 DEF GatewayDecides, Answer
    <2> QED
      BY <1>1, <2>1 DEF GatewayDecides
  <1>2. ASSUME NEW p \in Payments, WindowCloses(p)
        PROVE  TypeOK'
    BY <1>2 DEF WindowCloses, Age
  <1>3. ASSUME NEW h \in Handlers, Crash(h)
        PROVE  TypeOK'
    BY <1>3, DoneType DEF Crash, Control
  <1> QED
    BY <1>1, <1>2, <1>3 DEF World

LEMMA StatementSubjects ==
  ASSUME TypeOK, Outstanding, Subjects, NEW h \in Handlers, Statement(h) \/ VerifyThrows(h)
  PROVE  Outstanding' /\ Subjects'
  <1> USE AmountAssumption DEF TypeOK, Outstanding, Subjects, AboutOne, Goto, Keep, Hold, Done, At
  <1>1. CASE StartReadRequest(h)
    <2>1. CASE Done(h)
      BY <1>1, <2>1
    <2>2. CASE Goto(h, "insert") /\ Hold(h, "paid", reqPaid) /\ Amount - reqPaid > 0
      <3>1. mem'[h].paid = reqPaid
        BY <2>2 DEF Mem
      <3> QED
        BY <1>1, <2>2, <3>1
    <2> QED
      BY <1>1, <2>1, <2>2 DEF StartReadRequest
  <1>2. CASE StartInsert(h)
    BY <1>2 DEF StartInsert, InsertRow
  <1>3. CASE CheckoutOpened(h)
    BY <1>3 DEF CheckoutOpened
  <1>4. CASE CheckoutRefused(h)
    BY <1>4 DEF CheckoutRefused
  <1>5. CASE Launch(h)
    BY <1>5 DEF Launch
  <1>6. CASE MarkRequest(h)
    BY <1>6 DEF MarkRequest
  <1>7. CASE Announce(h)
    BY <1>7 DEF Announce
  <1>8. CASE Ask(h)
    BY <1>8 DEF Ask, VerifyAnswer
  <1>9. CASE ReadRequest(h)
    BY <1>9 DEF ReadRequest
  <1>10. CASE ReadApp(h)
    BY <1>10 DEF ReadApp
  <1>11. CASE ClaimRow(h)
    BY <1>11 DEF ClaimRow
  <1>12. CASE Credit(h)
    BY <1>12 DEF Credit
  <1>13. CASE FilePartial(h)
    BY <1>13 DEF FilePartial
  <1>14. CASE ReadStatus(h)
    BY <1>14 DEF ReadStatus
  <1>15. CASE Settle(h)
    BY <1>15 DEF Settle, FileAfterMove, FileUnexpected, CommitPaid, CommitConflict
  <1>16. CASE OpenRegistration(h)
    BY <1>16 DEF OpenRegistration
  <1>17. CASE ClaimFailure(h)
    BY <1>17 DEF ClaimFailure
  <1>18. CASE FileReview(h)
    BY <1>18 DEF FileReview
  <1>19. CASE ReopenRequest(h)
    BY <1>19 DEF ReopenRequest
  <1>20. CASE Demote(h)
    BY <1>20 DEF Demote
  <1>21. CASE EftReadRequest(h)
    BY <1>21 DEF EftReadRequest
  <1>22. CASE EftInsert(h)
    BY <1>22 DEF EftInsert, InsertRow
  <1>23. CASE GiveUpReadRow(h)
    BY <1>23 DEF GiveUpReadRow
  <1>24. CASE RefundRow(h)
    BY <1>24 DEF RefundRow
  <1>25. CASE RefundReadRequest(h)
    BY <1>25 DEF RefundReadRequest
  <1>26. CASE RefundRequest(h)
    BY <1>26 DEF RefundRequest
  <1>27. CASE CloseRequest(h)
    BY <1>27 DEF CloseRequest
  <1>28. CASE ExpirePending(h)
    BY <1>28 DEF ExpirePending, PendingExpired
  <1>29. CASE CancelTasks(h)
    BY <1>29 DEF CancelTasks
  <1>30. CASE CommitWithdrawn(h)
    BY <1>30 DEF CommitWithdrawn
  <1>31. CASE MoveClose(h)
    BY <1>31 DEF MoveClose
  <1>32. CASE MoveExpire(h)
    BY <1>32 DEF MoveExpire, PendingExpired
  <1>33. CASE CommitMove(h)
    BY <1>33 DEF CommitMove
  <1>34. CASE VerifyThrows(h)
    BY <1>34 DEF VerifyThrows
  <1> QED
    BY <1>1, <1>2, <1>3, <1>4, <1>5, <1>6, <1>7, <1>8, <1>9, <1>10, <1>11, <1>12, <1>13, <1>14, <1>15, <1>16, <1>17, <1>18, <1>19, <1>20, <1>21, <1>22, <1>23, <1>24, <1>25, <1>26, <1>27, <1>28, <1>29, <1>30, <1>31, <1>32, <1>33, <1>34 DEF Statement

LEMMA CallSubjects ==
  ASSUME TypeOK, Outstanding, Subjects, NEW h \in Handlers, Call(h)
  PROVE  Outstanding' /\ Subjects'
  <1> USE DEF TypeOK, Outstanding, Subjects, AboutOne, Begin, At
  <1>1. CASE StartPayment(h)
    BY <1>1 DEF StartPayment
  <1>2. CASE RecordEft(h)
    BY <1>2 DEF RecordEft
  <1>3. CASE GiveUp(h)
    BY <1>3 DEF GiveUp
  <1>4. CASE Withdraw(h)
    BY <1>4 DEF Withdraw
  <1>5. ASSUME NEW p \in Payments, NEW revive \in BOOLEAN, Reconcile(h, p, revive)
        PROVE  Outstanding' /\ Subjects'
    BY <1>5 DEF Reconcile
  <1>6. ASSUME NEW p \in Payments, RecordRefund(h, p)
        PROVE  Outstanding' /\ Subjects'
    BY <1>6 DEF RecordRefund
  <1>7. ASSUME NEW b \in BOOLEAN, MoveToRegistration(h, b)
        PROVE  Outstanding' /\ Subjects'
    BY <1>7 DEF MoveToRegistration
  <1> QED
    BY <1>1, <1>2, <1>3, <1>4, <1>5, <1>6, <1>7 DEF Call

LEMMA WorldSubjects ==
  ASSUME TypeOK, Outstanding, Subjects, World
  PROVE  Outstanding' /\ Subjects'
  BY DEF World, GatewayDecides, WindowCloses, Crash, Done, TypeOK, Outstanding, Subjects, AboutOne

\* What is inductive: the types, that a checkout is for something outstanding,
\* and that an invocation past its reads is about a payment.
Typed == TypeOK /\ Outstanding /\ Subjects

LEMMA TypedStep == Typed /\ [Next]_vars => Typed'
  <1> SUFFICES ASSUME Typed, [Next]_vars PROVE Typed'
    OBVIOUS
  <1> USE DEF Typed
  <1>1. ASSUME NEW h \in Handlers, Call(h) PROVE Typed'
    BY <1>1, CallType, CallSubjects
  <1>2. ASSUME NEW h \in Handlers, Statement(h) \/ VerifyThrows(h) PROVE Typed'
    BY <1>2, StatementType, StatementSubjects
  <1>3. CASE World
    BY <1>3, WorldType, WorldSubjects
  <1>4. CASE UNCHANGED vars
    BY <1>4 DEF vars, TypeOK, Outstanding, Subjects
  <1> QED
    BY <1>1, <1>2, <1>3, <1>4 DEF Next

LEMMA AlwaysTyped == Spec => []Typed
  <1>1. Init => Typed
    BY InitType DEF Typed, Init, Outstanding, Subjects, AboutOne
  <1> QED
    BY <1>1, TypedStep, PTL DEF Spec

\* Every row, task, event and copy keeps a status the code writes there, and
\* no amount or balance goes negative, for any number of payments and
\* invocations, with crashes, withdrawals, moves and refunds.
THEOREM TypeCorrect == Spec => []TypeOK
  BY AlwaysTyped, PTL DEF Typed

-----------------------------------------------------------------------------
(* One confirmation for the request.  The timeline never says "confirmed" of *)
(* an application still in the two statuses from which it can be confirmed,  *)
(* and no statement takes it back there: failure and start move between the  *)
(* two.  A move by hand reaches registration without leaving that trace, so  *)
(* the theorem is about a school that makes none.                            *)
NotMoved == StageMoves = FALSE => ~moved /\ \A h \in Handlers : pc[h] \notin {"moveClose", "moveExpire", "move"}
ConfirmedHasLeft == (\E p \in Payments : "confirmed" \in timeline[p]) => app \notin AwaitsMoney
Confirmation == NotMoved /\ ConfirmedHasLeft /\ ConfirmedOnce

LEMMA StatementConfirmation ==
  ASSUME StageMoves = FALSE, Typed, Confirmation, NEW h \in Handlers, Statement(h) \/ VerifyThrows(h)
  PROVE  Confirmation'
  <1> USE DEF Typed, TypeOK, Subjects, AboutOne, Confirmation, NotMoved, ConfirmedHasLeft,
              ConfirmedOnce, AwaitsMoney, Goto, Done, At, db
  <1>1. CASE StartReadRequest(h)
    BY <1>1 DEF StartReadRequest
  <1>2. CASE StartInsert(h)
    BY <1>2 DEF StartInsert, InsertRow
  <1>3. CASE CheckoutOpened(h)
    BY <1>3 DEF CheckoutOpened
  <1>4. CASE CheckoutRefused(h)
    BY <1>4 DEF CheckoutRefused
  <1>5. CASE Launch(h)
    BY <1>5 DEF Launch
  <1>6. CASE MarkRequest(h)
    BY <1>6 DEF MarkRequest
  <1>7. CASE Announce(h)
    BY <1>7 DEF Announce
  <1>8. CASE Ask(h)
    BY <1>8 DEF Ask, VerifyAnswer
  <1>9. CASE ReadRequest(h)
    BY <1>9 DEF ReadRequest
  <1>10. CASE ReadApp(h)
    BY <1>10 DEF ReadApp
  <1>11. CASE ClaimRow(h)
    BY <1>11 DEF ClaimRow
  <1>12. CASE Credit(h)
    BY <1>12 DEF Credit
  <1>13. CASE FilePartial(h)
    BY <1>13 DEF FilePartial, File
  <1>14. CASE ReadStatus(h)
    BY <1>14 DEF ReadStatus
  <1>15. CASE Settle(h)
    <2> USE <1>15 DEF Settle, File
    <2>s. sub[h] \in Payments
      OBVIOUS
    <2>1. CASE FileAfterMove(h)
      BY <2>1 DEF FileAfterMove
    <2>2. CASE FileUnexpected(h)
      BY <2>2, <2>s DEF FileUnexpected
    <2>3. CASE CommitPaid(h)
      BY <2>3, <2>s DEF CommitPaid
    <2>4. CASE CommitConflict(h)
      BY <2>4 DEF CommitConflict
    <2> QED
      BY <2>1, <2>2, <2>3, <2>4
  <1>16. CASE OpenRegistration(h)
    BY <1>16 DEF OpenRegistration
  <1>17. CASE ClaimFailure(h)
    BY <1>17 DEF ClaimFailure
  <1>18. CASE FileReview(h)
    BY <1>18 DEF FileReview
  <1>19. CASE ReopenRequest(h)
    BY <1>19 DEF ReopenRequest
  <1>20. CASE Demote(h)
    BY <1>20 DEF Demote
  <1>21. CASE EftReadRequest(h)
    BY <1>21 DEF EftReadRequest
  <1>22. CASE EftInsert(h)
    BY <1>22 DEF EftInsert, InsertRow
  <1>23. CASE GiveUpReadRow(h)
    BY <1>23 DEF GiveUpReadRow
  <1>24. CASE RefundRow(h)
    BY <1>24 DEF RefundRow
  <1>25. CASE RefundReadRequest(h)
    BY <1>25 DEF RefundReadRequest
  <1>26. CASE RefundRequest(h)
    BY <1>26 DEF RefundRequest
  <1>27. CASE CloseRequest(h)
    BY <1>27 DEF CloseRequest
  <1>28. CASE ExpirePending(h)
    BY <1>28 DEF ExpirePending, PendingExpired
  <1>29. CASE CancelTasks(h)
    BY <1>29 DEF CancelTasks
  <1>30. CASE CommitWithdrawn(h)
    BY <1>30 DEF CommitWithdrawn
  <1>31. CASE MoveClose(h)
    BY <1>31 DEF MoveClose
  <1>32. CASE MoveExpire(h)
    BY <1>32 DEF MoveExpire, PendingExpired
  <1>33. CASE CommitMove(h)
    BY <1>33 DEF CommitMove
  <1>34. CASE VerifyThrows(h)
    BY <1>34 DEF VerifyThrows
  <1> QED
    BY <1>1, <1>2, <1>3, <1>4, <1>5, <1>6, <1>7, <1>8, <1>9, <1>10, <1>11, <1>12, <1>13, <1>14, <1>15, <1>16, <1>17, <1>18, <1>19, <1>20, <1>21, <1>22, <1>23, <1>24, <1>25, <1>26, <1>27, <1>28, <1>29, <1>30, <1>31, <1>32, <1>33, <1>34 DEF Statement

LEMMA AlwaysConfirmation == StageMoves = FALSE => (Spec => []Confirmation)
  <1> SUFFICES ASSUME StageMoves = FALSE PROVE Spec => []Confirmation
    OBVIOUS
  <1>1. Init => Confirmation
    BY DEF Init, Confirmation, NotMoved, ConfirmedHasLeft, ConfirmedOnce
  <1>2. Typed /\ Confirmation /\ [Next]_vars => Confirmation'
    <2> SUFFICES ASSUME Typed, Confirmation, [Next]_vars PROVE Confirmation'
      OBVIOUS
    <2> USE DEF Typed, TypeOK, Confirmation, NotMoved, ConfirmedHasLeft, ConfirmedOnce, db
    <2>1. ASSUME NEW h \in Handlers, Call(h) PROVE Confirmation'
      <3>1. UNCHANGED <<app, moved, timeline>>
        BY <2>1 DEF Call, StartPayment, RecordEft, GiveUp, Withdraw, Reconcile, RecordRefund,
                    MoveToRegistration
      <3>2. \A g \in Handlers : pc'[g] # pc[g] =>
              pc'[g] \in {"startRequest", "ask", "eftRequest", "giveUp", "refund", "closeRequest"}
        BY <2>1 DEF Call, StartPayment, RecordEft, GiveUp, Withdraw, Reconcile, RecordRefund,
                    MoveToRegistration, Begin
      <3> QED
        BY <3>1, <3>2
    <2>2. ASSUME NEW h \in Handlers, Statement(h) \/ VerifyThrows(h) PROVE Confirmation'
      BY <2>2, StatementConfirmation
    <2>3. CASE World
      BY <2>3 DEF World, GatewayDecides, WindowCloses, Crash, Done
    <2>4. CASE UNCHANGED vars
      BY <2>4 DEF vars
    <2> QED
      BY <2>1, <2>2, <2>3, <2>4 DEF Next
  <1> QED
    BY <1>1, <1>2, AlwaysTyped, PTL DEF Spec

\* However many payments land together, at most one of them confirms the
\* place, in a school that moves nobody to registration by hand.
THEOREM OneConfirmation == StageMoves = FALSE => (Spec => []ConfirmedOnce)
  BY AlwaysConfirmation, PTL DEF Confirmation

-----------------------------------------------------------------------------
(* One settlement for a payment.  Winning the row (status becomes succeeded) *)
(* makes an invocation its only owner until it has filed the money, because  *)
(* nothing but a refund takes a row out of succeeded; and a refund that is   *)
(* entered with nothing in flight never meets an owner.                      *)

IdleHasNone == \A h \in Handlers : pc[h] = "idle" => sub[h] = "none"
\* A row nobody inserted is nobody's, and a row whose checkout is being opened
\* is its opener's alone.
FreshRows ==
  /\ \A p \in Payments : row[p] = "none" =>
       ~ref[p] /\ timeline[p] = {} /\ \A h \in Handlers : sub[h] # p
  /\ \A h \in Handlers : pc[h] \in {"checkout", "launch"} =>
       /\ ~ref[sub[h]] /\ row[sub[h]] \in {"pending", "expired"}
       /\ \A g \in Handlers \ {h} : sub[g] # sub[h]
OwnersHoldRows ==
  /\ \A h \in Handlers : pc[h] \in Settling => row[sub[h]] = "succeeded"
  /\ \A h \in Handlers : pc[h] \in Unfiled => timeline[sub[h]] = {}
OneOwner ==
  \A g, h \in Handlers :
    pc[g] \in Settling /\ pc[h] \in Settling /\ sub[g] = sub[h] => g = h
FiledOnce ==
  \A p \in Payments :
    /\ timeline[p] # {} => Received(p)
    /\ timeline[p] = {} \/ \E k \in Filed : timeline[p] = {k}
\* Nothing that settles meets a refund.
RefundsApart ==
  /\ \A p \in Payments : row[p] = "refunded" =>
       \A h \in Handlers : sub[h] = p => pc[h] \in {"refundRead", "refundRequest"}
  /\ \A h \in Handlers : pc[h] = "refund" =>
       /\ Received(sub[h])
       /\ \A g \in Handlers \ {h} : sub[g] # sub[h]

Ownership ==
  IdleHasNone /\ FreshRows /\ OwnersHoldRows /\ OneOwner /\ FiledOnce /\ RefundsApart

LEMMA StatementOwnership ==
  ASSUME Typed, Ownership, NEW h \in Handlers, Statement(h) \/ VerifyThrows(h)
  PROVE  Ownership'
  <1> USE NoneAssumption
      DEF Typed, TypeOK, Subjects, AboutOne, Ownership, IdleHasNone, FreshRows, OwnersHoldRows,
          OneOwner, FiledOnce, RefundsApart, Received, Settling, Unfiled, Goto, Done, At, db
  <1>1. CASE StartReadRequest(h)
    BY <1>1 DEF StartReadRequest
  <1>2. CASE StartInsert(h)
    BY <1>2 DEF StartInsert, InsertRow
  <1>3. CASE CheckoutOpened(h)
    BY <1>3 DEF CheckoutOpened
  <1>4. CASE CheckoutRefused(h)
    BY <1>4 DEF CheckoutRefused
  <1>5. CASE Launch(h)
    BY <1>5 DEF Launch
  <1>6. CASE MarkRequest(h)
    BY <1>6 DEF MarkRequest
  <1>7. CASE Announce(h)
    BY <1>7 DEF Announce
  <1>8. CASE Ask(h)
    BY <1>8 DEF Ask, VerifyAnswer
  <1>9. CASE ReadRequest(h)
    BY <1>9 DEF ReadRequest
  <1>10. CASE ReadApp(h)
    BY <1>10 DEF ReadApp
  <1>11. CASE ClaimRow(h)
    BY <1>11 DEF ClaimRow
  <1>12. CASE Credit(h)
    BY <1>12 DEF Credit
  <1>13. CASE FilePartial(h)
    BY <1>13 DEF FilePartial, File, Filed
  <1>14. CASE ReadStatus(h)
    BY <1>14 DEF ReadStatus
  <1>15. CASE Settle(h)
    <2> USE <1>15 DEF Settle, File, Filed
    <2>1. CASE FileAfterMove(h)
      BY <2>1 DEF FileAfterMove
    <2>2. CASE FileUnexpected(h)
      BY <2>2 DEF FileUnexpected
    <2>3. CASE CommitPaid(h)
      BY <2>3 DEF CommitPaid
    <2>4. CASE CommitConflict(h)
      BY <2>4 DEF CommitConflict
    <2> QED
      BY <2>1, <2>2, <2>3, <2>4
  <1>16. CASE OpenRegistration(h)
    BY <1>16 DEF OpenRegistration
  <1>17. CASE ClaimFailure(h)
    BY <1>17 DEF ClaimFailure
  <1>18. CASE FileReview(h)
    BY <1>18 DEF FileReview
  <1>19. CASE ReopenRequest(h)
    BY <1>19 DEF ReopenRequest
  <1>20. CASE Demote(h)
    BY <1>20 DEF Demote
  <1>21. CASE EftReadRequest(h)
    BY <1>21 DEF EftReadRequest
  <1>22. CASE EftInsert(h)
    BY <1>22 DEF EftInsert, InsertRow
  <1>23. CASE GiveUpReadRow(h)
    BY <1>23 DEF GiveUpReadRow
  <1>24. CASE RefundRow(h)
    BY <1>24 DEF RefundRow
  <1>25. CASE RefundReadRequest(h)
    BY <1>25 DEF RefundReadRequest
  <1>26. CASE RefundRequest(h)
    BY <1>26 DEF RefundRequest
  <1>27. CASE CloseRequest(h)
    BY <1>27 DEF CloseRequest
  <1>28. CASE ExpirePending(h)
    BY <1>28 DEF ExpirePending, PendingExpired
  <1>29. CASE CancelTasks(h)
    BY <1>29 DEF CancelTasks
  <1>30. CASE CommitWithdrawn(h)
    BY <1>30 DEF CommitWithdrawn
  <1>31. CASE MoveClose(h)
    BY <1>31 DEF MoveClose
  <1>32. CASE MoveExpire(h)
    BY <1>32 DEF MoveExpire, PendingExpired
  <1>33. CASE CommitMove(h)
    BY <1>33 DEF CommitMove
  <1>34. CASE VerifyThrows(h)
    BY <1>34 DEF VerifyThrows
  <1> QED
    BY <1>1, <1>2, <1>3, <1>4, <1>5, <1>6, <1>7, <1>8, <1>9, <1>10, <1>11, <1>12, <1>13, <1>14, <1>15, <1>16, <1>17, <1>18, <1>19, <1>20, <1>21, <1>22, <1>23, <1>24, <1>25, <1>26, <1>27, <1>28, <1>29, <1>30, <1>31, <1>32, <1>33, <1>34 DEF Statement

LEMMA CallOwnership ==
  ASSUME Refunds # "racing", Typed, Ownership, NEW h \in Handlers, Call(h)
  PROVE  Ownership'
  <1> USE NoneAssumption
      DEF Typed, TypeOK, Subjects, AboutOne, Ownership, IdleHasNone, FreshRows, OwnersHoldRows,
          OneOwner, FiledOnce, RefundsApart, Received, Settling, Unfiled, Begin, At, db
  <1>1. CASE StartPayment(h)
    BY <1>1 DEF StartPayment
  <1>2. CASE RecordEft(h)
    BY <1>2 DEF RecordEft
  <1>3. CASE GiveUp(h)
    BY <1>3 DEF GiveUp
  <1>4. CASE Withdraw(h)
    BY <1>4 DEF Withdraw
  <1>5. ASSUME NEW p \in Payments, NEW revive \in BOOLEAN, Reconcile(h, p, revive)
        PROVE  Ownership'
    BY <1>5 DEF Reconcile, Revivable
  <1>6. ASSUME NEW p \in Payments, RecordRefund(h, p)
        PROVE  Ownership'
    BY <1>6 DEF RecordRefund, Quiet
  <1>7. ASSUME NEW b \in BOOLEAN, MoveToRegistration(h, b)
        PROVE  Ownership'
    BY <1>7 DEF MoveToRegistration
  <1> HIDE NoneAssumption DEF Typed, Ownership, Begin
  <1> QED
    BY <1>1, <1>2, <1>3, <1>4, <1>5, <1>6, <1>7 DEF Call

LEMMA WorldOwnership ==
  ASSUME Typed, Ownership, World
  PROVE  Ownership'
  <1> USE NoneAssumption
      DEF Typed, TypeOK, Subjects, AboutOne, Ownership, IdleHasNone, FreshRows, OwnersHoldRows,
          OneOwner, FiledOnce, RefundsApart, Received, Settling, Unfiled, Done, At, db
  <1>1. ASSUME NEW p \in Payments, GatewayDecides(p)
        PROVE  Ownership'
    BY <1>1 DEF GatewayDecides
  <1>2. ASSUME NEW p \in Payments, WindowCloses(p)
        PROVE  Ownership'
    BY <1>2 DEF WindowCloses, Age
  <1>3. ASSUME NEW h \in Handlers, Crash(h)
        PROVE  Ownership'
    BY <1>3 DEF Crash
  <1> QED
    BY <1>1, <1>2, <1>3 DEF World

LEMMA AlwaysOwned == Refunds # "racing" => (Spec => [](Typed /\ Ownership))
  <1> SUFFICES ASSUME Refunds # "racing" PROVE Spec => [](Typed /\ Ownership)
    OBVIOUS
  <1>1. Init => Ownership
    BY NoneAssumption DEF Init, Ownership, IdleHasNone, FreshRows, OwnersHoldRows, OneOwner,
       FiledOnce, RefundsApart, Received, Settling, Unfiled
  <1>2. Typed /\ Ownership /\ [Next]_vars => Ownership'
    <2> SUFFICES ASSUME Typed, Ownership, [Next]_vars PROVE Ownership'
      OBVIOUS
    <2>1. ASSUME NEW h \in Handlers, Call(h) PROVE Ownership'
      BY <2>1, CallOwnership
    <2>2. ASSUME NEW h \in Handlers, Statement(h) \/ VerifyThrows(h) PROVE Ownership'
      BY <2>2, StatementOwnership
    <2>3. CASE World
      BY <2>3, WorldOwnership
    <2>4. CASE UNCHANGED vars
      BY <2>4 DEF vars, Ownership, IdleHasNone, FreshRows, OwnersHoldRows, OneOwner,
         FiledOnce, RefundsApart, Received
    <2> QED
      BY <2>1, <2>2, <2>3, <2>4 DEF Next
  <1> QED
    BY <1>1, <1>2, AlwaysTyped, PTL DEF Spec

\* However many invocations ask about one payment (return page, webhook,
\* sweep, verify job, staff), at most one settles it and the timeline files it
\* at most once, through crashes and retries, unless a refund is entered while
\* an invocation that read the unpaid row is still in flight.
THEOREM OneSettlement == Refunds # "racing" => (Spec => []SettlesOnce)
  <1> SUFFICES ASSUME Refunds # "racing" PROVE Spec => []SettlesOnce
    OBVIOUS
  <1>1. Ownership => SettlesOnce
    <2> SUFFICES ASSUME Ownership PROVE SettlesOnce
      OBVIOUS
    <2>1. \A p \in Payments : Cardinality(timeline[p]) <= 1
      BY FS_EmptySet, FS_Singleton DEF Ownership, FiledOnce
    <2> QED
      BY <2>1 DEF Ownership, OneOwner, SettlesOnce
  <1> QED
    BY <1>1, AlwaysOwned, PTL

-----------------------------------------------------------------------------
(* What was received stays received: only winning a row adds to it, and the  *)
(* amount of a payment that arrived is never written again.                  *)

SameReceipts == EverHeld' = EverHeld /\ \A p \in EverHeld : amt'[p] = amt[p]
Wins(h) ==
  /\ ClaimRow(h) /\ sub[h] \in Payments \ EverHeld /\ pc'[h] = "credit"
  /\ EverHeld' = EverHeld \cup {sub[h]} /\ UNCHANGED amt

LEMMA StatementReceipts ==
  ASSUME Typed, Ownership, NEW h \in Handlers, Statement(h) \/ VerifyThrows(h)
  PROVE  SameReceipts \/ Wins(h)
  <1> USE DEF Typed, TypeOK, Subjects, AboutOne, SameReceipts, EverHeld, Received, At, db
  <1>1. CASE UNCHANGED <<row, amt>>
    BY <1>1
  <1>2. CASE StartInsert(h)
    BY <1>2 DEF StartInsert, InsertRow
  <1>3. CASE EftInsert(h)
    BY <1>3 DEF EftInsert, InsertRow
  <1>4. CASE CheckoutRefused(h)
    BY <1>4 DEF CheckoutRefused, Ownership, FreshRows
  <1>5. CASE Launch(h)
    BY <1>5 DEF Launch
  <1>6. CASE ClaimRow(h)
    <2> USE <1>6 DEF ClaimRow
    <2>1. sub[h] \in Payments /\ row[sub[h]] # "refunded"
      BY DEF Ownership, RefundsApart
    <2>2. CASE row[sub[h]] = "succeeded"
      BY <2>1, <2>2
    <2>3. CASE row[sub[h]] # "succeeded"
      <3>1. EverHeld' = EverHeld \cup {sub[h]}
        BY <2>1, <2>3
      <3> QED
        BY <2>1, <2>3, <3>1 DEF Wins, Goto
    <2> QED
      BY <2>2, <2>3
  <1>7. CASE ClaimFailure(h)
    BY <1>7 DEF ClaimFailure
  <1>8. CASE RefundRow(h)
    BY <1>8 DEF RefundRow
  <1>9. CASE ExpirePending(h)
    BY <1>9 DEF ExpirePending, PendingExpired
  <1>10. CASE MoveExpire(h)
    BY <1>10 DEF MoveExpire, PendingExpired
  <1> HIDE DEF SameReceipts, EverHeld, Received, Typed, TypeOK, Subjects, AboutOne
  <1> QED
    BY <1>1, <1>2, <1>3, <1>4, <1>5, <1>6, <1>7, <1>8, <1>9, <1>10
       DEF Statement, VerifyThrows, StartReadRequest, CheckoutOpened, MarkRequest, Announce, Ask,
           ReadRequest, ReadApp, Credit, FilePartial, ReadStatus, Settle, OpenRegistration,
           FileReview, ReopenRequest, Demote, EftReadRequest, GiveUpReadRow, RefundReadRequest,
           RefundRequest, CloseRequest, CancelTasks, CommitWithdrawn, MoveClose, CommitMove

LEMMA OtherReceipts ==
  ASSUME (\E h \in Handlers : Call(h)) \/ World \/ UNCHANGED vars
  PROVE  SameReceipts
  <1>1. UNCHANGED <<row, amt>>
    BY DEF Call, StartPayment, RecordEft, GiveUp, Withdraw, Reconcile, RecordRefund,
           MoveToRegistration, World, GatewayDecides, WindowCloses, Crash, vars, db
  <1> QED
    BY <1>1 DEF SameReceipts, EverHeld, Received

-----------------------------------------------------------------------------
(* The ledger.  Handlers add a payment to the balance they read, which may   *)
(* be stale by then, so paid_minor can fall behind the receipts; but every   *)
(* copy was once backed by what had arrived, what has arrived only grows,    *)
(* and a payment is added to a copy that cannot have counted it.             *)

Arrived == Sum(EverHeld)
FewRows == IsFiniteSet({p \in Payments : row[p] # "none"})
Backed ==
  /\ reqPaid <= Arrived
  /\ \A h \in Handlers :
       /\ pc[h] \in {"eftInsert", "readApp", "claim", "refundRequest"} => mem[h].paid <= Arrived
       /\ pc[h] = "credit" => mem[h].paid + amt[sub[h]] <= Arrived
       /\ pc[h] \in {"settle", "file"} => Amount <= Arrived
Earned == app \in {"paid", "registration_incomplete"} /\ ~moved => Amount <= Arrived

LEMMA ArrivedFinite ==
  ASSUME TypeOK, FewRows
  PROVE  Amounts(amt, EverHeld) /\ Arrived \in Nat
  <1>1. EverHeld \subseteq {p \in Payments : row[p] # "none"}
    BY DEF EverHeld, Received
  <1>2. IsFiniteSet(EverHeld)
    BY <1>1, FS_Subset DEF FewRows
  <1>3. Amounts(amt, EverHeld)
    BY <1>2 DEF Amounts, EverHeld, TypeOK
  <1> QED
    BY <1>3, TotalTaken DEF Arrived, Sum

LEMMA ArrivedSame ==
  ASSUME TypeOK, FewRows, SameReceipts
  PROVE  Arrived' = Arrived
  <1>1. SumFunctionOnSet(amt, EverHeld) = SumFunctionOnSet(amt', EverHeld)
    BY ArrivedFinite, TotalSame DEF SameReceipts
  <1> QED
    BY <1>1 DEF Arrived, Sum, SameReceipts

LEMMA ArrivedWon ==
  ASSUME TypeOK, FewRows, NEW h \in Handlers, Wins(h)
  PROVE  Arrived' = Arrived + amt[sub[h]] /\ amt[sub[h]] \in Nat
  <1> DEFINE p == sub[h]
             S == EverHeld \cup {p}
  <1>1. p \in Payments \ EverHeld /\ amt[p] \in Nat
    BY DEF Wins, TypeOK
  <1>2. Amounts(amt, S)
    BY <1>1, ArrivedFinite, FS_AddElement DEF Amounts
  <1>3. EverHeld = S \ {p} /\ p \in S
    BY <1>1
  <1>4. Arrived' = SumFunctionOnSet(amt, S)
    BY DEF Wins, Arrived, Sum
  <1>5. Arrived = SumFunctionOnSet(amt, EverHeld) /\ Arrived \in Nat
    BY ArrivedFinite DEF Arrived, Sum
  <1> HIDE DEF p, S
  <1>6. SumFunctionOnSet(amt, S) = amt[p] + SumFunctionOnSet(amt, S \ {p})
    BY <1>2, <1>3, TotalSplit
  <1>7. Arrived' = Arrived + amt[p]
    BY <1>1, <1>3, <1>4, <1>5, <1>6
  <1> QED
    BY <1>1, <1>7 DEF p

LEMMA FewRowsStep ==
  ASSUME Typed, Ownership, FewRows, [Next]_vars
  PROVE  FewRows'
  <1> DEFINE Rows == {p \in Payments : row[p] # "none"}
  <1>1. ASSUME \E p \in Payments : Rows' \subseteq Rows \cup {p} PROVE FewRows'
    <2>1. PICK p \in Payments : Rows' \subseteq Rows \cup {p}
      BY <1>1
    <2>2. IsFiniteSet(Rows \cup {p})
      BY FS_AddElement DEF FewRows
    <2> QED
      BY <2>1, <2>2, FS_Subset DEF FewRows
  <1>2. ASSUME Rows' \subseteq Rows PROVE FewRows'
    BY <1>2, FS_Subset DEF FewRows
  <1>3. ASSUME NEW h \in Handlers, NEW l, NEW m, InsertRow(h, l, m) PROVE FewRows'
    <2>1. CASE Done(h) /\ UNCHANGED <<row, amt>>
      BY <2>1, <1>2
    <2>2. ASSUME NEW p \in Payments, row' = [row EXCEPT ![p] = "pending"] PROVE FewRows'
      BY <2>2, <1>1 DEF Typed, TypeOK
    <2> QED
      BY <1>3, <2>1, <2>2 DEF InsertRow
  <1>4. ASSUME NEW h \in Handlers, Statement(h) PROVE FewRows'
    <2> USE DEF At
    <2>1. CASE StartInsert(h)
      BY <2>1, <1>3 DEF StartInsert
    <2>2. CASE EftInsert(h)
      BY <2>2, <1>3 DEF EftInsert
    <2>3. CASE UNCHANGED row
      BY <2>3, <1>2
    <2>4. ASSUME NEW s \in RowStatus, sub[h] \in Payments, row' = [row EXCEPT ![sub[h]] = s],
                 row[sub[h]] # "none"
          PROVE  FewRows'
      BY <2>4, <1>2 DEF Typed, TypeOK
    <2>5. pc[h] \in AboutOne => sub[h] \in Payments /\ row[sub[h]] # "none"
      BY DEF Typed, Subjects, Ownership, FreshRows
    <2>6. CASE CheckoutRefused(h)
      BY <2>4, <2>5, <2>6 DEF CheckoutRefused, AboutOne, RowStatus
    <2>7. CASE Launch(h)
      BY <2>3, <2>4, <2>5, <2>7 DEF Launch, AboutOne, RowStatus
    <2>8. CASE ClaimRow(h)
      BY <2>3, <2>4, <2>5, <2>8 DEF ClaimRow, AboutOne, RowStatus
    <2>9. CASE ClaimFailure(h)
      BY <2>3, <2>4, <2>5, <2>9 DEF ClaimFailure, AboutOne, RowStatus
    <2>10. CASE RefundRow(h)
      BY <2>10, <1>2 DEF RefundRow, Typed, TypeOK
    <2>11. CASE ExpirePending(h)
      BY <2>11, <1>2 DEF ExpirePending, PendingExpired
    <2>12. CASE MoveExpire(h)
      BY <2>12, <1>2 DEF MoveExpire, PendingExpired
    <2> HIDE DEF At
    <2> QED
      BY <1>4, <2>1, <2>2, <2>3, <2>6, <2>7, <2>8, <2>9, <2>10, <2>11, <2>12
         DEF Statement, StartReadRequest, CheckoutOpened, MarkRequest, Announce, Ask, db,
             ReadRequest, ReadApp, Credit, FilePartial, ReadStatus, Settle, OpenRegistration,
             FileReview, ReopenRequest, Demote, EftReadRequest, GiveUpReadRow, RefundReadRequest,
             RefundRequest, CloseRequest, CancelTasks, CommitWithdrawn, MoveClose, CommitMove
  <1>5. CASE \/ \E h \in Handlers : Call(h) \/ VerifyThrows(h)
             \/ World \/ UNCHANGED vars
    <2>1. UNCHANGED row
      BY <1>5 DEF Call, StartPayment, RecordEft, GiveUp, Withdraw, Reconcile, RecordRefund,
           MoveToRegistration, World, GatewayDecides, WindowCloses, Crash, VerifyThrows, vars, db
    <2> QED
      BY <2>1, <1>2
  <1> QED
    BY <1>4, <1>5 DEF Next

LEMMA HoldPaid ==
  ASSUME TypeOK, NEW h \in Handlers, NEW v, Hold(h, "paid", v)
  PROVE  mem'[h].paid = v /\ \A g \in Handlers : g # h => mem'[g] = mem[g]
  BY DEF TypeOK, Mem, Hold

LEMMA HoldApp ==
  ASSUME TypeOK, NEW h \in Handlers, NEW v, Hold(h, "app", v)
  PROVE  \A g \in Handlers : mem'[g].paid = mem[g].paid
  BY DEF TypeOK, Mem, Hold

LEMMA BackedStatement ==
  ASSUME Typed, Ownership, FewRows, Backed, NEW h \in Handlers,
         Statement(h) \/ VerifyThrows(h)
  PROVE  Backed' /\ (Earned => Earned')
  <1>a. Arrived \in Nat /\ Arrived' \in Nat /\ Arrived <= Arrived' /\ (~Wins(h) => Arrived' = Arrived)
    <2>1. TypeOK
      BY DEF Typed
    <2>2. Arrived \in Nat
      BY <2>1, ArrivedFinite
    <2>3. CASE SameReceipts
      BY <2>1, <2>2, <2>3, ArrivedSame
    <2>4. CASE Wins(h)
      BY <2>1, <2>2, <2>4, ArrivedWon
    <2> QED
      BY <2>2, <2>3, <2>4, StatementReceipts
  <1>m. \A g \in Handlers : mem[g].paid \in Nat
    BY MemFields DEF Typed, TypeOK
  <1>w. ~ClaimRow(h) => Arrived' = Arrived
    BY <1>a DEF Wins
  <1> USE AmountAssumption
      DEF Typed, TypeOK, Subjects, AboutOne, Outstanding, Backed, Earned, Goto, Done, Keep, Hold, At, db
  <1>1. CASE StartReadRequest(h)
    BY <1>1, <1>a, <1>m, <1>w DEF StartReadRequest
  <1>2. CASE StartInsert(h)
    BY <1>2, <1>a, <1>m, <1>w DEF StartInsert, InsertRow, Ownership, FreshRows
  <1>3. CASE CheckoutOpened(h)
    BY <1>3, <1>a, <1>m, <1>w DEF CheckoutOpened
  <1>4. CASE CheckoutRefused(h)
    BY <1>4, <1>a, <1>m, <1>w DEF CheckoutRefused
  <1>5. CASE Launch(h)
    BY <1>5, <1>a, <1>m, <1>w DEF Launch
  <1>6. CASE MarkRequest(h)
    BY <1>6, <1>a, <1>m, <1>w DEF MarkRequest
  <1>7. CASE Announce(h)
    BY <1>7, <1>a, <1>m, <1>w DEF Announce
  <1>8. CASE Ask(h)
    BY <1>8, <1>a, <1>m, <1>w DEF Ask
  <1>9. CASE ReadRequest(h)
    BY <1>9, <1>a, <1>m, <1>w DEF ReadRequest
  <1>10. CASE ReadApp(h)
    <2> HIDE DEF Hold
    <2> QED
      BY <1>10, <1>a, <1>m, <1>w, HoldApp DEF ReadApp
  <1>11. CASE ClaimRow(h)
    <2>1. CASE Wins(h)
      <3>1. Arrived' = Arrived + amt[sub[h]] /\ amt[sub[h]] \in Nat
        BY <2>1, ArrivedWon
      <3> QED
        BY <1>11, <1>a, <1>m, <2>1, <3>1 DEF ClaimRow, Wins
    <2>2. CASE ~Wins(h)
      <3>1. Arrived' = Arrived /\ pc'[h] # "credit"
        <4>1. sub[h] \in Payments /\ row[sub[h]] # "refunded" /\ SameReceipts
          BY <1>11, <2>2, StatementReceipts DEF ClaimRow, Ownership, RefundsApart
        <4>2. row[sub[h]] = "succeeded"
          BY <1>11, <4>1 DEF ClaimRow, SameReceipts, EverHeld, Received
        <4> QED
          BY <1>11, <1>a, <2>2, <4>2 DEF ClaimRow
      <3> QED
        BY <1>11, <1>a, <1>m, <3>1 DEF ClaimRow
    <2> QED
      BY <2>1, <2>2
  <1>12. CASE Credit(h)
    BY <1>12, <1>a, <1>m, <1>w DEF Credit
  <1>13. CASE FilePartial(h)
    BY <1>13, <1>a, <1>m, <1>w DEF FilePartial
  <1>14. CASE ReadStatus(h)
    BY <1>14, <1>a, <1>m, <1>w DEF ReadStatus
  <1>15. CASE Settle(h)
    BY <1>15, <1>a, <1>m, <1>w DEF Settle, FileAfterMove, FileUnexpected, CommitPaid, CommitConflict
  <1>16. CASE OpenRegistration(h)
    BY <1>16, <1>a, <1>m, <1>w DEF OpenRegistration
  <1>17. CASE ClaimFailure(h)
    BY <1>17, <1>a, <1>m, <1>w DEF ClaimFailure
  <1>18. CASE FileReview(h)
    BY <1>18, <1>a, <1>m, <1>w DEF FileReview
  <1>19. CASE ReopenRequest(h)
    BY <1>19, <1>a, <1>m, <1>w DEF ReopenRequest
  <1>20. CASE Demote(h)
    BY <1>20, <1>a, <1>m, <1>w DEF Demote
  <1>21. CASE EftReadRequest(h)
    <2> HIDE DEF Hold
    <2> QED
      BY <1>21, <1>a, <1>m, <1>w, HoldPaid DEF EftReadRequest
  <1>22. CASE EftInsert(h)
    BY <1>22, <1>a, <1>m, <1>w DEF EftInsert, InsertRow, Ownership, FreshRows
  <1>23. CASE GiveUpReadRow(h)
    BY <1>23, <1>a, <1>m, <1>w DEF GiveUpReadRow
  <1>24. CASE RefundRow(h)
    BY <1>24, <1>a, <1>m, <1>w DEF RefundRow
  <1>25. CASE RefundReadRequest(h)
    <2> HIDE DEF Hold
    <2> QED
      BY <1>25, <1>a, <1>m, <1>w, HoldPaid DEF RefundReadRequest
  <1>26. CASE RefundRequest(h)
    BY <1>26, <1>a, <1>m, <1>w DEF RefundRequest
  <1>27. CASE CloseRequest(h)
    BY <1>27, <1>a, <1>m, <1>w DEF CloseRequest
  <1>28. CASE ExpirePending(h)
    BY <1>28, <1>a, <1>m, <1>w DEF ExpirePending
  <1>29. CASE CancelTasks(h)
    BY <1>29, <1>a, <1>m, <1>w DEF CancelTasks
  <1>30. CASE CommitWithdrawn(h)
    BY <1>30, <1>a, <1>m, <1>w DEF CommitWithdrawn
  <1>31. CASE MoveClose(h)
    BY <1>31, <1>a, <1>m, <1>w DEF MoveClose
  <1>32. CASE MoveExpire(h)
    BY <1>32, <1>a, <1>m, <1>w DEF MoveExpire
  <1>33. CASE CommitMove(h)
    BY <1>33, <1>a, <1>m, <1>w DEF CommitMove
  <1>34. CASE VerifyThrows(h)
    BY <1>34, <1>a, <1>m, <1>w DEF VerifyThrows
  <1> QED
    BY <1>1, <1>2, <1>3, <1>4, <1>5, <1>6, <1>7, <1>8, <1>9, <1>10, <1>11, <1>12, <1>13, <1>14, <1>15, <1>16, <1>17, <1>18, <1>19, <1>20, <1>21, <1>22, <1>23, <1>24, <1>25, <1>26, <1>27, <1>28, <1>29, <1>30, <1>31, <1>32, <1>33, <1>34 DEF Statement

LEMMA BackedOther ==
  ASSUME Typed, FewRows, Backed, (\E h \in Handlers : Call(h)) \/ World \/ UNCHANGED vars
  PROVE  Backed' /\ (Earned => Earned')
  <1>1. Arrived' = Arrived /\ UNCHANGED <<app, moved, reqPaid, amt>>
    <2>1. SameReceipts
      BY OtherReceipts
    <2>2. Arrived' = Arrived
      BY <2>1, ArrivedSame DEF Typed
    <2>3. UNCHANGED <<app, moved, reqPaid, amt>>
      BY DEF Call, StartPayment, RecordEft, GiveUp, Withdraw, Reconcile, RecordRefund,
             MoveToRegistration, World, GatewayDecides, WindowCloses, Crash, vars, db
    <2> QED
      BY <2>2, <2>3
  <1>2. \A h \in Handlers :
          \/ pc'[h] = pc[h] /\ sub'[h] = sub[h] /\ mem'[h] = mem[h]
          \/ pc'[h] \notin {"eftInsert", "readApp", "claim", "refundRequest", "credit", "settle", "file"}
    <2> USE DEF Typed, TypeOK
    <2>1. ASSUME NEW h \in Handlers, Call(h)
          PROVE  \E l, p, m : Begin(h, l, p, m) /\ l \in {"startRequest", "eftRequest", "giveUp",
                   "closeRequest", "ask", "refund", "moveExpire", "moveClose"}
      <3>1. CASE \E b \in BOOLEAN : MoveToRegistration(h, b)
        BY <3>1 DEF MoveToRegistration
      <3>2. CASE \E p \in Payments : (\E b \in BOOLEAN : Reconcile(h, p, b)) \/ RecordRefund(h, p)
        BY <3>2 DEF Reconcile, RecordRefund
      <3>3. CASE StartPayment(h) \/ RecordEft(h) \/ GiveUp(h) \/ Withdraw(h)
        BY <3>3 DEF StartPayment, RecordEft, GiveUp, Withdraw
      <3> QED
        BY <2>1, <3>1, <3>2, <3>3 DEF Call
    <2>2. CASE World
      BY <2>2 DEF World, GatewayDecides, WindowCloses, Crash, Done
    <2>3. CASE UNCHANGED vars
      BY <2>3 DEF vars
    <2>4. CASE \E h \in Handlers : Call(h)
      BY <2>1, <2>4 DEF Begin
    <2> QED
      BY <2>2, <2>3, <2>4
  <1> QED
    BY <1>1, <1>2 DEF Backed, Earned

Ledger == Typed /\ Ownership /\ FewRows /\ Backed /\ Earned

LEMMA AlwaysLedger == Refunds # "racing" => (Spec => []Ledger)
  <1> SUFFICES ASSUME Refunds # "racing" PROVE Spec => []Ledger
    OBVIOUS
  <1>1. Init => FewRows /\ Backed /\ Earned
    <2> SUFFICES ASSUME Init PROVE FewRows /\ Backed /\ Earned
      OBVIOUS
    <2>1. {p \in Payments : row[p] # "none"} = {} /\ EverHeld = {}
      BY DEF Init, EverHeld, Received
    <2>2. Arrived = 0
      BY <2>1, TotalEmpty DEF Arrived, Sum
    <2> QED
      BY <2>1, <2>2, FS_EmptySet DEF Init, FewRows, Backed, Earned
  <1>2. Typed /\ Ownership /\ (FewRows /\ Backed /\ Earned) /\ [Next]_vars
          => (FewRows /\ Backed /\ Earned)'
    <2> SUFFICES ASSUME Typed, Ownership, FewRows, Backed, Earned, [Next]_vars
                 PROVE  FewRows' /\ Backed' /\ Earned'
      OBVIOUS
    <2>1. FewRows'
      BY FewRowsStep
    <2>2. ASSUME NEW h \in Handlers, Statement(h) \/ VerifyThrows(h) PROVE Backed' /\ Earned'
      BY <2>2, BackedStatement
    <2>3. ASSUME (\E h \in Handlers : Call(h)) \/ World \/ UNCHANGED vars
          PROVE  Backed' /\ Earned'
      BY <2>3, BackedOther
    <2> QED
      BY <2>1, <2>2, <2>3 DEF Next
  <1> QED
    BY <1>1, <1>2, AlwaysOwned, PTL DEF Spec, Ledger

\* An application is moved on to registration by the system's own hand only
\* when the payments received add up to the whole request: for any number of
\* payments, part payments and invocations adding them up from stale copies,
\* through crashes, withdrawals, moves by hand and refunds that do not race.
THEOREM PlaceIsPaid == Refunds # "racing" => (Spec => []RegistrationIsPaid)
  <1> SUFFICES ASSUME Refunds # "racing" PROVE Spec => []RegistrationIsPaid
    OBVIOUS
  <1>1. Ledger => RegistrationIsPaid
    BY ArrivedFinite, AmountAssumption DEF Ledger, Typed, Earned, RegistrationIsPaid, Arrived
  <1> QED
    BY <1>1, AlwaysLedger, PTL

-----------------------------------------------------------------------------
NoneRefunded ==
  /\ \A p \in Payments : row[p] # "refunded"
  /\ \A h \in Handlers : pc[h] \notin {"refund", "refundRead", "refundRequest"}

LEMMA AlwaysUnrefunded == Refunds = "never" => (Spec => []NoneRefunded)
  <1> SUFFICES ASSUME Refunds = "never" PROVE Spec => []NoneRefunded
    OBVIOUS
  <1>1. Init => NoneRefunded
    BY DEF Init, NoneRefunded
  <1>2. Typed /\ NoneRefunded /\ [Next]_vars => NoneRefunded'
    <2> SUFFICES ASSUME Typed, NoneRefunded, [Next]_vars PROVE NoneRefunded'
      OBVIOUS
    <2> USE DEF Typed, TypeOK, NoneRefunded, Goto, Done, At, db
    <2>1. ASSUME NEW h \in Handlers, Call(h) PROVE NoneRefunded'
      BY <2>1 DEF Call, StartPayment, RecordEft, GiveUp, Withdraw, Reconcile, RecordRefund,
         MoveToRegistration, Begin
    <2>2. ASSUME NEW h \in Handlers, Statement(h) \/ VerifyThrows(h) PROVE NoneRefunded'
      <3> USE <2>2
      <3>1. CASE StartInsert(h)
        BY <3>1 DEF StartInsert, InsertRow
      <3>2. CASE EftInsert(h)
        BY <3>2 DEF EftInsert, InsertRow
      <3>3. CASE CheckoutRefused(h)
        BY <3>3 DEF CheckoutRefused
      <3>4. CASE Launch(h)
        BY <3>4 DEF Launch
      <3>5. CASE ClaimRow(h)
        BY <3>5 DEF ClaimRow
      <3>6. CASE ClaimFailure(h)
        BY <3>6 DEF ClaimFailure
      <3>7. CASE ExpirePending(h)
        BY <3>7 DEF ExpirePending, PendingExpired
      <3>8. CASE MoveExpire(h)
        BY <3>8 DEF MoveExpire, PendingExpired
      <3>9. CASE RefundRow(h) \/ RefundReadRequest(h) \/ RefundRequest(h)
        BY <3>9 DEF RefundRow, RefundReadRequest, RefundRequest
      <3>10. CASE UNCHANGED row /\ \E l \in PC \ {"refund", "refundRead", "refundRequest"} : pc' = [pc EXCEPT ![h] = l]
        BY <3>10
      <3> HIDE DEF NoneRefunded, Typed, TypeOK
      <3> QED
        BY <3>1, <3>2, <3>3, <3>4, <3>5, <3>6, <3>7, <3>8, <3>9, <3>10
           DEF Statement, PC, FileAfterMove, FileUnexpected, CommitPaid, CommitConflict,
               StartReadRequest, CheckoutOpened, MarkRequest, Announce, Ask, ReadRequest, ReadApp, Credit, FilePartial, ReadStatus, Settle, OpenRegistration, FileReview, ReopenRequest, Demote, EftReadRequest, GiveUpReadRow, CloseRequest, CancelTasks, CommitWithdrawn, MoveClose, CommitMove, VerifyThrows
    <2>3. CASE World
      BY <2>3 DEF World, GatewayDecides, WindowCloses, Crash
    <2>4. CASE UNCHANGED vars
      BY <2>4 DEF vars
    <2> QED
      BY <2>1, <2>2, <2>3, <2>4 DEF Next
  <1> QED
    BY <1>1, <1>2, AlwaysTyped, PTL DEF Spec

\* Where no refund is recorded, paid_minor never claims more than the rows
\* that succeeded add up to, whatever copies it was computed from.
THEOREM LedgerBacked == Refunds = "never" => (Spec => []LedgerNotOverstated)
  <1> SUFFICES ASSUME Refunds = "never" PROVE Spec => []LedgerNotOverstated
    OBVIOUS
  <1>1. Ledger /\ NoneRefunded => LedgerNotOverstated
    <2> SUFFICES ASSUME Ledger, NoneRefunded PROVE LedgerNotOverstated
      OBVIOUS
    <2>1. Held = EverHeld
      BY DEF NoneRefunded, Held, EverHeld, Received
    <2> QED
      BY <2>1 DEF Ledger, Backed, Arrived, LedgerNotOverstated
  <1>2. Refunds # "racing"
    OBVIOUS
  <1> QED
    BY <1>1, <1>2, AlwaysLedger, AlwaysUnrefunded, PTL

-----------------------------------------------------------------------------
(* The handlers implement Receipts.  Winning the row is the receipt; the     *)
(* three ways a settlement is filed are the three ways Receipts files one;   *)
(* a withdrawal leaves; everything else changes nothing Receipts can see.    *)

\* A settlement that read a status nobody was waiting in still finds it so.
NoReturn ==
  \A h \in Handlers : pc[h] = "file" /\ mem[h].app \notin AwaitsMoney => app \notin AwaitsMoney

SameView == SameReceipts /\ UNCHANGED <<timeline, Place>>

LEMMA NoReturnStep == Typed /\ NoReturn /\ [Next]_vars => NoReturn'
  <1> SUFFICES ASSUME Typed, NoReturn, [Next]_vars PROVE NoReturn'
    OBVIOUS
  <1>1. app \notin AwaitsMoney => app' \notin AwaitsMoney
    <2>1. ASSUME NEW h \in Handlers, Statement(h) PROVE app \notin AwaitsMoney => app' \notin AwaitsMoney
      <3>1. CASE Announce(h) \/ Demote(h) \/ OpenRegistration(h) \/ CommitWithdrawn(h) \/ CommitMove(h)
        BY <3>1 DEF Announce, Demote, OpenRegistration, CommitWithdrawn, CommitMove, AwaitsMoney
      <3>2. CASE Settle(h)
        BY <3>2 DEF Settle, FileAfterMove, FileUnexpected, CommitPaid, CommitConflict, AwaitsMoney
      <3>3. CASE UNCHANGED app
        BY <3>3
      <3> QED
        BY <2>1, <3>1, <3>2, <3>3
           DEF Statement, db, InsertRow, StartReadRequest, StartInsert, CheckoutOpened, CheckoutRefused, Launch,
               MarkRequest, Ask, ReadRequest, ReadApp, ClaimRow, Credit, FilePartial,
               ReadStatus, ClaimFailure, FileReview, ReopenRequest, EftReadRequest, EftInsert,
               GiveUpReadRow, RefundRow, RefundReadRequest, RefundRequest, CloseRequest,
               ExpirePending, CancelTasks, MoveClose, MoveExpire, VerifyThrows
    <2>2. CASE \/ \E h \in Handlers : Call(h) \/ VerifyThrows(h)
               \/ World \/ UNCHANGED vars
      <3>1. UNCHANGED app
        BY <2>2 DEF Call, StartPayment, RecordEft, GiveUp, Withdraw, Reconcile, RecordRefund,
           MoveToRegistration, World, GatewayDecides, WindowCloses, Crash, VerifyThrows, vars, db
      <3> QED
        BY <3>1
    <2> QED
      BY <2>1, <2>2 DEF Next
  <1>2. ASSUME NEW g \in Handlers, pc'[g] = "file"
        PROVE  (pc[g] = "file" /\ mem'[g] = mem[g]) \/ mem'[g].app = app
    <2> USE <1>2 DEF Typed, TypeOK
    <2>1. ASSUME NEW h \in Handlers, NEW l \in PC \ {"file"},
                 pc' = [pc EXCEPT ![h] = l], \A k \in Handlers : k # h => mem'[k] = mem[k]
          PROVE  pc[g] = "file" /\ mem'[g] = mem[g]
      BY <2>1
    <2>2. ASSUME NEW h \in Handlers, Call(h)
          PROVE  \E l, p, m : Begin(h, l, p, m) /\ l \in {"startRequest", "eftRequest", "giveUp",
                   "closeRequest", "ask", "refund", "moveExpire", "moveClose"}
      <3>1. CASE \E b \in BOOLEAN : MoveToRegistration(h, b)
        BY <3>1 DEF MoveToRegistration
      <3>2. CASE \E p \in Payments : (\E b \in BOOLEAN : Reconcile(h, p, b)) \/ RecordRefund(h, p)
        BY <3>2 DEF Reconcile, RecordRefund
      <3>3. CASE StartPayment(h) \/ RecordEft(h) \/ GiveUp(h) \/ Withdraw(h)
        BY <3>3 DEF StartPayment, RecordEft, GiveUp, Withdraw
      <3> QED
        BY <2>2, <3>1, <3>2, <3>3 DEF Call
    <2>3. CASE \E h \in Handlers : Call(h)
      BY <2>1, <2>2, <2>3 DEF Begin
    <2>4. ASSUME NEW h \in Handlers, ReadStatus(h)
          PROVE  (pc[g] = "file" /\ mem'[g] = mem[g]) \/ mem'[g].app = app
      BY <2>4 DEF ReadStatus, Goto, Hold, Mem
    <2>5. ASSUME NEW h \in Handlers, Statement(h) \/ VerifyThrows(h), ~ReadStatus(h)
          PROVE  \E l \in PC \ {"file"} : pc' = [pc EXCEPT ![h] = l]
      <3> HIDE DEF Typed, TypeOK
      <3> QED
        BY <2>5 DEF Statement, Goto, Done, PC, StartReadRequest, StartInsert, CheckoutOpened, CheckoutRefused, Launch, MarkRequest,
           Announce, Ask, ReadRequest, ReadApp, ClaimRow, Credit, FilePartial, ReadStatus,
           Settle, OpenRegistration, ClaimFailure, FileReview, ReopenRequest, Demote,
           EftReadRequest, EftInsert, GiveUpReadRow, RefundRow, RefundReadRequest,
           RefundRequest, CloseRequest, ExpirePending, CancelTasks, CommitWithdrawn, MoveClose,
           MoveExpire, CommitMove, VerifyThrows, InsertRow, FileAfterMove, FileUnexpected,
           CommitPaid, CommitConflict
    <2>6. ASSUME NEW h \in Handlers, Statement(h) \/ VerifyThrows(h)
          PROVE  \A k \in Handlers : k # h => mem'[k] = mem[k]
      BY <2>6 DEF Statement, Goto, Done, Keep, Hold, StartReadRequest, StartInsert, CheckoutOpened, CheckoutRefused, Launch, MarkRequest,
           Announce, Ask, ReadRequest, ReadApp, ClaimRow, Credit, FilePartial, ReadStatus,
           Settle, OpenRegistration, ClaimFailure, FileReview, ReopenRequest, Demote,
           EftReadRequest, EftInsert, GiveUpReadRow, RefundRow, RefundReadRequest,
           RefundRequest, CloseRequest, ExpirePending, CancelTasks, CommitWithdrawn, MoveClose,
           MoveExpire, CommitMove, VerifyThrows, InsertRow, FileAfterMove, FileUnexpected,
           CommitPaid, CommitConflict
    <2>7. CASE World
      BY <2>7 DEF World, GatewayDecides, WindowCloses, Crash, Done
    <2>8. CASE UNCHANGED vars
      BY <2>8 DEF vars
    <2> QED
      BY <2>1, <2>3, <2>4, <2>5, <2>6, <2>7, <2>8 DEF Next
  <1> QED
    BY <1>1, <1>2 DEF NoReturn

LEMMA ViewSame ==
  ASSUME SameReceipts, UNCHANGED <<timeline, Place>>
  PROVE  UNCHANGED Promise!rvars
  BY DEF SameReceipts, Promise!rvars

\* One step per statement that Receipts can see.
LEMMA StatementView ==
  ASSUME StageMoves = FALSE, Typed, Confirmation, Ownership, NoReturn,
         NEW h \in Handlers, Statement(h) \/ VerifyThrows(h)
  PROVE  Promise!RNext \/ UNCHANGED Promise!rvars
  <1> USE DEF At
  <1>1. CASE Wins(h)
    <2>1. Promise!Receive(sub[h])
      BY <1>1 DEF Wins, ClaimRow, Promise!Receive, Place
    <2> QED
      BY <1>1, <2>1 DEF Wins, Promise!RNext
  <1>2. CASE SameReceipts /\ UNCHANGED <<app, timeline>>
    BY <1>2, ViewSame DEF Place
  <1>3. CASE FilePartial(h)
    <2>1. /\ sub[h] \in EverHeld /\ timeline[sub[h]] = {}
          /\ UNCHANGED <<EverHeld, Place>>
      BY <1>3 DEF FilePartial, Typed, Subjects, AboutOne, Ownership, OwnersHoldRows, Settling,
         Unfiled, EverHeld, Received, Place
    <2>2. timeline' = [timeline EXCEPT ![sub[h]] = {"partial"}]
      BY <1>3, <2>1 DEF FilePartial, File
    <2>3. Promise!FilePart(sub[h])
      BY <2>1, <2>2 DEF Promise!FilePart, Promise!FileAs
    <2> QED
      BY <2>1, <2>3 DEF Promise!RNext, Promise!RFile, EverHeld
  <1>4. CASE Settle(h)
    <2>0. SameReceipts
      BY <1>4, StatementReceipts DEF Settle, Wins, ClaimRow
    <2>1. sub[h] \in EverHeld /\ timeline[sub[h]] = {} /\ sub[h] \in Payments
      BY <1>4 DEF Settle, Typed, Subjects, AboutOne, Ownership, OwnersHoldRows, Settling,
         Unfiled, EverHeld, Received
    <2>2. ~FileAfterMove(h)
      BY DEF FileAfterMove, Confirmation, NotMoved
    <2>3. CASE FileUnexpected(h)
      <3>1. timeline' = [timeline EXCEPT ![sub[h]] = {"unexpected"}] /\ UNCHANGED Place
        BY <2>1, <2>3 DEF FileUnexpected, File, Place
      <3>2. Place # "waiting"
        BY <1>4, <2>3 DEF Settle, FileUnexpected, NoReturn, Place
      <3>3. Promise!FileExcess(sub[h])
        BY <2>0, <2>1, <3>1, <3>2 DEF Promise!FileExcess, Promise!FileAs, SameReceipts
      <3> QED
        BY <2>1, <3>3 DEF Promise!RNext, Promise!RFile
    <2>4. CASE CommitPaid(h)
      <3>1. timeline' = [timeline EXCEPT ![sub[h]] = {"confirmed"}]
        BY <2>1, <2>4 DEF CommitPaid, File
      <3>2. Place = "waiting" /\ Place' = "confirmed"
        BY <2>4 DEF CommitPaid, Place, AwaitsMoney
      <3>3. Promise!Confirm(sub[h])
        BY <2>0, <2>1, <3>1, <3>2 DEF Promise!Confirm, Promise!FileAs, SameReceipts
      <3> QED
        BY <2>1, <3>3 DEF Promise!RNext, Promise!RFile
    <2>5. CASE CommitConflict(h)
      BY <2>0, <2>5, ViewSame DEF CommitConflict, Place
    <2> QED
      BY <1>4, <2>2, <2>3, <2>4, <2>5 DEF Settle
  <1>5. CASE Announce(h) \/ Demote(h) \/ OpenRegistration(h)
    <2>1. SameReceipts
      BY <1>5, StatementReceipts DEF Announce, Demote, OpenRegistration, Wins, ClaimRow
    <2>2. UNCHANGED <<timeline, Place>>
      BY <1>5 DEF Announce, Demote, OpenRegistration, Place, AwaitsMoney
    <2> QED
      BY <2>1, <2>2, ViewSame
  <1>6. CASE CommitWithdrawn(h)
    <2>1. SameReceipts
      BY <1>6, StatementReceipts DEF CommitWithdrawn, Wins, ClaimRow
    <2>2. UNCHANGED timeline /\ (Place' = Place \/ Place' = "elsewhere")
      BY <1>6 DEF CommitWithdrawn, Place, AwaitsMoney
    <2>3. CASE Place' = Place
      BY <2>1, <2>2, <2>3, ViewSame
    <2>4. CASE Place # "elsewhere" /\ Place' = "elsewhere"
      BY <2>1, <2>2, <2>4 DEF Promise!RNext, Promise!Leave, SameReceipts
    <2> QED
      BY <2>2, <2>3, <2>4
  <1>7. ~CommitMove(h)
    BY DEF CommitMove, Confirmation, NotMoved
  <1>8. SameReceipts \/ Wins(h)
    BY StatementReceipts
  <1> HIDE DEF At
  <1> QED
    BY <1>1, <1>2, <1>3, <1>4, <1>5, <1>6, <1>7, <1>8
       DEF Statement, db, StartReadRequest, StartInsert, CheckoutOpened, CheckoutRefused, Launch, MarkRequest,
           Ask, ReadRequest, ReadApp, ClaimRow, Credit, ReadStatus, ClaimFailure, FileReview,
           ReopenRequest, EftReadRequest, EftInsert, GiveUpReadRow, RefundRow,
           RefundReadRequest, RefundRequest, CloseRequest, ExpirePending, CancelTasks,
           MoveClose, MoveExpire, VerifyThrows, InsertRow

\* The handlers keep the promise of Receipts: every payment received is filed
\* at most once, as a confirmation that moves a waiting application on, a part
\* payment or money nobody waited for, and no failure, expiry or give-up that
\* comes late takes a receipt or a confirmed place back; for any number of
\* payments, invocations, crashes and retries, in a school that moves nobody
\* by hand and refunds only with nothing in flight.
THEOREM PromiseKept == StageMoves = FALSE /\ Refunds # "racing" => (Spec => KeepsPromise)
  <1> SUFFICES ASSUME StageMoves = FALSE, Refunds # "racing" PROVE Spec => KeepsPromise
    OBVIOUS
  <1>1. Init => Promise!RInit
    BY DEF Init, Promise!RInit, EverHeld, Received, Place, AwaitsMoney
  <1>2. Typed /\ Confirmation /\ Ownership /\ NoReturn /\ [Next]_vars
          => [Promise!RNext]_(Promise!rvars)
    <2> SUFFICES ASSUME Typed, Confirmation, Ownership, NoReturn, [Next]_vars
                 PROVE  Promise!RNext \/ UNCHANGED Promise!rvars
      OBVIOUS
    <2>1. ASSUME NEW h \in Handlers, Statement(h) \/ VerifyThrows(h)
          PROVE  Promise!RNext \/ UNCHANGED Promise!rvars
      BY <2>1, StatementView
    <2>2. CASE (\E h \in Handlers : Call(h)) \/ World \/ UNCHANGED vars
      <3>1. UNCHANGED <<app, timeline>>
        BY <2>2 DEF Call, StartPayment, RecordEft, GiveUp, Withdraw, Reconcile, RecordRefund,
           MoveToRegistration, World, GatewayDecides, WindowCloses, Crash, vars, db
      <3>2. SameReceipts
        BY <2>2, OtherReceipts
      <3> QED
        BY <3>1, <3>2, ViewSame DEF Place
    <2> QED
      BY <2>1, <2>2 DEF Next
  <1>3. Init => NoReturn
    BY DEF Init, NoReturn
  <1>4. Spec => []NoReturn
    BY <1>3, NoReturnStep, AlwaysTyped, PTL DEF Spec
  <1> QED
    BY <1>1, <1>2, <1>4, AlwaysConfirmation, AlwaysOwned, PTL DEF Spec, KeepsPromise, Promise!RSpec

=============================================================================
