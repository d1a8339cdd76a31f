----------------------------- MODULE TicketsProofs -----------------------------
(* What Tickets keeps for any number of orders, people and invocations, and    *)
(* any capacity.                                                              *)
EXTENDS Tickets, FiniteSetTheorems, TLAPS

SaleOK ==
  /\ open \in BOOLEAN /\ order \in [Orders -> OrderStatus]
  /\ held \in [Orders -> BOOLEAN] /\ givenUp \in [Orders -> BOOLEAN]
PayOK ==
  /\ req \in [Orders -> ReqStatus] /\ row \in [Orders -> RowStatus]
  /\ ref \in [Orders -> BOOLEAN] /\ late \in [Orders -> BOOLEAN]
  /\ recent \in [Orders -> BOOLEAN] /\ gateway \in [Orders -> Gateway]
NumbersOK == numbers \in [Orders -> SUBSET Nat] /\ next \in Nat \ {0}
DeskOK ==
  /\ mail \in [Orders -> {"none", "queued", "sent"}]
  /\ tasks \subseteq TaskType \X Orders /\ crashes \in Nat
SelfOK ==
  /\ pc \in [Handlers -> PC] /\ sub \in [Handlers -> Orders \cup {NoOrder}]
  /\ mem \in [Handlers -> Memory]

\* An invocation at work is about an order.
Known == \A h \in Handlers : pc[h] # "idle" => sub[h] \in Orders

TypeInv == SaleOK /\ PayOK /\ NumbersOK /\ DeskOK /\ SelfOK /\ Known

LEMMA TypeParts == TypeOK <=> SaleOK /\ PayOK /\ NumbersOK /\ DeskOK /\ SelfOK
  BY DEF TypeOK, SaleOK, PayOK, NumbersOK, DeskOK, SelfOK

LEMMA MemoryFields ==
  ASSUME NEW m \in Memory
  PROVE  m.revive \in BOOLEAN /\ m.ans \in Answer /\ m.before \in OrderStatus
  BY DEF Memory

LEMMA NothingInMemory ==
  Nothing \in Memory /\ \A b \in BOOLEAN : [Nothing EXCEPT !.revive = b] \in Memory
  BY DEF Nothing, Memory, Answer, OrderStatus

LEMMA HoldAns ==
  ASSUME NEW m \in Memory, NEW a \in Answer
  PROVE  [m EXCEPT !["ans"] = a] \in Memory
  BY DEF Memory

LEMMA HoldBefore ==
  ASSUME NEW m \in Memory, NEW s \in OrderStatus
  PROVE  [m EXCEPT !["before"] = s] \in Memory
  BY DEF Memory

LEMMA HoldersFinite ==
  ASSUME NEW o \in Orders
  PROVE  /\ IsFiniteSet(Holders[o]) /\ Cardinality(Holders[o]) \in Nat
         /\ Cardinality(Holders[o]) # 0
  <1>1. Holders[o] \in SUBSET Names /\ Holders[o] # {} /\ IsFiniteSet(Names)
    BY EventAssumption
  <1>2. IsFiniteSet(Holders[o])
    BY <1>1, FS_Subset
  <1> QED
    BY <1>1, <1>2, FS_CardinalityType, FS_EmptySet
-----------------------------------------------------------------------------
(* The pieces the actions are made of keep the types.                        *)

LEMMA StepKeeps ==
  ASSUME SelfOK, Known, NEW h \in Handlers, ~At(h, "idle"), NEW l \in PC, Goto(h, l), Keep(h)
  PROVE  SelfOK' /\ Known'
  BY DEF SelfOK, Known, Goto, Keep, At

LEMMA HoldKeeps ==
  ASSUME SelfOK, Known, NEW h \in Handlers, ~At(h, "idle"), NEW l \in PC, Goto(h, l),
         NEW m \in Memory, mem' = [mem EXCEPT ![h] = m]
  PROVE  SelfOK' /\ Known'
  BY DEF SelfOK, Known, Goto, At

LEMMA DoneKeeps ==
  ASSUME SelfOK, Known, NEW h \in Handlers, Done(h)
  PROVE  SelfOK' /\ Known'
  BY NothingInMemory DEF SelfOK, Known, Done, PC

LEMMA BeginKeeps ==
  ASSUME SelfOK, Known, NEW h \in Handlers, NEW l \in PC, NEW o \in Orders, NEW b \in BOOLEAN,
         Begin(h, l, o, b)
  PROVE  SelfOK' /\ Known'
  BY NothingInMemory DEF SelfOK, Known, Begin

LEMMA CancelKeeps ==
  ASSUME SaleOK, NEW o \in Orders, Cancel(o), UNCHANGED <<open, held>>
  PROVE  SaleOK'
  BY DEF SaleOK, Cancel, OrderStatus
-----------------------------------------------------------------------------
(* One lemma for each group of statements.                                   *)

LEMMA CheckoutType ==
  ASSUME TypeInv, NEW h \in Handlers, Checkout(h)
  PROVE  TypeInv'
  <1> USE DEF TypeInv, sale, pay, door
  <1>0. ~At(h, "idle") /\ sub[h] \in Orders
        /\ {"request", "insert", "checkout", "launch", "dropRequest", "dropOrder"} \subseteq PC
    BY DEF Checkout, Place, OpenRequest, InsertAttempt, CheckoutOpened, CheckoutRefused,
       CheckoutThrows, Launch,
       DropRequest, DropOrder, Known, At, PC
  <1>1. NumbersOK' /\ DeskOK'
    BY DEF Checkout, Place, OpenRequest, InsertAttempt, CheckoutOpened, CheckoutRefused,
       CheckoutThrows, Launch,
       DropRequest, DropOrder, NumbersOK, DeskOK
  <1>2. SaleOK'
    <2>1. CASE Place(h)
      BY <1>0, <2>1 DEF Place, SaleOK, OrderStatus
    <2>2. CASE DropOrder(h)
      BY <1>0, <2>2, CancelKeeps DEF DropOrder
    <2>3. CASE UNCHANGED sale
      BY <2>3 DEF SaleOK
    <2> QED
      BY <2>1, <2>2, <2>3 DEF Checkout, OpenRequest, InsertAttempt, CheckoutOpened,
         CheckoutRefused, CheckoutThrows, Launch, DropRequest
  <1>3. PayOK'
    BY <1>0 DEF Checkout, Place, OpenRequest, InsertAttempt, CheckoutOpened, CheckoutRefused,
       CheckoutThrows,
       Launch, DropRequest, DropOrder, PayOK, ReqStatus, RowStatus, Gateway
  <1>4. Done(h) \/ \E l \in {"request", "insert", "checkout", "launch", "dropRequest",
                             "dropOrder"} : Goto(h, l) /\ Keep(h)
    BY DEF Checkout, Place, OpenRequest, InsertAttempt, CheckoutOpened, CheckoutRefused,
       CheckoutThrows, Launch,
       DropRequest, DropOrder
  <1> QED
    BY <1>0, <1>1, <1>2, <1>3, <1>4, StepKeeps, DoneKeeps

LEMMA AskingType ==
  ASSUME TypeInv, NEW h \in Handlers, Asking(h)
  PROVE  TypeInv'
  <1> USE DEF TypeInv, sale, pay, door
  <1>0. /\ ~At(h, "idle") /\ sub[h] \in Orders /\ mem[h] \in Memory
        /\ {"branch", "claim", "fail"} \subseteq PC
    BY DEF Asking, Ask, VerifyThrows, Branch, Known, SelfOK, At, PC
  <1>1. SaleOK' /\ PayOK' /\ NumbersOK' /\ DeskOK'
    BY DEF Asking, Ask, VerifyThrows, Branch, SaleOK, PayOK, NumbersOK, DeskOK
  <1>2. CASE Ask(h)
    <2> DEFINE v == VerifyAnswer(sub[h])
               a == IF v = "pending" /\ ~mem[h].revive /\ late[sub[h]] THEN "expired" ELSE v
    <2>1. a \in Answer
      BY <1>0 DEF PayOK, VerifyAnswer, Gateway, Answer
    <2>2. mem' = [mem EXCEPT ![h] = [mem[h] EXCEPT !["ans"] = a]]
      BY <1>2 DEF Ask, Hold
    <2>3. Goto(h, "branch")
      BY <1>2 DEF Ask
    <2> HIDE DEF a
    <2> QED
      BY <1>0, <1>1, <2>1, <2>2, <2>3, HoldAns, HoldKeeps
  <1>3. CASE VerifyThrows(h) \/ Branch(h)
    BY <1>0, <1>1, <1>3, StepKeeps, DoneKeeps DEF VerifyThrows, Branch
  <1> QED
    BY <1>2, <1>3 DEF Asking

\* The numbers an order is given: the next ones, one for each of its people.
LEMMA FreshNumbers ==
  ASSUME TypeInv, NEW o \in Orders
  PROVE  LET n == next + Cardinality(Holders[o]) IN
           /\ n \in Nat \ {0} /\ next < n
           /\ next .. (n - 1) \in SUBSET Nat /\ next .. (n - 1) # {}
           /\ Cardinality(next .. (n - 1)) = Cardinality(Holders[o])
  <1> DEFINE c == Cardinality(Holders[o])
             n == next + c
  <1>1. next \in Nat /\ next # 0 /\ c \in Nat /\ c # 0
    BY HoldersFinite DEF TypeInv, NumbersOK
  <1> HIDE DEF c
  <1>2. n \in Nat /\ n # 0 /\ next < n /\ next \in next .. (n - 1)
    BY <1>1
  <1>3. Cardinality(next .. (n - 1)) = c
    BY <1>1, FS_Interval
  <1> QED
    BY <1>1, <1>2, <1>3 DEF c

LEMMA SettlingType ==
  ASSUME TypeInv, NEW h \in Handlers, Settling(h)
  PROVE  TypeInv'
  <1> USE DEF TypeInv, sale, pay, door
  <1>0. /\ ~At(h, "idle") /\ sub[h] \in Orders /\ mem[h] \in Memory
        /\ {"credit", "readOrder", "settle", "issue", "mail", "tell"} \subseteq PC
    BY DEF Settling, Claim, Credit, ReadOrder, Settle, Issue, QueueMail, TellLate, Known,
       SelfOK, At, PC
  <1>1. SaleOK'
    BY <1>0 DEF Settling, Claim, Credit, ReadOrder, Settle, Issue, QueueMail, TellLate, SaleOK,
       OrderStatus
  <1>2. PayOK'
    BY <1>0 DEF Settling, Claim, Credit, ReadOrder, Settle, Issue, QueueMail, TellLate, PayOK,
       RowStatus, ReqStatus
  <1>3. NumbersOK'
    <2>1. CASE Issue(h)
      BY <1>0, <2>1, FreshNumbers DEF Issue, NumbersOK
    <2>2. CASE UNCHANGED <<numbers, next>>
      BY <2>2 DEF NumbersOK
    <2> QED
      BY <2>1, <2>2 DEF Settling, Claim, Credit, ReadOrder, Settle, QueueMail, TellLate
  <1>4. DeskOK'
    BY <1>0 DEF Settling, Claim, Credit, ReadOrder, Settle, Issue, QueueMail, TellLate, DeskOK,
       TaskType
  <1>5. CASE ReadOrder(h)
    <2>1. mem' = [mem EXCEPT ![h] = [mem[h] EXCEPT !["before"] = order[sub[h]]]]
      BY <1>5 DEF ReadOrder, Hold
    <2>2. order[sub[h]] \in OrderStatus /\ Goto(h, "settle")
      BY <1>0, <1>5 DEF ReadOrder, SaleOK
    <2> QED
      BY <1>0, <1>1, <1>2, <1>3, <1>4, <2>1, <2>2, HoldBefore, HoldKeeps
  <1>6. CASE ~ReadOrder(h)
    <2>1. Done(h) \/ \E l \in {"credit", "issue", "mail", "tell", "readOrder"} :
                       Goto(h, l) /\ Keep(h)
      BY <1>6 DEF Settling, Claim, Credit, Settle, Issue, QueueMail, TellLate
    <2> QED
      BY <1>0, <1>1, <1>2, <1>3, <1>4, <2>1, StepKeeps, DoneKeeps
  <1> QED
    BY <1>5, <1>6

LEMMA FailingType ==
  ASSUME TypeInv, NEW h \in Handlers, Failing(h)
  PROVE  TypeInv'
  <1> USE DEF TypeInv, sale, pay, door
  <1>0. /\ ~At(h, "idle") /\ sub[h] \in Orders
        /\ {"closeRequest", "release", "review"} \subseteq PC
    BY DEF Failing, Fail, CloseRequest, Release, FileReview, Known, At, PC
  <1>1. SaleOK'
    BY <1>0, CancelKeeps DEF Failing, Fail, CloseRequest, Release, FileReview, SaleOK
  <1>2. PayOK'
    BY <1>0 DEF Failing, Fail, CloseRequest, Release, FileReview, PayOK, Given, RowStatus,
       ReqStatus
  <1>3. NumbersOK' /\ DeskOK'
    BY <1>0 DEF Failing, Fail, CloseRequest, Release, FileReview, NumbersOK, DeskOK, TaskType
  <1>4. Done(h) \/ \E l \in {"closeRequest", "release", "review"} : Goto(h, l) /\ Keep(h)
    BY DEF Failing, Fail, CloseRequest, Release, FileReview
  <1> QED
    BY <1>0, <1>1, <1>2, <1>3, <1>4, StepKeeps, DoneKeeps

\* Buyers and the sweep set out, and the rest of the world.
LEMMA BeginType ==
  ASSUME TypeInv, NEW h \in Handlers, NEW o \in Orders,
         Buy(h, o) \/ Sweep(h, o) \/ \E revive \in BOOLEAN : Reconcile(h, o, revive)
  PROVE  TypeInv'
  <1> USE DEF TypeInv, sale, pay, door
  <1>1. SaleOK' /\ PayOK' /\ NumbersOK' /\ DeskOK'
    <2>1. UNCHANGED <<sale, pay, door>> => SaleOK' /\ PayOK' /\ NumbersOK' /\ DeskOK'
      <3>1. ASSUME UNCHANGED <<sale, pay, door>> PROVE SaleOK' /\ NumbersOK' /\ DeskOK'
        <4>1. UNCHANGED <<open, order, held, givenUp>> /\ UNCHANGED <<numbers, next, mail, tasks>>
          BY <3>1
        <4>2. SaleOK'
          BY <4>1 DEF SaleOK
        <4>3. NumbersOK'
          BY <4>1 DEF NumbersOK
        <4>4. crashes' = crashes
          BY DEF Buy, Sweep, Reconcile
        <4> QED
          BY <4>1, <4>2, <4>3, <4>4 DEF DeskOK
      <3>2. ASSUME UNCHANGED <<sale, pay, door>> PROVE PayOK'
        BY <3>2 DEF PayOK
      <3> QED
        BY <3>1, <3>2
    <2> QED
      BY <2>1 DEF Buy, Sweep, Reconcile
  <1> DEFINE again == row[o] \in Revivable
  <1>2. Begin(h, "place", o, FALSE) \/ Begin(h, "ask", o, again)
    BY DEF Buy, Sweep, Reconcile
  <1>3. again \in BOOLEAN /\ {"place", "ask"} \subseteq PC
    BY DEF PC
  <1> HIDE DEF again
  <1> QED
    BY <1>1, <1>2, <1>3, BeginKeeps

LEMMA WorldType ==
  ASSUME TypeInv, Console \/ World \/ (\E h \in Handlers : Crash(h)) \/ UNCHANGED vars
  PROVE  TypeInv'
  <1> USE DEF TypeInv, sale, pay, door
  <1>1. CASE Console
    BY <1>1 DEF Console, SwitchSales, Resend, Deliver, SaleOK, PayOK, NumbersOK, DeskOK, SelfOK,
       Known, self
  <1>2. CASE World
    <2>1. SelfOK' /\ Known'
      BY <1>2 DEF World, BuyerEnds, Expire, Lapse, WindowCloses, SelfOK, Known, self
    <2>2. SaleOK' /\ NumbersOK' /\ DeskOK'
      BY <1>2 DEF World, BuyerEnds, Expire, Lapse, WindowCloses, SaleOK, NumbersOK, DeskOK
    <2>3. PayOK'
      <3>1. PICK x \in Orders : BuyerEnds(x) \/ Expire(x) \/ Lapse(x) \/ WindowCloses(x)
        BY <1>2 DEF World
      <3>2. CASE BuyerEnds(x)
        BY <3>2 DEF BuyerEnds, PayOK, Gateway
      <3>3. CASE Expire(x) \/ Lapse(x) \/ WindowCloses(x)
        BY <3>3 DEF Expire, Lapse, WindowCloses, PayOK
      <3> QED
        BY <3>1, <3>2, <3>3
    <2> QED
      BY <2>1, <2>2, <2>3
  <1>3. ASSUME NEW h \in Handlers, Crash(h) PROVE TypeInv'
    <2>1. SaleOK' /\ PayOK' /\ NumbersOK' /\ DeskOK'
      BY <1>3 DEF Crash, SaleOK, PayOK, NumbersOK, DeskOK
    <2> QED
      BY <1>3, <2>1, DoneKeeps DEF Crash
  <1>4. CASE UNCHANGED vars
    BY <1>4 DEF vars, SaleOK, PayOK, NumbersOK, DeskOK, SelfOK, Known
  <1> QED
    BY <1>1, <1>2, <1>3, <1>4

LEMMA NextType == TypeInv /\ [Next]_vars => TypeInv'
  BY CheckoutType, AskingType, SettlingType, FailingType, BeginType, WorldType DEF Next, Step

LEMMA InitType == Init => TypeInv
  BY NothingInMemory DEF Init, TypeInv, SaleOK, PayOK, NumbersOK, DeskOK, SelfOK, Known,
     OrderStatus, ReqStatus, RowStatus, Gateway, PC

\* Every row has a status of its table's, and every task is about an order.
THEOREM TypeCorrect == Spec => []TypeOK
  <1>1. TypeInv => TypeOK
    BY TypeParts DEF TypeInv
  <1> QED
    BY <1>1, InitType, NextType, PTL DEF Spec
-----------------------------------------------------------------------------
(* The numbers of the tickets.                                               *)

LEMMA IssueShares ==
  ASSUME TypeInv, NumbersNeverShared, NEW h \in Handlers, Issue(h)
  PROVE  NumbersNeverShared'
  <1> DEFINE o == sub[h]
             n == next + Cardinality(Holders[o])
             fresh == next .. (n - 1)
  <1>1. o \in Orders
    BY DEF TypeInv, Known, Issue, At
  <1>2. CASE UNCHANGED <<numbers, next>>
    BY <1>2 DEF NumbersNeverShared
  <1>3. CASE numbers' = [numbers EXCEPT ![o] = fresh] /\ next' = n /\ numbers[o] = {}
    <2>1. n \in Nat \ {0} /\ next < n /\ next \in Nat \ {0}
      BY <1>1, FreshNumbers DEF TypeInv, NumbersOK
    <2>2. numbers'[o] = fresh /\ \A p \in Orders \ {o} : numbers'[p] = numbers[p]
      BY <1>1, <1>3 DEF TypeInv, NumbersOK
    <2>3. Cardinality(fresh) = Cardinality(Holders[o])
      BY <1>1, FreshNumbers
    <2> HIDE DEF n, o
    <2>4. \A p \in Orders : numbers[p] \subseteq 1 .. (next - 1)
      BY DEF NumbersNeverShared
    <2>5. fresh \subseteq 1 .. (n - 1)
      BY <2>1
    <2>6. \A p \in Orders : numbers[p] \subseteq 1 .. (n - 1) /\ numbers[p] \cap fresh = {}
      BY <2>1, <2>4
    <2> HIDE DEF fresh
    <2>7. \A p \in Orders :
            /\ numbers'[p] \subseteq 1 .. (next' - 1)
            /\ numbers'[p] # {} => Cardinality(numbers'[p]) = Cardinality(Holders[p])
      BY <1>3, <2>2, <2>3, <2>5, <2>6 DEF NumbersNeverShared
    <2>8. \A p, q \in Orders : p # q => numbers'[p] \cap numbers'[q] = {}
      BY <2>2, <2>6 DEF NumbersNeverShared
    <2> QED
      BY <2>7, <2>8 DEF NumbersNeverShared
  <1> QED
    BY <1>2, <1>3 DEF Issue

LEMMA OnlyIssueNumbers ==
  ASSUME [Next]_vars
  PROVE  UNCHANGED <<numbers, next>> \/ \E h \in Handlers : Issue(h)
  <1> USE DEF door
  <1>1. ASSUME NEW h \in Handlers, Checkout(h) PROVE UNCHANGED <<numbers, next>>
    BY <1>1 DEF Checkout, Place, OpenRequest, InsertAttempt, CheckoutOpened, CheckoutRefused,
       CheckoutThrows,
       Launch, DropRequest, DropOrder
  <1>2. ASSUME NEW h \in Handlers, Asking(h) \/ Failing(h) PROVE UNCHANGED <<numbers, next>>
    BY <1>2 DEF Asking, Ask, VerifyThrows, Branch, Failing, Fail, CloseRequest, Release, FileReview
  <1>3. ASSUME NEW h \in Handlers, Settling(h), ~Issue(h) PROVE UNCHANGED <<numbers, next>>
    BY <1>3 DEF Settling, Claim, Credit, ReadOrder, Settle, QueueMail, TellLate
  <1>4. ASSUME Console \/ World \/ UNCHANGED vars PROVE UNCHANGED <<numbers, next>>
    BY <1>4 DEF Console, SwitchSales, Resend, Deliver, World, BuyerEnds, Expire, Lapse,
       WindowCloses, vars
  <1>5. ASSUME NEW h \in Handlers, NEW o \in Orders,
               Crash(h) \/ Buy(h, o) \/ Sweep(h, o) \/ \E b \in BOOLEAN : Reconcile(h, o, b)
        PROVE  UNCHANGED <<numbers, next>>
    BY <1>5 DEF Crash, Buy, Sweep, Reconcile
  <1>6. ASSUME NEW h \in Handlers, Crash(h) PROVE UNCHANGED <<numbers, next>>
    BY <1>6 DEF Crash
  <1> QED
    BY <1>1, <1>2, <1>3, <1>4, <1>5, <1>6 DEF Next, Step

\* For any number of orders settled at once: no two tickets have one number, and
\* an order has one for each of its people or none at all.
THEOREM OwnNumbers == Spec => []NumbersNeverShared
  <1>1. Init => NumbersNeverShared
    <2> SUFFICES ASSUME Init PROVE NumbersNeverShared
      OBVIOUS
    <2>1. \A o \in Orders : numbers[o] = {}
      BY DEF Init
    <2> QED
      BY <2>1 DEF NumbersNeverShared
  <1>2. TypeInv /\ NumbersNeverShared /\ [Next]_vars => NumbersNeverShared'
    <2>1. UNCHANGED <<numbers, next>> /\ NumbersNeverShared => NumbersNeverShared'
      BY DEF NumbersNeverShared
    <2> QED
      BY <2>1, IssueShares, OnlyIssueNumbers
  <1> QED
    BY <1>1, <1>2, InitType, NextType, PTL DEF Spec
-----------------------------------------------------------------------------
(* The places.  An order whose places were never put back on sale was taken   *)
(* when there was room for it beside every other such order, and it takes up  *)
(* nothing again that it has given up.                                        *)

\* What is off, or lapsed, has been given up.
GivenUpInv ==
  \A o \in Orders :
    /\ order[o] = "cancelled" => givenUp[o]
    /\ order[o] = "pending" /\ ~held[o] => givenUp[o]

\* An invocation past its order's insert, and an attempt the gateway knows of,
\* are about an order that is there.
PlacedInv ==
  /\ \A h \in Handlers : pc[h] \notin {"idle", "place"} => order[sub[h]] # "none"
  /\ \A o \in Orders : ref[o] => order[o] # "none"

OversoldInv == GivenUpInv /\ PlacedInv /\ NeverOversold

LEMMA TicketsFinite ==
  ASSUME NEW S \in SUBSET Orders, NEW T \in SUBSET S
  PROVE  /\ IsFiniteSet(TicketsOf(S)) /\ TicketsOf(T) \in SUBSET TicketsOf(S)
         /\ IsFiniteSet(S)
         /\ Cardinality(TicketsOf(T)) <= Cardinality(TicketsOf(S))
         /\ Cardinality(TicketsOf(T)) \in Nat /\ Cardinality(TicketsOf(S)) \in Nat
  <1>1. IsFiniteSet(Orders \X Names) /\ IsFiniteSet(S)
    BY EventAssumption, FS_Product, FS_Subset
  <1>2. TicketsOf(S) \subseteq Orders \X Names /\ TicketsOf(T) \subseteq TicketsOf(S)
    BY EventAssumption DEF TicketsOf
  <1>3. IsFiniteSet(TicketsOf(S)) /\ IsFiniteSet(TicketsOf(T))
    BY <1>1, <1>2, FS_Subset
  <1> QED
    BY <1>1, <1>2, <1>3, FS_Subset, FS_CardinalityType

LEMMA FewerFit ==
  ASSUME NeverOversold, Kept' \subseteq Kept
  PROVE  NeverOversold'
  <1>1. Kept \in SUBSET Orders /\ Kept' \in SUBSET Kept
    BY DEF Kept, Taken
  <1>2. Cardinality(TicketsOf(Kept')) <= Capacity
    BY <1>1, TicketsFinite, EventAssumption DEF NeverOversold
  <1>3. IsFiniteSet(Kept \cap Stalls) /\ Kept' \cap Stalls \in SUBSET (Kept \cap Stalls)
    BY <1>1, TicketsFinite, FS_Intersection
  <1>4. Cardinality(Kept' \cap Stalls) <= StallCapacity
    <2>1. Cardinality(Kept' \cap Stalls) <= Cardinality(Kept \cap Stalls)
      BY <1>3, FS_Subset
    <2>2. Cardinality(Kept' \cap Stalls) \in Nat /\ Cardinality(Kept \cap Stalls) \in Nat
      BY <1>3, FS_Subset, FS_CardinalityType
    <2> QED
      BY <2>1, <2>2, EventAssumption DEF NeverOversold
  <1>5. TicketsOf(Kept)' = TicketsOf(Kept')
    BY DEF TicketsOf
  <1> QED
    BY <1>2, <1>4, <1>5 DEF NeverOversold

LEMMA RoomEnough ==
  ASSUME NeverOversold, NEW o \in Orders, RoomFor(o), Kept' \subseteq Kept \cup {o}
  PROVE  NeverOversold'
  <1> DEFINE S == Taken \cup {o}
  <1>1. S \in SUBSET Orders /\ Kept' \in SUBSET S /\ Kept \subseteq Taken
    BY DEF Kept, Taken
  <1>2. Cardinality(TicketsOf(Kept')) <= Capacity
    BY <1>1, TicketsFinite, EventAssumption DEF RoomFor
  <1>3. IsFiniteSet(Taken \cap Stalls) /\ IsFiniteSet(S \cap Stalls) /\ IsFiniteSet(Kept \cap Stalls)
    <2>1. IsFiniteSet(S) /\ IsFiniteSet(Taken) /\ IsFiniteSet(Kept)
      BY <1>1, EventAssumption, FS_Subset
    <2> QED
      BY <2>1, FS_Intersection
  <1>4. CASE o \in Stalls
    <2>1. S \cap Stalls = (Taken \cap Stalls) \cup {o}
      BY <1>4
    <2>2. Cardinality(Taken \cap Stalls) \in Nat /\ Cardinality(Taken \cap Stalls) < StallCapacity
      BY <1>3, <1>4, FS_CardinalityType DEF RoomFor
    <2>3. Cardinality(S \cap Stalls) <= StallCapacity /\ Cardinality(S \cap Stalls) \in Nat
      <3> DEFINE c == Cardinality(Taken \cap Stalls)
                 d == Cardinality(S \cap Stalls)
      <3>1. d = c \/ d = c + 1
        BY <1>3, <2>1, FS_AddElement
      <3>2. c \in Nat /\ c < StallCapacity
        BY <2>2
      <3> HIDE DEF c, d
      <3>3. d <= StallCapacity /\ d \in Nat
        BY <3>1, <3>2, EventAssumption
      <3> QED
        BY <3>3 DEF d
    <2>4. Kept' \cap Stalls \in SUBSET (S \cap Stalls)
      BY <1>1
    <2>5. /\ Cardinality(Kept' \cap Stalls) \in Nat
          /\ Cardinality(Kept' \cap Stalls) <= Cardinality(S \cap Stalls)
      BY <1>3, <2>4, FS_Subset, FS_CardinalityType
    <2>6. Cardinality(Kept' \cap Stalls) <= StallCapacity
      BY <2>3, <2>5, EventAssumption
    <2> QED
      BY <1>2, <2>6 DEF NeverOversold, TicketsOf
  <1>5. CASE o \notin Stalls
    <2>1. Kept' \cap Stalls \in SUBSET (Kept \cap Stalls)
      BY <1>5
    <2>2. /\ Cardinality(Kept' \cap Stalls) \in Nat /\ Cardinality(Kept \cap Stalls) \in Nat
          /\ Cardinality(Kept' \cap Stalls) <= Cardinality(Kept \cap Stalls)
      BY <1>3, <2>1, FS_Subset, FS_CardinalityType
    <2>3. Cardinality(Kept' \cap Stalls) <= StallCapacity
      BY <2>2, EventAssumption DEF NeverOversold
    <2> QED
      BY <1>2, <2>3 DEF NeverOversold, TicketsOf
  <1> QED
    BY <1>4, <1>5

\* What keeps an order kept, or lets go of it, when an order changes.
LEMMA SaleStays ==
  ASSUME OversoldInv, UNCHANGED sale
  PROVE  GivenUpInv' /\ NeverOversold'
  <1>1. Kept' = Kept
    BY DEF Kept, Taken, Taking, sale
  <1> QED
    BY <1>1, FewerFit DEF OversoldInv, GivenUpInv, sale

LEMMA CancelKept ==
  ASSUME TypeInv, OversoldInv, NEW o \in Orders, Cancel(o), UNCHANGED held
  PROVE  /\ GivenUpInv' /\ NeverOversold'
         /\ \A p \in Orders : order[p] # "none" => order'[p] # "none"
  <1>1. \A p \in Orders : /\ order'[p] = IF p = o /\ order[p] = "pending" THEN "cancelled" ELSE order[p]
                          /\ givenUp'[p] = (givenUp[p] \/ (p = o /\ order[p] = "pending"))
    BY DEF Cancel, TypeInv, SaleOK
  <1>2. Kept' \subseteq Kept
    BY <1>1 DEF Kept, Taken, Taking
  <1> QED
    BY <1>1, <1>2, FewerFit DEF OversoldInv, GivenUpInv

LEMMA CheckoutFits ==
  ASSUME TypeInv, OversoldInv, NEW h \in Handlers, Checkout(h)
  PROVE  OversoldInv'
  <1>0. pc[h] # "idle" /\ sub[h] \in Orders
    BY DEF Checkout, Place, OpenRequest, InsertAttempt, CheckoutOpened, CheckoutRefused,
       CheckoutThrows, Launch,
       DropRequest, DropOrder, TypeInv, Known, At
  <1>1. GivenUpInv' /\ NeverOversold' /\ \A p \in Orders : order[p] # "none" => order'[p] # "none"
    <2>1. CASE Place(h) /\ UNCHANGED <<order, held>>
      BY <2>1, SaleStays DEF Place, sale
    <2>2. CASE Place(h) /\ ~UNCHANGED <<order, held>>
      <3>1. /\ RoomFor(sub[h]) /\ givenUp' = givenUp
            /\ \A p \in Orders : /\ order'[p] = IF p = sub[h] THEN "pending" ELSE order[p]
                                 /\ held'[p] = IF p = sub[h] THEN TRUE ELSE held[p]
        BY <1>0, <2>2 DEF Place, TypeInv, SaleOK
      <3>2. Kept' \subseteq Kept \cup {sub[h]}
        BY <3>1 DEF Kept, Taken, Taking
      <3> QED
        BY <1>0, <3>1, <3>2, RoomEnough DEF OversoldInv, GivenUpInv
    <2>3. CASE DropOrder(h)
      BY <1>0, <2>3, CancelKept DEF DropOrder
    <2>4. CASE UNCHANGED sale
      BY <2>4, SaleStays DEF sale
    <2> QED
      BY <2>1, <2>2, <2>3, <2>4 DEF Checkout, OpenRequest, InsertAttempt, CheckoutOpened,
         CheckoutRefused, CheckoutThrows, Launch, DropRequest
  <1>2. PlacedInv'
    <2>1. CASE Place(h)
      BY <1>0, <1>1, <2>1 DEF Place, Goto, Done, OversoldInv, PlacedInv, TypeInv, SaleOK, SelfOK,
         Known, pay, At
    <2>2. CASE Launch(h)
      BY <1>0, <1>1, <2>2 DEF Launch, Done, OversoldInv, PlacedInv, TypeInv, PayOK, SelfOK,
         Known, sale, At
    <2>3. CASE ~Place(h) /\ ~Launch(h)
      <3>1. pc[h] # "place" /\ ref' = ref
        BY <2>3 DEF Checkout, OpenRequest, InsertAttempt, CheckoutOpened, CheckoutRefused,
           CheckoutThrows,
           DropRequest, DropOrder, At, pay
      <3>2. Done(h) \/ \E l \in PC : Goto(h, l)
        BY <2>3 DEF Checkout, OpenRequest, InsertAttempt, CheckoutOpened, CheckoutRefused,
           CheckoutThrows,
           DropRequest, DropOrder, PC
      <3> QED
        BY <1>0, <1>1, <3>1, <3>2 DEF Done, Goto, OversoldInv, PlacedInv, TypeInv, SelfOK, Known
    <2> QED
      BY <2>1, <2>2, <2>3
  <1> QED
    BY <1>1, <1>2 DEF OversoldInv

LEMMA LaterFits ==
  ASSUME TypeInv, OversoldInv, NEW h \in Handlers, Asking(h) \/ Settling(h) \/ Failing(h)
  PROVE  OversoldInv'
  <1>0. pc[h] \notin {"idle", "place"} /\ sub[h] \in Orders
    BY DEF Asking, Ask, VerifyThrows, Branch, Settling, Claim, Credit, ReadOrder, Settle, Issue,
       QueueMail, TellLate, Failing, Fail, CloseRequest, Release, FileReview, TypeInv, Known, At
  <1>1. GivenUpInv' /\ NeverOversold' /\ \A p \in Orders : order[p] # "none" => order'[p] # "none"
    <2>1. CASE Settle(h)
      <3>1. /\ UNCHANGED <<held, givenUp>> /\ order[sub[h]] # "none"
            /\ \A p \in Orders : order'[p] = IF p = sub[h] THEN "paid" ELSE order[p]
        BY <1>0, <2>1 DEF Settle, TypeInv, SaleOK, OversoldInv, PlacedInv
      <3>2. order[sub[h]] \in OrderStatus
        BY <1>0 DEF TypeInv, SaleOK
      <3>3. Kept' \subseteq Kept
        BY <1>0, <3>1, <3>2 DEF Kept, Taken, Taking, OversoldInv, GivenUpInv, OrderStatus
      <3> QED
        BY <3>1, <3>3, FewerFit DEF OversoldInv, GivenUpInv
    <2>2. CASE Release(h)
      BY <1>0, <2>2, CancelKept DEF Release
    <2>3. CASE UNCHANGED sale
      BY <2>3, SaleStays DEF sale
    <2> QED
      BY <2>1, <2>2, <2>3 DEF Asking, Ask, VerifyThrows, Branch, Settling, Claim, Credit,
         ReadOrder, Issue, QueueMail, TellLate, Failing, Fail, CloseRequest, FileReview
  <1>2. ref' = ref
    BY DEF Asking, Ask, VerifyThrows, Branch, Settling, Claim, Credit, ReadOrder, Settle, Issue,
       QueueMail, TellLate, Failing, Fail, CloseRequest, Release, FileReview, pay
  <1>3. Done(h) \/ \E l \in PC : Goto(h, l)
    BY DEF Asking, Ask, VerifyThrows, Branch, Settling, Claim, Credit, ReadOrder, Settle, Issue,
       QueueMail, TellLate, Failing, Fail, CloseRequest, Release, FileReview, PC
  <1>4. PlacedInv'
    BY <1>0, <1>1, <1>2, <1>3 DEF Done, Goto, OversoldInv, PlacedInv, TypeInv, SelfOK, Known
  <1> QED
    BY <1>1, <1>4 DEF OversoldInv

LEMMA BeginFits ==
  ASSUME TypeInv, OversoldInv, NEW h \in Handlers, NEW o \in Orders,
         Buy(h, o) \/ Sweep(h, o) \/ \E revive \in BOOLEAN : Reconcile(h, o, revive)
  PROVE  OversoldInv'
  <1>1. UNCHANGED <<sale, pay>>
    BY DEF Buy, Sweep, Reconcile
  <1>2. \E l \in {"place", "ask"} :
          /\ pc' = [pc EXCEPT ![h] = l] /\ sub' = [sub EXCEPT ![h] = o]
          /\ l = "ask" => ref[o]
    BY DEF Buy, Sweep, Reconcile, Begin
  <1>3. PlacedInv'
    BY <1>1, <1>2 DEF OversoldInv, PlacedInv, TypeInv, SelfOK, sale, pay
  <1> QED
    BY <1>1, <1>3, SaleStays DEF OversoldInv

LEMMA WorldFits ==
  ASSUME TypeInv, OversoldInv, Console \/ World \/ (\E h \in Handlers : Crash(h)) \/ UNCHANGED vars
  PROVE  OversoldInv'
  <1>1. order' = order /\ ref' = ref
    BY DEF Console, SwitchSales, Resend, Deliver, World, BuyerEnds, Expire, Lapse, WindowCloses,
       Crash, vars, sale, pay
  <1>2. PlacedInv'
    <2>1. CASE UNCHANGED self
      BY <1>1, <2>1 DEF OversoldInv, PlacedInv, self
    <2>2. ASSUME NEW h \in Handlers, Crash(h) PROVE PlacedInv'
      BY <1>1, <2>2 DEF Crash, Done, OversoldInv, PlacedInv, TypeInv, SelfOK, Known
    <2> QED
      BY <2>1, <2>2 DEF Console, SwitchSales, Resend, Deliver, World, BuyerEnds, Expire, Lapse,
         WindowCloses, vars, self
  <1>3. GivenUpInv' /\ NeverOversold'
    <2>1. ASSUME NEW o \in Orders, Lapse(o) PROVE GivenUpInv' /\ NeverOversold'
      <3>1. \A p \in Orders : /\ held'[p] = (held[p] /\ p # o)
                              /\ givenUp'[p] = (givenUp[p] \/ (p = o /\ order[p] = "pending"))
        BY <2>1 DEF Lapse, TypeInv, SaleOK
      <3>2. Kept' \subseteq Kept
        BY <1>1, <3>1 DEF Kept, Taken, Taking
      <3> QED
        BY <1>1, <3>1, <3>2, FewerFit DEF OversoldInv, GivenUpInv
    <2>2. CASE UNCHANGED <<order, held, givenUp>>
      <3>1. Kept' = Kept
        BY <2>2 DEF Kept, Taken, Taking
      <3> QED
        BY <2>2, <3>1, FewerFit DEF OversoldInv, GivenUpInv
    <2> QED
      BY <2>1, <2>2 DEF Console, SwitchSales, Resend, Deliver, World, BuyerEnds, Expire,
         WindowCloses, Crash, vars, sale
  <1> QED
    BY <1>2, <1>3 DEF OversoldInv

\* However many buy at once and however late the gateway answers: the orders
\* whose places never went back on sale fit the event, and its stalls.
THEOREM LastTicketOnce == Spec => []NeverOversold
  <1>1. Init => OversoldInv
    <2> SUFFICES ASSUME Init PROVE OversoldInv
      OBVIOUS
    <2>1. GivenUpInv /\ PlacedInv
      BY DEF Init, GivenUpInv, PlacedInv
    <2>2. Kept = {}
      BY DEF Init, Kept, Taken, Taking
    <2>3. TicketsOf(Kept) = {} /\ Kept \cap Stalls = {}
      BY <2>2 DEF TicketsOf
    <2>4. NeverOversold
      BY <2>3, FS_EmptySet, EventAssumption DEF NeverOversold
    <2> QED
      BY <2>1, <2>4 DEF OversoldInv
  <1>2. TypeInv /\ OversoldInv /\ [Next]_vars => OversoldInv'
    BY CheckoutFits, LaterFits, BeginFits, WorldFits DEF Next, Step
  <1>3. OversoldInv => NeverOversold
    BY DEF OversoldInv
  <1> QED
    BY <1>1, <1>2, <1>3, InitType, NextType, PTL DEF Spec
-----------------------------------------------------------------------------
(* One story.  An attempt's status is what its request and its order will     *)
(* say, unless the invocation that wrote it has yet to write the others.      *)

\* The checkout, which nobody else can be at before the gateway knows of it.
Buying == {"place", "request", "insert", "checkout", "launch", "dropRequest", "dropOrder"}

BuysAlone ==
  \A h \in Handlers : pc[h] \in Buying =>
    ~ref[sub[h]] /\ \A g \in Handlers \ {h} : sub[g] # sub[h]
SetOut == \A h \in Handlers : pc[h] \notin Buying \cup {"idle"} => ref[sub[h]]

\* What the rows say where an invocation is.
Reached(h) ==
  LET o == sub[h] IN
    /\ pc[h] = "place" => order[o] = "none"
    /\ pc[h] = "request" => order[o] # "none"
    /\ pc[h] \in {"place", "request", "insert"} => row[o] = "none"
    /\ pc[h] \in {"place", "request"} => req[o] = "none"
    /\ pc[h] = "insert" => req[o] = "required"
    /\ pc[h] \in {"checkout", "launch"} => row[o] = "pending"
    /\ pc[h] \in {"dropRequest", "dropOrder"} => row[o] \in {"none", "pending", "failed"}
    /\ pc[h] = "dropRequest" => req[o] # "none"
    /\ pc[h] = "dropOrder" => req[o] = "cancelled"
    /\ pc[h] \in {"credit", "readOrder", "settle", "issue", "mail", "tell"} => row[o] = "succeeded"
    /\ pc[h] \in {"issue", "mail", "tell"} => order[o] = "paid"

\* The order comes before its request, and the request before its attempt;
\* neither is paid before the attempt is.
InOrder(o) ==
  /\ order[o] = "none" => req[o] = "none"
  /\ req[o] = "none" => row[o] = "none"
  /\ ref[o] => row[o] \notin {"none", "pending"}
  /\ req[o] = "paid" \/ order[o] = "paid" => row[o] = "succeeded"

Somebody(o, S) == \E h \in Handlers : sub[h] = o /\ pc[h] \in S

\* Money confirmed is followed up, and an order with no attempt in flight is
\* about to have one, or is wound up.
Opening == {"request", "insert", "checkout", "launch"}
FollowedUp(o) ==
  row[o] = "succeeded" =>
    /\ req[o] = "paid" \/ Somebody(o, {"credit"})
    /\ order[o] = "paid" \/ Somebody(o, {"credit", "readOrder", "settle"})
    /\ numbers[o] # {} \/ Somebody(o, {"credit", "readOrder", "settle", "issue"})
    /\ mail[o] # "none" \/ Somebody(o, {"credit", "readOrder", "settle", "issue", "mail"})
WoundUp(o) ==
  order[o] # "none" /\ row[o] \notin {"processing", "succeeded"} =>
    /\ req[o] = "cancelled" \/ Somebody(o, Opening \cup {"dropRequest", "closeRequest"})
    /\ order[o] = "cancelled"
         \/ Somebody(o, Opening \cup {"dropRequest", "dropOrder", "closeRequest", "release"})

StoryInv ==
  /\ TypeInv /\ BuysAlone /\ SetOut
  /\ \A h \in Handlers : Reached(h)
  /\ \A o \in Orders : InOrder(o)
  /\ crashes = 0 => \A o \in Orders : FollowedUp(o) /\ WoundUp(o)

\* A statement of h about o: what it leaves alone, and what it may not undo.
Beside(h, o) ==
  /\ \A g \in Handlers \ {h} : pc'[g] = pc[g] /\ sub'[g] = sub[g] /\ mem'[g] = mem[g]
  /\ \A p \in Orders \ {o} :
       /\ order'[p] = order[p] /\ req'[p] = req[p] /\ row'[p] = row[p] /\ ref'[p] = ref[p]
       /\ numbers'[p] = numbers[p] /\ mail'[p] = mail[p] /\ gateway'[p] = gateway[p]
  /\ crashes' = crashes
Lasting(o) ==
  /\ row[o] = "succeeded" => row'[o] = "succeeded"
  /\ order[o] = "paid" => order'[o] = "paid"
  /\ ref[o] => ref'[o]
Moves(h, o) ==
  /\ sub'[h] = o \/ (pc'[h] = "idle" /\ sub'[h] = NoOrder)
  /\ pc'[h] \in Buying => pc[h] \in Buying /\ ~ref'[o]
  /\ pc'[h] \notin Buying \cup {"idle"} => ref'[o]
  /\ pc[h] \notin Buying => ref'[o] = ref[o]

LEMMA StoryStep ==
  ASSUME StoryInv, TypeInv', NEW h \in Handlers, NEW o \in Orders, sub[h] = o, pc[h] # "idle",
         Beside(h, o), Lasting(o), Moves(h, o), Reached(h)', InOrder(o)',
         crashes = 0 => FollowedUp(o)' /\ WoundUp(o)'
  PROVE  StoryInv'
  <1>0. /\ \A g \in Handlers : pc[g] # "idle" => sub[g] \in Orders
        /\ \A g \in Handlers \ {h} : pc'[g] = pc[g] /\ sub'[g] = sub[g]
        /\ NoOrder \notin Orders /\ "idle" \notin Buying
    BY NoOrderAssumption DEF StoryInv, TypeInv, Known, Beside, NoOrder, Buying
  <1>a. \A g \in Handlers \ {h} : sub[g] = o => pc[h] \notin Buying /\ pc[g] \notin Buying
    BY DEF StoryInv, BuysAlone
  <1>1. BuysAlone'
    <2> SUFFICES ASSUME NEW g \in Handlers, pc'[g] \in Buying
                 PROVE  ~ref'[sub'[g]] /\ \A k \in Handlers \ {g} : sub'[k] # sub'[g]
      BY DEF BuysAlone
    <2>1. CASE g = h
      BY <1>0, <1>a, <2>1 DEF Moves
    <2>2. CASE g # h
      <3>1. sub[g] \in Orders \ {o} /\ ~ref[sub[g]] /\ \A k \in Handlers \ {g} : sub[k] # sub[g]
        BY <1>0, <1>a, <2>2 DEF StoryInv, BuysAlone
      <3> QED
        BY <1>0, <2>2, <3>1 DEF Moves, Beside
    <2> QED
      BY <2>1, <2>2
  <1>2. SetOut'
    BY <1>0 DEF StoryInv, SetOut, Moves, Beside, Lasting
  <1>3. \A g \in Handlers : Reached(g)'
    <2> SUFFICES ASSUME NEW g \in Handlers \ {h} PROVE Reached(g)'
      OBVIOUS
    <2>1. CASE sub[g] = o
      BY <1>0, <1>a, <2>1 DEF StoryInv, Reached, Lasting, Buying
    <2>2. CASE sub[g] # o /\ sub[g] \in Orders
      BY <1>0, <2>2 DEF StoryInv, Reached, Beside
    <2>3. CASE pc[g] = "idle"
      BY <1>0, <2>3 DEF Reached
    <2> QED
      BY <1>0, <2>1, <2>2, <2>3
  <1>4. \A p \in Orders : InOrder(p)'
    BY DEF StoryInv, InOrder, Beside
  <1>5. crashes' = 0 => \A p \in Orders : FollowedUp(p)' /\ WoundUp(p)'
    <2> SUFFICES ASSUME crashes = 0, NEW p \in Orders \ {o} PROVE FollowedUp(p)' /\ WoundUp(p)'
      BY DEF Beside
    <2>1. \A S : Somebody(p, S) => Somebody(p, S)'
      BY <1>0 DEF Somebody
    <2> QED
      BY <2>1 DEF StoryInv, FollowedUp, WoundUp, Beside
  <1> QED
    BY <1>1, <1>2, <1>3, <1>4, <1>5 DEF StoryInv

\* What StoryStep asks of a statement.
Tells(h, o) ==
  /\ Lasting(o) /\ Moves(h, o) /\ Reached(h)' /\ InOrder(o)'
  /\ crashes = 0 => FollowedUp(o)' /\ WoundUp(o)'

\* The others who are at o stay where they are.
LEMMA SomebodyStays ==
  ASSUME NEW h \in Handlers, NEW o \in Orders, Beside(h, o), NEW S, Somebody(o, S)
  PROVE  Somebody(o, S)' \/ (sub[h] = o /\ pc[h] \in S)
  BY DEF Somebody, Beside

LEMMA CheckoutTells ==
  ASSUME StoryInv, NEW h \in Handlers, NEW o \in Orders, sub[h] = o, Checkout(h), Beside(h, o)
  PROVE  Tells(h, o)
  <1> USE DEF At, sale, pay, door
  <1>0. /\ TypeInv /\ Reached(h) /\ InOrder(o) /\ ~ref[o] /\ pc[h] \in Buying
        /\ order[o] \in OrderStatus /\ req[o] \in ReqStatus
    BY DEF StoryInv, BuysAlone, Buying, Checkout, Place, OpenRequest, InsertAttempt,
       CheckoutOpened, CheckoutRefused, CheckoutThrows, Launch, DropRequest, DropOrder, TypeInv,
       SaleOK, PayOK
  <1>1. Lasting(o) /\ Moves(h, o)
    BY <1>0 DEF Lasting, Moves, Reached, InOrder, Checkout, Place, OpenRequest, InsertAttempt,
       CheckoutOpened, CheckoutRefused, CheckoutThrows, Launch, DropRequest, DropOrder, Cancel,
       Goto, Done,
       TypeInv, SaleOK, PayOK, SelfOK, Buying
  <1>2. Reached(h)'
    BY <1>0 DEF Reached, InOrder, Checkout, Place, OpenRequest, InsertAttempt, CheckoutOpened,
       CheckoutRefused, CheckoutThrows, Launch, DropRequest, DropOrder, Goto, Done, TypeInv,
       SaleOK, PayOK, SelfOK
  <1>3. InOrder(o)'
    BY <1>0 DEF Reached, InOrder, Checkout, Place, OpenRequest, InsertAttempt, CheckoutOpened,
       CheckoutRefused, CheckoutThrows, Launch, DropRequest, DropOrder, Cancel, TypeInv, SaleOK,
       PayOK, OrderStatus
  <1>4. crashes = 0 => FollowedUp(o)' /\ WoundUp(o)'
    <2> SUFFICES ASSUME crashes = 0 PROVE FollowedUp(o)' /\ WoundUp(o)'
      OBVIOUS
    <2>1. row'[o] \in {"none", "pending", "processing", "failed"}
      BY <1>0 DEF Reached, Checkout, Place, OpenRequest, InsertAttempt, CheckoutOpened,
         CheckoutRefused, CheckoutThrows, Launch, DropRequest, DropOrder, TypeInv, PayOK
    <2>2. CASE pc'[h] \in Opening \cup {"dropRequest"} /\ sub'[h] = o
      BY <2>1, <2>2 DEF FollowedUp, WoundUp, Somebody
    <2>3. CASE Place(h) /\ Done(h)
      <3>1. order'[o] = "none"
        BY <1>0, <2>3 DEF Place, Done, Goto, Reached, TypeInv, SelfOK
      <3> QED
        BY <2>1, <3>1 DEF FollowedUp, WoundUp
    <2>4. CASE Launch(h)
      <3>1. row'[o] = "processing"
        BY <2>4 DEF Launch, StoryInv, TypeInv, PayOK
      <3> QED
        BY <3>1 DEF FollowedUp, WoundUp
    <2>5. CASE DropRequest(h)
      <3>1. req'[o] = "cancelled" /\ pc'[h] = "dropOrder" /\ sub'[h] = o
        BY <1>0, <2>5 DEF DropRequest, Goto, TypeInv, SelfOK, PayOK
      <3> QED
        BY <2>1, <3>1 DEF FollowedUp, WoundUp, Somebody
    <2>6. CASE DropOrder(h)
      <3>1. order'[o] = "cancelled" /\ req'[o] = "cancelled"
        BY <1>0, <2>6 DEF DropOrder, Cancel, Reached, InOrder, TypeInv, SaleOK, OrderStatus
      <3> QED
        BY <2>1, <3>1 DEF FollowedUp, WoundUp
    <2>7. \/ pc'[h] \in Opening \cup {"dropRequest"} /\ sub'[h] = o
          \/ (Place(h) /\ Done(h)) \/ Launch(h) \/ DropRequest(h) \/ DropOrder(h)
      BY <1>0 DEF Checkout, Place, OpenRequest, InsertAttempt, CheckoutOpened, CheckoutRefused,
         CheckoutThrows, Goto, Opening, TypeInv, SelfOK
    <2> QED
      BY <2>2, <2>3, <2>4, <2>5, <2>6, <2>7
  <1> QED
    BY <1>1, <1>2, <1>3, <1>4 DEF Tells

LEMMA AskingTells ==
  ASSUME StoryInv, NEW h \in Handlers, NEW o \in Orders, sub[h] = o, Asking(h), Beside(h, o)
  PROVE  Tells(h, o)
  <1> USE DEF At, sale, pay, door
  <1>0. /\ TypeInv /\ InOrder(o) /\ ref[o] /\ pc[h] \in {"ask", "branch"}
        /\ UNCHANGED <<order, req, row, ref, numbers, mail>>
    BY DEF StoryInv, SetOut, Buying, Asking, Ask, VerifyThrows, Branch
  <1>1. \/ pc'[h] \in {"branch", "claim", "fail"} /\ sub'[h] = o
        \/ pc'[h] = "idle" /\ sub'[h] = NoOrder
    BY <1>0 DEF Asking, Ask, VerifyThrows, Branch, Goto, Done, TypeInv, SelfOK
  <1>2. \A S : Somebody(o, S) /\ pc[h] \notin S => Somebody(o, S)'
    BY SomebodyStays
  <1>3. crashes = 0 => FollowedUp(o)' /\ WoundUp(o)'
    BY <1>0, <1>2 DEF StoryInv, FollowedUp, WoundUp, Opening
  <1> QED
    BY <1>0, <1>1, <1>3 DEF Tells, Lasting, Moves, Reached, InOrder, Buying

LEMMA SettlingTells ==
  ASSUME StoryInv, NEW h \in Handlers, NEW o \in Orders, sub[h] = o, Settling(h), Beside(h, o)
  PROVE  Tells(h, o)
  <1> USE DEF At, sale, pay, door
  <1> DEFINE After == {"credit", "readOrder", "settle", "issue", "mail", "tell"}
  <1>0. /\ TypeInv /\ Reached(h) /\ InOrder(o) /\ ref[o] /\ ref' = ref
        /\ pc[h] \in After \cup {"claim"}
    BY DEF StoryInv, SetOut, Buying, Settling, Claim, Credit, ReadOrder, Settle, Issue, QueueMail,
       TellLate
  <1>1. \/ pc'[h] \in After /\ sub'[h] = o
        \/ pc'[h] = "idle" /\ sub'[h] = NoOrder
    BY <1>0 DEF Settling, Claim, Credit, ReadOrder, Settle, Issue, QueueMail, TellLate, Goto,
       Done, TypeInv, SelfOK
  <1>2. row'[o] = "succeeded"
    BY <1>0 DEF Reached, Settling, Claim, Credit, ReadOrder, Settle, Issue, QueueMail, TellLate,
       TypeInv, PayOK
  <1>3. /\ order'[o] = order[o] \/ order'[o] = "paid"
        /\ req'[o] = req[o] \/ req'[o] = "paid"
    BY <1>0 DEF Settling, Claim, Credit, ReadOrder, Settle, Issue, QueueMail, TellLate, TypeInv,
       SaleOK, PayOK
  <1>4. Reached(h)'
    <2>1. pc'[h] \in {"issue", "mail", "tell"} => order'[o] = "paid"
      BY <1>0 DEF Reached, Settling, Claim, Credit, ReadOrder, Settle, Issue, QueueMail, TellLate,
         Goto, Done, TypeInv, SaleOK, SelfOK
    <2> QED
      BY <1>1, <1>2, <2>1 DEF Reached
  <1>5. InOrder(o)'
    BY <1>0, <1>2, <1>3 DEF InOrder
  <1>6. crashes = 0 => FollowedUp(o)' /\ WoundUp(o)'
    <2> SUFFICES ASSUME crashes = 0 PROVE FollowedUp(o)' /\ WoundUp(o)'
      OBVIOUS
    <2>1. \A S : Somebody(o, S) /\ pc[h] \notin S => Somebody(o, S)'
      BY SomebodyStays
    <2>2. \A S : sub'[h] = o /\ pc'[h] \in S => Somebody(o, S)'
      BY DEF Somebody
    <2>3. WoundUp(o)'
      BY <1>2 DEF WoundUp, Revivable
    <2>4. CASE Claim(h) /\ row[o] # "succeeded"
      <3>1. pc'[h] = "credit" /\ sub'[h] = o
        BY <1>0, <2>4 DEF Claim, Goto, TypeInv, SelfOK
      <3> QED
        BY <2>2, <2>3, <3>1 DEF FollowedUp
    <2>5. CASE row[o] = "succeeded"
      <3>0. FollowedUp(o)
        BY DEF StoryInv
      <3>1. CASE Claim(h) \/ TellLate(h)
        BY <1>0, <2>1, <2>3, <2>5, <3>0, <3>1 DEF FollowedUp, Claim, TellLate
      <3>2. CASE Credit(h)
        <4>1. req'[o] = "paid" /\ pc'[h] = "readOrder" /\ sub'[h] = o
          BY <1>0, <3>2 DEF Credit, Goto, TypeInv, SelfOK, PayOK
        <4> QED
          BY <2>2, <2>3, <4>1 DEF FollowedUp
      <3>3. CASE ReadOrder(h)
        <4>1. req'[o] = req[o] /\ pc[h] = "readOrder" /\ pc'[h] = "settle" /\ sub'[h] = o
          BY <1>0, <3>3 DEF ReadOrder, Goto, TypeInv, SelfOK
        <4> QED
          BY <2>1, <2>2, <2>3, <2>5, <3>0, <4>1 DEF FollowedUp
      <3>4. CASE Settle(h)
        <4>1. /\ req'[o] = req[o] /\ order'[o] = "paid"
              /\ pc[h] = "settle" /\ pc'[h] = "issue" /\ sub'[h] = o
          BY <1>0, <3>4 DEF Settle, Goto, TypeInv, SelfOK, SaleOK
        <4> QED
          BY <2>1, <2>2, <2>3, <2>5, <3>0, <4>1 DEF FollowedUp
      <3>5. CASE Issue(h)
        <4>1. /\ UNCHANGED <<req, order>> /\ order[o] = "paid" /\ numbers'[o] # {}
              /\ pc[h] = "issue" /\ pc'[h] = "mail" /\ sub'[h] = o
          BY <1>0, <3>5, FreshNumbers DEF Issue, Goto, Reached, TypeInv, SelfOK, NumbersOK
        <4> QED
          BY <2>1, <2>2, <2>3, <2>5, <3>0, <4>1 DEF FollowedUp
      <3>6. CASE QueueMail(h)
        <4>1. /\ UNCHANGED <<req, order, numbers>> /\ mail'[o] # "none" /\ pc[h] = "mail"
          BY <1>0, <3>6 DEF QueueMail, TypeInv, DeskOK
        <4> QED
          BY <2>1, <2>3, <2>5, <3>0, <4>1 DEF FollowedUp
      <3> QED
        BY <3>1, <3>2, <3>3, <3>4, <3>5, <3>6 DEF Settling
    <2> QED
      BY <1>0, <2>4, <2>5 DEF Settling, Claim, Credit, ReadOrder, Settle, Issue, QueueMail,
         TellLate, Reached
  <1> QED
    BY <1>0, <1>1, <1>2, <1>3, <1>4, <1>5, <1>6 DEF Tells, Lasting, Moves, Buying

LEMMA FailingTells ==
  ASSUME StoryInv, NEW h \in Handlers, NEW o \in Orders, sub[h] = o, Failing(h), Beside(h, o)
  PROVE  Tells(h, o)
  <1> USE DEF At, sale, pay, door
  <1>0. /\ TypeInv /\ InOrder(o) /\ ref[o] /\ UNCHANGED <<ref, numbers, mail>>
        /\ pc[h] \in {"fail", "closeRequest", "release", "review"}
        /\ order[o] \in OrderStatus /\ req[o] \in ReqStatus /\ row[o] \in RowStatus
    BY DEF StoryInv, SetOut, Buying, Failing, Fail, CloseRequest, Release, FileReview, TypeInv,
       SaleOK, PayOK
  <1>1. \/ pc'[h] \in {"closeRequest", "release", "review"} /\ sub'[h] = o
        \/ pc'[h] = "idle" /\ sub'[h] = NoOrder
    BY <1>0 DEF Failing, Fail, CloseRequest, Release, FileReview, Goto, Done, TypeInv, SelfOK
  <1>2. /\ row'[o] # row[o] => row[o] = "processing" /\ row'[o] \in Revivable
        /\ req'[o] # req[o] => req[o] = "required" /\ req'[o] = "cancelled"
        /\ order'[o] # order[o] => order[o] = "pending" /\ order'[o] = "cancelled"
    BY <1>0 DEF Failing, Fail, CloseRequest, Release, FileReview, Cancel, Given, InOrder, Revivable,
       TypeInv, SaleOK, PayOK
  <1>3. InOrder(o)' /\ Reached(h)' /\ Lasting(o)
    BY <1>0, <1>1, <1>2 DEF InOrder, Reached, Lasting, Revivable
  <1>4. crashes = 0 => FollowedUp(o)' /\ WoundUp(o)'
    <2> SUFFICES ASSUME crashes = 0 PROVE FollowedUp(o)' /\ WoundUp(o)'
      OBVIOUS
    <2>0. FollowedUp(o) /\ WoundUp(o)
      BY DEF StoryInv
    <2>1. \A S : Somebody(o, S) /\ pc[h] \notin S => Somebody(o, S)'
      BY SomebodyStays
    <2>2. \A S : sub'[h] = o /\ pc'[h] \in S => Somebody(o, S)'
      BY DEF Somebody
    <2>3. FollowedUp(o)'
      BY <1>0, <1>2, <2>0, <2>1 DEF FollowedUp, Revivable
    <2>4. CASE Fail(h) /\ row'[o] # row[o]
      <3>1. pc'[h] = "closeRequest" /\ sub'[h] = o
        BY <1>0, <2>4 DEF Fail, Goto, TypeInv, SelfOK
      <3> QED
        BY <2>2, <2>3, <3>1 DEF WoundUp
    <2>5. CASE (Fail(h) /\ row'[o] = row[o]) \/ FileReview(h)
      <3>1. UNCHANGED <<req, order>> /\ row'[o] = row[o] /\ pc[h] \in {"fail", "review"}
        BY <2>5 DEF Fail, FileReview
      <3> QED
        BY <2>0, <2>1, <2>3, <3>1 DEF WoundUp, Opening
    <2>6. CASE CloseRequest(h)
      <3>1. /\ row[o] # "succeeded" => req'[o] = "cancelled"
            /\ row' = row /\ order' = order /\ pc'[h] = "release" /\ sub'[h] = o
        BY <1>0, <2>6 DEF CloseRequest, Goto, TypeInv, SelfOK, PayOK, InOrder, ReqStatus, Revivable
      <3> QED
        BY <2>2, <2>3, <3>1 DEF WoundUp
    <2>7. CASE Release(h)
      <3>1. /\ row[o] # "succeeded" => order'[o] = "cancelled"
            /\ row' = row /\ req' = req /\ pc[h] = "release" /\ order[o] # "none"
        BY <1>0, <2>7 DEF Release, Cancel, TypeInv, SaleOK, InOrder, OrderStatus, Revivable
      <3> QED
        BY <2>0, <2>1, <2>3, <3>1 DEF WoundUp, Opening
    <2> QED
      BY <2>4, <2>5, <2>6, <2>7 DEF Failing
  <1> QED
    BY <1>0, <1>1, <1>3, <1>4 DEF Tells, Moves, Buying

\* A statement is about its own order.
LEMMA StepBeside ==
  ASSUME TypeInv, NEW h \in Handlers, NEW o \in Orders, sub[h] = o, Step(h)
  PROVE  Beside(h, o) /\ pc[h] # "idle"
  <1> USE DEF TypeInv, SaleOK, PayOK, NumbersOK, DeskOK, SelfOK, At, sale, pay, door
  <1>1. ASSUME Checkout(h) PROVE Beside(h, o)
    BY <1>1 DEF Beside, Checkout, Place, OpenRequest, InsertAttempt, CheckoutOpened,
       CheckoutRefused, CheckoutThrows, Launch, DropRequest, DropOrder, Cancel, Goto, Keep, Done
  <1>2. ASSUME Asking(h) PROVE Beside(h, o)
    BY <1>2 DEF Beside, Asking, Ask, VerifyThrows, Branch, Goto, Keep, Hold, Done
  <1>3. ASSUME Settling(h) PROVE Beside(h, o)
    BY <1>3 DEF Beside, Settling, Claim, Credit, ReadOrder, Settle, Issue, QueueMail, TellLate,
       Goto, Keep, Hold, Done
  <1>4. ASSUME Failing(h) PROVE Beside(h, o)
    BY <1>4 DEF Beside, Failing, Fail, CloseRequest, Release, FileReview, Cancel, Goto, Keep, Done
  <1>5. pc[h] # "idle"
    BY DEF Step, Checkout, Place, OpenRequest, InsertAttempt, CheckoutOpened, CheckoutRefused,
       CheckoutThrows,
       Launch, DropRequest, DropOrder, Asking, Ask, VerifyThrows, Branch, Settling, Claim, Credit,
       ReadOrder, Settle, Issue, QueueMail, TellLate, Failing, Fail, CloseRequest, Release,
       FileReview
  <1> QED
    BY <1>1, <1>2, <1>3, <1>4, <1>5 DEF Step

\* Buyers and the sweep set out.
LEMMA BeginStory ==
  ASSUME StoryInv, TypeInv', NEW h \in Handlers, NEW o \in Orders,
         Buy(h, o) \/ Sweep(h, o) \/ \E revive \in BOOLEAN : Reconcile(h, o, revive)
  PROVE  StoryInv'
  <1>0. /\ UNCHANGED <<order, req, row, ref, numbers, mail, crashes>> /\ pc[h] = "idle"
        /\ TypeInv /\ NoOrder \notin Orders
    BY NoOrderAssumption DEF Buy, Sweep, Reconcile, Begin, At, sale, pay, door, StoryInv, NoOrder
  <1>1. /\ pc'[h] \in {"place", "ask"} /\ sub'[h] = o
        /\ \A g \in Handlers \ {h} : pc'[g] = pc[g] /\ sub'[g] = sub[g]
        /\ pc'[h] = "ask" => ref[o]
        /\ pc'[h] = "place" => order[o] = "none" /\ \A g \in Handlers : sub[g] # o
    BY <1>0 DEF Buy, Sweep, Reconcile, Begin, TypeInv, SelfOK
  <1>2. InOrder(o) /\ (ref[o] => \A g \in Handlers : pc[g] \in Buying => sub[g] # o)
    BY DEF StoryInv, BuysAlone
  <1>3. BuysAlone' /\ SetOut'
    BY <1>0, <1>1, <1>2 DEF StoryInv, BuysAlone, SetOut, Buying, InOrder
  <1>4. \A g \in Handlers : Reached(g)'
    BY <1>0, <1>1, <1>2 DEF StoryInv, Reached, InOrder
  <1>5. \A p \in Orders : InOrder(p)'
    BY <1>0 DEF StoryInv, InOrder
  <1>6. crashes' = 0 => \A p \in Orders : FollowedUp(p)' /\ WoundUp(p)'
    <2>1. \A p, S : "idle" \notin S /\ Somebody(p, S) => Somebody(p, S)'
      BY <1>0, <1>1 DEF Somebody
    <2> QED
      BY <1>0, <2>1 DEF StoryInv, FollowedUp, WoundUp, Opening
  <1> QED
    BY <1>3, <1>4, <1>5, <1>6 DEF StoryInv

\* A killed invocation takes nothing back, and leaves its order to nobody.
LEMMA CrashStory ==
  ASSUME StoryInv, TypeInv', NEW h \in Handlers, Crash(h)
  PROVE  StoryInv'
  <1>0. /\ UNCHANGED <<order, req, row, ref, numbers, mail>> /\ crashes' # 0
        /\ TypeInv /\ NoOrder \notin Orders
    BY NoOrderAssumption DEF Crash, sale, pay, door, StoryInv, NoOrder, TypeInv, DeskOK
  <1>1. /\ pc'[h] = "idle" /\ sub'[h] = NoOrder
        /\ \A g \in Handlers \ {h} : pc'[g] = pc[g] /\ sub'[g] = sub[g]
    BY <1>0 DEF Crash, Done, TypeInv, SelfOK
  <1>2. BuysAlone' /\ SetOut'
    <2>1. \A g \in Handlers : pc[g] \in Buying => sub[g] \in Orders
      BY <1>0 DEF TypeInv, Known, Buying
    <2> QED
      BY <1>0, <1>1, <2>1 DEF StoryInv, BuysAlone, SetOut, Buying
  <1>3. \A g \in Handlers : Reached(g)'
    BY <1>0, <1>1 DEF StoryInv, Reached
  <1>4. \A p \in Orders : InOrder(p)'
    BY <1>0 DEF StoryInv, InOrder
  <1> QED
    BY <1>0, <1>2, <1>3, <1>4 DEF StoryInv

\* Staff, the drain, the buyer at the gateway and the clock write elsewhere.
LEMMA WorldStory ==
  ASSUME StoryInv, TypeInv', Console \/ World \/ UNCHANGED vars
  PROVE  StoryInv'
  <1>1. UNCHANGED <<order, req, row, ref, numbers, pc, sub, crashes>>
    BY DEF Console, SwitchSales, Resend, Deliver, World, BuyerEnds, Expire, Lapse, WindowCloses,
       vars, sale, pay, door, self
  <1>2. \A o \in Orders : mail[o] # "none" => mail'[o] # "none"
    BY DEF Console, SwitchSales, Resend, Deliver, World, BuyerEnds, Expire, Lapse, WindowCloses,
       vars, sale, pay, door, self, StoryInv, TypeInv, DeskOK
  <1>3. \A o, S : Somebody(o, S) <=> Somebody(o, S)'
    BY <1>1 DEF Somebody
  <1> QED
    BY <1>1, <1>2, <1>3
    DEF StoryInv, BuysAlone, SetOut, Reached, InOrder, FollowedUp, WoundUp

LEMMA NextStory == StoryInv /\ TypeInv' /\ [Next]_vars => StoryInv'
  <1> SUFFICES ASSUME StoryInv, TypeInv', [Next]_vars PROVE StoryInv'
    OBVIOUS
  <1>1. ASSUME NEW h \in Handlers, Step(h) PROVE StoryInv'
    <2>1. TypeInv /\ pc[h] # "idle"
      BY <1>1 DEF StoryInv, Step, Checkout, Place, OpenRequest, InsertAttempt, CheckoutOpened,
         CheckoutRefused, CheckoutThrows, Launch, DropRequest, DropOrder, Asking, Ask,
         VerifyThrows, Branch,
         Settling, Claim, Credit, ReadOrder, Settle, Issue, QueueMail, TellLate, Failing, Fail,
         CloseRequest, Release, FileReview, At
    <2>2. PICK o \in Orders : sub[h] = o
      BY <2>1 DEF TypeInv, Known
    <2>3. Beside(h, o)
      BY <1>1, <2>1, <2>2, StepBeside
    <2>4. Tells(h, o)
      BY <1>1, <2>2, <2>3, CheckoutTells, AskingTells, SettlingTells, FailingTells DEF Step
    <2> QED
      BY <2>1, <2>2, <2>3, <2>4, StoryStep DEF Tells
  <1> QED
    BY <1>1, BeginStory, CrashStory, WorldStory DEF Next

LEMMA AlwaysStory == Spec => []StoryInv
  <1>1. Init /\ TypeInv => StoryInv
    BY DEF Init, StoryInv, BuysAlone, SetOut, Reached, InOrder, FollowedUp, WoundUp, Buying,
       Revivable
  <1> QED
    BY <1>1, InitType, NextType, NextStory, PTL DEF Spec

\* For any orders, people and invocations: whoever raced whom, money confirmed is
\* a paid order with its tickets and their email, and an order whose attempt was
\* never opened or was given up on is off, with its request (settle.ts, orders.ts).
THEOREM OneStory == Spec => []RowsAgree
  <1>1. StoryInv => RowsAgree
    <2> SUFFICES ASSUME StoryInv, Quiet PROVE RowsAgree
      BY DEF RowsAgree
    <2>1. \A o, S : "idle" \notin S => ~Somebody(o, S)
      BY DEF Quiet, At, Somebody
    <2> QED
      BY <2>1 DEF StoryInv, FollowedUp, WoundUp, Opening, Quiet, RowsAgree
  <1> QED
    BY <1>1, AlwaysStory, PTL
-----------------------------------------------------------------------------
(* What the gateway took is asked about.                                     *)

\* The gateway is heard of with the attempt's reference, and an attempt is given
\* up on for good only where the gateway said it took nothing.
HeardInv ==
  /\ \A o \in Orders :
       /\ gateway[o] \in {"visited", "paid", "wrong", "declined", "expired"} => ref[o]
       /\ ref[o] /\ row[o] = "failed" => gateway[o] \in {"wrong", "declined"}
  /\ \A h \in Handlers :
       /\ pc[h] \in {"branch", "fail"} /\ mem[h].ans \in {"wrong", "declined"} =>
            gateway[sub[h]] = mem[h].ans
       /\ pc[h] = "fail" => mem[h].ans \in {"wrong", "declined", "expired"}

LEMMA StepHeard ==
  ASSUME StoryInv, HeardInv, NEW h \in Handlers, Step(h)
  PROVE  HeardInv'
  <1> USE DEF At, sale, pay, door
  <1>1. TypeInv /\ pc[h] # "idle"
    BY DEF StoryInv, Step, Checkout, Place, OpenRequest, InsertAttempt, CheckoutOpened,
       CheckoutRefused, CheckoutThrows, Launch, DropRequest, DropOrder, Asking, Ask, VerifyThrows,
       Branch,
       Settling, Claim, Credit, ReadOrder, Settle, Issue, QueueMail, TellLate, Failing, Fail,
       CloseRequest, Release, FileReview
  <1>2. PICK o \in Orders : sub[h] = o
    BY <1>1 DEF TypeInv, Known
  <1>3. Beside(h, o)
    BY <1>1, <1>2, StepBeside
  <1>4. gateway'[o] # gateway[o] => ~ref[o] /\ \A g \in Handlers \ {h} : sub[g] # o
    BY <1>2 DEF StoryInv, BuysAlone, Buying, Step, Checkout, Place, OpenRequest, InsertAttempt,
       CheckoutOpened, CheckoutRefused, CheckoutThrows, Launch, DropRequest, DropOrder, Asking,
       Ask, VerifyThrows,
       Branch, Settling, Claim, Credit, ReadOrder, Settle, Issue, QueueMail, TellLate, Failing,
       Fail, CloseRequest, Release, FileReview
  <1>5. /\ gateway'[o] \in {"visited", "paid", "wrong", "declined", "expired"} => ref'[o]
        /\ ref'[o] /\ row'[o] = "failed" => gateway'[o] \in {"wrong", "declined"}
    <2>1. CASE Checkout(h)
      BY <1>1, <1>2, <2>1 DEF HeardInv, StoryInv, BuysAlone, Buying, Checkout, Place, OpenRequest,
         InsertAttempt, CheckoutOpened, CheckoutRefused, CheckoutThrows, Launch, DropRequest,
         DropOrder, TypeInv,
         PayOK
    <2>2. CASE Asking(h) \/ Settling(h)
      BY <1>1, <1>2, <2>2 DEF HeardInv, Asking, Ask, VerifyThrows, Branch, Settling, Claim, Credit,
         ReadOrder, Settle, Issue, QueueMail, TellLate, TypeInv, PayOK
    <2>3. CASE Failing(h)
      BY <1>1, <1>2, <2>3 DEF HeardInv, Failing, Fail, CloseRequest, Release, FileReview, Given,
         TypeInv, PayOK
    <2> QED
      BY <2>1, <2>2, <2>3 DEF Step
  <1>6. /\ pc'[h] \in {"branch", "fail"} /\ mem'[h].ans \in {"wrong", "declined"} =>
             gateway'[sub'[h]] = mem'[h].ans
        /\ pc'[h] = "fail" => mem'[h].ans \in {"wrong", "declined", "expired"}
    <2>1. CASE Ask(h)
      <3> DEFINE v == VerifyAnswer(sub[h])
                 a == IF v = "pending" /\ ~mem[h].revive /\ late[sub[h]] THEN "expired" ELSE v
      <3>1. mem'[h].ans = a /\ pc'[h] = "branch" /\ sub' = sub /\ gateway' = gateway
        BY <1>1, <2>1 DEF Ask, Hold, Goto, TypeInv, SelfOK, Memory
      <3>2. a \in {"wrong", "declined"} => gateway[sub[h]] = a
        BY DEF VerifyAnswer
      <3> QED
        BY <3>1, <3>2
    <2>2. CASE Branch(h)
      BY <1>1, <2>2 DEF HeardInv, Branch, Goto, Keep, Done, TypeInv, SelfOK
    <2>3. CASE ~Ask(h) /\ ~Branch(h)
      <3>1. pc'[h] \notin {"branch", "fail"}
        BY <1>1, <2>3 DEF Step, Checkout, Place, OpenRequest, InsertAttempt, CheckoutOpened,
           CheckoutRefused, CheckoutThrows, Launch, DropRequest, DropOrder, Asking, VerifyThrows,
           Settling, Claim,
           Credit, ReadOrder, Settle, Issue, QueueMail, TellLate, Failing, Fail, CloseRequest,
           Release, FileReview, Goto, Done, TypeInv, SelfOK
      <3> QED
        BY <3>1
    <2> QED
      BY <2>1, <2>2, <2>3
  <1>7. \A g \in Handlers \ {h} : pc[g] # "idle" => sub[g] \in Orders
    BY <1>1 DEF TypeInv, Known
  <1> QED
    BY <1>2, <1>3, <1>4, <1>5, <1>6, <1>7 DEF HeardInv, Beside

LEMMA OtherHeard ==
  ASSUME StoryInv, HeardInv, [Next]_vars, ~ \E h \in Handlers : Step(h)
  PROVE  HeardInv'
  <1>0. TypeInv
    BY DEF StoryInv
  <1>1. UNCHANGED <<row, ref>>
    BY DEF Next, Buy, Sweep, Reconcile, Crash, Console, SwitchSales, Resend, Deliver, World,
       BuyerEnds, Expire, Lapse, WindowCloses, vars, sale, pay, door, self
  <1>2. \A o \in Orders : gateway'[o] # gateway[o] =>
          gateway[o] = "visited" /\ gateway'[o] \in {"paid", "wrong", "declined", "expired"}
    BY <1>0 DEF Next, Buy, Sweep, Reconcile, Crash, Console, SwitchSales, Resend, Deliver, World,
       BuyerEnds, Expire, Lapse, WindowCloses, vars, sale, pay, door, self, TypeInv, PayOK
  <1>3. \A g \in Handlers : \/ pc'[g] \in {"idle", "place", "ask"}
                            \/ pc'[g] = pc[g] /\ sub'[g] = sub[g] /\ mem'[g] = mem[g]
    BY <1>0 DEF Next, Buy, Sweep, Reconcile, Begin, Crash, Done, Console, SwitchSales, Resend,
       Deliver, World, BuyerEnds, Expire, Lapse, WindowCloses, vars, self, TypeInv, SelfOK
  <1>4. \A g \in Handlers : pc[g] # "idle" => sub[g] \in Orders
    BY <1>0 DEF TypeInv, Known
  <1> QED
    BY <1>1, <1>2, <1>3, <1>4 DEF HeardInv

\* For any orders and invocations: money the gateway took became tickets, or the
\* sweep still asks about its attempt, for as long as it asks about any.
THEOREM TakenSought == Spec => []TakenIsSought
  <1>1. Init => HeardInv
    BY DEF Init, HeardInv
  <1>2. StoryInv /\ HeardInv /\ [Next]_vars => HeardInv'
    BY StepHeard, OtherHeard
  <1>3. StoryInv /\ HeardInv => TakenIsSought
    <2> SUFFICES ASSUME StoryInv, HeardInv, Quiet, NEW o \in Orders,
                        gateway[o] = "paid", recent[o]
                 PROVE  (order[o] = "paid" /\ numbers[o] # {}) \/ (ref[o] /\ Sought(o))
      BY DEF TakenIsSought
    <2>1. \A S : "idle" \notin S => ~Somebody(o, S)
      BY DEF Quiet, At, Somebody
    <2>2. /\ ref[o] /\ row[o] \notin {"none", "pending", "failed"} /\ row[o] \in RowStatus
          /\ row[o] = "succeeded" => order[o] = "paid" /\ numbers[o] # {}
      BY <2>1 DEF StoryInv, InOrder, FollowedUp, Quiet, HeardInv, TypeInv, PayOK
    <2> QED
      BY <2>2 DEF Sought, RowStatus
  <1> QED
    BY <1>1, <1>2, <1>3, AlwaysStory, PTL DEF Spec
===============================================================================
