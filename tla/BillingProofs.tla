----------------------------- MODULE BillingProofs -----------------------------
(***************************************************************************)
(* Proofs that the paid-order system keeps its inductive invariant for     *)
(* every set of orders, customers, payments and workers, that it           *)
(* implements the customer's view of it (OrderLifecycle), and what the     *)
(* gateway's money does while an order moves here.                         *)
(*                                                                         *)
(* The invariant's proof has three parts.  First, every step keeps the     *)
(* types (TypeStep).  Then a lemma per part of the state says what a step  *)
(* may do to it: to a status (StatusStep), to a transaction record         *)
(* (TxStep), to the gateway's trade (TradeStep), to the effect row, grant  *)
(* and server (EffectStep) and to a task (TaskChange).  From these five    *)
(* alone each conjunct of IInv follows, without looking at actions again.  *)
(*                                                                         *)
(* The refinement: most steps of the code move one order, and only in one  *)
(* of the ways LocalMoves lists; each way is a step of the abstract        *)
(* specification or invisible to it.                                       *)
(*                                                                         *)
(* Money: no reported payment is lost, and an order that was cancelled, or *)
(* ended with a void invoice at Alipay, was never charged and cannot be.   *)
(*                                                                         *)
(* Refunds pay back and book a payment once, and what is proved of the     *)
(* orders holds with refunds running beside them.  Two invariants carry    *)
(* it: RecordsAgree relates the five records of one refund, and            *)
(* DesksInOrder says that whoever works on a refund is alone with it and   *)
(* finds it open.                                                          *)
(***************************************************************************)
EXTENDS BillingProperties, Refunds, TLAPS

-------------------------------------------------------------------------------
(* Types *)

\* The names of the steps are steps.
LEMMA StepNames ==
    /\ {"idle", "create", "persist", "uncertain", "rollback", "delete"} \subseteq Steps
    /\ {"query", "trade", "requery", "pay", "local", "cleanup", "release"} \subseteq Steps
    /\ {"stage1", "claim", "effect", "commit", "post", "finish"} \subseteq Steps
    /\ {"fail", "stray", "orphan", "drop"} \subseteq Steps
  BY DEF Steps

\* The names of the statuses are statuses.
LEMMA StatusNames ==
    /\ {"pending", "processing", "manual_review"} \subseteq Statuses
    /\ {"applied", "apply_failed", "closed", "cancelled", "deleted", "absent"} \subseteq Statuses
  BY DEF Statuses

\* An idle task is a task.
LEMMA IdleType == Idle \in Task
  BY StepNames DEF Idle, Task, InvoiceStatuses

\* A task stays a task when it moves, starts or stops.
LEMMA TaskMoves ==
  ASSUME TypeOK, NEW w \in Workers
  PROVE  /\ Stop(w) => task' \in [Workers -> Task]
         /\ \A step \in Steps : GoTo(w, step) => task' \in [Workers -> Task]
         /\ \A step \in Steps, o \in Orders, mode \in {"none", "close", "cancel"} :
               StartTask(w, step, o, mode) => task' \in [Workers -> Task]
  <1>0. task \in [Workers -> Task] BY DEF TypeOK
  <1>1. Stop(w) => task' \in [Workers -> Task] BY <1>0, IdleType DEF Stop
  <1>2. ASSUME NEW step \in Steps, GoTo(w, step) PROVE task' \in [Workers -> Task]
    BY <1>0, <1>2, Zenon DEF GoTo, Task
  <1>3. ASSUME NEW step \in Steps, NEW o \in Orders, NEW mode \in {"none", "close", "cancel"},
               StartTask(w, step, o, mode) PROVE task' \in [Workers -> Task]
    BY <1>0, <1>3, Zenon DEF StartTask, Task, InvoiceStatuses
  <1> QED BY <1>1, <1>2, <1>3

\* Claiming, releasing, restating and settling an order row leave an order row.
LEMMA RowTypes ==
  ASSUME NEW row \in OrderRow
  PROVE  /\ \A w \in Workers : Leased(row, w) \in OrderRow
         /\ Unlocked(row) \in OrderRow
         /\ \A status \in Statuses : [row EXCEPT !.status = status] \in OrderRow
         /\ AppliedRow(row) \in OrderRow
         /\ FailedRow(row) \in OrderRow
         /\ RetriedRow(row) \in OrderRow
  <1>1. \A w \in Workers : Leased(row, w) \in OrderRow
    BY Zenon DEF OrderRow, Leased
  <1>2. \A r \in OrderRow : Unlocked(r) \in OrderRow
    BY Zenon DEF Unlocked, OrderRow
  <1>3. \A r \in OrderRow, status \in Statuses : [r EXCEPT !.status = status] \in OrderRow
    BY Zenon DEF OrderRow
  <1>4. AppliedRow(row) \in OrderRow
    BY <1>2, StatusNames, Zenon DEF AppliedRow, OrderRow
  <1>5. \A r \in OrderRow : FailedRow(r) \in OrderRow
    BY <1>2, StatusNames, Zenon DEF FailedRow, OrderRow
  <1>6. RetriedRow(row) \in OrderRow
    <2> DEFINE counted == [row EXCEPT !.retries = @ + 1]
    <2>1. counted \in OrderRow BY SMT DEF OrderRow
    <2>2. Unlocked(counted) \in OrderRow BY <1>2, <2>1
    <2>3. \A r \in OrderRow : [r EXCEPT !.backoff = TRUE] \in OrderRow BY Zenon DEF OrderRow
    <2> QED BY <1>5, <2>1, <2>2, <2>3 DEF RetriedRow
  <1> QED BY <1>1, <1>2, <1>3, <1>4, <1>5, <1>6

\* What the code writes over an invoice, or a trade, leaves an invoice, or a trade.
LEMMA OtherRows ==
  /\ \A row \in InvoiceRow :
        /\ \A status \in InvoiceStatuses : [row EXCEPT !.status = status] \in InvoiceRow
        /\ [row EXCEPT !.due = TRUE] \in InvoiceRow
        /\ \A how \in {"null", "uncertain", "recorded"} :
              [row EXCEPT !.gateway = how] \in InvoiceRow
  /\ \A row \in Trade, state \in {"issued", "open", "paid", "closed"} :
        [row EXCEPT !.state = state] \in Trade
  <1>1. ASSUME NEW row \in InvoiceRow, NEW status \in InvoiceStatuses
        PROVE  [row EXCEPT !.status = status] \in InvoiceRow
    BY Zenon DEF InvoiceRow
  <1>2. ASSUME NEW row \in InvoiceRow PROVE [row EXCEPT !.due = TRUE] \in InvoiceRow
    BY Zenon DEF InvoiceRow
  <1>3. ASSUME NEW row \in InvoiceRow, NEW how \in {"null", "uncertain", "recorded"}
        PROVE  [row EXCEPT !.gateway = how] \in InvoiceRow
    BY Zenon DEF InvoiceRow
  <1>4. ASSUME NEW row \in Trade, NEW state \in {"issued", "open", "paid", "closed"}
        PROVE  [row EXCEPT !.state = state] \in Trade
    BY Zenon DEF Trade
  <1> QED BY <1>1, <1>2, <1>3, <1>4, Zenon

\* The invoice statuses the code writes by name.
LEMMA InvoiceNames == "pending" \in InvoiceStatuses /\ "paid" \in InvoiceStatuses
                      /\ "void" \in InvoiceStatuses
  BY DEF InvoiceStatuses

\* Replacing one row of the order table by a row keeps the table.
LEMMA OrderUpdates ==
  ASSUME TypeOK, NEW o \in Orders, NEW row \in OrderRow, order' = [order EXCEPT ![o] = row]
  PROVE  order' \in [Orders -> OrderRow]
  BY DEF TypeOK

\* Restating one row of the order table keeps the table.
LEMMA StatusUpdates ==
  ASSUME TypeOK, NEW o \in Orders, NEW status \in Statuses,
         order' = [order EXCEPT ![o].status = status]
  PROVE  order' \in [Orders -> OrderRow]
  <1>1. order[o] \in OrderRow BY DEF TypeOK
  <1>2. order' = [order EXCEPT ![o] = [order[o] EXCEPT !.status = status]] OBVIOUS
  <1> QED BY <1>1, <1>2, RowTypes, OrderUpdates

\* A busy task works on an order that was placed.
LEMMA Busy ==
  ASSUME TasksHaveOrders, NEW w \in Workers, ~At(w, "idle")
  PROVE  OrderOf(w) \in Orders /\ order[OrderOf(w)].status # "absent"
  BY DEF TasksHaveOrders

\* add_payment keeps the types, whichever branch it takes.
LEMMA AddPaymentType ==
  ASSUME TypeOK, NEW w \in Workers, NEW o \in Orders, NEW t \in Txs,
         NEW seen \in InvoiceStatuses, AddPayment(w, o, t, seen)
  PROVE  TypeOK'
  <1>1. task' \in [Workers -> Task]
    BY StepNames, TaskMoves DEF AddPayment
  <1>2. CASE KnownTx(o, t) \/ ~IndexAccepts(o, StatusAfterPayment(o, t, seen))
    <2>1. answered' \in [Orders -> SUBSET Txs] BY Zenon DEF AddPayment, TypeOK
    <2> QED BY <1>1, <1>2, <2>1 DEF AddPayment, TypeOK
  <1>3. CASE ~(KnownTx(o, t) \/ ~IndexAccepts(o, StatusAfterPayment(o, t, seen)))
    <2>1. RecordFact(o, t, seen) BY <1>3 DEF AddPayment
    <2>2. StatusAfterPayment(o, t, seen) \in Statuses
      BY StatusNames, Zenon DEF StatusAfterPayment, TypeOK, OrderRow
    <2>3. order' \in [Orders -> OrderRow] BY <2>1, <2>2, StatusUpdates DEF RecordFact
    <2>4. invoice' \in [Orders -> InvoiceRow]
      <3>0. invoice[o] \in InvoiceRow BY DEF TypeOK
      <3>1. [invoice[o] EXCEPT !.status = "paid"] \in InvoiceRow
        BY <3>0, OtherRows, InvoiceNames, Zenon
      <3> QED BY <2>1, <3>1, Zenon DEF RecordFact, TypeOK
    <2>5. tx' \in [Orders -> [Txs -> {"none", "succeeded", "failed", "refunded"}]]
      BY <2>1, Zenon DEF RecordFact, TypeOK
    <2>6. credits' \in [Orders -> [Txs -> Nat]]
      <3>1. credits[o][t] + 1 \in Nat BY DEF TypeOK
      <3> QED BY <2>1, <3>1, Zenon DEF RecordFact, TypeOK
    <2>7. answered' \in [Orders -> SUBSET Txs] BY Zenon DEF AddPayment, TypeOK
    <2> QED BY <1>1, <2>3, <2>4, <2>5, <2>6, <2>7 DEF AddPayment, TypeOK
  <1> QED BY <1>2, <1>3

\* What a task does to the lease or the fate of the row it holds keeps the row a row.
LEMMA RowChanges ==
  ASSUME TypeOK, NEW o \in Orders, NEW w \in Workers
  PROVE  /\ order' = [order EXCEPT ![o] = Leased(@, w)] => order' \in [Orders -> OrderRow]
         /\ order' = [order EXCEPT ![o] = AppliedRow(@)] => order' \in [Orders -> OrderRow]
         /\ order' = [order EXCEPT ![o] = FailedRow(@)] => order' \in [Orders -> OrderRow]
         /\ order' = [order EXCEPT ![o] = RetriedRow(@)] => order' \in [Orders -> OrderRow]
         /\ order' = [order EXCEPT ![o] = Unlocked(@)] => order' \in [Orders -> OrderRow]
         /\ UNCHANGED order => order' \in [Orders -> OrderRow]
         /\ ReleaseIfMine(w, o) => order' \in [Orders -> OrderRow]
  <1>1. order[o] \in OrderRow BY DEF TypeOK
  <1>2. /\ Leased(order[o], w) \in OrderRow
        /\ AppliedRow(order[o]) \in OrderRow
        /\ FailedRow(order[o]) \in OrderRow
        /\ RetriedRow(order[o]) \in OrderRow
        /\ Unlocked(order[o]) \in OrderRow
    BY <1>1, RowTypes
  <1>3. order \in [Orders -> OrderRow] BY DEF TypeOK
  <1> QED BY <1>2, <1>3, OrderUpdates DEF ReleaseIfMine

\* Placing, cancelling and closing orders keep the types.
LEMMA ServiceType ==
  ASSUME TypeOK, TasksHaveOrders, ServiceNext
  PROVE  TypeOK'
  <1>1. ASSUME NEW w \in Workers, NEW o \in Orders, PlaceOrder(w, o) PROVE TypeOK'
    <2>1. order' \in [Orders -> OrderRow] BY <1>1, StatusNames, StatusUpdates DEF PlaceOrder
    <2>2. server' \in [Orders -> {"none", "placeholder", "live"}]
      BY <1>1, Zenon DEF PlaceOrder, TypeOK
    <2>3. task' \in [Workers -> Task] BY <1>1, StepNames, TaskMoves DEF PlaceOrder
    <2> QED BY <1>1, <2>1, <2>2, <2>3 DEF PlaceOrder, TypeOK
  <1>2. ASSUME NEW w \in Workers, NEW o \in Orders, NEW mode \in {"close", "cancel"},
               ClaimPending(w, o, mode)
        PROVE  TypeOK'
    <2>1. order' \in [Orders -> OrderRow] BY <1>2, RowChanges DEF ClaimPending
    <2>2. task' \in [Workers -> Task] BY <1>2, StepNames, TaskMoves DEF ClaimPending
    <2> QED BY <1>2, <2>1, <2>2 DEF ClaimPending, TypeOK
  <1>3. ASSUME NEW w \in Workers, CreateTrade(w) PROVE TypeOK'
    <2>1. OrderOf(w) \in Orders BY <1>3, Busy DEF CreateTrade, At
    <2>2. task' \in [Workers -> Task] BY <1>3, StepNames, TaskMoves DEF CreateTrade, AfterUnheard
    <2>3. \A state \in {"issued", "open"} :
             [trade[OrderOf(w)] EXCEPT !.state = state] \in Trade
      <3>1. trade[OrderOf(w)] \in Trade BY <2>1 DEF TypeOK
      <3> QED BY <3>1, OtherRows, Zenon
    <2>4. trade' \in [Orders -> Trade]
      <3>1. CASE UNCHANGED trade BY <3>1 DEF TypeOK
      <3>2. ASSUME NEW state \in {"issued", "open"},
                   trade' = [trade EXCEPT ![OrderOf(w)].state = state]
            PROVE  trade' \in [Orders -> Trade]
        BY <2>3, <3>2, Zenon DEF TypeOK
      <3> QED BY <1>3, <3>1, <3>2 DEF CreateTrade
    <2> QED BY <1>3, <2>2, <2>4 DEF CreateTrade, TypeOK
  <1>4. ASSUME NEW w \in Workers, PersistTrade(w) \/ MarkUncertain(w) PROVE TypeOK'
    <2>1. OrderOf(w) \in Orders BY <1>4, Busy DEF PersistTrade, MarkUncertain, At
    <2>2. task' \in [Workers -> Task]
      BY <1>4, TaskMoves DEF PersistTrade, MarkUncertain
    <2>3. \A how \in {"uncertain", "recorded"} :
             [invoice[OrderOf(w)] EXCEPT !.gateway = how] \in InvoiceRow
      <3>1. invoice[OrderOf(w)] \in InvoiceRow BY <2>1 DEF TypeOK
      <3> QED BY <3>1, OtherRows, Zenon
    <2>4. invoice' \in [Orders -> InvoiceRow]
      BY <1>4, <2>3, Zenon DEF PersistTrade, MarkUncertain, TypeOK
    <2> QED BY <1>4, <2>2, <2>4 DEF PersistTrade, MarkUncertain, TypeOK
  <1>5. ASSUME NEW w \in Workers, RollbackPlaceholder(w) \/ CleanupEnded(w) PROVE TypeOK'
    <2>1. task' \in [Workers -> Task]
      BY <1>5, StepNames, TaskMoves DEF RollbackPlaceholder, CleanupEnded
    <2>2. server' \in [Orders -> {"none", "placeholder", "live"}]
      BY <1>5, Zenon DEF RollbackPlaceholder, CleanupEnded, TypeOK
    <2> QED BY <1>5, <2>1, <2>2 DEF RollbackPlaceholder, CleanupEnded, TypeOK
  <1>6. ASSUME NEW w \in Workers, DeleteFailedOrder(w) PROVE TypeOK'
    <2>1. OrderOf(w) \in Orders BY <1>6, Busy DEF DeleteFailedOrder, At
    <2>2. task' \in [Workers -> Task] BY <1>6, TaskMoves DEF DeleteFailedOrder
    <2>3. CASE UNCHANGED <<order, invoice, tx, credits>>
      BY <1>6, <2>2, <2>3 DEF DeleteFailedOrder, TypeOK
    <2>4. CASE ~UNCHANGED <<order, invoice, tx, credits>>
      <3>1. order' \in [Orders -> OrderRow]
        <4>1. FreshOrder \in OrderRow BY StatusNames DEF FreshOrder, OrderRow
        <4>2. [FreshOrder EXCEPT !.status = "deleted"] \in OrderRow
          BY <4>1, StatusNames, RowTypes
        <4> QED BY <1>6, <2>1, <2>4, <4>2, OrderUpdates DEF DeleteFailedOrder
      <3>2. invoice' \in [Orders -> InvoiceRow]
        <4>0. invoice[OrderOf(w)] \in InvoiceRow BY <2>1 DEF TypeOK
        <4>1. [invoice[OrderOf(w)] EXCEPT !.status = "pending", !.gateway = "null"] \in InvoiceRow
          BY <4>0, InvoiceNames, Zenon DEF InvoiceRow
        <4>2. invoice' = [invoice EXCEPT ![OrderOf(w)] =
                            [invoice[OrderOf(w)] EXCEPT !.status = "pending", !.gateway = "null"]]
          BY <1>6, <2>1, <2>4 DEF DeleteFailedOrder, TypeOK, InvoiceRow
        <4> QED BY <2>1, <4>1, <4>2 DEF TypeOK
      <3>3. tx' \in [Orders -> [Txs -> {"none", "succeeded", "failed", "refunded"}]]
        <4>1. tx' = [tx EXCEPT ![OrderOf(w)] = [t \in Txs |-> "none"]]
          BY <1>6, <2>4 DEF DeleteFailedOrder
        <4> QED BY <4>1, Zenon DEF TypeOK
      <3>4. credits' \in [Orders -> [Txs -> Nat]]
        <4>1. credits' = [credits EXCEPT ![OrderOf(w)] = [t \in Txs |-> 0]]
          BY <1>6, <2>4 DEF DeleteFailedOrder
        <4>2. [t \in Txs |-> 0] \in [Txs -> Nat] OBVIOUS
        <4> QED BY <4>1, <4>2, Zenon DEF TypeOK
      <3> QED BY <1>6, <2>2, <3>1, <3>2, <3>3, <3>4 DEF DeleteFailedOrder, TypeOK
    <2> QED BY <2>3, <2>4
  <1>7. ASSUME NEW w \in Workers, QueryTrade(w) PROVE TypeOK'
    <2>1. OrderOf(w) \in Orders BY <1>7, Busy DEF QueryTrade, At
    <2>2. order' \in [Orders -> OrderRow] BY <1>7, <2>1, RowChanges DEF QueryTrade
    <2>3. task' \in [Workers -> Task]
      <3>1. CASE GoTo(w, "release") BY <3>1, StepNames, TaskMoves
      <3>2. ASSUME NEW seen \in InvoiceStatuses, NEW step \in Steps,
                   task' = [task EXCEPT ![w].seen = seen, ![w].pc = step]
            PROVE  task' \in [Workers -> Task]
        <4>1. [task[w] EXCEPT !.seen = seen, !.pc = step] \in Task
          BY Zenon DEF TypeOK, Task
        <4>2. task' = [task EXCEPT ![w] = [task[w] EXCEPT !.seen = seen, !.pc = step]]
          BY <3>2 DEF TypeOK, Task
        <4> QED BY <4>1, <4>2 DEF TypeOK
      <3>3. invoice[OrderOf(w)].status \in InvoiceStatuses BY <2>1 DEF TypeOK, InvoiceRow
      <3>4. AfterQuery(TradeStatus(OrderOf(w))) \in Steps BY StepNames DEF AfterQuery
      <3> QED BY <1>7, <3>1, <3>2, <3>3, <3>4 DEF QueryTrade
    <2> QED BY <1>7, <2>2, <2>3 DEF QueryTrade, TypeOK
  <1>8. ASSUME NEW w \in Workers, CloseTrade(w) PROVE TypeOK'
    <2>1. OrderOf(w) \in Orders BY <1>8, Busy DEF CloseTrade, At
    <2>2. AfterCloseError(w) \in Steps BY StepNames DEF AfterCloseError
    <2>3. task' \in [Workers -> Task] BY <1>8, <2>2, StepNames, TaskMoves DEF CloseTrade
    <2>4. trade' = trade \/ trade' = [trade EXCEPT ![OrderOf(w)].state = "closed"]
      BY <1>8 DEF CloseTrade
    <2>5. [trade[OrderOf(w)] EXCEPT !.state = "closed"] \in Trade
      BY <2>1, Zenon DEF TypeOK, Trade
    <2>6. trade' \in [Orders -> Trade] BY <2>4, <2>5, Zenon DEF TypeOK
    <2> QED BY <1>8, <2>3, <2>6 DEF CloseTrade, TypeOK
  <1>9. ASSUME NEW w \in Workers, RequeryTrade(w) PROVE TypeOK'
    <2>1. OrderOf(w) \in Orders BY <1>9, Busy DEF RequeryTrade, At
    <2>2. AfterRequery(w, TradeStatus(OrderOf(w))) \in Steps BY StepNames DEF AfterRequery
    <2>3. order' \in [Orders -> OrderRow] BY <1>9, <2>1, RowChanges DEF RequeryTrade
    <2>4. task' \in [Workers -> Task] BY <1>9, <2>2, StepNames, TaskMoves DEF RequeryTrade
    <2> QED BY <1>9, <2>3, <2>4 DEF RequeryTrade, TypeOK
  <1>10. ASSUME NEW w \in Workers, RecordQueriedPayment(w) PROVE TypeOK'
    <2>1. OrderOf(w) \in Orders BY <1>10, Busy DEF RecordQueriedPayment, At
    <2>2. trade[OrderOf(w)].payments \subseteq Txs BY <2>1 DEF TypeOK, Trade
    <2>3. task[w].seen \in InvoiceStatuses BY DEF TypeOK, Task
    <2> QED BY <1>10, <2>1, <2>2, <2>3, AddPaymentType DEF RecordQueriedPayment
  <1>11. ASSUME NEW w \in Workers, EndLocally(w) PROVE TypeOK'
    <2>1. OrderOf(w) \in Orders BY <1>11, Busy DEF EndLocally, At
    <2>2. task' \in [Workers -> Task] BY <1>11, StepNames, TaskMoves DEF EndLocally
    <2>3. order' \in [Orders -> OrderRow]
      <3>1. EndedStatus(w) \in Statuses BY StatusNames DEF EndedStatus
      <3>2. order[OrderOf(w)] \in OrderRow BY <2>1 DEF TypeOK
      <3>3. Unlocked(order[OrderOf(w)]) \in OrderRow BY <3>2, RowTypes
      <3>4. [Unlocked(order[OrderOf(w)]) EXCEPT !.status = EndedStatus(w)] \in OrderRow
        BY <3>1, <3>3, RowTypes
      <3>5. UNCHANGED order => order' \in [Orders -> OrderRow] BY DEF TypeOK
      <3> QED BY <1>11, <2>1, <3>4, <3>5, OrderUpdates DEF EndLocally
    <2>4. invoice' \in [Orders -> InvoiceRow]
      <3>0. invoice[OrderOf(w)] \in InvoiceRow BY <2>1 DEF TypeOK
      <3>1. [invoice[OrderOf(w)] EXCEPT !.status = "void"] \in InvoiceRow
        BY <3>0, OtherRows, InvoiceNames, Zenon
      <3> QED BY <1>11, <3>1, Zenon DEF EndLocally, TypeOK
    <2> QED BY <1>11, <2>2, <2>3, <2>4 DEF EndLocally, TypeOK
  <1>12. ASSUME NEW w \in Workers, ReleaseLease(w) PROVE TypeOK'
    <2>1. OrderOf(w) \in Orders BY <1>12, Busy DEF ReleaseLease, At
    <2>2. order' \in [Orders -> OrderRow] BY <1>12, <2>1, RowChanges DEF ReleaseLease
    <2>3. task' \in [Workers -> Task] BY <1>12, TaskMoves DEF ReleaseLease
    <2> QED BY <1>12, <2>2, <2>3 DEF ReleaseLease, TypeOK
  <1> QED BY <1>1, <1>2, <1>3, <1>4, <1>5, <1>6, <1>7, <1>8, <1>9, <1>10, <1>11, <1>12
      DEF ServiceNext, StartClose, StartCancel

\* The stages of apply_paid_order keep the types.
LEMMA ApplyType ==
  ASSUME TypeOK, TasksHaveOrders, ApplyNext
  PROVE  TypeOK'
  <1>1. ASSUME NEW w \in Workers, NEW o \in Orders, StartRetry(w, o) PROVE TypeOK'
    <2>1. task' \in [Workers -> Task] BY <1>1, StepNames, TaskMoves DEF StartRetry
    <2> QED BY <1>1, <2>1 DEF StartRetry, TypeOK
  <1>2. ASSUME NEW w \in Workers, PushToProcessing(w) PROVE TypeOK'
    <2>1. OrderOf(w) \in Orders BY <1>2, Busy DEF PushToProcessing, At
    <2>2. task' \in [Workers -> Task] BY <1>2, StepNames, TaskMoves DEF PushToProcessing
    <2>3. order' \in [Orders -> OrderRow]
      <3>1. order[OrderOf(w)].status \in Statuses BY <2>1 DEF TypeOK, OrderRow
      <3> QED BY <1>2, <2>1, <3>1, StatusNames, StatusUpdates, RowChanges DEF PushToProcessing
    <2> QED BY <1>2, <2>2, <2>3 DEF PushToProcessing, TypeOK
  <1>3. ASSUME NEW w \in Workers, ClaimApply(w) PROVE TypeOK'
    <2>1. OrderOf(w) \in Orders BY <1>3, Busy DEF ClaimApply, At
    <2>2. order' \in [Orders -> OrderRow] BY <1>3, <2>1, RowChanges DEF ClaimApply
    <2>3. task' \in [Workers -> Task] BY <1>3, StepNames, TaskMoves DEF ClaimApply
    <2> QED BY <1>3, <2>2, <2>3 DEF ClaimApply, TypeOK
  <1>4. ASSUME NEW w \in Workers, BeginEffect(w) PROVE TypeOK'
    <2>1. OrderOf(w) \in Orders BY <1>4, Busy DEF BeginEffect, At
    <2>2. effect[OrderOf(w)] \in {"none", "committed", "done"} BY <2>1 DEF TypeOK
    <2>3. task' \in [Workers -> Task] BY <1>4, <2>2, StepNames, TaskMoves DEF BeginEffect
    <2> QED BY <1>4, <2>3 DEF BeginEffect, TypeOK
  <1>5. ASSUME NEW w \in Workers, CommitEffect(w) PROVE TypeOK'
    <2>1. OrderOf(w) \in Orders BY <1>5, Busy DEF CommitEffect, At
    <2>2. task' \in [Workers -> Task] BY <1>5, StepNames, TaskMoves DEF CommitEffect
    <2>3. effect' \in [Orders -> {"none", "committed", "done"}]
      BY <1>5, Zenon DEF CommitEffect, TypeOK
    <2>4. grants' \in [Orders -> Nat]
      <3>1. grants[OrderOf(w)] + 1 \in Nat BY <2>1 DEF TypeOK
      <3>2. UNCHANGED grants \/ grants' = [grants EXCEPT ![OrderOf(w)] = @ + 1]
        BY <1>5 DEF CommitEffect
      <3> QED BY <3>1, <3>2 DEF TypeOK
    <2>5. server' \in [Orders -> {"none", "placeholder", "live"}]
      BY <1>5, Zenon DEF CommitEffect, TypeOK
    <2> QED BY <1>5, <2>2, <2>3, <2>4, <2>5 DEF CommitEffect, TypeOK
  <1>6. ASSUME NEW w \in Workers, RunPostActions(w) PROVE TypeOK'
    <2>1. task' \in [Workers -> Task] BY <1>6, StepNames, TaskMoves DEF RunPostActions
    <2>2. effect' \in [Orders -> {"none", "committed", "done"}]
      BY <1>6, Zenon DEF RunPostActions, TypeOK
    <2> QED BY <1>6, <2>1, <2>2 DEF RunPostActions, TypeOK
  <1>7. ASSUME NEW w \in Workers, FinishApply(w) \/ RecordFailure(w) \/ TerminateApply(w)
        PROVE  TypeOK'
    <2>1. OrderOf(w) \in Orders BY <1>7, Busy DEF FinishApply, RecordFailure, TerminateApply, At
    <2>2. order' \in [Orders -> OrderRow]
      BY <1>7, <2>1, RowChanges DEF FinishApply, RecordFailure, TerminateApply
    <2>3. task' \in [Workers -> Task]
      BY <1>7, TaskMoves DEF FinishApply, RecordFailure, TerminateApply
    <2> QED BY <1>7, <2>2, <2>3 DEF FinishApply, RecordFailure, TerminateApply, TypeOK
  <1>8. ASSUME NEW w \in Workers, RecordFailureWithStray(w) PROVE TypeOK'
    <2>1. OrderOf(w) \in Orders BY <1>8, Busy DEF RecordFailureWithStray, At
    <2>2. order' \in [Orders -> OrderRow] BY <1>8, <2>1, RowChanges DEF RecordFailureWithStray
    <2>3. effect' \in [Orders -> {"none", "committed", "done"}]
      BY <1>8, Zenon DEF RecordFailureWithStray, TypeOK
    <2>4. task' \in [Workers -> Task] BY <1>8, TaskMoves DEF RecordFailureWithStray
    <2> QED BY <1>8, <2>2, <2>3, <2>4 DEF RecordFailureWithStray, TypeOK
  <1> QED BY <1>1, <1>2, <1>3, <1>4, <1>5, <1>6, <1>7, <1>8 DEF ApplyNext, ApplyStep

\* Payment reports and administrators keep the types.
LEMMA PeopleType ==
  ASSUME TypeOK, TasksHaveOrders, NEW w \in Workers, NEW o \in Orders,
         Reports(w, o) \/ Admin(w, o) \/ DropServer(w)
  PROVE  TypeOK'
  <1>1. trade[o].payments \subseteq Txs /\ invoice[o].status \in InvoiceStatuses
    BY DEF TypeOK, Trade, InvoiceRow
  <1>2. ASSUME NEW t \in Txs, MarkTransactionFailed(w, o, t) PROVE TypeOK'
    <2>1. tx' \in [Orders -> [Txs -> {"none", "succeeded", "failed", "refunded"}]]
      BY <1>2, Zenon DEF MarkTransactionFailed, TypeOK
    <2>2. task' \in [Workers -> Task] BY <1>2, TaskMoves DEF MarkTransactionFailed
    <2> QED BY <1>2, <2>1, <2>2 DEF MarkTransactionFailed, TypeOK
  <1>3. CASE Reports(w, o)
    BY <1>1, <1>2, <1>3, AddPaymentType DEF Reports, Webhook, QueryPending
  <1>4. CASE ForceApply(w, o)
    <2>1. order' \in [Orders -> OrderRow]
      <3>1. [order[o] EXCEPT !.status = "processing", !.backoff = FALSE, !.retries = 0] \in OrderRow
        <4>1. 0 \in Nat OBVIOUS
        <4>2. order[o] \in OrderRow BY DEF TypeOK
        <4> QED BY <4>1, <4>2, StatusNames, Zenon DEF OrderRow
      <3> QED BY <1>4, <3>1, OrderUpdates DEF ForceApply
    <2>2. task' \in [Workers -> Task] BY <1>4, StepNames, TaskMoves DEF ForceApply
    <2> QED BY <1>4, <2>1, <2>2 DEF ForceApply, TypeOK
  <1>5. CASE ForceClose(w, o)
    <2>1. order' \in [Orders -> OrderRow] BY <1>5, StatusNames, StatusUpdates DEF ForceClose
    <2>2. task' \in [Workers -> Task]
      BY <1>5, StepNames, TaskMoves DEF ForceClose, TypeOK
    <2> QED BY <1>5, <2>1, <2>2 DEF ForceClose, TypeOK
  <1>6. CASE CleanupPlaceholder(w, o)
    <2>1. task' \in [Workers -> Task] BY <1>6, StepNames, TaskMoves DEF CleanupPlaceholder
    <2> QED BY <1>6, <2>1 DEF CleanupPlaceholder, TypeOK
  <1>7. CASE DropServer(w)
    <2>1. task' \in [Workers -> Task] BY <1>7, TaskMoves DEF DropServer
    <2>2. server' \in [Orders -> {"none", "placeholder", "live"}]
      BY <1>7, Zenon DEF DropServer, TypeOK
    <2> QED BY <1>7, <2>1, <2>2 DEF DropServer, TypeOK
  <1> QED BY <1>3, <1>4, <1>5, <1>6, <1>7 DEF Admin

\* The buyer, the gateway and the passage of time keep the types.
LEMMA WorldType ==
  ASSUME TypeOK, NEW o \in Orders,
         \/ Buyer(o) \/ DeleteLiveServer(o) \/ PassDueTime(o) \/ ElapseBackoff(o)
         \/ ExpireLease(o)
  PROVE  TypeOK'
  <1>1. CASE Buyer(o)
    <2>0. trade[o] \in Trade BY DEF TypeOK
    <2>1. \A state \in {"open", "closed"} : [trade[o] EXCEPT !.state = state] \in Trade
      BY <2>0, OtherRows, Zenon
    <2>2. \A t \in Txs : [state |-> "paid", payments |-> trade[o].payments \cup {t}] \in Trade
      BY DEF TypeOK, Trade
    <2>3. \E row \in Trade : trade' = [trade EXCEPT ![o] = row]
      BY <1>1, <2>1, <2>2, Zenon DEF Buyer, OpenCashier, Pay, ExpireTrade
    <2>4. trade' \in [Orders -> Trade] BY <2>3 DEF TypeOK
    <2> QED BY <1>1, <2>4 DEF Buyer, OpenCashier, Pay, ExpireTrade, TypeOK
  <1>2. CASE DeleteLiveServer(o)
    <2>1. server' \in [Orders -> {"none", "placeholder", "live"}]
      BY <1>2, Zenon DEF DeleteLiveServer, TypeOK
    <2> QED BY <1>2, <2>1 DEF DeleteLiveServer, TypeOK
  <1>3. CASE PassDueTime(o)
    <2>0. invoice[o] \in InvoiceRow BY DEF TypeOK
    <2>1. [invoice[o] EXCEPT !.due = TRUE] \in InvoiceRow BY <2>0, OtherRows, Zenon
    <2>2. invoice' \in [Orders -> InvoiceRow] BY <1>3, <2>1, Zenon DEF PassDueTime, TypeOK
    <2> QED BY <1>3, <2>2 DEF PassDueTime, TypeOK
  <1>4. CASE ElapseBackoff(o) \/ ExpireLease(o)
    <2>0. order[o] \in OrderRow BY DEF TypeOK
    <2>1. [order[o] EXCEPT !.backoff = FALSE] \in OrderRow BY <2>0, Zenon DEF OrderRow
    <2>2. [order[o] EXCEPT !.expired = TRUE] \in OrderRow BY <2>0, Zenon DEF OrderRow
    <2>3. order' \in [Orders -> OrderRow]
      BY <1>4, <2>1, <2>2, OrderUpdates DEF ElapseBackoff, ExpireLease
    <2> QED BY <1>4, <2>3 DEF ElapseBackoff, ExpireLease, TypeOK
  <1> QED BY <1>1, <1>2, <1>3, <1>4

\* Every step keeps the types.
LEMMA TypeStep ==
  ASSUME TypeOK, TasksHaveOrders, [Next]_allVars
  PROVE  TypeOK'
  <1>1. CASE UNCHANGED allVars BY <1>1 DEF allVars, TypeOK
  <1>2. ASSUME NEW w \in Workers, Crash(w) PROVE TypeOK'
    <2>1. task' \in [Workers -> Task] BY <1>2, TaskMoves DEF Crash
    <2> QED BY <1>2, <2>1 DEF Crash, TypeOK
  <1>3. ASSUME NEW w \in Workers, DropServer(w) PROVE TypeOK'
    <2>1. OrderOf(w) \in Orders BY <1>3, Busy DEF DropServer, At
    <2> QED BY <1>3, <2>1, PeopleType
  <1> QED BY <1>1, <1>2, <1>3, ServiceType, ApplyType, PeopleType, WorldType DEF Next

-------------------------------------------------------------------------------
(* What a step may do to each part of the state *)

\* A payment report records a payment the gateway took, or notes a closed trade.
LEMMA ReportSteps ==
  ASSUME IInv, NEW w \in Workers, NEW o \in Orders, Reports(w, o)
  PROVE  /\ At(w, "idle")
         /\ \/ \E t \in trade[o].payments, seen \in InvoiceStatuses : AddPayment(w, o, t, seen)
            \/ \E t \in Txs : MarkTransactionFailed(w, o, t)
  <1>1. invoice[o].status \in InvoiceStatuses BY DEF IInv, TypeOK, InvoiceRow
  <1> QED BY <1>1 DEF Reports, Webhook, QueryPending

\* A task that was told of a payment records one the gateway took.
LEMMA QueriedSteps ==
  ASSUME IInv, NEW w \in Workers, RecordQueriedPayment(w)
  PROVE  /\ At(w, "pay")
         /\ OrderOf(w) \in Orders
         /\ \E t \in trade[OrderOf(w)].payments, seen \in InvoiceStatuses :
               AddPayment(w, OrderOf(w), t, seen)
  <1>1. task[w].seen \in InvoiceStatuses BY DEF IInv, TypeOK, Task
  <1>2. At(w, "pay") BY DEF RecordQueriedPayment
  <1>3. OrderOf(w) \in Orders BY <1>2, Busy DEF At, IInv
  <1> QED BY <1>1, <1>2, <1>3 DEF RecordQueriedPayment

\* The payments the gateway took are payments.
LEMMA PaymentTxs ==
  ASSUME TypeOK, NEW o \in Orders
  PROVE  trade[o].payments \subseteq Txs
  BY DEF TypeOK, Trade

\* The status of a rewritten row.
LEMMA RowStatus ==
  ASSUME NEW row \in OrderRow
  PROVE  /\ \A w \in Workers : Leased(row, w).status = row.status
         /\ Unlocked(row).status = row.status
         /\ \A status \in Statuses : [row EXCEPT !.status = status].status = status
         /\ AppliedRow(row).status = "applied"
         /\ FailedRow(row).status = "apply_failed"
         /\ RetriedRow(row).status \in {row.status, "apply_failed"}
  <1>1. \A w \in Workers : Leased(row, w).status = row.status BY Zenon DEF OrderRow, Leased
  <1>2. \A r \in OrderRow : Unlocked(r).status = r.status BY Zenon DEF OrderRow, Unlocked
  <1>3. \A r \in OrderRow, status \in Statuses : [r EXCEPT !.status = status].status = status
    BY Zenon DEF OrderRow
  <1>4. AppliedRow(row).status = "applied"
    BY RowTypes, Zenon DEF OrderRow, AppliedRow
  <1>5. \A r \in OrderRow : FailedRow(r).status = "apply_failed"
    BY RowTypes, Zenon DEF OrderRow, FailedRow
  <1>6. RetriedRow(row).status \in {row.status, "apply_failed"}
    <2> DEFINE counted == [row EXCEPT !.retries = @ + 1]
    <2>1. counted \in OrderRow /\ counted.status = row.status BY SMT DEF OrderRow
    <2>2. Unlocked(counted) \in OrderRow /\ Unlocked(counted).status = row.status
      BY <1>2, <2>1, RowTypes
    <2>3. [Unlocked(counted) EXCEPT !.backoff = TRUE].status = row.status
      BY <2>2, Zenon DEF OrderRow
    <2> QED BY <1>5, <2>1, <2>3 DEF RetriedRow
  <1> QED BY <1>1, <1>2, <1>3, <1>4, <1>5, <1>6

\* Restating a row gives a row with that status.
LEMMA Restated ==
  ASSUME NEW row \in OrderRow, NEW status \in Statuses
  PROVE  /\ [row EXCEPT !.status = status] \in OrderRow
         /\ [row EXCEPT !.status = status].status = status
  <1>1. [row EXCEPT !.status = status].status = status BY Zenon DEF OrderRow
  <1>2. [row EXCEPT !.status = status] \in OrderRow BY RowTypes, Zenon
  <1> QED BY <1>1, <1>2

\* How the status of an order may change in one step.
StatusMoves(o) ==
    \/ order'[o].status = order[o].status
    \/ order[o].status = "absent" /\ order'[o].status = "pending"
    \/ order'[o].status = "deleted" /\ \E w \in Workers : DeleteFailedOrder(w) /\ OrderOf(w) = o
    \/ order'[o].status = "applied" /\ \E w \in Workers : FinishApply(w) /\ OrderOf(w) = o
    \/ order[o].status \notin {"absent", "deleted"}
       /\ order'[o].status \notin {"absent", "deleted", "applied"}

\* A rewritten row moves the status of one order, and only of that one.
LEMMA RowMoves ==
  ASSUME TypeOK, NEW p \in Orders, NEW row \in OrderRow, order' = [order EXCEPT ![p] = row],
         \/ row.status = order[p].status
         \/ order[p].status = "absent" /\ row.status = "pending"
         \/ row.status = "deleted" /\ \E w \in Workers : DeleteFailedOrder(w) /\ OrderOf(w) = p
         \/ row.status = "applied" /\ \E w \in Workers : FinishApply(w) /\ OrderOf(w) = p
         \/ order[p].status \notin {"absent", "deleted"}
            /\ row.status \notin {"absent", "deleted", "applied"}
  PROVE  \A o \in Orders : StatusMoves(o)
  <1>1. \A o \in Orders : order'[o] = IF o = p THEN row ELSE order[o] BY DEF TypeOK
  <1> QED BY <1>1 DEF StatusMoves

\* A step that leaves the order table alone moves no status.
LEMMA KeptMoves ==
  ASSUME UNCHANGED order
  PROVE  \A o \in Orders : StatusMoves(o)
  BY DEF StatusMoves

\* add_payment moves an order to manual_review or leaves its status alone.
LEMMA AddPaymentStatus ==
  ASSUME IInv, NEW w \in Workers, NEW o \in Orders, NEW t \in Txs,
         NEW seen \in InvoiceStatuses, AddPayment(w, o, t, seen)
  PROVE  \A p \in Orders : StatusMoves(p)
  <1>1. CASE UNCHANGED order BY <1>1, KeptMoves
  <1>2. CASE order' = [order EXCEPT ![o].status = StatusAfterPayment(o, t, seen)]
    <2>1. order[o] \in OrderRow BY DEF IInv, TypeOK
    <2>2. StatusAfterPayment(o, t, seen) \in {order[o].status, "manual_review"}
      BY DEF StatusAfterPayment
    <2>3. StatusAfterPayment(o, t, seen) \in Statuses
      BY <2>1, <2>2, StatusNames DEF OrderRow
    <2> DEFINE row == [order[o] EXCEPT !.status = StatusAfterPayment(o, t, seen)]
    <2>4. row \in OrderRow /\ row.status = StatusAfterPayment(o, t, seen)
      BY <2>1, <2>3, Restated, Zenon
    <2>5. order[o].status \notin {"absent", "deleted"} BY DEF AddPayment, Exists
    <2>6. order' = [order EXCEPT ![o] = row] BY <1>2
    <2> QED BY <2>2, <2>4, <2>5, <2>6, RowMoves DEF IInv
  <1> QED BY <1>1, <1>2 DEF AddPayment, RecordFact

\* Every step moves statuses as StatusMoves says.
LEMMA StatusStep ==
  ASSUME IInv, [Next]_allVars
  PROVE  \A o \in Orders : StatusMoves(o)
  <1> DEFINE Goal == \A o \in Orders : StatusMoves(o)
  <1>a. TypeOK BY DEF IInv
  <1>0. \A o \in Orders : order[o] \in OrderRow BY <1>a DEF TypeOK
  <1>1. ASSUME NEW w \in Workers, NEW o \in Orders, PlaceOrder(w, o) PROVE Goal
    <2>1. [order[o] EXCEPT !.status = "pending"] \in OrderRow
          /\ [order[o] EXCEPT !.status = "pending"].status = "pending"
      BY <1>0, StatusNames, RowTypes, RowStatus
    <2> QED BY <1>1, <1>a, <2>1, RowMoves DEF PlaceOrder
  <1>2. ASSUME NEW w \in Workers, NEW o \in Orders, NEW mode \in {"close", "cancel"},
               ClaimPending(w, o, mode)
        PROVE  Goal
    <2>1. Leased(order[o], w) \in OrderRow /\ Leased(order[o], w).status = order[o].status
      BY <1>0, RowTypes, RowStatus
    <2> QED BY <1>2, <1>a, <2>1, RowMoves DEF ClaimPending
  <1>3. ASSUME NEW w \in Workers,
               DeleteFailedOrder(w) \/ QueryTrade(w) \/ RequeryTrade(w) \/ EndLocally(w)
               \/ ReleaseLease(w)
        PROVE  Goal
    <2>1. OrderOf(w) \in Orders
      BY <1>3, Busy
         DEF DeleteFailedOrder, QueryTrade, RequeryTrade, EndLocally, ReleaseLease, At, IInv
    <2> DEFINE o == OrderOf(w)
    <2>2. Unlocked(order[o]) \in OrderRow /\ Unlocked(order[o]).status = order[o].status
      BY <1>0, <2>1, RowTypes, RowStatus
    <2>3. CASE UNCHANGED order BY <2>3, KeptMoves
    <2>4. CASE order' = [order EXCEPT ![o] = Unlocked(@)]
      BY <1>a, <2>1, <2>2, <2>4, RowMoves
    <2>5. CASE DeleteFailedOrder(w)
      <3> DEFINE row == [FreshOrder EXCEPT !.status = "deleted"]
      <3>1. FreshOrder \in OrderRow BY StatusNames DEF FreshOrder, OrderRow
      <3>4. "deleted" \in Statuses BY StatusNames
      <3>2. row \in OrderRow /\ row.status = "deleted" BY <3>1, <3>4, Restated, Zenon
      <3>3. UNCHANGED order \/ order' = [order EXCEPT ![o] = row]
        BY <2>5 DEF DeleteFailedOrder
      <3> QED BY <1>a, <2>1, <2>3, <2>5, <3>2, <3>3, RowMoves
    <2>6. CASE EndLocally(w)
      <3> DEFINE row == [Unlocked(order[o]) EXCEPT !.status = EndedStatus(w)]
      <3>1. EndedStatus(w) \in {"closed", "cancelled"} BY DEF EndedStatus
      <3>4. EndedStatus(w) \in Statuses BY <3>1, StatusNames
      <3>2. row \in OrderRow /\ row.status = EndedStatus(w) BY <2>2, <3>4, Restated, Zenon
      <3>3. UNCHANGED order \/ (order[o].status = "pending" /\ order' = [order EXCEPT ![o] = row])
        BY <2>6 DEF EndLocally, MayEndLocally
      <3> QED BY <1>a, <2>1, <2>3, <3>1, <3>2, <3>3, RowMoves
    <2>7. CASE QueryTrade(w) \/ RequeryTrade(w) \/ ReleaseLease(w)
      BY <2>3, <2>4, <2>7 DEF QueryTrade, RequeryTrade, ReleaseLease, ReleaseIfMine
    <2> QED BY <1>3, <2>5, <2>6, <2>7
  <1>4. ASSUME NEW w \in Workers, RecordQueriedPayment(w) PROVE Goal
    BY <1>4, <1>a, QueriedSteps, PaymentTxs, AddPaymentStatus
  <1>5. ASSUME NEW w \in Workers, PushToProcessing(w) \/ ClaimApply(w) PROVE Goal
    <2>1. OrderOf(w) \in Orders BY <1>5, Busy DEF PushToProcessing, ClaimApply, At, IInv
    <2> DEFINE o == OrderOf(w)
    <2>2. order[o] \in OrderRow BY <1>0, <2>1
    <2>3. CASE UNCHANGED order BY <2>3, KeptMoves
    <2>4. CASE order' = [order EXCEPT ![o] = Leased(@, w)]
      BY <1>a, <2>1, <2>2, <2>4, RowTypes, RowStatus, RowMoves
    <2>5. ASSUME NEW status \in Statuses, order' = [order EXCEPT ![o].status = status],
                 status = order[o].status \/ (order[o].status = "pending" /\ status = "processing")
          PROVE  Goal
      <3> DEFINE row == [order[o] EXCEPT !.status = status]
      <3>1. row \in OrderRow /\ row.status = status BY <2>2, Restated, Zenon
      <3>2. order' = [order EXCEPT ![o] = row] BY <2>5
      <3> QED BY <1>a, <2>1, <2>5, <3>1, <3>2, RowMoves
    <2>6. order[o].status \in Statuses /\ "processing" \in Statuses
      BY <2>2, StatusNames DEF OrderRow
    <2> QED BY <1>5, <2>3, <2>4, <2>5, <2>6 DEF PushToProcessing, ClaimApply
  <1>6. ASSUME NEW w \in Workers,
               FinishApply(w) \/ RecordFailure(w) \/ RecordFailureWithStray(w) \/ TerminateApply(w)
        PROVE  Goal
    <2>0. ~At(w, "idle") /\ task[w].pc \in PaidSteps
      BY <1>6 DEF FinishApply, RecordFailure, RecordFailureWithStray, TerminateApply, At, PaidSteps
    <2>1. OrderOf(w) \in Orders BY <2>0, Busy DEF IInv
    <2> DEFINE o == OrderOf(w)
    <2>2. order[o] \in OrderRow BY <1>0, <2>1
    <2>3. order[o].status \notin {"absent", "deleted"}
      <3>1. HasPayment(o) BY <2>0 DEF IInv, ApplyProgress
      <3>2. PaidTxs(o) # {} BY <3>1 DEF HasPayment, PaidTxs
      <3> QED BY <2>1, <3>2 DEF IInv, FactsArePayments, Exists
    <2>4. CASE UNCHANGED order BY <2>4, KeptMoves
    <2>5. CASE FinishApply(w) /\ order' = [order EXCEPT ![o] = AppliedRow(@)]
      BY <1>a, <2>1, <2>2, <2>5, RowTypes, RowStatus, RowMoves
    <2>6. ASSUME NEW row \in {RetriedRow(order[o]), FailedRow(order[o])},
                 order' = [order EXCEPT ![o] = row]
          PROVE  Goal
      <3>0. /\ RetriedRow(order[o]) \in OrderRow /\ FailedRow(order[o]) \in OrderRow
            /\ RetriedRow(order[o]).status \in {order[o].status, "apply_failed"}
            /\ FailedRow(order[o]).status = "apply_failed"
        <4> HIDE DEF o
        <4> QED BY <2>2, RowTypes, RowStatus
      <3>1. row \in OrderRow /\ row.status \in {order[o].status, "apply_failed"}
        BY <2>6, <3>0
      <3> QED BY <1>a, <2>1, <2>3, <2>6, <3>1, RowMoves
    <2> QED BY <1>6, <2>4, <2>5, <2>6
        DEF FinishApply, RecordFailure, RecordFailureWithStray, TerminateApply
  <1>7. ASSUME NEW w \in Workers, NEW o \in Orders, Reports(w, o) PROVE Goal
    <2>1. ASSUME NEW t \in Txs, MarkTransactionFailed(w, o, t) PROVE Goal
      BY <2>1, KeptMoves DEF MarkTransactionFailed
    <2> QED BY <1>7, <1>a, <2>1, ReportSteps, PaymentTxs, AddPaymentStatus
  <1>8. ASSUME NEW w \in Workers, NEW o \in Orders, ForceApply(w, o) \/ ForceClose(w, o)
        PROVE  Goal
    <2>0. order[o].status \notin {"absent", "deleted"}
      BY <1>8 DEF ForceApply, ForceClose, Reviewable
    <2>1. CASE ForceApply(w, o)
      <3> DEFINE row == [order[o] EXCEPT !.status = "processing", !.backoff = FALSE, !.retries = 0]
      <3>1. row \in OrderRow /\ row.status = "processing"
        <4>1. 0 \in Nat OBVIOUS
        <4> QED BY <1>0, <4>1, StatusNames, Zenon DEF OrderRow
      <3> QED BY <1>a, <2>0, <2>1, <3>1, RowMoves DEF ForceApply
    <2>2. CASE ForceClose(w, o)
      <3> DEFINE row == [order[o] EXCEPT !.status = "closed"]
      <3>1. row \in OrderRow /\ row.status = "closed" BY <1>0, StatusNames, RowTypes, RowStatus
      <3> QED BY <1>a, <2>0, <2>2, <3>1, RowMoves DEF ForceClose
    <2> QED BY <1>8, <2>1, <2>2
  <1>9. ASSUME NEW o \in Orders, ElapseBackoff(o) \/ ExpireLease(o) PROVE Goal
    <2>1. \A row \in OrderRow :
             /\ [row EXCEPT !.backoff = FALSE] \in OrderRow
             /\ [row EXCEPT !.backoff = FALSE].status = row.status
             /\ [row EXCEPT !.expired = TRUE] \in OrderRow
             /\ [row EXCEPT !.expired = TRUE].status = row.status
      BY Zenon DEF OrderRow
    <2>2. CASE ElapseBackoff(o)
      <3>1. order' = [order EXCEPT ![o] = [order[o] EXCEPT !.backoff = FALSE]]
        BY <2>2 DEF ElapseBackoff
      <3> QED BY <1>0, <1>a, <2>1, <3>1, RowMoves
    <2>3. CASE ExpireLease(o)
      <3>1. order' = [order EXCEPT ![o] = [order[o] EXCEPT !.expired = TRUE]]
        BY <2>3 DEF ExpireLease
      <3> QED BY <1>0, <1>a, <2>1, <3>1, RowMoves
    <2> QED BY <1>9, <2>2, <2>3
  <1>10. ASSUME NEW w \in Workers,
                \/ CreateTrade(w) \/ PersistTrade(w) \/ MarkUncertain(w)
                \/ RollbackPlaceholder(w) \/ CloseTrade(w) \/ CleanupEnded(w)
                \/ BeginEffect(w) \/ CommitEffect(w) \/ RunPostActions(w)
                \/ DropServer(w) \/ Crash(w)
         PROVE  Goal
    BY <1>10, KeptMoves DEF CreateTrade, PersistTrade, MarkUncertain, RollbackPlaceholder,
       CloseTrade, CleanupEnded, BeginEffect, CommitEffect, RunPostActions, DropServer, Crash
  <1>11. ASSUME NEW w \in Workers, NEW o \in Orders,
                \/ StartRetry(w, o) \/ CleanupPlaceholder(w, o)
                \/ Buyer(o) \/ DeleteLiveServer(o) \/ PassDueTime(o)
         PROVE  Goal
    BY <1>11, KeptMoves DEF StartRetry, CleanupPlaceholder, Buyer, OpenCashier, Pay, ExpireTrade,
       DeleteLiveServer, PassDueTime
  <1>12. ASSUME NEW o \in Orders, Buyer(o) \/ DeleteLiveServer(o) \/ PassDueTime(o) PROVE Goal
    BY <1>12, KeptMoves DEF Buyer, OpenCashier, Pay, ExpireTrade, DeleteLiveServer, PassDueTime
  <1>13. CASE UNCHANGED allVars BY <1>13, KeptMoves DEF allVars
  <1> QED
    BY <1>1, <1>2, <1>3, <1>4, <1>5, <1>6, <1>7, <1>8, <1>9, <1>10, <1>11, <1>12, <1>13
    DEF Next, ServiceNext, ApplyNext, ApplyStep, StartClose, StartCancel, Admin

\* What a task looks like after it, or another one, moved, started or stopped.
LEMMA TaskRows ==
  ASSUME TypeOK, NEW w \in Workers, NEW v \in Workers
  PROVE  /\ Stop(w) => task'[v] = IF v = w THEN Idle ELSE task[v]
         /\ \A step \in Steps :
               GoTo(w, step) =>
                  IF v = w THEN task'[v].pc = step /\ task'[v].order = task[v].order
                  ELSE task'[v] = task[v]
         /\ \A step \in Steps, o \in Orders, mode \in {"none", "close", "cancel"} :
               StartTask(w, step, o, mode) =>
                  IF v = w THEN task'[v].pc = step /\ task'[v].order = o
                  ELSE task'[v] = task[v]
  <1>0. task \in [Workers -> Task] BY DEF TypeOK
  <1>1. Stop(w) => task'[v] = IF v = w THEN Idle ELSE task[v] BY <1>0 DEF Stop
  <1>2. ASSUME NEW step \in Steps, GoTo(w, step)
        PROVE  IF v = w THEN task'[v].pc = step /\ task'[v].order = task[v].order
               ELSE task'[v] = task[v]
    <2>1. [task[w] EXCEPT !.pc = step].pc = step
          /\ [task[w] EXCEPT !.pc = step].order = task[w].order
      BY <1>0, Zenon DEF Task
    <2>2. task'[v] = IF v = w THEN [task[w] EXCEPT !.pc = step] ELSE task[v]
      BY <1>0, <1>2 DEF GoTo
    <2> QED BY <2>1, <2>2
  <1>3. ASSUME NEW step \in Steps, NEW o \in Orders, NEW mode \in {"none", "close", "cancel"},
               StartTask(w, step, o, mode)
        PROVE  IF v = w THEN task'[v].pc = step /\ task'[v].order = o
               ELSE task'[v] = task[v]
    BY <1>0, <1>3 DEF StartTask
  <1> QED BY <1>1, <1>2, <1>3

\* How the record of a transaction may change in one step.
TxMoves(o, t) ==
    \/ tx'[o][t] = tx[o][t] /\ credits'[o][t] = credits[o][t]
    \/ /\ tx[o][t] = "none" /\ tx'[o][t] = "succeeded"
       /\ credits'[o][t] = credits[o][t] + 1
       /\ t \in trade[o].payments /\ Exists(o)
    \/ tx[o][t] = "none" /\ tx'[o][t] = "failed" /\ credits'[o][t] = credits[o][t]
    \/ /\ tx'[o][t] = "none" /\ credits'[o][t] = 0
       /\ \E w \in Workers : DeleteFailedOrder(w) /\ OrderOf(w) = o

\* add_payment records and credits one payment, once.
LEMMA AddPaymentTx ==
  ASSUME IInv, NEW w \in Workers, NEW o \in Orders, NEW t \in trade[o].payments,
         NEW seen \in InvoiceStatuses, AddPayment(w, o, t, seen)
  PROVE  \A p \in Orders, s \in Txs : TxMoves(p, s)
  <1>1. CASE UNCHANGED <<tx, credits>> BY <1>1 DEF TxMoves
  <1>2. CASE ~KnownTx(o, t) /\ RecordFact(o, t, seen)
    <2>1. tx \in [Orders -> [Txs -> {"none", "succeeded", "failed", "refunded"}]]
          /\ credits \in [Orders -> [Txs -> Nat]]
      BY DEF IInv, TypeOK
    <2>2. t \in Txs BY PaymentTxs DEF IInv
    <2>3. tx[o][t] = "none" BY <1>2 DEF KnownTx
    <2>4. Exists(o) BY DEF AddPayment
    <2>5. \A p \in Orders, s \in Txs :
             /\ tx'[p][s] = IF p = o /\ s = t THEN "succeeded" ELSE tx[p][s]
             /\ credits'[p][s] = IF p = o /\ s = t THEN credits[p][s] + 1 ELSE credits[p][s]
      BY <1>2, <2>1, <2>2 DEF RecordFact
    <2> QED BY <2>3, <2>4, <2>5 DEF TxMoves
  <1> QED BY <1>1, <1>2 DEF AddPayment

\* Every step changes transaction records as TxMoves says.
LEMMA TxStep ==
  ASSUME IInv, [Next]_allVars
  PROVE  \A o \in Orders, t \in Txs : TxMoves(o, t)
  <1> DEFINE Goal == \A o \in Orders, t \in Txs : TxMoves(o, t)
  <1>a. TypeOK BY DEF IInv
  <1>0. CASE UNCHANGED <<tx, credits>> BY <1>0 DEF TxMoves
  <1>1. ASSUME NEW w \in Workers, RecordQueriedPayment(w) PROVE Goal
    BY <1>1, QueriedSteps, AddPaymentTx
  <1>2. ASSUME NEW w \in Workers, NEW o \in Orders, Reports(w, o) PROVE Goal
    <2>1. ASSUME NEW t \in Txs, MarkTransactionFailed(w, o, t) PROVE Goal
      <3>1. \A p \in Orders, s \in Txs :
               /\ tx'[p][s] = IF p = o /\ s = t THEN "failed" ELSE tx[p][s]
               /\ credits'[p][s] = credits[p][s]
        BY <1>a, <2>1 DEF MarkTransactionFailed, TypeOK
      <3>2. tx[o][t] = "none" BY <2>1 DEF MarkTransactionFailed
      <3> QED BY <3>1, <3>2 DEF TxMoves
    <2> QED BY <1>2, <2>1, ReportSteps, AddPaymentTx
  <1>3. ASSUME NEW w \in Workers, DeleteFailedOrder(w) PROVE Goal
    <2>1. OrderOf(w) \in Orders BY <1>3, Busy DEF DeleteFailedOrder, At, IInv
    <2>2. CASE /\ tx' = [tx EXCEPT ![OrderOf(w)] = [t \in Txs |-> "none"]]
               /\ credits' = [credits EXCEPT ![OrderOf(w)] = [t \in Txs |-> 0]]
      <3>1. \A p \in Orders, s \in Txs :
               /\ tx'[p][s] = IF p = OrderOf(w) THEN "none" ELSE tx[p][s]
               /\ credits'[p][s] = IF p = OrderOf(w) THEN 0 ELSE credits[p][s]
        BY <1>a, <2>1, <2>2 DEF TypeOK
      <3> QED BY <1>3, <3>1 DEF TxMoves
    <2> QED BY <1>3, <1>0, <2>2 DEF DeleteFailedOrder
  <1>4. ASSUME NEW w \in Workers, NEW o \in Orders, NEW mode \in {"close", "cancel"},
               PlaceOrder(w, o) \/ ClaimPending(w, o, mode) \/ StartRetry(w, o) \/ Admin(w, o)
        PROVE  Goal
    BY <1>0, <1>4 DEF PlaceOrder, ClaimPending, StartRetry, Admin, ForceApply, ForceClose,
       CleanupPlaceholder
  <1>5. ASSUME NEW w \in Workers,
               \/ CreateTrade(w) \/ PersistTrade(w) \/ MarkUncertain(w) \/ RollbackPlaceholder(w)
               \/ QueryTrade(w) \/ CloseTrade(w) \/ RequeryTrade(w) \/ EndLocally(w)
               \/ CleanupEnded(w) \/ ReleaseLease(w)
        PROVE  Goal
    BY <1>0, <1>5 DEF CreateTrade, PersistTrade, MarkUncertain, RollbackPlaceholder, QueryTrade,
       CloseTrade, RequeryTrade, EndLocally, CleanupEnded, ReleaseLease
  <1>6. ASSUME NEW w \in Workers, ApplyStep(w) \/ DropServer(w) \/ Crash(w) PROVE Goal
    BY <1>0, <1>6 DEF ApplyStep, PushToProcessing, ClaimApply, BeginEffect, CommitEffect,
       RunPostActions, FinishApply, RecordFailure, RecordFailureWithStray, TerminateApply,
       DropServer, Crash
  <1>7. ASSUME NEW o \in Orders,
               \/ Buyer(o) \/ DeleteLiveServer(o) \/ PassDueTime(o) \/ ElapseBackoff(o)
               \/ ExpireLease(o)
        PROVE  Goal
    BY <1>0, <1>7 DEF Buyer, OpenCashier, Pay, ExpireTrade, DeleteLiveServer, PassDueTime,
       ElapseBackoff, ExpireLease
  <1>8. CASE UNCHANGED allVars BY <1>0, <1>8 DEF allVars
  <1> QED BY <1>1, <1>2, <1>3, <1>4, <1>5, <1>6, <1>7, <1>8
      DEF Next, ServiceNext, ApplyNext, StartClose, StartCancel

\* How the gateway's record of an invoice may change in one step.
TradeMoves(o) ==
    \/ trade'[o] = trade[o]
    \/ /\ \E w \in Workers :
            At(w, "create") /\ OrderOf(w) = o /\ task'[w].pc \in {"persist", "uncertain"}
       /\ trade'[o].payments = trade[o].payments
    \/ /\ trade[o].state \notin {"none", "paid"} /\ trade'[o].state # "none"
       /\ trade'[o].payments = trade[o].payments
    \/ /\ trade[o].state # "none" /\ trade'[o].state = "paid"
       /\ trade[o].payments \subseteq trade'[o].payments

\* Every step changes trades as TradeMoves says.
LEMMA TradeStep ==
  ASSUME IInv, [Next]_allVars
  PROVE  \A o \in Orders : TradeMoves(o)
  <1> DEFINE Goal == \A o \in Orders : TradeMoves(o)
  <1>a. TypeOK BY DEF IInv
  <1>0. CASE UNCHANGED trade BY <1>0 DEF TradeMoves
  <1>b. ASSUME NEW p \in Orders, NEW state \in {"issued", "open", "closed"},
               trade' = [trade EXCEPT ![p].state = state]
        PROVE  \A o \in Orders :
                  /\ trade'[o].payments = trade[o].payments
                  /\ o = p => trade'[o].state = state
                  /\ o # p => trade'[o] = trade[o]
    <2>1. [trade[p] EXCEPT !.state = state].state = state
          /\ [trade[p] EXCEPT !.state = state].payments = trade[p].payments
      BY <1>a, Zenon DEF TypeOK, Trade
    <2>2. \A o \in Orders :
             trade'[o] = IF o = p THEN [trade[p] EXCEPT !.state = state] ELSE trade[o]
      BY <1>a, <1>b DEF TypeOK
    <2> QED BY <2>1, <2>2
  <1>1. ASSUME NEW w \in Workers, CreateTrade(w) PROVE Goal
    <2>1. OrderOf(w) \in Orders BY <1>1, Busy DEF CreateTrade, At, IInv
    <2>2. CASE ~UNCHANGED trade
      <3>1. \E state \in {"issued", "open"} : trade' = [trade EXCEPT ![OrderOf(w)].state = state]
        BY <1>1, <2>2 DEF CreateTrade
      <3>2. GoTo(w, "persist") \/ GoTo(w, "uncertain")
        BY <1>1, <2>2 DEF CreateTrade, AfterUnheard
      <3>3. task'[w].pc \in {"persist", "uncertain"} BY <1>a, <3>2, StepNames, TaskRows
      <3>4. \A o \in Orders :
               /\ trade'[o].payments = trade[o].payments
               /\ o # OrderOf(w) => trade'[o] = trade[o]
        <4>1. PICK state \in {"issued", "open"} :
                trade' = [trade EXCEPT ![OrderOf(w)].state = state]
          BY <3>1
        <4>2. state \in {"issued", "open", "closed"} OBVIOUS
        <4> QED BY <1>b, <2>1, <4>1, <4>2, Zenon
      <3>5. At(w, "create") BY <1>1 DEF CreateTrade
      <3> QED BY <3>3, <3>4, <3>5, Zenon DEF TradeMoves
    <2> QED BY <1>0, <2>2
  <1>2. ASSUME NEW w \in Workers, CloseTrade(w) PROVE Goal
    <2>1. OrderOf(w) \in Orders BY <1>2, Busy DEF CloseTrade, At, IInv
    <2>2. \/ UNCHANGED trade
          \/ /\ CloseOutcome(OrderOf(w)) = "CLOSED"
             /\ trade' = [trade EXCEPT ![OrderOf(w)].state = "closed"]
      BY <1>2, Zenon DEF CloseTrade
    <2>3. CloseOutcome(OrderOf(w)) = "CLOSED" => trade[OrderOf(w)].state \in {"open", "closed"}
      BY DEF CloseOutcome
    <2> QED BY <1>0, <1>b, <2>1, <2>2, <2>3 DEF TradeMoves
  <1>3. ASSUME NEW o \in Orders, OpenCashier(o) \/ ExpireTrade(o) PROVE Goal
    <2>1. /\ trade[o].state \in {"issued", "open"}
          /\ \E state \in {"open", "closed"} : trade' = [trade EXCEPT ![o].state = state]
      BY <1>3 DEF OpenCashier, ExpireTrade
    <2> QED BY <1>b, <2>1 DEF TradeMoves
  <1>4. ASSUME NEW o \in Orders, NEW t \in Txs, Pay(o, t) PROVE Goal
    <2>1. trade[o].state \in {"open", "paid"} BY <1>4 DEF Pay, AcceptsPayment
    <2>2. \A p \in Orders :
             trade'[p] = IF p = o THEN [state |-> "paid", payments |-> trade[o].payments \cup {t}]
                         ELSE trade[p]
      BY <1>4, <1>a DEF Pay, TypeOK
    <2> QED BY <2>1, <2>2 DEF TradeMoves
  <1>5. ASSUME NEW w \in Workers, NEW o \in Orders, NEW mode \in {"close", "cancel"},
               PlaceOrder(w, o) \/ ClaimPending(w, o, mode) \/ StartRetry(w, o) \/ Admin(w, o)
        PROVE  Goal
    BY <1>0, <1>5 DEF PlaceOrder, ClaimPending, StartRetry, Admin, ForceApply, ForceClose,
       CleanupPlaceholder
  <1>6. ASSUME NEW w \in Workers,
               \/ PersistTrade(w) \/ MarkUncertain(w) \/ RollbackPlaceholder(w)
               \/ DeleteFailedOrder(w) \/ QueryTrade(w) \/ RequeryTrade(w) \/ EndLocally(w)
               \/ CleanupEnded(w) \/ ReleaseLease(w)
        PROVE  Goal
    BY <1>0, <1>6 DEF PersistTrade, MarkUncertain, RollbackPlaceholder, DeleteFailedOrder,
       QueryTrade, RequeryTrade, EndLocally, CleanupEnded, ReleaseLease
  <1>7. ASSUME NEW w \in Workers, ApplyStep(w) \/ DropServer(w) \/ Crash(w) PROVE Goal
    BY <1>0, <1>7 DEF ApplyStep, PushToProcessing, ClaimApply, BeginEffect, CommitEffect,
       RunPostActions, FinishApply, RecordFailure, RecordFailureWithStray, TerminateApply,
       DropServer, Crash
  <1>8. ASSUME NEW o \in Orders,
               DeleteLiveServer(o) \/ PassDueTime(o) \/ ElapseBackoff(o) \/ ExpireLease(o)
        PROVE  Goal
    BY <1>0, <1>8 DEF DeleteLiveServer, PassDueTime, ElapseBackoff, ExpireLease
  <1>9. ASSUME NEW w \in Workers, NEW o \in Orders, Reports(w, o) PROVE Goal
    BY <1>0, <1>9, ReportSteps DEF AddPayment, MarkTransactionFailed
  <1>10. ASSUME NEW w \in Workers, RecordQueriedPayment(w) PROVE Goal
    BY <1>0, <1>10, QueriedSteps DEF AddPayment
  <1>11. CASE UNCHANGED allVars BY <1>0, <1>11 DEF allVars
  <1> QED BY <1>1, <1>2, <1>3, <1>4, <1>5, <1>6, <1>7, <1>8, <1>9, <1>10, <1>11
      DEF Next, ServiceNext, ApplyNext, StartClose, StartCancel, Buyer

\* How the effect row, the grant and the server of an order may change in one step.
EffectMoves(o) ==
    \/ /\ effect'[o] = effect[o] /\ grants'[o] = grants[o]
       /\ server'[o] \in {server[o], "none"} \/ order[o].status = "absent"
    \/ /\ effect[o] = "none" /\ effect'[o] = "committed" /\ HasPayment(o)
       /\ server[o] # "none"
       /\ grants'[o] = grants[o] + 1
    \/ /\ effect[o] = "none" /\ effect'[o] = "committed" /\ HasPayment(o)
       /\ server[o] = "none" /\ server'[o] = "none"
       /\ grants'[o] = grants[o]
    \/ /\ effect[o] # "none" /\ effect'[o] = "done"
       /\ server[o] # "none" /\ server'[o] = server[o]
       /\ grants'[o] = grants[o]

\* A task past stage 1 of apply works on a paid order.
LEMMA PaidTask ==
  ASSUME IInv, NEW w \in Workers, task[w].pc \in PaidSteps
  PROVE  /\ OrderOf(w) \in Orders
         /\ HasPayment(OrderOf(w))
  <1>1. ~At(w, "idle") BY DEF PaidSteps, At
  <1> QED BY <1>1, Busy DEF IInv, ApplyProgress

\* Every step changes effects, grants and servers as EffectMoves says.
LEMMA EffectStep ==
  ASSUME IInv, [Next]_allVars
  PROVE  \A o \in Orders : EffectMoves(o)
  <1> DEFINE Goal == \A o \in Orders : EffectMoves(o)
  <1>a. /\ effect \in [Orders -> {"none", "committed", "done"}]
        /\ grants \in [Orders -> Nat]
        /\ server \in [Orders -> {"none", "placeholder", "live"}]
    BY DEF IInv, TypeOK
  <1>0. CASE UNCHANGED <<effect, grants, server>> BY <1>0 DEF EffectMoves
  <1>1. ASSUME NEW o \in Orders, UNCHANGED <<effect, grants>>,
               server' = [server EXCEPT ![o] = "none"]
        PROVE  Goal
    BY <1>1, <1>a DEF EffectMoves
  <1>2. ASSUME NEW w \in Workers, NEW o \in Orders, PlaceOrder(w, o) PROVE Goal
    <2>1. \A p \in Orders : p # o => server'[p] = server[p] BY <1>2, <1>a DEF PlaceOrder
    <2> QED BY <1>2, <2>1 DEF PlaceOrder, EffectMoves
  <1>3. ASSUME NEW w \in Workers, RollbackPlaceholder(w) \/ CleanupEnded(w) \/ DropServer(w)
        PROVE  Goal
    <2>1. OrderOf(w) \in Orders
      BY <1>3, Busy DEF RollbackPlaceholder, CleanupEnded, DropServer, At, IInv
    <2> QED BY <1>3, <1>0, <1>1, <2>1 DEF RollbackPlaceholder, CleanupEnded, DropServer
  <1>4. ASSUME NEW o \in Orders, DeleteLiveServer(o) PROVE Goal
    BY <1>4, <1>1 DEF DeleteLiveServer
  <1>5. ASSUME NEW w \in Workers, CommitEffect(w) PROVE Goal
    <2>1. OrderOf(w) \in Orders /\ HasPayment(OrderOf(w))
      BY <1>5, PaidTask DEF CommitEffect, At, PaidSteps
    <2>2. \/ UNCHANGED <<effect, grants, server>>
          \/ /\ server[OrderOf(w)] # "none" /\ effect[OrderOf(w)] = "none"
             /\ effect' = [effect EXCEPT ![OrderOf(w)] = "committed"]
             /\ grants' = [grants EXCEPT ![OrderOf(w)] = @ + 1]
             /\ server' = [server EXCEPT ![OrderOf(w)] = "live"]
      BY <1>5 DEF CommitEffect, EffectRowFree
    <2> QED BY <1>0, <1>a, <2>1, <2>2 DEF EffectMoves
  <1>6. ASSUME NEW w \in Workers, RunPostActions(w) PROVE Goal
    <2>1. OrderOf(w) \in Orders BY <1>6, PaidTask DEF RunPostActions, At, PaidSteps
    <2>2. effect[OrderOf(w)] # "none" BY <1>6 DEF RunPostActions, IInv, ApplyProgress
    <2>3. \/ UNCHANGED <<effect, grants, server>>
          \/ /\ server[OrderOf(w)] # "none"
             /\ effect' = [effect EXCEPT ![OrderOf(w)] = "done"]
             /\ UNCHANGED <<grants, server>>
      BY <1>6 DEF RunPostActions
    <2> QED BY <1>0, <1>a, <2>1, <2>2, <2>3 DEF EffectMoves
  <1>7. ASSUME NEW w \in Workers, RecordFailureWithStray(w) PROVE Goal
    <2>1. OrderOf(w) \in Orders /\ HasPayment(OrderOf(w))
      BY <1>7, PaidTask DEF RecordFailureWithStray, At, PaidSteps
    <2>2. server[OrderOf(w)] = "none" BY <1>7 DEF RecordFailureWithStray, IInv, ApplyProgress
    <2>3. \/ UNCHANGED <<effect, grants, server>>
          \/ /\ effect[OrderOf(w)] = "none"
             /\ effect' = [effect EXCEPT ![OrderOf(w)] = "committed"]
             /\ UNCHANGED <<grants, server>>
      BY <1>7 DEF RecordFailureWithStray, EffectRowFree
    <2> QED BY <1>0, <1>a, <2>1, <2>2, <2>3 DEF EffectMoves
  <1>8. ASSUME NEW w \in Workers, NEW o \in Orders, NEW mode \in {"close", "cancel"},
               ClaimPending(w, o, mode) \/ StartRetry(w, o) \/ Admin(w, o)
        PROVE  Goal
    BY <1>0, <1>8 DEF ClaimPending, StartRetry, Admin, ForceApply, ForceClose, CleanupPlaceholder
  <1>9. ASSUME NEW w \in Workers,
               \/ CreateTrade(w) \/ PersistTrade(w) \/ MarkUncertain(w) \/ DeleteFailedOrder(w)
               \/ QueryTrade(w) \/ CloseTrade(w) \/ RequeryTrade(w) \/ EndLocally(w)
               \/ ReleaseLease(w)
        PROVE  Goal
    BY <1>0, <1>9 DEF CreateTrade, PersistTrade, MarkUncertain, DeleteFailedOrder, QueryTrade,
       CloseTrade, RequeryTrade, EndLocally, ReleaseLease
  <1>10. ASSUME NEW w \in Workers,
                \/ PushToProcessing(w) \/ ClaimApply(w) \/ BeginEffect(w) \/ FinishApply(w)
                \/ RecordFailure(w) \/ TerminateApply(w) \/ Crash(w)
         PROVE  Goal
    BY <1>0, <1>10 DEF PushToProcessing, ClaimApply, BeginEffect, FinishApply, RecordFailure,
       TerminateApply, Crash
  <1>11. ASSUME NEW o \in Orders,
                Buyer(o) \/ PassDueTime(o) \/ ElapseBackoff(o) \/ ExpireLease(o)
         PROVE  Goal
    BY <1>0, <1>11 DEF Buyer, OpenCashier, Pay, ExpireTrade, PassDueTime, ElapseBackoff,
       ExpireLease
  <1>12. ASSUME NEW w \in Workers, NEW o \in Orders, Reports(w, o) PROVE Goal
    BY <1>0, <1>12, ReportSteps DEF AddPayment, MarkTransactionFailed
  <1>13. ASSUME NEW w \in Workers, RecordQueriedPayment(w) PROVE Goal
    BY <1>0, <1>13, QueriedSteps DEF AddPayment
  <1>14. CASE UNCHANGED allVars BY <1>0, <1>14 DEF allVars
  <1> QED BY <1>2, <1>3, <1>4, <1>5, <1>6, <1>7, <1>8, <1>9, <1>10, <1>11, <1>12, <1>13, <1>14
      DEF Next, ServiceNext, ApplyNext, ApplyStep, StartClose, StartCancel

\* How a task may change in one step: not at all, to a stop, to its next step, or by
\* starting on an order that exists or is just being placed.
Continues(v) ==
    LET o == task[v].order IN
    /\ ~At(v, "idle")
    /\ task'[v].order = o
    /\ task'[v].pc # "idle"
    /\ task'[v].pc \in CreatingSteps => task[v].pc \in CreatingSteps
    /\ task'[v].pc \in {"create", "rollback", "delete"} =>
          task[v].pc \in {"create", "rollback"} /\ UNCHANGED trade
    /\ task'[v].pc \in PaidSteps => HasPayment(o)
    /\ task'[v].pc = "post" => effect'[o] # "none"
    /\ task'[v].pc = "finish" => effect'[o] = "done"
    /\ task'[v].pc = "stray" => server'[o] = "none"

Starts(v) ==
    /\ task'[v].order \in Orders
    /\ order[task'[v].order].status # "absent"
    /\ task'[v].pc \in {"query", "stage1", "drop"}

Places(v) ==
    /\ task'[v].order \in Orders
    /\ task'[v].pc = "create"
    /\ PlaceOrder(v, task'[v].order)

TaskChanges(v) ==
    \/ task'[v] = task[v]
    \/ task'[v].pc = "idle"
    \/ Continues(v)
    \/ Starts(v)
    \/ Places(v)

\* A stop changes one task.
LEMMA StopChanges ==
  ASSUME TypeOK, NEW w \in Workers, Stop(w)
  PROVE  \A v \in Workers : TaskChanges(v)
  BY TaskRows DEF TaskChanges, Idle

\* A start on an order that exists changes one task.
LEMMA StartChanges ==
  ASSUME TypeOK, NEW w \in Workers, NEW o \in Orders, order[o].status # "absent",
         NEW mode \in {"none", "close", "cancel"},
         \E step \in {"query", "stage1", "drop"} : StartTask(w, step, o, mode)
  PROVE  \A v \in Workers : TaskChanges(v)
  BY StepNames, TaskRows DEF TaskChanges, Starts

\* add_payment stops its task or sends it on to apply.
LEMMA AddPaymentChanges ==
  ASSUME TypeOK, NEW w \in Workers, NEW o \in Orders, NEW t, NEW seen, AddPayment(w, o, t, seen)
  PROVE  \A v \in Workers : TaskChanges(v)
  BY StopChanges, StartChanges DEF AddPayment, Exists

\* Every step changes tasks as TaskChanges says.
LEMMA TaskChange ==
  ASSUME IInv, [Next]_allVars
  PROVE  \A v \in Workers : TaskChanges(v)
  <1> DEFINE Goal == \A v \in Workers : TaskChanges(v)
  <1>a. TypeOK BY DEF IInv
  <1>0. CASE UNCHANGED task BY <1>0 DEF TaskChanges
  <1>b. ASSUME NEW w \in Workers, ~At(w, "idle"), NEW step \in Steps \ {"idle"}, GoTo(w, step),
               step \in CreatingSteps => task[w].pc \in CreatingSteps,
               step \in {"create", "rollback", "delete"} =>
                  task[w].pc \in {"create", "rollback"} /\ UNCHANGED trade,
               step \in PaidSteps => HasPayment(OrderOf(w)),
               step = "post" => effect'[OrderOf(w)] # "none",
               step = "finish" => effect'[OrderOf(w)] = "done",
               step = "stray" => server'[OrderOf(w)] = "none"
        PROVE  Goal
    BY <1>a, <1>b, TaskRows DEF TaskChanges, Continues, OrderOf
  <1>1. ASSUME NEW w \in Workers, NEW o \in Orders, PlaceOrder(w, o) PROVE Goal
    <2>1. \A v \in Workers : IF v = w THEN task'[v].pc = "create" /\ task'[v].order = o
                             ELSE task'[v] = task[v]
      BY <1>a, <1>1, StepNames, TaskRows DEF PlaceOrder
    <2> QED BY <1>1, <2>1 DEF TaskChanges, Places
  <1>2. ASSUME NEW w \in Workers, NEW o \in Orders, NEW mode \in {"close", "cancel"},
               ClaimPending(w, o, mode) \/ StartRetry(w, o) \/ Admin(w, o)
        PROVE  Goal
    BY <1>0, <1>2, <1>a, StartChanges
    DEF ClaimPending, StartRetry, Admin, ForceApply, ForceClose, CleanupPlaceholder, Reviewable,
        MayCleanupPlaceholder, Exists
  <1>3. ASSUME NEW w \in Workers,
               PersistTrade(w) \/ MarkUncertain(w) \/ DeleteFailedOrder(w) \/ ReleaseLease(w)
               \/ FinishApply(w) \/ RecordFailure(w) \/ RecordFailureWithStray(w)
               \/ TerminateApply(w) \/ DropServer(w) \/ Crash(w)
        PROVE  Goal
    BY <1>3, <1>a, StopChanges DEF PersistTrade, MarkUncertain, DeleteFailedOrder, ReleaseLease,
       FinishApply, RecordFailure, RecordFailureWithStray, TerminateApply, DropServer, Crash
  <1>4. ASSUME NEW w \in Workers, CreateTrade(w) \/ RollbackPlaceholder(w) PROVE Goal
    BY <1>4, <1>b, StepNames
    DEF CreateTrade, RollbackPlaceholder, AfterUnheard, At, CreatingSteps, PaidSteps
  <1>5. ASSUME NEW w \in Workers,
               CloseTrade(w) \/ RequeryTrade(w) \/ EndLocally(w) \/ CleanupEnded(w)
        PROVE  Goal
    <2>1. \E step \in {"release", "pay", "local", "requery", "cleanup"} : GoTo(w, step)
      BY <1>5 DEF CloseTrade, RequeryTrade, EndLocally, CleanupEnded, AfterCloseError,
         AfterRequery
    <2>2. ~At(w, "idle") BY <1>5 DEF CloseTrade, RequeryTrade, EndLocally, CleanupEnded, At
    <2> QED BY <1>b, <2>1, <2>2, StepNames DEF CreatingSteps, PaidSteps
  <1>6. ASSUME NEW w \in Workers, QueryTrade(w) PROVE Goal
    <2>1. CASE GoTo(w, "release")
      BY <1>6, <1>b, <2>1, StepNames DEF QueryTrade, At, CreatingSteps, PaidSteps
    <2>2. CASE ~GoTo(w, "release")
      <3> DEFINE seen == invoice[OrderOf(w)].status
                 step == AfterQuery(TradeStatus(OrderOf(w)))
      <3>1. task' = [task EXCEPT ![w].seen = seen, ![w].pc = step]
        BY <1>6, <2>2 DEF QueryTrade
      <3>2. step \in {"pay", "local", "trade"} BY DEF AfterQuery
      <3>3. [task[w] EXCEPT !.seen = seen, !.pc = step].pc = step
            /\ [task[w] EXCEPT !.seen = seen, !.pc = step].order = task[w].order
        <4> HIDE DEF seen, step
        <4> QED BY <1>a, Zenon DEF TypeOK, Task
      <3>4. \A v \in Workers :
               task'[v] = IF v = w THEN [task[w] EXCEPT !.seen = seen, !.pc = step] ELSE task[v]
        <4> HIDE DEF seen, step
        <4> QED BY <1>a, <3>1 DEF TypeOK, Task
      <3>5. ~At(w, "idle") BY <1>6 DEF QueryTrade, At
      <3> HIDE DEF seen, step
      <3> QED BY <3>2, <3>3, <3>4, <3>5 DEF TaskChanges, Continues, CreatingSteps, PaidSteps
    <2> QED BY <2>1, <2>2
  <1>7. ASSUME NEW w \in Workers, RecordQueriedPayment(w) PROVE Goal
    BY <1>7, <1>a, QueriedSteps, AddPaymentChanges
  <1>8. ASSUME NEW w \in Workers, NEW o \in Orders, Reports(w, o) PROVE Goal
    BY <1>8, <1>a, ReportSteps, AddPaymentChanges, StopChanges DEF MarkTransactionFailed
  <1>9. ASSUME NEW w \in Workers, PushToProcessing(w) PROVE Goal
    <2>1. Stop(w) \/ (HasPayment(OrderOf(w)) /\ GoTo(w, "claim")) BY <1>9 DEF PushToProcessing
    <2>2. ~At(w, "idle") BY <1>9 DEF PushToProcessing, At
    <2> QED BY <1>a, <1>b, <2>1, <2>2, StepNames, StopChanges DEF CreatingSteps
  <1>10. ASSUME NEW w \in Workers, ClaimApply(w) \/ BeginEffect(w) PROVE Goal
    <2>1. task[w].pc \in PaidSteps BY <1>10 DEF ClaimApply, BeginEffect, At, PaidSteps
    <2>2. OrderOf(w) \in Orders /\ HasPayment(OrderOf(w)) BY <2>1, PaidTask
    <2>3. \/ Stop(w)
          \/ \E step \in {"effect", "commit", "fail", "orphan"} : GoTo(w, step)
          \/ GoTo(w, "post") /\ effect'[OrderOf(w)] = "committed"
          \/ GoTo(w, "finish") /\ effect'[OrderOf(w)] = "done"
      <3>1. effect[OrderOf(w)] \in {"none", "committed", "done"} BY <2>2 DEF IInv, TypeOK
      <3> QED BY <1>10, <3>1 DEF ClaimApply, BeginEffect
    <2>4. ~At(w, "idle") BY <2>1 DEF At, PaidSteps
    <2> QED BY <1>a, <1>b, <2>2, <2>3, <2>4, StepNames, StopChanges DEF CreatingSteps
  <1>11. ASSUME NEW w \in Workers, CommitEffect(w) \/ RunPostActions(w) PROVE Goal
    <2>1. task[w].pc \in PaidSteps BY <1>11 DEF CommitEffect, RunPostActions, At, PaidSteps
    <2>2. OrderOf(w) \in Orders /\ HasPayment(OrderOf(w)) BY <2>1, PaidTask
    <2>3. \/ Stop(w)
          \/ GoTo(w, "fail") \/ GoTo(w, "orphan")
          \/ GoTo(w, "stray") /\ server'[OrderOf(w)] = "none"
          \/ GoTo(w, "post") /\ effect'[OrderOf(w)] = "committed"
          \/ GoTo(w, "finish") /\ effect'[OrderOf(w)] = "done"
      BY <1>11, <2>2 DEF CommitEffect, RunPostActions, IInv, TypeOK
    <2>4. ~At(w, "idle") BY <2>1 DEF At, PaidSteps
    <2> QED BY <1>a, <1>b, <2>2, <2>3, <2>4, StepNames, StopChanges DEF CreatingSteps
  <1>12. ASSUME NEW o \in Orders,
                Buyer(o) \/ DeleteLiveServer(o) \/ PassDueTime(o) \/ ElapseBackoff(o)
                \/ ExpireLease(o)
         PROVE  Goal
    BY <1>0, <1>12 DEF Buyer, OpenCashier, Pay, ExpireTrade, DeleteLiveServer, PassDueTime,
       ElapseBackoff, ExpireLease
  <1>13. CASE UNCHANGED allVars BY <1>0, <1>13 DEF allVars
  <1> QED BY <1>1, <1>2, <1>3, <1>4, <1>5, <1>6, <1>7, <1>8, <1>9, <1>10, <1>11, <1>12, <1>13
      DEF Next, ServiceNext, ApplyNext, ApplyStep, StartClose, StartCancel

-------------------------------------------------------------------------------
(* The inductive invariant, part by part *)

\* An order a task works on stays placed.
LEMMA OrdersStay ==
  ASSUME IInv, [Next]_allVars
  PROVE  TasksHaveOrders'
  <1>1. \A o \in Orders : order[o].status # "absent" => order'[o].status # "absent"
    BY StatusStep DEF StatusMoves
  <1>2. ASSUME NEW v \in Workers, task'[v].pc # "idle"
        PROVE  task'[v].order \in Orders /\ order'[task'[v].order].status # "absent"
    <2>1. TaskChanges(v) BY TaskChange
    <2>2. CASE task'[v] = task[v] \/ Continues(v)
      <3>1. task'[v].order = task[v].order /\ ~At(v, "idle")
        BY <1>2, <2>2 DEF Continues, At
      <3>2. OrderOf(v) \in Orders /\ order[OrderOf(v)].status # "absent" BY <3>1, Busy DEF IInv
      <3> QED BY <1>1, <3>1, <3>2 DEF OrderOf
    <2>3. CASE Starts(v) BY <1>1, <2>3 DEF Starts
    <2>4. CASE Places(v)
      <3>1. task'[v].order \in Orders BY <2>4 DEF Places
      <3>2. order' = [order EXCEPT ![task'[v].order].status = "pending"]
        BY <2>4 DEF Places, PlaceOrder
      <3>3. order'[task'[v].order].status = "pending"
        <4>1. order[task'[v].order] \in OrderRow BY <3>1 DEF IInv, TypeOK
        <4>2. order'[task'[v].order] = [order[task'[v].order] EXCEPT !.status = "pending"]
          BY <3>1, <3>2 DEF IInv, TypeOK
        <4>3. "pending" \in Statuses BY StatusNames
        <4> QED BY <4>1, <4>2, <4>3, Restated
      <3> QED BY <3>1, <3>3
    <2> QED BY <1>2, <2>1, <2>2, <2>3, <2>4 DEF TaskChanges
  <1> QED BY <1>2 DEF TasksHaveOrders, At, OrderOf

\* Who is creating an order after a step was creating it before, or placed it just now.
LEMMA CreatorBefore ==
  ASSUME IInv, [Next]_allVars, NEW v \in Workers, task'[v].pc \in CreatingSteps
  PROVE  \/ /\ task[v].pc \in CreatingSteps
            /\ task'[v].order = task[v].order
         \/ Places(v)
  BY TaskChange DEF TaskChanges, Continues, Starts, CreatingSteps

\* An order keeps at most one creating request, and stays until that one deletes it.
LEMMA CreatorStays ==
  ASSUME IInv, [Next]_allVars
  PROVE  OneCreator'
  <1>0. \A w \in Workers : task[w].pc \in CreatingSteps =>
            OrderOf(w) \in Orders /\ order[OrderOf(w)].status \notin {"absent", "deleted"}
    <2>1. \A w \in Workers : task[w].pc \in CreatingSteps => ~At(w, "idle")
      BY DEF CreatingSteps, At
    <2> QED BY <2>1, Busy DEF IInv, OneCreator
  <1>1. ASSUME NEW w \in Workers, task'[w].pc \in CreatingSteps,
               order'[task'[w].order].status = "deleted"
        PROVE  FALSE
    <2>1. CASE Places(w)
      <3>1. task'[w].order \in Orders /\ order[task'[w].order].status = "absent"
        BY <2>1 DEF Places, PlaceOrder
      <3>2. \A x \in Workers : ~DeleteFailedOrder(x)
        <4> SUFFICES ASSUME NEW x \in Workers, DeleteFailedOrder(x) PROVE FALSE
          OBVIOUS
        <4>1. Stop(x) BY DEF DeleteFailedOrder
        <4>2. \A u \in Workers : task'[u] = IF u = x THEN Idle ELSE task[u]
          BY <4>1, TaskRows DEF IInv
        <4>3. task[w].pc = "idle" /\ task'[w].pc = "create" BY <2>1 DEF Places, PlaceOrder, At
        <4> QED BY <4>2, <4>3 DEF Idle
      <3> QED BY <1>1, <3>1, <3>2, StatusStep DEF StatusMoves
    <2>2. CASE task[w].pc \in CreatingSteps /\ task'[w].order = task[w].order
      <3> DEFINE o == OrderOf(w)
      <3>1. o \in Orders /\ order[o].status \notin {"absent", "deleted"} BY <1>0, <2>2
      <3>2. PICK x \in Workers : DeleteFailedOrder(x) /\ OrderOf(x) = o
        BY <1>1, <2>2, <3>1, StatusStep DEF StatusMoves, OrderOf
      <3>3. task[x].pc \in CreatingSteps BY <3>2 DEF DeleteFailedOrder, At, CreatingSteps
      <3>4. x = w BY <2>2, <3>2, <3>3 DEF IInv, OneCreator
      <3>5. task'[w].pc = "idle" BY <3>2, <3>4, TaskRows DEF DeleteFailedOrder, Idle, IInv
      <3> QED BY <1>1, <3>5 DEF CreatingSteps
    <2> QED BY <1>1, <2>1, <2>2, CreatorBefore
  <1>2. ASSUME NEW v \in Workers, NEW w \in Workers, task'[v].pc \in CreatingSteps,
               task'[w].pc \in CreatingSteps, task'[v].order = task'[w].order
        PROVE  v = w
    <2>1. ASSUME NEW x \in Workers, NEW y \in Workers, Places(x), x # y,
                 task'[y].pc \in CreatingSteps
          PROVE  task'[y].order # task'[x].order /\ ~Places(y)
      <3>1. task'[x].order \in Orders BY <2>1 DEF Places
      <3>2. task'[y] = task[y]
        BY <2>1, <3>1, StepNames, TaskRows DEF Places, PlaceOrder, IInv
      <3>3. task[y].pc \in CreatingSteps BY <2>1, <3>2
      <3>4. order[task[y].order].status # "absent" BY <1>0, <3>3 DEF OrderOf
      <3>5. order[task'[x].order].status = "absent" BY <2>1 DEF Places, PlaceOrder
      <3>6. ~Places(y) BY <3>3 DEF Places, PlaceOrder, At, CreatingSteps
      <3> QED BY <3>2, <3>4, <3>5, <3>6
    <2>2. CASE task[v].pc \in CreatingSteps /\ task[w].pc \in CreatingSteps
               /\ task'[v].order = task[v].order /\ task'[w].order = task[w].order
      BY <1>2, <2>2 DEF IInv, OneCreator, OrderOf
    <2> QED BY <1>2, <2>1, <2>2, CreatorBefore
  <1> QED BY <1>1, <1>2 DEF OneCreator, OrderOf

\* A trade comes into being only when its creator asks for it.
LEMMA GatewayStays ==
  ASSUME IInv, [Next]_allVars
  PROVE  UnknownToGateway'
  <1>a. \A w \in Workers : At(w, "create") =>
           OrderOf(w) \in Orders /\ order[OrderOf(w)].status # "absent"
    BY Busy DEF At, IInv
  <1>1. ASSUME NEW o \in Orders, order'[o].status = "absent" PROVE trade'[o].state = "none"
    <2>1. order[o].status = "absent" BY <1>1, StatusStep DEF StatusMoves
    <2>2. trade[o].state = "none" BY <2>1 DEF IInv, UnknownToGateway
    <2>3. TradeMoves(o) BY TradeStep
    <2> QED BY <1>a, <2>1, <2>2, <2>3 DEF TradeMoves
  <1>2. ASSUME NEW w \in Workers, task'[w].pc \in {"create", "rollback", "delete"}
        PROVE  trade'[task'[w].order].state = "none"
    <2>1. TaskChanges(w) BY TaskChange
    <2>2. CASE task'[w] = task[w]
      <3> DEFINE o == OrderOf(w)
      <3>0. ~At(w, "idle") /\ task[w].pc \in CreatingSteps BY <1>2, <2>2 DEF At, CreatingSteps
      <3>1. o \in Orders BY <3>0, Busy DEF IInv
      <3>2. trade[o].state = "none" BY <1>2, <2>2 DEF IInv, UnknownToGateway
      <3>3. \A x \in Workers :
               At(x, "create") /\ OrderOf(x) = o => task'[x].pc \notin {"persist", "uncertain"}
        <4> SUFFICES ASSUME NEW x \in Workers, At(x, "create"), OrderOf(x) = o
                     PROVE  task'[x].pc \notin {"persist", "uncertain"}
          OBVIOUS
        <4>1. x = w BY <3>0 DEF At, CreatingSteps, IInv, OneCreator
        <4> QED BY <1>2, <4>1
      <3>4. trade'[o] = trade[o] BY <3>1, <3>2, <3>3, TradeStep DEF TradeMoves
      <3> QED BY <2>2, <3>2, <3>4 DEF OrderOf
    <2>3. CASE Continues(w)
      <3>1. task[w].pc \in {"create", "rollback"} /\ UNCHANGED trade
        BY <1>2, <2>3 DEF Continues
      <3>2. trade[OrderOf(w)].state = "none" BY <3>1 DEF IInv, UnknownToGateway
      <3> QED BY <2>3, <3>1, <3>2 DEF Continues, OrderOf
    <2>4. CASE Places(w)
      BY <2>4 DEF Places, PlaceOrder, IInv, UnknownToGateway
    <2> QED BY <1>2, <2>1, <2>2, <2>3, <2>4 DEF TaskChanges, Starts
  <1> QED BY <1>1, <1>2 DEF UnknownToGateway, OrderOf

\* A recorded payment is never lost.
LEMMA PaidKept ==
  ASSUME IInv, [Next]_allVars, NEW o \in Orders
  PROVE  /\ PaidTxs(o) \subseteq PaidTxs(o)'
         /\ HasPayment(o) => HasPayment(o)'
  <1>1. ASSUME NEW t \in Txs, tx[o][t] \in {"succeeded", "refunded"}
        PROVE  tx'[o][t] = tx[o][t]
    <2>1. ASSUME NEW w \in Workers, DeleteFailedOrder(w), OrderOf(w) = o PROVE FALSE
      <3>1. trade[o].state = "none" BY <2>1 DEF DeleteFailedOrder, At, IInv, UnknownToGateway
      <3>2. trade[o].payments = {} BY <3>1 DEF IInv, FactsArePayments
      <3> QED BY <1>1, <3>2 DEF IInv, FactsArePayments, PaidTxs
    <2> QED BY <1>1, <2>1, TxStep DEF TxMoves
  <1> QED BY <1>1 DEF PaidTxs, HasPayment

\* What is on record stays backed by payments, and its order stays.
LEMMA FactsStay ==
  ASSUME IInv, [Next]_allVars
  PROVE  FactsArePayments'
  <1> SUFFICES ASSUME NEW o \in Orders
               PROVE  /\ trade'[o].payments # {} => trade'[o].state = "paid"
                      /\ PaidTxs(o)' \subseteq trade'[o].payments
                      /\ PaidTxs(o)' # {} => Exists(o)'
    BY DEF FactsArePayments
  <1>0. /\ trade[o].payments # {} => trade[o].state = "paid"
        /\ PaidTxs(o) \subseteq trade[o].payments
        /\ PaidTxs(o) # {} => Exists(o)
    BY DEF IInv, FactsArePayments
  <1>1. TradeMoves(o) BY TradeStep
  <1>2. \A w \in Workers : At(w, "create") \/ At(w, "delete") =>
           trade[OrderOf(w)].state = "none"
    BY DEF At, IInv, UnknownToGateway
  <1>3. trade'[o].payments # {} => trade'[o].state = "paid"
    BY <1>0, <1>1, <1>2 DEF TradeMoves
  <1>4. trade[o].payments \subseteq trade'[o].payments BY <1>1 DEF TradeMoves
  <1>5. \A t \in Txs : tx'[o][t] \in {"succeeded", "refunded"} =>
           t \in PaidTxs(o) \/ (t \in trade[o].payments /\ Exists(o))
    BY TxStep DEF TxMoves, PaidTxs
  <1>6. PaidTxs(o)' \subseteq trade'[o].payments BY <1>0, <1>4, <1>5 DEF PaidTxs
  <1>7. ASSUME NEW t \in Txs, tx'[o][t] \in {"succeeded", "refunded"} PROVE Exists(o)'
    <2>1. Exists(o) BY <1>0, <1>5, <1>7
    <2>2. ASSUME NEW w \in Workers, DeleteFailedOrder(w), OrderOf(w) = o,
                 order'[o].status = "deleted"
          PROVE  FALSE
      <3>1. trade[o].payments = {} BY <1>0, <1>2, <2>2 DEF DeleteFailedOrder
      <3>2. tx[o][t] \notin {"succeeded", "refunded"} BY <1>0, <3>1 DEF PaidTxs
      <3>3. t \in trade[o].payments BY <1>5, <1>7, <3>2 DEF PaidTxs
      <3> QED BY <3>1, <3>3
    <2> QED BY <2>1, <2>2, StatusStep DEF StatusMoves, Exists
  <1> QED BY <1>3, <1>6, <1>7 DEF PaidTxs

\* Effects are never undone, and a server that is gone stays gone.
LEMMA EffectsStay ==
  ASSUME IInv, [Next]_allVars, NEW o \in Orders
  PROVE  /\ effect[o] # "none" => effect'[o] # "none"
         /\ effect[o] = "done" => effect'[o] = "done"
         /\ server[o] = "none" /\ order[o].status # "absent" => server'[o] = "none"
  BY EffectStep DEF EffectMoves

\* The progress of an apply run stays backed by the payment and the effect row.
LEMMA ProgressStays ==
  ASSUME IInv, [Next]_allVars
  PROVE  ApplyProgress'
  <1> SUFFICES ASSUME NEW w \in Workers
               PROVE  /\ task'[w].pc \in PaidSteps => HasPayment(OrderOf(w))'
                      /\ task'[w].pc = "post" => effect'[task'[w].order] # "none"
                      /\ task'[w].pc = "finish" => effect'[task'[w].order] = "done"
                      /\ task'[w].pc = "stray" => server'[task'[w].order] = "none"
    BY DEF ApplyProgress, At, OrderOf
  <1>1. TaskChanges(w) BY TaskChange
  <1>2. CASE task'[w] = task[w]
    <2>1. CASE task[w].pc \in PaidSteps
      <3>1. ~At(w, "idle") BY <2>1 DEF At, PaidSteps
      <3>2. OrderOf(w) \in Orders /\ order[OrderOf(w)].status # "absent"
        BY <3>1, Busy DEF IInv
      <3>3. /\ HasPayment(OrderOf(w))
            /\ task[w].pc = "post" => effect[OrderOf(w)] # "none"
            /\ task[w].pc = "finish" => effect[OrderOf(w)] = "done"
            /\ task[w].pc = "stray" => server[OrderOf(w)] = "none"
        BY <2>1 DEF IInv, ApplyProgress, At
      <3>4. HasPayment(OrderOf(w)) =>
               \E t \in Txs : tx'[OrderOf(w)][t] \in {"succeeded", "refunded"}
        BY <3>2, PaidKept DEF HasPayment
      <3> QED BY <1>2, <3>2, <3>3, <3>4, EffectsStay DEF OrderOf, HasPayment
    <2> QED BY <1>2, <2>1 DEF PaidSteps
  <1>3. CASE Continues(w)
    <2>1. ~At(w, "idle") BY <1>3 DEF Continues
    <2>2. OrderOf(w) \in Orders BY <2>1, Busy DEF IInv
    <2>3. HasPayment(OrderOf(w)) => \E t \in Txs : tx'[OrderOf(w)][t] \in {"succeeded", "refunded"}
      BY <2>2, PaidKept DEF HasPayment
    <2> QED BY <1>3, <2>3 DEF Continues, OrderOf, HasPayment
  <1> QED BY <1>1, <1>2, <1>3 DEF TaskChanges, Starts, Places, PaidSteps

\* The effect row, the grant, the payment and the status stay in step.
LEMMA DeliveryStays ==
  ASSUME IInv, [Next]_allVars
  PROVE  StrayEffects' /\ GrantedOnce' /\ GrantedOnlyPaid' /\ AppliedIsDelivered'
  <1> SUFFICES ASSUME NEW o \in Orders
               PROVE  /\ effect'[o] # "none" /\ grants'[o] = 0 => server'[o] = "none"
                      /\ effect'[o] = "done" => grants'[o] = 1
                      /\ grants'[o] <= 1 /\ (grants'[o] = 1 => effect'[o] # "none")
                      /\ effect'[o] # "none" => HasPayment(o)'
                      /\ order'[o].status = "applied" => effect'[o] = "done" /\ grants'[o] = 1
    BY DEF StrayEffects, GrantedOnce, GrantedOnlyPaid, AppliedIsDelivered
  <1>0. /\ grants[o] \in Nat
        /\ effect[o] # "none" /\ grants[o] = 0 => server[o] = "none"
        /\ effect[o] = "done" => grants[o] = 1
        /\ grants[o] <= 1 /\ (grants[o] = 1 => effect[o] # "none")
        /\ effect[o] # "none" => HasPayment(o)
        /\ order[o].status = "applied" => effect[o] = "done" /\ grants[o] = 1
    BY DEF IInv, TypeOK, StrayEffects, GrantedOnce, GrantedOnlyPaid, AppliedIsDelivered
  <1>1. EffectMoves(o) BY EffectStep
  <1>2. HasPayment(o) => order[o].status # "absent"
    BY DEF HasPayment, PaidTxs, IInv, FactsArePayments, Exists
  <1>3. grants'[o] <= 1 /\ (grants'[o] = 1 => effect'[o] # "none")
    BY <1>0, <1>1 DEF EffectMoves
  <1>4. effect'[o] = "done" => grants'[o] = 1
    BY <1>0, <1>1 DEF EffectMoves
  <1>5. effect'[o] # "none" /\ grants'[o] = 0 => server'[o] = "none"
    BY <1>0, <1>1, <1>2 DEF EffectMoves
  <1>6. effect'[o] # "none" => HasPayment(o)'
    BY <1>0, <1>1, PaidKept DEF EffectMoves
  <1>7. ASSUME order'[o].status = "applied" PROVE effect'[o] = "done"
    <2>1. CASE order[o].status = "applied" BY <1>0, <2>1, EffectsStay
    <2>2. CASE \E w \in Workers : FinishApply(w) /\ OrderOf(w) = o
      BY <2>2 DEF FinishApply, IInv, ApplyProgress
    <2> QED BY <1>7, <2>1, <2>2, StatusStep DEF StatusMoves
  <1> QED BY <1>3, <1>4, <1>5, <1>6, <1>7

\* Every credit stays backed by one received payment.
LEMMA CreditsStay ==
  ASSUME IInv, [Next]_allVars
  PROVE  CreditedOnce'
  <1>1. ASSUME NEW o \in Orders, NEW t \in Txs
        PROVE  credits'[o][t] = IF tx'[o][t] \in {"succeeded", "refunded"} THEN 1 ELSE 0
    <2>1. credits[o][t] = IF tx[o][t] \in {"succeeded", "refunded"} THEN 1 ELSE 0
      BY DEF IInv, CreditedOnce
    <2>2. TxMoves(o, t) BY TxStep
    <2> QED BY <2>1, <2>2 DEF TxMoves
  <1> QED BY <1>1 DEF CreditedOnce

-------------------------------------------------------------------------------
(* The theorems *)

\* The invariant holds before any order is placed.
LEMMA InvInit ==
  ASSUME Init
  PROVE  IInv
  <1>1. TypeOK
    <2>1. FreshOrder \in OrderRow BY StatusNames DEF FreshOrder, OrderRow
    <2>2. order \in [Orders -> OrderRow] BY <2>1 DEF Init, StoreInit
    <2>3. invoice \in [Orders -> InvoiceRow] BY DEF Init, StoreInit, InvoiceRow, InvoiceStatuses
    <2>4. tx \in [Orders -> [Txs -> {"none", "succeeded", "failed", "refunded"}]]
      BY DEF Init, StoreInit
    <2>5. credits \in [Orders -> [Txs -> Nat]] /\ grants \in [Orders -> Nat]
      BY DEF Init, StoreInit
    <2>6. effect \in [Orders -> {"none", "committed", "done"}]
          /\ server \in [Orders -> {"none", "placeholder", "live"}]
          /\ answered \in [Orders -> SUBSET Txs]
      BY DEF Init, StoreInit
    <2>7. trade \in [Orders -> Trade] BY DEF Init, StoreInit, Trade
    <2>8. task \in [Workers -> Task] BY IdleType DEF Init, StoreInit
    <2> QED BY <2>2, <2>3, <2>4, <2>5, <2>6, <2>7, <2>8 DEF TypeOK
  <1>2. \A w \in Workers : task[w].pc = "idle" BY DEF Init, StoreInit, Idle
  <1>3. TasksHaveOrders /\ OneCreator /\ ApplyProgress
    BY <1>2 DEF TasksHaveOrders, OneCreator, ApplyProgress, At, CreatingSteps, PaidSteps
  <1>4. \A o \in Orders : trade[o].state = "none" /\ trade[o].payments = {} /\ PaidTxs(o) = {}
    BY DEF Init, StoreInit, PaidTxs
  <1>5. UnknownToGateway BY <1>2, <1>4 DEF UnknownToGateway
  <1>6. FactsArePayments BY <1>4 DEF FactsArePayments
  <1>7. CreditedOnce BY DEF Init, StoreInit, CreditedOnce
  <1>8. StrayEffects /\ GrantedOnce /\ GrantedOnlyPaid
    BY DEF Init, StoreInit, StrayEffects, GrantedOnce, GrantedOnlyPaid
  <1>9. AppliedIsDelivered BY DEF Init, StoreInit, AppliedIsDelivered, FreshOrder
  <1> QED BY <1>1, <1>3, <1>5, <1>6, <1>7, <1>8, <1>9 DEF IInv

\* Every step keeps the invariant.
LEMMA InvStep ==
  ASSUME IInv, [Next]_allVars
  PROVE  IInv'
  <1>1. TypeOK' BY TypeStep DEF IInv
  <1> QED BY <1>1, OrdersStay, CreatorStays, GatewayStays, FactsStay, ProgressStays,
      DeliveryStays, CreditsStay DEF IInv

\* The inductive invariant holds in every reachable state.
THEOREM Invariant == Spec => []IInv
  <1>1. Init => IInv BY InvInit
  <1>2. IInv /\ [Next]_allVars => IInv' BY InvStep
  <1> QED BY <1>1, <1>2, PTL DEF Spec

\* Type correctness of the tables, the gateway and the tasks.
THEOREM TypeCorrect == Spec => []TypeOK
  <1>1. IInv => TypeOK BY DEF IInv
  <1> QED BY <1>1, Invariant, PTL

\* add_payment adds a transaction to received_fen exactly once, whoever reports it and
\* how often.
THEOREM MoneyCreditedOnce == Spec => []CreditedOnce
  <1>1. IInv => CreditedOnce BY DEF IInv
  <1> QED BY <1>1, Invariant, PTL

\* However many apply runs overlap, crash or outlive their lease, an order's days or
\* plan reach the server at most once.
THEOREM DeliveredOnce == Spec => []GrantedOnce
  <1>1. IInv => GrantedOnce BY DEF IInv
  <1> QED BY <1>1, Invariant, PTL

\* apply_paid_order writes an effect only for an order with a payment on record.
THEOREM DeliveredForMoney == Spec => []GrantedOnlyPaid
  <1>1. IInv => GrantedOnlyPaid BY DEF IInv
  <1> QED BY <1>1, Invariant, PTL

\* Whichever apply run wrote the status, an applied order has been delivered.
THEOREM AppliedMeansDelivered == Spec => []AppliedIsDelivered
  <1>1. IInv => AppliedIsDelivered BY DEF IInv
  <1> QED BY <1>1, Invariant, PTL

-------------------------------------------------------------------------------
(* What one step does to one order *)

\* Orders that are refunded are the concern of Refunds; without it there are none.
NoRefunds == \A o \in Orders : order[o].status \notin {"refunding", "refunded"}

LInv == IInv /\ NoRefunds

SameMoney(o) == PaidTxs(o)' = PaidTxs(o) /\ grants'[o] = grants[o]

\* The ways one order may move, with what is known when it does.
LocalMoves(o) ==
    LET old == order[o].status
        new == order'[o].status
    IN
    \/ new = old /\ SameMoney(o)
    \/ old = "absent" /\ new = "pending" /\ SameMoney(o)
    \/ old = "pending" /\ new = "processing" /\ SameMoney(o)
    \/ old = "pending" /\ new \in {"closed", "cancelled"} /\ PaidTxs(o) = {} /\ SameMoney(o)
    \/ Exists(o) /\ new = "deleted" /\ PaidTxs(o) = {} /\ SameMoney(o)
    \/ Exists(o) /\ new = "applied" /\ grants[o] = 1 /\ SameMoney(o)
    \/ Exists(o) /\ new = "apply_failed" /\ PaidTxs(o) # {} /\ SameMoney(o)
    \/ old \in {"manual_review", "apply_failed"} /\ new \in {"processing", "closed"}
       /\ SameMoney(o)
    \/ Exists(o) /\ new = old /\ PaidTxs(o) # {} /\ PaidTxs(o)' = PaidTxs(o)
       /\ grants[o] = 0 /\ grants'[o] = 1
    \/ /\ Exists(o) /\ grants'[o] = grants[o]
       /\ new = "manual_review" \/ (new = old /\ old \notin {"closed", "cancelled"})
       /\ \E t \in Txs \ PaidTxs(o) : PaidTxs(o)' = PaidTxs(o) \cup {t}

Unmoved(o) == order'[o].status = order[o].status /\ SameMoney(o)

\* At most one order moves.
OneMoves ==
    \E o \in Orders : LocalMoves(o) /\ \A p \in Orders \ {o} : Unmoved(p)

\* A step that leaves the transactions and the grants alone moves no money.
LEMMA MoneyStays ==
  ASSUME UNCHANGED <<tx, grants>>
  PROVE  \A o \in Orders : SameMoney(o)
  BY DEF SameMoney, PaidTxs

\* Rewriting one row moves one order.
LEMMA RowMovesOne ==
  ASSUME TypeOK, UNCHANGED <<tx, grants>>, NEW o \in Orders, NEW row \in OrderRow,
         order' = [order EXCEPT ![o] = row],
         LET old == order[o].status
             new == row.status
         IN
         \/ new = old
         \/ old = "absent" /\ new = "pending"
         \/ old = "pending" /\ new = "processing"
         \/ old = "pending" /\ new \in {"closed", "cancelled"} /\ PaidTxs(o) = {}
         \/ Exists(o) /\ new = "applied" /\ grants[o] = 1
         \/ Exists(o) /\ new = "apply_failed" /\ PaidTxs(o) # {}
         \/ old \in {"manual_review", "apply_failed"} /\ new \in {"processing", "closed"}
  PROVE  OneMoves
  <1>1. \A p \in Orders : order'[p] = IF p = o THEN row ELSE order[p] BY DEF TypeOK
  <1>2. \A p \in Orders : SameMoney(p) BY MoneyStays
  <1>3. LocalMoves(o) BY <1>1, <1>2 DEF LocalMoves
  <1>4. \A p \in Orders \ {o} : Unmoved(p) BY <1>1, <1>2 DEF Unmoved
  <1> QED BY <1>3, <1>4 DEF OneMoves

\* A step that touches neither statuses nor money moves no order.
LEMMA NothingMoves ==
  ASSUME UNCHANGED <<order, tx, grants>>, NEW o \in Orders
  PROVE  OneMoves
  <1>1. \A p \in Orders : SameMoney(p) BY MoneyStays
  <1> QED BY <1>1 DEF OneMoves, LocalMoves, Unmoved

\* A payment that is recorded moves its order, to manual_review or not at all.
LEMMA AddPaymentMovesOne ==
  ASSUME LInv, NEW w \in Workers, NEW o \in Orders, NEW t \in Txs,
         NEW seen \in InvoiceStatuses, AddPayment(w, o, t, seen)
  PROVE  OneMoves
  <1>1. CASE UNCHANGED <<order, invoice, tx, credits>>
    <2>1. UNCHANGED <<order, tx, grants>> BY <1>1 DEF AddPayment
    <2> QED BY <2>1, NothingMoves
  <1>2. CASE ~KnownTx(o, t) /\ RecordFact(o, t, seen)
    <2>a. TypeOK /\ order[o].status \notin {"refunding", "refunded"} BY DEF LInv, IInv, NoRefunds
    <2>b. Exists(o) /\ UNCHANGED grants BY DEF AddPayment
    <2> DEFINE status == StatusAfterPayment(o, t, seen)
               row == [order[o] EXCEPT !.status = status]
    <2>1. order[o] \in OrderRow BY <2>a DEF TypeOK
    <2>2. \/ status = "manual_review"
          \/ status = order[o].status /\ order[o].status \notin {"closed", "cancelled"}
      BY <2>a DEF StatusAfterPayment, NeedsReview
    <2>3. status \in Statuses BY <2>1, <2>2, StatusNames DEF OrderRow
    <2>4. row \in OrderRow /\ row.status = status
      <3> HIDE DEF status
      <3> QED BY <2>1, <2>3, Restated, Zenon
    <2>5. order' = [order EXCEPT ![o] = row] BY <1>2 DEF RecordFact
    <2> HIDE DEF status, row
    <2>6. \A p \in Orders : order'[p] = IF p = o THEN row ELSE order[p] BY <2>a, <2>5 DEF TypeOK
    <2>7. \A p \in Orders, s \in Txs : tx'[p][s] = IF p = o /\ s = t THEN "succeeded" ELSE tx[p][s]
      BY <1>2, <2>a DEF RecordFact, TypeOK
    <2>8. \A p \in Orders \ {o} : Unmoved(p)
      BY <2>b, <2>6, <2>7 DEF Unmoved, SameMoney, PaidTxs
    <2>9. t \notin PaidTxs(o) /\ PaidTxs(o)' = PaidTxs(o) \cup {t}
      BY <1>2, <2>7 DEF KnownTx, PaidTxs
    <2>10. LocalMoves(o)
      <3>1. order'[o].status = status BY <2>4, <2>6
      <3> QED BY <2>2, <2>b, <2>9, <3>1 DEF LocalMoves
    <2> QED BY <2>8, <2>10 DEF OneMoves
  <1> QED BY <1>1, <1>2 DEF AddPayment

\* Every step moves at most one order, in one of the ways listed.
LEMMA StepMovesOne ==
  ASSUME LInv, [Next]_allVars, Orders # {}
  PROVE  OneMoves
  <1>a. IInv /\ TypeOK BY DEF LInv, IInv
  <1>0. CASE UNCHANGED <<order, tx, grants>> BY <1>0, NothingMoves
  <1>b. \A o \in Orders : order[o] \in OrderRow BY <1>a DEF TypeOK
  <1>1. ASSUME NEW w \in Workers, NEW o \in Orders, PlaceOrder(w, o) PROVE OneMoves
    <2>1. [order[o] EXCEPT !.status = "pending"] \in OrderRow
          /\ [order[o] EXCEPT !.status = "pending"].status = "pending"
      BY <1>b, StatusNames, Restated
    <2>2. UNCHANGED <<tx, grants>> /\ order[o].status = "absent"
          /\ order' = [order EXCEPT ![o] = [order[o] EXCEPT !.status = "pending"]]
      BY <1>1 DEF PlaceOrder
    <2> QED BY <1>a, <2>1, <2>2, RowMovesOne
  <1>2. ASSUME NEW o \in Orders, NEW w \in Workers, UNCHANGED <<tx, grants>>,
               \/ order' = [order EXCEPT ![o] = Leased(@, w)]
               \/ order' = [order EXCEPT ![o] = Unlocked(@)]
        PROVE  OneMoves
    <2>1. /\ Leased(order[o], w) \in OrderRow /\ Leased(order[o], w).status = order[o].status
          /\ Unlocked(order[o]) \in OrderRow /\ Unlocked(order[o]).status = order[o].status
      BY <1>b, RowTypes, RowStatus
    <2> QED BY <1>a, <1>2, <2>1, RowMovesOne
  <1>3. ASSUME NEW w \in Workers, NEW o \in Orders, NEW mode \in {"close", "cancel"},
               ClaimPending(w, o, mode)
        PROVE  OneMoves
    BY <1>2, <1>3 DEF ClaimPending
  <1>4. ASSUME NEW w \in Workers, QueryTrade(w) \/ RequeryTrade(w) \/ ReleaseLease(w)
        PROVE  OneMoves
    <2>1. OrderOf(w) \in Orders
      BY <1>4, <1>a, Busy DEF QueryTrade, RequeryTrade, ReleaseLease, At, IInv
    <2>2. UNCHANGED <<tx, grants>> BY <1>4 DEF QueryTrade, RequeryTrade, ReleaseLease
    <2>3. UNCHANGED order \/ order' = [order EXCEPT ![OrderOf(w)] = Unlocked(@)]
      BY <1>4 DEF QueryTrade, RequeryTrade, ReleaseLease, ReleaseIfMine
    <2> QED BY <1>0, <1>2, <2>1, <2>2, <2>3
  <1>5. ASSUME NEW w \in Workers, EndLocally(w) PROVE OneMoves
    <2>1. OrderOf(w) \in Orders BY <1>5, <1>a, Busy DEF EndLocally, At, IInv
    <2> DEFINE o == OrderOf(w)
               row == [Unlocked(order[o]) EXCEPT !.status = EndedStatus(w)]
    <2>2. EndedStatus(w) \in {"closed", "cancelled"} BY DEF EndedStatus
    <2>3. EndedStatus(w) \in Statuses /\ Unlocked(order[o]) \in OrderRow
      BY <1>b, <2>1, <2>2, StatusNames, RowTypes
    <2>4. row \in OrderRow /\ row.status = EndedStatus(w) BY <2>3, Restated, Zenon
    <2>5. UNCHANGED <<tx, grants>> BY <1>5 DEF EndLocally
    <2>6. \/ UNCHANGED order
          \/ MayEndLocally(w, o) /\ order' = [order EXCEPT ![o] = row]
      BY <1>5 DEF EndLocally
    <2>7. MayEndLocally(w, o) => order[o].status = "pending" /\ PaidTxs(o) = {}
      BY DEF MayEndLocally, HasPayment, PaidTxs
    <2> HIDE DEF row
    <2> QED BY <1>0, <1>a, <2>1, <2>2, <2>4, <2>5, <2>6, <2>7, RowMovesOne
  <1>6. ASSUME NEW w \in Workers, DeleteFailedOrder(w) PROVE OneMoves
    <2> DEFINE o == OrderOf(w)
               row == [FreshOrder EXCEPT !.status = "deleted"]
    <2>0. ~At(w, "idle") /\ task[w].pc \in CreatingSteps /\ At(w, "delete") /\ UNCHANGED grants
      BY <1>6 DEF DeleteFailedOrder, At, CreatingSteps
    <2>1. o \in Orders /\ order[o].status # "absent" /\ order[o].status # "deleted"
      BY <1>a, <2>0, Busy DEF IInv, OneCreator
    <2>2. PaidTxs(o) = {}
      <3>1. trade[o].state = "none" BY <1>a, <2>0 DEF At, IInv, UnknownToGateway
      <3> QED BY <1>a, <2>1, <3>1 DEF IInv, FactsArePayments
    <2>3. CASE UNCHANGED <<order, tx>> BY <1>0, <2>0, <2>3
    <2>4. CASE order' = [order EXCEPT ![o] = row] /\ tx' = [tx EXCEPT ![o] = [t \in Txs |-> "none"]]
      <3>1. FreshOrder \in OrderRow /\ "deleted" \in Statuses
        BY StatusNames DEF FreshOrder, OrderRow
      <3>2. row.status = "deleted" BY <3>1, Restated, Zenon
      <3> HIDE DEF row
      <3>3. \A p \in Orders : order'[p] = IF p = o THEN row ELSE order[p]
        BY <1>a, <2>4 DEF TypeOK
      <3>4. \A p \in Orders, s \in Txs : tx'[p][s] = IF p = o THEN "none" ELSE tx[p][s]
        BY <1>a, <2>4 DEF TypeOK
      <3>5. \A p \in Orders : SameMoney(p)
        BY <2>0, <2>2, <3>4 DEF SameMoney, PaidTxs
      <3> QED BY <2>1, <2>2, <3>2, <3>3, <3>5 DEF OneMoves, LocalMoves, Unmoved, Exists
    <2> QED BY <1>6, <2>3, <2>4 DEF DeleteFailedOrder
  <1>7. ASSUME NEW w \in Workers, RecordQueriedPayment(w) PROVE OneMoves
    BY <1>7, <1>a, QueriedSteps, PaymentTxs, AddPaymentMovesOne
  <1>8. ASSUME NEW w \in Workers, NEW o \in Orders, Reports(w, o) PROVE OneMoves
    <2>1. ASSUME NEW t \in Txs, MarkTransactionFailed(w, o, t) PROVE OneMoves
      <3>1. \A p \in Orders, s \in Txs : tx'[p][s] = IF p = o /\ s = t THEN "failed" ELSE tx[p][s]
        BY <1>a, <2>1 DEF MarkTransactionFailed, TypeOK
      <3>2. tx[o][t] = "none" /\ UNCHANGED <<order, grants>> BY <2>1 DEF MarkTransactionFailed
      <3>3. \A p \in Orders : SameMoney(p) BY <3>1, <3>2 DEF SameMoney, PaidTxs
      <3> QED BY <3>2, <3>3 DEF OneMoves, LocalMoves, Unmoved
    <2> QED BY <1>8, <1>a, <2>1, ReportSteps, PaymentTxs, AddPaymentMovesOne
  <1>9. ASSUME NEW w \in Workers, PushToProcessing(w) \/ ClaimApply(w) PROVE OneMoves
    <2>1. OrderOf(w) \in Orders BY <1>9, <1>a, Busy DEF PushToProcessing, ClaimApply, At, IInv
    <2> DEFINE o == OrderOf(w)
    <2>2. UNCHANGED <<tx, grants>> BY <1>9 DEF PushToProcessing, ClaimApply
    <2>3. CASE order' = [order EXCEPT ![o] = Leased(@, w)] BY <1>2, <2>1, <2>2, <2>3
    <2>4. ASSUME NEW status \in Statuses, order' = [order EXCEPT ![o].status = status],
                 status = order[o].status \/ (order[o].status = "pending" /\ status = "processing")
          PROVE  OneMoves
      <3> DEFINE row == [order[o] EXCEPT !.status = status]
      <3>1. row \in OrderRow /\ row.status = status BY <1>b, <2>1, Restated, Zenon
      <3>2. order' = [order EXCEPT ![o] = row] BY <2>4
      <3> HIDE DEF row
      <3> QED BY <1>a, <2>1, <2>2, <2>4, <3>1, <3>2, RowMovesOne
    <2>5. order[o].status \in Statuses /\ "processing" \in Statuses
      BY <1>b, <2>1, StatusNames DEF OrderRow
    <2> QED BY <1>0, <1>9, <2>2, <2>3, <2>4, <2>5 DEF PushToProcessing, ClaimApply
  <1>10. ASSUME NEW w \in Workers,
                FinishApply(w) \/ RecordFailure(w) \/ RecordFailureWithStray(w)
                \/ TerminateApply(w)
         PROVE  OneMoves
    <2>0. /\ ~At(w, "idle") /\ task[w].pc \in PaidSteps /\ UNCHANGED <<tx, grants>>
          /\ FinishApply(w) => At(w, "finish")
      BY <1>10 DEF FinishApply, RecordFailure, RecordFailureWithStray, TerminateApply, At, PaidSteps
    <2>1. OrderOf(w) \in Orders BY <1>a, <2>0, Busy DEF IInv
    <2> DEFINE o == OrderOf(w)
    <2>2. order[o] \in OrderRow BY <1>b, <2>1
    <2>3. Exists(o) /\ PaidTxs(o) # {}
      <3>1. HasPayment(o) BY <1>a, <2>0 DEF IInv, ApplyProgress
      <3>2. PaidTxs(o) # {} BY <3>1 DEF HasPayment, PaidTxs
      <3> QED BY <1>a, <2>1, <3>2 DEF IInv, FactsArePayments
    <2>4. CASE UNCHANGED order BY <1>0, <2>0, <2>4
    <2>5. CASE FinishApply(w) /\ order' = [order EXCEPT ![o] = AppliedRow(@)]
      <3>1. AppliedRow(order[o]) \in OrderRow /\ AppliedRow(order[o]).status = "applied"
        BY <2>2, RowTypes, RowStatus
      <3>2. grants[o] = 1
        BY <1>a, <2>0, <2>1, <2>5 DEF IInv, ApplyProgress, StrayEffects
      <3> QED BY <1>a, <2>0, <2>1, <2>3, <2>5, <3>1, <3>2, RowMovesOne
    <2>6. ASSUME NEW row \in {RetriedRow(order[o]), FailedRow(order[o])},
                 order' = [order EXCEPT ![o] = row]
          PROVE  OneMoves
      <3>0. /\ RetriedRow(order[o]) \in OrderRow /\ FailedRow(order[o]) \in OrderRow
            /\ RetriedRow(order[o]).status \in {order[o].status, "apply_failed"}
            /\ FailedRow(order[o]).status = "apply_failed"
        <4> HIDE DEF o
        <4> QED BY <2>2, RowTypes, RowStatus
      <3>1. row \in OrderRow /\ row.status \in {order[o].status, "apply_failed"}
        BY <2>6, <3>0
      <3> QED BY <1>a, <2>0, <2>1, <2>3, <2>6, <3>1, RowMovesOne
    <2> QED BY <1>10, <2>4, <2>5, <2>6
        DEF FinishApply, RecordFailure, RecordFailureWithStray, TerminateApply
  <1>11. ASSUME NEW w \in Workers, CommitEffect(w) PROVE OneMoves
    <2>0. ~At(w, "idle") /\ task[w].pc \in PaidSteps /\ UNCHANGED <<order, tx>>
      BY <1>11 DEF CommitEffect, At, PaidSteps
    <2> SUFFICES ASSUME NEW o \in Orders, o = OrderOf(w) PROVE OneMoves
      BY <1>a, <2>0, Busy DEF IInv
    <2>1. o \in Orders OBVIOUS
    <2>2. CASE UNCHANGED grants BY <1>0, <2>0, <2>2
    <2>3. CASE EffectRowFree(o) /\ grants' = [grants EXCEPT ![o] = @ + 1]
      <3>1. Exists(o) /\ PaidTxs(o) # {}
        <4>1. HasPayment(o) BY <1>a, <2>0 DEF IInv, ApplyProgress
        <4>2. PaidTxs(o) # {} BY <4>1 DEF HasPayment, PaidTxs
        <4> QED BY <1>a, <2>1, <4>2 DEF IInv, FactsArePayments
      <3>2. grants[o] = 0
        <4>1. grants[o] \in Nat BY <1>a DEF TypeOK
        <4>2. grants[o] <= 1 /\ grants[o] # 1
          BY <1>a, <2>3 DEF IInv, GrantedOnce, EffectRowFree
        <4> QED BY <4>1, <4>2
      <3>3. \A p \in Orders : grants'[p] = IF p = o THEN 1 ELSE grants[p]
        BY <1>a, <2>1, <2>3, <3>2 DEF TypeOK
      <3>4. \A p \in Orders : PaidTxs(p)' = PaidTxs(p) BY <2>0 DEF PaidTxs
      <3>5. LocalMoves(o) BY <2>0, <2>1, <3>1, <3>2, <3>3, <3>4 DEF LocalMoves
      <3>6. \A p \in Orders \ {o} : Unmoved(p) BY <2>0, <3>3, <3>4 DEF Unmoved, SameMoney
      <3> QED BY <2>1, <3>5, <3>6 DEF OneMoves
    <2>4. UNCHANGED grants \/ (EffectRowFree(o) /\ grants' = [grants EXCEPT ![o] = @ + 1])
      BY <1>11 DEF CommitEffect
    <2> QED BY <2>2, <2>3, <2>4
  <1>12. ASSUME NEW w \in Workers, NEW o \in Orders, ForceApply(w, o) \/ ForceClose(w, o)
         PROVE  OneMoves
    <2>0. order[o].status \in {"manual_review", "apply_failed"} /\ UNCHANGED <<tx, grants>>
      BY <1>12, Zenon DEF ForceApply, ForceClose, Reviewable
    <2>1. CASE ForceApply(w, o)
      <3> DEFINE row == [order[o] EXCEPT !.status = "processing", !.backoff = FALSE, !.retries = 0]
      <3>1. row \in OrderRow /\ row.status = "processing"
        <4>1. 0 \in Nat OBVIOUS
        <4> QED BY <1>b, <4>1, StatusNames, Zenon DEF OrderRow
      <3>2. order' = [order EXCEPT ![o] = row] BY <2>1 DEF ForceApply
      <3> HIDE DEF row
      <3> QED BY <1>a, <2>0, <3>1, <3>2, RowMovesOne
    <2>2. CASE ForceClose(w, o)
      <3> DEFINE row == [order[o] EXCEPT !.status = "closed"]
      <3>1. row \in OrderRow /\ row.status = "closed" BY <1>b, StatusNames, Restated
      <3>2. order' = [order EXCEPT ![o] = row] BY <2>2 DEF ForceClose
      <3> HIDE DEF row
      <3> QED BY <1>a, <2>0, <3>1, <3>2, RowMovesOne
    <2> QED BY <1>12, <2>1, <2>2
  <1>13. ASSUME NEW o \in Orders, ElapseBackoff(o) \/ ExpireLease(o) PROVE OneMoves
    <2>1. \A row \in OrderRow :
             /\ [row EXCEPT !.backoff = FALSE] \in OrderRow
             /\ [row EXCEPT !.backoff = FALSE].status = row.status
             /\ [row EXCEPT !.expired = TRUE] \in OrderRow
             /\ [row EXCEPT !.expired = TRUE].status = row.status
      BY Zenon DEF OrderRow
    <2>2. UNCHANGED <<tx, grants>> BY <1>13 DEF ElapseBackoff, ExpireLease
    <2>3. \/ order' = [order EXCEPT ![o] = [order[o] EXCEPT !.backoff = FALSE]]
          \/ order' = [order EXCEPT ![o] = [order[o] EXCEPT !.expired = TRUE]]
      BY <1>13 DEF ElapseBackoff, ExpireLease
    <2>4. \E row \in OrderRow : row.status = order[o].status /\ order' = [order EXCEPT ![o] = row]
      BY <1>b, <2>1, <2>3
    <2> QED BY <1>a, <2>2, <2>4, RowMovesOne
  <1>14. ASSUME NEW w \in Workers, NEW o \in Orders, StartRetry(w, o) \/ CleanupPlaceholder(w, o)
         PROVE  OneMoves
    BY <1>0, <1>14 DEF StartRetry, CleanupPlaceholder
  <1>15. ASSUME NEW w \in Workers,
                \/ CreateTrade(w) \/ PersistTrade(w) \/ MarkUncertain(w) \/ RollbackPlaceholder(w)
                \/ CloseTrade(w) \/ CleanupEnded(w) \/ BeginEffect(w) \/ RunPostActions(w)
                \/ DropServer(w) \/ Crash(w)
         PROVE  OneMoves
    BY <1>0, <1>15 DEF CreateTrade, PersistTrade, MarkUncertain, RollbackPlaceholder, CloseTrade,
       CleanupEnded, BeginEffect, RunPostActions, DropServer, Crash
  <1>16. ASSUME NEW o \in Orders, Buyer(o) \/ DeleteLiveServer(o) \/ PassDueTime(o) PROVE OneMoves
    BY <1>0, <1>16 DEF Buyer, OpenCashier, Pay, ExpireTrade, DeleteLiveServer, PassDueTime
  <1>17. CASE UNCHANGED allVars BY <1>0, <1>17 DEF allVars
  <1> QED BY <1>1, <1>3, <1>4, <1>5, <1>6, <1>7, <1>8, <1>9, <1>10, <1>11, <1>12, <1>13, <1>14,
      <1>15, <1>16, <1>17
      DEF Next, ServiceNext, ApplyNext, ApplyStep, StartClose, StartCancel, Admin

\* No order becomes one that is refunded.
LEMMA LInvStep ==
  ASSUME LInv, [Next]_allVars
  PROVE  LInv'
  <1>1. IInv' BY InvStep DEF LInv
  <1>2. NoRefunds'
    <2>1. CASE Orders = {} BY <2>1 DEF NoRefunds
    <2>2. CASE Orders # {}
      <3>1. OneMoves BY <2>2, StepMovesOne
      <3> QED BY <3>1 DEF LInv, NoRefunds, OneMoves, LocalMoves, Unmoved
    <2> QED BY <2>1, <2>2
  <1> QED BY <1>1, <1>2 DEF LInv

-------------------------------------------------------------------------------
(* Each way to move is a step of OrderLifecycle *)

\* What each status of an order is to its customer.
LEMMA OutcomeNames ==
  /\ OutcomeOf("absent") = "none"
  /\ OutcomeOf("pending") = "open" /\ OutcomeOf("processing") = "open"
  /\ OutcomeOf("manual_review") = "review" /\ OutcomeOf("apply_failed") = "review"
  /\ OutcomeOf("applied") = "fulfilled"
  /\ OutcomeOf("closed") = "ended" /\ OutcomeOf("cancelled") = "ended"
  /\ OutcomeOf("deleted") = "erased"
  <1>1. OutcomeOf("absent") = "none" BY Zenon DEF OutcomeOf
  <1>2. OutcomeOf("pending") = "open" BY Zenon DEF OutcomeOf
  <1>3. OutcomeOf("processing") = "open" BY Zenon DEF OutcomeOf
  <1>4. OutcomeOf("manual_review") = "review" BY Zenon DEF OutcomeOf
  <1>5. OutcomeOf("apply_failed") = "review" BY Zenon DEF OutcomeOf
  <1>6. OutcomeOf("applied") = "fulfilled" BY Zenon DEF OutcomeOf
  <1>7. OutcomeOf("closed") = "ended" BY Zenon DEF OutcomeOf
  <1>8. OutcomeOf("cancelled") = "ended" BY Zenon DEF OutcomeOf
  <1>9. OutcomeOf("deleted") = "erased" BY Zenon DEF OutcomeOf
  <1> QED BY <1>1, <1>2, <1>3, <1>4, <1>5, <1>6, <1>7, <1>8, <1>9

Outcomes == [o \in Orders |-> OutcomeOf(order[o].status)]
Paid == [o \in Orders |-> PaidTxs(o)]
Delivered == [o \in Orders |-> grants[o] = 1]

\* An order that can be seen by its customer is live in OrderLifecycle.
LEMMA LiveOrders ==
  ASSUME LInv, NEW o \in Orders, Exists(o)
  PROVE  Outcomes[o] \notin {"none", "erased"}
  <1>1. order[o].status \in Statuses BY DEF LInv, IInv, TypeOK, OrderRow
  <1>2. order[o].status \in {"pending", "processing", "applied", "apply_failed", "closed",
                             "cancelled", "manual_review"}
    BY <1>1 DEF Statuses, LInv, NoRefunds, Exists
  <1> QED BY <1>2, OutcomeNames DEF Outcomes

\* One move of one order as the abstract variables see it.
LEMMA AbstractMove ==
  ASSUME NEW o \in Orders, LocalMoves(o), \A p \in Orders \ {o} : Unmoved(p)
  PROVE  /\ Outcomes' = [Outcomes EXCEPT ![o] = OutcomeOf(order'[o].status)]
         /\ Paid' = [Paid EXCEPT ![o] = PaidTxs(o)']
         /\ Delivered' = [Delivered EXCEPT ![o] = (grants'[o] = 1)]
  <1>1. \A p \in Orders \ {o} : /\ order'[p].status = order[p].status
                                /\ PaidTxs(p)' = PaidTxs(p)
                                /\ grants'[p] = grants[p]
    BY DEF Unmoved, SameMoney
  <1>2. Outcomes' = [Outcomes EXCEPT ![o] = OutcomeOf(order'[o].status)]
    BY <1>1, Zenon DEF Outcomes
  <1>3. Paid' = [Paid EXCEPT ![o] = PaidTxs(o)']
    BY <1>1, Zenon DEF Paid
  <1>4. Delivered' = [Delivered EXCEPT ![o] = (grants'[o] = 1)]
    BY <1>1, Zenon DEF Delivered
  <1> QED BY <1>2, <1>3, <1>4

\* A step that moves one order takes a step of OrderLifecycle or is invisible to it.
LEMMA Simulation ==
  ASSUME LInv, OneMoves
  PROVE  Lifecycle!LNext \/ UNCHANGED <<Outcomes, Paid, Delivered>>
  <1> SUFFICES ASSUME NEW o \in Orders, LocalMoves(o), \A p \in Orders \ {o} : Unmoved(p)
               PROVE  Lifecycle!LNext \/ UNCHANGED <<Outcomes, Paid, Delivered>>
    BY DEF OneMoves
  <1> DEFINE old == order[o].status
             new == order'[o].status
  <1>1. /\ Outcomes' = [Outcomes EXCEPT ![o] = OutcomeOf(new)]
        /\ Paid' = [Paid EXCEPT ![o] = PaidTxs(o)']
        /\ Delivered' = [Delivered EXCEPT ![o] = (grants'[o] = 1)]
    BY AbstractMove
  <1>2. /\ Outcomes[o] = OutcomeOf(old)
        /\ Paid[o] = PaidTxs(o)
        /\ Delivered[o] = (grants[o] = 1)
    BY DEF Outcomes, Paid, Delivered
  <1>3. /\ Outcomes = [Outcomes EXCEPT ![o] = Outcomes[o]]
        /\ Paid = [Paid EXCEPT ![o] = Paid[o]]
        /\ Delivered = [Delivered EXCEPT ![o] = Delivered[o]]
    BY Zenon DEF Outcomes, Paid, Delivered
  <1>4. SameMoney(o) => UNCHANGED <<Paid, Delivered>>
    BY <1>1, <1>2, <1>3 DEF SameMoney
  <1>5. new = old => UNCHANGED Outcomes BY <1>1, <1>2, <1>3
  <1>6. Exists(o) => Outcomes[o] \notin {"none", "erased"} BY LiveOrders
  <1>7. CASE new = old /\ SameMoney(o) BY <1>4, <1>5, <1>7
  <1>8. CASE old = "absent" /\ new = "pending" /\ SameMoney(o)
    <2>1. Outcomes[o] = "none" /\ Outcomes' = [Outcomes EXCEPT ![o] = "open"]
      BY <1>1, <1>2, <1>8, OutcomeNames
    <2>2. Lifecycle!Place(o) BY <1>4, <1>8, <2>1 DEF Lifecycle!Place, Lifecycle!Becomes, Outcomes, Paid, Delivered
    <2> QED BY <2>2 DEF Lifecycle!LNext
  <1>9. CASE old = "pending" /\ new = "processing" /\ SameMoney(o)
    <2>1. UNCHANGED Outcomes BY <1>1, <1>2, <1>3, <1>9, OutcomeNames
    <2> QED BY <1>4, <1>9, <2>1
  <1>10. CASE old = "pending" /\ new \in {"closed", "cancelled"} /\ PaidTxs(o) = {} /\ SameMoney(o)
    <2>1. Outcomes[o] = "open" /\ Outcomes' = [Outcomes EXCEPT ![o] = "ended"]
      BY <1>1, <1>2, <1>10, OutcomeNames
    <2>2. Lifecycle!Withdraw(o)
      BY <1>2, <1>4, <1>10, <2>1 DEF Lifecycle!Withdraw, Lifecycle!Becomes, Outcomes, Paid, Delivered
    <2> QED BY <2>2 DEF Lifecycle!LNext
  <1>11. CASE Exists(o) /\ new = "deleted" /\ PaidTxs(o) = {} /\ SameMoney(o)
    <2>1. Outcomes' = [Outcomes EXCEPT ![o] = "erased"] BY <1>1, <1>11, OutcomeNames
    <2>2. Lifecycle!Erase(o)
      BY <1>2, <1>4, <1>6, <1>11, <2>1
      DEF Lifecycle!Erase, Lifecycle!Becomes, Lifecycle!Live, Outcomes, Paid, Delivered
    <2> QED BY <2>2 DEF Lifecycle!LNext
  <1>12. CASE Exists(o) /\ new = "applied" /\ grants[o] = 1 /\ SameMoney(o)
    <2>1. Outcomes' = [Outcomes EXCEPT ![o] = "fulfilled"] BY <1>1, <1>12, OutcomeNames
    <2>2. Lifecycle!Fulfil(o)
      BY <1>2, <1>4, <1>6, <1>12, <2>1
      DEF Lifecycle!Fulfil, Lifecycle!Becomes, Lifecycle!Live, Outcomes, Paid, Delivered
    <2> QED BY <2>2 DEF Lifecycle!LNext
  <1>13. CASE Exists(o) /\ new = "apply_failed" /\ PaidTxs(o) # {} /\ SameMoney(o)
    <2>1. Outcomes' = [Outcomes EXCEPT ![o] = "review"] BY <1>1, <1>13, OutcomeNames
    <2>2. Lifecycle!Hold(o)
      BY <1>2, <1>4, <1>6, <1>13, <2>1
      DEF Lifecycle!Hold, Lifecycle!Becomes, Lifecycle!Live, Outcomes, Paid, Delivered
    <2> QED BY <2>2 DEF Lifecycle!LNext
  <1>14. CASE old \in {"manual_review", "apply_failed"} /\ new \in {"processing", "closed"}
              /\ SameMoney(o)
    <2>1. Outcomes[o] = "review" BY <1>2, <1>14, OutcomeNames
    <2>2. CASE new = "processing"
      <3>1. Outcomes' = [Outcomes EXCEPT ![o] = "open"] BY <1>1, <2>2, OutcomeNames
      <3>2. Lifecycle!Resume(o)
        BY <1>4, <1>14, <2>1, <3>1
        DEF Lifecycle!Resume, Lifecycle!Becomes, Outcomes, Paid, Delivered
      <3> QED BY <3>2 DEF Lifecycle!LNext
    <2>3. CASE new = "closed"
      <3>1. Outcomes' = [Outcomes EXCEPT ![o] = "ended"] BY <1>1, <2>3, OutcomeNames
      <3>2. Lifecycle!WriteOff(o)
        BY <1>4, <1>14, <2>1, <3>1
        DEF Lifecycle!WriteOff, Lifecycle!Becomes, Outcomes, Paid, Delivered
      <3> QED BY <3>2 DEF Lifecycle!LNext
    <2> QED BY <1>14, <2>2, <2>3
  <1>15. CASE Exists(o) /\ new = old /\ PaidTxs(o) # {} /\ PaidTxs(o)' = PaidTxs(o)
              /\ grants[o] = 0 /\ grants'[o] = 1
    <2>1. UNCHANGED <<Outcomes, Paid>> /\ Delivered' = [Delivered EXCEPT ![o] = TRUE]
      BY <1>1, <1>2, <1>3, <1>5, <1>15
    <2>2. ~Delivered[o]
      <3>1. ~(grants[o] = 1) BY <1>15
      <3> QED BY <3>1, Zenon DEF Delivered
    <2>3. Lifecycle!Deliver(o)
      BY <1>2, <1>6, <1>15, <2>1, <2>2
      DEF Lifecycle!Deliver, Lifecycle!Live, Outcomes, Paid, Delivered
    <2> QED BY <2>3 DEF Lifecycle!LNext
  <1>16. ASSUME Exists(o), grants'[o] = grants[o], NEW t \in Txs \ PaidTxs(o),
                PaidTxs(o)' = PaidTxs(o) \cup {t},
                new = "manual_review" \/ (new = old /\ old \notin {"closed", "cancelled"})
         PROVE  Lifecycle!LNext
    <2>1. UNCHANGED Delivered BY <1>1, <1>2, <1>3, <1>16
    <2>2. t \notin Paid[o] /\ Paid' = [Paid EXCEPT ![o] = Paid[o] \cup {t}] BY <1>1, <1>2, <1>16
    <2>3. \/ Outcomes' = [Outcomes EXCEPT ![o] = "review"]
          \/ Outcomes[o] # "ended" /\ UNCHANGED Outcomes
      <3>1. CASE new = "manual_review" BY <1>1, <3>1, OutcomeNames
      <3>2. CASE new = old /\ old \notin {"closed", "cancelled"}
        <4>1. Outcomes[o] # "ended"
          <5>1. old \in Statuses BY DEF LInv, IInv, TypeOK, OrderRow
          <5>2. old \in {"pending", "processing", "applied", "apply_failed", "manual_review"}
            BY <1>16, <3>2, <5>1 DEF Statuses, LInv, NoRefunds, Exists
          <5> QED BY <1>2, <5>2, OutcomeNames
        <4> QED BY <1>5, <3>2, <4>1
      <3> QED BY <1>16, <3>1, <3>2
    <2>4. Lifecycle!Receive(o, t)
      BY <1>6, <1>16, <2>1, <2>2, <2>3
      DEF Lifecycle!Receive, Lifecycle!Becomes, Lifecycle!Live, Outcomes, Paid, Delivered
    <2> QED BY <1>16, <2>4 DEF Lifecycle!LNext
  <1> QED BY <1>7, <1>8, <1>9, <1>10, <1>11, <1>12, <1>13, <1>14, <1>15, <1>16 DEF LocalMoves

\* The paid-order system implements OrderLifecycle, for any number of orders,
\* customers, workers and payments, through crashes and leases that run out: every
\* step of every handler and job is one the customer was promised or invisible.
THEOREM OrdersImplementLifecycle == Spec => ImplementsLifecycle
  <1>1. Init => LInv /\ Lifecycle!LInit
    <2> SUFFICES ASSUME Init PROVE LInv /\ Lifecycle!LInit OBVIOUS
    <2>1. IInv BY InvInit
    <2>2. \A o \in Orders : order[o].status = "absent" /\ grants[o] = 0 /\ PaidTxs(o) = {}
      BY DEF Init, StoreInit, FreshOrder, PaidTxs
    <2>3. NoRefunds BY <2>2 DEF NoRefunds
    <2>4. Lifecycle!LInit
      <3>1. [o \in Orders |-> OutcomeOf(order[o].status)] = [o \in Orders |-> "none"]
        BY <2>2, OutcomeNames
      <3>2. [o \in Orders |-> PaidTxs(o)] = [o \in Orders |-> {}] BY <2>2
      <3>3. \A o \in Orders : ~(grants[o] = 1)
        <4>1. 0 # 1 OBVIOUS
        <4> QED BY <2>2, <4>1, Zenon
      <3>4. \A o \in Orders : (grants[o] = 1) = FALSE BY <3>3, Zenon
      <3>5. [o \in Orders |-> grants[o] = 1] = [o \in Orders |-> FALSE] BY <3>4, Zenon
      <3> QED BY <3>1, <3>2, <3>5 DEF Lifecycle!LInit
    <2> QED BY <2>1, <2>3, <2>4 DEF LInv
  <1>2. LInv /\ [Next]_allVars
          => Lifecycle!LNext \/ UNCHANGED <<Outcomes, Paid, Delivered>>
    <2> SUFFICES ASSUME LInv, [Next]_allVars
                 PROVE  Lifecycle!LNext \/ UNCHANGED <<Outcomes, Paid, Delivered>>
      OBVIOUS
    <2>1. CASE Orders = {} BY <2>1 DEF Outcomes, Paid, Delivered
    <2>2. CASE Orders # {} BY <2>2, StepMovesOne, Simulation
    <2> QED BY <2>1, <2>2
  <1>3. LInv /\ [Next]_allVars => LInv' BY LInvStep
  <1> QED BY <1>1, <1>2, <1>3, PTL
      DEF Spec, ImplementsLifecycle, Lifecycle!LSpec, Outcomes, Paid, Delivered

-------------------------------------------------------------------------------
(* Money at the gateway: the inductive invariant *)

AtAlipay(o) == GatewayOf[o] = "alipay_direct"

\* The invoice has no gateway fields before the request that creates its trade has
\* written them.
FieldsUnwritten ==
    /\ \A o \in Orders : order[o].status = "absent" => invoice[o].gateway = "null"
    /\ \A w \in Workers :
        task[w].pc \in CreatingSteps => invoice[OrderOf(w)].gateway = "null"

\* Alipay knows a trade from the moment the cashier is opened, and the cashier is
\* reached through the recorded fields only.
AlipayNeedsFields ==
    \A o \in Orders :
        AtAlipay(o) /\ trade[o].state \in {"open", "paid", "closed"}
            => invoice[o].gateway = "recorded"

\* No money can reach the order any more, and none has.
Dead(o) ==
    \/ trade[o].state = "closed"
    \/ /\ AtAlipay(o)
       /\ trade[o].state \in {"none", "issued"}
       /\ invoice[o].due
       /\ invoice[o].gateway = "recorded"

\* At Alipay no money has reached the order and none will after its due time.
Sealed(o) == trade[o].payments = {} /\ (invoice[o].due \/ trade[o].state = "closed")

\* A cancellation reaches the local transition only when the order is dead.
CancelsWhatIsDead ==
    /\ \A w \in Workers :
        At(w, "local") /\ task[w].mode = "cancel" => Dead(OrderOf(w))
    /\ \A o \in Orders : order[o].status = "cancelled" => Dead(o)

\* order_close starts past the due time and goes on to close only after a query
\* that found nothing paid.
ClosesWhatIsDue ==
    /\ \A w \in Workers : task[w].mode = "close" => invoice[OrderOf(w)].due
    /\ \A w \in Workers :
        /\ task[w].mode = "close"
        /\ task[w].pc \in {"trade", "requery", "local"}
        /\ AtAlipay(OrderOf(w))
        => trade[OrderOf(w)].payments = {}
    /\ \A o \in Orders : AtAlipay(o) /\ invoice[o].status = "void" => Sealed(o)

\* A task has a mode while it closes or cancels, and an idle worker has none.
ModesOfTasks ==
    \A w \in Workers :
        /\ task[w].mode # "none" => ~At(w, "idle")
        /\ task[w].pc \in {"query", "trade", "requery", "local"} => task[w].mode # "none"

MoneyIInv ==
    /\ IInv
    /\ FieldsUnwritten
    /\ AlipayNeedsFields
    /\ ModesOfTasks
    /\ CancelsWhatIsDead
    /\ ClosesWhatIsDue

\* The customer of the order has no other.
Lone(o) == \A p \in Orders : UserOf[p] = UserOf[o] => p = o

\* What was reported was paid, a transaction is marked as failed only when its
\* trade was closed unpaid, and what was reported is on record.
ReportsArePayments ==
    /\ \A o \in Orders : answered[o] \subseteq trade[o].payments
    /\ \A o \in Orders : (\E t \in Txs : tx[o][t] = "failed") => trade[o].state = "closed"

LoneFundLands ==
    \A o \in Orders :
        Lone(o) => \A t \in answered[o] : tx[o][t] \in {"succeeded", "refunded"}

FundIInv == IInv /\ ReportsArePayments /\ LoneFundLands

-------------------------------------------------------------------------------
(* What one step does to the gateway's record *)

\* How the gateway's record of an invoice may change in one step.
GatewayDoes(o) ==
    LET old == trade[o]
        new == trade'[o]
    IN
    \/ new = old
    \/ /\ UNCHANGED invoice
       /\ \/ /\ \E w \in Workers : At(w, "create") /\ OrderOf(w) = o
             /\ new.state \in {"issued", "open"} /\ new.payments = old.payments
             /\ AtAlipay(o) => new.state = "issued"
          \/ /\ old.state = "issued" /\ invoice[o].gateway = "recorded" /\ ~invoice[o].due
             /\ new.state = "open" /\ new.payments = old.payments
          \/ /\ old.state \in {"open", "closed"}
             /\ new.state = "closed" /\ new.payments = old.payments
          \/ /\ AcceptsPayment(o)
             /\ new.state = "paid" /\ old.payments \subseteq new.payments

\* Every step changes trades as GatewayDoes says.
LEMMA GatewayStep ==
  ASSUME IInv, [Next]_allVars
  PROVE  \A o \in Orders : GatewayDoes(o)
  <1> DEFINE Goal == \A o \in Orders : GatewayDoes(o)
  <1>a. TypeOK BY DEF IInv
  <1>0. CASE UNCHANGED trade BY <1>0 DEF GatewayDoes
  <1>b. ASSUME NEW p \in Orders, NEW state \in {"issued", "open", "closed"},
               trade' = [trade EXCEPT ![p].state = state]
        PROVE  \A o \in Orders :
                  /\ trade'[o].payments = trade[o].payments
                  /\ o = p => trade'[o].state = state
                  /\ o # p => trade'[o] = trade[o]
    <2>1. [trade[p] EXCEPT !.state = state].state = state
          /\ [trade[p] EXCEPT !.state = state].payments = trade[p].payments
      BY <1>a, Zenon DEF TypeOK, Trade
    <2>2. \A o \in Orders :
             trade'[o] = IF o = p THEN [trade[p] EXCEPT !.state = state] ELSE trade[o]
      BY <1>a, <1>b DEF TypeOK
    <2> QED BY <2>1, <2>2
  <1>1. ASSUME NEW w \in Workers, CreateTrade(w) PROVE Goal
    <2> SUFFICES ASSUME NEW p \in Orders, p = OrderOf(w) PROVE Goal
      BY <1>1, Busy DEF CreateTrade, At, IInv
    <2>1. At(w, "create") /\ UNCHANGED invoice BY <1>1 DEF CreateTrade
    <2>2. \/ UNCHANGED trade
          \/ \E state \in {"issued", "open"} :
               /\ AtAlipay(p) => state = "issued"
               /\ trade' = [trade EXCEPT ![p].state = state]
      BY <1>1 DEF CreateTrade, AtAlipay
    <2>3. ASSUME NEW state \in {"issued", "open"}, AtAlipay(p) => state = "issued",
                 trade' = [trade EXCEPT ![p].state = state]
          PROVE  Goal
      <3>1. \A o \in Orders :
               /\ trade'[o].payments = trade[o].payments
               /\ o = p => trade'[o].state = state
               /\ o # p => trade'[o] = trade[o]
        <4>1. state \in {"issued", "open", "closed"} OBVIOUS
        <4> QED BY <1>b, <2>3, <4>1, Zenon
      <3> QED BY <2>1, <2>3, <3>1 DEF GatewayDoes
    <2> QED BY <1>0, <2>2, <2>3
  <1>2. ASSUME NEW w \in Workers, CloseTrade(w) PROVE Goal
    <2> SUFFICES ASSUME NEW p \in Orders, p = OrderOf(w) PROVE Goal
      BY <1>2, Busy DEF CloseTrade, At, IInv
    <2>1. UNCHANGED invoice BY <1>2 DEF CloseTrade
    <2>2. \/ UNCHANGED trade
          \/ /\ CloseOutcome(p) = "CLOSED"
             /\ trade' = [trade EXCEPT ![p].state = "closed"]
      BY <1>2, Zenon DEF CloseTrade
    <2>3. CloseOutcome(p) = "CLOSED" => trade[p].state \in {"open", "closed"}
      BY DEF CloseOutcome
    <2> QED BY <1>0, <1>b, <2>1, <2>2, <2>3 DEF GatewayDoes
  <1>3. ASSUME NEW o \in Orders, OpenCashier(o) PROVE Goal
    BY <1>3, <1>b DEF OpenCashier, GatewayDoes
  <1>4. ASSUME NEW o \in Orders, ExpireTrade(o) PROVE Goal
    BY <1>4, <1>b DEF ExpireTrade, GatewayDoes
  <1>5. ASSUME NEW o \in Orders, NEW t \in Txs, Pay(o, t) PROVE Goal
    <2>1. AcceptsPayment(o) /\ UNCHANGED invoice BY <1>5 DEF Pay
    <2>2. \A p \in Orders :
             trade'[p] = IF p = o THEN [state |-> "paid", payments |-> trade[o].payments \cup {t}]
                         ELSE trade[p]
      BY <1>5, <1>a DEF Pay, TypeOK
    <2> QED BY <2>1, <2>2 DEF GatewayDoes
  <1>6. ASSUME NEW w \in Workers, NEW o \in Orders, NEW mode \in {"close", "cancel"},
               PlaceOrder(w, o) \/ ClaimPending(w, o, mode) \/ StartRetry(w, o) \/ Admin(w, o)
        PROVE  Goal
    BY <1>0, <1>6 DEF PlaceOrder, ClaimPending, StartRetry, Admin, ForceApply, ForceClose,
       CleanupPlaceholder
  <1>7. ASSUME NEW w \in Workers,
               \/ PersistTrade(w) \/ MarkUncertain(w) \/ RollbackPlaceholder(w)
               \/ DeleteFailedOrder(w) \/ QueryTrade(w) \/ RequeryTrade(w) \/ EndLocally(w)
               \/ CleanupEnded(w) \/ ReleaseLease(w)
        PROVE  Goal
    BY <1>0, <1>7 DEF PersistTrade, MarkUncertain, RollbackPlaceholder, DeleteFailedOrder,
       QueryTrade, RequeryTrade, EndLocally, CleanupEnded, ReleaseLease
  <1>8. ASSUME NEW w \in Workers, ApplyStep(w) \/ DropServer(w) \/ Crash(w) PROVE Goal
    BY <1>0, <1>8 DEF ApplyStep, PushToProcessing, ClaimApply, BeginEffect, CommitEffect,
       RunPostActions, FinishApply, RecordFailure, RecordFailureWithStray, TerminateApply,
       DropServer, Crash
  <1>9. ASSUME NEW o \in Orders,
               DeleteLiveServer(o) \/ PassDueTime(o) \/ ElapseBackoff(o) \/ ExpireLease(o)
        PROVE  Goal
    BY <1>0, <1>9 DEF DeleteLiveServer, PassDueTime, ElapseBackoff, ExpireLease
  <1>10. ASSUME NEW w \in Workers, NEW o \in Orders, Reports(w, o) PROVE Goal
    BY <1>0, <1>10, ReportSteps DEF AddPayment, MarkTransactionFailed
  <1>11. ASSUME NEW w \in Workers, RecordQueriedPayment(w) PROVE Goal
    BY <1>0, <1>11, QueriedSteps DEF AddPayment
  <1>12. CASE UNCHANGED allVars BY <1>0, <1>12 DEF allVars
  <1> QED BY <1>1, <1>2, <1>3, <1>4, <1>5, <1>6, <1>7, <1>8, <1>9, <1>10, <1>11, <1>12
      DEF Next, ServiceNext, ApplyNext, StartClose, StartCancel, Buyer

\* A trade the gateway closed was not paid, stays closed and is never paid.
LEMMA ClosedStays ==
  ASSUME IInv, [Next]_allVars, NEW o \in Orders, trade[o].state = "closed"
  PROVE  trade[o].payments = {} /\ trade'[o].state = "closed"
  <1>1. trade[o].payments = {} BY DEF IInv, FactsArePayments
  <1>2. GatewayDoes(o) BY GatewayStep
  <1>3. ~AcceptsPayment(o) BY DEF AcceptsPayment
  <1>4. \A w \in Workers : ~(At(w, "create") /\ OrderOf(w) = o)
    BY DEF IInv, UnknownToGateway, At
  <1> QED BY <1>1, <1>2, <1>3, <1>4 DEF GatewayDoes

-------------------------------------------------------------------------------
(* Reported payments *)

\* How what add_payment has answered for, and what was marked as failed, may change.
ReportMoves(o) ==
    /\ \/ answered'[o] = answered[o]
       \/ \E w \in Workers, t \in trade[o].payments, seen \in InvoiceStatuses :
            AddPayment(w, o, t, seen)
    /\ \A t \in Txs : tx'[o][t] = "failed" => tx[o][t] = "failed" \/ trade[o].state = "closed"

\* Every step changes reports as ReportMoves says.
LEMMA ReportStep ==
  ASSUME IInv, [Next]_allVars
  PROVE  \A o \in Orders : ReportMoves(o)
  <1> DEFINE Goal == \A o \in Orders : ReportMoves(o)
  <1>a. TypeOK BY DEF IInv
  <1>0. CASE UNCHANGED <<answered, tx>> BY <1>0 DEF ReportMoves
  <1>1. ASSUME NEW w \in Workers, NEW o \in Orders, NEW t \in trade[o].payments,
               NEW seen \in InvoiceStatuses, AddPayment(w, o, t, seen)
        PROVE  Goal
    <2>1. \A p \in Orders \ {o} : answered'[p] = answered[p]
      BY <1>a, <1>1 DEF AddPayment, TypeOK
    <2>2. UNCHANGED tx \/ tx' = [tx EXCEPT ![o][t] = "succeeded"]
      BY <1>1 DEF AddPayment, RecordFact
    <2>3. \A p \in Orders, s \in Txs : tx'[p][s] = "failed" => tx[p][s] = "failed"
      BY <1>a, <2>2 DEF TypeOK
    <2> QED BY <1>1, <2>1, <2>3 DEF ReportMoves
  <1>2. ASSUME NEW w \in Workers, RecordQueriedPayment(w) PROVE Goal
    BY <1>1, <1>2, QueriedSteps
  <1>3. ASSUME NEW w \in Workers, NEW o \in Orders, Reports(w, o) PROVE Goal
    <2>1. CASE \E t \in trade[o].payments, seen \in InvoiceStatuses : AddPayment(w, o, t, seen)
      BY <1>1, <2>1
    <2>2. CASE ~\E t \in trade[o].payments, seen \in InvoiceStatuses : AddPayment(w, o, t, seen)
      <3>1. \A p \in Orders : invoice[p].status \in InvoiceStatuses
        BY <1>a DEF TypeOK, InvoiceRow
      <3>2. TradeStatus(o) = "CLOSED" /\ \E t \in Txs : MarkTransactionFailed(w, o, t)
        BY <1>3, <2>2, <3>1 DEF Reports, Webhook, QueryPending
      <3>3. trade[o].state = "closed"
        <4>1. trade[o].state = "paid" => TradeStatus(o) # "CLOSED" BY DEF TradeStatus
        <4> QED BY <3>2 DEF TradeStatus
      <3>4. PICK t \in Txs : MarkTransactionFailed(w, o, t) BY <3>2
      <3>5. UNCHANGED answered /\ \A p \in Orders \ {o} : tx'[p] = tx[p]
        BY <1>a, <3>4 DEF MarkTransactionFailed, TypeOK
      <3> QED BY <3>3, <3>5 DEF ReportMoves
    <2> QED BY <2>1, <2>2
  <1>4. ASSUME NEW w \in Workers, DeleteFailedOrder(w) PROVE Goal
    <2> SUFFICES ASSUME NEW o \in Orders, o = OrderOf(w) PROVE Goal
      BY <1>4, Busy DEF DeleteFailedOrder, At, IInv
    <2>1. CASE tx' = [tx EXCEPT ![o] = [t \in Txs |-> "none"]]
      <3>1. \A p \in Orders, s \in Txs : tx'[p][s] = IF p = o THEN "none" ELSE tx[p][s]
        BY <1>a, <2>1 DEF TypeOK
      <3>2. UNCHANGED answered BY <1>4 DEF DeleteFailedOrder
      <3> QED BY <3>1, <3>2 DEF ReportMoves
    <2> QED BY <1>4, <1>0, <2>1 DEF DeleteFailedOrder
  <1>5. ASSUME NEW w \in Workers, NEW o \in Orders, NEW mode \in {"close", "cancel"},
               PlaceOrder(w, o) \/ ClaimPending(w, o, mode) \/ StartRetry(w, o) \/ Admin(w, o)
        PROVE  Goal
    BY <1>0, <1>5 DEF PlaceOrder, ClaimPending, StartRetry, Admin, ForceApply, ForceClose,
       CleanupPlaceholder
  <1>6. ASSUME NEW w \in Workers,
               \/ CreateTrade(w) \/ PersistTrade(w) \/ MarkUncertain(w) \/ RollbackPlaceholder(w)
               \/ QueryTrade(w) \/ CloseTrade(w) \/ RequeryTrade(w) \/ EndLocally(w)
               \/ CleanupEnded(w) \/ ReleaseLease(w)
        PROVE  Goal
    BY <1>0, <1>6 DEF CreateTrade, PersistTrade, MarkUncertain, RollbackPlaceholder, QueryTrade,
       CloseTrade, RequeryTrade, EndLocally, CleanupEnded, ReleaseLease
  <1>7. ASSUME NEW w \in Workers, ApplyStep(w) \/ DropServer(w) \/ Crash(w) PROVE Goal
    BY <1>0, <1>7 DEF ApplyStep, PushToProcessing, ClaimApply, BeginEffect, CommitEffect,
       RunPostActions, FinishApply, RecordFailure, RecordFailureWithStray, TerminateApply,
       DropServer, Crash
  <1>8. ASSUME NEW o \in Orders,
               \/ Buyer(o) \/ DeleteLiveServer(o) \/ PassDueTime(o) \/ ElapseBackoff(o)
               \/ ExpireLease(o)
        PROVE  Goal
    BY <1>0, <1>8 DEF Buyer, OpenCashier, Pay, ExpireTrade, DeleteLiveServer, PassDueTime,
       ElapseBackoff, ExpireLease
  <1>9. CASE UNCHANGED allVars BY <1>0, <1>9 DEF allVars
  <1> QED BY <1>2, <1>3, <1>4, <1>5, <1>6, <1>7, <1>8, <1>9
      DEF Next, ServiceNext, ApplyNext, StartClose, StartCancel

\* What a payment report leaves on record for an order without a rival.
LEMMA ReportRecorded ==
  ASSUME FundIInv, NEW w \in Workers, NEW o \in Orders, NEW t \in trade[o].payments,
         NEW seen \in InvoiceStatuses, AddPayment(w, o, t, seen), Lone(o)
  PROVE  /\ tx'[o][t] \in {"succeeded", "refunded"}
         /\ answered'[o] = answered[o] \cup {t}
  <1>a. TypeOK BY DEF FundIInv, IInv
  <1>1. t \in Txs BY <1>a, PaymentTxs
  <1>2. answered'[o] = answered[o] \cup {t} BY <1>a DEF AddPayment, TypeOK
  <1>3. MayBecomeActive(o) BY DEF MayBecomeActive, Lone
  <1>4. IndexAccepts(o, StatusAfterPayment(o, t, seen)) BY <1>3 DEF IndexAccepts
  <1>5. CASE KnownTx(o, t)
    <2>1. tx[o][t] \in {"succeeded", "failed", "refunded"}
      BY <1>a, <1>1, <1>5 DEF KnownTx, TypeOK
    <2>2. tx[o][t] # "failed"
      <3>1. trade[o].state = "closed" => trade[o].payments = {}
        BY DEF FundIInv, IInv, FactsArePayments
      <3> QED BY <1>1, <3>1 DEF FundIInv, ReportsArePayments
    <2>3. UNCHANGED tx BY <1>5 DEF AddPayment
    <2> QED BY <1>2, <2>1, <2>2, <2>3
  <1>6. CASE ~KnownTx(o, t)
    <2>1. tx' = [tx EXCEPT ![o][t] = "succeeded"] BY <1>4, <1>6 DEF AddPayment, RecordFact
    <2> QED BY <1>a, <1>1, <1>2, <2>1 DEF TypeOK
  <1> QED BY <1>5, <1>6

\* Every step keeps the lone payments on their way.
LEMMA FundStep ==
  ASSUME FundIInv, [Next]_allVars
  PROVE  FundIInv'
  <1>a. IInv /\ TypeOK BY DEF FundIInv, IInv
  <1>1. IInv' BY <1>a, InvStep
  <1>2. \A o \in Orders : GatewayDoes(o) /\ ReportMoves(o) BY <1>a, GatewayStep, ReportStep
  <1>3. ASSUME NEW o \in Orders PROVE answered'[o] \subseteq trade'[o].payments
    <2>1. trade[o].payments \subseteq trade'[o].payments BY <1>2 DEF GatewayDoes
    <2>2. answered[o] \subseteq trade[o].payments BY DEF FundIInv, ReportsArePayments
    <2>3. answered'[o] = answered[o]
          \/ \E t \in trade[o].payments : answered'[o] = answered[o] \cup {t}
      BY <1>2, <1>a DEF ReportMoves, AddPayment, TypeOK
    <2> QED BY <2>1, <2>2, <2>3
  <1>4. ASSUME NEW o \in Orders, NEW t \in Txs, tx'[o][t] = "failed"
        PROVE  trade'[o].state = "closed"
    <2>1. tx[o][t] = "failed" \/ trade[o].state = "closed" BY <1>2, <1>4 DEF ReportMoves
    <2>2. trade[o].state = "closed" BY <2>1 DEF FundIInv, ReportsArePayments
    <2> QED BY <1>a, <2>2, ClosedStays
  <1>5. ASSUME NEW o \in Orders, Lone(o), NEW t \in answered'[o]
        PROVE  tx'[o][t] \in {"succeeded", "refunded"}
    <2>1. CASE t \in answered[o]
      <3>1. tx[o][t] \in {"succeeded", "refunded"} BY <1>5, <2>1 DEF FundIInv, LoneFundLands
      <3>2. t \in Txs BY <1>a, <2>1 DEF TypeOK
      <3>3. t \in PaidTxs(o) BY <3>1, <3>2 DEF PaidTxs
      <3>4. PaidTxs(o) \subseteq PaidTxs(o)' BY <1>a, PaidKept
      <3> QED BY <3>3, <3>4 DEF PaidTxs
    <2>2. CASE t \notin answered[o]
      <3>1. PICK w \in Workers, s \in trade[o].payments, seen \in InvoiceStatuses :
              AddPayment(w, o, s, seen)
        BY <1>2, <1>5, <2>2 DEF ReportMoves
      <3>2. /\ tx'[o][s] \in {"succeeded", "refunded"}
            /\ answered'[o] = answered[o] \cup {s}
        BY <1>5, <3>1, ReportRecorded
      <3> QED BY <1>5, <2>2, <3>2
    <2> QED BY <2>1, <2>2
  <1>6. ReportsArePayments' BY <1>3, <1>4 DEF ReportsArePayments
  <1>7. LoneFundLands' BY <1>5 DEF LoneFundLands, Lone
  <1> QED BY <1>1, <1>6, <1>7 DEF FundIInv

\* An order whose customer has no other never loses a payment that a webhook, a
\* poll, a cancellation or a close reported (add_payment): whatever was answered for
\* is on record.  The unique index on active orders can refuse it to others only.
THEOREM LonePaymentsLand == Spec => []LoneFundLands
  <1>1. Init => FundIInv
    <2> SUFFICES ASSUME Init PROVE FundIInv OBVIOUS
    <2>1. IInv BY InvInit
    <2>2. \A o \in Orders : answered[o] = {} /\ \A t \in Txs : tx[o][t] = "none"
      BY DEF Init, StoreInit
    <2> QED BY <2>1, <2>2 DEF FundIInv, ReportsArePayments, LoneFundLands
  <1>2. FundIInv /\ [Next]_allVars => FundIInv' BY FundStep
  <1>3. FundIInv => LoneFundLands BY DEF FundIInv
  <1> QED BY <1>1, <1>2, <1>3, PTL DEF Spec

\* The property the runs check, where every customer has one order only.
THEOREM ReportedPaymentsLand ==
  ASSUME \A o \in Orders : Lone(o)
  PROVE  Spec => []FundFactLands
  <1>1. LoneFundLands => FundFactLands BY DEF LoneFundLands, FundFactLands
  <1> QED BY <1>1, LonePaymentsLand, PTL

-------------------------------------------------------------------------------
(* What one step does to an invoice *)

\* How an invoice may change in one step.
InvoiceMoves(o) ==
    /\ invoice[o].due => invoice'[o].due
    /\ \/ invoice'[o].gateway = invoice[o].gateway
       \/ /\ UNCHANGED trade
          /\ \E w \in Workers :
                /\ At(w, "persist") \/ At(w, "uncertain") \/ At(w, "delete")
                /\ OrderOf(w) = o
                /\ task'[w].pc = "idle"
    /\ invoice'[o].status = "void" =>
          \/ invoice[o].status = "void"
          \/ UNCHANGED trade /\ \E w \in Workers : At(w, "local") /\ OrderOf(w) = o

\* The fields an update of an invoice leaves alone.
LEMMA InvoiceFields ==
  ASSUME NEW row \in InvoiceRow
  PROVE  /\ \A status \in InvoiceStatuses :
              /\ [row EXCEPT !.status = status].status = status
              /\ [row EXCEPT !.status = status].due = row.due
              /\ [row EXCEPT !.status = status].gateway = row.gateway
         /\ [row EXCEPT !.due = TRUE].status = row.status
         /\ [row EXCEPT !.due = TRUE].due
         /\ [row EXCEPT !.due = TRUE].gateway = row.gateway
         /\ \A how \in {"null", "uncertain", "recorded"} :
              /\ [row EXCEPT !.gateway = how].status = row.status
              /\ [row EXCEPT !.gateway = how].due = row.due
              /\ [row EXCEPT !.status = "pending", !.gateway = how].status = "pending"
              /\ [row EXCEPT !.status = "pending", !.gateway = how].due = row.due
  BY Zenon DEF InvoiceRow

\* Rewriting one invoice moves one invoice.
LEMMA OneInvoice ==
  ASSUME TypeOK, NEW o \in Orders, NEW row, invoice' = [invoice EXCEPT ![o] = row],
         invoice[o].due => row.due,
         \/ row.gateway = invoice[o].gateway
         \/ /\ UNCHANGED trade
            /\ \E w \in Workers :
                  /\ At(w, "persist") \/ At(w, "uncertain") \/ At(w, "delete")
                  /\ OrderOf(w) = o
                  /\ task'[w].pc = "idle",
         row.status = "void" =>
            \/ invoice[o].status = "void"
            \/ UNCHANGED trade /\ \E w \in Workers : At(w, "local") /\ OrderOf(w) = o
  PROVE  \A p \in Orders : InvoiceMoves(p)
  <1>1. \A p \in Orders : invoice'[p] = IF p = o THEN row ELSE invoice[p] BY DEF TypeOK
  <1> QED BY <1>1 DEF InvoiceMoves

\* Every step changes invoices as InvoiceMoves says.
LEMMA InvoiceStep ==
  ASSUME IInv, [Next]_allVars
  PROVE  \A o \in Orders : InvoiceMoves(o)
  <1> DEFINE Goal == \A o \in Orders : InvoiceMoves(o)
  <1>a. TypeOK BY DEF IInv
  <1>b. \A o \in Orders : invoice[o] \in InvoiceRow BY <1>a DEF TypeOK
  <1>0. CASE UNCHANGED invoice BY <1>0 DEF InvoiceMoves
  <1>c. ASSUME NEW w \in Workers, Stop(w) PROVE task'[w].pc = "idle"
    BY <1>a, <1>c, TaskRows DEF Idle
  <1>1. ASSUME NEW w \in Workers, PersistTrade(w) \/ MarkUncertain(w) PROVE Goal
    <2> SUFFICES ASSUME NEW o \in Orders, o = OrderOf(w) PROVE Goal
      BY <1>1, Busy DEF PersistTrade, MarkUncertain, At, IInv
    <2>1. /\ At(w, "persist") \/ At(w, "uncertain")
          /\ UNCHANGED trade
          /\ task'[w].pc = "idle"
      BY <1>1, <1>c DEF PersistTrade, MarkUncertain
    <2>2. \/ UNCHANGED invoice
          \/ \E how \in {"recorded", "uncertain"} :
                invoice' = [invoice EXCEPT ![o].gateway = how]
      BY <1>1 DEF PersistTrade, MarkUncertain
    <2>3. ASSUME NEW how \in {"recorded", "uncertain"},
                 invoice' = [invoice EXCEPT ![o].gateway = how]
          PROVE  Goal
      <3> DEFINE row == [invoice[o] EXCEPT !.gateway = how]
      <3>1. row.status = invoice[o].status /\ row.due = invoice[o].due
        BY <1>b, InvoiceFields
      <3>2. invoice' = [invoice EXCEPT ![o] = row] BY <2>3
      <3> HIDE DEF row
      <3> QED BY <1>a, <2>1, <3>1, <3>2, OneInvoice
    <2> QED BY <1>0, <2>2, <2>3
  <1>2. ASSUME NEW w \in Workers, DeleteFailedOrder(w) PROVE Goal
    <2> SUFFICES ASSUME NEW o \in Orders, o = OrderOf(w) PROVE Goal
      BY <1>2, Busy DEF DeleteFailedOrder, At, IInv
    <2>1. At(w, "delete") /\ UNCHANGED trade /\ task'[w].pc = "idle"
      BY <1>2, <1>c DEF DeleteFailedOrder
    <2>2. CASE invoice' = [invoice EXCEPT ![o].status = "pending", ![o].gateway = "null"]
      <3> DEFINE row == [invoice[o] EXCEPT !.status = "pending", !.gateway = "null"]
      <3>1. row.status = "pending" /\ row.due = invoice[o].due BY <1>b, InvoiceFields
      <3>2. invoice' = [invoice EXCEPT ![o] = row]
        <4>1. invoice' = [invoice EXCEPT ![o] = [[@ EXCEPT !.status = "pending"]
                                                    EXCEPT !.gateway = "null"]]
          BY <2>2, <1>a, Zenon DEF TypeOK
        <4> QED BY <4>1
      <3> HIDE DEF row
      <3> QED BY <1>a, <2>1, <3>1, <3>2, OneInvoice
    <2> QED BY <1>2, <1>0, <2>2 DEF DeleteFailedOrder
  <1>3. ASSUME NEW w \in Workers, EndLocally(w) PROVE Goal
    <2> SUFFICES ASSUME NEW o \in Orders, o = OrderOf(w) PROVE Goal
      BY <1>3, Busy DEF EndLocally, At, IInv
    <2>1. At(w, "local") /\ UNCHANGED trade BY <1>3 DEF EndLocally
    <2>2. CASE invoice' = [invoice EXCEPT ![o].status = "void"]
      <3> DEFINE row == [invoice[o] EXCEPT !.status = "void"]
      <3>1. row.gateway = invoice[o].gateway /\ row.due = invoice[o].due
        BY <1>b, InvoiceFields, InvoiceNames
      <3>2. invoice' = [invoice EXCEPT ![o] = row] BY <2>2
      <3> HIDE DEF row
      <3> QED BY <1>a, <2>1, <3>1, <3>2, OneInvoice
    <2> QED BY <1>3, <1>0, <2>2 DEF EndLocally
  <1>4. ASSUME NEW o \in Orders, PassDueTime(o) PROVE Goal
    <2> DEFINE row == [invoice[o] EXCEPT !.due = TRUE]
    <2>1. row.gateway = invoice[o].gateway /\ row.status = invoice[o].status /\ row.due
      BY <1>b, InvoiceFields
    <2>2. invoice' = [invoice EXCEPT ![o] = row] BY <1>4 DEF PassDueTime
    <2> HIDE DEF row
    <2> QED BY <1>a, <2>1, <2>2, OneInvoice
  <1>5. ASSUME NEW w \in Workers, NEW o \in Orders, NEW t \in Txs,
               NEW seen \in InvoiceStatuses, AddPayment(w, o, t, seen)
        PROVE  Goal
    <2>1. UNCHANGED invoice \/ invoice' = [invoice EXCEPT ![o].status = "paid"]
      BY <1>5 DEF AddPayment, RecordFact
    <2>2. CASE invoice' = [invoice EXCEPT ![o].status = "paid"]
      <3> DEFINE row == [invoice[o] EXCEPT !.status = "paid"]
      <3>1. row.gateway = invoice[o].gateway /\ row.due = invoice[o].due /\ row.status = "paid"
        BY <1>b, InvoiceFields, InvoiceNames
      <3>2. invoice' = [invoice EXCEPT ![o] = row] BY <2>2
      <3> HIDE DEF row
      <3> QED BY <1>a, <3>1, <3>2, OneInvoice
    <2> QED BY <1>0, <2>1, <2>2
  <1>6. ASSUME NEW w \in Workers, RecordQueriedPayment(w) PROVE Goal
    BY <1>5, <1>6, <1>a, QueriedSteps, PaymentTxs
  <1>7. ASSUME NEW w \in Workers, NEW o \in Orders, Reports(w, o) PROVE Goal
    <2>1. ASSUME NEW t \in Txs, MarkTransactionFailed(w, o, t) PROVE Goal
      BY <1>0, <2>1 DEF MarkTransactionFailed
    <2> QED BY <1>5, <1>7, <1>a, <2>1, ReportSteps, PaymentTxs
  <1>8. ASSUME NEW w \in Workers, NEW o \in Orders, NEW mode \in {"close", "cancel"},
               PlaceOrder(w, o) \/ ClaimPending(w, o, mode) \/ StartRetry(w, o) \/ Admin(w, o)
        PROVE  Goal
    BY <1>0, <1>8 DEF PlaceOrder, ClaimPending, StartRetry, Admin, ForceApply, ForceClose,
       CleanupPlaceholder
  <1>9. ASSUME NEW w \in Workers,
               \/ CreateTrade(w) \/ RollbackPlaceholder(w) \/ QueryTrade(w) \/ CloseTrade(w)
               \/ RequeryTrade(w) \/ CleanupEnded(w) \/ ReleaseLease(w)
        PROVE  Goal
    BY <1>0, <1>9 DEF CreateTrade, RollbackPlaceholder, QueryTrade, CloseTrade, RequeryTrade,
       CleanupEnded, ReleaseLease
  <1>10. ASSUME NEW w \in Workers, ApplyStep(w) \/ DropServer(w) \/ Crash(w) PROVE Goal
    BY <1>0, <1>10 DEF ApplyStep, PushToProcessing, ClaimApply, BeginEffect, CommitEffect,
       RunPostActions, FinishApply, RecordFailure, RecordFailureWithStray, TerminateApply,
       DropServer, Crash
  <1>11. ASSUME NEW o \in Orders,
                Buyer(o) \/ DeleteLiveServer(o) \/ ElapseBackoff(o) \/ ExpireLease(o)
         PROVE  Goal
    BY <1>0, <1>11 DEF Buyer, OpenCashier, Pay, ExpireTrade, DeleteLiveServer, ElapseBackoff,
       ExpireLease
  <1>12. CASE UNCHANGED allVars BY <1>0, <1>12 DEF allVars
  <1> QED BY <1>1, <1>2, <1>3, <1>4, <1>6, <1>7, <1>8, <1>9, <1>10, <1>11, <1>12
      DEF Next, ServiceNext, ApplyNext, StartClose, StartCancel

-------------------------------------------------------------------------------
(* What one step does to the tasks that close and cancel *)

AskingSteps == {"query", "trade", "requery", "local"}

\* Row v of the task table after a step of w, mode included.
LEMMA TaskModes ==
  ASSUME TypeOK, NEW w \in Workers, NEW v \in Workers
  PROVE  /\ Stop(w) =>
              IF v = w THEN task'[v].pc = "idle" /\ task'[v].mode = "none"
              ELSE task'[v] = task[v]
         /\ \A step \in Steps :
               GoTo(w, step) =>
                  IF v = w
                  THEN /\ task'[v].pc = step
                       /\ task'[v].order = task[v].order /\ task'[v].mode = task[v].mode
                  ELSE task'[v] = task[v]
         /\ \A step \in Steps, o \in Orders, mode \in {"none", "close", "cancel"} :
               StartTask(w, step, o, mode) =>
                  IF v = w
                  THEN task'[v].pc = step /\ task'[v].order = o /\ task'[v].mode = mode
                  ELSE task'[v] = task[v]
  <1>0. task \in [Workers -> Task] BY DEF TypeOK
  <1>1. Stop(w) =>
              IF v = w THEN task'[v].pc = "idle" /\ task'[v].mode = "none"
              ELSE task'[v] = task[v]
    BY <1>0 DEF Stop, Idle
  <1>2. ASSUME NEW step \in Steps, GoTo(w, step)
        PROVE  IF v = w
               THEN /\ task'[v].pc = step
                    /\ task'[v].order = task[v].order /\ task'[v].mode = task[v].mode
               ELSE task'[v] = task[v]
    <2>1. [task[w] EXCEPT !.pc = step].pc = step
          /\ [task[w] EXCEPT !.pc = step].order = task[w].order
          /\ [task[w] EXCEPT !.pc = step].mode = task[w].mode
      BY <1>0, Zenon DEF Task
    <2>2. task'[v] = IF v = w THEN [task[w] EXCEPT !.pc = step] ELSE task[v]
      BY <1>0, <1>2 DEF GoTo
    <2> QED BY <2>1, <2>2
  <1>3. ASSUME NEW step \in Steps, NEW o \in Orders, NEW mode \in {"none", "close", "cancel"},
               StartTask(w, step, o, mode)
        PROVE  IF v = w
               THEN task'[v].pc = step /\ task'[v].order = o /\ task'[v].mode = mode
               ELSE task'[v] = task[v]
    BY <1>0, <1>3 DEF StartTask
  <1> QED BY <1>1, <1>2, <1>3

\* How the mode of a task may change in one step, and what a task that goes on to
\* the local transition has learnt.
ModeMoves(v) ==
    \/ task'[v] = task[v]
    \/ task'[v].mode = "none" /\ task'[v].pc \notin AskingSteps
    \/ /\ task'[v].pc = "query"
       /\ task'[v].mode \in {"close", "cancel"}
       /\ task'[v].order \in Orders
       /\ task'[v].mode = "close" => invoice[task'[v].order].due
    \/ /\ ~At(v, "idle")
       /\ task'[v].pc # "idle"
       /\ task'[v].order = task[v].order
       /\ task'[v].mode = task[v].mode
       /\ task'[v].pc \in AskingSteps => task[v].pc \in AskingSteps
       /\ \A o \in Orders :
            o = OrderOf(v) =>
                /\ task'[v].pc \in {"trade", "requery", "local"} /\ AtAlipay(o) =>
                      \/ task[v].pc \in {"trade", "requery", "local"}
                      \/ UNCHANGED trade /\ trade[o].payments = {}
                /\ task'[v].pc = "local" /\ task[v].mode = "cancel" => Dead(o)'

\* An alipay trade that was paid is reported as paid.
LEMMA PaidIsReported ==
  ASSUME IInv, AlipayNeedsFields, NEW o \in Orders, AtAlipay(o), trade[o].payments # {}
  PROVE  TradeStatus(o) = "SUCCESS"
  <1>1. trade[o].state = "paid" BY DEF IInv, FactsArePayments
  <1>2. invoice[o].gateway = "recorded" BY <1>1 DEF AlipayNeedsFields
  <1>3. AskedGateway(o) = GatewayOf[o] BY <1>2 DEF AskedGateway
  <1> QED BY <1>1, <1>3 DEF TradeStatus

\* A gateway that answers CLOSED has closed the trade.
LEMMA ClosedIsClosed ==
  ASSUME NEW o \in Orders, TradeStatus(o) = "CLOSED"
  PROVE  trade[o].state = "closed"
  <1>1. trade[o].state = "paid" => TradeStatus(o) # "CLOSED" BY DEF TradeStatus
  <1> QED BY <1>1 DEF TradeStatus

\* A step moves the modes of the tasks as allowed.
LEMMA ModeStep ==
  ASSUME MoneyIInv, [Next]_allVars
  PROVE  \A v \in Workers : ModeMoves(v)
  <1> DEFINE Goal == \A v \in Workers : ModeMoves(v)
  <1>a. IInv /\ TypeOK /\ AlipayNeedsFields BY DEF MoneyIInv, IInv
  <1>0. CASE UNCHANGED task BY <1>0 DEF ModeMoves
  <1>b. ASSUME NEW w \in Workers, Stop(w) PROVE Goal
    BY <1>a, <1>b, TaskModes DEF ModeMoves, AskingSteps
  <1>c. ASSUME NEW w \in Workers, NEW step \in Steps \ ({"idle"} \cup AskingSteps),
               GoTo(w, step), ~At(w, "idle")
        PROVE  Goal
    BY <1>a, <1>c, TaskModes DEF ModeMoves, AskingSteps
  <1>d. ASSUME NEW w \in Workers, NEW step \in Steps \ ({"idle"} \cup AskingSteps),
               NEW o \in Orders, StartTask(w, step, o, "none")
        PROVE  Goal
    BY <1>a, <1>d, TaskModes DEF ModeMoves, AskingSteps
  <1>1. ASSUME NEW w \in Workers, NEW o \in Orders, StartClose(w, o) \/ StartCancel(w, o)
        PROVE  Goal
    <2>1. \E mode \in {"close", "cancel"} :
            /\ StartTask(w, "query", o, mode)
            /\ mode = "close" => invoice[o].due
      BY <1>1 DEF StartClose, StartCancel, ClaimPending
    <2> QED BY <1>a, <2>1, StepNames, TaskModes DEF ModeMoves
  <1>2. ASSUME NEW w \in Workers, QueryTrade(w) PROVE Goal
    <2> SUFFICES ASSUME NEW o \in Orders, o = OrderOf(w) PROVE Goal
      BY <1>a, <1>2, Busy DEF QueryTrade, At, IInv
    <2>0. At(w, "query") /\ UNCHANGED trade BY <1>2 DEF QueryTrade
    <2>1. CASE GoTo(w, "release") BY <1>c, <2>0, <2>1, StepNames DEF At, AskingSteps
    <2>2. CASE ~GoTo(w, "release")
      <3> DEFINE seen == invoice[OrderOf(w)].status
                 step == AfterQuery(TradeStatus(o))
      <3>1. task' = [task EXCEPT ![w].seen = seen, ![w].pc = step]
        BY <1>2, <2>2 DEF QueryTrade
      <3>2. /\ step \in {"pay", "local", "trade"}
            /\ step = "local" => TradeStatus(o) = "CLOSED"
            /\ step = "trade" => TradeStatus(o) # "SUCCESS"
        BY DEF AfterQuery
      <3>3. [task[w] EXCEPT !.seen = seen, !.pc = step].pc = step
            /\ [task[w] EXCEPT !.seen = seen, !.pc = step].order = task[w].order
            /\ [task[w] EXCEPT !.seen = seen, !.pc = step].mode = task[w].mode
        <4> HIDE DEF seen, step
        <4> QED BY <1>a, Zenon DEF TypeOK, Task
      <3>4. \A v \in Workers :
               task'[v] = IF v = w THEN [task[w] EXCEPT !.seen = seen, !.pc = step] ELSE task[v]
        <4> HIDE DEF seen, step
        <4> QED BY <1>a, <3>1 DEF TypeOK, Task
      <3>5. step = "local" => trade[o].state = "closed" BY <3>2, ClosedIsClosed
      <3>6. AtAlipay(o) /\ step \in {"trade", "local"} => trade[o].payments = {}
        BY <1>a, <3>2, PaidIsReported
      <3>7. step = "local" => Dead(o)' BY <2>0, <3>5 DEF Dead
      <3> HIDE DEF seen, step
      <3> QED BY <2>0, <3>2, <3>3, <3>4, <3>6, <3>7 DEF ModeMoves, AskingSteps, At
    <2> QED BY <2>1, <2>2
  <1>3. ASSUME NEW w \in Workers, CloseTrade(w) PROVE Goal
    <2> SUFFICES ASSUME NEW o \in Orders, o = OrderOf(w) PROVE Goal
      BY <1>a, <1>3, Busy DEF CloseTrade, At, IInv
    <2>0. At(w, "trade") /\ UNCHANGED invoice BY <1>3 DEF CloseTrade
    <2>1. PICK step \in {"local", "requery", "release"} :
            /\ GoTo(w, step)
            /\ step = "local" /\ Cancelling(w) =>
                 \/ trade' = [trade EXCEPT ![o].state = "closed"]
                 \/ CloseOutcome(o) = "NOTFOUND" /\ NotFoundIsFinal(w, o) /\ UNCHANGED trade
      BY <1>3 DEF CloseTrade, AfterCloseError
    <2>2. ASSUME step = "local", Cancelling(w) PROVE Dead(o)'
      <3>1. CASE trade' = [trade EXCEPT ![o].state = "closed"]
        <4>1. trade[o] \in Trade BY <1>a DEF TypeOK
        <4>2. [trade[o] EXCEPT !.state = "closed"].state = "closed" BY <4>1, Zenon DEF Trade
        <4>3. trade'[o] = [trade[o] EXCEPT !.state = "closed"] BY <1>a, <3>1 DEF TypeOK
        <4> QED BY <4>2, <4>3 DEF Dead
      <3>2. CASE CloseOutcome(o) = "NOTFOUND" /\ NotFoundIsFinal(w, o) /\ UNCHANGED trade
        <4>1. invoice[o].gateway = "recorded" /\ invoice[o].due
          BY <2>2, <3>2 DEF NotFoundIsFinal
        <4>2. AskedGateway(o) = GatewayOf[o] BY <4>1 DEF AskedGateway
        <4>3. GatewayOf[o] # "hupijiao" BY <3>2, <4>2 DEF CloseOutcome
        <4>4. AtAlipay(o) BY <4>3, StoreAssumption DEF AtAlipay, Gateways
        <4>5. trade[o].state \in {"none", "issued", "open", "paid", "closed"}
          BY <1>a DEF TypeOK, Trade
        <4>6. trade[o].state # "paid"
          BY <3>2, <4>2, <4>3 DEF CloseOutcome
        <4>7. trade[o].state \in {"open", "closed"} => CloseOutcome(o) = "CLOSED"
          BY <4>2, <4>3 DEF CloseOutcome
        <4> QED BY <2>0, <3>2, <4>1, <4>4, <4>5, <4>6, <4>7 DEF Dead, AtAlipay
      <3> QED BY <2>1, <2>2, <3>1, <3>2
    <2>3. \A v \in Workers :
             IF v = w
             THEN /\ task'[v].pc = step
                  /\ task'[v].order = task[v].order /\ task'[v].mode = task[v].mode
             ELSE task'[v] = task[v]
      BY <1>a, <2>1, StepNames, TaskModes
    <2> QED BY <2>0, <2>1, <2>2, <2>3 DEF ModeMoves, AskingSteps, At, Cancelling
  <1>4. ASSUME NEW w \in Workers, RequeryTrade(w) PROVE Goal
    <2>0. At(w, "requery") BY <1>4 DEF RequeryTrade
    <2>1. PICK step \in {"local", "pay", "release"} :
            GoTo(w, step) /\ (step = "local" => ~Cancelling(w))
      BY <1>4 DEF RequeryTrade, AfterRequery
    <2>2. \A v \in Workers :
             IF v = w
             THEN /\ task'[v].pc = step
                  /\ task'[v].order = task[v].order /\ task'[v].mode = task[v].mode
             ELSE task'[v] = task[v]
      BY <1>a, <2>1, StepNames, TaskModes
    <2> QED BY <2>0, <2>1, <2>2 DEF ModeMoves, AskingSteps, At, Cancelling
  <1>5. ASSUME NEW w \in Workers, EndLocally(w) \/ CleanupEnded(w) PROVE Goal
    <2>1. ~At(w, "idle") /\ \E step \in {"cleanup", "release"} : GoTo(w, step)
      BY <1>5 DEF EndLocally, CleanupEnded, At
    <2> QED BY <1>c, <2>1, StepNames DEF AskingSteps
  <1>6. ASSUME NEW w \in Workers, CreateTrade(w) \/ RollbackPlaceholder(w) PROVE Goal
    <2>1. ~At(w, "idle")
          /\ \E step \in {"persist", "uncertain", "rollback", "delete"} : GoTo(w, step)
      BY <1>6 DEF CreateTrade, RollbackPlaceholder, At, AfterUnheard
    <2> QED BY <1>c, <2>1, StepNames DEF AskingSteps
  <1>7. ASSUME NEW w \in Workers,
               PersistTrade(w) \/ MarkUncertain(w) \/ DeleteFailedOrder(w) \/ ReleaseLease(w)
               \/ FinishApply(w) \/ RecordFailure(w) \/ RecordFailureWithStray(w)
               \/ TerminateApply(w) \/ DropServer(w) \/ Crash(w)
        PROVE  Goal
    BY <1>7, <1>b DEF PersistTrade, MarkUncertain, DeleteFailedOrder, ReleaseLease, FinishApply,
       RecordFailure, RecordFailureWithStray, TerminateApply, DropServer, Crash
  <1>8. ASSUME NEW w \in Workers, NEW o \in Orders,
               PlaceOrder(w, o) \/ StartRetry(w, o) \/ Admin(w, o)
        PROVE  Goal
    <2>1. \/ UNCHANGED task
          \/ \E step \in {"create", "stage1", "drop"} : StartTask(w, step, o, "none")
      BY <1>8 DEF PlaceOrder, StartRetry, Admin, ForceApply, ForceClose, CleanupPlaceholder
    <2> QED BY <1>0, <1>d, <2>1, StepNames DEF AskingSteps
  <1>9. ASSUME NEW w \in Workers, NEW o \in Orders, NEW t, NEW seen, AddPayment(w, o, t, seen)
        PROVE  Goal
    <2>1. Stop(w) \/ StartTask(w, "stage1", o, "none") BY <1>9 DEF AddPayment
    <2> QED BY <1>b, <1>d, <2>1, StepNames DEF AskingSteps
  <1>10. ASSUME NEW w \in Workers, RecordQueriedPayment(w) PROVE Goal
    BY <1>9, <1>10, <1>a, QueriedSteps
  <1>11. ASSUME NEW w \in Workers, NEW o \in Orders, Reports(w, o) PROVE Goal
    BY <1>9, <1>11, <1>a, <1>b, ReportSteps DEF MarkTransactionFailed
  <1>12. ASSUME NEW w \in Workers,
                PushToProcessing(w) \/ ClaimApply(w) \/ BeginEffect(w) \/ CommitEffect(w)
                \/ RunPostActions(w)
         PROVE  Goal
    <2>1. ~At(w, "idle")
      BY <1>12 DEF PushToProcessing, ClaimApply, BeginEffect, CommitEffect, RunPostActions, At
    <2>2. OrderOf(w) \in Orders BY <1>a, <2>1, Busy DEF IInv
    <2>3. effect[OrderOf(w)] \in {"none", "committed", "done"} BY <1>a, <2>2 DEF TypeOK
    <2>4. \/ Stop(w)
          \/ \E step \in {"claim", "effect", "commit", "post", "finish", "fail", "stray",
                          "orphan"} : GoTo(w, step)
      BY <1>12, <2>3
      DEF PushToProcessing, ClaimApply, BeginEffect, CommitEffect, RunPostActions
    <2> QED BY <1>b, <1>c, <2>1, <2>4, StepNames DEF AskingSteps
  <1>13. ASSUME NEW o \in Orders,
                Buyer(o) \/ DeleteLiveServer(o) \/ PassDueTime(o) \/ ElapseBackoff(o)
                \/ ExpireLease(o)
         PROVE  Goal
    BY <1>0, <1>13 DEF Buyer, OpenCashier, Pay, ExpireTrade, DeleteLiveServer, PassDueTime,
       ElapseBackoff, ExpireLease
  <1>14. CASE UNCHANGED allVars BY <1>0, <1>14 DEF allVars
  <1> QED BY <1>1, <1>2, <1>3, <1>4, <1>5, <1>6, <1>7, <1>8, <1>10, <1>11, <1>12, <1>13, <1>14
      DEF Next, ServiceNext, ApplyNext, ApplyStep

-------------------------------------------------------------------------------
(* Ended orders and their money *)

\* The fields of an invoice whose order nobody creates stay.
LEMMA FieldsKept ==
  ASSUME MoneyIInv, [Next]_allVars, NEW o \in Orders, invoice[o].gateway = "recorded"
  PROVE  /\ invoice'[o].gateway = "recorded"
         /\ \A w \in Workers : ~(At(w, "create") /\ OrderOf(w) = o)
  <1>1. IInv BY DEF MoneyIInv
  <1>2. \A w \in Workers : OrderOf(w) = o => task[w].pc \notin CreatingSteps
    BY DEF MoneyIInv, FieldsUnwritten
  <1>3. InvoiceMoves(o) BY <1>1, InvoiceStep
  <1> QED BY <1>2, <1>3 DEF InvoiceMoves, CreatingSteps, At

\* An order that no money can reach stays so.
LEMMA DeadStays ==
  ASSUME MoneyIInv, [Next]_allVars, NEW o \in Orders, Dead(o)
  PROVE  Dead(o)'
  <1>1. IInv BY DEF MoneyIInv
  <1>2. CASE trade[o].state = "closed" BY <1>1, <1>2, ClosedStays DEF Dead
  <1>3. CASE AtAlipay(o) /\ trade[o].state \in {"none", "issued"}
             /\ invoice[o].due /\ invoice[o].gateway = "recorded"
    <2>1. /\ invoice'[o].gateway = "recorded"
          /\ \A w \in Workers : ~(At(w, "create") /\ OrderOf(w) = o)
      BY <1>3, FieldsKept
    <2>2. invoice'[o].due BY <1>1, <1>3, InvoiceStep DEF InvoiceMoves
    <2>3. trade'[o] = trade[o]
      BY <1>1, <1>3, <2>1, GatewayStep DEF GatewayDoes, AcceptsPayment, AtAlipay
    <2> QED BY <1>3, <2>1, <2>2, <2>3 DEF Dead, AtAlipay
  <1> QED BY <1>2, <1>3 DEF Dead

\* No money has reached an order that none can reach.
LEMMA DeadUnpaid ==
  ASSUME IInv, NEW o \in Orders, Dead(o)
  PROVE  trade[o].payments = {}
  BY DEF IInv, FactsArePayments, Dead

\* Alipay takes no money after the due time.
LEMMA DueUnpaid ==
  ASSUME IInv, [Next]_allVars, NEW o \in Orders, AtAlipay(o), trade[o].payments = {},
         invoice[o].due
  PROVE  trade'[o].payments = {} /\ invoice'[o].due
  <1>1. trade'[o].payments = {} BY GatewayStep DEF GatewayDoes, AcceptsPayment, AtAlipay
  <1>2. invoice'[o].due BY InvoiceStep DEF InvoiceMoves
  <1> QED BY <1>1, <1>2

\* The fields a gateway needs are written before its trade is.
LEMMA FieldsStay ==
  ASSUME MoneyIInv, [Next]_allVars
  PROVE  FieldsUnwritten' /\ AlipayNeedsFields'
  <1>a. IInv /\ IInv' BY InvStep DEF MoneyIInv
  <1>b. \A o \in Orders : InvoiceMoves(o) BY <1>a, InvoiceStep
  <1>1. ASSUME NEW o \in Orders, order'[o].status = "absent"
        PROVE  invoice'[o].gateway = "null"
    <2>1. order[o].status = "absent" BY <1>1, <1>a, StatusStep DEF StatusMoves
    <2>2. invoice[o].gateway = "null" BY <2>1 DEF MoneyIInv, FieldsUnwritten
    <2>3. \A w \in Workers : task[w].pc \in CreatingSteps => OrderOf(w) # o
      BY <1>a, <2>1, Busy DEF IInv, At, CreatingSteps
    <2> QED BY <1>b, <2>2, <2>3 DEF InvoiceMoves, CreatingSteps, At
  <1>2. ASSUME NEW v \in Workers, task'[v].pc \in CreatingSteps,
               NEW o \in Orders, o = task'[v].order
        PROVE  invoice'[o].gateway = "null"
    <2>1. \/ task[v].pc \in CreatingSteps /\ task[v].order = o
          \/ Places(v)
      BY <1>a, <1>2, CreatorBefore
    <2>2. CASE task[v].pc \in CreatingSteps /\ task[v].order = o
      <3>1. invoice[o].gateway = "null" BY <2>2 DEF MoneyIInv, FieldsUnwritten, OrderOf
      <3>2. \A w \in Workers : task[w].pc \in CreatingSteps /\ OrderOf(w) = o => w = v
        BY <1>a, <2>2 DEF IInv, OneCreator, OrderOf
      <3>3. task'[v].pc # "idle" BY <1>2 DEF CreatingSteps
      <3> QED BY <1>b, <3>1, <3>2, <3>3 DEF InvoiceMoves, CreatingSteps, At
    <2>3. CASE Places(v)
      <3>1. order[o].status = "absent" /\ UNCHANGED invoice
        BY <1>2, <2>3 DEF Places, PlaceOrder
      <3> QED BY <3>1 DEF MoneyIInv, FieldsUnwritten
    <2> QED BY <2>1, <2>2, <2>3
  <1>3. FieldsUnwritten'
    <2>1. \A v \in Workers : task'[v].pc \in CreatingSteps => task'[v].order \in Orders
      BY <1>a DEF IInv, TasksHaveOrders, At, OrderOf, CreatingSteps
    <2> QED BY <1>1, <1>2, <2>1 DEF FieldsUnwritten, OrderOf
  <1>4. ASSUME NEW o \in Orders, AtAlipay(o), trade'[o].state \in {"open", "paid", "closed"}
        PROVE  invoice'[o].gateway = "recorded"
    <2>1. GatewayDoes(o) BY <1>a, GatewayStep
    <2>2. invoice[o].gateway = "recorded"
      BY <1>4, <2>1 DEF GatewayDoes, AcceptsPayment, AtAlipay, MoneyIInv, AlipayNeedsFields
    <2> QED BY <2>2, FieldsKept
  <1>5. AlipayNeedsFields' BY <1>4 DEF AlipayNeedsFields, AtAlipay
  <1> QED BY <1>3, <1>5

\* Tasks stay in the modes their steps have.
LEMMA ModesStay ==
  ASSUME MoneyIInv, [Next]_allVars
  PROVE  ModesOfTasks'
  <1>1. \A v \in Workers : ModeMoves(v) BY ModeStep
  <1>2. \A v \in Workers :
           /\ task[v].mode # "none" => task[v].pc # "idle"
           /\ task[v].pc \in AskingSteps => task[v].mode # "none"
    BY DEF MoneyIInv, ModesOfTasks, At, AskingSteps
  <1> QED BY <1>1, <1>2 DEF ModeMoves, ModesOfTasks, At, AskingSteps

\* How an order may become cancelled in one step.
CancelMoves(o) ==
    order'[o].status = "cancelled" =>
        \/ order[o].status = "cancelled"
        \/ \E w \in Workers : At(w, "local") /\ task[w].mode = "cancel" /\ OrderOf(w) = o

\* A row is cancelled by the request that has closed its trade, and by nobody else.
LEMMA RowCancels ==
  ASSUME TypeOK, NEW o \in Orders, NEW row, order' = [order EXCEPT ![o] = row],
         \/ row.status # "cancelled"
         \/ row.status = order[o].status
         \/ \E w \in Workers : At(w, "local") /\ task[w].mode = "cancel" /\ OrderOf(w) = o
  PROVE  \A p \in Orders : CancelMoves(p)
  <1>1. \A p \in Orders : order'[p] = IF p = o THEN row ELSE order[p] BY DEF TypeOK
  <1> QED BY <1>1 DEF CancelMoves

\* An order becomes cancelled in the local transition of a cancellation.
LEMMA CancelStep ==
  ASSUME IInv, [Next]_allVars
  PROVE  \A o \in Orders : CancelMoves(o)
  <1> DEFINE Goal == \A o \in Orders : CancelMoves(o)
  <1>a. TypeOK BY DEF IInv
  <1>b. \A o \in Orders : order[o] \in OrderRow BY <1>a DEF TypeOK
  <1>0. CASE UNCHANGED order BY <1>0 DEF CancelMoves
  <1>c. ASSUME NEW o \in Orders, NEW status \in Statuses,
               order' = [order EXCEPT ![o].status = status],
               status # "cancelled" \/ status = order[o].status
        PROVE  Goal
    <2> DEFINE row == [order[o] EXCEPT !.status = status]
    <2>1. row.status = status BY <1>b, Restated, Zenon
    <2>2. order' = [order EXCEPT ![o] = row] BY <1>c
    <2> HIDE DEF row
    <2> QED BY <1>a, <1>c, <2>1, <2>2, RowCancels
  <1>1. ASSUME NEW w \in Workers, NEW o \in Orders,
               PlaceOrder(w, o) \/ ForceClose(w, o)
        PROVE  Goal
    BY <1>1, <1>c, StatusNames DEF PlaceOrder, ForceClose
  <1>2. ASSUME NEW o \in Orders, NEW w \in Workers,
               \/ order' = [order EXCEPT ![o] = Leased(@, w)]
               \/ order' = [order EXCEPT ![o] = Unlocked(@)]
               \/ order' = [order EXCEPT ![o] = AppliedRow(@)]
               \/ order' = [order EXCEPT ![o] = FailedRow(@)]
               \/ order' = [order EXCEPT ![o] = RetriedRow(@)]
        PROVE  Goal
    <2>1. \E row \in {Leased(order[o], w), Unlocked(order[o]), AppliedRow(order[o]),
                      FailedRow(order[o]), RetriedRow(order[o])} :
             order' = [order EXCEPT ![o] = row]
      BY <1>2
    <2>2. \A row \in {Leased(order[o], w), Unlocked(order[o]), AppliedRow(order[o]),
                      FailedRow(order[o]), RetriedRow(order[o])} :
             row.status # "cancelled" \/ row.status = order[o].status
      BY <1>b, RowStatus
    <2> QED BY <1>a, <2>1, <2>2, RowCancels
  <1>3. ASSUME NEW w \in Workers, NEW o \in Orders, NEW mode \in {"close", "cancel"},
               ClaimPending(w, o, mode)
        PROVE  Goal
    BY <1>2, <1>3 DEF ClaimPending
  <1>4. ASSUME NEW w \in Workers,
               \/ QueryTrade(w) \/ RequeryTrade(w) \/ ReleaseLease(w)
               \/ ClaimApply(w) \/ FinishApply(w) \/ RecordFailure(w)
               \/ RecordFailureWithStray(w) \/ TerminateApply(w)
        PROVE  Goal
    <2>1. OrderOf(w) \in Orders
      BY <1>4, <1>a, Busy DEF QueryTrade, RequeryTrade, ReleaseLease, ClaimApply, FinishApply,
         RecordFailure, RecordFailureWithStray, TerminateApply, At, IInv
    <2>2. \/ UNCHANGED order
          \/ order' = [order EXCEPT ![OrderOf(w)] = Leased(@, w)]
          \/ order' = [order EXCEPT ![OrderOf(w)] = Unlocked(@)]
          \/ order' = [order EXCEPT ![OrderOf(w)] = AppliedRow(@)]
          \/ order' = [order EXCEPT ![OrderOf(w)] = FailedRow(@)]
          \/ order' = [order EXCEPT ![OrderOf(w)] = RetriedRow(@)]
      BY <1>4 DEF QueryTrade, RequeryTrade, ReleaseLease, ReleaseIfMine, ClaimApply, FinishApply,
         RecordFailure, RecordFailureWithStray, TerminateApply
    <2> QED BY <1>0, <1>2, <2>1, <2>2
  <1>5. ASSUME NEW w \in Workers, EndLocally(w) PROVE Goal
    <2> SUFFICES ASSUME NEW o \in Orders, o = OrderOf(w) PROVE Goal
      BY <1>5, Busy DEF EndLocally, At, IInv
    <2> DEFINE row == [Unlocked(order[o]) EXCEPT !.status = EndedStatus(w)]
    <2>1. EndedStatus(w) \in {"closed", "cancelled"}
          /\ (EndedStatus(w) = "cancelled" => task[w].mode = "cancel")
      BY DEF EndedStatus, Cancelling
    <2>2. EndedStatus(w) \in Statuses /\ Unlocked(order[o]) \in OrderRow
      BY <1>b, <2>1, StatusNames, RowTypes
    <2>3. row.status = EndedStatus(w) BY <2>2, Restated, Zenon
    <2>4. UNCHANGED order \/ order' = [order EXCEPT ![o] = row] BY <1>5 DEF EndLocally
    <2>5. At(w, "local") BY <1>5 DEF EndLocally
    <2> HIDE DEF row
    <2> QED BY <1>0, <1>a, <2>1, <2>3, <2>4, <2>5, RowCancels
  <1>6. ASSUME NEW w \in Workers, DeleteFailedOrder(w) PROVE Goal
    <2>1. OrderOf(w) \in Orders BY <1>6, Busy DEF DeleteFailedOrder, At, IInv
    <2> DEFINE row == [FreshOrder EXCEPT !.status = "deleted"]
    <2>2. FreshOrder \in OrderRow /\ "deleted" \in Statuses
      BY StatusNames DEF FreshOrder, OrderRow
    <2>3. row.status = "deleted" BY <2>2, Restated, Zenon
    <2>4. UNCHANGED order \/ order' = [order EXCEPT ![OrderOf(w)] = row]
      BY <1>6 DEF DeleteFailedOrder
    <2> HIDE DEF row
    <2> QED BY <1>0, <1>a, <2>1, <2>3, <2>4, RowCancels
  <1>7. ASSUME NEW w \in Workers, NEW o \in Orders, NEW t \in Txs, NEW seen \in InvoiceStatuses,
               AddPayment(w, o, t, seen)
        PROVE  Goal
    <2>1. \/ UNCHANGED order
          \/ order' = [order EXCEPT ![o].status = StatusAfterPayment(o, t, seen)]
      BY <1>7 DEF AddPayment, RecordFact
    <2>2. StatusAfterPayment(o, t, seen) \in {"manual_review", order[o].status}
      BY DEF StatusAfterPayment
    <2>3. {"manual_review", order[o].status} \subseteq Statuses
      BY <1>b, StatusNames DEF OrderRow
    <2> QED BY <1>0, <1>c, <2>1, <2>2, <2>3
  <1>8. ASSUME NEW w \in Workers, RecordQueriedPayment(w) PROVE Goal
    BY <1>7, <1>8, <1>a, QueriedSteps, PaymentTxs
  <1>9. ASSUME NEW w \in Workers, NEW o \in Orders, Reports(w, o) PROVE Goal
    <2>1. ASSUME NEW t \in Txs, MarkTransactionFailed(w, o, t) PROVE Goal
      BY <1>0, <2>1 DEF MarkTransactionFailed
    <2> QED BY <1>7, <1>9, <1>a, <2>1, ReportSteps, PaymentTxs
  <1>10. ASSUME NEW w \in Workers, PushToProcessing(w) PROVE Goal
    <2>1. OrderOf(w) \in Orders BY <1>10, Busy DEF PushToProcessing, At, IInv
    <2>2. \/ UNCHANGED order
          \/ \E status \in {"processing", order[OrderOf(w)].status} :
                order' = [order EXCEPT ![OrderOf(w)].status = status]
      BY <1>10 DEF PushToProcessing
    <2>3. {"processing", order[OrderOf(w)].status} \subseteq Statuses
      BY <1>b, <2>1, StatusNames DEF OrderRow
    <2> QED BY <1>0, <1>c, <2>1, <2>2, <2>3
  <1>11. ASSUME NEW w \in Workers, NEW o \in Orders, ForceApply(w, o) PROVE Goal
    <2> DEFINE row == [order[o] EXCEPT !.status = "processing", !.backoff = FALSE, !.retries = 0]
    <2>1. row.status = "processing" BY <1>b, Zenon DEF OrderRow
    <2>2. order' = [order EXCEPT ![o] = row] BY <1>11 DEF ForceApply
    <2> HIDE DEF row
    <2> QED BY <1>a, <2>1, <2>2, RowCancels
  <1>12. ASSUME NEW o \in Orders, ElapseBackoff(o) \/ ExpireLease(o) PROVE Goal
    <2>1. \A row \in OrderRow : /\ [row EXCEPT !.backoff = FALSE].status = row.status
                                /\ [row EXCEPT !.expired = TRUE].status = row.status
      BY Zenon DEF OrderRow
    <2>2. \/ order' = [order EXCEPT ![o] = [order[o] EXCEPT !.backoff = FALSE]]
          \/ order' = [order EXCEPT ![o] = [order[o] EXCEPT !.expired = TRUE]]
      BY <1>12 DEF ElapseBackoff, ExpireLease
    <2>3. \E row : row.status = order[o].status /\ order' = [order EXCEPT ![o] = row]
      BY <1>b, <2>1, <2>2
    <2> QED BY <1>a, <2>3, RowCancels
  <1>13. ASSUME NEW w \in Workers, NEW o \in Orders, StartRetry(w, o) \/ CleanupPlaceholder(w, o)
         PROVE  Goal
    BY <1>0, <1>13 DEF StartRetry, CleanupPlaceholder
  <1>14. ASSUME NEW w \in Workers,
                \/ CreateTrade(w) \/ PersistTrade(w) \/ MarkUncertain(w) \/ RollbackPlaceholder(w)
                \/ CloseTrade(w) \/ CleanupEnded(w) \/ BeginEffect(w) \/ CommitEffect(w)
                \/ RunPostActions(w) \/ DropServer(w) \/ Crash(w)
         PROVE  Goal
    BY <1>0, <1>14 DEF CreateTrade, PersistTrade, MarkUncertain, RollbackPlaceholder, CloseTrade,
       CleanupEnded, BeginEffect, CommitEffect, RunPostActions, DropServer, Crash
  <1>15. ASSUME NEW o \in Orders, Buyer(o) \/ DeleteLiveServer(o) \/ PassDueTime(o) PROVE Goal
    BY <1>0, <1>15 DEF Buyer, OpenCashier, Pay, ExpireTrade, DeleteLiveServer, PassDueTime
  <1>16. CASE UNCHANGED allVars BY <1>0, <1>16 DEF allVars
  <1> QED BY <1>1, <1>3, <1>4, <1>5, <1>6, <1>8, <1>9, <1>10, <1>11, <1>12, <1>13, <1>14, <1>15,
      <1>16
      DEF Next, ServiceNext, ApplyNext, ApplyStep, StartClose, StartCancel, Admin

\* What is cancelled, or about to be, stays dead at the gateway.
LEMMA CancelsStay ==
  ASSUME MoneyIInv, [Next]_allVars
  PROVE  CancelsWhatIsDead'
  <1>a. IInv BY DEF MoneyIInv
  <1>1. ASSUME NEW v \in Workers, task'[v].pc = "local", task'[v].mode = "cancel",
               NEW o \in Orders, o = task'[v].order
        PROVE  Dead(o)'
    <2>1. ModeMoves(v) BY ModeStep
    <2>2. CASE task'[v] = task[v]
      <3>1. Dead(o) BY <1>1, <2>2 DEF MoneyIInv, CancelsWhatIsDead, At, OrderOf
      <3> QED BY <3>1, DeadStays
    <2> QED BY <1>1, <2>1, <2>2 DEF ModeMoves, OrderOf
  <1>2. ASSUME NEW o \in Orders, order'[o].status = "cancelled" PROVE Dead(o)'
    <2>1. Dead(o)
      BY <1>a, <1>2, CancelStep DEF CancelMoves, MoneyIInv, CancelsWhatIsDead
    <2> QED BY <2>1, DeadStays
  <1>3. \A v \in Workers : task'[v].pc = "local" => task'[v].order \in Orders
    BY <1>a, OrdersStay DEF TasksHaveOrders, At, OrderOf
  <1> QED BY <1>1, <1>2, <1>3 DEF CancelsWhatIsDead, At, OrderOf

\* What is closed, or about to be, was due for closing.
LEMMA ClosesStay ==
  ASSUME MoneyIInv, [Next]_allVars
  PROVE  ClosesWhatIsDue'
  <1>a. IInv /\ TypeOK BY DEF MoneyIInv, IInv
  <1>b. \A v \in Workers : ModeMoves(v) BY ModeStep
  <1>c. \A o \in Orders : invoice[o].due => invoice'[o].due BY <1>a, InvoiceStep DEF InvoiceMoves
  <1>d. \A v \in Workers : task[v].mode = "close" => task[v].order \in Orders
    BY <1>a, Busy DEF MoneyIInv, ModesOfTasks, IInv, OrderOf
  <1>1. ASSUME NEW v \in Workers, task'[v].mode = "close" PROVE invoice'[task'[v].order].due
    <2>1. CASE task'[v].order = task[v].order /\ task'[v].mode = task[v].mode
      BY <1>1, <1>c, <1>d, <2>1 DEF MoneyIInv, ClosesWhatIsDue, OrderOf
    <2> QED BY <1>1, <1>b, <1>c, <2>1 DEF ModeMoves
  <1>2. ASSUME NEW v \in Workers, task'[v].mode = "close",
               task'[v].pc \in {"trade", "requery", "local"},
               NEW o \in Orders, o = task'[v].order, AtAlipay(o)
        PROVE  trade'[o].payments = {}
    <2>1. /\ task[v].order = o /\ task[v].mode = "close"
          /\ \/ task[v].pc \in {"trade", "requery", "local"}
             \/ UNCHANGED trade /\ trade[o].payments = {}
      BY <1>2, <1>b DEF ModeMoves, OrderOf
    <2>2. CASE task[v].pc \in {"trade", "requery", "local"}
      <3>1. trade[o].payments = {} /\ invoice[o].due
        BY <1>2, <2>1, <2>2 DEF MoneyIInv, ClosesWhatIsDue, OrderOf
      <3> QED BY <1>2, <1>a, <3>1, DueUnpaid
    <2> QED BY <2>1, <2>2
  <1>3. ASSUME NEW o \in Orders, AtAlipay(o), invoice'[o].status = "void"
        PROVE  Sealed(o)'
    <2>1. CASE Sealed(o)
      <3>1. CASE trade[o].state = "closed"
        <4>1. trade'[o].state = "closed" BY <1>a, <3>1, ClosedStays
        <4>2. trade'[o].payments = {} BY <1>a, <4>1, InvStep DEF IInv, FactsArePayments
        <4> QED BY <4>1, <4>2 DEF Sealed
      <3>2. CASE invoice[o].due
        BY <1>3, <1>a, <2>1, <3>2, DueUnpaid DEF Sealed
      <3> QED BY <2>1, <3>1, <3>2 DEF Sealed
    <2>2. CASE invoice[o].status # "void"
      <3>1. PICK w \in Workers : At(w, "local") /\ OrderOf(w) = o
        BY <1>a, <1>3, <2>2, InvoiceStep DEF InvoiceMoves
      <3>2. task[w].mode \in {"close", "cancel"}
        BY <1>a, <3>1 DEF MoneyIInv, ModesOfTasks, At, TypeOK, Task
      <3>3. CASE task[w].mode = "close"
        <4>1. trade[o].payments = {} /\ invoice[o].due
          BY <1>3, <3>1, <3>3 DEF MoneyIInv, ClosesWhatIsDue, At
        <4> QED BY <2>1, <4>1 DEF Sealed
      <3>4. CASE task[w].mode = "cancel"
        <4>1. Dead(o) BY <3>1, <3>4 DEF MoneyIInv, CancelsWhatIsDead
        <4>2. trade[o].payments = {} BY <1>a, <4>1, DeadUnpaid
        <4> QED BY <2>1, <4>1, <4>2 DEF Sealed, Dead
      <3> QED BY <3>2, <3>3, <3>4
    <2> QED BY <1>3, <2>1, <2>2 DEF MoneyIInv, ClosesWhatIsDue
  <1>4. \A v \in Workers : task'[v].mode = "close" => task'[v].order \in Orders
    BY <1>b, <1>d DEF ModeMoves
  <1> QED BY <1>1, <1>2, <1>3, <1>4 DEF ClosesWhatIsDue, OrderOf, AtAlipay

\* What the jobs and handlers know of a trade stays true of it in every run.
THEOREM MoneyInvariant == Spec => []MoneyIInv
  <1>1. Init => MoneyIInv
    <2> SUFFICES ASSUME Init PROVE MoneyIInv OBVIOUS
    <2>1. IInv BY InvInit
    <2>2. /\ \A o \in Orders : /\ order[o].status = "absent"
                               /\ invoice[o].gateway = "null" /\ invoice[o].status = "pending"
                               /\ trade[o].state = "none"
          /\ \A w \in Workers : task[w].pc = "idle" /\ task[w].mode = "none"
      BY DEF Init, StoreInit, FreshOrder, Idle
    <2> QED BY <2>1, <2>2
        DEF MoneyIInv, FieldsUnwritten, AlipayNeedsFields, ModesOfTasks, CancelsWhatIsDead,
            ClosesWhatIsDue, At, CreatingSteps
  <1>2. MoneyIInv /\ [Next]_allVars => MoneyIInv'
    <2> SUFFICES ASSUME MoneyIInv, [Next]_allVars PROVE MoneyIInv' OBVIOUS
    <2>1. IInv' BY InvStep DEF MoneyIInv
    <2> QED BY <2>1, FieldsStay, ModesStay, CancelsStay, ClosesStay DEF MoneyIInv
  <1> QED BY <1>1, <1>2, PTL DEF Spec

\* An order the customer cancelled has not been charged and cannot be any more,
\* whichever tasks, crashes and reports come between the query, the close of the
\* trade and the local transition (cancel_order).
THEOREM CancelledOrdersAreFree == Spec => []CancelledNeverCharged
  <1>1. MoneyIInv => CancelledNeverCharged
    <2> SUFFICES ASSUME MoneyIInv, NEW o \in Orders, order[o].status = "cancelled"
                 PROVE  trade[o].payments = {} /\ ~CashierUsable(o)
      BY DEF CancelledNeverCharged
    <2>1. Dead(o) BY DEF MoneyIInv, CancelsWhatIsDead
    <2>2. trade[o].payments = {} BY <2>1, DeadUnpaid DEF MoneyIInv
    <2>3. ~CashierUsable(o) BY <2>1 DEF Dead, CashierUsable, AcceptsPayment, AtAlipay
    <2> QED BY <2>2, <2>3
  <1> QED BY <1>1, MoneyInvariant, PTL

\* An order at Alipay that order_close or cancel_order ended, voiding its invoice, was
\* never charged, even when order_close went on after a close call that failed.
THEOREM VoidInvoicesAreFree == Spec => []VoidAlipayNeverCharged
  <1>1. MoneyIInv => VoidAlipayNeverCharged
    BY DEF MoneyIInv, ClosesWhatIsDue, Sealed, VoidAlipayNeverCharged, AtAlipay
  <1> QED BY <1>1, MoneyInvariant, PTL

-------------------------------------------------------------------------------
(* The inductive invariant *)

\* What the refund's row, the transaction, the order and the gateway say of one refund.
RecordsAgree(o, t) ==
    LET row == refund[o][t] IN
    /\ row.status = "none" => gatewaySide[o][t] = "none"
    /\ row.status # "none" => row.prev \in Refundable /\ tx[o][t] \in {"succeeded", "refunded"}
    /\ row.status # "none" /\ row.prev = "applied" => effect[o] = "done" /\ grants[o] = 1
    /\ row.status = "succeeded" <=> tx[o][t] = "refunded"
    /\ refunded[o][t] = IF tx[o][t] = "refunded" THEN 1 ELSE 0
    /\ payouts[o][t] = IF gatewaySide[o][t] = "paid" THEN 1 ELSE 0
    /\ tx[o][t] = "refunded" => gatewaySide[o][t] = "paid"

JobSteps == {"poll", "reissue", "bump", "settle"}
RequestSteps == {"issue", "undo", "refused", "accepted", "paid", "settle"}

\* Who is at a desk works on a refund that is open; what the job may take up has no
\* request at work on it.
DeskInOrder(w) ==
    LET o == clerk[w].order
        t == clerk[w].tx
    IN
    IF AtDesk(w, "idle") THEN clerk[w] = AwayFromDesk
    ELSE /\ o \in Orders /\ t \in Txs
         /\ RefundUnderWay(o, t)
         /\ clerk[w].pc \in IF clerk[w].job THEN JobSteps ELSE RequestSteps
         /\ ~clerk[w].job => refund[o][t].retries = 0 /\ ~refund[o][t].aged
         /\ clerk[w].job => refund[o][t].retries < MaxRefundRetries
         /\ clerk[w].pc \in {"paid", "settle"} => gatewaySide[o][t] = "paid"

\* No two workers are busy with one refund, and the job runs once.
DesksApart ==
    \A v, w \in Workers :
        /\ ~AtDesk(v, "idle") /\ ~AtDesk(w, "idle")
           /\ clerk[v].order = clerk[w].order /\ clerk[v].tx = clerk[w].tx => v = w
        /\ clerk[v].job /\ clerk[w].job => v = w

RefundIInv ==
    /\ IInv
    /\ RefundTypeOK
    /\ \A o \in Orders, t \in Txs : RecordsAgree(o, t)
    /\ \A w \in Workers : DeskInOrder(w)
    /\ DesksApart

-------------------------------------------------------------------------------
(* What the parts of a step do to a table *)

Sides == {"none", "processing", "paid", "refused"}

\* Writing one refund row changes that row only.
LEMMA RefundWrite ==
  ASSUME refund \in [Orders -> [Txs -> RefundRow]], NEW o \in Orders, NEW t \in Txs,
         NEW row \in RefundRow, refund' = [refund EXCEPT ![o][t] = row]
  PROVE  /\ refund' \in [Orders -> [Txs -> RefundRow]]
         /\ \A p \in Orders, s \in Txs :
               refund'[p][s] = IF p = o /\ s = t THEN row ELSE refund[p][s]
  OBVIOUS

\* The gateway counts a payout with each move to "paid".
LEMMA GatewayMove ==
  ASSUME RefundTypeOK, NEW o \in Orders, NEW t \in Txs, NEW side \in Sides,
         GatewayMoves(o, t, side)
  PROVE  /\ gatewaySide' \in [Orders -> [Txs -> Sides]]
         /\ payouts' \in [Orders -> [Txs -> Nat]]
         /\ \A p \in Orders, s \in Txs :
               /\ gatewaySide'[p][s] = IF p = o /\ s = t THEN side ELSE gatewaySide[p][s]
               /\ payouts'[p][s] = IF p = o /\ s = t /\ side = "paid" /\ gatewaySide[o][t] # "paid"
                                   THEN payouts[p][s] + 1 ELSE payouts[p][s]
  BY DEF GatewayMoves, RefundTypeOK, Sides

\* A call of the gateway moves one refund, never back from "paid"; where it is answered
\* with success the refund is paid.
LEMMA RefundCall ==
  ASSUME RefundTypeOK, NEW o \in Orders, NEW t \in Txs,
         NEW answer \in {"ERROR", "SUCCEEDED", "FAILED", "PROCESSING"}, CreateRefund(o, t, answer)
  PROVE  \E side \in Sides :
            /\ GatewayMoves(o, t, side)
            /\ gatewaySide[o][t] = "paid" => side = "paid"
            /\ answer = "SUCCEEDED" => side = "paid"
  <1>1. gatewaySide[o][t] \in Sides BY DEF RefundTypeOK, Sides
  <1>2. TakenRefund(o, t) \subseteq Sides
        /\ \A side \in TakenRefund(o, t) : gatewaySide[o][t] = "paid" => side = "paid"
    BY <1>1 DEF TakenRefund, Sides
  <1> QED BY <1>1, <1>2 DEF CreateRefund

\* Sitting down at a desk, moving on and leaving change one worker.
LEMMA DeskMoves ==
  ASSUME RefundTypeOK, NEW w \in Workers
  PROVE  /\ LeaveDesk(w) =>
               /\ clerk' \in [Workers -> Desk]
               /\ \A v \in Workers : clerk'[v] = IF v = w THEN AwayFromDesk ELSE clerk[v]
         /\ \A step \in ClerkSteps : DeskGoTo(w, step) =>
               /\ clerk' \in [Workers -> Desk]
               /\ \A v \in Workers \ {w} : clerk'[v] = clerk[v]
               /\ clerk'[w].pc = step /\ clerk'[w].order = clerk[w].order
               /\ clerk'[w].tx = clerk[w].tx /\ clerk'[w].job = clerk[w].job
  <1>0. clerk \in [Workers -> Desk] BY DEF RefundTypeOK
  <1>1. AwayFromDesk \in Desk BY DEF AwayFromDesk, Desk, ClerkSteps
  <1>2. ASSUME LeaveDesk(w)
        PROVE  /\ clerk' \in [Workers -> Desk]
               /\ \A v \in Workers : clerk'[v] = IF v = w THEN AwayFromDesk ELSE clerk[v]
    BY <1>0, <1>1, <1>2 DEF LeaveDesk
  <1>3. ASSUME NEW step \in ClerkSteps, DeskGoTo(w, step)
        PROVE  /\ clerk' \in [Workers -> Desk]
               /\ \A v \in Workers \ {w} : clerk'[v] = clerk[v]
               /\ clerk'[w].pc = step /\ clerk'[w].order = clerk[w].order
               /\ clerk'[w].tx = clerk[w].tx /\ clerk'[w].job = clerk[w].job
    <2> DEFINE desk == [clerk[w] EXCEPT !.pc = step]
    <2>1. clerk[w] \in Desk BY <1>0
    <2>2. desk \in Desk /\ desk.pc = step /\ desk.order = clerk[w].order
          /\ desk.tx = clerk[w].tx /\ desk.job = clerk[w].job
      BY <2>1, <1>3 DEF Desk
    <2>3. clerk' = [clerk EXCEPT ![w] = desk] BY <1>3 DEF DeskGoTo
    <2> HIDE DEF desk
    <2> QED BY <1>0, <2>2, <2>3
  <1> QED BY <1>2, <1>3

-------------------------------------------------------------------------------
(* The paid orders *)

\* What a refund may do to the tables of BillingOrders.
OrderMoves(o) ==
    \/ order'[o].status = order[o].status
    \/ /\ Exists(o) /\ order'[o].status \notin {"absent", "deleted"}
       /\ order'[o].status = "applied" => effect[o] = "done" /\ grants[o] = 1

RefundFootprint ==
    /\ order' \in [Orders -> OrderRow]
    /\ \A o \in Orders : OrderMoves(o)
    /\ tx' \in [Orders -> [Txs -> {"none", "succeeded", "failed", "refunded"}]]
    /\ \A o \in Orders, t \in Txs :
          tx'[o][t] = tx[o][t] \/ (tx[o][t] = "succeeded" /\ tx'[o][t] = "refunded")
    /\ UNCHANGED otherTables

\* A step that leaves this footprint keeps the invariant of the paid orders.
LEMMA RefundKeepsIInv ==
  ASSUME IInv, RefundFootprint
  PROVE  IInv'
  <1>0. UNCHANGED <<invoice, credits, effect, grants, server, trade, answered, task>>
    BY DEF RefundFootprint, otherTables
  <1>1. TypeOK' BY <1>0 DEF IInv, TypeOK, RefundFootprint
  <1>2. \A o \in Orders :
          /\ order[o].status = "absent" <=> order'[o].status = "absent"
          /\ order[o].status = "deleted" <=> order'[o].status = "deleted"
          /\ order'[o].status = "applied" => order[o].status = "applied" \/
                (effect[o] = "done" /\ grants[o] = 1)
    BY DEF RefundFootprint, OrderMoves, Exists
  <1>3. \A o \in Orders, t \in Txs :
          tx[o][t] \in {"succeeded", "refunded"} <=> tx'[o][t] \in {"succeeded", "refunded"}
    BY DEF RefundFootprint
  <1>4. \A o \in Orders : PaidTxs(o)' = PaidTxs(o) /\ (HasPayment(o)' <=> HasPayment(o))
                          /\ (Exists(o)' <=> Exists(o))
    BY <1>2, <1>3 DEF PaidTxs, HasPayment, Exists
  <1>5. TasksHaveOrders'
    BY <1>0, <1>2 DEF IInv, TasksHaveOrders, At, OrderOf
  <1>6. OneCreator'
    <2>1. \A w \in Workers : task[w].pc \in CreatingSteps => task[w].pc # "idle"
      BY DEF CreatingSteps
    <2> QED BY <1>0, <1>2, <2>1 DEF IInv, OneCreator, TasksHaveOrders, At, OrderOf
  <1>7. UnknownToGateway' BY <1>0, <1>2 DEF IInv, UnknownToGateway, OrderOf
  <1>8. FactsArePayments' BY <1>0, <1>4 DEF IInv, FactsArePayments
  <1>9. ApplyProgress'
    <2>1. \A w \in Workers : task[w].pc \in PaidSteps => OrderOf(w) \in Orders
      BY PaidTask
    <2> QED BY <1>0, <1>4, <2>1 DEF IInv, ApplyProgress, At, OrderOf
  <1>10. StrayEffects' /\ GrantedOnce' BY <1>0 DEF IInv, StrayEffects, GrantedOnce
  <1>11. GrantedOnlyPaid' BY <1>0, <1>4 DEF IInv, GrantedOnlyPaid
  <1>12. CreditedOnce' BY <1>0, <1>3 DEF IInv, CreditedOnce
  <1>13. AppliedIsDelivered' BY <1>0, <1>2 DEF IInv, AppliedIsDelivered
  <1> QED BY <1>1, <1>5, <1>6, <1>7, <1>8, <1>9, <1>10, <1>11, <1>12, <1>13 DEF IInv

\* The rows the desks write, and that they are rows.
Restamped(row, status) == [row EXCEPT !.status = status, !.aged = FALSE]
Counted(row) == Restamped([row EXCEPT !.retries = @ + 1], "failed")

\* Rewritten rows of refunds are rows.
LEMMA RefundRows ==
  ASSUME NEW row \in RefundRow
  PROVE  /\ \A status \in {"pending", "failed", "succeeded"} :
               LET new == Restamped(row, status) IN
               /\ new \in RefundRow
               /\ new.status = status /\ new.aged = FALSE
               /\ new.retries = row.retries /\ new.prev = row.prev
         /\ row.retries < MaxRefundRetries =>
               /\ Counted(row) \in RefundRow
               /\ Counted(row).status = "failed" /\ Counted(row).aged = FALSE
               /\ Counted(row).prev = row.prev /\ Counted(row).retries = row.retries + 1
         /\ [row EXCEPT !.aged = FALSE] \in RefundRow
         /\ [row EXCEPT !.aged = TRUE] \in RefundRow
  <1>1. ASSUME NEW r \in RefundRow, NEW status \in {"pending", "failed", "succeeded"}
        PROVE  /\ Restamped(r, status) \in RefundRow
               /\ Restamped(r, status).status = status /\ Restamped(r, status).aged = FALSE
               /\ Restamped(r, status).retries = r.retries /\ Restamped(r, status).prev = r.prev
    BY DEF Restamped, RefundRow
  <1>2. ASSUME row.retries < MaxRefundRetries
        PROVE  /\ Counted(row) \in RefundRow
               /\ Counted(row).status = "failed" /\ Counted(row).aged = FALSE
               /\ Counted(row).prev = row.prev /\ Counted(row).retries = row.retries + 1
    <2> DEFINE more == [row EXCEPT !.retries = @ + 1]
    <2>1. row.retries + 1 \in 0..MaxRefundRetries BY <1>2, RefundAssumption DEF RefundRow
    <2>2. more \in RefundRow /\ more.prev = row.prev /\ more.retries = row.retries + 1
      BY <2>1 DEF RefundRow
    <2> HIDE DEF more
    <2>3. Restamped(more, "failed") \in RefundRow
          /\ Restamped(more, "failed").status = "failed" /\ Restamped(more, "failed").aged = FALSE
          /\ Restamped(more, "failed").retries = more.retries
          /\ Restamped(more, "failed").prev = more.prev
      BY <1>1, <2>2
    <2> QED BY <2>2, <2>3 DEF Counted, more
  <1>3. [row EXCEPT !.aged = FALSE] \in RefundRow /\ [row EXCEPT !.aged = TRUE] \in RefundRow
    BY DEF RefundRow
  <1> QED BY <1>1, <1>2, <1>3

\* The order of the assignments does not matter.
LEMMA CountedRow ==
  ASSUME NEW row \in RefundRow
  PROVE  /\ [row EXCEPT !.status = "failed", !.aged = FALSE, !.retries = @ + 1] = Counted(row)
         /\ [row EXCEPT !.status = "failed", !.retries = @ + 1, !.aged = FALSE] = Counted(row)
  <1> DEFINE n == row.retries + 1
             here == [row EXCEPT !.status = "failed", !.aged = FALSE, !.retries = n]
             there == [row EXCEPT !.status = "failed", !.retries = n, !.aged = FALSE]
             more == [row EXCEPT !.retries = n]
  <1>1. here = there BY Zenon DEF RefundRow
  <1>2. here = [more EXCEPT !.status = "failed", !.aged = FALSE]
    <2> HIDE DEF n
    <2> QED BY Zenon DEF RefundRow
  <1> QED BY <1>1, <1>2, Zenon DEF Counted, Restamped

\* An order goes back to what it was before its refund, or keeps its row.
LEMMA RestoredRows ==
  ASSUME RefundIInv, NEW w \in Workers, NEW o \in Orders, NEW t \in Txs,
         refund[o][t].status # "none", Exists(o),
         order' = Restored(w, o, t) \/ order' = order
  PROVE  /\ order' \in [Orders -> OrderRow]
         /\ \A p \in Orders : OrderMoves(p)
  <1>0. order \in [Orders -> OrderRow] BY DEF RefundIInv, IInv, TypeOK
  <1> DEFINE prev == refund[o][t].prev
             row == [Unlocked(order[o]) EXCEPT !.status = prev]
  <1>1. prev \in Refundable /\ (prev = "applied" => effect[o] = "done" /\ grants[o] = 1)
    BY DEF RefundIInv, RecordsAgree
  <1>2. prev \in Statuses /\ prev \notin {"absent", "deleted"}
    BY <1>1 DEF Refundable, Statuses
  <1>3. row \in OrderRow /\ row.status = prev
    BY <1>0, <1>2, RowTypes, Restated
  <1>4. CASE order' = order BY <1>0, <1>4 DEF OrderMoves
  <1>5. CASE order' = [order EXCEPT ![o] = row]
    <2> HIDE DEF row, prev
    <2>1. \A p \in Orders : order'[p] = IF p = o THEN row ELSE order[p] BY <1>0, <1>5
    <2>2. order' \in [Orders -> OrderRow] BY <1>0, <1>3, <1>5
    <2> QED BY <1>1, <1>2, <1>3, <2>1, <2>2 DEF OrderMoves
  <1> QED BY <1>4, <1>5 DEF Restored

-------------------------------------------------------------------------------
(* Desks *)

\* What a step at one desk may do to the others.
OnlyDesk(w, o, t) ==
    /\ \A v \in Workers \ {w} : clerk'[v] = clerk[v]
    /\ \A p \in Orders, s \in Txs :
          p # o \/ s # t => refund'[p][s] = refund[p][s] /\ gatewaySide'[p][s] = gatewaySide[p][s]

\* Nobody else is at the refund of a desk, so a step there leaves other desks in order.
LEMMA OthersKept ==
  ASSUME RefundIInv, NEW w \in Workers, NEW o \in Orders, NEW t \in Txs, OnlyDesk(w, o, t),
         \A v \in Workers \ {w} :
            ~AtDesk(v, "idle") => clerk[v].order # o \/ clerk[v].tx # t
  PROVE  \A v \in Workers \ {w} : DeskInOrder(v)'
  <1> SUFFICES ASSUME NEW v \in Workers \ {w} PROVE DeskInOrder(v)'
    OBVIOUS
  <1>1. clerk'[v] = clerk[v] /\ DeskInOrder(v) BY DEF OnlyDesk, RefundIInv
  <1>2. CASE AtDesk(v, "idle") BY <1>1, <1>2 DEF DeskInOrder, AtDesk
  <1>3. CASE ~AtDesk(v, "idle")
    <2> DEFINE p == clerk[v].order
               s == clerk[v].tx
    <2>1. p \in Orders /\ s \in Txs /\ (p # o \/ s # t) BY <1>1, <1>3 DEF DeskInOrder
    <2>2. refund'[p][s] = refund[p][s] /\ gatewaySide'[p][s] = gatewaySide[p][s]
      BY <2>1 DEF OnlyDesk
    <2> QED BY <1>1, <1>3, <2>1, <2>2 DEF DeskInOrder, AtDesk, RefundUnderWay
  <1> QED BY <1>2, <1>3

\* A busy worker is alone with its refund.
LEMMA AloneAtDesk ==
  ASSUME RefundIInv, NEW w \in Workers, ~AtDesk(w, "idle")
  PROVE  /\ clerk[w].order \in Orders /\ clerk[w].tx \in Txs
         /\ \A v \in Workers \ {w} :
               ~AtDesk(v, "idle") => clerk[v].order # clerk[w].order \/ clerk[v].tx # clerk[w].tx
         /\ Exists(clerk[w].order)
         /\ tx[clerk[w].order][clerk[w].tx] = "succeeded"
  <1> DEFINE o == clerk[w].order
             t == clerk[w].tx
  <1>1. DeskInOrder(w) BY DEF RefundIInv
  <1>2. o \in Orders /\ t \in Txs /\ RefundUnderWay(o, t) BY <1>1 DEF DeskInOrder
  <1>3. tx[o][t] = "succeeded" BY <1>2 DEF RefundIInv, RecordsAgree, RefundUnderWay
  <1>4. Exists(o) BY <1>2, <1>3 DEF RefundIInv, IInv, FactsArePayments, PaidTxs
  <1> QED BY <1>2, <1>3, <1>4 DEF RefundIInv, DesksApart

\* Leaving a desk, or staying at it, keeps the desks apart.
LEMMA ApartKept ==
  ASSUME RefundIInv, NEW w \in Workers, ~AtDesk(w, "idle"),
         \/ LeaveDesk(w)
         \/ \E step \in ClerkSteps : DeskGoTo(w, step)
         \/ UNCHANGED clerk
  PROVE  DesksApart'
  <1>0. RefundTypeOK BY DEF RefundIInv
  <1>1. CASE LeaveDesk(w)
    BY <1>0, <1>1, DeskMoves DEF RefundIInv, DesksApart, AtDesk, AwayFromDesk
  <1>2. ASSUME NEW step \in ClerkSteps, DeskGoTo(w, step) PROVE DesksApart'
    <2>1. \A v \in Workers :
            /\ clerk'[v].order = clerk[v].order /\ clerk'[v].tx = clerk[v].tx
            /\ clerk'[v].job = clerk[v].job
            /\ clerk'[v].pc # "idle" => clerk[v].pc # "idle"
      BY <1>0, <1>2, DeskMoves DEF AtDesk
    <2> QED BY <2>1 DEF RefundIInv, DesksApart, AtDesk
  <1>3. CASE UNCHANGED clerk BY <1>3 DEF RefundIInv, DesksApart, AtDesk
  <1> QED BY <1>1, <1>2, <1>3

\* A step at one desk keeps the invariant if it leaves that refund's records and that
\* desk in order.
LEMMA DeskStep ==
  ASSUME RefundIInv, NEW w \in Workers, ~AtDesk(w, "idle"),
         NEW o, NEW t, o = clerk[w].order, t = clerk[w].tx,
         RefundFootprint, RefundTypeOK', OnlyDesk(w, o, t),
         \A p \in Orders, s \in Txs : p # o \/ s # t =>
            /\ tx'[p][s] = tx[p][s] /\ payouts'[p][s] = payouts[p][s]
            /\ refunded'[p][s] = refunded[p][s],
         RecordsAgree(o, t)', DeskInOrder(w)', DesksApart'
  PROVE  RefundIInv'
  <1>1. o \in Orders /\ t \in Txs BY AloneAtDesk
  <1>2. IInv' BY RefundKeepsIInv DEF RefundIInv
  <1>3. \A v \in Workers : DeskInOrder(v)'
    <2>1. \A v \in Workers \ {w} :
             ~AtDesk(v, "idle") => clerk[v].order # o \/ clerk[v].tx # t
      BY AloneAtDesk
    <2> QED BY <1>1, <2>1, OthersKept
  <1>4. ASSUME NEW p \in Orders, NEW s \in Txs PROVE RecordsAgree(p, s)'
    <2>1. CASE p = o /\ s = t BY <2>1
    <2>2. CASE p # o \/ s # t
      <3>1. /\ refund'[p][s] = refund[p][s] /\ gatewaySide'[p][s] = gatewaySide[p][s]
            /\ tx'[p][s] = tx[p][s] /\ payouts'[p][s] = payouts[p][s]
            /\ refunded'[p][s] = refunded[p][s]
        BY <2>2 DEF OnlyDesk
      <3>2. effect' = effect /\ grants' = grants BY DEF RefundFootprint, otherTables
      <3>3. RecordsAgree(p, s) BY DEF RefundIInv
      <3> QED BY <3>1, <3>2, <3>3 DEF RecordsAgree
    <2> QED BY <2>1, <2>2
  <1> QED BY <1>2, <1>3, <1>4 DEF RefundIInv

\* A step that touches no paid order, or restores one, is within the footprint.
LEMMA WithinFootprint ==
  ASSUME RefundIInv, UNCHANGED <<tx, otherTables>>,
         \/ UNCHANGED order
         \/ order' \in [Orders -> OrderRow] /\ \A p \in Orders : OrderMoves(p)
  PROVE  RefundFootprint
  <1>1. /\ order \in [Orders -> OrderRow]
        /\ tx \in [Orders -> [Txs -> {"none", "succeeded", "failed", "refunded"}]]
    BY DEF RefundIInv, IInv, TypeOK
  <1>2. UNCHANGED order => order' \in [Orders -> OrderRow] /\ \A p \in Orders : OrderMoves(p)
    BY <1>1 DEF OrderMoves
  <1> QED BY <1>1, <1>2 DEF RefundFootprint, otherTables

\* What is known of a busy worker and its refund.
LEMMA BusyDesk ==
  ASSUME RefundIInv, NEW w \in Workers, ~AtDesk(w, "idle"),
         NEW o, NEW t, o = clerk[w].order, t = clerk[w].tx
  PROVE  /\ o \in Orders /\ t \in Txs
         /\ refund[o][t] \in RefundRow /\ refund[o][t].status \in {"pending", "failed"}
         /\ gatewaySide[o][t] \in Sides
         /\ payouts[o][t] = IF gatewaySide[o][t] = "paid" THEN 1 ELSE 0
         /\ refunded[o][t] = 0
         /\ tx[o][t] = "succeeded"
         /\ refund[o][t].prev \in Refundable
         /\ refund[o][t].prev = "applied" => effect[o] = "done" /\ grants[o] = 1
         /\ refund[o][t].retries \in 0..MaxRefundRetries
         /\ clerk[w].job => clerk[w].pc \in JobSteps /\ refund[o][t].retries < MaxRefundRetries
         /\ ~clerk[w].job => clerk[w].pc \in RequestSteps
                             /\ refund[o][t].retries = 0 /\ ~refund[o][t].aged
         /\ clerk[w].pc \in {"paid", "settle"} => gatewaySide[o][t] = "paid"
         /\ clerk[w].job \in BOOLEAN
  <1>1. DeskInOrder(w) BY DEF RefundIInv
  <1>2. o \in Orders /\ t \in Txs /\ RefundUnderWay(o, t) BY <1>1 DEF DeskInOrder
  <1>3. refund[o][t] \in RefundRow /\ gatewaySide[o][t] \in Sides /\ clerk[w] \in Desk
    BY <1>2 DEF RefundIInv, RefundTypeOK, Sides
  <1>4. RecordsAgree(o, t) BY <1>2 DEF RefundIInv
  <1>5. tx[o][t] = "succeeded" /\ refunded[o][t] = 0
    BY <1>2, <1>4 DEF RecordsAgree, RefundUnderWay
  <1> QED BY <1>1, <1>2, <1>3, <1>4, <1>5
      DEF DeskInOrder, RecordsAgree, RefundUnderWay, RefundRow, Desk

\* The request's call of the gateway.
LEMMA IssueKeeps ==
  ASSUME RefundIInv, NEW w \in Workers, IssueRefund(w),
         NEW o, NEW t, o = clerk[w].order, t = clerk[w].tx
  PROVE  RefundIInv'
  <1>a. AtDesk(w, "issue") /\ ~AtDesk(w, "idle") BY DEF IssueRefund, AtDesk
  <1>b. /\ o \in Orders /\ t \in Txs /\ refund[o][t].status \in {"pending", "failed"}
        /\ payouts[o][t] = IF gatewaySide[o][t] = "paid" THEN 1 ELSE 0
        /\ refunded[o][t] = 0 /\ tx[o][t] = "succeeded"
        /\ refund[o][t].prev \in Refundable
        /\ refund[o][t].prev = "applied" => effect[o] = "done" /\ grants[o] = 1
        /\ refund[o][t].retries = 0 /\ ~refund[o][t].aged /\ ~clerk[w].job
    BY <1>a, BusyDesk DEF AtDesk, JobSteps
  <1>c. RefundTypeOK /\ UNCHANGED <<order, tx, otherTables, refund, refunded>>
    BY DEF RefundIInv, IssueRefund
  <1>d. \E side \in Sides, step \in ClerkSteps :
           /\ \/ side = gatewaySide[o][t] /\ UNCHANGED <<gatewaySide, payouts>>
              \/ GatewayMoves(o, t, side)
           /\ gatewaySide[o][t] = "paid" => side = "paid"
           /\ DeskGoTo(w, step) /\ step \in RequestSteps
           /\ step \in {"paid", "settle"} => side = "paid"
    <2>1. CASE GatewayOf[o] \notin Registered /\ DeskGoTo(w, "undo")
               /\ UNCHANGED <<gatewaySide, payouts>>
      <3>1. gatewaySide[o][t] \in Sides BY <1>a, BusyDesk
      <3>2. "undo" \in ClerkSteps /\ "undo" \in RequestSteps BY DEF ClerkSteps, RequestSteps
      <3> QED BY <2>1, <3>1, <3>2
    <2>2. ASSUME GatewayOf[o] \in Registered,
                 NEW answer \in {"ERROR", "SUCCEEDED", "FAILED", "PROCESSING"},
                 CreateRefund(o, t, answer),
                 DeskGoTo(w, CASE answer = "ERROR"      -> "undo"
                               [] answer = "FAILED"     -> "refused"
                               [] answer = "SUCCEEDED"  -> "paid"
                               [] answer = "PROCESSING" -> "accepted")
          PROVE  \E side \in Sides, step \in ClerkSteps :
                    /\ GatewayMoves(o, t, side)
                    /\ gatewaySide[o][t] = "paid" => side = "paid"
                    /\ DeskGoTo(w, step) /\ step \in RequestSteps
                    /\ step \in {"paid", "settle"} => side = "paid"
      <3>1. PICK side \in Sides :
               /\ GatewayMoves(o, t, side)
               /\ gatewaySide[o][t] = "paid" => side = "paid"
               /\ answer = "SUCCEEDED" => side = "paid"
        BY <1>b, <1>c, <2>2, RefundCall
      <3>2. \E step \in {"undo", "refused", "paid", "accepted"} :
               DeskGoTo(w, step) /\ (step = "paid" => answer = "SUCCEEDED")
        <4>1. CASE answer = "ERROR" BY <2>2, <4>1, Zenon
        <4>2. CASE answer = "FAILED" BY <2>2, <4>2, Zenon
        <4>3. CASE answer = "SUCCEEDED" BY <2>2, <4>3, Zenon
        <4>4. CASE answer = "PROCESSING" BY <2>2, <4>4, Zenon
        <4> QED BY <2>2, <4>1, <4>2, <4>3, <4>4
      <3> QED BY <3>1, <3>2 DEF ClerkSteps, RequestSteps
    <2> QED BY <2>1, <2>2 DEF IssueRefund
  <1>1. PICK side \in Sides, step \in ClerkSteps :
           /\ \/ side = gatewaySide[o][t] /\ UNCHANGED <<gatewaySide, payouts>>
              \/ GatewayMoves(o, t, side)
           /\ gatewaySide[o][t] = "paid" => side = "paid"
           /\ DeskGoTo(w, step) /\ step \in RequestSteps
           /\ step \in {"paid", "settle"} => side = "paid"
    BY <1>d
  <1>2. /\ gatewaySide' \in [Orders -> [Txs -> Sides]]
        /\ payouts' \in [Orders -> [Txs -> Nat]]
        /\ \A p \in Orders, s \in Txs :
              /\ gatewaySide'[p][s] = IF p = o /\ s = t THEN side ELSE gatewaySide[p][s]
              /\ payouts'[p][s] = IF p = o /\ s = t /\ side = "paid" /\ gatewaySide[o][t] # "paid"
                                  THEN payouts[p][s] + 1 ELSE payouts[p][s]
    <2>1. CASE GatewayMoves(o, t, side) BY <1>b, <1>c, <2>1, GatewayMove
    <2>2. CASE side = gatewaySide[o][t] /\ UNCHANGED <<gatewaySide, payouts>>
      BY <1>b, <1>c, <2>2 DEF RefundTypeOK, Sides
    <2> QED BY <1>1, <2>1, <2>2
  <1>3. /\ clerk' \in [Workers -> Desk]
        /\ \A v \in Workers \ {w} : clerk'[v] = clerk[v]
        /\ clerk'[w].pc = step /\ clerk'[w].order = o
        /\ clerk'[w].tx = t /\ clerk'[w].job = clerk[w].job
    BY <1>1, <1>c, DeskMoves
  <1>4. RefundTypeOK' BY <1>c, <1>2, <1>3 DEF RefundTypeOK, Sides
  <1>5. OnlyDesk(w, o, t) BY <1>b, <1>c, <1>2, <1>3 DEF OnlyDesk
  <1>6. effect' = effect /\ grants' = grants BY <1>c DEF otherTables
  <1>7. RecordsAgree(o, t)' BY <1>b, <1>c, <1>1, <1>2, <1>6 DEF RecordsAgree
  <1>8. DeskInOrder(w)'
    BY <1>b, <1>c, <1>1, <1>2, <1>3 DEF DeskInOrder, AtDesk, RefundUnderWay, RequestSteps
  <1>9. DesksApart' BY <1>a, <1>1, ApartKept
  <1>10. RefundFootprint BY <1>c, WithinFootprint
  <1> QED BY <1>a, <1>b, <1>c, <1>2, <1>4, <1>5, <1>7, <1>8, <1>9, <1>10, DeskStep

\* A row a desk may write while its refund is open.
OpenRow(row, o, t) ==
    /\ row \in RefundRow
    /\ row.status \in {"pending", "failed"}
    /\ row.prev = refund[o][t].prev

\* Where a desk may go with the row it leaves.
MayGoTo(w, step, row, o, t) ==
    /\ step \in IF clerk[w].job THEN JobSteps ELSE RequestSteps
    /\ ~clerk[w].job => row.retries = 0 /\ ~row.aged
    /\ clerk[w].job => row.retries < MaxRefundRetries
    /\ step \in {"paid", "settle"} => gatewaySide[o][t] = "paid"

\* The steps that only rewrite the row of an open refund and the order behind it.
LEMMA TableStep ==
  ASSUME RefundIInv, NEW w \in Workers, ~AtDesk(w, "idle"),
         NEW o, NEW t, o = clerk[w].order, t = clerk[w].tx,
         NEW row, OpenRow(row, o, t), refund' = [refund EXCEPT ![o][t] = row],
         UNCHANGED <<tx, otherTables, gatewaySide, payouts, refunded>>,
         \/ UNCHANGED order
         \/ order' \in [Orders -> OrderRow] /\ \A p \in Orders : OrderMoves(p),
         \/ LeaveDesk(w)
         \/ \E step \in ClerkSteps : DeskGoTo(w, step) /\ MayGoTo(w, step, row, o, t)
  PROVE  RefundIInv'
  <1>a. o \in Orders /\ t \in Txs /\ RefundTypeOK /\ row \in RefundRow
    BY BusyDesk DEF RefundIInv, OpenRow
  <1>b. UNCHANGED <<tx, gatewaySide, payouts, refunded>> /\ UNCHANGED <<effect, grants>>
        /\ UNCHANGED otherTables
    BY DEF otherTables
  <1>1. /\ refund' \in [Orders -> [Txs -> RefundRow]]
        /\ \A p \in Orders, s \in Txs :
              refund'[p][s] = IF p = o /\ s = t THEN row ELSE refund[p][s]
    BY <1>a, RefundWrite DEF RefundTypeOK
  <1>2. /\ clerk' \in [Workers -> Desk]
        /\ \A v \in Workers \ {w} : clerk'[v] = clerk[v]
    BY <1>a, DeskMoves
  <1>3. RefundTypeOK' BY <1>a, <1>b, <1>1, <1>2 DEF RefundTypeOK
  <1>4. OnlyDesk(w, o, t) BY <1>a, <1>b, <1>1, <1>2 DEF OnlyDesk
  <1>5. RecordsAgree(o, t)'
    <2>1. /\ tx[o][t] = "succeeded" /\ refunded[o][t] = 0 /\ row.prev \in Refundable
          /\ payouts[o][t] = IF gatewaySide[o][t] = "paid" THEN 1 ELSE 0
          /\ row.prev = "applied" => effect[o] = "done" /\ grants[o] = 1
      BY BusyDesk DEF OpenRow
    <2>2. refund'[o][t] = row /\ row.status \in {"pending", "failed"}
      BY <1>a, <1>1 DEF OpenRow
    <2> QED BY <1>b, <2>1, <2>2 DEF RecordsAgree
  <1>6. DeskInOrder(w)'
    <2>1. CASE LeaveDesk(w)
      <3>1. clerk'[w] = AwayFromDesk BY <1>a, <2>1, DeskMoves
      <3>2. AwayFromDesk.pc = "idle" BY DEF AwayFromDesk
      <3> QED BY <3>1, <3>2 DEF DeskInOrder, AtDesk
    <2>2. ASSUME NEW step \in ClerkSteps, DeskGoTo(w, step), MayGoTo(w, step, row, o, t)
          PROVE  DeskInOrder(w)'
      <3>1. /\ clerk'[w].pc = step /\ clerk'[w].order = o
            /\ clerk'[w].tx = t /\ clerk'[w].job = clerk[w].job
        BY <1>a, <2>2, DeskMoves
      <3>2. refund'[o][t] = row /\ row.status \in {"pending", "failed"}
        BY <1>a, <1>1 DEF OpenRow
      <3>3. step # "idle" BY <2>2 DEF MayGoTo, JobSteps, RequestSteps
      <3> QED BY <1>a, <1>b, <2>2, <3>1, <3>2, <3>3
          DEF DeskInOrder, AtDesk, RefundUnderWay, MayGoTo
    <2> QED BY <2>1, <2>2
  <1>7. DesksApart' BY ApartKept
  <1>8. RefundFootprint BY <1>b, WithinFootprint
  <1> QED BY <1>b, <1>3, <1>4, <1>5, <1>6, <1>7, <1>8, DeskStep

\* A row that is kept is an open row too.
LEMMA KeptRow ==
  ASSUME RefundIInv, NEW w \in Workers, ~AtDesk(w, "idle"),
         NEW o, NEW t, o = clerk[w].order, t = clerk[w].tx
  PROVE  /\ OpenRow(refund[o][t], o, t)
         /\ UNCHANGED refund => refund' = [refund EXCEPT ![o][t] = refund[o][t]]
  <1>1. /\ o \in Orders /\ t \in Txs /\ refund[o][t] \in RefundRow
        /\ refund[o][t].status \in {"pending", "failed"}
    BY BusyDesk
  <1>2. refund \in [Orders -> [Txs -> RefundRow]] BY DEF RefundIInv, RefundTypeOK
  <1> QED BY <1>1, <1>2 DEF OpenRow

\* Undoing and marking a refused refund.
LEMMA UndoKeeps ==
  ASSUME RefundIInv, NEW w \in Workers, UndoRefund(w) \/ MarkRefused(w)
  PROVE  RefundIInv'
  <1> SUFFICES ASSUME NEW o, NEW t, o = clerk[w].order, t = clerk[w].tx PROVE RefundIInv'
    OBVIOUS
  <1>a. ~AtDesk(w, "idle") /\ (MarkRefused(w) => ~clerk[w].job)
    BY BusyDesk DEF UndoRefund, MarkRefused, AtDesk, JobSteps, DeskInOrder, RefundIInv
  <1>b. /\ o \in Orders /\ t \in Txs /\ refund[o][t] \in RefundRow
        /\ refund[o][t].status \in {"pending", "failed"}
        /\ MarkRefused(w) => refund[o][t].retries = 0
    BY <1>a, BusyDesk
  <1>c. refund \in [Orders -> [Txs -> RefundRow]] /\ 0 < MaxRefundRetries
    BY RefundAssumption DEF RefundIInv, RefundTypeOK
  <1>d. /\ OpenRow(Restamped(refund[o][t], "failed"), o, t)
        /\ MarkRefused(w) => OpenRow(Counted(refund[o][t]), o, t)
    BY <1>b, <1>c, RefundRows DEF OpenRow
  <1>1. \E row : OpenRow(row, o, t) /\ refund' = [refund EXCEPT ![o][t] = row]
    <2>1. CASE UNCHANGED refund BY <1>a, <2>1, KeptRow
    <2>2. CASE refund' = [refund EXCEPT ![o][t].status = "failed", ![o][t].aged = FALSE]
      <3>1. refund' = [refund EXCEPT ![o][t] = Restamped(refund[o][t], "failed")]
        BY <1>b, <1>c, <2>2 DEF Restamped
      <3> QED BY <1>d, <3>1
    <2>3. CASE MarkRefused(w) /\ refund' = [refund EXCEPT ![o][t].status = "failed",
                                  ![o][t].aged = FALSE, ![o][t].retries = @ + 1]
      <3>1. refund' = [refund EXCEPT ![o][t] = Counted(refund[o][t])]
        <4>1. refund' = [refund EXCEPT ![o][t] =
                 [refund[o][t] EXCEPT !.status = "failed", !.aged = FALSE, !.retries = @ + 1]]
          BY <1>b, <1>c, <2>3
        <4> QED BY <1>b, <4>1, CountedRow
      <3> QED BY <1>d, <2>3, <3>1
    <2> QED BY <2>1, <2>2, <2>3 DEF UndoRefund, MarkRefused
  <1>2. UNCHANGED order \/ order' = Restored(w, o, t)
    BY DEF UndoRefund, MarkRefused
  <1>3. order' \in [Orders -> OrderRow] /\ \A p \in Orders : OrderMoves(p)
    BY <1>a, <1>b, <1>2, AloneAtDesk, RestoredRows
  <1>4. LeaveDesk(w) /\ UNCHANGED <<tx, otherTables, gatewaySide, payouts, refunded>>
    BY DEF UndoRefund, MarkRefused, otherTables
  <1> QED BY <1>a, <1>1, <1>3, <1>4, TableStep

\* Storing the gateway's number and giving the lease back.
LEMMA AcceptKeeps ==
  ASSUME RefundIInv, NEW w \in Workers, AcceptRefund(w)
  PROVE  RefundIInv'
  <1> SUFFICES ASSUME NEW o, NEW t, o = clerk[w].order, t = clerk[w].tx PROVE RefundIInv'
    OBVIOUS
  <1>a. ~AtDesk(w, "idle") BY DEF AcceptRefund, AtDesk
  <1>b. /\ o \in Orders /\ t \in Txs /\ refund[o][t] \in RefundRow
        /\ refund[o][t].status \in {"pending", "failed"} /\ tx[o][t] = "succeeded"
        /\ clerk[w].pc = "paid" => gatewaySide[o][t] = "paid"
        /\ clerk[w].job => clerk[w].pc \in JobSteps
        /\ ~clerk[w].job => refund[o][t].retries = 0
    BY <1>a, BusyDesk
  <1>c. ~clerk[w].job BY <1>b DEF AcceptRefund, AtDesk, JobSteps
  <1> DEFINE row == [refund[o][t] EXCEPT !.aged = FALSE]
  <1>d. row \in RefundRow /\ row.status = refund[o][t].status /\ row.prev = refund[o][t].prev
        /\ row.retries = refund[o][t].retries /\ row.aged = FALSE
    BY <1>b DEF RefundRow
  <1>1. refund' = [refund EXCEPT ![o][t] = row]
    BY <1>b DEF AcceptRefund, RefundIInv, RefundTypeOK
  <1>2. order' \in [Orders -> OrderRow] /\ \A p \in Orders : OrderMoves(p)
    <2>1. ReleaseIfMine(w, o) BY DEF AcceptRefund
    <2>2. TypeOK BY DEF RefundIInv, IInv
    <2>3. order' \in [Orders -> OrderRow] BY <1>b, <2>1, <2>2, RowChanges
    <2>4. order[o] \in OrderRow BY <1>b, <2>2 DEF TypeOK
    <2>5. Unlocked(order[o]) \in OrderRow /\ Unlocked(order[o]).status = order[o].status
      BY <2>4, RowTypes, RowStatus
    <2>6. \A p \in Orders : order'[p].status = order[p].status
      BY <1>b, <2>1, <2>2, <2>5 DEF ReleaseIfMine, TypeOK
    <2> QED BY <2>3, <2>6 DEF OrderMoves
  <1>3. OpenRow(row, o, t) BY <1>b, <1>d DEF OpenRow
  <1>4. UNCHANGED <<tx, otherTables, gatewaySide, payouts, refunded>>
    BY DEF AcceptRefund, otherTables
  <1>5. \/ LeaveDesk(w)
        \/ \E step \in ClerkSteps : DeskGoTo(w, step) /\ MayGoTo(w, step, row, o, t)
    <2>1. CASE AtDesk(w, "accepted") /\ LeaveDesk(w) BY <2>1
    <2>2. CASE AtDesk(w, "paid") /\ DeskGoTo(w, "settle")
      <3>1. "settle" \in ClerkSteps /\ "settle" \in RequestSteps
        BY DEF ClerkSteps, RequestSteps
      <3>2. MayGoTo(w, "settle", row, o, t)
        <4> HIDE DEF row
        <4> QED BY <1>b, <1>c, <1>d, <2>2, <3>1 DEF MayGoTo, AtDesk
      <3> QED BY <2>2, <3>1, <3>2
    <2> QED BY <2>1, <2>2 DEF AcceptRefund
  <1> HIDE DEF row
  <1> QED BY <1>a, <1>1, <1>2, <1>3, <1>4, <1>5, TableStep

\* Giving up on a round, and restarts.
LEMMA BumpKeeps ==
  ASSUME RefundIInv, NEW w \in Workers, BumpRetry(w) \/ LoseClerk(w)
  PROVE  RefundIInv'
  <1> SUFFICES ASSUME NEW o, NEW t, o = clerk[w].order, t = clerk[w].tx PROVE RefundIInv'
    OBVIOUS
  <1>a. ~AtDesk(w, "idle") BY DEF BumpRetry, LoseClerk, AtDesk
  <1>b. /\ o \in Orders /\ t \in Txs /\ refund[o][t] \in RefundRow
        /\ refund[o][t].status \in {"pending", "failed"}
        /\ clerk[w].job => refund[o][t].retries < MaxRefundRetries
        /\ ~clerk[w].job => clerk[w].pc \in RequestSteps
    BY <1>a, BusyDesk
  <1>c. refund \in [Orders -> [Txs -> RefundRow]] /\ clerk[w] \in Desk
    BY DEF RefundIInv, RefundTypeOK
  <1>d. LeaveDesk(w) /\ UNCHANGED order
        /\ UNCHANGED <<tx, otherTables, gatewaySide, payouts, refunded>>
    BY DEF BumpRetry, LoseClerk, otherTables
  <1>1. \E row : OpenRow(row, o, t) /\ refund' = [refund EXCEPT ![o][t] = row]
    <2>1. CASE LoseClerk(w)
      <3>1. UNCHANGED refund BY <2>1 DEF LoseClerk
      <3> QED BY <1>a, <3>1, KeptRow
    <2>2. CASE BumpRetry(w)
      <3>1. refund[o][t].retries < MaxRefundRetries
        BY <1>b, <1>c, <2>2 DEF BumpRetry, AtDesk, RequestSteps, Desk
      <3>2. OpenRow(Counted(refund[o][t]), o, t) BY <1>b, <3>1, RefundRows DEF OpenRow
      <3>3. refund' = [refund EXCEPT ![o][t] =
               [refund[o][t] EXCEPT !.status = "failed", !.retries = @ + 1, !.aged = FALSE]]
        BY <1>b, <1>c, <2>2 DEF BumpRetry
      <3>4. refund' = [refund EXCEPT ![o][t] = Counted(refund[o][t])]
        BY <1>b, <3>3, CountedRow
      <3> QED BY <3>2, <3>4
    <2> QED BY <2>1, <2>2
  <1> QED BY <1>a, <1>1, <1>d, TableStep

\* Looking a refund up.
LEMMA PollKeeps ==
  ASSUME RefundIInv, NEW w \in Workers, PollRefund(w)
  PROVE  RefundIInv'
  <1> SUFFICES ASSUME NEW o, NEW t, o = clerk[w].order, t = clerk[w].tx PROVE RefundIInv'
    OBVIOUS
  <1>a. ~AtDesk(w, "idle") BY DEF PollRefund, AtDesk
  <1>b. /\ o \in Orders /\ t \in Txs /\ refund[o][t] \in RefundRow
        /\ refund[o][t].status \in {"pending", "failed"}
        /\ clerk[w].job => refund[o][t].retries < MaxRefundRetries
        /\ ~clerk[w].job => clerk[w].pc \in RequestSteps
        /\ clerk[w].job \in BOOLEAN /\ gatewaySide[o][t] \in Sides
    BY <1>a, BusyDesk
  <1>c. refund \in [Orders -> [Txs -> RefundRow]] BY DEF RefundIInv, RefundTypeOK
  <1>d. UNCHANGED order /\ UNCHANGED <<tx, otherTables, gatewaySide, payouts, refunded>>
    BY DEF PollRefund, otherTables
  <1>e. clerk[w].job = TRUE BY <1>b DEF PollRefund, AtDesk, RequestSteps
  <1>f. RefundStatus(o, t) = "SUCCEEDED" => gatewaySide[o][t] = "paid"
    BY Zenon DEF RefundStatus
  <1>1. CASE LeaveDesk(w) /\ refund' = [refund EXCEPT ![o][t].aged = FALSE]
    <2> DEFINE row == [refund[o][t] EXCEPT !.aged = FALSE]
    <2>1. row \in RefundRow /\ row.status = refund[o][t].status /\ row.prev = refund[o][t].prev
      BY <1>b DEF RefundRow
    <2>2. refund' = [refund EXCEPT ![o][t] = row] BY <1>1, <1>b, <1>c
    <2>3. OpenRow(row, o, t) BY <1>b, <2>1 DEF OpenRow
    <2> HIDE DEF row
    <2> QED BY <1>a, <1>d, <1>1, <2>2, <2>3, TableStep
  <1>2. ASSUME NEW step \in {"bump", "settle", "reissue"}, DeskGoTo(w, step), UNCHANGED refund,
               step = "settle" => gatewaySide[o][t] = "paid"
        PROVE  RefundIInv'
    <2>1. step \in ClerkSteps /\ step \in JobSteps BY <1>2 DEF ClerkSteps, JobSteps
    <2>2. MayGoTo(w, step, refund[o][t], o, t) BY <1>b, <1>e, <1>2, <2>1 DEF MayGoTo
    <2>3. OpenRow(refund[o][t], o, t) /\ refund' = [refund EXCEPT ![o][t] = refund[o][t]]
      BY <1>a, <1>2, KeptRow
    <2> QED BY <1>a, <1>d, <1>2, <2>1, <2>2, <2>3, TableStep
  <1>3. \/ DeskGoTo(w, "bump") /\ UNCHANGED refund
        \/ LeaveDesk(w) /\ refund' = [refund EXCEPT ![o][t].aged = FALSE]
        \/ DeskGoTo(w, "reissue") /\ UNCHANGED refund
        \/ DeskGoTo(w, "settle") /\ UNCHANGED refund /\ RefundStatus(o, t) = "SUCCEEDED"
    BY DEF PollRefund
  <1> QED BY <1>f, <1>1, <1>2, <1>3

\* Booking a refund that was paid.
LEMMA SettleKeeps ==
  ASSUME RefundIInv, NEW w \in Workers, SettleRefund(w)
  PROVE  RefundIInv'
  <1> SUFFICES ASSUME NEW o, NEW t, o = clerk[w].order, t = clerk[w].tx PROVE RefundIInv'
    OBVIOUS
  <1>a. ~AtDesk(w, "idle") /\ AtDesk(w, "settle") BY DEF SettleRefund, AtDesk
  <1>b. /\ o \in Orders /\ t \in Txs /\ refund[o][t] \in RefundRow
        /\ refund[o][t].status \in {"pending", "failed"} /\ gatewaySide[o][t] = "paid"
        /\ payouts[o][t] = 1 /\ refunded[o][t] = 0 /\ tx[o][t] = "succeeded"
        /\ refund[o][t].prev \in Refundable
        /\ refund[o][t].prev = "applied" => effect[o] = "done" /\ grants[o] = 1
    BY <1>a, BusyDesk DEF AtDesk
  <1>c. RefundTypeOK /\ TypeOK BY DEF RefundIInv, IInv
  <1> DEFINE row == Restamped(refund[o][t], "succeeded")
  <1>d. row \in RefundRow /\ row.status = "succeeded" /\ row.prev = refund[o][t].prev
    BY <1>b, RefundRows
  <1>e. /\ refund' = [refund EXCEPT ![o][t].status = "succeeded", ![o][t].aged = FALSE]
        /\ tx' = [tx EXCEPT ![o][t] = "refunded"]
        /\ refunded' = [refunded EXCEPT ![o][t] = @ + 1]
        /\ order' = [order EXCEPT ![o] = RefundedRow(@)]
        /\ LeaveDesk(w) /\ UNCHANGED <<gatewaySide, payouts>> /\ UNCHANGED otherTables
    BY <1>b DEF SettleRefund, RefundUnderWay, otherTables
  <1>f. /\ effect' = effect /\ grants' = grants
        /\ gatewaySide' = gatewaySide /\ payouts' = payouts
    BY <1>e DEF otherTables
  <1>g. UNCHANGED otherTables /\ LeaveDesk(w) BY <1>e
  <1>1. refund' = [refund EXCEPT ![o][t] = row]
    BY <1>b, <1>c, <1>e DEF RefundTypeOK, Restamped
  <1> HIDE DEF row
  <1>2. /\ refund' \in [Orders -> [Txs -> RefundRow]]
        /\ \A p \in Orders, s \in Txs :
              refund'[p][s] = IF p = o /\ s = t THEN row ELSE refund[p][s]
    BY <1>b, <1>c, <1>d, <1>1, RefundWrite DEF RefundTypeOK
  <1>3. /\ tx' \in [Orders -> [Txs -> {"none", "succeeded", "failed", "refunded"}]]
        /\ \A p \in Orders, s \in Txs :
              tx'[p][s] = IF p = o /\ s = t THEN "refunded" ELSE tx[p][s]
    BY <1>b, <1>c, <1>e DEF TypeOK
  <1>4. /\ refunded' \in [Orders -> [Txs -> Nat]]
        /\ \A p \in Orders, s \in Txs :
              refunded'[p][s] = IF p = o /\ s = t THEN refunded[o][t] + 1 ELSE refunded[p][s]
    BY <1>b, <1>c, <1>e DEF RefundTypeOK
  <1>5. order' \in [Orders -> OrderRow] /\ \A p \in Orders : OrderMoves(p)
    <2> DEFINE new == RefundedRow(order[o])
    <2>1. order[o] \in OrderRow /\ Exists(o) BY <1>a, <1>b, <1>c, AloneAtDesk DEF TypeOK
    <2>2. Unlocked(order[o]) \in OrderRow BY <2>1, RowTypes
    <2>3. "refunded" \in Statuses BY DEF Statuses
    <2>4. new \in OrderRow /\ new.status = "refunded"
      BY <2>2, <2>3, Restated DEF RefundedRow
    <2>5. order' = [order EXCEPT ![o] = new] BY <1>e
    <2> HIDE DEF new
    <2>6. \A p \in Orders : order'[p] = IF p = o THEN new ELSE order[p] BY <1>c, <2>5 DEF TypeOK
    <2>7. order' \in [Orders -> OrderRow] BY <1>b, <1>c, <2>4, <2>5, OrderUpdates
    <2> QED BY <2>1, <2>4, <2>6, <2>7 DEF OrderMoves
  <1>6. RefundFootprint BY <1>b, <1>g, <1>3, <1>5 DEF RefundFootprint
  <1>7. /\ clerk' \in [Workers -> Desk]
        /\ \A v \in Workers : clerk'[v] = IF v = w THEN AwayFromDesk ELSE clerk[v]
    BY <1>c, <1>e, DeskMoves
  <1>8. RefundTypeOK' BY <1>c, <1>e, <1>2, <1>4, <1>7 DEF RefundTypeOK
  <1>9. OnlyDesk(w, o, t) BY <1>f, <1>2, <1>7 DEF OnlyDesk
  <1>10. RecordsAgree(o, t)'
    BY <1>b, <1>d, <1>f, <1>2, <1>3, <1>4 DEF RecordsAgree
  <1>11. DeskInOrder(w)'
    <2>1. clerk'[w] = AwayFromDesk BY <1>7
    <2> QED BY <2>1 DEF DeskInOrder, AtDesk, AwayFromDesk
  <1>12. DesksApart' BY <1>a, <1>g, ApartKept
  <1> QED BY <1>a, <1>f, <1>3, <1>4, <1>6, <1>8, <1>9, <1>10, <1>11, <1>12, DeskStep

\* Sending a request again.
LEMMA ReissueKeeps ==
  ASSUME RefundIInv, NEW w \in Workers, ReissueRefund(w)
  PROVE  RefundIInv'
  <1> SUFFICES ASSUME NEW o, NEW t, o = clerk[w].order, t = clerk[w].tx PROVE RefundIInv'
    OBVIOUS
  <1>a. ~AtDesk(w, "idle") /\ AtDesk(w, "reissue") BY DEF ReissueRefund, AtDesk
  <1>b. /\ o \in Orders /\ t \in Txs /\ refund[o][t] \in RefundRow
        /\ refund[o][t].status \in {"pending", "failed"}
        /\ payouts[o][t] = IF gatewaySide[o][t] = "paid" THEN 1 ELSE 0
        /\ refunded[o][t] = 0 /\ tx[o][t] = "succeeded"
        /\ refund[o][t].prev \in Refundable
        /\ refund[o][t].prev = "applied" => effect[o] = "done" /\ grants[o] = 1
        /\ clerk[w].job => refund[o][t].retries < MaxRefundRetries
        /\ ~clerk[w].job => clerk[w].pc \in RequestSteps
        /\ clerk[w].job \in BOOLEAN
    BY <1>a, BusyDesk
  <1>c. RefundTypeOK /\ UNCHANGED <<order, tx, refunded>> /\ UNCHANGED otherTables
    BY DEF RefundIInv, ReissueRefund, otherTables
  <1>d. clerk[w].job = TRUE BY <1>a, <1>b DEF AtDesk, RequestSteps
  <1>e. effect' = effect /\ grants' = grants BY <1>c DEF otherTables
  <1>f. PICK answer \in {"ERROR", "SUCCEEDED", "FAILED", "PROCESSING"} :
           /\ CreateRefund(o, t, answer)
           /\ refund' = IF answer = "ERROR" THEN refund
                        ELSE [refund EXCEPT ![o][t].status = "pending", ![o][t].retries = 0,
                                            ![o][t].aged = FALSE]
           /\ CASE answer = "SUCCEEDED"           -> DeskGoTo(w, "settle")
                [] answer \in {"ERROR", "FAILED"} -> DeskGoTo(w, "bump")
                [] OTHER                          -> LeaveDesk(w)
    BY Zenon DEF ReissueRefund
  <1>g. PICK side \in Sides :
           /\ GatewayMoves(o, t, side)
           /\ gatewaySide[o][t] = "paid" => side = "paid"
           /\ answer = "SUCCEEDED" => side = "paid"
    BY <1>b, <1>c, <1>f, RefundCall
  <1>1. /\ gatewaySide' \in [Orders -> [Txs -> Sides]]
        /\ payouts' \in [Orders -> [Txs -> Nat]]
        /\ \A p \in Orders, s \in Txs :
              /\ gatewaySide'[p][s] = IF p = o /\ s = t THEN side ELSE gatewaySide[p][s]
              /\ payouts'[p][s] = IF p = o /\ s = t /\ side = "paid" /\ gatewaySide[o][t] # "paid"
                                  THEN payouts[p][s] + 1 ELSE payouts[p][s]
    BY <1>b, <1>c, <1>g, GatewayMove
  <1>2. \E row : /\ OpenRow(row, o, t) /\ row.retries < MaxRefundRetries
                 /\ refund' = [refund EXCEPT ![o][t] = row]
    <2>0. refund' = IF answer = "ERROR" THEN refund
                    ELSE [refund EXCEPT ![o][t].status = "pending", ![o][t].retries = 0,
                                        ![o][t].aged = FALSE]
      BY <1>f, Zenon
    <2>1. CASE answer = "ERROR"
      <3>1. UNCHANGED refund BY <2>0, <2>1
      <3>2. OpenRow(refund[o][t], o, t) /\ refund' = [refund EXCEPT ![o][t] = refund[o][t]]
        BY <1>a, <3>1, KeptRow
      <3> QED BY <1>b, <1>d, <3>2
    <2>2. CASE answer # "ERROR"
      <3> DEFINE row == [refund[o][t] EXCEPT !.status = "pending", !.retries = 0, !.aged = FALSE]
      <3>1. 0 \in 0..MaxRefundRetries /\ 0 < MaxRefundRetries BY RefundAssumption
      <3>2. row \in RefundRow /\ row.status = "pending" /\ row.prev = refund[o][t].prev
            /\ row.retries = 0
        BY <1>b, <3>1, Zenon DEF RefundRow
      <3>3. refund' = [refund EXCEPT ![o][t] = row]
        <4>1. refund' = [refund EXCEPT ![o][t].status = "pending", ![o][t].retries = 0,
                                       ![o][t].aged = FALSE]
          BY <2>0, <2>2, Zenon
        <4>2. refund \in [Orders -> [Txs -> RefundRow]] BY <1>c DEF RefundTypeOK
        <4>3. PICK f : f = [refund EXCEPT ![o][t].status = "pending"] OBVIOUS
        <4>4. f = [refund EXCEPT ![o][t] = [refund[o][t] EXCEPT !.status = "pending"]]
          BY <1>b, <4>2, <4>3
        <4>5. PICK g : g = [f EXCEPT ![o][t].retries = 0] OBVIOUS
        <4>6. g = [refund EXCEPT ![o][t] = [refund[o][t] EXCEPT !.status = "pending", !.retries = 0]]
          BY <1>b, <4>2, <4>4, <4>5, ZenonT(90)
        <4>7. refund' = [g EXCEPT ![o][t].aged = FALSE] BY <4>1, <4>3, <4>5
        <4> QED BY <1>b, <4>2, <4>6, <4>7, ZenonT(90)
      <3> HIDE DEF row
      <3> QED BY <3>1, <3>2, <3>3 DEF OpenRow
    <2> QED BY <2>1, <2>2
  <1>3. PICK row : /\ OpenRow(row, o, t) /\ row.retries < MaxRefundRetries
                   /\ refund' = [refund EXCEPT ![o][t] = row]
    BY <1>2
  <1>4. /\ refund' \in [Orders -> [Txs -> RefundRow]]
        /\ \A p \in Orders, s \in Txs :
              refund'[p][s] = IF p = o /\ s = t THEN row ELSE refund[p][s]
    BY <1>b, <1>c, <1>3, RefundWrite DEF RefundTypeOK, OpenRow
  <1>5. \/ LeaveDesk(w)
        \/ DeskGoTo(w, "bump")
        \/ DeskGoTo(w, "settle") /\ answer = "SUCCEEDED"
    BY <1>f, Zenon
  <1>6. "bump" \in ClerkSteps /\ "settle" \in ClerkSteps BY DEF ClerkSteps
  <1>7. clerk' \in [Workers -> Desk] /\ \A v \in Workers \ {w} : clerk'[v] = clerk[v]
    BY <1>c, <1>5, <1>6, DeskMoves
  <1>8. RefundTypeOK' BY <1>c, <1>1, <1>4, <1>7 DEF RefundTypeOK, Sides
  <1>9. OnlyDesk(w, o, t) BY <1>1, <1>4, <1>7 DEF OnlyDesk
  <1>10. RecordsAgree(o, t)'
    BY <1>b, <1>c, <1>e, <1>g, <1>1, <1>3, <1>4 DEF RecordsAgree, OpenRow
  <1>11. DeskInOrder(w)'
    <2>1. CASE LeaveDesk(w)
      <3>1. clerk'[w] = AwayFromDesk BY <1>c, <2>1, DeskMoves
      <3> QED BY <3>1 DEF DeskInOrder, AtDesk, AwayFromDesk
    <2>2. ASSUME NEW step \in {"bump", "settle"}, DeskGoTo(w, step), step = "settle" => side = "paid"
          PROVE  DeskInOrder(w)'
      <3>1. /\ clerk'[w].pc = step /\ clerk'[w].order = o
            /\ clerk'[w].tx = t /\ clerk'[w].job = TRUE
        BY <1>c, <1>d, <1>6, <2>2, DeskMoves
      <3>2. refund'[o][t] = row /\ gatewaySide'[o][t] = side BY <1>b, <1>1, <1>4
      <3>3. row.status \in {"pending", "failed"} /\ step \in JobSteps
        BY <1>3, <2>2 DEF OpenRow, JobSteps
      <3> QED BY <1>b, <1>3, <2>2, <3>1, <3>2, <3>3 DEF DeskInOrder, AtDesk, RefundUnderWay
    <2> QED BY <1>5, <1>g, <2>1, <2>2
  <1>12. DesksApart' BY <1>a, <1>5, <1>6, ApartKept
  <1>13. RefundFootprint BY <1>c, WithinFootprint
  <1> QED BY <1>a, <1>b, <1>c, <1>1, <1>8, <1>9, <1>10, <1>11, <1>12, <1>13, DeskStep

-------------------------------------------------------------------------------
(* Steps of nobody, or of somebody who was idle *)

\* Everybody's desk stays in order where rows keep their status and retries, and
\* nothing that was paid is not.
LEMMA AllKept ==
  ASSUME RefundIInv, NEW v \in Workers, clerk'[v] = clerk[v],
         \A p \in Orders, s \in Txs :
            clerk[v].order = p /\ clerk[v].tx = s =>
               /\ refund'[p][s] = refund[p][s]
               /\ gatewaySide[p][s] = "paid" => gatewaySide'[p][s] = "paid"
  PROVE  DeskInOrder(v)'
  <1>1. DeskInOrder(v) BY DEF RefundIInv
  <1> QED BY <1>1 DEF DeskInOrder, AtDesk, RefundUnderWay

\* A refund in progress ends at the gateway.
LEMMA GatewayKeeps ==
  ASSUME RefundIInv, NEW o \in Orders, NEW t \in Txs, SettleAtGateway(o, t)
  PROVE  RefundIInv'
  <1>a. RefundTypeOK /\ UNCHANGED <<order, tx, refund, refunded, clerk>> /\ UNCHANGED otherTables
    BY DEF RefundIInv, SettleAtGateway, otherTables
  <1>b. gatewaySide[o][t] = "processing" /\ \E side \in {"paid", "refused"} : GatewayMoves(o, t, side)
    BY DEF SettleAtGateway
  <1>c. PICK side \in {"paid", "refused"} : GatewayMoves(o, t, side) BY <1>b
  <1>1. /\ gatewaySide' \in [Orders -> [Txs -> Sides]]
        /\ payouts' \in [Orders -> [Txs -> Nat]]
        /\ \A p \in Orders, s \in Txs :
              /\ gatewaySide'[p][s] = IF p = o /\ s = t THEN side ELSE gatewaySide[p][s]
              /\ payouts'[p][s] = IF p = o /\ s = t /\ side = "paid" /\ gatewaySide[o][t] # "paid"
                                  THEN payouts[p][s] + 1 ELSE payouts[p][s]
    <2>1. side \in Sides BY DEF Sides
    <2> QED BY <1>a, <1>c, <2>1, GatewayMove
  <1>2. RefundTypeOK' BY <1>a, <1>1 DEF RefundTypeOK, Sides
  <1>3. IInv' BY <1>a, WithinFootprint, RefundKeepsIInv DEF RefundIInv
  <1>4. \A v \in Workers : DeskInOrder(v)' BY <1>a, <1>b, <1>1, AllKept
  <1>5. DesksApart' BY <1>a DEF RefundIInv, DesksApart, AtDesk
  <1>6. effect' = effect /\ grants' = grants BY <1>a DEF otherTables
  <1>7. ASSUME NEW p \in Orders, NEW s \in Txs PROVE RecordsAgree(p, s)'
    <2>1. RecordsAgree(p, s) BY DEF RefundIInv
    <2> QED BY <1>a, <1>b, <1>1, <1>6, <2>1 DEF RecordsAgree
  <1> QED BY <1>2, <1>3, <1>4, <1>5, <1>7 DEF RefundIInv

\* A refund nobody is busy with comes of age.
LEMMA AgeKeeps ==
  ASSUME RefundIInv, NEW o \in Orders, NEW t \in Txs, AgeRefund(o, t)
  PROVE  RefundIInv'
  <1>a. /\ RefundTypeOK /\ UNCHANGED otherTables
        /\ UNCHANGED <<order, tx, gatewaySide, payouts, refunded, clerk>>
    BY DEF RefundIInv, AgeRefund, otherTables
  <1> DEFINE row == [refund[o][t] EXCEPT !.aged = TRUE]
  <1>b. refund[o][t] \in RefundRow BY <1>a DEF RefundTypeOK
  <1>c. row \in RefundRow /\ row.status = refund[o][t].status /\ row.prev = refund[o][t].prev
    BY <1>b DEF RefundRow
  <1>d. refund' = [refund EXCEPT ![o][t] = row] BY <1>a, <1>b DEF AgeRefund, RefundTypeOK
  <1> HIDE DEF row
  <1>1. /\ refund' \in [Orders -> [Txs -> RefundRow]]
        /\ \A p \in Orders, s \in Txs :
              refund'[p][s] = IF p = o /\ s = t THEN row ELSE refund[p][s]
    BY <1>a, <1>c, <1>d, RefundWrite DEF RefundTypeOK
  <1>2. RefundTypeOK' BY <1>a, <1>1 DEF RefundTypeOK
  <1>3. IInv' BY <1>a, WithinFootprint, RefundKeepsIInv DEF RefundIInv
  <1>4. \A v \in Workers : DeskInOrder(v)'
    <2>1. \A v \in Workers : clerk[v].order = o => clerk[v].tx # t BY DEF AgeRefund
    <2> QED BY <1>a, <1>1, <2>1, AllKept
  <1>5. DesksApart' BY <1>a DEF RefundIInv, DesksApart, AtDesk
  <1>6. effect' = effect /\ grants' = grants BY <1>a DEF otherTables
  <1>7. ASSUME NEW p \in Orders, NEW s \in Txs PROVE RecordsAgree(p, s)'
    <2>1. RecordsAgree(p, s) BY DEF RefundIInv
    <2>2. refund'[p][s].status = refund[p][s].status /\ refund'[p][s].prev = refund[p][s].prev
      BY <1>1, <1>c
    <2> QED BY <1>a, <1>6, <2>1, <2>2 DEF RecordsAgree
  <1> QED BY <1>2, <1>3, <1>4, <1>5, <1>7 DEF RefundIInv

\* Somebody idle sits down at a refund nobody is busy with.
LEMMA SitsDown ==
  ASSUME RefundIInv, NEW w \in Workers, AtDesk(w, "idle"), NEW desk \in Desk,
         \A v \in Workers \ {w} :
            ~AtDesk(v, "idle") => clerk[v].order # desk.order \/ clerk[v].tx # desk.tx,
         desk.job => \A v \in Workers : ~clerk[v].job,
         clerk' = [clerk EXCEPT ![w] = desk]
  PROVE  /\ clerk' \in [Workers -> Desk]
         /\ \A v \in Workers \ {w} : clerk'[v] = clerk[v]
         /\ clerk'[w] = desk
         /\ DesksApart'
  <1>0. clerk \in [Workers -> Desk] BY DEF RefundIInv, RefundTypeOK
  <1>2. /\ clerk' \in [Workers -> Desk]
        /\ \A v \in Workers : clerk'[v] = IF v = w THEN desk ELSE clerk[v]
    BY <1>0
  <1>4. clerk[w].job = FALSE
    BY DEF RefundIInv, DeskInOrder, AwayFromDesk
  <1>5. DesksApart'
    <2> SUFFICES ASSUME NEW u \in Workers, NEW v \in Workers
                 PROVE  /\ clerk'[u].pc # "idle" /\ clerk'[v].pc # "idle"
                           /\ clerk'[u].order = clerk'[v].order /\ clerk'[u].tx = clerk'[v].tx
                           => u = v
                        /\ clerk'[u].job /\ clerk'[v].job => u = v
      BY DEF DesksApart, AtDesk
    <2> QED BY <1>2, <1>4 DEF RefundIInv, DesksApart, AtDesk
  <1> QED BY <1>2, <1>5

\* The job takes a refund up.
LEMMA StartKeeps ==
  ASSUME RefundIInv, NEW w \in Workers, NEW o \in Orders, NEW t \in Txs, StartReconcile(w, o, t)
  PROVE  RefundIInv'
  <1>a. /\ RefundTypeOK /\ UNCHANGED otherTables
        /\ UNCHANGED <<order, tx, refund, gatewaySide, payouts, refunded>>
    BY DEF RefundIInv, StartReconcile, otherTables
  <1>b. /\ AtDesk(w, "idle") /\ RefundUnderWay(o, t) /\ refund[o][t].aged
        /\ refund[o][t].retries < MaxRefundRetries /\ \A v \in Workers : ~clerk[v].job
        /\ clerk' = [clerk EXCEPT ![w] = [pc |-> "poll", order |-> o, tx |-> t, job |-> TRUE]]
    BY DEF StartReconcile, Selectable, JobIdle
  <1>c. \A v \in Workers \ {w} : ~AtDesk(v, "idle") => clerk[v].order # o \/ clerk[v].tx # t
    <2> SUFFICES ASSUME NEW v \in Workers, ~AtDesk(v, "idle"), clerk[v].order = o, clerk[v].tx = t
                 PROVE  FALSE
      OBVIOUS
    <2>1. DeskInOrder(v) BY DEF RefundIInv
    <2> QED BY <1>b, <2>1 DEF DeskInOrder
  <1> DEFINE desk == [pc |-> "poll", order |-> o, tx |-> t, job |-> TRUE]
  <1>d. desk \in Desk /\ desk.pc = "poll" /\ desk.order = o /\ desk.tx = t /\ desk.job = TRUE
    BY DEF Desk, ClerkSteps
  <1>e. clerk' = [clerk EXCEPT ![w] = desk] BY <1>b
  <1> HIDE DEF desk
  <1>1. /\ clerk' \in [Workers -> Desk]
        /\ \A v \in Workers \ {w} : clerk'[v] = clerk[v]
        /\ clerk'[w] = desk
        /\ DesksApart'
    <2>1. \A v \in Workers \ {w} :
             ~AtDesk(v, "idle") => clerk[v].order # desk.order \/ clerk[v].tx # desk.tx
      BY <1>c, <1>d
    <2>2. desk.job => \A v \in Workers : ~clerk[v].job BY <1>b
    <2>3. desk \in Desk /\ AtDesk(w, "idle") BY <1>b, <1>d
    <2> QED BY <2>1, <2>2, <2>3, <1>e, SitsDown, Zenon
  <1>2. RefundTypeOK' BY <1>a, <1>1 DEF RefundTypeOK
  <1>3. IInv' BY <1>a, WithinFootprint, RefundKeepsIInv DEF RefundIInv
  <1>4. \A v \in Workers : DeskInOrder(v)'
    <2>1. DeskInOrder(w)'
      <3>1. clerk'[w].pc = "poll" /\ clerk'[w].order = o /\ clerk'[w].tx = t /\ clerk'[w].job = TRUE
        BY <1>1, <1>d
      <3>2. refund' = refund BY <1>a
      <3>3. "poll" \in JobSteps BY DEF JobSteps
      <3> QED BY <1>b, <3>1, <3>2, <3>3 DEF DeskInOrder, AtDesk, RefundUnderWay
    <2>2. \A v \in Workers \ {w} : DeskInOrder(v)' BY <1>a, <1>1, AllKept
    <2> QED BY <2>1, <2>2
  <1>5. effect' = effect /\ grants' = grants BY <1>a DEF otherTables
  <1>6. \A p \in Orders, s \in Txs : RecordsAgree(p, s)'
    BY <1>a, <1>5 DEF RecordsAgree, RefundIInv
  <1> QED BY <1>1, <1>2, <1>3, <1>4, <1>6 DEF RefundIInv

\* The administrator asks for a refund.
LEMMA InitiateKeeps ==
  ASSUME RefundIInv, NEW w \in Workers, NEW o \in Orders, NEW t \in Txs, InitiateRefund(w, o, t)
  PROVE  RefundIInv'
  <1>a. /\ RefundTypeOK /\ TypeOK /\ UNCHANGED otherTables
        /\ UNCHANGED <<tx, payouts, refunded>>
    BY DEF RefundIInv, IInv, InitiateRefund, otherTables
  <1>b. /\ AtDesk(w, "idle") /\ order[o].status \in Refundable /\ tx[o][t] = "succeeded"
        /\ refund[o][t].status \notin {"pending", "failed"}
        /\ gatewaySide' = [gatewaySide EXCEPT ![o][t] = "none"]
        /\ clerk' = [clerk EXCEPT ![w] = [pc |-> "issue", order |-> o, tx |-> t, job |-> FALSE]]
    BY DEF InitiateRefund, RefundUnderWay
  <1>c. /\ RecordsAgree(o, t) /\ refund[o][t] \in RefundRow
        /\ order[o].status = "applied" => effect[o] = "done" /\ grants[o] = 1
    BY <1>a DEF RefundIInv, RefundTypeOK, IInv, AppliedIsDelivered
  <1>d. /\ refund[o][t].status = "none" /\ gatewaySide[o][t] = "none"
        /\ payouts[o][t] = 0 /\ refunded[o][t] = 0
    BY <1>b, <1>c DEF RecordsAgree, RefundRow
  <1> DEFINE row == [NoRefund EXCEPT !.status = "pending", !.prev = order[o].status]
  <1>e. /\ row \in RefundRow /\ row.status = "pending" /\ row.prev = order[o].status
        /\ row.retries = 0 /\ row.aged = FALSE
    <2>1. NoRefund \in RefundRow /\ NoRefund.retries = 0 /\ NoRefund.aged = FALSE
      BY RefundAssumption DEF NoRefund, RefundRow
    <2>2. order[o].status \in Refundable \cup {"none"} BY <1>b
    <2> DEFINE fresh == NoRefund
    <2>3. fresh \in RefundRow /\ fresh.retries = 0 /\ fresh.aged = FALSE
          /\ row = [fresh EXCEPT !.status = "pending", !.prev = order[o].status]
      BY <2>1
    <2> HIDE DEF fresh, row
    <2> QED BY <2>2, <2>3, Zenon DEF RefundRow
  <1>f. refund' = [refund EXCEPT ![o][t] = row] BY DEF InitiateRefund
  <1> HIDE DEF row
  <1>1. /\ refund' \in [Orders -> [Txs -> RefundRow]]
        /\ \A p \in Orders, s \in Txs :
              refund'[p][s] = IF p = o /\ s = t THEN row ELSE refund[p][s]
    BY <1>a, <1>e, <1>f, RefundWrite DEF RefundTypeOK
  <1>2. /\ gatewaySide' \in [Orders -> [Txs -> Sides]]
        /\ \A p \in Orders, s \in Txs : gatewaySide'[p][s] = gatewaySide[p][s]
    BY <1>a, <1>b, <1>d DEF RefundTypeOK, Sides
  <1>3. \A v \in Workers \ {w} : ~AtDesk(v, "idle") => clerk[v].order # o \/ clerk[v].tx # t
    <2> SUFFICES ASSUME NEW v \in Workers, ~AtDesk(v, "idle"), clerk[v].order = o, clerk[v].tx = t
                 PROVE  FALSE
      OBVIOUS
    <2>1. DeskInOrder(v) BY DEF RefundIInv
    <2> QED BY <1>b, <2>1 DEF DeskInOrder, RefundUnderWay
  <1> DEFINE desk == [pc |-> "issue", order |-> o, tx |-> t, job |-> FALSE]
  <1>4. /\ desk \in Desk /\ desk.pc = "issue" /\ desk.order = o /\ desk.tx = t
        /\ desk.job = FALSE /\ clerk' = [clerk EXCEPT ![w] = desk]
    BY <1>b DEF Desk, ClerkSteps
  <1> HIDE DEF desk
  <1>5. /\ clerk' \in [Workers -> Desk]
        /\ \A v \in Workers \ {w} : clerk'[v] = clerk[v]
        /\ clerk'[w] = desk
        /\ DesksApart'
    <2>1. \A v \in Workers \ {w} :
             ~AtDesk(v, "idle") => clerk[v].order # desk.order \/ clerk[v].tx # desk.tx
      BY <1>3, <1>4
    <2>2. desk.job => \A v \in Workers : ~clerk[v].job BY <1>4
    <2>3. desk \in Desk /\ AtDesk(w, "idle") /\ clerk' = [clerk EXCEPT ![w] = desk]
      BY <1>b, <1>4
    <2> QED BY <2>1, <2>2, <2>3, SitsDown, Zenon
  <1>6. RefundTypeOK' BY <1>a, <1>1, <1>2, <1>5 DEF RefundTypeOK, Sides
  <1>7. order' \in [Orders -> OrderRow] /\ \A p \in Orders : OrderMoves(p)
    <2> DEFINE new == [Leased(order[o], w) EXCEPT !.status = "refunding"]
    <2>1. order[o] \in OrderRow /\ Exists(o) BY <1>a, <1>b DEF TypeOK, Exists, Refundable
    <2>2. Leased(order[o], w) \in OrderRow BY <2>1, RowTypes
    <2>3. "refunding" \in Statuses BY DEF Statuses
    <2>4. new \in OrderRow /\ new.status = "refunding" BY <2>2, <2>3, Restated
    <2>5. order' = [order EXCEPT ![o] = new] BY DEF InitiateRefund
    <2> HIDE DEF new
    <2>6. \A p \in Orders : order'[p] = IF p = o THEN new ELSE order[p] BY <1>a, <2>5 DEF TypeOK
    <2>7. order' \in [Orders -> OrderRow] BY <1>a, <2>4, <2>5, OrderUpdates
    <2> QED BY <2>1, <2>4, <2>6, <2>7 DEF OrderMoves
  <1>8. IInv' BY <1>a, <1>7, WithinFootprint, RefundKeepsIInv DEF RefundIInv
  <1>9. \A v \in Workers : DeskInOrder(v)'
    <2>1. DeskInOrder(w)'
      <3>1. /\ clerk'[w].pc = "issue" /\ clerk'[w].order = o /\ clerk'[w].tx = t
            /\ clerk'[w].job = FALSE
        BY <1>4, <1>5
      <3>2. refund'[o][t] = row BY <1>1
      <3>3. "issue" \in RequestSteps BY DEF RequestSteps
      <3> QED BY <1>e, <3>1, <3>2, <3>3 DEF DeskInOrder, AtDesk, RefundUnderWay
    <2>2. ASSUME NEW v \in Workers \ {w} PROVE DeskInOrder(v)'
      <3>1. DeskInOrder(v) /\ clerk'[v] = clerk[v] BY <1>5 DEF RefundIInv
      <3> QED BY <1>1, <1>2, <1>3, <3>1 DEF DeskInOrder, AtDesk, RefundUnderWay
    <2> QED BY <2>1, <2>2
  <1>10. effect' = effect /\ grants' = grants /\ tx' = tx /\ payouts' = payouts
         /\ refunded' = refunded
    BY <1>a DEF otherTables
  <1>11. ASSUME NEW p \in Orders, NEW s \in Txs PROVE RecordsAgree(p, s)'
    <2>1. RecordsAgree(p, s) BY DEF RefundIInv
    <2>2. CASE p = o /\ s = t
      BY <1>b, <1>c, <1>d, <1>e, <1>1, <1>2, <1>10, <2>2 DEF RecordsAgree
    <2>3. CASE p # o \/ s # t BY <1>1, <1>2, <1>10, <2>1, <2>3 DEF RecordsAgree
    <2> QED BY <2>2, <2>3
  <1> QED BY <1>5, <1>6, <1>8, <1>9, <1>11 DEF RefundIInv

-------------------------------------------------------------------------------
(* Steps of the paid orders *)

\* A step of BillingOrders keeps a transaction on record as it is, and never books a
\* refund.
LEMMA RecordKept ==
  ASSUME IInv, [Next]_allVars, NEW o \in Orders, NEW t \in Txs
  PROVE  /\ tx[o][t] \in {"succeeded", "refunded"} => tx'[o][t] = tx[o][t]
         /\ tx'[o][t] = "refunded" => tx[o][t] = "refunded"
  <1>1. ASSUME tx[o][t] \in {"succeeded", "refunded"}, NEW w \in Workers,
               DeleteFailedOrder(w), OrderOf(w) = o
        PROVE  FALSE
    <2>1. trade[o].state = "none" BY <1>1 DEF DeleteFailedOrder, At, IInv, UnknownToGateway
    <2>2. trade[o].payments = {} BY <2>1 DEF IInv, FactsArePayments
    <2> QED BY <1>1, <2>2 DEF IInv, FactsArePayments, PaidTxs
  <1> QED BY <1>1, TxStep DEF TxMoves

\* What was delivered stays delivered.
LEMMA DeliveryKept ==
  ASSUME IInv, [Next]_allVars, NEW o \in Orders, effect[o] = "done", grants[o] = 1
  PROVE  effect'[o] = "done" /\ grants'[o] = 1
  BY EffectStep DEF EffectMoves

\* Orders move on as if there were no refunds.
LEMMA OrderKeeps ==
  ASSUME RefundIInv, [Next]_allVars, UNCHANGED refundVars
  PROVE  RefundIInv'
  <1>a. UNCHANGED <<refund, gatewaySide, payouts, refunded, clerk>> /\ IInv
    BY DEF refundVars, RefundIInv
  <1>1. IInv' BY <1>a, InvStep
  <1>2. RefundTypeOK' BY <1>a DEF RefundIInv, RefundTypeOK
  <1>3. (\A w \in Workers : DeskInOrder(w)') /\ DesksApart'
    BY <1>a DEF RefundIInv, DeskInOrder, DesksApart, AtDesk, RefundUnderWay
  <1>4. ASSUME NEW o \in Orders, NEW t \in Txs PROVE RecordsAgree(o, t)'
    <2>1. RecordsAgree(o, t) /\ refund[o][t] \in RefundRow
      BY DEF RefundIInv, RefundTypeOK
    <2>2. /\ tx[o][t] \in {"succeeded", "refunded"} => tx'[o][t] = tx[o][t]
          /\ tx'[o][t] = "refunded" => tx[o][t] = "refunded"
      BY <1>a, RecordKept
    <2>3. effect[o] = "done" /\ grants[o] = 1 => effect'[o] = "done" /\ grants'[o] = 1
      BY <1>a, DeliveryKept
    <2> QED BY <1>a, <2>1, <2>2, <2>3 DEF RecordsAgree
  <1> QED BY <1>1, <1>2, <1>3, <1>4 DEF RefundIInv

-------------------------------------------------------------------------------
(* The theorems *)

\* The invariant holds before any order is placed.
LEMMA RefundInvInit ==
  ASSUME RefundInit
  PROVE  RefundIInv
  <1>1. IInv BY InvInit DEF RefundInit
  <1>2. RefundTypeOK
    <2>1. NoRefund \in RefundRow BY RefundAssumption DEF NoRefund, RefundRow
    <2>2. AwayFromDesk \in Desk BY DEF AwayFromDesk, Desk, ClerkSteps
    <2> QED BY <2>1, <2>2 DEF RefundInit, RefundTypeOK
  <1>3. \A o \in Orders, t \in Txs : RecordsAgree(o, t)
    BY DEF RefundInit, Init, StoreInit, NoRefund, RecordsAgree
  <1>4. \A w \in Workers : clerk[w] = AwayFromDesk BY DEF RefundInit
  <1>5. AwayFromDesk.pc = "idle" /\ AwayFromDesk.job = FALSE BY DEF AwayFromDesk
  <1>6. (\A w \in Workers : DeskInOrder(w)) /\ DesksApart
    BY <1>4, <1>5 DEF DeskInOrder, DesksApart, AtDesk
  <1> QED BY <1>1, <1>2, <1>3, <1>6 DEF RefundIInv

\* Every step keeps the invariant.
LEMMA RefundInvStep ==
  ASSUME RefundIInv, [RefundNext]_systemVars
  PROVE  RefundIInv'
  <1>1. CASE OrderStep \/ UNCHANGED systemVars
    <2>1. [Next]_allVars /\ UNCHANGED refundVars BY <1>1 DEF OrderStep, systemVars
    <2> QED BY <2>1, OrderKeeps
  <1>2. ASSUME NEW w \in Workers, ClerkStep(w) \/ LoseClerk(w) PROVE RefundIInv'
    BY <1>2, IssueKeeps, UndoKeeps, AcceptKeeps, SettleKeeps, PollKeeps, ReissueKeeps, BumpKeeps
       DEF ClerkStep
  <1>3. ASSUME NEW w \in Workers, NEW o \in Orders, NEW t \in Txs,
               InitiateRefund(w, o, t) \/ StartReconcile(w, o, t)
        PROVE  RefundIInv'
    BY <1>3, InitiateKeeps, StartKeeps
  <1>4. ASSUME NEW o \in Orders, NEW t \in Txs, SettleAtGateway(o, t) \/ AgeRefund(o, t)
        PROVE  RefundIInv'
    BY <1>4, GatewayKeeps, AgeKeeps
  <1> QED BY <1>1, <1>2, <1>3, <1>4 DEF RefundNext

\* The inductive invariant holds in every reachable state of the orders and their refunds.
THEOREM RefundInvariant == RefundSpec => []RefundIInv
  <1>1. RefundInit => RefundIInv BY RefundInvInit
  <1>2. RefundIInv /\ [RefundNext]_systemVars => RefundIInv' BY RefundInvStep
  <1> QED BY <1>1, <1>2, PTL DEF RefundSpec

\* Type correctness of the refunds, the gateway's side of them and the desks; no refund
\* is ever counted past _MAX_RETRY.
THEOREM RefundTypeCorrect == RefundSpec => []RefundTypeOK
  <1>1. RefundIInv => RefundTypeOK BY DEF RefundIInv
  <1> QED BY <1>1, RefundInvariant, PTL

\* However requests, lost answers, restarts and rounds of refund_retry follow on each
\* other, a payment is sent back at most once (initiate_refund, process_retry).
THEOREM MoneyPaidBackOnce == RefundSpec => []PaidBackOnce
  <1>1. RefundIInv => PaidBackOnce BY DEF RefundIInv, RecordsAgree, PaidBackOnce
  <1> QED BY <1>1, RefundInvariant, PTL

\* _finalize_refund_succeeded books a refund in all three tables or in none, once, and
\* only when the money left the gateway.
THEOREM RefundsAreBooked == RefundSpec => []RefundBooked
  <1>1. RefundIInv => RefundBooked BY DEF RefundIInv, RecordsAgree, RefundBooked
  <1> QED BY <1>1, RefundInvariant, PTL

\* With refunds beside them the orders keep what the paid-order system promises: each
\* payment is credited once, each order delivered at most once and only for money.
THEOREM OrdersSurviveRefunds ==
  RefundSpec => [](CreditedOnce /\ GrantedOnce /\ GrantedOnlyPaid /\ AppliedIsDelivered)
  <1>1. RefundIInv => CreditedOnce /\ GrantedOnce /\ GrantedOnlyPaid /\ AppliedIsDelivered
    BY DEF RefundIInv, IInv
  <1> QED BY <1>1, RefundInvariant, PTL
===============================================================================
