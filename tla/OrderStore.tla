------------------------------ MODULE OrderStore ------------------------------
(***************************************************************************)
(* The tables every billing flow shares, and the vocabulary the flows use  *)
(* on them: the lease on an order row, the unique index on a user's        *)
(* active order, and the recording of a payment fact.                      *)
(*                                                                         *)
(* A flow (an HTTP handler or a job) is a task run by a worker.  Between   *)
(* two steps of a task every other task may run: a step is one database    *)
(* transaction or one call to a payment gateway.  A worker runs one task   *)
(* at a time, so its name serves as the lock token of that task.           *)
(***************************************************************************)
EXTENDS Naturals

CONSTANTS
    Orders,       \* order rows that may be created
    Users,        \* customers
    UserOf,       \* the customer of each order
    KindOf,       \* the kind of each order
    GatewayOf,    \* the gateway the customer picked for each order
    Registered,   \* the gateways the registry has loaded
    Txs,          \* the payments a buyer may make against one invoice
    ExactTxs,     \* those whose amount is the invoice total
    Workers,      \* concurrent tasks
    NoWorker,     \* the NULL of lock_token
    NoOrder,      \* the order of an idle worker
    MaxRetries    \* len(RETRY_DELAYS)

Gateways == {"alipay_direct", "hupijiao"}

ASSUME StoreAssumption ==
    /\ UserOf \in [Orders -> Users]
    /\ KindOf \in [Orders -> {"renew", "upgrade", "convert", "new_purchase"}]
    /\ GatewayOf \in [Orders -> Gateways]
    /\ Registered \subseteq Gateways
    /\ ExactTxs \subseteq Txs
    /\ NoWorker \notin Workers
    /\ NoOrder \notin Orders
    /\ MaxRetries \in Nat

VARIABLES
    order,     \* manager_billing_orders: status, lease, retry schedule
    invoice,   \* manager_billing_invoices: status, due_at elapsed, gateway fields
    tx,        \* manager_billing_invoice_transactions, by gateway transaction id
    credits,   \* how often each transaction was added to order.received_fen
    effect,    \* manager_billing_order_effects: no row, committed, post actions done
    grants,    \* how often the order's days or plan reached the server
    server,    \* the order's target row in panel.servers
    trade,     \* the gateway's record of the invoice
    answered,  \* transactions some add_payment call has returned or raised on
    task       \* what each worker is doing

tables == <<order, invoice, tx, credits, effect, grants, server>>
vars == <<order, invoice, tx, credits, effect, grants, server, trade, answered, task>>

Statuses == {"absent", "pending", "processing", "applied", "apply_failed", "closed",
             "cancelled", "refunding", "refunded", "manual_review", "deleted"}

Active == {"pending", "processing", "manual_review"}

Steps == {"idle",
          "create", "persist", "uncertain", "rollback", "delete",
          "query", "trade", "requery", "pay", "local", "cleanup", "release",
          "stage1", "claim", "effect", "commit", "post", "finish", "fail", "stray",
          "orphan", "drop"}

OrderRow == [status : Statuses, lock : Workers \cup {NoWorker}, expired : BOOLEAN,
             backoff : BOOLEAN, retries : Nat]
InvoiceStatuses == {"pending", "paid", "void"}
InvoiceRow == [status : InvoiceStatuses, due : BOOLEAN,
               gateway : {"null", "uncertain", "recorded"}]
Trade == [state : {"none", "issued", "open", "paid", "closed"}, payments : SUBSET Txs]
Task == [pc : Steps, order : Orders \cup {NoOrder}, mode : {"none", "close", "cancel"},
         seen : InvoiceStatuses]

TypeOK ==
    /\ order \in [Orders -> OrderRow]
    /\ invoice \in [Orders -> InvoiceRow]
    /\ tx \in [Orders -> [Txs -> {"none", "succeeded", "failed", "refunded"}]]
    /\ credits \in [Orders -> [Txs -> Nat]]
    /\ effect \in [Orders -> {"none", "committed", "done"}]
    /\ grants \in [Orders -> Nat]
    /\ server \in [Orders -> {"none", "placeholder", "live"}]
    /\ trade \in [Orders -> Trade]
    /\ answered \in [Orders -> SUBSET Txs]
    /\ task \in [Workers -> Task]

FreshOrder == [status |-> "absent", lock |-> NoWorker, expired |-> FALSE,
               backoff |-> FALSE, retries |-> 0]
Idle == [pc |-> "idle", order |-> NoOrder, mode |-> "none", seen |-> "pending"]

\* A renewal targets a server the customer already runs; a purchase has none yet.
StoreInit ==
    /\ order = [o \in Orders |-> FreshOrder]
    /\ invoice = [o \in Orders |-> [status |-> "pending", due |-> FALSE, gateway |-> "null"]]
    /\ tx = [o \in Orders |-> [t \in Txs |-> "none"]]
    /\ credits = [o \in Orders |-> [t \in Txs |-> 0]]
    /\ effect = [o \in Orders |-> "none"]
    /\ grants = [o \in Orders |-> 0]
    /\ server = [o \in Orders |-> IF KindOf[o] = "new_purchase" THEN "none" ELSE "live"]
    /\ trade = [o \in Orders |-> [state |-> "none", payments |-> {}]]
    /\ answered = [o \in Orders |-> {}]
    /\ task = [w \in Workers |-> Idle]

-------------------------------------------------------------------------------
(* Tasks *)

At(w, step) == task[w].pc = step
OrderOf(w) == task[w].order

StartTask(w, step, o, mode) ==
    task' = [task EXCEPT ![w] = [pc |-> step, order |-> o, mode |-> mode, seen |-> "pending"]]
GoTo(w, step) == task' = [task EXCEPT ![w].pc = step]
Stop(w) == task' = [task EXCEPT ![w] = Idle]

-------------------------------------------------------------------------------
(* The lease: lock_token IS NULL OR locked_until IS NULL OR locked_until < now *)

\* Seeded defect: a lease that never runs out.
LeaseNeverExpires(o) == order[o].lock = NoWorker
LockFree(o) == order[o].lock = NoWorker \/ order[o].expired

HoldsLock(w, o) == order[o].lock = w

Leased(row, w) == [row EXCEPT !.lock = w, !.expired = FALSE]
Unlocked(row) == [row EXCEPT !.lock = NoWorker, !.expired = FALSE]

\* UPDATE ... SET lock_token = NULL WHERE lock_token = mine
ReleaseIfMine(w, o) ==
    order' = IF HoldsLock(w, o) THEN [order EXCEPT ![o] = Unlocked(@)] ELSE order

(* uk_billing_orders_active_user: one active order per user.  A write that *)
(* would make a second order active is refused by the database.            *)
MayBecomeActive(o) ==
    \A p \in Orders \ {o} : UserOf[p] = UserOf[o] => order[p].status \notin Active

-------------------------------------------------------------------------------
(* Payment facts *)

Exists(o) == order[o].status \notin {"absent", "deleted"}

\* _has_succeeded_payment, and the no_payment_subq guards
HasPayment(o) == \E t \in Txs : tx[o][t] \in {"succeeded", "refunded"}

\* The branches of add_payment that need a human: an amount other than the
\* invoice total, or money for an order that is already void, closed or cancelled.
\* The order row is read under the lock; the invoice object may be one the session
\* loaded earlier, so its status is as it was then.
NeedsReview(o, t, seen) ==
    \/ t \notin ExactTxs
    \/ seen = "void"
    \/ order[o].status \in {"closed", "cancelled"}

StatusAfterPayment(o, t, seen) ==
    IF NeedsReview(o, t, seen) /\ order[o].status \notin {"manual_review", "refunded"}
    THEN "manual_review"
    ELSE order[o].status

\* An exact amount leaves nothing remaining, so a pending invoice becomes paid.
SettlesInvoice(o, t, seen) ==
    /\ ~NeedsReview(o, t, seen)
    /\ order[o].status # "refunded"
    /\ seen = "pending"

IndexAccepts(o, status) ==
    status \in Active /\ order[o].status \notin Active => MayBecomeActive(o)

\* The fact, the credit and the transition, in one commit.
RecordFact(o, t, seen) ==
    /\ tx' = [tx EXCEPT ![o][t] = "succeeded"]
    /\ credits' = [credits EXCEPT ![o][t] = @ + 1]
    /\ order' = [order EXCEPT ![o].status = StatusAfterPayment(o, t, seen)]
    /\ invoice' = IF SettlesInvoice(o, t, seen)
                  THEN [invoice EXCEPT ![o].status = "paid"] ELSE invoice

\* Seeded defects: no look-up of the transaction id, and a look-up by invoice.
NoTxLookup(o, t) == FALSE
LookupByInvoice(o, t) == \E s \in Txs : tx[o][s] # "none"
\* A transaction that is on record is returned as it is.
KnownTx(o, t) == tx[o][t] # "none"

\* add_payment for transaction t of order o, run by w.  A write the unique index
\* refuses rolls everything back; the caller goes on to apply only if it settled
\* the invoice.
AddPayment(w, o, t, seen) ==
    LET refused == ~IndexAccepts(o, StatusAfterPayment(o, t, seen)) IN
    /\ Exists(o)
    /\ answered' = [answered EXCEPT ![o] = @ \cup {t}]
    /\ IF KnownTx(o, t) \/ refused
       THEN /\ Stop(w)
            /\ UNCHANGED <<order, invoice, tx, credits>>
       ELSE /\ RecordFact(o, t, seen)
            /\ IF SettlesInvoice(o, t, seen) THEN StartTask(w, "stage1", o, "none")
               ELSE Stop(w)
    /\ UNCHANGED <<effect, grants, server, trade>>

\* mark_transaction_failed
MarkTransactionFailed(w, o, t) ==
    /\ tx[o][t] = "none"
    /\ tx' = [tx EXCEPT ![o][t] = "failed"]
    /\ Stop(w)
    /\ UNCHANGED <<order, invoice, credits, effect, grants, server, trade, answered>>
===============================================================================
