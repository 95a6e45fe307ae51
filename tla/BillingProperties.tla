--------------------------- MODULE BillingProperties ---------------------------
(***************************************************************************)
(* What must be true of the paid-order system.                             *)
(***************************************************************************)
EXTENDS BillingOrders

-------------------------------------------------------------------------------
(* Money *)

\* A transaction was added to order.received_fen exactly once if it is on record
\* as received and never otherwise, however often webhooks, polling, cancelling
\* and closing report it (add_payment).
CreditedOnce ==
    \A o \in Orders, t \in Txs :
        credits[o][t] = IF tx[o][t] \in {"succeeded", "refunded"} THEN 1 ELSE 0

\* What add_payment has answered for is on record: an order of a customer with no
\* other order never loses a payment that was reported.
FundFactLands ==
    \A o \in Orders : \A t \in answered[o] : tx[o][t] \in {"succeeded", "refunded"}

\* The cashier still takes money for the order.
CashierUsable(o) ==
    \/ AcceptsPayment(o)
    \/ trade[o].state = "issued" /\ invoice[o].gateway = "recorded" /\ ~invoice[o].due

\* An order the customer cancelled has not been charged and cannot be any more
\* (cancel_order claims, asks, closes the trade, and only then cancels).
CancelledNeverCharged ==
    \A o \in Orders :
        order[o].status = "cancelled" => trade[o].payments = {} /\ ~CashierUsable(o)

\* Alipay refuses money after due_at, so an order that order_close or cancel_order
\* ended, voiding its invoice, was never charged there.
VoidAlipayNeverCharged ==
    \A o \in Orders :
        GatewayOf[o] = "alipay_direct" /\ invoice[o].status = "void" =>
            trade[o].payments = {}

-------------------------------------------------------------------------------
(* Delivery *)

\* The days or the plan of an order reach the server at most once, and never
\* without an effect row, although two apply runs may overlap after a lease ran out.
GrantedOnce ==
    \A o \in Orders : grants[o] <= 1 /\ (grants[o] = 1 => effect[o] # "none")

\* I1: an effect row exists only for an order with a payment on record.
GrantedOnlyPaid == \A o \in Orders : effect[o] # "none" => HasPayment(o)

\* An applied order has been delivered: the days reached the server and the post
\* actions ran, whichever of the apply runs wrote the status.
AppliedIsDelivered ==
    \A o \in Orders : order[o].status = "applied" => effect[o] = "done" /\ grants[o] = 1

-------------------------------------------------------------------------------
(* The promise to the customer *)

OutcomeOf(status) ==
    CASE status = "absent"                            -> "none"
      [] status \in {"pending", "processing"}         -> "open"
      [] status \in {"manual_review", "apply_failed"} -> "review"
      [] status = "applied"                           -> "fulfilled"
      [] status \in {"closed", "cancelled", "refunding", "refunded"} -> "ended"
      [] status = "deleted"                           -> "erased"

PaidTxs(o) == {t \in Txs : tx[o][t] \in {"succeeded", "refunded"}}

Lifecycle ==
    INSTANCE OrderLifecycle WITH
        outcome <- [o \in Orders |-> OutcomeOf(order[o].status)],
        paid <- [o \in Orders |-> PaidTxs(o)],
        delivered <- [o \in Orders |-> grants[o] = 1]

\* The order system implements OrderLifecycle: every step of every task, crashes
\* and expired leases included, is one the customer was promised or invisible.
ImplementsLifecycle == Lifecycle!LSpec

-------------------------------------------------------------------------------
(* Why it holds: the inductive invariant *)

\* A task works on an order that has been placed.
TasksHaveOrders ==
    \A w \in Workers :
        ~At(w, "idle") => OrderOf(w) \in Orders /\ order[OrderOf(w)].status # "absent"

CreatingSteps == {"create", "persist", "uncertain", "rollback", "delete"}

\* One request places an order, and nothing else can remove it meanwhile.
OneCreator ==
    \A w \in Workers :
        task[w].pc \in CreatingSteps =>
            /\ order[OrderOf(w)].status # "deleted"
            /\ \A v \in Workers :
                task[v].pc \in CreatingSteps /\ OrderOf(v) = OrderOf(w) => v = w

\* The gateway knows nothing of an order before it is asked, nor once it refused it.
UnknownToGateway ==
    /\ \A o \in Orders : order[o].status = "absent" => trade[o].state = "none"
    /\ \A w \in Workers :
        task[w].pc \in {"create", "rollback", "delete"} => trade[OrderOf(w)].state = "none"

\* What is on record as received was paid at the gateway, and only for an order
\* that exists.
FactsArePayments ==
    \A o \in Orders :
        /\ trade[o].payments # {} => trade[o].state = "paid"
        /\ PaidTxs(o) \subseteq trade[o].payments
        /\ PaidTxs(o) # {} => Exists(o)

PaidSteps == {"claim", "effect", "commit", "post", "finish", "fail", "stray", "orphan"}

\* Apply goes past stage 1 for paid orders only, to the post actions with an effect
\* row only, and to stage 4 only when they are done; a purchase that found its
\* server gone will not see it again.
ApplyProgress ==
    \A w \in Workers :
        /\ task[w].pc \in PaidSteps => HasPayment(OrderOf(w))
        /\ At(w, "post") => effect[OrderOf(w)] # "none"
        /\ At(w, "finish") => effect[OrderOf(w)] = "done"
        /\ At(w, "stray") => server[OrderOf(w)] = "none"

\* An effect row without the grant it records is left behind only where the server
\* is gone, so its post actions never succeed.
StrayEffects ==
    \A o \in Orders :
        /\ effect[o] # "none" /\ grants[o] = 0 => server[o] = "none"
        /\ effect[o] = "done" => grants[o] = 1

IInv ==
    /\ TypeOK
    /\ TasksHaveOrders
    /\ OneCreator
    /\ UnknownToGateway
    /\ FactsArePayments
    /\ ApplyProgress
    /\ StrayEffects
    /\ CreditedOnce
    /\ GrantedOnce
    /\ GrantedOnlyPaid
    /\ AppliedIsDelivered

-------------------------------------------------------------------------------
(* Fairness and liveness *)

TaskStep(w) ==
    \/ CreateTrade(w) \/ PersistTrade(w) \/ MarkUncertain(w)
    \/ RollbackPlaceholder(w) \/ DeleteFailedOrder(w)
    \/ QueryTrade(w) \/ CloseTrade(w) \/ RequeryTrade(w)
    \/ RecordQueriedPayment(w) \/ EndLocally(w) \/ CleanupEnded(w) \/ ReleaseLease(w)
    \/ ApplyStep(w) \/ DropServer(w)

Closing(w) == task[w].mode = "close"
Answered(w) == task'[w].pc # "release"

\* The event loop runs every task on, and the scheduler every job; time passes.  A
\* gateway that order_close asks again and again answers it some time, and a
\* database it writes to again and again takes the write.  Customers,
\* administrators, buyers and notifications owe nothing.
Fairness ==
    /\ \A w \in Workers :
        /\ WF_allVars(TaskStep(w) /\ UNCHANGED budget)
        /\ SF_allVars(Closing(w) /\ QueryTrade(w) /\ Answered(w) /\ UNCHANGED budget)
        /\ SF_allVars(Closing(w) /\ RequeryTrade(w) /\ Answered(w) /\ UNCHANGED budget)
        /\ SF_allVars(Closing(w) /\ EndLocally(w) /\ order' # order /\ UNCHANGED budget)
    /\ \A o \in Orders :
        /\ SF_allVars((\E w \in Workers : StartRetry(w, o)) /\ UNCHANGED budget)
        /\ SF_allVars((\E w \in Workers : StartClose(w, o)) /\ UNCHANGED budget)
        /\ WF_allVars(ElapseBackoff(o) /\ UNCHANGED budget)
        /\ WF_allVars(ExpireLease(o) /\ UNCHANGED stalls)

FairSpec == Spec /\ Fairness

\* A paid order does not stay in processing: it is applied or handed to a human,
\* through crashed tasks, leases left behind, backoff and retries.
ProcessingSettles ==
    \A o \in Orders : order[o].status = "processing" ~> order[o].status # "processing"

\* An unpaid order past its due time does not block its customer for ever.
DueEnds ==
    \A o \in Orders :
        order[o].status = "pending" /\ invoice[o].due
            ~> order[o].status # "pending" \/ HasPayment(o)
===============================================================================
