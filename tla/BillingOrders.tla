----------------------------- MODULE BillingOrders -----------------------------
(***************************************************************************)
(* The paid-order system: the order service and the apply engine, with the *)
(* webhooks and polling that report payments to them, the administrator's  *)
(* interventions, the buyer and the gateway, and the faults of the world   *)
(* they run in.                                                            *)
(***************************************************************************)
EXTENDS OrderService, ApplyEngine

CONSTANTS
    MaxCrashes,   \* bound on tasks lost to a restart
    MaxStalls     \* bound on leases that run out under a live task

ASSUME BudgetAssumption == MaxCrashes \in Nat /\ MaxStalls \in Nat

VARIABLES crashes, stalls

budget == <<crashes, stalls>>
allVars == <<order, invoice, tx, credits, effect, grants, server, trade, answered, task,
             crashes, stalls>>

Init == StoreInit /\ crashes = 0 /\ stalls = 0

-------------------------------------------------------------------------------
(* The buyer and the gateway *)

\* Opening the cashier creates the Alipay trade, until time_expire, which is due_at.
OpenCashier(o) ==
    /\ trade[o].state = "issued"
    /\ invoice[o].gateway = "recorded"
    /\ ~invoice[o].due
    /\ trade' = [trade EXCEPT ![o].state = "open"]
    /\ UNCHANGED <<order, invoice, tx, credits, effect, grants, server, answered, task>>

\* Alipay takes one payment and none after time_expire; Hupijiao enforces neither.
AcceptsPayment(o) ==
    IF GatewayOf[o] = "alipay_direct"
    THEN trade[o].state = "open" /\ ~invoice[o].due
    ELSE trade[o].state \in {"open", "paid"}

Pay(o, t) ==
    /\ AcceptsPayment(o)
    /\ t \notin trade[o].payments
    /\ trade' = [trade EXCEPT ![o] = [state |-> "paid", payments |-> @.payments \cup {t}]]
    /\ UNCHANGED <<order, invoice, tx, credits, effect, grants, server, answered, task>>

\* The gateway gives up on an unpaid trade.
ExpireTrade(o) ==
    /\ trade[o].state = "open"
    /\ GatewayOf[o] = "alipay_direct" => invoice[o].due
    /\ trade' = [trade EXCEPT ![o].state = "closed"]
    /\ UNCHANGED <<order, invoice, tx, credits, effect, grants, server, answered, task>>

-------------------------------------------------------------------------------
(* Payment reports *)

\* A gateway notification, which may come late and more than once.
Webhook(w, o) ==
    /\ At(w, "idle")
    /\ GatewayOf[o] \in Registered
    /\ \E t \in trade[o].payments : AddPayment(w, o, t, invoice[o].status)

\* order_query: polls a pending order before its due time, once the invoice
\* carries a gateway code.
QueryPending(w, o) ==
    /\ At(w, "idle")
    /\ order[o].status = "pending"
    /\ ~invoice[o].due
    /\ invoice[o].gateway # "null"
    /\ GatewayOf[o] \in Registered
    /\ \/ /\ TradeStatus(o) = "SUCCESS"
          /\ \E t \in trade[o].payments : AddPayment(w, o, t, invoice[o].status)
       \/ TradeStatus(o) = "CLOSED" /\ \E t \in Txs : MarkTransactionFailed(w, o, t)

-------------------------------------------------------------------------------
(* The administrator *)

Reviewable(o) == order[o].status \in {"manual_review", "apply_failed"}

\* force_apply resets the retry state and runs the apply flow at once.
ForceApply(w, o) ==
    /\ At(w, "idle")
    /\ Reviewable(o)
    /\ IndexAccepts(o, "processing")
    /\ order' = [order EXCEPT ![o] = [@ EXCEPT !.status = "processing", !.backoff = FALSE,
                                               !.retries = 0]]
    /\ StartTask(w, "stage1", o, "none")
    /\ UNCHANGED <<invoice, tx, credits, effect, grants, server, trade, answered>>

\* force_close deletes the target server, whatever the order's kind, when the
\* effect row was not there at the time of the commit.
ForceCloseDrops(o) == effect[o] = "none"

ForceClose(w, o) ==
    /\ At(w, "idle")
    /\ Reviewable(o)
    /\ order' = [order EXCEPT ![o].status = "closed"]
    /\ IF ForceCloseDrops(o) THEN StartTask(w, "drop", o, "none") ELSE UNCHANGED task
    /\ UNCHANGED <<invoice, tx, credits, effect, grants, server, trade, answered>>

\* cleanup_placeholder checks the effect and the pending: prefix before it deletes.
MayCleanupPlaceholder(o) ==
    /\ Exists(o)
    /\ effect[o] = "none"
    /\ server[o] = "placeholder"

CleanupPlaceholder(w, o) ==
    /\ At(w, "idle")
    /\ MayCleanupPlaceholder(o)
    /\ StartTask(w, "drop", o, "none")
    /\ UNCHANGED <<order, invoice, tx, credits, effect, grants, server, trade, answered>>

DropServer(w) ==
    /\ At(w, "drop")
    /\ \/ server' = [server EXCEPT ![OrderOf(w)] = "none"]
       \/ UNCHANGED server
    /\ Stop(w)
    /\ UNCHANGED <<order, invoice, tx, credits, effect, grants, trade, answered>>

\* The customer, an administrator or the daily job deletes a running server.
DeleteLiveServer(o) ==
    /\ server[o] = "live"
    /\ server' = [server EXCEPT ![o] = "none"]
    /\ UNCHANGED <<order, invoice, tx, credits, effect, grants, trade, answered, task>>

-------------------------------------------------------------------------------
(* Time and faults *)

PassDueTime(o) ==
    /\ order[o].status # "absent"
    /\ ~invoice[o].due
    /\ invoice' = [invoice EXCEPT ![o].due = TRUE]
    /\ UNCHANGED <<order, tx, credits, effect, grants, server, trade, answered, task>>

ElapseBackoff(o) ==
    /\ order[o].backoff
    /\ order' = [order EXCEPT ![o].backoff = FALSE]
    /\ UNCHANGED <<invoice, tx, credits, effect, grants, server, trade, answered, task>>

\* Steps of a task that runs under the lease it claimed.
LeasedSteps == {"query", "trade", "requery", "local", "cleanup", "release",
                "effect", "commit", "post", "finish", "fail", "stray", "orphan"}

HolderAlive(o) ==
    \E w \in Workers : HoldsLock(w, o) /\ OrderOf(w) = o /\ task[w].pc \in LeasedSteps

\* A lease left behind by a lost task always runs out; under a live task it does
\* only when that task stalls.
ExpireLease(o) ==
    /\ order[o].lock # NoWorker
    /\ ~order[o].expired
    /\ order' = [order EXCEPT ![o].expired = TRUE]
    /\ IF HolderAlive(o)
       THEN stalls < MaxStalls /\ stalls' = stalls + 1
       ELSE UNCHANGED stalls
    /\ UNCHANGED <<invoice, tx, credits, effect, grants, server, trade, answered, task, crashes>>

\* A restart loses the task and keeps the tables.
Crash(w) ==
    /\ ~At(w, "idle")
    /\ crashes < MaxCrashes
    /\ crashes' = crashes + 1
    /\ Stop(w)
    /\ UNCHANGED <<order, invoice, tx, credits, effect, grants, server, trade, answered, stalls>>

-------------------------------------------------------------------------------

Buyer(o) == OpenCashier(o) \/ (\E t \in Txs : Pay(o, t)) \/ ExpireTrade(o)

Reports(w, o) == Webhook(w, o) \/ QueryPending(w, o)

Admin(w, o) == ForceApply(w, o) \/ ForceClose(w, o) \/ CleanupPlaceholder(w, o)

Next ==
    \/ (ServiceNext \/ ApplyNext) /\ UNCHANGED budget
    \/ \E w \in Workers, o \in Orders : (Reports(w, o) \/ Admin(w, o)) /\ UNCHANGED budget
    \/ \E w \in Workers : DropServer(w) /\ UNCHANGED budget
    \/ \E o \in Orders :
        /\ Buyer(o) \/ DeleteLiveServer(o) \/ PassDueTime(o) \/ ElapseBackoff(o)
        /\ UNCHANGED budget
    \/ \E o \in Orders : ExpireLease(o)
    \/ \E w \in Workers : Crash(w)

Spec == Init /\ [][Next]_allVars

===============================================================================
