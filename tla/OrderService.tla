----------------------------- MODULE OrderService -----------------------------
(***************************************************************************)
(* Placing an order, cancelling it, and the job that closes orders past    *)
(* their due time.  Cancelling and closing follow the same protocol: lease *)
(* the row, ask the gateway, close the trade there, and only then move the *)
(* order locally; task[w].mode tells the two apart where they differ.      *)
(***************************************************************************)
EXTENDS OrderStore

Cancelling(w) == task[w].mode = "cancel"

-------------------------------------------------------------------------------
(* Placing an order *)

\* One transaction: order, coupon reservation, placeholder server, invoice.
PlaceOrder(w, o) ==
    /\ At(w, "idle")
    /\ order[o].status = "absent"
    /\ GatewayOf[o] \in Registered
    /\ KindOf[o] # "new_purchase" => server[o] = "live"
    /\ MayBecomeActive(o)
    /\ order' = [order EXCEPT ![o].status = "pending"]
    /\ server' = IF KindOf[o] = "new_purchase"
                 THEN [server EXCEPT ![o] = "placeholder"] ELSE server
    /\ StartTask(w, "create", o, "none")
    /\ UNCHANGED <<invoice, tx, credits, effect, grants, trade, answered>>

\* Seeded defect: silence taken for a rejection.
RollBackUnheard == "rollback"
\* After any failure but a rejection the trade may exist.
AfterUnheard == "uncertain"

\* gateway.create_invoice.  Alipay's adapter signs a cashier URL and asks nobody,
\* so it cannot be rejected; Hupijiao may reject, accept, or accept and not be
\* heard.  Any other failure leaves the outcome unknown.
CreateTrade(w) ==
    LET o == OrderOf(w)
        accepted == IF GatewayOf[o] = "alipay_direct" THEN "issued" ELSE "open"
    IN
    /\ At(w, "create")
    /\ \/ /\ trade' = [trade EXCEPT ![o].state = accepted]
          /\ GoTo(w, "persist")
       \/ /\ GatewayOf[o] = "hupijiao"
          /\ trade' = [trade EXCEPT ![o].state = accepted]
          /\ GoTo(w, AfterUnheard)
       \/ /\ GatewayOf[o] = "hupijiao"
          /\ GoTo(w, "rollback")
          /\ UNCHANGED trade
       \/ /\ GoTo(w, AfterUnheard)
          /\ UNCHANGED trade
    /\ UNCHANGED <<order, invoice, tx, credits, effect, grants, server, answered>>

\* The gateway fields, time_expire among them, reach the invoice; without them
\* the customer never sees the cashier.
PersistTrade(w) ==
    /\ At(w, "persist")
    /\ invoice' = [invoice EXCEPT ![OrderOf(w)].gateway = "recorded"]
    /\ Stop(w)
    /\ UNCHANGED <<order, tx, credits, effect, grants, server, trade, answered>>

\* _mark_gateway_creation_uncertain: only the gateway code is known.  Failing to
\* write even that leaves the invoice without one.
MarkUncertain(w) ==
    /\ At(w, "uncertain")
    /\ \/ invoice' = [invoice EXCEPT ![OrderOf(w)].gateway = "uncertain"]
       \/ UNCHANGED invoice
    /\ Stop(w)
    /\ UNCHANGED <<order, tx, credits, effect, grants, server, trade, answered>>

\* _rollback_failed_order, first the placeholder (best effort) ...
RollbackPlaceholder(w) ==
    LET o == OrderOf(w) IN
    /\ At(w, "rollback")
    /\ \/ /\ KindOf[o] = "new_purchase"
          /\ server' = [server EXCEPT ![o] = "none"]
       \/ UNCHANGED server
    /\ GoTo(w, "delete")
    /\ UNCHANGED <<order, invoice, tx, credits, effect, grants, trade, answered>>

\* ... then the row, its invoice and transactions by cascade, unless the delete fails.
DeleteFailedOrder(w) ==
    LET o == OrderOf(w) IN
    /\ At(w, "delete")
    /\ \/ /\ order' = [order EXCEPT ![o] = [FreshOrder EXCEPT !.status = "deleted"]]
          /\ invoice' = [invoice EXCEPT ![o].status = "pending", ![o].gateway = "null"]
          /\ tx' = [tx EXCEPT ![o] = [t \in Txs |-> "none"]]
          /\ credits' = [credits EXCEPT ![o] = [t \in Txs |-> 0]]
       \/ UNCHANGED <<order, invoice, tx, credits>>
    /\ Stop(w)
    /\ UNCHANGED <<effect, grants, server, trade, answered>>

-------------------------------------------------------------------------------
(* What the gateway answers.  An invoice without a gateway code is asked   *)
(* about at Hupijiao, which knows nothing of an Alipay trade.              *)

AskedGateway(o) == IF invoice[o].gateway = "null" THEN "hupijiao" ELSE GatewayOf[o]

TradeStatus(o) ==
    IF AskedGateway(o) # GatewayOf[o] THEN "NOTFOUND"
    ELSE CASE trade[o].state = "paid"   -> "SUCCESS"
           [] trade[o].state = "open"   -> "PROCESSING"
           [] trade[o].state = "closed" -> "CLOSED"
           [] OTHER                     -> "NOTFOUND"

\* close_trade: Hupijiao has no such call and always fails; at Alipay a closed
\* trade counts as closed by us.
CloseOutcome(o) ==
    CASE AskedGateway(o) = "hupijiao" -> "ERROR"
      [] trade[o].state = "paid"      -> "ALREADY_PAID"
      [] trade[o].state \in {"open", "closed"} -> "CLOSED"
      [] OTHER                        -> "NOTFOUND"

-------------------------------------------------------------------------------
(* Closing and cancelling *)

ClaimPending(w, o, mode) ==
    /\ At(w, "idle")
    /\ order[o].status = "pending"
    /\ LockFree(o)
    /\ order' = [order EXCEPT ![o] = Leased(@, w)]
    /\ StartTask(w, "query", o, mode)
    /\ UNCHANGED <<invoice, tx, credits, effect, grants, server, trade, answered>>

StartClose(w, o) == invoice[o].due /\ ClaimPending(w, o, "close")
StartCancel(w, o) == ClaimPending(w, o, "cancel")

\* The invoice is loaded, then query_by_out_trade_no.  An unregistered gateway or a
\* failed query ends the task.  A paid trade releases the lease and hands the
\* payment over.
AfterQuery(status) ==
    CASE status = "SUCCESS" -> "pay"
      [] status = "CLOSED"  -> "local"
      [] OTHER              -> "trade"

QueryTrade(w) ==
    LET o == OrderOf(w) IN
    /\ At(w, "query")
    /\ \/ /\ AskedGateway(o) \in Registered
          /\ task' = [task EXCEPT ![w].seen = invoice[o].status,
                                  ![w].pc = AfterQuery(TradeStatus(o))]
          /\ IF TradeStatus(o) = "SUCCESS" THEN ReleaseIfMine(w, o) ELSE UNCHANGED order
       \/ GoTo(w, "release") /\ UNCHANGED order
    /\ UNCHANGED <<invoice, tx, credits, effect, grants, server, trade, answered>>

\* Seeded defect: a trade the gateway does not know yet taken for one that is over.
NotFoundAlwaysFinal(w, o) == TRUE
\* Cancelling on NOTFOUND needs the time_expire of a recorded trade to have passed.
NotFoundIsFinal(w, o) ==
    Cancelling(w) => invoice[o].gateway = "recorded" /\ invoice[o].due

\* Seeded defects: both go on after a failed close, or both give up.
AlwaysEnd(w) == "local"
AlwaysGiveUp(w) == "release"
\* After a failed close the job goes on to close locally; a cancellation gives up.
AfterCloseError(w) == IF Cancelling(w) THEN "release" ELSE "local"

\* gateway.close_trade; the call may fail before or after the gateway acted on it.
CloseTrade(w) ==
    LET o == OrderOf(w)
        outcome == CloseOutcome(o)
        closed == IF outcome = "CLOSED" THEN [trade EXCEPT ![o].state = "closed"] ELSE trade
    IN
    /\ At(w, "trade")
    /\ \/ /\ outcome = "CLOSED"
          /\ trade' = closed
          /\ GoTo(w, "local")
       \/ /\ outcome = "NOTFOUND"
          /\ GoTo(w, IF NotFoundIsFinal(w, o) THEN "local" ELSE "release")
          /\ UNCHANGED trade
       \/ /\ outcome = "ALREADY_PAID"
          /\ GoTo(w, "requery")
          /\ UNCHANGED trade
       \/ /\ trade' \in {trade, closed}
          /\ GoTo(w, AfterCloseError(w))
    /\ UNCHANGED <<order, invoice, tx, credits, effect, grants, server, answered>>

\* ALREADY_PAID is confirmed by a second query before the payment is handed over.
\* For the job CLOSED is as good as closed; anything else, and a failed query,
\* defers to a later round.
AfterRequery(w, status) ==
    CASE status = "SUCCESS"                    -> "pay"
      [] status = "CLOSED" /\ ~Cancelling(w)   -> "local"
      [] OTHER                                 -> "release"

RequeryTrade(w) ==
    LET o == OrderOf(w) IN
    /\ At(w, "requery")
    /\ \/ /\ GoTo(w, AfterRequery(w, TradeStatus(o)))
          /\ IF TradeStatus(o) = "SUCCESS" THEN ReleaseIfMine(w, o) ELSE UNCHANGED order
       \/ GoTo(w, "release") /\ UNCHANGED order
    /\ UNCHANGED <<invoice, tx, credits, effect, grants, server, trade, answered>>

\* safe_add_payment with what the query returned
RecordQueriedPayment(w) ==
    /\ At(w, "pay")
    /\ \E t \in trade[OrderOf(w)].payments : AddPayment(w, OrderOf(w), t, task[w].seen)

\* Seeded defect: the guard without its payment condition.
EndsPaidOrders(w, o) == HoldsLock(w, o) /\ order[o].status = "pending"
\* The double-condition guard of the local transition.
MayEndLocally(w, o) ==
    /\ HoldsLock(w, o)
    /\ order[o].status = "pending"
    /\ ~HasPayment(o)

\* Seeded defect: a status the table does not have.
MisspeltStatus(w) == IF Cancelling(w) THEN "canceled" ELSE "closed"
EndedStatus(w) == IF Cancelling(w) THEN "cancelled" ELSE "closed"

\* pending -> closed or cancelled, and the invoice void, in one transaction; the
\* job rolls both back when the coupon release in that transaction fails.
EndLocally(w) ==
    LET o == OrderOf(w) IN
    /\ At(w, "local")
    /\ \/ /\ MayEndLocally(w, o)
          /\ order' = [order EXCEPT ![o] = [Unlocked(@) EXCEPT !.status = EndedStatus(w)]]
          /\ invoice' = [invoice EXCEPT ![o].status = "void"]
          /\ GoTo(w, IF KindOf[o] = "new_purchase" THEN "cleanup" ELSE "release")
       \/ /\ ~MayEndLocally(w, o) \/ ~Cancelling(w)
          /\ GoTo(w, "release")
          /\ UNCHANGED <<order, invoice>>
    /\ UNCHANGED <<tx, credits, effect, grants, server, trade, answered>>

\* delete_server on the order's target row, whatever has become of it; a failure
\* is an incident and no more.
CleanupEnded(w) ==
    /\ At(w, "cleanup")
    /\ \/ server' = [server EXCEPT ![OrderOf(w)] = "none"]
       \/ UNCHANGED server
    /\ GoTo(w, "release")
    /\ UNCHANGED <<order, invoice, tx, credits, effect, grants, trade, answered>>

\* The finally block.
ReleaseLease(w) ==
    /\ At(w, "release")
    /\ ReleaseIfMine(w, OrderOf(w))
    /\ Stop(w)
    /\ UNCHANGED <<invoice, tx, credits, effect, grants, server, trade, answered>>

ServiceNext ==
    \/ \E w \in Workers, o \in Orders :
        PlaceOrder(w, o) \/ StartClose(w, o) \/ StartCancel(w, o)
    \/ \E w \in Workers :
        \/ CreateTrade(w) \/ PersistTrade(w) \/ MarkUncertain(w)
        \/ RollbackPlaceholder(w) \/ DeleteFailedOrder(w)
        \/ QueryTrade(w) \/ CloseTrade(w) \/ RequeryTrade(w)
        \/ RecordQueriedPayment(w) \/ EndLocally(w) \/ CleanupEnded(w) \/ ReleaseLease(w)
===============================================================================
