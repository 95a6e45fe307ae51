-------------------------------- MODULE Refunds --------------------------------
(***************************************************************************)
(* Refunds of paid orders: an administrator's request, the gateway's own   *)
(* record of it, and the refund_retry job, the only thing that carries a   *)
(* refund on once the request has ended.  They run beside every flow of    *)
(* BillingOrders, on the same order rows and under the same lease.         *)
(***************************************************************************)
EXTENDS BillingOrders

CONSTANT MaxRefundRetries   \* _MAX_RETRY

ASSUME RefundAssumption == MaxRefundRetries \in Nat \ {0}

VARIABLES
    refund,      \* manager_billing_refunds, by the transaction refunded
    gatewaySide, \* what the gateway knows under the number of that refund
    payouts,     \* how often the gateway sent the payment back
    refunded,    \* how often it was added to order.refunded_fen
    clerk        \* the refund a worker is busy with

refundVars == <<refund, gatewaySide, payouts, refunded, clerk>>
systemVars == <<allVars, refundVars>>

Refundable == {"applied", "apply_failed", "manual_review"}

RefundRow == [status : {"none", "pending", "failed", "succeeded"},
              prev : Refundable \cup {"none"}, retries : 0..MaxRefundRetries, aged : BOOLEAN]

ClerkSteps == {"idle", "issue", "undo", "refused", "accepted", "paid", "settle",
               "poll", "reissue", "bump"}
Desk == [pc : ClerkSteps, order : Orders \cup {NoOrder}, tx : Txs \cup {"none"},
         job : BOOLEAN]

RefundTypeOK ==
    /\ refund \in [Orders -> [Txs -> RefundRow]]
    /\ gatewaySide \in [Orders -> [Txs -> {"none", "processing", "paid", "refused"}]]
    /\ payouts \in [Orders -> [Txs -> Nat]]
    /\ refunded \in [Orders -> [Txs -> Nat]]
    /\ clerk \in [Workers -> Desk]

NoRefund == [status |-> "none", prev |-> "none", retries |-> 0, aged |-> FALSE]
AwayFromDesk == [pc |-> "idle", order |-> NoOrder, tx |-> "none", job |-> FALSE]

RefundInit ==
    /\ Init
    /\ refund = [o \in Orders |-> [t \in Txs |-> NoRefund]]
    /\ gatewaySide = [o \in Orders |-> [t \in Txs |-> "none"]]
    /\ payouts = [o \in Orders |-> [t \in Txs |-> 0]]
    /\ refunded = [o \in Orders |-> [t \in Txs |-> 0]]
    /\ clerk = [w \in Workers |-> AwayFromDesk]

-------------------------------------------------------------------------------
(* Workers at the refund desk *)

AtDesk(w, step) == clerk[w].pc = step
DeskGoTo(w, step) == clerk' = [clerk EXCEPT ![w].pc = step]
LeaveDesk(w) == clerk' = [clerk EXCEPT ![w] = AwayFromDesk]

\* The rest of an order's tables, which no refund touches.
otherTables == <<invoice, credits, effect, grants, server, trade, answered, task>>

-------------------------------------------------------------------------------
(* The gateway *)

\* A refund the gateway takes is paid at once or later; one it knows already is
\* answered from its record (the refund number makes the call idempotent).
TakenRefund(o, t) ==
    IF gatewaySide[o][t] \in {"none", "refused"} THEN {"processing", "paid", "refused"}
    ELSE {gatewaySide[o][t]}

\* The gateway's record moves to side, sending the money with the step to "paid".
GatewayMoves(o, t, side) ==
    /\ gatewaySide' = [gatewaySide EXCEPT ![o][t] = side]
    /\ payouts' = IF side = "paid" /\ gatewaySide[o][t] # "paid"
                  THEN [payouts EXCEPT ![o][t] = @ + 1] ELSE payouts

\* create_refund reports success, or (still processing, and at Alipay a repeated
\* call) nothing final; Hupijiao also reports refusals, where Alipay's call raises.  It
\* may fail whether or not the gateway acted.
CreateRefund(o, t, answer) ==
    \/ /\ answer = "ERROR"
       /\ \E side \in TakenRefund(o, t) \cup {gatewaySide[o][t]} : GatewayMoves(o, t, side)
    \/ \E side \in TakenRefund(o, t) :
        /\ side = "refused" => GatewayOf[o] = "hupijiao"
        /\ GatewayMoves(o, t, side)
        /\ answer = CASE side = "paid" /\ gatewaySide[o][t] # "paid" -> "SUCCEEDED"
                      [] side = "refused" -> "FAILED"
                      [] OTHER -> "PROCESSING"

\* Seeded defect: the state of the trade, which stays paid, taken for the refund's.
StatusOfTrade(o, t) == "PROCESSING"
\* query_refund.  Hupijiao has no such call: its adapter looks at the trade, where a
\* paid trade that is not refunded reads as a refund in progress.
RefundStatus(o, t) ==
    CASE gatewaySide[o][t] = "paid"                     -> "SUCCEEDED"
      [] GatewayOf[o] = "hupijiao"                      -> "PROCESSING"
      [] gatewaySide[o][t] = "processing"               -> "PROCESSING"
      [] gatewaySide[o][t] = "refused"                  -> "FAILED"
      [] OTHER                                          -> "NOTFOUND"

\* A refund in progress ends at the gateway.
SettleAtGateway(o, t) ==
    /\ gatewaySide[o][t] = "processing"
    /\ \E side \in {"paid", "refused"} : GatewayMoves(o, t, side)
    /\ UNCHANGED <<order, tx, otherTables, budget, refund, refunded, clerk>>

-------------------------------------------------------------------------------
(* The administrator's request *)

\* Seeded defect: no look for a refund under way.
RefundsAreIndependent(o, t) == FALSE
\* A pending or failed refund of the transaction belongs to the retry job.
RefundUnderWay(o, t) == refund[o][t].status \in {"pending", "failed"}

\* initiate_refund up to its first commit: lease, refund row, order refunding.
InitiateRefund(w, o, t) ==
    /\ AtDesk(w, "idle") /\ At(w, "idle")
    /\ order[o].status \in Refundable
    /\ LockFree(o)
    /\ tx[o][t] = "succeeded"
    /\ ~RefundUnderWay(o, t)
    /\ order' = [order EXCEPT ![o] = [Leased(@, w) EXCEPT !.status = "refunding"]]
    /\ refund' = [refund EXCEPT ![o][t] = [NoRefund EXCEPT !.status = "pending",
                                                           !.prev = order[o].status]]
    /\ gatewaySide' = [gatewaySide EXCEPT ![o][t] = "none"]
    /\ clerk' = [clerk EXCEPT ![w] = [pc |-> "issue", order |-> o, tx |-> t, job |-> FALSE]]
    /\ UNCHANGED <<tx, otherTables, budget, payouts, refunded>>

\* The call, outside any transaction.  An unregistered gateway fails like the call.
IssueRefund(w) ==
    LET o == clerk[w].order
        t == clerk[w].tx
    IN
    /\ AtDesk(w, "issue")
    /\ \/ GatewayOf[o] \notin Registered /\ DeskGoTo(w, "undo")
          /\ UNCHANGED <<gatewaySide, payouts>>
       \/ /\ GatewayOf[o] \in Registered
          /\ \E answer \in {"ERROR", "SUCCEEDED", "FAILED", "PROCESSING"} :
              /\ CreateRefund(o, t, answer)
              /\ DeskGoTo(w, CASE answer = "ERROR"      -> "undo"
                                [] answer = "FAILED"     -> "refused"
                                [] answer = "SUCCEEDED"  -> "paid"
                                [] answer = "PROCESSING" -> "accepted")
    /\ UNCHANGED <<order, tx, otherTables, budget, refund, refunded>>

\* The order goes back to what it was, if the lease is still ours; the unique index
\* may refuse a second active order, and the whole commit with it.
Restored(w, o, t) ==
    IF HoldsLock(w, o)
    THEN [order EXCEPT ![o] = [Unlocked(@) EXCEPT !.status = refund[o][t].prev]]
    ELSE order

RestorationRefused(w, o, t) ==
    HoldsLock(w, o) /\ ~IndexAccepts(o, refund[o][t].prev)

\* _rollback_failed_refund
UndoRefund(w) ==
    LET o == clerk[w].order
        t == clerk[w].tx
    IN
    /\ AtDesk(w, "undo")
    /\ IF RestorationRefused(w, o, t)
       THEN UNCHANGED <<order, refund>>
       ELSE /\ order' = Restored(w, o, t)
            /\ refund' = [refund EXCEPT ![o][t].status = "failed", ![o][t].aged = FALSE]
    /\ LeaveDesk(w)
    /\ UNCHANGED <<tx, otherTables, budget, gatewaySide, payouts, refunded>>

\* _mark_sync_refund_failed also counts the attempt, and looks at the status.
MarkRefused(w) ==
    LET o == clerk[w].order
        t == clerk[w].tx
        mine == order[o].status = "refunding"
    IN
    /\ AtDesk(w, "refused")
    /\ IF mine /\ RestorationRefused(w, o, t)
       THEN UNCHANGED <<order, refund>>
       ELSE /\ order' = IF mine THEN Restored(w, o, t) ELSE order
            /\ refund' = [refund EXCEPT ![o][t].status = "failed", ![o][t].aged = FALSE,
                                        ![o][t].retries = @ + 1]
    /\ LeaveDesk(w)
    /\ UNCHANGED <<tx, otherTables, budget, gatewaySide, payouts, refunded>>

\* The gateway's number is stored and the lease released; only then is a refund that
\* succeeded at once settled.
AcceptRefund(w) ==
    LET o == clerk[w].order IN
    /\ \/ AtDesk(w, "accepted") /\ LeaveDesk(w)
       \/ AtDesk(w, "paid") /\ DeskGoTo(w, "settle")
    /\ ReleaseIfMine(w, o)
    /\ refund' = [refund EXCEPT ![o][clerk[w].tx].aged = FALSE]
    /\ UNCHANGED <<tx, otherTables, budget, gatewaySide, payouts, refunded>>

RefundedRow(row) == [Unlocked(row) EXCEPT !.status = "refunded"]

\* _finalize_refund_succeeded: refund, transaction and order in one commit.
SettleRefund(w) ==
    LET o == clerk[w].order
        t == clerk[w].tx
    IN
    /\ AtDesk(w, "settle")
    /\ IF RefundUnderWay(o, t)
       THEN /\ refund' = [refund EXCEPT ![o][t].status = "succeeded", ![o][t].aged = FALSE]
            /\ tx' = [tx EXCEPT ![o][t] = "refunded"]
            /\ refunded' = [refunded EXCEPT ![o][t] = @ + 1]
            /\ order' = [order EXCEPT ![o] = RefundedRow(@)]
       ELSE UNCHANGED <<refund, tx, refunded, order>>
    /\ LeaveDesk(w)
    /\ UNCHANGED <<otherTables, budget, gatewaySide, payouts>>

-------------------------------------------------------------------------------
(* refund_retry: one instance of the job *)

JobIdle == \A w \in Workers : ~clerk[w].job

\* Seeded defects: a job that takes up refunds still being requested, and one that
\* never gives up.
FreshOrNot(o, t) == RefundUnderWay(o, t) /\ refund[o][t].retries < MaxRefundRetries
NeverExhausted(o, t) == RefundUnderWay(o, t) /\ refund[o][t].aged
\* list_pending_refunds: untouched for _RETRY_INTERVAL_MIN and not given up.
Selectable(o, t) ==
    /\ RefundUnderWay(o, t)
    /\ refund[o][t].aged
    /\ refund[o][t].retries < MaxRefundRetries

StartReconcile(w, o, t) ==
    /\ AtDesk(w, "idle") /\ At(w, "idle")
    /\ JobIdle
    /\ Selectable(o, t)
    /\ clerk' = [clerk EXCEPT ![w] = [pc |-> "poll", order |-> o, tx |-> t, job |-> TRUE]]
    /\ UNCHANGED <<order, tx, otherTables, budget, refund, gatewaySide, payouts, refunded>>

\* Stage A.  A refund in progress is left for a later round.
PollRefund(w) ==
    LET o == clerk[w].order
        t == clerk[w].tx
        status == RefundStatus(o, t)
    IN
    /\ AtDesk(w, "poll")
    /\ \/ DeskGoTo(w, "bump") /\ UNCHANGED refund
       \/ /\ GatewayOf[o] \in Registered
          /\ IF status = "PROCESSING"
             THEN /\ refund' = [refund EXCEPT ![o][t].aged = FALSE]
                  /\ LeaveDesk(w)
             ELSE /\ DeskGoTo(w, IF status = "SUCCEEDED" THEN "settle" ELSE "reissue")
                  /\ UNCHANGED refund
    /\ UNCHANGED <<order, tx, otherTables, budget, gatewaySide, payouts, refunded>>

\* NOTFOUND and FAILED send the request again under the same number.  The call and
\* the commit of its answer are one step: a restart between them leaves what a call
\* that was not heard leaves.
ReissueRefund(w) ==
    LET o == clerk[w].order
        t == clerk[w].tx
    IN
    /\ AtDesk(w, "reissue")
    /\ \E answer \in {"ERROR", "SUCCEEDED", "FAILED", "PROCESSING"} :
        /\ CreateRefund(o, t, answer)
        /\ refund' = IF answer = "ERROR" THEN refund
                     ELSE [refund EXCEPT ![o][t].status = "pending", ![o][t].retries = 0,
                                         ![o][t].aged = FALSE]
        /\ CASE answer = "SUCCEEDED"           -> DeskGoTo(w, "settle")
             [] answer \in {"ERROR", "FAILED"} -> DeskGoTo(w, "bump")
             [] OTHER                          -> LeaveDesk(w)
    /\ UNCHANGED <<order, tx, otherTables, budget, refunded>>

\* _bump_retry
BumpRetry(w) ==
    LET o == clerk[w].order
        t == clerk[w].tx
    IN
    /\ AtDesk(w, "bump")
    /\ refund' = [refund EXCEPT ![o][t].status = "failed", ![o][t].retries = @ + 1,
                                ![o][t].aged = FALSE]
    /\ LeaveDesk(w)
    /\ UNCHANGED <<order, tx, otherTables, budget, gatewaySide, payouts, refunded>>

-------------------------------------------------------------------------------
(* Time and faults *)

\* A quarter of an hour passes, which no request lives through.
AgeRefund(o, t) ==
    /\ RefundUnderWay(o, t)
    /\ ~refund[o][t].aged
    /\ \A w \in Workers : clerk[w].order = o => clerk[w].tx # t
    /\ refund' = [refund EXCEPT ![o][t].aged = TRUE]
    /\ UNCHANGED <<order, tx, otherTables, budget, gatewaySide, payouts, refunded, clerk>>

\* A restart takes the worker and leaves the lease, the row and the gateway as they are.
LoseClerk(w) ==
    /\ ~AtDesk(w, "idle")
    /\ crashes < MaxCrashes
    /\ crashes' = crashes + 1
    /\ LeaveDesk(w)
    /\ UNCHANGED <<order, tx, otherTables, stalls, refund, gatewaySide, payouts, refunded>>

-------------------------------------------------------------------------------

ClerkStep(w) ==
    \/ IssueRefund(w) \/ UndoRefund(w) \/ MarkRefused(w) \/ AcceptRefund(w)
    \/ SettleRefund(w) \/ PollRefund(w) \/ ReissueRefund(w) \/ BumpRetry(w)

\* A worker does one thing at a time.
OrderStep ==
    /\ Next
    /\ \A w \in Workers : ~AtDesk(w, "idle") => task'[w] = task[w]
    /\ UNCHANGED refundVars

RefundNext ==
    \/ OrderStep
    \/ \E w \in Workers : ClerkStep(w) \/ LoseClerk(w)
    \/ \E w \in Workers, o \in Orders, t \in Txs :
        InitiateRefund(w, o, t) \/ StartReconcile(w, o, t)
    \/ \E o \in Orders, t \in Txs : SettleAtGateway(o, t) \/ AgeRefund(o, t)

RefundSpec == RefundInit /\ [][RefundNext]_systemVars

TaskGoesOn(w) == ~At(w, "idle") /\ OrderStep /\ task'[w] # task[w]

\* The scheduler runs refund_retry again and again, workers run on, and time passes.
\* Neither the gateway nor anybody who asks for a refund owes anything.
RefundFairness ==
    /\ \A w \in Workers : WF_systemVars(ClerkStep(w)) /\ WF_systemVars(TaskGoesOn(w))
    /\ \A o \in Orders, t \in Txs :
        /\ WF_systemVars(AgeRefund(o, t))
        /\ SF_systemVars(\E w \in Workers : StartReconcile(w, o, t))

FairRefundSpec == RefundSpec /\ RefundFairness

-------------------------------------------------------------------------------
(* Properties *)

\* No payment is sent back twice, whatever was answered, lost, asked again by the job
\* or asked for again by an administrator (initiate_refund, reconcile_refund_once).
PaidBackOnce == \A o \in Orders, t \in Txs : payouts[o][t] <= 1

\* The three records of a refund agree: the row has succeeded, the transaction is
\* refunded and order.refunded_fen holds it once, or none of it; and what is on
\* record did leave the gateway (_finalize_refund_succeeded).
RefundBooked ==
    \A o \in Orders, t \in Txs :
        /\ tx[o][t] = "refunded" <=> refund[o][t].status = "succeeded"
        /\ refunded[o][t] = IF tx[o][t] = "refunded" THEN 1 ELSE 0
        /\ tx[o][t] = "refunded" => payouts[o][t] = 1

\* Money that went back is booked, or the job has given up and said so in an incident:
\* lost answers, lost requests and repeated failures of the query included.
PaidRefundIsBooked ==
    \A o \in Orders, t \in Txs :
        gatewaySide[o][t] = "paid" ~>
            \/ tx[o][t] = "refunded"
            \/ refund[o][t].status = "failed" /\ refund[o][t].retries = MaxRefundRetries
===============================================================================
