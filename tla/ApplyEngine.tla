------------------------------ MODULE ApplyEngine ------------------------------
(***************************************************************************)
(* apply_paid_order: the four stages that turn a recorded payment into the *)
(* customer's server or days, safe to run twice, to stop half way, and to  *)
(* be overtaken by another run after its lease.                            *)
(***************************************************************************)
EXTENDS OrderStore

\* run_apply_retry picks a processing order whose lease and backoff allow it.
StartRetry(w, o) ==
    /\ At(w, "idle")
    /\ order[o].status = "processing"
    /\ LockFree(o)
    /\ ~order[o].backoff
    /\ StartTask(w, "stage1", o, "none")
    /\ UNCHANGED <<order, invoice, tx, credits, effect, grants, server, trade, answered>>

\* Stage 1: a payment fact must exist; pending becomes processing.
PushToProcessing(w) ==
    LET o == OrderOf(w)
        pushed == IF order[o].status = "pending" THEN "processing" ELSE order[o].status
    IN
    /\ At(w, "stage1")
    /\ IF HasPayment(o)
       THEN /\ order' = [order EXCEPT ![o].status = pushed]
            /\ IF pushed = "processing" THEN GoTo(w, "claim") ELSE Stop(w)
       ELSE Stop(w) /\ UNCHANGED order
    /\ UNCHANGED <<invoice, tx, credits, effect, grants, server, trade, answered>>

MayClaimApply(o) ==
    /\ order[o].status = "processing"
    /\ LockFree(o)
    /\ ~order[o].backoff

\* Stage 2: lease the row, or leave it to whoever holds it.
ClaimApply(w) ==
    LET o == OrderOf(w) IN
    /\ At(w, "claim")
    /\ IF MayClaimApply(o)
       THEN order' = [order EXCEPT ![o] = Leased(@, w)] /\ GoTo(w, "effect")
       ELSE Stop(w) /\ UNCHANGED order
    /\ UNCHANGED <<invoice, tx, credits, effect, grants, server, trade, answered>>

\* Stage 3 chooses path A, B or C by the effect row.  On path A every kind but a
\* renewal first calls Wings (a container, or new build limits), which needs the
\* server row and may fail.
BeginEffect(w) ==
    LET o == OrderOf(w) IN
    /\ At(w, "effect")
    /\ CASE effect[o] = "done"      -> GoTo(w, "finish")
         [] effect[o] = "committed" -> GoTo(w, "post")
         [] effect[o] = "none" ->
              IF KindOf[o] = "renew" THEN GoTo(w, "commit")
              ELSE IF server[o] = "none" THEN GoTo(w, "orphan")
              ELSE GoTo(w, "commit") \/ GoTo(w, "fail")
    /\ UNCHANGED <<order, invoice, tx, credits, effect, grants, server, trade, answered>>

\* Seeded defect: an effect table without its primary key.
ManyEffectRows(o) == TRUE
\* The primary key of the effect table admits one row per order.
EffectRowFree(o) == effect[o] = "none"

\* A duplicate effect row fails in the flush, and so does the new meta row of an
\* upgrade whose server is gone.  Every later statement of that session fails too:
\* the exception leaves apply_paid_order with the lease still held.
FlushFails(o) ==
    \/ server[o] # "none" /\ ~EffectRowFree(o)
    \/ server[o] = "none" /\ KindOf[o] = "upgrade"

\* A renewal or a conversion looks for the server's meta row before it adds
\* anything.  A purchase adds the effect row first and then fails on the foreign
\* key of the meta row, with the effect row still pending in the session.
OrphanKinds == {"renew", "convert"}

CommitEffect(w) ==
    LET o == OrderOf(w) IN
    /\ At(w, "commit")
    /\ \/ /\ server[o] # "none"
          /\ EffectRowFree(o)
          /\ effect' = [effect EXCEPT ![o] = "committed"]
          /\ grants' = [grants EXCEPT ![o] = @ + 1]
          /\ server' = [server EXCEPT ![o] = "live"]
          /\ GoTo(w, "post")
       \/ /\ FlushFails(o)
          /\ Stop(w)
          /\ UNCHANGED <<effect, grants, server>>
       \/ /\ server[o] = "none"
          /\ \/ KindOf[o] \in OrphanKinds /\ GoTo(w, "orphan")
             \/ KindOf[o] = "new_purchase" /\ GoTo(w, "stray")
          /\ UNCHANGED <<effect, grants, server>>
       \/ /\ GoTo(w, "fail")
          /\ UNCHANGED <<effect, grants, server>>
    /\ UNCHANGED <<order, invoice, tx, credits, trade, answered>>

\* Seeded defect: a failed post action does not keep the order from being applied.
PostFailureIgnored(w) ==
    /\ At(w, "post")
    /\ \/ effect' = [effect EXCEPT ![OrderOf(w)] = "done"]
       \/ UNCHANGED effect
    /\ GoTo(w, "finish")
    /\ UNCHANGED <<order, invoice, tx, credits, grants, server, trade, answered>>

\* Post actions, which need the server row, and the mark that they are done.  They
\* are idempotent, so a stop between the two is the same as a stop before both.
RunPostActions(w) ==
    /\ At(w, "post")
    /\ \/ /\ server[OrderOf(w)] # "none"
          /\ effect' = [effect EXCEPT ![OrderOf(w)] = "done"]
          /\ GoTo(w, "finish")
       \/ GoTo(w, "fail") /\ UNCHANGED effect
    /\ UNCHANGED <<order, invoice, tx, credits, grants, server, trade, answered>>

\* The row as stage 4 leaves it.
AppliedRow(row) == [Unlocked(row) EXCEPT !.status = "applied", !.backoff = FALSE]

\* Stage 4: WHERE lock_token = mine is the whole guard.
FinishApply(w) ==
    LET o == OrderOf(w) IN
    /\ At(w, "finish")
    /\ order' = IF HoldsLock(w, o) THEN [order EXCEPT ![o] = AppliedRow(@)] ELSE order
    /\ Stop(w)
    /\ UNCHANGED <<invoice, tx, credits, effect, grants, server, trade, answered>>

FailedRow(row) == [Unlocked(row) EXCEPT !.status = "apply_failed", !.backoff = FALSE]

\* _record_failure_and_release: back off, or give up after the last retry.
RetriedRow(row) ==
    LET counted == [row EXCEPT !.retries = @ + 1] IN
    IF counted.retries > MaxRetries THEN FailedRow(counted)
    ELSE [Unlocked(counted) EXCEPT !.backoff = TRUE]

RecordFailure(w) ==
    LET o == OrderOf(w) IN
    /\ At(w, "fail")
    /\ order' = IF HoldsLock(w, o) THEN [order EXCEPT ![o] = RetriedRow(@)] ELSE order
    /\ Stop(w)
    /\ UNCHANGED <<invoice, tx, credits, effect, grants, server, trade, answered>>

\* The same after a purchase whose meta row was refused.  Nothing rolled the session
\* back, so the commit of the failure carries the pending effect row with it; if
\* that row is a duplicate by now the whole commit fails.
RecordFailureWithStray(w) ==
    LET o == OrderOf(w) IN
    /\ At(w, "stray")
    /\ IF HoldsLock(w, o) /\ EffectRowFree(o)
       THEN /\ order' = [order EXCEPT ![o] = RetriedRow(@)]
            /\ effect' = [effect EXCEPT ![o] = "committed"]
       ELSE UNCHANGED <<order, effect>>
    /\ Stop(w)
    /\ UNCHANGED <<invoice, tx, credits, grants, server, trade, answered>>

\* _terminate_apply: the target is gone, no retry.
TerminateApply(w) ==
    LET o == OrderOf(w) IN
    /\ At(w, "orphan")
    /\ order' = IF HoldsLock(w, o) THEN [order EXCEPT ![o] = FailedRow(@)] ELSE order
    /\ Stop(w)
    /\ UNCHANGED <<invoice, tx, credits, effect, grants, server, trade, answered>>

ApplyStep(w) ==
    \/ PushToProcessing(w) \/ ClaimApply(w) \/ BeginEffect(w) \/ CommitEffect(w)
    \/ RunPostActions(w) \/ FinishApply(w)
    \/ RecordFailure(w) \/ RecordFailureWithStray(w) \/ TerminateApply(w)

ApplyNext ==
    \/ \E w \in Workers, o \in Orders : StartRetry(w, o)
    \/ \E w \in Workers : ApplyStep(w)
===============================================================================
