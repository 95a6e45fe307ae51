--------------------------- MODULE CertificateProofs ---------------------------
(***************************************************************************)
(* Proofs that an agent's answer goes to the one who waits for it, about   *)
(* the deployment it asked about, and that the jobs, requests, installs    *)
(* and rows of certificates keep their types and shapes.                   *)
(***************************************************************************)
EXTENDS MCCertificates, WellFoundedInduction, TLAPS

-------------------------------------------------------------------------------
(* The inductive invariant *)

Known == Versions \cup {None}
Row == [there : BOOLEAN, status : Statuses, deployed : Known]
Files == [cert : Known, key : Known, served : Known]
Install == [by : Workers \cup {"nobody"}, t : Targets, v : Versions, written : BOOLEAN]
Spending == [requests : 0..MaxRequests, failures : 0..MaxFailures]

Typed ==
    /\ version \in Versions /\ enabled \in BOOLEAN /\ source \in Known
    /\ row \in [Targets -> Row] /\ agent \in [Targets -> Files]
    /\ worker \in [Workers -> Worker] /\ flight \subseteq Install /\ spent \in Spending

\* Who is at a deployment has its id, and what is recorded was read or answered.
InOrder(me) ==
    /\ me.pc \in {"ask", "checked", "sent", "answered"} => me.t \in Targets
    /\ me.pc \in {"scanned", "answered"} => me.v # NoAnswer
WorkersInOrder == \A w \in Workers : InOrder(worker[w])

\* An install under way answers to one who waits for it, each to one, and who waits has one.
AnswersDue ==
    /\ \A f \in flight : f.by # "nobody" => worker[f.by].pc = "sent" /\ worker[f.by].t = f.t
    /\ \A w \in Workers : worker[w].pc = "sent" => \E f \in flight : f.by = w
OneInstall == \A f, g \in flight : f.by = g.by /\ f.by # "nobody" => f = g

CertIInv == Typed /\ WorkersInOrder /\ AnswersDue /\ OneInstall

-------------------------------------------------------------------------------
(* The operators *)

LEMMA CertNumbers ==
    /\ MaxRenewals \in Nat /\ MaxRequests \in Nat /\ MaxFailures \in Nat
    /\ Versions \subseteq Nat \ {0} /\ 1 \in Versions /\ Targets \subseteq Nat
    /\ "nobody" \notin Workers
    /\ \A v \in Versions : v <= MaxRenewals => v + 1 \in Versions
    /\ None \in Known /\ Versions \subseteq Known /\ NoAnswer \notin Known
  <1>1. /\ MaxRenewals \in Nat /\ MaxRequests \in Nat /\ MaxFailures \in Nat /\ Targets \subseteq Nat
    BY CertificateAssumption
  <1>2. "nobody" \notin Workers BY CertificateAssumption DEF Workers
  <1> QED BY <1>1, <1>2 DEF Versions, Known, None, NoAnswer

\* The next deployment is one of those that are left.
LEMMA FirstIsOne == ASSUME NEW S \in SUBSET Targets, S # {} PROVE First(S) \in S
  <1>1. S \subseteq Nat BY CertNumbers
  <1>2. PICK R : R = OpToRel(<, Nat) OBVIOUS
  <1>3. IsWellFoundedOn(R, Nat) BY <1>2, NatLessThanWellFounded
  <1>4. PICK t \in S : \A u \in S : <<u, t>> \notin R BY <1>1, <1>3, WFMin
  <1>5. \A m, n \in Nat : <<n, m>> \notin R => m <= n BY <1>2 DEF OpToRel
  <1>6. \A u \in S : t <= u BY <1>1, <1>4, <1>5
  <1> QED BY <1>6 DEF First

LEMMA IdleTyped == Idle \in Worker /\ Idle.pc = "idle"
  BY CertNumbers DEF Idle, Worker, RequestKinds, Statuses, Known, Unread, None

LEMMA ReadSourceTyped ==
    ASSUME source \in Known, NEW kind \in RequestKinds, NEW v \in Known
    PROVE  /\ ReadSource(kind, v) \in Worker /\ ReadSource(kind, v).pc = "scanned"
           /\ InOrder(ReadSource(kind, v))
  BY CertNumbers DEF ReadSource, Idle, Worker, Statuses, Known, Unread, None, InOrder, NoAnswer

LEMMA FinishedTyped ==
    ASSUME NEW me \in Worker
    PROVE  Finished(me) \in Worker /\ Finished(me).pc \in {"idle", "pick"}
  <1>1. PICK next : next = [me EXCEPT !.pc = "pick", !.t = 0, !.status = "unknown", !.deployed = None,
                                      !.v = None, !.stale = "no"]
    OBVIOUS
  <1>2. next \in Worker /\ next.pc = "pick" BY <1>1 DEF Worker, Statuses
  <1>3. Finished(me) = Idle \/ Finished(me) = next BY <1>1 DEF Finished
  <1> QED BY <1>2, <1>3, IdleTyped

LEMMA ReadsTyped ==
    ASSUME Typed, NEW w \in Workers, NEW t \in Targets
    PROVE  /\ Reads(w, t) \in Worker /\ Reads(w, t).t = t /\ Reads(w, t).pc = worker[w].pc
           /\ Reads(w, t).kind = worker[w].kind
  <1>1. PICK me : me = worker[w] OBVIOUS
  <1>2. me \in Worker /\ row[t] \in Row /\ source \in Known BY <1>1 DEF Typed
  <1>3. PICK src : src = IF me.src = Unread THEN source ELSE me.src OBVIOUS
  <1>4. PICK stale : stale = IF row[t].there THEN "no" ELSE "deleted" OBVIOUS
  <1>5. src \in Known \cup {Unread} BY <1>2, <1>3 DEF Worker, Known
  <1>6. Reads(w, t) = [me EXCEPT !.t = t, !.todo = @ \ {t}, !.status = row[t].status,
                                 !.deployed = row[t].deployed, !.stale = stale, !.src = src]
    BY <1>1, <1>2, <1>3, <1>4 DEF Reads, Worker
  <1>7. PICK status, deployed, todo : status = row[t].status /\ deployed = row[t].deployed /\ todo = me.todo \ {t}
    OBVIOUS
  <1>8. status \in Statuses /\ deployed \in Known BY <1>2, <1>7 DEF Row
  <1>9. todo \in SUBSET Targets /\ stale \in {"no", "deleted"} BY <1>2, <1>4, <1>7 DEF Worker
  <1>10. PICK new : new = [me EXCEPT !.t = t, !.todo = todo, !.status = status, !.deployed = deployed,
                                     !.stale = stale, !.src = src]
    OBVIOUS
  <1>11. new \in Worker /\ new.t = t /\ new.pc = me.pc /\ new.kind = me.kind
    BY <1>2, <1>5, <1>8, <1>9, <1>10 DEF Worker, Known
  <1>12. Reads(w, t) = new BY <1>6, <1>7, <1>10
  <1> QED BY <1>1, <1>11, <1>12

LEMMA AfterScanTyped ==
    ASSUME Typed, NEW w \in Workers
    PROVE  AfterScan(w) \in Worker /\ AfterScan(w).pc \in {"idle", "pick"}
  <1>1. worker[w] \in Worker BY DEF Typed
  <1>2. ASSUME NEW src \in Known \cup {Unread}
        PROVE  [worker[w] EXCEPT !.pc = "pick", !.todo = There, !.v = None, !.stale = "no", !.src = src] \in Worker
    BY <1>1 DEF Worker, There, Known
  <1>3. worker[w].src \in Known \cup {Unread} /\ (worker[w].v # None => worker[w].v \in Known \cup {Unread})
    BY <1>1 DEF Worker, Known, Unread, NoAnswer
  <1>4. CASE AfterScan(w) = Idle BY <1>4, IdleTyped
  <1>5. CASE AfterScan(w) # Idle
    <2>1. PICK src \in Known \cup {Unread} :
              AfterScan(w) = [worker[w] EXCEPT !.pc = "pick", !.todo = There, !.v = None, !.stale = "no", !.src = src]
      BY <1>3, <1>5 DEF AfterScan
    <2> QED BY <1>1, <1>2, <2>1 DEF Worker
  <1> QED BY <1>4, <1>5

\* The row a commit leaves.
LEMMA CommittedTyped ==
    ASSUME row \in [Targets -> Row], NEW me, NEW status \in Statuses, NEW deployed \in Known,
           Committed(me, status, deployed)
    PROVE  row' \in [Targets -> Row]
  <1>1. row' = [row EXCEPT ![me.t].status = Write(me.status, @, status),
                           ![me.t].deployed = Write(me.deployed, @, deployed)]
    BY DEF Committed
  <1>2. \A s \in Statuses : Write(me.status, s, status) \in Statuses BY DEF Write
  <1>3. \A d \in Known : Write(me.deployed, d, deployed) \in Known BY DEF Write
  <1> QED BY <1>1, <1>2, <1>3 DEF Row

LEMMA FailSpends == ASSUME spent \in Spending, Fail PROVE spent' \in Spending
  BY CertNumbers DEF Fail, Spending
LEMMA RequestSpends == ASSUME spent \in Spending, Request PROVE spent' \in Spending
  BY CertNumbers DEF Request, Spending
LEMMA MaterialSpends ==
    ASSUME spent \in Spending, version \in Versions, NEW v, load_source_material(v)
    PROVE  spent' \in Spending /\ v \in Known
  BY FailSpends, CertNumbers DEF load_source_material

-------------------------------------------------------------------------------
(* What a step does to the jobs and requests *)

\* x is where it was: others at most learn that a row they hold was changed or deleted.
Stays(x) == worker'[x].pc = worker[x].pc /\ worker'[x].t = worker[x].t /\ worker'[x].v = worker[x].v
\* w alone moves on, to new.
Moves(w, new) ==
    /\ worker' \in [Workers -> Worker] /\ worker'[w] = new
    /\ \A x \in Workers \ {w} : Stays(x)

LEMMA BecomesMoves ==
    ASSUME Typed, NEW w \in Workers, NEW new \in Worker, Becomes(w, new)
    PROVE  Moves(w, new)
  BY DEF Typed, Becomes, Moves, Stays

LEMMA CommitsMove ==
    ASSUME Typed, NEW w \in Workers, NEW new \in Worker, NEW rows, Commits(w, new, rows)
    PROVE  Moves(w, new)
  <1>1. \A me \in Worker : [me EXCEPT !.stale = "changed"] \in Worker /\ [me EXCEPT !.stale = @] \in Worker
    BY DEF Worker
  <1>2. ASSUME NEW x \in Workers
        PROVE  worker'[x] = IF x = w THEN new
                            ELSE [worker[x] EXCEPT !.stale = IF @ = "no" /\ Holds(x) \cap rows # {}
                                                             THEN "changed" ELSE @]
    BY DEF Commits
  <1>3. \A x \in Workers : worker[x] \in Worker BY DEF Typed
  <1>4. \A x \in Workers : worker'[x] \in Worker BY <1>1, <1>2, <1>3
  <1>5. ASSUME NEW x \in Workers \ {w} PROVE Stays(x)
    <2>1. worker'[x] = [worker[x] EXCEPT !.stale = IF @ = "no" /\ Holds(x) \cap rows # {} THEN "changed" ELSE @]
      BY <1>2
    <2>2. worker[x] \in Worker BY <1>3
    <2>3. PICK stale : worker'[x] = [worker[x] EXCEPT !.stale = stale] BY <2>1
    <2> QED BY <2>2, <2>3 DEF Stays, Worker
  <1>6. worker'[w] = new BY <1>2
  <1>7. worker' = [x \in Workers |-> worker'[x]] BY DEF Commits
  <1> QED BY <1>4, <1>5, <1>6, <1>7 DEF Moves

\* Who neither waits for an answer nor begins to disturbs nobody's.
LEMMA OutOfTheWay ==
    ASSUME CertIInv, Typed', NEW w \in Workers, NEW new, Moves(w, new), InOrder(new),
           worker[w].pc # "sent", new.pc # "sent", UNCHANGED flight
    PROVE  CertIInv'
  <1>1. WorkersInOrder' BY DEF CertIInv, WorkersInOrder, Moves, Stays, InOrder
  <1>2. AnswersDue'
    <2>1. \A f \in flight : f.by # "nobody" => f.by \in Workers \ {w}
      BY DEF CertIInv, Typed, Install, AnswersDue
    <2> QED BY <2>1 DEF CertIInv, AnswersDue, Moves, Stays
  <1>3. OneInstall' BY DEF CertIInv, OneInstall
  <1> QED BY <1>1, <1>2, <1>3 DEF CertIInv

-------------------------------------------------------------------------------
(* What jobs and requests begin with *)

LEMMA BeginsStay ==
    ASSUME CertIInv, NEW w \in Workers, NEW v, JobBegin(w, v)
    PROVE  CertIInv'
  <1>t. Typed BY DEF CertIInv
  <1>1. spent' \in Spending /\ v \in Known BY <1>t, MaterialSpends DEF JobBegin, Typed
  <1>2. PICK new : new = ReadSource("none", v) OBVIOUS
  <1>3. new \in Worker /\ new.pc = "scanned" /\ InOrder(new)
    BY <1>t, <1>1, <1>2, ReadSourceTyped DEF Typed, RequestKinds
  <1>4. Moves(w, new) /\ worker[w].pc = "idle" BY <1>t, <1>2, <1>3, BecomesMoves DEF JobBegin
  <1>5. Typed' /\ UNCHANGED flight BY <1>t, <1>1, <1>4 DEF JobBegin, Typed, Moves
  <1> QED BY <1>3, <1>4, <1>5, OutOfTheWay

LEMMA WebhookStays ==
    ASSUME CertIInv, NEW w \in Workers, cert_source_changed_webhook(w)
    PROVE  CertIInv'
  <1>t. Typed BY DEF CertIInv
  <1>1. spent' \in Spending /\ version \in Known
    BY <1>t, RequestSpends, CertNumbers DEF cert_source_changed_webhook, Typed
  <1>2. PICK new : new = ReadSource("webhook", version) OBVIOUS
  <1>3. new \in Worker /\ new.pc = "scanned" /\ InOrder(new)
    BY <1>t, <1>1, <1>2, ReadSourceTyped DEF Typed, RequestKinds
  <1>4. Moves(w, new) /\ worker[w].pc = "idle" BY <1>t, <1>2, <1>3, BecomesMoves DEF cert_source_changed_webhook
  <1>5. Typed' /\ UNCHANGED flight BY <1>t, <1>1, <1>4 DEF cert_source_changed_webhook, Typed, Moves
  <1> QED BY <1>3, <1>4, <1>5, OutOfTheWay

LEMMA RedeployStays ==
    ASSUME CertIInv, NEW w \in Workers, NEW t \in Targets, redeploy_certificate(w, t)
    PROVE  CertIInv'
  <1>t. Typed BY DEF CertIInv
  <1>1. spent' \in Spending BY <1>t, RequestSpends DEF redeploy_certificate, Typed
  <1>2. PICK new : new = [Idle EXCEPT !.kind = "redeploy", !.pc = "pick", !.todo = {t}] OBVIOUS
  <1>3. new \in Worker /\ new.pc = "pick" /\ InOrder(new)
    BY <1>2, IdleTyped DEF Worker, RequestKinds, InOrder
  <1>4. Moves(w, new) /\ worker[w].pc = "idle" BY <1>t, <1>2, <1>3, BecomesMoves DEF redeploy_certificate
  <1>5. Typed' /\ UNCHANGED flight BY <1>t, <1>1, <1>4 DEF redeploy_certificate, Typed, Moves
  <1> QED BY <1>3, <1>4, <1>5, OutOfTheWay

LEMMA ForceStays ==
    ASSUME CertIInv, NEW w \in Workers, renew_certificate_force(w)
    PROVE  CertIInv'
  <1>t. Typed BY DEF CertIInv
  <1>1. spent' \in Spending BY <1>t, RequestSpends DEF renew_certificate_force, Typed
  <1>2. PICK new : new = [Idle EXCEPT !.kind = "renew", !.pc = "renew", !.src = source] OBVIOUS
  <1>3. new \in Worker /\ new.pc = "renew" /\ InOrder(new)
    BY <1>t, <1>2, IdleTyped DEF Typed, Worker, RequestKinds, InOrder, Known
  <1>4. Moves(w, new) /\ worker[w].pc = "idle" BY <1>t, <1>2, <1>3, BecomesMoves DEF renew_certificate_force
  <1>5. Typed' /\ UNCHANGED flight BY <1>t, <1>1, <1>4 DEF renew_certificate_force, Typed, Moves
  <1> QED BY <1>3, <1>4, <1>5, OutOfTheWay

LEMMA RenewedStays ==
    ASSUME CertIInv, NEW w \in Workers, Renewed(w)
    PROVE  CertIInv'
  <1>t. Typed BY DEF CertIInv
  <1>1. version' \in Versions BY <1>t, CertNumbers DEF Renewed, Typed
  <1>2. PICK new : new = [worker[w] EXCEPT !.pc = "scanned", !.v = version'] OBVIOUS
  <1>3. worker[w] \in Worker /\ worker[w].pc = "renew" BY <1>t DEF Typed, Renewed
  <1>4. new \in Worker /\ new.pc = "scanned" /\ InOrder(new)
    BY <1>1, <1>2, <1>3, CertNumbers DEF Worker, InOrder, Known
  <1>5. Moves(w, new) BY <1>t, <1>2, <1>4, BecomesMoves DEF Renewed
  <1>6. Typed' /\ UNCHANGED flight BY <1>t, <1>1, <1>5 DEF Renewed, Typed, Moves
  <1> QED BY <1>3, <1>4, <1>5, <1>6, OutOfTheWay

LEMMA SwitchStays ==
    ASSUME CertIInv, NEW w \in Workers, patch_certificate(w)
    PROVE  CertIInv'
  <1>t. Typed BY DEF CertIInv
  <1>1. spent' \in Spending /\ version \in Known /\ enabled' \in BOOLEAN
    BY <1>t, RequestSpends, CertNumbers DEF patch_certificate, Typed
  <1>2. PICK new : new = ReadSource("patch", version) OBVIOUS
  <1>3. new \in Worker /\ new.pc = "scanned" /\ InOrder(new)
    BY <1>t, <1>1, <1>2, ReadSourceTyped DEF Typed, RequestKinds
  <1>4. Moves(w, new) /\ worker[w].pc = "idle" BY <1>t, <1>2, <1>3, CommitsMove DEF patch_certificate
  <1>5. Typed' /\ UNCHANGED flight BY <1>t, <1>1, <1>4 DEF patch_certificate, Typed, Moves
  <1> QED BY <1>3, <1>4, <1>5, OutOfTheWay

\* A deployment that is deleted: who holds its row learns of it, and stays where it is.
LEMMA DeletionStays ==
    ASSUME CertIInv, NEW t \in Targets, delete_deployment(t)
    PROVE  CertIInv'
  <1>t. Typed BY DEF CertIInv
  <1>1. spent' \in Spending BY <1>t, RequestSpends DEF delete_deployment, Typed
  <1>2. row' \in [Targets -> Row]
    BY <1>t, CertNumbers DEF delete_deployment, Typed, Row, Statuses
  <1>3. \A me \in Worker : /\ [me EXCEPT !.stale = "deleted"] \in Worker
                           /\ [me EXCEPT !.todo = @ \ {t}] \in Worker
    BY DEF Worker
  <1>4. ASSUME NEW w \in Workers PROVE worker'[w] \in Worker /\ Stays(w)
    <2>1. worker[w] \in Worker BY <1>t DEF Typed
    <2>2. \/ worker'[w] = [worker[w] EXCEPT !.stale = "deleted"]
          \/ worker'[w] = [worker[w] EXCEPT !.todo = @ \ {t}]
          \/ worker'[w] = worker[w]
      BY DEF delete_deployment
    <2>3. worker'[w] \in Worker BY <1>3, <2>1, <2>2
    <2>4. Stays(w) BY <2>1, <2>2 DEF Stays, Worker
    <2> QED BY <2>3, <2>4
  <1>5. worker' \in [Workers -> Worker] BY <1>4 DEF delete_deployment
  <1>6. Typed' /\ UNCHANGED flight BY <1>t, <1>1, <1>2, <1>5 DEF delete_deployment, Typed
  <1>7. \A w \in Workers : Stays(w) BY <1>4
  <1>8. \A f \in flight : f.by # "nobody" => f.by \in Workers BY <1>t DEF Typed, Install
  <1>9. WorkersInOrder' BY <1>7 DEF CertIInv, WorkersInOrder, Stays, InOrder
  <1>10. AnswersDue' /\ OneInstall' BY <1>6, <1>7, <1>8 DEF CertIInv, AnswersDue, OneInstall, Stays
  <1> QED BY <1>6, <1>9, <1>10 DEF CertIInv

LEMMA AdditionStays ==
    ASSUME CertIInv, NEW t \in Targets, add_deployment(t)
    PROVE  CertIInv'
  <1>1. spent' \in Spending BY RequestSpends DEF add_deployment, CertIInv, Typed
  <1>2. row' \in [Targets -> Row] BY DEF add_deployment, CertIInv, Typed, Row
  <1>3. Typed' BY <1>1, <1>2 DEF add_deployment, CertIInv, Typed
  <1> QED BY <1>3 DEF add_deployment, CertIInv, WorkersInOrder, InOrder, AnswersDue, OneInstall

LEMMA RenewalStays ==
    ASSUME CertIInv, renew
    PROVE  CertIInv'
  <1>1. version' \in Versions BY CertNumbers DEF renew, CertIInv, Typed
  <1>2. Typed' BY <1>1 DEF renew, CertIInv, Typed
  <1> QED BY <1>2 DEF renew, CertIInv, WorkersInOrder, InOrder, AnswersDue, OneInstall

-------------------------------------------------------------------------------
(* The scan of the source, and the next deployment *)

LEMMA ScanStays ==
    ASSUME CertIInv, NEW w \in Workers, scan_certificate_source(w)
    PROVE  CertIInv'
  <1>t. Typed BY DEF CertIInv
  <1>1. worker[w] \in Worker /\ worker[w].pc = "scanned" BY <1>t DEF Typed, scan_certificate_source
  <1>2. worker[w].v \in Known BY <1>1 DEF CertIInv, WorkersInOrder, InOrder, Worker, Known
  <1>3. source' \in Known BY <1>t, <1>2 DEF Typed, scan_certificate_source
  <1>4. PICK new : new = AfterScan(w) OBVIOUS
  <1>5. new \in Worker /\ new.pc \in {"idle", "pick"} BY <1>t, <1>4, AfterScanTyped
  <1>6. InOrder(new) BY <1>5 DEF InOrder
  <1>7. Moves(w, new) BY <1>t, <1>4, <1>5, CommitsMove DEF scan_certificate_source
  <1>8. Typed' /\ UNCHANGED flight BY <1>t, <1>3, <1>7 DEF scan_certificate_source, Typed, Moves
  <1> QED BY <1>1, <1>5, <1>6, <1>7, <1>8, OutOfTheWay

LEMMA RefusedScanStays ==
    ASSUME CertIInv, NEW w \in Workers, ScanRefused(w)
    PROVE  CertIInv'
  <1>t. Typed BY DEF CertIInv
  <1>1. worker[w].pc = "scanned" BY DEF ScanRefused
  <1>2. PICK after : after = AfterScan(w) OBVIOUS
  <1>3. after \in Worker /\ after.pc \in {"idle", "pick"} BY <1>t, <1>2, AfterScanTyped
  <1>4. PICK unread : unread = [after EXCEPT !.src = Unread] OBVIOUS
  <1>5. unread \in Worker /\ unread.pc \in {"idle", "pick"} BY <1>3, <1>4 DEF Worker
  <1>6. PICK new \in {unread, Idle} : Becomes(w, new) BY <1>2, <1>4 DEF ScanRefused
  <1>7. new \in Worker /\ new.pc \in {"idle", "pick"} /\ InOrder(new) BY <1>5, <1>6, IdleTyped DEF InOrder
  <1>8. Moves(w, new) BY <1>t, <1>6, <1>7, BecomesMoves
  <1>9. Typed' /\ UNCHANGED flight BY <1>t, <1>8 DEF ScanRefused, Typed, Moves
  <1> QED BY <1>1, <1>7, <1>8, <1>9, OutOfTheWay

LEMMA SkipStays ==
    ASSUME CertIInv, NEW w \in Workers, Skip(w)
    PROVE  CertIInv'
  <1>t. Typed BY DEF CertIInv
  <1>1. worker[w].pc = "pick" /\ worker[w].todo \in SUBSET Targets /\ worker[w].todo # {}
    BY <1>t DEF Skip, Typed, Worker
  <1>2. PICK t : t = First(worker[w].todo) OBVIOUS
  <1>3. t \in Targets BY <1>1, <1>2, FirstIsOne
  <1>4. PICK new : new = Finished(Reads(w, t)) OBVIOUS
  <1>5. new \in Worker /\ new.pc \in {"idle", "pick"} /\ InOrder(new)
    BY <1>t, <1>3, <1>4, ReadsTyped, FinishedTyped DEF InOrder
  <1>6. Moves(w, new) BY <1>t, <1>2, <1>4, <1>5, BecomesMoves DEF Skip
  <1>7. Typed' /\ UNCHANGED flight BY <1>t, <1>6 DEF Skip, Typed, Moves
  <1> QED BY <1>1, <1>5, <1>6, <1>7, OutOfTheWay

LEMMA IdlingStays ==
    ASSUME CertIInv, NEW w \in Workers, NothingToDo(w)
    PROVE  CertIInv'
  <1>t. Typed BY DEF CertIInv
  <1>1. Moves(w, Idle) BY <1>t, IdleTyped, BecomesMoves DEF NothingToDo
  <1>2. worker[w].pc = "pick" /\ InOrder(Idle) BY IdleTyped DEF NothingToDo, InOrder
  <1>3. Typed' /\ UNCHANGED flight BY <1>t, <1>1 DEF NothingToDo, Typed, Moves
  <1> QED BY <1>1, <1>2, <1>3, IdleTyped, OutOfTheWay

LEMMA AskingStays ==
    ASSUME CertIInv, NEW w \in Workers, AskAgent(w)
    PROVE  CertIInv'
  <1>t. Typed BY DEF CertIInv
  <1>1. PICK me : me = IF worker[w].pc = "idle" THEN [Idle EXCEPT !.todo = There] ELSE worker[w] OBVIOUS
  <1>2. me \in Worker /\ worker[w].pc \in {"idle", "pick"}
    <2>1. CASE worker[w].pc = "idle"
      <3>1. me = [Idle EXCEPT !.todo = There] /\ There \in SUBSET Targets BY <1>1, <2>1 DEF There
      <3> QED BY <2>1, <3>1, IdleTyped DEF Worker
    <2>2. CASE worker[w].pc # "idle" BY <1>t, <1>1, <2>2 DEF Typed, AskAgent
    <2> QED BY <2>1, <2>2
  <1>3. PICK t : t = First(me.todo) OBVIOUS
  <1>4. t \in Targets
    <2>1. me.todo \in SUBSET Targets BY <1>2 DEF Worker
    <2>2. me.todo # {} BY <1>1 DEF AskAgent
    <2> QED BY <1>3, <2>1, <2>2, FirstIsOne
  <1>5. row[t] \in Row /\ source \in Known BY <1>t, <1>4 DEF Typed
  <1>6. PICK new : new = [me EXCEPT !.pc = "ask", !.t = t, !.todo = @ \ {t}, !.src = source,
                                    !.status = row[t].status, !.deployed = row[t].deployed]
    OBVIOUS
  <1>7. new \in Worker /\ new.pc = "ask" /\ new.t = t BY <1>2, <1>4, <1>5, <1>6 DEF Worker, Row, Known
  <1>8. Becomes(w, new) BY <1>1, <1>3, <1>6 DEF AskAgent
  <1>9. Moves(w, new) /\ InOrder(new) BY <1>t, <1>4, <1>7, <1>8, BecomesMoves DEF InOrder
  <1>10. Typed' /\ UNCHANGED flight BY <1>t, <1>9 DEF AskAgent, Typed, Moves
  <1> QED BY <1>2, <1>7, <1>9, <1>10, OutOfTheWay

LEMMA CheckingStays ==
    ASSUME CertIInv, NEW w \in Workers, get_cert_status(w)
    PROVE  CertIInv'
  <1>t. Typed BY DEF CertIInv
  <1>1. worker[w] \in Worker /\ worker[w].pc = "ask" BY <1>t DEF Typed, get_cert_status
  <1>2. worker[w].t \in Targets BY <1>1 DEF CertIInv, WorkersInOrder, InOrder
  <1>3. agent[worker[w].t].cert \in Known BY <1>t, <1>2 DEF Typed, Files
  <1>4. PICK new : new = [worker[w] EXCEPT !.pc = "checked", !.v = agent[worker[w].t].cert] OBVIOUS
  <1>5. new \in Worker /\ new.pc = "checked" /\ InOrder(new)
    BY <1>1, <1>2, <1>3, <1>4 DEF Worker, Known, InOrder
  <1>6. Moves(w, new) BY <1>t, <1>4, <1>5, BecomesMoves DEF get_cert_status
  <1>7. Typed' /\ UNCHANGED flight BY <1>t, <1>6 DEF get_cert_status, Typed, Moves
  <1> QED BY <1>1, <1>5, <1>6, <1>7, OutOfTheWay

-------------------------------------------------------------------------------
(* Installs: sent, under way, answered or given up *)

LEMMA SendingStays ==
    ASSUME CertIInv, NEW w \in Workers, NEW v \in {None, version}, SendInstall(w, v)
    PROVE  CertIInv'
  <1>t. Typed BY DEF CertIInv
  <1>1. worker[w].pc = "pick" /\ worker[w].todo \in SUBSET Targets /\ worker[w].todo # {}
    BY <1>t DEF SendInstall, Typed, Worker
  <1>2. PICK t : t = First(worker[w].todo) OBVIOUS
  <1>3. t \in Targets BY <1>1, <1>2, FirstIsOne
  <1>4. PICK me : me = Reads(w, t) OBVIOUS
  <1>5. me \in Worker /\ me.t = t BY <1>t, <1>3, <1>4, ReadsTyped
  <1>6. spent' \in Spending /\ v \in Known BY <1>t, MaterialSpends DEF SendInstall, Typed
  <1>7. PICK new : new = [me EXCEPT !.pc = IF v = None THEN "answered" ELSE "sent", !.v = v] OBVIOUS
  <1>8. /\ new \in Worker /\ new.t = t /\ new.v = v
        /\ new.pc = IF v = None THEN "answered" ELSE "sent"
    BY <1>5, <1>6, <1>7 DEF Worker, Known
  <1>9. InOrder(new) BY <1>3, <1>6, <1>8, CertNumbers DEF InOrder
  <1>10. Becomes(w, new) BY <1>2, <1>4, <1>7 DEF SendInstall
  <1>11. Moves(w, new) BY <1>t, <1>8, <1>10, BecomesMoves
  <1>12. CASE v = None
    <2>1. Typed' /\ UNCHANGED flight BY <1>t, <1>6, <1>11, <1>12 DEF SendInstall, Typed, Moves
    <2> QED BY <1>1, <1>8, <1>9, <1>11, <1>12, <2>1, OutOfTheWay
  <1>13. CASE v # None
    <2>1. PICK f : f = [by |-> w, t |-> t, v |-> v, written |-> FALSE] OBVIOUS
    <2>2. f \in Install /\ f.by = w /\ f.t = t BY <1>t, <1>3, <1>13, <2>1 DEF Install, Typed
    <2>3. flight' = flight \cup {f} BY <1>2, <1>13, <2>1 DEF SendInstall
    <2>4. Typed' BY <1>t, <1>6, <1>11, <2>2, <2>3 DEF SendInstall, Typed, Moves
    <2>5. WorkersInOrder' BY <1>9, <1>11 DEF CertIInv, WorkersInOrder, Moves, Stays, InOrder
    <2>6. \A g \in flight : g.by # w /\ (g.by # "nobody" => g.by \in Workers)
      BY <1>t, <1>1, CertNumbers DEF CertIInv, AnswersDue, Typed, Install
    <2>7. AnswersDue' BY <1>8, <1>11, <1>13, <2>2, <2>3, <2>6 DEF CertIInv, AnswersDue, Moves, Stays
    <2>8. OneInstall' BY <2>2, <2>3, <2>6 DEF CertIInv, OneInstall
    <2> QED BY <2>4, <2>5, <2>7, <2>8 DEF CertIInv
  <1> QED BY <1>12, <1>13

\* An install that ends tells the one who waits for it, if there still is one.
LEMMA AnswerTold ==
    ASSUME CertIInv, NEW f \in flight, NEW v \in Known, Deliver(f.by, v),
           flight' = flight \ {f}, agent' \in [Targets -> Files], spent' \in Spending,
           UNCHANGED <<version, enabled, source, row>>
    PROVE  CertIInv'
  <1>t. Typed BY DEF CertIInv
  <1>1. f \in Install BY <1>t DEF Typed
  <1>2. CASE f.by = "nobody"
    <2>1. UNCHANGED worker BY <1>2, CertNumbers DEF Deliver
    <2>2. Typed' /\ WorkersInOrder' BY <1>t, <2>1 DEF CertIInv, Typed, WorkersInOrder, InOrder
    <2>3. \A w \in Workers : w # "nobody" BY CertNumbers
    <2>4. AnswersDue' BY <1>2, <2>1, <2>3 DEF CertIInv, AnswersDue
    <2>5. OneInstall' BY DEF CertIInv, OneInstall
    <2> QED BY <2>2, <2>4, <2>5 DEF CertIInv
  <1>3. CASE f.by # "nobody"
    <2>1. PICK w : w = f.by OBVIOUS
    <2>2. w \in Workers BY <1>1, <1>3, <2>1 DEF Install
    <2>3. worker[w] \in Worker BY <1>t, <2>2 DEF Typed
    <2>4. worker[w].t \in Targets
      BY <1>1, <1>3, <2>1 DEF CertIInv, AnswersDue, Install
    <2>5. PICK new : new = [worker[w] EXCEPT !.pc = "answered", !.v = v] OBVIOUS
    <2>6. new \in Worker /\ new.pc = "answered" /\ new.t = worker[w].t /\ new.v = v
      BY <2>3, <2>5 DEF Worker, Known
    <2>7. InOrder(new) BY <2>4, <2>6, CertNumbers DEF InOrder
    <2>8. Becomes(w, new) BY <2>1, <2>2, <2>5 DEF Deliver
    <2>9. Moves(w, new) BY <1>t, <2>2, <2>6, <2>8, BecomesMoves
    <2>10. Typed' BY <1>t, <2>9 DEF Typed, Moves
    <2>11. WorkersInOrder' BY <2>7, <2>9 DEF CertIInv, WorkersInOrder, Moves, Stays, InOrder
    <2>12. \A g \in flight \ {f} : g.by # w /\ (g.by # "nobody" => g.by \in Workers)
      BY <1>t, <1>3, <2>1 DEF CertIInv, OneInstall, Typed, Install
    <2>13. AnswersDue' BY <2>1, <2>6, <2>9, <2>12 DEF CertIInv, AnswersDue, Moves, Stays
    <2>14. OneInstall' BY DEF CertIInv, OneInstall
    <2> QED BY <2>10, <2>11, <2>13, <2>14 DEF CertIInv
  <1> QED BY <1>2, <1>3

LEMMA WritingStays ==
    ASSUME CertIInv, NEW f \in flight, WriteFiles(f)
    PROVE  CertIInv'
  <1>t. Typed BY DEF CertIInv
  <1>1. f \in Install BY <1>t DEF Typed
  <1>2. CASE /\ agent' = [agent EXCEPT ![f.t].cert = f.v, ![f.t].key = f.v]
             /\ flight' = (flight \ {f}) \cup {[f EXCEPT !.written = TRUE]}
             /\ UNCHANGED <<worker, spent>>
    <2>1. PICK g : g = [f EXCEPT !.written = TRUE] OBVIOUS
    <2>2. g \in Install /\ g.by = f.by /\ g.t = f.t BY <1>1, <2>1 DEF Install
    <2>3. flight' = (flight \ {f}) \cup {g} BY <1>2, <2>1
    <2>4. agent' \in [Targets -> Files] BY <1>t, <1>1, <1>2, CertNumbers DEF Typed, Install, Files
    <2>5. Typed' BY <1>t, <1>2, <2>2, <2>3, <2>4 DEF Typed, WriteFiles
    <2>6. WorkersInOrder' BY <1>2 DEF CertIInv, WorkersInOrder, InOrder
    <2>7. AnswersDue' BY <1>2, <2>2, <2>3 DEF CertIInv, AnswersDue
    <2>8. OneInstall' BY <2>2, <2>3 DEF CertIInv, OneInstall
    <2> QED BY <2>5, <2>6, <2>7, <2>8 DEF CertIInv
  <1>3. CASE /\ Fail /\ agent' = [agent EXCEPT ![f.t].cert = f.v]
             /\ flight' = flight \ {f} /\ Deliver(f.by, None)
    <2>1. agent' \in [Targets -> Files] BY <1>t, <1>1, <1>3, CertNumbers DEF Typed, Install, Files
    <2>2. spent' \in Spending BY <1>t, <1>3, FailSpends DEF Typed
    <2> QED BY <1>3, <2>1, <2>2, AnswerTold, CertNumbers DEF WriteFiles
  <1> QED BY <1>2, <1>3 DEF WriteFiles

LEMMA ReloadStays ==
    ASSUME CertIInv, NEW f \in flight, Reload(f)
    PROVE  CertIInv'
  <1>t. Typed BY DEF CertIInv
  <1>1. f \in Install BY <1>t DEF Typed
  <1>2. agent[f.t] \in Files BY <1>t, <1>1 DEF Typed, Install
  <1>3. agent' \in [Targets -> Files] BY <1>t, <1>1, <1>2 DEF Reload, Typed, Install, Files
  <1>4. spent' \in Spending BY <1>t, FailSpends DEF Reload, Typed
  <1>5. f.v \in Known BY <1>1, CertNumbers DEF Install
  <1>6. PICK v \in {f.v, None} : Deliver(f.by, v) BY DEF Reload
  <1>7. v \in Known BY <1>5, <1>6, CertNumbers
  <1>8. flight' = flight \ {f} /\ UNCHANGED <<version, enabled, source, row>> BY DEF Reload
  <1> QED BY <1>3, <1>4, <1>6, <1>7, <1>8, AnswerTold

LEMMA TimeoutStays ==
    ASSUME CertIInv, NEW w \in Workers, Timeout(w)
    PROVE  CertIInv'
  <1>t. Typed BY DEF CertIInv
  <1>1. worker[w] \in Worker /\ worker[w].pc \in {"ask", "sent"} BY <1>t DEF Typed, Timeout
  <1>2. spent' \in Spending BY <1>t, FailSpends DEF Timeout, Typed
  <1>3. worker[w].t \in Targets BY <1>1 DEF CertIInv, WorkersInOrder, InOrder
  <1>4. CASE worker[w].pc = "ask"
    <2>1. PICK new : new = [worker[w] EXCEPT !.pc = "checked", !.v = NoAnswer] OBVIOUS
    <2>2. new \in Worker /\ new.pc = "checked" /\ InOrder(new) BY <1>1, <1>3, <2>1 DEF Worker, InOrder
    <2>3. Becomes(w, new) /\ UNCHANGED flight BY <1>4, <2>1 DEF Timeout
    <2>4. Moves(w, new) BY <1>t, <2>2, <2>3, BecomesMoves
    <2>5. Typed' BY <1>t, <1>2, <2>3, <2>4 DEF Timeout, Typed, Moves
    <2> QED BY <1>4, <2>2, <2>3, <2>4, <2>5, OutOfTheWay
  <1>5. CASE worker[w].pc = "sent"
    <2>1. PICK new : new = [worker[w] EXCEPT !.pc = "answered", !.v = None] OBVIOUS
    <2>2. new \in Worker /\ new.pc = "answered" /\ InOrder(new)
      BY <1>1, <1>3, <2>1, CertNumbers DEF Worker, InOrder, Known
    <2>3. Moves(w, new) BY <1>t, <1>5, <2>1, <2>2, BecomesMoves DEF Timeout
    <2>4. PICK mine : mine = {f \in flight : f.by = w} OBVIOUS
    <2>5. flight' \in {flight \ mine, (flight \ mine) \cup {[f EXCEPT !.by = "nobody"] : f \in mine}}
      BY <1>5, <2>4 DEF Timeout
    <2>6. \A f \in flight : [f EXCEPT !.by = "nobody"] \in Install
                            /\ [f EXCEPT !.by = "nobody"].by = "nobody"
      BY <1>t DEF Typed, Install
    <2>7. ASSUME NEW f \in flight' PROVE f \in Install /\ (f.by # "nobody" => f \in flight /\ f.by # w)
      <3>1. CASE f \in flight \ mine BY <1>t, <2>4, <3>1 DEF Typed
      <3>2. CASE f \notin flight \ mine
        <4>1. PICK g \in mine : f = [g EXCEPT !.by = "nobody"] BY <2>5, <3>2
        <4> QED BY <2>4, <2>6, <4>1
      <3> QED BY <3>1, <3>2
    <2>8. \A f \in flight : f.by # w => f \in flight' BY <2>4, <2>5
    <2>9. Typed' BY <1>t, <1>2, <2>3, <2>7 DEF Timeout, Typed, Moves
    <2>10. WorkersInOrder' BY <2>2, <2>3 DEF CertIInv, WorkersInOrder, Moves, Stays, InOrder
    <2>11. \A f \in flight' : f.by # "nobody" => f.by \in Workers \ {w} BY <2>7 DEF Install
    <2>12. AnswersDue' BY <2>2, <2>3, <2>7, <2>8, <2>11 DEF CertIInv, AnswersDue, Moves, Stays
    <2>13. OneInstall' BY <2>7 DEF CertIInv, OneInstall
    <2> QED BY <2>9, <2>10, <2>12, <2>13 DEF CertIInv
  <1> QED BY <1>1, <1>4, <1>5

\* A restart leaves installs under way that answer to nobody.
LEMMA RestartStays ==
    ASSUME CertIInv, NEW P \in SUBSET Workers, Restart(P)
    PROVE  CertIInv'
  <1>t. Typed BY DEF CertIInv
  <1>1. spent' \in Spending BY <1>t, FailSpends DEF Restart, Typed
  <1>2. worker' = [w \in Workers |-> IF w \in P THEN Idle ELSE worker[w]] BY DEF Restart
  <1>3. worker' \in [Workers -> Worker] BY <1>t, <1>2, IdleTyped DEF Typed
  <1>4. \A f \in flight : LET g == [f EXCEPT !.by = IF @ \in P THEN "nobody" ELSE @] IN
            /\ g \in Install /\ (f.by \in P => g.by = "nobody") /\ (f.by \notin P => g = f)
    BY <1>t DEF Typed, Install
  <1>5. \A g \in flight' : g \in Install /\ (g.by # "nobody" => g \in flight /\ g.by \notin P)
    BY <1>4 DEF Restart
  <1>6. \A f \in flight : f.by \notin P => f \in flight' BY <1>4 DEF Restart
  <1>7. Typed' BY <1>t, <1>1, <1>3, <1>5 DEF Restart, Typed
  <1>8. WorkersInOrder' BY <1>2, IdleTyped DEF CertIInv, WorkersInOrder, InOrder
  <1>9. \A g \in flight' : g.by # "nobody" => g.by \in Workers \ P BY <1>5 DEF Install
  <1>10. AnswersDue' BY <1>2, <1>5, <1>6, <1>9, IdleTyped DEF CertIInv, AnswersDue
  <1>11. OneInstall' BY <1>5 DEF CertIInv, OneInstall
  <1> QED BY <1>7, <1>8, <1>10, <1>11 DEF CertIInv

-------------------------------------------------------------------------------
(* The commits *)

LEMMA InstallRecorded ==
    ASSUME CertIInv, NEW w \in Workers, RecordInstall(w)
    PROVE  CertIInv'
  <1>t. Typed BY DEF CertIInv
  <1>1. PICK me : me = worker[w] OBVIOUS
  <1>2. me \in Worker /\ me.pc = "answered" BY <1>t, <1>1 DEF Typed, RecordInstall
  <1>3. me.v \in Known /\ me.deployed \in Known
    BY <1>1, <1>2 DEF CertIInv, WorkersInOrder, InOrder, Worker, Known
  <1>4. CASE me.v = None
    <2>1. row' \in [Targets -> Row]
      <3>1. Committed(me, "deploy_failed", me.deployed) BY <1>1, <1>4 DEF RecordInstall
      <3> QED BY <1>t, <1>3, <3>1, CommittedTyped DEF Typed, Statuses
    <2>2. PICK new : new = Finished(me) OBVIOUS
    <2>3. new \in Worker /\ new.pc \in {"idle", "pick"} BY <1>2, <2>2, FinishedTyped
    <2>4. Moves(w, new) BY <1>t, <1>1, <1>4, <2>2, <2>3, CommitsMove DEF RecordInstall
    <2>5. Typed' /\ UNCHANGED flight BY <1>t, <1>1, <1>4, <2>1, <2>4 DEF RecordInstall, Typed, Moves
    <2> QED BY <1>1, <1>2, <2>3, <2>4, <2>5, OutOfTheWay DEF InOrder
  <1>5. CASE me.v # None
    <2>1. row' \in [Targets -> Row]
      <3>1. Committed(me, "synced", me.v) BY <1>1, <1>5 DEF RecordInstall
      <3> QED BY <1>t, <1>3, <3>1, CommittedTyped DEF Typed, Statuses
    <2>2. source' \in Known BY <1>t, <1>1, <1>3, <1>5 DEF RecordInstall, Write, Typed
    <2>3. PICK done : done = [me EXCEPT !.src = me.v] OBVIOUS
    <2>4. done \in Worker BY <1>2, <1>3, <2>3 DEF Worker, Known
    <2>5. PICK new : new = Finished(done) OBVIOUS
    <2>6. new \in Worker /\ new.pc \in {"idle", "pick"} BY <2>4, <2>5, FinishedTyped
    <2>7. Moves(w, new) BY <1>t, <1>1, <1>5, <2>3, <2>5, <2>6, CommitsMove DEF RecordInstall
    <2>8. Typed' /\ UNCHANGED flight BY <1>t, <2>1, <2>2, <2>7 DEF RecordInstall, Typed, Moves
    <2> QED BY <1>1, <1>2, <2>6, <2>7, <2>8, OutOfTheWay DEF InOrder
  <1> QED BY <1>4, <1>5

LEMMA CheckRecorded ==
    ASSUME CertIInv, NEW w \in Workers, RecordCheck(w)
    PROVE  CertIInv'
  <1>t. Typed BY DEF CertIInv
  <1>1. PICK me : me = worker[w] OBVIOUS
  <1>2. me \in Worker /\ me.pc = "checked" BY <1>t, <1>1 DEF Typed, RecordCheck
  <1>3. me.deployed \in Known /\ me.v \in Known \cup {NoAnswer} BY <1>2 DEF Worker, Known
  <1>4. row' \in [Targets -> Row]
    <2>1. PICK status \in Statuses, deployed \in Known : Committed(me, status, deployed)
      BY <1>1, <1>3, CertNumbers DEF RecordCheck, Statuses
    <2> QED BY <1>t, <2>1, CommittedTyped DEF Typed
  <1>5. PICK done : done = [me EXCEPT !.src = Unread] OBVIOUS
  <1>6. done \in Worker BY <1>2, <1>5 DEF Worker
  <1>7. PICK new : new = Finished(done) OBVIOUS
  <1>8. new \in Worker /\ new.pc \in {"idle", "pick"} BY <1>6, <1>7, FinishedTyped
  <1>9. Moves(w, new) BY <1>t, <1>1, <1>5, <1>7, <1>8, CommitsMove DEF RecordCheck
  <1>10. Typed' /\ UNCHANGED flight BY <1>t, <1>4, <1>9 DEF RecordCheck, Typed, Moves
  <1> QED BY <1>1, <1>2, <1>8, <1>9, <1>10, OutOfTheWay DEF InOrder

LEMMA RefusalStays ==
    ASSUME CertIInv, NEW w \in Workers, RecordRefused(w)
    PROVE  CertIInv'
  <1>t. Typed BY DEF CertIInv
  <1>1. PICK me : me = worker[w] OBVIOUS
  <1>2. me \in Worker /\ me.pc \in {"answered", "checked"} BY <1>t, <1>1 DEF Typed, RecordRefused
  <1>3. me.t \in Targets BY <1>1, <1>2 DEF CertIInv, WorkersInOrder, InOrder
  <1>4. PICK unread : unread = [me EXCEPT !.src = Unread] OBVIOUS
  <1>5. unread \in Worker BY <1>2, <1>4 DEF Worker
  <1>6. PICK next : next = Finished(unread) OBVIOUS
  <1>7. next \in Worker /\ next.pc \in {"idle", "pick"} BY <1>5, <1>6, FinishedTyped
  <1>8. PICK again : again = [Idle EXCEPT !.kind = "redeploy", !.pc = "pick", !.todo = {me.t}, !.retry = TRUE]
    OBVIOUS
  <1>9. again \in Worker /\ again.pc = "pick" BY <1>3, <1>8, IdleTyped DEF Worker, RequestKinds
  <1>10. PICK new \in {next, again, Idle} : Becomes(w, new)
    BY <1>1, <1>4, <1>6, <1>8 DEF RecordRefused
  <1>11. new \in Worker /\ new.pc \in {"idle", "pick"} /\ InOrder(new)
    BY <1>7, <1>9, <1>10, IdleTyped DEF InOrder
  <1>12. Moves(w, new) BY <1>t, <1>10, <1>11, BecomesMoves
  <1>13. Typed' /\ UNCHANGED flight BY <1>t, <1>12 DEF RecordRefused, Typed, Moves
  <1> QED BY <1>1, <1>2, <1>11, <1>12, <1>13, OutOfTheWay

-------------------------------------------------------------------------------

LEMMA CertStarts == CertInit => CertIInv
  <1> SUFFICES ASSUME CertInit PROVE CertIInv
    OBVIOUS
  <1>1. Typed
    <2>1. spent \in Spending BY CertNumbers DEF CertInit, Spending
    <2>2. row \in [Targets -> Row] BY CertNumbers DEF CertInit, Row, Statuses
    <2>3. agent \in [Targets -> Files] BY CertNumbers DEF CertInit, Files
    <2>4. worker \in [Workers -> Worker] BY IdleTyped DEF CertInit
    <2> QED BY <2>1, <2>2, <2>3, <2>4, CertNumbers DEF CertInit, Typed
  <1>2. \A w \in Workers : worker[w].pc = "idle" BY IdleTyped DEF CertInit
  <1>3. flight = {} BY DEF CertInit
  <1> QED BY <1>1, <1>2, <1>3 DEF CertIInv, WorkersInOrder, InOrder, AnswersDue, OneInstall

LEMMA CertStep == CertIInv /\ [CertNext]_certVars => CertIInv'
  <1> SUFFICES ASSUME CertIInv, [CertNext]_certVars PROVE CertIInv'
    OBVIOUS
  <1>1. ASSUME NEW w \in Workers, JobStep(w) PROVE CertIInv'
    BY <1>1, BeginsStay, SendingStays, RenewedStays, ScanStays, RefusedScanStays, SkipStays, IdlingStays,
       AskingStays, CheckingStays, InstallRecorded, CheckRecorded, RefusalStays DEF JobStep
  <1>2. ASSUME NEW w \in Workers, Timeout(w) PROVE CertIInv' BY <1>2, TimeoutStays
  <1>3. CASE AgentStep BY <1>3, WritingStays, ReloadStays DEF AgentStep
  <1>4. CASE renew BY <1>4, RenewalStays
  <1>5. CASE Admins
    <2>1. Requests \subseteq Workers BY DEF Workers
    <2> QED BY <1>5, <2>1, WebhookStays, ForceStays, SwitchStays, RedeployStays DEF Admins
  <1>6. ASSUME NEW t \in Targets, delete_deployment(t) \/ add_deployment(t) PROVE CertIInv'
    BY <1>6, DeletionStays, AdditionStays
  <1>7. CASE Restart(Jobs) \/ Restart(Requests) BY <1>7, RestartStays DEF Workers
  <1>8. CASE UNCHANGED certVars
    BY <1>8 DEF certVars, CertIInv, Typed, WorkersInOrder, InOrder, AnswersDue, OneInstall
  <1> QED BY <1>1, <1>2, <1>3, <1>4, <1>5, <1>6, <1>7, <1>8 DEF CertNext

\* Who waits, for what, and what is under way to the agents, for any number of deployments, requests,
\* renewals and failures.
THEOREM CertInvariant == CertSpec => []CertIInv
  BY CertStarts, CertStep, PTL DEF CertSpec

\* Certificates, deployments, the agents' files, jobs and requests keep their shapes; an answer reaches
\* only the one who waits for it, about the deployment it was asked for, and who waits has an install
\* under way.
THEOREM CertTypesHold == CertSpec => []CertTypeOK
  <1>1. Typed /\ AnswersDue => CertTypeOK
    BY DEF Typed, AnswersDue, CertTypeOK, Row, Files, Install, Spending, Known
  <1> QED BY <1>1, CertInvariant, PTL DEF CertIInv
===============================================================================
