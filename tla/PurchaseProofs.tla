----------------------------- MODULE PurchaseProofs -----------------------------
(***************************************************************************)
(* Proofs about Coupons and Plans: a discount has its coupon and a coupon  *)
(* comes back, whatever customers, jobs, administrators and restarts do;   *)
(* and an order delivers what it sold, a trial once, whatever becomes of   *)
(* the catalogue and of the other orders meanwhile.                        *)
(***************************************************************************)
EXTENDS MCPurchases, FiniteSetTheorems, TLAPS

-------------------------------------------------------------------------------
(* Coupons: the inductive invariant *)

\* An order that goes on with a discount.
Discounted(o) ==
    /\ order[o].status \in {"pending", "paid", "applied"}
    /\ order[o].coupon # NoCoupon /\ o \notin revived
    /\ \A w \in Workers : worker[w].order = o => worker[w].pc # "erase"
Backed(o) == coupon[order[o].coupon].order = o \/ coupon[order[o].coupon].status = "revoked"

\* A coupon kept for an order, and what is about to give it back.
KeptFor(c, o) == coupon[c].status = "reserved" /\ coupon[c].order = o
ComesBack(o) ==
    \/ o \in stranded
    \/ \E w \in Workers : worker[w].order = o /\ worker[w].pc \in {"release", "unreserve"}

\* A task knows its order once it has begun; one that gives a coupon back has an order that came
\* to nothing, and one that erases an order has given its coupon back.
TaskInOrder(w) ==
    LET o == worker[w].order IN
    /\ worker[w].pc # "idle" => o \in Orders
    /\ worker[w].pc \notin {"idle", "reserve"} => order[o].status # "absent"
    /\ worker[w].pc = "release" =>
          order[o].status \in {"ended", "failed", "review", "deleted"} \/ o \in revived
    /\ worker[w].pc = "erase" => o \in stranded \/ \A c \in Coupons : ~KeptFor(c, o)

\* A coupon names an order just while it is reserved or used.
CouponInOrder(c) == coupon[c].order # NoOrder <=> coupon[c].status \in {"reserved", "used"}

CouponIInv ==
    /\ CouponTypeOK
    /\ \A w \in Workers : TaskInOrder(w)
    /\ \A c \in Coupons : CouponInOrder(c)
    /\ \A o \in Orders : Discounted(o) => Backed(o)
    /\ \A c \in Coupons, o \in Orders :
          KeptFor(c, o) /\ order[o].status \in {"failed", "ended", "deleted"} => ComesBack(o)

-------------------------------------------------------------------------------
(* Coupons: types *)

OrdersTyped == order \in [Orders -> OrderRow]
CouponsTyped == coupon \in [Coupons -> CouponRow]
TasksTyped == worker \in [Workers -> Task]
BooksTyped ==
    /\ template \in [Templates -> {"active", "inactive"}]
    /\ referral \in [Customers -> ReferralRow]
    /\ revived \subseteq Orders /\ stranded \subseteq Orders
    /\ faults \in 0..MaxFaults /\ edits \in 0..MaxEdits

\* The type invariant, table by table.
LEMMA CouponTypes == CouponTypeOK <=> OrdersTyped /\ CouponsTyped /\ TasksTyped /\ BooksTyped
  BY DEF CouponTypeOK, OrdersTyped, CouponsTyped, TasksTyped, BooksTyped

\* What the constants are, and the empty task.
LEMMA CouponConstants ==
  /\ Nobody \notin Customers /\ NoOrder \notin Orders /\ NoCoupon \notin Coupons
  /\ \A u \in Customers : InvitedBy[u] \in Customers \cup Inviters \cup {Nobody}
  /\ \A o \in Orders : Buyer[o] \in Customers
  /\ MaxFaults \in Nat /\ MaxEdits \in Nat
  /\ NoTask \in Task /\ NoTask.pc = "idle" /\ NoTask.order = NoOrder
  <1>1. NoTask \in Task /\ NoTask.pc = "idle" /\ NoTask.order = NoOrder
    BY DEF NoTask, Task, Steps
  <1> QED BY <1>1, CouponAssumption

\* One task goes on, and the others wait.
TaskBecomes(w, t) == worker'[w] = t /\ \A x \in Workers \ {w} : worker'[x] = worker[x]

LEMMA TaskWrite ==
  ASSUME TasksTyped, NEW w \in Workers, NEW t \in Task, worker' = [worker EXCEPT ![w] = t]
  PROVE  TasksTyped' /\ TaskBecomes(w, t)
  BY DEF TasksTyped, TaskBecomes

LEMMA TaskEnds ==
  ASSUME TasksTyped, NEW w \in Workers, Finish(w)
  PROVE  TasksTyped' /\ TaskBecomes(w, NoTask)
  BY CouponConstants, TaskWrite DEF Finish

LEMMA TaskGoesOn ==
  ASSUME TasksTyped, NEW w \in Workers, NEW pc \in Steps, GoTo(w, pc)
  PROVE  /\ TasksTyped' /\ TaskBecomes(w, worker'[w])
         /\ worker'[w].pc = pc /\ worker'[w].order = worker[w].order
  <1> DEFINE t == [worker[w] EXCEPT !.pc = pc]
  <1>1. t \in Task /\ t.pc = pc /\ t.order = worker[w].order BY DEF TasksTyped, Task
  <1>2. worker' = [worker EXCEPT ![w] = t] BY DEF GoTo
  <1> HIDE DEF t
  <1>3. TasksTyped' /\ TaskBecomes(w, t) BY <1>1, <1>2, TaskWrite
  <1> QED BY <1>1, <1>3 DEF TaskBecomes

LEMMA TaskBegins ==
  ASSUME TasksTyped, NEW w \in Workers, NEW pc \in Steps, NEW o \in Orders,
         NEW c \in Coupons \cup {NoCoupon}, Begin(w, pc, o, c)
  PROVE  /\ TasksTyped' /\ TaskBecomes(w, worker'[w])
         /\ worker'[w].pc = pc /\ worker'[w].order = o
  <1> DEFINE t == [pc |-> pc, order |-> o, coupon |-> c]
  <1>1. t \in Task /\ t.pc = pc /\ t.order = o BY DEF Task
  <1>2. worker' = [worker EXCEPT ![w] = t] BY DEF Begin
  <1> HIDE DEF t
  <1>3. TasksTyped' /\ TaskBecomes(w, t) BY <1>1, <1>2, TaskWrite
  <1> QED BY <1>1, <1>3 DEF TaskBecomes

\* One order changes its status.
OrderMoves(o, st) ==
    /\ OrdersTyped' /\ order'[o].status = st
    /\ \A p \in Orders : order'[p].coupon = order[p].coupon
    /\ \A p \in Orders \ {o} : order'[p] = order[p]

LEMMA StatusWrite ==
  ASSUME OrdersTyped, NEW o \in Orders, NEW st \in OrderStatuses,
         order' = [order EXCEPT ![o].status = st]
  PROVE  OrderMoves(o, st)
  BY DEF OrdersTyped, OrderMoves, OrderRow

-------------------------------------------------------------------------------
(* Coupons: what a step may do to one *)

\* A coupon stays as it is, or it is new, or it is revoked.
SameCoupon(c) == coupon'[c].status = coupon[c].status /\ coupon'[c].order = coupon[c].order
NewCoupon(c) ==
    coupon[c].status = "absent" /\ coupon'[c].status = "unused" /\ coupon'[c].order = NoOrder
RevokedCoupon(c) ==
    /\ coupon[c].status \in {"unused", "reserved"}
    /\ coupon'[c].status = "revoked" /\ coupon'[c].order = NoOrder

\* A task stays as it is, or it had nothing of an order's coupon in hand and has nothing.
Harmless == {"idle", "reserve", "consume", "qualify", "reward"}
CalmTask(w) ==
    \/ worker'[w] = worker[w]
    \/ /\ worker[w].pc \in Harmless /\ worker'[w].pc \in Harmless
       /\ worker'[w].pc # "idle" => worker'[w].order \in Orders
       /\ worker'[w].pc \notin {"idle", "reserve"} => order[worker'[w].order].status # "absent"

\* A step beside the orders.
LEMMA CalmCoupons ==
  ASSUME CouponIInv, UNCHANGED <<order, revived, stranded>>,
         CouponsTyped', TasksTyped', BooksTyped',
         \A c \in Coupons : SameCoupon(c) \/ NewCoupon(c) \/ RevokedCoupon(c),
         \A w \in Workers : CalmTask(w)
  PROVE  CouponIInv'
  <1>1. CouponTypeOK' BY CouponTypes DEF CouponIInv, CouponTypeOK, CouponsTyped, TasksTyped, BooksTyped
  <1>2. \A c \in Coupons : CouponInOrder(c)'
    BY CouponConstants DEF CouponIInv, CouponInOrder, SameCoupon, NewCoupon, RevokedCoupon
  <1>3. \A c \in Coupons, o \in Orders : KeptFor(c, o)' => KeptFor(c, o)
    BY DEF KeptFor, SameCoupon, NewCoupon, RevokedCoupon
  <1>4. \A w \in Workers : TaskInOrder(w)'
    <2> SUFFICES ASSUME NEW w \in Workers PROVE TaskInOrder(w)' OBVIOUS
    <2>1. TaskInOrder(w) BY DEF CouponIInv
    <2>2. CASE worker'[w] = worker[w]
      <3>1. worker[w].pc # "idle" => worker[w].order \in Orders BY <2>1 DEF TaskInOrder
      <3> QED BY <1>3, <2>1, <2>2, <3>1 DEF TaskInOrder
    <2>3. CASE worker'[w] # worker[w] BY <2>3 DEF CalmTask, Harmless, TaskInOrder
    <2> QED BY <2>2, <2>3
  <1>5. \A o \in Orders : Discounted(o)' => Backed(o)'
    <2> SUFFICES ASSUME NEW o \in Orders, Discounted(o)', NEW c, c = order[o].coupon
                 PROVE  coupon'[c].order = o \/ coupon'[c].status = "revoked"
      BY DEF Backed
    <2>1. Discounted(o) BY DEF Discounted, CalmTask, Harmless
    <2>2. coupon[c].order = o \/ coupon[c].status = "revoked"
      BY <2>1 DEF CouponIInv, Backed
    <2>3. c \in Coupons
      BY <2>1, CouponTypes DEF CouponIInv, OrdersTyped, OrderRow, Discounted
    <2>4. coupon[c].status # "absent"
      BY <2>2, <2>3, CouponConstants DEF CouponIInv, CouponInOrder
    <2> QED BY <2>2, <2>3, <2>4 DEF SameCoupon, NewCoupon, RevokedCoupon
  <1>6. ASSUME NEW c \in Coupons, NEW o \in Orders, KeptFor(c, o)',
               order'[o].status \in {"failed", "ended", "deleted"}
        PROVE  ComesBack(o)'
    <2>1. ComesBack(o) BY <1>3, <1>6 DEF CouponIInv
    <2> QED BY <2>1 DEF ComesBack, CalmTask, Harmless
  <1> QED BY <1>1, <1>2, <1>4, <1>5, <1>6 DEF CouponIInv

\* A step of one order, and of one task at most: what the invariant asks of the order.
LEMMA OrderKeeps ==
  ASSUME CouponIInv, NEW o \in Orders,
         OrdersTyped', CouponsTyped', TasksTyped', BooksTyped',
         \A p \in Orders \ {o} : order'[p] = order[p],
         order'[o].status # "absent" \/ order[o].status = "absent",
         revived \subseteq revived', stranded \subseteq stranded',
         \A w \in Workers :
            \/ worker'[w] = worker[w]
            \/ worker'[w].pc = "idle" /\ (worker[w].pc # "idle" => worker[w].order = o)
            \/ worker'[w].order = o /\ (worker[w].pc # "idle" => worker[w].order = o),
         \A w \in Workers : worker'[w].pc # "idle" /\ worker'[w].order = o => TaskInOrder(w)',
         \A c \in Coupons : CouponInOrder(c)',
         \A c \in Coupons : SameCoupon(c) \/ coupon[c].order = o \/ coupon[c].status = "unused",
         \A c \in Coupons : SameCoupon(c) \/ coupon'[c].order \in {o, NoOrder},
         Discounted(o)' => Backed(o)',
         \A c \in Coupons : KeptFor(c, o)' /\ order'[o].status \in {"failed", "ended", "deleted"}
                               => ComesBack(o)'
  PROVE  CouponIInv'
  <1>1. CouponTypeOK'
    BY CouponTypes DEF CouponTypeOK, OrdersTyped, CouponsTyped, TasksTyped, BooksTyped
  <1>2. \A c \in Coupons, p \in Orders \ {o} : KeptFor(c, p)' => KeptFor(c, p)
    BY CouponConstants DEF KeptFor, SameCoupon
  <1>3. \A w \in Workers : TaskInOrder(w)'
    <2> SUFFICES ASSUME NEW w \in Workers PROVE TaskInOrder(w)' OBVIOUS
    <2>1. TaskInOrder(w) BY DEF CouponIInv
    <2>2. CASE worker'[w].pc = "idle" BY <2>2 DEF TaskInOrder
    <2>3. CASE worker'[w].pc # "idle" /\ worker'[w].order = o BY <2>3
    <2>4. CASE worker'[w].pc # "idle" /\ worker'[w].order # o
      <3>1. worker'[w] = worker[w] /\ worker[w].order \in Orders \ {o}
        BY <2>1, <2>4 DEF TaskInOrder
      <3> QED BY <1>2, <2>1, <3>1 DEF TaskInOrder
    <2> QED BY <2>2, <2>3, <2>4
  <1>4. \A p \in Orders : Discounted(p)' => Backed(p)'
    <2> SUFFICES ASSUME NEW p \in Orders \ {o}, Discounted(p)', NEW c, c = order[p].coupon
                 PROVE  Backed(p)'
      OBVIOUS
    <2>1. order'[p] = order[p] /\ order'[p].coupon = c OBVIOUS
    <2>2. \A w \in Workers : worker[w].order = p => worker[w].pc # "erase"
      <3> SUFFICES ASSUME NEW w \in Workers, worker[w].order = p, worker[w].pc = "erase"
                   PROVE  FALSE
        OBVIOUS
      <3>1. worker'[w] = worker[w] OBVIOUS
      <3> QED BY <3>1 DEF Discounted
    <2>3. Discounted(p) BY <2>1, <2>2 DEF Discounted
    <2>4. coupon[c].order = p \/ coupon[c].status = "revoked"
      BY <2>3 DEF CouponIInv, Backed
    <2>5. c \in Coupons
      BY <2>3, CouponTypes DEF CouponIInv, OrdersTyped, OrderRow, Discounted
    <2>6. coupon[c].status # "unused" /\ coupon[c].order # o
      BY <2>4, <2>5, CouponConstants DEF CouponIInv, CouponInOrder
    <2> QED BY <2>1, <2>4, <2>5, <2>6 DEF Backed, SameCoupon
  <1>5. ASSUME NEW c \in Coupons, NEW p \in Orders \ {o}, KeptFor(c, p)',
               order'[p].status \in {"failed", "ended", "deleted"}
        PROVE  ComesBack(p)'
    <2>1. ComesBack(p) BY <1>2, <1>5 DEF CouponIInv
    <2> QED BY <2>1 DEF ComesBack
  <1> QED BY <1>1, <1>3, <1>4, <1>5 DEF CouponIInv

-------------------------------------------------------------------------------
(* Coupons: steps beside the orders *)

\* A coupon that is issued, and one whose row changes.
LEMMA CouponWrite ==
  ASSUME CouponsTyped, NEW c \in Coupons, NEW row \in CouponRow,
         coupon' = [coupon EXCEPT ![c] = row]
  PROVE  CouponsTyped' /\ coupon'[c] = row /\ \A d \in Coupons \ {c} : coupon'[d] = coupon[d]
  BY DEF CouponsTyped

LEMMA IssuedRows ==
  ASSUME NEW u \in Customers \cup Inviters \cup {Nobody},
         NEW reason \in {"none", "grant", "inviter", "invitee"},
         NEW about \in Customers \cup {Nobody}
  PROVE  LET row == Issued(u, reason, about) IN
         row \in CouponRow /\ row.status = "unused" /\ row.order = NoOrder
  BY DEF Issued, CouponRow, CouponStatuses

LEMMA Grants ==
  ASSUME CouponIInv,
         (\E t \in Templates : UpdateTemplate(t))
         \/ \E u \in Customers : RegisterReferral(u) \/ \E t \in Templates : ManualGrant(u, t)
  PROVE  CouponIInv'
  <1>0. OrdersTyped /\ CouponsTyped /\ TasksTyped /\ BooksTyped BY CouponTypes DEF CouponIInv
  <1>1. UNCHANGED <<order, worker, revived, stranded, faults>>
    BY DEF UpdateTemplate, RegisterReferral, ManualGrant
  <1>2. edits' \in 0..MaxEdits /\ template' \in [Templates -> {"active", "inactive"}]
    <2>1. edits \in 0..MaxEdits /\ template \in [Templates -> {"active", "inactive"}]
      BY <1>0 DEF BooksTyped
    <2>2. edits' \in 0..MaxEdits
      <3>1. edits' = edits \/ (edits < MaxEdits /\ edits' = edits + 1)
        BY DEF UpdateTemplate, RegisterReferral, ManualGrant
      <3> QED BY <2>1, <3>1, CouponConstants
    <2>3. template' \in [Templates -> {"active", "inactive"}]
      <3>1. \/ template' = template
            \/ \E t \in Templates, to \in {"active", "inactive"} :
                  template' = [template EXCEPT ![t] = to]
        BY DEF UpdateTemplate, RegisterReferral, ManualGrant
      <3> QED BY <2>1, <3>1
    <2> QED BY <2>2, <2>3
  <1>3. ASSUME UNCHANGED coupon \/ \E c \in Coupons : \E row \in CouponRow :
                  /\ coupon[c].status = "absent" /\ row.status = "unused" /\ row.order = NoOrder
                  /\ coupon' = [coupon EXCEPT ![c] = row],
               referral' \in [Customers -> ReferralRow]
        PROVE  CouponIInv'
    <2>1. CouponsTyped' /\ \A c \in Coupons : SameCoupon(c) \/ NewCoupon(c)
      BY <1>0, <1>3, CouponWrite DEF CouponsTyped, SameCoupon, NewCoupon
    <2>2. TasksTyped' /\ BooksTyped' /\ \A w \in Workers : CalmTask(w)
      BY <1>0, <1>1, <1>2, <1>3 DEF TasksTyped, BooksTyped, CalmTask
    <2> QED BY <1>1, <2>1, <2>2, CalmCoupons
  <1>4. CASE \E t \in Templates : UpdateTemplate(t)
    BY <1>0, <1>3, <1>4 DEF UpdateTemplate, BooksTyped
  <1>5. ASSUME NEW u \in Customers, NEW t \in Templates, ManualGrant(u, t) PROVE CouponIInv'
    <2>1. PICK c \in Fresh : coupon' = [coupon EXCEPT ![c] = Issued(u, "grant", Nobody)]
      BY <1>5 DEF ManualGrant
    <2>2. c \in Coupons /\ coupon[c].status = "absent" BY DEF Fresh
    <2> DEFINE row == Issued(u, "grant", Nobody)
    <2>3. row \in CouponRow /\ row.status = "unused" /\ row.order = NoOrder BY IssuedRows
    <2> HIDE DEF row
    <2> QED BY <1>0, <1>3, <1>5, <2>1, <2>2, <2>3 DEF ManualGrant, BooksTyped, row
  <1>6. ASSUME NEW u \in Customers, RegisterReferral(u) PROVE CouponIInv'
    <2>0. referral[u] \in ReferralRow BY <1>0 DEF BooksTyped
    <2>1. CASE template["invitee"] # "active"
      <3>1. [referral[u] EXCEPT !.status = "registered"] \in ReferralRow
        BY <2>0 DEF ReferralRow
      <3> QED BY <1>0, <1>3, <1>6, <2>1, <3>1 DEF RegisterReferral, BooksTyped
    <2>2. CASE template["invitee"] = "active"
      <3>1. PICK c \in Fresh :
              /\ coupon' = [coupon EXCEPT ![c] = Issued(u, "invitee", u)]
              /\ referral' = [referral EXCEPT ![u] = [@ EXCEPT !.status = "registered",
                                                               !.welcome = c]]
        BY <1>6, <2>2 DEF RegisterReferral
      <3>2. c \in Coupons /\ coupon[c].status = "absent" BY DEF Fresh
      <3>3. [referral[u] EXCEPT !.status = "registered", !.welcome = c] \in ReferralRow
        BY <2>0, <3>2 DEF ReferralRow
      <3>4. referral' \in [Customers -> ReferralRow] BY <1>0, <3>1, <3>3 DEF BooksTyped
      <3> DEFINE row == Issued(u, "invitee", u)
      <3>5. row \in CouponRow /\ row.status = "unused" /\ row.order = NoOrder BY IssuedRows
      <3>6. coupon' = [coupon EXCEPT ![c] = row] BY <3>1
      <3> HIDE DEF row
      <3> QED BY <1>3, <3>2, <3>4, <3>5, <3>6
    <2> QED BY <2>1, <2>2
  <1> QED BY <1>4, <1>5, <1>6

LEMMA CouponEdits ==
  ASSUME CouponIInv, NEW c \in Coupons, Revoke(c) \/ Expire(c)
  PROVE  CouponIInv'
  <1>0. OrdersTyped /\ CouponsTyped /\ TasksTyped /\ BooksTyped BY CouponTypes DEF CouponIInv
  <1>1. UNCHANGED <<order, template, referral, worker, revived, stranded, faults>>
        /\ edits' \in 0..MaxEdits
    BY <1>0, CouponConstants DEF Revoke, Expire, BooksTyped
  <1>2. PICK row \in CouponRow :
          /\ coupon' = [coupon EXCEPT ![c] = row]
          /\ \/ row.status = coupon[c].status /\ row.order = coupon[c].order
             \/ /\ coupon[c].status \in {"unused", "reserved"}
                /\ row.status = "revoked" /\ row.order = NoOrder
    <2>0. coupon[c] \in CouponRow BY <1>0 DEF CouponsTyped
    <2>1. CASE Revoke(c)
      <3> DEFINE row == [coupon[c] EXCEPT !.status = "revoked", !.order = NoOrder]
      <3>1. row \in CouponRow /\ row.status = "revoked" /\ row.order = NoOrder
        BY <2>0 DEF CouponRow, CouponStatuses
      <3>2. coupon' = [coupon EXCEPT ![c] = row] /\ coupon[c].status \in {"unused", "reserved"}
        BY <1>0, <2>1 DEF Revoke, CouponsTyped
      <3> HIDE DEF row
      <3> QED BY <3>1, <3>2
    <2>2. CASE Expire(c)
      <3> DEFINE row == [coupon[c] EXCEPT !.expired = TRUE]
      <3>1. row \in CouponRow /\ row.status = coupon[c].status /\ row.order = coupon[c].order
        BY <2>0 DEF CouponRow
      <3>2. coupon' = [coupon EXCEPT ![c] = row]
        BY <1>0, <2>2 DEF Expire, CouponsTyped
      <3> HIDE DEF row
      <3> QED BY <3>1, <3>2
    <2> QED BY <2>1, <2>2
  <1>3. CouponsTyped' /\ \A d \in Coupons : SameCoupon(d) \/ RevokedCoupon(d)
    BY <1>0, <1>2, CouponWrite DEF CouponsTyped, SameCoupon, RevokedCoupon
  <1>4. TasksTyped' /\ BooksTyped' /\ \A w \in Workers : CalmTask(w)
    BY <1>0, <1>1 DEF TasksTyped, BooksTyped, CalmTask
  <1> QED BY <1>1, <1>3, <1>4, CalmCoupons

\* A fault is counted.
LEMMA Faults == ASSUME BooksTyped, Fault PROVE faults' \in 0..MaxFaults
  BY CouponConstants DEF BooksTyped, Fault

\* What a reward writes: the inviter's coupon, and the invitee's if it had none.
RewardWritten(o, u, old, new, granted, c, welcome) ==
    /\ Cardinality(granted) = new
    /\ coupon' = [d \in Coupons |->
          CASE d = c               -> Issued(InvitedBy[u], "inviter", u)
            [] d \in granted \ {c} -> Issued(u, "invitee", u)
            [] OTHER               -> coupon[d]]
    /\ referral' = [referral EXCEPT ![u] =
          [status |-> "rewarded", reward |-> c, order |-> o,
           welcome |-> IF new = 2 THEN welcome ELSE old]]

LEMMA Rewards ==
  ASSUME CouponIInv, NEW w \in Workers,
         QualifyOrder(w) \/ GrantReward(w) \/ \E o \in Orders : PriceOrder(w, o)
  PROVE  CouponIInv'
  <1>0. /\ OrdersTyped /\ CouponsTyped /\ TasksTyped /\ BooksTyped /\ TaskInOrder(w)
        /\ worker[w] \in Task
    BY CouponTypes DEF CouponIInv, TasksTyped
  <1>1. UNCHANGED <<order, template, revived, stranded, edits>>
    BY DEF QualifyOrder, GrantReward, PriceOrder
  <1>2. ASSUME UNCHANGED <<coupon, referral, faults>>, TasksTyped', CalmTask(w),
               \A x \in Workers \ {w} : worker'[x] = worker[x]
        PROVE  CouponIInv'
    <2>1. CouponsTyped' /\ BooksTyped' /\ \A c \in Coupons : SameCoupon(c)
      BY <1>0, <1>1, <1>2 DEF CouponsTyped, BooksTyped, SameCoupon
    <2>2. \A x \in Workers : CalmTask(x) BY <1>2 DEF CalmTask
    <2> QED BY <1>1, <1>2, <2>1, <2>2, CalmCoupons
  <1>3. ASSUME NEW o \in Orders, PriceOrder(w, o) PROVE CouponIInv'
    <2>1. PICK c \in UsableFor(Buyer[o]) \cup {NoCoupon} : Begin(w, "reserve", o, c)
      BY <1>3 DEF PriceOrder
    <2>2. c \in Coupons \cup {NoCoupon} /\ "reserve" \in Steps BY DEF UsableFor, Steps
    <2>3. /\ TasksTyped' /\ TaskBecomes(w, worker'[w])
          /\ worker'[w].pc = "reserve" /\ worker'[w].order = o
      BY <1>0, <2>1, <2>2, TaskBegins
    <2>4. CalmTask(w) BY <1>3, <2>3 DEF PriceOrder, Idle, CalmTask, Harmless
    <2> QED BY <1>2, <1>3, <2>3, <2>4 DEF PriceOrder, TaskBecomes
  <1>4. ASSUME QualifyOrder(w) PROVE CouponIInv'
    <2>0. /\ worker[w].pc = "qualify" /\ worker[w].order \in Orders
          /\ order[worker[w].order].status # "absent"
      BY <1>0, <1>4 DEF QualifyOrder, TaskInOrder
    <2>1. CASE Finish(w)
      <3>1. TasksTyped' /\ TaskBecomes(w, NoTask) BY <1>0, <2>1, TaskEnds
      <3>2. CalmTask(w) BY <2>0, <3>1, CouponConstants DEF TaskBecomes, CalmTask, Harmless
      <3> QED BY <1>2, <1>4, <3>1, <3>2 DEF QualifyOrder, TaskBecomes
    <2>2. ASSUME NEW u \in Customers,
                 worker' = [worker EXCEPT ![w].pc = "reward", ![w].coupon = referral[u].welcome]
          PROVE  CouponIInv'
      <3>0. referral[u].welcome \in Coupons \cup {NoCoupon}
        BY <1>0 DEF BooksTyped, ReferralRow
      <3> DEFINE t == [worker[w] EXCEPT !.pc = "reward", !.coupon = referral[u].welcome]
      <3>1. t \in Task /\ t.pc = "reward" /\ t.order = worker[w].order
        BY <1>0, <3>0 DEF Task, Steps
      <3>2. worker' = [worker EXCEPT ![w] = t] BY <1>0, <2>2 DEF TasksTyped
      <3> HIDE DEF t
      <3>3. TasksTyped' /\ TaskBecomes(w, t) BY <1>0, <3>1, <3>2, TaskWrite
      <3>4. CalmTask(w) BY <2>0, <3>1, <3>3 DEF TaskBecomes, CalmTask, Harmless
      <3> QED BY <1>2, <1>4, <3>3, <3>4 DEF QualifyOrder, TaskBecomes
    <2>3. Buyer[worker[w].order] \in Customers BY <2>0, CouponConstants
    <2> QED BY <1>4, <2>1, <2>2, <2>3 DEF QualifyOrder
  <1>5. ASSUME GrantReward(w) PROVE CouponIInv'
    <2>0. worker[w].pc = "reward" /\ worker[w].order \in Orders /\ Finish(w)
      BY <1>0, <1>5 DEF GrantReward, TaskInOrder
    <2>1. TasksTyped' /\ TaskBecomes(w, NoTask) BY <1>0, <2>0, TaskEnds
    <2>2. CalmTask(w) BY <2>0, <2>1, CouponConstants DEF TaskBecomes, CalmTask, Harmless
    <2>3. CASE Fault /\ UNCHANGED <<coupon, referral>>
      <3>1. CouponsTyped' /\ BooksTyped' /\ \A c \in Coupons : SameCoupon(c)
        BY <1>0, <1>1, <2>3, Faults DEF CouponsTyped, BooksTyped, SameCoupon
      <3>2. \A x \in Workers : CalmTask(x) BY <2>1, <2>2 DEF CalmTask, TaskBecomes
      <3> QED BY <1>1, <2>1, <3>1, <3>2, CalmCoupons
    <2>4. ASSUME NEW u \in Customers, NEW o \in Orders, NEW old \in Coupons \cup {NoCoupon},
                 NEW new \in {1, 2}, new = (IF old = NoCoupon THEN 2 ELSE 1),
                 UNCHANGED faults, NEW granted \in SUBSET Fresh, NEW c \in granted,
                 NEW welcome, new = 2 => welcome \in Coupons,
                 RewardWritten(o, u, old, new, granted, c, welcome)
          PROVE  CouponIInv'
      <3> USE DEF RewardWritten
      <3>1. granted \subseteq Coupons /\ \A d \in granted : coupon[d].status = "absent"
        BY DEF Fresh
      <3> DEFINE next == IF new = 2 THEN welcome ELSE old
                 row == [status |-> "rewarded", reward |-> c, order |-> o, welcome |-> next]
      <3>2. next \in Coupons \cup {NoCoupon} BY <2>4
      <3> HIDE DEF next
      <3>3. row \in ReferralRow BY <2>4, <3>1, <3>2 DEF ReferralRow
      <3>4. referral' = [referral EXCEPT ![u] = row] BY <2>4 DEF next
      <3> HIDE DEF row
      <3>5. BooksTyped' BY <1>0, <1>1, <2>4, <3>3, <3>4 DEF BooksTyped
      <3> DEFINE first == Issued(InvitedBy[u], "inviter", u)
                 second == Issued(u, "invitee", u)
      <3>6. /\ first \in CouponRow /\ first.status = "unused" /\ first.order = NoOrder
            /\ second \in CouponRow /\ second.status = "unused" /\ second.order = NoOrder
        BY IssuedRows, CouponConstants
      <3>7. coupon' = [d \in Coupons |-> CASE d = c -> first [] d \in granted \ {c} -> second
                                           [] OTHER -> coupon[d]]
        BY <2>4
      <3> HIDE DEF first, second
      <3>8. /\ \A d \in granted : coupon'[d] \in {first, second}
            /\ \A d \in Coupons \ granted : coupon'[d] = coupon[d]
            /\ DOMAIN coupon' = Coupons /\ coupon' = [d \in Coupons |-> coupon'[d]]
        BY <2>4, <3>1, <3>7
      <3>9. CouponsTyped' BY <1>0, <3>6, <3>8 DEF CouponsTyped
      <3>10. \A d \in Coupons : SameCoupon(d) \/ NewCoupon(d)
        BY <3>1, <3>6, <3>8 DEF SameCoupon, NewCoupon
      <3>11. \A x \in Workers : CalmTask(x) BY <2>1, <2>2 DEF CalmTask, TaskBecomes
      <3> QED BY <1>1, <2>1, <3>5, <3>9, <3>10, <3>11, CalmCoupons
    <2>5. CASE ~(Fault /\ UNCHANGED <<coupon, referral>>)
      <3> DEFINE Chosen(new, granted, c) == CHOOSE d \in granted : new = 1 \/ d # c
                 Granting(o, u, old, new) ==
                   \E granted \in SUBSET Fresh : \E c \in granted :
                      RewardWritten(o, u, old, new, granted, c, Chosen(new, granted, c))
      <3>1. Granting(worker[w].order, Buyer[worker[w].order], worker[w].coupon,
                     IF worker[w].coupon = NoCoupon THEN 2 ELSE 1)
        BY <1>5, <2>5, Zenon DEF GrantReward, RewardWritten
      <3>2. UNCHANGED faults BY <1>5, <2>5 DEF GrantReward
      <3> HIDE DEF Granting
      <3> SUFFICES ASSUME NEW o, o = worker[w].order, NEW u, u = Buyer[o],
                          NEW old, old = worker[w].coupon,
                          NEW new, new = (IF old = NoCoupon THEN 2 ELSE 1),
                          Granting(o, u, old, new)
                   PROVE  CouponIInv'
        BY <3>1
      <3>3. o \in Orders /\ u \in Customers /\ old \in Coupons \cup {NoCoupon} /\ new \in {1, 2}
        BY <1>0, <2>0, CouponConstants DEF Task
      <3>4. PICK granted \in SUBSET Fresh : \E c \in granted :
              RewardWritten(o, u, old, new, granted, c, Chosen(new, granted, c))
        BY DEF Granting
      <3>5. PICK c \in granted :
              RewardWritten(o, u, old, new, granted, c, Chosen(new, granted, c))
        BY <3>4
      <3> SUFFICES ASSUME NEW welcome, welcome = Chosen(new, granted, c) PROVE CouponIInv'
        OBVIOUS
      <3>6. RewardWritten(o, u, old, new, granted, c, welcome) BY <3>5
      <3>7. new = 2 => welcome \in Coupons
        <4> SUFFICES ASSUME new = 2 PROVE welcome \in Coupons OBVIOUS
        <4>1. PICK d \in granted : d # c
          <5>1. Cardinality(granted) = 2 BY <3>6 DEF RewardWritten
          <5>2. Cardinality({c}) = 1 BY FS_Singleton
          <5>3. granted # {c} BY <5>1, <5>2
          <5> QED BY <5>3
        <4>2. welcome \in granted BY <4>1
        <4> QED BY <4>2 DEF Fresh
      <3> HIDE DEF Chosen
      <3> QED BY <2>4, <3>2, <3>3, <3>6, <3>7
    <2> QED BY <2>3, <2>5
  <1> QED BY <1>3, <1>4, <1>5

-------------------------------------------------------------------------------
(* Coupons: steps of an order *)

\* What giving an order's coupon back does: no coupon is kept for the order any more.
LEMMA Releases ==
  ASSUME CouponIInv, NEW o \in Orders, coupon' = ReleaseForOrder(o)
  PROVE  /\ CouponsTyped' /\ \A c \in Coupons : CouponInOrder(c)'
         /\ \A c \in Coupons : SameCoupon(c) \/ coupon[c].order = o
         /\ \A c \in Coupons : SameCoupon(c) \/ coupon'[c].order = NoOrder
         /\ \A c \in Coupons : ~KeptFor(c, o)'
  <1>0. CouponsTyped BY CouponTypes DEF CouponIInv
  <1>1. ASSUME NEW c \in Coupons
        PROVE  /\ coupon'[c] \in CouponRow
               /\ \/ coupon'[c] = coupon[c] /\ ~KeptFor(c, o)
                  \/ /\ coupon'[c].status = "unused" /\ coupon'[c].order = NoOrder
                     /\ coupon[c].order = o
    <2> DEFINE row == [coupon[c] EXCEPT !.status = "unused", !.order = NoOrder]
    <2>1. coupon[c] \in CouponRow BY <1>0 DEF CouponsTyped
    <2>2. row \in CouponRow /\ row.status = "unused" /\ row.order = NoOrder
      BY <2>1 DEF CouponRow, CouponStatuses
    <2>3. coupon'[c] = IF coupon[c].order = o /\ coupon[c].status = "reserved" THEN row ELSE coupon[c]
      BY DEF ReleaseForOrder
    <2> HIDE DEF row
    <2> QED BY <2>1, <2>2, <2>3 DEF KeptFor
  <1>2. coupon' = [c \in Coupons |-> coupon'[c]] BY DEF ReleaseForOrder
  <1>3. CouponsTyped' BY <1>1, <1>2 DEF CouponsTyped
  <1> QED BY <1>1, <1>3, CouponConstants DEF CouponIInv, CouponInOrder, SameCoupon, KeptFor

\* A coupon that is left alone.
LEMMA CouponsAlone ==
  ASSUME CouponIInv, UNCHANGED coupon
  PROVE  /\ CouponsTyped' /\ \A c \in Coupons : CouponInOrder(c)' /\ SameCoupon(c)
         /\ \A c \in Coupons, o \in Orders : KeptFor(c, o)' <=> KeptFor(c, o)
  BY CouponTypes DEF CouponIInv, CouponsTyped, CouponInOrder, SameCoupon, KeptFor

\* Steps of an order without a task: payments, the closing job, administrators.
LEMMA Decisions ==
  ASSUME CouponIInv, NEW o \in Orders, Pay(o) \/ CloseOrder(o) \/ ForceApply(o) \/ ForceClose(o)
  PROVE  CouponIInv'
  <1>0. OrdersTyped /\ CouponsTyped /\ TasksTyped /\ BooksTyped BY CouponTypes DEF CouponIInv
  <1>1. UNCHANGED <<template, referral, worker, faults, edits>>
    BY DEF Pay, CloseOrder, ForceApply, ForceClose
  <1>2. /\ OrdersTyped' /\ order'[o].coupon = order[o].coupon
        /\ \A p \in Orders \ {o} : order'[p] = order[p]
        /\ order'[o].status # "absent" /\ order[o].status # "absent"
    <2>1. PICK st \in OrderStatuses \ {"absent"} :
             order' = [order EXCEPT ![o].status = st] /\ order[o].status # "absent"
      BY DEF Pay, CloseOrder, ForceApply, ForceClose, OrderStatuses
    <2> QED BY <1>0, <2>1, StatusWrite DEF OrderMoves
  <1>3. /\ revived \subseteq revived' /\ stranded \subseteq stranded'
        /\ TasksTyped' /\ BooksTyped'
    BY <1>0, <1>1 DEF Pay, CloseOrder, ForceApply, ForceClose, TasksTyped, BooksTyped
  <1>4. /\ CouponsTyped' /\ \A c \in Coupons : CouponInOrder(c)'
        /\ \A c \in Coupons : SameCoupon(c) \/ coupon[c].order = o
        /\ \A c \in Coupons : SameCoupon(c) \/ coupon'[c].order = NoOrder
        /\ \A c \in Coupons : KeptFor(c, o)' => KeptFor(c, o)
    <2>1. UNCHANGED coupon \/ coupon' = ReleaseForOrder(o)
      BY DEF Pay, CloseOrder, ForceApply, ForceClose
    <2> QED BY <2>1, Releases, CouponsAlone
  <1>5. \A w \in Workers : worker'[w].order = o => TaskInOrder(w)'
    <2> SUFFICES ASSUME NEW w \in Workers, worker'[w].order = o PROVE TaskInOrder(w)' OBVIOUS
    <2>1. TaskInOrder(w) /\ worker'[w] = worker[w] /\ worker[w].order = o
      BY <1>1 DEF CouponIInv
    <2>2. worker[w].pc = "release" =>
             order'[o].status \in {"ended", "failed", "review", "deleted"} \/ o \in revived'
      <3>1. /\ OrdersTyped /\ o \in DOMAIN order BY <1>0 DEF OrdersTyped
      <3>2. CASE ForceApply(o) BY <3>2 DEF ForceApply
      <3>3. CASE ~ForceApply(o)
        <4>1. order'[o].status \in {"paid", "review", "ended"}
              /\ (order'[o].status = "paid" => order[o].status = "pending")
          BY <1>0, <3>3 DEF OrdersTyped, OrderRow, Pay, CloseOrder, ForceClose
        <4> QED BY <1>3, <2>1, <4>1 DEF TaskInOrder
      <3> QED BY <3>2, <3>3
    <2> QED BY <1>2, <1>3, <1>4, <2>1, <2>2 DEF TaskInOrder
  <1>6. Discounted(o)' => Backed(o)'
    <2> SUFFICES ASSUME Discounted(o)' PROVE Backed(o)' OBVIOUS
    <2>1. Pay(o) /\ order[o].status = "pending"
      BY <1>0 DEF Discounted, OrdersTyped, OrderRow, Pay, CloseOrder, ForceApply, ForceClose
    <2>2. Discounted(o) BY <1>1, <1>2, <2>1 DEF Discounted, Pay
    <2> QED BY <1>2, <2>1, <2>2 DEF CouponIInv, Backed, Pay
  <1>7. \A c \in Coupons : KeptFor(c, o)' /\ order'[o].status \in {"failed", "ended", "deleted"}
                              => ComesBack(o)'
    <2>1. CASE Pay(o)
      <3>1. order'[o].status \in {"paid", "review"}
        BY <1>0, <2>1 DEF OrdersTyped, OrderRow, Pay
      <3> QED BY <3>1
    <2>2. CASE CloseOrder(o) BY <2>2, Releases DEF CloseOrder
    <2>3. CASE ForceApply(o)
      BY <1>0, <2>3 DEF OrdersTyped, OrderRow, ForceApply
    <2>4. CASE ForceClose(o) BY <2>4 DEF ForceClose, ComesBack
    <2> QED BY <2>1, <2>2, <2>3, <2>4
  <1> QED BY <1>1, <1>2, <1>3, <1>4, <1>5, <1>6, <1>7, <1>0, OrderKeeps

\* An order that ends or is applied by a task, which then sees to its coupon.
LEMMA Endings ==
  ASSUME CouponIInv, NEW w \in Workers, NEW o \in Orders,
         CancelOrder(w, o) \/ FailApply(w, o) \/ ApplyOrder(w, o)
  PROVE  CouponIInv'
  <1>0. OrdersTyped /\ CouponsTyped /\ TasksTyped /\ BooksTyped BY CouponTypes DEF CouponIInv
  <1>1. UNCHANGED <<coupon, template, referral, revived, stranded, faults, edits>>
        /\ worker[w].pc = "idle"
    BY DEF CancelOrder, FailApply, ApplyOrder, Idle
  <1>2. PICK st \in {"ended", "failed", "applied"}, pc \in {"release", "consume"} :
          /\ order' = [order EXCEPT ![o].status = st] /\ Begin(w, pc, o, NoCoupon)
          /\ st = "applied" <=> pc = "consume"
          /\ order[o].status \in {"pending", "paid"}
    BY DEF CancelOrder, FailApply, ApplyOrder
  <1>3. /\ OrdersTyped' /\ order'[o].coupon = order[o].coupon /\ order'[o].status = st
        /\ \A p \in Orders \ {o} : order'[p] = order[p]
    <2>1. st \in OrderStatuses BY DEF OrderStatuses
    <2> QED BY <1>0, <1>2, <2>1, StatusWrite DEF OrderMoves
  <1>4. /\ TasksTyped' /\ worker'[w].pc = pc /\ worker'[w].order = o
        /\ \A x \in Workers \ {w} : worker'[x] = worker[x]
    <2>1. pc \in Steps BY DEF Steps
    <2> QED BY <1>0, <1>2, <2>1, TaskBegins DEF TaskBecomes
  <1>5. BooksTyped' BY <1>0, <1>1 DEF BooksTyped
  <1>6. \A x \in Workers : worker'[x].pc # "idle" /\ worker'[x].order = o => TaskInOrder(x)'
    <2> SUFFICES ASSUME NEW x \in Workers, worker'[x].pc # "idle", worker'[x].order = o
                 PROVE  TaskInOrder(x)'
      OBVIOUS
    <2>1. CASE x = w BY <1>2, <1>3, <1>4, <2>1 DEF TaskInOrder
    <2>2. CASE x # w
      <3>1. TaskInOrder(x) /\ worker'[x] = worker[x] BY <1>4, <2>2 DEF CouponIInv
      <3>2. worker[x].pc = "release" => o \in revived BY <1>2, <3>1 DEF TaskInOrder
      <3> QED BY <1>1, <1>3, <3>1, <3>2, CouponsAlone DEF TaskInOrder
    <2> QED BY <2>1, <2>2
  <1>7. Discounted(o)' => Backed(o)'
    <2> SUFFICES ASSUME Discounted(o)' PROVE Backed(o)' OBVIOUS
    <2>1. \A x \in Workers : worker[x].order = o => worker[x].pc # "erase"
      BY <1>1, <1>4 DEF Discounted
    <2>2. Discounted(o) BY <1>1, <1>2, <1>3, <2>1 DEF Discounted
    <2> QED BY <1>1, <1>3, <2>2 DEF CouponIInv, Backed
  <1>8. order'[o].status \in {"failed", "ended", "deleted"} => ComesBack(o)'
    BY <1>2, <1>3, <1>4 DEF ComesBack
  <1> QED BY <1>0, <1>1, <1>2, <1>3, <1>4, <1>5, <1>6, <1>7, <1>8, CouponsAlone, OrderKeeps

LEMMA Reservations ==
  ASSUME CouponIInv, NEW w \in Workers, ReserveForOrder(w)
  PROVE  CouponIInv'
  <1> SUFFICES ASSUME NEW o, o = worker[w].order, NEW c, c = worker[w].coupon PROVE CouponIInv'
    OBVIOUS
  <1>0. /\ OrdersTyped /\ CouponsTyped /\ TasksTyped /\ BooksTyped
        /\ o \in Orders /\ c \in Coupons \cup {NoCoupon} /\ worker[w].pc = "reserve"
    BY CouponTypes DEF CouponIInv, ReserveForOrder, TaskInOrder, TasksTyped, Task
  <1>1. UNCHANGED <<template, referral, revived, stranded, faults, edits>> /\ BooksTyped'
    BY <1>0 DEF ReserveForOrder, BooksTyped
  <1>2. CASE Finish(w) /\ UNCHANGED <<order, coupon>>
    <2>1. TasksTyped' /\ TaskBecomes(w, NoTask) BY <1>0, <1>2, TaskEnds
    <2>2. \A x \in Workers : CalmTask(x)
      BY <1>0, <2>1, CouponConstants DEF TaskBecomes, CalmTask, Harmless
    <2> QED BY <1>1, <1>2, <2>1, <2>2, CouponsAlone, CalmCoupons
  <1>3. ASSUME order[o].status = "absent", c = NoCoupon \/ StillUnused(c),
               order' = [order EXCEPT ![o] = [@ EXCEPT !.status = "pending", !.coupon = c]],
               coupon' = IF c = NoCoupon THEN coupon
                         ELSE [coupon EXCEPT ![c] = [@ EXCEPT !.status = "reserved", !.order = o]],
               GoTo(w, "gateway")
        PROVE  CouponIInv'
    <2>1. /\ OrdersTyped' /\ order'[o].status = "pending" /\ order'[o].coupon = c
          /\ \A p \in Orders \ {o} : order'[p] = order[p]
      <3> DEFINE row == [order[o] EXCEPT !.status = "pending", !.coupon = c]
      <3>0. order[o] \in OrderRow /\ "pending" \in OrderStatuses
        BY <1>0 DEF OrdersTyped, OrderStatuses
      <3>1. row \in OrderRow /\ row.status = "pending" /\ row.coupon = c
        BY <1>0, <3>0 DEF OrderRow
      <3>2. order' = [order EXCEPT ![o] = row] BY <1>0, <1>3 DEF OrdersTyped
      <3> HIDE DEF row
      <3> QED BY <1>0, <3>1, <3>2 DEF OrdersTyped
    <2>2. CASE c = NoCoupon
      <3>1. UNCHANGED coupon BY <1>3, <2>2
      <3>2. ~Discounted(o)' BY <2>1, <2>2 DEF Discounted
      <3>3. /\ TasksTyped' /\ TaskBecomes(w, worker'[w])
            /\ worker'[w].pc = "gateway" /\ worker'[w].order = o
        BY <1>0, <1>3, TaskGoesOn DEF Steps
      <3>4. \A x \in Workers : worker'[x].pc # "idle" /\ worker'[x].order = o => TaskInOrder(x)'
        <4>1. TaskInOrder(w)' BY <1>0, <2>1, <3>3 DEF TaskInOrder
        <4>2. ASSUME NEW x \in Workers \ {w}, worker'[x].pc # "idle", worker'[x].order = o
              PROVE  TaskInOrder(x)'
          <5>1. worker'[x] = worker[x] /\ worker[x].pc = "reserve"
            BY <1>3, <3>3, <4>2 DEF TaskBecomes, CouponIInv, TaskInOrder
          <5> QED BY <1>0, <4>2, <5>1 DEF TaskInOrder
        <4> QED BY <4>1, <4>2
      <3> QED BY <1>0, <1>1, <2>1, <3>1, <3>2, <3>3, <3>4, CouponsAlone, OrderKeeps DEF TaskBecomes
    <2>3. CASE c # NoCoupon
      <3>0. c \in Coupons /\ coupon[c].status = "unused" BY <1>0, <1>3, <2>3 DEF StillUnused, Applicable
      <3>1. /\ CouponsTyped' /\ coupon'[c].status = "reserved" /\ coupon'[c].order = o
            /\ \A d \in Coupons \ {c} : coupon'[d] = coupon[d]
        <4> DEFINE row == [coupon[c] EXCEPT !.status = "reserved", !.order = o]
        <4>0. coupon[c] \in CouponRow /\ "reserved" \in CouponStatuses
          BY <1>0, <3>0 DEF CouponsTyped, CouponStatuses
        <4>1. row \in CouponRow /\ row.status = "reserved" /\ row.order = o
          BY <1>0, <4>0 DEF CouponRow
        <4>2. coupon' = [coupon EXCEPT ![c] = row] BY <1>0, <1>3, <2>3, <3>0 DEF CouponsTyped
        <4> HIDE DEF row
        <4> QED BY <1>0, <3>0, <4>1, <4>2, CouponWrite
      <3>2. \A d \in Coupons : CouponInOrder(d)'
        BY <1>0, <3>1, CouponConstants DEF CouponIInv, CouponInOrder
      <3>3. \A d \in Coupons : SameCoupon(d) \/ coupon[d].status = "unused"
        BY <3>0, <3>1 DEF SameCoupon
      <3>4. \A d \in Coupons : SameCoupon(d) \/ coupon'[d].order = o BY <3>1 DEF SameCoupon
      <3>5. Backed(o)' BY <2>1, <3>1 DEF Backed
      <3>6. /\ TasksTyped' /\ TaskBecomes(w, worker'[w])
            /\ worker'[w].pc = "gateway" /\ worker'[w].order = o
        BY <1>0, <1>3, TaskGoesOn DEF Steps
      <3>7. \A x \in Workers : worker'[x].pc # "idle" /\ worker'[x].order = o => TaskInOrder(x)'
        <4>1. TaskInOrder(w)' BY <1>0, <2>1, <3>6 DEF TaskInOrder
        <4>2. ASSUME NEW x \in Workers \ {w}, worker'[x].pc # "idle", worker'[x].order = o
              PROVE  TaskInOrder(x)'
          <5>1. worker'[x] = worker[x] /\ worker[x].pc = "reserve"
            BY <1>3, <3>6, <4>2 DEF TaskBecomes, CouponIInv, TaskInOrder
          <5> QED BY <1>0, <4>2, <5>1 DEF TaskInOrder
        <4> QED BY <4>1, <4>2
      <3> QED BY <1>0, <1>1, <2>1, <3>1, <3>2, <3>3, <3>4, <3>5, <3>6, <3>7, OrderKeeps
          DEF TaskBecomes
    <2> QED BY <2>2, <2>3
  <1> QED BY <1>2, <1>3 DEF ReserveForOrder

\* A task of an order goes on or ends, and the order's status with it.
LEMMA TaskSteps ==
  ASSUME CouponIInv, NEW w \in Workers,
         \/ AskGateway(w) \/ UndoReservation(w) \/ EraseOrder(w)
         \/ ReleaseCoupon(w) \/ MarkUsedForOrder(w)
  PROVE  CouponIInv'
  <1> SUFFICES ASSUME NEW o, o = worker[w].order PROVE CouponIInv'
    OBVIOUS
  <1>0. /\ OrdersTyped /\ CouponsTyped /\ TasksTyped /\ BooksTyped /\ TaskInOrder(w)
        /\ o \in Orders /\ order[o].status # "absent" /\ order[o] \in OrderRow
    BY CouponTypes
       DEF CouponIInv, AskGateway, UndoReservation, EraseOrder, ReleaseCoupon, MarkUsedForOrder,
           TaskInOrder, OrdersTyped
  <1>1. UNCHANGED <<template, referral, edits>>
    BY DEF AskGateway, UndoReservation, EraseOrder, ReleaseCoupon, MarkUsedForOrder
  <1>2. /\ revived \subseteq revived' /\ stranded \subseteq stranded' /\ BooksTyped'
    <2>1. faults' \in 0..MaxFaults
      <3>1. UNCHANGED faults \/ Fault
        BY DEF AskGateway, UndoReservation, EraseOrder, ReleaseCoupon, MarkUsedForOrder
      <3> QED BY <1>0, <3>1, Faults DEF BooksTyped
    <2>2. /\ revived' \in {revived, revived \cup {o}} /\ stranded' \in {stranded, stranded \cup {o}}
      BY DEF AskGateway, UndoReservation, EraseOrder, ReleaseCoupon, MarkUsedForOrder
    <2> QED BY <1>0, <1>1, <2>1, <2>2 DEF BooksTyped
  <1>3. /\ OrdersTyped' /\ order'[o].coupon = order[o].coupon
        /\ \A p \in Orders \ {o} : order'[p] = order[p]
        /\ order'[o].status # "absent"
        /\ order'[o].status = order[o].status \/ (EraseOrder(w) /\ order'[o].status = "deleted")
    <2>1. CASE EraseOrder(w) /\ order' = [order EXCEPT ![o].status = "deleted"]
      <3>1. "deleted" \in OrderStatuses BY DEF OrderStatuses
      <3>2. OrderMoves(o, "deleted") BY <1>0, <2>1, <3>1, StatusWrite
      <3>3. order'[o].status = "deleted" BY <3>2 DEF OrderMoves
      <3> QED BY <2>1, <3>2, <3>3 DEF OrderMoves
    <2>2. CASE UNCHANGED order BY <1>0, <2>2 DEF OrdersTyped
    <2>3. CASE order' = [order EXCEPT ![o].trade = TRUE]
      BY <1>0, <2>3 DEF OrdersTyped, OrderRow
    <2> QED BY <2>1, <2>2, <2>3
        DEF AskGateway, UndoReservation, EraseOrder, ReleaseCoupon, MarkUsedForOrder
  <1>4. PICK t : /\ TasksTyped' /\ TaskBecomes(w, t) /\ worker'[w] = t
                 /\ \/ t.pc = "idle" /\ ~UndoReservation(w) /\ ~MarkUsedForOrder(w)
                    \/ t.order = o /\ t.pc = "unreserve" /\ AskGateway(w)
                    \/ t.order = o /\ t.pc = "erase" /\ UndoReservation(w)
                    \/ t.order = o /\ t.pc = "qualify" /\ MarkUsedForOrder(w)
    <2>1. \/ Finish(w) /\ ~UndoReservation(w) /\ ~MarkUsedForOrder(w)
          \/ GoTo(w, "unreserve") /\ AskGateway(w)
          \/ GoTo(w, "erase") /\ UndoReservation(w)
          \/ GoTo(w, "qualify") /\ MarkUsedForOrder(w)
      BY DEF AskGateway, UndoReservation, EraseOrder, ReleaseCoupon, MarkUsedForOrder
    <2>2. CASE Finish(w) /\ ~UndoReservation(w) /\ ~MarkUsedForOrder(w)
      BY <1>0, <2>2, TaskEnds, CouponConstants DEF TaskBecomes
    <2>3. {"unreserve", "erase", "qualify"} \subseteq Steps BY DEF Steps
    <2> QED BY <1>0, <2>1, <2>2, <2>3, TaskGoesOn
  <1>5. /\ CouponsTyped' /\ \A c \in Coupons : CouponInOrder(c)'
        /\ \A c \in Coupons : SameCoupon(c) \/ coupon[c].order = o
        /\ \A c \in Coupons : SameCoupon(c) \/ coupon'[c].order \in {o, NoOrder}
        /\ \A c \in Coupons : KeptFor(c, o)' => KeptFor(c, o)
        /\ MarkUsedForOrder(w) => \A c \in Coupons : coupon'[c].order = coupon[c].order
        /\ MarkUsedForOrder(w) => \A c \in Coupons :
              coupon[c].status = "revoked" => coupon'[c].status = "revoked"
    <2>1. CASE UNCHANGED coupon
      <3>1. coupon' = coupon BY <2>1
      <3>2. /\ CouponsTyped' /\ \A c \in Coupons : CouponInOrder(c)'
            /\ \A c \in Coupons : KeptFor(c, o)' => KeptFor(c, o)
        BY <1>0, <2>1, CouponsAlone
      <3>3. \A c \in Coupons : coupon'[c].order = coupon[c].order
                             /\ coupon'[c].status = coupon[c].status
        BY <3>1
      <3> QED BY <3>2, <3>3 DEF SameCoupon
    <2>2. CASE coupon' = ReleaseForOrder(o) /\ ~MarkUsedForOrder(w) BY <1>0, <2>2, Releases
    <2>3. CASE coupon' = [c \in Coupons |->
                IF coupon[c].order = o /\ coupon[c].status = "reserved"
                THEN [coupon[c] EXCEPT !.status = "used"] ELSE coupon[c]]
      <3>1. ASSUME NEW c \in Coupons
            PROVE  /\ coupon'[c] \in CouponRow /\ coupon'[c].order = coupon[c].order
                   /\ \/ coupon'[c] = coupon[c]
                      \/ /\ coupon[c].order = o /\ coupon[c].status = "reserved"
                         /\ coupon'[c].status = "used"
        <4> DEFINE row == [coupon[c] EXCEPT !.status = "used"]
        <4>1. coupon[c] \in CouponRow BY <1>0 DEF CouponsTyped
        <4>2. row \in CouponRow /\ row.status = "used" /\ row.order = coupon[c].order
          BY <4>1 DEF CouponRow, CouponStatuses
        <4>3. coupon'[c] = IF coupon[c].order = o /\ coupon[c].status = "reserved" THEN row
                           ELSE coupon[c]
          BY <2>3
        <4> HIDE DEF row
        <4> QED BY <4>1, <4>2, <4>3
      <3>2. coupon' = [c \in Coupons |-> coupon'[c]] BY <2>3
      <3>3. CouponsTyped' BY <3>1, <3>2 DEF CouponsTyped
      <3> QED BY <3>1, <3>3 DEF CouponIInv, CouponInOrder, SameCoupon, KeptFor
    <2> QED BY <2>1, <2>2, <2>3
        DEF AskGateway, UndoReservation, EraseOrder, ReleaseCoupon, MarkUsedForOrder
  <1>6. \A x \in Workers : worker'[x].pc # "idle" /\ worker'[x].order = o => TaskInOrder(x)'
    <2> SUFFICES ASSUME NEW x \in Workers, worker'[x].pc # "idle", worker'[x].order = o
                 PROVE  TaskInOrder(x)'
      OBVIOUS
    <2>1. CASE x # w
      <3>1. TaskInOrder(x) /\ worker'[x] = worker[x] BY <1>4, <2>1 DEF CouponIInv, TaskBecomes
      <3> QED BY <1>0, <1>2, <1>3, <1>5, <3>1 DEF TaskInOrder
    <2>2. CASE x = w
      <3>1. t.pc = "erase" => o \in stranded' \/ \A c \in Coupons : ~KeptFor(c, o)'
        <4> SUFFICES ASSUME UndoReservation(w)
                     PROVE  o \in stranded' \/ \A c \in Coupons : ~KeptFor(c, o)'
          BY <1>4
        <4> QED BY <1>0, Releases DEF UndoReservation
      <3> QED BY <1>0, <1>3, <1>4, <2>2, <3>1 DEF TaskInOrder
    <2> QED BY <2>1, <2>2
  <1>7. Discounted(o)' => Backed(o)'
    <2> SUFFICES ASSUME Discounted(o)' PROVE Backed(o)' OBVIOUS
    <2>1. order'[o].status = order[o].status /\ order[o].status \in {"pending", "paid", "applied"}
      BY <1>3 DEF Discounted
    <2>2. ~UndoReservation(w)
      <3> SUFFICES ASSUME UndoReservation(w) PROVE FALSE OBVIOUS
      <3>1. worker[w].pc = "unreserve" BY DEF UndoReservation
      <3>2. ~AskGateway(w) /\ ~MarkUsedForOrder(w)
        BY <3>1 DEF AskGateway, MarkUsedForOrder
      <3>3. worker'[w].pc = "erase" /\ worker'[w].order = o BY <1>4, <3>2
      <3> QED BY <3>3 DEF Discounted
    <2>3. ~EraseOrder(w)
      <3> SUFFICES ASSUME EraseOrder(w) PROVE FALSE OBVIOUS
      <3>1. o \in revived' \/ order' = [order EXCEPT ![o].status = "deleted"] BY DEF EraseOrder
      <3>2. order' = [order EXCEPT ![o].status = "deleted"] BY <3>1 DEF Discounted
      <3>3. order'[o].status = "deleted" BY <1>0, <3>2 DEF OrdersTyped, OrderRow
      <3> QED BY <2>1, <3>3
    <2>4. ~ReleaseCoupon(w)
      <3> SUFFICES ASSUME ReleaseCoupon(w) PROVE FALSE OBVIOUS
      <3>1. o \in revived BY <1>0, <2>1 DEF ReleaseCoupon, TaskInOrder
      <3> QED BY <1>2, <3>1 DEF Discounted
    <2>5. AskGateway(w) \/ MarkUsedForOrder(w) BY <2>2, <2>3, <2>4
    <2>6. Discounted(o)
      <3>1. \A x \in Workers : worker[x].order = o => worker[x].pc # "erase"
        BY <1>4, <2>5 DEF Discounted, TaskBecomes, AskGateway, MarkUsedForOrder
      <3> QED BY <1>2, <1>3, <2>1, <3>1 DEF Discounted
    <2>7. Backed(o) BY <1>0, <2>6 DEF CouponIInv
    <2>8. order[o].coupon \in Coupons BY <1>0, <2>6 DEF Discounted, OrderRow
    <2> SUFFICES ASSUME NEW c \in Coupons, c = order[o].coupon PROVE Backed(o)'
      BY <2>8
    <2>9. (coupon[c].order = o => coupon'[c].order = o)
          /\ (coupon[c].status = "revoked" => coupon'[c].status = "revoked")
      BY <1>5, <2>5 DEF AskGateway
    <2> QED BY <1>3, <2>7, <2>9 DEF Backed
  <1>8. ASSUME NEW c \in Coupons, KeptFor(c, o)', order'[o].status \in {"failed", "ended", "deleted"}
        PROVE  ComesBack(o)'
    <2>1. KeptFor(c, o) BY <1>5, <1>8
    <2>2. CASE EraseOrder(w) BY <1>0, <1>2, <2>1, <2>2 DEF EraseOrder, TaskInOrder, ComesBack
    <2>3. CASE UndoReservation(w)
      BY <1>0, <1>8, <2>3, Releases DEF UndoReservation, ComesBack
    <2>4. CASE ReleaseCoupon(w)
      BY <1>0, <1>8, <2>4, Releases DEF ReleaseCoupon, ComesBack
    <2>5. CASE AskGateway(w) \/ MarkUsedForOrder(w)
      <3>1. order'[o].status = order[o].status
        BY <1>3, <2>5 DEF AskGateway, MarkUsedForOrder, EraseOrder
      <3>2. ComesBack(o) BY <1>0, <1>8, <2>1, <3>1 DEF CouponIInv
      <3>3. worker[w].pc \notin {"release", "unreserve"} BY <2>5 DEF AskGateway, MarkUsedForOrder
      <3> QED BY <1>2, <1>4, <3>2, <3>3 DEF ComesBack, TaskBecomes
    <2> QED BY <2>2, <2>3, <2>4, <2>5
  <1> QED BY <1>0, <1>2, <1>3, <1>4, <1>5, <1>6, <1>7, <1>8, OrderKeeps DEF TaskBecomes

\* A restart: the orders whose coupon a lost task was to give back are stranded, and those a lost
\* task was to erase go on without it.
LEMMA Restarts ==
  ASSUME CouponIInv, Restart
  PROVE  CouponIInv'
  <1>0. OrdersTyped /\ CouponsTyped /\ TasksTyped /\ BooksTyped BY CouponTypes DEF CouponIInv
  <1>1. /\ UNCHANGED <<order, coupon, template, referral, edits>>
        /\ \A w \in Workers : worker'[w] = NoTask
    BY DEF Restart
  <1>2. ASSUME NEW w \in Workers
        PROVE  /\ worker[w].pc \in {"unreserve", "release", "erase"} => worker[w].order \in Orders
               /\ worker[w].pc \in {"unreserve", "release"} => worker[w].order \in stranded'
               /\ worker[w].pc = "erase" => worker[w].order \in revived'
    BY DEF CouponIInv, TaskInOrder, Restart
  <1>3. revived \subseteq revived' /\ stranded \subseteq stranded' BY DEF Restart
  <1>4. revived' \subseteq Orders /\ stranded' \subseteq Orders
    BY <1>0, <1>2 DEF BooksTyped, Restart
  <1>5. BooksTyped'
    <2>1. faults' \in 0..MaxFaults BY <1>0, Faults DEF BooksTyped, Restart
    <2> QED BY <1>0, <1>1, <1>4, <2>1 DEF BooksTyped
  <1>6. TasksTyped' /\ OrdersTyped'
    <2>1. worker' = [w \in Workers |-> NoTask] BY DEF Restart
    <2> QED BY <1>0, <1>1, <2>1, CouponConstants DEF TasksTyped, OrdersTyped
  <1>7. \A w \in Workers : TaskInOrder(w)' BY <1>1, CouponConstants DEF TaskInOrder
  <1>8. \A o \in Orders : Discounted(o)' => Backed(o)'
    <2> SUFFICES ASSUME NEW o \in Orders, Discounted(o)' PROVE Backed(o)' OBVIOUS
    <2>1. Discounted(o) BY <1>1, <1>2, <1>3 DEF Discounted
    <2> QED BY <1>1, <2>1 DEF CouponIInv, Backed
  <1>9. ASSUME NEW c \in Coupons, NEW o \in Orders, KeptFor(c, o)',
               order'[o].status \in {"failed", "ended", "deleted"}
        PROVE  ComesBack(o)'
    <2>1. ComesBack(o) BY <1>1, <1>9, CouponsAlone DEF CouponIInv
    <2> QED BY <1>2, <1>3, <2>1 DEF ComesBack
  <1>10. CouponTypeOK' BY <1>1, <1>0, <1>5, <1>6, CouponsAlone
    DEF CouponTypeOK, OrdersTyped, CouponsTyped, TasksTyped, BooksTyped
  <1> QED BY <1>1, <1>7, <1>8, <1>9, <1>10, CouponsAlone DEF CouponIInv

-------------------------------------------------------------------------------
(* Coupons: the theorems *)

LEMMA CouponStart == CouponInit => CouponIInv
  <1> SUFFICES ASSUME CouponInit PROVE CouponIInv OBVIOUS
  <1>1. OrdersTyped /\ CouponsTyped BY DEF CouponInit, OrdersTyped, CouponsTyped, OrderRow, CouponRow,
                                            OrderStatuses, CouponStatuses
  <1>2. TasksTyped /\ BooksTyped
    BY CouponConstants DEF CouponInit, TasksTyped, BooksTyped, ReferralRow
  <1>3. \A w \in Workers : TaskInOrder(w) BY CouponConstants DEF CouponInit, TaskInOrder
  <1>4. \A c \in Coupons : CouponInOrder(c) BY DEF CouponInit, CouponInOrder
  <1>5. \A o \in Orders : ~Discounted(o) BY DEF CouponInit, Discounted
  <1>6. \A c \in Coupons, o \in Orders : ~KeptFor(c, o) BY DEF CouponInit, KeptFor
  <1> QED BY <1>1, <1>2, <1>3, <1>4, <1>5, <1>6, CouponTypes DEF CouponIInv

LEMMA CouponStep ==
  ASSUME CouponIInv, [CouponNext]_couponVars
  PROVE  CouponIInv'
  <1>1. CASE UNCHANGED couponVars
    BY <1>1 DEF couponVars, CouponIInv, CouponTypeOK, TaskInOrder, CouponInOrder, KeptFor,
                Discounted, Backed, ComesBack
  <1>2. CASE Restart BY <1>2, Restarts
  <1>3. ASSUME NEW t \in Templates, UpdateTemplate(t) PROVE CouponIInv' BY <1>3, Grants
  <1>4. ASSUME NEW u \in Customers,
               RegisterReferral(u) \/ \E t \in Templates : ManualGrant(u, t)
        PROVE  CouponIInv'
    BY <1>4, Grants
  <1>5. ASSUME NEW c \in Coupons, Revoke(c) \/ Expire(c) PROVE CouponIInv'
    BY <1>5, CouponEdits
  <1>6. ASSUME NEW o \in Orders, Pay(o) \/ CloseOrder(o) \/ ForceApply(o) \/ ForceClose(o)
        PROVE  CouponIInv'
    BY <1>6, Decisions
  <1>7. ASSUME NEW w \in Workers, ReserveForOrder(w) PROVE CouponIInv' BY <1>7, Reservations
  <1>8. ASSUME NEW w \in Workers,
               \/ AskGateway(w) \/ UndoReservation(w) \/ EraseOrder(w)
               \/ ReleaseCoupon(w) \/ MarkUsedForOrder(w)
        PROVE  CouponIInv'
    BY <1>8, TaskSteps
  <1>9. ASSUME NEW w \in Workers, QualifyOrder(w) \/ GrantReward(w) PROVE CouponIInv'
    BY <1>9, Rewards
  <1>10. ASSUME NEW w \in Workers, NEW o \in Orders, PriceOrder(w, o) PROVE CouponIInv'
    BY <1>10, Rewards
  <1>11. ASSUME NEW w \in Workers, NEW o \in Orders,
                CancelOrder(w, o) \/ FailApply(w, o) \/ ApplyOrder(w, o)
         PROVE  CouponIInv'
    BY <1>11, Endings
  <1> QED BY <1>1, <1>2, <1>3, <1>4, <1>5, <1>6, <1>7, <1>8, <1>9, <1>10, <1>11 DEF CouponNext

\* For any customers, orders, coupons, tasks and faults, the inductive invariant holds in every
\* reachable state: create_order's reservation, its roll-back, the closing job, the apply engine's
\* release and use, the referral reward, administrators and restarts keep it.
THEOREM CouponInvariant == CouponSpec => []CouponIInv
  BY CouponStart, CouponStep, PTL DEF CouponSpec

\* Every table keeps its rows' types.
THEOREM CouponTypeCorrect == CouponSpec => []CouponTypeOK
  <1>1. CouponIInv => CouponTypeOK BY DEF CouponIInv
  <1> QED BY <1>1, CouponInvariant, PTL

\* An order that goes on with a discount is the order its coupon is kept for (reserve_for_order,
\* release_for_order), unless an administrator let it go on or revoked the coupon.
THEOREM DiscountsAreBacked == CouponSpec => []DiscountBacked
  <1>1. CouponIInv => DiscountBacked
    BY DEF CouponIInv, Discounted, Backed, DiscountBacked
  <1> QED BY <1>1, CouponInvariant, PTL

\* A coupon reserved for an order that came to nothing is on its way back, unless that commit
\* failed or was lost in a restart, or an administrator closed the order.
THEOREM CouponsComeBack == CouponSpec => []CouponComesBack
  <1>1. CouponIInv => CouponComesBack
    <2> SUFFICES ASSUME CouponIInv, NEW c \in Coupons, NEW o, o = coupon[c].order,
                        coupon[c].status = "reserved",
                        order[o].status \in {"failed", "ended", "deleted"}
                 PROVE  ComesBack(o)
      BY DEF CouponComesBack, ComesBack
    <2>1. CouponsTyped BY CouponTypes DEF CouponIInv
    <2>2. o \in Orders
      <3>1. coupon[c] \in CouponRow BY <2>1 DEF CouponsTyped
      <3>2. o # NoOrder BY DEF CouponIInv, CouponInOrder
      <3> QED BY <3>1, <3>2 DEF CouponRow
    <2> QED BY <2>2 DEF CouponIInv, KeptFor
  <1> QED BY <1>1, CouponInvariant, PTL

-------------------------------------------------------------------------------
(* Plans: the inductive invariant *)

SaleRow == [st : Statuses, kind : Kinds, plan : PlanIds \cup {NoPlan}, sold : PlanRow \cup {NoPlan},
            before : Offers \cup {NoPlan}, days : Nat, total : Nat, target : Servers \cup {NoTarget},
            done : {"nothing", "build", "binding"}, forced : BOOLEAN]
RentedRow == [st : {"none", "placeholder", "live"}, plan : PlanIds \cup {NoPlan},
              build : Builds \cup {NoPlan}, trial : BOOLEAN, left : Nat \cup {-1}]
ClockRow == [days : 0..MaxSaleDays, edits : 0..MaxPlanEdits, accidents : 0..MaxAccidents]

\* An order that may be delivered without an administrator's hand, and one that sold a trial so.
Open(row) == row.st \in {"pending", "processing"} /\ ~row.forced
TrialSale(row) ==
    /\ row.st \in {"pending", "processing", "applied"} /\ ~row.forced
    /\ row.kind = "new_purchase" /\ row.sold.type = "trial"

\* What a placed order has kept of its plan.
Sells(o, row) ==
    /\ row.st = "absent" => row = NoSale
    /\ row.st # "absent" => row.plan \in PlanIds /\ row.sold \in PlanRow /\ row.target \in Servers
    /\ row.st # "absent" /\ row.kind = "new_purchase" => row.target = o
    /\ row.st # "absent" /\ row.kind = "upgrade" => row.before \in Offers
    /\ row.done # "nothing" => row.kind \in {"upgrade", "convert"} /\ row.st = "processing"
    /\ row.done = "binding" => row.kind = "upgrade"

\* What an order found at its server, and has left there so far; the server itself may be gone.
Serves(row, server) ==
    Open(row) /\ server.st # "none" =>
        /\ row.kind = "new_purchase" => server.build = row.sold.build
        /\ row.kind = "renew" => server.plan = row.plan
        /\ row.kind \in {"renew", "upgrade"} => ~server.trial
        /\ row.done # "nothing" => server.build = row.sold.build
        /\ row.done = "binding" => server.plan = row.plan
        /\ row.kind = "upgrade" =>
              upgrade_diff_fen(row.before, row.sold.offer, server.left) <= row.total

SalesInOrder ==
    \A o \in Sales : \A row \in {purchase[o]} :
        /\ Sells(o, row)
        /\ row.st # "absent" => \A server \in {rented[row.target]} : Serves(row, server)
        /\ row.st = "applied" /\ TrialSale(row) => owned

\* uk_billing_orders_active_user, and "only once".
OneActive ==
    \A o, p \in Sales : o # p /\ purchase[o].st \in ActiveStatuses =>
        purchase[p].st \notin ActiveStatuses
TrialsApart ==
    \A o, p \in Sales : o # p /\ purchase[o].st = "applied" /\ TrialSale(purchase[o]) =>
        ~TrialSale(purchase[p])

PlansTyped ==
    /\ plan \in [PlanIds -> PlanRow] /\ purchase \in [Sales -> SaleRow]
    /\ rented \in [Servers -> RentedRow] /\ owned \in BOOLEAN /\ clock \in ClockRow

PlanIInv == PlansTyped /\ SalesInOrder /\ OneActive /\ TrialsApart

-------------------------------------------------------------------------------
(* Plans: what an upgrade charges *)

LEMMA QuotientIsNat == ASSUME NEW a \in Nat, NEW d \in Nat \ {0} PROVE a \div d \in Nat
  OBVIOUS

LEMMA QuotientGrows ==
  ASSUME NEW a \in Nat, NEW b \in Nat, a <= b, NEW d \in Nat \ {0} PROVE a \div d <= b \div d
  OBVIOUS

LEMMA ProductIsNat == ASSUME NEW a \in Nat, NEW b \in Nat PROVE a * b \in Nat
  OBVIOUS

LEMMA ProductGrows ==
  ASSUME NEW a \in Nat, NEW b \in Nat, a <= b, NEW k \in Nat PROVE k * a <= k * b
  OBVIOUS

\* The price of an upgrade is a price, and does not grow as the server's days go by.
LEMMA UpgradePrice ==
  ASSUME NEW old \in Offers, NEW new \in Offers, NEW left \in Nat \cup {-1},
         NEW later \in Nat \cup {-1}, later <= left
  PROVE  /\ upgrade_diff_fen(old, new, left) \in Nat
         /\ upgrade_diff_fen(old, new, later) <= upgrade_diff_fen(old, new, left)
  <1> DEFINE dearer == new.price * old.days
             cheaper == old.price * new.days
             d == new.days * old.days
  <1>0. /\ old.price \in Nat \ {0} /\ old.days \in Nat \ {0}
        /\ new.price \in Nat \ {0} /\ new.days \in Nat \ {0}
    BY PlanAssumption
  <1>1. dearer \in Nat /\ cheaper \in Nat BY <1>0, ProductIsNat
  <1>2. d \in Nat \ {0} BY <1>0
  <1>3. \A x : upgrade_diff_fen(old, new, x) =
            IF dearer <= cheaper THEN 0
            ELSE ((dearer - cheaper) * remaining_billable_days(x)) \div d
    BY DEF upgrade_diff_fen
  <1>4. /\ remaining_billable_days(left) \in Nat /\ remaining_billable_days(later) \in Nat
        /\ remaining_billable_days(later) <= remaining_billable_days(left)
    BY DEF remaining_billable_days
  <1> HIDE DEF dearer, cheaper, d
  <1>5. CASE dearer <= cheaper BY <1>3, <1>5
  <1>6. CASE ~(dearer <= cheaper)
    <2> SUFFICES ASSUME NEW k \in Nat, k = dearer - cheaper,
                        NEW a \in Nat, a = remaining_billable_days(later),
                        NEW b \in Nat, b = remaining_billable_days(left), a <= b
                 PROVE  (k * b) \div d \in Nat /\ (k * a) \div d <= (k * b) \div d
      BY <1>1, <1>3, <1>4, <1>6
    <2>1. k * a \in Nat /\ k * b \in Nat /\ k * a <= k * b BY ProductIsNat, ProductGrows
    <2> QED BY <1>2, <2>1, QuotientIsNat, QuotientGrows
  <1> QED BY <1>5, <1>6

-------------------------------------------------------------------------------
(* Plans: the two ways an order and the servers change *)

\* One order changes its row.  Unless it is the active one, nothing happens to the servers but
\* that some are gone.
LEMMA SaleMoves ==
  ASSUME PlanIInv, NEW o \in Sales, NEW row \in SaleRow, purchase' = [purchase EXCEPT ![o] = row],
         plan' \in [PlanIds -> PlanRow], rented' \in [Servers -> RentedRow],
         owned' \in BOOLEAN, owned => owned', clock' \in ClockRow,
         Sells(o, row), row.st # "absent",
         \A server \in RentedRow : server = rented'[row.target] => Serves(row, server),
         row.st = "applied" /\ TrialSale(row) => owned',
         row.st = "applied" => purchase[o].st = "processing",
         row.st \in ActiveStatuses => purchase[o].st \in ActiveStatuses \/ NoneActive(o),
         TrialSale(row) => TrialSale(purchase[o]) \/ (~owned /\ row.st # "applied"),
         \/ purchase[o].st \in ActiveStatuses \/ NoneActive(o)
         \/ \A s \in Servers : rented'[s] = rented[s] \/ rented'[s].st = "none"
  PROVE  PlanIInv'
  <1>0. PlansTyped /\ SalesInOrder /\ OneActive /\ TrialsApart BY DEF PlanIInv
  <1>1. purchase'[o] = row /\ \A p \in Sales \ {o} : purchase'[p] = purchase[p]
    BY <1>0 DEF PlansTyped
  <1>2. PlansTyped' BY <1>0 DEF PlansTyped
  <1>3. OneActive' BY <1>0, <1>1 DEF OneActive, NoneActive
  <1>4. TrialsApart'
    <2> SUFFICES ASSUME NEW p \in Sales, NEW q \in Sales, p # q,
                        NEW a, a = purchase'[p], NEW b, b = purchase'[q],
                        a.st = "applied", TrialSale(a), TrialSale(b)
                 PROVE  FALSE
      BY DEF TrialsApart, TrialSale
    <2>1. CASE p = o
      <3>1. purchase[o].st = "processing" /\ TrialSale(purchase[o]) /\ b = purchase[q]
        BY <1>1, <2>1
      <3>2. purchase[q].st = "applied" BY <1>0, <2>1, <3>1 DEF OneActive, ActiveStatuses, TrialSale
      <3> QED BY <1>0, <2>1, <3>1, <3>2 DEF TrialsApart
    <2>2. CASE p # o
      <3>1. a = purchase[p] BY <1>1, <2>2
      <3>2. owned BY <1>0, <3>1 DEF SalesInOrder
      <3>3. TrialSale(purchase[q]) BY <1>1, <3>2
      <3> QED BY <1>0, <3>1, <3>3 DEF TrialsApart
    <2> QED BY <2>1, <2>2
  <1>5. SalesInOrder'
    <2> SUFFICES ASSUME NEW p \in Sales, NEW r, r = purchase'[p]
                 PROVE  /\ Sells(p, r)
                        /\ r.st # "absent" =>
                              \A server \in {rented'[r.target]} : Serves(r, server)
                        /\ r.st = "applied" /\ TrialSale(r) => owned'
      BY DEF SalesInOrder, Sells, Serves, TrialSale, Open
    <2>1. CASE p = o
      <3>1. r = row /\ row.target \in Servers BY <1>1, <2>1 DEF Sells
      <3>2. rented'[row.target] \in RentedRow BY <3>1
      <3> QED BY <2>1, <3>1, <3>2
    <2>2. CASE p # o
      <3>1. r = purchase[p] BY <1>1, <2>2
      <3>2. Sells(p, r) /\ (r.st # "absent" => \A server \in {rented[r.target]} : Serves(r, server))
            /\ (r.st = "applied" /\ TrialSale(r) => owned)
        BY <1>0, <3>1 DEF SalesInOrder
      <3>3. ASSUME r.st # "absent", NEW server, server = rented'[r.target], Open(r),
                   server.st # "none"
            PROVE  Serves(r, server)
        <4>1. r.st \in ActiveStatuses BY <3>3 DEF Open, ActiveStatuses
        <4>2. purchase[o].st \notin ActiveStatuses /\ ~NoneActive(o)
          BY <1>0, <2>2, <3>1, <4>1 DEF OneActive, NoneActive
        <4>3. r.target \in Servers BY <3>2, <3>3 DEF Sells
        <4>4. server = rented[r.target] BY <3>3, <4>2, <4>3
        <4> QED BY <3>2, <3>3, <4>4
      <3> QED BY <3>2, <3>3 DEF Serves
    <2> QED BY <2>1, <2>2
  <1> QED BY <1>2, <1>3, <1>4, <1>5 DEF PlanIInv

\* The orders stay as they are, and a server keeps all but its days, or is gone.
LEMMA SalesAlone ==
  ASSUME PlanIInv, UNCHANGED purchase,
         plan' \in [PlanIds -> PlanRow], rented' \in [Servers -> RentedRow],
         owned' \in BOOLEAN, owned => owned', clock' \in ClockRow,
         \A s \in Servers :
            \/ rented'[s].st = "none"
            \/ /\ rented'[s].st = rented[s].st /\ rented'[s].plan = rented[s].plan
               /\ rented'[s].build = rented[s].build /\ rented'[s].trial = rented[s].trial
               /\ rented'[s].left <= rented[s].left
  PROVE  PlanIInv'
  <1>0. PlansTyped /\ SalesInOrder /\ OneActive /\ TrialsApart BY DEF PlanIInv
  <1>1. PlansTyped' BY <1>0 DEF PlansTyped
  <1>2. OneActive' /\ TrialsApart' BY <1>0 DEF OneActive, TrialsApart, TrialSale
  <1>3. SalesInOrder'
    <2> SUFFICES ASSUME NEW p \in Sales, NEW r, r = purchase[p]
                 PROVE  /\ Sells(p, r)
                        /\ r.st # "absent" =>
                              \A server \in {rented'[r.target]} : Serves(r, server)
                        /\ r.st = "applied" /\ TrialSale(r) => owned'
      BY DEF SalesInOrder, Sells, Serves, TrialSale, Open
    <2>1. Sells(p, r) /\ (r.st # "absent" => \A server \in {rented[r.target]} : Serves(r, server))
          /\ (r.st = "applied" /\ TrialSale(r) => owned)
      BY <1>0 DEF SalesInOrder
    <2>2. ASSUME r.st # "absent", NEW server, server = rented'[r.target],
                 NEW old, old = rented[r.target], Open(r), server.st # "none"
          PROVE  Serves(r, server)
      <3>1. r.target \in Servers /\ r.sold \in PlanRow /\ (r.kind = "upgrade" => r.before \in Offers)
            /\ r \in SaleRow
        BY <1>0, <2>1, <2>2 DEF Sells, PlansTyped
      <3>2. server \in RentedRow /\ old \in RentedRow BY <1>0, <2>2, <3>1 DEF PlansTyped
      <3>3. /\ server.st = old.st /\ server.plan = old.plan /\ server.build = old.build
            /\ server.trial = old.trial /\ server.left <= old.left
        BY <2>2, <3>1
      <3>4. Serves(r, old) BY <2>1, <2>2
      <3>5. ASSUME r.kind = "upgrade"
            PROVE  upgrade_diff_fen(r.before, r.sold.offer, server.left) <= r.total
        <4> SUFFICES ASSUME NEW a \in Nat \cup {-1}, a = old.left, NEW b \in Nat \cup {-1},
                            b = server.left, b <= a, NEW new \in Offers, new = r.sold.offer,
                            NEW was \in Offers, was = r.before, NEW total \in Nat, total = r.total
                     PROVE  upgrade_diff_fen(was, new, b) <= total
          BY <3>1, <3>2, <3>3, <3>5 DEF RentedRow, PlanRow, SaleRow
        <4>1. upgrade_diff_fen(was, new, a) <= total BY <2>2, <3>3, <3>4, <3>5 DEF Serves
        <4>2. /\ upgrade_diff_fen(was, new, a) \in Nat /\ upgrade_diff_fen(was, new, b) \in Nat
              /\ upgrade_diff_fen(was, new, b) <= upgrade_diff_fen(was, new, a)
          BY UpgradePrice
        <4> QED BY <4>1, <4>2
      <3> QED BY <2>2, <3>3, <3>4, <3>5 DEF Serves
    <2> QED BY <2>1, <2>2 DEF Serves
  <1> QED BY <1>1, <1>2, <1>3 DEF PlanIInv

-------------------------------------------------------------------------------
(* Plans: the steps *)

\* The parts of the invariant about one order and its server.
LEMMA OneSale ==
  ASSUME PlanIInv, NEW o \in Sales, NEW row, row = purchase[o]
  PROVE  /\ row \in SaleRow /\ Sells(o, row)
         /\ row.st # "absent" => \A server : server = rented[row.target] => Serves(row, server)
         /\ row.st = "applied" /\ TrialSale(row) => owned
  BY DEF PlanIInv, PlansTyped, SalesInOrder

LEMMA PlanTypes == PlanIInv => PlansTyped BY DEF PlanIInv

LEMMA Edits ==
  ASSUME PlanIInv, NEW p \in PlanIds, SavePlan(p) \/ delete_plan(p)
  PROVE  PlanIInv'
  <1>0. PlansTyped BY PlanTypes
  <1>1. UNCHANGED <<purchase, rented, owned>> /\ clock' = [clock EXCEPT !.edits = @ + 1]
        /\ clock.edits < MaxPlanEdits
    BY DEF SavePlan, delete_plan, EditPlans
  <1>2. clock' \in ClockRow BY <1>0, <1>1, PlanAssumption DEF PlansTyped, ClockRow
  <1>3. plan' \in [PlanIds -> PlanRow]
    <2>1. CASE SavePlan(p) BY <1>0, <2>1 DEF SavePlan, EditPlans, PlansTyped
    <2>2. CASE delete_plan(p)
      <3>1. plan' = [q \in PlanIds |->
               IF q = p THEN [plan[q] EXCEPT !.st = "deleted", !.link = NoPlan]
               ELSE IF plan[q].link = p THEN [plan[q] EXCEPT !.link = NoPlan] ELSE plan[q]]
        BY <2>2 DEF delete_plan, EditPlans
      <3>2. ASSUME NEW row \in PlanRow
            PROVE  /\ [row EXCEPT !.st = "deleted", !.link = NoPlan] \in PlanRow
                   /\ [row EXCEPT !.link = NoPlan] \in PlanRow
        BY DEF PlanRow
      <3> QED BY <1>0, <3>1, <3>2 DEF PlansTyped
    <2> QED BY <2>1, <2>2
  <1>4. \A s \in Servers : rented[s].left <= rented[s].left
    BY <1>0 DEF PlansTyped, RentedRow
  <1> QED BY <1>0, <1>1, <1>2, <1>3, <1>4, SalesAlone DEF PlansTyped

LEMMA Around ==
  ASSUME PlanIInv, NextDay \/ OwnedOtherwise \/ \E s \in Servers : ServerGone(s)
  PROVE  PlanIInv'
  <1>0. PlansTyped BY PlanTypes
  <1>1. UNCHANGED <<plan, purchase>> /\ owned' \in BOOLEAN /\ (owned => owned')
    BY <1>0 DEF NextDay, OwnedOtherwise, ServerGone, PlansTyped
  <1>2. clock' \in ClockRow
    BY <1>0, PlanAssumption DEF NextDay, OwnedOtherwise, ServerGone, Accident, PlansTyped, ClockRow
  <1>3. ASSUME NEW s \in Servers, NEW old \in RentedRow, old = rented[s]
        PROVE  /\ NotRented \in RentedRow /\ NotRented.st = "none"
               /\ old.left <= old.left
               /\ old.left >= 0 =>
                     /\ [old EXCEPT !.left = @ - 1] \in RentedRow
                     /\ [old EXCEPT !.left = @ - 1].st = old.st
                     /\ [old EXCEPT !.left = @ - 1].plan = old.plan
                     /\ [old EXCEPT !.left = @ - 1].build = old.build
                     /\ [old EXCEPT !.left = @ - 1].trial = old.trial
                     /\ [old EXCEPT !.left = @ - 1].left <= old.left
    BY DEF NotRented, RentedRow
  <1>4. /\ rented' \in [Servers -> RentedRow]
        /\ \A s \in Servers :
              \/ rented'[s].st = "none"
              \/ /\ rented'[s].st = rented[s].st /\ rented'[s].plan = rented[s].plan
                 /\ rented'[s].build = rented[s].build /\ rented'[s].trial = rented[s].trial
                 /\ rented'[s].left <= rented[s].left
    <2>0. rented \in [Servers -> RentedRow] BY <1>0 DEF PlansTyped
    <2>1. CASE NextDay
      <3>1. rented' = [s \in Servers |->
               IF rented[s].st = "live" /\ rented[s].left >= 0
               THEN [rented[s] EXCEPT !.left = @ - 1] ELSE rented[s]]
        BY <2>1 DEF NextDay
      <3>2. ASSUME NEW s \in Servers, NEW old \in RentedRow, old = rented[s]
            PROVE  /\ rented'[s] \in RentedRow
                   /\ rented'[s].st = old.st /\ rented'[s].plan = old.plan
                   /\ rented'[s].build = old.build /\ rented'[s].trial = old.trial
                   /\ rented'[s].left <= old.left
        <4>1. rented'[s] = IF old.st = "live" /\ old.left >= 0 THEN [old EXCEPT !.left = @ - 1]
                           ELSE old
          BY <3>1, <3>2
        <4> QED BY <1>3, <3>2, <4>1
      <3>3. \A s \in Servers :
               /\ rented'[s] \in RentedRow
               /\ rented'[s].st = rented[s].st /\ rented'[s].plan = rented[s].plan
               /\ rented'[s].build = rented[s].build /\ rented'[s].trial = rented[s].trial
               /\ rented'[s].left <= rented[s].left
        BY <2>0, <3>2
      <3>4. rented' = [s \in Servers |-> rented'[s]] BY <3>1
      <3>5. rented' \in [Servers -> RentedRow] BY <3>3, <3>4
      <3> QED BY <3>3, <3>5
    <2>2. CASE OwnedOtherwise
      BY <1>3, <2>0, <2>2 DEF OwnedOtherwise
    <2>3. ASSUME NEW g \in Servers, ServerGone(g)
          PROVE  /\ rented' \in [Servers -> RentedRow]
                 /\ \A s \in Servers : rented'[s].st = "none"
                       \/ (rented'[s] = rented[s] /\ rented[s].left <= rented[s].left)
      <3>1. rented' = [rented EXCEPT ![g] = NotRented] BY <2>3 DEF ServerGone
      <3> QED BY <1>3, <2>0, <3>1
    <2> QED BY <2>1, <2>2, <2>3
  <1> QED BY <1>0, <1>1, <1>2, <1>4, SalesAlone DEF PlansTyped

\* The row of an order that is placed, and what it says.
RowPlaced(kind, p, sold, s, days, total, before) ==
    [NoSale EXCEPT !.st = "pending", !.kind = kind, !.plan = p, !.sold = sold,
                   !.days = days, !.total = total, !.target = s, !.before = before]

LEMMA PlacedRow ==
  ASSUME NEW o \in Sales, NEW kind \in Kinds, NEW p \in PlanIds, NEW sold \in PlanRow,
         NEW s \in Servers, NEW days \in Nat, NEW total \in Nat, NEW before \in Offers \cup {NoPlan},
         kind = "new_purchase" => s = o, kind = "upgrade" => before \in Offers,
         NEW row, row = RowPlaced(kind, p, sold, s, days, total, before)
  PROVE  /\ row \in SaleRow /\ Sells(o, row)
         /\ row.st = "pending" /\ row.kind = kind /\ row.plan = p /\ row.sold = sold
         /\ row.target = s /\ row.total = total /\ row.before = before
         /\ row.done = "nothing" /\ ~row.forced
  <1> DEFINE new == [st |-> "pending", kind |-> kind, plan |-> p, sold |-> sold, before |-> before,
                     days |-> days, total |-> total, target |-> s, done |-> "nothing", forced |-> FALSE]
  <1>1. row = new BY DEF NoSale, RowPlaced
  <1>2. "pending" \in Statuses BY DEF Statuses
  <1>3. new \in SaleRow BY <1>2 DEF SaleRow
  <1>4. /\ new.st = "pending" /\ new.kind = kind /\ new.plan = p /\ new.sold = sold
        /\ new.target = s /\ new.total = total /\ new.before = before
        /\ new.done = "nothing" /\ ~new.forced
    OBVIOUS
  <1> HIDE DEF new
  <1>5. Sells(o, new) BY <1>4 DEF Sells
  <1> QED BY <1>1, <1>3, <1>4, <1>5

\* An order is placed for a server that suits it.
LEMMA Placing ==
  ASSUME PlanIInv, NEW o \in Sales, NEW kind \in Kinds, NEW p \in PlanIds,
         NEW s \in Servers, NEW days \in Nat, NEW total \in Nat, NEW before \in Offers \cup {NoPlan},
         kind = "new_purchase" => s = o, kind = "upgrade" => before \in Offers,
         Placed(o, kind, p, s, days, total, before),
         rented' \in [Servers -> RentedRow],
         kind = "new_purchase" => rented'[s].build = plan[p].build,
         kind = "new_purchase" /\ plan[p].type = "trial" => ~owned,
         kind = "renew" => rented'[s].plan = p,
         kind \in {"renew", "upgrade"} => ~rented'[s].trial,
         kind = "upgrade" => upgrade_diff_fen(before, plan[p].offer, rented'[s].left) <= total
  PROVE  PlanIInv'
  <1>0. PlansTyped BY PlanTypes
  <1> DEFINE sold == plan[p]
  <1>1. sold \in PlanRow BY <1>0 DEF PlansTyped
  <1> DEFINE row == RowPlaced(kind, p, sold, s, days, total, before)
  <1>2. purchase' = [purchase EXCEPT ![o] = row] /\ purchase[o].st = "absent" /\ NoneActive(o)
        /\ UNCHANGED <<plan, owned, clock>>
    BY DEF Placed, RowPlaced
  <1>3. /\ row \in SaleRow /\ Sells(o, row)
        /\ row.st = "pending" /\ row.kind = kind /\ row.plan = p /\ row.sold = sold
        /\ row.target = s /\ row.total = total /\ row.before = before
        /\ row.done = "nothing" /\ ~row.forced
    BY <1>1, PlacedRow
  <1> HIDE DEF row
  <1>4. \A server \in RentedRow : server = rented'[row.target] => Serves(row, server)
    BY <1>3 DEF Serves, sold
  <1>5. TrialSale(row) => ~owned BY <1>3 DEF TrialSale, sold
  <1>6. plan' \in [PlanIds -> PlanRow] /\ owned' \in BOOLEAN /\ (owned => owned') /\ clock' \in ClockRow
    BY <1>0, <1>2 DEF PlansTyped
  <1>7. row.st # "applied" /\ row.st # "absent" BY <1>3
  <1> QED BY <1>2, <1>3, <1>4, <1>5, <1>6, <1>7, SaleMoves

\* What an order of some periods of a plan takes.
LEMMA PeriodsOfPlan ==
  ASSUME PlanIInv, NEW p \in PlanIds, NEW n \in _select_period(p)
  PROVE  n * plan[p].offer.days \in Nat /\ n * plan[p].offer.price \in Nat
  <1>1. n \in Nat BY PlanAssumption DEF _select_period
  <1>2. plan[p] \in PlanRow BY PlanTypes DEF PlansTyped
  <1>3. plan[p].offer \in Offers BY <1>2 DEF PlanRow
  <1>4. plan[p].offer.days \in Nat /\ plan[p].offer.price \in Nat BY <1>3, PlanAssumption
  <1> QED BY <1>1, <1>4, ProductIsNat

\* create_order for each kind of order.
LEMMA Orderings ==
  ASSUME PlanIInv, NEW o \in Sales,
         \/ \E p \in PlanIds : OrderPurchase(o, p)
         \/ \E s \in Servers : OrderRenewal(o, s) \/ OrderConversion(o, s) \/ OrderUpgrade(o, s)
  PROVE  PlanIInv'
  <1>0. PlansTyped BY PlanTypes
  <1>1. ASSUME NEW p \in PlanIds, OrderPurchase(o, p) PROVE PlanIInv'
    <2>1. PICK n \in _select_period(p) :
            Placed(o, "new_purchase", p, o, n * plan[p].offer.days, n * plan[p].offer.price, NoPlan)
      BY <1>1 DEF OrderPurchase, PlacedFor
    <2>2. plan[p] \in PlanRow BY <1>0 DEF PlansTyped
    <2> DEFINE new == [NotRented EXCEPT !.st = "placeholder", !.build = plan[p].build]
    <2>3. new \in RentedRow /\ new.build = plan[p].build
      BY <2>2 DEF RentedRow, NotRented, PlanRow
    <2>4. rented' = [rented EXCEPT ![o] = new] BY <1>1 DEF OrderPurchase
    <2> HIDE DEF new
    <2>5. o \in Servers /\ "new_purchase" \in Kinds BY DEF Servers, Kinds
    <2>6. rented' \in [Servers -> RentedRow] /\ rented'[o].build = plan[p].build
      BY <1>0, <2>3, <2>4, <2>5 DEF PlansTyped
    <2>7. plan[p].type = "trial" => ~owned BY <1>1 DEF OrderPurchase
    <2> QED BY <2>1, <2>5, <2>6, <2>7, PeriodsOfPlan, Placing
  <1>2. ASSUME NEW s \in Servers, OrderRenewal(o, s) PROVE PlanIInv'
    <2> SUFFICES ASSUME NEW p, p = rented[s].plan PROVE PlanIInv' OBVIOUS
    <2>1. p \in PlanIds
      <3>1. rented[s] \in RentedRow BY <1>0 DEF PlansTyped
      <3> QED BY <1>2, <3>1 DEF OrderRenewal, Bound, RentedRow
    <2>2. PICK n \in _select_period(p) :
            Placed(o, "renew", p, s, n * plan[p].offer.days, n * plan[p].offer.price, NoPlan)
      BY <1>2 DEF OrderRenewal, PlacedFor
    <2>3. UNCHANGED rented /\ rented' \in [Servers -> RentedRow] /\ ~rented[s].trial
      BY <1>0, <1>2 DEF OrderRenewal, PlansTyped
    <2>4. "renew" \in Kinds BY DEF Kinds
    <2> QED BY <2>1, <2>2, <2>3, <2>4, PeriodsOfPlan, Placing
  <1>3. ASSUME NEW s \in Servers, OrderConversion(o, s) PROVE PlanIInv'
    <2> SUFFICES ASSUME NEW p, p = plan[rented[s].plan].link PROVE PlanIInv' OBVIOUS
    <2>1. p \in PlanIds
      <3>1. rented[s] \in RentedRow BY <1>0 DEF PlansTyped
      <3>2. rented[s].plan \in PlanIds BY <1>3, <3>1 DEF OrderConversion, Bound, RentedRow
      <3>3. plan[rented[s].plan] \in PlanRow BY <1>0, <3>2 DEF PlansTyped
      <3> QED BY <1>3, <3>3 DEF OrderConversion, InCatalogue, PlanRow
    <2>2. PICK n \in _select_period(p) :
            Placed(o, "convert", p, s, n * plan[p].offer.days, n * plan[p].offer.price, NoPlan)
      BY <1>3 DEF OrderConversion, PlacedFor
    <2>3. rented' \in [Servers -> RentedRow]
      BY <1>0, <1>3 DEF OrderConversion, PlansTyped
    <2>4. "convert" \in Kinds BY DEF Kinds
    <2> QED BY <2>1, <2>2, <2>3, <2>4, PeriodsOfPlan, Placing
  <1>4. ASSUME NEW s \in Servers, OrderUpgrade(o, s) PROVE PlanIInv'
    <2> SUFFICES ASSUME NEW was, was = plan[rented[s].plan].offer, NEW left, left = rented[s].left
                 PROVE  PlanIInv'
      OBVIOUS
    <2>1. was \in Offers /\ left \in Nat
      <3>1. rented[s] \in RentedRow BY <1>0 DEF PlansTyped
      <3>2. rented[s].plan \in PlanIds /\ left \in Nat
        BY <1>4, <3>1 DEF OrderUpgrade, Bound, RentedRow
      <3>3. plan[rented[s].plan] \in PlanRow BY <1>0, <3>2 DEF PlansTyped
      <3> QED BY <3>2, <3>3 DEF PlanRow
    <2>2. PICK p \in PlanIds :
            Placed(o, "upgrade", p, s, 0, upgrade_diff_fen(was, plan[p].offer, left), was)
      BY <1>4 DEF OrderUpgrade, upgrade_options
    <2>3. UNCHANGED rented /\ rented' \in [Servers -> RentedRow] /\ ~rented[s].trial
      BY <1>0, <1>4 DEF OrderUpgrade, PlansTyped
    <2>4. "upgrade" \in Kinds BY DEF Kinds
    <2> SUFFICES ASSUME NEW new \in Offers, new = plan[p].offer PROVE PlanIInv'
      <3>1. plan[p] \in PlanRow BY <1>0 DEF PlansTyped
      <3>2. plan[p].offer \in Offers BY <3>1 DEF PlanRow
      <3> QED BY <3>2
    <2>5. upgrade_diff_fen(was, new, left) \in Nat BY <2>1, UpgradePrice
    <2> QED BY <2>1, <2>2, <2>3, <2>4, <2>5, Placing
  <1> QED BY <1>1, <1>2, <1>3, <1>4

\* The row of an order that goes on.
RowMoved(old, st, done, forced) == [old EXCEPT !.st = st, !.done = done, !.forced = forced]

LEMMA MovedRow ==
  ASSUME NEW o \in Sales, NEW old \in SaleRow, Sells(o, old), old.st # "absent",
         NEW st \in Statuses \ {"absent"}, NEW done \in {"nothing", "build", "binding"},
         NEW forced \in BOOLEAN,
         done # "nothing" => old.kind \in {"upgrade", "convert"} /\ st = "processing",
         done = "binding" => old.kind = "upgrade",
         NEW row, row = RowMoved(old, st, done, forced)
  PROVE  /\ row \in SaleRow /\ Sells(o, row)
         /\ row.st = st /\ row.done = done /\ row.forced = forced
         /\ row.kind = old.kind /\ row.plan = old.plan /\ row.sold = old.sold
         /\ row.target = old.target /\ row.total = old.total /\ row.before = old.before
  <1>1. /\ row \in SaleRow
        /\ row.st = st /\ row.done = done /\ row.forced = forced
        /\ row.kind = old.kind /\ row.plan = old.plan /\ row.sold = old.sold
        /\ row.target = old.target /\ row.total = old.total /\ row.before = old.before
    BY DEF SaleRow, RowMoved
  <1>2. Sells(o, row) BY <1>1 DEF Sells
  <1> QED BY <1>1, <1>2

\* An order changes its status before it is delivered; servers may be gone.
LEMMA Moves ==
  ASSUME PlanIInv, NEW o \in Sales, NEW st \in Statuses \ {"absent", "applied"},
         NEW forced \in BOOLEAN, NEW old, old = purchase[o], old.st # "absent",
         purchase' = [purchase EXCEPT ![o] = RowMoved(old, st, "nothing", forced)],
         UNCHANGED <<plan, owned, clock>>,
         rented' = rented \/ \E s \in Servers : rented' = [rented EXCEPT ![s] = NotRented],
         st \in ActiveStatuses => old.st \in ActiveStatuses \/ NoneActive(o),
         ~forced /\ st \in {"pending", "processing"} => Open(old)
  PROVE  PlanIInv'
  <1>0. PlansTyped BY PlanTypes
  <1>1. /\ old \in SaleRow /\ Sells(o, old)
        /\ \A server : server = rented[old.target] => Serves(old, server)
    BY OneSale
  <1> DEFINE row == RowMoved(old, st, "nothing", forced)
  <1>2. /\ row \in SaleRow /\ Sells(o, row)
        /\ row.st = st /\ row.done = "nothing" /\ row.forced = forced
        /\ row.kind = old.kind /\ row.plan = old.plan /\ row.sold = old.sold
        /\ row.target = old.target /\ row.total = old.total /\ row.before = old.before
    BY <1>1, MovedRow
  <1> HIDE DEF row
  <1>3. NotRented \in RentedRow /\ NotRented.st = "none" BY DEF NotRented, RentedRow
  <1>4. /\ rented' \in [Servers -> RentedRow]
        /\ \A s \in Servers : rented'[s] = rented[s] \/ rented'[s].st = "none"
    BY <1>0, <1>3 DEF PlansTyped
  <1>5. row.target \in Servers BY <1>1, <1>2 DEF Sells
  <1>6. \A server \in RentedRow : server = rented'[row.target] => Serves(row, server)
    <2> SUFFICES ASSUME NEW server, server = rented'[row.target], server.st # "none", Open(row)
                 PROVE  Serves(row, server)
      BY DEF Serves
    <2>1. Open(old) /\ server = rented[old.target] BY <1>2, <1>4, <1>5 DEF Open
    <2>2. Serves(old, server) BY <1>1, <2>1
    <2> QED BY <1>2, <2>1, <2>2 DEF Serves
  <1>7. TrialSale(row) => TrialSale(old) BY <1>2 DEF TrialSale, Open
  <1>8. plan' \in [PlanIds -> PlanRow] /\ owned' \in BOOLEAN /\ (owned => owned') /\ clock' \in ClockRow
    BY <1>0 DEF PlansTyped
  <1>9. purchase' = [purchase EXCEPT ![o] = row] BY DEF row
  <1> QED BY <1>2, <1>4, <1>6, <1>7, <1>8, <1>9, SaleMoves

\* Payments, cancellations, failed deliveries and administrators.
LEMMA Fates ==
  ASSUME PlanIInv, NEW o \in Sales,
         Paid(o) \/ Cancelled(o) \/ DeliveryFails(o) \/ ApplyByHand(o) \/ CloseByHand(o)
  PROVE  PlanIInv'
  <1> SUFFICES ASSUME NEW old, old = purchase[o] PROVE PlanIInv' OBVIOUS
  <1>0. PlansTyped BY PlanTypes
  <1>1. old \in SaleRow /\ Sells(o, old) BY OneSale
  <1>2. UNCHANGED <<plan, owned, clock>>
    BY DEF Paid, Cancelled, DeliveryFails, ApplyByHand, CloseByHand
  <1>3. o \in Servers /\ (old.st # "absent" => old.target \in Servers) BY <1>1 DEF Servers, Sells
  <1>4. rented' = rented \/ \E s \in Servers : rented' = [rented EXCEPT ![s] = NotRented]
    BY <1>3 DEF Paid, Cancelled, DeliveryFails, ApplyByHand, CloseByHand, Moved
  <1>5. ASSUME NEW from, NEW st, Moved(o, from, st)
        PROVE  /\ old.st \in from
               /\ purchase' = [purchase EXCEPT ![o] = RowMoved(old, st, "nothing", old.forced)]
    <2>1. purchase' = [purchase EXCEPT ![o] = [old EXCEPT !.st = st, !.done = "nothing"]]
      BY <1>0, <1>5 DEF Moved, PlansTyped
    <2>2. [old EXCEPT !.st = st, !.done = "nothing"] = RowMoved(old, st, "nothing", old.forced)
      BY <1>1 DEF RowMoved, SaleRow
    <2> QED BY <1>5, <2>1, <2>2 DEF Moved
  <1>6. ASSUME NEW st \in {"processing", "manual_review", "cancelled", "apply_failed", "closed"},
               purchase' = [purchase EXCEPT ![o] = RowMoved(old, st, "nothing", old.forced)],
               old.st # "absent",
               st \in ActiveStatuses => old.st \in ActiveStatuses \/ NoneActive(o),
               st = "processing" => old.st \in {"pending", "processing"}
        PROVE  PlanIInv'
    <2>1. st \in Statuses \ {"absent", "applied"} BY <1>6 DEF Statuses
    <2>2. ~old.forced /\ st \in {"pending", "processing"} => Open(old) BY <1>6 DEF Open
    <2>3. old.forced \in BOOLEAN BY <1>1 DEF SaleRow
    <2> QED BY <1>2, <1>4, <1>6, <2>1, <2>2, <2>3, Moves
  <1>7. CASE Paid(o) BY <1>5, <1>6, <1>7 DEF Paid, ActiveStatuses
  <1>8. CASE Cancelled(o) BY <1>5, <1>6, <1>8 DEF Cancelled, ActiveStatuses
  <1>9. CASE DeliveryFails(o) BY <1>5, <1>6, <1>9 DEF DeliveryFails, ActiveStatuses
  <1>10. CASE CloseByHand(o) BY <1>5, <1>6, <1>10 DEF CloseByHand, ActiveStatuses
  <1>11. CASE ApplyByHand(o)
    <2>1. old.st \in {"manual_review", "apply_failed"} /\ NoneActive(o) BY <1>11 DEF ApplyByHand
    <2>2. old.done = "nothing" BY <1>1, <2>1 DEF Sells, SaleRow
    <2>3. purchase' = [purchase EXCEPT ![o] = [old EXCEPT !.st = "processing", !.forced = TRUE]]
      BY <1>0, <1>11 DEF ApplyByHand, PlansTyped
    <2>4. [old EXCEPT !.st = "processing", !.forced = TRUE]
             = RowMoved(old, "processing", "nothing", TRUE)
      BY <1>1, <2>2 DEF RowMoved, SaleRow
    <2>5. "processing" \in Statuses \ {"absent", "applied"} /\ TRUE \in BOOLEAN BY DEF Statuses
    <2> QED BY <1>2, <1>4, <2>1, <2>3, <2>4, <2>5, Moves
  <1> QED BY <1>7, <1>8, <1>9, <1>10, <1>11

\* A commit of the delivery: the order's server gets a row, and the order goes on.
LEMMA Delivers ==
  ASSUME PlanIInv, NEW o \in Sales, NEW old, old = purchase[o], old.st = "processing",
         NEW st \in {"processing", "applied"}, NEW done \in {"nothing", "build", "binding"},
         done # "nothing" => old.kind \in {"upgrade", "convert"} /\ st = "processing",
         done = "binding" => old.kind = "upgrade",
         NEW row, row = RowMoved(old, st, done, old.forced), purchase' = [purchase EXCEPT ![o] = row],
         NEW server \in RentedRow, rented' = [rented EXCEPT ![old.target] = server],
         Open(row) => Serves(row, server),
         UNCHANGED <<plan, clock>>, owned' \in BOOLEAN, owned => owned',
         st = "applied" /\ old.kind = "new_purchase" => owned'
  PROVE  PlanIInv'
  <1>0. PlansTyped BY PlanTypes
  <1>1. old \in SaleRow /\ Sells(o, old) /\ old.forced \in BOOLEAN BY OneSale DEF SaleRow
  <1>2. /\ row \in SaleRow /\ Sells(o, row)
        /\ row.st = st /\ row.done = done /\ row.forced = old.forced
        /\ row.kind = old.kind /\ row.plan = old.plan /\ row.sold = old.sold
        /\ row.target = old.target /\ row.total = old.total /\ row.before = old.before
    <2>1. st \in Statuses \ {"absent"} BY DEF Statuses
    <2> QED BY <1>1, <2>1, MovedRow
  <1>3. row.target \in Servers BY <1>1, <1>2 DEF Sells
  <1>4. rented' \in [Servers -> RentedRow] /\ rented'[row.target] = server
    BY <1>0, <1>2, <1>3 DEF PlansTyped
  <1>5. \A srv \in RentedRow : srv = rented'[row.target] => Serves(row, srv)
    BY <1>4 DEF Serves
  <1>6. TrialSale(row) => TrialSale(old) BY <1>2 DEF TrialSale
  <1>7. row.st = "applied" /\ TrialSale(row) => owned' BY <1>2 DEF TrialSale
  <1>8. plan' \in [PlanIds -> PlanRow] /\ clock' \in ClockRow BY <1>0 DEF PlansTyped
  <1>9. old.st \in ActiveStatuses BY DEF ActiveStatuses
  <1> QED BY <1>2, <1>4, <1>5, <1>6, <1>7, <1>8, <1>9, SaleMoves

\* The commits of the apply engine's effects.
LEMMA Effects ==
  ASSUME PlanIInv, NEW o \in Sales,
         \/ update_build(o) \/ _effect_upgrade(o) \/ _effect_renew(o) \/ _effect_convert(o)
         \/ _effect_new_purchase(o)
  PROVE  PlanIInv'
  <1> SUFFICES ASSUME NEW old, old = purchase[o], NEW t, t = old.target, NEW was, was = rented[t]
               PROVE  PlanIInv'
    OBVIOUS
  <1>0. PlansTyped BY PlanTypes
  <1>1. /\ old \in SaleRow /\ Sells(o, old) /\ old.forced \in BOOLEAN
        /\ old.st = "processing" /\ was.st # "none"
    BY OneSale DEF update_build, _effect_upgrade, _effect_renew, _effect_convert,
                   _effect_new_purchase, Delivering, SaleRow
  <1>2. t \in Servers /\ old.sold \in PlanRow /\ old.plan \in PlanIds /\ Serves(old, was)
    BY <1>1, OneSale DEF Sells
  <1>3. was \in RentedRow /\ old.sold.build \in Builds /\ old.days \in Nat
        /\ (old.sold.type = "trial") \in BOOLEAN
    BY <1>0, <1>1, <1>2 DEF PlansTyped, PlanRow, SaleRow
  <1>4. UNCHANGED <<plan, clock>> /\ owned' \in BOOLEAN /\ (owned => owned')
    BY <1>0 DEF update_build, _effect_upgrade, _effect_renew, _effect_convert,
                _effect_new_purchase, PlansTyped
  <1>5. ASSUME NEW done \in {"build", "binding"}, Reached(o, done)
        PROVE  purchase' = [purchase EXCEPT ![o] = RowMoved(old, "processing", done, old.forced)]
    <2>1. purchase' = [purchase EXCEPT ![o] = [old EXCEPT !.done = done]]
      BY <1>0, <1>5 DEF Reached, PlansTyped
    <2>2. [old EXCEPT !.done = done] = RowMoved(old, "processing", done, old.forced)
      BY <1>1 DEF RowMoved, SaleRow
    <2> QED BY <2>1, <2>2
  <1>6. ASSUME Applied(o)
        PROVE  purchase' = [purchase EXCEPT ![o] = RowMoved(old, "applied", "nothing", old.forced)]
    <2>1. purchase' = [purchase EXCEPT ![o] = [old EXCEPT !.st = "applied", !.done = "nothing"]]
      BY <1>0, <1>6 DEF Applied, PlansTyped
    <2>2. [old EXCEPT !.st = "applied", !.done = "nothing"]
             = RowMoved(old, "applied", "nothing", old.forced)
      BY <1>1 DEF RowMoved, SaleRow
    <2> QED BY <2>1, <2>2
  <1>7. ASSUME NEW server \in RentedRow, rented' = [rented EXCEPT ![t] = server], Applied(o),
               old.kind = "new_purchase" => owned'
        PROVE  PlanIInv'
    <2> DEFINE row == RowMoved(old, "applied", "nothing", old.forced)
    <2>1. ~Open(row) BY <1>1 DEF Open, RowMoved, SaleRow
    <2>2. purchase' = [purchase EXCEPT ![o] = row] BY <1>6, <1>7
    <2> HIDE DEF row
    <2> QED BY <1>1, <1>4, <1>7, <2>1, <2>2, Delivers DEF row
  <1>8. CASE update_build(o)
    <2> DEFINE server == [was EXCEPT !.build = old.sold.build]
               row == RowMoved(old, "processing", "build", old.forced)
    <2>1. /\ server \in RentedRow /\ server.build = old.sold.build /\ server.st = was.st
          /\ server.plan = was.plan /\ server.trial = was.trial /\ server.left = was.left
      BY <1>3 DEF RentedRow
    <2>2. rented' = [rented EXCEPT ![t] = server] /\ old.kind \in {"upgrade", "convert"}
      BY <1>8 DEF update_build, ToServer, Delivering
    <2>3. purchase' = [purchase EXCEPT ![o] = row] BY <1>5, <1>8 DEF update_build
    <2>4. /\ row.st = "processing" /\ row.done = "build" /\ row.forced = old.forced
          /\ row.kind = old.kind /\ row.sold = old.sold /\ row.total = old.total
          /\ row.before = old.before
      BY <1>1 DEF RowMoved, SaleRow
    <2> HIDE DEF server, row
    <2>5. Open(row) => Serves(row, server)
      BY <1>1, <1>2, <2>1, <2>2, <2>4 DEF Serves, Open
    <2> QED BY <1>1, <1>4, <2>1, <2>2, <2>3, <2>5, Delivers DEF row
  <1>9. CASE _effect_upgrade(o)
    <2>1. CASE Delivering(o, "upgrade", "build")
      <3> DEFINE server == [was EXCEPT !.plan = old.plan]
                 row == RowMoved(old, "processing", "binding", old.forced)
      <3>1. /\ server \in RentedRow /\ server.plan = old.plan /\ server.st = was.st
            /\ server.build = was.build /\ server.trial = was.trial /\ server.left = was.left
        BY <1>2, <1>3 DEF RentedRow
      <3>2. /\ rented' = [rented EXCEPT ![t] = server] /\ Reached(o, "binding")
            /\ old.kind = "upgrade" /\ old.done = "build"
        BY <1>9, <2>1 DEF _effect_upgrade, ToServer, Delivering
      <3>3. purchase' = [purchase EXCEPT ![o] = row] BY <1>5, <3>2
      <3>4. /\ row.st = "processing" /\ row.done = "binding" /\ row.forced = old.forced
            /\ row.kind = old.kind /\ row.sold = old.sold /\ row.total = old.total
            /\ row.before = old.before /\ row.plan = old.plan
        BY <1>1 DEF RowMoved, SaleRow
      <3> HIDE DEF server, row
      <3>5. Open(row) => Serves(row, server)
        BY <1>1, <1>2, <3>1, <3>2, <3>4 DEF Serves, Open
      <3> QED BY <1>1, <1>4, <3>1, <3>2, <3>3, <3>5, Delivers DEF row
    <2>2. CASE Delivering(o, "upgrade", "binding")
      <3>1. Applied(o) /\ UNCHANGED rented /\ old.kind = "upgrade"
        BY <1>9, <2>2 DEF _effect_upgrade, Delivering
      <3>2. rented' = [rented EXCEPT ![t] = was] BY <1>0, <3>1 DEF PlansTyped
      <3> QED BY <1>3, <1>7, <3>1, <3>2
    <2> QED BY <1>9, <2>1, <2>2 DEF _effect_upgrade
  <1>10. CASE _effect_renew(o)
    <2>1. [was EXCEPT !.left = Longer(@, old.days)] \in RentedRow
      BY <1>3 DEF Longer, RentedRow
    <2>2. /\ rented' = [rented EXCEPT ![t] = [was EXCEPT !.left = Longer(@, old.days)]]
          /\ Applied(o) /\ old.kind = "renew"
      BY <1>10 DEF _effect_renew, ToServer, Delivering
    <2> QED BY <1>7, <2>1, <2>2
  <1>11. CASE _effect_convert(o)
    <2>1. Longer(was.left, old.days) \in Nat BY <1>3 DEF Longer, RentedRow
    <2> SUFFICES ASSUME NEW left \in Nat, left = Longer(was.left, old.days) PROVE PlanIInv'
      BY <2>1
    <2>2. [was EXCEPT !.left = left, !.plan = old.plan, !.trial = FALSE] \in RentedRow
      BY <1>2, <1>3 DEF RentedRow
    <2>3. /\ rented' = [rented EXCEPT ![t] = [was EXCEPT !.left = left, !.plan = old.plan,
                                                         !.trial = FALSE]]
          /\ Applied(o) /\ old.kind = "convert"
      BY <1>11 DEF _effect_convert, ToServer, Delivering
    <2> QED BY <1>7, <2>2, <2>3
  <1>12. CASE _effect_new_purchase(o)
    <2>0. t = o BY <1>1, <1>12 DEF _effect_new_purchase, Delivering, Sells
    <2> DEFINE server == [was EXCEPT !.st = "live", !.plan = old.plan,
                                     !.trial = old.sold.type = "trial", !.left = old.days]
    <2>1. server \in RentedRow BY <1>2, <1>3 DEF RentedRow
    <2>2. rented' = [rented EXCEPT ![t] = server] /\ Applied(o) /\ owned'
      BY <1>12, <2>0 DEF _effect_new_purchase, ToServer
    <2> HIDE DEF server
    <2> QED BY <1>7, <2>1, <2>2
  <1> QED BY <1>8, <1>9, <1>10, <1>11, <1>12

-------------------------------------------------------------------------------
(* Plans: the theorems *)

LEMMA PlanStart == PlanInit => PlanIInv
  <1> SUFFICES ASSUME PlanInit PROVE PlanIInv OBVIOUS
  <1>1. NoSale \in SaleRow /\ NoSale.st = "absent" /\ NoSale.kind = "renew"
        /\ NoSale.done = "nothing" /\ NotRented \in RentedRow
    BY DEF NoSale, NotRented, SaleRow, RentedRow, Statuses, Kinds
  <1>2. \A o \in Sales : purchase[o] = NoSale BY DEF PlanInit
  <1>3. ASSUME NEW p \in FirstPlans PROVE OnPlan(p, Catalogue[p].offer.days) \in RentedRow
    <2>1. p \in PlanIds /\ Catalogue[p] \in PlanRow BY PlanAssumption
    <2>2. Catalogue[p].offer \in Offers /\ Catalogue[p].build \in Builds BY <2>1 DEF PlanRow
    <2>3. Catalogue[p].offer.days \in Nat BY <2>2, PlanAssumption
    <2>4. (Catalogue[p].type = "trial") \in BOOLEAN OBVIOUS
    <2> QED BY <2>1, <2>2, <2>3, <2>4 DEF OnPlan, RentedRow
  <1>4. rented \in [Servers -> RentedRow] /\ owned \in BOOLEAN
    <2>1. CASE rented = [s \in Servers |-> NotRented] /\ owned = FALSE BY <1>1, <2>1
    <2>2. ASSUME NEW p \in FirstPlans,
                 rented = [s \in Servers |-> IF s = OldServer THEN OnPlan(p, Catalogue[p].offer.days)
                                             ELSE NotRented],
                 owned = TRUE
          PROVE  rented \in [Servers -> RentedRow] /\ owned \in BOOLEAN
      BY <1>1, <1>3, <2>2
    <2> QED BY <2>1, <2>2 DEF PlanInit
  <1>5. PlansTyped
    <2>1. clock \in ClockRow BY PlanAssumption DEF PlanInit, ClockRow
    <2>2. purchase \in [Sales -> SaleRow] BY <1>1 DEF PlanInit
    <2>3. plan = Catalogue BY DEF PlanInit
    <2>4. plan \in [PlanIds -> PlanRow] BY <2>3, PlanAssumption
    <2> QED BY <1>4, <2>1, <2>2, <2>4 DEF PlansTyped
  <1>6. SalesInOrder BY <1>1, <1>2 DEF SalesInOrder, Sells, TrialSale
  <1>7. OneActive /\ TrialsApart BY <1>1, <1>2 DEF OneActive, TrialsApart, ActiveStatuses
  <1> QED BY <1>5, <1>6, <1>7 DEF PlanIInv

LEMMA PlanStep ==
  ASSUME PlanIInv, [PlanNext]_planVars
  PROVE  PlanIInv'
  <1>1. CASE UNCHANGED planVars
    BY <1>1 DEF planVars, PlanIInv, PlansTyped, SalesInOrder, OneActive, TrialsApart, TrialSale
  <1>2. ASSUME NEW p \in PlanIds, SavePlan(p) \/ delete_plan(p) PROVE PlanIInv' BY <1>2, Edits
  <1>3. ASSUME NEW o \in Sales,
               \/ \E p \in PlanIds : OrderPurchase(o, p)
               \/ \E s \in Servers : OrderRenewal(o, s) \/ OrderConversion(o, s) \/ OrderUpgrade(o, s)
        PROVE  PlanIInv'
    BY <1>3, Orderings
  <1>4. ASSUME NEW o \in Sales,
               Paid(o) \/ Cancelled(o) \/ DeliveryFails(o) \/ ApplyByHand(o) \/ CloseByHand(o)
        PROVE  PlanIInv'
    BY <1>4, Fates
  <1>5. ASSUME NEW o \in Sales,
               \/ update_build(o) \/ _effect_upgrade(o) \/ _effect_renew(o) \/ _effect_convert(o)
               \/ _effect_new_purchase(o)
        PROVE  PlanIInv'
    BY <1>5, Effects
  <1>6. CASE NextDay \/ OwnedOtherwise \/ \E s \in Servers : ServerGone(s) BY <1>6, Around
  <1> QED BY <1>1, <1>2, <1>3, <1>4, <1>5, <1>6 DEF PlanNext

\* For any catalogue, edits, orders, payments, failures, days and accidents, the inductive invariant
\* holds in every reachable state: create_order keeps the terms it sold, and the effects deliver them.
THEOREM PlanInvariant == PlanSpec => []PlanIInv
  BY PlanStart, PlanStep, PTL DEF PlanSpec

\* Plans, orders and servers keep their rows' types; no upgrade charges less than nothing, and no
\* server has fewer than -1 days left.
THEOREM PlanTypeCorrect == PlanSpec => []PlanTypeOK
  <1>1. PlanIInv => PlanTypeOK
    BY DEF PlanIInv, PlansTyped, PlanTypeOK, SaleRow, RentedRow, ClockRow
  <1> QED BY <1>1, PlanInvariant, PTL

\* create_order's "only once": however many trial orders a customer places, gives up, pays late or
\* sees fail, one trial server at most is delivered without an administrator's hand.
THEOREM OneTrialEach == PlanSpec => []OneTrial
  <1> DEFINE Trials == {o \in Sales :
                 /\ purchase[o].st = "applied" /\ ~purchase[o].forced
                 /\ purchase[o].kind = "new_purchase" /\ purchase[o].sold.type = "trial"}
  <1>1. PlanIInv => OneTrial
    <2> SUFFICES ASSUME PlanIInv PROVE Cardinality(Trials) <= 1 BY DEF OneTrial
    <2>1. \A o, p \in Trials : o = p BY DEF PlanIInv, TrialsApart, TrialSale
    <2>2. CASE Trials = {} BY <2>2, FS_EmptySet
    <2>3. CASE Trials # {}
      <3>1. PICK o : o \in Trials BY <2>3
      <3>2. Trials = {o} BY <2>1, <3>1
      <3>3. Cardinality({o}) = 1 BY FS_Singleton
      <3> HIDE DEF Trials
      <3> QED BY <3>2, <3>3
    <2> QED BY <2>2, <2>3
  <1> QED BY <1>1, PlanInvariant, PTL

\* An order goes from processing to applied in the last commit of its effect alone.
LEMMA LastCommits ==
  ASSUME PlanIInv, PlanNext, NEW o \in Sales,
         purchase[o].st = "processing", purchase'[o].st = "applied"
  PROVE  \/ _effect_upgrade(o) /\ Delivering(o, "upgrade", "binding")
         \/ _effect_renew(o) \/ _effect_convert(o) \/ _effect_new_purchase(o)
  <1>0. PlansTyped BY PlanTypes
  <1>1. ASSUME NEW q \in Sales, NEW row, purchase' = [purchase EXCEPT ![q] = row],
               row.st # "applied" \/ q # o
        PROVE  FALSE
    BY <1>0, <1>1 DEF PlansTyped
  <1>2. ASSUME NEW q \in Sales, NEW from, NEW to, Moved(q, from, to), to # "applied" PROVE FALSE
    <2>1. purchase' = [purchase EXCEPT ![q] = [purchase[q] EXCEPT !.st = to, !.done = "nothing"]]
      BY <1>0, <1>2 DEF Moved, PlansTyped
    <2>2. purchase[q] \in SaleRow BY <1>0 DEF PlansTyped
    <2>3. [purchase[q] EXCEPT !.st = to, !.done = "nothing"].st = to BY <2>2 DEF SaleRow
    <2> QED BY <1>1, <1>2, <2>1, <2>3
  <1>3. purchase' # purchase OBVIOUS
  <1>4. ASSUME NEW q \in Sales, NEW kind, NEW p, NEW s, NEW days, NEW total, NEW before,
               Placed(q, kind, p, s, days, total, before)
        PROVE  FALSE
    <2>1. purchase[q].st = "absent" BY <1>4 DEF Placed
    <2>2. q # o BY <2>1
    <2> QED BY <1>1, <1>4, <2>2 DEF Placed
  <1>5. ASSUME NEW q \in Sales, NEW done, Reached(q, done) PROVE FALSE
    <2>1. purchase' = [purchase EXCEPT ![q] = [purchase[q] EXCEPT !.done = done]]
      BY <1>0, <1>5 DEF Reached, PlansTyped
    <2>2. purchase[q] \in SaleRow BY <1>0 DEF PlansTyped
    <2>3. [purchase[q] EXCEPT !.done = done].st = purchase[q].st BY <2>2 DEF SaleRow
    <2> QED BY <1>1, <2>1, <2>3
  <1>6. ASSUME NEW q \in Sales, ApplyByHand(q) PROVE FALSE
    <2>1. purchase' = [purchase EXCEPT ![q] = [purchase[q] EXCEPT !.st = "processing", !.forced = TRUE]]
      BY <1>0, <1>6 DEF ApplyByHand, PlansTyped
    <2>2. purchase[q] \in SaleRow BY <1>0 DEF PlansTyped
    <2>3. [purchase[q] EXCEPT !.st = "processing", !.forced = TRUE].st = "processing"
      BY <2>2 DEF SaleRow
    <2> QED BY <1>1, <2>1, <2>3
  <1>7. ASSUME NEW q \in Sales, Applied(q) PROVE q = o
    <2>1. purchase' = [purchase EXCEPT ![q] = [purchase[q] EXCEPT !.st = "applied", !.done = "nothing"]]
      BY <1>0, <1>7 DEF Applied, PlansTyped
    <2> QED BY <1>1, <2>1
  <1>8. ~\E p \in PlanIds : SavePlan(p) \/ delete_plan(p)
    BY <1>3 DEF SavePlan, delete_plan, EditPlans
  <1>9. ~(NextDay \/ OwnedOtherwise \/ \E s \in Servers : ServerGone(s))
    BY <1>3 DEF NextDay, OwnedOtherwise, ServerGone
  <1>10. ASSUME NEW q \in Sales
         PROVE  /\ \A p \in PlanIds : ~OrderPurchase(q, p)
                /\ \A s \in Servers :
                      ~OrderRenewal(q, s) /\ ~OrderConversion(q, s) /\ ~OrderUpgrade(q, s)
    BY <1>4 DEF OrderPurchase, OrderRenewal, OrderConversion, OrderUpgrade, PlacedFor
  <1>11. ASSUME NEW q \in Sales
         PROVE  ~Paid(q) /\ ~Cancelled(q) /\ ~DeliveryFails(q) /\ ~ApplyByHand(q)
                /\ ~CloseByHand(q) /\ ~update_build(q)
    BY <1>2, <1>5, <1>6 DEF Paid, Cancelled, DeliveryFails, CloseByHand, update_build
  <1>12. PICK q \in Sales : \/ _effect_upgrade(q) \/ _effect_renew(q) \/ _effect_convert(q)
                            \/ _effect_new_purchase(q)
    BY <1>8, <1>9, <1>10, <1>11 DEF PlanNext
  <1>13. Applied(q) /\ (_effect_upgrade(q) => Delivering(q, "upgrade", "binding"))
    BY <1>5, <1>12 DEF _effect_upgrade, _effect_renew, _effect_convert, _effect_new_purchase
  <1> QED BY <1>7, <1>12, <1>13

\* An order delivered without an administrator's hand leaves the server on the plan and with the
\* resources it sold, a trial only if it sold one, and an upgrade has charged for all the days it
\* upgrades, whatever was edited, deleted, retried or restarted meanwhile.
THEOREM OrdersDeliverAsSold == PlanSpec => DeliveredAsSold
  <1>1. ASSUME PlanIInv, [PlanNext]_planVars, NEW o \in Sales,
               NEW row, row = purchase[o], NEW server, server = rented'[row.target],
               row.st = "processing", purchase'[o].st = "applied", ~row.forced
        PROVE  /\ server.plan = row.plan
               /\ row.kind # "renew" => server.build = row.sold.build
               /\ server.trial = (row.kind = "new_purchase" /\ row.sold.type = "trial")
               /\ row.kind = "upgrade" =>
                     upgrade_diff_fen(row.before, row.sold.offer, server.left) <= row.total
    <2> SUFFICES ASSUME NEW was, was = rented[row.target]
                 PROVE  /\ server.plan = row.plan
                        /\ row.kind # "renew" => server.build = row.sold.build
                        /\ server.trial = (row.kind = "new_purchase" /\ row.sold.type = "trial")
                        /\ row.kind = "upgrade" =>
                              upgrade_diff_fen(row.before, row.sold.offer, server.left) <= row.total
      OBVIOUS
    <2>0. PlansTyped BY <1>1, PlanTypes
    <2>1. row \in SaleRow /\ Sells(o, row) /\ Serves(row, was) BY <1>1, OneSale
    <2>2. row.target \in Servers /\ was \in RentedRow BY <1>1, <2>0, <2>1 DEF Sells, PlansTyped
    <2>3. PlanNext BY <1>1 DEF planVars
    <2>4. \/ _effect_upgrade(o) /\ Delivering(o, "upgrade", "binding")
          \/ _effect_renew(o) \/ _effect_convert(o) \/ _effect_new_purchase(o)
      BY <1>1, <2>3, LastCommits
    <2>5. Open(row) BY <1>1 DEF Open
    <2>6. CASE _effect_upgrade(o) /\ Delivering(o, "upgrade", "binding")
      <3>1. server = was /\ was.st # "none" /\ row.kind = "upgrade" /\ row.done = "binding"
        BY <1>1, <2>6 DEF _effect_upgrade, Delivering
      <3> QED BY <2>1, <2>2, <2>5, <3>1 DEF Serves, RentedRow
    <2>7. CASE _effect_renew(o)
      <3>1. /\ was.st # "none" /\ row.kind = "renew"
            /\ server = [was EXCEPT !.left = Longer(@, row.days)]
        BY <1>1, <2>0, <2>2, <2>7 DEF _effect_renew, Delivering, ToServer, PlansTyped
      <3>2. server.plan = was.plan /\ server.trial = was.trial BY <2>2, <3>1 DEF RentedRow
      <3> QED BY <2>1, <2>2, <2>5, <3>1, <3>2 DEF Serves, RentedRow
    <2>8. CASE _effect_convert(o)
      <3>1. /\ was.st # "none" /\ row.kind = "convert" /\ row.done = "build"
            /\ server = [was EXCEPT !.left = Longer(@, row.days), !.plan = row.plan, !.trial = FALSE]
        BY <1>1, <2>0, <2>2, <2>8 DEF _effect_convert, Delivering, ToServer, PlansTyped
      <3>2. server.plan = row.plan /\ server.trial = FALSE /\ server.build = was.build
        BY <2>2, <3>1 DEF RentedRow
      <3> QED BY <2>1, <2>2, <2>5, <3>1, <3>2 DEF Serves
    <2>9. CASE _effect_new_purchase(o)
      <3>1. was.st # "none" /\ row.kind = "new_purchase" /\ row.target = o
        BY <1>1, <2>1, <2>9 DEF _effect_new_purchase, Delivering, Sells
      <3>2. server = [was EXCEPT !.st = "live", !.plan = row.plan,
                                 !.trial = row.sold.type = "trial", !.left = row.days]
        BY <1>1, <2>0, <2>2, <2>9, <3>1 DEF _effect_new_purchase, ToServer, PlansTyped
      <3>3. /\ server.plan = row.plan /\ server.build = was.build
            /\ server.trial = (row.sold.type = "trial")
        BY <2>2, <3>2 DEF RentedRow
      <3> QED BY <2>1, <2>5, <3>1, <3>3 DEF Serves
    <2> QED BY <2>4, <2>6, <2>7, <2>8, <2>9
  <1>2. PlanIInv /\ [PlanNext]_planVars =>
          [\A o \in Sales :
            LET row == purchase[o] server == rented'[row.target] IN
            row.st = "processing" /\ purchase'[o].st = "applied" /\ ~row.forced =>
                /\ server.plan = row.plan
                /\ row.kind # "renew" => server.build = row.sold.build
                /\ server.trial = (row.kind = "new_purchase" /\ row.sold.type = "trial")
                /\ row.kind = "upgrade" =>
                       upgrade_diff_fen(row.before, row.sold.offer, server.left) <= row.total]_planVars
    BY <1>1
  <1> QED BY <1>2, PlanInvariant, PTL DEF PlanSpec, DeliveredAsSold

-------------------------------------------------------------------------------
(* Both *)

\* The coupons and the plans beside each other, as the run has them: every table keeps its types.
THEOREM PurchaseTypeCorrect == PurchaseSpec => []PurchaseTypeOK
  <1> DEFINE Both == CouponIInv /\ PlanIInv
  <1>1. PurchaseInit => Both BY CouponStart, PlanStart DEF PurchaseInit
  <1>2. Both /\ [PurchaseNext]_<<couponVars, planVars>> => Both'
    <2> SUFFICES ASSUME Both, [PurchaseNext]_<<couponVars, planVars>> PROVE Both' OBVIOUS
    <2>1. [CouponNext]_couponVars /\ [PlanNext]_planVars BY DEF PurchaseNext
    <2> QED BY <2>1, CouponStep, PlanStep
  <1>3. Both => PurchaseTypeOK
    BY DEF CouponIInv, PlanIInv, PlansTyped, PurchaseTypeOK, PlanTypeOK, SaleRow, RentedRow, ClockRow
  <1> HIDE DEF Both
  <1> QED BY <1>1, <1>2, <1>3, PTL DEF PurchaseSpec
===============================================================================
