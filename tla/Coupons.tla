-------------------------------- MODULE Coupons --------------------------------
(***************************************************************************)
(* Coupons and referral rewards: a coupon is reserved in the transaction   *)
(* that creates an order, given back when the order comes to nothing and   *)
(* used up once the order has been applied.  The steps around the order    *)
(* are separate commits, most of them best-effort.  Of an order this       *)
(* module keeps what its coupon depends on; BillingOrders has the rest.    *)
(***************************************************************************)
EXTENDS Naturals, FiniteSets

CONSTANTS
    Customers, Inviters, Nobody,
    InvitedBy,    \* who invited a customer, or Nobody
    Orders, NoOrder,
    Buyer,        \* the customer who may place an order
    Coupons, NoCoupon,
    Workers,
    MaxFaults,    \* restarts, failed best-effort commits
    MaxEdits      \* administrators' edits of templates

ASSUME CouponAssumption ==
    /\ Nobody \notin Customers \cup Inviters /\ NoOrder \notin Orders /\ NoCoupon \notin Coupons
    /\ InvitedBy \in [Customers -> Inviters \cup {Nobody}]
    /\ Buyer \in [Orders -> Customers]
    /\ MaxFaults \in Nat /\ MaxEdits \in Nat

VARIABLES
    order,     \* status, coupon, and whether the gateway has a trade for it
    coupon,    \* manager_billing_coupons
    template,  \* manager_billing_coupon_templates
    referral,  \* manager_user_referrals, by the invitee
    worker,    \* requests and jobs between two of their commits
    revived,   \* orders that went on after their coupon was given back
    stranded,  \* orders whose coupon nobody will give back any more
    faults, edits

couponVars == <<order, coupon, template, referral, worker, revived, stranded, faults, edits>>

Templates == {"inviter", "invitee"}
OrderStatuses == {"absent", "pending", "paid", "applied", "failed", "review", "ended", "deleted"}
CouponStatuses == {"absent", "unused", "reserved", "used", "revoked"}

OrderRow == [status : OrderStatuses, coupon : Coupons \cup {NoCoupon}, trade : BOOLEAN]
CouponRow ==
    [status : CouponStatuses, owner : Customers \cup Inviters \cup {Nobody},
     reason : {"none", "grant", "inviter", "invitee"}, \* source
     about : Customers \cup {Nobody},                  \* source_ref_id
     order : Orders \cup {NoOrder},                    \* reserved_order_id, used_order_id
     expired : BOOLEAN]
ReferralRow == [status : {"none", "registered", "rewarded"}, welcome : Coupons \cup {NoCoupon},
                reward : Coupons \cup {NoCoupon}, order : Orders \cup {NoOrder}]
Steps == {"idle", "reserve", "gateway", "unreserve", "erase", "release", "consume",
          "qualify", "reward"}
Task == [pc : Steps, order : Orders \cup {NoOrder}, coupon : Coupons \cup {NoCoupon}]

CouponTypeOK ==
    /\ order \in [Orders -> OrderRow]
    /\ coupon \in [Coupons -> CouponRow]
    /\ template \in [Templates -> {"active", "inactive"}]
    /\ referral \in [Customers -> ReferralRow]
    /\ worker \in [Workers -> Task]
    /\ revived \subseteq Orders /\ stranded \subseteq Orders
    /\ faults \in 0..MaxFaults /\ edits \in 0..MaxEdits

NoTask == [pc |-> "idle", order |-> NoOrder, coupon |-> NoCoupon]

CouponInit ==
    /\ order = [o \in Orders |-> [status |-> "absent", coupon |-> NoCoupon, trade |-> FALSE]]
    /\ coupon = [c \in Coupons |->
          [status |-> "absent", owner |-> Nobody, reason |-> "none",
           about |-> Nobody, order |-> NoOrder, expired |-> FALSE]]
    /\ template \in [Templates -> {"active", "inactive"}] /\ template["inviter"] = "active"
    /\ referral = [u \in Customers |-> [status |-> "none", welcome |-> NoCoupon,
                                        reward |-> NoCoupon, order |-> NoOrder]]
    /\ worker = [w \in Workers |-> NoTask]
    /\ revived = {} /\ stranded = {}
    /\ faults = 0 /\ edits = 0

-------------------------------------------------------------------------------
(* Issuing *)

Fresh == {c \in Coupons : coupon[c].status = "absent"}

Issued(u, reason, about) ==
    [status |-> "unused", owner |-> u, reason |-> reason, about |-> about,
     order |-> NoOrder, expired |-> FALSE]

\* manual_grant: an administrator gives a customer a coupon of an active template.
ManualGrant(u, t) ==
    /\ template[t] = "active"
    /\ edits < MaxEdits /\ edits' = edits + 1
    /\ \E c \in Fresh : coupon' = [coupon EXCEPT ![c] = Issued(u, "grant", Nobody)]
    /\ UNCHANGED <<order, template, referral, worker, revived, stranded, faults>>

UpdateTemplate(t) ==
    /\ edits < MaxEdits /\ edits' = edits + 1
    /\ template' = [template EXCEPT ![t] = IF @ = "active" THEN "inactive" ELSE "active"]
    /\ UNCHANGED <<order, coupon, referral, worker, revived, stranded, faults>>

\* Verified registration of an invited customer: the referral, and the welcome coupon
\* if its template is active, in one transaction of their own.
RegisterReferral(u) ==
    /\ InvitedBy[u] # Nobody
    /\ referral[u].status = "none"
    /\ IF template["invitee"] = "active"
       THEN \E c \in Fresh :
             /\ coupon' = [coupon EXCEPT ![c] = Issued(u, "invitee", u)]
             /\ referral' = [referral EXCEPT ![u] = [@ EXCEPT !.status = "registered",
                                                              !.welcome = c]]
       ELSE /\ referral' = [referral EXCEPT ![u].status = "registered"]
            /\ UNCHANGED coupon
    /\ UNCHANGED <<order, template, worker, revived, stranded, faults, edits>>

-------------------------------------------------------------------------------
(* An order takes a coupon *)

Idle(w) == worker[w].pc = "idle"
GoTo(w, pc) == worker' = [worker EXCEPT ![w].pc = pc]
Finish(w) == worker' = [worker EXCEPT ![w] = NoTask]
Begin(w, pc, o, c) == worker' = [worker EXCEPT ![w] = [pc |-> pc, order |-> o, coupon |-> c]]

Applicable(c) == coupon[c].status = "unused" /\ ~coupon[c].expired

\* list_usable_for_order, the choice the customer is offered.
UsableFor(u) == {c \in Coupons : coupon[c].owner = u /\ Applicable(c)}

\* create_order looks at the coupon before its transaction, to price the order.
PriceOrder(w, o) ==
    /\ Idle(w)
    /\ order[o].status = "absent"
    /\ \E c \in UsableFor(Buyer[o]) \cup {NoCoupon} : Begin(w, "reserve", o, c)
    /\ UNCHANGED <<order, coupon, template, referral, revived, stranded, faults, edits>>

\* uk_billing_orders_active_user: one order of a customer that may still be delivered.
MayOpen(o) ==
    \A p \in Orders \ {o} :
        Buyer[p] = Buyer[o] => order[p].status \notin {"pending", "paid"}

\* Seeded defect: the coupon as it was when the order was priced.
StillPriced(c) == coupon[c].status \in {"unused", "reserved"}
\* The condition of the UPDATE that reserves.
StillUnused(c) == Applicable(c)

\* The order and the reservation in one transaction.
ReserveForOrder(w) ==
    LET o == worker[w].order
        c == worker[w].coupon
    IN
    /\ worker[w].pc = "reserve"
    /\ IF order[o].status = "absent" /\ MayOpen(o) /\ (c = NoCoupon \/ StillUnused(c))
       THEN /\ order' = [order EXCEPT ![o] = [@ EXCEPT !.status = "pending", !.coupon = c]]
            /\ coupon' = IF c = NoCoupon THEN coupon
                         ELSE [coupon EXCEPT ![c] = [@ EXCEPT !.status = "reserved", !.order = o]]
            /\ GoTo(w, "gateway")
       ELSE Finish(w) /\ UNCHANGED <<order, coupon>>
    /\ UNCHANGED <<template, referral, revived, stranded, faults, edits>>

\* Seeded defect: a coupon past its date is given back with a status there is not.
ReleasedAsExpired(o) ==
    [c \in Coupons |->
        IF coupon[c].order = o /\ coupon[c].status = "reserved"
        THEN [coupon[c] EXCEPT !.status = IF coupon[c].expired THEN "expired" ELSE "unused",
                               !.order = NoOrder]
        ELSE coupon[c]]
\* release_for_order: a reservation is given back, a used coupon is not.
ReleaseForOrder(o) ==
    [c \in Coupons |->
        IF coupon[c].order = o /\ coupon[c].status = "reserved"
        THEN [coupon[c] EXCEPT !.status = "unused", !.order = NoOrder] ELSE coupon[c]]

\* The gateway takes the trade, or is not heard, or refuses: then all is undone.
AskGateway(w) ==
    /\ worker[w].pc = "gateway"
    /\ \/ order' = [order EXCEPT ![worker[w].order].trade = TRUE] /\ Finish(w)
       \/ GoTo(w, "unreserve") /\ UNCHANGED order
    /\ UNCHANGED <<coupon, template, referral, revived, stranded, faults, edits>>

\* A best-effort commit is lost now and then.
Fault == faults < MaxFaults /\ faults' = faults + 1

UndoReservation(w) ==
    LET o == worker[w].order IN
    /\ worker[w].pc = "unreserve"
    /\ \/ coupon' = ReleaseForOrder(o) /\ UNCHANGED <<stranded, faults>>
       \/ Fault /\ stranded' = stranded \cup {o} /\ UNCHANGED coupon
    /\ GoTo(w, "erase")
    /\ UNCHANGED <<order, template, referral, revived, edits>>

EraseOrder(w) ==
    LET o == worker[w].order IN
    /\ worker[w].pc = "erase"
    /\ \/ order' = [order EXCEPT ![o].status = "deleted"] /\ UNCHANGED <<revived, faults>>
       \/ Fault /\ revived' = revived \cup {o} /\ UNCHANGED order
    /\ Finish(w)
    /\ UNCHANGED <<coupon, template, referral, stranded, edits>>

-------------------------------------------------------------------------------
(* An order comes to nothing *)

CancelOrder(w, o) ==
    /\ Idle(w)
    /\ order[o].status = "pending"
    /\ order' = [order EXCEPT ![o].status = "ended"]
    /\ Begin(w, "release", o, NoCoupon)
    /\ UNCHANGED <<coupon, template, referral, revived, stranded, faults, edits>>

\* Seeded defect: the job leaves the coupon to a commit of its own that is not there.
CloseKeepingCoupon(o) ==
    /\ order[o].status = "pending"
    /\ order' = [order EXCEPT ![o].status = "ended"]
    /\ UNCHANGED <<coupon, template, referral, worker, revived, stranded, faults, edits>>
\* The job ends an unpaid order and gives its coupon back in one commit.
CloseOrder(o) ==
    /\ order[o].status = "pending"
    /\ order' = [order EXCEPT ![o].status = "ended"]
    /\ coupon' = ReleaseForOrder(o)
    /\ UNCHANGED <<template, referral, worker, revived, stranded, faults, edits>>

\* Retries run out, or the order cannot be applied at all.
FailApply(w, o) ==
    /\ Idle(w)
    /\ order[o].status = "paid"
    /\ order' = [order EXCEPT ![o].status = "failed"]
    /\ Begin(w, "release", o, NoCoupon)
    /\ UNCHANGED <<coupon, template, referral, revived, stranded, faults, edits>>

\* The separate commit of cancel_order and of the apply engine.
ReleaseCoupon(w) ==
    LET o == worker[w].order IN
    /\ worker[w].pc = "release"
    /\ \/ coupon' = ReleaseForOrder(o) /\ UNCHANGED <<stranded, faults>>
       \/ Fault /\ stranded' = stranded \cup {o} /\ UNCHANGED coupon
    /\ Finish(w)
    /\ UNCHANGED <<order, template, referral, revived, edits>>

-------------------------------------------------------------------------------
(* An order is paid for *)

\* Money for an order that has ended is reviewed.
Pay(o) ==
    /\ order[o].trade
    /\ order[o].status \in {"pending", "ended"}
    /\ order' = [order EXCEPT ![o].status = IF @ = "pending" THEN "paid" ELSE "review"]
    /\ UNCHANGED <<coupon, template, referral, worker, revived, stranded, faults, edits>>

\* force_apply takes no notice of the coupon.
ForceApply(o) ==
    /\ order[o].status \in {"failed", "review"}
    /\ MayOpen(o)
    /\ order' = [order EXCEPT ![o].status = "paid"]
    /\ revived' = revived \cup {o}
    /\ UNCHANGED <<coupon, template, referral, worker, stranded, faults, edits>>

\* Neither does force_close.
ForceClose(o) ==
    /\ order[o].status \in {"failed", "review"}
    /\ order' = [order EXCEPT ![o].status = "ended"]
    /\ stranded' = stranded \cup {o}
    /\ UNCHANGED <<coupon, template, referral, worker, revived, faults, edits>>

ApplyOrder(w, o) ==
    /\ Idle(w)
    /\ order[o].status = "paid"
    /\ order' = [order EXCEPT ![o].status = "applied"]
    /\ Begin(w, "consume", o, NoCoupon)
    /\ UNCHANGED <<coupon, template, referral, revived, stranded, faults, edits>>

\* Stage 4b, best-effort.
MarkUsedForOrder(w) ==
    LET o == worker[w].order IN
    /\ worker[w].pc = "consume"
    /\ \/ /\ coupon' = [c \in Coupons |->
                IF coupon[c].order = o /\ coupon[c].status = "reserved"
                THEN [coupon[c] EXCEPT !.status = "used"] ELSE coupon[c]]
          /\ UNCHANGED faults
       \/ Fault /\ UNCHANGED coupon
    /\ GoTo(w, "qualify")
    /\ UNCHANGED <<order, template, referral, revived, stranded, edits>>

-------------------------------------------------------------------------------
(* The inviter's reward *)

\* The referral is read: its row stays in the session as it is now.
QualifyOrder(w) ==
    LET o == worker[w].order
        u == Buyer[o]
    IN
    /\ worker[w].pc = "qualify"
    /\ IF /\ referral[u].status = "registered"
          /\ template["inviter"] = "active" /\ template["invitee"] = "active"
       THEN worker' = [worker EXCEPT ![w].pc = "reward", ![w].coupon = referral[u].welcome]
       ELSE Finish(w)
    /\ UNCHANGED <<order, coupon, template, referral, revived, stranded, faults, edits>>

\* What the SELECT ... FOR UPDATE returns: the object the session holds already,
\* with the status and the welcome coupon it was read with.
StatusInSession(w) == "registered"

GrantReward(w) ==
    LET o == worker[w].order
        u == Buyer[o]
        new == IF worker[w].coupon = NoCoupon THEN 2 ELSE 1
    IN
    /\ worker[w].pc = "reward"
    /\ \/ /\ StatusInSession(w) = "registered"
          /\ \E granted \in SUBSET Fresh : \E c \in granted :
              LET welcome == CHOOSE d \in granted : new = 1 \/ d # c
              IN
              /\ Cardinality(granted) = new
              /\ coupon' = [d \in Coupons |->
                    CASE d = c         -> Issued(InvitedBy[u], "inviter", u)
                      [] d \in granted \ {c} -> Issued(u, "invitee", u)
                      [] OTHER         -> coupon[d]]
              /\ referral' = [referral EXCEPT ![u] =
                    [status |-> "rewarded", reward |-> c, order |-> o,
                     welcome |-> IF new = 2 THEN welcome ELSE worker[w].coupon]]
          /\ UNCHANGED faults
       \/ Fault /\ UNCHANGED <<coupon, referral>>
    /\ Finish(w)
    /\ UNCHANGED <<order, template, revived, stranded, edits>>

-------------------------------------------------------------------------------
(* Administrators, time, restarts *)

Revoke(c) ==
    /\ coupon[c].status \in {"unused", "reserved"}
    /\ edits < MaxEdits /\ edits' = edits + 1
    /\ coupon' = [coupon EXCEPT ![c] = [@ EXCEPT !.status = "revoked", !.order = NoOrder]]
    /\ UNCHANGED <<order, template, referral, worker, revived, stranded, faults>>

Expire(c) ==
    /\ coupon[c].status \in {"unused", "reserved"} /\ ~coupon[c].expired
    /\ coupon' = [coupon EXCEPT ![c].expired = TRUE]
    /\ UNCHANGED <<order, template, referral, worker, revived, stranded, faults, edits>>

\* Every request and job in progress is gone; an order that was being undone stays.
Restart ==
    /\ Fault
    /\ \E w \in Workers : ~Idle(w)
    /\ worker' = [w \in Workers |-> NoTask]
    /\ stranded' = stranded \cup
          {worker[w].order : w \in {x \in Workers : worker[x].pc \in {"unreserve", "release"}}}
    /\ revived' = revived \cup {worker[w].order : w \in {x \in Workers : worker[x].pc = "erase"}}
    /\ UNCHANGED <<order, coupon, template, referral, edits>>

CouponNext ==
    \/ Restart
    \/ \E t \in Templates : UpdateTemplate(t)
    \/ \E u \in Customers : RegisterReferral(u) \/ \E t \in Templates : ManualGrant(u, t)
    \/ \E c \in Coupons : Revoke(c) \/ Expire(c)
    \/ \E o \in Orders : Pay(o) \/ CloseOrder(o) \/ ForceApply(o) \/ ForceClose(o)
    \/ \E w \in Workers :
        \/ ReserveForOrder(w) \/ AskGateway(w) \/ UndoReservation(w) \/ EraseOrder(w)
        \/ ReleaseCoupon(w) \/ MarkUsedForOrder(w) \/ QualifyOrder(w) \/ GrantReward(w)
        \/ \E o \in Orders :
            PriceOrder(w, o) \/ CancelOrder(w, o) \/ FailApply(w, o) \/ ApplyOrder(w, o)

CouponSpec == CouponInit /\ [][CouponNext]_couponVars

-------------------------------------------------------------------------------
(* Properties *)

\* An order that may still be delivered, or was, with a coupon's discount is the one
\* order that coupon is kept for, unless an administrator (or a rollback that failed)
\* let the order go on after the coupon was given back, or revoked the coupon.  Since
\* a coupon is kept for one order, it then discounts one.
DiscountBacked ==
    \A o \in Orders :
        LET c == order[o].coupon IN
        (/\ order[o].status \in {"pending", "paid", "applied"}
         /\ c # NoCoupon
         /\ o \notin revived
         /\ \A w \in Workers : worker[w].order = o => worker[w].pc # "erase")
        => (coupon[c].order = o \/ coupon[c].status = "revoked")

\* A coupon is not left behind by an order that came to nothing: a task is about to
\* give it back, unless that commit failed, the program was restarted before it, or an
\* administrator closed the order.
CouponComesBack ==
    \A c \in Coupons :
        (/\ coupon[c].status = "reserved"
         /\ order[coupon[c].order].status \in {"failed", "ended", "deleted"})
        => \/ coupon[c].order \in stranded
           \/ \E w \in Workers :
                worker[w].order = coupon[c].order /\ worker[w].pc \in {"release", "unreserve"}
===============================================================================
