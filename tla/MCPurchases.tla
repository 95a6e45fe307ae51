------------------------------ MODULE MCPurchases ------------------------------
(***************************************************************************)
(* A customer's purchases for TLC: the coupons of two orders of an invited *)
(* customer, and what two orders of one customer buy.  The two share no    *)
(* state, so a behaviour moves one of them.                                *)
(***************************************************************************)
EXTENDS Coupons, Plans, TLC

CONSTANTS v1, u1, w1, w2, o1, o2, c1, c2, basic, pro, trial

ByInvitation == [u \in Customers |-> v1]
OneBuyer == [o \in Orders |-> u1]

(* The inviter places no order here, so that time does not matter to his coupons. *)
InviterKeepsCoupons == \A c \in Coupons : coupon[c].owner = v1 => ~coupon[c].expired

MCOffers == {[price |-> 1, days |-> 1], [price |-> 2, days |-> 1]}
MCCatalogue ==
    [p \in PlanIds |->
        [st |-> "active", type |-> IF p = trial THEN "trial" ELSE "standard",
         link |-> IF p = trial THEN basic ELSE NoPlan,
         offer |-> IF p = pro THEN [price |-> 2, days |-> 1] ELSE [price |-> 1, days |-> 1],
         build |-> IF p = pro THEN 2 ELSE 1]]

(* One thing happens around the orders: a day, an edit, an accident or a decision about one of *)
(* them.  An edit changes the status, the price or the resources, beside the type and the link. *)
Decided == {o \in Sales : purchase[o].forced \/ purchase[o].st = "closed"}
OneChange ==
    /\ clock.days + clock.edits + clock.accidents + Cardinality(Decided) <= 1
    /\ \A p \in PlanIds :
        Cardinality({field \in {"st", "offer", "build"} : plan[p][field] # MCCatalogue[p][field]}) <= 1

CustomerSymmetry == Permutations(Workers) \cup Permutations(Coupons) \cup Permutations(Orders)

PurchaseInit == CouponInit /\ PlanInit

(* One of the initial states of each part; the others are for the other part alone. *)
NothingSold == ~owned /\ clock = [days |-> 0, edits |-> 0, accidents |-> 0] /\ \A o \in Sales : purchase[o] = NoSale
NoCoupons == template["invitee"] = "active" /\ faults = 0 /\ CouponInit

PurchaseNext ==
    \/ NothingSold /\ CouponNext /\ UNCHANGED planVars
    \/ NoCoupons /\ PlanNext /\ UNCHANGED couponVars

PurchaseSpec == PurchaseInit /\ [][PurchaseNext]_<<couponVars, planVars>>

PurchaseTypeOK == CouponTypeOK /\ PlanTypeOK
===============================================================================
