--------------------------------- MODULE Plans ----------------------------------
(***************************************************************************)
(* What a customer buys: the plans administrators edit, the terms an order *)
(* keeps of its plan, and the server that gets what the order sold.  The   *)
(* orders' leases, retries and payments are BillingOrders'; a paid order   *)
(* is delivered here in the commits its kind takes.                        *)
(***************************************************************************)
EXTENDS Integers, FiniteSets

CONSTANTS
    PlanIds, NoPlan,
    Catalogue,      \* the plans at first
    FirstPlans,     \* those a customer's first server may be on
    Offers,         \* price_fen and days an administrator may give a plan
    Builds,         \* resources of a server
    Periods,        \* counts of periods on offer
    Sales,          \* orders of one customer
    OldServer, NoTarget,
    MaxPlanEdits, MaxSaleDays,
    MaxAccidents    \* servers deleted or made by others

Kinds == {"new_purchase", "renew", "convert", "upgrade"}
PlanRow == [st : {"absent", "active", "inactive", "deleted"}, type : {"standard", "trial"},
            link : PlanIds \cup {NoPlan}, offer : Offers, build : Builds]

ASSUME PlanAssumption ==
    /\ NoPlan \notin PlanIds /\ OldServer \notin Sales /\ NoTarget \notin Sales \cup {OldServer}
    /\ \A offer \in Offers : offer.price \in Nat \ {0} /\ offer.days \in Nat \ {0}
    /\ Catalogue \in [PlanIds -> PlanRow] /\ FirstPlans \subseteq PlanIds
    /\ Periods \subseteq Nat \ {0} /\ MaxPlanEdits \in Nat /\ MaxSaleDays \in Nat
    /\ MaxAccidents \in Nat

VARIABLES
    plan,       \* manager_billing_plans
    purchase,   \* manager_billing_orders, with the snapshot of the plan
    rented,     \* servers and manager_server_meta; a purchase's server has its name
    owned,      \* users.has_owned_server
    clock       \* days gone by, administrators' edits, accidents

planVars == <<plan, purchase, rented, owned, clock>>

Statuses == {"absent", "pending", "processing", "applied", "apply_failed", "manual_review",
             "cancelled", "closed"}
Servers == Sales \cup {OldServer}

PlanTypeOK ==
    /\ plan \in [PlanIds -> PlanRow]
    /\ \A o \in Sales :
        /\ purchase[o].st \in Statuses /\ purchase[o].kind \in Kinds
        /\ purchase[o].plan \in PlanIds \cup {NoPlan}
        /\ purchase[o].sold \in PlanRow \cup {NoPlan} /\ purchase[o].before \in Offers \cup {NoPlan}
        /\ purchase[o].days \in Nat /\ purchase[o].total \in Nat
        /\ purchase[o].target \in Servers \cup {NoTarget}
        /\ purchase[o].done \in {"nothing", "build", "binding"} /\ purchase[o].forced \in BOOLEAN
    /\ \A s \in Servers :
        /\ rented[s].st \in {"none", "placeholder", "live"}
        /\ rented[s].plan \in PlanIds \cup {NoPlan} /\ rented[s].build \in Builds \cup {NoPlan}
        /\ rented[s].trial \in BOOLEAN /\ rented[s].left \in Nat \cup {-1}
    /\ owned \in BOOLEAN
    /\ clock \in [days : 0..MaxSaleDays, edits : 0..MaxPlanEdits, accidents : 0..MaxAccidents]

NoSale == [st |-> "absent", kind |-> "renew", plan |-> NoPlan, sold |-> NoPlan, before |-> NoPlan,
           days |-> 0, total |-> 0, target |-> NoTarget, done |-> "nothing", forced |-> FALSE]
NotRented == [st |-> "none", plan |-> NoPlan, build |-> NoPlan, trial |-> FALSE, left |-> 0]
OnPlan(p, left) == [st |-> "live", plan |-> p, build |-> Catalogue[p].build,
                    trial |-> Catalogue[p].type = "trial", left |-> left]

\* A customer without a server, or with one.
PlanInit ==
    /\ plan = Catalogue
    /\ purchase = [o \in Sales |-> NoSale]
    /\ \/ rented = [s \in Servers |-> NotRented] /\ owned = FALSE
       \/ \E p \in FirstPlans :
            /\ rented = [s \in Servers |-> IF s = OldServer THEN OnPlan(p, Catalogue[p].offer.days)
                                           ELSE NotRented]
            /\ owned = TRUE
    /\ clock = [days |-> 0, edits |-> 0, accidents |-> 0]

-------------------------------------------------------------------------------
(* The catalogue *)

InCatalogue(p) == p # NoPlan /\ plan[p].st \in {"active", "inactive"}

_resolve_linked_plan(q) == InCatalogue(q) /\ plan[q].st = "active" /\ plan[q].type = "standard"

\* A trial plan takes the resources of the standard plan it leads to, as they are now.
validate_plan_payload(row) ==
    IF row.type = "trial"
    THEN _resolve_linked_plan(row.link) /\ row.build = plan[row.link].build
    ELSE row.link = NoPlan

EditPlans(edited) ==
    /\ clock.edits < MaxPlanEdits /\ clock' = [clock EXCEPT !.edits = @ + 1]
    /\ plan' = edited
    /\ UNCHANGED <<purchase, rented, owned>>

\* create_plan and update_plan; the price and the days may change, and the type.
SavePlan(p) ==
    /\ plan[p].st # "deleted"
    /\ \E row \in PlanRow :
        /\ row.st \in {"active", "inactive"} /\ validate_plan_payload(row)
        /\ EditPlans([plan EXCEPT ![p] = row])

\* ON DELETE SET NULL: trial plans lose their link; servers and orders keep the id.
delete_plan(p) ==
    /\ InCatalogue(p)
    /\ EditPlans([q \in PlanIds |->
           IF q = p THEN [plan[q] EXCEPT !.st = "deleted", !.link = NoPlan]
           ELSE IF plan[q].link = p THEN [plan[q] EXCEPT !.link = NoPlan] ELSE plan[q]])

-------------------------------------------------------------------------------
(* Placing an order *)

remaining_billable_days(left) == IF left > 1 THEN left ELSE 1

\* The difference per day times the days, cut off; nothing where the new plan is not dearer per day.
upgrade_diff_fen(old, new, left) ==
    LET dearer == new.price * old.days IN
    IF dearer <= old.price * new.days THEN 0
    ELSE ((dearer - old.price * new.days) * remaining_billable_days(left))
             \div (new.days * old.days)

\* Seeded defect: a paid order no longer counts.
OnlyUnpaid == {"pending", "manual_review"}
ActiveStatuses == {"pending", "processing", "manual_review"}
NoneActive(o) == \A p \in Sales \ {o} : purchase[p].st \notin ActiveStatuses

_select_period(p) == IF plan[p].type = "trial" THEN Periods \cap {1} ELSE Periods

\* The order keeps the plan's terms as they are; what it charges is its price before coupons.
Placed(o, kind, p, s, days, total, before) ==
    /\ purchase[o].st = "absent" /\ NoneActive(o)
    /\ purchase' = [purchase EXCEPT ![o] =
           [NoSale EXCEPT !.st = "pending", !.kind = kind, !.plan = p, !.sold = plan[p],
                          !.days = days, !.total = total, !.target = s, !.before = before]]
    /\ UNCHANGED <<plan, owned, clock>>

PlacedFor(o, kind, p, s) ==
    \E n \in _select_period(p) :
        Placed(o, kind, p, s, n * plan[p].offer.days, n * plan[p].offer.price, NoPlan)

\* A trial is for customers who never had a server.  The server is there at once, as a placeholder.
OrderPurchase(o, p) ==
    /\ plan[p].st = "active"
    /\ plan[p].type = "trial" => ~owned
    /\ PlacedFor(o, "new_purchase", p, o)
    /\ rented' = [rented EXCEPT ![o] = [NotRented EXCEPT !.st = "placeholder", !.build = plan[p].build]]

Bound(s) == rented[s].st = "live" /\ rented[s].plan # NoPlan

\* A plan that is not sold any more can still be renewed.
OrderRenewal(o, s) ==
    /\ Bound(s) /\ ~rented[s].trial
    /\ InCatalogue(rented[s].plan)
    /\ PlacedFor(o, "renew", rented[s].plan, s)
    /\ UNCHANGED rented

\* A trial server goes on as a server of the plan its trial plan leads to.
OrderConversion(o, s) ==
    /\ Bound(s) /\ rented[s].trial
    /\ InCatalogue(rented[s].plan) /\ InCatalogue(plan[rented[s].plan].link)
    /\ PlacedFor(o, "convert", plan[rented[s].plan].link, s)
    /\ UNCHANGED rented

\* get_upgrade_options lists the same plans with the same charge.
upgrade_options(s) ==
    {p \in PlanIds \ {rented[s].plan} :
        /\ plan[p].st = "active"
        /\ plan[p].offer.price > plan[rented[s].plan].offer.price
        /\ upgrade_diff_fen(plan[rented[s].plan].offer, plan[p].offer, rented[s].left) > 0}

OrderUpgrade(o, s) ==
    /\ Bound(s) /\ ~rented[s].trial /\ rented[s].left >= 0
    /\ InCatalogue(rented[s].plan)
    /\ \E p \in upgrade_options(s) :
        LET old == plan[rented[s].plan].offer IN
        Placed(o, "upgrade", p, s, 0, upgrade_diff_fen(old, plan[p].offer, rented[s].left), old)
    /\ UNCHANGED rented

-------------------------------------------------------------------------------
(* What becomes of it until it is delivered *)

Moved(o, from, to) ==
    /\ purchase[o].st \in from
    /\ purchase' = [purchase EXCEPT ![o].st = to, ![o].done = "nothing"]

\* Paid as asked, with another amount, or after the order was given up.
Paid(o) ==
    /\ \/ Moved(o, {"pending"}, "processing")
       \/ Moved(o, {"pending"}, "manual_review")
       \/ NoneActive(o) /\ Moved(o, {"cancelled"}, "manual_review")
    /\ UNCHANGED <<plan, rented, owned, clock>>

\* The deletion of the placeholder may fail.
Cancelled(o) ==
    /\ Moved(o, {"pending"}, "cancelled")
    /\ \/ UNCHANGED rented
       \/ purchase[o].kind = "new_purchase" /\ rented' = [rented EXCEPT ![o] = NotRented]
    /\ UNCHANGED <<plan, owned, clock>>

\* A restart begins the delivery again; the last retry, or a server that is gone, ends it.
DeliveryFails(o) ==
    /\ Moved(o, {"processing"}, "processing") \/ Moved(o, {"processing"}, "apply_failed")
    /\ UNCHANGED <<plan, rented, owned, clock>>

ApplyByHand(o) ==
    /\ purchase[o].st \in {"manual_review", "apply_failed"} /\ NoneActive(o)
    /\ purchase' = [purchase EXCEPT ![o].st = "processing", ![o].forced = TRUE]
    /\ UNCHANGED <<plan, rented, owned, clock>>

\* An order without an effect loses its server, whichever server that is.
CloseByHand(o) ==
    /\ Moved(o, {"manual_review", "apply_failed"}, "closed")
    /\ \/ UNCHANGED rented
       \/ rented' = [rented EXCEPT ![purchase[o].target] = NotRented]
    /\ UNCHANGED <<plan, owned, clock>>

-------------------------------------------------------------------------------
(* Delivery, from the order's snapshot alone *)

Delivering(o, kind, done) ==
    /\ purchase[o].st = "processing" /\ purchase[o].kind = kind /\ purchase[o].done = done
    /\ rented[purchase[o].target].st # "none"

ToServer(o, row) == rented' = [rented EXCEPT ![purchase[o].target] = row]
Reached(o, done) == purchase' = [purchase EXCEPT ![o].done = done]
Applied(o) == purchase' = [purchase EXCEPT ![o].st = "applied", ![o].done = "nothing"]

\* update_build commits by itself, before the rest of an upgrade or a conversion.
update_build(o) ==
    /\ Delivering(o, "upgrade", "nothing") \/ Delivering(o, "convert", "nothing")
    /\ ToServer(o, [rented[purchase[o].target] EXCEPT !.build = purchase[o].sold.build])
    /\ Reached(o, "build")
    /\ UNCHANGED <<plan, owned, clock>>

\* The new plan, then the effect, each in a commit of its own.
_effect_upgrade(o) ==
    /\ \/ /\ Delivering(o, "upgrade", "build")
          /\ ToServer(o, [rented[purchase[o].target] EXCEPT !.plan = purchase[o].plan])
          /\ Reached(o, "binding")
       \/ /\ Delivering(o, "upgrade", "binding")
          /\ Applied(o) /\ UNCHANGED rented
    /\ UNCHANGED <<plan, owned, clock>>

Longer(left, days) == (IF left > 0 THEN left ELSE 0) + days

_effect_renew(o) ==
    /\ Delivering(o, "renew", "nothing")
    /\ ToServer(o, [rented[purchase[o].target] EXCEPT !.left = Longer(@, purchase[o].days)])
    /\ Applied(o)
    /\ UNCHANGED <<plan, owned, clock>>

_effect_convert(o) ==
    /\ Delivering(o, "convert", "build")
    /\ ToServer(o, [rented[purchase[o].target] EXCEPT !.left = Longer(@, purchase[o].days),
                                                      !.plan = purchase[o].plan, !.trial = FALSE])
    /\ Applied(o)
    /\ UNCHANGED <<plan, owned, clock>>

\* Seeded defect: the customer is not remembered as one who has had a server.
PurchaseForgotten(o) ==
    /\ Delivering(o, "new_purchase", "nothing")
    /\ ToServer(o, [rented[o] EXCEPT !.st = "live", !.plan = purchase[o].plan,
                        !.trial = purchase[o].sold.type = "trial", !.left = purchase[o].days])
    /\ Applied(o)
    /\ UNCHANGED <<plan, owned, clock>>

_effect_new_purchase(o) ==
    /\ Delivering(o, "new_purchase", "nothing")
    /\ ToServer(o, [rented[o] EXCEPT !.st = "live", !.plan = purchase[o].plan,
                        !.trial = purchase[o].sold.type = "trial", !.left = purchase[o].days])
    /\ Applied(o)
    /\ owned' = TRUE
    /\ UNCHANGED <<plan, clock>>

-------------------------------------------------------------------------------
(* Around it *)

\* A server whose day is over stays at -1 until it is renewed or deleted.
NextDay ==
    /\ clock.days < MaxSaleDays /\ clock' = [clock EXCEPT !.days = @ + 1]
    /\ rented' = [s \in Servers |->
           IF rented[s].st = "live" /\ rented[s].left >= 0
           THEN [rented[s] EXCEPT !.left = @ - 1] ELSE rented[s]]
    /\ UNCHANGED <<plan, purchase, owned>>

Accident == clock.accidents < MaxAccidents /\ clock' = [clock EXCEPT !.accidents = @ + 1]

\* By an administrator or the nightly batch.
ServerGone(s) ==
    /\ rented[s].st = "live" /\ Accident
    /\ rented' = [rented EXCEPT ![s] = NotRented]
    /\ UNCHANGED <<plan, purchase, owned>>

\* An administrator makes the customer a server.
OwnedOtherwise ==
    /\ ~owned /\ owned' = TRUE /\ Accident
    /\ UNCHANGED <<plan, purchase, rented>>

PlanNext ==
    \/ \E p \in PlanIds : SavePlan(p) \/ delete_plan(p)
    \/ \E o \in Sales :
        \/ \E p \in PlanIds : OrderPurchase(o, p)
        \/ \E s \in Servers : OrderRenewal(o, s) \/ OrderConversion(o, s) \/ OrderUpgrade(o, s)
        \/ Paid(o) \/ Cancelled(o) \/ DeliveryFails(o) \/ ApplyByHand(o) \/ CloseByHand(o)
        \/ update_build(o) \/ _effect_upgrade(o) \/ _effect_renew(o) \/ _effect_convert(o)
        \/ _effect_new_purchase(o)
    \/ \E s \in Servers : ServerGone(s)
    \/ NextDay \/ OwnedOtherwise

PlanSpec == PlanInit /\ [][PlanNext]_planVars

-------------------------------------------------------------------------------
(* Properties *)

\* An order delivered without an administrator's hand leaves the server on the plan and with the
\* resources it sold, a trial only if it sold one, whatever was edited or deleted meanwhile; and an
\* upgrade has charged for all the days it upgrades (_build_snapshot, apply_engine's effects).
DeliveredAsSold ==
    [][\A o \in Sales :
        LET row == purchase[o] server == rented'[row.target] IN
        row.st = "processing" /\ purchase'[o].st = "applied" /\ ~row.forced =>
            /\ server.plan = row.plan
            /\ row.kind # "renew" => server.build = row.sold.build
            /\ server.trial = (row.kind = "new_purchase" /\ row.sold.type = "trial")
            /\ row.kind = "upgrade" =>
                   upgrade_diff_fen(row.before, row.sold.offer, server.left) <= row.total]_planVars

\* A customer gets one trial server at most without an administrator's hand, however many trial
\* orders are placed, given up, paid late or fail (create_order's "only once").
OneTrial ==
    Cardinality({o \in Sales :
        /\ purchase[o].st = "applied" /\ ~purchase[o].forced
        /\ purchase[o].kind = "new_purchase" /\ purchase[o].sold.type = "trial"}) <= 1
===============================================================================
