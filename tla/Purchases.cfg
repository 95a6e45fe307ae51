\* One invited customer, two orders, two coupons, two tasks and one fault; then two orders for three
\* plans, with a day, an edit of the catalogue or an accident.
SPECIFICATION PurchaseSpec

CONSTANTS
    v1 = v1
    u1 = u1
    w1 = w1
    w2 = w2
    o1 = o1
    o2 = o2
    c1 = c1
    c2 = c2
    Nobody = Nobody
    NoOrder = NoOrder
    NoCoupon = NoCoupon
    Customers = {u1}
    Inviters = {v1}
    InvitedBy <- ByInvitation
    Orders = {o1, o2}
    Buyer <- OneBuyer
    Coupons = {c1, c2}
    Workers = {w1, w2}
    MaxFaults = 1
    MaxEdits = 1
    basic = basic
    pro = pro
    trial = trial
    PlanIds = {basic, pro, trial}
    NoPlan = NoPlan
    Catalogue <- MCCatalogue
    FirstPlans = {basic, trial}
    Offers <- MCOffers
    Builds = {1, 2}
    Periods = {1}
    Sales = {o1, o2}
    OldServer = OldServer
    NoTarget = NoTarget
    MaxPlanEdits = 1
    MaxSaleDays = 1
    MaxAccidents = 1

SYMMETRY CustomerSymmetry

CONSTRAINTS
    InviterKeepsCoupons
    OneChange

INVARIANTS
    PurchaseTypeOK
    DiscountBacked
    CouponComesBack
    OneTrial


    

\* Orders may all be settled and the budgets used up.
CHECK_DEADLOCK FALSE
