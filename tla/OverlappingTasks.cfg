\* Two tasks on a purchase at Hupijiao that may be paid twice, with a crash and a stall.
SPECIFICATION Spec

CONSTANTS
    o1 = o1
    o2 = o2
    w1 = w1
    w2 = w2
    t1 = t1
    t2 = t2
    u1 = u1
    NoWorker = NoWorker
    NoOrder = NoOrder
    Orders = {o1}
    Users = {u1}
    UserOf <- OneUser
    KindOf <- Purchase
    GatewayOf <- Hupijiao
    Registered = {"alipay_direct", "hupijiao"}
    Txs = {t1, t2}
    ExactTxs = {t1}
    Workers = {w1, w2}
    MaxRetries = 1
    MaxCrashes = 1
    MaxStalls = 1

SYMMETRY WorkerSymmetry

INVARIANTS
    TypeOK
    CreditedOnce
    FundFactLands
    
    GrantedOnlyPaid
    AppliedIsDelivered

PROPERTIES
    ImplementsLifecycle

\* Every order may be settled and the budgets of faults used up.
CHECK_DEADLOCK FALSE
