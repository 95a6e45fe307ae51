\* A late payment while the customer has another order.
SPECIFICATION Spec

CONSTANTS
    o1 = o1
    o2 = o2
    w1 = w1
    w2 = w2
    t1 = t1
    t2 = t2
    u1 = u1
    NoWorker = NoWorker
    NoOrder = NoOrder
    Orders = {o1, o2}
    Users = {u1}
    UserOf <- OneUser
    KindOf <- Purchase
    GatewayOf <- Hupijiao
    Registered = {"alipay_direct", "hupijiao"}
    Txs = {t1}
    ExactTxs = {t1}
    Workers = {w1}
    MaxRetries = 1
    MaxCrashes = 0
    MaxStalls = 0

INVARIANTS
    FundFactLands

\* Every order may be settled and the budgets of faults used up.
CHECK_DEADLOCK FALSE
