\* Two tasks on one renewal at either gateway that needs a review, and a restart.
SPECIFICATION FairRefundSpec

CONSTANTS
    o1 = o1
    o2 = o2
    w1 = w1
    w2 = w2
    t1 = t1
    u1 = u1
    NoWorker = NoWorker
    NoOrder = NoOrder
    Orders = {o1, o2}
    Users = {u1}
    UserOf <- OneUser
    KindOf <- Renewals
    GatewayOf <- OneEach
    Registered = {"alipay_direct", "hupijiao"}
    Txs = {t1}
    ExactTxs = {}
    Workers = {w1, w2}
    MaxRetries = 0
    MaxCrashes = 1
    MaxStalls = 0
    MaxRefundRetries = 2

CONSTRAINT OneOrder


    
    
    

PROPERTIES
    PaidRefundIsBooked

\* Every order may be settled and the budgets of faults used up.
CHECK_DEADLOCK FALSE
