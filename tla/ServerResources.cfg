\* One server's key under two requests and the sync; two servers' ports under two orders; the mails
\* about one server on three days, with two delays, a grace period of one or two days.
SPECIFICATION ResourceSpec

CONSTANTS
    s1 = s1
    s2 = s2
    r1 = r1
    r2 = r2
    o1 = o1
    o2 = o2
    a1 = a1
    c1 = c1
    c2 = c2
    KeyServers = {s1}
    LlmPlans = {1, 2}
    KeyRequests = {r1, r2}
    Sync = Sync
    NoServer = NoServer
    MaxAccounts = 2
    MaxSubs = 3
    MaxKeyRequests = 4
    MaxSyncs = 1
    MaxRestarts = 1
    MaxFailures = 1
    PortServers = {s1, s2}
    Ports = {1, 2, 3}
    Configs = {c1, c2}
    Limits = {1, 2}
    Orders = {o1, o2}
    Admins = {a1}
    NoOne = NoOne
    NoLimit = NoLimit
    Absent = Absent
    MaxPortRequests = 3
    MaxPortRestarts = 1
    NoticeServers = {s1}
    Delays = 2
    Graces = {1, 2}
    DefaultGrace = 1
    LastDay = 3
    MaxNoticeFaults = 1
    MaxChanges = 1

INVARIANTS
    ResourceTypeOK
    AccountsKnown
    KeyMatches
    
    InstallToldOnce


    

SYMMETRY Symmetric

CONSTRAINT OneKindOfMail

CHECK_DEADLOCK FALSE
