\* Two servers of a host, one request at a time beside a deletion, and a restart; or two enablings at once.
SPECIFICATION MetSpec

CONSTANTS
    s1 = s1
    s2 = s2
    a = a
    b = b
    r1 = r1
    r2 = r2
    Servers = {s1, s2}
    Labels = {a, b}
    Requests = {r1, r2}
    Deleter = Deleter
    None = None
    Gone = Gone
    MaxRecords = 3
    MaxTunnels = 2
    MaxRequests = 4
    MaxCrashes = 1

SYMMETRY Symmetric
CONSTRAINT Bounded

INVARIANTS
    TunnelTypeOK
    
    LeftoversKnown

CHECK_DEADLOCK FALSE
