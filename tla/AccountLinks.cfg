\* Two users, two tasks, two links of a kind, two versions and one fault.
SPECIFICATION AccountSpec

CONSTANTS
    u1 = u1
    u2 = u2
    w1 = w1
    w2 = w2
    Nobody = Nobody
    Users = {u1, u2}
    Emails = {"a", "b"}
    Names = {"n"}
    Workers = {w1, w2}
    MaxPendings = 2
    MaxLinks = 2
    MaxVersions = 2
    MaxFaults = 1

SYMMETRY Symmetric
CONSTRAINT OneConcern

INVARIANTS
    AccountTypeOK
    RegisteredOnce
    LinksDie

\* Links and users run out.
CHECK_DEADLOCK FALSE
