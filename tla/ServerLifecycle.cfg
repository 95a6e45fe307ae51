\* One server whose node answers in the end and one whose node need not; one request at a time.
SPECIFICATION ServerSpec

CONSTANTS
    r1 = r1
    Servers = {1, 2}
    Flaky = {2}
    Busy = {1}
    Requests = {r1}
    Nightly = Nightly
    NoServer = NoServer
    MaxDay = 1
    Grace = 1
    Term = 1
    MaxRequests = 2
    MaxCrashes = 1

CONSTRAINT Bounded

INVARIANTS
    ServerTypeOK
    OrphansExplained

PROPERTIES
    OverdueSettled
