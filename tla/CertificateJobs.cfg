\* One deployment, the two jobs that write it, a request, and two of: a renewal, a request, a failure.
SPECIFICATION CertSpec

CONSTANTS
    r1 = r1
    Targets = {1}
    Jobs = {"deployment_scan", "auto_dispatch"}
    Requests = {r1}
    MaxRenewals = 1
    MaxRequests = 1
    MaxFailures = 1
    MaxEvents = 2

INVARIANTS
    CertTypeOK

PROPERTIES
    Converges

\* A disabled certificate without deployments has nothing to be done.
CHECK_DEADLOCK FALSE
