\* One host; a row of two failures, a window of three samples, one minute of cool-down; three requests
\* about its node, of two administrators, two new tokens, one fault.
SPECIFICATION HostSpec

CONSTANTS
    Kinds = {"wings_node", "gateway"}
    Pulls <- MCPulls
    RuleSets <- MCRuleSets
    Sustain = 2
    Window = 3
    Cooldown = 1
    MaxAdminSteps = 1
    n1 = n1
    n2 = n2
    NodeAdmins = {n1, n2}
    MaxNodeRequests = 3
    MaxRotations = 2
    MaxNodeFaults = 1

INVARIANTS
    HostTypeOK
    PanelAndWingsAgree


    

SYMMETRY Symmetric

CONSTRAINT Bounded

\* A host may be switched off for good.
CHECK_DEADLOCK FALSE
