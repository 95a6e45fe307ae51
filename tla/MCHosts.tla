-------------------------------- MODULE MCHosts --------------------------------
(***************************************************************************)
(* A host for TLC: its alerts, in seven kinds of minutes, and its Wings    *)
(* node.  The two share no state, so a behaviour moves one of them.        *)
(***************************************************************************)
EXTENDS Alerts, WingsNodes, TLC

CONSTANTS n1, n2

Up == [agent |-> TRUE, wings |-> TRUE, public |-> "ok", cpu |-> "normal", disk |-> "normal", clash |-> "ok"]
Down == [agent |-> FALSE, wings |-> FALSE, public |-> "failed", cpu |-> "none", disk |-> "none", clash |-> "none"]

\* Everything well; nothing answers; only Wings does; nothing was probed; Wings down beside a full disk;
\* a busy host that cannot be reached; a busy host whose proxy is down.
MCPulls ==
    {Up, Down, [Down EXCEPT !.public = "ok"], [Down EXCEPT !.public = "none"],
     [Up EXCEPT !.wings = FALSE, !.public = "failed", !.disk = "high"],
     [Up EXCEPT !.cpu = "above", !.public = "failed", !.disk = "critical"],
     [Up EXCEPT !.cpu = "above", !.public = "none", !.clash = "failed"]}

MCRuleSets == {{}, {"agent_only_down", "disk_critical"}}

Symmetric == Permutations(NodeAdmins)

HostInit == AlertInit /\ NodeInit

\* One of the initial states of each part; the others are for the other part alone.
NoAlerts == AlertInit /\ kind = "wings_node"
NoNodes == NodeInit /\ wings.swaps /\ ~wings.ignores

HostNext ==
    \/ NoNodes /\ AlertNext /\ UNCHANGED nodeVars
    \/ NoAlerts /\ NodeNext /\ UNCHANGED alertVars

HostSpec == HostInit /\ [][HostNext]_<<alertVars, nodeVars>>

\* Three requests while the agent and its row stay as they were, two otherwise.
Bounded == host = [row |-> "on", known |-> TRUE] \/ spent.requests <= 2

HostTypeOK == AlertTypeOK /\ NodeTypeOK
===============================================================================
