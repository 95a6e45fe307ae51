------------------------------ MODULE WingsNodes -------------------------------
(***************************************************************************)
(* One Wings node as the manager keeps it: the panel's row of the node,    *)
(* Wings' own configuration (the file, and what the running daemon uses),  *)
(* the daemon token both must hold, the API process's cached address and   *)
(* token, and the host's agent that restarts Wings.  An edit commits the   *)
(* row, then tells Wings at its former address; a rotation tells Wings,    *)
(* then commits.  Requests interleave, answers get lost, the API restarts. *)
(***************************************************************************)
EXTENDS Integers, FiniteSets

CONSTANTS
    NodeAdmins,        \* requests that may be under way at once
    MaxNodeRequests, MaxRotations, MaxNodeFaults

Values == 1..2         \* of an address, of a hot field
Tokens == 1..(MaxRotations + 1)

ASSUME NodeAssumption == {MaxNodeRequests, MaxRotations, MaxNodeFaults} \subseteq Nat

VARIABLES
    node,    \* the row in panel.nodes
    wings,   \* the daemon: its file, what it runs with, how it takes updates
    cache,   \* of the API process: address and token, if cached
    host,    \* the row in manager_hosts, and whether its token is the agent's
    request, \* what each administrator's request is at
    spent,   \* requests begun, daemon tokens made, faults
    doubt    \* history: why panel and Wings may differ; whether the last answer was "verified live"

nodeVars == <<node, wings, cache, host, request, spent, doubt>>

\* addr: the fields Wings binds at its start; hot: those it rereads.  Those it never sees, "label", have no value here.
Config == [addr : Values, hot : Values, token : Tokens]
WingsFields == {"addr", "hot"}
PanelOnlyFields == {"label"}
RestartRequired == {"addr"}
Fields == WingsFields \cup PanelOnlyFields
Cached == [addr : Values, token : Tokens]
NotCached == [addr |-> 0, token |-> 0]
Steps == {"idle", "edit", "push", "sent", "adopt", "restart", "restarted"}
FirstConfig == [addr |-> 1, hot |-> 1, token |-> 1]
NoRequest == [kind |-> "none", pc |-> "idle", seen |-> FirstConfig, new |-> FirstConfig, changed |-> {}]

NodeTypeOK ==
    /\ node \in Config
    /\ wings \in [file : Config, live : Config, ignores : BOOLEAN, swaps : BOOLEAN]
    /\ cache \in Cached \cup {NotCached}
    /\ host \in [row : {"none", "off", "on"}, known : BOOLEAN]
    /\ request \in [NodeAdmins -> [kind : {"none", "edit", "rotate", "restart"}, pc : Steps, seen : Config,
                                   new : Config, changed : SUBSET Fields]]
    /\ spent \in [requests : 0..MaxNodeRequests, tokens : 0..MaxRotations, faults : 0..MaxNodeFaults]
    /\ doubt \in [key : BOOLEAN, settings : BOOLEAN, verified : BOOLEAN]

\* ignores: ignore_panel_config_updates; swaps: the daemon uses a new token at once, not from its next start.
NodeInit ==
    /\ node = FirstConfig
    /\ \E ignores, swaps \in BOOLEAN :
           wings = [file |-> FirstConfig, live |-> FirstConfig, ignores |-> ignores, swaps |-> swaps]
    /\ cache = NotCached
    /\ host = [row |-> "on", known |-> TRUE]
    /\ request = [a \in NodeAdmins |-> NoRequest]
    /\ spent = [requests |-> 0, tokens |-> 0, faults |-> 0]
    /\ doubt = [key |-> FALSE, settings |-> FALSE, verified |-> FALSE]

-----------------------------------------------------------------------------
(* Helpers. *)

Spend(what) == spent' = [spent EXCEPT ![what] = @ + 1]
Fault == spent.faults < MaxNodeFaults /\ Spend("faults")
Goto(a, pc) == request' = [request EXCEPT ![a].pc = pc]
Working(a) == request[a].pc # "idle"
Others(a, kind) == \E b \in NodeAdmins \ {a} : Working(b) /\ request[b].kind = kind
\* The answer an administrator gets; an edit's that is not plain success leaves the settings in doubt.
Tell(a, answer) ==
    /\ request' = [request EXCEPT ![a] = NoRequest]
    /\ doubt' = [doubt EXCEPT !.verified = answer = "verified",
                              !.settings = @ \/ (request[a].kind = "edit" /\ answer \in {"partial", "error"})]

_require_wings_host == host.row # "none"
\* The agent is configured, and takes the token the manager has for it.
get_credentials == host.row = "on"
AgentObeys == get_credentials /\ host.known

\* Cached, or read from the row and kept.
_node_info == IF cache = NotCached THEN [addr |-> node.addr, token |-> node.token] ELSE cache
clear_cache == cache' = NotCached
\* Wings listens there and takes the token.
Reached(to) == to.addr = wings.live.addr /\ to.token = wings.live.token

-----------------------------------------------------------------------------
(* What reaches Wings. *)

\* The fields that changed, of those Wings consumes, and always the token.
_build_wings_payload(a) ==
    [f \in (request[a].changed \cap WingsFields) \cup {"token"} |-> request[a].new[f]]

\* The parts of a configuration a payload replaces.
Patched(config, payload, fields) ==
    [f \in DOMAIN config |-> IF f \in DOMAIN payload \cap fields THEN payload[f] ELSE config[f]]

\* POST /api/update: the file at once, and the running daemon where it can.
UpdateHandled(payload) ==
    wings' = IF wings.ignores THEN wings
             ELSE [wings EXCEPT !.file = Patched(@, payload, {"addr", "hot", "token"}),
                                !.live = Patched(@, payload,
                                                 {"hot"} \cup (IF wings.swaps THEN {"token"} ELSE {}))]

-----------------------------------------------------------------------------
(* PUT /admin/hosts/{id}/wings-config *)

Begins(a, kind) ==
    /\ ~Working(a) /\ spent.requests < MaxNodeRequests
    /\ doubt' = [doubt EXCEPT !.key = @ \/ (kind # "restart" /\ Others(a, "rotate"))
                                         \/ (kind = "rotate" /\ Others(a, "edit")),
                              !.settings = @ \/ (kind = "edit" /\ Others(a, "edit"))]

put_wings_config(a, fields) ==
    /\ _require_wings_host /\ Begins(a, "edit") /\ Spend("requests")
    /\ request' = [request EXCEPT ![a] =
           [kind |-> "edit", pc |-> "edit", seen |-> node, changed |-> fields,
            new |-> [f \in DOMAIN node |-> IF f \in fields THEN 3 - node[f] ELSE node[f]]]]
    /\ UNCHANGED <<node, wings, cache, host>>

\* The columns that changed are written; the database may refuse a row written since it was read.
CommitEdit(a) ==
    /\ request[a].kind = "edit" /\ request[a].pc = "edit"
    /\ \/ /\ node' = [f \in DOMAIN node |-> IF f \in request[a].changed THEN request[a].new[f] ELSE node[f]]
          /\ Goto(a, "push") /\ UNCHANGED doubt
       \/ node # request[a].seen /\ Tell(a, "error") /\ UNCHANGED node
    /\ UNCHANGED <<wings, cache, host, spent>>

\* The row is refreshed, the cache cleared and the push built from the row as it now is.
push_to_wings(a) ==
    /\ request[a].pc = "push" /\ clear_cache
    /\ IF request[a].changed \cap WingsFields = {}
       THEN Tell(a, "ok")
       ELSE request' = [request EXCEPT ![a].pc = "sent", ![a].new = node] /\ UNCHANGED doubt
    /\ UNCHANGED <<node, wings, host, spent>>

\* An edit's push arrives: at the address and with the token the row had before.
PushArrives(a) ==
    LET r == request[a] IN
        /\ r.kind = "edit" /\ r.pc = "sent"
        /\ IF Reached(r.seen)
           THEN /\ UpdateHandled(_build_wings_payload(a))
                /\ Tell(a, IF wings.ignores THEN "partial"
                           ELSE IF r.changed \cap RestartRequired # {} THEN "restart" ELSE "ok")
           ELSE Tell(a, "error") /\ UNCHANGED wings
        /\ UNCHANGED <<node, cache, host, spent>>

\* The request or its answer is lost.
PushLost(a) ==
    LET r == request[a] IN
        /\ r.kind = "edit" /\ r.pc = "sent" /\ Fault
        /\ (Reached(r.seen) /\ UpdateHandled(_build_wings_payload(a))) \/ UNCHANGED wings
        /\ Tell(a, "error")
        /\ UNCHANGED <<node, cache, host>>

-----------------------------------------------------------------------------
(* POST /admin/hosts/{id}/wings-config/reset-token *)

_generate_token == spent.tokens + 2

reset_daemon_token(a) ==
    LET info == _node_info IN
    /\ _require_wings_host /\ Begins(a, "rotate") /\ spent.tokens < MaxRotations
    /\ spent' = [spent EXCEPT !.requests = @ + 1, !.tokens = @ + 1]
    /\ request' = [request EXCEPT ![a] =
           [kind |-> "rotate", pc |-> "sent", seen |-> [node EXCEPT !.addr = info.addr], changed |-> {},
            new |-> [node EXCEPT !.token = _generate_token]]]
    /\ cache' = info
    /\ UNCHANGED <<node, wings, host>>

\* Seeded defect: whatever Wings answers, the new credentials are kept.
KeepWhateverAnswered(a) ==
    IF Reached(request[a].seen) THEN Goto(a, "adopt") /\ UNCHANGED doubt ELSE Tell(a, "error")

\* Wings took the token, answered that it takes no updates, or was not reached.
RotationAnswered(a) ==
    IF Reached(request[a].seen) /\ ~wings.ignores THEN Goto(a, "adopt") /\ UNCHANGED doubt ELSE Tell(a, "error")

RotationArrives(a) ==
    /\ request[a].kind = "rotate" /\ request[a].pc = "sent"
    /\ IF Reached(request[a].seen) THEN UpdateHandled(_build_wings_payload(a)) ELSE UNCHANGED wings
    /\ RotationAnswered(a)
    /\ UNCHANGED <<node, cache, host, spent>>

\* Lost on the way there, or back: then Wings has the new token and the panel the old one.
RotationLost(a) ==
    /\ request[a].kind = "rotate" /\ request[a].pc = "sent" /\ Fault
    /\ request' = [request EXCEPT ![a] = NoRequest]
    /\ \/ UNCHANGED wings /\ doubt' = [doubt EXCEPT !.verified = FALSE]
       \/ /\ Reached(request[a].seen) /\ UpdateHandled(_build_wings_payload(a))
          /\ doubt' = [doubt EXCEPT !.verified = FALSE, !.key = @ \/ ~wings.ignores]
    /\ UNCHANGED <<node, cache, host>>

\* The panel's row follows; the restart comes unless the administrator declined it.
AdoptToken(a, auto_restart) ==
    /\ request[a].kind = "rotate" /\ request[a].pc = "adopt"
    /\ \/ /\ node' = [node EXCEPT !.token = request[a].new.token] /\ clear_cache
          /\ IF ~auto_restart THEN Tell(a, "restart")
             ELSE IF get_credentials THEN Goto(a, "restart") /\ UNCHANGED doubt
             ELSE Tell(a, "partial")
       \/ node # [request[a].new EXCEPT !.token = request[a].seen.token] /\ Tell(a, "error") /\ UNCHANGED <<node, cache>>
    /\ UNCHANGED <<wings, host, spent>>

-----------------------------------------------------------------------------
(* Restarts, by the agent. *)

restart_wings(a) ==
    /\ get_credentials /\ Begins(a, "restart") /\ Spend("requests")
    /\ request' = [request EXCEPT ![a] = [NoRequest EXCEPT !.kind = "restart", !.pc = "restart"]]
    /\ UNCHANGED <<node, wings, cache, host>>

Restarted == wings' = [wings EXCEPT !.live = wings.file]

\* The agent refuses, or Wings starts with its file; systemd may fail to say so in time.
AgentRestarts(a) ==
    /\ request[a].pc = "restart"
    /\ \/ /\ AgentObeys /\ Restarted /\ UNCHANGED spent
          /\ IF request[a].kind = "rotate" THEN Goto(a, "restarted") /\ UNCHANGED doubt ELSE Tell(a, "ok")
       \/ ~AgentObeys /\ Tell(a, "partial") /\ UNCHANGED <<wings, spent>>
       \/ AgentObeys /\ Fault /\ (Restarted \/ UNCHANGED wings) /\ Tell(a, "partial")
    /\ UNCHANGED <<node, cache, host>>

\* get_node_system until it is answered or ten seconds are over.
SelfCheck(a) ==
    LET info == _node_info IN
    /\ request[a].pc = "restarted" /\ cache' = info
    /\ Tell(a, IF Reached(info) THEN "verified" ELSE "partial")
    /\ UNCHANGED <<node, wings, host, spent>>

-----------------------------------------------------------------------------
(* The rows of the host and its agent. *)

\* POST /admin/hosts: only with a token the agent answers to.
create_host ==
    /\ host.row = "none" /\ host' = [row |-> "on", known |-> TRUE]
    /\ UNCHANGED <<node, wings, cache, request, spent, doubt>>

\* The agent's token as the operator pastes it, and the switch.
patch_host(on, token) ==
    /\ host.row # "none" /\ host' = [row |-> on, known |-> host.known \/ token] /\ host' # host
    /\ UNCHANGED <<node, wings, cache, request, spent, doubt>>

delete_host ==
    /\ host.row # "none" /\ host' = [row |-> "none", known |-> FALSE]
    /\ UNCHANGED <<node, wings, cache, request, spent, doubt>>

\* The operator gives the agent another token.
AgentRekeyed ==
    /\ host.known /\ Fault /\ host' = [host EXCEPT !.known = FALSE]
    /\ UNCHANGED <<node, wings, cache, request, doubt>>

-----------------------------------------------------------------------------
(* Other work of the API process on the node. *)

\* Any call to Wings keeps what it read for sixty seconds.
NodeCalled ==
    /\ cache = NotCached /\ cache' = _node_info
    /\ UNCHANGED <<node, wings, host, request, spent, doubt>>

CacheExpires ==
    /\ cache # NotCached /\ clear_cache
    /\ UNCHANGED <<node, wings, host, request, spent, doubt>>

\* The API restarts: requests end where they are; an update under way may still arrive.
ApiRestarts ==
    /\ \E a \in NodeAdmins : Working(a)
    /\ Fault /\ clear_cache
    /\ request' = [a \in NodeAdmins |-> NoRequest]
    /\ \/ UNCHANGED wings
       \/ \E a \in NodeAdmins : request[a].pc = "sent" /\ Reached(request[a].seen) /\
              UpdateHandled(_build_wings_payload(a))
    /\ doubt' = [doubt EXCEPT
           !.verified = FALSE,
           !.settings = @ \/ (\E a \in NodeAdmins : request[a].kind = "edit"),
           !.key = @ \/ (\E a \in NodeAdmins : request[a].kind = "rotate" /\ request[a].pc \in {"sent", "adopt"})]
    /\ UNCHANGED <<node, host>>

NodeNext ==
    \/ \E a \in NodeAdmins :
           \/ \E fields \in SUBSET Fields \ {{}} : put_wings_config(a, fields)
           \/ CommitEdit(a) \/ push_to_wings(a) \/ PushArrives(a) \/ PushLost(a)
           \/ reset_daemon_token(a) \/ RotationArrives(a) \/ RotationLost(a)
           \/ \E auto_restart \in BOOLEAN : AdoptToken(a, auto_restart)
           \/ restart_wings(a) \/ AgentRestarts(a) \/ SelfCheck(a)
    \/ create_host \/ delete_host \/ \E on \in {"on", "off"}, token \in BOOLEAN : patch_host(on, token)
    \/ AgentRekeyed \/ NodeCalled \/ CacheExpires \/ ApiRestarts

NodeSpec == NodeInit /\ [][NodeNext]_nodeVars

-----------------------------------------------------------------------------
(* Properties. *)

\* The daemon token of the panel's row is the one Wings starts with, whatever pushes, refusals,
\* lost answers and restarts there were, unless a rotation met another request or was cut off between
\* Wings and the row.
KeyKept == ~doubt.key /\ (\A a \in NodeAdmins : request[a].pc # "adopt") => node.token = wings.file.token

\* While every edit so far was answered with success (a restart asked for counts as one) and none met
\* another, Wings' file has the row's values and the daemon runs with the hot ones.
SettingsKept ==
    ~doubt.settings /\ (\A a \in NodeAdmins : ~Working(a)) =>
        /\ node.addr = wings.file.addr /\ node.hot = wings.file.hot /\ node.hot = wings.live.hot

\* "the new daemon master key is verified live"
VerifiedIsLive ==
    doubt.verified /\ ~doubt.key /\ (\A a \in NodeAdmins : request[a].kind # "rotate") =>
        node.token = wings.live.token

PanelAndWingsAgree == KeyKept /\ SettingsKept /\ VerifiedIsLive
===============================================================================
