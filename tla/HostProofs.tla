------------------------------ MODULE HostProofs ------------------------------
(***************************************************************************)
(* The settings of a host's node at the panel and at Wings: two copies of  *)
(* one thing, and what keeps them the same.  The host's samples and alerts *)
(* keep their types.                                                       *)
(***************************************************************************)
EXTENDS MCHosts, SequenceTheorems, TLAPS

\* A request's step fits its kind, and a rotation changes no field.
RequestsInOrder ==
    \A a \in NodeAdmins : LET r == request[a] IN
        /\ r.pc = "idle" => r.kind = "none"
        /\ r.pc \in {"edit", "push"} => r.kind = "edit"
        /\ r.pc = "sent" => r.kind \in {"edit", "rotate"}
        /\ r.pc \in {"adopt", "restarted"} => r.kind = "rotate"
        /\ r.pc = "restart" => r.kind \in {"rotate", "restart"}
        /\ r.kind = "rotate" => r.changed = {}

\* The cache may have a former address, never a former token: what changes the token clears it.
CacheHasToken == cache # NotCached => cache.token = node.token

\* An update takes the hot fields to the file and to the running daemon together.
HotTogether == wings.live.hot = wings.file.hot

\* A rotation that met nobody finds the row as it read it, and every push under way carries the
\* row's token.
RotationAlone ==
    /\ \A a, b \in NodeAdmins : request[a].kind = "rotate" /\ request[b].kind \in {"rotate", "edit"} => a = b
    /\ \A a \in NodeAdmins : LET r == request[a] IN
        /\ r.kind = "rotate" /\ r.pc \in {"sent", "adopt"} =>
               node.addr = r.new.addr /\ node.hot = r.new.hot /\ node.token = r.seen.token
        /\ r.kind = "edit" /\ r.pc = "sent" => r.new.token = node.token
        /\ r.pc = "adopt" => r.new.token = wings.file.token
KeyFollowed == ~doubt.key => RotationAlone /\ KeyKept

\* What differs between the row and Wings' file is on its way, in the one edit there is.
Pushing(a, f) == request[a].kind = "edit" /\ request[a].pc \in {"push", "sent"} /\ f \in request[a].changed
EditAlone ==
    /\ \A a, b \in NodeAdmins : request[a].kind = "edit" /\ request[b].kind = "edit" => a = b
    /\ \A a \in NodeAdmins : request[a].kind = "edit" /\ request[a].pc = "sent" =>
           request[a].new.addr = node.addr /\ request[a].new.hot = node.hot
    /\ node.addr = wings.file.addr \/ \E a \in NodeAdmins : Pushing(a, "addr")
    /\ node.hot = wings.file.hot \/ \E a \in NodeAdmins : Pushing(a, "hot")
SettingsFollowed == ~doubt.settings => EditAlone

NodeIInv ==
    /\ NodeTypeOK
    /\ RequestsInOrder
    /\ CacheHasToken
    /\ HotTogether
    /\ KeyFollowed
    /\ SettingsFollowed
    /\ VerifiedIsLive

-------------------------------------------------------------------------------
(* Types by variable, and what the helpers of the actions do *)

Requests == [kind : {"none", "edit", "rotate", "restart"}, pc : Steps, seen : Config,
             new : Config, changed : SUBSET Fields]
RowTyped == node \in Config
WingsTyped == wings \in [file : Config, live : Config, ignores : BOOLEAN, swaps : BOOLEAN]
CacheTyped == cache \in Cached \cup {NotCached}
HostsTyped == host \in [row : {"none", "off", "on"}, known : BOOLEAN]
RequestsTyped == request \in [NodeAdmins -> Requests]
SpentTyped == spent \in [requests : 0..MaxNodeRequests, tokens : 0..MaxRotations, faults : 0..MaxNodeFaults]
DoubtTyped == doubt \in [key : BOOLEAN, settings : BOOLEAN, verified : BOOLEAN]

LEMMA NodeTypes ==
    NodeTypeOK <=> /\ RowTyped /\ WingsTyped /\ CacheTyped /\ HostsTyped
                   /\ RequestsTyped /\ SpentTyped /\ DoubtTyped
  BY DEF NodeTypeOK, RowTyped, WingsTyped, CacheTyped, HostsTyped, RequestsTyped, SpentTyped,
         DoubtTyped, Requests

RequestBecomes(a, r) ==
    request'[a] = r /\ \A b \in NodeAdmins \ {a} : request'[b] = request[b]

LEMMA FirstOnes == FirstConfig \in Config /\ NoRequest \in Requests
  BY NodeAssumption DEF FirstConfig, NoRequest, Config, Values, Tokens, Requests, Steps

LEMMA RequestWrite ==
    ASSUME RequestsTyped, NEW a \in NodeAdmins, NEW r \in Requests, request' = [request EXCEPT ![a] = r]
    PROVE  RequestsTyped' /\ RequestBecomes(a, r)
  BY DEF RequestsTyped, RequestBecomes

\* The request goes on to another step and is the same in all else.
RequestMoves(a, pc) ==
    /\ request'[a].pc = pc
    /\ request'[a].kind = request[a].kind /\ request'[a].seen = request[a].seen
    /\ request'[a].new = request[a].new /\ request'[a].changed = request[a].changed
    /\ \A b \in NodeAdmins \ {a} : request'[b] = request[b]

LEMMA RequestGoes ==
    ASSUME RequestsTyped, NEW a \in NodeAdmins, NEW pc \in Steps, Goto(a, pc)
    PROVE  RequestsTyped' /\ RequestMoves(a, pc)
  BY DEF RequestsTyped, Requests, RequestMoves, Goto

LEMMA RequestTold ==
    ASSUME RequestsTyped, DoubtTyped, NEW a \in NodeAdmins, NEW answer, Tell(a, answer)
    PROVE  /\ RequestsTyped' /\ DoubtTyped' /\ RequestBecomes(a, NoRequest)
           /\ doubt'.key <=> doubt.key
           /\ doubt'.verified <=> answer = "verified"
           /\ doubt'.settings <=> doubt.settings \/ (request[a].kind = "edit" /\ answer \in {"partial", "error"})
  <1>1. RequestsTyped' /\ RequestBecomes(a, NoRequest) BY RequestWrite, FirstOnes DEF Tell
  <1> QED BY <1>1 DEF Tell, DoubtTyped

LEMMA RequestBegins ==
    ASSUME RequestsTyped, DoubtTyped, NEW a \in NodeAdmins, NEW what, Begins(a, what)
    PROVE  /\ DoubtTyped' /\ request[a].pc = "idle"
           /\ doubt'.verified <=> doubt.verified
           /\ ~doubt'.key => /\ ~doubt.key
                             /\ what # "restart" => ~Others(a, "rotate")
                             /\ what = "rotate" => ~Others(a, "edit")
           /\ ~doubt'.settings => ~doubt.settings /\ (what = "edit" => ~Others(a, "edit"))
           /\ doubt.key => doubt'.key
  BY DEF Begins, Working, DoubtTyped

LEMMA Spends ==
    ASSUME SpentTyped
    PROVE  /\ spent.requests < MaxNodeRequests /\ Spend("requests") => SpentTyped'
           /\ Fault => SpentTyped'
  BY NodeAssumption DEF SpentTyped, Spend, Fault

LEMMA NodeUpdates ==
    ASSUME WingsTyped, RequestsTyped, NEW a \in NodeAdmins, UpdateHandled(_build_wings_payload(a))
    PROVE  /\ WingsTyped'
           /\ wings.ignores => wings' = wings
           /\ ~wings.ignores =>
                /\ wings'.file.token = request[a].new.token
                /\ wings'.file.addr = IF "addr" \in request[a].changed THEN request[a].new.addr ELSE wings.file.addr
                /\ wings'.file.hot = IF "hot" \in request[a].changed THEN request[a].new.hot ELSE wings.file.hot
                /\ wings'.live.hot = IF "hot" \in request[a].changed THEN request[a].new.hot ELSE wings.live.hot
  <1> DEFINE payload == _build_wings_payload(a)
  <1>1. /\ DOMAIN payload = (request[a].changed \cap WingsFields) \cup {"token"}
        /\ \A f \in DOMAIN payload : payload[f] = request[a].new[f]
    BY DEF _build_wings_payload
  <1>2. request[a].new \in Config /\ wings.file \in Config /\ wings.live \in Config
    BY DEF WingsTyped, RequestsTyped, Requests
  <1>3. ASSUME NEW config \in Config, NEW fields
        PROVE  /\ Patched(config, payload, fields) \in Config
               /\ "token" \in fields => Patched(config, payload, fields).token = request[a].new.token
               /\ {"addr", "hot"} \subseteq fields =>
                    Patched(config, payload, fields).addr =
                        IF "addr" \in request[a].changed THEN request[a].new.addr ELSE config.addr
               /\ "hot" \in fields =>
                    Patched(config, payload, fields).hot =
                        IF "hot" \in request[a].changed THEN request[a].new.hot ELSE config.hot
    <2> HIDE DEF payload
    <2> QED BY <1>1, <1>2 DEF Patched, Config, WingsFields
  <1> HIDE DEF payload
  <1>4. CASE wings.ignores BY <1>4 DEF UpdateHandled, WingsTyped
  <1>5. CASE ~wings.ignores
    <2> DEFINE live == {"hot"} \cup (IF wings.swaps THEN {"token"} ELSE {})
    <2>1. wings' = [wings EXCEPT !.file = Patched(@, payload, {"addr", "hot", "token"}),
                                 !.live = Patched(@, payload, live)]
      BY <1>5 DEF UpdateHandled, payload
    <2>2. wings \in [file : Config, live : Config, ignores : BOOLEAN, swaps : BOOLEAN] BY DEF WingsTyped
    <2>3. wings'.file = Patched(wings.file, payload, {"addr", "hot", "token"}) /\ wings'.live = Patched(wings.live, payload, live)
      BY <2>1, <2>2
    <2>4. WingsTyped'
      BY <2>1, <2>2, <1>2, <1>3 DEF WingsTyped
    <2>5. "hot" \in live OBVIOUS
    <2> HIDE DEF live
    <2> QED BY <1>2, <1>3, <1>5, <2>3, <2>4, <2>5
  <1> QED BY <1>4, <1>5

LEMMA Restarts ==
    WingsTyped /\ Restarted =>
        WingsTyped' /\ wings'.file = wings.file /\ wings'.live = wings.file
  BY DEF WingsTyped, Restarted

LEMMA NodeInfo ==
    RowTyped /\ CacheTyped => _node_info \in Cached
  BY DEF RowTyped, CacheTyped, _node_info, Config, Cached

LEMMA TypesStay ==
    /\ RowTyped /\ UNCHANGED node => RowTyped'
    /\ WingsTyped /\ UNCHANGED wings => WingsTyped'
    /\ CacheTyped /\ UNCHANGED cache => CacheTyped'
    /\ clear_cache => CacheTyped'
    /\ HostsTyped /\ UNCHANGED host => HostsTyped'
    /\ RequestsTyped /\ UNCHANGED request => RequestsTyped'
    /\ SpentTyped /\ UNCHANGED spent => SpentTyped'
    /\ DoubtTyped /\ UNCHANGED doubt => DoubtTyped'
  BY DEF RowTyped, WingsTyped, CacheTyped, HostsTyped, RequestsTyped, SpentTyped, DoubtTyped, clear_cache

LEMMA NodeTypeStep == NodeTypeOK /\ [NodeNext]_nodeVars => NodeTypeOK'
  <1> SUFFICES ASSUME NodeTypeOK, [NodeNext]_nodeVars PROVE NodeTypeOK'
    OBVIOUS
  <1>t. /\ RowTyped /\ WingsTyped /\ CacheTyped /\ HostsTyped
        /\ RequestsTyped /\ SpentTyped /\ DoubtTyped
    BY NodeTypes
  <1>g. (/\ RowTyped' /\ WingsTyped' /\ CacheTyped' /\ HostsTyped'
         /\ RequestsTyped' /\ SpentTyped' /\ DoubtTyped') => NodeTypeOK'
    BY DEF NodeTypeOK, RowTyped, WingsTyped, CacheTyped, HostsTyped, RequestsTyped, SpentTyped,
           DoubtTyped, Requests
  <1> USE <1>t, TypesStay
  <1>1. ASSUME NEW a \in NodeAdmins, NEW fields \in SUBSET Fields \ {{}}, put_wings_config(a, fields)
        PROVE  NodeTypeOK'
    <2> DEFINE new == [f \in DOMAIN node |-> IF f \in fields THEN 3 - node[f] ELSE node[f]]
               r == [kind |-> "edit", pc |-> "edit", seen |-> node, changed |-> fields, new |-> new]
    <2>1. new \in Config BY DEF RowTyped, Config, Values, Fields, WingsFields, PanelOnlyFields
    <2>2. r \in Requests BY <2>1 DEF RowTyped, Requests, Steps
    <2>3. request' = [request EXCEPT ![a] = r] BY <1>1 DEF put_wings_config
    <2> HIDE DEF r
    <2>4. RequestsTyped' BY <2>2, <2>3, RequestWrite
    <2> QED BY <1>1, <2>4, RequestBegins, Spends, <1>g DEF put_wings_config, Begins
  <1>2. ASSUME NEW a \in NodeAdmins, CommitEdit(a) PROVE NodeTypeOK'
    <2>1. RequestsTyped' /\ DoubtTyped' BY <1>2, RequestGoes, RequestTold DEF CommitEdit, Steps
    <2>2. request[a].new \in Config BY DEF RequestsTyped, Requests
    <2>3. RowTyped' BY <1>2, <2>2 DEF CommitEdit, RowTyped, Config
    <2> QED BY <1>2, <2>1, <2>3, <1>g DEF CommitEdit
  <1>3. ASSUME NEW a \in NodeAdmins, push_to_wings(a) PROVE NodeTypeOK'
    <2> DEFINE r == [request[a] EXCEPT !.pc = "sent", !.new = node]
    <2>1. r \in Requests BY DEF RequestsTyped, Requests, RowTyped, Steps
    <2>2. request' = [request EXCEPT ![a] = r] => RequestsTyped' BY <2>1, RequestWrite
    <2>3. request' = [request EXCEPT ![a].pc = "sent", ![a].new = node] => request' = [request EXCEPT ![a] = r]
      BY DEF RequestsTyped
    <2> HIDE DEF r
    <2> QED BY <1>3, <2>2, <2>3, RequestTold, <1>g DEF push_to_wings
  <1>4. ASSUME NEW a \in NodeAdmins, PushArrives(a) PROVE NodeTypeOK'
    BY <1>4, RequestTold, NodeUpdates, <1>g DEF PushArrives
  <1>5. ASSUME NEW a \in NodeAdmins, PushLost(a) PROVE NodeTypeOK'
    BY <1>5, RequestTold, NodeUpdates, Spends, <1>g DEF PushLost
  <1>6. ASSUME NEW a \in NodeAdmins, reset_daemon_token(a) PROVE NodeTypeOK'
    <2> DEFINE r == [kind |-> "rotate", pc |-> "sent", seen |-> [node EXCEPT !.addr = _node_info.addr],
                     changed |-> {}, new |-> [node EXCEPT !.token = _generate_token]]
    <2>1. _generate_token \in Tokens
      BY <1>6, NodeAssumption DEF reset_daemon_token, _generate_token, Tokens, SpentTyped
    <2>2. r \in Requests BY <2>1, NodeInfo DEF RowTyped, Requests, Steps, Config, Cached, Fields
    <2>3. request' = [request EXCEPT ![a] = r] BY <1>6 DEF reset_daemon_token
    <2> HIDE DEF r
    <2>4. RequestsTyped' BY <2>2, <2>3, RequestWrite
    <2>5. CacheTyped' BY <1>6, NodeInfo DEF reset_daemon_token, CacheTyped
    <2>6. spent.requests < MaxNodeRequests /\ spent.tokens < MaxRotations
      BY <1>6 DEF reset_daemon_token, Begins
    <2>7. spent' = [spent EXCEPT !.requests = @ + 1, !.tokens = @ + 1] BY <1>6 DEF reset_daemon_token
    <2>8. SpentTyped'
      <3>1. spent.requests + 1 \in 0..MaxNodeRequests /\ spent.tokens + 1 \in 0..MaxRotations
        BY <2>6, NodeAssumption DEF SpentTyped
      <3> QED BY <3>1, <2>7 DEF SpentTyped
    <2> QED BY <1>6, <2>4, <2>5, <2>8, RequestBegins, <1>g DEF reset_daemon_token
  <1>7. ASSUME NEW a \in NodeAdmins, RotationArrives(a) PROVE NodeTypeOK'
    <2>1. RequestsTyped' /\ DoubtTyped' BY <1>7, RequestTold, RequestGoes DEF RotationArrives, RotationAnswered, Steps
    <2> QED BY <1>7, <2>1, NodeUpdates, <1>g DEF RotationArrives
  <1>8. ASSUME NEW a \in NodeAdmins, RotationLost(a) PROVE NodeTypeOK'
    <2>1. RequestsTyped' BY <1>8, RequestWrite, FirstOnes DEF RotationLost
    <2>2. DoubtTyped' BY <1>8 DEF RotationLost, DoubtTyped, WingsTyped
    <2> QED BY <1>8, <2>1, <2>2, NodeUpdates, Spends, <1>g DEF RotationLost
  <1>9. ASSUME NEW a \in NodeAdmins, NEW auto_restart \in BOOLEAN, AdoptToken(a, auto_restart) PROVE NodeTypeOK'
    <2>1. RequestsTyped' /\ DoubtTyped' BY <1>9, RequestTold, RequestGoes DEF AdoptToken, Steps
    <2>2. request[a].new \in Config BY DEF RequestsTyped, Requests
    <2>3. RowTyped' BY <1>9, <2>2 DEF AdoptToken, RowTyped, Config
    <2> QED BY <1>9, <2>1, <2>3, <1>g DEF AdoptToken
  <1>10. ASSUME NEW a \in NodeAdmins, restart_wings(a) PROVE NodeTypeOK'
    <2> DEFINE r == [NoRequest EXCEPT !.kind = "restart", !.pc = "restart"]
    <2>1. r \in Requests BY FirstOnes DEF Requests, Steps
    <2>2. request' = [request EXCEPT ![a] = r] BY <1>10 DEF restart_wings
    <2> HIDE DEF r
    <2>3. RequestsTyped' BY <2>1, <2>2, RequestWrite
    <2> QED BY <1>10, <2>3, RequestBegins, Spends, <1>g DEF restart_wings, Begins
  <1>11. ASSUME NEW a \in NodeAdmins, AgentRestarts(a) PROVE NodeTypeOK'
    <2>1. RequestsTyped' /\ DoubtTyped' BY <1>11, RequestTold, RequestGoes DEF AgentRestarts, Steps
    <2> QED BY <1>11, <2>1, Restarts, Spends, <1>g DEF AgentRestarts
  <1>12. ASSUME NEW a \in NodeAdmins, SelfCheck(a) PROVE NodeTypeOK'
    <2>1. CacheTyped' BY <1>12, NodeInfo DEF SelfCheck, CacheTyped
    <2> QED BY <1>12, <2>1, RequestTold, <1>g DEF SelfCheck
  <1>13. ASSUME create_host \/ delete_host \/ \E on \in {"on", "off"}, token \in BOOLEAN : patch_host(on, token)
         PROVE  NodeTypeOK'
    <2>0. /\ [row |-> "on", known |-> TRUE] \in [row : {"none", "off", "on"}, known : BOOLEAN]
          /\ [row |-> "none", known |-> FALSE] \in [row : {"none", "off", "on"}, known : BOOLEAN]
      OBVIOUS
    <2>1. ASSUME create_host \/ delete_host PROVE NodeTypeOK'
      <3>1. HostsTyped' BY <2>0, <2>1, Zenon DEF create_host, delete_host, HostsTyped
      <3> QED BY <2>1, <3>1, <1>g DEF create_host, delete_host
    <2>2. ASSUME NEW on \in {"on", "off"}, NEW token \in BOOLEAN, patch_host(on, token) PROVE NodeTypeOK'
      <3>1. host' = [row |-> on, known |-> host.known \/ token] BY <2>2 DEF patch_host
      <3>2. HostsTyped' BY <3>1 DEF HostsTyped
      <3> QED BY <2>2, <3>2, <1>g DEF patch_host
    <2> QED BY <1>13, <2>1, <2>2
  <1>14. ASSUME AgentRekeyed PROVE NodeTypeOK'
    <2>1. HostsTyped' BY <1>14 DEF AgentRekeyed, HostsTyped
    <2> QED BY <1>14, <2>1, Spends, <1>g DEF AgentRekeyed
  <1>15. ASSUME NodeCalled PROVE NodeTypeOK'
    <2>1. CacheTyped' BY <1>15, NodeInfo DEF NodeCalled, CacheTyped
    <2> QED BY <1>15, <2>1, <1>g DEF NodeCalled
  <1>16. ASSUME CacheExpires PROVE NodeTypeOK'
    BY <1>16, <1>g DEF CacheExpires
  <1>17. ASSUME ApiRestarts PROVE NodeTypeOK'
    <2>1. RequestsTyped' BY <1>17, FirstOnes DEF ApiRestarts, RequestsTyped
    <2>2. DoubtTyped' BY <1>17 DEF ApiRestarts, DoubtTyped
    <2> QED BY <1>17, <2>1, <2>2, NodeUpdates, Spends, <1>g DEF ApiRestarts
  <1>18. ASSUME UNCHANGED nodeVars PROVE NodeTypeOK'
    BY <1>18, <1>g DEF nodeVars
  <1> QED
    BY <1>1, <1>2, <1>3, <1>4, <1>5, <1>6, <1>7, <1>8, <1>9, <1>10, <1>11, <1>12, <1>13, <1>14, <1>15,
       <1>16, <1>17, <1>18 DEF NodeNext

-------------------------------------------------------------------------------
(* Every step keeps every part of the invariant *)

\* The steps that are the host's, the agent's or the cache's alone.
Aside ==
    \/ create_host \/ delete_host \/ \E on \in {"on", "off"}, token \in BOOLEAN : patch_host(on, token)
    \/ AgentRekeyed \/ NodeCalled \/ CacheExpires \/ UNCHANGED nodeVars

LEMMA AsideStays == Aside => UNCHANGED <<node, wings, request, doubt>>
  BY DEF Aside, create_host, delete_host, patch_host, AgentRekeyed, NodeCalled, CacheExpires, nodeVars

LEMMA EditCommits ==
    ASSUME RowTyped, RequestsTyped, NEW a \in NodeAdmins, CommitEdit(a)
    PROVE  /\ node'.token = node.token
           /\ node'.addr = node.addr \/ "addr" \in request[a].changed
           /\ node'.hot = node.hot \/ "hot" \in request[a].changed
  <1>1. request[a].changed \subseteq Fields BY DEF RequestsTyped, Requests
  <1>2. CASE UNCHANGED node BY <1>2
  <1>3. CASE node' = [f \in DOMAIN node |-> IF f \in request[a].changed THEN request[a].new[f] ELSE node[f]]
    BY <1>1, <1>3 DEF RowTyped, Config, Fields, WingsFields, PanelOnlyFields
  <1> QED BY <1>2, <1>3 DEF CommitEdit

LEMMA RowPushes ==
    ASSUME RequestsTyped, NEW a \in NodeAdmins, request' = [request EXCEPT ![a].pc = "sent", ![a].new = node]
    PROVE  /\ request'[a].pc = "sent" /\ request'[a].new = node
           /\ request'[a].kind = request[a].kind /\ request'[a].changed = request[a].changed
           /\ \A b \in NodeAdmins \ {a} : request'[b] = request[b]
  BY DEF RequestsTyped, Requests

LEMMA RotationLoses ==
    ASSUME WingsTyped, RequestsTyped, DoubtTyped, NEW a \in NodeAdmins, RotationLost(a)
    PROVE  /\ request[a].kind = "rotate" /\ request[a].pc = "sent" /\ RequestBecomes(a, NoRequest)
           /\ ~doubt'.verified /\ (doubt'.settings <=> doubt.settings)
           /\ ~doubt'.key => ~doubt.key /\ wings' = wings
           /\ UNCHANGED node
           /\ request[a].changed = {} =>
                 wings'.file.addr = wings.file.addr /\ wings'.file.hot = wings.file.hot
  <1>1. RequestBecomes(a, NoRequest) BY RequestWrite, FirstOnes DEF RotationLost
  <1>2. CASE UNCHANGED wings /\ doubt' = [doubt EXCEPT !.verified = FALSE]
    BY <1>1, <1>2 DEF RotationLost, DoubtTyped
  <1>3. CASE /\ UpdateHandled(_build_wings_payload(a))
             /\ doubt' = [doubt EXCEPT !.verified = FALSE, !.key = @ \/ ~wings.ignores]
    <2>1. /\ ~doubt'.verified /\ (doubt'.settings <=> doubt.settings)
          /\ doubt'.key <=> (doubt.key \/ ~wings.ignores)
      BY <1>3 DEF DoubtTyped
    <2> QED BY <1>1, <1>3, <2>1, NodeUpdates DEF RotationLost
  <1> QED BY <1>1, <1>2, <1>3 DEF RotationLost

LEMMA TokenAdopted ==
    ASSUME RowTyped, RequestsTyped, NEW a \in NodeAdmins, NEW auto_restart, AdoptToken(a, auto_restart)
    PROVE  /\ request[a].kind = "rotate" /\ request[a].pc = "adopt" /\ UNCHANGED wings
           /\ node'.addr = node.addr /\ node'.hot = node.hot
           /\ \/ node'.token = request[a].new.token
              \/ /\ UNCHANGED node
                 /\ ~(/\ node.addr = request[a].new.addr /\ node.hot = request[a].new.hot
                      /\ node.token = request[a].seen.token)
  <1>1. request[a].new \in Config /\ request[a].seen \in Config BY DEF RequestsTyped, Requests
  <1>2. CASE node' = [node EXCEPT !.token = request[a].new.token]
    BY <1>2 DEF AdoptToken, RowTyped, Config
  <1>3. CASE node # [request[a].new EXCEPT !.token = request[a].seen.token] /\ UNCHANGED node
    BY <1>1, <1>3 DEF AdoptToken, RowTyped, Config
  <1> QED BY <1>2, <1>3 DEF AdoptToken

LEMMA ApiRestartDoubts ==
    ASSUME DoubtTyped, ApiRestarts
    PROVE  /\ ~doubt'.verified
           /\ ~doubt'.settings => ~doubt.settings /\ \A a \in NodeAdmins : request[a].kind # "edit"
           /\ ~doubt'.key => /\ ~doubt.key
                             /\ \A a \in NodeAdmins :
                                   request[a].kind = "rotate" => request[a].pc \notin {"sent", "adopt"}
  <1> DEFINE edits == \E a \in NodeAdmins : request[a].kind = "edit"
             rotates == \E a \in NodeAdmins : request[a].kind = "rotate" /\ request[a].pc \in {"sent", "adopt"}
  <1>1. doubt' = [doubt EXCEPT !.verified = FALSE, !.settings = @ \/ edits, !.key = @ \/ rotates]
    BY DEF ApiRestarts
  <1>2. /\ ~doubt'.verified
        /\ doubt'.settings <=> (doubt.settings \/ edits)
        /\ doubt'.key <=> (doubt.key \/ rotates)
    <2> HIDE DEF edits, rotates
    <2> QED BY <1>1 DEF DoubtTyped
  <1> QED BY <1>2

LEMMA OrderStays ==
    ASSUME NodeTypeOK, RequestsInOrder, [NodeNext]_nodeVars
    PROVE  RequestsInOrder'
  <1>t. RowTyped /\ WingsTyped /\ CacheTyped /\ RequestsTyped /\ DoubtTyped BY NodeTypes
  <1>1. ASSUME NEW a \in NodeAdmins, NEW fields \in SUBSET Fields \ {{}}, put_wings_config(a, fields) PROVE RequestsInOrder'
    BY <1>t, <1>1, RequestBegins DEF put_wings_config, RequestsInOrder, RequestsTyped, Requests, RequestBecomes, RequestMoves, NoRequest
  <1>2. ASSUME NEW a \in NodeAdmins, CommitEdit(a) PROVE RequestsInOrder'
    BY <1>t, <1>2, RequestGoes, RequestTold, EditCommits DEF CommitEdit, Steps, RequestsInOrder, RequestsTyped, Requests, RequestBecomes, RequestMoves, NoRequest
  <1>3. ASSUME NEW a \in NodeAdmins, push_to_wings(a) PROVE RequestsInOrder'
    BY <1>t, <1>3, RequestTold, RowPushes DEF push_to_wings, WingsFields, RequestsInOrder, RequestsTyped, Requests, RequestBecomes, RequestMoves, NoRequest
  <1>4. ASSUME NEW a \in NodeAdmins, PushArrives(a) PROVE RequestsInOrder'
    BY <1>t, <1>4, RequestTold, NodeUpdates DEF PushArrives, RequestsInOrder, RequestsTyped, Requests, RequestBecomes, RequestMoves, NoRequest
  <1>5. ASSUME NEW a \in NodeAdmins, PushLost(a) PROVE RequestsInOrder'
    BY <1>t, <1>5, RequestTold, NodeUpdates DEF PushLost, RequestsInOrder, RequestsTyped, Requests, RequestBecomes, RequestMoves, NoRequest
  <1>6. ASSUME NEW a \in NodeAdmins, reset_daemon_token(a) PROVE RequestsInOrder'
    BY <1>t, <1>6, RequestBegins DEF reset_daemon_token, RequestsInOrder, RequestsTyped, Requests, RequestBecomes, RequestMoves, NoRequest
  <1>7. ASSUME NEW a \in NodeAdmins, RotationArrives(a) PROVE RequestsInOrder'
    BY <1>t, <1>7, RequestTold, RequestGoes, NodeUpdates DEF RotationArrives, RotationAnswered, Steps, RequestsInOrder, RequestsTyped, Requests, RequestBecomes, RequestMoves, NoRequest
  <1>8. ASSUME NEW a \in NodeAdmins, RotationLost(a) PROVE RequestsInOrder'
    BY <1>t, <1>8, RotationLoses, NodeUpdates DEF RotationLost, RequestsInOrder, RequestsTyped, Requests, RequestBecomes, RequestMoves, NoRequest
  <1>9. ASSUME NEW a \in NodeAdmins, NEW auto_restart \in BOOLEAN, AdoptToken(a, auto_restart) PROVE RequestsInOrder'
    BY <1>t, <1>9, RequestTold, RequestGoes, TokenAdopted DEF AdoptToken, Steps, RequestsInOrder, RequestsTyped, Requests, RequestBecomes, RequestMoves, NoRequest
  <1>10. ASSUME NEW a \in NodeAdmins, restart_wings(a) PROVE RequestsInOrder'
    BY <1>t, <1>10, RequestBegins DEF restart_wings, RequestsInOrder, RequestsTyped, Requests, RequestBecomes, RequestMoves, NoRequest
  <1>11. ASSUME NEW a \in NodeAdmins, AgentRestarts(a) PROVE RequestsInOrder'
    BY <1>t, <1>11, RequestTold, RequestGoes, Restarts DEF AgentRestarts, Steps, RequestsInOrder, RequestsTyped, Requests, RequestBecomes, RequestMoves, NoRequest
  <1>12. ASSUME NEW a \in NodeAdmins, SelfCheck(a) PROVE RequestsInOrder'
    BY <1>t, <1>12, RequestTold DEF SelfCheck, Reached, _node_info, RequestsInOrder, RequestsTyped, Requests, RequestBecomes, RequestMoves, NoRequest
  <1>13. ASSUME Aside PROVE RequestsInOrder'
    BY <1>13, AsideStays DEF RequestsInOrder, RequestsTyped, Requests
  <1>14. ASSUME ApiRestarts PROVE RequestsInOrder'
    BY <1>t, <1>14, NodeUpdates, ApiRestartDoubts DEF ApiRestarts, RequestsInOrder, RequestsTyped, Requests, NoRequest, Working
  <1> QED
    BY <1>1, <1>2, <1>3, <1>4, <1>5, <1>6, <1>7, <1>8, <1>9, <1>10, <1>11, <1>12, <1>13, <1>14
       DEF NodeNext, Aside

LEMMA CacheStays ==
    ASSUME NodeTypeOK, CacheHasToken, [NodeNext]_nodeVars
    PROVE  CacheHasToken'
  <1>t. RowTyped /\ WingsTyped /\ CacheTyped /\ RequestsTyped /\ DoubtTyped BY NodeTypes
  <1>1. ASSUME NEW a \in NodeAdmins, NEW fields \in SUBSET Fields \ {{}}, put_wings_config(a, fields) PROVE CacheHasToken'
    BY <1>t, <1>1, RequestBegins DEF put_wings_config, CacheHasToken, clear_cache, _node_info, RequestBecomes, RequestMoves, NoRequest
  <1>2. ASSUME NEW a \in NodeAdmins, CommitEdit(a) PROVE CacheHasToken'
    BY <1>t, <1>2, RequestGoes, RequestTold, EditCommits DEF CommitEdit, Steps, CacheHasToken, clear_cache, _node_info, RequestBecomes, RequestMoves, NoRequest
  <1>3. ASSUME NEW a \in NodeAdmins, push_to_wings(a) PROVE CacheHasToken'
    BY <1>t, <1>3, RequestTold, RowPushes DEF push_to_wings, WingsFields, CacheHasToken, clear_cache, _node_info, RequestBecomes, RequestMoves, NoRequest
  <1>4. ASSUME NEW a \in NodeAdmins, PushArrives(a) PROVE CacheHasToken'
    BY <1>t, <1>4, RequestTold, NodeUpdates DEF PushArrives, CacheHasToken, clear_cache, _node_info, RequestBecomes, RequestMoves, NoRequest
  <1>5. ASSUME NEW a \in NodeAdmins, PushLost(a) PROVE CacheHasToken'
    BY <1>t, <1>5, RequestTold, NodeUpdates DEF PushLost, CacheHasToken, clear_cache, _node_info, RequestBecomes, RequestMoves, NoRequest
  <1>6. ASSUME NEW a \in NodeAdmins, reset_daemon_token(a) PROVE CacheHasToken'
    BY <1>t, <1>6, RequestBegins DEF reset_daemon_token, CacheHasToken, clear_cache, _node_info, RequestBecomes, RequestMoves, NoRequest
  <1>7. ASSUME NEW a \in NodeAdmins, RotationArrives(a) PROVE CacheHasToken'
    BY <1>t, <1>7, RequestTold, RequestGoes, NodeUpdates DEF RotationArrives, RotationAnswered, Steps, CacheHasToken, clear_cache, _node_info, RequestBecomes, RequestMoves, NoRequest
  <1>8. ASSUME NEW a \in NodeAdmins, RotationLost(a) PROVE CacheHasToken'
    BY <1>t, <1>8, RotationLoses, NodeUpdates DEF RotationLost, CacheHasToken, clear_cache, _node_info, RequestBecomes, RequestMoves, NoRequest
  <1>9. ASSUME NEW a \in NodeAdmins, NEW auto_restart \in BOOLEAN, AdoptToken(a, auto_restart) PROVE CacheHasToken'
    BY <1>t, <1>9, RequestTold, RequestGoes, TokenAdopted DEF AdoptToken, Steps, CacheHasToken, clear_cache, _node_info, RequestBecomes, RequestMoves, NoRequest
  <1>10. ASSUME NEW a \in NodeAdmins, restart_wings(a) PROVE CacheHasToken'
    BY <1>t, <1>10, RequestBegins DEF restart_wings, CacheHasToken, clear_cache, _node_info, RequestBecomes, RequestMoves, NoRequest
  <1>11. ASSUME NEW a \in NodeAdmins, AgentRestarts(a) PROVE CacheHasToken'
    BY <1>t, <1>11, RequestTold, RequestGoes, Restarts DEF AgentRestarts, Steps, CacheHasToken, clear_cache, _node_info, RequestBecomes, RequestMoves, NoRequest
  <1>12. ASSUME NEW a \in NodeAdmins, SelfCheck(a) PROVE CacheHasToken'
    BY <1>t, <1>12, RequestTold DEF SelfCheck, Reached, _node_info, CacheHasToken, clear_cache, _node_info, RequestBecomes, RequestMoves, NoRequest
  <1>13. ASSUME Aside PROVE CacheHasToken'
    BY <1>13 DEF CacheHasToken, Aside, create_host, delete_host, patch_host, AgentRekeyed, NodeCalled, CacheExpires,
              nodeVars, _node_info, clear_cache
  <1>14. ASSUME ApiRestarts PROVE CacheHasToken'
    BY <1>t, <1>14, NodeUpdates, ApiRestartDoubts DEF ApiRestarts, CacheHasToken, clear_cache, _node_info, NoRequest, Working
  <1> QED
    BY <1>1, <1>2, <1>3, <1>4, <1>5, <1>6, <1>7, <1>8, <1>9, <1>10, <1>11, <1>12, <1>13, <1>14
       DEF NodeNext, Aside

LEMMA HotStays ==
    ASSUME NodeTypeOK, HotTogether, [NodeNext]_nodeVars
    PROVE  HotTogether'
  <1>t. RowTyped /\ WingsTyped /\ CacheTyped /\ RequestsTyped /\ DoubtTyped BY NodeTypes
  <1>1. ASSUME NEW a \in NodeAdmins, NEW fields \in SUBSET Fields \ {{}}, put_wings_config(a, fields) PROVE HotTogether'
    BY <1>t, <1>1, RequestBegins DEF put_wings_config, HotTogether, RequestBecomes, RequestMoves, NoRequest
  <1>2. ASSUME NEW a \in NodeAdmins, CommitEdit(a) PROVE HotTogether'
    BY <1>t, <1>2, RequestGoes, RequestTold, EditCommits DEF CommitEdit, Steps, HotTogether, RequestBecomes, RequestMoves, NoRequest
  <1>3. ASSUME NEW a \in NodeAdmins, push_to_wings(a) PROVE HotTogether'
    BY <1>t, <1>3, RequestTold, RowPushes DEF push_to_wings, WingsFields, HotTogether, RequestBecomes, RequestMoves, NoRequest
  <1>4. ASSUME NEW a \in NodeAdmins, PushArrives(a) PROVE HotTogether'
    BY <1>t, <1>4, RequestTold, NodeUpdates DEF PushArrives, HotTogether, RequestBecomes, RequestMoves, NoRequest
  <1>5. ASSUME NEW a \in NodeAdmins, PushLost(a) PROVE HotTogether'
    BY <1>t, <1>5, RequestTold, NodeUpdates DEF PushLost, HotTogether, RequestBecomes, RequestMoves, NoRequest
  <1>6. ASSUME NEW a \in NodeAdmins, reset_daemon_token(a) PROVE HotTogether'
    BY <1>t, <1>6, RequestBegins DEF reset_daemon_token, HotTogether, RequestBecomes, RequestMoves, NoRequest
  <1>7. ASSUME NEW a \in NodeAdmins, RotationArrives(a) PROVE HotTogether'
    BY <1>t, <1>7, RequestTold, RequestGoes, NodeUpdates DEF RotationArrives, RotationAnswered, Steps, HotTogether, RequestBecomes, RequestMoves, NoRequest
  <1>8. ASSUME NEW a \in NodeAdmins, RotationLost(a) PROVE HotTogether'
    BY <1>t, <1>8, RotationLoses, NodeUpdates DEF RotationLost, HotTogether, RequestBecomes, RequestMoves, NoRequest
  <1>9. ASSUME NEW a \in NodeAdmins, NEW auto_restart \in BOOLEAN, AdoptToken(a, auto_restart) PROVE HotTogether'
    BY <1>t, <1>9, RequestTold, RequestGoes, TokenAdopted DEF AdoptToken, Steps, HotTogether, RequestBecomes, RequestMoves, NoRequest
  <1>10. ASSUME NEW a \in NodeAdmins, restart_wings(a) PROVE HotTogether'
    BY <1>t, <1>10, RequestBegins DEF restart_wings, HotTogether, RequestBecomes, RequestMoves, NoRequest
  <1>11. ASSUME NEW a \in NodeAdmins, AgentRestarts(a) PROVE HotTogether'
    BY <1>t, <1>11, RequestTold, RequestGoes, Restarts DEF AgentRestarts, Steps, HotTogether, RequestBecomes, RequestMoves, NoRequest
  <1>12. ASSUME NEW a \in NodeAdmins, SelfCheck(a) PROVE HotTogether'
    BY <1>t, <1>12, RequestTold DEF SelfCheck, Reached, _node_info, HotTogether, RequestBecomes, RequestMoves, NoRequest
  <1>13. ASSUME Aside PROVE HotTogether'
    BY <1>13, AsideStays DEF HotTogether
  <1>14. ASSUME ApiRestarts PROVE HotTogether'
    BY <1>t, <1>14, NodeUpdates, ApiRestartDoubts DEF ApiRestarts, HotTogether, NoRequest, Working
  <1> QED
    BY <1>1, <1>2, <1>3, <1>4, <1>5, <1>6, <1>7, <1>8, <1>9, <1>10, <1>11, <1>12, <1>13, <1>14
       DEF NodeNext, Aside

LEMMA KeyFollows ==
    ASSUME NodeTypeOK, RequestsInOrder, KeyFollowed, [NodeNext]_nodeVars
    PROVE  KeyFollowed'
  <1>t. RowTyped /\ WingsTyped /\ CacheTyped /\ RequestsTyped /\ DoubtTyped BY NodeTypes
  <1>1. ASSUME NEW a \in NodeAdmins, NEW fields \in SUBSET Fields \ {{}}, put_wings_config(a, fields) PROVE KeyFollowed'
    BY <1>t, <1>1, RequestBegins DEF put_wings_config, KeyFollowed, RotationAlone, KeyKept, RequestsInOrder, Working, Others, RequestBecomes, RequestMoves, NoRequest
  <1>2. ASSUME NEW a \in NodeAdmins, CommitEdit(a) PROVE KeyFollowed'
    BY <1>t, <1>2, RequestGoes, RequestTold, EditCommits DEF CommitEdit, Steps, KeyFollowed, RotationAlone, KeyKept, RequestsInOrder, Working, Others, RequestBecomes, RequestMoves, NoRequest
  <1>3. ASSUME NEW a \in NodeAdmins, push_to_wings(a) PROVE KeyFollowed'
    BY <1>t, <1>3, RequestTold, RowPushes DEF push_to_wings, WingsFields, KeyFollowed, RotationAlone, KeyKept, RequestsInOrder, Working, Others, RequestBecomes, RequestMoves, NoRequest
  <1>4. ASSUME NEW a \in NodeAdmins, PushArrives(a) PROVE KeyFollowed'
    BY <1>t, <1>4, RequestTold, NodeUpdates DEF PushArrives, KeyFollowed, RotationAlone, KeyKept, RequestsInOrder, Working, Others, RequestBecomes, RequestMoves, NoRequest
  <1>5. ASSUME NEW a \in NodeAdmins, PushLost(a) PROVE KeyFollowed'
    BY <1>t, <1>5, RequestTold, NodeUpdates DEF PushLost, KeyFollowed, RotationAlone, KeyKept, RequestsInOrder, Working, Others, RequestBecomes, RequestMoves, NoRequest
  <1>6. ASSUME NEW a \in NodeAdmins, reset_daemon_token(a) PROVE KeyFollowed'
    BY <1>t, <1>6, RequestBegins DEF reset_daemon_token, KeyFollowed, RotationAlone, KeyKept, RequestsInOrder, Working, Others, RequestBecomes, RequestMoves, NoRequest
  <1>7. ASSUME NEW a \in NodeAdmins, RotationArrives(a) PROVE KeyFollowed'
    BY <1>t, <1>7, RequestTold, RequestGoes, NodeUpdates DEF RotationArrives, RotationAnswered, Steps, KeyFollowed, RotationAlone, KeyKept, RequestsInOrder, Working, Others, RequestBecomes, RequestMoves, NoRequest
  <1>8. ASSUME NEW a \in NodeAdmins, RotationLost(a) PROVE KeyFollowed'
    BY <1>t, <1>8, RotationLoses DEF KeyFollowed, RotationAlone, KeyKept, RequestsInOrder, RequestBecomes, NoRequest
  <1>9. ASSUME NEW a \in NodeAdmins, NEW auto_restart \in BOOLEAN, AdoptToken(a, auto_restart) PROVE KeyFollowed'
    BY <1>t, <1>9, RequestTold, RequestGoes, TokenAdopted DEF AdoptToken, Steps, KeyFollowed, RotationAlone, KeyKept, RequestsInOrder, Working, Others, RequestBecomes, RequestMoves, NoRequest
  <1>10. ASSUME NEW a \in NodeAdmins, restart_wings(a) PROVE KeyFollowed'
    BY <1>t, <1>10, RequestBegins DEF restart_wings, KeyFollowed, RotationAlone, KeyKept, RequestsInOrder, Working, Others, RequestBecomes, RequestMoves, NoRequest
  <1>11. ASSUME NEW a \in NodeAdmins, AgentRestarts(a) PROVE KeyFollowed'
    BY <1>t, <1>11, RequestTold, RequestGoes, Restarts DEF AgentRestarts, Steps, KeyFollowed, RotationAlone, KeyKept, RequestsInOrder, Working, Others, RequestBecomes, RequestMoves, NoRequest
  <1>12. ASSUME NEW a \in NodeAdmins, SelfCheck(a) PROVE KeyFollowed'
    BY <1>t, <1>12, RequestTold DEF SelfCheck, Reached, _node_info, KeyFollowed, RotationAlone, KeyKept, RequestsInOrder, Working, Others, RequestBecomes, RequestMoves, NoRequest
  <1>13. ASSUME Aside PROVE KeyFollowed'
    BY <1>13, AsideStays DEF KeyFollowed, RotationAlone, KeyKept, RequestsInOrder, Working, Others
  <1>14. ASSUME ApiRestarts PROVE KeyFollowed'
    BY <1>t, <1>14, NodeUpdates, ApiRestartDoubts DEF ApiRestarts, KeyFollowed, RotationAlone, KeyKept, RequestsInOrder, Working, Others, NoRequest, Working
  <1> QED
    BY <1>1, <1>2, <1>3, <1>4, <1>5, <1>6, <1>7, <1>8, <1>9, <1>10, <1>11, <1>12, <1>13, <1>14
       DEF NodeNext, Aside

LEMMA SettingsFollow ==
    ASSUME NodeTypeOK, RequestsInOrder, HotTogether, SettingsFollowed, [NodeNext]_nodeVars
    PROVE  SettingsFollowed'
  <1>t. RowTyped /\ WingsTyped /\ CacheTyped /\ RequestsTyped /\ DoubtTyped BY NodeTypes
  <1>1. ASSUME NEW a \in NodeAdmins, NEW fields \in SUBSET Fields \ {{}}, put_wings_config(a, fields) PROVE SettingsFollowed'
    BY <1>t, <1>1, RequestBegins DEF put_wings_config, SettingsFollowed, EditAlone, Pushing, RequestsInOrder, Working, Others, HotTogether, RequestBecomes, RequestMoves, NoRequest
  <1>2. ASSUME NEW a \in NodeAdmins, CommitEdit(a) PROVE SettingsFollowed'
    BY <1>t, <1>2, RequestGoes, RequestTold, EditCommits DEF CommitEdit, Steps, SettingsFollowed, EditAlone, Pushing, RequestsInOrder, Working, Others, HotTogether, RequestBecomes, RequestMoves, NoRequest
  <1>3. ASSUME NEW a \in NodeAdmins, push_to_wings(a) PROVE SettingsFollowed'
    BY <1>t, <1>3, RequestTold, RowPushes DEF push_to_wings, WingsFields, SettingsFollowed, EditAlone, Pushing, RequestsInOrder, Working, Others, HotTogether, RequestBecomes, RequestMoves, NoRequest
  <1>4. ASSUME NEW a \in NodeAdmins, PushArrives(a) PROVE SettingsFollowed'
    BY <1>t, <1>4, RequestTold, NodeUpdates DEF PushArrives, SettingsFollowed, EditAlone, Pushing, RequestsInOrder, Working, Others, HotTogether, RequestBecomes, RequestMoves, NoRequest
  <1>5. ASSUME NEW a \in NodeAdmins, PushLost(a) PROVE SettingsFollowed'
    BY <1>t, <1>5, RequestTold, NodeUpdates DEF PushLost, SettingsFollowed, EditAlone, Pushing, RequestsInOrder, Working, Others, HotTogether, RequestBecomes, RequestMoves, NoRequest
  <1>6. ASSUME NEW a \in NodeAdmins, reset_daemon_token(a) PROVE SettingsFollowed'
    BY <1>t, <1>6, RequestBegins DEF reset_daemon_token, SettingsFollowed, EditAlone, Pushing, RequestsInOrder, Working, Others, HotTogether, RequestBecomes, RequestMoves, NoRequest
  <1>7. ASSUME NEW a \in NodeAdmins, RotationArrives(a) PROVE SettingsFollowed'
    BY <1>t, <1>7, RequestTold, RequestGoes, NodeUpdates DEF RotationArrives, RotationAnswered, Steps, SettingsFollowed, EditAlone, Pushing, RequestsInOrder, Working, Others, HotTogether, RequestBecomes, RequestMoves, NoRequest
  <1>8. ASSUME NEW a \in NodeAdmins, RotationLost(a) PROVE SettingsFollowed'
    BY <1>t, <1>8, RotationLoses DEF SettingsFollowed, EditAlone, Pushing, RequestsInOrder, RequestBecomes, NoRequest
  <1>9. ASSUME NEW a \in NodeAdmins, NEW auto_restart \in BOOLEAN, AdoptToken(a, auto_restart) PROVE SettingsFollowed'
    BY <1>t, <1>9, RequestTold, RequestGoes, TokenAdopted DEF AdoptToken, Steps, SettingsFollowed, EditAlone, Pushing, RequestsInOrder, Working, Others, HotTogether, RequestBecomes, RequestMoves, NoRequest
  <1>10. ASSUME NEW a \in NodeAdmins, restart_wings(a) PROVE SettingsFollowed'
    BY <1>t, <1>10, RequestBegins DEF restart_wings, SettingsFollowed, EditAlone, Pushing, RequestsInOrder, Working, Others, HotTogether, RequestBecomes, RequestMoves, NoRequest
  <1>11. ASSUME NEW a \in NodeAdmins, AgentRestarts(a) PROVE SettingsFollowed'
    BY <1>t, <1>11, RequestTold, RequestGoes, Restarts DEF AgentRestarts, Steps, SettingsFollowed, EditAlone, Pushing, RequestsInOrder, Working, Others, HotTogether, RequestBecomes, RequestMoves, NoRequest
  <1>12. ASSUME NEW a \in NodeAdmins, SelfCheck(a) PROVE SettingsFollowed'
    BY <1>t, <1>12, RequestTold DEF SelfCheck, Reached, _node_info, SettingsFollowed, EditAlone, Pushing, RequestsInOrder, Working, Others, HotTogether, RequestBecomes, RequestMoves, NoRequest
  <1>13. ASSUME Aside PROVE SettingsFollowed'
    BY <1>13, AsideStays DEF SettingsFollowed, EditAlone, Pushing, RequestsInOrder, Working, Others, HotTogether
  <1>14. ASSUME ApiRestarts PROVE SettingsFollowed'
    BY <1>t, <1>14, NodeUpdates, ApiRestartDoubts DEF ApiRestarts, SettingsFollowed, EditAlone, Pushing, RequestsInOrder, Working, Others, HotTogether, NoRequest, Working
  <1> QED
    BY <1>1, <1>2, <1>3, <1>4, <1>5, <1>6, <1>7, <1>8, <1>9, <1>10, <1>11, <1>12, <1>13, <1>14
       DEF NodeNext, Aside

LEMMA VerifiedStays ==
    ASSUME NodeTypeOK, RequestsInOrder, CacheHasToken, VerifiedIsLive, [NodeNext]_nodeVars
    PROVE  VerifiedIsLive'
  <1>t. RowTyped /\ WingsTyped /\ CacheTyped /\ RequestsTyped /\ DoubtTyped BY NodeTypes
  <1>1. ASSUME NEW a \in NodeAdmins, NEW fields \in SUBSET Fields \ {{}}, put_wings_config(a, fields) PROVE VerifiedIsLive'
    BY <1>t, <1>1, RequestBegins DEF put_wings_config, VerifiedIsLive, RequestsInOrder, RequestBecomes, RequestMoves, NoRequest
  <1>2. ASSUME NEW a \in NodeAdmins, CommitEdit(a) PROVE VerifiedIsLive'
    BY <1>t, <1>2, RequestGoes, RequestTold, EditCommits DEF CommitEdit, Steps, VerifiedIsLive, RequestsInOrder, RequestBecomes, RequestMoves, NoRequest
  <1>3. ASSUME NEW a \in NodeAdmins, push_to_wings(a) PROVE VerifiedIsLive'
    BY <1>t, <1>3, RequestTold, RowPushes DEF push_to_wings, WingsFields, VerifiedIsLive, RequestsInOrder, RequestBecomes, RequestMoves, NoRequest
  <1>4. ASSUME NEW a \in NodeAdmins, PushArrives(a) PROVE VerifiedIsLive'
    BY <1>t, <1>4, RequestTold, NodeUpdates DEF PushArrives, VerifiedIsLive, RequestsInOrder, RequestBecomes, RequestMoves, NoRequest
  <1>5. ASSUME NEW a \in NodeAdmins, PushLost(a) PROVE VerifiedIsLive'
    BY <1>t, <1>5, RequestTold, NodeUpdates DEF PushLost, VerifiedIsLive, RequestsInOrder, RequestBecomes, RequestMoves, NoRequest
  <1>6. ASSUME NEW a \in NodeAdmins, reset_daemon_token(a) PROVE VerifiedIsLive'
    BY <1>t, <1>6, RequestBegins DEF reset_daemon_token, VerifiedIsLive, RequestsInOrder, RequestBecomes, RequestMoves, NoRequest
  <1>7. ASSUME NEW a \in NodeAdmins, RotationArrives(a) PROVE VerifiedIsLive'
    BY <1>t, <1>7, RequestTold, RequestGoes, NodeUpdates DEF RotationArrives, RotationAnswered, Steps, VerifiedIsLive, RequestsInOrder, RequestBecomes, RequestMoves, NoRequest
  <1>8. ASSUME NEW a \in NodeAdmins, RotationLost(a) PROVE VerifiedIsLive'
    BY <1>t, <1>8, RotationLoses, NodeUpdates DEF RotationLost, VerifiedIsLive, RequestsInOrder, RequestBecomes, RequestMoves, NoRequest
  <1>9. ASSUME NEW a \in NodeAdmins, NEW auto_restart \in BOOLEAN, AdoptToken(a, auto_restart) PROVE VerifiedIsLive'
    BY <1>t, <1>9, RequestTold, RequestGoes, TokenAdopted DEF AdoptToken, Steps, VerifiedIsLive, RequestsInOrder, RequestBecomes, RequestMoves, NoRequest
  <1>10. ASSUME NEW a \in NodeAdmins, restart_wings(a) PROVE VerifiedIsLive'
    BY <1>t, <1>10, RequestBegins DEF restart_wings, VerifiedIsLive, RequestsInOrder, RequestBecomes, RequestMoves, NoRequest
  <1>11. ASSUME NEW a \in NodeAdmins, AgentRestarts(a) PROVE VerifiedIsLive'
    BY <1>t, <1>11, RequestTold, RequestGoes, Restarts DEF AgentRestarts, Steps, VerifiedIsLive, RequestsInOrder, RequestBecomes, RequestMoves, NoRequest
  <1>12. ASSUME NEW a \in NodeAdmins, SelfCheck(a) PROVE VerifiedIsLive'
    <2>1. _node_info.token = node.token BY DEF _node_info, CacheHasToken
    <2>2. doubt'.verified => Reached(_node_info) BY <1>t, <1>12, RequestTold DEF SelfCheck
    <2> QED BY <1>12, <2>1, <2>2 DEF SelfCheck, Reached, VerifiedIsLive
  <1>13. ASSUME Aside PROVE VerifiedIsLive'
    BY <1>13, AsideStays DEF VerifiedIsLive, RequestsInOrder
  <1>14. ASSUME ApiRestarts PROVE VerifiedIsLive'
    BY <1>t, <1>14, NodeUpdates, ApiRestartDoubts DEF ApiRestarts, VerifiedIsLive, RequestsInOrder, NoRequest, Working
  <1> QED
    BY <1>1, <1>2, <1>3, <1>4, <1>5, <1>6, <1>7, <1>8, <1>9, <1>10, <1>11, <1>12, <1>13, <1>14
       DEF NodeNext, Aside

-------------------------------------------------------------------------------

LEMMA NodeStarts == NodeInit => NodeIInv
  <1> SUFFICES ASSUME NodeInit PROVE NodeIInv
    OBVIOUS
  <1>1. NodeTypeOK
    <2>1. RowTyped /\ CacheTyped BY FirstOnes DEF NodeInit, RowTyped, CacheTyped
    <2>2. RequestsTyped BY FirstOnes DEF NodeInit, RequestsTyped
    <2>3. HostsTyped BY DEF NodeInit, HostsTyped
    <2>4. WingsTyped BY FirstOnes DEF NodeInit, WingsTyped
    <2>5. SpentTyped BY NodeAssumption DEF NodeInit, SpentTyped
    <2>6. DoubtTyped BY DEF NodeInit, DoubtTyped
    <2> QED BY <2>1, <2>2, <2>3, <2>4, <2>5, <2>6, NodeTypes
  <1>2. RequestsInOrder BY DEF NodeInit, RequestsInOrder, NoRequest
  <1>3. CacheHasToken /\ HotTogether BY DEF NodeInit, CacheHasToken, HotTogether
  <1>4. \A a \in NodeAdmins : request[a] = NoRequest BY DEF NodeInit
  <1>5. node = FirstConfig /\ wings.file = FirstConfig /\ ~doubt.verified BY DEF NodeInit
  <1>6. KeyFollowed /\ SettingsFollowed /\ VerifiedIsLive
    BY <1>4, <1>5 DEF NoRequest, KeyFollowed, RotationAlone, KeyKept, SettingsFollowed, EditAlone, VerifiedIsLive
  <1> QED BY <1>1, <1>2, <1>3, <1>6 DEF NodeIInv

\* What the panel's row, Wings' file and running daemon, the cache and the requests under way know
\* of each other.
THEOREM NodeInvariant == NodeSpec => []NodeIInv
  <1>1. NodeInit => NodeIInv BY NodeStarts
  <1>2. NodeIInv /\ [NodeNext]_nodeVars => NodeIInv'
    BY NodeTypeStep, OrderStays, CacheStays, HotStays, KeyFollows, SettingsFollow, VerifiedStays DEF NodeIInv
  <1> QED BY <1>1, <1>2, PTL DEF NodeSpec

\* PanelAndWingsAgree, for any number of administrators, requests, rotations and faults.
THEOREM NodesAgree == NodeSpec => []PanelAndWingsAgree
  <1>1. NodeIInv => KeyKept
    BY DEF NodeIInv, KeyFollowed, KeyKept
  <1>2. NodeIInv => SettingsKept
    BY DEF NodeIInv, SettingsFollowed, EditAlone, Pushing, HotTogether, SettingsKept, RequestsInOrder, Working
  <1>3. NodeIInv => PanelAndWingsAgree BY <1>1, <1>2 DEF PanelAndWingsAgree, NodeIInv
  <1> QED BY <1>3, NodeInvariant, PTL

-------------------------------------------------------------------------------
(* Alerts: the samples that are kept, and what a minute does to the alerts *)

CycleInOrder ==
    /\ ~cycle.on => cycle = NoCycle
    /\ cycle.later <= adminSteps /\ cycle.later <= Len(samples)
AlertIInv == AlertTypeOK /\ CycleInOrder

Cycles == [on : BOOLEAN, off : RuleSets, open : SUBSET AlertTypes, later : 0..MaxAdminSteps]
\* A minute's work on the alerts under way.
Work == [open : SUBSET AlertTypes, quiet : [AlertTypes -> 0..Cooldown], off : RuleSets,
         flushed : BOOLEAN, mail : BOOLEAN]

LEMMA AlertNumbers ==
    /\ Sustain \in Nat /\ Window \in Nat /\ Cooldown \in Nat /\ MaxAdminSteps \in Nat
    /\ LastN \in Nat /\ History \in Nat /\ Window <= History /\ 0 \in 0..Cooldown /\ Cooldown \in 0..Cooldown
    /\ Pulls \subseteq Pull /\ {} \in RuleSets
  BY AlertAssumption DEF LastN, History

LEMMA NoCycleTyped == NoCycle \in Cycles /\ NoCycle.later = 0 /\ ~NoCycle.on
  BY AlertNumbers DEF NoCycle, Cycles

LEMMA Newest ==
    ASSUME NEW n \in Nat, NEW rows \in Seq(Pull)
    PROVE  /\ NewestRows(n, rows) \in Seq(Pull)
           /\ Len(NewestRows(n, rows)) = IF n < Len(rows) THEN n ELSE Len(rows)
  <1> DEFINE k == IF n < Len(rows) THEN n ELSE Len(rows)
  <1>1. Len(rows) \in Nat /\ k \in Nat /\ k <= Len(rows) BY LenProperties
  <1>2. \A i \in 1..k : rows[i] \in Pull BY <1>1, ElementOfSeq
  <1> HIDE DEF k
  <1>3. SubSeq(rows, 1, k) \in Seq(Pull) /\ Len(SubSeq(rows, 1, k)) = k BY <1>1, <1>2, SubSeqProperties
  <1> QED BY <1>3 DEF NewestRows, k

LEMMA Stored ==
    ASSUME NEW p \in Pull
    PROVE  Row(p) \in Pull /\ [Row(p) EXCEPT !.public = "none", !.clash = "none"] \in Pull
  <1>1. Row(p) \in Pull BY DEF Row, Pull
  <1>2. \A r \in Pull : [r EXCEPT !.public = "none", !.clash = "none"] \in Pull BY DEF Pull
  <1> QED BY <1>1, <1>2

\* The rows before the snapshot, one more, and those since.
LEMMA OneMore ==
    ASSUME NEW rows \in Seq(Pull), NEW p \in Pull, NEW k \in Nat, k <= Len(rows)
    PROVE  LET all == SubSeq(rows, 1, k) \o <<p>> \o SubSeq(rows, k + 1, Len(rows)) IN
           all \in Seq(Pull) /\ Len(all) = Len(rows) + 1
  <1>1. Len(rows) \in Nat BY LenProperties
  <1>2. \A i \in 1..Len(rows) : rows[i] \in Pull BY ElementOfSeq
  <1>3. SubSeq(rows, 1, k) \in Seq(Pull) /\ Len(SubSeq(rows, 1, k)) = k
    BY <1>1, <1>2, SubSeqProperties
  <1>4. SubSeq(rows, k + 1, Len(rows)) \in Seq(Pull) /\ Len(SubSeq(rows, k + 1, Len(rows))) = Len(rows) - k
    BY <1>1, <1>2, SubSeqProperties
  <1>5. <<p>> \in Seq(Pull) /\ Len(<<p>>) = 1 OBVIOUS
  <1>6. PICK x : x = SubSeq(rows, 1, k) OBVIOUS
  <1>7. PICK z : z = SubSeq(rows, k + 1, Len(rows)) OBVIOUS
  <1>8. PICK w : w = x \o <<p>> OBVIOUS
  <1>9. w \in Seq(Pull) /\ Len(w) = k + 1 BY <1>1, <1>3, <1>5, <1>6, <1>8, ConcatProperties
  <1>10. z \in Seq(Pull) /\ Len(z) = Len(rows) - k BY <1>4, <1>7
  <1>11. w \o z \in Seq(Pull) /\ Len(w \o z) = Len(w) + Len(z) BY <1>9, <1>10, ConcatProperties
  <1>12. Len(w \o z) = Len(rows) + 1 BY <1>1, <1>9, <1>10, <1>11
  <1> QED BY <1>6, <1>7, <1>8, <1>11, <1>12

\* What each check does to the alerts.
LEMMA Notified == ASSUME NEW s \in Work, NEW t \in AlertTypes PROVE _maybe_notify(s, t) \in Work
  BY AlertNumbers DEF Work, _maybe_notify
LEMMA Resolved == ASSUME NEW s \in Work, NEW t \in AlertTypes PROVE _auto_resolve(s, t) \in Work
  BY AlertNumbers DEF Work, _auto_resolve
LEMMA AllResolved == ASSUME NEW s \in Work, NEW types \in SUBSET AlertTypes PROVE ResolveAll(s, types) \in Work
  BY AlertNumbers DEF Work, ResolveAll
LEMMA Raised == ASSUME NEW s \in Work, NEW t \in AlertTypes PROVE _raise_or_skip(s, t) \in Work
  <1>1. [s EXCEPT !.open = @ \cup {t}, !.flushed = TRUE] \in Work BY DEF Work
  <1> QED BY <1>1, Notified, Resolved DEF _raise_or_skip
LEMMA Judged ==
    ASSUME NEW s \in Work, NEW t \in AlertTypes, NEW condition \in BOOLEAN
    PROVE  RaiseIf(condition, s, t) \in Work /\ Verdict(s, t, condition) \in Work
  BY Raised, Resolved DEF RaiseIf, Verdict

LEMMA AvailabilityChecked == ASSUME NEW s \in Work, NEW p \in Pull PROVE CheckAvailability(s, p) \in Work
  <1> DEFINE sustained == _check_offline_sustained(SnapshotRows)
             wingsUp == p.wings \/ p.public = "ok"
             only == CASE ~p.agent /\ (kind # "wings_node" \/ wingsUp) -> "agent_only_down"
                       [] ~p.agent -> "node_offline"
                       [] kind = "wings_node" /\ ~wingsUp -> "wings_only_down"
                       [] OTHER -> "none"
             gate == only = "wings_only_down" \/ sustained
  <1>1. only \in AvailabilityTypes \cup {"none"} BY DEF AvailabilityTypes
  <1> HIDE DEF only
  <1>2. AvailabilityTypes \ {only} \in SUBSET AlertTypes /\ (only # "none" => only \in AlertTypes)
    BY <1>1 DEF AlertTypes
  <1>3. RaiseIf(only # "none" /\ gate, s, only) \in Work BY <1>2, Raised DEF RaiseIf
  <1>4. ResolveAll(RaiseIf(only # "none" /\ gate, s, only), AvailabilityTypes \ {only}) \in Work
    BY <1>2, <1>3, AllResolved
  <1> QED BY <1>4 DEF CheckAvailability, only

LEMMA CpuChecked == ASSUME NEW s \in Work, NEW p \in Pull PROVE CheckCpu(s, p) \in Work
  <1>1. "cpu_high" \in AlertTypes BY DEF AlertTypes
  <1> QED BY <1>1, Raised, Resolved DEF CheckCpu, RaiseIf

LEMMA DiskChecked == ASSUME NEW s \in Work, NEW p \in Pull PROVE CheckDisk(s, p) \in Work
  <1>1. {"disk_high", "disk_critical"} \subseteq AlertTypes BY DEF AlertTypes
  <1>2. p.disk \in {"none", "normal", "high", "critical"} BY DEF Pull
  <1> QED BY <1>1, <1>2, Raised, Resolved, AllResolved DEF CheckDisk

LEMMA ProbesChecked == ASSUME NEW s \in Work, NEW p \in Pull PROVE _check_probe_alerts(s, p) \in Work
  <1>1. {"network_down", "clash_down"} \subseteq AlertTypes BY DEF AlertTypes
  <1>2. ASSUME NEW r \in Work, NEW t \in AlertTypes, NEW result PROVE ProbeVerdict(r, t, result) \in Work
    BY Judged DEF ProbeVerdict
  <1> QED BY <1>1, <1>2 DEF _check_probe_alerts

LEMMA MinuteTyped ==
    ASSUME AlertTypeOK, NEW p \in Pull, NEW mail \in BOOLEAN
    PROVE  MinuteOf(p, mail) \in Work
  <1>1. [open |-> cycle.open, quiet |-> quiet, off |-> cycle.off, flushed |-> FALSE, mail |-> mail] \in Work
    BY DEF AlertTypeOK, Work
  <1> QED BY <1>1, AvailabilityChecked, CpuChecked, DiskChecked, ProbesChecked DEF MinuteOf, _check_alerts

LEMMA AlertStarts == AlertInit => AlertIInv
  <1> SUFFICES ASSUME AlertInit PROVE AlertIInv
    OBVIOUS
  <1>1. samples \in Seq(Pull) /\ Len(samples) = 0 BY DEF AlertInit
  <1> QED BY <1>1, AlertNumbers, NoCycleTyped DEF AlertInit, AlertIInv, AlertTypeOK, CycleInOrder, Cycles

LEMMA AlertStep == AlertIInv /\ [AlertNext]_alertVars => AlertIInv'
  <1> SUFFICES ASSUME AlertIInv, [AlertNext]_alertVars PROVE AlertIInv'
    OBVIOUS
  <1> USE AlertNumbers
  <1>t. AlertTypeOK /\ CycleInOrder BY DEF AlertIInv
  <1>l. Len(samples) \in Nat /\ cycle \in Cycles BY <1>t, LenProperties DEF AlertTypeOK, Cycles
  <1>1. CASE CycleStart
    <2>1. cycle.later = 0 /\ cycle'.later = 0 /\ cycle'.on BY <1>t, <1>1, NoCycleTyped DEF CycleStart, CycleInOrder
    <2>2. cycle' \in Cycles BY <1>t, <1>1 DEF CycleStart, Cycles, AlertTypeOK
    <2>3. quiet' \in [AlertTypes -> 0..Cooldown] BY <1>t, <1>1 DEF CycleStart, AlertTypeOK
    <2>4. AlertTypeOK' BY <1>t, <1>1, <2>1, <2>2, <2>3 DEF CycleStart, AlertTypeOK, Cycles
    <2>5. CycleInOrder' BY <1>t, <1>l, <1>1, <2>1 DEF CycleStart, CycleInOrder, AlertTypeOK
    <2> QED BY <2>4, <2>5 DEF AlertIInv
  <1>2. ASSUME NEW p \in Pulls, NEW mail \in BOOLEAN, CycleCommit(p, mail) PROVE AlertIInv'
    <2>1. p \in Pull /\ Row(p) \in Pull BY Stored
    <2>2. PICK all : all = SubSeq(samples, 1, cycle.later) \o <<Row(p)>> \o SnapshotRows OBVIOUS
    <2>3. cycle.later \in Nat /\ cycle.later <= Len(samples) /\ samples \in Seq(Pull)
      BY <1>t, <1>l DEF CycleInOrder, Cycles, AlertTypeOK
    <2>4. all \in Seq(Pull) /\ Len(all) = Len(samples) + 1
      BY <2>1, <2>2, <2>3, OneMore DEF SnapshotRows
    <2>5. samples' = NewestRows(History, all) BY <1>2, <2>2 DEF CycleCommit
    <2>6. samples' \in Seq(Pull) /\ Len(samples') = IF History < Len(all) THEN History ELSE Len(all)
      BY <2>4, <2>5, Newest
    <2>7. visible' \in 0..Window /\ visible' <= Len(samples')
      BY <1>t, <1>l, <1>2, <2>4, <2>6 DEF CycleCommit, AlertTypeOK
    <2>8. MinuteOf(p, mail) \in Work BY <1>t, <2>1, MinuteTyped
    <2>9. open' \subseteq AlertTypes /\ quiet' \in [AlertTypes -> 0..Cooldown]
      BY <1>2, <2>8 DEF CycleCommit, Work
    <2>10. cycle' = NoCycle /\ UNCHANGED <<kind, enabled, off, adminSteps>> BY <1>2 DEF CycleCommit
    <2>11. AlertTypeOK'
      BY <1>t, <1>l, <2>4, <2>6, <2>7, <2>9, <2>10, NoCycleTyped DEF AlertTypeOK, Cycles
    <2>12. CycleInOrder' BY <1>t, <1>l, <2>4, <2>6, <2>10, NoCycleTyped DEF CycleInOrder, AlertTypeOK
    <2> QED BY <2>11, <2>12 DEF AlertIInv
  <1>3. CASE CycleLost
    <2>1. samples' \in Seq(Pull) /\ Len(samples') = IF History < Len(samples) THEN History ELSE Len(samples)
      BY <1>t, <1>3, Newest DEF CycleLost, AlertTypeOK
    <2>2. cycle' = NoCycle /\ UNCHANGED <<kind, enabled, off, visible, open, quiet, adminSteps>>
      BY <1>3 DEF CycleLost
    <2>3. AlertTypeOK' BY <1>t, <1>l, <2>1, <2>2, NoCycleTyped DEF AlertTypeOK, Cycles
    <2>4. CycleInOrder' BY <1>t, <1>l, <2>1, <2>2, NoCycleTyped DEF CycleInOrder, AlertTypeOK
    <2> QED BY <2>3, <2>4 DEF AlertIInv
  <1>4. CASE MinutesPass
    <2>1. quiet' \in [AlertTypes -> 0..Cooldown] BY <1>t, <1>4 DEF MinutesPass, AlertTypeOK
    <2> QED BY <1>t, <1>l, <1>4, <2>1 DEF MinutesPass, AlertIInv, AlertTypeOK, CycleInOrder
  <1>5. CASE put_host_alerts
    BY <1>t, <1>l, <1>5 DEF put_host_alerts, AdminStep, AlertIInv, AlertTypeOK, CycleInOrder, Cycles
  <1>6. ASSUME NEW t \in AlertTypes, resolve_alert(t) PROVE AlertIInv'
    BY <1>t, <1>l, <1>6 DEF resolve_alert, AdminStep, AlertIInv, AlertTypeOK, CycleInOrder, Cycles
  <1>7. CASE patch_host_enabled
    BY <1>t, <1>l, <1>7 DEF patch_host_enabled, AdminStep, AlertIInv, AlertTypeOK, CycleInOrder, Cycles
  <1>8. ASSUME NEW p \in Pulls, refresh_agent_pull(p) PROVE AlertIInv'
    <2>1. PICK r : r = [Row(p) EXCEPT !.public = "none", !.clash = "none"] OBVIOUS
    <2>2. r \in Pull BY <2>1, Stored
    <2>3. samples \in Seq(Pull) BY <1>t DEF AlertTypeOK
    <2>4. <<r>> \in Seq(Pull) /\ Len(<<r>>) = 1 BY <2>2
    <2>5. PICK more : more = <<r>> \o samples OBVIOUS
    <2>6. more \in Seq(Pull) /\ Len(more) = Len(samples) + 1 BY <1>l, <2>3, <2>4, <2>5, ConcatProperties
    <2>7. adminSteps' \in 0..MaxAdminSteps /\ adminSteps' = adminSteps + 1
      BY <1>t, <1>8 DEF refresh_agent_pull, AdminStep, AlertTypeOK
    <2>8. /\ cycle' \in Cycles /\ cycle'.later \in {cycle.later, cycle.later + 1}
          /\ cycle'.on = cycle.on /\ (~cycle.on => cycle' = cycle)
      <3>1. cycle \in Cycles BY <1>t DEF AlertTypeOK, Cycles
      <3>2. CASE ~cycle.on
        <4>1. cycle' = cycle BY <1>8, <3>2 DEF refresh_agent_pull
        <4> QED BY <3>1, <4>1
      <3>3. CASE cycle.on
        <4>1. cycle' = [cycle EXCEPT !.later = cycle.later + 1] BY <1>8, <3>3 DEF refresh_agent_pull
        <4>2. cycle.later + 1 \in 0..MaxAdminSteps BY <1>t, <1>l, <2>7, <3>1 DEF AlertTypeOK, CycleInOrder, Cycles
        <4> QED BY <3>1, <3>3, <4>1, <4>2 DEF Cycles
      <3> QED BY <3>1, <3>2, <3>3 DEF Cycles
    <2>9. cycle'.later \in Nat /\ cycle.later \in Nat BY <1>l, <2>8 DEF Cycles
    <2>10. samples' = NewestRows(History + cycle'.later, more) BY <1>8, <2>1, <2>5 DEF refresh_agent_pull
    <2>11. /\ samples' \in Seq(Pull)
           /\ Len(samples') = IF History + cycle'.later < Len(more) THEN History + cycle'.later ELSE Len(more)
      BY <2>6, <2>9, <2>10, Newest
    <2>12. UNCHANGED <<kind, enabled, off, open, quiet>>
           /\ visible' = IF visible < Window THEN visible + 1 ELSE Window
      BY <1>8 DEF refresh_agent_pull
    <2>13. visible' \in 0..Window /\ visible' <= Len(samples')
      BY <1>t, <1>l, <2>6, <2>9, <2>11, <2>12 DEF AlertTypeOK
    <2>14. AlertTypeOK'
      BY <1>t, <1>l, <2>6, <2>7, <2>8, <2>9, <2>11, <2>12, <2>13 DEF AlertTypeOK, Cycles
    <2>15. CycleInOrder'
      BY <1>t, <1>l, <2>6, <2>7, <2>8, <2>9, <2>11 DEF CycleInOrder, AlertTypeOK
    <2> QED BY <2>14, <2>15 DEF AlertIInv
  <1>9. CASE UNCHANGED alertVars
    BY <1>t, <1>9 DEF alertVars, AlertIInv, AlertTypeOK, CycleInOrder
  <1> QED BY <1>1, <1>2, <1>3, <1>4, <1>5, <1>6, <1>7, <1>8, <1>9 DEF AlertNext

\* The samples that are kept, and the alerts, have their types, however refreshes and minutes mix.
THEOREM AlertTypesHold == AlertSpec => []AlertTypeOK
  <1>1. AlertIInv => AlertTypeOK BY DEF AlertIInv
  <1> QED BY AlertStarts, AlertStep, <1>1, PTL DEF AlertSpec

\* Each part of a host does what it does alone.
LEMMA HostPartsAlone == HostSpec => AlertSpec /\ NodeSpec
  <1>1. HostInit => AlertInit /\ NodeInit BY DEF HostInit
  <1>2. [HostNext]_<<alertVars, nodeVars>> => [AlertNext]_alertVars /\ [NodeNext]_nodeVars
    <2> SUFFICES ASSUME [HostNext]_<<alertVars, nodeVars>>
                 PROVE  [AlertNext]_alertVars /\ [NodeNext]_nodeVars
      OBVIOUS
    <2>1. CASE AlertNext /\ UNCHANGED nodeVars BY <2>1
    <2>2. CASE NodeNext /\ UNCHANGED alertVars BY <2>2
    <2>3. CASE UNCHANGED <<alertVars, nodeVars>> BY <2>3
    <2> QED BY <2>1, <2>2, <2>3 DEF HostNext
  <1> QED BY <1>1, <1>2, PTL DEF HostSpec, AlertSpec, NodeSpec

\* The types and shapes of a host's alerts and of its node, at the panel, at Wings and in requests.
THEOREM HostTypesHold == HostSpec => []HostTypeOK
  <1>1. NodeIInv => NodeTypeOK BY DEF NodeIInv
  <1>2. AlertTypeOK /\ NodeTypeOK => HostTypeOK BY DEF HostTypeOK
  <1> QED BY <1>1, <1>2, HostPartsAlone, AlertTypesHold, NodeInvariant, PTL
===============================================================================
