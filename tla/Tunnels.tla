-------------------------------- MODULE Tunnels --------------------------------
(***************************************************************************)
(* Cloudflare tunnels of one host: the tunnel itself with its connector    *)
(* on the host, and the servers' public hostnames, each a DNS record at    *)
(* Cloudflare, a row here and a rule of the tunnel's ingress.  Every       *)
(* request works on both sides in turn, and either side may fail.          *)
(***************************************************************************)
EXTENDS Integers, FiniteSets

CONSTANTS
    Servers,
    Labels,        \* subdomains
    Requests,      \* concurrent requests of customers and administrators
    Deleter,       \* the deletion of servers
    None, Gone,
    MaxRecords,    \* DNS records ever created
    MaxTunnels,    \* tunnels ever created
    MaxRequests, MaxCrashes

Zones == {1, 2}
Hostnames == Labels \X Zones

ASSUME TunnelAssumption ==
    /\ {None, Gone} \cap (Servers \cup Hostnames) = {} /\ None # Gone /\ Deleter \notin Requests
    /\ {MaxRecords, MaxTunnels} \subseteq Nat \ {0}
    /\ {MaxRequests, MaxCrashes} \subseteq Nat

VARIABLES
    host,      \* manager_host_tunnels: the row of the host
    row,       \* manager_server_tunnels: at most one row for each server
    exists,    \* servers that are not deleted
    orphans,   \* manager_orphan_resources
    dns,       \* Cloudflare: the records by their ids
    tunnels,   \* Cloudflare: the tunnels of the host's name by their ids
    ingress,   \* Cloudflare: what the tunnel serves, hostnames with their servers
    connector, \* the tunnel that cloudflared runs on the host, 0 for none
    op,
    requests, crashes,
    excused,   \* records that the code leaves at Cloudflare without a trace
    disturbed  \* there was a restart, the account was rebound, or two pushes overlapped

cloudflare == <<dns, tunnels, ingress, connector>>
tunnelVars == <<host, row, exists, orphans, cloudflare, op, requests, crashes, excused, disturbed>>

Records == 1..MaxRecords
Actors == Requests \cup {Deleter}
Row == [st : {"none", "active", "failed"}, id : 0..MaxRecords,
        name : Hostnames \cup {None}, rec : 0..MaxRecords]
NoRow == [st |-> "none", id |-> 0, name |-> None, rec |-> 0]
HostRow == [bound : BOOLEAN, zone : Zones, tid : 0..MaxTunnels]
Kinds == {"none", "enable", "change", "disable", "hook", "install", "uninstall", "sync"}
Steps == {"idle", "dns", "save", "undo", "olddns", "snapshot", "put", "mark", "deldns", "delrow",
          "drop", "create", "collide", "persist", "agent", "stop", "deltunnel", "delhost"}
Op == [kind : Kinds, s : Servers \cup {None}, pc : Steps,
       name : Hostnames \cup {None},   \* the hostname asked for
       rec : 0..MaxRecords,            \* the record created, or to be deleted
       old : Row,                      \* the row that was read
       rules : SUBSET (Hostnames \X Servers),
       zone : Zones, tid : 0..MaxTunnels,  \* of the host's row, as read
       failed : BOOLEAN]
NoOp == [kind |-> "none", s |-> None, pc |-> "idle", name |-> None, rec |-> 0, old |-> NoRow,
         rules |-> {}, zone |-> 1, tid |-> 0, failed |-> FALSE]

Present(s) == row[s].st # "none"
Live(rec) == rec # 0 /\ dns[rec] \notin {None, Gone}
Alive(tid) == tid # 0 /\ tunnels[tid] = "alive"
\* Seeded defect: the hostnames' uniqueness is not enforced.
SharedNames(name, s) == FALSE

Claimed(name, s) == \E t \in Servers \ {s} : row[t].name = name

TunnelTypeOK ==
    /\ host \in HostRow /\ row \in [Servers -> Row] /\ exists \subseteq Servers
    /\ orphans \subseteq {"dns", "tunnel"} \X Nat
    /\ dns \in [Records -> Hostnames \cup {None, Gone}]
    /\ tunnels \in [1..MaxTunnels -> {"unused", "alive", "gone"}]
    /\ ingress \subseteq Hostnames \X Servers
    /\ connector \in 0..MaxTunnels
    /\ op \in [Actors -> Op]
    /\ requests \in 0..MaxRequests /\ crashes \in 0..MaxCrashes
    /\ excused \subseteq Records /\ disturbed \in BOOLEAN
    /\ \A s, t \in Servers : s # t /\ Present(s) /\ Present(t) => row[s].name # row[t].name
    /\ host.tid # 0 \/ (\E s \in Servers : Present(s)) => host.bound

\* The host has no account yet, or its tunnel is installed and no server uses it.
TunnelInit ==
    /\ \/ /\ host = [bound |-> FALSE, zone |-> 1, tid |-> 0]
          /\ tunnels = [t \in 1..MaxTunnels |-> "unused"] /\ connector = 0
       \/ /\ host = [bound |-> TRUE, zone |-> 1, tid |-> 1]
          /\ tunnels = [t \in 1..MaxTunnels |-> IF t = 1 THEN "alive" ELSE "unused"]
          /\ connector = 1
    /\ row = [s \in Servers |-> NoRow] /\ exists = Servers
    /\ orphans = {} /\ ingress = {} /\ excused = {} /\ disturbed = FALSE
    /\ dns = [r \in Records |-> None]
    /\ op = [a \in Actors |-> NoOp]
    /\ requests = 0 /\ crashes = 0

At(a, pc) == op[a].pc = pc
Finish(a) == op' = [op EXCEPT ![a] = NoOp]
Goto(a, pc) == op' = [op EXCEPT ![a].pc = pc]
Call(kind, s, pc) == [NoOp EXCEPT !.kind = kind, !.s = s, !.pc = pc, !.zone = host.zone,
                                  !.tid = host.tid]
Begin(a, call) == op' = [op EXCEPT ![a] = call]

-------------------------------------------------------------------------------
(***************************************************************************)
(* Cloudflare's answers.  A call succeeds, or it fails, having had its     *)
(* effect or not.                                                          *)
(***************************************************************************)

\* A deletion with the credentials of another zone finds nothing and counts as done.
Reaches(rec, zone) == Live(rec) /\ dns[rec][2] = zone
Deleted(rec, zone) == IF Reaches(rec, zone) THEN [dns EXCEPT ![rec] = Gone] ELSE dns
Missed(rec, zone) == IF Live(rec) /\ ~Reaches(rec, zone) THEN {rec} ELSE {}

NextRecord == {rec \in Records : dns[rec] = None /\ \A q \in 1..(rec - 1) : dns[q] # None}
NextTunnel == {t \in 1..MaxTunnels : tunnels[t] = "unused" /\ \A q \in 1..(t - 1) : tunnels[q] # "unused"}

\* Cloudflare refuses a second record of a name.
CreateDnsRecord(a) ==
    LET name == op[a].name IN
    /\ At(a, "dns")
    /\ \/ \E rec \in NextRecord :
            /\ \A q \in Records : dns[q] # name
            /\ dns' = [dns EXCEPT ![rec] = name]
            /\ \/ op' = [op EXCEPT ![a].pc = "save", ![a].rec = rec] /\ UNCHANGED excused
               \/ Finish(a) /\ excused' = excused \cup {rec}
       \/ Finish(a) /\ UNCHANGED <<dns, excused>>
    /\ UNCHANGED <<host, row, exists, orphans, tunnels, ingress, connector, requests, crashes,
                   disturbed>>

-------------------------------------------------------------------------------
(***************************************************************************)
(* Servers' hostnames: the record first, then the row, then the ingress.   *)
(***************************************************************************)

Enable(r, s, label) ==
    LET name == <<label, host.zone>> IN
    /\ s \in exists /\ host.tid # 0
    /\ \/ /\ row[s].st = "active"
          /\ Begin(r, [Call("enable", s, "snapshot") EXCEPT !.rec = row[s].rec, !.old = row[s]])
       \/ /\ row[s].st # "active" /\ ~Claimed(name, s)
          /\ Begin(r, [Call("enable", s, "dns") EXCEPT !.name = name, !.old = row[s]])
    /\ UNCHANGED <<host, row, exists, orphans, cloudflare, crashes, excused, disturbed>>

ChangeSubdomain(r, s, label) ==
    LET name == <<label, host.zone>> IN
    /\ s \in exists /\ host.tid # 0 /\ row[s].st \in {"active", "failed"}
    /\ ~Claimed(name, s)
    /\ Begin(r, [Call("change", s, IF name = row[s].name THEN "snapshot" ELSE "dns")
                    EXCEPT !.name = name, !.old = row[s]])
    /\ UNCHANGED <<host, row, exists, orphans, cloudflare, crashes, excused, disturbed>>

\* The row that was read is still there.
SameRow(a) == row[op[a].s].id = op[a].old.id /\ Present(op[a].s)

InsertRow(a) ==
    LET s == op[a].s IN
    /\ At(a, "save") /\ op[a].old.st = "none"
    /\ IF Present(s) \/ Claimed(op[a].name, s) \/ ~host.bound
       THEN Goto(a, "undo") /\ row' = row
       ELSE /\ row' = [row EXCEPT ![s] = [st |-> "active", id |-> op[a].rec, name |-> op[a].name,
                                          rec |-> op[a].rec]]
            /\ op' = [op EXCEPT ![a].pc = "snapshot", ![a].old = row'[s]]
    /\ UNCHANGED <<host, exists, orphans, cloudflare, requests, crashes, excused, disturbed>>

\* An enabled row keeps no account of the record it had; a changed one deletes it next.
UpdateRow(a) ==
    LET s == op[a].s
        forgotten == IF op[a].kind = "enable" \/ row[s].rec # op[a].old.rec THEN {row[s].rec} ELSE {}
    IN
    /\ At(a, "save") /\ op[a].old.st # "none"
    /\ CASE ~SameRow(a) -> Finish(a) /\ excused' = excused \cup {op[a].rec} /\ row' = row
         [] SameRow(a) /\ Claimed(op[a].name, s) ->
                /\ IF op[a].kind = "change" THEN Goto(a, "undo") /\ UNCHANGED excused
                   ELSE Finish(a) /\ excused' = excused \cup {op[a].rec}
                /\ row' = row
         [] OTHER ->
                /\ row' = [row EXCEPT ![s].st = "active", ![s].name = op[a].name,
                                      ![s].rec = op[a].rec]
                /\ Goto(a, IF op[a].kind = "change" THEN "olddns" ELSE "snapshot")
                /\ excused' = excused \cup forgotten
    /\ UNCHANGED <<host, exists, orphans, cloudflare, requests, crashes, disturbed>>

\* The name was taken meanwhile.  A change records what it cannot take back, enabling does not.
UndoRecord(a) ==
    LET rec == op[a].rec IN
    /\ At(a, "undo")
    /\ \/ dns' = Deleted(rec, op[a].zone) /\ UNCHANGED <<orphans, excused>>
       \/ /\ dns' \in {dns, Deleted(rec, op[a].zone)}
          /\ IF op[a].kind = "change"
             THEN orphans' = orphans \cup {<<"dns", rec>>} /\ UNCHANGED excused
             ELSE excused' = excused \cup {rec} /\ UNCHANGED orphans
    /\ Finish(a)
    /\ UNCHANGED <<host, row, exists, tunnels, ingress, connector, requests, crashes, disturbed>>

\* Seeded defect: a record that could not be deleted is not listed.
ForgottenOrphan(rec) == orphans' = orphans
RecordOrphanDns(rec) == orphans' = orphans \cup {<<"dns", rec>>}

DeleteOldRecord(a) ==
    LET rec == op[a].old.rec IN
    /\ At(a, "olddns")
    /\ \/ /\ dns' = Deleted(rec, op[a].zone)
          /\ excused' = excused \cup Missed(rec, op[a].zone) /\ UNCHANGED orphans
       \/ /\ dns' \in {dns, Deleted(rec, op[a].zone)}
          /\ RecordOrphanDns(rec) /\ UNCHANGED excused
    /\ Goto(a, "snapshot")
    /\ UNCHANGED <<host, row, exists, tunnels, ingress, connector, requests, crashes, disturbed>>

BuildIngress == {<<row[s].name, s>> : s \in {t \in Servers : row[t].st = "active"}}

SnapshotRules(a) ==
    /\ At(a, "snapshot")
    /\ op' = [op EXCEPT ![a].pc = "put", ![a].rules = BuildIngress]
    /\ disturbed' = (disturbed \/ \E b \in Actors \ {a} : At(b, "put"))
    /\ UNCHANGED <<host, row, exists, orphans, cloudflare, requests, crashes, excused>>

\* Seeded defect: an enabling whose push failed stays active.
KeptAfterPush(a) ==
    IF host.bound /\ op[a].kind = "change" THEN op' = [op EXCEPT ![a].pc = "mark", ![a].rules = {}]
    ELSE Finish(a)

\* A push that failed: enabling is rolled back, a change is marked.
AfterFailedPush(a) ==
    CASE ~host.bound -> Finish(a)
      [] host.bound /\ op[a].kind = "enable" ->
            op' = [op EXCEPT ![a].pc = "deldns", ![a].rules = {}]
      [] host.bound /\ op[a].kind = "change" ->
            op' = [op EXCEPT ![a].pc = "mark", ![a].rules = {}]
      [] OTHER -> Finish(a)

PushRemoteIngress(a) ==
    /\ At(a, "put")
    /\ \/ Alive(op[a].tid) /\ ingress' = op[a].rules /\ Finish(a)
       \/ /\ ingress' = ingress \/ (Alive(op[a].tid) /\ ingress' = op[a].rules)
          /\ AfterFailedPush(a)
    /\ UNCHANGED <<host, row, exists, orphans, dns, tunnels, connector, requests, crashes, excused,
                   disturbed>>

MarkFailed(a) ==
    /\ At(a, "mark")
    /\ row' = IF SameRow(a) THEN [row EXCEPT ![op[a].s].st = "failed"] ELSE row
    /\ Finish(a)
    /\ UNCHANGED <<host, exists, orphans, cloudflare, requests, crashes, excused, disturbed>>

-------------------------------------------------------------------------------
(* disable_server_tunnel, also the way back of an enabling and the hook of a deletion *)

Disable(r, s) ==
    /\ s \in exists /\ host.bound /\ Present(s)
    /\ Begin(r, [Call("disable", s, "deldns") EXCEPT !.rec = row[s].rec, !.old = row[s]])
    /\ UNCHANGED <<host, row, exists, orphans, cloudflare, crashes, excused, disturbed>>

OnServerPreDelete(s) ==
    /\ op[Deleter] = NoOp /\ s \in exists
    /\ Begin(Deleter, [Call("hook", s, IF Present(s) THEN "deldns" ELSE "drop")
                        EXCEPT !.rec = row[s].rec, !.old = row[s]])
    /\ UNCHANGED <<host, row, exists, orphans, cloudflare, requests, crashes, excused, disturbed>>

DeleteDnsRecord(a) ==
    LET rec == op[a].rec IN
    /\ At(a, "deldns")
    /\ \/ /\ dns' = Deleted(rec, op[a].zone)
          /\ excused' = excused \cup Missed(rec, op[a].zone)
          /\ Goto(a, "delrow")
       \/ /\ dns' \in {dns, Deleted(rec, op[a].zone)}
          /\ UNCHANGED excused
          /\ op' = [op EXCEPT ![a].pc = "delrow", ![a].failed = TRUE]
    /\ UNCHANGED <<host, row, exists, orphans, tunnels, ingress, connector, requests, crashes,
                   disturbed>>

AfterRow(a) ==
    CASE op[a].kind = "disable" -> Begin(a, Call("disable", op[a].s, "snapshot"))
      [] op[a].kind = "hook"    -> Begin(a, Call("hook", op[a].s, "drop"))
      [] OTHER                  -> Finish(a)

DeleteRow(a) ==
    LET s == op[a].s IN
    /\ At(a, "delrow")
    /\ IF op[a].failed THEN RecordOrphanDns(op[a].rec) ELSE UNCHANGED orphans
    /\ IF SameRow(a)
       THEN /\ row' = [row EXCEPT ![s] = NoRow]
            /\ excused' = IF row[s].rec = op[a].rec THEN excused ELSE excused \cup {row[s].rec}
       ELSE UNCHANGED <<row, excused>>
    /\ AfterRow(a)
    /\ UNCHANGED <<host, exists, cloudflare, requests, crashes, disturbed>>

\* The deletion of the server itself goes through or not.
DropServer(a) ==
    /\ At(a, "drop")
    /\ exists' \in {exists, exists \ {op[a].s}}
    /\ Finish(a)
    /\ UNCHANGED <<host, row, orphans, cloudflare, requests, crashes, excused, disturbed>>

-------------------------------------------------------------------------------
(* The tunnel of the host *)

\* Other credentials for the same account change nothing; another account forgets the tunnel.
BindAccount(zone) ==
    /\ zone # host.zone \/ ~host.bound
    /\ host' = [bound |-> TRUE, zone |-> zone, tid |-> 0]
    /\ excused' = excused \cup {row[s].rec : s \in {t \in Servers : Present(t)}}
    /\ disturbed' = (disturbed \/ host.bound)
    /\ UNCHANGED <<row, exists, orphans, cloudflare, op, crashes>>

Install(r) ==
    /\ host.bound
    /\ Begin(r, Call("install", None, IF host.tid = 0 THEN "create" ELSE "agent"))
    /\ UNCHANGED <<host, row, exists, orphans, cloudflare, crashes, excused, disturbed>>

\* A name has one tunnel; an answer that is lost looks like a name that is taken.
CreateTunnel(a) ==
    /\ At(a, "create")
    /\ \/ \E t \in NextTunnel :
            /\ \A q \in DOMAIN tunnels : tunnels[q] # "alive"
            /\ tunnels' = [tunnels EXCEPT ![t] = "alive"] /\ ingress' = {}
            /\ \/ op' = [op EXCEPT ![a].pc = "persist", ![a].tid = t]
               \/ Goto(a, "collide")
       \/ Goto(a, "collide") /\ UNCHANGED <<tunnels, ingress>>
    /\ UNCHANGED <<host, row, exists, orphans, dns, connector, requests, crashes, excused,
                   disturbed>>

\* What has the name is deleted, unless it is connected or cannot be listed.
DeleteStaleTunnel(a) ==
    /\ At(a, "collide")
    /\ \/ \E t \in {q \in DOMAIN tunnels : tunnels[q] = "alive"} :
            \/ /\ connector # t
               /\ tunnels' = [tunnels EXCEPT ![t] = "gone"] /\ ingress' = {}
               /\ UNCHANGED orphans
            \/ orphans' = orphans \cup {<<"tunnel", t>>} /\ UNCHANGED <<tunnels, ingress>>
       \/ UNCHANGED <<tunnels, ingress, orphans>>
    /\ Finish(a)
    /\ UNCHANGED <<host, row, exists, dns, connector, requests, crashes, excused, disturbed>>

PersistTunnel(a) ==
    /\ At(a, "persist")
    /\ IF host.bound THEN host' = [host EXCEPT !.tid = op[a].tid] /\ Goto(a, "agent")
       ELSE Finish(a) /\ host' = host
    /\ UNCHANGED <<row, exists, orphans, cloudflare, requests, crashes, excused, disturbed>>

\* cloudflared is set up, configured, enabled and seen running, or one of these fails.
StartConnector(a) ==
    /\ At(a, "agent")
    /\ \/ connector' = op[a].tid /\ Goto(a, "snapshot")
       \/ connector' \in {connector, op[a].tid} /\ Finish(a)
    /\ UNCHANGED <<host, row, exists, orphans, dns, tunnels, ingress, requests, crashes, excused,
                   disturbed>>

SyncTunnel(r) ==
    /\ host.tid # 0 /\ connector # 0
    /\ Begin(r, Call("sync", None, "snapshot"))
    /\ UNCHANGED <<host, row, exists, orphans, cloudflare, crashes, excused, disturbed>>

Uninstall(r, force) ==
    /\ host.bound
    /\ force \/ \A s \in Servers : row[s].st # "active"
    /\ Begin(r, Call("uninstall", None, "stop"))
    /\ UNCHANGED <<host, row, exists, orphans, cloudflare, crashes, excused, disturbed>>

StopConnector(a) ==
    /\ At(a, "stop")
    /\ connector' \in {0, connector}
    /\ IF host.bound THEN op' = [op EXCEPT ![a].pc = "deltunnel", ![a].tid = host.tid]
       ELSE Finish(a)
    /\ UNCHANGED <<host, row, exists, orphans, dns, tunnels, ingress, requests, crashes, excused,
                   disturbed>>

TunnelDeleted(t) ==
    /\ connector # t
    /\ tunnels' = IF Alive(t) THEN [tunnels EXCEPT ![t] = "gone"] ELSE tunnels
    /\ ingress' = IF Alive(t) THEN {} ELSE ingress

FinalizeUninstall(a) ==
    LET t == op[a].tid IN
    /\ At(a, "deltunnel")
    /\ \/ t = 0 /\ Goto(a, "delhost") /\ UNCHANGED <<tunnels, ingress, orphans>>
       \/ t # 0 /\ TunnelDeleted(t) /\ Goto(a, "delhost") /\ UNCHANGED orphans
       \/ /\ t # 0
          /\ TunnelDeleted(t) \/ UNCHANGED <<tunnels, ingress>>
          /\ orphans' = orphans \cup {<<"tunnel", t>>}
          /\ Finish(a)
    /\ UNCHANGED <<host, row, exists, dns, connector, requests, crashes, excused, disturbed>>

\* The servers' rows go with the host's, and their records stay behind.
DeleteHostRow(a) ==
    /\ At(a, "delhost")
    /\ host' = [bound |-> FALSE, zone |-> 1, tid |-> 0]
    /\ row' = [s \in Servers |-> NoRow]
    /\ excused' = excused \cup {row[s].rec : s \in {t \in Servers : Present(t)}}
    /\ Finish(a)
    /\ UNCHANGED <<exists, orphans, cloudflare, requests, crashes, disturbed>>

-------------------------------------------------------------------------------

StartRequest(r) ==
    /\ requests < MaxRequests /\ requests' = requests + 1
    /\ op[r] = NoOp
    /\ \/ \E s \in Servers, label \in Labels : Enable(r, s, label) \/ ChangeSubdomain(r, s, label)
       \/ \E s \in Servers : Disable(r, s)
       \/ \E zone \in Zones : BindAccount(zone)
       \/ Install(r) \/ SyncTunnel(r)
       \/ \E force \in BOOLEAN : Uninstall(r, force)

Proceed(a) ==
    \/ CreateDnsRecord(a) \/ InsertRow(a) \/ UpdateRow(a) \/ UndoRecord(a) \/ DeleteOldRecord(a)
    \/ SnapshotRules(a) \/ PushRemoteIngress(a) \/ MarkFailed(a)
    \/ DeleteDnsRecord(a) \/ DeleteRow(a) \/ DropServer(a)
    \/ CreateTunnel(a) \/ DeleteStaleTunnel(a) \/ PersistTunnel(a) \/ StartConnector(a)
    \/ StopConnector(a) \/ FinalizeUninstall(a) \/ DeleteHostRow(a)

InFlight == {op[a].rec : a \in Actors} \cup {op[a].old.rec : a \in Actors}

Crash ==
    /\ crashes < MaxCrashes /\ op # [a \in Actors |-> NoOp]
    /\ crashes' = crashes + 1
    /\ op' = [a \in Actors |-> NoOp]
    /\ excused' = excused \cup (InFlight \ {0})
    /\ disturbed' = TRUE
    /\ UNCHANGED <<host, row, exists, orphans, cloudflare, requests>>

TunnelNext ==
    \/ \E r \in Requests : StartRequest(r)
    \/ \E s \in Servers : OnServerPreDelete(s)
    \/ \E a \in Actors : Proceed(a)
    \/ Crash

TunnelSpec == TunnelInit /\ [][TunnelNext]_tunnelVars

-------------------------------------------------------------------------------
Quiet == op = [a \in Actors |-> NoOp]

\* When nothing is under way, every active row has its rule at Cloudflare: an enabling whose push
\* fails is taken back (user_servers_tunnel.py enable_server_tunnel, dispatcher.py).
ActiveRouted == Quiet /\ ~disturbed /\ Alive(host.tid) => BuildIngress \subseteq ingress

\* A record at Cloudflare belongs to a row, to a request under way or to the list of orphans, but
\* for the cases the code forgets (dispatcher.py _record_orphan_dns).
LeftoversKnown ==
    \A rec \in Records : Live(rec) =>
        \/ \E s \in Servers : row[s].rec = rec
        \/ rec \in InFlight \/ <<"dns", rec>> \in orphans \/ rec \in excused
===============================================================================
