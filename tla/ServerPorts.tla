------------------------------ MODULE ServerPorts ------------------------------
(***************************************************************************)
(* The ports of one node and the servers that use them: a port points to   *)
(* its server, a server to its primary port.  Orders take free ports under *)
(* a row lock; administrators read, write and then have Wings fetch the    *)
(* server's configuration, and take their change back when it does not.    *)
(***************************************************************************)
EXTENDS Integers, FiniteSets, FiniteSetsExt

CONSTANTS
    PortServers,
    Ports,         \* ids of allocations
    Configs,       \* eggs, images, start-up commands and variables
    Limits,        \* values of allocation_limit
    Orders,        \* concurrent orders of servers
    Admins,        \* concurrent requests of administrators
    NoOne, NoLimit, Absent,
    MaxPortRequests, MaxPortRestarts

ASSUME PortAssumption ==
    /\ Ports \subseteq Nat \ {0} /\ IsFiniteSet(Ports) /\ Configs # {}
    /\ NoOne \notin PortServers /\ NoLimit \notin Limits /\ Orders \cap Admins = {}
    /\ {MaxPortRequests, MaxPortRestarts} \subseteq Nat

VARIABLES
    port,      \* allocations, each with its server
    primary,   \* servers.allocation_id, 0 for a server that is not there
    config, limit,
    wings,     \* what Wings fetched last of each server
    job,       \* the requests under way
    adrift,    \* servers whose last change Wings may have seen or missed
    begun      \* requests and restarts so far

portVars == <<port, primary, config, limit, wings, job, adrift, begun>>

Placers == Orders \cup Admins
PortRow == [there : BOOLEAN, owner : PortServers \cup {NoOne}]
WingsCopy == [ports : SUBSET Ports, primary : Ports, config : Configs]
JobKinds == {"none", "place", "create", "add", "remove", "primary", "config", "build", "delete"}
Job == [kind : JobKinds, s : PortServers \cup {NoOne}, pc : {"idle", "write", "wings", "restore", "revert"},
        first : {0} \cup Ports,             \* the primary port asked for
        more : SUBSET Ports,                \* further ports
        to : Configs \cup Limits \cup {NoLimit},
        was : [owners : [Ports -> PortServers \cup {NoOne}], primary : {0} \cup Ports,
               config : Configs, limit : Limits \cup {NoLimit}]] \* as read

FirstConfig == CHOOSE c \in Configs : TRUE
Idle == [kind |-> "none", s |-> NoOne, pc |-> "idle", first |-> 0, more |-> {}, to |-> NoLimit,
         was |-> [owners |-> [p \in Ports |-> NoOne], primary |-> 0, config |-> FirstConfig,
                  limit |-> NoLimit]]

Placed(s) == primary[s] # 0
PortsOf(s) == {p \in Ports : port[p].there /\ port[p].owner = s}
View(s) == [ports |-> PortsOf(s), primary |-> primary[s], config |-> config[s]]
Rows(P) == \A p \in P : port[p].there
\* Rows that an order holds FOR UPDATE.
LockedBy(a) == IF a \in Orders /\ job[a].pc = "write" THEN {job[a].first} \cup job[a].more ELSE {}
Locked(a) == UNION {LockedBy(b) : b \in Placers \ {a}}
Resting(s) == \A a \in Placers : job[a].s # s

PortTypeOK ==
    /\ port \in [Ports -> PortRow] /\ primary \in [PortServers -> {0} \cup Ports]
    /\ config \in [PortServers -> Configs] /\ limit \in [PortServers -> Limits \cup {NoLimit}]
    /\ wings \in [PortServers -> WingsCopy \cup {Absent}]
    /\ job \in [Placers -> Job]
    /\ adrift \subseteq PortServers
    /\ begun \in [requests : 0..MaxPortRequests, restarts : 0..MaxPortRestarts]
    /\ \A s, t \in PortServers : s # t /\ Placed(s) => primary[s] # primary[t]
    /\ \A p \in Ports : port[p].owner # NoOne => port[p].there /\ Placed(port[p].owner)
    /\ \A s \in PortServers : Placed(s) => port[primary[s]].there

PortInit ==
    /\ port = [p \in Ports |-> [there |-> TRUE, owner |-> NoOne]]
    /\ primary = [s \in PortServers |-> 0]
    /\ config = [s \in PortServers |-> FirstConfig]
    /\ limit = [s \in PortServers |-> NoLimit]
    /\ wings = [s \in PortServers |-> Absent]
    /\ job = [a \in Placers |-> Idle]
    /\ adrift = {}
    /\ begun = [requests |-> 0, restarts |-> 0]

Step(a, pc) == job' = [job EXCEPT ![a].pc = pc]
Ends(a) == job' = [job EXCEPT ![a] = Idle]
Starts(a, kind, s, first, more, to) ==
    /\ job[a] = Idle
    /\ begun.requests < MaxPortRequests /\ begun' = [begun EXCEPT !.requests = @ + 1]
    /\ job' = [job EXCEPT ![a] =
                 [kind |-> kind, s |-> s, pc |-> "write", first |-> first, more |-> more, to |-> to,
                  was |-> [owners |-> [p \in Ports |-> port[p].owner], primary |-> primary[s],
                           config |-> config[s], limit |-> limit[s]]]]
    /\ UNCHANGED <<port, primary, config, limit, wings, adrift>>

-------------------------------------------------------------------------------
(* Creating servers *)

Free(a) == {p \in Ports : port[p].there /\ port[p].owner = NoOne /\ p \notin Locked(a)}

\* The lowest free port whose row no other transaction holds.  An order's own lock does not keep
\* the row from being found again, so its further ports are this one.
FindAvailableAllocation(a) == Min(Free(a))
FurtherPorts(a, n) == IF n > 1 THEN {FindAvailableAllocation(a)} ELSE {}

CreatePlaceholder(a, s, n) ==
    /\ ~Placed(s) /\ Resting(s) /\ Free(a) # {}
    /\ Starts(a, "place", s, FindAvailableAllocation(a), FurtherPorts(a, n), n)

\* An administrator names the ports, and they are free when they are read.
AdminCreate(a, s, first, more) ==
    /\ ~Placed(s) /\ Resting(s)
    /\ Rows({first} \cup more) /\ \A p \in {first} \cup more : port[p].owner = NoOne
    /\ Starts(a, "create", s, first, more, NoLimit)

\* The index on the primary port refuses a second server; nothing refuses a further port.
InsertServer(a) ==
    LET s == job[a].s
        mine == {job[a].first} \cup job[a].more IN
    /\ job[a].kind \in {"place", "create"} /\ job[a].pc = "write"
    /\ mine \cap Locked(a) = {}
    /\ IF (\E t \in PortServers : primary[t] = job[a].first) \/ ~Rows(mine) \/ Placed(s)
       THEN Ends(a) /\ UNCHANGED <<port, primary, limit>>
       ELSE /\ primary' = [primary EXCEPT ![s] = job[a].first]
            /\ port' = [p \in Ports |-> IF p \in mine THEN [port[p] EXCEPT !.owner = s] ELSE port[p]]
            /\ limit' = [limit EXCEPT ![s] = job[a].to]
            /\ Step(a, "wings")
    /\ UNCHANGED <<config, wings, adrift, begun>>

\* An administrator's server goes again when Wings refuses it; an order's stays for another try.
CreateAtWings(a) ==
    LET s == job[a].s IN
    /\ job[a].kind \in {"place", "create"} /\ job[a].pc = "wings"
    /\ \/ wings' = [wings EXCEPT ![s] = IF Placed(s) THEN View(s) ELSE Absent]
          /\ Ends(a) /\ adrift' = adrift
       \/ /\ wings' \in {wings, [wings EXCEPT ![s] = View(s)]} /\ Placed(s)
          /\ adrift' = adrift \cup {s}
          /\ IF job[a].kind = "create" THEN Step(a, "revert") ELSE Ends(a)
    /\ UNCHANGED <<port, primary, config, limit, begun>>

\* The database lets the ports go with their server; another server is a new one to Wings.
Released(s) ==
    /\ primary' = [primary EXCEPT ![s] = 0]
    /\ port' = [p \in Ports |-> IF port[p].owner = s THEN [port[p] EXCEPT !.owner = NoOne] ELSE port[p]]
    /\ limit' = [limit EXCEPT ![s] = NoLimit] /\ config' = [config EXCEPT ![s] = FirstConfig]

DeleteServerRow(a) ==
    LET s == job[a].s IN
    /\ job[a].pc = "revert" \/ (job[a].kind = "delete" /\ job[a].pc = "write")
    /\ Released(s)
    /\ wings' = [wings EXCEPT ![s] = Absent]
    /\ adrift' = adrift \ {s}
    /\ Ends(a)
    /\ UNCHANGED begun

DeletePlaced(a, s) == Placed(s) /\ Starts(a, "delete", s, 0, {}, NoLimit)

-------------------------------------------------------------------------------
(* Changing servers *)

Usable(s, p) == port[p].there /\ port[p].owner \in {NoOne, s}

AddAllocations(a, s, P) ==
    Placed(s) /\ (\A p \in P : Usable(s, p)) /\ Starts(a, "add", s, 0, P, NoLimit)

\* Seeded defect: the primary port can be removed like any other.
RemoveAny(a, s, p) == Placed(s) /\ port[p].owner = s /\ Starts(a, "remove", s, 0, {p}, NoLimit)

RemoveAllocation(a, s, p) ==
    /\ Placed(s) /\ primary[s] # p /\ port[p].owner = s
    /\ Starts(a, "remove", s, 0, {p}, NoLimit)

SetPrimaryAllocation(a, s, p) ==
    Placed(s) /\ Usable(s, p) /\ Starts(a, "primary", s, p, {p}, NoLimit)

UpdateConfig(a, s, c) == Placed(s) /\ Starts(a, "config", s, 0, {}, c)

UpdateBuild(a, s, n) == Placed(s) /\ Starts(a, "build", s, 0, {}, n)

NewOwner(a) == IF job[a].kind = "remove" THEN NoOne ELSE job[a].s
\* Only what differs from what was read is written.
Written(a) == {p \in job[a].more : job[a].was.owners[p] # NewOwner(a)}
Reowned(P, owner) == port' = [p \in Ports |-> IF p \in P THEN [port[p] EXCEPT !.owner = owner] ELSE port[p]]

\* The foreign key, and the index Pterodactyl's schema has on the primary port.
Refused(s, p) == ~Rows({p}) \/ \E t \in PortServers \ {s} : primary[t] = p

CommitChange(a) ==
    LET s == job[a].s IN
    /\ job[a].kind \in {"add", "remove", "primary", "config", "build"} /\ job[a].pc = "write"
    /\ Written(a) \cap Locked(a) = {}
    /\ IF ~Placed(s) \/ ~Rows(Written(a)) \/ (job[a].kind = "primary" /\ Refused(s, job[a].first))
       THEN Ends(a) /\ UNCHANGED <<port, primary, config, limit>>
       ELSE /\ Reowned(Written(a), NewOwner(a))
            /\ primary' = IF job[a].kind = "primary" THEN [primary EXCEPT ![s] = job[a].first] ELSE primary
            /\ config' = IF job[a].kind = "config" THEN [config EXCEPT ![s] = job[a].to] ELSE config
            /\ limit' = IF job[a].kind = "build" THEN [limit EXCEPT ![s] = job[a].to] ELSE limit
            /\ Step(a, "wings")
    /\ UNCHANGED <<wings, adrift, begun>>

\* Wings fetches the server as it is; when the call fails it may have fetched it all the same.
SyncServer(a) ==
    LET s == job[a].s IN
    /\ job[a].kind \in {"add", "remove", "primary", "config", "build"} /\ job[a].pc = "wings"
    /\ \/ /\ Placed(s) /\ wings[s] # Absent
          /\ wings' = [wings EXCEPT ![s] = View(s)] /\ adrift' = adrift \ {s}
          /\ Ends(a)
       \/ /\ Placed(s) /\ wings[s] # Absent
          /\ wings' = [wings EXCEPT ![s] = View(s)] /\ adrift' = adrift \cup {s}
          /\ Step(a, "restore")
       \/ UNCHANGED <<wings, adrift>> /\ Step(a, "restore")
    /\ UNCHANGED <<port, primary, config, limit, begun>>

\* A limit that was not set is not set again: no value means no change.
PreviousLimit(a) == IF job[a].was.limit = NoLimit THEN limit[job[a].s] ELSE job[a].was.limit

\* A restore that the database refuses is given up.
Restore(a) ==
    LET s == job[a].s
        was == job[a].was
        back == {p \in Written(a) : port[p].there} IN
    /\ job[a].pc = "restore" /\ Written(a) \cap Locked(a) = {}
    /\ IF (~Placed(s) /\ \E p \in back : was.owners[p] # NoOne)
          \/ (Placed(s) /\ job[a].kind = "primary" /\ Refused(s, was.primary))
       THEN /\ UNCHANGED <<port, primary, config, limit>>
            /\ adrift' = IF Placed(s) THEN adrift \cup {s} ELSE adrift
       ELSE /\ port' = [p \in Ports |-> IF p \in back THEN [port[p] EXCEPT !.owner = was.owners[p]]
                                        ELSE port[p]]
            /\ primary' = IF Placed(s) /\ job[a].kind = "primary" THEN [primary EXCEPT ![s] = was.primary]
                          ELSE primary
            /\ config' = IF Placed(s) /\ job[a].kind = "config" THEN [config EXCEPT ![s] = was.config] ELSE config
            /\ limit' = IF Placed(s) /\ job[a].kind = "build" THEN [limit EXCEPT ![s] = PreviousLimit(a)] ELSE limit
            /\ UNCHANGED adrift
    /\ Ends(a)
    /\ UNCHANGED <<wings, begun>>

-------------------------------------------------------------------------------
(* The node's ports, each in one transaction *)

BulkCreate(P) ==
    /\ begun.requests < MaxPortRequests /\ begun' = [begun EXCEPT !.requests = @ + 1]
    /\ \E p \in P : ~port[p].there
    /\ port' = [p \in Ports |-> IF p \in P THEN [port[p] EXCEPT !.there = TRUE] ELSE port[p]]
    /\ UNCHANGED <<primary, config, limit, wings, job, adrift>>

\* Seeded defect: a port is deleted whoever has it.
DeleteWhoever(P) ==
    /\ P # {} /\ Rows(P)
    /\ begun.requests < MaxPortRequests /\ begun' = [begun EXCEPT !.requests = @ + 1]
    /\ port' = [p \in Ports |-> IF p \in P THEN [there |-> FALSE, owner |-> NoOne] ELSE port[p]]
    /\ UNCHANGED <<primary, config, limit, wings, job, adrift>>

\* All or none; the foreign key of the servers protects a primary port.
DeleteMany(P) ==
    /\ begun.requests < MaxPortRequests /\ begun' = [begun EXCEPT !.requests = @ + 1]
    /\ P # {} /\ Rows(P) /\ \A p \in P : port[p].owner = NoOne
    /\ P \cap UNION {LockedBy(a) : a \in Placers} = {}
    /\ \A s \in PortServers : primary[s] \notin P
    /\ port' = [p \in Ports |-> IF p \in P THEN [there |-> FALSE, owner |-> NoOne] ELSE port[p]]
    /\ UNCHANGED <<primary, config, limit, wings, job, adrift>>

PortRestart ==
    /\ begun.restarts < MaxPortRestarts /\ begun' = [begun EXCEPT !.restarts = @ + 1]
    /\ \E a \in Placers : job[a] # Idle
    /\ adrift' = adrift \cup {job[a].s : a \in {b \in Placers : job[b].pc \in {"wings", "restore", "revert"}}}
    /\ job' = [a \in Placers |-> Idle]
    /\ UNCHANGED <<port, primary, config, limit, wings>>

PortNext ==
    \/ \E a \in Orders, s \in PortServers, n \in Limits : CreatePlaceholder(a, s, n)
    \/ \E a \in Admins, s \in PortServers :
         \/ \E first \in Ports, more \in SUBSET Ports : AdminCreate(a, s, first, more)
         \/ \E P \in SUBSET Ports \ {{}} : AddAllocations(a, s, P)
         \/ \E p \in Ports : RemoveAllocation(a, s, p) \/ SetPrimaryAllocation(a, s, p)
         \/ \E c \in Configs : UpdateConfig(a, s, c)
         \/ \E n \in Limits : UpdateBuild(a, s, n)
         \/ DeletePlaced(a, s)
    \/ \E a \in Placers : \/ InsertServer(a) \/ CreateAtWings(a) \/ DeleteServerRow(a)
                          \/ CommitChange(a) \/ SyncServer(a) \/ Restore(a)
    \/ \E P \in SUBSET Ports : BulkCreate(P) \/ DeleteMany(P)
    \/ PortRestart

PortSpec == PortInit /\ [][PortNext]_portVars

-------------------------------------------------------------------------------

\* A server's primary port points back to it, and what Wings has of a server at rest is what the
\* database has, unless its last change was lost half-way (server_management.py, panel_db.py).
PortsAgree ==
    \A s \in PortServers : Placed(s) =>
        /\ port[primary[s]].owner = s
        /\ Resting(s) /\ s \notin adrift => wings[s] = View(s)
===============================================================================
