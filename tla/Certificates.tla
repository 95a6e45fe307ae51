----------------------------- MODULE Certificates -----------------------------
(***************************************************************************)
(* One certificate and the hosts it is installed on.  acme.sh renews the   *)
(* files on the manager's disk; three jobs that run every ten minutes and  *)
(* the requests of administrators and of acme.sh's hook read the source,   *)
(* ask the agents what they have, and send them what the disk holds.  The  *)
(* agents write the files, reload the service, and report.  Commands may   *)
(* be late, lose their answer, or stop half way.                           *)
(***************************************************************************)
EXTENDS Integers, FiniteSets

CONSTANTS
    Targets,      \* deployments: a target on a host
    Jobs,         \* the scheduler's jobs
    Requests,     \* requests under way at once
    MaxRenewals, MaxRequests,
    MaxFailures,  \* unreachable agents, lost answers, installs that stop half way, restarts
    MaxEvents     \* of all three together

Workers == Jobs \cup Requests
Versions == 1..(MaxRenewals + 1)
None == 0                       \* no fingerprint, no certificate
Unread == -1                    \* the certificate's row is not in the session
NoAnswer == -1                  \* of an agent
Statuses == {"unknown", "synced", "outdated", "unreachable", "deploy_failed"}

ASSUME CertificateAssumption ==
    /\ Targets \subseteq Nat /\ IsFiniteSet(Targets)
    /\ Jobs \subseteq {"source_scan", "deployment_scan", "auto_dispatch"}
    /\ Requests \cap Jobs = {} /\ "nobody" \notin Requests
    /\ {MaxRenewals, MaxRequests, MaxFailures, MaxEvents} \subseteq Nat

VARIABLES
    version,        \* of the files of the source on the manager's disk
    enabled, source, \* of the certificate's row: source_fingerprint_sha256
    row,            \* its deployments
    agent,          \* of each target: the files on the host, and what its service serves
    worker,         \* jobs and requests
    flight,         \* installs on their way to, or under way at, the agents
    spent           \* requests and failures so far

certVars == <<version, enabled, source, row, agent, worker, flight, spent>>

Idle == [pc |-> "idle", kind |-> "none", todo |-> {}, t |-> 0, src |-> Unread,
         status |-> "unknown", deployed |-> None, v |-> None, stale |-> "no", retry |-> FALSE]
RequestKinds == {"none", "webhook", "redeploy", "renew", "patch"}
Worker == [pc : {"idle", "renew", "scanned", "pick", "ask", "checked", "sent", "answered"},
           kind : RequestKinds, todo : SUBSET Targets, t : Targets \cup {0},
           src : Versions \cup {None, Unread},      \* the certificate's row as in memory
           status : Statuses, deployed : Versions \cup {None}, \* the deployment's row as in memory
           v : Versions \cup {None, NoAnswer},      \* what was read from disk, or from the agent
           stale : {"no", "changed", "deleted"},    \* what others did to a row it holds
           retry : BOOLEAN]

\* Types; and an answer is on its way only to the worker that waits for it, about its deployment.
CertTypeOK ==
    /\ version \in Versions
    /\ enabled \in BOOLEAN /\ source \in Versions \cup {None}
    /\ row \in [Targets -> [there : BOOLEAN, status : Statuses, deployed : Versions \cup {None}]]
    /\ agent \in [Targets -> [cert : Versions \cup {None}, key : Versions \cup {None},
                              served : Versions \cup {None}]]
    /\ worker \in [Workers -> Worker]
    /\ flight \subseteq [by : Workers \cup {"nobody"}, t : Targets, v : Versions, written : BOOLEAN]
    /\ spent \in [requests : 0..MaxRequests, failures : 0..MaxFailures]
    /\ \A f \in flight : f.by # "nobody" => worker[f.by].pc = "sent" /\ worker[f.by].t = f.t
    /\ \A w \in Workers : worker[w].pc = "sent" => \E f \in flight : f.by = w

\* A certificate just registered, with its deployments or without: its source is scanned, they are not.
CertInit ==
    /\ version = 1 /\ enabled = TRUE /\ source = 1
    /\ \E deployed \in BOOLEAN :
        row = [t \in Targets |-> [there |-> deployed, status |-> "unknown", deployed |-> None]]
    /\ agent = [t \in Targets |-> [cert |-> None, key |-> None, served |-> None]]
    /\ worker = [w \in Workers |-> Idle] /\ flight = {}
    /\ spent = [requests |-> 0, failures |-> 0]

-----------------------------------------------------------------------------
(* The disk, the database's conflicts, failures. *)

Event == spent.requests + spent.failures + version - 1 < MaxEvents
There == {t \in Targets : row[t].there}
Fail == Event /\ spent.failures < MaxFailures /\ spent' = [spent EXCEPT !.failures = @ + 1]

\* The rows a worker has read and is about to write: deployments, and 0 for the certificate's.
Holds(w) == CASE worker[w].pc \in {"renew", "scanned"}  -> {0}
              [] worker[w].pc \in {"ask", "checked"}    -> {worker[w].t}
              [] worker[w].pc \in {"sent", "answered"}  -> {worker[w].t, 0}
              [] OTHER -> {}
Becomes(w, new) == worker' = [worker EXCEPT ![w] = new]
\* w becomes new and commits rows; who holds one of them may be refused (error 1020).
Commits(w, new, rows) ==
    worker' = [x \in Workers |-> IF x = w THEN new
                 ELSE [worker[x] EXCEPT !.stale = IF @ = "no" /\ Holds(x) \cap rows # {} THEN "changed" ELSE @]]

\* acme.sh writes its files one after the other: a reader in between finds a pair that does not match.
load_source_material(v) == (v = version /\ UNCHANGED spent) \/ (v = None /\ Fail)

renew ==
    /\ version <= MaxRenewals /\ Event /\ version' = version + 1
    /\ UNCHANGED <<enabled, source, row, agent, worker, flight, spent>>

-----------------------------------------------------------------------------
(* What the jobs and the requests begin with. *)

ReadSource(kind, v) == [Idle EXCEPT !.kind = kind, !.pc = "scanned", !.src = source, !.v = v]

\* Both jobs read the source first; neither has anything to do with a disabled certificate.
JobBegin(w, v) ==
    /\ w \in {"source_scan", "auto_dispatch"} /\ worker[w].pc = "idle" /\ enabled
    /\ load_source_material(v)
    /\ Becomes(w, ReadSource("none", v))
    /\ UNCHANGED <<version, enabled, source, row, agent, flight>>

Request == Event /\ spent.requests < MaxRequests /\ spent' = [spent EXCEPT !.requests = @ + 1]

cert_source_changed_webhook(w) ==
    /\ w \in Requests /\ worker[w].pc = "idle" /\ Request /\ enabled
    /\ Becomes(w, ReadSource("webhook", version))
    /\ UNCHANGED <<version, enabled, source, row, agent, flight>>

redeploy_certificate(w, t) ==
    /\ w \in Requests /\ worker[w].pc = "idle" /\ Request /\ row[t].there
    /\ Becomes(w, [Idle EXCEPT !.kind = "redeploy", !.pc = "pick", !.todo = {t}])
    /\ UNCHANGED <<version, enabled, source, row, agent, flight>>

\* The row is read before acme.sh is run, and kept.
renew_certificate_force(w) ==
    /\ w \in Requests /\ worker[w].pc = "idle" /\ Request
    /\ Becomes(w, [Idle EXCEPT !.kind = "renew", !.pc = "renew", !.src = source])
    /\ UNCHANGED <<version, enabled, source, row, agent, flight>>

Renewed(w) ==
    /\ worker[w].pc = "renew"
    /\ version' = IF version <= MaxRenewals THEN version + 1 ELSE version
    /\ Becomes(w, [worker[w] EXCEPT !.pc = "scanned", !.v = version'])
    /\ UNCHANGED <<enabled, source, row, agent, flight, spent>>

\* The switch is committed, then the source is scanned.
patch_certificate(w) ==
    /\ w \in Requests /\ worker[w].pc = "idle" /\ Request
    /\ enabled' = ~enabled
    /\ Commits(w, ReadSource("patch", version), {0})
    /\ UNCHANGED <<version, source, row, agent, flight>>

\* A job that has only the row's id passes over it; a request that has the row itself goes on.
delete_deployment(t) ==
    /\ Request /\ row[t].there
    /\ row' = [row EXCEPT ![t] = [there |-> FALSE, status |-> "unknown", deployed |-> None]]
    /\ worker' = [w \in Workers |-> IF t \in Holds(w) THEN [worker[w] EXCEPT !.stale = "deleted"]
                   ELSE IF w \in Jobs THEN [worker[w] EXCEPT !.todo = @ \ {t}] ELSE worker[w]]
    /\ UNCHANGED <<version, enabled, source, agent, flight>>

\* The target is one the agent reports.  No request still has the deleted row of that target.
add_deployment(t) ==
    /\ Request /\ ~row[t].there /\ \A w \in Requests : t \notin worker[w].todo
    /\ row' = [row EXCEPT ![t].there = TRUE]
    /\ UNCHANGED <<version, enabled, source, agent, worker, flight>>

-----------------------------------------------------------------------------
(* scan_certificate_source: the commit of what was read. *)

Changed(me) == me.v # None /\ me.src # None /\ me.src # me.v
AfterScan(w) ==
    LET me == worker[w]
        dispatching == w = "auto_dispatch" \/ me.kind = "webhook" \/ (me.kind = "renew" /\ Changed(me))
    IN  IF ~dispatching THEN Idle
        ELSE [me EXCEPT !.pc = "pick", !.todo = There, !.v = None, !.stale = "no",
                        !.src = IF w = "auto_dispatch" THEN Unread ELSE IF me.v # None THEN me.v ELSE @]

scan_certificate_source(w) ==
    LET me == worker[w] IN
    /\ me.pc = "scanned"
    /\ source' = IF me.v # None /\ me.v # me.src THEN me.v ELSE source
    /\ Commits(w, AfterScan(w), {0})
    /\ UNCHANGED <<version, enabled, row, agent, flight, spent>>

\* Refused, or the process restarted: the request fails, the dispatching job goes on.
ScanRefused(w) ==
    /\ worker[w].pc = "scanned" /\ worker[w].stale # "no"
    /\ Becomes(w, IF w = "auto_dispatch" THEN [AfterScan(w) EXCEPT !.src = Unread] ELSE Idle)
    /\ UNCHANGED <<version, enabled, source, row, agent, flight, spent>>

-----------------------------------------------------------------------------
(* The next deployment of a scan or a dispatch. *)

First(S) == CHOOSE t \in S : \A u \in S : t <= u
Finished(me) == IF me.todo = {} THEN Idle ELSE [me EXCEPT !.pc = "pick", !.t = 0, !.status = "unknown",
                                                          !.deployed = None, !.v = None, !.stale = "no"]
\* Seeded defect: what was never deployed is not pending.
PendingIfDeployed(me) ==
    \/ me.status \in {"outdated", "deploy_failed"}
    \/ me.deployed # None /\ me.deployed # me.src
Pending(me) ==
    \/ me.status \in {"outdated", "unknown", "deploy_failed"}
    \/ me.deployed # me.src

Reads(w, t) ==
    LET me == worker[w] IN
    [me EXCEPT !.t = t, !.todo = @ \ {t}, !.status = row[t].status, !.deployed = row[t].deployed,
               !.stale = IF row[t].there THEN "no" ELSE "deleted",
               !.src = IF @ = Unread THEN source ELSE @]

\* auto_dispatch takes what is pending, of a certificate with a known source; a request takes all.
Takes(w, me) == w # "auto_dispatch" \/ (enabled /\ me.src # None /\ Pending(me))

Skip(w) ==
    LET t == First(worker[w].todo) IN
    /\ worker[w].pc = "pick" /\ worker[w].todo # {}
    /\ \/ worker[w].kind = "redeploy" /\ ~row[t].there
       \/ row[t].there /\ ~Takes(w, Reads(w, t))
    /\ Becomes(w, Finished(Reads(w, t)))
    /\ UNCHANGED <<version, enabled, source, row, agent, flight, spent>>

NothingToDo(w) ==
    /\ worker[w].pc = "pick" /\ worker[w].todo = {}
    /\ Becomes(w, Idle)
    /\ UNCHANGED <<version, enabled, source, row, agent, flight, spent>>

\* redeploy_deployment up to the command: the rows are read, then the files.
SendInstall(w, v) ==
    LET t == First(worker[w].todo)
        me == Reads(w, t)
    IN
        /\ w # "deployment_scan" /\ worker[w].pc = "pick" /\ worker[w].todo # {}
        /\ row[t].there \/ worker[w].kind \notin {"none", "redeploy"}
        /\ Takes(w, me) /\ load_source_material(v)
        /\ Becomes(w, [me EXCEPT !.pc = IF v = None THEN "answered" ELSE "sent", !.v = v])
        /\ flight' = IF v = None THEN flight
                     ELSE flight \cup {[by |-> w, t |-> t, v |-> v, written |-> FALSE]}
        /\ UNCHANGED <<version, enabled, source, row, agent>>

\* scan_deployment up to the question; the certificate's row is read anew for each deployment.
AskAgent(w) ==
    LET me == IF worker[w].pc = "idle" THEN [Idle EXCEPT !.todo = There] ELSE worker[w]
        t == First(me.todo)
    IN  /\ w = "deployment_scan" /\ me.pc \in {"idle", "pick"} /\ me.todo # {} /\ row[t].there
        /\ Becomes(w, [me EXCEPT !.pc = "ask", !.t = t, !.todo = @ \ {t}, !.src = source,
                                 !.status = row[t].status, !.deployed = row[t].deployed])
        /\ UNCHANGED <<version, enabled, source, row, agent, flight, spent>>

-----------------------------------------------------------------------------
(* The agents. *)

Deliver(w, v) == IF w \in Workers THEN Becomes(w, [worker[w] EXCEPT !.pc = "answered", !.v = v]) ELSE UNCHANGED worker

\* Both files are replaced, one after the other; the second may fail, and the report says so.
WriteFiles(f) ==
    /\ f \in flight /\ ~f.written
    /\ \/ /\ agent' = [agent EXCEPT ![f.t].cert = f.v, ![f.t].key = f.v]
          /\ flight' = (flight \ {f}) \cup {[f EXCEPT !.written = TRUE]}
          /\ UNCHANGED <<worker, spent>>
       \/ /\ Fail /\ agent' = [agent EXCEPT ![f.t].cert = f.v]
          /\ flight' = flight \ {f} /\ Deliver(f.by, None)
    /\ UNCHANGED <<version, enabled, source, row>>

\* The service takes up what is on its disk, or its reload fails and the report says so.
Reload(f) ==
    /\ f \in flight /\ f.written /\ flight' = flight \ {f}
    /\ \/ /\ agent[f.t].cert = agent[f.t].key
          /\ agent' = [agent EXCEPT ![f.t].served = agent[f.t].cert]
          /\ Deliver(f.by, f.v) /\ UNCHANGED spent
       \/ agent[f.t].cert = agent[f.t].key /\ Fail /\ Deliver(f.by, None) /\ UNCHANGED agent
       \/ agent[f.t].cert # agent[f.t].key /\ Deliver(f.by, None) /\ UNCHANGED <<agent, spent>>
    /\ UNCHANGED <<version, enabled, source, row>>

\* Seeded defect: the caller gives up and its command still answers to it.
TimeoutKeepsCall(w) ==
    /\ Fail
    /\ \/ /\ worker[w].pc = "sent" /\ UNCHANGED flight
          /\ Becomes(w, [worker[w] EXCEPT !.pc = "answered", !.v = None])
       \/ /\ worker[w].pc = "ask" /\ UNCHANGED flight
          /\ Becomes(w, [worker[w] EXCEPT !.pc = "checked", !.v = NoAnswer])
    /\ UNCHANGED <<version, enabled, source, row, agent>>

\* The agent does not answer: the command was never delivered, or goes on without its caller.
Timeout(w) ==
    LET mine == {f \in flight : f.by = w} IN
    /\ Fail
    /\ \/ /\ worker[w].pc = "sent"
          /\ flight' \in {flight \ mine, (flight \ mine) \cup {[f EXCEPT !.by = "nobody"] : f \in mine}}
          /\ Becomes(w, [worker[w] EXCEPT !.pc = "answered", !.v = None])
       \/ /\ worker[w].pc = "ask" /\ UNCHANGED flight
          /\ Becomes(w, [worker[w] EXCEPT !.pc = "checked", !.v = NoAnswer])
    /\ UNCHANGED <<version, enabled, source, row, agent>>

get_cert_status(w) ==
    /\ worker[w].pc = "ask"
    /\ Becomes(w, [worker[w] EXCEPT !.pc = "checked", !.v = agent[worker[w].t].cert])
    /\ UNCHANGED <<version, enabled, source, row, agent, flight, spent>>

-----------------------------------------------------------------------------
(* The commits; a column is written only if it differs from what was read. *)

Write(read, now, new) == IF new = read THEN now ELSE new
Committed(me, status, deployed) ==
    row' = [row EXCEPT ![me.t].status = Write(me.status, @, status),
                       ![me.t].deployed = Write(me.deployed, @, deployed)]

\* redeploy_deployment, after the agent's answer.
RecordInstall(w) ==
    LET me == worker[w] IN
    /\ me.pc = "answered" /\ me.stale # "deleted"
    /\ IF me.v = None
       THEN /\ Committed(me, "deploy_failed", me.deployed) /\ UNCHANGED source
            /\ Commits(w, Finished(me), {me.t})
       ELSE /\ Committed(me, "synced", me.v)
            /\ source' = Write(me.src, source, me.v)
            /\ Commits(w, Finished([me EXCEPT !.src = me.v]), {me.t, 0})
    /\ UNCHANGED <<version, enabled, agent, flight, spent>>

\* scan_deployment, after the agent's answer.
RecordCheck(w) ==
    LET me == worker[w] IN
    /\ me.pc = "checked" /\ me.stale # "deleted"
    /\ CASE me.v = NoAnswer -> Committed(me, "unreachable", me.deployed)
         [] me.v = None -> Committed(me, "unknown", None)
         [] OTHER -> Committed(me, IF me.v = me.src THEN "synced" ELSE "outdated", me.v)
    /\ Commits(w, Finished([me EXCEPT !.src = Unread]), {me.t})
    /\ UNCHANGED <<version, enabled, source, agent, flight, spent>>

\* The row is gone, or was changed since it was read: the jobs go on with the next deployment,
\* redeploy tries once more, other requests fail.
RecordRefused(w) ==
    LET me == worker[w] IN
    /\ me.pc \in {"answered", "checked"} /\ me.stale # "no"
    /\ Becomes(w, CASE w \in Jobs -> Finished([me EXCEPT !.src = Unread])
                    [] me.kind = "redeploy" /\ ~me.retry /\ me.stale = "changed" ->
                           [Idle EXCEPT !.kind = "redeploy", !.pc = "pick", !.todo = {me.t}, !.retry = TRUE]
                    [] OTHER -> Idle)
    /\ UNCHANGED <<version, enabled, source, row, agent, flight, spent>>

\* The jobs' process, or the API's.
Restart(P) ==
    /\ Fail /\ \E w \in P : worker[w].pc # "idle"
    /\ worker' = [w \in Workers |-> IF w \in P THEN Idle ELSE worker[w]]
    /\ flight' = {[f EXCEPT !.by = IF @ \in P THEN "nobody" ELSE @] : f \in flight}
    /\ UNCHANGED <<version, enabled, source, row, agent>>

-----------------------------------------------------------------------------
JobStep(w) ==
    \/ \E v \in {None, version} : JobBegin(w, v) \/ SendInstall(w, v)
    \/ Renewed(w) \/ scan_certificate_source(w) \/ ScanRefused(w)
    \/ Skip(w) \/ NothingToDo(w) \/ AskAgent(w) \/ get_cert_status(w)
    \/ RecordInstall(w) \/ RecordCheck(w) \/ RecordRefused(w)
Admins ==
    \E w \in Requests : \/ cert_source_changed_webhook(w) \/ renew_certificate_force(w)
                        \/ patch_certificate(w) \/ \E t \in Targets : redeploy_certificate(w, t)
AgentStep == \E f \in flight : WriteFiles(f) \/ Reload(f)

CertNext ==
    \/ \E w \in Workers : JobStep(w) \/ Timeout(w)
    \/ AgentStep \/ renew
    \/ Admins \/ \E t \in Targets : delete_deployment(t) \/ add_deployment(t)
    \/ Restart(Jobs) \/ Restart(Requests)

\* The scheduler runs the jobs again and again; agents answer or are given up.
CertFairness == (\A w \in Workers : WF_certVars(JobStep(w))) /\ WF_certVars(AgentStep)

-----------------------------------------------------------------------------
(* Properties. *)

CertSpec == CertInit /\ [][CertNext]_certVars /\ CertFairness

\* Once renewals, requests and failures come to an end, every deployment of an enabled certificate has
\* the renewed file, is recorded with it, and stays so.
\* It rests on the jobs alone: whatever answers were lost, commits refused and installs overtaken.
InSync(t) ==
    row[t].there => agent[t].cert = version /\ row[t].deployed = version /\ row[t].status = "synced"
Converges == <>[](enabled => source = version /\ \A t \in Targets : InSync(t))
=============================================================================
