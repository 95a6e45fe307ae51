-------------------------------- MODULE Servers --------------------------------
(***************************************************************************)
(* The life of a customer's server: the panel's row, the container that    *)
(* Wings keeps for it, the lifecycle calls that commit to the row first    *)
(* and then tell Wings, and take the row back when Wings does not answer,  *)
(* the administrators' and customers' requests made of these calls, and    *)
(* the nightly batch that suspends and deletes what has expired.           *)
(***************************************************************************)
EXTENDS Integers, FiniteSets

CONSTANTS
    Servers,       \* their ids
    Flaky,         \* servers whose node or database host may never answer again
    Busy,          \* servers that requests are made about
    Requests,      \* concurrent requests
    Nightly,       \* the batch
    NoServer,
    MaxDay,        \* the last day; it stands for every later one
    Grace,         \* AUTOMATION_DELETE_DAYS
    Term,          \* days a renewal adds
    MaxRequests,   \* requests ever made
    MaxCrashes     \* restarts

ASSUME ServerAssumption ==
    /\ Servers \subseteq Nat /\ IsFiniteSet(Servers)
    /\ Flaky \subseteq Servers /\ Busy \subseteq Servers /\ NoServer \notin Servers
    /\ Nightly \notin Requests
    /\ {MaxDay, Grace, Term} \subseteq Nat \ {0}
    /\ {MaxRequests, MaxCrashes} \subseteq Nat

VARIABLES
    row,       \* servers and manager_server_meta
    wings,     \* the containers, as Wings last pulled their rows
    install,   \* the install scripts on the nodes
    database,  \* a server's database: on its host and in the databases table
    op,        \* the lifecycle call each actor is in
    batch,     \* the stage of the nightly batch and the rest of its list
    today,
    requests,
    crashes,
    excused    \* servers whose container was left behind knowingly

serverVars == <<row, wings, install, database, op, batch, today, requests, crashes, excused>>

Actors == Requests \cup {Nightly}
Never == MaxDay + 1      \* no expiration date, or one past the horizon
Statuses == {"null", "suspended", "installing", "failed"}
ServerRow == [st : Statuses \cup {"unborn", "gone"}, exp : 0..Never, trial : BOOLEAN,
              installed : BOOLEAN,
              force : BOOLEAN]       \* the FORCE_REINSTALL variable
Kinds == {"none", "suspend", "unsuspend", "reinstall", "delete", "renew", "bulk", "create"}
Steps == {"idle", "flag", "read", "write", "wings", "undo", "destroy", "bases", "drop",
          "build", "extend", "persist", "create", "revert", "meta"}
Op == [kind : Kinds, s : Servers \cup {NoServer}, pc : Steps,
       prev : Statuses, installed : BOOLEAN,   \* what the row held before
       was : BOOLEAN, old : 0..Never,          \* suspended, expiration when the request began
       force : BOOLEAN]
Stages == {"idle", "suspend", "delete", "trial"}

NoRow == [st |-> "unborn", exp |-> Never, trial |-> FALSE, installed |-> FALSE, force |-> FALSE]
GoneRow == [NoRow EXCEPT !.st = "gone"]
Exists(s) == row[s].st \in Statuses
Up(s) == wings[s] # "absent"

ServerTypeOK ==
    /\ row \in [Servers -> ServerRow]
    /\ wings \in [Servers -> {"absent", "on", "off"}]
    /\ install \in [Servers -> {"none", "plain", "forced", "keeps", "wipes"}]
    /\ database \in [Servers -> {"none", "both", "row"}]
    /\ op \in [Actors -> Op]
    /\ batch \in [stage : Stages, todo : SUBSET Servers]
    /\ today \in 0..MaxDay /\ requests \in 0..MaxRequests /\ crashes \in 0..MaxCrashes
    /\ excused \subseteq Servers
    /\ \A s \in Servers : install[s] # "none" => Up(s)
    /\ batch.stage = "idle" => batch.todo = {}

NoOp == [kind |-> "none", s |-> NoServer, pc |-> "idle", prev |-> "null", installed |-> FALSE,
         was |-> FALSE, old |-> 0, force |-> FALSE]
IdleBatch == [stage |-> "idle", todo |-> {}]

\* Some servers are installed, trials or not, with a database or not, and expire today or never;
\* the others are not created.
ServerInit ==
    /\ \E born \in SUBSET Servers, trials \in SUBSET Servers, dated \in SUBSET Servers :
        /\ row = [s \in Servers |->
                    IF s \notin born THEN NoRow
                    ELSE [st |-> "null", exp |-> IF s \in dated THEN 0 ELSE Never,
                          trial |-> s \in trials, installed |-> TRUE, force |-> FALSE]]
        /\ wings = [s \in Servers |-> IF s \in born THEN "on" ELSE "absent"]
        /\ database \in [Servers -> {"none", "both"}]
        /\ \A s \in Servers \ born : database[s] = "none"
    /\ install = [s \in Servers |-> "none"]
    /\ op = [a \in Actors |-> NoOp]
    /\ batch = IdleBatch
    /\ today = 0 /\ requests = 0 /\ crashes = 0 /\ excused = {}

Finish(a) == op' = [op EXCEPT ![a] = NoOp]
Goto(a, pc) == op' = [op EXCEPT ![a].pc = pc]
At(a, pc) == op[a].pc = pc
Call(kind, s, pc) == [NoOp EXCEPT !.kind = kind, !.s = s, !.pc = pc]
Target(a) == op[a].s
Extended(exp) == LET base == IF exp < today THEN today ELSE exp
                 IN  IF base + Term > Never THEN Never ELSE base + Term

-------------------------------------------------------------------------------
(***************************************************************************)
(* suspend_server, unsuspend_server, reinstall_server: read the row, write *)
(* it, commit, tell Wings, and write back what was read if that fails.     *)
(***************************************************************************)

\* Rolling a session back expires what it read: the loop of a stage fails on its next server,
\* and the stage ends.  Where everything was committed there is nothing to roll back.
StageContinues(a) == batch' = batch
StageAborts(a) == batch' = IF a = Nightly THEN [batch EXCEPT !.todo = {}] ELSE batch

Resolve(a) ==
    /\ At(a, "read")
    /\ LET s == Target(a) IN
        IF Exists(s)
        THEN /\ StageContinues(a)
             /\ IF op[a].kind = "delete" THEN Goto(a, "destroy")
                ELSE op' = [op EXCEPT ![a].pc = "write", ![a].prev = row[s].st,
                                      ![a].installed = row[s].installed]
        ELSE /\ Finish(a)
             /\ IF op[a].kind = "delete" THEN StageContinues(a) ELSE StageAborts(a)
    /\ UNCHANGED <<database, row, wings, install, today, requests, crashes, excused>>

\* set_server_status and mark_for_reinstall; neither finds a row that is gone.
SetServerStatus(a) ==
    /\ At(a, "write")
    /\ LET s == Target(a) IN
        IF ~Exists(s) THEN Finish(a) /\ StageAborts(a) /\ row' = row
        ELSE /\ Goto(a, "wings") /\ StageContinues(a)
             /\ row' = CASE op[a].kind = "suspend" -> [row EXCEPT ![s].st = "suspended"]
                         [] op[a].kind = "reinstall" ->
                                [row EXCEPT ![s].st = "installing", ![s].installed = FALSE]
                         [] OTHER -> [row EXCEPT ![s].st = "null"]
    /\ UNCHANGED <<database, wings, install, today, requests, crashes, excused>>

\* POST .../sync and .../reinstall: Wings pulls the row of a container it has.
Reached(a) ==
    LET s == Target(a) IN
    /\ Up(s) /\ Exists(s)
    /\ IF op[a].kind = "reinstall"
       THEN /\ install' = [install EXCEPT ![s] = IF op[a].force THEN "forced" ELSE "plain"]
            /\ wings' = wings
       ELSE /\ wings' = [wings EXCEPT ![s] = IF row[s].st = "suspended" THEN "off" ELSE "on"]
            /\ install' = install

WingsAnswers(a) ==
    /\ At(a, "wings") /\ Reached(a)
    /\ IF op[a].kind = "bulk"
       THEN op' = [op EXCEPT ![a].pc = "persist", ![a].prev = "null", ![a].installed = FALSE]
       ELSE Finish(a)
    /\ UNCHANGED <<database, row, batch, today, requests, crashes, excused>>

\* The node is down, refuses, or does what it is asked and the answer is lost.
WingsFails(a) ==
    /\ At(a, "wings")
    /\ Reached(a) \/ UNCHANGED <<wings, install>>
    /\ Goto(a, "undo")
    /\ UNCHANGED <<database, row, batch, today, requests, crashes, excused>>

Compensate(a) ==
    /\ At(a, "undo")
    /\ LET s == Target(a) IN
        IF ~Exists(s) THEN StageAborts(a) /\ row' = row
        ELSE /\ StageContinues(a)
             /\ row' = [row EXCEPT ![s].st = op[a].prev,
                                   ![s].installed = IF op[a].kind = "reinstall"
                                                    THEN op[a].installed ELSE @]
    /\ Finish(a)
    /\ UNCHANGED <<database, wings, install, today, requests, crashes, excused>>

-------------------------------------------------------------------------------
(***************************************************************************)
(* delete_server: Wings destroys the container, the database host drops    *)
(* the database, and then the rows go, in one commit.  An error of Wings   *)
(* keeps the row, unless the deletion is forced.  An error of the host     *)
(* keeps the row of the database, and so, by its foreign key, the server's.*)
(***************************************************************************)

\* Seeded defect: the install script outlives its container.
ContainerOnly(s) ==
    /\ wings' = [wings EXCEPT ![s] = "absent"]
    /\ UNCHANGED install

Destroyed(s) ==
    /\ wings' = [wings EXCEPT ![s] = "absent"]
    /\ install' = [install EXCEPT ![s] = "none"]

DestroyAnswers(a) ==
    /\ At(a, "destroy") /\ Destroyed(Target(a))
    /\ Goto(a, "bases")
    /\ UNCHANGED <<database, row, batch, today, requests, crashes, excused>>

\* Seeded defect: a node that does not answer does not stop a deletion.
DropAnyway(a) == Goto(a, "bases") /\ StageContinues(a)

AfterFailedDestroy(a) ==
    IF op[a].force THEN Goto(a, "bases") /\ StageContinues(a) ELSE Finish(a) /\ StageAborts(a)

DestroyFails(a) ==
    /\ At(a, "destroy")
    /\ Destroyed(Target(a)) \/ UNCHANGED <<wings, install>>
    /\ AfterFailedDestroy(a)
    /\ excused' = IF op[a].force /\ Up(Target(a)) THEN excused \cup {Target(a)} ELSE excused
    /\ UNCHANGED <<database, row, today, requests, crashes>>

HasDatabase(s) == database[s] # "none"
Dropped(s) == database' = [database EXCEPT ![s] = IF HasDatabase(s) THEN "row" ELSE "none"]

DatabasesDropped(a) ==
    /\ At(a, "bases") /\ Dropped(Target(a))
    /\ Goto(a, "drop")
    /\ UNCHANGED <<row, wings, install, batch, today, requests, crashes, excused>>

\* The host is away, or drops the database and is not heard.
DropFails(a) ==
    /\ At(a, "bases") /\ HasDatabase(Target(a))
    /\ Dropped(Target(a)) \/ database' = database
    /\ Finish(a) /\ StageAborts(a)
    /\ UNCHANGED <<row, wings, install, today, requests, crashes, excused>>

DeleteServerRow(a) ==
    /\ At(a, "drop")
    /\ row' = [row EXCEPT ![Target(a)] = GoneRow]
    /\ database' = [database EXCEPT ![Target(a)] = "none"]
    /\ Finish(a)
    /\ UNCHANGED <<wings, install, batch, today, requests, crashes, excused>>

-------------------------------------------------------------------------------
(***************************************************************************)
(* create_server: the row, then the container, then the expiration; each   *)
(* failure takes back what came before it.                                 *)
(***************************************************************************)

InsertServer(r, s) ==
    /\ row[s].st = "unborn"
    /\ row' = [row EXCEPT ![s].st = "installing"]
    /\ op' = [op EXCEPT ![r] = [NoOp EXCEPT !.kind = "create", !.s = s, !.pc = "create"]]
    /\ UNCHANGED <<database, wings, install, batch, today, crashes, excused>>

\* A deletion that has passed Wings already will not come back for the container.
Overtaken(s) ==
    \E a \in Actors : (At(a, "bases") \/ At(a, "drop")) /\ Target(a) = s

Installed(a) ==
    LET s == Target(a) IN
    /\ Exists(s)
    /\ wings' = [wings EXCEPT ![s] = IF row[s].st = "suspended" THEN "off" ELSE "on"]
    /\ install' = [install EXCEPT ![s] = "plain"]

CreateAnswers(a) ==
    /\ At(a, "create") /\ Installed(a)
    /\ Goto(a, "meta")
    /\ excused' = IF Overtaken(Target(a)) THEN excused \cup {Target(a)} ELSE excused
    /\ UNCHANGED <<database, row, batch, today, requests, crashes>>

CreateFails(a) ==
    /\ At(a, "create")
    /\ \/ Installed(a) /\ excused' = excused \cup {Target(a)}
       \/ UNCHANGED <<wings, install, excused>>
    /\ Goto(a, "revert")
    /\ UNCHANGED <<database, row, batch, today, requests, crashes>>

RevertCreate(a) ==
    /\ At(a, "revert")
    /\ row' = [row EXCEPT ![Target(a)] = GoneRow]
    /\ Finish(a)
    /\ UNCHANGED <<database, wings, install, batch, today, requests, crashes, excused>>

\* The expiration, the plan and the order of the new server; without them it is deleted again.
PersistServer(a) ==
    /\ At(a, "meta")
    /\ LET s == Target(a) IN
        \/ /\ Exists(s)
           /\ \E trial \in BOOLEAN :
                row' = [row EXCEPT ![s].exp = Extended(0), ![s].trial = trial]
           /\ Finish(a)
        \/ /\ op' = [op EXCEPT ![a] = Call("delete", s, "read")]
           /\ row' = row
    /\ UNCHANGED <<database, wings, install, batch, today, requests, crashes, excused>>

-------------------------------------------------------------------------------
(***************************************************************************)
(* Renewals.  One server: the plan of a trial is synced first, then the    *)
(* new date is committed, then a server that was suspended is unsuspended. *)
(* Many: the other way round, each from the list read at the beginning.    *)
(***************************************************************************)

ConvertBuild(a) ==
    /\ At(a, "build")
    /\ \/ Reached(a) /\ Goto(a, "extend")
       \/ (Reached(a) \/ UNCHANGED <<wings, install>>) /\ Finish(a)
    /\ UNCHANGED <<database, row, batch, today, requests, crashes, excused>>

Extend(a) ==
    /\ At(a, "extend")
    /\ LET s == Target(a) IN
        IF ~Exists(s) THEN Finish(a) /\ row' = row
        ELSE \E permanent \in BOOLEAN :
             /\ row' = [row EXCEPT ![s].trial = FALSE,
                                   ![s].exp = IF permanent THEN Never ELSE Extended(op[a].old)]
             /\ IF op[a].was /\ ~permanent THEN op' = [op EXCEPT ![a] = Call("unsuspend", s, "read")]
                ELSE Finish(a)
    /\ UNCHANGED <<database, wings, install, batch, today, requests, crashes, excused>>

\* A failure to write the date puts the suspension back.
PersistExpiration(a) ==
    /\ At(a, "persist")
    /\ LET s == Target(a) IN
        \/ /\ Exists(s)
           /\ row' = [row EXCEPT ![s].exp = Extended(op[a].old)]
           /\ Finish(a)
        \/ /\ row' = row
           /\ IF op[a].was THEN op' = [op EXCEPT ![a] = Call("suspend", s, "read")]
              ELSE Finish(a)
    /\ UNCHANGED <<database, wings, install, batch, today, requests, crashes, excused>>

-------------------------------------------------------------------------------
(***************************************************************************)
(* Requests.                                                               *)
(***************************************************************************)

Suspended(s) == row[s].st = "suspended"

ToggleSuspend(r, s) ==
    /\ Exists(s)
    /\ op' = [op EXCEPT ![r] = Call(IF Suspended(s) THEN "unsuspend" ELSE "suspend", s, "read")]
    /\ UNCHANGED <<database, row, wings, install, batch, today, crashes, excused>>

BatchSuspend(r, s) ==
    /\ \E kind \in {"suspend", "unsuspend"} : op' = [op EXCEPT ![r] = Call(kind, s, "read")]
    /\ UNCHANGED <<database, row, wings, install, batch, today, crashes, excused>>

DeleteServer(r, s) ==
    /\ Exists(s)
    /\ \E force \in BOOLEAN :
        op' = [op EXCEPT ![r] = [Call("delete", s, "read") EXCEPT !.force = force]]
    /\ UNCHANGED <<database, row, wings, install, batch, today, crashes, excused>>

\* A batch of deletions does not look whether the servers exist.
BatchDelete(r, s) ==
    /\ op' = [op EXCEPT ![r] = Call("delete", s, "read")]
    /\ UNCHANGED <<database, row, wings, install, batch, today, crashes, excused>>

RenewServer(r, s) ==
    /\ Exists(s)
    /\ op' = [op EXCEPT ![r] =
                [Call("renew", s, IF row[s].trial THEN "build" ELSE "extend")
                    EXCEPT !.was = Suspended(s), !.old = row[s].exp]]
    /\ UNCHANGED <<database, row, wings, install, batch, today, crashes, excused>>

BatchRenew(r, s) ==
    /\ Exists(s)
    /\ op' = [op EXCEPT ![r] =
                [Call("bulk", s, IF Suspended(s) THEN "read" ELSE "persist")
                    EXCEPT !.was = Suspended(s), !.old = row[s].exp]]
    /\ UNCHANGED <<database, row, wings, install, batch, today, crashes, excused>>

SetExpiry(r, s) ==
    /\ Exists(s)
    /\ \E day \in 0..Never : row' = [row EXCEPT ![s].exp = day]
    /\ UNCHANGED <<database, wings, install, op, batch, today, crashes, excused>>

\* A customer's forced reinstall sets the flag in a commit of its own.
ReinstallServer(r, s) ==
    /\ Exists(s)
    /\ \E force \in BOOLEAN :
        /\ force => ~Suspended(s)
        /\ op' = [op EXCEPT ![r] =
                    [Call("reinstall", s, IF force THEN "flag" ELSE "read")
                        EXCEPT !.force = force]]
    /\ UNCHANGED <<database, row, wings, install, batch, today, crashes, excused>>

SetForceFlag(a) ==
    /\ At(a, "flag")
    /\ LET s == Target(a) IN
        IF ~Exists(s) THEN Finish(a) /\ row' = row
        ELSE row' = [row EXCEPT ![s].force = TRUE] /\ Goto(a, "read")
    /\ UNCHANGED <<database, wings, install, batch, today, requests, crashes, excused>>

Begin(r, s) ==
    /\ op[r] = NoOp /\ requests < MaxRequests
    /\ requests' = requests + 1
    /\ \/ InsertServer(r, s)
       \/ ToggleSuspend(r, s) \/ BatchSuspend(r, s)
       \/ DeleteServer(r, s) \/ BatchDelete(r, s)
       \/ RenewServer(r, s) \/ BatchRenew(r, s) \/ SetExpiry(r, s)
       \/ ReinstallServer(r, s)

-------------------------------------------------------------------------------
(***************************************************************************)
(* Wings runs the install script with the environment of that moment and   *)
(* reports to the panel; a job clears the flag of what is installed.       *)
(***************************************************************************)

InstallStarts(s) ==
    /\ install[s] \in {"plain", "forced"} /\ Exists(s)
    /\ install' = [install EXCEPT ![s] = IF row[s].force THEN "wipes" ELSE "keeps"]
    /\ UNCHANGED <<database, row, wings, op, batch, today, requests, crashes, excused>>

InstallEnds(s) ==
    /\ install[s] \in {"keeps", "wipes"}
    /\ install' = [install EXCEPT ![s] = "none"]
    /\ \E st \in {"null", "failed"} :
        row' = IF ~Exists(s) THEN row
               ELSE [row EXCEPT ![s].installed = TRUE,
                                ![s].st = IF @ = "suspended" THEN @ ELSE st]
    /\ UNCHANGED <<database, wings, op, batch, today, requests, crashes, excused>>

Resettable(s) == row[s].force /\ row[s].st = "null" /\ row[s].installed

ForceReinstallReset ==
    /\ \E s \in Servers : Resettable(s)
    /\ row' = [s \in Servers |-> [row[s] EXCEPT !.force = @ /\ ~Resettable(s)]]
    /\ UNCHANGED <<database, wings, install, op, batch, today, requests, crashes, excused>>

-------------------------------------------------------------------------------
(***************************************************************************)
(* The nightly batch: suspend, delete, delete trials, each from a list it  *)
(* reads once and works through in the order of the ids.                   *)
(***************************************************************************)

SuspendCandidates ==
    {s \in Servers : row[s].st = "null" /\ row[s].exp < today /\ ~row[s].trial}
\* Seeded defect: what is suspended already is passed over.
ExpiredAndActive(day) ==
    {s \in Servers : row[s].st = "null" /\ row[s].exp <= day /\ ~row[s].trial}

ExpiredBeforeOrOn(day) ==
    {s \in Servers : Exists(s) /\ row[s].exp <= day /\ ~row[s].trial}
TrialExpired == {s \in Servers : Exists(s) /\ row[s].exp < today /\ row[s].trial}

EnterStage(stage, servers) ==
    /\ batch.todo = {} /\ op[Nightly] = NoOp
    /\ batch' = [stage |-> stage, todo |-> servers]
    /\ UNCHANGED <<database, row, wings, install, op, today, requests, crashes, excused>>

DailyLifecycleBatch ==
    \/ batch.stage = "idle" /\ EnterStage("suspend", SuspendCandidates)
    \/ batch.stage = "suspend" /\ EnterStage("delete", ExpiredBeforeOrOn(today - Grace))
    \/ batch.stage = "delete" /\ EnterStage("trial", TrialExpired)
    \/ batch.stage = "trial" /\ EnterStage("idle", {})

StageKind == IF batch.stage = "suspend" THEN "suspend" ELSE "delete"
Rest(s) == batch.todo \ {s}

NextServer(s) ==
    /\ op[Nightly] = NoOp /\ s \in batch.todo /\ \A t \in batch.todo : s <= t
    /\ batch' = [batch EXCEPT !.todo = Rest(s)]
    /\ op' = [op EXCEPT ![Nightly] = Call(StageKind, s, "read")]
    /\ UNCHANGED <<database, row, wings, install, today, requests, crashes, excused>>

Tick ==
    /\ today < MaxDay
    /\ today' = today + 1
    /\ UNCHANGED <<database, row, wings, install, op, batch, requests, crashes, excused>>

\* A restart forgets the requests and the batch where they were.
Crash ==
    /\ crashes < MaxCrashes
    /\ op # [a \in Actors |-> NoOp] \/ batch # IdleBatch
    /\ crashes' = crashes + 1
    /\ op' = [a \in Actors |-> NoOp]
    /\ batch' = IdleBatch
    /\ UNCHANGED <<database, row, wings, install, today, requests, excused>>

-------------------------------------------------------------------------------

Proceed(a) ==
    \/ SetForceFlag(a)
    \/ Resolve(a) \/ SetServerStatus(a) \/ WingsAnswers(a) \/ WingsFails(a) \/ Compensate(a)
    \/ DestroyAnswers(a) \/ DestroyFails(a)
    \/ DatabasesDropped(a) \/ DropFails(a) \/ DeleteServerRow(a)
    \/ CreateAnswers(a) \/ CreateFails(a) \/ RevertCreate(a) \/ PersistServer(a)
    \/ ConvertBuild(a) \/ Extend(a) \/ PersistExpiration(a)

BatchSteps == DailyLifecycleBatch \/ \E s \in Servers : NextServer(s)

ServerNext ==
    \/ \E r \in Requests, s \in Busy : Begin(r, s)
    \/ \E a \in Actors : Proceed(a)
    \/ \E s \in Servers : InstallStarts(s) \/ InstallEnds(s)
    \/ ForceReinstallReset
    \/ BatchSteps
    \/ Tick \/ Crash

\* Handlers run on, the batch comes every night, and a node or host that is not flaky answers
\* in the end.
ServerFairness ==
    /\ WF_serverVars(Tick) /\ WF_serverVars(BatchSteps)
    /\ \A a \in Actors : WF_serverVars(Proceed(a))
    /\ \A s \in Servers \ Flaky :
        /\ SF_serverVars(Target(Nightly) = s /\ DestroyAnswers(Nightly))
        /\ SF_serverVars(Target(Nightly) = s /\ DatabasesDropped(Nightly))

ServerSpec == ServerInit /\ [][ServerNext]_serverVars /\ ServerFairness

-------------------------------------------------------------------------------
\* A container is without a row only after a forced deletion, after a lost answer to its
\* creation, or when it was created behind the back of a deletion; a database never is, neither
\* on its host nor in the panel (server_lifecycle.py create_server, delete_server).
OrphansExplained ==
    \A s \in Servers : ~Exists(s) => (Up(s) => s \in excused) /\ ~HasDatabase(s)

\* Whatever requests and restarts do, a server past its days of grace is deleted in the end,
\* or renewed, when the nodes and hosts of it and of the servers before it answer in the
\* end (delete.py, trial_expire.py, daily_lifecycle.py).
Overdue(s) == Exists(s) /\ row[s].exp + Grace <= today
OverdueSettled ==
    \A s \in Servers : (\A t \in Flaky : s < t) => (Overdue(s) ~> ~Overdue(s))
===============================================================================
