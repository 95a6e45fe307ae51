-------------------------------- MODULE LlmKeys --------------------------------
(***************************************************************************)
(* The LLM quota of servers: one account at NewAPI for each server, with   *)
(* one subscription and one token, and the row of the key here.  Every     *)
(* request works at NewAPI first and writes the row last; the nightly sync *)
(* aligns the tokens with the suspension of their servers.                 *)
(***************************************************************************)
EXTENDS Integers, FiniteSets

CONSTANTS
    KeyServers,
    LlmPlans,      \* subscription plans at NewAPI
    KeyRequests,   \* concurrent requests
    Sync,          \* the nightly job
    NoServer,
    MaxAccounts, MaxSubs,       \* accounts and subscriptions ever made
    MaxKeyRequests, MaxSyncs, MaxRestarts, MaxFailures

ASSUME LlmAssumption ==
    /\ NoServer \notin KeyServers /\ Sync \notin KeyRequests
    /\ LlmPlans \subseteq Nat \ {0}
    /\ {MaxAccounts, MaxSubs} \subseteq Nat \ {0}
    /\ {MaxKeyRequests, MaxSyncs, MaxRestarts, MaxFailures} \subseteq Nat

VARIABLES
    servers,    \* servers that are not deleted, with their suspension
    key,        \* manager_server_llm_keys
    account,    \* NewAPI: the accounts by their ids, named for a server
    subs,       \* NewAPI: the subscriptions by their ids
    call,       \* the requests under way
    budget,     \* requests, syncs, restarts and failing calls so far
    lost,       \* accounts the code leaves at NewAPI without a trace
    calm        \* servers with whose key nothing has failed or overlapped

newapi == <<account, subs>>
llmVars == <<servers, key, newapi, call, budget, lost, calm>>

KeyActors == KeyRequests \cup {Sync}
Accounts == 1..MaxAccounts
Subs == 1..MaxSubs
KeyRow == [st : {"none", "active", "disabled"}, acc : 0..MaxAccounts, sub : 0..MaxSubs,
           plan : {0} \cup LlmPlans]
NoKey == [st |-> "none", acc |-> 0, sub |-> 0, plan |-> 0]
Account == [of : KeyServers \cup {NoServer}, st : {"unused", "live", "gone"},
            token : {"none", "on", "off"}]
Sub == [acc : 0..MaxAccounts, plan : {0} \cup LlmPlans, st : {"unused", "active", "cancelled"}]
KeyKinds == {"none", "provision", "reprovision", "upgrade", "reset", "status", "revoke", "delete", "sync"}
KeySteps == {"idle", "account", "login", "bind", "token", "insert", "cleanup", "invalidate", "rebind",
             "fetch", "reenable", "save", "settoken", "savestatus", "remove", "delkey", "drop",
             "next", "commit"}
KeyCall == [kind : KeyKinds, s : KeyServers \cup {NoServer}, pc : KeySteps,
            row : KeyRow,                   \* the row as read, then what is to be written
            to : {"none", "active", "disabled"},
            todo : SUBSET KeyServers, done : SUBSET KeyServers, \* the sync's list and its writes
            seen : [KeyServers -> KeyRow], held : SUBSET KeyServers] \* as read: keys, suspensions
NoCall == [kind |-> "none", s |-> NoServer, pc |-> "idle", row |-> NoKey, to |-> "none",
           todo |-> {}, done |-> {}, seen |-> [s \in KeyServers |-> NoKey], held |-> {}]

Has(s) == key[s].st # "none"
LiveAccount(acc) == acc # 0 /\ account[acc].st = "live"
ActiveSubs(acc) == {q \in Subs : subs[q].acc = acc /\ subs[q].st = "active"}

LlmTypeOK ==
    /\ servers \in [KeyServers -> {"running", "suspended", "gone"}]
    /\ key \in [KeyServers -> KeyRow]
    /\ account \in [Accounts -> Account] /\ subs \in [Subs -> Sub]
    /\ call \in [KeyActors -> KeyCall]
    /\ budget \in [requests : 0..MaxKeyRequests, syncs : 0..MaxSyncs, restarts : 0..MaxRestarts,
                   failures : 0..MaxFailures]
    /\ lost \subseteq Accounts /\ calm \subseteq KeyServers
    /\ \A s, t \in KeyServers : Has(s) /\ Has(t) /\ s # t => key[s].acc # key[t].acc
    /\ \A s \in KeyServers : servers[s] = "gone" => ~Has(s)

LlmInit ==
    /\ servers = [s \in KeyServers |-> "running"]
    /\ key = [s \in KeyServers |-> NoKey]
    /\ account = [acc \in Accounts |-> [of |-> NoServer, st |-> "unused", token |-> "none"]]
    /\ subs = [q \in Subs |-> [acc |-> 0, plan |-> 0, st |-> "unused"]]
    /\ call = [a \in KeyActors |-> NoCall]
    /\ budget = [requests |-> 0, syncs |-> 0, restarts |-> 0, failures |-> 0]
    /\ lost = {} /\ calm = KeyServers

In(a, pc) == call[a].pc = pc
Go(a, pc) == call' = [call EXCEPT ![a].pc = pc]
Done(a) == call' = [call EXCEPT ![a] = NoCall]
\* The sync's writes keep their rows locked until it commits.
Unlocked(s) == s \notin call[Sync].done
Busy(s) == \E a \in KeyActors : call[a].s = s \/ s \in call[a].todo \/ s \in call[a].done

\* A call of NewAPI that fails: it may have had its effect.
Fails(s) ==
    /\ budget.failures < MaxFailures
    /\ budget' = [budget EXCEPT !.failures = @ + 1]
    /\ calm' = calm \ {s}
Answers == UNCHANGED <<budget, calm>>

-------------------------------------------------------------------------------
(* NewAPI *)

NextAccount == {acc \in Accounts : account[acc].st = "unused"
                                   /\ \A b \in 1..(acc - 1) : account[b].st # "unused"}
NextSub == {q \in Subs : subs[q].st = "unused" /\ \A p \in 1..(q - 1) : subs[p].st # "unused"}
NameFree(s) == \A acc \in Accounts : ~(account[acc].of = s /\ account[acc].st = "live")

Created(s, acc) == account' = [account EXCEPT ![acc] = [of |-> s, st |-> "live", token |-> "none"]]
Bound(acc, plan) ==
    /\ LiveAccount(acc)
    /\ \E q \in NextSub : subs' = [subs EXCEPT ![q] = [acc |-> acc, plan |-> plan, st |-> "active"]]
Cancelled(q) == subs' = [subs EXCEPT ![q].st = "cancelled"]
TokenSet(acc, state) == LiveAccount(acc) /\ account' = [account EXCEPT ![acc].token = state]

\* Deleting an account deletes its tokens and subscriptions.
Erased(acc) ==
    /\ LiveAccount(acc)
    /\ account' = [account EXCEPT ![acc].st = "gone", ![acc].token = "none"]
    /\ subs' = [q \in Subs |-> IF subs[q].acc = acc /\ subs[q].st = "active"
                               THEN [subs[q] EXCEPT !.st = "cancelled"] ELSE subs[q]]

-------------------------------------------------------------------------------
(* provision_for_server *)

\* A name is taken once; a lost answer is asked again and then finds its own account in the way.
CreateUser(a) ==
    LET s == call[a].s IN
    /\ In(a, "account")
    /\ \/ \E acc \in NextAccount :
            /\ NameFree(s) /\ Created(s, acc)
            /\ \/ call' = [call EXCEPT ![a].pc = "login", ![a].row.acc = acc]
                  /\ Answers /\ UNCHANGED lost
               \/ Done(a) /\ Fails(s) /\ lost' = lost \cup {acc}
       \/ ~NameFree(s) /\ Done(a) /\ UNCHANGED <<account, lost, budget, calm>>
       \/ Done(a) /\ Fails(s) /\ UNCHANGED <<account, lost>>
    /\ UNCHANGED <<servers, key, subs>>

LoginAndGenAccessToken(a) ==
    /\ In(a, "login")
    /\ \/ LiveAccount(call[a].row.acc) /\ Go(a, "bind") /\ Answers
       \/ Go(a, "cleanup") /\ Fails(call[a].s)
    /\ UNCHANGED <<servers, key, newapi, lost>>

\* The subscription of a new account, and its id.  The two chains run to their ends.
BindNewSubscription(a) ==
    LET acc == call[a].row.acc IN
    /\ In(a, "bind")
    /\ \/ /\ Bound(acc, call[a].row.plan)
          /\ \E q \in {p \in Subs : subs'[p].acc = acc /\ subs'[p].st = "active"} :
                call' = [call EXCEPT ![a].pc = "token", ![a].row.sub = q]
          /\ Answers
       \/ /\ subs' = subs \/ Bound(acc, call[a].row.plan)
          /\ Go(a, "token") /\ Fails(call[a].s)
    /\ UNCHANGED <<servers, key, account, lost>>

CreateToken(a) ==
    LET acc == call[a].row.acc IN
    /\ In(a, "token")
    /\ \/ /\ TokenSet(acc, "on") /\ Answers
          /\ Go(a, IF call[a].row.sub # 0 THEN "insert" ELSE "cleanup")
       \/ /\ account' = account \/ TokenSet(acc, "on")
          /\ Go(a, "cleanup") /\ Fails(call[a].s)
    /\ UNCHANGED <<servers, key, subs, lost>>

\* Seeded defect: a provisioning that failed leaves its account.
LeaveAccount(a) == In(a, "cleanup") /\ Done(a) /\ UNCHANGED <<servers, key, newapi, budget, lost, calm>>

\* The way back of a provisioning that failed.
CleanUp(a) ==
    LET acc == call[a].row.acc IN
    /\ In(a, "cleanup")
    /\ \/ Erased(acc) /\ Answers /\ UNCHANGED lost
       \/ /\ Erased(acc) \/ UNCHANGED newapi
          /\ Fails(call[a].s) /\ lost' = lost \cup {acc}
    /\ Done(a)
    /\ UNCHANGED <<servers, key>>

\* The new row; its server may be gone or have a row by now, and nothing takes the account back.
InsertKey(a) ==
    LET s == call[a].s IN
    /\ In(a, "insert")
    /\ IF servers[s] = "gone" \/ Has(s)
       THEN lost' = lost \cup {call[a].row.acc} /\ key' = key
       ELSE key' = [key EXCEPT ![s] = [call[a].row EXCEPT !.st = "active"]] /\ lost' = lost
    /\ Done(a)
    /\ UNCHANGED <<servers, newapi, budget, calm>>

-------------------------------------------------------------------------------
(* A subscription for another: _reprovision_existing, update_for_upgrade, admin_reset_usage *)

\* Only the reset insists on the old subscription's end.
InvalidateSubscription(a) ==
    LET q == call[a].row.sub IN
    /\ In(a, "invalidate")
    /\ \/ Cancelled(q) /\ Go(a, "rebind") /\ Answers
       \/ /\ Cancelled(q) \/ subs' = subs
          /\ IF call[a].kind = "reset" THEN Done(a) ELSE Go(a, "rebind")
          /\ Fails(call[a].s)
    /\ UNCHANGED <<servers, key, account, lost>>

BindSubscription(a) ==
    LET acc == call[a].row.acc IN
    /\ In(a, "rebind")
    /\ \/ Bound(acc, call[a].row.plan) /\ Go(a, "fetch") /\ Answers
       \/ Bound(acc, call[a].row.plan) /\ Done(a) /\ Fails(call[a].s)
       \/ subs' = subs /\ Done(a) /\ (Fails(call[a].s) \/ (~LiveAccount(acc) /\ Answers))
    /\ UNCHANGED <<servers, key, account, lost>>

\* The first active one that is listed.
GetActiveSubscription(a) ==
    LET active == ActiveSubs(call[a].row.acc) IN
    /\ In(a, "fetch")
    /\ \/ \E q \in active :
            call' = [call EXCEPT ![a].pc = IF call[a].kind = "reprovision" THEN "reenable" ELSE "save",
                                 ![a].row.sub = q]
          /\ Answers
       \/ active = {} /\ Done(a) /\ Answers
       \/ Done(a) /\ Fails(call[a].s)
    /\ UNCHANGED <<servers, key, newapi, lost>>

ReenableToken(a) ==
    LET acc == call[a].row.acc IN
    /\ In(a, "reenable")
    /\ \/ TokenSet(acc, "on") /\ Answers
       \/ account' = account /\ ~LiveAccount(acc) /\ Answers
       \/ (account' = account \/ TokenSet(acc, "on")) /\ Fails(call[a].s)
    /\ call' = [call EXCEPT ![a].pc = "save", ![a].row.st = "active"]
    /\ UNCHANGED <<servers, key, subs, lost>>

\* Seeded defect: a new subscription makes a disabled key active again.
SaveActive(a) ==
    LET s == call[a].s IN
    /\ In(a, "save") /\ Unlocked(s)
    /\ key' = IF Has(s) THEN [key EXCEPT ![s].sub = call[a].row.sub, ![s].plan = call[a].row.plan,
                                         ![s].st = "active"] ELSE key
    /\ Done(a)
    /\ UNCHANGED <<servers, newapi, budget, lost, calm>>

\* The columns that changed since they were read are written; the row may be gone.
SaveKey(a) ==
    LET s == call[a].s
        row == call[a].row
        st == IF call[a].kind = "reprovision" THEN "active" ELSE key[s].st IN
    /\ In(a, "save") /\ Unlocked(s)
    /\ key' = IF Has(s) THEN [key EXCEPT ![s].sub = row.sub, ![s].plan = row.plan, ![s].st = st]
              ELSE key
    /\ Done(a)
    /\ UNCHANGED <<servers, newapi, budget, lost, calm>>

-------------------------------------------------------------------------------
(* admin_set_status and the nightly sync *)

TokenState(st) == IF st = "active" THEN "on" ELSE "off"

SetToken(a) ==
    LET acc == call[a].row.acc IN
    /\ In(a, "settoken")
    /\ \/ TokenSet(acc, TokenState(call[a].to)) /\ Go(a, "savestatus") /\ Answers
       \/ /\ account' = account \/ TokenSet(acc, TokenState(call[a].to))
          /\ IF a = Sync THEN Go(a, "next") ELSE Done(a)
          /\ Fails(call[a].s)
       \/ /\ ~LiveAccount(acc) /\ account' = account /\ Answers
          /\ IF a = Sync THEN Go(a, "next") ELSE Done(a)
    /\ UNCHANGED <<servers, key, subs, lost>>

SaveStatus(a) ==
    LET s == call[a].s IN
    /\ In(a, "savestatus") /\ a # Sync /\ Unlocked(s)
    /\ key' = IF Has(s) /\ call[a].to # call[a].row.st THEN [key EXCEPT ![s].st = call[a].to] ELSE key
    /\ Done(a)
    /\ UNCHANGED <<servers, newapi, budget, lost, calm>>

\* A row that is gone ends the sync and takes its writes with it.
SyncSaveStatus ==
    LET s == call[Sync].s IN
    /\ In(Sync, "savestatus")
    /\ IF Has(s) THEN call' = [call EXCEPT ![Sync].pc = "next", ![Sync].done = @ \cup {s}] /\ UNCHANGED calm
       ELSE Done(Sync) /\ calm' = calm \ call[Sync].done
    /\ UNCHANGED <<servers, key, newapi, budget, lost>>

Target(s) == IF s \in call[Sync].held THEN "disabled" ELSE "active"

SyncNext ==
    /\ In(Sync, "next") /\ call[Sync].todo # {}
    /\ \E s \in call[Sync].todo :
         IF call[Sync].seen[s].st = Target(s)
         THEN call' = [call EXCEPT ![Sync].todo = @ \ {s}, ![Sync].s = NoServer]
         ELSE call' = [call EXCEPT ![Sync].todo = @ \ {s}, ![Sync].s = s, ![Sync].pc = "settoken",
                                   ![Sync].row = call[Sync].seen[s], ![Sync].to = Target(s)]
    /\ UNCHANGED <<servers, key, newapi, budget, lost, calm>>

SyncCommit ==
    /\ In(Sync, "next") /\ call[Sync].todo = {}
    /\ key' = [s \in KeyServers |-> IF s \in call[Sync].done THEN [key[s] EXCEPT !.st = Target(s)]
                                    ELSE key[s]]
    /\ Done(Sync)
    /\ UNCHANGED <<servers, newapi, budget, lost, calm>>

\* Keys and suspensions are read in one transaction.
SyncAllStates ==
    LET rows == {s \in KeyServers : Has(s)} IN
    /\ call[Sync] = NoCall /\ budget.syncs < MaxSyncs
    /\ budget' = [budget EXCEPT !.syncs = @ + 1]
    /\ call' = [call EXCEPT ![Sync] = [NoCall EXCEPT !.kind = "sync", !.pc = "next", !.todo = rows,
                   !.seen = key, !.held = {s \in KeyServers : servers[s] = "suspended"}]]
    /\ calm' = calm \ {s \in rows : Busy(s)}
    /\ UNCHANGED <<servers, key, newapi, lost>>

-------------------------------------------------------------------------------
(* Revoking, and the deletion of the server *)

\* The row goes whatever NewAPI answers.
DeleteUser(a) ==
    LET acc == call[a].row.acc IN
    /\ In(a, "remove")
    /\ \/ Erased(acc) /\ Answers /\ UNCHANGED lost
       \/ ~LiveAccount(acc) /\ UNCHANGED newapi /\ Answers /\ UNCHANGED lost
       \/ /\ Erased(acc) \/ UNCHANGED newapi
          /\ Fails(call[a].s) /\ lost' = lost \cup {acc}
    /\ Go(a, "delkey")
    /\ UNCHANGED <<servers, key>>

DeleteKey(a) ==
    LET s == call[a].s IN
    /\ In(a, "delkey") /\ Unlocked(s)
    /\ key' = [key EXCEPT ![s] = NoKey]
    /\ lost' = IF Has(s) /\ key[s].acc # call[a].row.acc THEN lost \cup {key[s].acc} ELSE lost
    /\ IF call[a].kind = "delete" THEN Go(a, "drop") ELSE Done(a)
    /\ UNCHANGED <<servers, newapi, budget, calm>>

\* The server goes, and with it a key that came after the hook; or its node refuses and it stays.
DropServer(a) ==
    LET s == call[a].s IN
    /\ In(a, "drop") /\ Unlocked(s)
    /\ \/ UNCHANGED <<servers, key, lost>>
       \/ /\ servers' = [servers EXCEPT ![s] = "gone"]
          /\ key' = [key EXCEPT ![s] = NoKey]
          /\ lost' = IF Has(s) THEN lost \cup {key[s].acc} ELSE lost
    /\ Done(a)
    /\ UNCHANGED <<newapi, budget, calm>>

-------------------------------------------------------------------------------
(* Requests *)

Opens(r, kind, s, pc, row) ==
    /\ call' = [call EXCEPT ![r] = [NoCall EXCEPT !.kind = kind, !.s = s, !.pc = pc, !.row = row]]
    /\ calm' = IF Busy(s) THEN calm \ {s} ELSE calm

\* A key that is active is left as it is.
Provision(r, s, plan) ==
    \/ ~Has(s) /\ Opens(r, "provision", s, "account", [NoKey EXCEPT !.plan = plan])
    \/ key[s].st = "disabled" /\ Opens(r, "reprovision", s, "invalidate", [key[s] EXCEPT !.plan = plan])

Revoke(r, s) == Has(s) /\ Opens(r, "revoke", s, "remove", key[s])

\* After an order: another plan with a quota, or one without.
UpdateForUpgrade(r, s, plan) ==
    \/ Has(s) /\ Opens(r, "upgrade", s, "invalidate", [key[s] EXCEPT !.plan = plan])
    \/ Provision(r, s, plan) /\ ~Has(s)
    \/ Revoke(r, s)

AdminSetStatus(r, s, st) ==
    /\ Has(s)
    /\ call' = [call EXCEPT ![r] = [NoCall EXCEPT !.kind = "status", !.s = s, !.pc = "settoken",
                                    !.row = key[s], !.to = st]]
    /\ calm' = IF Busy(s) THEN calm \ {s} ELSE calm

AdminResetUsage(r, s) == Has(s) /\ Opens(r, "reset", s, "invalidate", key[s])

DeleteServer(r, s) ==
    IF Has(s) THEN Opens(r, "delete", s, "remove", key[s]) ELSE Opens(r, "delete", s, "drop", NoKey)

KeyRequest(r) ==
    /\ call[r] = NoCall /\ budget.requests < MaxKeyRequests
    /\ budget' = [budget EXCEPT !.requests = @ + 1]
    /\ \E s \in KeyServers :
         /\ servers[s] # "gone"
         /\ \/ \E plan \in LlmPlans : Provision(r, s, plan) \/ UpdateForUpgrade(r, s, plan)
            \/ \E st \in {"active", "disabled"} : AdminSetStatus(r, s, st)
            \/ AdminResetUsage(r, s) \/ Revoke(r, s) \/ DeleteServer(r, s)
    /\ UNCHANGED <<servers, key, newapi, lost>>

ToggleSuspension(s) ==
    /\ servers[s] # "gone" /\ budget.requests < MaxKeyRequests
    /\ budget' = [budget EXCEPT !.requests = @ + 1]
    /\ servers' = [servers EXCEPT ![s] = IF @ = "running" THEN "suspended" ELSE "running"]
    /\ UNCHANGED <<key, newapi, call, lost, calm>>

\* What was under way is forgotten, an account before its row among it.
Restart ==
    LET hit == {a \in KeyActors : call[a] # NoCall} IN
    /\ hit # {} /\ budget.restarts < MaxRestarts
    /\ budget' = [budget EXCEPT !.restarts = @ + 1]
    /\ lost' = lost \cup ({call[a].row.acc : a \in {b \in hit : call[b].kind = "provision"}} \ {0})
    /\ calm' = {s \in calm : ~Busy(s)}
    /\ call' = [a \in KeyActors |-> NoCall]
    /\ UNCHANGED <<servers, key, newapi>>

KeyStep(a) ==
    \/ CreateUser(a) \/ LoginAndGenAccessToken(a) \/ BindNewSubscription(a) \/ CreateToken(a)
    \/ CleanUp(a) \/ InsertKey(a)
    \/ InvalidateSubscription(a) \/ BindSubscription(a) \/ GetActiveSubscription(a)
    \/ ReenableToken(a) \/ SaveKey(a) \/ SetToken(a) \/ SaveStatus(a)
    \/ DeleteUser(a) \/ DeleteKey(a) \/ DropServer(a)

LlmNext ==
    \/ \E r \in KeyRequests : KeyRequest(r)
    \/ \E s \in KeyServers : ToggleSuspension(s)
    \/ \E a \in KeyActors : KeyStep(a)
    \/ SyncAllStates \/ SyncNext \/ SyncSaveStatus \/ SyncCommit
    \/ Restart

LlmSpec == LlmInit /\ [][LlmNext]_llmVars

-------------------------------------------------------------------------------

\* An account at NewAPI belongs to a key's row or to a provisioning under way, but for those the
\* code loses: a lost answer, a failed deletion, a server deleted meanwhile (provision.py).
AccountsKnown ==
    \A acc \in Accounts : LiveAccount(acc) =>
        \/ \E s \in KeyServers : key[s].acc = acc /\ account[acc].of = s
        \/ \E a \in KeyActors : call[a].row.acc = acc
        \/ acc \in lost

\* When nothing failed and no two worked on one key at once, a key at rest is what NewAPI has: the
\* token follows the row, and one subscription of the row's plan is active (provision.py, sync.py).
KeyMatches ==
    \A s \in calm : Has(s) /\ ~Busy(s) =>
        /\ account[key[s].acc].token = TokenState(key[s].st)
        /\ ActiveSubs(key[s].acc) = {key[s].sub}
        /\ subs[key[s].sub].plan = key[s].plan
===============================================================================
