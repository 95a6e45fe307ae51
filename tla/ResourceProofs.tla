---------------------------- MODULE ResourceProofs ----------------------------
(***************************************************************************)
(* What hangs on a server: the keys of its LLM quota at NewAPI, the mails  *)
(* about it, and its ports.  What is recorded here is what there is        *)
(* elsewhere, but for what the code is known to lose.                      *)
(***************************************************************************)
EXTENDS MCResources, WellFoundedInduction, TLAPS

-------------------------------------------------------------------------------
(* Keys *)

\* The account was made for the server.
MadeFor(acc, s) == acc \in Accounts /\ account[acc].of = s /\ account[acc].st # "unused"

\* So was the subscription's account.
MadeSub(q, s) == subs[q].st # "unused" /\ MadeFor(subs[q].acc, s)

Making == {"account", "login", "bind", "token", "insert", "cleanup"}
Rebinding == {"invalidate", "rebind", "fetch", "reenable", "save"}
Setting == {"settoken", "savestatus"}

\* A request's step fits its kind, and its row has an account of its server.
CallInOrder(a) ==
    LET c == call[a] IN
    /\ c.pc = "idle" => c = NoCall
    /\ c.pc \notin {"idle", "next"} => c.s \in KeyServers
    /\ c.pc \in Making <=> c.kind = "provision"
    /\ c.pc \in Rebinding => c.kind \in {"reprovision", "upgrade", "reset"}
    /\ c.pc = "reenable" => c.kind = "reprovision"
    /\ c.pc \in Setting \cup {"next"} => c.kind = IF a = Sync THEN "sync" ELSE "status"
    /\ c.pc \in Setting => c.to \in {"active", "disabled"}
    /\ c.pc \in {"remove", "delkey"} => c.kind \in {"revoke", "delete"}
    /\ c.pc = "drop" => c.kind = "delete"
    /\ c.pc # "commit"
    /\ a = Sync => c.kind \in {"sync", "none"}
    /\ a # Sync => c.todo = {} /\ c.done = {} /\ c.pc # "next"
    /\ c.pc # "next" /\ c.row.acc # 0 => MadeFor(c.row.acc, c.s)
    /\ c.pc # "next" /\ c.row.sub # 0 => MadeSub(c.row.sub, c.s)
    /\ c.pc \in (Making \ {"account"}) \cup Rebinding \cup Setting \cup {"remove", "delkey"} => c.row.acc # 0
    /\ c.pc = "account" => c.row = [NoKey EXCEPT !.plan = c.row.plan]
    /\ c.pc = "delkey" => ~LiveAccount(c.row.acc) \/ c.row.acc \in lost

\* The sync has a row of the server it is at, or had one; what it wrote is locked.
SyncInOrder ==
    LET c == call[Sync] IN
    /\ c.todo \cap c.done = {} /\ c.s \notin c.todo
    /\ c.pc \in Setting => c.s \notin c.done /\ c.to = Target(c.s)
    /\ \A s \in c.todo : c.seen[s].acc # 0
    /\ \A s \in KeyServers : c.seen[s].acc # 0 => MadeFor(c.seen[s].acc, s)
    /\ \A s \in KeyServers : c.seen[s].sub # 0 => MadeSub(c.seen[s].sub, s)
    /\ \A s \in c.done : Has(s)

RowOwn(s) ==
    /\ IF Has(s) THEN MadeFor(key[s].acc, s) ELSE key[s] = NoKey
    /\ key[s].sub # 0 => MadeSub(key[s].sub, s)
RowsOwn == \A s \in KeyServers : RowOwn(s)

OnlyLive ==
    /\ \A acc \in Accounts : account[acc].token # "none" => account[acc].st = "live"
    /\ \A q \in Subs : subs[q].st = "active" => LiveAccount(subs[q].acc)

\* A live account has a row, a provisioning under way, or is given up.
Owned(acc) ==
    \/ \E s \in KeyServers : key[s].acc = acc
    \/ \E a \in KeyActors : call[a].kind = "provision" /\ call[a].row.acc = acc
    \/ acc \in lost
NoStrayAccount == \A acc \in Accounts : LiveAccount(acc) => Owned(acc)

\* Calm servers: one request at most works on each, and the two sides are what it has made of them.
Works(a, s) == call[a].s = s \/ s \in call[a].todo \/ s \in call[a].done
OneAtATime == \A s \in calm : \A a, b \in KeyActors : Works(a, s) /\ Works(b, s) => a = b

TokenIs(acc, st) == account[acc].token = TokenState(st)
SubIs(acc, q, plan) == q \in Subs /\ ActiveSubs(acc) = {q} /\ subs[q].plan = plan
Settled(s) == Has(s) => TokenIs(key[s].acc, key[s].st) /\ SubIs(key[s].acc, key[s].sub, key[s].plan)

Fits(a) ==
    LET c == call[a]
        s == call[a].s
        r == call[a].row
    IN
    /\ c.pc \in (Making \ {"cleanup"}) \cup {"drop"} => ~Has(s)
    /\ c.pc \in {"login", "bind", "rebind"} => ActiveSubs(r.acc) = {}
    /\ c.pc \in {"token", "insert", "reenable", "save"} => SubIs(r.acc, r.sub, r.plan)
    /\ c.pc \in {"insert"} => TokenIs(r.acc, "active")
    /\ c.pc # "cleanup"
    /\ c.pc \in Rebinding \cup Setting => Has(s) /\ r.acc = key[s].acc
    /\ c.pc \in {"invalidate", "settoken"} => Settled(s) /\ r.sub = key[s].sub
    /\ c.pc = "fetch" => \E q \in Subs : SubIs(r.acc, q, r.plan)
    /\ c.pc \in {"rebind", "fetch"} => TokenIs(r.acc, key[s].st)
    /\ c.pc = "save" => TokenIs(r.acc, IF c.kind = "reprovision" THEN "active" ELSE key[s].st)
    /\ c.pc \in Setting => r.st = key[s].st
    /\ c.pc = "savestatus" => SubIs(r.acc, key[s].sub, key[s].plan) /\ TokenIs(r.acc, c.to)

SyncFits(s) ==
    LET c == call[Sync] IN
    /\ s \in c.todo => Has(s) /\ Settled(s) /\ c.seen[s] = key[s]
    /\ s \in c.done => TokenIs(key[s].acc, Target(s)) /\ SubIs(key[s].acc, key[s].sub, key[s].plan)
    /\ c.pc = "next" /\ c.s = s => s \in c.done

CalmFits ==
    /\ OneAtATime
    /\ \A s \in calm : /\ \A a \in KeyActors : call[a].s = s => Fits(a)
                       /\ SyncFits(s)
                       /\ ~Busy(s) => Settled(s)

-------------------------------------------------------------------------------
(* Types by variable *)

ServersTyped == servers \in [KeyServers -> {"running", "suspended", "gone"}]
KeysTyped == key \in [KeyServers -> KeyRow]
AccountsTyped == account \in [Accounts -> Account]
SubsTyped == subs \in [Subs -> Sub]
KeyCallsTyped == call \in [KeyActors -> KeyCall]
BudgetTyped ==
    budget \in [requests : 0..MaxKeyRequests, syncs : 0..MaxSyncs, restarts : 0..MaxRestarts,
                failures : 0..MaxFailures]
MarksTyped == lost \subseteq Accounts /\ calm \subseteq KeyServers
LlmTyped ==
    /\ ServersTyped /\ KeysTyped /\ AccountsTyped /\ SubsTyped
    /\ KeyCallsTyped /\ BudgetTyped /\ MarksTyped
KeylessGone == \A s \in KeyServers : servers[s] = "gone" => ~Has(s)

\* The invariant but for what it says of calm servers.
LlmInOrder ==
    /\ LlmTyped /\ KeylessGone
    /\ \A a \in KeyActors : CallInOrder(a)
    /\ SyncInOrder /\ RowsOwn /\ OnlyLive

LEMMA LlmTypes == LlmTyped /\ KeylessGone /\ RowsOwn => LlmTypeOK
  <1> SUFFICES ASSUME LlmTyped, KeylessGone, RowsOwn PROVE LlmTypeOK
    OBVIOUS
  <1>1. ASSUME NEW s \in KeyServers, NEW t \in KeyServers, Has(s), Has(t), s # t
        PROVE  key[s].acc # key[t].acc
    BY <1>1 DEF RowsOwn, RowOwn, MadeFor
  <1> QED BY <1>1 DEF LlmTypeOK, LlmTyped, ServersTyped, KeysTyped, AccountsTyped, SubsTyped,
             KeyCallsTyped, BudgetTyped, MarksTyped, KeylessGone

LEMMA Blanks == NoKey \in KeyRow /\ NoCall \in KeyCall
  <1>1. NoKey \in KeyRow BY LlmAssumption DEF NoKey, KeyRow
  <1>2. [s \in KeyServers |-> NoKey] \in [KeyServers -> KeyRow] BY <1>1
  <1> QED BY <1>1, <1>2 DEF NoCall, KeyCall, KeyKinds, KeySteps

CallBecomes(a, c) == call'[a] = c /\ \A b \in KeyActors \ {a} : call'[b] = call[b]

\* The request goes on to another step and is the same in all else.
CallMoves(a, pc) ==
    /\ call'[a].pc = pc /\ call'[a].row = call[a].row
    /\ call'[a].kind = call[a].kind /\ call'[a].s = call[a].s /\ call'[a].to = call[a].to
    /\ call'[a].todo = call[a].todo /\ call'[a].done = call[a].done
    /\ call'[a].seen = call[a].seen /\ call'[a].held = call[a].held
    /\ \A b \in KeyActors \ {a} : call'[b] = call[b]

LEMMA CallWrites ==
    ASSUME KeyCallsTyped, NEW a \in KeyActors, NEW c \in KeyCall, call' = [call EXCEPT ![a] = c]
    PROVE  KeyCallsTyped' /\ CallBecomes(a, c)
  BY DEF KeyCallsTyped, CallBecomes

LEMMA CallGoes ==
    ASSUME KeyCallsTyped, NEW a \in KeyActors, NEW pc \in KeySteps, Go(a, pc)
    PROVE  KeyCallsTyped' /\ CallMoves(a, pc)
  BY DEF KeyCallsTyped, KeyCall, CallMoves, Go

LEMMA CallDone ==
    ASSUME KeyCallsTyped, NEW a \in KeyActors, Done(a)
    PROVE  KeyCallsTyped' /\ CallBecomes(a, NoCall)
  BY CallWrites, Blanks DEF Done

LEMMA Answered ==
    ASSUME BudgetTyped, MarksTyped, NEW s \in KeyServers, Answers \/ Fails(s)
    PROVE  /\ BudgetTyped' /\ calm' \subseteq calm
           /\ \A t \in calm : t # s => t \in calm'
           /\ Fails(s) => s \notin calm'
           /\ Answers => calm' = calm
  BY LlmAssumption DEF BudgetTyped, MarksTyped, Answers, Fails

-------------------------------------------------------------------------------
(* NewAPI.  What a call does there concerns the accounts of one server. *)

\* What was made for other servers is as it was.
OthersKept(s) ==
    \A t \in KeyServers \ {s}, acc \in Accounts : MadeFor(acc, t) =>
        /\ account'[acc] = account[acc]
        /\ ActiveSubs(acc)' = ActiveSubs(acc)
        /\ \A q \in ActiveSubs(acc) : subs'[q] = subs[q]

\* Nothing is made for another server afterwards, and nothing dead comes alive.
OriginsKept ==
    /\ \A acc \in Accounts, s \in KeyServers : MadeFor(acc, s) => MadeFor(acc, s)'
    /\ \A acc \in Accounts : account[acc].st # "unused" /\ LiveAccount(acc)' => LiveAccount(acc)
    /\ \A q \in Subs, s \in KeyServers : MadeSub(q, s) => MadeSub(q, s)'

NewapiKept == AccountsTyped' /\ SubsTyped' /\ OnlyLive' /\ OriginsKept

LEMMA NewapiStays ==
    ASSUME AccountsTyped, SubsTyped, OnlyLive, NEW s \in KeyServers, UNCHANGED newapi
    PROVE  NewapiKept /\ OthersKept(s)
  BY DEF NewapiKept, OthersKept, OriginsKept, AccountsTyped, SubsTyped, OnlyLive, newapi, MadeFor,
         MadeSub, LiveAccount, ActiveSubs

LEMMA LiveOnes ==
    SubsTyped => \A q \in Subs : LiveAccount(subs[q].acc) => subs[q].acc \in Accounts
  BY LlmAssumption DEF SubsTyped, Sub, LiveAccount, Accounts

LEMMA AccountCreated ==
    ASSUME AccountsTyped, SubsTyped, OnlyLive, NEW s \in KeyServers, NEW acc \in NextAccount,
           Created(s, acc), UNCHANGED subs
    PROVE  /\ NewapiKept /\ OthersKept(s)
           /\ acc \in Accounts /\ account[acc].st = "unused"
           /\ MadeFor(acc, s)' /\ ActiveSubs(acc)' = {}
           /\ \A b \in Accounts \ {acc} : account'[b] = account[b]
  <1>1. acc \in Accounts /\ account[acc].st = "unused" BY DEF NextAccount
  <1>2. /\ account' \in [Accounts -> Account]
        /\ account'[acc] = [of |-> s, st |-> "live", token |-> "none"]
        /\ \A b \in Accounts \ {acc} : account'[b] = account[b]
    BY <1>1 DEF Created, AccountsTyped, Account
  <1>3. acc # 0 BY <1>1, LlmAssumption DEF Accounts
  <1>4. ActiveSubs(acc) = {} BY <1>1 DEF ActiveSubs, OnlyLive, LiveAccount
  <1>5. \A b : ActiveSubs(b)' = ActiveSubs(b) BY DEF ActiveSubs
  <1>6. MadeFor(acc, s)' /\ ActiveSubs(acc)' = {} BY <1>1, <1>2, <1>4, <1>5 DEF MadeFor, Accounts
  <1>7. OthersKept(s) BY <1>1, <1>2, <1>5 DEF OthersKept, MadeFor
  <1>8. OnlyLive'
    <2>1. \A b \in Accounts : account'[b].token # "none" => account'[b].st = "live"
      BY <1>2 DEF OnlyLive
    <2>2. \A b \in Accounts : account[b].st = "live" => account'[b].st = "live" BY <1>1, <1>2
    <2>3. \A q \in Subs : subs[q].st = "active" => LiveAccount(subs[q].acc)'
      BY <2>2, LiveOnes DEF OnlyLive, LiveAccount
    <2> QED BY <2>1, <2>3 DEF OnlyLive
  <1>9. OriginsKept BY <1>1, <1>2 DEF OriginsKept, MadeFor, MadeSub, LiveAccount
  <1> QED BY <1>1, <1>2, <1>6, <1>7, <1>8, <1>9 DEF NewapiKept, AccountsTyped, SubsTyped

LEMMA SubscriptionBound ==
    ASSUME AccountsTyped, SubsTyped, OnlyLive, NEW s \in KeyServers, NEW acc \in Accounts,
           MadeFor(acc, s), NEW plan \in {0} \cup LlmPlans, Bound(acc, plan), UNCHANGED account
    PROVE  /\ NewapiKept /\ OthersKept(s)
           /\ ActiveSubs(acc) = {} => \E q \in Subs : SubIs(acc, q, plan)'
           /\ \A q \in ActiveSubs(acc)' : MadeSub(q, s)'
  <1>1. PICK q \in NextSub : subs' = [subs EXCEPT ![q] = [acc |-> acc, plan |-> plan, st |-> "active"]]
    BY DEF Bound
  <1>2. q \in Subs /\ subs[q].st = "unused" BY DEF NextSub
  <1>3. [acc |-> acc, plan |-> plan, st |-> "active"] \in Sub BY DEF Sub, Accounts
  <1>4. /\ subs' \in [Subs -> Sub]
        /\ subs'[q] = [acc |-> acc, plan |-> plan, st |-> "active"]
        /\ \A p \in Subs \ {q} : subs'[p] = subs[p]
    BY <1>1, <1>2, <1>3 DEF SubsTyped
  <1>5. LiveAccount(acc) BY DEF Bound
  <1>6. ActiveSubs(acc)' = ActiveSubs(acc) \cup {q} BY <1>2, <1>4 DEF ActiveSubs
  <1>7. \A b \in Accounts \ {acc} : ActiveSubs(b)' = ActiveSubs(b) BY <1>2, <1>4 DEF ActiveSubs
  <1>8. OthersKept(s)
    <2>1. ASSUME NEW t \in KeyServers \ {s}, NEW b \in Accounts, MadeFor(b, t)
          PROVE  ActiveSubs(b)' = ActiveSubs(b) /\ \A p \in ActiveSubs(b) : subs'[p] = subs[p]
      <3>1. b # acc BY <2>1 DEF MadeFor
      <3> QED BY <3>1, <1>2, <1>4, <1>7 DEF ActiveSubs
    <2> QED BY <2>1 DEF OthersKept
  <1>9. OnlyLive' BY <1>4, <1>5 DEF OnlyLive, LiveAccount
  <1>10. MadeFor(acc, s)' BY DEF MadeFor
  <1>11. OriginsKept BY <1>2, <1>4 DEF OriginsKept, MadeFor, MadeSub, LiveAccount
  <1>12. ActiveSubs(acc) = {} => SubIs(acc, q, plan)' BY <1>2, <1>4, <1>6 DEF SubIs
  <1>13. \A p \in ActiveSubs(acc)' : MadeSub(p, s)' BY <1>10 DEF ActiveSubs, MadeSub
  <1> QED BY <1>2, <1>4, <1>8, <1>9, <1>11, <1>12, <1>13 DEF NewapiKept, AccountsTyped, SubsTyped

LEMMA SubscriptionCancelled ==
    ASSUME AccountsTyped, SubsTyped, OnlyLive, NEW s \in KeyServers, NEW q \in 0..MaxSubs,
           q # 0 => MadeSub(q, s), Cancelled(q), UNCHANGED account
    PROVE  /\ NewapiKept /\ OthersKept(s)
           /\ \A acc \in Accounts : ActiveSubs(acc)' = ActiveSubs(acc) \ {q}
  <1>1. CASE q = 0
    <2>1. subs' = subs BY <1>1 DEF Cancelled, Subs, SubsTyped
    <2>2. 0 \notin Subs BY LlmAssumption DEF Subs
    <2> QED BY <1>1, <2>1, <2>2, NewapiStays DEF newapi, ActiveSubs
  <1>2. CASE q # 0
    <2>1. q \in Subs BY <1>2, LlmAssumption DEF Subs
    <2>2. /\ subs' \in [Subs -> Sub] /\ subs'[q] = [subs[q] EXCEPT !.st = "cancelled"]
          /\ \A p \in Subs \ {q} : subs'[p] = subs[p]
      BY <2>1 DEF Cancelled, SubsTyped, Sub
    <2>3. subs'[q].st = "cancelled" /\ subs'[q].acc = subs[q].acc BY <2>1, <2>2 DEF SubsTyped, Sub
    <2>4. \A acc \in Accounts : ActiveSubs(acc)' = ActiveSubs(acc) \ {q} BY <2>2, <2>3 DEF ActiveSubs
    <2>5. OthersKept(s)
      <3>1. ASSUME NEW t \in KeyServers \ {s}, NEW b \in Accounts, MadeFor(b, t)
            PROVE  ActiveSubs(b)' = ActiveSubs(b) /\ \A p \in ActiveSubs(b) : subs'[p] = subs[p]
        <4>1. subs[q].acc # b BY <1>2, <3>1 DEF MadeSub, MadeFor
        <4> QED BY <4>1, <2>2, <2>4 DEF ActiveSubs
      <3> QED BY <3>1 DEF OthersKept
    <2>6. OnlyLive' BY <2>2, <2>3 DEF OnlyLive, LiveAccount
    <2>7. OriginsKept BY <2>1, <2>2, <2>3 DEF OriginsKept, MadeFor, MadeSub, LiveAccount
    <2> QED BY <2>2, <2>4, <2>5, <2>6, <2>7 DEF NewapiKept, AccountsTyped, SubsTyped
  <1> QED BY <1>1, <1>2

LEMMA TokenWritten ==
    ASSUME AccountsTyped, SubsTyped, OnlyLive, NEW s \in KeyServers, NEW acc \in Accounts,
           MadeFor(acc, s), NEW state \in {"on", "off"}, TokenSet(acc, state), UNCHANGED subs
    PROVE  /\ NewapiKept /\ OthersKept(s)
           /\ account'[acc].token = state
           /\ \A b : ActiveSubs(b)' = ActiveSubs(b)
  <1>1. LiveAccount(acc) BY DEF TokenSet
  <1>2. /\ account' \in [Accounts -> Account] /\ account'[acc] = [account[acc] EXCEPT !.token = state]
        /\ \A b \in Accounts \ {acc} : account'[b] = account[b]
    BY DEF TokenSet, AccountsTyped, Account
  <1>3. account'[acc].token = state /\ account'[acc].st = account[acc].st /\ account'[acc].of = account[acc].of
    BY <1>2 DEF AccountsTyped, Account
  <1>4. \A b : ActiveSubs(b)' = ActiveSubs(b) BY DEF ActiveSubs
  <1>5. OthersKept(s) BY <1>2, <1>4 DEF OthersKept, MadeFor
  <1>6. OnlyLive'
    <2>1. \A b \in Accounts : account'[b].token # "none" => account'[b].st = "live"
      BY <1>1, <1>2, <1>3 DEF OnlyLive, LiveAccount
    <2>2. \A b \in Accounts : account'[b].st = account[b].st BY <1>2, <1>3
    <2>3. \A q \in Subs : subs[q].st = "active" => LiveAccount(subs[q].acc)'
      BY <2>2, LiveOnes DEF OnlyLive, LiveAccount
    <2> QED BY <2>1, <2>3 DEF OnlyLive
  <1>7. OriginsKept BY <1>2, <1>3 DEF OriginsKept, MadeFor, MadeSub, LiveAccount
  <1> QED BY <1>2, <1>3, <1>4, <1>5, <1>6, <1>7 DEF NewapiKept, AccountsTyped, SubsTyped

LEMMA AccountErased ==
    ASSUME AccountsTyped, SubsTyped, OnlyLive, NEW s \in KeyServers, NEW acc \in Accounts,
           MadeFor(acc, s), Erased(acc)
    PROVE  NewapiKept /\ OthersKept(s) /\ ~LiveAccount(acc)'
  <1>1. /\ account' \in [Accounts -> Account]
        /\ account'[acc] = [account[acc] EXCEPT !.st = "gone", !.token = "none"]
        /\ \A b \in Accounts \ {acc} : account'[b] = account[b]
    BY DEF Erased, AccountsTyped, Account
  <1>2. account'[acc].st = "gone" /\ account'[acc].token = "none" /\ account'[acc].of = account[acc].of
    BY <1>1 DEF AccountsTyped, Account
  <1>3. \A q \in Subs : subs'[q] = IF subs[q].acc = acc /\ subs[q].st = "active"
                                   THEN [subs[q] EXCEPT !.st = "cancelled"] ELSE subs[q]
    BY DEF Erased
  <1>4. subs' \in [Subs -> Sub]
    <2>1. \A q \in Subs : [subs[q] EXCEPT !.st = "cancelled"] \in Sub /\ subs[q] \in Sub
      BY DEF SubsTyped, Sub
    <2> QED BY <2>1 DEF Erased
  <1>5. \A q \in Subs : /\ subs'[q].acc = subs[q].acc
                        /\ subs[q].st # "unused" <=> subs'[q].st # "unused"
                        /\ subs'[q].st = "active" => subs[q].st = "active" /\ subs[q].acc # acc
    BY <1>3 DEF SubsTyped, Sub
  <1>6. \A b \in Accounts \ {acc} : ActiveSubs(b)' = ActiveSubs(b) /\ \A q \in ActiveSubs(b) : subs'[q] = subs[q]
    BY <1>3, <1>5 DEF ActiveSubs
  <1>7. OthersKept(s) BY <1>1, <1>6 DEF OthersKept, MadeFor
  <1>8. OnlyLive'
    <2>1. \A b \in Accounts : account'[b].token # "none" => account'[b].st = "live"
      BY <1>1, <1>2 DEF OnlyLive
    <2>2. \A q \in Subs : subs'[q].st = "active" => LiveAccount(subs[q].acc)'
      BY <1>1, <1>5, LiveOnes DEF OnlyLive, LiveAccount
    <2> QED BY <2>1, <2>2 DEF OnlyLive
  <1>9. \A b \in Accounts : account'[b].of = account[b].of /\ account'[b].st \in {account[b].st, "gone"}
    BY <1>1, <1>2
  <1>10. \A b \in Accounts, t \in KeyServers : MadeFor(b, t) => MadeFor(b, t)'
    BY <1>9 DEF MadeFor
  <1>11. OriginsKept BY <1>5, <1>9, <1>10 DEF OriginsKept, MadeSub, MadeFor, LiveAccount
  <1> QED BY <1>1, <1>2, <1>4, <1>7, <1>8, <1>11 DEF NewapiKept, AccountsTyped, SubsTyped, LiveAccount

-------------------------------------------------------------------------------
(* Every step keeps requests, rows and accounts in order *)

LEMMA CallKept ==
    ASSUME LlmInOrder, NewapiKept, lost \subseteq lost', NEW a \in KeyActors, call'[a] = call[a]
    PROVE  CallInOrder(a)'
  <1>1. /\ call[a].row.acc # 0 => call[a].row.acc \in Accounts
        /\ call[a].row.sub # 0 => call[a].row.sub \in Subs
    BY LlmAssumption DEF LlmInOrder, LlmTyped, KeyCallsTyped, KeyCall, KeyRow, Accounts, Subs
  <1>2. CallInOrder(a) BY DEF LlmInOrder
  <1>3. call[a].s \in KeyServers =>
            /\ MadeFor(call[a].row.acc, call[a].s) => MadeFor(call[a].row.acc, call[a].s)'
            /\ MadeSub(call[a].row.sub, call[a].s) => call[a].row.sub = 0 \/ MadeSub(call[a].row.sub, call[a].s)'
    BY <1>1 DEF NewapiKept, OriginsKept, MadeFor
  <1>4. MadeFor(call[a].row.acc, call[a].s) /\ LiveAccount(call[a].row.acc)' => LiveAccount(call[a].row.acc)
    BY DEF NewapiKept, OriginsKept, MadeFor
  <1>5. call[a].pc = "idle" => call[a].row.acc = 0 /\ call[a].row.sub = 0 BY <1>2 DEF CallInOrder, NoCall, NoKey
  <1> QED BY <1>2, <1>3, <1>4, <1>5 DEF CallInOrder, Making, Rebinding, Setting

LEMMA CallEndsInOrder ==
    ASSUME NEW a \in KeyActors, call'[a] = NoCall
    PROVE  CallInOrder(a)' /\ (a = Sync => SyncInOrder')
  BY LlmAssumption DEF CallInOrder, SyncInOrder, NoCall, NoKey, Making, Rebinding, Setting

LEMMA CallMovesInOrder ==
    ASSUME LlmInOrder, NewapiKept, lost \subseteq lost', NEW a \in KeyActors, NEW pc, CallMoves(a, pc),
           call[a].pc \notin {"idle", "next", "account"},
           \/ call[a].pc \in Making /\ pc \in {"bind", "token", "insert", "cleanup"}
           \/ call[a].pc \in Rebinding /\ pc \in {"rebind", "fetch", "save"}
           \/ call[a].pc \in Setting /\ pc = "savestatus"
           \/ /\ call[a].pc = "remove" /\ pc = "delkey"
              /\ ~LiveAccount(call[a].row.acc)' \/ call[a].row.acc \in lost'
           \/ call[a].pc = "delkey" /\ pc = "drop" /\ call[a].kind = "delete"
    PROVE  CallInOrder(a)'
  <1>1. CallInOrder(a) BY DEF LlmInOrder
  <1>2. call[a].s \in KeyServers BY <1>1 DEF CallInOrder
  <1>3. /\ call[a].row.acc # 0 => MadeFor(call[a].row.acc, call[a].s)'
        /\ call[a].row.sub # 0 => MadeSub(call[a].row.sub, call[a].s)'
    <2>1. call[a].row.acc # 0 => call[a].row.acc \in Accounts
      BY <1>1 DEF CallInOrder, MadeFor
    <2>2. call[a].row.sub # 0 => call[a].row.sub \in Subs
      BY LlmAssumption DEF LlmInOrder, LlmTyped, KeyCallsTyped, KeyCall, KeyRow, Subs
    <2> QED BY <1>1, <1>2, <2>1, <2>2 DEF NewapiKept, OriginsKept, CallInOrder, CallMoves, Making, Rebinding, Setting
  <1> QED BY <1>1, <1>2, <1>3 DEF CallInOrder, CallMoves, Making, Rebinding, Setting

LEMMA InOrder ==
    ASSUME LlmInOrder, NEW a \in KeyActors, NEW s \in KeyServers,
           LlmTyped', NewapiKept, lost \subseteq lost', KeylessGone',
           \A b \in KeyActors \ {a} : call'[b] = call[b],
           CallInOrder(a)', a = Sync => SyncInOrder',
           \A t \in KeyServers \ {s} : key'[t] = key[t],
           RowOwn(s)', Has(s)' \/ s \notin call[Sync].done
    PROVE  LlmInOrder'
  <1>1. ASSUME NEW b \in KeyActors PROVE CallInOrder(b)' BY CallKept
  <1>2. ASSUME NEW t \in KeyServers PROVE RowOwn(t)'
    <2>1. CASE t = s BY <2>1
    <2>2. CASE t # s
      <3>1. key'[t] = key[t] /\ RowOwn(t) BY <2>2 DEF LlmInOrder, RowsOwn
      <3>2. key[t].acc # 0 => key[t].acc \in Accounts BY <3>1 DEF RowOwn, MadeFor, NoKey
      <3>3. key[t].sub # 0 => key[t].sub \in Subs
        BY LlmAssumption DEF LlmInOrder, LlmTyped, KeysTyped, KeyRow, Subs
      <3>4. MadeFor(key[t].acc, t) => MadeFor(key[t].acc, t)'
        BY <3>1 DEF NewapiKept, OriginsKept, MadeFor
      <3>5. key[t].sub # 0 => (MadeSub(key[t].sub, t) => MadeSub(key[t].sub, t)')
        BY <3>1, <3>3 DEF NewapiKept, OriginsKept
      <3> QED BY <3>1, <3>4, <3>5 DEF RowOwn, Has
    <2> QED BY <2>1, <2>2
  <1>3. SyncInOrder'
    <2>1. CASE a = Sync BY <2>1
    <2>2. CASE a # Sync
      <3>1. call'[Sync] = call[Sync] /\ SyncInOrder BY <2>2 DEF KeyActors, LlmInOrder
      <3>2. \A t \in call[Sync].done : Has(t)'
        BY <3>1 DEF SyncInOrder, Has, LlmInOrder, LlmTyped, KeyCallsTyped, KeyCall, KeyActors
      <3>3. \A t \in KeyServers : /\ call[Sync].seen[t].acc \in 0..MaxAccounts
                                  /\ call[Sync].seen[t].sub \in 0..MaxSubs
        BY DEF LlmInOrder, LlmTyped, KeyCallsTyped, KeyCall, KeyActors, KeyRow
      <3>4. \A t \in KeyServers : call[Sync].seen[t].acc # 0 => MadeFor(call[Sync].seen[t].acc, t)'
        BY <3>1, <3>3 DEF SyncInOrder, NewapiKept, OriginsKept, MadeFor
      <3>5. \A t \in KeyServers : call[Sync].seen[t].sub # 0 => MadeSub(call[Sync].seen[t].sub, t)'
        <4>1. \A t \in KeyServers : call[Sync].seen[t].sub # 0 => call[Sync].seen[t].sub \in Subs
          BY <3>3, LlmAssumption DEF Subs
        <4> QED BY <3>1, <4>1 DEF SyncInOrder, NewapiKept, OriginsKept
      <3> QED BY <3>1, <3>2, <3>4, <3>5 DEF SyncInOrder, Target
    <2> QED BY <2>1, <2>2
  <1> QED BY <1>1, <1>2, <1>3 DEF LlmInOrder, RowsOwn, NewapiKept

LEMMA OwnersKept ==
    ASSUME LlmInOrder, NoStrayAccount, NewapiKept, NEW a \in KeyActors, NEW s \in KeyServers,
           lost \subseteq lost',
           \A b \in KeyActors \ {a} : call'[b] = call[b],
           \A t \in KeyServers \ {s} : key'[t] = key[t],
           \A acc \in Accounts : key[s].acc = acc =>
               key'[s].acc = acc \/ acc \in lost' \/ ~LiveAccount(acc)',
           \A acc \in Accounts : call[a].kind = "provision" /\ call[a].row.acc = acc =>
               \/ call'[a].kind = "provision" /\ call'[a].row.acc = acc
               \/ acc \in lost' \/ ~LiveAccount(acc)' \/ key'[s].acc = acc,
           \A acc \in Accounts : account[acc].st = "unused" /\ LiveAccount(acc)' =>
               acc \in lost' \/ (call'[a].kind = "provision" /\ call'[a].row.acc = acc)
    PROVE  NoStrayAccount'
  <1> SUFFICES ASSUME NEW acc \in Accounts, LiveAccount(acc)' PROVE Owned(acc)'
    BY DEF NoStrayAccount
  <1>1. CASE account[acc].st = "unused" BY <1>1 DEF Owned
  <1>2. CASE account[acc].st # "unused"
    <2>1. LiveAccount(acc) BY <1>2 DEF NewapiKept, OriginsKept
    <2>2. Owned(acc) BY <2>1 DEF NoStrayAccount
    <2> QED BY <2>2 DEF Owned
  <1> QED BY <1>1, <1>2

-------------------------------------------------------------------------------
(* A step about one server leaves the others settled *)

LEMMA SidesKept ==
    ASSUME NEW s \in KeyServers, NEW t \in KeyServers \ {s}, OthersKept(s), NEW acc, MadeFor(acc, t)
    PROVE  /\ ActiveSubs(acc)' = ActiveSubs(acc)
           /\ \A st : TokenIs(acc, st) => TokenIs(acc, st)'
           /\ \A q, plan : SubIs(acc, q, plan) => SubIs(acc, q, plan)'
  <1>1. acc \in Accounts BY DEF MadeFor
  <1>2. /\ account'[acc] = account[acc] /\ ActiveSubs(acc)' = ActiveSubs(acc)
        /\ \A q \in ActiveSubs(acc) : subs'[q] = subs[q]
    BY <1>1 DEF OthersKept
  <1> QED BY <1>2 DEF SubIs, TokenIs

LEMMA SettledKept ==
    ASSUME LlmInOrder, NEW s \in KeyServers, NEW t \in KeyServers \ {s}, OthersKept(s),
           key'[t] = key[t], Settled(t)
    PROVE  Settled(t)'
  <1>1. Has(t) => MadeFor(key[t].acc, t) BY DEF LlmInOrder, RowsOwn, RowOwn
  <1>2. Has(t)' <=> Has(t) BY DEF Has
  <1>3. ASSUME Has(t) PROVE Settled(t)'
    <2>1. TokenIs(key[t].acc, key[t].st) /\ SubIs(key[t].acc, key[t].sub, key[t].plan)
      BY <1>3 DEF Settled
    <2> QED BY <1>1, <1>3, <2>1, SidesKept DEF Settled
  <1> QED BY <1>2, <1>3 DEF Settled

LEMMA FitsKept ==
    ASSUME LlmInOrder, NEW s \in KeyServers, OthersKept(s), NEW b \in KeyActors,
           call[b].s \in KeyServers \ {s}, call'[b] = call[b], key'[call[b].s] = key[call[b].s], Fits(b)
    PROVE  Fits(b)'
  <1> DEFINE r == call[b].row
  <1>1. CallInOrder(b) BY DEF LlmInOrder
  <1>2. call[b].pc \in (Making \ {"account"}) \cup Rebinding \cup Setting => MadeFor(r.acc, call[b].s)
    BY <1>1 DEF CallInOrder, Making, Rebinding, Setting
  <1>3. MadeFor(r.acc, call[b].s) =>
            /\ ActiveSubs(r.acc)' = ActiveSubs(r.acc)
            /\ \A st : TokenIs(r.acc, st) => TokenIs(r.acc, st)'
            /\ \A q, plan : SubIs(r.acc, q, plan) => SubIs(r.acc, q, plan)'
    BY SidesKept
  <1>4. Settled(call[b].s) => Settled(call[b].s)'
    BY SettledKept
  <1>5. Has(call[b].s)' <=> Has(call[b].s) BY DEF Has
  <1> QED BY <1>2, <1>3, <1>4, <1>5 DEF Fits, Making, Rebinding, Setting

LEMMA SyncKept ==
    ASSUME LlmInOrder, NEW s \in KeyServers, NEW t \in KeyServers \ {s}, OthersKept(s), key'[t] = key[t],
           SyncFits(t), call'[Sync].todo = call[Sync].todo, call'[Sync].done = call[Sync].done,
           call'[Sync].seen = call[Sync].seen, call'[Sync].held = call[Sync].held,
           call'[Sync].s = t => call'[Sync] = call[Sync]
    PROVE  SyncFits(t)'
  <1>1. t \in call[Sync].done => MadeFor(key[t].acc, t)
    BY DEF LlmInOrder, SyncInOrder, RowsOwn, RowOwn
  <1>2. t \in call[Sync].done => TokenIs(key[t].acc, Target(t))' /\ SubIs(key[t].acc, key[t].sub, key[t].plan)'
    <2>1. Target(t)' = Target(t) BY DEF Target
    <2>2. ASSUME t \in call[Sync].done
          PROVE  TokenIs(key[t].acc, Target(t)) /\ SubIs(key[t].acc, key[t].sub, key[t].plan)
      BY <2>2 DEF SyncFits
    <2> QED BY <1>1, <2>1, <2>2, SidesKept
  <1>3. Settled(t) => Settled(t)' BY SettledKept
  <1>4. Has(t)' <=> Has(t) BY DEF Has
  <1> QED BY <1>2, <1>3, <1>4 DEF SyncFits

\* What a step about its server s must show of s alone.
LEMMA CalmKept ==
    ASSUME LlmInOrder, CalmFits, NEW a \in KeyActors, NEW s \in KeyServers, call[a].s = s,
           OthersKept(s), calm' \subseteq calm,
           \A b \in KeyActors \ {a} : call'[b] = call[b],
           \A t \in KeyServers \ {s} : key'[t] = key[t],
           \/ call'[a] = NoCall /\ a # Sync
           \/ /\ call'[a].s = s
              /\ call'[a].todo = call[a].todo /\ call'[a].done = call[a].done
              /\ call'[a].seen = call[a].seen /\ call'[a].held = call[a].held,
           s \in calm' => /\ call'[a].s = s => Fits(a)'
                          /\ call'[a] = NoCall => Settled(s)'
                          /\ a = Sync => SyncFits(s)',
           calm \subseteq KeyServers
    PROVE  CalmFits'
  <1>1. \A b \in KeyActors, t \in KeyServers : Works(b, t)' => Works(b, t)
    BY LlmAssumption DEF Works, NoCall
  <1>2. OneAtATime' BY <1>1 DEF CalmFits, OneAtATime
  <1>3. \A t \in KeyServers \ {s}, b \in KeyActors : Works(b, t) => Works(b, t)'
    <2>1. a # Sync => call[a].todo = {} /\ call[a].done = {} BY DEF LlmInOrder, CallInOrder
    <2> QED BY <2>1 DEF Works
  <1>4. ASSUME NEW t \in KeyServers, t \in calm', t # s
        PROVE  /\ \A b \in KeyActors : call'[b].s = t => Fits(b)'
               /\ SyncFits(t)'
               /\ ~Busy(t)' => Settled(t)'
    <2>1. t \in calm /\ t \in KeyServers \ {s} BY <1>4
    <2>2. ASSUME NEW b \in KeyActors, call'[b].s = t PROVE Fits(b)'
      <3>1. b # a BY <2>2, <2>1, LlmAssumption DEF NoCall
      <3>2. call'[b] = call[b] /\ Fits(b) BY <2>1, <2>2, <3>1 DEF CalmFits
      <3> QED BY <2>1, <2>2, <3>2, FitsKept
    <2>3. SyncFits(t)'
      <3>1. SyncFits(t) BY <2>1 DEF CalmFits
      <3>2. /\ call'[Sync].todo = call[Sync].todo /\ call'[Sync].done = call[Sync].done
            /\ call'[Sync].seen = call[Sync].seen /\ call'[Sync].held = call[Sync].held
            /\ call'[Sync].s = t => call'[Sync] = call[Sync]
        BY <2>1 DEF KeyActors
      <3> QED BY <2>1, <3>1, <3>2, SyncKept
    <2>4. ~Busy(t)' => Settled(t)'
      <3>1. ~Busy(t)' => ~Busy(t) BY <1>3, <2>1 DEF Busy, Works
      <3> QED BY <2>1, <3>1, SettledKept DEF CalmFits
    <2> QED BY <2>2, <2>3, <2>4
  <1>5. ASSUME s \in calm'
        PROVE  /\ \A b \in KeyActors : call'[b].s = s => Fits(b)'
               /\ SyncFits(s)'
               /\ ~Busy(s)' => Settled(s)'
    <2>1. s \in calm /\ Works(a, s) BY <1>5 DEF Works
    <2>2. \A b \in KeyActors \ {a} : ~Works(b, s) BY <2>1 DEF CalmFits, OneAtATime
    <2>3. \A b \in KeyActors : call'[b].s = s => b = a BY <2>2 DEF Works
    <2>4. SyncFits(s)'
      <3>1. CASE a = Sync BY <3>1, <1>5
      <3>2. CASE a # Sync
        <4>1. call'[Sync] = call[Sync] /\ ~Works(Sync, s) BY <2>2, <3>2 DEF KeyActors
        <4> QED BY <4>1 DEF SyncFits, Works
      <3> QED BY <3>1, <3>2
    <2>5. ~Busy(s)' => call'[a] = NoCall BY DEF Busy
    <2> QED BY <1>5, <2>3, <2>4, <2>5
  <1>6. \A t \in calm' : SyncFits(t)'
    BY <1>4, <1>5
  <1>7. \A t \in calm', b \in KeyActors : (call[b].s = t)' => Fits(b)'
    BY <1>4, <1>5
  <1>8. \A t \in calm' : (~Busy(t))' => Settled(t)'
    BY <1>4, <1>5
  <1> QED BY <1>2, <1>6, <1>7, <1>8 DEF CalmFits

-------------------------------------------------------------------------------
(* A step of one request *)

LlmInv == LlmInOrder /\ NoStrayAccount /\ CalmFits

\* Of what is not about its server s and of other requests, a step of a changes nothing.
StepOf(a, s) ==
    /\ NewapiKept /\ OthersKept(s)
    /\ KeyCallsTyped' /\ BudgetTyped' /\ MarksTyped'
    /\ lost \subseteq lost' /\ calm' \subseteq calm
    /\ \A b \in KeyActors \ {a} : call'[b] = call[b]
    /\ \/ call'[a] = NoCall /\ a # Sync
       \/ /\ call'[a].s = s
          /\ call'[a].todo = call[a].todo /\ call'[a].done = call[a].done
          /\ call'[a].seen = call[a].seen /\ call'[a].held = call[a].held

\* A provisioning keeps its account, or loses it, or gives it to the row; a new account is its own.
KeepsAccounts(a, s) ==
    \A acc \in Accounts :
        /\ call[a].kind = "provision" /\ call[a].row.acc = acc =>
               \/ call'[a].kind = "provision" /\ call'[a].row.acc = acc
               \/ acc \in lost' \/ ~LiveAccount(acc)' \/ key'[s].acc = acc
        /\ account[acc].st = "unused" /\ LiveAccount(acc)' =>
               acc \in lost' \/ (call'[a].kind = "provision" /\ call'[a].row.acc = acc)

\* What is left at a calm server.
LeavesCalm(a, s) ==
    s \in calm' => /\ call'[a].s = s => Fits(a)'
                   /\ call'[a] = NoCall => Settled(s)'
                   /\ a = Sync => SyncFits(s)'

LEMMA AtWork ==
    ASSUME LlmInv, NEW a \in KeyActors, call[a].pc \notin {"idle", "next"}
    PROVE  /\ call[a] \in KeyCall /\ call[a].s \in KeyServers /\ CallInOrder(a)
           /\ call[a].s \in calm => Fits(a)
           /\ call[a].row.acc # 0 => call[a].row.acc \in Accounts /\ MadeFor(call[a].row.acc, call[a].s)
           /\ call[a].row.sub # 0 => call[a].row.sub \in Subs /\ MadeSub(call[a].row.sub, call[a].s)
           /\ call[a].row \in KeyRow
           /\ call[a].pc \notin Setting => a # Sync
           /\ AccountsTyped /\ SubsTyped /\ OnlyLive /\ KeyCallsTyped /\ BudgetTyped /\ MarksTyped
           /\ KeysTyped /\ ServersTyped
  <1>1. call[a] \in KeyCall /\ CallInOrder(a) BY DEF LlmInv, LlmInOrder, LlmTyped, KeyCallsTyped
  <1>2. call[a].s \in KeyServers /\ call[a].row \in KeyRow BY <1>1 DEF CallInOrder, KeyCall
  <1>3. call[a].s \in calm => Fits(a) BY DEF LlmInv, CalmFits
  <1>4. call[a].row.acc # 0 => MadeFor(call[a].row.acc, call[a].s) BY <1>1 DEF CallInOrder
  <1>5. call[a].row.sub # 0 => call[a].row.sub \in Subs /\ MadeSub(call[a].row.sub, call[a].s)
    BY <1>1, <1>2, LlmAssumption DEF CallInOrder, KeyRow, Subs
  <1>6. call[a].pc \notin Setting => a # Sync
    <2> SUFFICES ASSUME call[a].pc \notin Setting, a = Sync PROVE FALSE
      OBVIOUS
    <2>1. call[a].kind \in {"sync", "none"} BY <1>1 DEF CallInOrder
    <2>2. call[a].pc \in KeySteps \ {"idle", "next", "commit"} BY <1>1 DEF CallInOrder, KeyCall
    <2> QED BY <1>1, <2>1, <2>2 DEF CallInOrder, Making, Rebinding, Setting, KeySteps
  <1> QED BY <1>1, <1>2, <1>3, <1>4, <1>5, <1>6 DEF LlmInv, LlmInOrder, LlmTyped, MadeFor

LEMMA StepKeeps ==
    ASSUME LlmInv, NEW a \in KeyActors, NEW s \in KeyServers, call[a].s = s, StepOf(a, s),
           KeepsAccounts(a, s), KeysTyped', ServersTyped', KeylessGone',
           CallInOrder(a)', a = Sync => SyncInOrder',
           \A t \in KeyServers \ {s} : key'[t] = key[t],
           RowOwn(s)', Has(s)' \/ s \notin call[Sync].done,
           \A acc \in Accounts : key[s].acc = acc =>
               key'[s].acc = acc \/ acc \in lost' \/ ~LiveAccount(acc)',
           LeavesCalm(a, s)
    PROVE  LlmInv'
  <1>1. LlmTyped' BY DEF StepOf, LlmTyped, NewapiKept
  <1>2. LlmInOrder' BY <1>1, InOrder DEF LlmInv, StepOf
  <1>4. NoStrayAccount'
    BY OwnersKept DEF LlmInv, StepOf, KeepsAccounts
  <1>5. CalmFits'
    <2>1. calm \subseteq KeyServers BY DEF LlmInv, LlmInOrder, LlmTyped, MarksTyped
    <2> QED BY <2>1, CalmKept DEF LlmInv, StepOf, LeavesCalm
  <1> QED BY <1>2, <1>4, <1>5 DEF LlmInv

LEMMA RowStays ==
    ASSUME LlmInOrder, NewapiKept, NEW s \in KeyServers, key'[s] = key[s]
    PROVE  RowOwn(s)'
  <1>1. RowOwn(s) BY DEF LlmInOrder, RowsOwn
  <1>2. key[s].acc # 0 => key[s].acc \in Accounts BY <1>1 DEF RowOwn, MadeFor, NoKey
  <1>3. key[s].sub # 0 => key[s].sub \in Subs
    BY LlmAssumption DEF LlmInOrder, LlmTyped, KeysTyped, KeyRow, Subs
  <1>4. MadeFor(key[s].acc, s) => MadeFor(key[s].acc, s)'
    BY DEF NewapiKept, OriginsKept, MadeFor
  <1>5. key[s].sub # 0 => (MadeSub(key[s].sub, s) => MadeSub(key[s].sub, s)')
    BY <1>3 DEF NewapiKept, OriginsKept
  <1> QED BY <1>1, <1>4, <1>5 DEF RowOwn, Has

\* A step that writes no row.
LEMMA NewapiStepKeeps ==
    ASSUME LlmInv, NEW a \in KeyActors, NEW s \in KeyServers, call[a].s = s, StepOf(a, s),
           KeepsAccounts(a, s), UNCHANGED <<servers, key>>,
           CallInOrder(a)', a = Sync => SyncInOrder', LeavesCalm(a, s)
    PROVE  LlmInv'
  <1>6. RowOwn(s)' BY RowStays DEF LlmInv, StepOf
  <1>7. KeylessGone' BY DEF KeylessGone, Has, LlmInv, LlmInOrder
  <1>8. KeysTyped' /\ ServersTyped' BY DEF KeysTyped, ServersTyped, LlmInv, LlmInOrder, LlmTyped
  <1>9. Has(s)' \/ s \notin call[Sync].done BY DEF LlmInv, LlmInOrder, SyncInOrder, Has
  <1> QED BY <1>6, <1>7, <1>8, <1>9, StepKeeps

LEMMA SyncMovesInOrder ==
    ASSUME LlmInOrder, NewapiKept, NEW pc, CallMoves(Sync, pc), UNCHANGED key,
           pc \in Setting => call[Sync].pc \in Setting
    PROVE  SyncInOrder'
  <1>1. SyncInOrder BY DEF LlmInOrder
  <1>2. \A t \in KeyServers : /\ call[Sync].seen[t].acc \in 0..MaxAccounts
                              /\ call[Sync].seen[t].sub \in 0..MaxSubs
    BY DEF LlmInOrder, LlmTyped, KeyCallsTyped, KeyCall, KeyActors, KeyRow
  <1> DEFINE seen == call[Sync].seen
  <1>0. call'[Sync].seen = seen BY DEF CallMoves
  <1>3. \A t \in KeyServers : call'[Sync].seen[t].acc # 0 => MadeFor(call[Sync].seen[t].acc, t)'
    BY <1>0, <1>1, <1>2 DEF SyncInOrder, NewapiKept, OriginsKept, MadeFor
  <1>4. \A t \in KeyServers : call'[Sync].seen[t].sub # 0 => MadeSub(call[Sync].seen[t].sub, t)'
    <2>1. \A t \in KeyServers : call[Sync].seen[t].sub # 0 => call[Sync].seen[t].sub \in Subs
      BY <1>2, LlmAssumption DEF Subs
    <2> QED BY <1>0, <1>1, <2>1 DEF SyncInOrder, NewapiKept, OriginsKept
  <1>5. \A t : Has(t)' <=> Has(t) BY DEF Has
  <1>6. \A t : Target(t)' = Target(t) BY DEF Target, CallMoves
  <1> QED BY <1>1, <1>3, <1>4, <1>5, <1>6 DEF SyncInOrder, CallMoves

\* A step that makes no account.
NoneMade == \A acc \in Accounts : account[acc].st = "unused" => ~LiveAccount(acc)'

LEMMA NothingMade ==
    ASSUME AccountsTyped, NEW acc \in Accounts,
           UNCHANGED account \/ TokenSet(acc, "on") \/ TokenSet(acc, "off") \/ Erased(acc)
    PROVE  NoneMade
  <1>1. CASE UNCHANGED account BY <1>1 DEF NoneMade, LiveAccount
  <1>2. CASE account[acc].st = "live" /\ \A b \in Accounts \ {acc} : account'[b] = account[b]
    BY <1>2 DEF NoneMade, LiveAccount
  <1> QED BY <1>1, <1>2 DEF TokenSet, Erased, LiveAccount, AccountsTyped

\* A request goes on to its next step with the row it has.
LEMMA MoveKeeps ==
    ASSUME LlmInv, NEW a \in KeyActors, a # Sync, NEW s \in KeyServers, call[a].s = s,
           NEW pc \in KeySteps, Go(a, pc), call[a].pc \notin {"idle", "next", "account"},
           NewapiKept, OthersKept(s), NoneMade, UNCHANGED <<servers, key>>,
           Answers \/ Fails(s), lost \subseteq lost', lost' \subseteq Accounts,
           \A acc : call[a].row.acc = acc =>
               \/ call[a].pc \in Making /\ pc \in {"bind", "token", "insert", "cleanup"}
               \/ call[a].pc \in Rebinding /\ pc \in {"rebind", "fetch", "save"}
               \/ call[a].pc \in Setting /\ pc = "savestatus"
               \/ call[a].pc = "remove" /\ pc = "delkey" /\ (~LiveAccount(acc)' \/ acc \in lost'),
           Answers /\ s \in calm => Fits(a)'
    PROVE  LlmInv'
  <1>1. KeyCallsTyped' /\ CallMoves(a, pc) BY CallGoes DEF LlmInv, LlmInOrder, LlmTyped
  <1>2. /\ BudgetTyped' /\ calm' \subseteq calm /\ MarksTyped' /\ (Fails(s) => s \notin calm')
        /\ (Answers => calm' = calm)
    BY Answered DEF LlmInv, LlmInOrder, LlmTyped, MarksTyped
  <1>3. StepOf(a, s) BY <1>1, <1>2 DEF StepOf, CallMoves
  <1>4. KeepsAccounts(a, s) BY <1>1 DEF KeepsAccounts, CallMoves, NoneMade
  <1>5. CallInOrder(a)'
    <2>1. call'[a].row = call[a].row BY <1>1 DEF CallMoves
    <2> QED BY <1>1, <2>1, CallMovesInOrder DEF LlmInv
  <1>6. call'[a] # NoCall
    <2>1. pc # "idle" OBVIOUS
    <2> QED BY <1>1, <2>1 DEF CallMoves, NoCall
  <1>7. LeavesCalm(a, s) BY <1>2, <1>6 DEF LeavesCalm
  <1> QED BY <1>3, <1>4, <1>5, <1>7, NewapiStepKeeps

\* A request ends without a row.
LEMMA EndKeeps ==
    ASSUME LlmInv, NEW a \in KeyActors, a # Sync, NEW s \in KeyServers, call[a].s = s, Done(a),
           NewapiKept, OthersKept(s), NoneMade, UNCHANGED <<servers, key>>,
           Answers \/ Fails(s), lost \subseteq lost', lost' \subseteq Accounts,
           \A acc : call[a].row.acc = acc /\ call[a].kind = "provision" =>
                        acc \in lost' \/ ~LiveAccount(acc)',
           Answers /\ s \in calm => Settled(s)'
    PROVE  LlmInv'
  <1>1. KeyCallsTyped' /\ CallBecomes(a, NoCall) BY CallDone DEF LlmInv, LlmInOrder, LlmTyped
  <1>2. /\ BudgetTyped' /\ calm' \subseteq calm /\ MarksTyped' /\ (Fails(s) => s \notin calm')
        /\ (Answers => calm' = calm)
    BY Answered DEF LlmInv, LlmInOrder, LlmTyped, MarksTyped
  <1>3. StepOf(a, s) BY <1>1, <1>2 DEF StepOf, CallBecomes
  <1>4. KeepsAccounts(a, s) BY <1>1 DEF KeepsAccounts, CallBecomes, NoneMade
  <1>5. CallInOrder(a)' BY <1>1, CallEndsInOrder DEF CallBecomes
  <1>6. call'[a].s # s BY <1>1, LlmAssumption DEF CallBecomes, NoCall
  <1>7. LeavesCalm(a, s) BY <1>2, <1>6 DEF LeavesCalm
  <1> QED BY <1>3, <1>4, <1>5, <1>7, NewapiStepKeeps

-------------------------------------------------------------------------------
(* Provisioning *)

LEMMA ProvisionInOrder ==
    ASSUME NEW a \in KeyActors, a # Sync, NEW s \in KeyServers, NEW acc \in Accounts, NEW q,
           call'[a].kind = "provision", call'[a].pc \in {"login", "bind", "token", "insert", "cleanup"},
           call'[a].s = s, call'[a].todo = {}, call'[a].done = {},
           call'[a].row.acc = acc, MadeFor(acc, s)', call'[a].row.sub = q, q = 0 \/ MadeSub(q, s)'
    PROVE  CallInOrder(a)'
  <1>1. acc # 0 BY LlmAssumption DEF Accounts
  <1> QED BY <1>1 DEF CallInOrder, Making, Rebinding, Setting

LEMMA CreateUserKeeps ==
    ASSUME LlmInv, NEW a \in KeyActors, CreateUser(a)
    PROVE  LlmInv'
  <1>1. In(a, "account") BY DEF CreateUser
  <1>0. PICK s \in KeyServers, r \in KeyRow : call[a].s = s /\ call[a].row = r
    BY <1>1, AtWork DEF In
  <1>2. /\ call[a] \in KeyCall /\ a # Sync
        /\ AccountsTyped /\ SubsTyped /\ OnlyLive /\ KeyCallsTyped /\ BudgetTyped /\ MarksTyped
        /\ s \in calm => Fits(a)
    BY <1>0, <1>1, AtWork DEF In, Setting
  <1>3. /\ call[a].kind = "provision" /\ r = [NoKey EXCEPT !.plan = r.plan]
        /\ call[a].todo = {} /\ call[a].done = {} /\ r.acc = 0 /\ r.sub = 0
    BY <1>0, <1>1, <1>2, AtWork DEF In, CallInOrder, Making, NoKey
  <1>4. s \in calm => ~Has(s) BY <1>0, <1>1, <1>2 DEF Fits, In, Making
  <1>5. UNCHANGED <<servers, key, subs>> BY DEF CreateUser
  <1>6. CASE \E acc \in NextAccount :
                /\ NameFree(s) /\ Created(s, acc)
                /\ call' = [call EXCEPT ![a].pc = "login", ![a].row.acc = acc]
                /\ Answers /\ UNCHANGED lost
    <2>1. PICK acc \in NextAccount :
                /\ NameFree(s) /\ Created(s, acc)
                /\ call' = [call EXCEPT ![a].pc = "login", ![a].row.acc = acc]
                /\ Answers /\ UNCHANGED lost
      BY <1>6
    <2>2. /\ NewapiKept /\ OthersKept(s)
          /\ acc \in Accounts /\ account[acc].st = "unused"
          /\ MadeFor(acc, s)' /\ ActiveSubs(acc)' = {}
          /\ \A b \in Accounts \ {acc} : account'[b] = account[b]
      BY <1>0, <1>2, <1>5, <2>1, AccountCreated
    <2> DEFINE row == [r EXCEPT !.acc = acc]
               c == [call[a] EXCEPT !.pc = "login", !.row = row]
    <2>3. row \in KeyRow BY <1>0, <1>2, <2>2 DEF KeyRow, Accounts
    <2>4. c \in KeyCall BY <1>0, <1>2, <2>3 DEF KeyCall, KeySteps
    <2>5. call' = [call EXCEPT ![a] = c] BY <1>0, <2>1, <1>2 DEF KeyCallsTyped, KeyCall
    <2>6. KeyCallsTyped' /\ CallBecomes(a, c) BY <1>0, <1>2, <2>4, <2>5, CallWrites
    <2>7. /\ call'[a].s = s /\ call'[a].kind = "provision" /\ call'[a].pc = "login"
          /\ call'[a].row = row /\ call'[a].todo = {} /\ call'[a].done = {}
          /\ call'[a].seen = call[a].seen /\ call'[a].held = call[a].held
          /\ row.acc = acc /\ row.sub = 0
      BY <1>0, <1>2, <1>3, <2>6 DEF CallBecomes, KeyCall, KeyRow
    <2>8. BudgetTyped' /\ MarksTyped' /\ calm' = calm /\ lost' = lost
      BY <1>0, <1>2, <2>1 DEF Answers, BudgetTyped, MarksTyped
    <2>9. StepOf(a, s) BY <1>0, <1>3, <2>2, <2>6, <2>7, <2>8 DEF StepOf, CallBecomes
    <2>10. KeepsAccounts(a, s)
      <3>1. \A b \in Accounts : account[b].st = "unused" /\ LiveAccount(b)' => b = acc
        BY <1>0, <2>2 DEF LiveAccount
      <3>2. 0 \notin Accounts BY LlmAssumption DEF Accounts
      <3> QED BY <1>0, <1>3, <2>7, <3>1, <3>2 DEF KeepsAccounts
    <2>11. CallInOrder(a)' BY <1>0, <1>2, <1>3, <2>2, <2>7, ProvisionInOrder
    <2>12. LeavesCalm(a, s)
      BY <1>0, <1>2, <1>4, <1>5, <2>2, <2>7, <2>8 DEF LeavesCalm, Fits, Making, Rebinding, Setting, NoCall, Has
    <2> QED BY <1>0, <1>2, <1>5, <2>9, <2>10, <2>11, <2>12, NewapiStepKeeps
  <1>7. CASE \E acc \in NextAccount :
                NameFree(s) /\ Created(s, acc) /\ Done(a) /\ Fails(s) /\ lost' = lost \cup {acc}
    <2>1. PICK acc \in NextAccount :
                NameFree(s) /\ Created(s, acc) /\ Done(a) /\ Fails(s) /\ lost' = lost \cup {acc}
      BY <1>7
    <2>2. /\ NewapiKept /\ OthersKept(s) /\ acc \in Accounts
          /\ \A b \in Accounts \ {acc} : account'[b] = account[b]
      BY <1>0, <1>2, <1>5, <2>1, AccountCreated
    <2>3. KeyCallsTyped' /\ CallBecomes(a, NoCall) BY <1>0, <1>2, <2>1, CallDone
    <2>4. /\ BudgetTyped' /\ calm' \subseteq calm /\ s \notin calm' /\ MarksTyped'
      BY <1>0, <1>2, <2>1, <2>2, Answered DEF MarksTyped
    <2>5. StepOf(a, s) BY <1>0, <1>2, <2>1, <2>2, <2>3, <2>4 DEF StepOf, CallBecomes
    <2>6. KeepsAccounts(a, s)
      <3>1. \A b \in Accounts : account[b].st = "unused" /\ LiveAccount(b)' => b = acc
        BY <1>0, <2>2 DEF LiveAccount
      <3>2. 0 \notin Accounts BY LlmAssumption DEF Accounts
      <3> QED BY <1>0, <1>3, <2>1, <3>1, <3>2 DEF KeepsAccounts
    <2>7. CallInOrder(a)' BY <1>0, <2>3, CallEndsInOrder DEF CallBecomes
    <2>8. LeavesCalm(a, s) BY <1>0, <2>4 DEF LeavesCalm
    <2> QED BY <1>0, <1>2, <1>5, <2>5, <2>6, <2>7, <2>8, NewapiStepKeeps
  <1>8. CASE Done(a) /\ UNCHANGED <<account, lost>> /\ (UNCHANGED <<budget, calm>> \/ Fails(s))
    <2>1. NewapiKept /\ OthersKept(s) BY <1>0, <1>2, <1>5, <1>8, NewapiStays DEF newapi
    <2>2. KeyCallsTyped' /\ CallBecomes(a, NoCall) BY <1>0, <1>2, <1>8, CallDone
    <2>3. BudgetTyped' /\ MarksTyped' /\ calm' \subseteq calm
      BY <1>0, <1>2, <1>8, Answered DEF Answers, MarksTyped
    <2>4. StepOf(a, s) BY <1>0, <1>2, <1>8, <2>1, <2>2, <2>3 DEF StepOf, CallBecomes
    <2>5. KeepsAccounts(a, s)
      <3>1. 0 \notin Accounts BY LlmAssumption DEF Accounts
      <3> QED BY <1>0, <1>3, <1>8, <3>1 DEF KeepsAccounts, LiveAccount
    <2>6. CallInOrder(a)' BY <1>0, <2>2, CallEndsInOrder DEF CallBecomes
    <2>7. call'[a].s # s BY <1>0, <1>2, <2>2, LlmAssumption DEF CallBecomes, NoCall
    <2>8. LeavesCalm(a, s)
      BY <1>0, <1>2, <1>4, <1>5, <2>3, <2>7 DEF LeavesCalm, Settled, Has
    <2> QED BY <1>0, <1>2, <1>5, <2>4, <2>5, <2>6, <2>8, NewapiStepKeeps
  <1> QED BY <1>0, <1>6, <1>7, <1>8 DEF CreateUser

LEMMA LoginKeeps ==
    ASSUME LlmInv, NEW a \in KeyActors, LoginAndGenAccessToken(a)
    PROVE  LlmInv'
  <1>1. In(a, "login") /\ UNCHANGED <<servers, key, newapi, lost>> BY DEF LoginAndGenAccessToken
  <1>0. PICK s \in KeyServers, r \in KeyRow : call[a].s = s /\ call[a].row = r
    BY <1>1, AtWork DEF In
  <1>2. /\ a # Sync /\ AccountsTyped /\ SubsTyped /\ OnlyLive /\ MarksTyped /\ KeyCallsTyped
        /\ s \in calm => Fits(a)
        /\ r.acc # 0
    BY <1>0, <1>1, AtWork DEF In, Setting, CallInOrder, Making
  <1>3. r.acc \in Accounts BY <1>0, <1>1, <1>2, AtWork DEF In
  <1>4. NewapiKept /\ OthersKept(s) /\ NoneMade
    BY <1>1, <1>2, <1>3, NewapiStays, NothingMade DEF newapi
  <1>5. lost' \subseteq Accounts /\ lost \subseteq lost' BY <1>1, <1>2 DEF MarksTyped
  <1>6. CASE Go(a, "bind") /\ Answers
    <2>1. CallMoves(a, "bind") BY <1>2, <1>6, CallGoes DEF KeySteps
    <2>2. s \in calm => Fits(a)'
      BY <1>0, <1>1, <1>2, <2>1 DEF Fits, In, Making, Rebinding, Setting, CallMoves, ActiveSubs, Has, newapi
    <2> QED BY <1>0, <1>1, <1>2, <1>4, <1>5, <1>6, <2>2, MoveKeeps DEF In, Making, KeySteps
  <1>7. CASE Go(a, "cleanup") /\ Fails(s)
    <2>1. ~Answers BY <1>7 DEF LlmInv, LlmInOrder, LlmTyped, BudgetTyped, Fails, Answers
    <2> QED BY <1>0, <1>1, <1>2, <1>4, <1>5, <1>7, <2>1, MoveKeeps DEF In, Making, KeySteps
  <1> QED BY <1>0, <1>6, <1>7 DEF LoginAndGenAccessToken

LEMMA BindKeeps ==
    ASSUME LlmInv, NEW a \in KeyActors, BindNewSubscription(a)
    PROVE  LlmInv'
  <1>1. In(a, "bind") /\ UNCHANGED <<servers, key, account, lost>> BY DEF BindNewSubscription
  <1>0. PICK s \in KeyServers, r \in KeyRow : call[a].s = s /\ call[a].row = r
    BY <1>1, AtWork DEF In
  <1>2. /\ a # Sync /\ AccountsTyped /\ SubsTyped /\ OnlyLive /\ MarksTyped /\ KeyCallsTyped /\ BudgetTyped
        /\ call[a] \in KeyCall
        /\ s \in calm => Fits(a)
        /\ r.acc # 0 /\ call[a].kind = "provision" /\ call[a].todo = {} /\ call[a].done = {}
    BY <1>0, <1>1, AtWork DEF In, Setting, CallInOrder, Making
  <1>3. /\ r.acc \in Accounts /\ MadeFor(r.acc, s) /\ r.plan \in {0} \cup LlmPlans
    BY <1>0, <1>1, <1>2, AtWork DEF In, KeyRow
  <1>4. lost' \subseteq Accounts /\ lost \subseteq lost' BY <1>1, <1>2 DEF MarksTyped
  <1>5. NoneMade BY <1>1, <1>2, <1>3, NothingMade
  <1>6. CASE /\ Bound(r.acc, r.plan)
             /\ \E q \in {p \in Subs : subs'[p].acc = r.acc /\ subs'[p].st = "active"} :
                   call' = [call EXCEPT ![a].pc = "token", ![a].row.sub = q]
             /\ Answers
    <2>1. PICK q \in Subs : /\ subs'[q].acc = r.acc /\ subs'[q].st = "active"
                            /\ call' = [call EXCEPT ![a].pc = "token", ![a].row.sub = q]
      BY <1>6
    <2>2. /\ NewapiKept /\ OthersKept(s)
          /\ ActiveSubs(r.acc) = {} => \E p \in Subs : SubIs(r.acc, p, r.plan)'
          /\ q \in ActiveSubs(r.acc)' => MadeSub(q, s)'
      BY <1>1, <1>2, <1>3, <1>6, SubscriptionBound
    <2> DEFINE row == [r EXCEPT !.sub = q]
               c == [call[a] EXCEPT !.pc = "token", !.row = row]
    <2>3. row \in KeyRow /\ row.acc = r.acc /\ row.plan = r.plan /\ row.sub = q
      BY <1>0 DEF KeyRow, Subs
    <2>4. c \in KeyCall BY <1>2, <2>3 DEF KeyCall, KeySteps
    <2>5. call' = [call EXCEPT ![a] = c] BY <1>0, <1>2, <2>1 DEF KeyCallsTyped, KeyCall
    <2>6. KeyCallsTyped' /\ CallBecomes(a, c) BY <1>2, <2>4, <2>5, CallWrites
    <2>7. /\ call'[a].s = s /\ call'[a].kind = "provision" /\ call'[a].pc = "token"
          /\ call'[a].row.acc = r.acc /\ call'[a].row.sub = q /\ call'[a].row.plan = r.plan
          /\ call'[a].todo = {} /\ call'[a].done = {}
          /\ call'[a].seen = call[a].seen /\ call'[a].held = call[a].held
      BY <1>0, <1>2, <2>3, <2>6 DEF CallBecomes, KeyCall
    <2>8. BudgetTyped' /\ MarksTyped' /\ calm' = calm
      BY <1>1, <1>2, <1>6 DEF Answers, BudgetTyped, MarksTyped
    <2>9. StepOf(a, s) BY <1>0, <1>2, <1>4, <2>2, <2>6, <2>7, <2>8 DEF StepOf, CallBecomes
    <2>10. KeepsAccounts(a, s) BY <1>0, <1>5, <2>7 DEF KeepsAccounts, NoneMade
    <2>11. q \in ActiveSubs(r.acc)' BY <2>1 DEF ActiveSubs
    <2>12. MadeFor(r.acc, s)' BY <1>3, <2>2 DEF NewapiKept, OriginsKept
    <2>13. CallInOrder(a)' BY <1>2, <1>3, <2>2, <2>7, <2>11, <2>12, ProvisionInOrder
    <2>14. s \in calm => SubIs(r.acc, q, r.plan)' /\ ~Has(s)
      <3>1. s \in calm => ActiveSubs(r.acc) = {} /\ ~Has(s)
        BY <1>0, <1>1, <1>2 DEF Fits, In, Making
      <3> QED BY <2>2, <2>11, <3>1 DEF SubIs
    <2>15. LeavesCalm(a, s)
      BY <1>1, <1>2, <2>7, <2>8, <2>14 DEF LeavesCalm, Fits, Making, Rebinding, Setting, NoCall, Has
    <2> QED BY <1>0, <1>1, <1>2, <2>9, <2>10, <2>13, <2>15, NewapiStepKeeps
  <1>7. CASE (subs' = subs \/ Bound(r.acc, r.plan)) /\ Go(a, "token") /\ Fails(s)
    <2>1. ~Answers BY <1>2, <1>7 DEF BudgetTyped, Fails, Answers
    <2>2. NewapiKept /\ OthersKept(s)
      BY <1>1, <1>2, <1>3, <1>7, SubscriptionBound, NewapiStays DEF newapi
    <2> QED BY <1>0, <1>1, <1>2, <1>4, <1>5, <1>7, <2>1, <2>2, MoveKeeps DEF In, Making, KeySteps
  <1> QED BY <1>0, <1>6, <1>7 DEF BindNewSubscription

LEMMA CreateTokenKeeps ==
    ASSUME LlmInv, NEW a \in KeyActors, CreateToken(a)
    PROVE  LlmInv'
  <1>1. In(a, "token") /\ UNCHANGED <<servers, key, subs, lost>> BY DEF CreateToken
  <1>0. PICK s \in KeyServers, r \in KeyRow : call[a].s = s /\ call[a].row = r
    BY <1>1, AtWork DEF In
  <1>2. /\ a # Sync /\ AccountsTyped /\ SubsTyped /\ OnlyLive /\ MarksTyped /\ KeyCallsTyped /\ BudgetTyped
        /\ s \in calm => Fits(a)
        /\ r.acc # 0
    BY <1>0, <1>1, AtWork DEF In, Setting, CallInOrder, Making
  <1>3. r.acc \in Accounts /\ MadeFor(r.acc, s) BY <1>0, <1>1, <1>2, AtWork DEF In
  <1>4. lost' \subseteq Accounts /\ lost \subseteq lost' BY <1>1, <1>2 DEF MarksTyped
  <1>5. CASE account' = account \/ TokenSet(r.acc, "on")
    <2>1. NoneMade BY <1>2, <1>3, <1>5, NothingMade
    <2>2. NewapiKept /\ OthersKept(s)
      BY <1>1, <1>2, <1>3, <1>5, TokenWritten, NewapiStays DEF newapi
    <2>3. CASE Go(a, "cleanup") /\ Fails(s)
      <3>1. ~Answers BY <1>2, <2>3 DEF BudgetTyped, Fails, Answers
      <3> QED BY <1>0, <1>1, <1>2, <1>4, <2>1, <2>2, <2>3, <3>1, MoveKeeps DEF In, Making, KeySteps
    <2>4. CASE TokenSet(r.acc, "on") /\ Answers /\ r.sub # 0 /\ Go(a, "insert")
      <3>1. CallMoves(a, "insert") BY <1>2, <2>4, CallGoes DEF KeySteps
      <3>2. account'[r.acc].token = "on" /\ \A b : ActiveSubs(b)' = ActiveSubs(b)
        BY <1>1, <1>2, <1>3, <2>4, TokenWritten
      <3>3. s \in calm => SubIs(r.acc, r.sub, r.plan)' /\ TokenIs(r.acc, "active")' /\ ~Has(s)'
        BY <1>0, <1>1, <1>2, <3>2 DEF Fits, In, Making, SubIs, TokenIs, TokenState, Has
      <3>4. s \in calm => Fits(a)'
        BY <1>0, <3>1, <3>3 DEF Fits, Making, Rebinding, Setting, CallMoves
      <3> QED BY <1>0, <1>1, <1>2, <1>4, <2>1, <2>2, <2>4, <3>4, MoveKeeps DEF In, Making, KeySteps
    <2>5. CASE TokenSet(r.acc, "on") /\ Answers /\ r.sub = 0 /\ Go(a, "cleanup")
      <3>1. s \notin calm
        <4>1. 0 \notin Subs BY LlmAssumption DEF Subs
        <4> QED BY <1>0, <1>1, <1>2, <2>5, <4>1 DEF Fits, In, SubIs
      <3> QED BY <1>0, <1>1, <1>2, <1>4, <2>1, <2>2, <2>5, <3>1, MoveKeeps DEF In, Making, KeySteps
    <2> QED BY <1>0, <2>3, <2>4, <2>5 DEF CreateToken
  <1> QED BY <1>0, <1>5 DEF CreateToken

LEMMA CleanUpKeeps ==
    ASSUME LlmInv, NEW a \in KeyActors, CleanUp(a)
    PROVE  LlmInv'
  <1>1. In(a, "cleanup") /\ UNCHANGED <<servers, key>> /\ Done(a) BY DEF CleanUp
  <1>0. PICK s \in KeyServers, r \in KeyRow : call[a].s = s /\ call[a].row = r
    BY <1>1, AtWork DEF In
  <1>2. /\ a # Sync /\ AccountsTyped /\ SubsTyped /\ OnlyLive /\ MarksTyped
        /\ s \in calm => Fits(a)
        /\ r.acc # 0
    BY <1>0, <1>1, AtWork DEF In, Setting, CallInOrder, Making
  <1>3. r.acc \in Accounts /\ MadeFor(r.acc, s) BY <1>0, <1>1, <1>2, AtWork DEF In
  <1>4. s \notin calm BY <1>1, <1>2 DEF Fits, In
  <1>5. /\ Erased(r.acc) \/ UNCHANGED newapi
        /\ Answers \/ Fails(s)
        /\ (Erased(r.acc) /\ lost' = lost) \/ lost' = lost \cup {r.acc}
    BY <1>0 DEF CleanUp
  <1>6. NewapiKept /\ OthersKept(s) /\ (Erased(r.acc) => ~LiveAccount(r.acc)')
    <2>1. CASE Erased(r.acc) BY <1>2, <1>3, <2>1, AccountErased
    <2>2. CASE ~Erased(r.acc) BY <1>2, <1>5, <2>2, NewapiStays
    <2> QED BY <2>1, <2>2
  <1>7. NoneMade BY <1>2, <1>3, <1>5, NothingMade DEF newapi
  <1>8. lost' \subseteq Accounts /\ lost \subseteq lost' BY <1>2, <1>3, <1>5 DEF MarksTyped
  <1>9. r.acc \in lost' \/ ~LiveAccount(r.acc)' BY <1>5, <1>6
  <1> QED BY <1>0, <1>1, <1>2, <1>4, <1>5, <1>6, <1>7, <1>8, <1>9, EndKeeps

LEMMA InsertKeyKeeps ==
    ASSUME LlmInv, NEW a \in KeyActors, InsertKey(a)
    PROVE  LlmInv'
  <1>1. In(a, "insert") /\ UNCHANGED <<servers, newapi, budget, calm>> /\ Done(a) BY DEF InsertKey
  <1>0. PICK s \in KeyServers, r \in KeyRow : call[a].s = s /\ call[a].row = r
    BY <1>1, AtWork DEF In
  <1>2. /\ a # Sync /\ AccountsTyped /\ SubsTyped /\ OnlyLive /\ MarksTyped /\ BudgetTyped
        /\ KeyCallsTyped /\ KeysTyped /\ ServersTyped
        /\ s \in calm => Fits(a)
        /\ r.acc # 0
    BY <1>0, <1>1, AtWork DEF In, Setting, CallInOrder, Making
  <1>3. /\ r.acc \in Accounts /\ MadeFor(r.acc, s)
        /\ r.sub # 0 => MadeSub(r.sub, s)
    BY <1>0, <1>1, <1>2, AtWork DEF In
  <1>4. s \in calm => SubIs(r.acc, r.sub, r.plan) /\ TokenIs(r.acc, "active") /\ ~Has(s)
    BY <1>0, <1>1, <1>2 DEF Fits, In, Making
  <1>5. NewapiKept /\ OthersKept(s) BY <1>1, <1>2, NewapiStays
  <1>6. KeyCallsTyped' /\ CallBecomes(a, NoCall) BY <1>1, <1>2, CallDone
  <1>7. call'[a].s # s BY <1>6, LlmAssumption DEF CallBecomes, NoCall
  <1>8. CallInOrder(a)' BY <1>6, CallEndsInOrder DEF CallBecomes
  <1>9. BudgetTyped' /\ calm' = calm BY <1>1, <1>2 DEF BudgetTyped
  <1>10. CASE (servers[s] = "gone" \/ Has(s)) /\ lost' = lost \cup {r.acc} /\ key' = key
    <2>1. MarksTyped' BY <1>1, <1>2, <1>3, <1>10 DEF MarksTyped
    <2>2. StepOf(a, s) BY <1>0, <1>2, <1>5, <1>6, <1>9, <1>10, <2>1 DEF StepOf, CallBecomes
    <2>3. KeepsAccounts(a, s) BY <1>0, <1>1, <1>10 DEF KeepsAccounts, LiveAccount, newapi
    <2>4. s \in calm => Settled(s)' BY <1>4, <1>10 DEF Settled, Has
    <2>5. LeavesCalm(a, s) BY <1>2, <1>7, <1>9, <2>4 DEF LeavesCalm
    <2> QED BY <1>0, <1>1, <1>2, <1>8, <1>10, <2>2, <2>3, <2>5, NewapiStepKeeps
  <1>11. CASE servers[s] # "gone" /\ ~Has(s) /\ key' = [key EXCEPT ![s] = [r EXCEPT !.st = "active"]]
              /\ lost' = lost
    <2>1. /\ KeysTyped' /\ key'[s] = [r EXCEPT !.st = "active"]
          /\ \A t \in KeyServers \ {s} : key'[t] = key[t]
      BY <1>0, <1>2, <1>11 DEF KeysTyped, KeyRow
    <2>2. key'[s].acc = r.acc /\ key'[s].sub = r.sub /\ key'[s].plan = r.plan /\ key'[s].st = "active"
      BY <1>0, <2>1 DEF KeyRow
    <2>3. MarksTyped' BY <1>1, <1>2, <1>11 DEF MarksTyped
    <2>4. StepOf(a, s) BY <1>0, <1>2, <1>5, <1>6, <1>9, <1>11, <2>3 DEF StepOf, CallBecomes
    <2>5. KeepsAccounts(a, s) BY <1>0, <1>1, <2>2 DEF KeepsAccounts, LiveAccount, newapi
    <2>6. RowOwn(s)'
      BY <1>1, <1>3, <2>2 DEF RowOwn, Has, MadeFor, MadeSub, newapi
    <2>7. KeylessGone'
      BY <1>1, <1>11, <2>1 DEF KeylessGone, Has, LlmInv, LlmInOrder
    <2>8. ServersTyped' BY <1>1, <1>2 DEF ServersTyped
    <2>9. \A acc \in Accounts : key[s].acc # acc
      <3>1. key[s] = NoKey BY <1>11 DEF LlmInv, LlmInOrder, RowsOwn, RowOwn
      <3> QED BY <3>1, LlmAssumption DEF NoKey, Accounts
    <2>10. s \in calm => Settled(s)'
      BY <1>1, <1>4, <2>2 DEF Settled, SubIs, TokenIs, ActiveSubs, newapi
    <2>11. LeavesCalm(a, s) BY <1>2, <1>7, <1>9, <2>10 DEF LeavesCalm
    <2>12. Has(s)' BY <2>2 DEF Has
    <2> QED BY <1>0, <1>2, <1>8, <2>1, <2>4, <2>5, <2>6, <2>7, <2>8, <2>9, <2>11, <2>12, StepKeeps
  <1> QED BY <1>0, <1>10, <1>11 DEF InsertKey

-------------------------------------------------------------------------------
(* A subscription for another *)

LEMMA InvalidateKeeps ==
    ASSUME LlmInv, NEW a \in KeyActors, InvalidateSubscription(a)
    PROVE  LlmInv'
  <1>1. In(a, "invalidate") /\ UNCHANGED <<servers, key, account, lost>> BY DEF InvalidateSubscription
  <1>0. PICK s \in KeyServers, r \in KeyRow : call[a].s = s /\ call[a].row = r
    BY <1>1, AtWork DEF In
  <1>2. /\ a # Sync /\ AccountsTyped /\ SubsTyped /\ OnlyLive /\ MarksTyped /\ KeyCallsTyped /\ BudgetTyped
        /\ s \in calm => Fits(a)
        /\ r.acc # 0 /\ call[a].kind # "provision"
    BY <1>0, <1>1, AtWork DEF In, Setting, CallInOrder, Rebinding
  <1>3. r.acc \in Accounts /\ r.sub \in 0..MaxSubs /\ (r.sub # 0 => MadeSub(r.sub, s))
    BY <1>0, <1>1, <1>2, AtWork DEF In, KeyRow
  <1>4. lost' \subseteq Accounts /\ lost \subseteq lost' BY <1>1, <1>2 DEF MarksTyped
  <1>5. NoneMade BY <1>1, <1>2, <1>3, NothingMade
  <1>6. NewapiKept /\ OthersKept(s)
    <2>1. CASE Cancelled(r.sub) BY <1>1, <1>2, <1>3, <2>1, SubscriptionCancelled
    <2>2. CASE subs' = subs BY <1>1, <1>2, <2>2, NewapiStays DEF newapi
    <2> QED BY <1>0, <2>1, <2>2 DEF InvalidateSubscription
  <1>7. CASE Cancelled(r.sub) /\ Go(a, "rebind") /\ Answers
    <2>1. CallMoves(a, "rebind") BY <1>2, <1>7, CallGoes DEF KeySteps
    <2>2. ActiveSubs(r.acc)' = ActiveSubs(r.acc) \ {r.sub}
      BY <1>1, <1>2, <1>3, <1>7, SubscriptionCancelled
    <2>3. s \in calm => /\ Has(s) /\ r.acc = key[s].acc
                        /\ ActiveSubs(r.acc) = {r.sub} /\ TokenIs(r.acc, key[s].st)
      BY <1>0, <1>1, <1>2 DEF Fits, In, Rebinding, Settled, SubIs
    <2>4. s \in calm => Fits(a)'
      BY <1>0, <1>1, <2>1, <2>2, <2>3 DEF Fits, Making, Rebinding, Setting, CallMoves, Has, TokenIs
    <2> QED BY <1>0, <1>1, <1>2, <1>4, <1>5, <1>6, <1>7, <2>4, MoveKeeps DEF In, Rebinding, KeySteps
  <1>8. CASE Fails(s) /\ Go(a, "rebind")
    <2>1. ~Answers BY <1>2, <1>8 DEF BudgetTyped, Fails, Answers
    <2> QED BY <1>0, <1>1, <1>2, <1>4, <1>5, <1>6, <1>8, <2>1, MoveKeeps DEF In, Rebinding, KeySteps
  <1>9. CASE Fails(s) /\ Done(a)
    <2>1. ~Answers BY <1>2, <1>9 DEF BudgetTyped, Fails, Answers
    <2> QED BY <1>0, <1>1, <1>2, <1>4, <1>5, <1>6, <1>9, <2>1, EndKeeps
  <1> QED BY <1>0, <1>7, <1>8, <1>9 DEF InvalidateSubscription

LEMMA RebindKeeps ==
    ASSUME LlmInv, NEW a \in KeyActors, BindSubscription(a)
    PROVE  LlmInv'
  <1>1. In(a, "rebind") /\ UNCHANGED <<servers, key, account, lost>> BY DEF BindSubscription
  <1>0. PICK s \in KeyServers, r \in KeyRow : call[a].s = s /\ call[a].row = r
    BY <1>1, AtWork DEF In
  <1>2. /\ a # Sync /\ AccountsTyped /\ SubsTyped /\ OnlyLive /\ MarksTyped /\ KeyCallsTyped /\ BudgetTyped
        /\ s \in calm => Fits(a)
        /\ r.acc # 0 /\ call[a].kind # "provision"
    BY <1>0, <1>1, AtWork DEF In, Setting, CallInOrder, Rebinding
  <1>3. r.acc \in Accounts /\ MadeFor(r.acc, s) /\ r.plan \in {0} \cup LlmPlans
    BY <1>0, <1>1, <1>2, AtWork DEF In, KeyRow
  <1>4. lost' \subseteq Accounts /\ lost \subseteq lost' BY <1>1, <1>2 DEF MarksTyped
  <1>5. NoneMade BY <1>1, <1>2, <1>3, NothingMade
  <1>6. Bound(r.acc, r.plan) =>
            /\ NewapiKept /\ OthersKept(s)
            /\ ActiveSubs(r.acc) = {} => \E q \in Subs : SubIs(r.acc, q, r.plan)'
    BY <1>1, <1>2, <1>3, SubscriptionBound
  <1>7. CASE Bound(r.acc, r.plan) /\ Go(a, "fetch") /\ Answers
    <2>1. CallMoves(a, "fetch") BY <1>2, <1>7, CallGoes DEF KeySteps
    <2>2. s \in calm => /\ Has(s) /\ r.acc = key[s].acc
                        /\ ActiveSubs(r.acc) = {} /\ TokenIs(r.acc, key[s].st)
      BY <1>0, <1>1, <1>2 DEF Fits, In, Rebinding
    <2>3. s \in calm => Fits(a)'
      BY <1>0, <1>1, <1>7, <1>6, <2>1, <2>2 DEF Fits, Making, Rebinding, Setting, CallMoves, Has, TokenIs
    <2> QED BY <1>0, <1>1, <1>2, <1>4, <1>5, <1>7, <1>6, <2>3, MoveKeeps DEF In, Rebinding, KeySteps
  <1>8. CASE Bound(r.acc, r.plan) /\ Done(a) /\ Fails(s)
    <2>1. ~Answers BY <1>2, <1>8 DEF BudgetTyped, Fails, Answers
    <2> QED BY <1>0, <1>1, <1>2, <1>4, <1>5, <1>8, <1>6, <2>1, EndKeeps
  <1>9. CASE subs' = subs /\ Done(a) /\ (Fails(s) \/ (~LiveAccount(r.acc) /\ Answers))
    <2>1. NewapiKept /\ OthersKept(s) BY <1>1, <1>2, <1>9, NewapiStays DEF newapi
    <2>2. Answers => s \notin calm
      <3>1. Answers => ~LiveAccount(r.acc) BY <1>2, <1>9 DEF BudgetTyped, Fails, Answers
      <3>2. s \in calm => TokenIs(r.acc, key[s].st) BY <1>0, <1>1, <1>2 DEF Fits, In
      <3> QED BY <1>2, <1>3, <3>1, <3>2 DEF TokenIs, TokenState, OnlyLive, LiveAccount
    <2> QED BY <1>0, <1>1, <1>2, <1>4, <1>5, <1>9, <2>1, <2>2, EndKeeps
  <1> QED BY <1>0, <1>7, <1>8, <1>9 DEF BindSubscription

LEMMA RebindInOrder ==
    ASSUME NEW a \in KeyActors, a # Sync, NEW s \in KeyServers, NEW acc \in Accounts, NEW q,
           call'[a].kind \in {"reprovision", "upgrade", "reset"}, call'[a].pc \in {"reenable", "save"},
           call'[a].pc = "reenable" => call'[a].kind = "reprovision",
           call'[a].s = s, call'[a].todo = {}, call'[a].done = {},
           call'[a].row.acc = acc, MadeFor(acc, s)', call'[a].row.sub = q, q = 0 \/ MadeSub(q, s)'
    PROVE  CallInOrder(a)'
  <1>1. acc # 0 BY LlmAssumption DEF Accounts
  <1> QED BY <1>1 DEF CallInOrder, Making, Rebinding, Setting

LEMMA FetchKeeps ==
    ASSUME LlmInv, NEW a \in KeyActors, GetActiveSubscription(a)
    PROVE  LlmInv'
  <1>1. In(a, "fetch") /\ UNCHANGED <<servers, key, newapi, lost>> BY DEF GetActiveSubscription
  <1>0. PICK s \in KeyServers, r \in KeyRow : call[a].s = s /\ call[a].row = r
    BY <1>1, AtWork DEF In
  <1>2. /\ a # Sync /\ AccountsTyped /\ SubsTyped /\ OnlyLive /\ MarksTyped /\ KeyCallsTyped /\ BudgetTyped
        /\ call[a] \in KeyCall
        /\ s \in calm => Fits(a)
        /\ r.acc # 0 /\ call[a].kind \in {"reprovision", "upgrade", "reset"}
        /\ call[a].todo = {} /\ call[a].done = {}
    BY <1>0, <1>1, AtWork DEF In, Setting, CallInOrder, Rebinding
  <1>3. r.acc \in Accounts /\ MadeFor(r.acc, s) BY <1>0, <1>1, <1>2, AtWork DEF In
  <1>4. lost' \subseteq Accounts /\ lost \subseteq lost' BY <1>1, <1>2 DEF MarksTyped
  <1>5. NewapiKept /\ OthersKept(s) /\ NoneMade
    BY <1>1, <1>2, <1>3, NewapiStays, NothingMade DEF newapi
  <1>6. s \in calm => /\ Has(s) /\ r.acc = key[s].acc
                      /\ TokenIs(r.acc, key[s].st) /\ \E q \in Subs : SubIs(r.acc, q, r.plan)
    BY <1>0, <1>1, <1>2 DEF Fits, In, Rebinding
  <1>7. CASE \E q \in ActiveSubs(r.acc) :
                /\ call' = [call EXCEPT ![a].pc = IF call[a].kind = "reprovision" THEN "reenable" ELSE "save",
                                        ![a].row.sub = q]
                /\ Answers
    <2>1. PICK q \in ActiveSubs(r.acc) :
                /\ call' = [call EXCEPT ![a].pc = IF call[a].kind = "reprovision" THEN "reenable" ELSE "save",
                                        ![a].row.sub = q]
                /\ Answers
      BY <1>7
    <2> DEFINE row == [r EXCEPT !.sub = q]
               pc == IF call[a].kind = "reprovision" THEN "reenable" ELSE "save"
               c == [call[a] EXCEPT !.pc = pc, !.row = row]
    <2>2. q \in Subs /\ MadeSub(q, s) BY <1>3 DEF ActiveSubs, MadeSub
    <2>3. row \in KeyRow /\ row.acc = r.acc /\ row.plan = r.plan /\ row.sub = q
      BY <1>0, <2>2 DEF KeyRow, Subs
    <2>4. c \in KeyCall BY <1>2, <2>3 DEF KeyCall, KeySteps
    <2>5. call' = [call EXCEPT ![a] = c] BY <1>0, <1>2, <2>1 DEF KeyCallsTyped, KeyCall
    <2>6. KeyCallsTyped' /\ CallBecomes(a, c) BY <1>2, <2>4, <2>5, CallWrites
    <2>7. PICK p : p = pc OBVIOUS
    <2>8. /\ call'[a].s = s /\ call'[a].kind = call[a].kind /\ call'[a].pc = p
          /\ call'[a].row.acc = r.acc /\ call'[a].row.sub = q /\ call'[a].row.plan = r.plan
          /\ call'[a].todo = {} /\ call'[a].done = {}
          /\ call'[a].seen = call[a].seen /\ call'[a].held = call[a].held
          /\ p \in {"reenable", "save"} /\ (p = "reenable" <=> call[a].kind = "reprovision")
      BY <1>0, <1>2, <2>3, <2>6, <2>7 DEF CallBecomes, KeyCall
    <2>9. BudgetTyped' /\ MarksTyped' /\ calm' = calm
      BY <1>1, <1>2, <2>1 DEF Answers, BudgetTyped, MarksTyped
    <2>10. StepOf(a, s) BY <1>0, <1>2, <1>4, <1>5, <2>6, <2>8, <2>9 DEF StepOf, CallBecomes
    <2>11. KeepsAccounts(a, s) BY <1>0, <1>2, <1>5 DEF KeepsAccounts, NoneMade
    <2>12. MadeFor(r.acc, s)' /\ MadeSub(q, s)'
      BY <1>3, <1>5, <2>2 DEF NewapiKept, OriginsKept
    <2>13. CallInOrder(a)' BY <1>2, <1>3, <2>8, <2>12, RebindInOrder
    <2>14. s \in calm => SubIs(r.acc, q, r.plan)' /\ TokenIs(r.acc, key[s].st)' /\ Has(s)' /\ r.acc = key'[s].acc
      BY <1>1, <1>6 DEF SubIs, TokenIs, ActiveSubs, newapi, Has
    <2>15. LeavesCalm(a, s)
      BY <1>2, <2>8, <2>9, <2>14 DEF LeavesCalm, Fits, Making, Rebinding, Setting, NoCall
    <2> QED BY <1>0, <1>1, <1>2, <2>10, <2>11, <2>13, <2>15, NewapiStepKeeps
  <1>8. CASE Done(a) /\ (Fails(s) \/ (ActiveSubs(r.acc) = {} /\ Answers))
    <2>1. Answers => s \notin calm
      <3>1. Answers => ActiveSubs(r.acc) = {} BY <1>2, <1>8 DEF BudgetTyped, Fails, Answers
      <3> QED BY <1>6, <3>1 DEF SubIs
    <2> QED BY <1>0, <1>1, <1>2, <1>4, <1>5, <1>8, <2>1, EndKeeps
  <1> QED BY <1>0, <1>7, <1>8 DEF GetActiveSubscription

LEMMA ReenableKeeps ==
    ASSUME LlmInv, NEW a \in KeyActors, ReenableToken(a)
    PROVE  LlmInv'
  <1>1. In(a, "reenable") /\ UNCHANGED <<servers, key, subs, lost>> BY DEF ReenableToken
  <1>0. PICK s \in KeyServers, r \in KeyRow : call[a].s = s /\ call[a].row = r
    BY <1>1, AtWork DEF In
  <1>2. /\ a # Sync /\ AccountsTyped /\ SubsTyped /\ OnlyLive /\ MarksTyped /\ KeyCallsTyped /\ BudgetTyped
        /\ call[a] \in KeyCall
        /\ s \in calm => Fits(a)
        /\ r.acc # 0 /\ call[a].kind = "reprovision"
        /\ call[a].todo = {} /\ call[a].done = {}
    BY <1>0, <1>1, AtWork DEF In, Setting, CallInOrder, Rebinding
  <1>3. r.acc \in Accounts /\ MadeFor(r.acc, s) /\ (r.sub # 0 => r.sub \in Subs /\ MadeSub(r.sub, s))
    BY <1>0, <1>1, <1>2, AtWork DEF In
  <1>4. lost' \subseteq Accounts /\ lost \subseteq lost' BY <1>1, <1>2 DEF MarksTyped
  <1>5. account' = account \/ TokenSet(r.acc, "on") BY <1>0 DEF ReenableToken
  <1>6. /\ NewapiKept /\ OthersKept(s) /\ NoneMade
        /\ \A b : ActiveSubs(b)' = ActiveSubs(b)
        /\ TokenSet(r.acc, "on") => account'[r.acc].token = "on"
    <2>1. NoneMade BY <1>2, <1>3, <1>5, NothingMade
    <2>2. CASE TokenSet(r.acc, "on") BY <1>1, <1>2, <1>3, <2>1, <2>2, TokenWritten
    <2>3. CASE ~TokenSet(r.acc, "on")
      <3>1. UNCHANGED newapi BY <1>1, <1>5, <2>3 DEF newapi
      <3> QED BY <1>2, <2>1, <2>3, <3>1, NewapiStays DEF ActiveSubs, newapi
    <2> QED BY <2>2, <2>3
  <1>7. s \in calm => Has(s) /\ r.acc = key[s].acc /\ SubIs(r.acc, r.sub, r.plan)
    BY <1>0, <1>1, <1>2 DEF Fits, In, Rebinding
  <1> DEFINE row == [r EXCEPT !.st = "active"]
             c == [call[a] EXCEPT !.pc = "save", !.row = row]
  <1>8. row \in KeyRow /\ row.acc = r.acc /\ row.plan = r.plan /\ row.sub = r.sub
    BY <1>0 DEF KeyRow
  <1>9. c \in KeyCall BY <1>2, <1>8 DEF KeyCall, KeySteps
  <1>10. call' = [call EXCEPT ![a] = c] BY <1>0, <1>2 DEF KeyCallsTyped, KeyCall, ReenableToken
  <1>11. KeyCallsTyped' /\ CallBecomes(a, c) BY <1>2, <1>9, <1>10, CallWrites
  <1>12. /\ call'[a].s = s /\ call'[a].kind = "reprovision" /\ call'[a].pc = "save"
         /\ call'[a].row.acc = r.acc /\ call'[a].row.sub = r.sub /\ call'[a].row.plan = r.plan
         /\ call'[a].todo = {} /\ call'[a].done = {}
         /\ call'[a].seen = call[a].seen /\ call'[a].held = call[a].held
    BY <1>0, <1>2, <1>8, <1>11 DEF CallBecomes, KeyCall
  <1>13. Answers \/ Fails(s) BY <1>0 DEF ReenableToken
  <1>14. /\ BudgetTyped' /\ MarksTyped' /\ calm' \subseteq calm /\ (Fails(s) => s \notin calm')
    BY <1>2, <1>4, <1>13, Answered DEF MarksTyped
  <1>15. StepOf(a, s) BY <1>0, <1>2, <1>4, <1>6, <1>11, <1>12, <1>14 DEF StepOf, CallBecomes
  <1>16. KeepsAccounts(a, s) BY <1>0, <1>2, <1>6 DEF KeepsAccounts, NoneMade
  <1>17. MadeFor(r.acc, s)' /\ (r.sub = 0 \/ MadeSub(r.sub, s)')
    BY <1>3, <1>6 DEF NewapiKept, OriginsKept
  <1>18. CallInOrder(a)' BY <1>2, <1>3, <1>12, <1>17, RebindInOrder
  <1>19. s \in calm' => TokenIs(r.acc, "active")'
    <2>1. CASE TokenSet(r.acc, "on") BY <1>6, <2>1 DEF TokenIs, TokenState
    <2>2. CASE Fails(s) BY <1>14, <2>2
    <2>3. CASE ~LiveAccount(r.acc)
      <3>1. s \notin calm BY <1>2, <1>7, <2>3 DEF SubIs, ActiveSubs, OnlyLive
      <3> QED BY <1>14, <3>1
    <2> QED BY <1>0, <2>1, <2>2, <2>3 DEF ReenableToken
  <1>20. s \in calm' => SubIs(r.acc, r.sub, r.plan)' /\ Has(s)' /\ r.acc = key'[s].acc
    BY <1>1, <1>6, <1>7, <1>14 DEF SubIs, Has
  <1>21. LeavesCalm(a, s)
    BY <1>2, <1>12, <1>19, <1>20 DEF LeavesCalm, Fits, Making, Rebinding, Setting, NoCall
  <1> QED BY <1>0, <1>1, <1>2, <1>15, <1>16, <1>18, <1>21, NewapiStepKeeps

LEMMA SaveKeyKeeps ==
    ASSUME LlmInv, NEW a \in KeyActors, SaveKey(a)
    PROVE  LlmInv'
  <1>1. In(a, "save") /\ UNCHANGED <<servers, newapi, budget, lost, calm>> /\ Done(a) BY DEF SaveKey
  <1>0. PICK s \in KeyServers, r \in KeyRow : call[a].s = s /\ call[a].row = r
    BY <1>1, AtWork DEF In
  <1>2. /\ a # Sync /\ AccountsTyped /\ SubsTyped /\ OnlyLive /\ MarksTyped /\ BudgetTyped
        /\ KeyCallsTyped /\ KeysTyped /\ ServersTyped
        /\ s \in calm => Fits(a)
        /\ r.acc # 0 /\ call[a].kind # "provision"
    BY <1>0, <1>1, AtWork DEF In, Setting, CallInOrder, Rebinding
  <1>3. r.sub # 0 => MadeSub(r.sub, s) BY <1>0, <1>1, AtWork DEF In
  <1>4. PICK st : st = IF call[a].kind = "reprovision" THEN "active" ELSE key[s].st OBVIOUS
  <1>5. s \in calm => /\ Has(s) /\ r.acc = key[s].acc
                      /\ SubIs(r.acc, r.sub, r.plan) /\ TokenIs(r.acc, st)
    BY <1>0, <1>1, <1>2, <1>4 DEF Fits, In, Rebinding
  <1>6. NewapiKept /\ OthersKept(s) BY <1>1, <1>2, NewapiStays
  <1>7. KeyCallsTyped' /\ CallBecomes(a, NoCall) BY <1>1, <1>2, CallDone
  <1>8. call'[a].s # s BY <1>7, LlmAssumption DEF CallBecomes, NoCall
  <1>9. CallInOrder(a)' BY <1>7, CallEndsInOrder DEF CallBecomes
  <1>10. BudgetTyped' /\ MarksTyped' /\ ServersTyped' /\ calm' = calm /\ lost' = lost
    BY <1>1, <1>2 DEF BudgetTyped, MarksTyped, ServersTyped
  <1>11. StepOf(a, s) BY <1>0, <1>2, <1>6, <1>7, <1>10 DEF StepOf, CallBecomes
  <1>12. KeepsAccounts(a, s) BY <1>1, <1>2 DEF KeepsAccounts, LiveAccount, newapi
  <1>13. CASE ~Has(s)
    <2>1. key' = key BY <1>0, <1>13 DEF SaveKey
    <2>2. LeavesCalm(a, s) BY <1>2, <1>5, <1>10, <1>13 DEF LeavesCalm
    <2> QED BY <1>0, <1>1, <1>2, <1>9, <1>11, <1>12, <2>1, <2>2, NewapiStepKeeps
  <1>14. CASE Has(s)
    <2>1. key' = [key EXCEPT ![s].sub = r.sub, ![s].plan = r.plan, ![s].st = st]
      BY <1>0, <1>4, <1>14 DEF SaveKey
    <2>2. st \in {"active", "disabled"} BY <1>2, <1>4, <1>14 DEF Has, KeysTyped, KeyRow
    <2>3. /\ KeysTyped'
          /\ key'[s].acc = key[s].acc /\ key'[s].sub = r.sub /\ key'[s].plan = r.plan /\ key'[s].st = st
          /\ \A t \in KeyServers \ {s} : key'[t] = key[t]
      <3> DEFINE row == [key[s] EXCEPT !.sub = r.sub, !.plan = r.plan, !.st = st]
      <3>1. key[s] \in KeyRow BY <1>2 DEF KeysTyped
      <3>2. /\ row \in KeyRow /\ row.acc = key[s].acc /\ row.sub = r.sub /\ row.plan = r.plan
            /\ row.st = st
        BY <1>0, <2>2, <3>1 DEF KeyRow
      <3>3. key' = [key EXCEPT ![s] = row] BY <1>2, <2>1 DEF KeysTyped, KeyRow
      <3> QED BY <1>2, <3>2, <3>3 DEF KeysTyped
    <2>4. Has(s)' BY <2>2, <2>3 DEF Has
    <2>5. RowOwn(s)'
      <3>1. MadeFor(key[s].acc, s) BY <1>14 DEF LlmInv, LlmInOrder, RowsOwn, RowOwn
      <3> QED BY <1>1, <1>3, <2>3, <2>4, <3>1 DEF RowOwn, MadeFor, MadeSub, newapi
    <2>6. KeylessGone'
      BY <1>1, <1>14, <2>3 DEF KeylessGone, Has, LlmInv, LlmInOrder
    <2>7. s \in calm => Settled(s)'
      BY <1>1, <1>5, <2>3 DEF Settled, SubIs, TokenIs, ActiveSubs, newapi
    <2>8. LeavesCalm(a, s) BY <1>2, <1>8, <1>10, <2>7 DEF LeavesCalm
    <2> QED BY <1>0, <1>2, <1>9, <1>10, <1>11, <1>12, <2>3, <2>4, <2>5, <2>6, <2>8, StepKeeps
  <1> QED BY <1>13, <1>14

-------------------------------------------------------------------------------
(* Disabling and enabling *)

LEMMA SaveStatusKeeps ==
    ASSUME LlmInv, NEW a \in KeyActors, SaveStatus(a)
    PROVE  LlmInv'
  <1>1. In(a, "savestatus") /\ a # Sync /\ UNCHANGED <<servers, newapi, budget, lost, calm>> /\ Done(a)
    BY DEF SaveStatus
  <1>0. PICK s \in KeyServers, r \in KeyRow : call[a].s = s /\ call[a].row = r
    BY <1>1, AtWork DEF In
  <1>2. /\ AccountsTyped /\ SubsTyped /\ OnlyLive /\ MarksTyped /\ BudgetTyped
        /\ KeyCallsTyped /\ KeysTyped /\ ServersTyped
        /\ s \in calm => Fits(a)
        /\ call[a].kind # "provision" /\ call[a].to \in {"active", "disabled"}
    BY <1>0, <1>1, AtWork DEF In, Setting, CallInOrder
  <1>3. PICK to : call[a].to = to OBVIOUS
  <1>4. s \in calm => /\ Has(s) /\ r.acc = key[s].acc /\ r.st = key[s].st
                      /\ SubIs(key[s].acc, key[s].sub, key[s].plan) /\ TokenIs(key[s].acc, to)
    BY <1>0, <1>1, <1>2, <1>3 DEF Fits, In, Setting
  <1>5. NewapiKept /\ OthersKept(s) BY <1>1, <1>2, NewapiStays
  <1>6. KeyCallsTyped' /\ CallBecomes(a, NoCall) BY <1>1, <1>2, CallDone
  <1>7. call'[a].s # s BY <1>6, LlmAssumption DEF CallBecomes, NoCall
  <1>8. CallInOrder(a)' BY <1>6, CallEndsInOrder DEF CallBecomes
  <1>9. BudgetTyped' /\ MarksTyped' /\ ServersTyped' /\ calm' = calm /\ lost' = lost
    BY <1>1, <1>2 DEF BudgetTyped, MarksTyped, ServersTyped
  <1>10. StepOf(a, s) BY <1>0, <1>1, <1>5, <1>6, <1>9 DEF StepOf, CallBecomes
  <1>11. KeepsAccounts(a, s) BY <1>1, <1>2 DEF KeepsAccounts, LiveAccount, newapi
  <1>12. CASE ~Has(s) \/ to = r.st
    <2>1. key' = key BY <1>0, <1>3, <1>12 DEF SaveStatus
    <2>2. s \in calm => Settled(s)'
      BY <1>1, <1>4, <1>12, <2>1 DEF Settled, SubIs, TokenIs, ActiveSubs, newapi
    <2>3. LeavesCalm(a, s) BY <1>1, <1>7, <1>9, <2>2 DEF LeavesCalm
    <2> QED BY <1>0, <1>1, <1>8, <1>10, <1>11, <2>1, <2>3, NewapiStepKeeps
  <1>13. CASE Has(s) /\ to # r.st
    <2>1. key' = [key EXCEPT ![s].st = to] BY <1>0, <1>3, <1>13 DEF SaveStatus
    <2>2. /\ KeysTyped'
          /\ key'[s].acc = key[s].acc /\ key'[s].sub = key[s].sub /\ key'[s].plan = key[s].plan
          /\ key'[s].st = to
          /\ \A t \in KeyServers \ {s} : key'[t] = key[t]
      BY <1>2, <1>3, <2>1 DEF KeysTyped, KeyRow
    <2>3. Has(s)' BY <1>2, <1>3, <2>2 DEF Has
    <2>4. RowOwn(s)'
      <3>1. RowOwn(s) BY DEF LlmInv, LlmInOrder, RowsOwn
      <3> QED BY <1>1, <1>13, <2>2, <2>3, <3>1 DEF RowOwn, MadeFor, MadeSub, newapi
    <2>5. KeylessGone'
      BY <1>1, <1>13, <2>2 DEF KeylessGone, Has, LlmInv, LlmInOrder
    <2>6. s \in calm => Settled(s)'
      BY <1>1, <1>4, <2>2 DEF Settled, SubIs, TokenIs, ActiveSubs, newapi
    <2>7. LeavesCalm(a, s) BY <1>1, <1>7, <1>9, <2>6 DEF LeavesCalm
    <2> QED BY <1>0, <1>1, <1>8, <1>9, <1>10, <1>11, <2>2, <2>3, <2>4, <2>5, <2>7, StepKeeps
  <1> QED BY <1>12, <1>13

LEMMA SetTokenKeeps ==
    ASSUME LlmInv, NEW a \in KeyActors, SetToken(a)
    PROVE  LlmInv'
  <1>1. In(a, "settoken") /\ UNCHANGED <<servers, key, subs, lost>> BY DEF SetToken
  <1>0. PICK s \in KeyServers, r \in KeyRow : call[a].s = s /\ call[a].row = r
    BY <1>1, AtWork DEF In
  <1>2. /\ AccountsTyped /\ SubsTyped /\ OnlyLive /\ MarksTyped /\ KeyCallsTyped /\ BudgetTyped
        /\ CallInOrder(a)
        /\ s \in calm => Fits(a)
        /\ r.acc # 0 /\ call[a].kind # "provision" /\ call[a].to \in {"active", "disabled"}
    BY <1>0, <1>1, AtWork DEF In, Setting, CallInOrder
  <1>3. r.acc \in Accounts /\ MadeFor(r.acc, s) BY <1>0, <1>1, <1>2, AtWork DEF In
  <1>4. lost' \subseteq Accounts /\ lost \subseteq lost' BY <1>1, <1>2 DEF MarksTyped
  <1>5. PICK to, tok : call[a].to = to /\ tok = TokenState(to) OBVIOUS
  <1>6. tok \in {"on", "off"} BY <1>5 DEF TokenState
  <1>7. account' = account \/ TokenSet(r.acc, tok) BY <1>0, <1>5 DEF SetToken
  <1>8. /\ NewapiKept /\ OthersKept(s) /\ NoneMade
        /\ \A b : ActiveSubs(b)' = ActiveSubs(b)
        /\ TokenSet(r.acc, tok) => account'[r.acc].token = tok
    <2>1. NoneMade BY <1>2, <1>3, <1>6, <1>7, NothingMade
    <2>2. CASE TokenSet(r.acc, tok) BY <1>1, <1>2, <1>3, <1>6, <2>1, <2>2, TokenWritten
    <2>3. CASE ~TokenSet(r.acc, tok)
      <3>1. UNCHANGED newapi BY <1>1, <1>7, <2>3 DEF newapi
      <3> QED BY <1>2, <2>1, <2>3, <3>1, NewapiStays DEF ActiveSubs, newapi
    <2> QED BY <2>2, <2>3
  <1>9. s \in calm => /\ Has(s) /\ r.acc = key[s].acc /\ r.st = key[s].st
                      /\ SubIs(r.acc, key[s].sub, key[s].plan) /\ TokenIs(r.acc, key[s].st)
    BY <1>0, <1>1, <1>2 DEF Fits, In, Setting, Settled
  <1>10. ~LiveAccount(r.acc) => s \notin calm
    BY <1>2, <1>3, <1>9 DEF TokenIs, TokenState, OnlyLive, LiveAccount
  <1>11. CASE TokenSet(r.acc, tok) /\ Go(a, "savestatus") /\ Answers
    <2>1. KeyCallsTyped' /\ CallMoves(a, "savestatus") BY <1>2, <1>11, CallGoes DEF KeySteps
    <2>2. s \in calm => /\ SubIs(r.acc, key[s].sub, key[s].plan)' /\ TokenIs(r.acc, to)'
                        /\ Has(s)' /\ r.acc = key'[s].acc /\ r.st = key'[s].st
      BY <1>1, <1>5, <1>8, <1>9, <1>11 DEF SubIs, TokenIs, Has
    <2>3. s \in calm => Fits(a)'
      <3>1. call'[a].row = r /\ call'[a].s = s /\ call'[a].to = to /\ call'[a].pc = "savestatus"
        BY <1>0, <1>5, <2>1 DEF CallMoves
      <3> QED BY <2>2, <3>1 DEF Fits, Making, Rebinding, Setting
    <2>4. CASE a # Sync
      BY <1>0, <1>1, <1>2, <1>4, <1>8, <1>11, <2>3, <2>4, MoveKeeps DEF In, Setting, KeySteps
    <2>5. CASE a = Sync
      <3>1. BudgetTyped' /\ MarksTyped' /\ calm' = calm /\ lost' = lost
        BY <1>1, <1>2, <1>11 DEF Answers, BudgetTyped, MarksTyped
      <3>2. StepOf(a, s) BY <1>0, <1>8, <2>1, <3>1 DEF StepOf, CallMoves
      <3>3. KeepsAccounts(a, s) BY <1>2, <1>8 DEF KeepsAccounts, NoneMade
      <3>4. CallInOrder(a)' /\ SyncInOrder'
        <4>1. SyncInOrder'
          BY <1>1, <1>8, <2>1, <2>5, SyncMovesInOrder DEF LlmInv, In, Setting
        <4>2. lost \subseteq lost' BY <1>4
        <4> QED BY <1>1, <1>8, <2>1, <4>1, <4>2, CallMovesInOrder DEF LlmInv, In, Setting
      <3>5. SyncFits(s)'
        <4>1. s \notin call[Sync].todo /\ s \notin call[Sync].done
          BY <1>0, <1>1, <2>5 DEF LlmInv, LlmInOrder, SyncInOrder, In, Setting
        <4> QED BY <2>1, <2>5, <4>1 DEF SyncFits, CallMoves
      <3>6. call'[a] # NoCall BY <2>1 DEF CallMoves, NoCall
      <3>7. LeavesCalm(a, s) BY <2>3, <3>1, <3>5, <3>6 DEF LeavesCalm
      <3> QED BY <1>0, <1>1, <3>2, <3>3, <3>4, <3>7, NewapiStepKeeps
    <2> QED BY <2>4, <2>5
  <1>12. CASE a # Sync /\ Done(a) /\ (Fails(s) \/ (~LiveAccount(r.acc) /\ Answers))
    <2>1. Answers => s \notin calm BY <1>2, <1>10, <1>12 DEF BudgetTyped, Fails, Answers
    <2> QED BY <1>0, <1>1, <1>2, <1>4, <1>8, <1>12, <2>1, EndKeeps
  <1>13. CASE a = Sync /\ Go(a, "next") /\ (Fails(s) \/ (~LiveAccount(r.acc) /\ Answers))
    <2>1. KeyCallsTyped' /\ CallMoves(a, "next") BY <1>2, <1>13, CallGoes DEF KeySteps
    <2>2. /\ BudgetTyped' /\ MarksTyped' /\ calm' \subseteq calm /\ lost' = lost
          /\ s \notin calm'
      BY <1>1, <1>2, <1>4, <1>10, <1>13, Answered DEF MarksTyped
    <2>3. StepOf(a, s) BY <1>0, <1>8, <2>1, <2>2 DEF StepOf, CallMoves
    <2>4. KeepsAccounts(a, s) BY <1>2, <1>8 DEF KeepsAccounts, NoneMade
    <2>5. SyncInOrder'
      BY <1>1, <1>8, <1>13, <2>1, SyncMovesInOrder DEF LlmInv, Setting
    <2>6. CallInOrder(a)'
      BY <1>1, <1>2, <1>13, <2>1 DEF CallInOrder, CallMoves, In, Making, Rebinding, Setting
    <2>7. LeavesCalm(a, s) BY <2>2 DEF LeavesCalm
    <2> QED BY <1>0, <1>1, <2>3, <2>4, <2>5, <2>6, <2>7, NewapiStepKeeps
  <1> QED BY <1>0, <1>5, <1>11, <1>12, <1>13 DEF SetToken

-------------------------------------------------------------------------------
(* Revoking and deleting *)

LEMMA DeleteUserKeeps ==
    ASSUME LlmInv, NEW a \in KeyActors, DeleteUser(a)
    PROVE  LlmInv'
  <1>1. In(a, "remove") /\ UNCHANGED <<servers, key>> /\ Go(a, "delkey") BY DEF DeleteUser
  <1>0. PICK s \in KeyServers, r \in KeyRow : call[a].s = s /\ call[a].row = r
    BY <1>1, AtWork DEF In
  <1>2. /\ a # Sync /\ AccountsTyped /\ SubsTyped /\ OnlyLive /\ MarksTyped /\ KeyCallsTyped
        /\ r.acc # 0
    BY <1>0, <1>1, AtWork DEF In, Setting, CallInOrder
  <1>3. r.acc \in Accounts /\ MadeFor(r.acc, s) BY <1>0, <1>1, <1>2, AtWork DEF In
  <1>4. /\ Erased(r.acc) \/ UNCHANGED newapi
        /\ Answers \/ Fails(s)
        /\ \/ (Erased(r.acc) \/ (~LiveAccount(r.acc) /\ UNCHANGED newapi)) /\ lost' = lost
           \/ lost' = lost \cup {r.acc}
    BY <1>0 DEF DeleteUser
  <1>5. NewapiKept /\ OthersKept(s) /\ (Erased(r.acc) => ~LiveAccount(r.acc)')
    <2>1. CASE Erased(r.acc) BY <1>2, <1>3, <2>1, AccountErased
    <2>2. CASE ~Erased(r.acc) BY <1>2, <1>4, <2>2, NewapiStays
    <2> QED BY <2>1, <2>2
  <1>6. NoneMade BY <1>2, <1>3, <1>4, NothingMade DEF newapi
  <1>7. lost' \subseteq Accounts /\ lost \subseteq lost' BY <1>2, <1>3, <1>4 DEF MarksTyped
  <1>8. r.acc \in lost' \/ ~LiveAccount(r.acc)' BY <1>4, <1>5 DEF LiveAccount, newapi
  <1>9. CallMoves(a, "delkey") BY <1>1, <1>2, CallGoes DEF KeySteps
  <1>10. Fits(a)' BY <1>9 DEF Fits, CallMoves, Making, Rebinding, Setting
  <1> QED BY <1>0, <1>1, <1>2, <1>4, <1>5, <1>6, <1>7, <1>8, <1>10, MoveKeeps DEF In, KeySteps

LEMMA DeleteKeyKeeps ==
    ASSUME LlmInv, NEW a \in KeyActors, DeleteKey(a)
    PROVE  LlmInv'
  <1>1. In(a, "delkey") /\ UNCHANGED <<servers, newapi, budget, calm>> BY DEF DeleteKey
  <1>0. PICK s \in KeyServers, r \in KeyRow : call[a].s = s /\ call[a].row = r
    BY <1>1, AtWork DEF In
  <1>2. /\ a # Sync /\ AccountsTyped /\ SubsTyped /\ OnlyLive /\ MarksTyped /\ BudgetTyped
        /\ KeyCallsTyped /\ KeysTyped /\ ServersTyped
        /\ call[a].kind \in {"revoke", "delete"}
        /\ ~LiveAccount(r.acc) \/ r.acc \in lost
        /\ s \notin call[Sync].done
    BY <1>0, <1>1, AtWork DEF In, Setting, CallInOrder, DeleteKey, Unlocked
  <1>3. /\ key' = [key EXCEPT ![s] = NoKey]
        /\ lost' = IF Has(s) /\ key[s].acc # r.acc THEN lost \cup {key[s].acc} ELSE lost
    BY <1>0 DEF DeleteKey
  <1>4. RowOwn(s) BY DEF LlmInv, LlmInOrder, RowsOwn
  <1>5. KeysTyped' /\ key'[s] = NoKey /\ (\A t \in KeyServers \ {s} : key'[t] = key[t])
    BY <1>2, <1>3, Blanks DEF KeysTyped
  <1>6. ~Has(s)' /\ key'[s].acc = 0 /\ key'[s].sub = 0 BY <1>5 DEF Has, NoKey
  <1>7. lost \subseteq lost' /\ MarksTyped' BY <1>1, <1>2, <1>3, <1>4 DEF MarksTyped, RowOwn, MadeFor
  <1>8. NewapiKept /\ OthersKept(s) BY <1>1, <1>2, NewapiStays
  <1>9. BudgetTyped' /\ ServersTyped' /\ KeylessGone' /\ calm' = calm
    BY <1>1, <1>5, <1>6 DEF BudgetTyped, ServersTyped, KeylessGone, Has, LlmInv, LlmInOrder, LlmTyped
  <1>10. RowOwn(s)' BY <1>5, <1>6 DEF RowOwn
  <1>11. \A acc \in Accounts : key[s].acc = acc =>
              key'[s].acc = acc \/ acc \in lost' \/ ~LiveAccount(acc)'
    <2>1. 0 \notin Accounts BY LlmAssumption DEF Accounts
    <2>2. ~Has(s) => key[s].acc = 0 BY <1>4 DEF RowOwn, NoKey
    <2>3. \A acc : LiveAccount(acc)' <=> LiveAccount(acc) BY <1>1 DEF LiveAccount, newapi
    <2> QED BY <1>2, <1>3, <2>1, <2>2, <2>3
  <1>12. KeepsAccounts(a, s) BY <1>1, <1>2 DEF KeepsAccounts, LiveAccount, newapi
  <1>13. Settled(s)' BY <1>6 DEF Settled
  <1>14. CASE Done(a)
    <2>1. KeyCallsTyped' /\ CallBecomes(a, NoCall) BY <1>2, <1>14, CallDone
    <2>2. call'[a].s # s BY <2>1, LlmAssumption DEF CallBecomes, NoCall
    <2>3. CallInOrder(a)' BY <2>1, CallEndsInOrder DEF CallBecomes
    <2>4. StepOf(a, s) BY <1>0, <1>2, <1>7, <1>8, <1>9, <2>1 DEF StepOf, CallBecomes
    <2>5. LeavesCalm(a, s) BY <1>2, <1>13, <2>2 DEF LeavesCalm
    <2> QED BY <1>0, <1>2, <1>5, <1>9, <1>10, <1>11, <1>12, <2>3, <2>4, <2>5, StepKeeps
  <1>15. CASE call[a].kind = "delete" /\ Go(a, "drop")
    <2>1. KeyCallsTyped' /\ CallMoves(a, "drop") BY <1>2, <1>15, CallGoes DEF KeySteps
    <2>2. CallInOrder(a)'
      BY <1>1, <1>7, <1>8, <1>15, <2>1, CallMovesInOrder DEF In, LlmInv
    <2>3. StepOf(a, s) BY <1>0, <1>7, <1>8, <1>9, <2>1 DEF StepOf, CallMoves
    <2>4. Fits(a)'
      <3>1. call'[a].s = s /\ call'[a].pc = "drop" BY <1>0, <2>1 DEF CallMoves
      <3> QED BY <1>6, <3>1 DEF Fits, Making, Rebinding, Setting
    <2>5. LeavesCalm(a, s) BY <1>2, <1>13, <2>4 DEF LeavesCalm
    <2> QED BY <1>0, <1>2, <1>5, <1>9, <1>10, <1>11, <1>12, <2>2, <2>3, <2>5, StepKeeps
  <1> QED BY <1>14, <1>15 DEF DeleteKey

LEMMA DropServerKeeps ==
    ASSUME LlmInv, NEW a \in KeyActors, DropServer(a)
    PROVE  LlmInv'
  <1>1. In(a, "drop") /\ UNCHANGED <<newapi, budget, calm>> /\ Done(a) BY DEF DropServer
  <1>0. PICK s \in KeyServers, r \in KeyRow : call[a].s = s /\ call[a].row = r
    BY <1>1, AtWork DEF In
  <1>2. /\ a # Sync /\ AccountsTyped /\ SubsTyped /\ OnlyLive /\ MarksTyped /\ BudgetTyped
        /\ KeyCallsTyped /\ KeysTyped /\ ServersTyped
        /\ s \in calm => Fits(a)
        /\ call[a].kind = "delete" /\ s \notin call[Sync].done
    BY <1>0, <1>1, AtWork DEF In, Setting, CallInOrder, DropServer, Unlocked
  <1>3. NewapiKept /\ OthersKept(s) BY <1>1, <1>2, NewapiStays
  <1>4. KeyCallsTyped' /\ CallBecomes(a, NoCall) BY <1>1, <1>2, CallDone
  <1>5. call'[a].s # s BY <1>4, LlmAssumption DEF CallBecomes, NoCall
  <1>6. CallInOrder(a)' BY <1>4, CallEndsInOrder DEF CallBecomes
  <1>7. BudgetTyped' /\ calm' = calm BY <1>1, <1>2 DEF BudgetTyped
  <1>8. RowOwn(s) BY DEF LlmInv, LlmInOrder, RowsOwn
  <1>9. lost \subseteq lost' /\ MarksTyped'
    BY <1>0, <1>1, <1>2, <1>8 DEF MarksTyped, RowOwn, MadeFor, DropServer
  <1>10. StepOf(a, s) BY <1>0, <1>2, <1>3, <1>4, <1>7, <1>9 DEF StepOf, CallBecomes
  <1>11. KeepsAccounts(a, s) BY <1>1, <1>2 DEF KeepsAccounts, LiveAccount, newapi
  <1>12. s \in calm => ~Has(s) BY <1>0, <1>1, <1>2 DEF Fits, In
  <1>13. CASE UNCHANGED <<servers, key>>
    <2>1. LeavesCalm(a, s) BY <1>2, <1>5, <1>7, <1>12, <1>13 DEF LeavesCalm, Settled, Has
    <2> QED BY <1>0, <1>2, <1>6, <1>10, <1>11, <1>13, <2>1, NewapiStepKeeps
  <1>14. CASE /\ servers' = [servers EXCEPT ![s] = "gone"]
              /\ key' = [key EXCEPT ![s] = NoKey]
              /\ lost' = IF Has(s) THEN lost \cup {key[s].acc} ELSE lost
    <2>1. KeysTyped' /\ key'[s] = NoKey /\ (\A t \in KeyServers \ {s} : key'[t] = key[t])
      BY <1>2, <1>14, Blanks DEF KeysTyped
    <2>2. ~Has(s)' /\ key'[s].acc = 0 /\ key'[s].sub = 0 BY <2>1 DEF Has, NoKey
    <2>3. ServersTyped' /\ KeylessGone'
      BY <1>2, <1>14, <2>1, <2>2 DEF ServersTyped, KeylessGone, Has, LlmInv, LlmInOrder
    <2>4. RowOwn(s)' BY <2>1, <2>2 DEF RowOwn
    <2>5. \A acc \in Accounts : key[s].acc = acc =>
              key'[s].acc = acc \/ acc \in lost' \/ ~LiveAccount(acc)'
      <3>1. 0 \notin Accounts BY LlmAssumption DEF Accounts
      <3>2. ~Has(s) => key[s].acc = 0 BY <1>8 DEF RowOwn, NoKey
      <3> QED BY <1>14, <3>1, <3>2
    <2>6. LeavesCalm(a, s) BY <1>2, <1>5, <2>2 DEF LeavesCalm, Settled
    <2> QED BY <1>0, <1>2, <1>6, <1>10, <1>11, <2>1, <2>3, <2>4, <2>5, <2>6, StepKeeps
  <1> QED BY <1>0, <1>13, <1>14 DEF DropServer

-------------------------------------------------------------------------------
(* Steps that leave NewAPI alone *)

LEMMA SettledSame ==
    ASSUME UNCHANGED newapi, NEW s, key'[s] = key[s]
    PROVE  Settled(s)' <=> Settled(s)
  BY DEF Settled, Has, TokenIs, SubIs, ActiveSubs, newapi

LEMMA FitsSame ==
    ASSUME UNCHANGED newapi, NEW b, call'[b] = call[b], NEW s, call[b].s = s, key'[s] = key[s], Fits(b)
    PROVE  Fits(b)'
  <1>1. Settled(s)' <=> Settled(s) BY SettledSame
  <1>2. Has(s)' <=> Has(s) BY DEF Has
  <1>3. \A acc, st : TokenIs(acc, st)' <=> TokenIs(acc, st) BY DEF TokenIs, newapi
  <1>4. \A acc, q, plan : SubIs(acc, q, plan)' <=> SubIs(acc, q, plan) BY DEF SubIs, ActiveSubs, newapi
  <1>5. \A acc : ActiveSubs(acc)' = ActiveSubs(acc) BY DEF ActiveSubs, newapi
  <1>6. PICK r : call[b].row = r OBVIOUS
  <1> QED BY <1>1, <1>2, <1>3, <1>4, <1>5, <1>6 DEF Fits

LEMMA SyncFitsSame ==
    ASSUME UNCHANGED newapi, NEW s, key'[s] = key[s], call'[Sync] = call[Sync], SyncFits(s)
    PROVE  SyncFits(s)'
  <1>1. Settled(s)' <=> Settled(s) BY SettledSame
  <1>2. Target(s)' = Target(s) /\ (Has(s)' <=> Has(s)) BY DEF Target, Has
  <1>3. \A acc, st : TokenIs(acc, st)' <=> TokenIs(acc, st) BY DEF TokenIs, newapi
  <1>4. \A acc, q, plan : SubIs(acc, q, plan)' <=> SubIs(acc, q, plan) BY DEF SubIs, ActiveSubs, newapi
  <1> QED BY <1>1, <1>2, <1>3, <1>4 DEF SyncFits

\* Only a's call changes; it takes up no server another works on.
LEMMA CalmSame ==
    ASSUME CalmFits, UNCHANGED newapi, calm' \subseteq calm, calm \subseteq KeyServers, NEW a \in KeyActors,
           \A b \in KeyActors \ {a} : call'[b] = call[b],
           \A t \in calm', b \in KeyActors \ {a} : Works(b, t) => key'[t] = key[t],
           \A t \in calm' : Works(a, t)' => Works(a, t) \/ ~Busy(t),
           \A t \in calm' : (call[a].s = t)' => Fits(a)',
           \A t \in calm' : SyncFits(t)',
           \A t \in calm' : (~Busy(t))' => Settled(t)'
    PROVE  CalmFits'
  <1>1. \A t : \A b \in KeyActors \ {a} : Works(b, t)' <=> Works(b, t) BY DEF Works
  <1>2. \A t : Busy(t) <=> \E b \in KeyActors : Works(b, t) BY DEF Busy, Works
  <1>3. OneAtATime'
    <2> SUFFICES ASSUME NEW t \in calm', NEW b \in KeyActors, NEW d \in KeyActors,
                        Works(b, t)', Works(d, t)'
                 PROVE  b = d
      BY DEF OneAtATime
    <2>1. CASE b # a /\ d # a BY <1>1, <2>1 DEF CalmFits, OneAtATime
    <2>2. CASE b = a /\ d # a BY <1>1, <1>2, <2>2 DEF CalmFits, OneAtATime
    <2>3. CASE b # a /\ d = a BY <1>1, <1>2, <2>3 DEF CalmFits, OneAtATime
    <2> QED BY <2>1, <2>2, <2>3
  <1>4. ASSUME NEW t \in calm', NEW b \in KeyActors, (call[b].s = t)' PROVE Fits(b)'
    <2>1. CASE b = a BY <1>4, <2>1
    <2>2. CASE b # a
      <3>1. call'[b] = call[b] /\ call[b].s = t /\ Works(b, t) BY <1>4, <2>2 DEF Works
      <3>2. key'[t] = key[t] /\ Fits(b) BY <2>2, <3>1 DEF CalmFits
      <3> QED BY <3>1, <3>2, FitsSame
    <2> QED BY <2>1, <2>2
  <1> QED BY <1>3, <1>4 DEF CalmFits

\* Nothing but the servers' suspensions changes.
LEMMA SameKeeps ==
    ASSUME LlmInv, UNCHANGED <<key, newapi, call, lost, calm>>, ServersTyped', BudgetTyped', KeylessGone'
    PROVE  LlmInv'
  <1>1. \A a \in KeyActors : CallInOrder(a)'
    BY DEF LlmInv, LlmInOrder, CallInOrder, MadeFor, MadeSub, LiveAccount, newapi
  <1>2. SyncInOrder'
    BY DEF LlmInv, LlmInOrder, SyncInOrder, MadeFor, MadeSub, Target, Has, newapi
  <1>3. RowsOwn' /\ OnlyLive'
    BY DEF LlmInv, LlmInOrder, RowsOwn, RowOwn, OnlyLive, MadeFor, MadeSub, LiveAccount, Has, newapi
  <1>4. KeysTyped' /\ AccountsTyped' /\ SubsTyped' /\ KeyCallsTyped' /\ MarksTyped'
    BY DEF LlmInv, LlmInOrder, LlmTyped, KeysTyped, AccountsTyped, SubsTyped, KeyCallsTyped, MarksTyped, newapi
  <1>5. NoStrayAccount'
    BY DEF LlmInv, NoStrayAccount, Owned, LiveAccount, newapi
  <1>6. CalmFits'
    <2>1. calm \subseteq KeyServers BY DEF LlmInv, LlmInOrder, LlmTyped, MarksTyped
    <2>2. \A t \in calm' : (call[Sync].s = t)' => Fits(Sync)'
      BY FitsSame DEF LlmInv, CalmFits, KeyActors
    <2>3. \A t \in calm' : SyncFits(t)' BY SyncFitsSame DEF LlmInv, CalmFits
    <2>4. \A t \in calm' : (~Busy(t))' => Settled(t)' BY SettledSame DEF LlmInv, CalmFits, Busy
    <2>5. \A t : Works(Sync, t)' => Works(Sync, t) BY DEF Works
    <2> QED BY <2>1, <2>2, <2>3, <2>4, <2>5, CalmSame DEF LlmInv, KeyActors
  <1> QED BY <1>1, <1>2, <1>3, <1>4, <1>5, <1>6 DEF LlmInv, LlmInOrder, LlmTyped

LEMMA ToggleKeeps ==
    ASSUME LlmInv, NEW s \in KeyServers, ToggleSuspension(s)
    PROVE  LlmInv'
  <1>1. /\ servers[s] # "gone" /\ UNCHANGED <<key, newapi, call, lost, calm>>
        /\ servers' = [servers EXCEPT ![s] = IF @ = "running" THEN "suspended" ELSE "running"]
        /\ budget.requests < MaxKeyRequests /\ budget' = [budget EXCEPT !.requests = @ + 1]
    BY DEF ToggleSuspension
  <1>2. BudgetTyped' BY <1>1, LlmAssumption DEF BudgetTyped, LlmInv, LlmInOrder, LlmTyped
  <1>3. ServersTyped' /\ KeylessGone'
    BY <1>1 DEF ServersTyped, KeylessGone, Has, LlmInv, LlmInOrder, LlmTyped
  <1> QED BY <1>1, <1>2, <1>3, SameKeeps

-------------------------------------------------------------------------------
(* Requests *)

\* How a request opens.
Proper(c, s) ==
    /\ c \in KeyCall /\ c.s = s /\ c.todo = {} /\ c.done = {}
    /\ \/ ~Has(s) /\ c.kind = "provision" /\ c.pc = "account" /\ c.row = [NoKey EXCEPT !.plan = c.row.plan]
       \/ /\ Has(s) /\ c.kind \in {"reprovision", "upgrade", "reset"} /\ c.pc = "invalidate"
          /\ c.row.acc = key[s].acc /\ c.row.sub = key[s].sub
       \/ Has(s) /\ c.kind \in {"revoke", "delete"} /\ c.pc = "remove" /\ c.row = key[s]
       \/ /\ Has(s) /\ c.kind = "status" /\ c.pc = "settoken" /\ c.row = key[s]
          /\ c.to \in {"active", "disabled"}
       \/ ~Has(s) /\ c.kind = "delete" /\ c.pc = "drop" /\ c.row = NoKey

Opened(kind, s, pc, row) == [NoCall EXCEPT !.kind = kind, !.s = s, !.pc = pc, !.row = row]
StatusSet(s, to, row) ==
    [NoCall EXCEPT !.kind = "status", !.s = s, !.pc = "settoken", !.row = row, !.to = to]

LEMMA NewCalls ==
    ASSUME NEW s \in KeyServers, NEW kind \in KeyKinds, NEW pc \in KeySteps, NEW row \in KeyRow, NEW c,
           c = Opened(kind, s, pc, row)
    PROVE  /\ c \in KeyCall /\ c.s = s /\ c.todo = {} /\ c.done = {}
           /\ c.kind = kind /\ c.pc = pc /\ c.row = row
  <1>1. NoCall \in KeyCall /\ NoCall.todo = {} /\ NoCall.done = {}
    BY Blanks DEF NoCall
  <1> QED BY <1>1 DEF KeyCall, Opened

LEMMA StatusCalls ==
    ASSUME NEW s \in KeyServers, NEW row \in KeyRow, NEW to \in {"active", "disabled"}, NEW c,
           c = StatusSet(s, to, row)
    PROVE  /\ c \in KeyCall /\ c.s = s /\ c.todo = {} /\ c.done = {}
           /\ c.kind = "status" /\ c.pc = "settoken" /\ c.row = row /\ c.to = to
  <1>1. NoCall \in KeyCall /\ NoCall.todo = {} /\ NoCall.done = {}
    BY Blanks DEF NoCall
  <1> QED BY <1>1 DEF KeyCall, KeyKinds, KeySteps, StatusSet

LEMMA RequestIsProper ==
    ASSUME LlmInv, NEW r \in KeyRequests, KeyRequest(r)
    PROVE  \E s \in KeyServers, c \in KeyCall :
               /\ Proper(c, s) /\ call' = [call EXCEPT ![r] = c]
               /\ calm' = IF Busy(s) THEN calm \ {s} ELSE calm
  <1>1. PICK s \in KeyServers :
            \/ \E plan \in LlmPlans : Provision(r, s, plan) \/ UpdateForUpgrade(r, s, plan)
            \/ \E st \in {"active", "disabled"} : AdminSetStatus(r, s, st)
            \/ AdminResetUsage(r, s) \/ Revoke(r, s) \/ DeleteServer(r, s)
    BY DEF KeyRequest
  <1>2. key[s] \in KeyRow /\ KeysTyped BY DEF LlmInv, LlmInOrder, LlmTyped, KeysTyped
  <1>3. ASSUME NEW kind \in KeyKinds, NEW pc \in KeySteps, NEW row \in KeyRow,
               Opens(r, kind, s, pc, row),
               \/ ~Has(s) /\ kind = "provision" /\ pc = "account" /\ row = [NoKey EXCEPT !.plan = row.plan]
               \/ /\ Has(s) /\ kind \in {"reprovision", "upgrade", "reset"} /\ pc = "invalidate"
                  /\ row.acc = key[s].acc /\ row.sub = key[s].sub
               \/ Has(s) /\ kind \in {"revoke", "delete"} /\ pc = "remove" /\ row = key[s]
               \/ ~Has(s) /\ kind = "delete" /\ pc = "drop" /\ row = NoKey
        PROVE  \E c \in KeyCall : /\ Proper(c, s) /\ call' = [call EXCEPT ![r] = c]
                                  /\ calm' = IF Busy(s) THEN calm \ {s} ELSE calm
    <2>1. PICK c : c = Opened(kind, s, pc, row) OBVIOUS
    <2>2. /\ c \in KeyCall /\ c.s = s /\ c.todo = {} /\ c.done = {}
          /\ c.kind = kind /\ c.pc = pc /\ c.row = row
      BY <2>1, NewCalls
    <2>3. Proper(c, s) BY <1>3, <2>2 DEF Proper
    <2>4. call' = [call EXCEPT ![r] = c] /\ (calm' = IF Busy(s) THEN calm \ {s} ELSE calm)
      BY <1>3, <2>1 DEF Opens, Opened
    <2> QED BY <2>2, <2>3, <2>4
  <1>4. /\ \A plan \in LlmPlans : [NoKey EXCEPT !.plan = plan] \in KeyRow
        /\ \A plan \in LlmPlans : [NoKey EXCEPT !.plan = plan].plan = plan
        /\ \A plan \in LlmPlans : /\ [key[s] EXCEPT !.plan = plan] \in KeyRow
                                  /\ [key[s] EXCEPT !.plan = plan].acc = key[s].acc
                                  /\ [key[s] EXCEPT !.plan = plan].sub = key[s].sub
        /\ NoKey \in KeyRow
    BY <1>2, Blanks DEF KeyRow, NoKey
  <1>5. ASSUME NEW plan \in LlmPlans, Provision(r, s, plan)
        PROVE  \E c \in KeyCall : /\ Proper(c, s) /\ call' = [call EXCEPT ![r] = c]
                                  /\ calm' = IF Busy(s) THEN calm \ {s} ELSE calm
    BY <1>3, <1>4, <1>5 DEF Provision, KeyKinds, KeySteps, Has
  <1>6. ASSUME Revoke(r, s) \/ DeleteServer(r, s) \/ AdminResetUsage(r, s)
        PROVE  \E c \in KeyCall : /\ Proper(c, s) /\ call' = [call EXCEPT ![r] = c]
                                  /\ calm' = IF Busy(s) THEN calm \ {s} ELSE calm
    BY <1>2, <1>3, <1>4, <1>6 DEF Revoke, DeleteServer, AdminResetUsage, KeyKinds, KeySteps
  <1>7. ASSUME NEW plan \in LlmPlans, UpdateForUpgrade(r, s, plan)
        PROVE  \E c \in KeyCall : /\ Proper(c, s) /\ call' = [call EXCEPT ![r] = c]
                                  /\ calm' = IF Busy(s) THEN calm \ {s} ELSE calm
    BY <1>2, <1>3, <1>4, <1>5, <1>6, <1>7 DEF UpdateForUpgrade, KeyKinds, KeySteps
  <1>8. ASSUME NEW st \in {"active", "disabled"}, AdminSetStatus(r, s, st)
        PROVE  \E c \in KeyCall : /\ Proper(c, s) /\ call' = [call EXCEPT ![r] = c]
                                  /\ calm' = IF Busy(s) THEN calm \ {s} ELSE calm
    <2>1. PICK c : c = StatusSet(s, st, key[s]) OBVIOUS
    <2>2. /\ c \in KeyCall /\ c.s = s /\ c.todo = {} /\ c.done = {}
          /\ c.kind = "status" /\ c.pc = "settoken" /\ c.row = key[s] /\ c.to = st
      BY <1>2, <2>1, StatusCalls
    <2>3. call' = [call EXCEPT ![r] = c] /\ Has(s) /\ (calm' = IF Busy(s) THEN calm \ {s} ELSE calm)
      BY <1>8, <2>1 DEF AdminSetStatus, StatusSet
    <2>4. Proper(c, s) BY <1>8, <2>2, <2>3 DEF Proper
    <2> QED BY <2>2, <2>3, <2>4
  <1> QED BY <1>1, <1>5, <1>6, <1>7, <1>8

LEMMA OpensInOrder ==
    ASSUME NEW a \in KeyActors, a # Sync, NEW s \in KeyServers, NEW acc \in Accounts, NEW q,
           \/ call'[a].pc = "invalidate" /\ call'[a].kind \in {"reprovision", "upgrade", "reset"}
           \/ call'[a].pc = "remove" /\ call'[a].kind \in {"revoke", "delete"}
           \/ /\ call'[a].pc = "settoken" /\ call'[a].kind = "status"
              /\ call'[a].to \in {"active", "disabled"},
           call'[a].s = s, call'[a].todo = {}, call'[a].done = {},
           call'[a].row.acc = acc, MadeFor(acc, s)', call'[a].row.sub = q, q = 0 \/ MadeSub(q, s)'
    PROVE  CallInOrder(a)'
  <1>1. acc # 0 BY LlmAssumption DEF Accounts
  <1> QED BY <1>1 DEF CallInOrder, Making, Rebinding, Setting

LEMMA RequestKeeps ==
    ASSUME LlmInv, NEW r \in KeyRequests, KeyRequest(r)
    PROVE  LlmInv'
  <1>1. PICK s \in KeyServers, c \in KeyCall :
            /\ Proper(c, s) /\ call' = [call EXCEPT ![r] = c]
            /\ calm' = IF Busy(s) THEN calm \ {s} ELSE calm
    BY RequestIsProper
  <1>2. /\ UNCHANGED <<servers, key, newapi, lost>> /\ call[r] = NoCall
        /\ budget.requests < MaxKeyRequests /\ budget' = [budget EXCEPT !.requests = @ + 1]
    BY DEF KeyRequest
  <1>3. /\ r \in KeyActors /\ r # Sync
        /\ ServersTyped /\ KeysTyped /\ AccountsTyped /\ SubsTyped /\ OnlyLive
        /\ KeyCallsTyped /\ BudgetTyped /\ MarksTyped /\ KeylessGone
    BY LlmAssumption DEF KeyActors, LlmInv, LlmInOrder, LlmTyped
  <1>4. KeyCallsTyped' /\ CallBecomes(r, c) BY <1>1, <1>3, CallWrites
  <1>5. NewapiKept /\ OthersKept(s) BY <1>2, <1>3, NewapiStays
  <1>6. BudgetTyped' BY <1>2, <1>3, LlmAssumption DEF BudgetTyped
  <1>7. /\ ServersTyped' /\ KeysTyped' /\ MarksTyped' /\ KeylessGone' /\ calm' \subseteq calm
    BY <1>1, <1>2, <1>3 DEF ServersTyped, KeysTyped, MarksTyped, KeylessGone, Has
  <1>8. RowOwn(s) /\ RowOwn(s)' BY <1>2, <1>5, RowStays DEF LlmInv, LlmInOrder, RowsOwn
  <1>9. PICK acc, q : acc = key[s].acc /\ q = key[s].sub OBVIOUS
  <1>10. CallInOrder(r)'
    <2>1. call'[r] = c BY <1>4 DEF CallBecomes
    <2>2. /\ Has(s) => acc \in Accounts /\ MadeFor(acc, s)'
          /\ q = 0 \/ MadeSub(q, s)'
      BY <1>2, <1>8, <1>9 DEF RowOwn, MadeFor, Has
    <2>3. CASE c.kind = "provision" /\ c.pc = "account" /\ c.row = [NoKey EXCEPT !.plan = c.row.plan]
      <3>1. c.row.acc = 0 /\ c.row.sub = 0 BY <2>3 DEF NoKey
      <3> QED BY <1>1, <1>3, <2>1, <2>3, <3>1 DEF Proper, CallInOrder, Making, Rebinding, Setting
    <2>4. CASE /\ Has(s) /\ c.row.acc = key[s].acc /\ c.row.sub = key[s].sub
               /\ \/ c.pc = "invalidate" /\ c.kind \in {"reprovision", "upgrade", "reset"}
                  \/ c.pc = "remove" /\ c.kind \in {"revoke", "delete"}
                  \/ c.pc = "settoken" /\ c.kind = "status" /\ c.to \in {"active", "disabled"}
      BY <1>1, <1>3, <1>9, <2>1, <2>2, <2>4, OpensInOrder DEF Proper
    <2>5. CASE c.kind = "delete" /\ c.pc = "drop" /\ c.row = NoKey
      <3>1. c.row.acc = 0 /\ c.row.sub = 0 BY <2>5 DEF NoKey
      <3> QED BY <1>1, <1>3, <2>1, <2>5, <3>1 DEF Proper, CallInOrder, Making, Rebinding, Setting
    <2> QED BY <1>1, <2>3, <2>4, <2>5 DEF Proper
  <1>11. LlmInOrder'
    <2>1. LlmTyped' BY <1>4, <1>5, <1>6, <1>7 DEF LlmTyped, NewapiKept
    <2>2. Has(s)' \/ s \notin call[Sync].done BY <1>2 DEF LlmInv, LlmInOrder, SyncInOrder, Has
    <2>3. lost \subseteq lost' /\ \A t \in KeyServers : key'[t] = key[t] BY <1>2
    <2> QED BY <1>3, <1>4, <1>5, <1>7, <1>8, <1>10, <2>1, <2>2, <2>3, InOrder DEF LlmInv, CallBecomes
  <1>12. NoStrayAccount'
    <2>1. call[r].kind = "none" BY <1>2 DEF NoCall
    <2>2. \A b \in KeyActors : call[b].kind = "provision" => call'[b] = call[b]
      BY <1>4, <2>1 DEF CallBecomes
    <2> QED BY <1>2, <2>2 DEF LlmInv, NoStrayAccount, Owned, LiveAccount, newapi
  <1>13. CalmFits'
    <2>1. \A t : Works(r, t)' => t = s BY <1>1, <1>4 DEF Works, CallBecomes, Proper
    <2>2. \A t : ~Works(r, t) \/ t \notin KeyServers BY <1>2, LlmAssumption DEF Works, NoCall
    <2>3. \A t \in calm' : t \in calm /\ t \in KeyServers /\ (t = s => ~Busy(s)) BY <1>1, <1>3 DEF MarksTyped
    <2>4. \A t \in calm' : (call[r].s = t)' => Fits(r)'
      <3> SUFFICES ASSUME s \in calm' PROVE Fits(r)'
        BY <1>1, <1>4 DEF CallBecomes, Proper
      <3>1. call'[r] = c /\ c.s = s /\ s \in calm /\ Settled(s)
        BY <1>1, <1>4, <2>3 DEF CallBecomes, Proper, LlmInv, CalmFits
      <3>2. Settled(s)' /\ (Has(s)' <=> Has(s)) BY <1>2, <3>1, SettledSame DEF Has
      <3> QED BY <1>1, <1>2, <3>1, <3>2 DEF Proper, Fits, Making, Rebinding, Setting
    <2>5. \A t \in calm' : SyncFits(t)'
      BY <1>2, <1>3, <1>4, <2>3, SyncFitsSame DEF CallBecomes, KeyActors, LlmInv, CalmFits
    <2>6. \A t \in calm' : (~Busy(t))' => Settled(t)'
      <3>1. \A t \in calm' : Busy(t) => Busy(t)'
        BY <1>4, <2>2, <2>3 DEF Busy, Works, CallBecomes
      <3> QED BY <1>2, <2>3, <3>1, SettledSame DEF LlmInv, CalmFits
    <2> QED BY <1>2, <1>3, <1>4, <1>7, <2>1, <2>3, <2>4, <2>5, <2>6, CalmSame
          DEF LlmInv, CallBecomes, MarksTyped
  <1> QED BY <1>11, <1>12, <1>13 DEF LlmInv

-------------------------------------------------------------------------------
(* The nightly sync *)

\* A step of the sync that writes no row.
LEMMA SyncStepKeeps ==
    ASSUME LlmInv, NEW c \in KeyCall, call' = [call EXCEPT ![Sync] = c], c.kind # "provision",
           call[Sync].kind # "provision", UNCHANGED <<servers, key, newapi, lost>>,
           BudgetTyped', calm' \subseteq calm, CallInOrder(Sync)', SyncInOrder',
           \A t \in calm' : Works(Sync, t)' => Works(Sync, t) \/ ~Busy(t),
           \A t \in calm' : c.s = t => Fits(Sync)',
           \A t \in calm' : SyncFits(t)',
           \A t \in calm' : (~Busy(t))' => Settled(t)
    PROVE  LlmInv'
  <1>1. /\ Sync \in KeyActors
        /\ ServersTyped /\ KeysTyped /\ AccountsTyped /\ SubsTyped /\ OnlyLive
        /\ KeyCallsTyped /\ MarksTyped /\ KeylessGone
    BY DEF KeyActors, LlmInv, LlmInOrder, LlmTyped
  <1>2. KeyCallsTyped' /\ CallBecomes(Sync, c) BY <1>1, CallWrites
  <1>3. NewapiKept
    BY <1>1 DEF NewapiKept, OriginsKept, AccountsTyped, SubsTyped, OnlyLive, newapi, MadeFor,
                MadeSub, LiveAccount
  <1>4. ServersTyped' /\ KeysTyped' /\ MarksTyped' /\ KeylessGone'
    BY <1>1 DEF ServersTyped, KeysTyped, MarksTyped, KeylessGone, Has
  <1>5. RowsOwn' BY <1>3, RowStays DEF LlmInv, RowsOwn
  <1>6. \A a \in KeyActors : CallInOrder(a)'
    BY <1>2, <1>3, CallKept DEF CallBecomes, LlmInv
  <1>7. LlmInOrder' BY <1>2, <1>3, <1>4, <1>5, <1>6 DEF LlmInOrder, LlmTyped, NewapiKept
  <1>8. NoStrayAccount'
    <2>1. \A b \in KeyActors : call[b].kind = "provision" => call'[b] = call[b]
      BY <1>2 DEF CallBecomes
    <2> QED BY <2>1 DEF LlmInv, NoStrayAccount, Owned, LiveAccount, newapi
  <1>9. CalmFits'
    <2>1. \A t \in calm' : (call[Sync].s = t)' => Fits(Sync)' BY <1>2 DEF CallBecomes
    <2>2. \A t \in calm' : (~Busy(t))' => Settled(t)' BY SettledSame
    <2>3. \A b \in KeyActors \ {Sync} : call'[b] = call[b] BY <1>2 DEF CallBecomes
    <2> QED BY <1>1, <2>1, <2>2, <2>3, CalmSame DEF LlmInv, MarksTyped
  <1> QED BY <1>7, <1>8, <1>9 DEF LlmInv

\* What the sync's call has is its servers'.
LEMMA SyncAtWork ==
    LlmInv => /\ Sync \in KeyActors /\ call[Sync] \in KeyCall /\ CallInOrder(Sync) /\ SyncInOrder
              /\ KeyCallsTyped /\ KeysTyped /\ BudgetTyped /\ MarksTyped
              /\ call[Sync].kind # "provision"
              /\ \A t \in KeyServers : call[Sync].seen[t] \in KeyRow
  <1> SUFFICES ASSUME LlmInv
               PROVE  /\ Sync \in KeyActors /\ call[Sync] \in KeyCall /\ CallInOrder(Sync) /\ SyncInOrder
                      /\ KeyCallsTyped /\ KeysTyped /\ BudgetTyped /\ MarksTyped
                      /\ call[Sync].kind # "provision"
                      /\ \A t \in KeyServers : call[Sync].seen[t] \in KeyRow
    OBVIOUS
  <1>1. Sync \in KeyActors BY DEF KeyActors
  <1>2. call[Sync] \in KeyCall /\ CallInOrder(Sync) BY <1>1 DEF LlmInv, LlmInOrder, LlmTyped, KeyCallsTyped
  <1>3. call[Sync].kind # "provision" BY <1>2 DEF CallInOrder
  <1>4. \A t \in KeyServers : call[Sync].seen[t] \in KeyRow BY <1>2 DEF KeyCall
  <1> QED BY <1>1, <1>2, <1>3, <1>4 DEF LlmInv, LlmInOrder, LlmTyped

LEMMA SyncStartKeeps ==
    ASSUME LlmInv, SyncAllStates
    PROVE  LlmInv'
  <1> DEFINE rows == {s \in KeyServers : Has(s)}
             held == {s \in KeyServers : servers[s] = "suspended"}
  <1>1. /\ call[Sync] = NoCall /\ UNCHANGED <<servers, key, newapi, lost>>
        /\ budget.syncs < MaxSyncs /\ budget' = [budget EXCEPT !.syncs = @ + 1]
        /\ calm' = calm \ {s \in rows : Busy(s)}
    BY DEF SyncAllStates
  <1>2. PICK c : c = [NoCall EXCEPT !.kind = "sync", !.pc = "next", !.todo = rows, !.seen = key, !.held = held]
    OBVIOUS
  <1>3. call' = [call EXCEPT ![Sync] = c] BY <1>2 DEF SyncAllStates
  <1>4. /\ c \in KeyCall /\ c.kind = "sync" /\ c.pc = "next" /\ c.s = NoServer /\ c.todo = rows
        /\ c.done = {} /\ c.seen = key
    <2>1. NoCall \in KeyCall /\ NoCall.s = NoServer /\ NoCall.done = {} BY Blanks DEF NoCall
    <2>2. key \in [KeyServers -> KeyRow] BY SyncAtWork DEF KeysTyped
    <2> QED BY <1>2, <2>1, <2>2 DEF KeyCall, KeyKinds, KeySteps
  <1>5. call'[Sync] = c BY <1>3, SyncAtWork DEF KeyCallsTyped
  <1>6. BudgetTyped' /\ calm' \subseteq calm /\ calm \subseteq KeyServers
    BY <1>1, SyncAtWork, LlmAssumption DEF BudgetTyped, MarksTyped
  <1>7. CallInOrder(Sync)'
    BY <1>4, <1>5 DEF CallInOrder, Making, Rebinding, Setting
  <1>8. SyncInOrder'
    <2>1. PICK k, todo : k = key /\ todo = rows OBVIOUS
    <2>2. \A t \in KeyServers : /\ k[t].acc # 0 => MadeFor(k[t].acc, t)'
                                /\ k[t].sub # 0 => MadeSub(k[t].sub, t)'
      <3>1. \A t \in KeyServers : RowOwn(t) BY DEF LlmInv, LlmInOrder, RowsOwn
      <3>2. NoKey.acc = 0 BY DEF NoKey
      <3> QED BY <1>1, <2>1, <3>1, <3>2 DEF RowOwn, MadeFor, MadeSub, newapi
    <2>3. \A t \in todo : k[t].acc # 0
      <3>1. 0 \notin Accounts BY LlmAssumption DEF Accounts
      <3> QED BY <2>1, <3>1 DEF LlmInv, LlmInOrder, RowsOwn, RowOwn, MadeFor
    <2>4. NoServer \notin todo BY <2>1, LlmAssumption
    <2> QED BY <1>4, <1>5, <2>1, <2>2, <2>3, <2>4 DEF SyncInOrder, Setting
  <1>9. \A t \in calm' : Works(Sync, t)' => ~Busy(t)
    BY <1>1, <1>4, <1>5, <1>6, LlmAssumption DEF Works
  <1>10. \A t \in calm' : c.s # t BY <1>4, <1>6, LlmAssumption
  <1>11. \A t \in calm' : ~Busy(t) => Settled(t) BY <1>6 DEF LlmInv, CalmFits
  <1>12. \A t \in calm' : SyncFits(t)'
    <2> SUFFICES ASSUME NEW t \in calm' PROVE SyncFits(t)'
      OBVIOUS
    <2>1. t \in rows => Has(t) /\ Settled(t) BY <1>1, <1>11
    <2>2. t \in rows => Has(t)' /\ Settled(t)' BY <1>1, <2>1, SettledSame DEF Has
    <2> QED BY <1>1, <1>4, <1>5, <1>10, <2>2 DEF SyncFits
  <1>13. \A t \in calm' : (~Busy(t))' => Settled(t)
    <2>1. \A t \in calm' : Busy(t) => Busy(t)'
      <3>1. \A t \in calm' : ~Works(Sync, t) BY <1>1, <1>6, LlmAssumption DEF Works, NoCall
      <3>2. \A b \in KeyActors \ {Sync} : call'[b] = call[b] BY <1>3, SyncAtWork DEF KeyCallsTyped
      <3> QED BY <3>1, <3>2 DEF Busy, Works
    <2> QED BY <1>11, <2>1
  <1> QED BY <1>1, <1>3, <1>4, <1>6, <1>7, <1>8, <1>9, <1>10, <1>12, <1>13, SyncAtWork, SyncStepKeeps

LEMMA SyncNextKeeps ==
    ASSUME LlmInv, SyncNext
    PROVE  LlmInv'
  <1>1. /\ In(Sync, "next") /\ UNCHANGED <<servers, key, newapi, budget, lost, calm>> BY DEF SyncNext
  <1>2. PICK s \in call[Sync].todo :
            IF call[Sync].seen[s].st = Target(s)
            THEN call' = [call EXCEPT ![Sync].todo = @ \ {s}, ![Sync].s = NoServer]
            ELSE call' = [call EXCEPT ![Sync].todo = @ \ {s}, ![Sync].s = s, ![Sync].pc = "settoken",
                                      ![Sync].row = call[Sync].seen[s], ![Sync].to = Target(s)]
    BY DEF SyncNext
  <1>3. PICK old : old = call[Sync] OBVIOUS
  <1>4. /\ old \in KeyCall /\ old.pc = "next" /\ old.kind = "sync" /\ s \in old.todo
        /\ s \in KeyServers /\ old.seen[s] \in KeyRow /\ call \in [KeyActors -> KeyCall] /\ Sync \in KeyActors
    BY <1>1, <1>2, <1>3, SyncAtWork DEF In, CallInOrder, KeyCallsTyped, KeyCall
  <1>5. PICK to : to = Target(s) OBVIOUS
  <1>6. to \in {"active", "disabled"} BY <1>5 DEF Target
  <1>7. /\ s \notin old.done /\ old.todo \cap old.done = {} /\ old.seen[s].acc # 0
        /\ \A t \in old.todo : old.seen[t].acc # 0
        /\ \A t \in old.done : Has(t)
        /\ \A t \in KeyServers : /\ old.seen[t].acc # 0 => MadeFor(old.seen[t].acc, t)
                                 /\ old.seen[t].sub # 0 => MadeSub(old.seen[t].sub, t)
    BY <1>2, <1>3, SyncAtWork DEF SyncInOrder
  <1>8. \A t \in KeyServers : /\ old.seen[t].acc # 0 => MadeFor(old.seen[t].acc, t)'
                              /\ old.seen[t].sub # 0 => MadeSub(old.seen[t].sub, t)'
    BY <1>1, <1>7 DEF MadeFor, MadeSub, newapi
  <1>9. \A t \in calm : /\ t \in KeyServers
                        /\ t \in old.todo => Has(t) /\ Settled(t) /\ old.seen[t] = key[t]
                        /\ t \in old.done => TokenIs(key[t].acc, Target(t)) /\ SubIs(key[t].acc, key[t].sub, key[t].plan)
                        /\ old.s = t => t \in old.done
                        /\ ~Busy(t) => Settled(t)
    BY <1>3, <1>4, SyncAtWork DEF LlmInv, CalmFits, SyncFits, MarksTyped
  <1>10. \A t : /\ Has(t)' <=> Has(t)
                /\ Settled(t)' <=> Settled(t)
                /\ \A acc, st : TokenIs(acc, st)' <=> TokenIs(acc, st)
                /\ \A acc, q, plan : SubIs(acc, q, plan)' <=> SubIs(acc, q, plan)
    BY <1>1, SettledSame DEF Has, TokenIs, SubIs, ActiveSubs, newapi
  <1>11. BudgetTyped' BY <1>1, SyncAtWork DEF BudgetTyped
  <1>12. PICK c : \/ to = old.seen[s].st /\ c = [old EXCEPT !.todo = @ \ {s}, !.s = NoServer]
                  \/ /\ to # old.seen[s].st
                     /\ c = [old EXCEPT !.todo = @ \ {s}, !.s = s, !.pc = "settoken",
                                        !.row = old.seen[s], !.to = to]
    OBVIOUS
  <1>13. /\ c \in KeyCall /\ c.kind = "sync" /\ c.todo = old.todo \ {s} /\ c.done = old.done
         /\ c.seen = old.seen /\ c.held = old.held
         /\ \/ c.s = NoServer /\ c.pc = "next"
            \/ c.s = s /\ c.pc = "settoken" /\ c.row = old.seen[s] /\ c.to = to
    <2>1. PICK row, todo : row = old.seen[s] /\ todo = old.todo \ {s} OBVIOUS
    <2>2. row \in KeyRow /\ todo \in SUBSET KeyServers /\ NoServer \in KeyServers \cup {NoServer}
      BY <1>4, <2>1 DEF KeyCall
    <2>3. CASE c = [old EXCEPT !.todo = todo, !.s = NoServer]
      BY <1>4, <2>1, <2>2, <2>3 DEF KeyCall
    <2>4. CASE c = [old EXCEPT !.todo = todo, !.s = s, !.pc = "settoken", !.row = row, !.to = to]
      <3>1. "settoken" \in KeySteps BY DEF KeySteps
      <3> QED BY <1>4, <1>6, <2>1, <2>2, <2>4, <3>1 DEF KeyCall
    <2> QED BY <1>12, <2>1, <2>3, <2>4
  <1>14. call' = [call EXCEPT ![Sync] = c]
    BY <1>2, <1>3, <1>4, <1>5, <1>12 DEF KeyCall
  <1>15. call'[Sync] = c /\ \A b \in KeyActors \ {Sync} : call'[b] = call[b] BY <1>4, <1>14
  <1>16. \A t : Target(t)' = Target(t) BY <1>3, <1>13, <1>15 DEF Target
  <1>17. CallInOrder(Sync)'
    <2>1. CASE c.s = NoServer /\ c.pc = "next"
      BY <1>13, <1>15, <2>1 DEF CallInOrder, Making, Rebinding, Setting
    <2>2. CASE c.s = s /\ c.pc = "settoken" /\ c.row = old.seen[s] /\ c.to = to
      <3>1. PICK row : row = old.seen[s] OBVIOUS
      <3>2. row.acc # 0 /\ MadeFor(row.acc, s)' /\ (row.sub # 0 => MadeSub(row.sub, s)')
        BY <1>4, <1>7, <1>8, <3>1
      <3> QED BY <1>4, <1>6, <1>13, <1>15, <2>2, <3>1, <3>2 DEF CallInOrder, Making, Rebinding, Setting
    <2> QED BY <1>13, <2>1, <2>2
  <1>18. SyncInOrder'
    <2>1. c.s \notin c.todo
      BY <1>4, <1>13, LlmAssumption DEF KeyCall
    <2>2. c.pc \in Setting => c.s \notin c.done /\ c.to = Target(c.s)'
      BY <1>5, <1>7, <1>13, <1>16 DEF Setting
    <2> QED BY <1>7, <1>8, <1>10, <1>13, <1>15, <2>1, <2>2 DEF SyncInOrder
  <1>19. \A t \in calm' : Works(Sync, t)' => Works(Sync, t)
    BY <1>1, <1>3, <1>4, <1>9, <1>13, <1>15, LlmAssumption DEF Works
  <1>20. \A t \in calm' : c.s = t => Fits(Sync)'
    <2> SUFFICES ASSUME NEW t \in calm', c.s = t PROVE Fits(Sync)'
      OBVIOUS
    <2>1. t = s /\ s \in calm /\ c.pc = "settoken" /\ c.row = old.seen[s]
      BY <1>1, <1>9, <1>13, LlmAssumption
    <2>2. Has(s)' /\ Settled(s)' /\ old.seen[s] = key'[s] BY <1>1, <1>4, <1>9, <1>10, <2>1
    <2> QED BY <1>15, <2>1, <2>2 DEF Fits, Making, Rebinding, Setting
  <1>21. \A t \in calm' : SyncFits(t)'
    BY <1>1, <1>4, <1>9, <1>10, <1>13, <1>15, <1>16, LlmAssumption DEF SyncFits
  <1>22. \A t \in calm' : (~Busy(t))' => Settled(t)
    <2> SUFFICES ASSUME NEW t \in calm', ~(Busy(t)') PROVE Settled(t)
      OBVIOUS
    <2>1. CASE t = s BY <1>1, <1>4, <1>9, <2>1
    <2>2. CASE t # s
      <3>1. ~Works(Sync, t)
        BY <1>1, <1>3, <1>4, <1>9, <1>13, <1>15, <2>2 DEF Busy, Works
      <3>2. ~Busy(t) BY <1>15, <3>1 DEF Busy, Works
      <3> QED BY <1>1, <1>9, <3>2
    <2> QED BY <2>1, <2>2
  <1>23. calm' \subseteq calm BY <1>1
  <1> QED BY <1>1, <1>3, <1>4, <1>11, <1>13, <1>14, <1>17, <1>18, <1>19, <1>20, <1>21, <1>22, <1>23, SyncStepKeeps

LEMMA SyncSaveStatusKeeps ==
    ASSUME LlmInv, SyncSaveStatus
    PROVE  LlmInv'
  <1>1. In(Sync, "savestatus") /\ UNCHANGED <<servers, key, newapi, budget, lost>> BY DEF SyncSaveStatus
  <1>2. PICK old, s : old = call[Sync] /\ s = old.s OBVIOUS
  <1>3. /\ old \in KeyCall /\ old.pc = "savestatus" /\ old.kind = "sync" /\ s \in KeyServers
        /\ call \in [KeyActors -> KeyCall] /\ Sync \in KeyActors
    BY <1>1, <1>2, SyncAtWork DEF In, CallInOrder, KeyCallsTyped, KeyCall, Setting
  <1>4. /\ s \notin old.todo /\ s \notin old.done /\ old.to = Target(s)
        /\ old.todo \cap old.done = {}
        /\ \A t \in old.todo : old.seen[t].acc # 0
        /\ \A t \in old.done : Has(t)
        /\ \A t \in KeyServers : /\ old.seen[t].acc # 0 => MadeFor(old.seen[t].acc, t)
                                 /\ old.seen[t].sub # 0 => MadeSub(old.seen[t].sub, t)
    BY <1>2, <1>3, SyncAtWork DEF SyncInOrder, Setting
  <1>5. \A t \in KeyServers : /\ old.seen[t].acc # 0 => MadeFor(old.seen[t].acc, t)'
                              /\ old.seen[t].sub # 0 => MadeSub(old.seen[t].sub, t)'
    BY <1>1, <1>4 DEF MadeFor, MadeSub, newapi
  <1>6. \A t \in calm : /\ t \in KeyServers
                        /\ t \in old.todo => Has(t) /\ Settled(t) /\ old.seen[t] = key[t]
                        /\ t \in old.done => TokenIs(key[t].acc, Target(t)) /\ SubIs(key[t].acc, key[t].sub, key[t].plan)
                        /\ ~Busy(t) => Settled(t)
    BY <1>2, SyncAtWork DEF LlmInv, CalmFits, SyncFits, MarksTyped
  <1>7. s \in calm => /\ Has(s) /\ TokenIs(key[s].acc, Target(s))
                      /\ SubIs(key[s].acc, key[s].sub, key[s].plan)
    <2>1. s \in calm => Fits(Sync) BY <1>2, <1>3 DEF LlmInv, CalmFits
    <2> QED BY <1>2, <1>3, <1>4, <2>1 DEF Fits, Setting
  <1>8. \A t : /\ Has(t)' <=> Has(t)
               /\ Settled(t)' <=> Settled(t)
               /\ \A acc, st : TokenIs(acc, st)' <=> TokenIs(acc, st)
               /\ \A acc, q, plan : SubIs(acc, q, plan)' <=> SubIs(acc, q, plan)
    BY <1>1, SettledSame DEF Has, TokenIs, SubIs, ActiveSubs, newapi
  <1>9. BudgetTyped' BY <1>1, SyncAtWork DEF BudgetTyped
  <1>10. CASE Has(s)
    <2>1. PICK c : c = [old EXCEPT !.pc = "next", !.done = @ \cup {s}] OBVIOUS
    <2>2. /\ c \in KeyCall /\ c.kind = "sync" /\ c.pc = "next" /\ c.todo = old.todo /\ c.done = old.done \cup {s}
          /\ c.seen = old.seen /\ c.held = old.held /\ c.s = s
      BY <1>2, <1>3, <2>1 DEF KeyCall, KeySteps
    <2>3. call' = [call EXCEPT ![Sync] = c] /\ calm' = calm
      BY <1>2, <1>3, <1>10, <2>1 DEF KeyCall, SyncSaveStatus
    <2>4. call'[Sync] = c /\ \A b \in KeyActors \ {Sync} : call'[b] = call[b] BY <1>3, <2>3
    <2>5. \A t : Target(t)' = Target(t) BY <1>2, <2>2, <2>4 DEF Target
    <2>6. CallInOrder(Sync)' BY <2>2, <2>4 DEF CallInOrder, Making, Rebinding, Setting
    <2>7. SyncInOrder' BY <1>4, <1>5, <1>8, <1>10, <2>2, <2>4 DEF SyncInOrder, Setting
    <2>8. \A t \in calm' : Works(Sync, t)' <=> Works(Sync, t) BY <1>2, <2>2, <2>4 DEF Works
    <2>9. \A t \in calm' : c.s = t => Fits(Sync)'
      BY <2>2, <2>4 DEF Fits, Making, Rebinding, Setting
    <2>10. \A t \in calm' : SyncFits(t)'
      BY <1>1, <1>6, <1>7, <1>8, <2>2, <2>3, <2>4, <2>5 DEF SyncFits
    <2>11. \A t \in calm' : (~Busy(t))' => Settled(t)
      <3>1. \A t \in calm' : Busy(t) => Busy(t)' BY <2>4, <2>8 DEF Busy, Works
      <3> QED BY <1>6, <2>3, <3>1
    <2> QED BY <1>1, <1>2, <1>3, <1>9, <2>2, <2>3, <2>6, <2>7, <2>8, <2>9, <2>10, <2>11, SyncStepKeeps
  <1>11. CASE ~Has(s)
    <2>1. call' = [call EXCEPT ![Sync] = NoCall] /\ calm' = calm \ old.done
      BY <1>2, <1>11 DEF SyncSaveStatus, Done
    <2>2. call'[Sync] = NoCall /\ \A b \in KeyActors \ {Sync} : call'[b] = call[b] BY <1>3, <2>1
    <2>3. NoCall \in KeyCall /\ NoCall.kind # "provision" /\ NoCall.s = NoServer
      BY Blanks DEF NoCall
    <2>4. CallInOrder(Sync)' /\ SyncInOrder' BY <1>3, <2>2, CallEndsInOrder
    <2>5. \A t \in calm' : ~(Works(Sync, t)') /\ t # NoServer
      BY <1>6, <2>1, <2>2, LlmAssumption DEF Works, NoCall
    <2>6. \A t \in calm' : SyncFits(t)'
      <3>1. call'[Sync].todo = {} /\ call'[Sync].done = {} /\ call'[Sync].pc = "idle" BY <2>2 DEF NoCall
      <3> QED BY <3>1 DEF SyncFits
    <2>7. \A t \in calm' : (~Busy(t))' => Settled(t)
      <3> SUFFICES ASSUME NEW t \in calm', ~(Busy(t)') PROVE Settled(t)
        OBVIOUS
      <3>1. t \in calm /\ t \notin old.done /\ t # s BY <1>7, <1>11, <2>1
      <3>2. CASE t \in old.todo BY <1>6, <3>1, <3>2
      <3>3. CASE t \notin old.todo
        <4>1. ~Works(Sync, t) BY <1>2, <3>1, <3>3 DEF Works
        <4>2. ~Busy(t) BY <2>2, <4>1 DEF Busy, Works
        <4> QED BY <1>6, <3>1, <4>2
      <3> QED BY <3>2, <3>3
    <2>8. calm' \subseteq calm BY <2>1
    <2> QED BY <1>1, <1>2, <1>3, <1>9, <2>1, <2>3, <2>4, <2>5, <2>6, <2>7, <2>8, SyncStepKeeps
  <1> QED BY <1>10, <1>11

LEMMA SyncCommitKeeps ==
    ASSUME LlmInv, SyncCommit
    PROVE  LlmInv'
  <1>1. /\ In(Sync, "next") /\ call[Sync].todo = {} /\ Done(Sync)
        /\ UNCHANGED <<servers, newapi, budget, lost, calm>>
    BY DEF SyncCommit
  <1>2. PICK old : old = call[Sync] OBVIOUS
  <1>3. /\ Sync \in KeyActors /\ old.pc = "next" /\ old.todo = {}
        /\ KeyCallsTyped /\ KeysTyped /\ MarksTyped /\ BudgetTyped
        /\ \A t \in old.done : Has(t)
    BY <1>1, <1>2, SyncAtWork DEF In, SyncInOrder
  <1>4. /\ ServersTyped /\ AccountsTyped /\ SubsTyped /\ OnlyLive /\ KeylessGone /\ RowsOwn
    BY DEF LlmInv, LlmInOrder, LlmTyped
  <1>5. KeyCallsTyped' /\ CallBecomes(Sync, NoCall) BY <1>1, <1>3, CallDone
  <1>6. \A t \in KeyServers : key'[t] = IF t \in old.done THEN [key[t] EXCEPT !.st = Target(t)] ELSE key[t]
    BY <1>2 DEF SyncCommit
  <1>7. \A t : Target(t) \in {"active", "disabled"} BY DEF Target
  <1>8. \A t \in KeyServers :
            /\ key'[t] \in KeyRow /\ key'[t].acc = key[t].acc /\ key'[t].sub = key[t].sub
            /\ key'[t].plan = key[t].plan
            /\ key'[t].st = IF t \in old.done THEN Target(t) ELSE key[t].st
            /\ t \notin old.done => key'[t] = key[t]
    BY <1>3, <1>6, <1>7 DEF KeysTyped, KeyRow
  <1>9. KeysTyped' BY <1>8 DEF KeysTyped, SyncCommit
  <1>10. \A t \in KeyServers : Has(t)' <=> Has(t) BY <1>3, <1>7, <1>8 DEF Has
  <1>11. NewapiKept
    BY <1>1, <1>4 DEF NewapiKept, OriginsKept, AccountsTyped, SubsTyped, OnlyLive, newapi, MadeFor,
                MadeSub, LiveAccount
  <1>12. RowsOwn'
    <2> SUFFICES ASSUME NEW t \in KeyServers PROVE RowOwn(t)'
      BY DEF RowsOwn
    <2>1. RowOwn(t) BY <1>4 DEF RowsOwn
    <2>2. MadeFor(key[t].acc, t) => MadeFor(key[t].acc, t)' BY <1>1, <1>8 DEF MadeFor, newapi
    <2>3. MadeSub(key[t].sub, t) => MadeSub(key[t].sub, t)' BY <1>1, <1>8 DEF MadeSub, MadeFor, newapi
    <2>4. ~Has(t) => key'[t] = key[t] BY <1>3, <1>8
    <2> QED BY <1>8, <1>10, <2>1, <2>2, <2>3, <2>4 DEF RowOwn
  <1>13. LlmInOrder'
    <2>1. CallInOrder(Sync)' /\ SyncInOrder' BY <1>3, <1>5, CallEndsInOrder DEF CallBecomes
    <2>2. \A a \in KeyActors : CallInOrder(a)'
      BY <1>1, <1>5, <1>11, <2>1, CallKept DEF CallBecomes, LlmInv
    <2>3. ServersTyped' /\ BudgetTyped' /\ MarksTyped' BY <1>1, <1>3, <1>4 DEF ServersTyped, BudgetTyped, MarksTyped
    <2>4. KeylessGone' BY <1>1, <1>4, <1>10 DEF KeylessGone
    <2> QED BY <1>5, <1>9, <1>11, <1>12, <2>1, <2>2, <2>3, <2>4 DEF LlmInOrder, LlmTyped, NewapiKept
  <1>14. NoStrayAccount'
    <2>1. \A b \in KeyActors : call[b].kind = "provision" => call'[b] = call[b]
      BY <1>5, SyncAtWork DEF CallBecomes
    <2> QED BY <1>1, <1>8, <2>1 DEF LlmInv, NoStrayAccount, Owned, LiveAccount, newapi
  <1>15. \A t \in calm : /\ t \in KeyServers
                         /\ t \in old.done => TokenIs(key[t].acc, Target(t)) /\ SubIs(key[t].acc, key[t].sub, key[t].plan)
                         /\ old.s = t => t \in old.done
                         /\ ~Busy(t) => Settled(t)
    BY <1>2, <1>3 DEF LlmInv, CalmFits, SyncFits, MarksTyped
  <1>16. \A t \in calm : t \in old.done => Settled(t)'
    <2> SUFFICES ASSUME NEW t \in calm, t \in old.done PROVE Settled(t)'
      OBVIOUS
    <2>1. PICK acc, q, plan, st : acc = key[t].acc /\ q = key[t].sub /\ plan = key[t].plan /\ st = Target(t)
      OBVIOUS
    <2>2. TokenIs(acc, st)' /\ SubIs(acc, q, plan)'
      BY <1>1, <1>15, <2>1 DEF TokenIs, SubIs, ActiveSubs, newapi
    <2>3. key'[t].acc = acc /\ key'[t].sub = q /\ key'[t].plan = plan /\ key'[t].st = st
      BY <1>8, <1>15, <2>1
    <2> QED BY <2>2, <2>3 DEF Settled
  <1>17. CalmFits'
    <2>1. calm' = calm /\ calm \subseteq KeyServers /\ UNCHANGED newapi BY <1>1, <1>3 DEF MarksTyped
    <2>2. \A b \in KeyActors \ {Sync} : call'[b] = call[b] BY <1>5 DEF CallBecomes
    <2>3. \A t \in calm', b \in KeyActors \ {Sync} : Works(b, t) => key'[t] = key[t]
      <3> SUFFICES ASSUME NEW t \in calm', NEW b \in KeyActors \ {Sync}, Works(b, t)
                   PROVE  key'[t] = key[t]
        OBVIOUS
      <3>1. ~Works(Sync, t) BY <1>3, <2>1 DEF LlmInv, CalmFits, OneAtATime
      <3>2. t \notin old.done BY <1>2, <3>1 DEF Works
      <3> QED BY <1>8, <1>15, <2>1, <3>2
    <2>4. call'[Sync].todo = {} /\ call'[Sync].done = {} /\ call'[Sync].s = NoServer /\ call'[Sync].pc = "idle"
      BY <1>5 DEF CallBecomes, NoCall
    <2>5. \A t \in calm' : t # NoServer BY <2>1, LlmAssumption
    <2>6. \A t \in calm' : ~(Works(Sync, t)') BY <2>4, <2>5 DEF Works
    <2>7. \A t \in calm' : (call[Sync].s = t)' => Fits(Sync)' BY <2>4, <2>5
    <2>8. \A t \in calm' : SyncFits(t)' BY <2>4 DEF SyncFits
    <2>9. \A t \in calm' : (~Busy(t))' => Settled(t)'
      <3> SUFFICES ASSUME NEW t \in calm', ~(Busy(t)') PROVE Settled(t)'
        OBVIOUS
      <3>1. CASE t \in old.done BY <1>16, <2>1, <3>1
      <3>2. CASE t \notin old.done
        <4>1. ~Works(Sync, t) BY <1>2, <1>3, <1>15, <2>1, <3>2 DEF Works
        <4>2. ~Busy(t) BY <2>2, <4>1 DEF Busy, Works
        <4>3. key'[t] = key[t] BY <1>8, <1>15, <2>1, <3>2
        <4> QED BY <1>15, <2>1, <4>2, <4>3, SettledSame
      <3> QED BY <3>1, <3>2
    <2> QED BY <1>3, <2>1, <2>2, <2>3, <2>6, <2>7, <2>8, <2>9, CalmSame DEF LlmInv
  <1> QED BY <1>13, <1>14, <1>17 DEF LlmInv

-------------------------------------------------------------------------------
(* A restart *)

LEMMA RestartKeeps ==
    ASSUME LlmInv, Restart
    PROVE  LlmInv'
  <1>1. /\ UNCHANGED <<servers, key, newapi>> /\ call' = [a \in KeyActors |-> NoCall]
        /\ calm' = {s \in calm : ~Busy(s)}
        /\ budget.restarts < MaxRestarts /\ budget' = [budget EXCEPT !.restarts = @ + 1]
    BY DEF Restart
  <1>2. /\ ServersTyped /\ KeysTyped /\ AccountsTyped /\ SubsTyped /\ OnlyLive /\ KeylessGone /\ RowsOwn
        /\ KeyCallsTyped /\ BudgetTyped /\ MarksTyped
        /\ \A a \in KeyActors : CallInOrder(a)
    BY DEF LlmInv, LlmInOrder, LlmTyped
  <1>3. \A a \in KeyActors : call'[a] = NoCall BY <1>1
  <1>4. KeyCallsTyped' BY <1>1, Blanks DEF KeyCallsTyped
  <1>5. BudgetTyped' BY <1>1, <1>2, LlmAssumption DEF BudgetTyped
  <1>6. /\ lost \subseteq lost'
        /\ \A a \in KeyActors : call[a].kind = "provision" /\ call[a].row.acc # 0 => call[a].row.acc \in lost'
        /\ \A acc \in lost' : acc \in lost \/ (acc # 0 /\ \E a \in KeyActors : acc = call[a].row.acc)
    <2>1. NoCall.kind = "none" BY DEF NoCall
    <2> QED BY <2>1 DEF Restart
  <1>7. MarksTyped'
    <2>1. \A a \in KeyActors : call[a].row.acc \in 0..MaxAccounts
      BY <1>2 DEF KeyCallsTyped, KeyCall, KeyRow
    <2> QED BY <1>1, <1>2, <1>6, <2>1, LlmAssumption DEF MarksTyped, Accounts
  <1>8. NewapiKept
    BY <1>1, <1>2 DEF NewapiKept, OriginsKept, AccountsTyped, SubsTyped, OnlyLive, newapi, MadeFor,
                MadeSub, LiveAccount
  <1>9. LlmInOrder'
    <2>1. \A a \in KeyActors : CallInOrder(a)' BY <1>3, CallEndsInOrder
    <2>2. SyncInOrder' BY <1>3, CallEndsInOrder DEF KeyActors
    <2>3. RowsOwn' BY <1>1, <1>8, RowStays DEF LlmInv, RowsOwn
    <2>4. ServersTyped' /\ KeysTyped' /\ KeylessGone'
      BY <1>1, <1>2 DEF ServersTyped, KeysTyped, KeylessGone, Has
    <2> QED BY <1>4, <1>5, <1>7, <1>8, <2>1, <2>2, <2>3, <2>4 DEF LlmInOrder, LlmTyped, NewapiKept
  <1>10. NoStrayAccount'
    <2> SUFFICES ASSUME NEW acc \in Accounts, LiveAccount(acc)' PROVE Owned(acc)'
      BY DEF NoStrayAccount
    <2>1. LiveAccount(acc) /\ acc # 0 BY <1>1 DEF LiveAccount, newapi
    <2>2. Owned(acc) BY <2>1 DEF LlmInv, NoStrayAccount
    <2> QED BY <1>1, <1>6, <2>1, <2>2 DEF Owned
  <1>11. CalmFits'
    <2>1. \A t \in calm' : t \in KeyServers /\ Settled(t) BY <1>1, <1>2 DEF MarksTyped, LlmInv, CalmFits
    <2>2. \A t \in calm', a \in KeyActors : ~(Works(a, t)') /\ call'[a].s # t
      BY <1>3, <2>1, LlmAssumption DEF Works, NoCall
    <2>3. OneAtATime' BY <2>2 DEF OneAtATime
    <2>4. \A t \in calm', a \in KeyActors : (call[a].s = t)' => Fits(a)' BY <2>2
    <2>5. \A t \in calm' : SyncFits(t)'
      <3>1. call'[Sync].todo = {} /\ call'[Sync].done = {} /\ call'[Sync].pc = "idle"
        BY <1>3 DEF NoCall, KeyActors
      <3> QED BY <3>1 DEF SyncFits
    <2>6. \A t \in calm' : (~Busy(t))' => Settled(t)' BY <1>1, <2>1, SettledSame
    <2> QED BY <2>3, <2>4, <2>5, <2>6 DEF CalmFits
  <1> QED BY <1>9, <1>10, <1>11 DEF LlmInv

-------------------------------------------------------------------------------

LEMMA LlmStarts == LlmInit => LlmInv
  <1> SUFFICES ASSUME LlmInit PROVE LlmInv
    OBVIOUS
  <1>1. /\ servers = [s \in KeyServers |-> "running"] /\ key = [s \in KeyServers |-> NoKey]
        /\ account = [acc \in Accounts |-> [of |-> NoServer, st |-> "unused", token |-> "none"]]
        /\ subs = [q \in Subs |-> [acc |-> 0, plan |-> 0, st |-> "unused"]]
        /\ call = [a \in KeyActors |-> NoCall]
        /\ budget = [requests |-> 0, syncs |-> 0, restarts |-> 0, failures |-> 0]
        /\ lost = {} /\ calm = KeyServers
    BY DEF LlmInit
  <1>2. ServersTyped /\ KeysTyped /\ KeyCallsTyped /\ MarksTyped
    BY <1>1, Blanks DEF ServersTyped, KeysTyped, KeyCallsTyped, MarksTyped
  <1>3. AccountsTyped /\ SubsTyped /\ BudgetTyped
    BY <1>1, LlmAssumption DEF AccountsTyped, SubsTyped, BudgetTyped, Account, Sub
  <1>4. \A s \in KeyServers : key[s] = NoKey /\ ~Has(s) BY <1>1 DEF Has, NoKey
  <1>5. \A a \in KeyActors : call[a] = NoCall BY <1>1
  <1>6. \A a \in KeyActors : CallInOrder(a)
    BY <1>5, LlmAssumption DEF CallInOrder, NoCall, NoKey, Making, Rebinding, Setting
  <1>7. SyncInOrder
    BY <1>5, LlmAssumption DEF SyncInOrder, NoCall, NoKey, Setting, KeyActors
  <1>8. KeylessGone /\ RowsOwn BY <1>4 DEF KeylessGone, RowsOwn, RowOwn, NoKey
  <1>9. OnlyLive BY <1>1 DEF OnlyLive
  <1>10. NoStrayAccount BY <1>1 DEF NoStrayAccount, LiveAccount
  <1>11. CalmFits
    <2>1. \A s \in KeyServers, a \in KeyActors : call[a].s # s /\ ~Works(a, s)
      BY <1>5, LlmAssumption DEF Works, NoCall
    <2>2. OneAtATime BY <1>1, <2>1 DEF OneAtATime
    <2>3. \A s \in KeyServers : SyncFits(s)
      <3>1. call[Sync].todo = {} /\ call[Sync].done = {} /\ call[Sync].pc = "idle"
        BY <1>5 DEF NoCall, KeyActors
      <3> QED BY <3>1 DEF SyncFits
    <2> QED BY <1>1, <1>4, <2>1, <2>2, <2>3 DEF CalmFits, Settled
  <1> QED BY <1>2, <1>3, <1>6, <1>7, <1>8, <1>9, <1>10, <1>11 DEF LlmInv, LlmInOrder, LlmTyped

\* Requests, the sync, a restart, in any order, for any number of servers and with any answers lost:
\* whose a row, an account and a subscription is stays in order, and calm servers' keys fit.
THEOREM LlmInvariant == LlmSpec => []LlmInv
  <1>1. LlmInv /\ [LlmNext]_llmVars => LlmInv'
    <2> SUFFICES ASSUME LlmInv, [LlmNext]_llmVars PROVE LlmInv'
      OBVIOUS
    <2>1. CASE \E r \in KeyRequests : KeyRequest(r) BY <2>1, RequestKeeps
    <2>2. CASE \E s \in KeyServers : ToggleSuspension(s) BY <2>2, ToggleKeeps
    <2>3. ASSUME NEW a \in KeyActors, KeyStep(a) PROVE LlmInv'
      BY <2>3, CreateUserKeeps, LoginKeeps, BindKeeps, CreateTokenKeeps, CleanUpKeeps, InsertKeyKeeps,
         InvalidateKeeps, RebindKeeps, FetchKeeps, ReenableKeeps, SaveKeyKeeps, SetTokenKeeps,
         SaveStatusKeeps, DeleteUserKeeps, DeleteKeyKeeps, DropServerKeeps DEF KeyStep
    <2>4. CASE SyncAllStates BY <2>4, SyncStartKeeps
    <2>5. CASE SyncNext BY <2>5, SyncNextKeeps
    <2>6. CASE SyncSaveStatus BY <2>6, SyncSaveStatusKeeps
    <2>7. CASE SyncCommit BY <2>7, SyncCommitKeeps
    <2>8. CASE Restart BY <2>8, RestartKeeps
    <2>9. CASE UNCHANGED llmVars
      <3>1. UNCHANGED <<servers, key, newapi, call, budget, lost, calm>> BY <2>9 DEF llmVars, newapi
      <3>2. ServersTyped' /\ BudgetTyped' /\ KeylessGone'
        BY <3>1 DEF ServersTyped, BudgetTyped, KeylessGone, Has, LlmInv, LlmInOrder, LlmTyped
      <3> QED BY <3>1, <3>2, SameKeeps
    <2> QED BY <2>1, <2>2, <2>3, <2>4, <2>5, <2>6, <2>7, <2>8, <2>9 DEF LlmNext
  <1> QED BY LlmStarts, <1>1, PTL DEF LlmSpec

\* The type invariant: no two rows with one account, and no row of a server that is deleted.
THEOREM LlmTypesHold == LlmSpec => []LlmTypeOK
  <1>1. LlmInv => LlmTypeOK BY LlmTypes DEF LlmInv, LlmInOrder
  <1> QED BY <1>1, LlmInvariant, PTL

\* No account is left at NewAPI that nothing here knows of, but for those the code loses.
THEOREM AccountsStayKnown == LlmSpec => []AccountsKnown
  <1>1. LlmInv => AccountsKnown
    <2> SUFFICES ASSUME LlmInv, NEW acc \in Accounts, LiveAccount(acc)
                 PROVE  \/ \E s \in KeyServers : key[s].acc = acc /\ account[acc].of = s
                        \/ \E a \in KeyActors : call[a].row.acc = acc
                        \/ acc \in lost
      BY DEF AccountsKnown
    <2>1. Owned(acc) BY DEF LlmInv, NoStrayAccount
    <2>2. \A s \in KeyServers : key[s].acc = acc => account[acc].of = s
      BY LlmAssumption DEF LlmInv, LlmInOrder, RowsOwn, RowOwn, MadeFor, NoKey, Accounts
    <2> QED BY <2>1, <2>2 DEF Owned
  <1> QED BY <1>1, LlmInvariant, PTL

\* At a calm server at rest NewAPI has what the row says: the token's state, and one subscription.
THEOREM CalmKeysMatch == LlmSpec => []KeyMatches
  <1>1. LlmInv => KeyMatches
    BY DEF LlmInv, CalmFits, Settled, TokenIs, SubIs, KeyMatches
  <1> QED BY <1>1, LlmInvariant, PTL

-------------------------------------------------------------------------------
(* Notices: what the rows know of the mails *)

\* A server about to be mailed, by its row as the scan read it.
Unmailed(s) == mails[s] <= strays[s]
At(s, pc) == scan.at = s /\ scan.pc = pc

ScanInOrder ==
    /\ scan.pc = "idle" => scan = NoScan
    /\ scan.pc \in {"mark", "fail"} => scan.at \in NoticeServers /\ scan.at \notin scan.todo
    /\ \A s \in NoticeServers :
        /\ s \in scan.todo \/ At(s, "fail") => scan.read[s] <= Delays /\ Unmailed(s)
        /\ s \in scan.todo \/ At(s, "mark") \/ At(s, "fail") => (Present(s) => ~notice[s].done)
        /\ At(s, "mark") => ~server[s].email \/ mails[s] > 0

\* A server of which nothing is recorded had no recorded mail, but for the one about to be.
MailsInOrder == \A s \in NoticeServers :
    /\ mails[s] <= strays[s] + 1
    /\ Present(s) /\ ~notice[s].done => Unmailed(s) \/ At(s, "mark")
    /\ ~server[s].email => mails[s] = 0
    /\ IF notice[s].done THEN ~server[s].email \/ mails[s] > 0 \/ notice[s].attempts = Delays + 1
       ELSE notice[s].attempts <= Delays

\* Who must be warned has been, or is on today's list; nobody is on a list for a day that is over.
DueOf(s) == Due(server[s].exp, grace)
Warned(s) ==
    /\ server[s].email
    /\ DueOf(s) < calendar.day => promised[s] \in 1..calendar.day
    /\ DueOf(s) = calendar.day /\ "pre_delete" \in calendar.ran =>
           s \in remind["pre_delete"] \/ promised[s] \in 1..(calendar.day + 1)
    /\ s \in remind["pre_delete"] => DueOf(s) >= calendar.day
WarnedInTime == \A s \in NoticeServers : Present(s) /\ s \notin excused => Warned(s)
RemindersRan == \A r \in Reminders : remind[r] # {} => r \in calendar.ran

-------------------------------------------------------------------------------
(* Notices: types by variable *)

ServerRow == [st : {"installing", "null", "suspended", "gone"}, installed : BOOLEAN,
              exp : Days, trial : BOOLEAN, email : BOOLEAN]
NoticeRow == [done : BOOLEAN, attempts : 0..(Delays + 1), waits : BOOLEAN]
Scan == [todo : SUBSET NoticeServers, read : [NoticeServers -> 0..(Delays + 1)],
         at : NoticeServers \cup {Nobody}, pc : {"idle", "next", "mark", "fail"}]
Calendar == [day : 1..LastDay, ran : SUBSET (Reminders \cup {"night"})]
NoticeBudget == [faults : 0..MaxNoticeFaults, changes : 0..MaxChanges]

RowsTyped == server \in [NoticeServers -> ServerRow]
NoticesTyped == notice \in [NoticeServers -> NoticeRow]
ScanTyped == scan \in Scan
RemindTyped == remind \in [Reminders -> SUBSET NoticeServers]
CalendarTyped == calendar \in Calendar
HistoryTyped ==
    /\ mails \in [NoticeServers -> Nat] /\ strays \in [NoticeServers -> Nat]
    /\ promised \in [NoticeServers -> 0..(LastDay + 1)] /\ excused \subseteq NoticeServers
UsedTyped == used \in NoticeBudget

NoticeTyped ==
    /\ RowsTyped /\ NoticesTyped /\ ScanTyped /\ RemindTyped /\ CalendarTyped
    /\ grace \in Graces /\ HistoryTyped /\ UsedTyped

NoticeInv == NoticeTyped /\ ScanInOrder /\ MailsInOrder /\ WarnedInTime /\ RemindersRan

LEMMA NoticeTypes == NoticeTyped => NoticeTypeOK
  BY DEF NoticeTyped, NoticeTypeOK, RowsTyped, NoticesTyped, ScanTyped, RemindTyped, CalendarTyped, HistoryTyped,
         UsedTyped, ServerRow, NoticeRow, Scan, Calendar, NoticeBudget

LEMMA NoticeNumbers ==
    /\ Delays \in Nat /\ MaxNoticeFaults \in Nat /\ MaxChanges \in Nat
    /\ LastDay \in Nat \ {0} /\ DefaultGrace \in Nat \ {0} /\ \A g \in Graces : g \in Nat \ {0}
  BY NoticeAssumption

LEMMA NoticeBlanks == NoScan \in Scan /\ NoNotice \in NoticeRow
  BY NoticeNumbers DEF NoScan, NoNotice, Scan, NoticeRow

LEMMA NoticeStarts == NoticeInit => NoticeInv
  <1> SUFFICES ASSUME NoticeInit PROVE NoticeInv
    OBVIOUS
  <1>1. NoticeTyped
    <2>1. RowsTyped BY DEF NoticeInit, RowsTyped, ServerRow
    <2>2. NoticesTyped /\ ScanTyped /\ RemindTyped /\ grace \in Graces
      BY NoticeBlanks DEF NoticeInit, NoticesTyped, ScanTyped, RemindTyped
    <2>3. CalendarTyped BY NoticeNumbers DEF NoticeInit, CalendarTyped, Calendar
    <2>4. HistoryTyped BY NoticeNumbers DEF NoticeInit, HistoryTyped
    <2>5. UsedTyped BY NoticeNumbers DEF NoticeInit, UsedTyped, NoticeBudget
    <2> QED BY <2>1, <2>2, <2>3, <2>4, <2>5 DEF NoticeTyped
  <1>2. ScanInOrder BY NoticeAssumption DEF NoticeInit, ScanInOrder, NoScan, At
  <1>3. MailsInOrder BY NoticeAssumption DEF NoticeInit, MailsInOrder, NoNotice, Unmailed
  <1>4. WarnedInTime
    <2> SUFFICES ASSUME NEW s \in NoticeServers, s \notin excused PROVE
            /\ server[s].email /\ ~(DueOf(s) < calendar.day)
            /\ "pre_delete" \notin calendar.ran /\ s \notin remind["pre_delete"]
      BY DEF WarnedInTime, Warned
    <2>1. server[s].exp \in Int /\ server[s].exp >= 1 /\ grace \in Nat \ {0}
      BY <1>1, NoticeAssumption DEF NoticeTyped, RowsTyped, ServerRow, Days
    <2> QED BY <2>1 DEF NoticeInit, DueOf, Due, Reminders
  <1>5. RemindersRan BY DEF NoticeInit, RemindersRan
  <1> QED BY <1>1, <1>2, <1>3, <1>4, <1>5 DEF NoticeInv

\* What the row of a server keeps and what a field written becomes.
LEMMA ScanWrites ==
    ASSUME ScanTyped, NEW pc \in {"idle", "next", "mark", "fail"}, NEW at \in NoticeServers \cup {Nobody},
           NEW todo \in SUBSET NoticeServers, scan' = [scan EXCEPT !.todo = todo, !.at = at, !.pc = pc]
    PROVE  ScanTyped' /\ scan'.todo = todo /\ scan'.at = at /\ scan'.pc = pc /\ scan'.read = scan.read
  BY DEF ScanTyped, Scan

LEMMA RowWrites ==
    ASSUME RowsTyped, NEW s \in NoticeServers, NEW r \in ServerRow, server' = [server EXCEPT ![s] = r]
    PROVE  RowsTyped' /\ server'[s] = r /\ \A t \in NoticeServers \ {s} : server'[t] = server[t]
  BY DEF RowsTyped

LEMMA NoticeWrites ==
    ASSUME NoticesTyped, NEW s \in NoticeServers, NEW n \in NoticeRow, notice' = [notice EXCEPT ![s] = n]
    PROVE  NoticesTyped' /\ notice'[s] = n /\ \A t \in NoticeServers \ {s} : notice'[t] = notice[t]
  BY DEF NoticesTyped

LEMMA BudgetSpent ==
    ASSUME UsedTyped, NoticeFault \/ Change
    PROVE  UsedTyped'
  BY NoticeNumbers DEF UsedTyped, NoticeBudget, NoticeFault, Change

\* What is recorded of the server the scan is at.
LEMMA RecordWritten ==
    ASSUME NoticesTyped, ScanTyped, scan.at \in NoticeServers, NEW n \in NoticeRow, Recorded(n)
    PROVE  /\ NoticesTyped' /\ ScanTyped'
           /\ \A t \in NoticeServers \ {scan.at} : notice'[t] = notice[t]
           /\ \/ /\ Present(scan.at) /\ notice'[scan.at] = n
                 /\ scan'.todo = scan.todo /\ scan'.read = scan.read /\ scan'.pc = "next"
              \/ /\ ~Present(scan.at) /\ notice'[scan.at] = notice[scan.at]
                 /\ scan' = NoScan
  <1>1. CASE Present(scan.at)
    <2>1. notice' = [notice EXCEPT ![scan.at] = n] /\ scan' = [scan EXCEPT !.at = Nobody, !.pc = "next"]
      BY <1>1 DEF Recorded
    <2>2. ScanTyped' /\ scan'.todo = scan.todo /\ scan'.read = scan.read /\ scan'.pc = "next"
      BY <2>1 DEF ScanTyped, Scan
    <2> QED BY <1>1, <2>1, <2>2, NoticeWrites
  <1>2. CASE ~Present(scan.at)
    BY <1>2, NoticeBlanks DEF Recorded, ScanTyped, NoticesTyped
  <1> QED BY <1>1, <1>2

LEMMA GoneWritten ==
    ASSUME NoticesTyped, NEW S, Gone(S)
    PROVE  /\ NoticesTyped'
           /\ \A s \in NoticeServers : notice'[s] = IF s \in S THEN NoNotice ELSE notice[s]
  BY NoticeBlanks DEF NoticesTyped, Gone

\* A mail that left or did not, and what is known of it.
LEMMA MailGoes ==
    ASSUME HistoryTyped, NEW s \in NoticeServers, NEW pc,
           Sent(s, pc) \/ NotSent(pc) \/ SentAstray(s, pc), UNCHANGED <<promised, excused>>
    PROVE  /\ HistoryTyped'
           /\ \A t \in NoticeServers \ {s} : mails'[t] = mails[t] /\ strays'[t] = strays[t]
           /\ strays'[s] >= strays[s] /\ mails'[s] >= mails[s]
           /\ \/ pc = "mark" /\ mails'[s] > 0 /\ mails'[s] - strays'[s] = mails[s] - strays[s] + 1
              \/ pc = "fail" /\ mails'[s] - strays'[s] = mails[s] - strays[s]
  BY DEF HistoryTyped, Sent, NotSent, SentAstray

LEMMA NoticeInvTypes ==
    NoticeInv => /\ RowsTyped /\ NoticesTyped /\ ScanTyped /\ RemindTyped /\ CalendarTyped
                 /\ grace \in Graces /\ HistoryTyped /\ UsedTyped
  BY DEF NoticeTyped, NoticeInv

\* SettingRead leaves types alone, and either the setting is what it is or everybody is excused.
LEMMA SettingIs ==
    ASSUME UsedTyped, NEW g, SettingRead(g)
    PROVE  UsedTyped' /\ ((g = grace /\ excused' = excused) \/ excused' = NoticeServers)
  BY BudgetSpent DEF SettingRead, UsedTyped

LEMMA ScanTypeStep ==
    ASSUME NoticeInv,
           \/ run_install_notify_scan \/ _mark_notified \/ _record_notify_failure \/ ScanEnds
           \/ \E s \in NoticeServers : ScanNext(s) \/ RetryDue(s)
    PROVE  NoticeTyped'
  <1> USE NoticeInvTypes
  <1>1. CASE run_install_notify_scan
    <2>1. PICK read : read = [s \in NoticeServers |-> notice[s].attempts] OBVIOUS
    <2>2. read \in [NoticeServers -> 0..(Delays + 1)] BY <2>1 DEF NoticesTyped, NoticeRow
    <2>3. scan' = [NoScan EXCEPT !.todo = Eligible, !.read = read, !.pc = "next"]
      BY <1>1, <2>1 DEF run_install_notify_scan
    <2>4. ScanTyped' BY <2>2, <2>3, NoticeBlanks DEF ScanTyped, Scan, Eligible
    <2> QED BY <1>1, <2>4 DEF NoticeTyped, run_install_notify_scan, RowsTyped, NoticesTyped, RemindTyped, CalendarTyped, HistoryTyped, UsedTyped
  <1>2. CASE _mark_notified
    <2>1. scan.at \in NoticeServers BY <1>2 DEF _mark_notified, NoticeInv, ScanInOrder
    <2>2. PICK n : n = [notice[scan.at] EXCEPT !.done = TRUE] OBVIOUS
    <2>3. n \in NoticeRow BY <2>1, <2>2 DEF NoticesTyped, NoticeRow
    <2>4. Recorded(n) BY <1>2, <2>2 DEF _mark_notified
    <2>5. NoticesTyped' /\ ScanTyped' BY <2>1, <2>3, <2>4, RecordWritten
    <2> QED BY <1>2, <2>5 DEF NoticeTyped, _mark_notified, RowsTyped, RemindTyped, CalendarTyped, HistoryTyped, UsedTyped
  <1>3. CASE _record_notify_failure
    <2>1. scan.at \in NoticeServers /\ scan.read[scan.at] \in 0..Delays
      BY <1>3, NoticeNumbers DEF _record_notify_failure, NoticeInv, ScanInOrder, At, ScanTyped, Scan
    <2>2. PICK attempts : attempts = scan.read[scan.at] + 1 OBVIOUS
    <2>3. PICK n : n = [done |-> Exhausted(attempts), attempts |-> attempts, waits |-> ~Exhausted(attempts)] OBVIOUS
    <2>4. n \in NoticeRow BY <2>1, <2>2, <2>3, NoticeNumbers DEF NoticeRow, Exhausted
    <2>5. Recorded(n) BY <1>3, <2>2, <2>3 DEF _record_notify_failure
    <2>6. NoticesTyped' /\ ScanTyped' BY <2>1, <2>4, <2>5, RecordWritten
    <2> QED BY <1>3, <2>6 DEF NoticeTyped, _record_notify_failure, RowsTyped, RemindTyped, CalendarTyped, HistoryTyped, UsedTyped
  <1>4. CASE ScanEnds
    BY <1>4, NoticeBlanks DEF NoticeTyped, ScanEnds, RowsTyped, NoticesTyped, ScanTyped, RemindTyped, CalendarTyped, HistoryTyped, UsedTyped
  <1>5. ASSUME NEW s \in NoticeServers, ScanNext(s) PROVE NoticeTyped'
    <2>1. PICK pc \in {"mark", "fail"} :
            /\ scan' = [scan EXCEPT !.todo = @ \ {s}, !.at = s, !.pc = pc]
            /\ IF ~server[s].email THEN pc = "mark" /\ UNCHANGED <<mails, strays, used>>
               ELSE \/ (Sent(s, pc) \/ NotSent(pc)) /\ UNCHANGED used
                    \/ SentAstray(s, pc) /\ NoticeFault
      BY <1>5 DEF ScanNext
    <2>2. PICK todo : todo = scan.todo \ {s} OBVIOUS
    <2>3. todo \in SUBSET NoticeServers BY <2>2 DEF ScanTyped, Scan
    <2>4. ScanTyped' BY <2>1, <2>2, <2>3 DEF ScanTyped, Scan
    <2>5. UsedTyped' BY <2>1, BudgetSpent DEF UsedTyped
    <2>6. UNCHANGED <<server, notice, remind, calendar, grace, promised, excused>> BY <1>5 DEF ScanNext
    <2>7. HistoryTyped'
      <3>1. CASE ~server[s].email BY <2>1, <2>6, <3>1 DEF HistoryTyped
      <3>2. CASE server[s].email BY <2>1, <2>6, <3>2, MailGoes
      <3> QED BY <3>1, <3>2
    <2> QED BY <2>4, <2>5, <2>6, <2>7 DEF NoticeTyped, RowsTyped, NoticesTyped, RemindTyped, CalendarTyped
  <1>6. ASSUME NEW s \in NoticeServers, RetryDue(s) PROVE NoticeTyped'
    <2>1. PICK n : n = [notice[s] EXCEPT !.waits = FALSE] OBVIOUS
    <2>2. n \in NoticeRow BY <2>1 DEF NoticesTyped, NoticeRow
    <2>3. notice' = [notice EXCEPT ![s] = n] BY <1>6, <2>1, <2>2 DEF RetryDue, NoticesTyped, NoticeRow
    <2>4. NoticesTyped' BY <2>2, <2>3, NoticeWrites
    <2> QED BY <1>6, <2>4 DEF NoticeTyped, RetryDue, RowsTyped, ScanTyped, RemindTyped, CalendarTyped, HistoryTyped, UsedTyped
  <1> QED BY <1>1, <1>2, <1>3, <1>4, <1>5, <1>6

LEMMA ReminderTypeStep ==
    ASSUME NoticeInv,
           \/ \E r \in Reminders : run_reminder_task(r) \/ \E s \in NoticeServers : _send_reminder(r, s)
           \/ \E suspended, deleted \in SUBSET NoticeServers : DailyLifecycle(suspended, deleted)
           \/ Midnight \/ JobsRestart
    PROVE  NoticeTyped'
  <1> USE NoticeInvTypes
  <1>1. ASSUME NEW r \in Reminders, run_reminder_task(r) PROVE NoticeTyped'
    <2>1. PICK g : /\ IF r = "pre_delete" THEN SettingRead(g) ELSE g = grace /\ UNCHANGED <<used, excused>>
                   /\ remind' = [remind EXCEPT ![r] = Listed(r, g)]
      BY <1>1 DEF run_reminder_task
    <2>2. UsedTyped' /\ excused' \subseteq NoticeServers
      BY <2>1, SettingIs DEF UsedTyped, HistoryTyped
    <2>3. RemindTyped' BY <2>1 DEF RemindTyped, Listed
    <2>4. PICK ran : ran = calendar.ran \cup {r} OBVIOUS
    <2>5. calendar' = [calendar EXCEPT !.ran = ran] /\ ran \subseteq Reminders \cup {"night"}
      BY <1>1, <2>4 DEF run_reminder_task, CalendarTyped, Calendar
    <2>6. CalendarTyped' BY <2>5 DEF CalendarTyped, Calendar
    <2> QED BY <1>1, <2>2, <2>3, <2>6 DEF NoticeTyped, run_reminder_task, RowsTyped, NoticesTyped, ScanTyped, HistoryTyped
  <1>2. ASSUME NEW r \in Reminders, NEW s \in NoticeServers, _send_reminder(r, s) PROVE NoticeTyped'
    <2>1. RemindTyped' BY <1>2 DEF _send_reminder, RemindTyped
    <2>2. calendar.day + 1 \in 0..(LastDay + 1) BY NoticeNumbers DEF CalendarTyped, Calendar
    <2>3. UsedTyped' BY <1>2, BudgetSpent DEF _send_reminder, UsedTyped
    <2>4. HistoryTyped' BY <1>2, <2>2 DEF _send_reminder, HistoryTyped
    <2> QED BY <1>2, <2>1, <2>3, <2>4 DEF NoticeTyped, _send_reminder, RowsTyped, NoticesTyped, ScanTyped, CalendarTyped
  <1>3. ASSUME NEW suspended \in SUBSET NoticeServers, NEW deleted \in SUBSET NoticeServers,
               DailyLifecycle(suspended, deleted)
        PROVE  NoticeTyped'
    <2>1. PICK g : SettingRead(g) BY <1>3 DEF DailyLifecycle
    <2>2. UsedTyped' /\ excused' \subseteq NoticeServers BY <2>1, SettingIs DEF HistoryTyped
    <2>3. RowsTyped' BY <1>3 DEF DailyLifecycle, RowsTyped, ServerRow
    <2>4. NoticesTyped' BY <1>3, GoneWritten DEF DailyLifecycle
    <2>5. PICK ran : ran = calendar.ran \cup {"night"} OBVIOUS
    <2>6. calendar' = [calendar EXCEPT !.ran = ran] /\ ran \subseteq Reminders \cup {"night"}
      BY <1>3, <2>5 DEF DailyLifecycle, CalendarTyped, Calendar
    <2>7. CalendarTyped' BY <2>6 DEF CalendarTyped, Calendar
    <2> QED BY <1>3, <2>2, <2>3, <2>4, <2>7 DEF NoticeTyped, DailyLifecycle, ScanTyped, RemindTyped, HistoryTyped
  <1>4. CASE Midnight
    <2>1. CalendarTyped' BY <1>4, NoticeNumbers DEF Midnight, CalendarTyped, Calendar
    <2>2. HistoryTyped' BY <1>4 DEF Midnight, HistoryTyped
    <2> QED BY <1>4, <2>1, <2>2 DEF NoticeTyped, Midnight, RowsTyped, NoticesTyped, ScanTyped, RemindTyped, UsedTyped
  <1>5. CASE JobsRestart
    <2>1. ScanTyped' /\ RemindTyped' BY <1>5, NoticeBlanks DEF JobsRestart, ScanTyped, RemindTyped
    <2>2. UsedTyped' BY <1>5, BudgetSpent DEF JobsRestart
    <2>3. "pre_delete" \in Reminders BY DEF Reminders
    <2>4. excused' \subseteq NoticeServers BY <1>5, <2>3 DEF JobsRestart, HistoryTyped, RemindTyped
    <2>5. strays' \in [NoticeServers -> Nat]
      <3>1. strays' = strays \/ strays' = [strays EXCEPT ![scan.at] = @ + 1] BY <1>5 DEF JobsRestart
      <3> QED BY <3>1 DEF HistoryTyped
    <2>6. HistoryTyped' BY <1>5, <2>4, <2>5 DEF JobsRestart, HistoryTyped
    <2> QED BY <1>5, <2>1, <2>2, <2>6 DEF NoticeTyped, JobsRestart, RowsTyped, NoticesTyped, CalendarTyped
  <1> QED BY <1>1, <1>2, <1>3, <1>4, <1>5

LEMMA OthersTypeStep ==
    ASSUME NoticeInv,
           \/ \E s \in NoticeServers : InstallEnds(s) \/ Reinstall(s) \/ ServerDeleted(s)
           \/ \E s \in NoticeServers, day \in Days : SetExpiration(s, day)
           \/ \E g \in Graces : automation_save(g)
    PROVE  NoticeTyped'
  <1> USE NoticeInvTypes
  <1>1. ASSUME NEW s \in NoticeServers, InstallEnds(s) PROVE NoticeTyped'
    <2>1. PICK r : r = [server[s] EXCEPT !.st = "null", !.installed = TRUE] OBVIOUS
    <2>2. r \in ServerRow BY <2>1 DEF RowsTyped, ServerRow
    <2>3. server' = [server EXCEPT ![s] = r] BY <1>1, <2>1 DEF InstallEnds, RowsTyped, ServerRow
    <2> QED BY <1>1, <2>2, <2>3, RowWrites
            DEF NoticeTyped, InstallEnds, NoticesTyped, ScanTyped, RemindTyped, CalendarTyped, HistoryTyped, UsedTyped
  <1>2. ASSUME NEW s \in NoticeServers, Reinstall(s) PROVE NoticeTyped'
    <2>1. PICK r : r = [server[s] EXCEPT !.st = "installing", !.installed = FALSE] OBVIOUS
    <2>2. r \in ServerRow BY <2>1 DEF RowsTyped, ServerRow
    <2>3. server' = [server EXCEPT ![s] = r] BY <1>2, <2>1 DEF Reinstall, RowsTyped, ServerRow
    <2>4. UsedTyped' BY <1>2, BudgetSpent DEF Reinstall
    <2> QED BY <1>2, <2>2, <2>3, <2>4, RowWrites
            DEF NoticeTyped, Reinstall, NoticesTyped, ScanTyped, RemindTyped, CalendarTyped, HistoryTyped
  <1>3. ASSUME NEW s \in NoticeServers, ServerDeleted(s) PROVE NoticeTyped'
    <2>1. PICK r : r = [server[s] EXCEPT !.st = "gone"] OBVIOUS
    <2>2. r \in ServerRow BY <2>1 DEF RowsTyped, ServerRow
    <2>3. server' = [server EXCEPT ![s] = r] BY <1>3, <2>1 DEF ServerDeleted, RowsTyped, ServerRow
    <2>4. UsedTyped' BY <1>3, BudgetSpent DEF ServerDeleted
    <2>5. NoticesTyped' BY <1>3, GoneWritten DEF ServerDeleted
    <2> QED BY <1>3, <2>2, <2>3, <2>4, <2>5, RowWrites
            DEF NoticeTyped, ServerDeleted, ScanTyped, RemindTyped, CalendarTyped, HistoryTyped
  <1>4. ASSUME NEW s \in NoticeServers, NEW day \in Days, SetExpiration(s, day) PROVE NoticeTyped'
    <2>1. PICK r : r = [server[s] EXCEPT !.exp = day, !.st = IF @ = "suspended" THEN "null" ELSE @] OBVIOUS
    <2>2. r \in ServerRow BY <2>1 DEF RowsTyped, ServerRow
    <2>3. server' = [server EXCEPT ![s] = r] BY <1>4, <2>1 DEF SetExpiration, RowsTyped, ServerRow
    <2>4. UsedTyped' BY <1>4, BudgetSpent DEF SetExpiration
    <2>5. promised' \in [NoticeServers -> 0..(LastDay + 1)]
      BY <1>4, NoticeNumbers DEF SetExpiration, HistoryTyped
    <2>6. excused' \subseteq NoticeServers BY <1>4 DEF SetExpiration, HistoryTyped
    <2>7. HistoryTyped' BY <1>4, <2>5, <2>6 DEF SetExpiration, HistoryTyped
    <2> QED BY <1>4, <2>2, <2>3, <2>4, <2>7, RowWrites
            DEF NoticeTyped, SetExpiration, NoticesTyped, ScanTyped, RemindTyped, CalendarTyped
  <1>5. ASSUME NEW g \in Graces, automation_save(g) PROVE NoticeTyped'
    <2>1. UsedTyped' BY <1>5, BudgetSpent DEF automation_save
    <2>2. HistoryTyped' BY <1>5 DEF automation_save, HistoryTyped
    <2> QED BY <1>5, <2>1, <2>2
            DEF NoticeTyped, automation_save, RowsTyped, NoticesTyped, ScanTyped, RemindTyped, CalendarTyped
  <1> QED BY <1>1, <1>2, <1>3, <1>4, <1>5

-------------------------------------------------------------------------------
(* Mails about installations *)

\* Who neither scans nor mails: rows may go, and their columns with them.
LEMMA MailsKeep ==
    ASSUME NoticeInv, UNCHANGED <<scan, mails, strays>>,
           \A s \in NoticeServers :
               /\ server'[s].email <=> server[s].email
               /\ Present(s)' => Present(s)
               /\ \/ (notice'[s].done <=> notice[s].done) /\ notice'[s].attempts = notice[s].attempts
                  \/ notice'[s] = NoNotice /\ ~(Present(s)')
    PROVE  ScanInOrder' /\ MailsInOrder'
  <1>1. ScanInOrder' BY DEF NoticeInv, ScanInOrder, At, Unmailed
  <1>2. MailsInOrder' BY NoticeNumbers DEF NoticeInv, MailsInOrder, At, Unmailed, NoNotice
  <1> QED BY <1>1, <1>2

LEMMA ScanMailsStep ==
    ASSUME NoticeInv,
           \/ run_install_notify_scan \/ _mark_notified \/ _record_notify_failure \/ ScanEnds
           \/ \E s \in NoticeServers : ScanNext(s) \/ RetryDue(s)
    PROVE  ScanInOrder' /\ MailsInOrder'
  <1> USE NoticeInvTypes
  <1>t. \A s \in NoticeServers : /\ mails[s] \in Nat /\ strays[s] \in Nat
                                 /\ notice[s].attempts \in Nat /\ notice[s].done \in BOOLEAN
                                 /\ scan.read[s] \in Nat
    BY NoticeNumbers DEF HistoryTyped, NoticesTyped, NoticeRow, ScanTyped, Scan
  <1>1. CASE run_install_notify_scan
    <2>1. PICK read : read = [s \in NoticeServers |-> notice[s].attempts] OBVIOUS
    <2>2. /\ scan.pc = "idle" /\ scan' = [NoScan EXCEPT !.todo = Eligible, !.read = read, !.pc = "next"]
          /\ UNCHANGED <<server, notice, mails, strays>>
      BY <1>1, <2>1 DEF run_install_notify_scan
    <2>3. scan'.todo = Eligible /\ scan'.read = read /\ scan'.pc = "next" BY <2>2 DEF NoScan
    <2>4. \A s \in NoticeServers : s \in Eligible => Present(s) /\ ~notice[s].done
      BY DEF Eligible, Present
    <2>5. \A s \in NoticeServers : s \in Eligible => read[s] <= Delays /\ Unmailed(s)
      BY <2>1, <2>2, <2>4 DEF NoticeInv, MailsInOrder, At
    <2>6. ScanInOrder' BY <2>2, <2>3, <2>4, <2>5 DEF ScanInOrder, At, Unmailed, Present
    <2>7. MailsInOrder' BY <2>2, <2>3 DEF NoticeInv, MailsInOrder, At, Unmailed, Present
    <2> QED BY <2>6, <2>7
  <1>2. CASE _mark_notified
    <2>1. PICK s : s = scan.at OBVIOUS
    <2>2. /\ s \in NoticeServers /\ s \notin scan.todo /\ scan.pc = "mark" /\ At(s, "mark")
          /\ ~server[s].email \/ mails[s] > 0
      BY <1>2, <2>1 DEF _mark_notified, NoticeInv, ScanInOrder, At
    <2>3. PICK n : n = [notice[s] EXCEPT !.done = TRUE] OBVIOUS
    <2>4. n \in NoticeRow /\ n.done BY <2>2, <2>3 DEF NoticesTyped, NoticeRow
    <2>5. Recorded(n) /\ UNCHANGED <<server, mails, strays>> BY <1>2, <2>1, <2>3 DEF _mark_notified
    <2>6. /\ \A t \in NoticeServers \ {s} : notice'[t] = notice[t]
          /\ \/ /\ Present(s) /\ notice'[s] = n
                /\ scan'.todo = scan.todo /\ scan'.read = scan.read /\ scan'.pc = "next"
             \/ /\ ~Present(s) /\ notice'[s] = notice[s] /\ scan' = NoScan
      BY <2>1, <2>2, <2>4, <2>5, RecordWritten
    <2>7. ScanInOrder'
      BY <2>2, <2>5, <2>6 DEF NoticeInv, ScanInOrder, At, Unmailed, Present, NoScan
    <2>8. MailsInOrder'
      BY <2>2, <2>4, <2>5, <2>6 DEF NoticeInv, MailsInOrder, At, Unmailed, Present, NoScan
    <2> QED BY <2>7, <2>8
  <1>3. CASE _record_notify_failure
    <2>1. PICK s, attempts : s = scan.at /\ attempts = scan.read[scan.at] + 1 OBVIOUS
    <2>2. /\ s \in NoticeServers /\ s \notin scan.todo /\ scan.pc = "fail" /\ At(s, "fail") /\ Unmailed(s)
          /\ attempts \in 1..(Delays + 1)
      BY <1>3, <1>t, <2>1, NoticeNumbers DEF _record_notify_failure, NoticeInv, ScanInOrder, At
    <2>3. PICK n : n = [done |-> Exhausted(attempts), attempts |-> attempts, waits |-> ~Exhausted(attempts)] OBVIOUS
    <2>4. n \in NoticeRow /\ (n.done => n.attempts = Delays + 1) /\ (~n.done => n.attempts <= Delays)
      <3>1. Exhausted(attempts) \in BOOLEAN /\ (Exhausted(attempts) <=> attempts = Delays + 1)
        BY <2>2, NoticeNumbers DEF Exhausted
      <3>2. n \in NoticeRow BY <2>2, <2>3, <3>1, NoticeNumbers DEF NoticeRow
      <3>3. (n.done <=> Exhausted(attempts)) /\ n.attempts = attempts BY <2>3
      <3> QED BY <2>2, <3>1, <3>2, <3>3, NoticeNumbers
    <2>5. Recorded(n) /\ UNCHANGED <<server, mails, strays>> BY <1>3, <2>1, <2>3 DEF _record_notify_failure
    <2>6. /\ \A t \in NoticeServers \ {s} : notice'[t] = notice[t]
          /\ \/ /\ Present(s) /\ notice'[s] = n
                /\ scan'.todo = scan.todo /\ scan'.read = scan.read /\ scan'.pc = "next"
             \/ /\ ~Present(s) /\ notice'[s] = notice[s] /\ scan' = NoScan
      BY <2>1, <2>2, <2>4, <2>5, RecordWritten
    <2>7. ScanInOrder'
      BY <2>2, <2>5, <2>6 DEF NoticeInv, ScanInOrder, At, Unmailed, Present, NoScan
    <2>8. MailsInOrder'
      BY <2>2, <2>4, <2>5, <2>6 DEF NoticeInv, MailsInOrder, At, Unmailed, Present, NoScan
    <2> QED BY <2>7, <2>8
  <1>4. CASE ScanEnds
    BY <1>4 DEF ScanEnds, NoticeInv, ScanInOrder, MailsInOrder, At, Unmailed, Present, NoScan
  <1>5. ASSUME NEW s \in NoticeServers, ScanNext(s) PROVE ScanInOrder' /\ MailsInOrder'
    <2>1. PICK pc \in {"mark", "fail"} :
            /\ scan' = [scan EXCEPT !.todo = @ \ {s}, !.at = s, !.pc = pc]
            /\ IF ~server[s].email THEN pc = "mark" /\ UNCHANGED <<mails, strays, used>>
               ELSE \/ (Sent(s, pc) \/ NotSent(pc)) /\ UNCHANGED used
                    \/ SentAstray(s, pc) /\ NoticeFault
      BY <1>5 DEF ScanNext
    <2>2. /\ scan'.todo = scan.todo \ {s} /\ scan'.at = s /\ scan'.pc = pc /\ scan'.read = scan.read
      BY <2>1 DEF ScanTyped, Scan
    <2>3. /\ s \in scan.todo /\ scan.pc = "next" /\ UNCHANGED <<server, notice, promised, excused>>
          /\ scan.read[s] <= Delays /\ Unmailed(s) /\ (Present(s) => ~notice[s].done)
      BY <1>5 DEF ScanNext, NoticeInv, ScanInOrder
    <2>4. /\ \A t \in NoticeServers \ {s} : mails'[t] = mails[t] /\ strays'[t] = strays[t]
          /\ \/ /\ ~server[s].email /\ pc = "mark" /\ mails'[s] = mails[s] /\ strays'[s] = strays[s]
             \/ /\ server[s].email /\ pc = "mark" /\ mails'[s] > 0 /\ mails'[s] <= strays'[s] + 1
             \/ /\ server[s].email /\ pc = "fail" /\ mails'[s] <= strays'[s]
          /\ mails'[s] >= mails[s] /\ mails'[s] \in Nat /\ strays'[s] \in Nat
      <3>1. CASE ~server[s].email BY <1>t, <2>1, <3>1
      <3>2. CASE server[s].email
        <4>1. Sent(s, pc) \/ NotSent(pc) \/ SentAstray(s, pc) BY <2>1, <3>2
        <4>2. /\ HistoryTyped'
              /\ \A t \in NoticeServers \ {s} : mails'[t] = mails[t] /\ strays'[t] = strays[t]
              /\ mails'[s] >= mails[s]
              /\ \/ pc = "mark" /\ mails'[s] > 0 /\ mails'[s] - strays'[s] = mails[s] - strays[s] + 1
                 \/ pc = "fail" /\ mails'[s] - strays'[s] = mails[s] - strays[s]
          BY <2>3, <4>1, MailGoes
        <4>3. mails'[s] \in Nat /\ strays'[s] \in Nat BY <4>2 DEF HistoryTyped
        <4> QED BY <1>t, <2>3, <3>2, <4>2, <4>3 DEF Unmailed
      <3> QED BY <3>1, <3>2
    <2>5. ScanInOrder'
      BY <2>2, <2>3, <2>4 DEF NoticeInv, ScanInOrder, At, Unmailed, Present
    <2>6. \A t \in NoticeServers \ {s} : ~At(t, "mark") /\ ~(At(t, "mark")')
      BY <2>2, <2>3 DEF At
    <2>7. MailsInOrder'
      <3> SUFFICES ASSUME NEW t \in NoticeServers PROVE
              /\ mails'[t] <= strays'[t] + 1
              /\ Present(t) /\ ~notice[t].done => mails'[t] <= strays'[t] \/ At(t, "mark")'
              /\ ~server[t].email => mails'[t] = 0
              /\ IF notice[t].done THEN ~server[t].email \/ mails'[t] > 0 \/ notice[t].attempts = Delays + 1
                 ELSE notice[t].attempts <= Delays
        BY <2>3 DEF MailsInOrder, Unmailed, Present
      <3>1. CASE t = s
        BY <1>t, <2>2, <2>3, <2>4, <3>1 DEF NoticeInv, MailsInOrder, Unmailed, At
      <3>2. CASE t # s BY <2>4, <2>6, <3>2 DEF NoticeInv, MailsInOrder, Unmailed
      <3> QED BY <3>1, <3>2
    <2> QED BY <2>5, <2>7
  <1>6. ASSUME NEW s \in NoticeServers, RetryDue(s) PROVE ScanInOrder' /\ MailsInOrder'
    <2>1. \A t \in NoticeServers :
            (notice'[t].done <=> notice[t].done) /\ notice'[t].attempts = notice[t].attempts
      BY <1>6 DEF RetryDue, NoticesTyped, NoticeRow
    <2> QED BY <1>6, <2>1, MailsKeep DEF RetryDue, Present
  <1> QED BY <1>1, <1>2, <1>3, <1>4, <1>5, <1>6

LEMMA MailsStep ==
    ASSUME NoticeInv, [NoticeNext]_noticeVars
    PROVE  ScanInOrder' /\ MailsInOrder'
  <1> USE NoticeInvTypes
  <1>1. CASE \/ run_install_notify_scan \/ _mark_notified \/ _record_notify_failure \/ ScanEnds
             \/ \E s \in NoticeServers : ScanNext(s) \/ RetryDue(s)
    BY <1>1, ScanMailsStep
  <1>2. CASE \/ \E r \in Reminders : run_reminder_task(r) \/ \E s \in NoticeServers : _send_reminder(r, s)
             \/ Midnight \/ (\E g \in Graces : automation_save(g)) \/ UNCHANGED noticeVars
    <2>1. UNCHANGED <<server, notice, scan, mails, strays>>
      BY <1>2 DEF run_reminder_task, _send_reminder, Midnight, automation_save, noticeVars
    <2> QED BY <2>1, MailsKeep DEF Present
  <1>3. ASSUME NEW suspended \in SUBSET NoticeServers, NEW deleted \in SUBSET NoticeServers,
               DailyLifecycle(suspended, deleted)
        PROVE  ScanInOrder' /\ MailsInOrder'
    <2>1. /\ UNCHANGED <<scan, mails, strays>> /\ Gone(deleted) /\ suspended \subseteq SuspendCandidates
          /\ server' = [s \in NoticeServers |->
               IF s \in deleted THEN [server[s] EXCEPT !.st = "gone"]
               ELSE IF s \in suspended THEN [server[s] EXCEPT !.st = "suspended"] ELSE server[s]]
      BY <1>3 DEF DailyLifecycle
    <2>2. \A s \in NoticeServers :
             /\ server'[s].email <=> server[s].email
             /\ s \in deleted => ~(Present(s)')
             /\ Present(s)' => Present(s)
      BY <2>1 DEF RowsTyped, ServerRow, Present, SuspendCandidates
    <2>3. \A s \in NoticeServers : notice'[s] = IF s \in deleted THEN NoNotice ELSE notice[s]
      BY <2>1, GoneWritten
    <2> QED BY <2>1, <2>2, <2>3, MailsKeep
  <1>4. CASE JobsRestart
    <2>1. /\ scan' = NoScan /\ UNCHANGED <<server, notice, mails>>
          /\ strays' = IF scan.pc = "mark" /\ server[scan.at].email THEN [strays EXCEPT ![scan.at] = @ + 1] ELSE strays
      BY <1>4 DEF JobsRestart
    <2>2. \A s \in NoticeServers : /\ strays'[s] >= strays[s] /\ strays[s] \in Nat /\ strays'[s] \in Nat
                                   /\ mails[s] \in Nat
                                   /\ At(s, "mark") => ~server[s].email \/ strays'[s] = strays[s] + 1
      BY <2>1 DEF HistoryTyped, At
    <2>3. ScanInOrder' BY <2>1 DEF ScanInOrder, NoScan, At
    <2>4. MailsInOrder'
      BY <2>1, <2>2 DEF NoticeInv, MailsInOrder, Unmailed, NoScan, At, Present
    <2> QED BY <2>3, <2>4
  <1>5. ASSUME NEW s \in NoticeServers, InstallEnds(s) \/ Reinstall(s) \/ ServerDeleted(s)
        PROVE  ScanInOrder' /\ MailsInOrder'
    <2>1. /\ UNCHANGED <<scan, mails, strays>>
          /\ \A t \in NoticeServers : (server'[t].email <=> server[t].email) /\ (Present(t)' => Present(t))
      BY <1>5 DEF InstallEnds, Reinstall, ServerDeleted, RowsTyped, ServerRow, Present
    <2>2. CASE InstallEnds(s) \/ Reinstall(s)
      BY <2>1, <2>2, MailsKeep DEF InstallEnds, Reinstall
    <2>3. CASE ServerDeleted(s)
      <3>1. \A t \in NoticeServers : notice'[t] = IF t \in {s} THEN NoNotice ELSE notice[t]
        BY <2>3, GoneWritten DEF ServerDeleted
      <3>2. ~(Present(s)') BY <2>3 DEF ServerDeleted, RowsTyped, ServerRow, Present
      <3> QED BY <2>1, <3>1, <3>2, MailsKeep
    <2> QED BY <1>5, <2>2, <2>3
  <1>6. ASSUME NEW s \in NoticeServers, NEW day \in Days, SetExpiration(s, day)
        PROVE  ScanInOrder' /\ MailsInOrder'
    <2>1. UNCHANGED <<notice, scan, mails, strays>> BY <1>6 DEF SetExpiration
    <2>2. \A t \in NoticeServers : (server'[t].email <=> server[t].email) /\ (Present(t)' => Present(t))
      BY <1>6 DEF SetExpiration, RowsTyped, ServerRow, Present
    <2> QED BY <2>1, <2>2, MailsKeep
  <1> QED BY <1>1, <1>2, <1>3, <1>4, <1>5, <1>6 DEF NoticeNext

-------------------------------------------------------------------------------
(* Warnings of deletions *)

LEMMA DaysKnown ==
    ASSUME NoticeInv
    PROVE  /\ calendar.day \in Nat \ {0} /\ grace \in Nat \ {0}
           /\ \A s \in NoticeServers : server[s].exp \in Nat \ {0} /\ DueOf(s) \in Nat \ {0}
           /\ \A s \in NoticeServers : promised[s] \in Nat
  <1>1. calendar.day \in Nat \ {0} /\ grace \in Nat \ {0}
    BY NoticeInvTypes, NoticeNumbers DEF CalendarTyped, Calendar
  <1>2. \A s \in NoticeServers : server[s].exp \in Nat \ {0}
    BY NoticeInvTypes, NoticeNumbers DEF RowsTyped, ServerRow, Days
  <1>3. \A s \in NoticeServers : promised[s] \in Nat
    BY NoticeInvTypes, NoticeNumbers DEF HistoryTyped
  <1> QED BY <1>1, <1>2, <1>3 DEF DueOf, Due

\* Who touches no date, day, list or promise: rows may go, and more be excused.
LEMMA WarningsKeep ==
    ASSUME NoticeInv, UNCHANGED <<remind, calendar, grace, promised>>, excused \subseteq excused',
           \A s \in NoticeServers : /\ Present(s)' => Present(s)
                                    /\ server'[s].exp = server[s].exp
                                    /\ server'[s].email <=> server[s].email
    PROVE  WarnedInTime' /\ RemindersRan'
  BY DEF NoticeInv, WarnedInTime, Warned, DueOf, Due, RemindersRan

LEMMA ReminderStep ==
    ASSUME NoticeInv, NEW r \in Reminders, run_reminder_task(r)
    PROVE  WarnedInTime' /\ RemindersRan'
  <1> USE NoticeInvTypes, DaysKnown
  <1>1. PICK g : /\ IF r = "pre_delete" THEN SettingRead(g) ELSE g = grace /\ UNCHANGED <<used, excused>>
                 /\ remind' = [remind EXCEPT ![r] = Listed(r, g)]
    BY DEF run_reminder_task
  <1>2. /\ r \notin calendar.ran /\ calendar'.day = calendar.day /\ calendar'.ran = calendar.ran \cup {r}
        /\ UNCHANGED <<server, grace, promised>>
    BY DEF run_reminder_task, CalendarTyped, Calendar
  <1>3. \A q \in Reminders : remind'[q] = IF q = r THEN Listed(r, g) ELSE remind[q]
    BY <1>1 DEF RemindTyped
  <1>4. RemindersRan' BY <1>2, <1>3 DEF NoticeInv, RemindersRan
  <1>5. "pre_delete" \in Reminders BY DEF Reminders
  <1>6. CASE r # "pre_delete"
    <2>1. excused' = excused /\ remind'["pre_delete"] = remind["pre_delete"] BY <1>1, <1>3, <1>5, <1>6
    <2>2. WarnedInTime' BY <1>2, <1>6, <2>1 DEF NoticeInv, WarnedInTime, Warned, DueOf, Due, Present
    <2> QED BY <1>4, <2>2
  <1>7. CASE r = "pre_delete"
    <2>1. (g = grace /\ excused' = excused) \/ excused' = NoticeServers BY <1>1, <1>7, SettingIs
    <2>2. CASE excused' = NoticeServers BY <1>4, <2>2 DEF WarnedInTime
    <2>3. CASE g = grace /\ excused' = excused
      <3>1. \A s \in NoticeServers : s \in Listed(r, g) <=> Present(s) /\ DueOf(s) = calendar.day
        BY <1>7, <2>3 DEF Listed, DueOf, Due
      <3>2. WarnedInTime'
        BY <1>2, <1>3, <1>5, <1>7, <2>3, <3>1 DEF NoticeInv, WarnedInTime, Warned, DueOf, Due, Present
      <3> QED BY <1>4, <3>2
    <2> QED BY <2>1, <2>2, <2>3
  <1> QED BY <1>6, <1>7

LEMMA MailStep ==
    ASSUME NoticeInv, NEW r \in Reminders, NEW s \in NoticeServers, _send_reminder(r, s)
    PROVE  WarnedInTime' /\ RemindersRan'
  <1> USE NoticeInvTypes, DaysKnown
  <1>1. /\ s \in remind[r] /\ UNCHANGED <<server, calendar, grace>>
        /\ remind'[r] = remind[r] \ {s} /\ \A q \in Reminders \ {r} : remind'[q] = remind[q]
    BY DEF _send_reminder, RemindTyped
  <1>2. RemindersRan' BY <1>1 DEF NoticeInv, RemindersRan
  <1>3. "pre_delete" \in Reminders BY DEF Reminders
  <1>4. CASE r # "pre_delete" \/ ~server[s].email
    <2>1. promised' = promised /\ excused' = excused BY <1>4 DEF _send_reminder
    <2>2. \A t \in NoticeServers : t \in remind'["pre_delete"] <=>
                                      t \in remind["pre_delete"] /\ ~(r = "pre_delete" /\ t = s)
      BY <1>1, <1>3
    <2>3. WarnedInTime'
      BY <1>1, <1>4, <2>1, <2>2 DEF NoticeInv, WarnedInTime, Warned, DueOf, Due, Present
    <2> QED BY <1>2, <2>3
  <1>5. CASE r = "pre_delete" /\ server[s].email
    <2>1. /\ \A t \in NoticeServers \ {s} : promised'[t] = promised[t]
          /\ excused \subseteq excused'
          /\ promised'[s] = calendar.day + 1 \/ s \in excused'
      BY <1>5 DEF _send_reminder, HistoryTyped
    <2>2. \A t \in NoticeServers : t \in remind'["pre_delete"] <=> t \in remind["pre_delete"] /\ t # s
      BY <1>1, <1>5
    <2>3. WarnedInTime'
      <3> SUFFICES ASSUME NEW t \in NoticeServers, Present(t), t \notin excused' PROVE Warned(t)'
        BY <1>1 DEF WarnedInTime, Present
      <3>1. Warned(t) /\ t \notin excused BY <2>1 DEF NoticeInv, WarnedInTime
      <3>2. CASE t = s BY <1>1, <1>5, <2>1, <2>2, <3>1, <3>2 DEF Warned, DueOf, Due
      <3>3. CASE t # s BY <1>1, <2>1, <2>2, <3>1, <3>3 DEF Warned, DueOf, Due
      <3> QED BY <3>2, <3>3
    <2> QED BY <1>2, <2>3
  <1> QED BY <1>4, <1>5

LEMMA NightStep ==
    ASSUME NoticeInv, NEW suspended \in SUBSET NoticeServers, NEW deleted \in SUBSET NoticeServers,
           DailyLifecycle(suspended, deleted)
    PROVE  /\ WarnedInTime' /\ RemindersRan'
           /\ \A s \in deleted : server[s].trial \/ s \in excused' \/ promised[s] \in 1..calendar.day
  <1> USE NoticeInvTypes, DaysKnown
  <1>1. PICK g : SettingRead(g) /\ deleted \subseteq LongExpired(g) \cup TrialExpired
    BY DEF DailyLifecycle
  <1>2. (g = grace /\ excused' = excused) \/ excused' = NoticeServers BY <1>1, SettingIs
  <1>3. /\ UNCHANGED <<grace, promised, remind>> /\ calendar'.day = calendar.day
        /\ calendar'.ran = calendar.ran \cup {"night"}
        /\ suspended \subseteq SuspendCandidates
        /\ server' = [s \in NoticeServers |->
               IF s \in deleted THEN [server[s] EXCEPT !.st = "gone"]
               ELSE IF s \in suspended THEN [server[s] EXCEPT !.st = "suspended"] ELSE server[s]]
    BY DEF DailyLifecycle, CalendarTyped, Calendar
  <1>4. RemindersRan' BY <1>3 DEF NoticeInv, RemindersRan
  <1>5. CASE excused' = NoticeServers BY <1>4, <1>5 DEF WarnedInTime
  <1>6. CASE g = grace /\ excused' = excused
    <2>1. \A s \in NoticeServers :
             /\ server'[s].exp = server[s].exp /\ (server'[s].email <=> server[s].email)
             /\ Present(s)' => Present(s)
      BY <1>3 DEF RowsTyped, ServerRow, Present, SuspendCandidates
    <2>2. WarnedInTime'
      <3> SUFFICES ASSUME NEW s \in NoticeServers, Present(s)', s \notin excused' PROVE Warned(s)'
        BY DEF WarnedInTime
      <3>1. Warned(s) BY <1>6, <2>1 DEF NoticeInv, WarnedInTime
      <3>2. "pre_delete" \in calendar'.ran <=> "pre_delete" \in calendar.ran BY <1>3
      <3> QED BY <1>3, <2>1, <3>1, <3>2 DEF Warned, DueOf, Due
    <2>3. ASSUME NEW s \in deleted, ~server[s].trial, s \notin excused'
          PROVE  promised[s] \in 1..calendar.day
      <3>1. s \in NoticeServers /\ s \in LongExpired(g) BY <1>1, <2>3 DEF TrialExpired
      <3>2. Present(s) /\ server[s].exp <= calendar.day - grace
        BY <1>6, <3>1 DEF LongExpired, ExpiredBeforeOrOn
      <3>3. DueOf(s) < calendar.day BY <3>1, <3>2 DEF DueOf, Due
      <3> QED BY <1>6, <2>3, <3>1, <3>2, <3>3 DEF NoticeInv, WarnedInTime, Warned
    <2> QED BY <1>4, <2>2, <2>3
  <1> QED BY <1>2, <1>5, <1>6

LEMMA MidnightStep ==
    ASSUME NoticeInv, Midnight
    PROVE  WarnedInTime' /\ RemindersRan'
  <1> USE NoticeInvTypes, DaysKnown
  <1>1. /\ UNCHANGED <<server, grace, promised, remind>>
        /\ calendar'.day = calendar.day + 1 /\ calendar'.ran = {}
        /\ \A r \in Reminders : remind[r] = {}
        /\ excused \subseteq excused'
        /\ "pre_delete" \notin calendar.ran =>
               \A s \in NoticeServers : DueOf(s) = calendar.day => s \in excused'
    BY DEF Midnight, DueOf
  <1>2. RemindersRan' BY <1>1 DEF RemindersRan
  <1>3. WarnedInTime'
    <2> SUFFICES ASSUME NEW s \in NoticeServers, Present(s), s \notin excused' PROVE Warned(s)'
      BY <1>1 DEF WarnedInTime, Present
    <2>1. Warned(s) /\ remind["pre_delete"] = {} BY <1>1 DEF NoticeInv, WarnedInTime, Reminders
    <2>2. DueOf(s)' = DueOf(s) BY <1>1 DEF DueOf, Due
    <2> QED BY <1>1, <2>1, <2>2 DEF Warned
  <1> QED BY <1>2, <1>3

LEMMA DateStep ==
    ASSUME NoticeInv, NEW s \in NoticeServers, NEW day \in Days, SetExpiration(s, day)
    PROVE  WarnedInTime' /\ RemindersRan'
  <1> USE NoticeInvTypes, DaysKnown
  <1>1. /\ UNCHANGED <<calendar, grace, remind>>
        /\ server'[s].exp = day /\ (server'[s].email <=> server[s].email)
        /\ \A t \in NoticeServers \ {s} : server'[t] = server[t] /\ promised'[t] = promised[t]
        /\ \A t \in NoticeServers \ {s} : t \in excused' <=> t \in excused
        /\ s \notin excused' => server[s].email /\ ~TooLate(day, grace)
    BY DEF SetExpiration, RowsTyped, ServerRow, HistoryTyped
  <1>2. RemindersRan' BY <1>1 DEF NoticeInv, RemindersRan
  <1>3. WarnedInTime'
    <2> SUFFICES ASSUME NEW t \in NoticeServers, Present(t)', t \notin excused' PROVE Warned(t)'
      BY DEF WarnedInTime
    <2>1. CASE t = s
      <3>1. day \in Nat /\ DueOf(s)' = Due(day, grace) BY <1>1 DEF DueOf, Days
      <3>2. ~(DueOf(s)' < calendar.day) /\ ~(DueOf(s)' = calendar.day /\ "pre_delete" \in calendar.ran)
        BY <1>1, <2>1, <3>1 DEF TooLate
      <3>3. DueOf(s)' \in Int BY <3>1 DEF Due
      <3> QED BY <1>1, <2>1, <3>2, <3>3 DEF Warned
    <2>2. CASE t # s BY <1>1, <2>2 DEF NoticeInv, WarnedInTime, Warned, DueOf, Present
    <2> QED BY <2>1, <2>2
  <1> QED BY <1>2, <1>3

LEMMA GraceStep ==
    ASSUME NoticeInv, NEW g \in Graces, automation_save(g)
    PROVE  WarnedInTime' /\ RemindersRan'
  <1> USE NoticeInvTypes, DaysKnown
  <1>1. /\ UNCHANGED <<server, calendar, remind, promised>> /\ grace' = g /\ excused \subseteq excused'
        /\ \A s \in NoticeServers : TooLate(server[s].exp, g) => s \in excused'
    BY DEF automation_save
  <1>2. RemindersRan' BY <1>1 DEF NoticeInv, RemindersRan
  <1>3. WarnedInTime'
    <2> SUFFICES ASSUME NEW s \in NoticeServers, Present(s), s \notin excused' PROVE Warned(s)'
      BY <1>1 DEF WarnedInTime, Present
    <2>1. server[s].email BY <1>1 DEF NoticeInv, WarnedInTime, Warned
    <2>2. DueOf(s)' = Due(server[s].exp, g) BY <1>1 DEF DueOf
    <2>3. DueOf(s)' \in Int BY <2>2, NoticeNumbers DEF Due
    <2> QED BY <1>1, <2>1, <2>2, <2>3 DEF Warned, TooLate
  <1> QED BY <1>2, <1>3

LEMMA WarningsStep ==
    ASSUME NoticeInv, [NoticeNext]_noticeVars
    PROVE  WarnedInTime' /\ RemindersRan'
  <1> USE NoticeInvTypes
  <1>1. CASE \/ run_install_notify_scan \/ _mark_notified \/ _record_notify_failure \/ ScanEnds
             \/ (\E s \in NoticeServers : ScanNext(s) \/ RetryDue(s)) \/ UNCHANGED noticeVars
    <2>1. UNCHANGED <<server, remind, calendar, grace, promised, excused>>
      BY <1>1 DEF run_install_notify_scan, _mark_notified, _record_notify_failure, ScanEnds, ScanNext, RetryDue, noticeVars
    <2> QED BY <2>1, WarningsKeep DEF Present
  <1>2. ASSUME NEW s \in NoticeServers, InstallEnds(s) \/ Reinstall(s) \/ ServerDeleted(s)
        PROVE  WarnedInTime' /\ RemindersRan'
    <2>1. /\ UNCHANGED <<remind, calendar, grace, promised, excused>>
          /\ \A t \in NoticeServers : /\ server'[t].exp = server[t].exp /\ (server'[t].email <=> server[t].email)
                                      /\ Present(t)' => Present(t)
      BY <1>2 DEF InstallEnds, Reinstall, ServerDeleted, RowsTyped, ServerRow, Present
    <2> QED BY <2>1, WarningsKeep
  <1>3. CASE JobsRestart
    <2>1. /\ UNCHANGED <<server, calendar, grace, promised>>
          /\ \A r \in Reminders : remind'[r] = {}
          /\ excused' = excused \cup remind["pre_delete"]
      BY <1>3 DEF JobsRestart
    <2>2. RemindersRan' BY <2>1 DEF RemindersRan
    <2>3. "pre_delete" \in Reminders BY DEF Reminders
    <2>4. WarnedInTime'
      BY <2>1, <2>3 DEF NoticeInv, WarnedInTime, Warned, DueOf, Due, Present
    <2> QED BY <2>2, <2>4
  <1> QED BY <1>1, <1>2, <1>3, ReminderStep, MailStep, NightStep, MidnightStep, DateStep, GraceStep DEF NoticeNext

\* Scans, reminders, nights, restarts, deletions and changed settings, in any order and for any number
\* of servers: what is recorded of mails and what is promised stays true.
THEOREM NoticeInvariant == NoticeSpec => []NoticeInv
  <1>1. NoticeInv /\ [NoticeNext]_noticeVars => NoticeInv'
    <2> SUFFICES ASSUME NoticeInv, [NoticeNext]_noticeVars PROVE NoticeInv'
      OBVIOUS
    <2>1. CASE UNCHANGED noticeVars
      <3>1. NoticeTyped'
        BY <2>1, NoticeInvTypes DEF NoticeTyped, noticeVars, RowsTyped, NoticesTyped, ScanTyped,
           RemindTyped, CalendarTyped, HistoryTyped, UsedTyped
      <3> QED BY <3>1, MailsStep, WarningsStep DEF NoticeInv
    <2>2. CASE NoticeNext
      <3>1. NoticeTyped' BY <2>2, ScanTypeStep, ReminderTypeStep, OthersTypeStep DEF NoticeNext
      <3> QED BY <3>1, MailsStep, WarningsStep DEF NoticeInv
    <2> QED BY <2>1, <2>2
  <1> QED BY NoticeStarts, <1>1, PTL DEF NoticeSpec

\* The type invariant of the notices.
THEOREM NoticeTypesHold == NoticeSpec => []NoticeTypeOK
  <1>1. NoticeInv => NoticeTypeOK BY NoticeTypes DEF NoticeInv
  <1> QED BY <1>1, NoticeInvariant, PTL

\* One recorded mail about an installation, and nobody is given up early.
THEOREM ToldOnce == NoticeSpec => []InstallToldOnce
  <1>1. NoticeInv => InstallToldOnce
    <2> SUFFICES ASSUME NoticeInv PROVE InstallToldOnce
      OBVIOUS
    <2>1. \A s \in NoticeServers : strays[s] \in Nat BY NoticeInvTypes DEF HistoryTyped
    <2> QED BY <2>1 DEF NoticeInv, MailsInOrder, InstallToldOnce
  <1> QED BY <1>1, NoticeInvariant, PTL

\* No step of the nightly batch deletes a server whose owner was not told the day.
THEOREM DeletionsAreAnnounced == NoticeSpec => DeletionAnnounced
  <1>1. NoticeInv /\ [NoticeNext]_noticeVars =>
            [\A suspended, deleted \in SUBSET NoticeServers : DailyLifecycle(suspended, deleted) =>
                \A s \in deleted : server[s].trial \/ s \in excused' \/ promised[s] \in 1..calendar.day]_noticeVars
    BY NightStep
  <1> QED BY <1>1, NoticeInvariant, PTL DEF NoticeSpec, DeletionAnnounced

-------------------------------------------------------------------------------
(* Ports: requests and what they have read *)

ChangeKinds == {"add", "remove", "primary", "config", "build"}
CreateKinds == {"place", "create"}
Mine(a) == {job[a].first} \cup job[a].more

\* A request's step fits its kind; a change was read of a server that was there, with ports of its own.
JobInOrder(a) ==
    LET j == job[a] IN
    /\ j.pc = "idle" => j = Idle
    /\ j.pc # "idle" => j.s \in PortServers /\ j.kind # "none"
    /\ j.kind \in CreateKinds => /\ j.pc \in {"write", "wings", "revert"} /\ j.first \in Ports
                                 /\ j.to \in Limits \cup {NoLimit}
    /\ j.pc = "revert" => j.kind = "create"
    /\ j.kind = "delete" => j.pc = "write"
    /\ j.kind \in ChangeKinds =>
           /\ j.pc \in {"write", "wings", "restore"} /\ j.was.primary \in Ports
           /\ \A p \in j.more : j.was.owners[p] \in {NoOne, j.s}
    /\ j.kind = "primary" => j.first \in Ports /\ j.more = {j.first}
    /\ j.kind = "config" => j.to \in Configs /\ j.more = {}
    /\ j.kind = "build" => j.to \in Limits /\ j.more = {}
    /\ a \in Orders => j.kind \in {"place", "none"}
    /\ a \in Admins => j.kind # "place"

\* What the keys and the index of the database keep.
PrimaryUnique == \A s, t \in PortServers : s # t /\ Placed(s) => primary[s] # primary[t]
OwnersPlaced == \A p \in Ports : port[p].owner # NoOne => port[p].there /\ Placed(port[p].owner)
PrimaryThere == \A s \in PortServers : Placed(s) => port[primary[s]].there

PortsTyped ==
    /\ port \in [Ports -> PortRow] /\ primary \in [PortServers -> {0} \cup Ports]
    /\ config \in [PortServers -> Configs] /\ limit \in [PortServers -> Limits \cup {NoLimit}]
    /\ wings \in [PortServers -> WingsCopy \cup {Absent}]
    /\ job \in [Placers -> Job]
    /\ adrift \subseteq PortServers
    /\ begun \in [requests : 0..MaxPortRequests, restarts : 0..MaxPortRestarts]
PortInv ==
    /\ PortsTyped /\ (\A a \in Placers : JobInOrder(a))
    /\ PrimaryUnique /\ OwnersPlaced /\ PrimaryThere

-------------------------------------------------------------------------------
(* Ports: orders beside each other, administrators alone *)

AdminAlone == \A a \in Admins, b \in Placers : job[a] # Idle /\ b # a => job[b] = Idle
OneJobEach == \A a, b \in Placers : job[a].s \in PortServers /\ job[a].s = job[b].s => a = b
PrimaryOwned == \A s \in PortServers : Placed(s) => port[primary[s]].owner = s
\* The ports about to be taken are still free, and the server is not there yet.
PortsKept(a) ==
    job[a].kind \in CreateKinds /\ job[a].pc = "write" =>
        ~Placed(job[a].s) /\ \A p \in Mine(a) : port[p].owner = NoOne
MadePlaced(a) == job[a].kind \in CreateKinds /\ job[a].pc = "wings" => Placed(job[a].s)
\* A change finds what it read, and what it may take back is what Wings has.
AsRead(a) ==
    LET s == job[a].s
        was == job[a].was IN
    job[a].kind \in ChangeKinds /\ job[a].pc = "write" =>
        /\ Placed(s) /\ was.primary = primary[s] /\ was.config = config[s]
        /\ \A p \in Ports : was.owners[p] = port[p].owner
        /\ job[a].kind = "remove" => primary[s] \notin job[a].more
Before(a) ==
    LET s == job[a].s
        was == job[a].was IN
    [ports |-> {p \in Ports : port[p].there /\ was.owners[p] = s},
     primary |-> was.primary, config |-> was.config]
TakesBack(a) ==
    LET s == job[a].s
        was == job[a].was IN
    job[a].kind \in ChangeKinds /\ job[a].pc \in {"wings", "restore"} =>
        /\ Placed(s) /\ Rows(Written(a))
        /\ \A p \in Written(a) : port[p].owner = NewOwner(a)
        /\ \A p \in Ports \ Written(a) : port[p].owner = was.owners[p]
        /\ job[a].kind # "primary" => primary[s] = was.primary
        /\ job[a].kind # "config" => config[s] = was.config
        /\ port[was.primary].there /\ was.owners[was.primary] = s
        /\ s \notin adrift => wings[s] = Before(a)
AtRest == \A s \in PortServers : Placed(s) /\ s \notin adrift =>
    \/ wings[s] = View(s)
    \/ \E a \in Placers : job[a].s = s /\ job[a].pc \in {"wings", "restore", "revert"}
Steady(a) == PortsKept(a) /\ MadePlaced(a) /\ AsRead(a) /\ TakesBack(a)
AloneInv == AdminAlone /\ OneJobEach /\ PrimaryOwned /\ AtRest /\ \A a \in Placers : Steady(a)

LEMMA PortNumbers ==
    /\ \A p \in Ports : p \in Nat \ {0}
    /\ 0 \notin Ports /\ NoOne \notin PortServers /\ NoLimit \notin Limits /\ Orders \cap Admins = {}
    /\ MaxPortRequests \in Nat /\ MaxPortRestarts \in Nat /\ FirstConfig \in Configs
  BY PortAssumption DEF FirstConfig

LEMMA IdleJob == Idle \in Job /\ Idle.s = NoOne /\ Idle.kind = "none" /\ Idle.pc = "idle"
  BY PortNumbers DEF Idle, Job, JobKinds

LEMMA LowestPort ==
    ASSUME NEW a, Free(a) # {}
    PROVE  FindAvailableAllocation(a) \in Free(a)
  <1>1. PICK R : R = OpToRel(<, Nat) OBVIOUS
  <1>2. IsWellFoundedOn(R, Nat) BY <1>1, NatLessThanWellFounded
  <1>3. Free(a) \subseteq Nat BY PortNumbers DEF Free
  <1>4. PICK x \in Free(a) : \A y \in Free(a) : <<y, x>> \notin R BY <1>2, <1>3, WFMin
  <1>5. \A m, n \in Nat : <<n, m>> \notin R => m <= n BY <1>1 DEF OpToRel
  <1>6. \E m \in Free(a) : \A n \in Free(a) : m <= n BY <1>3, <1>4, <1>5
  <1> QED BY <1>6 DEF FindAvailableAllocation, Min

\* The request that begins, as it has read the tables.
Begun(kind, s, first, more, to) ==
    [kind |-> kind, s |-> s, pc |-> "write", first |-> first, more |-> more, to |-> to,
     was |-> [owners |-> [p \in Ports |-> port[p].owner], primary |-> primary[s],
              config |-> config[s], limit |-> limit[s]]]

LEMMA JobWrite ==
    ASSUME PortsTyped, NEW a \in Placers, NEW j \in Job, job' = [job EXCEPT ![a] = j]
    PROVE  job' \in [Placers -> Job] /\ job'[a] = j /\ \A b \in Placers \ {a} : job'[b] = job[b]
  BY DEF PortsTyped

LEMMA JobBegins ==
    ASSUME PortsTyped, NEW a \in Placers, NEW kind \in JobKinds, NEW s \in PortServers,
           NEW first \in {0} \cup Ports, NEW more \in SUBSET Ports,
           NEW to \in Configs \cup Limits \cup {NoLimit}, Starts(a, kind, s, first, more, to)
    PROVE  /\ job[a] = Idle /\ UNCHANGED <<port, primary, config, limit, wings, adrift>>
           /\ PortsTyped' /\ \A b \in Placers \ {a} : job'[b] = job[b]
           /\ job'[a] = Begun(kind, s, first, more, to)
  <1>1. PICK owners : owners = [p \in Ports |-> port[p].owner] OBVIOUS
  <1>2. owners \in [Ports -> PortServers \cup {NoOne}] BY <1>1 DEF PortsTyped, PortRow
  <1>3. PICK j : j = Begun(kind, s, first, more, to) OBVIOUS
  <1>4. PICK was : was = [owners |-> owners, primary |-> primary[s], config |-> config[s], limit |-> limit[s]] OBVIOUS
  <1>5. was \in [owners : [Ports -> PortServers \cup {NoOne}], primary : {0} \cup Ports,
                 config : Configs, limit : Limits \cup {NoLimit}]
    BY <1>2, <1>4 DEF PortsTyped
  <1>6. j = [kind |-> kind, s |-> s, pc |-> "write", first |-> first, more |-> more, to |-> to, was |-> was]
    BY <1>1, <1>3, <1>4 DEF Begun
  <1>7. j \in Job BY <1>5, <1>6 DEF Job
  <1>8. job' = [job EXCEPT ![a] = j] BY <1>3 DEF Starts, Begun
  <1>9. begun' \in [requests : 0..MaxPortRequests, restarts : 0..MaxPortRestarts]
    BY PortNumbers DEF Starts, PortsTyped
  <1>10. PortsTyped' BY <1>7, <1>8, <1>9, JobWrite DEF Starts, PortsTyped
  <1> QED BY <1>3, <1>7, <1>8, <1>10, JobWrite DEF Starts

\* The request goes on to another step and is the same in all else.
JobMoves(a, pc) ==
    /\ job'[a].pc = pc /\ job'[a].kind = job[a].kind /\ job'[a].s = job[a].s
    /\ job'[a].first = job[a].first /\ job'[a].more = job[a].more
    /\ job'[a].to = job[a].to /\ job'[a].was = job[a].was
    /\ \A b \in Placers \ {a} : job'[b] = job[b]

LEMMA JobGoes ==
    ASSUME PortsTyped, NEW a \in Placers, NEW pc \in {"idle", "write", "wings", "restore", "revert"}, Step(a, pc)
    PROVE  job' \in [Placers -> Job] /\ JobMoves(a, pc)
  BY DEF PortsTyped, Job, Step, JobMoves

JobEnds(a) == job'[a] = Idle /\ \A b \in Placers \ {a} : job'[b] = job[b]
LEMMA JobDone ==
    ASSUME PortsTyped, NEW a \in Placers, Ends(a)
    PROVE  job' \in [Placers -> Job] /\ JobEnds(a)
  BY IdleJob, JobWrite DEF Ends, JobEnds

\* The owner of every port of a set becomes the same.
LEMMA PortsReowned ==
    ASSUME PortsTyped, NEW P, NEW owner \in PortServers \cup {NoOne}, Reowned(P, owner)
    PROVE  /\ port' \in [Ports -> PortRow]
           /\ \A p \in Ports : /\ port'[p].there <=> port[p].there
                               /\ port'[p].owner = IF p \in P THEN owner ELSE port[p].owner
  BY DEF PortsTyped, PortRow, Reowned

LEMMA ViewTyped ==
    ASSUME PortsTyped, NEW s \in PortServers, Placed(s)
    PROVE  View(s) \in WingsCopy
  BY DEF PortsTyped, View, PortsOf, WingsCopy, Placed

\* Whoever changes a row keeps the keys; the requests are the same but for one.
LEMMA JobsStay ==
    ASSUME \A a \in Placers : JobInOrder(a), NEW a \in Placers, \A b \in Placers \ {a} : job'[b] = job[b],
           JobInOrder(a)'
    PROVE  \A b \in Placers : JobInOrder(b)'
  <1> SUFFICES ASSUME NEW b \in Placers PROVE JobInOrder(b)'
    OBVIOUS
  <1>1. CASE b = a BY <1>1
  <1>2. CASE b # a BY <1>2 DEF JobInOrder
  <1> QED BY <1>1, <1>2

LEMMA KeysStay ==
    ASSUME PrimaryUnique, OwnersPlaced, PrimaryThere, UNCHANGED <<port, primary>>
    PROVE  PrimaryUnique' /\ OwnersPlaced' /\ PrimaryThere'
  BY DEF PrimaryUnique, OwnersPlaced, PrimaryThere, Placed

LEMMA JobDoneInOrder ==
    ASSUME NEW a \in Placers, job'[a] = Idle
    PROVE  JobInOrder(a)'
  BY IdleJob DEF JobInOrder, ChangeKinds, CreateKinds

\* What a request finds when it begins.
Fitting(a, kind, s, first, more, to) ==
    /\ kind \in CreateKinds => /\ first \in Ports /\ to \in Limits \cup {NoLimit}
                               /\ ~Placed(s) /\ Resting(s)
                               /\ \A p \in {first} \cup more : port[p].owner = NoOne
    /\ kind \notin CreateKinds => Placed(s)
    /\ kind \in ChangeKinds => \A p \in more : port[p].owner \in {NoOne, s}
    /\ kind = "primary" => first \in Ports /\ more = {first}
    /\ kind = "remove" => primary[s] \notin more
    /\ kind = "config" => to \in Configs /\ more = {}
    /\ kind = "build" => to \in Limits /\ more = {}
    /\ kind \in ChangeKinds \cup CreateKinds \cup {"delete"}
    /\ a \in Orders => kind = "place"
    /\ a \in Admins => kind # "place"
Begins(a, s) ==
    \E kind \in JobKinds, first \in {0} \cup Ports, more \in SUBSET Ports,
       to \in Configs \cup Limits \cup {NoLimit} :
        Starts(a, kind, s, first, more, to) /\ Fitting(a, kind, s, first, more, to)

LEMMA BeginsAs ==
    ASSUME NEW a, NEW s, NEW kind \in JobKinds, NEW first \in {0} \cup Ports, NEW more \in SUBSET Ports,
           NEW to \in Configs \cup Limits \cup {NoLimit}, Starts(a, kind, s, first, more, to),
           Fitting(a, kind, s, first, more, to)
    PROVE  Begins(a, s)
  BY DEF Begins

LEMMA PlaceBegins ==
    ASSUME NEW a \in Orders, NEW s \in PortServers, NEW n \in Limits, CreatePlaceholder(a, s, n)
    PROVE  Begins(a, s)
  <1>1. PICK p : p = FindAvailableAllocation(a) OBVIOUS
  <1>2. p \in Ports /\ port[p].owner = NoOne BY <1>1, LowestPort DEF CreatePlaceholder, Free
  <1>3. PICK more : more = FurtherPorts(a, n) OBVIOUS
  <1>4. more = {p} \/ more = {} BY <1>1, <1>3 DEF FurtherPorts
  <1>5. Starts(a, "place", s, p, more, n) /\ ~Placed(s) /\ Resting(s)
    BY <1>1, <1>3 DEF CreatePlaceholder
  <1>6. Fitting(a, "place", s, p, more, n)
    BY <1>2, <1>4, <1>5, PortNumbers DEF Fitting, ChangeKinds, CreateKinds
  <1> QED BY <1>2, <1>4, <1>5, <1>6, BeginsAs DEF JobKinds

LEMMA AdminBegins ==
    ASSUME NEW a \in Admins, NEW s \in PortServers,
           \/ \E first \in Ports, more \in SUBSET Ports : AdminCreate(a, s, first, more)
           \/ \E P \in SUBSET Ports \ {{}} : AddAllocations(a, s, P)
           \/ \E p \in Ports : RemoveAllocation(a, s, p) \/ SetPrimaryAllocation(a, s, p)
           \/ \E c \in Configs : UpdateConfig(a, s, c)
           \/ \E n \in Limits : UpdateBuild(a, s, n)
           \/ DeletePlaced(a, s)
    PROVE  Begins(a, s)
  <1> USE PortNumbers DEF Fitting, ChangeKinds, CreateKinds
  <1>1. ASSUME NEW first \in Ports, NEW more \in SUBSET Ports, AdminCreate(a, s, first, more)
        PROVE  Begins(a, s)
    <2>1. Starts(a, "create", s, first, more, NoLimit) /\ Fitting(a, "create", s, first, more, NoLimit)
      BY <1>1 DEF AdminCreate
    <2> QED BY <2>1, BeginsAs DEF JobKinds
  <1>2. ASSUME NEW P \in SUBSET Ports, AddAllocations(a, s, P) PROVE Begins(a, s)
    <2>1. Starts(a, "add", s, 0, P, NoLimit) /\ Fitting(a, "add", s, 0, P, NoLimit)
      BY <1>2 DEF AddAllocations, Usable
    <2> QED BY <2>1, BeginsAs DEF JobKinds
  <1>3. ASSUME NEW p \in Ports, RemoveAllocation(a, s, p) PROVE Begins(a, s)
    <2>1. Starts(a, "remove", s, 0, {p}, NoLimit) /\ Fitting(a, "remove", s, 0, {p}, NoLimit)
      BY <1>3 DEF RemoveAllocation
    <2> QED BY <2>1, BeginsAs DEF JobKinds
  <1>4. ASSUME NEW p \in Ports, SetPrimaryAllocation(a, s, p) PROVE Begins(a, s)
    <2>1. Starts(a, "primary", s, p, {p}, NoLimit) /\ Fitting(a, "primary", s, p, {p}, NoLimit)
      BY <1>4 DEF SetPrimaryAllocation, Usable
    <2> QED BY <2>1, BeginsAs DEF JobKinds
  <1>5. ASSUME NEW c \in Configs, UpdateConfig(a, s, c) PROVE Begins(a, s)
    <2>1. Starts(a, "config", s, 0, {}, c) /\ Fitting(a, "config", s, 0, {}, c)
      BY <1>5 DEF UpdateConfig
    <2> QED BY <2>1, BeginsAs DEF JobKinds
  <1>6. ASSUME NEW n \in Limits, UpdateBuild(a, s, n) PROVE Begins(a, s)
    <2>1. Starts(a, "build", s, 0, {}, n) /\ Fitting(a, "build", s, 0, {}, n)
      BY <1>6 DEF UpdateBuild
    <2> QED BY <2>1, BeginsAs DEF JobKinds
  <1>7. ASSUME DeletePlaced(a, s) PROVE Begins(a, s)
    <2>1. Starts(a, "delete", s, 0, {}, NoLimit) /\ Fitting(a, "delete", s, 0, {}, NoLimit)
      BY <1>7 DEF DeletePlaced
    <2> QED BY <2>1, BeginsAs DEF JobKinds
  <1> QED BY <1>1, <1>2, <1>3, <1>4, <1>5, <1>6, <1>7

\* The request that has begun, as the others are.
LEMMA BeginsSo ==
    ASSUME PortsTyped, NEW a \in Placers, NEW s \in PortServers, Begins(a, s)
    PROVE  \E kind \in JobKinds, first \in {0} \cup Ports, more \in SUBSET Ports,
              to \in Configs \cup Limits \cup {NoLimit} :
               /\ Fitting(a, kind, s, first, more, to) /\ job[a] = Idle
               /\ UNCHANGED <<port, primary, config, limit, wings, adrift>>
               /\ PortsTyped' /\ \A b \in Placers \ {a} : job'[b] = job[b]
               /\ job'[a].kind = kind /\ job'[a].s = s /\ job'[a].pc = "write" /\ job'[a].first = first
               /\ job'[a].more = more /\ job'[a].to = to /\ job'[a].was.primary = primary[s]
               /\ job'[a].was.config = config[s]
               /\ \A p \in Ports : job'[a].was.owners[p] = port[p].owner
  <1>1. PICK kind \in JobKinds, first \in {0} \cup Ports, more \in SUBSET Ports,
             to \in Configs \cup Limits \cup {NoLimit} :
              Starts(a, kind, s, first, more, to) /\ Fitting(a, kind, s, first, more, to)
    BY DEF Begins
  <1>2. /\ job[a] = Idle /\ UNCHANGED <<port, primary, config, limit, wings, adrift>>
        /\ PortsTyped' /\ \A b \in Placers \ {a} : job'[b] = job[b]
        /\ job'[a] = Begun(kind, s, first, more, to)
    BY <1>1, JobBegins
  <1>3. /\ job'[a].kind = kind /\ job'[a].s = s /\ job'[a].pc = "write" /\ job'[a].first = first
        /\ job'[a].more = more /\ job'[a].to = to /\ job'[a].was.primary = primary[s]
        /\ job'[a].was.config = config[s]
        /\ \A p \in Ports : job'[a].was.owners[p] = port[p].owner
    BY <1>2 DEF Begun
  <1> QED BY <1>1, <1>2, <1>3

LEMMA BeginsWell ==
    ASSUME PortInv, NEW a \in Placers, NEW s \in PortServers, Begins(a, s)
    PROVE  PortInv'
  <1>1. PICK kind \in JobKinds, first \in {0} \cup Ports, more \in SUBSET Ports,
             to \in Configs \cup Limits \cup {NoLimit} :
               /\ Fitting(a, kind, s, first, more, to)
               /\ UNCHANGED <<port, primary, config, limit, wings, adrift>>
               /\ PortsTyped' /\ \A b \in Placers \ {a} : job'[b] = job[b]
               /\ job'[a].kind = kind /\ job'[a].s = s /\ job'[a].pc = "write" /\ job'[a].first = first
               /\ job'[a].more = more /\ job'[a].to = to /\ job'[a].was.primary = primary[s]
               /\ \A p \in Ports : job'[a].was.owners[p] = port[p].owner
    BY BeginsSo DEF PortInv
  <1>2. Placed(s) => primary[s] \in Ports BY DEF PortInv, PortsTyped, Placed
  <1>3. JobInOrder(a)'
    BY <1>1, <1>2, PortNumbers DEF JobInOrder, Fitting, ChangeKinds, CreateKinds
  <1>4. \A b \in Placers : JobInOrder(b)' BY <1>1, <1>3, JobsStay DEF PortInv
  <1>5. PrimaryUnique' /\ OwnersPlaced' /\ PrimaryThere' BY <1>1, KeysStay DEF PortInv
  <1> QED BY <1>1, <1>4, <1>5 DEF PortInv

\* A step of a request at hand.
LEMMA Working ==
    ASSUME PortInv, NEW a \in Placers, job[a].pc # "idle"
    PROVE  job[a].s \in PortServers /\ job[a] \in Job /\ JobInOrder(a)
  BY DEF PortInv, PortsTyped, JobInOrder

LEMMA GoesOnInOrder ==
    ASSUME PortInv, NEW a \in Placers, NEW pc \in {"wings", "restore", "revert"}, job[a].pc # "idle",
           JobMoves(a, pc), pc = "revert" => job[a].kind = "create",
           job[a].kind \in CreateKinds => pc \in {"wings", "revert"},
           job[a].kind \in ChangeKinds => pc \in {"wings", "restore"},
           job[a].kind # "delete"
    PROVE  \A b \in Placers : JobInOrder(b)'
  <1>1. JobInOrder(a) BY DEF PortInv
  <1>2. JobInOrder(a)' BY <1>1 DEF JobMoves, JobInOrder
  <1> QED BY <1>2, JobsStay DEF PortInv, JobMoves

LEMMA EndsInOrder ==
    ASSUME PortInv, NEW a \in Placers, JobEnds(a)
    PROVE  \A b \in Placers : JobInOrder(b)'
  BY JobDoneInOrder, JobsStay DEF PortInv, JobEnds

LEMMA InsertKeeps ==
    ASSUME PortInv, NEW a \in Placers, InsertServer(a)
    PROVE  PortInv'
  <1> DEFINE s == job[a].s
             mine == {job[a].first} \cup job[a].more
  <1>0. job[a].kind \in CreateKinds /\ job[a].pc = "write" BY DEF InsertServer, CreateKinds
  <1>1. s \in PortServers /\ job[a].first \in Ports /\ job[a].to \in Limits \cup {NoLimit} /\ job[a].more \subseteq Ports
    BY <1>0, Working DEF JobInOrder, Job
  <1>2. PortsTyped BY DEF PortInv
  <1>3. CASE Ends(a) /\ UNCHANGED <<port, primary, limit>>
    <2>1. job' \in [Placers -> Job] /\ JobEnds(a) BY <1>2, <1>3, JobDone
    <2>2. PortsTyped' BY <1>2, <1>3, <2>1 DEF InsertServer, PortsTyped
    <2> QED BY <1>3, <2>1, <2>2, EndsInOrder, KeysStay DEF PortInv
  <1>4. CASE /\ ~((\E t \in PortServers : primary[t] = job[a].first) \/ ~Rows(mine) \/ Placed(s))
             /\ primary' = [primary EXCEPT ![s] = job[a].first]
             /\ port' = [p \in Ports |-> IF p \in mine THEN [port[p] EXCEPT !.owner = s] ELSE port[p]]
             /\ limit' = [limit EXCEPT ![s] = job[a].to]
             /\ Step(a, "wings")
    <2>1. job' \in [Placers -> Job] /\ JobMoves(a, "wings") BY <1>2, <1>4, JobGoes
    <2>2. /\ port' \in [Ports -> PortRow]
          /\ \A p \in Ports : /\ port'[p].there <=> port[p].there
                              /\ port'[p].owner = IF p \in mine THEN s ELSE port[p].owner
      <3>1. Reowned(mine, s) BY <1>4 DEF Reowned
      <3> HIDE DEF mine
      <3> QED BY <1>1, <1>2, <3>1, PortsReowned
    <2>3. /\ primary' \in [PortServers -> {0} \cup Ports] /\ primary'[s] = job[a].first
          /\ \A t \in PortServers \ {s} : primary'[t] = primary[t]
      BY <1>1, <1>2, <1>4 DEF PortsTyped
    <2>4. PortsTyped' BY <1>1, <1>2, <1>4, <2>1, <2>2, <2>3 DEF InsertServer, PortsTyped
    <2>5. job[a].first # 0 BY <1>1, PortNumbers
    <2>6. PrimaryUnique'
      <3> SUFFICES ASSUME NEW t \in PortServers, NEW u \in PortServers, t # u, Placed(t)'
                   PROVE  primary'[t] # primary'[u]
        BY DEF PrimaryUnique
      <3> QED BY <1>4, <2>3, <2>5 DEF PortInv, PrimaryUnique, Placed
    <2>7. OwnersPlaced'
      <3> SUFFICES ASSUME NEW p \in Ports, port'[p].owner # NoOne PROVE (port[p].there /\ Placed(port[p].owner))'
        BY DEF OwnersPlaced
      <3>1. CASE p \in mine BY <1>1, <1>4, <2>2, <2>3, <2>5, <3>1 DEF Rows, Placed
      <3>2. CASE p \notin mine
        <4>1. port[p].owner \in PortServers /\ port[p].there /\ Placed(port[p].owner)
          BY <1>2, <2>2, <3>2 DEF PortInv, OwnersPlaced, PortsTyped, PortRow
        <4> QED BY <1>4, <2>2, <2>3, <3>2, <4>1 DEF Placed
      <3> QED BY <3>1, <3>2
    <2>8. PrimaryThere'
      <3>1. port[job[a].first].there BY <1>1, <1>4 DEF Rows
      <3>2. \A t \in PortServers \ {s} : Placed(t)' => port[primary'[t]].there /\ primary'[t] \in Ports
        BY <1>2, <2>3 DEF PortInv, PrimaryThere, Placed, PortsTyped
      <3> QED BY <1>1, <2>2, <2>3, <3>1, <3>2 DEF PrimaryThere
    <2>9. \A b \in Placers : JobInOrder(b)'
      BY <1>0, <2>1, GoesOnInOrder DEF CreateKinds, ChangeKinds
    <2> QED BY <2>4, <2>6, <2>7, <2>8, <2>9 DEF PortInv
  <1> QED BY <1>3, <1>4 DEF InsertServer

LEMMA AtWingsKeeps ==
    ASSUME PortInv, NEW a \in Placers, CreateAtWings(a)
    PROVE  PortInv'
  <1> DEFINE s == job[a].s
  <1>0. job[a].kind \in CreateKinds /\ job[a].pc = "wings" BY DEF CreateAtWings, CreateKinds
  <1>1. s \in PortServers BY <1>0, Working
  <1>2. PortsTyped BY DEF PortInv
  <1>3. wings' \in [PortServers -> WingsCopy \cup {Absent}]
    <2>1. Placed(s) => View(s) \in WingsCopy BY <1>1, <1>2, ViewTyped
    <2>2. PICK v : v = View(s) OBVIOUS
    <2>3. \/ wings' = [wings EXCEPT ![s] = IF Placed(s) THEN v ELSE Absent]
          \/ wings' = wings
          \/ wings' = [wings EXCEPT ![s] = v] /\ Placed(s)
      BY <2>2 DEF CreateAtWings
    <2> QED BY <1>1, <1>2, <2>1, <2>2, <2>3 DEF PortsTyped
  <1>4. adrift' \subseteq PortServers BY <1>1, <1>2 DEF CreateAtWings, PortsTyped
  <1>5. CASE Ends(a)
    <2>1. job' \in [Placers -> Job] /\ JobEnds(a) BY <1>2, <1>5, JobDone
    <2>2. PortsTyped' BY <1>2, <1>3, <1>4, <2>1 DEF CreateAtWings, PortsTyped
    <2> QED BY <2>1, <2>2, EndsInOrder, KeysStay DEF PortInv, CreateAtWings
  <1>6. CASE Step(a, "revert") /\ job[a].kind = "create"
    <2>1. job' \in [Placers -> Job] /\ JobMoves(a, "revert") BY <1>2, <1>6, JobGoes
    <2>2. PortsTyped' BY <1>2, <1>3, <1>4, <2>1 DEF CreateAtWings, PortsTyped
    <2>3. \A b \in Placers : JobInOrder(b)'
      BY <1>0, <1>6, <2>1, GoesOnInOrder DEF CreateKinds, ChangeKinds
    <2> QED BY <2>2, <2>3, KeysStay DEF PortInv, CreateAtWings
  <1> QED BY <1>5, <1>6 DEF CreateAtWings

LEMMA DeleteRowKeeps ==
    ASSUME PortInv, NEW a \in Placers, DeleteServerRow(a)
    PROVE  PortInv'
  <1> DEFINE s == job[a].s
             P == {p \in Ports : port[p].owner = s}
  <1>1. s \in PortServers BY Working DEF DeleteServerRow
  <1>2. PortsTyped BY DEF PortInv
  <1>3. job' \in [Placers -> Job] /\ JobEnds(a) BY <1>2, JobDone DEF DeleteServerRow
  <1>4. Reowned(P, NoOne) BY DEF DeleteServerRow, Released, Reowned
  <1>5. /\ port' \in [Ports -> PortRow]
        /\ \A p \in Ports : /\ port'[p].there <=> port[p].there
                            /\ port'[p].owner = IF p \in P THEN NoOne ELSE port[p].owner
    <2> HIDE DEF P
    <2> QED BY <1>2, <1>4, PortsReowned
  <1>6. /\ primary' \in [PortServers -> {0} \cup Ports] /\ primary'[s] = 0
        /\ \A t \in PortServers \ {s} : primary'[t] = primary[t]
    BY <1>1, <1>2 DEF PortsTyped, DeleteServerRow, Released
  <1>7. PortsTyped'
    BY <1>1, <1>2, <1>3, <1>5, <1>6, PortNumbers DEF PortsTyped, DeleteServerRow, Released
  <1>8. PrimaryUnique' BY <1>6 DEF PortInv, PrimaryUnique, Placed
  <1>9. OwnersPlaced'
    <2> SUFFICES ASSUME NEW p \in Ports, port'[p].owner # NoOne PROVE (port[p].there /\ Placed(port[p].owner))'
      BY DEF OwnersPlaced
    <2>1. p \notin P /\ port[p].owner # s /\ port[p].owner \in PortServers /\ port[p].there /\ Placed(port[p].owner)
      BY <1>2, <1>5 DEF PortInv, OwnersPlaced, PortsTyped, PortRow
    <2> QED BY <1>5, <1>6, <2>1 DEF Placed
  <1>10. PrimaryThere'
    <2>1. \A t \in PortServers : Placed(t)' => t # s /\ port[primary'[t]].there /\ primary'[t] \in Ports
      BY <1>2, <1>6 DEF PortInv, PrimaryThere, Placed, PortsTyped
    <2> QED BY <1>5, <2>1 DEF PrimaryThere
  <1> QED BY <1>3, <1>7, <1>8, <1>9, <1>10, EndsInOrder DEF PortInv

\* A change is about a server that was there, and about ports that nobody else had.
LEMMA ChangeAtHand ==
    ASSUME PortInv, NEW a \in Placers, job[a].kind \in ChangeKinds
    PROVE  /\ job[a].s \in PortServers /\ job[a].pc # "idle" /\ job[a].was.primary \in Ports
           /\ job[a].more \subseteq Ports /\ NewOwner(a) \in {NoOne, job[a].s}
           /\ \A p \in Ports : job[a].was.owners[p] \in PortServers \cup {NoOne}
           /\ \A p \in job[a].more : job[a].was.owners[p] \in {NoOne, job[a].s}
           /\ job[a].was.config \in Configs /\ job[a].was.limit \in Limits \cup {NoLimit}
           /\ job[a].kind \notin CreateKinds /\ job[a].kind # "delete"
           /\ Written(a) \subseteq Ports
  <1>1. JobInOrder(a) /\ job[a] \in Job BY DEF PortInv, PortsTyped
  <1>2. job[a].s \in PortServers /\ job[a].more \subseteq Ports BY <1>1 DEF JobInOrder, Job, ChangeKinds
  <1> QED BY <1>1, <1>2 DEF JobInOrder, Job, ChangeKinds, CreateKinds, NewOwner, Written

\* Ports get another owner, a server that is there or none, and the primary ports stay.
LEMMA OwnersMove ==
    ASSUME PortInv, NEW P \in SUBSET Ports, NEW owner \in PortServers \cup {NoOne},
           Reowned(P, owner), Rows(P), owner = NoOne \/ Placed(owner),
           \A t \in PortServers : Placed(t) => Placed(t)'
    PROVE  OwnersPlaced'
  <1>1. /\ port' \in [Ports -> PortRow]
        /\ \A p \in Ports : /\ port'[p].there <=> port[p].there
                            /\ port'[p].owner = IF p \in P THEN owner ELSE port[p].owner
    BY PortsReowned DEF PortInv
  <1> SUFFICES ASSUME NEW p \in Ports, port'[p].owner # NoOne PROVE (port[p].there /\ Placed(port[p].owner))'
    BY DEF OwnersPlaced
  <1>2. CASE p \in P BY <1>1, <1>2 DEF Rows
  <1>3. CASE p \notin P
    <2>1. port[p].owner \in PortServers /\ port[p].there /\ Placed(port[p].owner)
      BY <1>1, <1>3 DEF PortInv, OwnersPlaced, PortsTyped, PortRow
    <2> QED BY <1>1, <1>3, <2>1
  <1> QED BY <1>2, <1>3

\* A server moves to another primary port, if the database takes it.
LEMMA PrimaryMoves ==
    ASSUME PortInv, NEW s \in PortServers, NEW p \in Ports, ~Refused(s, p),
           primary' = [primary EXCEPT ![s] = p], \A q \in Ports : port[q].there => port'[q].there
    PROVE  /\ primary' \in [PortServers -> {0} \cup Ports] /\ PrimaryUnique' /\ PrimaryThere'
           /\ \A t \in PortServers : Placed(t) => Placed(t)'
  <1>1. /\ primary' \in [PortServers -> {0} \cup Ports] /\ primary'[s] = p
        /\ \A t \in PortServers \ {s} : primary'[t] = primary[t]
    BY DEF PortInv, PortsTyped
  <1>2. p # 0 /\ port[p].there /\ \A t \in PortServers \ {s} : primary[t] # p
    BY PortNumbers DEF Refused, Rows
  <1>3. PrimaryUnique' BY <1>1, <1>2 DEF PortInv, PrimaryUnique, Placed
  <1>4. PrimaryThere'
    <2>1. \A t \in PortServers : Placed(t)' => primary'[t] \in Ports /\ port[primary'[t]].there
      BY <1>1, <1>2 DEF PortInv, PrimaryThere, Placed, PortsTyped
    <2> QED BY <2>1 DEF PrimaryThere
  <1> QED BY <1>1, <1>2, <1>3, <1>4 DEF Placed

LEMMA PrimaryStays ==
    ASSUME PortInv, primary' = primary, \A q \in Ports : port[q].there => port'[q].there
    PROVE  /\ primary' \in [PortServers -> {0} \cup Ports] /\ PrimaryUnique' /\ PrimaryThere'
           /\ \A t \in PortServers : Placed(t) => Placed(t)'
  BY DEF PortInv, PortsTyped, PrimaryUnique, PrimaryThere, Placed

LEMMA CommitKeeps ==
    ASSUME PortInv, NEW a \in Placers, CommitChange(a)
    PROVE  PortInv'
  <1> DEFINE s == job[a].s
             P == Written(a)
  <1>0. job[a].kind \in ChangeKinds /\ job[a].pc = "write" BY DEF CommitChange, ChangeKinds
  <1>1. /\ s \in PortServers /\ job[a].kind \notin CreateKinds /\ job[a].kind # "delete"
        /\ NewOwner(a) \in {NoOne, s} /\ P \subseteq Ports
    BY <1>0, ChangeAtHand
  <1>2. PortsTyped BY DEF PortInv
  <1>3. CASE Ends(a) /\ UNCHANGED <<port, primary, config, limit>>
    <2>1. job' \in [Placers -> Job] /\ JobEnds(a) BY <1>2, <1>3, JobDone
    <2>2. PortsTyped' BY <1>2, <1>3, <2>1 DEF CommitChange, PortsTyped
    <2> QED BY <1>3, <2>1, <2>2, EndsInOrder, KeysStay DEF PortInv
  <1>4. CASE /\ ~(~Placed(s) \/ ~Rows(P) \/ (job[a].kind = "primary" /\ Refused(s, job[a].first)))
             /\ Reowned(P, NewOwner(a))
             /\ primary' = IF job[a].kind = "primary" THEN [primary EXCEPT ![s] = job[a].first] ELSE primary
             /\ config' = IF job[a].kind = "config" THEN [config EXCEPT ![s] = job[a].to] ELSE config
             /\ limit' = IF job[a].kind = "build" THEN [limit EXCEPT ![s] = job[a].to] ELSE limit
             /\ Step(a, "wings")
    <2>1. job' \in [Placers -> Job] /\ JobMoves(a, "wings") BY <1>2, <1>4, JobGoes
    <2>2. /\ port' \in [Ports -> PortRow]
          /\ \A p \in Ports : /\ port'[p].there <=> port[p].there
                              /\ port'[p].owner = IF p \in P THEN NewOwner(a) ELSE port[p].owner
      <3> HIDE DEF P, s
      <3> QED BY <1>1, <1>2, <1>4, PortsReowned
    <2>3. /\ primary' \in [PortServers -> {0} \cup Ports] /\ PrimaryUnique' /\ PrimaryThere'
          /\ \A t \in PortServers : Placed(t) => Placed(t)'
      <3>1. CASE job[a].kind = "primary"
        <4>1. job[a].first \in Ports BY <3>1 DEF PortInv, JobInOrder
        <4> QED BY <1>1, <1>4, <2>2, <3>1, <4>1, PrimaryMoves
      <3>2. CASE job[a].kind # "primary" BY <1>4, <2>2, <3>2, PrimaryStays
      <3> QED BY <3>1, <3>2
    <2>4. OwnersPlaced'
      <3> HIDE DEF P, s
      <3> QED BY <1>1, <1>4, <2>3, OwnersMove
    <2>5. config' \in [PortServers -> Configs]
      <3>1. job[a].kind = "config" => job[a].to \in Configs BY DEF PortInv, JobInOrder
      <3> QED BY <1>1, <1>2, <1>4, <3>1 DEF PortsTyped
    <2>6. limit' \in [PortServers -> Limits \cup {NoLimit}]
      <3>1. job[a].kind = "build" => job[a].to \in Limits BY DEF PortInv, JobInOrder
      <3> QED BY <1>1, <1>2, <1>4, <3>1 DEF PortsTyped
    <2>7. PortsTyped' BY <1>2, <2>1, <2>2, <2>3, <2>5, <2>6 DEF CommitChange, PortsTyped
    <2>8. \A b \in Placers : JobInOrder(b)' BY <1>0, <1>1, <2>1, GoesOnInOrder
    <2> QED BY <2>3, <2>4, <2>7, <2>8 DEF PortInv
  <1> QED BY <1>3, <1>4 DEF CommitChange

LEMMA SyncKeeps ==
    ASSUME PortInv, NEW a \in Placers, SyncServer(a)
    PROVE  PortInv'
  <1> DEFINE s == job[a].s
  <1>0. job[a].kind \in ChangeKinds /\ job[a].pc = "wings" BY DEF SyncServer, ChangeKinds
  <1>1. s \in PortServers /\ job[a].kind \notin CreateKinds /\ job[a].kind # "delete"
    BY <1>0, ChangeAtHand
  <1>2. PortsTyped BY DEF PortInv
  <1>3. wings' \in [PortServers -> WingsCopy \cup {Absent}] /\ adrift' \subseteq PortServers
    <2>1. Placed(s) => View(s) \in WingsCopy BY <1>1, <1>2, ViewTyped
    <2>2. PICK v : v = View(s) OBVIOUS
    <2>3. \/ wings' = wings /\ adrift' = adrift
          \/ wings' = [wings EXCEPT ![s] = v] /\ Placed(s) /\ adrift' \in {adrift \cup {s}, adrift \ {s}}
      BY <2>2 DEF SyncServer
    <2> QED BY <1>1, <1>2, <2>1, <2>2, <2>3 DEF PortsTyped
  <1>5. CASE Ends(a)
    <2>1. job' \in [Placers -> Job] /\ JobEnds(a) BY <1>2, <1>5, JobDone
    <2>2. PortsTyped' BY <1>2, <1>3, <2>1 DEF SyncServer, PortsTyped
    <2> QED BY <2>1, <2>2, EndsInOrder, KeysStay DEF PortInv, SyncServer
  <1>6. CASE Step(a, "restore")
    <2>1. job' \in [Placers -> Job] /\ JobMoves(a, "restore") BY <1>2, <1>6, JobGoes
    <2>2. PortsTyped' BY <1>2, <1>3, <2>1 DEF SyncServer, PortsTyped
    <2>3. \A b \in Placers : JobInOrder(b)' BY <1>0, <1>1, <2>1, GoesOnInOrder
    <2> QED BY <2>2, <2>3, KeysStay DEF PortInv, SyncServer
  <1> QED BY <1>5, <1>6 DEF SyncServer

LEMMA RestoreKeeps ==
    ASSUME PortInv, NEW a \in Placers, Restore(a)
    PROVE  PortInv'
  <1> DEFINE s == job[a].s
             was == job[a].was
             back == {p \in Written(a) : port[p].there}
  <1>0. job[a].kind \in ChangeKinds
    <2>1. JobInOrder(a) /\ job[a].kind \in JobKinds /\ job[a].pc = "restore"
      BY DEF PortInv, Restore, PortsTyped, Job
    <2> QED BY <2>1 DEF JobInOrder, ChangeKinds, CreateKinds, JobKinds
  <1>1. /\ s \in PortServers /\ was.primary \in Ports /\ back \subseteq Ports
        /\ \A p \in Ports : was.owners[p] \in PortServers \cup {NoOne}
        /\ \A p \in back : was.owners[p] \in {NoOne, s} /\ port[p].there
        /\ was.config \in Configs /\ was.limit \in Limits \cup {NoLimit}
    BY <1>0, ChangeAtHand DEF Written
  <1>2. PortsTyped BY DEF PortInv
  <1>3. job' \in [Placers -> Job] /\ JobEnds(a) BY <1>2, JobDone DEF Restore
  <1>4. \A b \in Placers : JobInOrder(b)' BY <1>3, EndsInOrder
  <1>5. CASE UNCHANGED <<port, primary, config, limit>> /\ adrift' \in {adrift, adrift \cup {s}}
    <2>1. PortsTyped' BY <1>1, <1>2, <1>3, <1>5 DEF Restore, PortsTyped
    <2> QED BY <1>4, <1>5, <2>1, KeysStay DEF PortInv
  <1>6. CASE /\ ~((~Placed(s) /\ \E p \in back : was.owners[p] # NoOne)
                  \/ (Placed(s) /\ job[a].kind = "primary" /\ Refused(s, was.primary)))
             /\ port' = [p \in Ports |-> IF p \in back THEN [port[p] EXCEPT !.owner = was.owners[p]] ELSE port[p]]
             /\ primary' = IF Placed(s) /\ job[a].kind = "primary" THEN [primary EXCEPT ![s] = was.primary]
                           ELSE primary
             /\ config' = IF Placed(s) /\ job[a].kind = "config" THEN [config EXCEPT ![s] = was.config] ELSE config
             /\ limit' = IF Placed(s) /\ job[a].kind = "build" THEN [limit EXCEPT ![s] = PreviousLimit(a)] ELSE limit
             /\ UNCHANGED adrift
    <2>1. /\ port' \in [Ports -> PortRow]
          /\ \A p \in Ports : /\ port'[p].there <=> port[p].there
                              /\ port'[p].owner = IF p \in back THEN was.owners[p] ELSE port[p].owner
      <3> HIDE DEF back
      <3> QED BY <1>1, <1>2, <1>6 DEF PortsTyped, PortRow
    <2>2. /\ primary' \in [PortServers -> {0} \cup Ports] /\ PrimaryUnique' /\ PrimaryThere'
          /\ \A t \in PortServers : Placed(t) => Placed(t)'
      <3>1. CASE Placed(s) /\ job[a].kind = "primary"
        <4>1. ~Refused(s, was.primary) /\ primary' = [primary EXCEPT ![s] = was.primary] BY <1>6, <3>1
        <4> QED BY <1>1, <2>1, <4>1, PrimaryMoves
      <3>2. CASE ~(Placed(s) /\ job[a].kind = "primary") BY <1>6, <2>1, <3>2, PrimaryStays
      <3> QED BY <3>1, <3>2
    <2>3. OwnersPlaced'
      <3> SUFFICES ASSUME NEW p \in Ports, port'[p].owner # NoOne PROVE (port[p].there /\ Placed(port[p].owner))'
        BY DEF OwnersPlaced
      <3>1. CASE p \in back
        <4>1. was.owners[p] = s /\ port[p].there BY <1>1, <2>1, <3>1
        <4>2. Placed(s) BY <1>6, <3>1, <4>1, <2>1
        <4> QED BY <1>1, <2>1, <2>2, <3>1, <4>1, <4>2
      <3>2. CASE p \notin back
        <4>1. port[p].owner \in PortServers /\ port[p].there /\ Placed(port[p].owner)
          BY <1>2, <2>1, <3>2 DEF PortInv, OwnersPlaced, PortsTyped, PortRow
        <4> QED BY <2>1, <2>2, <3>2, <4>1
      <3> QED BY <3>1, <3>2
    <2>4. config' \in [PortServers -> Configs] BY <1>1, <1>2, <1>6 DEF PortsTyped
    <2>5. limit' \in [PortServers -> Limits \cup {NoLimit}]
      <3>1. PreviousLimit(a) \in Limits \cup {NoLimit} BY <1>1, <1>2 DEF PreviousLimit, PortsTyped
      <3> QED BY <1>1, <1>2, <1>6, <3>1 DEF PortsTyped
    <2>6. PortsTyped' BY <1>2, <1>3, <1>6, <2>1, <2>2, <2>4, <2>5 DEF Restore, PortsTyped
    <2> QED BY <1>4, <2>2, <2>3, <2>6 DEF PortInv
  <1>7. adrift' \in {adrift, adrift \cup {s}} \/ UNCHANGED adrift BY DEF Restore
  <1> QED BY <1>5, <1>6, <1>7 DEF Restore

LEMMA BulkKeeps ==
    ASSUME PortInv, NEW P \in SUBSET Ports, BulkCreate(P)
    PROVE  PortInv'
  <1>1. PortsTyped BY DEF PortInv
  <1>2. port' \in [Ports -> PortRow] /\ \A p \in Ports : /\ port[p].there => port'[p].there
                                                        /\ port'[p].owner = port[p].owner
    BY <1>1 DEF BulkCreate, PortsTyped, PortRow
  <1>3. begun' \in [requests : 0..MaxPortRequests, restarts : 0..MaxPortRestarts]
    BY <1>1, PortNumbers DEF BulkCreate, PortsTyped
  <1>4. PortsTyped' BY <1>1, <1>2, <1>3 DEF BulkCreate, PortsTyped
  <1>5. PrimaryUnique' /\ PrimaryThere' BY <1>2, PrimaryStays DEF BulkCreate
  <1>6. OwnersPlaced' BY <1>2 DEF BulkCreate, PortInv, OwnersPlaced, Placed
  <1>7. \A b \in Placers : JobInOrder(b)' BY DEF BulkCreate, PortInv, JobInOrder
  <1> QED BY <1>4, <1>5, <1>6, <1>7 DEF PortInv

LEMMA DeleteManyKeeps ==
    ASSUME PortInv, NEW P \in SUBSET Ports, DeleteMany(P)
    PROVE  PortInv'
  <1>1. PortsTyped BY DEF PortInv
  <1>2. port' \in [Ports -> PortRow] /\ \A p \in Ports : /\ p \notin P => port'[p] = port[p]
                                                        /\ p \in P => port'[p].owner = NoOne
    BY <1>1 DEF DeleteMany, PortsTyped, PortRow
  <1>3. begun' \in [requests : 0..MaxPortRequests, restarts : 0..MaxPortRestarts]
    BY <1>1, PortNumbers DEF DeleteMany, PortsTyped
  <1>4. PortsTyped' BY <1>1, <1>2, <1>3 DEF DeleteMany, PortsTyped
  <1>5. PrimaryUnique' BY DEF DeleteMany, PortInv, PrimaryUnique, Placed
  <1>6. PrimaryThere'
    <2>1. \A s \in PortServers : Placed(s)' => primary[s] \in Ports \ P /\ port[primary[s]].there
      BY <1>1 DEF DeleteMany, PortInv, PrimaryThere, Placed, PortsTyped
    <2> QED BY <1>2, <2>1 DEF DeleteMany, PrimaryThere
  <1>7. OwnersPlaced' BY <1>2 DEF DeleteMany, PortInv, OwnersPlaced, Placed
  <1>8. \A b \in Placers : JobInOrder(b)' BY DEF DeleteMany, PortInv, JobInOrder
  <1> QED BY <1>4, <1>5, <1>6, <1>7, <1>8 DEF PortInv

LEMMA RestartPortsKeeps ==
    ASSUME PortInv, PortRestart
    PROVE  PortInv'
  <1>1. PortsTyped BY DEF PortInv
  <1>2. job' \in [Placers -> Job] /\ \A a \in Placers : job'[a] = Idle BY IdleJob DEF PortRestart
  <1>3. adrift' \subseteq PortServers
    <2>1. \A a \in Placers : job[a].pc # "idle" => job[a].s \in PortServers BY Working
    <2>2. \A t \in adrift' : t \in adrift \/ \E a \in Placers : /\ t = job[a].s
                                                               /\ job[a].pc \in {"wings", "restore", "revert"}
      BY DEF PortRestart
    <2> QED BY <1>1, <2>1, <2>2 DEF PortsTyped
  <1>4. begun' \in [requests : 0..MaxPortRequests, restarts : 0..MaxPortRestarts]
    BY <1>1, PortNumbers DEF PortRestart, PortsTyped
  <1>5. PortsTyped' BY <1>1, <1>2, <1>3, <1>4 DEF PortRestart, PortsTyped
  <1>6. \A b \in Placers : JobInOrder(b)' BY <1>2, JobDoneInOrder
  <1> QED BY <1>5, <1>6, KeysStay DEF PortInv, PortRestart

LEMMA PortsBegin == PortInit => PortInv
  <1> SUFFICES ASSUME PortInit PROVE PortInv
    OBVIOUS
  <1> USE PortNumbers, IdleJob DEF PortInit
  <1>1. PortsTyped
    <2>1. port \in [Ports -> PortRow] BY DEF PortRow
    <2>2. begun \in [requests : 0..MaxPortRequests, restarts : 0..MaxPortRestarts] OBVIOUS
    <2> QED BY <2>1, <2>2 DEF PortsTyped
  <1>2. \A a \in Placers : JobInOrder(a) BY DEF JobInOrder, ChangeKinds, CreateKinds
  <1>3. PrimaryUnique /\ OwnersPlaced /\ PrimaryThere BY DEF PrimaryUnique, OwnersPlaced, PrimaryThere, Placed
  <1> QED BY <1>1, <1>2, <1>3 DEF PortInv

LEMMA PortStep == PortInv /\ [PortNext]_portVars => PortInv'
  <1> SUFFICES ASSUME PortInv, [PortNext]_portVars PROVE PortInv'
    OBVIOUS
  <1>1. ASSUME NEW a \in Orders, NEW s \in PortServers, NEW n \in Limits, CreatePlaceholder(a, s, n) PROVE PortInv'
    BY <1>1, PlaceBegins, BeginsWell DEF Placers
  <1>2. ASSUME NEW a \in Admins, NEW s \in PortServers,
               \/ \E first \in Ports, more \in SUBSET Ports : AdminCreate(a, s, first, more)
               \/ \E P \in SUBSET Ports \ {{}} : AddAllocations(a, s, P)
               \/ \E p \in Ports : RemoveAllocation(a, s, p) \/ SetPrimaryAllocation(a, s, p)
               \/ \E c \in Configs : UpdateConfig(a, s, c)
               \/ \E n \in Limits : UpdateBuild(a, s, n)
               \/ DeletePlaced(a, s)
        PROVE PortInv'
    <2>1. Begins(a, s) BY <1>2, AdminBegins
    <2> QED BY <2>1, BeginsWell DEF Placers
  <1>3. ASSUME NEW a \in Placers, InsertServer(a) \/ CreateAtWings(a) \/ DeleteServerRow(a) PROVE PortInv'
    BY <1>3, InsertKeeps, AtWingsKeeps, DeleteRowKeeps
  <1>4. ASSUME NEW a \in Placers, CommitChange(a) \/ SyncServer(a) \/ Restore(a) PROVE PortInv'
    BY <1>4, CommitKeeps, SyncKeeps, RestoreKeeps
  <1>5. ASSUME NEW P \in SUBSET Ports, BulkCreate(P) \/ DeleteMany(P) PROVE PortInv'
    BY <1>5, BulkKeeps, DeleteManyKeeps
  <1>6. CASE PortRestart BY <1>6, RestartPortsKeeps
  <1>7. CASE UNCHANGED portVars
    <2>1. UNCHANGED <<port, primary, config, limit, wings, job, adrift, begun>> BY <1>7 DEF portVars
    <2>2. PortsTyped' BY <2>1 DEF PortInv, PortsTyped
    <2>3. \A b \in Placers : JobInOrder(b)' BY <2>1 DEF PortInv, JobInOrder
    <2> QED BY <2>1, <2>2, <2>3, KeysStay DEF PortInv
  <1> QED BY <1>1, <1>2, <1>3, <1>4, <1>5, <1>6, <1>7 DEF PortNext

-------------------------------------------------------------------------------
(* Ports: what orders and a lone administrator keep *)

LEMMA IdleFine ==
    ASSUME NEW b \in Placers, job'[b] = Idle
    PROVE  Steady(b)'
  BY IdleJob DEF Steady, PortsKept, MadePlaced, AsRead, TakesBack, CreateKinds, ChangeKinds

LEMMA SteadyStays ==
    ASSUME NEW b \in Placers, Steady(b), job'[b] = job[b],
           UNCHANGED <<port, primary, config, wings, adrift>>
    PROVE  Steady(b)'
  <1>1. Written(b)' = Written(b) /\ NewOwner(b)' = NewOwner(b) /\ Before(b)' = Before(b) /\ Mine(b)' = Mine(b)
    BY DEF Written, NewOwner, Before, Mine
  <1> QED BY <1>1 DEF Steady, PortsKept, MadePlaced, AsRead, TakesBack, Placed, Rows

\* Only an administrator has a request that is not an order, and then nobody else has one.
LEMMA WorksAlone ==
    ASSUME PortInv, AdminAlone, NEW a \in Placers, job[a].pc # "idle", job[a].kind # "place"
    PROVE  a \in Admins /\ \A b \in Placers \ {a} : job[b] = Idle
  <1>1. a \in Admins BY DEF PortInv, JobInOrder, Placers
  <1>2. job[a] # Idle BY IdleJob
  <1> QED BY <1>1, <1>2 DEF AdminAlone

\* Beside an order there are only orders.
LEMMA OrdersBeside ==
    ASSUME PortInv, AdminAlone, NEW a \in Orders, job[a].pc # "idle", NEW b \in Placers
    PROVE  /\ job[b].kind \in {"place", "none"} /\ job[b].kind \notin ChangeKinds
           /\ job[b].pc # "idle" => b \in Orders
  <1>1. job[a] # Idle /\ a \in Placers BY IdleJob DEF Placers
  <1>2. CASE b \in Orders BY <1>2 DEF PortInv, JobInOrder, ChangeKinds
  <1>3. CASE b \in Admins /\ b \notin Orders
    <2>1. job[b] = Idle BY <1>1, <1>3 DEF AdminAlone
    <2> QED BY <2>1, IdleJob DEF ChangeKinds
  <1> QED BY <1>2, <1>3 DEF Placers

LEMMA OneJobStays ==
    ASSUME OneJobEach, \A b \in Placers : job'[b].s \in {job[b].s, NoOne}
    PROVE  OneJobEach'
  BY PortNumbers DEF OneJobEach

LEMMA ViewStays ==
    ASSUME NEW t, primary'[t] = primary[t], config'[t] = config[t],
           \A p \in Ports : (port'[p].there /\ port'[p].owner = t) <=> (port[p].there /\ port[p].owner = t)
    PROVE  View(t)' = View(t)
  <1>1. PortsOf(t)' = PortsOf(t) BY DEF PortsOf
  <1> QED BY <1>1 DEF View

\* A server at rest stays so while its view does.
LEMMA RestStays ==
    ASSUME AtRest, NEW t \in PortServers, Placed(t), t \notin adrift, View(t)' = View(t), wings'[t] = wings[t],
           \A b \in Placers : job[b].s = t => job'[b] = job[b]
    PROVE  \/ (wings[t] = View(t))'
           \/ \E b \in Placers : job'[b].s = t /\ job'[b].pc \in {"wings", "restore", "revert"}
  <1>1. CASE wings[t] = View(t) BY <1>1
  <1>2. CASE \E b \in Placers : job[b].s = t /\ job[b].pc \in {"wings", "restore", "revert"} BY <1>2
  <1> QED BY <1>1, <1>2 DEF AtRest

LEMMA BeginsAlone ==
    ASSUME PortInv, AloneInv, NEW a \in Placers, NEW s \in PortServers, Begins(a, s), AdminAlone'
    PROVE  AloneInv'
  <1>1. PICK kind \in JobKinds, first \in {0} \cup Ports, more \in SUBSET Ports,
             to \in Configs \cup Limits \cup {NoLimit} :
               /\ Fitting(a, kind, s, first, more, to) /\ job[a] = Idle
               /\ UNCHANGED <<port, primary, config, limit, wings, adrift>>
               /\ \A b \in Placers \ {a} : job'[b] = job[b]
               /\ job'[a].kind = kind /\ job'[a].s = s /\ job'[a].pc = "write" /\ job'[a].first = first
               /\ job'[a].more = more /\ job'[a].to = to /\ job'[a].was.primary = primary[s]
               /\ job'[a].was.config = config[s]
               /\ \A p \in Ports : job'[a].was.owners[p] = port[p].owner
    BY BeginsSo DEF PortInv
  <1>2. OneJobEach'
    <2>1. CASE a \in Orders
      <3>1. kind = "place" /\ Resting(s) BY <1>1, <2>1 DEF Fitting, CreateKinds
      <3>2. \A b \in Placers \ {a} : job'[b].s # s BY <1>1, <3>1 DEF Resting
      <3> QED BY <1>1, <3>2 DEF AloneInv, OneJobEach
    <2>2. CASE a \in Admins
      <3>1. job'[a] # Idle BY <1>1, IdleJob
      <3>2. \A b \in Placers \ {a} : job'[b] = Idle BY <2>2, <3>1 DEF AdminAlone
      <3> QED BY <3>2, IdleJob, PortNumbers DEF OneJobEach
    <2> QED BY <2>1, <2>2 DEF Placers
  <1>3. PrimaryOwned' BY <1>1 DEF AloneInv, PrimaryOwned, Placed
  <1>4. AtRest'
    <2> SUFFICES ASSUME NEW t \in PortServers, Placed(t)', t \notin adrift'
                 PROVE  \/ (wings[t] = View(t))'
                        \/ \E b \in Placers : job'[b].s = t /\ job'[b].pc \in {"wings", "restore", "revert"}
      BY DEF AtRest
    <2>1. View(t)' = View(t) BY <1>1, ViewStays
    <2>2. \A b \in Placers : job[b].s = t => job'[b] = job[b] BY <1>1, IdleJob, PortNumbers
    <2> QED BY <1>1, <2>1, <2>2, RestStays DEF AloneInv, Placed
  <1>5. Steady(a)'
    <2>1. PortsKept(a)' BY <1>1 DEF PortsKept, Fitting, Mine, Placed
    <2>2. MadePlaced(a)' BY <1>1 DEF MadePlaced
    <2>3. kind \in ChangeKinds => kind \notin CreateKinds BY DEF ChangeKinds, CreateKinds
    <2>4. AsRead(a)' BY <1>1, <2>3 DEF AsRead, Fitting, Placed
    <2>5. TakesBack(a)' BY <1>1 DEF TakesBack
    <2> QED BY <2>1, <2>2, <2>4, <2>5 DEF Steady
  <1>6. \A b \in Placers : Steady(b)' BY <1>1, <1>5, SteadyStays DEF AloneInv
  <1> QED BY <1>2, <1>3, <1>4, <1>6 DEF AloneInv

\* A request that ends and changes nothing else.
LEMMA EndsQuietly ==
    ASSUME PortInv, AloneInv, NEW a \in Placers, JobEnds(a), job[a].pc = "write", AdminAlone',
           UNCHANGED <<port, primary, config, wings, adrift>>
    PROVE  AloneInv'
  <1>1. job'[a] = Idle /\ \A b \in Placers \ {a} : job'[b] = job[b] BY DEF JobEnds
  <1>2. OneJobEach' BY <1>1, IdleJob, OneJobStays DEF AloneInv
  <1>3. PrimaryOwned' BY DEF AloneInv, PrimaryOwned, Placed
  <1>4. AtRest'
    <2> SUFFICES ASSUME NEW t \in PortServers, Placed(t)', t \notin adrift'
                 PROVE  \/ (wings[t] = View(t))'
                        \/ \E b \in Placers : job'[b].s = t /\ job'[b].pc \in {"wings", "restore", "revert"}
      BY DEF AtRest
    <2>1. View(t)' = View(t) BY ViewStays
    <2>2. \/ wings[t] = View(t)
          \/ \E b \in Placers : job[b].s = t /\ job[b].pc \in {"wings", "restore", "revert"}
      BY DEF AloneInv, AtRest, Placed
    <2> QED BY <1>1, <2>1, <2>2
  <1>5. \A b \in Placers : Steady(b)' BY <1>1, IdleFine, SteadyStays DEF AloneInv
  <1> QED BY <1>2, <1>3, <1>4, <1>5 DEF AloneInv

LEMMA InsertAlone ==
    ASSUME PortInv, AloneInv, NEW a \in Placers, InsertServer(a), AdminAlone'
    PROVE  AloneInv'
  <1> DEFINE s == job[a].s
             mine == {job[a].first} \cup job[a].more
  <1>0. job[a].kind \in CreateKinds /\ job[a].pc = "write" BY DEF InsertServer, CreateKinds
  <1>1. s \in PortServers /\ job[a].first \in Ports /\ job[a].more \subseteq Ports
    BY <1>0, Working DEF JobInOrder, Job
  <1>2. PortsTyped BY DEF PortInv
  <1>3. CASE Ends(a) /\ UNCHANGED <<port, primary, limit>>
    <2>1. JobEnds(a) BY <1>2, <1>3, JobDone
    <2> QED BY <1>0, <1>3, <2>1, EndsQuietly DEF InsertServer
  <1>4. CASE /\ ~Placed(s) /\ ~\E t \in PortServers : primary[t] = job[a].first
             /\ primary' = [primary EXCEPT ![s] = job[a].first]
             /\ port' = [p \in Ports |-> IF p \in mine THEN [port[p] EXCEPT !.owner = s] ELSE port[p]]
             /\ Step(a, "wings")
    <2>1. JobMoves(a, "wings") BY <1>2, <1>4, JobGoes
    <2>2. \A p \in Ports : /\ port'[p].there <=> port[p].there
                           /\ port'[p].owner = IF p \in mine THEN s ELSE port[p].owner
      <3>1. Reowned(mine, s) BY <1>4 DEF Reowned
      <3> HIDE DEF mine
      <3> QED BY <1>1, <1>2, <3>1, PortsReowned
    <2>3. primary'[s] = job[a].first /\ \A t \in PortServers \ {s} : primary'[t] = primary[t]
      BY <1>1, <1>2, <1>4 DEF PortsTyped
    <2>4. \A p \in mine : p \in Ports /\ port[p].owner = NoOne
      BY <1>0, <1>1 DEF AloneInv, Steady, PortsKept, Mine
    <2>5. primary'[s] # 0 /\ ~Placed(s) /\ \A t \in PortServers \ {s} : Placed(t)' <=> Placed(t)
      <3>1. job[a].first # 0 BY <1>1, PortNumbers
      <3>4. ~Placed(s) BY <1>4
      <3>2. primary'[s] # 0 BY <2>3, <3>1
      <3>3. \A t \in PortServers \ {s} : Placed(t)' <=> Placed(t) BY <2>3 DEF Placed
      <3> QED BY <3>2, <3>3, <3>4
    <2>6. OneJobEach' BY <2>1, OneJobStays DEF JobMoves, AloneInv
    <2>7. PrimaryOwned'
      <3> SUFFICES ASSUME NEW t \in PortServers, Placed(t)' PROVE port'[primary'[t]].owner = t
        BY DEF PrimaryOwned
      <3>1. CASE t = s BY <1>1, <2>2, <2>3, <3>1
      <3>2. CASE t # s
        <4>1. primary[t] \in Ports /\ port[primary[t]].owner = t
          BY <1>2, <2>5, <3>2 DEF AloneInv, PrimaryOwned, Placed, PortsTyped
        <4>2. primary[t] \notin mine BY <2>4, <4>1, PortNumbers
        <4> QED BY <2>2, <2>3, <3>2, <4>1, <4>2
      <3> QED BY <3>1, <3>2
    <2>8. AtRest'
      <3> SUFFICES ASSUME NEW t \in PortServers, Placed(t)', t \notin adrift'
                   PROVE  \/ (wings[t] = View(t))'
                          \/ \E b \in Placers : job'[b].s = t /\ job'[b].pc \in {"wings", "restore", "revert"}
        BY DEF AtRest
      <3>1. CASE t = s BY <2>1, <3>1 DEF JobMoves
      <3>2. CASE t # s
        <4>1. View(t)' = View(t)
          <5>1. config' = config BY DEF InsertServer
          <5>2. \A p \in Ports : port'[p].owner = t <=> port[p].owner = t
            BY <2>2, <2>4, <3>2, PortNumbers
          <5> QED BY <2>2, <2>3, <3>2, <5>1, <5>2, ViewStays
        <4>2. \A b \in Placers : job[b].s = t => job'[b] = job[b] BY <2>1, <3>2 DEF JobMoves
        <4>3. UNCHANGED <<wings, adrift>> /\ Placed(t) BY <2>5, <3>2 DEF InsertServer
        <4> QED BY <4>1, <4>2, <4>3, RestStays DEF AloneInv
      <3> QED BY <3>1, <3>2
    <2>9. Steady(a)'
      <3>1. job'[a].pc = "wings" /\ job'[a].kind = job[a].kind /\ job'[a].s = s BY <2>1 DEF JobMoves
      <3>2. job[a].kind \notin ChangeKinds BY <1>0 DEF CreateKinds, ChangeKinds
      <3> QED BY <2>5, <3>1, <3>2 DEF Steady, PortsKept, MadePlaced, AsRead, TakesBack, Placed
    <2>10. ASSUME NEW b \in Placers \ {a} PROVE Steady(b)'
      <3>1. job'[b] = job[b] BY <2>1 DEF JobMoves
      <3>2. CASE job[b] = Idle BY <3>1, <3>2, IdleFine
      <3>3. CASE a \in Orders /\ job[b].pc # "idle"
        <4>1. b \in Orders /\ job[b].kind \notin ChangeKinds BY <1>0, <3>3, OrdersBeside DEF AloneInv
        <4>2. job[b].s \in PortServers /\ job[b].s # s BY <1>1, <3>3, Working DEF AloneInv, OneJobEach
        <4>3. job[b].pc = "write" => Mine(b) \cap mine = {}
          BY <4>1 DEF InsertServer, Locked, LockedBy, Mine
        <4>4. PortsKept(b)'
          <5>1. Mine(b)' = Mine(b) BY <3>1 DEF Mine
          <5>2. job[b].kind \in CreateKinds => Mine(b) \subseteq Ports
            BY <1>2, <3>3 DEF PortInv, JobInOrder, PortsTyped, Job, Mine
          <5> QED BY <2>2, <2>5, <3>1, <4>2, <4>3, <5>1, <5>2 DEF AloneInv, Steady, PortsKept
        <4>5. MadePlaced(b)' BY <2>5, <3>1, <4>2 DEF AloneInv, Steady, MadePlaced
        <4> QED BY <3>1, <4>1, <4>4, <4>5 DEF Steady, AsRead, TakesBack
      <3>4. CASE a \notin Orders
        <4>1. job[b] = Idle BY <1>0, <3>4, WorksAlone DEF AloneInv, PortInv, JobInOrder, Placers
        <4> QED BY <3>2, <4>1
      <3>5. job[b].pc = "idle" => job[b] = Idle BY DEF PortInv, JobInOrder
      <3> QED BY <3>2, <3>3, <3>4, <3>5
    <2> QED BY <2>6, <2>7, <2>8, <2>9, <2>10 DEF AloneInv
  <1> QED BY <1>3, <1>4 DEF InsertServer

LEMMA AtWingsAlone ==
    ASSUME PortInv, AloneInv, NEW a \in Placers, CreateAtWings(a), AdminAlone'
    PROVE  AloneInv'
  <1> DEFINE s == job[a].s
  <1>0. job[a].kind \in CreateKinds /\ job[a].pc = "wings" BY DEF CreateAtWings, CreateKinds
  <1>1. s \in PortServers /\ Placed(s) BY <1>0, Working DEF AloneInv, Steady, MadePlaced
  <1>2. PortsTyped /\ UNCHANGED <<port, primary, config, limit>> BY DEF PortInv, CreateAtWings
  <1>3. JobEnds(a) \/ JobMoves(a, "revert")
    BY <1>2, JobDone, JobGoes DEF CreateAtWings
  <1>4. \A b \in Placers \ {a} : job'[b] = job[b] BY <1>3 DEF JobEnds, JobMoves
  <1>5. /\ \A t \in PortServers \ {s} : wings'[t] = wings[t]
        /\ adrift' \in {adrift, adrift \cup {s}}
        /\ wings'[s] = View(s) \/ s \in adrift'
    <2>1. PICK v : v = View(s) OBVIOUS
    <2>2. \/ wings' = [wings EXCEPT ![s] = v] /\ adrift' = adrift
          \/ wings' \in {wings, [wings EXCEPT ![s] = v]} /\ adrift' = adrift \cup {s}
      BY <1>1, <2>1 DEF CreateAtWings
    <2> QED BY <1>1, <1>2, <2>1, <2>2 DEF PortsTyped
  <1>6. OneJobEach' BY <1>3, IdleJob, OneJobStays DEF JobEnds, JobMoves, AloneInv
  <1>7. PrimaryOwned' BY <1>2 DEF AloneInv, PrimaryOwned, Placed
  <1>8. AtRest'
    <2> SUFFICES ASSUME NEW t \in PortServers, Placed(t)', t \notin adrift'
                 PROVE  \/ (wings[t] = View(t))'
                        \/ \E b \in Placers : job'[b].s = t /\ job'[b].pc \in {"wings", "restore", "revert"}
      BY DEF AtRest
    <2>1. View(t)' = View(t) BY <1>2, ViewStays
    <2>2. CASE t = s BY <1>5, <2>1, <2>2
    <2>3. CASE t # s
      <3>1. \A b \in Placers : job[b].s = t => job'[b] = job[b] BY <1>4, <2>3
      <3> QED BY <1>2, <1>5, <2>1, <2>3, <3>1, RestStays DEF AloneInv, Placed
    <2> QED BY <2>2, <2>3
  <1>9. Steady(a)'
    <2>1. CASE JobEnds(a) BY <2>1, IdleFine DEF JobEnds
    <2>2. CASE JobMoves(a, "revert")
      <3>1. job'[a].pc = "revert" BY <2>2 DEF JobMoves
      <3> QED BY <3>1 DEF Steady, PortsKept, MadePlaced, AsRead, TakesBack
    <2> QED BY <1>3, <2>1, <2>2
  <1>10. ASSUME NEW b \in Placers \ {a} PROVE Steady(b)'
    <2>1. job'[b] = job[b] BY <1>4
    <2>2. job[b].kind \notin ChangeKinds
      <3>1. CASE a \in Orders BY <1>0, <3>1, OrdersBeside DEF AloneInv
      <3>2. CASE a \notin Orders
        <4>1. job[b] = Idle BY <1>0, <3>2, WorksAlone DEF AloneInv, PortInv, JobInOrder, Placers
        <4> QED BY <4>1, IdleJob DEF ChangeKinds
      <3> QED BY <3>1, <3>2
    <2>3. Mine(b)' = Mine(b) BY <2>1 DEF Mine
    <2> QED BY <1>2, <2>1, <2>2, <2>3
            DEF AloneInv, Steady, PortsKept, MadePlaced, AsRead, TakesBack, Placed
  <1> QED BY <1>6, <1>7, <1>8, <1>9, <1>10 DEF AloneInv

\* A lone request that ends leaves nobody at work.
LEMMA AloneEnds ==
    ASSUME NEW a \in Placers, JobEnds(a), \A b \in Placers \ {a} : job[b] = Idle
    PROVE  /\ \A b \in Placers : job'[b] = Idle
           /\ OneJobEach' /\ AdminAlone' /\ \A b \in Placers : Steady(b)'
  <1>1. \A b \in Placers : job'[b] = Idle BY DEF JobEnds
  <1> QED BY <1>1, IdleFine, IdleJob, PortNumbers DEF OneJobEach, AdminAlone

LEMMA DeleteRowAlone ==
    ASSUME PortInv, AloneInv, NEW a \in Placers, DeleteServerRow(a)
    PROVE  AloneInv'
  <1> DEFINE s == job[a].s
             P == {p \in Ports : port[p].owner = s}
  <1>1. s \in PortServers /\ job[a].pc # "idle" BY Working DEF DeleteServerRow
  <1>2. PortsTyped /\ JobEnds(a) BY JobDone DEF PortInv, DeleteServerRow
  <1>3. job[a].kind # "place" BY DEF DeleteServerRow, PortInv, JobInOrder
  <1>4. \A b \in Placers \ {a} : job[b] = Idle BY <1>1, <1>3, WorksAlone DEF AloneInv
  <1>5. /\ \A b \in Placers : job'[b] = Idle
        /\ OneJobEach' /\ AdminAlone' /\ \A b \in Placers : Steady(b)'
    BY <1>2, <1>4, AloneEnds
  <1>6. \A p \in Ports : /\ port'[p].there <=> port[p].there
                         /\ port'[p].owner = IF port[p].owner = s THEN NoOne ELSE port[p].owner
    BY <1>1, <1>2 DEF DeleteServerRow, Released, PortsTyped, PortRow
  <1>7. /\ primary'[s] = 0
        /\ \A t \in PortServers \ {s} : /\ primary'[t] = primary[t] /\ config'[t] = config[t]
                                        /\ wings'[t] = wings[t] /\ (t \in adrift' <=> t \in adrift)
    BY <1>1, <1>2 DEF PortsTyped, DeleteServerRow, Released
  <1>8. PrimaryOwned'
    <2> SUFFICES ASSUME NEW t \in PortServers, Placed(t)' PROVE port'[primary'[t]].owner = t
      BY DEF PrimaryOwned
    <2>1. t # s BY <1>7 DEF Placed
    <2>2. primary[t] \in Ports /\ port[primary[t]].owner = t
      BY <1>2, <1>7, <2>1 DEF AloneInv, PrimaryOwned, Placed, PortsTyped
    <2> QED BY <1>6, <1>7, <2>1, <2>2
  <1>9. AtRest'
    <2> SUFFICES ASSUME NEW t \in PortServers, Placed(t)', t \notin adrift' PROVE (wings[t] = View(t))'
      BY DEF AtRest
    <2>1. t # s BY <1>7 DEF Placed
    <2>2. View(t)' = View(t) BY <1>6, <1>7, <2>1, PortNumbers, ViewStays
    <2>3. \A b \in Placers : job[b].s = t => job'[b] = job[b] BY <1>4, <1>5, <2>1, IdleJob
    <2>4. wings[t] = View(t) BY <1>4, <1>7, <2>1, IdleJob, PortNumbers DEF AloneInv, AtRest, Placed
    <2> QED BY <1>7, <2>1, <2>2, <2>4
  <1> QED BY <1>5, <1>8, <1>9 DEF AloneInv

LEMMA CommitAlone ==
    ASSUME PortInv, AloneInv, NEW a \in Placers, CommitChange(a), AdminAlone'
    PROVE  AloneInv'
  <1> DEFINE s == job[a].s
             was == job[a].was
             P == Written(a)
  <1>0. job[a].kind \in ChangeKinds /\ job[a].pc = "write" BY DEF CommitChange, ChangeKinds
  <1>1. /\ s \in PortServers /\ job[a].kind \notin CreateKinds /\ job[a].more \subseteq Ports
        /\ NewOwner(a) \in {NoOne, s} /\ P \subseteq Ports
        /\ \A p \in job[a].more : was.owners[p] \in {NoOne, s}
    BY <1>0, ChangeAtHand
  <1>2. PortsTyped BY DEF PortInv
  <1>3. CASE Ends(a) /\ UNCHANGED <<port, primary, config, limit>>
    <2>1. JobEnds(a) BY <1>2, <1>3, JobDone
    <2> QED BY <1>0, <1>3, <2>1, EndsQuietly DEF CommitChange
  <1>4. CASE /\ ~(~Placed(s) \/ ~Rows(P) \/ (job[a].kind = "primary" /\ Refused(s, job[a].first)))
             /\ Reowned(P, NewOwner(a))
             /\ primary' = IF job[a].kind = "primary" THEN [primary EXCEPT ![s] = job[a].first] ELSE primary
             /\ config' = IF job[a].kind = "config" THEN [config EXCEPT ![s] = job[a].to] ELSE config
             /\ Step(a, "wings")
    <2>1. JobMoves(a, "wings") BY <1>2, <1>4, JobGoes
    <2>2. \A p \in Ports : /\ port'[p].there <=> port[p].there
                           /\ port'[p].owner = IF p \in P THEN NewOwner(a) ELSE port[p].owner
      <3> HIDE DEF P, s
      <3> QED BY <1>1, <1>2, <1>4, PortsReowned
    <2>3. /\ \A t \in PortServers \ {s} : primary'[t] = primary[t] /\ config'[t] = config[t]
          /\ primary'[s] = IF job[a].kind = "primary" THEN job[a].first ELSE primary[s]
          /\ job[a].kind # "config" => config'[s] = config[s]
      BY <1>1, <1>2, <1>4 DEF PortsTyped
    <2>4. UNCHANGED <<wings, adrift>> BY DEF CommitChange
    <2>5. /\ Placed(s) /\ was.primary = primary[s] /\ was.config = config[s]
          /\ \A p \in Ports : was.owners[p] = port[p].owner
          /\ job[a].kind = "remove" => primary[s] \notin job[a].more
      BY <1>0 DEF AloneInv, Steady, AsRead
    <2>6. \A p \in P : p \in job[a].more /\ port[p].owner \in {NoOne, s} /\ port[p].owner # NewOwner(a)
      BY <1>1, <2>5 DEF Written
    <2>7. \A b \in Placers \ {a} : job[b] = Idle /\ job'[b] = Idle
      <3>1. job[a].kind # "place" BY <1>0 DEF ChangeKinds
      <3> QED BY <1>0, <2>1, <3>1, WorksAlone DEF AloneInv, JobMoves
    <2>8. primary[s] \in Ports /\ port[primary[s]].owner = s /\ port[primary[s]].there
      BY <1>1, <1>2, <2>5 DEF AloneInv, PrimaryOwned, PortInv, PrimaryThere, Placed, PortsTyped
    <2>9. OneJobEach' BY <2>1, OneJobStays DEF JobMoves, AloneInv
    <2>10. PrimaryOwned'
      <3> SUFFICES ASSUME NEW t \in PortServers, Placed(t)' PROVE port'[primary'[t]].owner = t
        BY DEF PrimaryOwned
      <3>1. CASE t = s /\ job[a].kind = "primary"
        <4>1. job[a].first \in Ports /\ job[a].more = {job[a].first} BY <3>1 DEF PortInv, JobInOrder
        <4>2. NewOwner(a) = s BY <3>1 DEF NewOwner
        <4>3. job[a].first \in P \/ port[job[a].first].owner = s BY <2>5, <4>1, <4>2 DEF Written
        <4> QED BY <2>2, <2>3, <3>1, <4>1, <4>2, <4>3
      <3>2. CASE t = s /\ job[a].kind # "primary"
        <4>1. primary'[t] = primary[s] BY <2>3, <3>2
        <4>2. primary[s] \in P => job[a].kind # "remove" BY <2>5, <2>6
        <4>3. primary[s] \in P => NewOwner(a) = s BY <4>2 DEF NewOwner
        <4> QED BY <2>2, <2>8, <3>2, <4>1, <4>3
      <3>3. CASE t # s
        <4>1. primary[t] \in Ports /\ port[primary[t]].owner = t
          BY <1>2, <2>3, <3>3 DEF AloneInv, PrimaryOwned, Placed, PortsTyped
        <4>2. primary[t] \notin P BY <2>6, <3>3, <4>1, PortNumbers
        <4> QED BY <2>2, <2>3, <3>3, <4>1, <4>2
      <3> QED BY <3>1, <3>2, <3>3
    <2>11. AtRest'
      <3> SUFFICES ASSUME NEW t \in PortServers, Placed(t)', t \notin adrift'
                   PROVE  \/ (wings[t] = View(t))'
                          \/ \E b \in Placers : job'[b].s = t /\ job'[b].pc \in {"wings", "restore", "revert"}
        BY DEF AtRest
      <3>1. CASE t = s BY <2>1, <3>1 DEF JobMoves
      <3>2. CASE t # s
        <4>1. \A p \in Ports : port'[p].owner = t <=> port[p].owner = t
          BY <1>1, <2>2, <2>6, <3>2, PortNumbers
        <4>2. View(t)' = View(t) BY <2>2, <2>3, <3>2, <4>1, ViewStays
        <4>3. \A b \in Placers : job[b].s = t => job'[b] = job[b] BY <2>7, <3>2
        <4>4. Placed(t) BY <2>3, <3>2 DEF Placed
        <4> QED BY <2>4, <4>2, <4>3, <4>4, RestStays DEF AloneInv
      <3> QED BY <3>1, <3>2
    <2>12. TakesBack(a)'
      <3>1. /\ job'[a].pc = "wings" /\ job'[a].kind = job[a].kind /\ job'[a].s = s
            /\ job'[a].more = job[a].more /\ job'[a].was = was
        BY <2>1 DEF JobMoves
      <3>2. NewOwner(a)' = NewOwner(a) /\ Written(a)' = P BY <3>1 DEF NewOwner, Written
      <3>3. primary'[s] # 0
        <4>1. job[a].kind = "primary" => job[a].first # 0 BY PortNumbers DEF PortInv, JobInOrder
        <4> QED BY <2>3, <2>5, <4>1 DEF Placed
      <3>4. \A p \in P : port'[p].there BY <1>1, <1>4, <2>2 DEF Rows
      <3>5. s \notin adrift => wings[s] = View(s)
        <4>1. \A b \in Placers : job[b].s = s => job[b].pc \notin {"wings", "restore", "revert"}
          BY <1>0, <2>7, IdleJob
        <4> QED BY <1>1, <2>5, <4>1 DEF AloneInv, AtRest
      <3>6. {p \in Ports : port[p].there /\ was.owners[p] = s} = PortsOf(s) BY <2>5 DEF PortsOf
      <3>7. View(s) = [ports |-> {p \in Ports : port[p].there /\ was.owners[p] = s},
                       primary |-> was.primary, config |-> was.config]
        BY <2>5, <3>6 DEF View
      <3>8. {p \in Ports : port'[p].there /\ was.owners[p] = s} = {p \in Ports : port[p].there /\ was.owners[p] = s}
        BY <2>2
      <3>9. Before(a)' = View(s) BY <3>1, <3>7, <3>8 DEF Before
      <3>10. port'[was.primary].there /\ was.owners[was.primary] = s BY <2>2, <2>5, <2>8
      <3>11. \A p \in Ports \ P : port'[p].owner = was.owners[p] BY <2>2, <2>5
      <3>12. \A p \in P : port'[p].owner = NewOwner(a) BY <1>1, <2>2
      <3>13. job[a].kind # "primary" => primary'[s] = was.primary BY <2>3, <2>5
      <3>14. job[a].kind # "config" => config'[s] = was.config BY <2>3, <2>5
      <3> HIDE DEF P, s, was
      <3> QED BY <2>4, <3>1, <3>2, <3>3, <3>4, <3>5, <3>9, <3>10, <3>11, <3>12, <3>13, <3>14
              DEF TakesBack, Rows, Placed
    <2>13. Steady(a)'
      <3>1. job'[a].pc = "wings" /\ job'[a].kind \notin CreateKinds BY <1>1, <2>1 DEF JobMoves
      <3> QED BY <2>12, <3>1 DEF Steady, PortsKept, MadePlaced, AsRead
    <2>14. \A b \in Placers : Steady(b)' BY <2>7, <2>13, IdleFine
    <2> QED BY <2>9, <2>10, <2>11, <2>14 DEF AloneInv
  <1> QED BY <1>3, <1>4 DEF CommitChange

LEMMA SyncAlone ==
    ASSUME PortInv, AloneInv, NEW a \in Placers, SyncServer(a), AdminAlone'
    PROVE  AloneInv'
  <1> DEFINE s == job[a].s
  <1>0. job[a].kind \in ChangeKinds /\ job[a].pc = "wings" BY DEF SyncServer, ChangeKinds
  <1>1. s \in PortServers /\ job[a].kind \notin CreateKinds BY <1>0, ChangeAtHand
  <1>2. PortsTyped /\ UNCHANGED <<port, primary, config, limit>> BY DEF PortInv, SyncServer
  <1>3. JobEnds(a) \/ JobMoves(a, "restore") BY <1>2, JobDone, JobGoes DEF SyncServer
  <1>4. \A b \in Placers \ {a} : job[b] = Idle /\ job'[b] = Idle
    <2>1. job[a].kind # "place" BY <1>0 DEF ChangeKinds
    <2> QED BY <1>0, <1>3, <2>1, WorksAlone DEF AloneInv, JobMoves, JobEnds
  <1>5. /\ \A t \in PortServers \ {s} : wings'[t] = wings[t] /\ (t \in adrift' <=> t \in adrift)
        /\ \/ wings'[s] = View(s) /\ JobEnds(a)
           \/ s \in adrift' /\ JobMoves(a, "restore")
           \/ UNCHANGED <<wings, adrift>> /\ JobMoves(a, "restore")
    <2>1. PICK v : v = View(s) OBVIOUS
    <2>2. \/ wings' = [wings EXCEPT ![s] = v] /\ adrift' = adrift \ {s} /\ Ends(a)
          \/ wings' = [wings EXCEPT ![s] = v] /\ adrift' = adrift \cup {s} /\ Step(a, "restore")
          \/ UNCHANGED <<wings, adrift>> /\ Step(a, "restore")
      BY <2>1 DEF SyncServer
    <2>3. Ends(a) => JobEnds(a) BY <1>2, JobDone
    <2>4. Step(a, "restore") => JobMoves(a, "restore") BY <1>2, JobGoes
    <2> QED BY <1>1, <1>2, <2>1, <2>2, <2>3, <2>4 DEF PortsTyped
  <1>6. OneJobEach' BY <1>3, IdleJob, OneJobStays DEF JobEnds, JobMoves, AloneInv
  <1>7. PrimaryOwned' BY <1>2 DEF AloneInv, PrimaryOwned, Placed
  <1>8. AtRest'
    <2> SUFFICES ASSUME NEW t \in PortServers, Placed(t)', t \notin adrift'
                 PROVE  \/ (wings[t] = View(t))'
                        \/ \E b \in Placers : job'[b].s = t /\ job'[b].pc \in {"wings", "restore", "revert"}
      BY DEF AtRest
    <2>1. View(t)' = View(t) BY <1>2, ViewStays
    <2>2. CASE t = s BY <1>5, <2>1, <2>2 DEF JobMoves
    <2>3. CASE t # s
      <3>1. \A b \in Placers : job[b].s = t => job'[b] = job[b] BY <1>4, <2>3
      <3> QED BY <1>2, <1>5, <2>1, <2>3, <3>1, RestStays DEF AloneInv, Placed
    <2> QED BY <2>2, <2>3
  <1>9. Steady(a)'
    <2>1. CASE JobEnds(a) BY <2>1, IdleFine DEF JobEnds
    <2>2. CASE JobMoves(a, "restore") /\ (s \in adrift' \/ UNCHANGED <<wings, adrift>>)
      <3>1. /\ job'[a].pc = "restore" /\ job'[a].kind = job[a].kind /\ job'[a].s = s
            /\ job'[a].more = job[a].more /\ job'[a].was = job[a].was
        BY <2>2 DEF JobMoves
      <3>2. NewOwner(a)' = NewOwner(a) /\ Written(a)' = Written(a) /\ Before(a)' = Before(a)
        BY <1>2, <3>1 DEF NewOwner, Written, Before
      <3>3. TakesBack(a) BY DEF AloneInv, Steady
      <3>4. TakesBack(a)' BY <1>0, <1>2, <2>2, <3>1, <3>2, <3>3 DEF TakesBack, Placed, Rows
      <3> QED BY <1>1, <3>1, <3>4 DEF Steady, PortsKept, MadePlaced, AsRead
    <2> QED BY <1>5, <2>1, <2>2
  <1>10. \A b \in Placers : Steady(b)' BY <1>4, <1>9, IdleFine
  <1> QED BY <1>6, <1>7, <1>8, <1>10 DEF AloneInv

LEMMA RestoreAlone ==
    ASSUME PortInv, AloneInv, NEW a \in Placers, Restore(a)
    PROVE  AloneInv'
  <1> DEFINE s == job[a].s
             was == job[a].was
             P == Written(a)
             back == {p \in P : port[p].there}
  <1>0. job[a].kind \in ChangeKinds /\ job[a].pc = "restore"
    <2>1. JobInOrder(a) /\ job[a].kind \in JobKinds /\ job[a].pc = "restore"
      BY DEF PortInv, Restore, PortsTyped, Job
    <2> QED BY <2>1 DEF JobInOrder, ChangeKinds, CreateKinds, JobKinds
  <1>1. /\ s \in PortServers /\ NewOwner(a) \in {NoOne, s} /\ P \subseteq Ports
        /\ \A p \in P : was.owners[p] \in {NoOne, s}
        /\ \A p \in Ports : was.owners[p] \in PortServers \cup {NoOne}
    BY <1>0, ChangeAtHand DEF Written
  <1>2. PortsTyped /\ JobEnds(a) BY JobDone DEF PortInv, Restore
  <1>3. \A b \in Placers \ {a} : job[b] = Idle
    <2>1. job[a].kind # "place" BY <1>0 DEF ChangeKinds
    <2> QED BY <1>0, <2>1, WorksAlone DEF AloneInv
  <1>4. /\ \A b \in Placers : job'[b] = Idle
        /\ OneJobEach' /\ AdminAlone' /\ \A b \in Placers : Steady(b)'
    BY <1>2, <1>3, AloneEnds
  <1>5. /\ Placed(s) /\ Rows(P)
        /\ \A p \in P : port[p].owner = NewOwner(a)
        /\ \A p \in Ports \ P : port[p].owner = was.owners[p]
        /\ job[a].kind # "primary" => primary[s] = was.primary
        /\ job[a].kind # "config" => config[s] = was.config
        /\ port[was.primary].there /\ was.owners[was.primary] = s
        /\ s \notin adrift => wings[s] = Before(a)
    BY <1>0 DEF AloneInv, Steady, TakesBack
  <1>6. UNCHANGED wings BY DEF Restore
  <1>7. \A t \in PortServers \ {s}, b \in Placers : job[b].s = t => job'[b] = job[b]
    BY <1>3, <1>4
  <1>8. CASE UNCHANGED <<port, primary, config, limit>> /\ adrift' = adrift \cup {s}
    <2>1. PrimaryOwned' BY <1>8 DEF AloneInv, PrimaryOwned, Placed
    <2>2. AtRest'
      <3> SUFFICES ASSUME NEW t \in PortServers, Placed(t)', t \notin adrift'
                   PROVE  \/ (wings[t] = View(t))'
                          \/ \E b \in Placers : job'[b].s = t /\ job'[b].pc \in {"wings", "restore", "revert"}
        BY DEF AtRest
      <3>1. t # s /\ t \notin adrift /\ Placed(t) BY <1>8 DEF Placed
      <3>2. View(t)' = View(t) BY <1>8, ViewStays
      <3> QED BY <1>6, <1>7, <3>1, <3>2, RestStays DEF AloneInv
    <2> QED BY <1>4, <2>1, <2>2 DEF AloneInv
  <1>9. CASE /\ port' = [p \in Ports |-> IF p \in back THEN [port[p] EXCEPT !.owner = was.owners[p]] ELSE port[p]]
             /\ primary' = IF Placed(s) /\ job[a].kind = "primary" THEN [primary EXCEPT ![s] = was.primary]
                           ELSE primary
             /\ config' = IF Placed(s) /\ job[a].kind = "config" THEN [config EXCEPT ![s] = was.config] ELSE config
             /\ UNCHANGED adrift
    <2>1. \A p \in Ports : /\ port'[p].there <=> port[p].there
                           /\ port'[p].owner = was.owners[p]
                           /\ port'[p].owner = port[p].owner \/ (p \in P /\ port'[p].owner \in {NoOne, s})
      <3> SUFFICES ASSUME NEW p \in Ports
                   PROVE  /\ port'[p].there <=> port[p].there
                          /\ port'[p].owner = was.owners[p]
                          /\ port'[p].owner = port[p].owner \/ (p \in P /\ port'[p].owner \in {NoOne, s})
        OBVIOUS
      <3>1. port[p] \in PortRow BY <1>2 DEF PortsTyped
      <3>2. CASE p \in P
        <4>1. p \in back BY <1>5, <3>2 DEF Rows
        <4>2. port'[p] = [port[p] EXCEPT !.owner = was.owners[p]]
          <5> HIDE DEF back
          <5> QED BY <1>9, <4>1
        <4> QED BY <1>1, <3>1, <3>2, <4>2 DEF PortRow
      <3>3. CASE p \notin P
        <4>1. p \notin back BY <3>3
        <4>2. port'[p] = port[p]
          <5> HIDE DEF back
          <5> QED BY <1>9, <4>1
        <4> QED BY <1>5, <3>3, <4>2
      <3> QED BY <3>2, <3>3
    <2>2. /\ primary'[s] = was.primary /\ config'[s] = was.config
          /\ \A t \in PortServers \ {s} : primary'[t] = primary[t] /\ config'[t] = config[t]
      BY <1>1, <1>2, <1>5, <1>9 DEF PortsTyped
    <2>3. was.primary \in Ports BY <1>0, ChangeAtHand
    <2>4. PrimaryOwned'
      <3> SUFFICES ASSUME NEW t \in PortServers, Placed(t)' PROVE port'[primary'[t]].owner = t
        BY DEF PrimaryOwned
      <3>1. CASE t = s BY <1>5, <2>1, <2>2, <2>3, <3>1
      <3>2. CASE t # s
        <4>1. primary[t] \in Ports /\ port[primary[t]].owner = t
          BY <1>2, <2>2, <3>2 DEF AloneInv, PrimaryOwned, Placed, PortsTyped
        <4>2. primary[t] \notin P BY <1>1, <1>5, <3>2, <4>1, PortNumbers
        <4> QED BY <2>1, <2>2, <3>2, <4>1, <4>2
      <3> QED BY <3>1, <3>2
    <2>5. AtRest'
      <3> SUFFICES ASSUME NEW t \in PortServers, Placed(t)', t \notin adrift'
                   PROVE  \/ (wings[t] = View(t))'
                          \/ \E b \in Placers : job'[b].s = t /\ job'[b].pc \in {"wings", "restore", "revert"}
        BY DEF AtRest
      <3>1. CASE t = s
        <4>1. {p \in Ports : port'[p].there /\ port'[p].owner = s} = {p \in Ports : port[p].there /\ was.owners[p] = s}
          BY <2>1
        <4>2. View(t)' = [ports |-> {p \in Ports : port'[p].there /\ port'[p].owner = s},
                          primary |-> primary'[s], config |-> config'[s]]
          BY <3>1 DEF View, PortsOf
        <4>3. View(t)' = Before(a) BY <2>2, <4>1, <4>2 DEF Before
        <4>4. wings'[t] = Before(a) BY <1>5, <1>6, <1>9, <3>1
        <4> QED BY <4>3, <4>4
      <3>2. CASE t # s
        <4>1. \A p \in Ports : port'[p].owner = t <=> port[p].owner = t
          BY <1>1, <1>5, <2>1, <3>2, PortNumbers
        <4>2. View(t)' = View(t) BY <2>1, <2>2, <3>2, <4>1, ViewStays
        <4>3. Placed(t) BY <2>2, <3>2 DEF Placed
        <4> QED BY <1>6, <1>7, <1>9, <3>2, <4>2, <4>3, RestStays DEF AloneInv
      <3> QED BY <3>1, <3>2
    <2> QED BY <1>4, <2>4, <2>5 DEF AloneInv
  <1> QED BY <1>5, <1>8, <1>9 DEF Restore

\* What changes which ports there are finds no administrator at work.
NoAdmin == \A b \in Placers : job[b].kind \notin ChangeKinds
LEMMA OnlyOrders ==
    ASSUME PortInv, AdminsAlone, UNCHANGED job, NEW p \in Ports, port'[p].there # port[p].there
    PROVE  NoAdmin
  <1> SUFFICES ASSUME NEW b \in Placers PROVE job[b].kind \notin ChangeKinds
    BY DEF NoAdmin
  <1>1. CASE b \in Orders BY <1>1 DEF PortInv, JobInOrder, ChangeKinds
  <1>2. CASE b \in Admins
    <2>1. job[b] = Idle BY <1>2 DEF AdminsAlone
    <2> QED BY <2>1, IdleJob DEF ChangeKinds
  <1> QED BY <1>1, <1>2 DEF Placers

\* Ports come and go that nobody has.
LEMMA NodeAlone ==
    ASSUME PortInv, AloneInv, NoAdmin, UNCHANGED <<primary, config, wings, job, adrift>>,
           \A p \in Ports : /\ port'[p].owner = port[p].owner
                            /\ port[p].owner # NoOne => (port'[p].there <=> port[p].there)
    PROVE  AloneInv'
  <1>1. PortsTyped BY DEF PortInv
  <1>2. PrimaryOwned'
    <2>1. \A s \in PortServers : Placed(s) => primary[s] \in Ports BY <1>1 DEF Placed, PortsTyped
    <2> QED BY <2>1 DEF AloneInv, PrimaryOwned, Placed
  <1>3. AtRest'
    <2> SUFFICES ASSUME NEW t \in PortServers, Placed(t)', t \notin adrift'
                 PROVE  \/ (wings[t] = View(t))'
                        \/ \E b \in Placers : job'[b].s = t /\ job'[b].pc \in {"wings", "restore", "revert"}
      BY DEF AtRest
    <2>1. View(t)' = View(t) BY PortNumbers, ViewStays
    <2> QED BY <2>1, RestStays DEF AloneInv, Placed
  <1>4. ASSUME NEW b \in Placers PROVE Steady(b)'
    <2>1. job[b].kind \in CreateKinds /\ job[b].pc = "write" => Mine(b) \subseteq Ports
      BY <1>1 DEF PortInv, JobInOrder, PortsTyped, Job, Mine
    <2>2. Mine(b)' = Mine(b) BY DEF Mine
    <2>3. PortsKept(b)' BY <2>1, <2>2 DEF AloneInv, Steady, PortsKept, Placed
    <2>4. MadePlaced(b)' BY DEF AloneInv, Steady, MadePlaced, Placed
    <2> QED BY <2>3, <2>4 DEF NoAdmin, Steady, AsRead, TakesBack
  <1>5. OneJobEach' /\ AdminAlone' BY DEF AloneInv, OneJobEach, AdminAlone
  <1> QED BY <1>2, <1>3, <1>4, <1>5 DEF AloneInv

LEMMA BulkAlone ==
    ASSUME PortInv, AloneInv, NEW P \in SUBSET Ports, BulkCreate(P), AdminsAlone
    PROVE  AloneInv'
  <1>1. PortsTyped BY DEF PortInv
  <1>2. \A p \in Ports : /\ port'[p].owner = port[p].owner /\ (p \notin P => port'[p] = port[p])
                         /\ p \in P => port'[p].there
    BY <1>1 DEF BulkCreate, PortsTyped, PortRow
  <1>3. \A p \in Ports : port[p].there \in BOOLEAN /\ (port[p].owner # NoOne => port[p].there)
    BY <1>1 DEF PortInv, OwnersPlaced, PortsTyped, PortRow
  <1>4. PICK p \in P : ~port[p].there BY DEF BulkCreate
  <1>5. NoAdmin BY <1>2, <1>4, OnlyOrders DEF BulkCreate
  <1>6. \A q \in Ports : port[q].owner # NoOne => (port'[q].there <=> port[q].there) BY <1>2, <1>3
  <1> QED BY <1>2, <1>5, <1>6, NodeAlone DEF BulkCreate

LEMMA DeleteManyAlone ==
    ASSUME PortInv, AloneInv, NEW P \in SUBSET Ports, DeleteMany(P), AdminsAlone
    PROVE  AloneInv'
  <1>1. PortsTyped BY DEF PortInv
  <1>2. \A p \in Ports : /\ p \notin P => port'[p] = port[p]
                         /\ p \in P => ~port'[p].there /\ port'[p].owner = NoOne /\ port[p].owner = NoOne
    BY <1>1 DEF DeleteMany, PortsTyped, PortRow
  <1>3. PICK p \in P : port[p].there BY DEF DeleteMany, Rows
  <1>4. NoAdmin BY <1>2, <1>3, OnlyOrders DEF DeleteMany
  <1> QED BY <1>2, <1>4, NodeAlone DEF DeleteMany

LEMMA RestartAlone ==
    ASSUME PortInv, AloneInv, PortRestart
    PROVE  AloneInv'
  <1>1. \A a \in Placers : job'[a] = Idle BY DEF PortRestart
  <1>2. OneJobEach' /\ AdminAlone' BY <1>1, IdleJob, PortNumbers DEF OneJobEach, AdminAlone
  <1>3. PrimaryOwned' BY DEF PortRestart, AloneInv, PrimaryOwned, Placed
  <1>4. AtRest'
    <2> SUFFICES ASSUME NEW t \in PortServers, Placed(t)', t \notin adrift' PROVE (wings[t] = View(t))'
      BY DEF AtRest
    <2>1. View(t)' = View(t) BY ViewStays DEF PortRestart
    <2>2. t \notin adrift /\ \A b \in Placers : job[b].pc \in {"wings", "restore", "revert"} => job[b].s # t
      BY DEF PortRestart
    <2>3. wings[t] = View(t) BY <2>2 DEF PortRestart, AloneInv, AtRest, Placed
    <2> QED BY <2>1, <2>3 DEF PortRestart
  <1>5. \A b \in Placers : Steady(b)' BY <1>1, IdleFine
  <1> QED BY <1>2, <1>3, <1>4, <1>5 DEF AloneInv

LEMMA PortsBeginAlone == PortInit => AloneInv
  <1> SUFFICES ASSUME PortInit PROVE AloneInv
    OBVIOUS
  <1>1. \A a \in Placers : job[a] = Idle BY DEF PortInit
  <1>2. \A s \in PortServers : ~Placed(s) BY DEF PortInit, Placed
  <1>3. AdminAlone /\ OneJobEach BY <1>1, IdleJob, PortNumbers DEF AdminAlone, OneJobEach
  <1>4. PrimaryOwned /\ AtRest BY <1>2 DEF PrimaryOwned, AtRest
  <1>5. \A a \in Placers : Steady(a)
    BY <1>1, IdleJob DEF Steady, PortsKept, MadePlaced, AsRead, TakesBack, CreateKinds, ChangeKinds
  <1> QED BY <1>3, <1>4, <1>5 DEF AloneInv

LEMMA AloneStep == PortInv /\ AloneInv /\ [PortNext /\ AdminsAlone]_portVars => AloneInv'
  <1> SUFFICES ASSUME PortInv, AloneInv, [PortNext /\ AdminsAlone]_portVars PROVE AloneInv'
    OBVIOUS
  <1>1. CASE UNCHANGED portVars
    <2>1. UNCHANGED <<port, primary, config, limit, wings, job, adrift, begun>> BY <1>1 DEF portVars
    <2>2. \A b \in Placers : Steady(b)' BY <2>1, SteadyStays DEF AloneInv
    <2>3. AtRest'
      <3>1. \A t : View(t)' = View(t) BY <2>1, ViewStays
      <3> QED BY <2>1, <3>1 DEF AloneInv, AtRest, Placed
    <2> QED BY <2>1, <2>2, <2>3 DEF AloneInv, AdminAlone, OneJobEach, PrimaryOwned, Placed
  <1>2. CASE PortNext /\ AdminsAlone
    <2>0. AdminAlone' BY <1>2 DEF AdminsAlone, AdminAlone
    <2>1. ASSUME NEW a \in Orders, NEW s \in PortServers, NEW n \in Limits, CreatePlaceholder(a, s, n)
          PROVE  AloneInv'
      BY <2>0, <2>1, PlaceBegins, BeginsAlone DEF Placers
    <2>2. ASSUME NEW a \in Admins, NEW s \in PortServers,
                 \/ \E first \in Ports, more \in SUBSET Ports : AdminCreate(a, s, first, more)
                 \/ \E P \in SUBSET Ports \ {{}} : AddAllocations(a, s, P)
                 \/ \E p \in Ports : RemoveAllocation(a, s, p) \/ SetPrimaryAllocation(a, s, p)
                 \/ \E c \in Configs : UpdateConfig(a, s, c)
                 \/ \E n \in Limits : UpdateBuild(a, s, n)
                 \/ DeletePlaced(a, s)
          PROVE AloneInv'
      <3>1. Begins(a, s) BY <2>2, AdminBegins
      <3> QED BY <2>0, <3>1, BeginsAlone DEF Placers
    <2>3. ASSUME NEW a \in Placers, InsertServer(a) \/ CreateAtWings(a) \/ DeleteServerRow(a) PROVE AloneInv'
      BY <2>0, <2>3, InsertAlone, AtWingsAlone, DeleteRowAlone
    <2>4. ASSUME NEW a \in Placers, CommitChange(a) \/ SyncServer(a) \/ Restore(a) PROVE AloneInv'
      BY <2>0, <2>4, CommitAlone, SyncAlone, RestoreAlone
    <2>5. ASSUME NEW P \in SUBSET Ports, BulkCreate(P) \/ DeleteMany(P) PROVE AloneInv'
      BY <1>2, <2>5, BulkAlone, DeleteManyAlone
    <2>6. CASE PortRestart BY <2>6, RestartAlone
    <2> QED BY <1>2, <2>1, <2>2, <2>3, <2>4, <2>5, <2>6 DEF PortNext
  <1> QED BY <1>1, <1>2

\* Whatever overlaps: the rows have their types, the database keeps its keys, and a request's step fits its kind.
THEOREM PortInvariant == PortSpec => []PortInv
  <1>1. PortInit => PortInv BY PortsBegin
  <1>2. PortInv /\ [PortNext]_portVars => PortInv' BY PortStep
  <1> QED BY <1>1, <1>2, PTL DEF PortSpec

\* The rows of ports and servers, Wings' copies and the requests have their types.
THEOREM PortTypesHold == PortSpec => []PortTypeOK
  <1>1. PortInv => PortTypeOK
    BY DEF PortInv, PortsTyped, PrimaryUnique, OwnersPlaced, PrimaryThere, PortTypeOK
  <1> QED BY <1>1, PortInvariant, PTL

\* Each part of the resources does what it does alone.
LEMMA PartsAlone == ResourceSpec => LlmSpec /\ PortSpec /\ NoticeSpec
  <1>1. ResourceInit => LlmInit /\ PortInit /\ NoticeInit BY DEF ResourceInit
  <1>2. [ResourceNext]_<<llmVars, portVars, noticeVars>> =>
            [LlmNext]_llmVars /\ [PortNext]_portVars /\ [NoticeNext]_noticeVars
    <2> SUFFICES ASSUME [ResourceNext]_<<llmVars, portVars, noticeVars>>
                 PROVE  [LlmNext]_llmVars /\ [PortNext]_portVars /\ [NoticeNext]_noticeVars
      OBVIOUS
    <2>1. CASE LlmNext /\ UNCHANGED <<portVars, noticeVars>> BY <2>1
    <2>2. CASE PortNext /\ UNCHANGED <<llmVars, noticeVars>> BY <2>2
    <2>3. CASE NoticeNext /\ UNCHANGED <<llmVars, portVars>> BY <2>3
    <2>4. CASE UNCHANGED <<llmVars, portVars, noticeVars>> BY <2>4
    <2> QED BY <2>1, <2>2, <2>3, <2>4 DEF ResourceNext
  <1> QED BY <1>1, <1>2, PTL DEF ResourceSpec, LlmSpec, PortSpec, NoticeSpec

\* The types and shapes of all that hangs on a server.
THEOREM ResourceTypesHold == ResourceSpec => []ResourceTypeOK
  <1>1. LlmTypeOK /\ PortTypeOK /\ NoticeTypeOK => ResourceTypeOK BY DEF ResourceTypeOK
  <1> QED BY <1>1, PartsAlone, LlmTypesHold, PortTypesHold, NoticeTypesHold, PTL

\* With administrators one at a time, a server's primary port is its own, and Wings has of a server
\* at rest what the database has, but for the changes that were lost half-way.
THEOREM PortsStayAgreed == ResourceSpec => []PortsAgree
  <1>1. ResourceInit => AloneInv BY PortsBeginAlone DEF ResourceInit
  <1>2. [ResourceNext]_<<llmVars, portVars, noticeVars>> => [PortNext /\ AdminsAlone]_portVars
    <2> SUFFICES ASSUME [ResourceNext]_<<llmVars, portVars, noticeVars>>
                 PROVE  [PortNext /\ AdminsAlone]_portVars
      OBVIOUS
    <2>1. CASE UNCHANGED portVars BY <2>1
    <2>2. CASE PortNext /\ AdminsAlone BY <2>2
    <2> QED BY <2>1, <2>2 DEF ResourceNext
  <1>3. PortInv /\ AloneInv /\ [ResourceNext]_<<llmVars, portVars, noticeVars>> => AloneInv'
    BY <1>2, AloneStep
  <1>4. PortInv /\ AloneInv => PortsAgree
    <2> SUFFICES ASSUME PortInv, AloneInv, NEW s \in PortServers, Placed(s)
                 PROVE  /\ port[primary[s]].owner = s
                        /\ Resting(s) /\ s \notin adrift => wings[s] = View(s)
      BY DEF PortsAgree
    <2> QED BY DEF AloneInv, PrimaryOwned, AtRest, Resting
  <1> QED BY <1>1, <1>3, <1>4, PartsAlone, PortInvariant, PTL DEF ResourceSpec
===============================================================================
