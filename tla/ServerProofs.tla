------------------------------ MODULE ServerProofs ------------------------------
(***************************************************************************)
(* Proofs about Servers: whatever requests, the nightly batch, restarts    *)
(* and nodes that do not answer do to one another, a container without a   *)
(* row is one that was left behind knowingly, and a database never is      *)
(* without one.                                                            *)
(*                                                                         *)
(* Almost every step keeps a server's standing: its row stays, and neither *)
(* a container nor a database appears.  The argument is about the others,  *)
(* the two that end a row and the two that make a container, and about     *)
(* what an actor on its way to one of them has established.                *)
(***************************************************************************)
EXTENDS Servers, TLAPS

-------------------------------------------------------------------------------
(* The inductive invariant *)

Creating(a) == op[a].pc \in {"create", "revert"}

\* What an actor has established where it is: who makes a container made the row, and
\* finds neither container nor database; who is about to end a row has been to Wings, and who
\* ends it in a deletion also to the database host.
CallInOrder(a) ==
    LET s == Target(a) IN
    /\ ~At(a, "idle") => s \in Servers
    /\ Creating(a) => row[s].st # "unborn" /\ ~HasDatabase(s)
    /\ At(a, "create") => ~Up(s)
    /\ op[a].pc \in {"revert", "bases", "drop"} => (Up(s) => s \in excused)
    /\ At(a, "drop") => database[s] # "both"

\* A server is made by one request.
CreatorsApart ==
    \A a, b \in Actors : Creating(a) /\ Creating(b) /\ Target(a) = Target(b) => a = b

UnbornHasNothing == \A s \in Servers : row[s].st = "unborn" => ~Up(s)

Standing ==
    /\ OrphansExplained
    /\ UnbornHasNothing
    /\ \A a \in Actors : CallInOrder(a)
    /\ CreatorsApart

ServerIInv == ServerTypeOK /\ Standing

-------------------------------------------------------------------------------
(* Calls *)

\* The calls a step starts with, and the ones it moves on or ends, are calls.
LEMMA CallMoves ==
  ASSUME op \in [Actors -> Op], NEW a \in Actors
  PROVE  /\ NoOp \in Op
         /\ Finish(a) => op' \in [Actors -> Op] /\ op'[a] = NoOp
         /\ \A pc \in Steps : Goto(a, pc) =>
               op' \in [Actors -> Op] /\ op'[a].pc = pc /\ op'[a].s = op[a].s
         /\ Finish(a) \/ (\E pc \in Steps : Goto(a, pc)) =>
               \A b \in Actors \ {a} : op'[b] = op[b]
  <1>1. NoOp \in Op BY ServerAssumption DEF NoOp, Op, Kinds, Steps, Statuses, Never
  <1>2. ASSUME NEW pc \in Steps, Goto(a, pc)
        PROVE  /\ op' \in [Actors -> Op] /\ op'[a].pc = pc /\ op'[a].s = op[a].s
               /\ \A b \in Actors \ {a} : op'[b] = op[b]
    <2> DEFINE call == [op[a] EXCEPT !.pc = pc]
    <2>1. op[a] \in Op OBVIOUS
    <2>2. call \in Op /\ call.pc = pc /\ call.s = op[a].s BY <2>1 DEF Op
    <2>3. op' = [op EXCEPT ![a] = call] BY <1>2 DEF Goto
    <2> HIDE DEF call
    <2> QED BY <2>2, <2>3
  <1>3. ASSUME Finish(a)
        PROVE  /\ op' \in [Actors -> Op] /\ op'[a] = NoOp
               /\ \A b \in Actors \ {a} : op'[b] = op[b]
    BY <1>1, <1>3 DEF Finish
  <1> QED BY <1>1, <1>2, <1>3

\* A call that begins is a call, whatever it remembers of its beginning.
LEMMA CallBegins ==
  ASSUME NEW kind \in Kinds, NEW s \in Servers, NEW pc \in Steps
  PROVE  Call(kind, s, pc) \in Op /\ Call(kind, s, pc).pc = pc /\ Call(kind, s, pc).s = s
  <1>1. NoOp \in Op BY ServerAssumption DEF NoOp, Op, Kinds, Steps, Statuses, Never
  <1>2. [NoOp EXCEPT !.kind = kind, !.s = s, !.pc = pc] \in Op BY <1>1 DEF Op
  <1> QED BY <1>2 DEF Call, NoOp

\* Rewritten calls are calls.
LEMMA CallForces ==
  ASSUME NEW call \in Op, NEW flag \in BOOLEAN
  PROVE  /\ [call EXCEPT !.force = flag] \in Op
         /\ [call EXCEPT !.force = flag].pc = call.pc
         /\ [call EXCEPT !.force = flag].s = call.s
  BY DEF Op

-------------------------------------------------------------------------------
(* Types *)

\* The part of the type invariant about each variable.
RowsTyped == row \in [Servers -> ServerRow]
ContainersTyped ==
    /\ wings \in [Servers -> {"absent", "on", "off"}]
    /\ install \in [Servers -> {"none", "plain", "forced", "keeps", "wipes"}]
    /\ \A s \in Servers : install[s] # "none" => Up(s)
CallsTyped == op \in [Actors -> Op]
BatchTyped ==
    /\ batch \in [stage : Stages, todo : SUBSET Servers]
    /\ batch.stage = "idle" => batch.todo = {}

\* Dates stay in the range of dates.
LEMMA Dates ==
  ASSUME today \in 0..MaxDay, NEW exp \in 0..Never
  PROVE  Extended(exp) \in 0..Never
  BY ServerAssumption DEF Extended, Never

\* One row rewritten, field by field.
LEMMA RowWrite ==
  ASSUME RowsTyped, NEW s \in Servers, NEW new \in ServerRow, row' = [row EXCEPT ![s] = new]
  PROVE  /\ RowsTyped'
         /\ row'[s] = new /\ \A t \in Servers \ {s} : row'[t] = row[t]
  BY DEF RowsTyped

\* What Wings does when it is reached.
LEMMA WingsTyped ==
  ASSUME RowsTyped, ContainersTyped, NEW a \in Actors, NEW s \in Servers, Target(a) = s
  PROVE  /\ Reached(a) => ContainersTyped' /\ \A t \in Servers : Up(t)' <=> Up(t)
         /\ Installed(a) => ContainersTyped' /\ \A t \in Servers \ {s} : Up(t)' <=> Up(t)
         /\ Destroyed(s) =>
               ContainersTyped' /\ ~Up(s)' /\ \A t \in Servers \ {s} : Up(t)' <=> Up(t)
         /\ UNCHANGED <<wings, install>> =>
               ContainersTyped' /\ \A t \in Servers : Up(t)' <=> Up(t)
  <1>1. ASSUME Reached(a), op[a].kind = "reinstall"
        PROVE  ContainersTyped' /\ \A t \in Servers : Up(t)' <=> Up(t)
    <2>1. /\ wings' = wings /\ Up(s)
          /\ \E i \in {"forced", "plain"} : install' = [install EXCEPT ![s] = i]
      BY <1>1 DEF Reached
    <2> QED BY <2>1 DEF ContainersTyped, Up
  <1>2. ASSUME Reached(a), op[a].kind # "reinstall"
        PROVE  ContainersTyped' /\ \A t \in Servers : Up(t)' <=> Up(t)
    <2>1. /\ install' = install /\ Up(s)
          /\ \E power \in {"off", "on"} : wings' = [wings EXCEPT ![s] = power]
      BY <1>2 DEF Reached
    <2> QED BY <2>1 DEF ContainersTyped, Up
  <1>3. ASSUME Installed(a)
        PROVE  ContainersTyped' /\ \A t \in Servers \ {s} : Up(t)' <=> Up(t)
    <2>1. /\ install' = [install EXCEPT ![s] = "plain"]
          /\ \E power \in {"off", "on"} : wings' = [wings EXCEPT ![s] = power]
      BY <1>3 DEF Installed
    <2> QED BY <2>1 DEF ContainersTyped, Up
  <1>4. ASSUME Destroyed(s)
        PROVE  ContainersTyped' /\ ~Up(s)' /\ \A t \in Servers \ {s} : Up(t)' <=> Up(t)
    BY <1>4 DEF ContainersTyped, Destroyed, Up
  <1>5. ASSUME UNCHANGED <<wings, install>>
        PROVE  ContainersTyped' /\ \A t \in Servers : Up(t)' <=> Up(t)
    BY <1>5 DEF ContainersTyped, Up
  <1> QED BY <1>1, <1>2, <1>3, <1>4, <1>5

-------------------------------------------------------------------------------
(* Steps that keep every server's standing *)

\* A row stays, and neither a container nor a database appears.
StandingKept ==
    \A s \in Servers :
        /\ Exists(s) => Exists(s)'
        /\ row'[s].st = "unborn" => row[s].st = "unborn"
        /\ Up(s)' => Up(s)
        /\ HasDatabase(s)' => HasDatabase(s)
        /\ database'[s] = "both" => database[s] = "both"
        /\ s \in excused => s \in excused'

\* Actor a is not on its way to make a container or to end a row, after the step.
Harmless(a) ==
    /\ op'[a].pc \notin {"create", "revert", "bases", "drop"}
    /\ op'[a].pc # "idle" => op'[a].s \in Servers

OthersWait(a) == \A b \in Actors \ {a} : op'[b] = op[b]

Mild(a) == ServerTypeOK' /\ StandingKept /\ OthersWait(a) /\ Harmless(a)

\* The same, of the tables one by one.
RowsKept ==
    /\ RowsTyped'
    /\ \A s \in Servers : /\ Exists(s) => Exists(s)'
                          /\ row'[s].st = "unborn" => row[s].st = "unborn"
ContainersKept == ContainersTyped' /\ \A s \in Servers : Up(s)' => Up(s)
DatabasesKept ==
    /\ database' \in [Servers -> {"none", "both", "row"}]
    /\ \A s \in Servers : /\ HasDatabase(s)' => HasDatabase(s)
                          /\ database'[s] = "both" => database[s] = "both"
CallKept(a) == CallsTyped' /\ OthersWait(a) /\ Harmless(a)
CountersTyped == today \in 0..MaxDay /\ requests \in 0..MaxRequests /\ crashes \in 0..MaxCrashes
CountersKept == CountersTyped' /\ excused \subseteq excused' /\ excused' \subseteq Servers

\* A step keeps them if it keeps each table.
LEMMA MildParts ==
  ASSUME NEW a \in Actors, RowsKept, ContainersKept, DatabasesKept, CallKept(a), BatchTyped',
         CountersKept
  PROVE  Mild(a)
  BY DEF Mild, ServerTypeOK, StandingKept, RowsKept, ContainersKept, DatabasesKept, CallKept,
         CountersKept, CountersTyped, RowsTyped, ContainersTyped, CallsTyped, BatchTyped, Up

\* The type invariant, table by table.
LEMMA TypeParts ==
  ASSUME ServerTypeOK
  PROVE  /\ RowsTyped /\ ContainersTyped /\ CallsTyped /\ BatchTyped /\ CountersTyped
         /\ database \in [Servers -> {"none", "both", "row"}] /\ excused \subseteq Servers
  BY DEF ServerTypeOK, RowsTyped, ContainersTyped, CallsTyped, BatchTyped, CountersTyped

\* A table that a step leaves alone is kept.
LEMMA Unchanged ==
  ASSUME ServerTypeOK
  PROVE  /\ UNCHANGED row => RowsKept
         /\ UNCHANGED <<wings, install>> => ContainersKept
         /\ UNCHANGED database => DatabasesKept
         /\ UNCHANGED batch => BatchTyped'
         /\ UNCHANGED <<today, requests, crashes, excused>> => CountersKept
  <1>1. /\ RowsTyped /\ ContainersTyped /\ BatchTyped /\ CountersTyped
        /\ database \in [Servers -> {"none", "both", "row"}] /\ excused \subseteq Servers
    BY TypeParts
  <1>2. UNCHANGED row => RowsKept BY <1>1 DEF RowsKept, RowsTyped, Exists
  <1>3. UNCHANGED <<wings, install>> => ContainersKept
    BY <1>1 DEF ContainersKept, ContainersTyped, Up
  <1>4. UNCHANGED database => DatabasesKept BY <1>1 DEF DatabasesKept, HasDatabase
  <1>5. UNCHANGED batch => BatchTyped' BY <1>1 DEF BatchTyped
  <1>6. UNCHANGED <<today, requests, crashes, excused>> => CountersKept
    BY <1>1 DEF CountersKept, CountersTyped
  <1> QED BY <1>2, <1>3, <1>4, <1>5, <1>6

\* A row that is there is rewritten and stays there.
LEMMA RowKept ==
  ASSUME ServerTypeOK, NEW s \in Servers, NEW new \in ServerRow, new.st \in Statuses,
         row' = [row EXCEPT ![s] = new]
  PROVE  RowsKept
  <1>1. RowsTyped BY TypeParts
  <1>2. RowsTyped' /\ row'[s] = new /\ \A t \in Servers \ {s} : row'[t] = row[t] BY <1>1, RowWrite
  <1> QED BY <1>2 DEF RowsKept, Exists, Statuses

\* Wings is reached, or not; a stage goes on, or ends.
LEMMA WingsKept ==
  ASSUME ServerTypeOK, NEW a \in Actors, Target(a) \in Servers
  PROVE  /\ Reached(a) => ContainersKept
         /\ StageContinues(a) \/ StageAborts(a) => BatchTyped'
  <1>1. RowsTyped /\ ContainersTyped /\ BatchTyped BY TypeParts
  <1>2. Reached(a) => ContainersKept BY <1>1, WingsTyped DEF ContainersKept
  <1>3. ASSUME StageContinues(a) \/ StageAborts(a) PROVE BatchTyped'
    BY <1>1, <1>3 DEF BatchTyped, StageContinues, StageAborts
  <1> QED BY <1>2, <1>3

\* A call that ends, moves on to a harmless step, or becomes another call.
LEMMA CallsKept ==
  ASSUME ServerTypeOK, NEW a \in Actors
  PROVE  /\ Finish(a) => CallKept(a)
         /\ \A pc \in Steps \ {"create", "revert", "bases", "drop"} :
               Target(a) \in Servers /\ Goto(a, pc) => CallKept(a)
         /\ \A call \in Op :
               /\ call.pc \notin {"create", "revert", "bases", "drop", "idle"}
               /\ call.s \in Servers
               /\ op' = [op EXCEPT ![a] = call]
               => CallKept(a)
  <1>1. CallsTyped BY TypeParts
  <1>2. Finish(a) => CallKept(a)
    BY <1>1, CallMoves DEF CallKept, CallsTyped, OthersWait, Harmless, NoOp
  <1>3. \A pc \in Steps \ {"create", "revert", "bases", "drop"} :
               Target(a) \in Servers /\ Goto(a, pc) => CallKept(a)
    BY <1>1, CallMoves DEF CallKept, CallsTyped, OthersWait, Harmless, Target
  <1>4. ASSUME NEW call \in Op, call.pc \notin {"create", "revert", "bases", "drop", "idle"},
               call.s \in Servers, op' = [op EXCEPT ![a] = call]
        PROVE  CallKept(a)
    BY <1>1, <1>4 DEF CallKept, CallsTyped, OthersWait, Harmless
  <1> QED BY <1>2, <1>3, <1>4

\* Setting the flag, the status and its way back, the expiration: the calls' commits to
\* the row of a server that is there.
LEMMA RowSteps ==
  ASSUME ServerTypeOK, NEW a \in Actors, CallInOrder(a),
         \/ SetForceFlag(a) \/ SetServerStatus(a) \/ Compensate(a) \/ PersistServer(a)
         \/ Extend(a) \/ PersistExpiration(a)
  PROVE  Mild(a)
  <1> SUFFICES ASSUME NEW s \in Servers, s = Target(a) PROVE Mild(a)
    BY DEF CallInOrder, At, SetForceFlag, SetServerStatus, Compensate, PersistServer, Extend,
           PersistExpiration
  <1>0. /\ RowsTyped /\ CallsTyped /\ op[a] \in Op /\ row[s] \in ServerRow /\ today \in 0..MaxDay
        /\ ContainersKept /\ DatabasesKept
    <2>1. UNCHANGED <<wings, install, database>>
      BY DEF SetForceFlag, SetServerStatus, Compensate, PersistServer, Extend, PersistExpiration
    <2> QED BY <2>1, TypeParts, Unchanged DEF RowsTyped, CallsTyped, CountersTyped
  <1>c. UNCHANGED <<today, requests, crashes, excused>> => CountersKept BY Unchanged
  <1>1. CASE SetForceFlag(a)
    <2>1. CallKept(a) BY <1>1, CallsKept DEF SetForceFlag, Steps
    <2>2. RowsKept
      <3>1. CASE row' = row BY <3>1, Unchanged
      <3>2. CASE row' = [row EXCEPT ![s].force = TRUE] /\ Exists(s)
        <4>1. [row[s] EXCEPT !.force = TRUE] \in ServerRow
              /\ [row[s] EXCEPT !.force = TRUE].st = row[s].st
          BY <1>0 DEF ServerRow
        <4> QED BY <3>2, <4>1, RowKept DEF Exists
      <3> QED BY <1>1, <3>1, <3>2 DEF SetForceFlag
    <2>3. BatchTyped' /\ CountersKept BY <1>1, <1>c, Unchanged DEF SetForceFlag
    <2> QED BY <1>0, <2>1, <2>2, <2>3, MildParts
  <1>2. CASE SetServerStatus(a)
    <2>1. CallKept(a) BY <1>2, CallsKept DEF SetServerStatus, Steps
    <2>2. RowsKept
      <3>1. CASE row' = row BY <3>1, Unchanged
      <3>2. CASE \E st \in Statuses : row' = [row EXCEPT ![s].st = st]
        <4>1. PICK st \in Statuses : row' = [row EXCEPT ![s].st = st] BY <3>2
        <4>2. [row[s] EXCEPT !.st = st] \in ServerRow /\ [row[s] EXCEPT !.st = st].st = st
          BY <1>0 DEF ServerRow
        <4> QED BY <4>1, <4>2, RowKept
      <3>3. CASE row' = [row EXCEPT ![s].st = "installing", ![s].installed = FALSE]
        <4> DEFINE new == [row[s] EXCEPT !.st = "installing", !.installed = FALSE]
        <4>1. new \in ServerRow /\ new.st \in Statuses BY <1>0 DEF ServerRow, Statuses
        <4>2. row' = [row EXCEPT ![s] = new] BY <1>0, <3>3 DEF RowsTyped
        <4> HIDE DEF new
        <4> QED BY <4>1, <4>2, RowKept
      <3>4. \/ row' = row \/ row' = [row EXCEPT ![s].st = "suspended"]
            \/ row' = [row EXCEPT ![s].st = "installing", ![s].installed = FALSE]
            \/ row' = [row EXCEPT ![s].st = "null"]
        BY <1>2 DEF SetServerStatus
      <3> QED BY <3>1, <3>2, <3>3, <3>4 DEF Statuses
    <2>3. BatchTyped' /\ CountersKept BY <1>2, <1>c, WingsKept DEF SetServerStatus
    <2> QED BY <1>0, <2>1, <2>2, <2>3, MildParts
  <1>3. CASE Compensate(a)
    <2>1. CallKept(a) BY <1>3, CallsKept DEF Compensate
    <2>2. RowsKept
      <3>1. CASE row' = row BY <3>1, Unchanged
      <3>2. CASE \E installed \in BOOLEAN :
                    row' = [row EXCEPT ![s].st = op[a].prev, ![s].installed = installed]
        <4>1. PICK installed \in BOOLEAN :
                    row' = [row EXCEPT ![s].st = op[a].prev, ![s].installed = installed]
          BY <3>2
        <4> DEFINE new == [row[s] EXCEPT !.st = op[a].prev, !.installed = installed]
        <4>2. op[a].prev \in Statuses BY <1>0 DEF Op
        <4>3. new \in ServerRow /\ new.st \in Statuses BY <1>0, <4>2 DEF ServerRow
        <4>4. row' = [row EXCEPT ![s] = new] BY <1>0, <4>1 DEF RowsTyped
        <4> HIDE DEF new
        <4> QED BY <4>3, <4>4, RowKept
      <3>3. row[s].installed \in BOOLEAN /\ op[a].installed \in BOOLEAN
        BY <1>0 DEF ServerRow, Op
      <3>4. \/ row' = row
            \/ row' = [row EXCEPT ![s].st = op[a].prev,
                                  ![s].installed = IF op[a].kind = "reinstall"
                                                   THEN op[a].installed ELSE @]
        BY <1>3 DEF Compensate
      <3>5. row' = [row EXCEPT ![s].st = op[a].prev,
                               ![s].installed = IF op[a].kind = "reinstall"
                                                THEN op[a].installed ELSE @]
            => row' = [row EXCEPT ![s].st = op[a].prev,
                                  ![s].installed = IF op[a].kind = "reinstall"
                                                   THEN op[a].installed ELSE row[s].installed]
        BY <1>0 DEF RowsTyped, ServerRow
      <3> QED BY <3>1, <3>2, <3>3, <3>4, <3>5
    <2>3. BatchTyped' /\ CountersKept BY <1>3, <1>c, WingsKept DEF Compensate
    <2> QED BY <1>0, <2>1, <2>2, <2>3, MildParts
  <1>4. CASE PersistServer(a)
    <2>1. CallKept(a)
      <3>1. CASE Finish(a) BY <3>1, CallsKept
      <3>2. CASE op' = [op EXCEPT ![a] = Call("delete", s, "read")]
        <4>1. /\ Call("delete", s, "read") \in Op /\ Call("delete", s, "read").s \in Servers
              /\ Call("delete", s, "read").pc = "read"
          BY CallBegins DEF Kinds, Steps
        <4> QED BY <3>2, <4>1, CallsKept
      <3> QED BY <1>4, <3>1, <3>2 DEF PersistServer
    <2>2. RowsKept
      <3>1. CASE row' = row BY <3>1, Unchanged
      <3>2. ASSUME Exists(s), NEW trial \in BOOLEAN,
                   row' = [row EXCEPT ![s].exp = Extended(0), ![s].trial = trial]
            PROVE  RowsKept
        <4> DEFINE new == [row[s] EXCEPT !.exp = Extended(0), !.trial = trial]
        <4>1. Extended(0) \in 0..Never BY <1>0, Dates, ServerAssumption DEF Never
        <4>2. new \in ServerRow /\ new.st = row[s].st BY <1>0, <4>1 DEF ServerRow
        <4>3. row' = [row EXCEPT ![s] = new] BY <1>0, <3>2 DEF RowsTyped
        <4> HIDE DEF new
        <4> QED BY <3>2, <4>2, <4>3, RowKept DEF Exists
      <3> QED BY <1>4, <3>1, <3>2 DEF PersistServer
    <2>3. BatchTyped' /\ CountersKept BY <1>4, <1>c, Unchanged DEF PersistServer
    <2> QED BY <1>0, <2>1, <2>2, <2>3, MildParts
  <1>5. CASE Extend(a)
    <2>1. CallKept(a)
      <3>1. CASE Finish(a) BY <3>1, CallsKept
      <3>2. CASE op' = [op EXCEPT ![a] = Call("unsuspend", s, "read")]
        <4>1. /\ Call("unsuspend", s, "read") \in Op /\ Call("unsuspend", s, "read").s \in Servers
              /\ Call("unsuspend", s, "read").pc = "read"
          BY CallBegins DEF Kinds, Steps
        <4> QED BY <3>2, <4>1, CallsKept
      <3> QED BY <1>5, <3>1, <3>2 DEF Extend
    <2>2. RowsKept
      <3>1. CASE row' = row BY <3>1, Unchanged
      <3>2. ASSUME Exists(s), NEW permanent \in BOOLEAN,
                   row' = [row EXCEPT ![s].trial = FALSE,
                                      ![s].exp = IF permanent THEN Never ELSE Extended(op[a].old)]
            PROVE  RowsKept
        <4> DEFINE exp == IF permanent THEN Never ELSE Extended(op[a].old)
                   new == [row[s] EXCEPT !.trial = FALSE, !.exp = exp]
        <4>1. op[a].old \in 0..Never BY <1>0 DEF Op
        <4>2. exp \in 0..Never BY <1>0, <4>1, Dates, ServerAssumption DEF Never
        <4>3. row' = [row EXCEPT ![s].trial = FALSE, ![s].exp = exp] BY <3>2
        <4> HIDE DEF exp
        <4>4. new \in ServerRow /\ new.st = row[s].st BY <1>0, <4>2 DEF ServerRow
        <4>5. row' = [row EXCEPT ![s] = new] BY <1>0, <4>3 DEF RowsTyped
        <4> HIDE DEF new
        <4> QED BY <3>2, <4>4, <4>5, RowKept DEF Exists
      <3> QED BY <1>5, <3>1, <3>2 DEF Extend
    <2>3. BatchTyped' /\ CountersKept BY <1>5, <1>c, Unchanged DEF Extend
    <2> QED BY <1>0, <2>1, <2>2, <2>3, MildParts
  <1>6. CASE PersistExpiration(a)
    <2>1. CallKept(a)
      <3>1. CASE Finish(a) BY <3>1, CallsKept
      <3>2. CASE op' = [op EXCEPT ![a] = Call("suspend", s, "read")]
        <4>1. /\ Call("suspend", s, "read") \in Op /\ Call("suspend", s, "read").s \in Servers
              /\ Call("suspend", s, "read").pc = "read"
          BY CallBegins DEF Kinds, Steps
        <4> QED BY <3>2, <4>1, CallsKept
      <3> QED BY <1>6, <3>1, <3>2 DEF PersistExpiration
    <2>2. RowsKept
      <3>1. CASE row' = row BY <3>1, Unchanged
      <3>2. CASE Exists(s) /\ row' = [row EXCEPT ![s].exp = Extended(op[a].old)]
        <4> DEFINE new == [row[s] EXCEPT !.exp = Extended(op[a].old)]
        <4>1. op[a].old \in 0..Never BY <1>0 DEF Op
        <4>2. Extended(op[a].old) \in 0..Never BY <1>0, <4>1, Dates
        <4>3. new \in ServerRow /\ new.st = row[s].st BY <1>0, <4>2 DEF ServerRow
        <4>4. row' = [row EXCEPT ![s] = new] BY <3>2
        <4> HIDE DEF new
        <4> QED BY <3>2, <4>3, <4>4, RowKept DEF Exists
      <3> QED BY <1>6, <3>1, <3>2 DEF PersistExpiration
    <2>3. BatchTyped' /\ CountersKept BY <1>6, <1>c, Unchanged DEF PersistExpiration
    <2> QED BY <1>0, <2>1, <2>2, <2>3, MildParts
  <1> QED BY <1>1, <1>2, <1>3, <1>4, <1>5, <1>6

\* Reading the row, calling Wings, and a database host that fails.
LEMMA CallSteps ==
  ASSUME ServerTypeOK, NEW a \in Actors, CallInOrder(a),
         \/ Resolve(a) \/ WingsAnswers(a) \/ WingsFails(a) \/ ConvertBuild(a) \/ DropFails(a)
  PROVE  Mild(a)
  <1> SUFFICES ASSUME NEW s \in Servers, s = Target(a) PROVE Mild(a)
    BY DEF CallInOrder, At, Resolve, WingsAnswers, WingsFails, ConvertBuild, DropFails
  <1>0. /\ RowsTyped /\ CallsTyped /\ op[a] \in Op /\ row[s] \in ServerRow
        /\ database \in [Servers -> {"none", "both", "row"}]
    BY TypeParts DEF RowsTyped, CallsTyped
  <1>c. /\ UNCHANGED <<today, requests, crashes, excused>> => CountersKept
        /\ UNCHANGED row => RowsKept
        /\ UNCHANGED database => DatabasesKept
        /\ UNCHANGED batch => BatchTyped'
        /\ UNCHANGED <<wings, install>> => ContainersKept
        /\ Reached(a) => ContainersKept
        /\ StageContinues(a) \/ StageAborts(a) => BatchTyped'
    BY Unchanged, WingsKept
  <1>1. CASE Resolve(a)
    <2>1. CallKept(a)
      <3>1. CASE Finish(a) \/ Goto(a, "destroy") BY <3>1, CallsKept DEF Steps
      <3>2. ASSUME Exists(s),
                   op' = [op EXCEPT ![a].pc = "write", ![a].prev = row[s].st,
                                    ![a].installed = row[s].installed]
            PROVE  CallKept(a)
        <4> DEFINE call == [op[a] EXCEPT !.pc = "write", !.prev = row[s].st,
                                         !.installed = row[s].installed]
        <4>1. row[s].st \in Statuses /\ row[s].installed \in BOOLEAN
          BY <1>0, <3>2 DEF ServerRow, Exists
        <4>2. call \in Op BY <1>0, <4>1 DEF Op, Steps
        <4>3. call.pc = "write" /\ call.s = op[a].s BY <1>0 DEF Op
        <4>4. op' = [op EXCEPT ![a] = call] BY <1>0, <3>2 DEF CallsTyped
        <4>5. call.s \in Servers BY <4>3 DEF Target
        <4> HIDE DEF call
        <4> QED BY <4>2, <4>3, <4>4, <4>5, CallsKept
      <3> QED BY <1>1, <3>1, <3>2 DEF Resolve
    <2>2. BatchTyped' BY <1>1, <1>c DEF Resolve
    <2>3. RowsKept /\ ContainersKept /\ DatabasesKept /\ CountersKept BY <1>1, <1>c DEF Resolve
    <2> QED BY <2>1, <2>2, <2>3, MildParts
  <1>2. CASE WingsAnswers(a)
    <2>1. CallKept(a)
      <3>1. CASE Finish(a) BY <3>1, CallsKept
      <3>2. CASE op' = [op EXCEPT ![a].pc = "persist", ![a].prev = "null",
                                  ![a].installed = FALSE]
        <4> DEFINE call == [op[a] EXCEPT !.pc = "persist", !.prev = "null", !.installed = FALSE]
        <4>2. call \in Op BY <1>0 DEF Op, Steps, Statuses
        <4>3. call.pc = "persist" /\ call.s = op[a].s BY <1>0 DEF Op
        <4>4. op' = [op EXCEPT ![a] = call] BY <1>0, <3>2 DEF CallsTyped
        <4>5. call.s \in Servers BY <4>3 DEF Target
        <4> HIDE DEF call
        <4> QED BY <4>2, <4>3, <4>4, <4>5, CallsKept
      <3> QED BY <1>2, <3>1, <3>2 DEF WingsAnswers
    <2>2. RowsKept /\ ContainersKept /\ DatabasesKept /\ CountersKept /\ BatchTyped'
      BY <1>2, <1>c DEF WingsAnswers
    <2> QED BY <2>1, <2>2, MildParts
  <1>3. CASE WingsFails(a)
    <2>1. CallKept(a) BY <1>3, CallsKept DEF WingsFails, Steps
    <2>2. RowsKept /\ ContainersKept /\ DatabasesKept /\ CountersKept /\ BatchTyped'
      BY <1>3, <1>c DEF WingsFails
    <2> QED BY <2>1, <2>2, MildParts
  <1>4. CASE ConvertBuild(a)
    <2>1. CallKept(a) BY <1>4, CallsKept DEF ConvertBuild, Steps
    <2>2. RowsKept /\ ContainersKept /\ DatabasesKept /\ CountersKept /\ BatchTyped'
      BY <1>4, <1>c DEF ConvertBuild
    <2> QED BY <2>1, <2>2, MildParts
  <1>5. CASE DropFails(a)
    <2>1. CallKept(a) BY <1>5, CallsKept DEF DropFails
    <2>2. DatabasesKept
      <3>1. CASE database' = database BY <3>1, <1>c
      <3>2. CASE database' = [database EXCEPT ![s] = "row"] /\ HasDatabase(s)
        BY <1>0, <3>2 DEF DatabasesKept, HasDatabase
      <3>3. Dropped(s) \/ database' = database BY <1>5 DEF DropFails
      <3> QED BY <1>5, <3>1, <3>2, <3>3 DEF Dropped, DropFails
    <2>3. RowsKept /\ ContainersKept /\ CountersKept /\ BatchTyped' BY <1>5, <1>c DEF DropFails
    <2> QED BY <2>1, <2>2, <2>3, MildParts
  <1> QED BY <1>1, <1>2, <1>3, <1>4, <1>5

\* A call begins where a request or the batch begins it.
LEMMA Begins ==
  ASSUME ServerTypeOK, NEW a \in Actors, NEW s \in Servers, NEW kind \in Kinds,
         NEW pc \in {"flag", "read", "extend", "build", "persist"}
  PROVE  /\ Call(kind, s, pc) \in Op
         /\ \A call \in Op : call.pc = pc /\ call.s = s /\ op' = [op EXCEPT ![a] = call]
                             => CallKept(a)
         /\ op' = [op EXCEPT ![a] = Call(kind, s, pc)] => CallKept(a)
  <1>1. pc \in Steps BY DEF Steps
  <1>2. Call(kind, s, pc) \in Op /\ Call(kind, s, pc).pc = pc /\ Call(kind, s, pc).s = s
    BY <1>1, CallBegins
  <1> QED BY <1>2, CallsKept

\* A call that begins with a flag is in order.
LEMMA BeginsForced ==
  ASSUME ServerTypeOK, NEW a \in Actors, NEW s \in Servers, NEW kind \in Kinds,
         NEW pc \in {"flag", "read"}, NEW flag \in BOOLEAN,
         op' = [op EXCEPT ![a] = [Call(kind, s, pc) EXCEPT !.force = flag]]
  PROVE  CallKept(a)
  <1>1. pc \in Steps BY DEF Steps
  <1>2. Call(kind, s, pc) \in Op /\ Call(kind, s, pc).pc = pc /\ Call(kind, s, pc).s = s
    BY <1>1, CallBegins
  <1> DEFINE forced == [Call(kind, s, pc) EXCEPT !.force = flag]
  <1>4. forced \in Op /\ forced.pc = pc /\ forced.s = s BY <1>2, CallForces
  <1> HIDE DEF forced
  <1>5. op' = [op EXCEPT ![a] = forced] BY DEF forced
  <1> QED BY <1>4, <1>5, Begins

\* So is one that begins a renewal.
LEMMA BeginsRenewal ==
  ASSUME ServerTypeOK, NEW a \in Actors, NEW s \in Servers, NEW kind \in Kinds,
         NEW pc \in {"read", "extend", "build", "persist"},
         NEW flag \in BOOLEAN, NEW old \in 0..Never,
         op' = [op EXCEPT ![a] = [Call(kind, s, pc) EXCEPT !.was = flag, !.old = old]]
  PROVE  CallKept(a)
  <1>1. pc \in Steps BY DEF Steps
  <1>2. PICK call \in Op : call = Call(kind, s, pc) /\ call.pc = pc /\ call.s = s
    BY <1>1, CallBegins
  <1> DEFINE renewed == [call EXCEPT !.was = flag, !.old = old]
  <1>4. renewed \in Op /\ renewed.pc = call.pc /\ renewed.s = call.s BY DEF Op
  <1> HIDE DEF renewed
  <1>5. op' = [op EXCEPT ![a] = renewed] BY <1>2, Zenon DEF renewed
  <1> QED BY <1>2, <1>4, <1>5, Begins

\* A request begins, except the one that makes a server; the batch takes the next server.
LEMMA RequestSteps ==
  ASSUME ServerTypeOK, NEW r \in Requests, NEW s \in Busy, Begin(r, s), ~InsertServer(r, s)
  PROVE  Mild(r)
  <1>0. r \in Actors /\ s \in Servers BY ServerAssumption DEF Actors
  <1>1. CountersKept
    <2>1. UNCHANGED <<today, crashes, excused>>
      BY DEF Begin, ToggleSuspend, BatchSuspend, DeleteServer, BatchDelete, RenewServer,
             BatchRenew, SetExpiry, ReinstallServer
    <2>2. requests' = requests + 1 /\ requests < MaxRequests BY DEF Begin
    <2> QED BY <2>1, <2>2, TypeParts, ServerAssumption DEF CountersKept, CountersTyped
  <1>2. UNCHANGED <<database, wings, install, batch>>
    BY DEF Begin, ToggleSuspend, BatchSuspend, DeleteServer, BatchDelete, RenewServer,
           BatchRenew, SetExpiry, ReinstallServer
  <1>3. ContainersKept /\ DatabasesKept /\ BatchTyped' BY <1>2, Unchanged
  <1>4. RowsTyped /\ row[s] \in ServerRow BY <1>0, TypeParts DEF RowsTyped
  <1>5. CASE SetExpiry(r, s)
    <2>1. PICK day \in 0..Never : row' = [row EXCEPT ![s].exp = day] BY <1>5 DEF SetExpiry
    <2> DEFINE new == [row[s] EXCEPT !.exp = day]
    <2>2. new \in ServerRow /\ new.st = row[s].st BY <1>4 DEF ServerRow
    <2>3. row' = [row EXCEPT ![s] = new] BY <2>1
    <2>4. row[s].st \in Statuses BY <1>5 DEF SetExpiry, Exists
    <2> HIDE DEF new
    <2>5. RowsKept BY <1>0, <2>2, <2>3, <2>4, RowKept
    <2>6. op' = op BY <1>5 DEF SetExpiry
    <2>7. op[r] = NoOp BY DEF Begin
    <2>8. CallKept(r)
      BY <1>0, <2>6, <2>7, TypeParts DEF CallKept, CallsTyped, OthersWait, Harmless, NoOp
    <2> QED BY <1>0, <1>1, <1>3, <2>5, <2>8, MildParts
  <1>6. CASE ~SetExpiry(r, s)
    <2>1. row' = row
      BY <1>6 DEF Begin, ToggleSuspend, BatchSuspend, DeleteServer, BatchDelete, RenewServer,
                  BatchRenew, ReinstallServer
    <2>2. \/ ToggleSuspend(r, s) \/ BatchSuspend(r, s) \/ DeleteServer(r, s) \/ BatchDelete(r, s)
          \/ RenewServer(r, s) \/ BatchRenew(r, s) \/ ReinstallServer(r, s)
      BY <1>6 DEF Begin
    <2>3. Suspended(s) \in BOOLEAN /\ row[s].exp \in 0..Never
      BY <1>4 DEF Suspended, ServerRow
    <2>4. ASSUME ToggleSuspend(r, s) PROVE CallKept(r)
      <3>1. PICK kind \in Kinds : op' = [op EXCEPT ![r] = Call(kind, s, "read")]
        BY <2>4 DEF ToggleSuspend, Kinds
      <3> QED BY <1>0, <3>1, Begins
    <2>5. ASSUME BatchSuspend(r, s) \/ BatchDelete(r, s) PROVE CallKept(r)
      <3>1. PICK kind \in Kinds : op' = [op EXCEPT ![r] = Call(kind, s, "read")]
        BY <2>5 DEF BatchSuspend, BatchDelete, Kinds
      <3> QED BY <1>0, <3>1, Begins
    <2>6. ASSUME DeleteServer(r, s) \/ ReinstallServer(r, s) PROVE CallKept(r)
      <3>1. PICK kind \in Kinds, pc \in {"flag", "read"}, force \in BOOLEAN :
               op' = [op EXCEPT ![r] = [Call(kind, s, pc) EXCEPT !.force = force]]
        BY <2>6 DEF DeleteServer, ReinstallServer, Kinds
      <3> QED BY <1>0, <3>1, BeginsForced
    <2>7. ASSUME RenewServer(r, s) \/ BatchRenew(r, s) PROVE CallKept(r)
      <3>1. PICK kind \in Kinds, pc \in {"read", "extend", "build", "persist"} :
               op' = [op EXCEPT ![r] =
                         [Call(kind, s, pc) EXCEPT !.was = Suspended(s), !.old = row[s].exp]]
        BY <2>7 DEF RenewServer, BatchRenew, Kinds
      <3> QED BY <1>0, <2>3, <3>1, BeginsRenewal
    <2>11. CallKept(r)
      BY <2>2, <2>4, <2>5, <2>6, <2>7
    <2>12. RowsKept BY <2>1, Unchanged
    <2> QED BY <1>0, <1>1, <1>3, <2>11, <2>12, MildParts
  <1> QED BY <1>5, <1>6

\* The nightly jobs write only what is theirs.
LEMMA NightSteps ==
  ASSUME ServerTypeOK, NEW s \in Servers, NextServer(s)
  PROVE  Mild(Nightly)
  <1>1. Nightly \in Actors BY DEF Actors
  <1>2. StageKind \in Kinds BY DEF StageKind, Kinds
  <1>3. CallKept(Nightly) BY <1>1, <1>2, Begins DEF NextServer
  <1>4. BatchTyped' BY TypeParts DEF NextServer, BatchTyped, Rest
  <1>5. RowsKept /\ ContainersKept /\ DatabasesKept /\ CountersKept
    BY Unchanged DEF NextServer
  <1> QED BY <1>1, <1>3, <1>4, <1>5, MildParts

\* No actor sets out to make a container or to end a row.
Quiet ==
    /\ ServerTypeOK' /\ StandingKept
    /\ \A a \in Actors : op'[a] = op[a] \/ Harmless(a)

\* The installation, the stages of the batch, time and restarts are quiet.
LEMMA QuietSteps ==
  ASSUME ServerTypeOK,
         \/ \E s \in Servers : InstallStarts(s) \/ InstallEnds(s)
         \/ ForceReinstallReset \/ DailyLifecycleBatch \/ Tick \/ Crash
  PROVE  Quiet
  <1>0. /\ RowsTyped /\ ContainersTyped /\ CallsTyped /\ BatchTyped /\ CountersTyped
        /\ excused \subseteq Servers
    BY TypeParts
  <1>c. /\ UNCHANGED <<today, requests, crashes, excused>> => CountersKept
        /\ UNCHANGED row => RowsKept
        /\ UNCHANGED database => DatabasesKept
        /\ UNCHANGED batch => BatchTyped'
        /\ UNCHANGED <<wings, install>> => ContainersKept
    BY Unchanged
  <1>d. UNCHANGED op => CallsTyped' /\ \A a \in Actors : op'[a] = op[a] BY <1>0 DEF CallsTyped
  <1>p. RowsKept /\ ContainersKept /\ DatabasesKept /\ BatchTyped' /\ CountersKept
        /\ CallsTyped' /\ (\A a \in Actors : op'[a] = op[a] \/ Harmless(a)) => Quiet
    BY DEF Quiet, ServerTypeOK, StandingKept, RowsKept, ContainersKept, DatabasesKept,
           CountersKept, CountersTyped, RowsTyped, ContainersTyped, CallsTyped, BatchTyped, Up
  <1>1. ASSUME NEW s \in Servers, InstallStarts(s) PROVE Quiet
    <2>1. ContainersKept
      <3>1. PICK script \in {"wipes", "keeps"} : install' = [install EXCEPT ![s] = script]
        BY <1>1 DEF InstallStarts
      <3>2. install[s] # "none" /\ wings' = wings BY <1>1 DEF InstallStarts
      <3> QED BY <1>0, <3>1, <3>2 DEF ContainersKept, ContainersTyped, Up
    <2>2. UNCHANGED <<row, database, op, batch, today, requests, crashes, excused>>
      BY <1>1 DEF InstallStarts
    <2> QED BY <2>1, <2>2, <1>c, <1>d, <1>p
  <1>2. ASSUME NEW s \in Servers, InstallEnds(s) PROVE Quiet
    <2>1. ContainersKept
      <3>1. install' = [install EXCEPT ![s] = "none"] /\ wings' = wings
        BY <1>2 DEF InstallEnds
      <3> QED BY <1>0, <3>1 DEF ContainersKept, ContainersTyped, Up
    <2>2. RowsKept
      <3>1. CASE row' = row BY <3>1, <1>c
      <3>2. ASSUME Exists(s), NEW st \in {"null", "failed"},
                   row' = [row EXCEPT ![s].installed = TRUE,
                                      ![s].st = IF @ = "suspended" THEN @ ELSE st]
            PROVE  RowsKept
        <4> DEFINE status == IF row[s].st = "suspended" THEN row[s].st ELSE st
                   new == [row[s] EXCEPT !.installed = TRUE, !.st = status]
        <4>1. row[s] \in ServerRow BY <1>0 DEF RowsTyped
        <4>2. status \in Statuses BY DEF Statuses
        <4>3. row' = [row EXCEPT ![s].installed = TRUE, ![s].st = status]
          BY <1>0, <3>2, <4>1 DEF RowsTyped, ServerRow
        <4> HIDE DEF status
        <4>4. new \in ServerRow /\ new.st \in Statuses BY <4>1, <4>2 DEF ServerRow
        <4>5. row' = [row EXCEPT ![s] = new] BY <1>0, <4>3 DEF RowsTyped
        <4> HIDE DEF new
        <4> QED BY <4>4, <4>5, RowKept
      <3> QED BY <1>2, <3>1, <3>2 DEF InstallEnds
    <2>3. UNCHANGED <<database, op, batch, today, requests, crashes, excused>>
      BY <1>2 DEF InstallEnds
    <2> QED BY <2>1, <2>2, <2>3, <1>c, <1>d, <1>p
  <1>3. CASE ForceReinstallReset
    <2>1. \A s \in Servers : [row[s] EXCEPT !.force = row[s].force /\ ~Resettable(s)] \in ServerRow
      BY <1>0 DEF RowsTyped, ServerRow, Resettable
    <2>2. \A s \in Servers :
             [row[s] EXCEPT !.force = row[s].force /\ ~Resettable(s)].st = row[s].st
      BY <1>0 DEF RowsTyped, ServerRow
    <2>3. /\ DOMAIN row' = Servers /\ row' = [s \in Servers |-> row'[s]]
          /\ \A s \in Servers : row'[s] = [row[s] EXCEPT !.force = row[s].force /\ ~Resettable(s)]
      BY <1>0, <1>3, Zenon DEF ForceReinstallReset, RowsTyped, ServerRow
    <2>a. \A s \in Servers : row'[s] \in ServerRow /\ row'[s].st = row[s].st
      BY <2>1, <2>2, <2>3, Zenon
    <2>b. RowsTyped' BY <2>a, <2>3 DEF RowsTyped
    <2>4. RowsKept BY <2>a, <2>b DEF RowsKept, Exists
    <2>5. UNCHANGED <<wings, install, database, op, batch, today, requests, crashes, excused>>
      BY <1>3 DEF ForceReinstallReset
    <2> QED BY <2>4, <2>5, <1>c, <1>d, <1>p
  <1>4. CASE DailyLifecycleBatch
    <2>1. BatchTyped'
      BY <1>4 DEF DailyLifecycleBatch, EnterStage, BatchTyped, Stages, SuspendCandidates,
                  ExpiredBeforeOrOn, TrialExpired
    <2>2. UNCHANGED <<row, wings, install, database, op, today, requests, crashes, excused>>
      BY <1>4 DEF DailyLifecycleBatch, EnterStage
    <2> QED BY <2>1, <2>2, <1>c, <1>d, <1>p
  <1>5. CASE Tick
    <2>1. CountersKept
      BY <1>0, <1>5, ServerAssumption DEF Tick, CountersKept, CountersTyped
    <2>2. UNCHANGED <<row, wings, install, database, op, batch>> BY <1>5 DEF Tick
    <2> QED BY <2>1, <2>2, <1>c, <1>d, <1>p
  <1>6. CASE Crash
    <2>1. CountersKept
      BY <1>0, <1>6, ServerAssumption DEF Crash, CountersKept, CountersTyped
    <2>2. BatchTyped' BY <1>6 DEF Crash, BatchTyped, IdleBatch, Stages
    <2>3. NoOp \in Op BY ServerAssumption DEF NoOp, Op, Kinds, Steps, Statuses, Never
    <2>4. CallsTyped' /\ \A a \in Actors : Harmless(a)
      BY <1>6, <2>3 DEF Crash, CallsTyped, Harmless, NoOp
    <2>5. UNCHANGED <<row, wings, install, database>> BY <1>6 DEF Crash
    <2> QED BY <2>1, <2>2, <2>4, <2>5, <1>c, <1>p
  <1> QED BY <1>1, <1>2, <1>3, <1>4, <1>5, <1>6

-------------------------------------------------------------------------------
(* The invariant *)

\* While rows and containers keep their standing, an actor that sets out to end a row or
\* to make a container need only have established what it must.
LEMMA StandingStays ==
  ASSUME Standing, StandingKept, NEW a \in Actors,
         \A b \in Actors \ {a} : op'[b] = op[b] \/ Harmless(b),
         CallInOrder(a)',
         Creating(a)' => \A b \in Actors \ {a} : Creating(b) => op[b].s # op'[a].s
  PROVE  Standing'
  <1>1. OrphansExplained' BY DEF Standing, StandingKept, OrphansExplained
  <1>2. UnbornHasNothing' BY DEF Standing, StandingKept, UnbornHasNothing
  <1>3. ASSUME NEW b \in Actors PROVE CallInOrder(b)'
    <2>1. CASE b = a BY <2>1
    <2>2. CASE Harmless(b) BY <2>2 DEF Harmless, CallInOrder, Creating, At, Target
    <2>3. CASE op'[b] = op[b]
      <3>1. CallInOrder(b) BY DEF Standing
      <3>2. op[b].pc # "idle" => op[b].s \in Servers BY <3>1 DEF CallInOrder, At, Target
      <3> QED BY <2>3, <3>1, <3>2 DEF CallInOrder, Creating, At, Target, StandingKept
    <2> QED BY <2>1, <2>2, <2>3
  <1>4. CreatorsApart'
    BY DEF Standing, CreatorsApart, Creating, Target, Harmless
  <1> QED BY <1>1, <1>2, <1>3, <1>4 DEF Standing

\* Quiet steps, and what an actor does on its way, keep the invariant.
LEMMA QuietKeeps ==
  ASSUME Standing, StandingKept, \A b \in Actors : op'[b] = op[b] \/ Harmless(b)
  PROVE  Standing'
  <1>1. OrphansExplained' BY DEF Standing, StandingKept, OrphansExplained
  <1>2. UnbornHasNothing' BY DEF Standing, StandingKept, UnbornHasNothing
  <1>3. ASSUME NEW b \in Actors PROVE CallInOrder(b)'
    <2>1. CASE Harmless(b) BY <2>1 DEF Harmless, CallInOrder, Creating, At, Target
    <2>2. CASE op'[b] = op[b]
      <3>1. CallInOrder(b) BY DEF Standing
      <3>2. op[b].pc # "idle" => op[b].s \in Servers BY <3>1 DEF CallInOrder, At, Target
      <3> QED BY <2>2, <3>1, <3>2 DEF CallInOrder, Creating, At, Target, StandingKept
    <2> QED BY <2>1, <2>2
  <1>4. CreatorsApart' BY DEF Standing, CreatorsApart, Creating, Target, Harmless
  <1> QED BY <1>1, <1>2, <1>3, <1>4 DEF Standing

\* Steps that make and remove nothing keep the invariant.
LEMMA MildKeeps ==
  ASSUME ServerIInv, NEW a \in Actors, Mild(a)
  PROVE  ServerIInv'
  BY QuietKeeps DEF ServerIInv, Mild, OthersWait

\* A call moves on to a step of its way.
LEMMA OnItsWay ==
  ASSUME ServerTypeOK, NEW a \in Actors, NEW pc \in Steps, Goto(a, pc)
  PROVE  CallsTyped' /\ OthersWait(a) /\ op'[a].pc = pc /\ op'[a].s = Target(a)
  BY CallMoves, TypeParts DEF CallsTyped, OthersWait, Target

\* The types after a step, table by table.
LEMMA TypesAfter ==
  ASSUME RowsTyped', ContainersTyped', CallsTyped', BatchTyped', CountersTyped',
         database' \in [Servers -> {"none", "both", "row"}], excused' \subseteq Servers
  PROVE  ServerTypeOK'
  BY DEF ServerTypeOK, CountersTyped, RowsTyped, ContainersTyped, CallsTyped, BatchTyped, Up

\* The steps of a deletion up to the one that ends the row.
LEMMA DeletionSteps ==
  ASSUME ServerIInv, NEW a \in Actors,
         DestroyAnswers(a) \/ DestroyFails(a) \/ DatabasesDropped(a)
  PROVE  ServerIInv'
  <1> USE DEF ServerIInv
  <1>i. CallInOrder(a) BY DEF Standing
  <1> SUFFICES ASSUME NEW s \in Servers, s = Target(a) PROVE ServerIInv'
    BY <1>i DEF CallInOrder, At, DestroyAnswers, DestroyFails, DatabasesDropped
  <1>0. /\ RowsTyped /\ ContainersTyped /\ CallsTyped /\ BatchTyped /\ CountersTyped
        /\ database \in [Servers -> {"none", "both", "row"}] /\ excused \subseteq Servers
    BY TypeParts
  <1>c. /\ UNCHANGED <<today, requests, crashes, excused>> => CountersKept
        /\ UNCHANGED row => RowsKept
        /\ UNCHANGED database => DatabasesKept
        /\ UNCHANGED batch => BatchTyped'
        /\ UNCHANGED <<wings, install>> => ContainersKept
        /\ StageContinues(a) \/ StageAborts(a) => BatchTyped'
    BY Unchanged, WingsKept
  <1>d. Destroyed(s) => ContainersKept /\ ~Up(s)' BY <1>0, WingsTyped DEF ContainersKept
  <1>k. RowsKept /\ ContainersKept /\ DatabasesKept /\ CountersKept => StandingKept
    BY DEF RowsKept, ContainersKept, DatabasesKept, CountersKept, StandingKept
  <1>t. RowsKept /\ ContainersKept /\ DatabasesKept /\ CountersKept /\ CallsTyped' /\ BatchTyped'
        => ServerTypeOK'
    BY TypesAfter DEF RowsKept, ContainersKept, DatabasesKept, CountersKept
  <1>w. ASSUME Goto(a, "bases"), StandingKept, Up(s)' => s \in excused'
        PROVE  Standing'
    <2>1. OthersWait(a) /\ op'[a].pc = "bases" /\ op'[a].s = s BY <1>w, OnItsWay DEF Steps
    <2>2. CallInOrder(a)' BY <1>w, <2>1 DEF CallInOrder, Creating, At, Target
    <2>3. ~Creating(a)' BY <2>1 DEF Creating
    <2> QED BY <1>w, <2>1, <2>2, <2>3, StandingStays DEF OthersWait
  <1>1. CASE DestroyAnswers(a)
    <2>1. RowsKept /\ ContainersKept /\ DatabasesKept /\ CountersKept /\ BatchTyped'
          /\ ~Up(s)' /\ Goto(a, "bases")
      BY <1>1, <1>c, <1>d DEF DestroyAnswers
    <2>2. CallsTyped' BY <2>1, OnItsWay DEF Steps
    <2> QED BY <2>1, <2>2, <1>k, <1>t, <1>w
  <1>2. CASE DestroyFails(a)
    <2>1. RowsKept /\ ContainersKept /\ DatabasesKept BY <1>2, <1>c, <1>d DEF DestroyFails
    <2>2. CountersKept
      BY <1>0, <1>2 DEF DestroyFails, CountersKept, CountersTyped
    <2>3. BatchTyped' BY <1>2, <1>c DEF DestroyFails, AfterFailedDestroy
    <2>4. CASE op[a].force
      <3>1. Goto(a, "bases") BY <1>2, <2>4 DEF DestroyFails, AfterFailedDestroy
      <3>2. CallsTyped' BY <3>1, OnItsWay DEF Steps
      <3>3. Up(s)' => Up(s) BY <2>1 DEF ContainersKept
      <3>4. Up(s) => s \in excused' BY <1>2, <2>4 DEF DestroyFails
      <3> QED BY <2>1, <2>2, <2>3, <3>1, <3>2, <3>3, <3>4, <1>k, <1>t, <1>w
    <2>5. CASE ~op[a].force
      <3>1. CallKept(a) BY <1>2, <2>5, CallsKept DEF DestroyFails, AfterFailedDestroy
      <3> QED BY <2>1, <2>2, <2>3, <3>1, MildParts, MildKeeps
    <2> QED BY <2>4, <2>5
  <1>3. CASE DatabasesDropped(a)
    <2>1. RowsKept /\ ContainersKept /\ CountersKept /\ BatchTyped' /\ Goto(a, "drop")
          /\ UNCHANGED <<row, wings, excused>>
      BY <1>3, <1>c DEF DatabasesDropped
    <2>2. DatabasesKept /\ database'[s] # "both"
      BY <1>0, <1>3 DEF DatabasesDropped, Dropped, DatabasesKept, HasDatabase
    <2>3. CallsTyped' /\ OthersWait(a) /\ op'[a].pc = "drop" /\ op'[a].s = s
      BY <2>1, OnItsWay DEF Steps
    <2>4. Up(s) => s \in excused BY <1>3, <1>i DEF DatabasesDropped, CallInOrder, At
    <2>5. CallInOrder(a)' BY <2>1, <2>2, <2>3, <2>4 DEF CallInOrder, Creating, At, Target, Up
    <2>6. ~Creating(a)' BY <2>3 DEF Creating
    <2>7. StandingKept BY <2>1, <2>2, <1>k
    <2>8. Standing' BY <2>3, <2>5, <2>6, <2>7, StandingStays DEF OthersWait
    <2> QED BY <2>1, <2>2, <2>3, <2>8, <1>t
  <1> QED BY <1>1, <1>2, <1>3

\* A row ends: whoever ends it knows of no container that is not excused, and of no
\* database.
LEMMA RowEnds ==
  ASSUME ServerIInv, NEW a \in Actors, DeleteServerRow(a) \/ RevertCreate(a)
  PROVE  ServerIInv'
  <1> USE DEF ServerIInv
  <1>i. CallInOrder(a) BY DEF Standing
  <1> SUFFICES ASSUME NEW s \in Servers, s = Target(a) PROVE ServerIInv'
    BY <1>i DEF CallInOrder, At, DeleteServerRow, RevertCreate
  <1>0. /\ RowsTyped /\ ContainersTyped /\ CallsTyped /\ BatchTyped /\ CountersTyped
        /\ database \in [Servers -> {"none", "both", "row"}] /\ excused \subseteq Servers
    BY TypeParts
  <1>1. GoneRow \in ServerRow /\ GoneRow.st = "gone"
    <2>1. NoRow \in ServerRow BY ServerAssumption DEF NoRow, ServerRow, Never
    <2> QED BY <2>1 DEF GoneRow, ServerRow
  <1>2. row' = [row EXCEPT ![s] = GoneRow] BY DEF DeleteServerRow, RevertCreate
  <1>3. RowsTyped' /\ row'[s] = GoneRow /\ \A t \in Servers \ {s} : row'[t] = row[t]
    BY <1>0, <1>1, <1>2, RowWrite
  <1>4. /\ UNCHANGED <<wings, install, batch, today, requests, crashes, excused>>
        /\ op' = [op EXCEPT ![a] = NoOp]
    BY DEF DeleteServerRow, RevertCreate, Finish
  <1>5. Up(s) => s \in excused BY <1>i DEF DeleteServerRow, RevertCreate, CallInOrder, At
  <1>6. /\ database' \in [Servers -> {"none", "both", "row"}]
        /\ database'[s] = "none" /\ \A t \in Servers \ {s} : database'[t] = database[t]
    <2>1. CASE DeleteServerRow(a) BY <1>0, <2>1 DEF DeleteServerRow
    <2>2. CASE RevertCreate(a)
      <3>1. database[s] = "none"
        BY <2>2, <1>i DEF RevertCreate, CallInOrder, Creating, At, HasDatabase
      <3> QED BY <1>0, <2>2, <3>1 DEF RevertCreate
    <2> QED BY <2>1, <2>2
  <1>7. NoOp \in Op /\ NoOp.pc = "idle"
    BY ServerAssumption DEF NoOp, Op, Kinds, Steps, Statuses, Never
  <1>8. CallsTyped' /\ op'[a] = NoOp /\ \A b \in Actors \ {a} : op'[b] = op[b]
    BY <1>0, <1>4, <1>7 DEF CallsTyped
  <1>9. ServerTypeOK'
    BY <1>0, <1>3, <1>4, <1>6, <1>8, TypesAfter
       DEF ContainersTyped, BatchTyped, CountersTyped, Up
  <1>10. OrphansExplained'
    BY <1>1, <1>3, <1>4, <1>5, <1>6
       DEF Standing, OrphansExplained, Exists, Up, HasDatabase, Statuses
  <1>11. UnbornHasNothing' BY <1>1, <1>3, <1>4 DEF Standing, UnbornHasNothing, Up
  <1>12. ASSUME NEW b \in Actors PROVE CallInOrder(b)'
    <2>1. CASE b = a BY <2>1, <1>7, <1>8 DEF CallInOrder, Creating, At, Target
    <2>2. CASE b # a
      <3>1. CallInOrder(b) /\ op'[b] = op[b] BY <2>2, <1>8 DEF Standing
      <3>2. op[b].pc # "idle" => op[b].s \in Servers BY <3>1 DEF CallInOrder, At, Target
      <3>3. \A t \in Servers : /\ row'[t].st = "unborn" => row[t].st = "unborn"
                               /\ database'[t] # "none" => database'[t] = database[t]
        BY <1>1, <1>3, <1>6
      <3>4. database'[s] = "none" => database'[s] # "both" OBVIOUS
      <3> QED BY <1>4, <1>6, <3>1, <3>2, <3>3, <3>4
              DEF CallInOrder, Creating, At, Target, Up, HasDatabase
    <2> QED BY <2>1, <2>2
  <1>13. CreatorsApart' BY <1>7, <1>8 DEF Standing, CreatorsApart, Creating, Target
  <1> QED BY <1>9, <1>10, <1>11, <1>12, <1>13 DEF Standing

\* A container is made where its row is; no other request makes it, and a deletion that has
\* passed Wings already, or the loss of the answer, excuses it.
LEMMA CreateSteps ==
  ASSUME ServerIInv, NEW a \in Actors, CreateAnswers(a) \/ CreateFails(a)
  PROVE  ServerIInv'
  <1> USE DEF ServerIInv
  <1>i. CallInOrder(a) /\ At(a, "create") BY DEF Standing, CreateAnswers, CreateFails
  <1> SUFFICES ASSUME NEW s \in Servers, s = Target(a) PROVE ServerIInv'
    BY <1>i DEF CallInOrder, At
  <1>0. /\ RowsTyped /\ ContainersTyped /\ CallsTyped /\ BatchTyped /\ CountersTyped
        /\ database \in [Servers -> {"none", "both", "row"}] /\ excused \subseteq Servers
    BY TypeParts
  <1>1. /\ ContainersTyped' /\ \A t \in Servers \ {s} : Up(t)' <=> Up(t)
        /\ Up(s)' => Up(s) \/ Installed(a)
    <2>1. CASE Installed(a) BY <1>0, <2>1, WingsTyped
    <2>2. CASE UNCHANGED <<wings, install>> BY <1>0, <2>2, WingsTyped
    <2> QED BY <2>1, <2>2 DEF CreateAnswers, CreateFails
  <1>2. PICK pc \in {"meta", "revert"} : Goto(a, pc) /\ (pc = "revert" => CreateFails(a))
    BY DEF CreateAnswers, CreateFails
  <1>3. CallsTyped' /\ op'[a].pc = pc /\ op'[a].s = s /\ \A b \in Actors \ {a} : op'[b] = op[b]
    BY <1>2, OnItsWay DEF Steps, OthersWait
  <1>4. UNCHANGED <<database, row, batch, today, requests, crashes>>
    BY DEF CreateAnswers, CreateFails
  <1>5. excused \subseteq excused' /\ excused' \subseteq Servers
    BY <1>0 DEF CreateAnswers, CreateFails
  <1>6. ServerTypeOK'
    BY <1>0, <1>1, <1>3, <1>4, <1>5, TypesAfter DEF RowsTyped, BatchTyped, CountersTyped
  <1>7. ~Up(s) /\ row[s].st # "unborn" /\ ~HasDatabase(s) BY <1>i DEF CallInOrder, Creating, At
  <1>8. Up(s)' => Exists(s) /\ (CreateFails(a) \/ Overtaken(s) => s \in excused')
    BY <1>1, <1>7 DEF Installed, CreateAnswers, CreateFails, Up
  <1>9. OrphansExplained'
    BY <1>1, <1>4, <1>5, <1>8 DEF Standing, OrphansExplained, Exists, HasDatabase
  <1>10. UnbornHasNothing' BY <1>1, <1>4, <1>7 DEF Standing, UnbornHasNothing
  <1>11. ASSUME NEW b \in Actors PROVE CallInOrder(b)'
    <2>1. CASE b = a
      <3>1. pc = "revert" => (Up(s)' => s \in excused')
        BY <1>2, <1>8
      <3> QED BY <2>1, <1>3, <1>4, <1>7, <3>1
              DEF CallInOrder, Creating, At, Target, HasDatabase, Up
    <2>2. CASE b # a /\ op[b].s # s
      <3>1. CallInOrder(b) /\ op'[b] = op[b] BY <2>2, <1>3 DEF Standing
      <3>2. op[b].pc # "idle" => op[b].s \in Servers BY <3>1 DEF CallInOrder, At, Target
      <3> QED BY <2>2, <1>1, <1>4, <1>5, <3>1, <3>2
              DEF CallInOrder, Creating, At, Target, HasDatabase
    <2>3. CASE b # a /\ op[b].s = s
      <3>1. CallInOrder(b) /\ op'[b] = op[b] BY <2>3, <1>3 DEF Standing
      <3>2. ~Creating(b)
        BY <2>3, <1>i DEF Standing, CreatorsApart, Creating, At, Target
      <3>3. op[b].pc \in {"bases", "drop"} => (Up(s)' => s \in excused')
        BY <2>3, <1>8 DEF Overtaken, At, Target
      <3>4. At(b, "drop") => database'[s] # "both" BY <2>3, <3>1, <1>4 DEF CallInOrder, Target
      <3> QED BY <2>3, <3>1, <3>2, <3>3, <3>4, <1>4 DEF CallInOrder, Creating, At, Target
    <2> QED BY <2>1, <2>2, <2>3
  <1>12. CreatorsApart' BY <1>3, <1>i DEF Standing, CreatorsApart, Creating, Target, At
  <1> QED BY <1>6, <1>9, <1>10, <1>11, <1>12 DEF Standing

\* A request makes a row of a server that has none, nothing else and no other request.
LEMMA InsertStep ==
  ASSUME ServerIInv, NEW r \in Requests, NEW s \in Busy, Begin(r, s), InsertServer(r, s)
  PROVE  ServerIInv'
  <1> USE DEF ServerIInv
  <1>0. /\ RowsTyped /\ ContainersTyped /\ CallsTyped /\ BatchTyped /\ CountersTyped
        /\ database \in [Servers -> {"none", "both", "row"}] /\ excused \subseteq Servers
        /\ r \in Actors /\ s \in Servers
    BY TypeParts, ServerAssumption DEF Actors
  <1> DEFINE new == [row[s] EXCEPT !.st = "installing"]
  <1>1. new \in ServerRow /\ new.st \in Statuses
    BY <1>0 DEF RowsTyped, ServerRow, Statuses
  <1>2. row' = [row EXCEPT ![s] = new] BY DEF InsertServer
  <1> HIDE DEF new
  <1>3. RowsKept BY <1>0, <1>1, <1>2, RowKept
  <1>4. row'[s].st # "unborn" BY <1>0, <1>1, <1>2 DEF RowsTyped, Statuses
  <1>5. UNCHANGED <<database, wings, install, batch, today, crashes, excused>>
        /\ requests' = requests + 1 /\ requests < MaxRequests
    BY DEF InsertServer, Begin
  <1>6. CountersKept BY <1>0, <1>5, ServerAssumption DEF CountersKept, CountersTyped
  <1>7. ContainersKept /\ DatabasesKept /\ BatchTyped' BY <1>5, Unchanged
  <1> DEFINE call == [NoOp EXCEPT !.kind = "create", !.s = s, !.pc = "create"]
  <1>8. NoOp \in Op BY ServerAssumption DEF NoOp, Op, Kinds, Steps, Statuses, Never
  <1>9. call \in Op /\ call.pc = "create" /\ call.s = s BY <1>0, <1>8 DEF Op, Kinds, Steps
  <1>10. op' = [op EXCEPT ![r] = call] BY DEF InsertServer
  <1> HIDE DEF call
  <1>11. CallsTyped' /\ op'[r].pc = "create" /\ op'[r].s = s
         /\ \A b \in Actors \ {r} : op'[b] = op[b]
    BY <1>0, <1>9, <1>10 DEF CallsTyped
  <1>12. ServerTypeOK'
    BY <1>3, <1>6, <1>7, <1>11, TypesAfter DEF RowsKept, ContainersKept, DatabasesKept, CountersKept
  <1>13. StandingKept
    BY <1>3, <1>6, <1>7 DEF RowsKept, ContainersKept, DatabasesKept, CountersKept, StandingKept
  <1>14. row[s].st = "unborn" BY DEF InsertServer
  <1>15. ~Up(s) /\ ~HasDatabase(s)
    BY <1>0, <1>14 DEF Standing, UnbornHasNothing, OrphansExplained, Exists, Statuses
  <1>16. CallInOrder(r)'
    BY <1>0, <1>4, <1>5, <1>11, <1>15 DEF CallInOrder, Creating, At, Target, Up, HasDatabase
  <1>17. \A b \in Actors \ {r} : Creating(b) => op[b].s # op'[r].s
    BY <1>11, <1>14 DEF Standing, CallInOrder, Target
  <1>18. Standing' BY <1>0, <1>11, <1>13, <1>16, <1>17, StandingStays
  <1> QED BY <1>12, <1>18

-------------------------------------------------------------------------------
(* The theorems *)

\* At first every server has a row and its container, or neither.
LEMMA ServersAtFirst == ServerInit => ServerIInv
  <1> SUFFICES ASSUME ServerInit PROVE ServerIInv OBVIOUS
  <1>1. PICK born \in SUBSET Servers, trials \in SUBSET Servers, dated \in SUBSET Servers :
        /\ row = [s \in Servers |->
                    IF s \notin born THEN NoRow
                    ELSE [st |-> "null", exp |-> IF s \in dated THEN 0 ELSE Never,
                          trial |-> s \in trials, installed |-> TRUE, force |-> FALSE]]
        /\ wings = [s \in Servers |-> IF s \in born THEN "on" ELSE "absent"]
        /\ database \in [Servers -> {"none", "both"}]
        /\ \A s \in Servers \ born : database[s] = "none"
    BY DEF ServerInit
  <1>2. \A s \in Servers : row[s] \in ServerRow
                           /\ row[s].st = IF s \in born THEN "null" ELSE "unborn"
    <2> TAKE s \in Servers
    <2>1. CASE s \notin born
      <3>1. NoRow \in ServerRow /\ NoRow.st = "unborn"
        BY ServerAssumption DEF NoRow, ServerRow, Never
      <3> QED BY <1>1, <2>1, <3>1
    <2>2. CASE s \in born
      <3>1. \A exp \in 0..Never, trial \in BOOLEAN :
               [st |-> "null", exp |-> exp, trial |-> trial, installed |-> TRUE, force |-> FALSE]
                  \in ServerRow
        BY DEF ServerRow, Statuses
      <3>2. 0 \in 0..Never /\ Never \in 0..Never BY ServerAssumption DEF Never
      <3> DEFINE exp == IF s \in dated THEN 0 ELSE Never
                 trial == s \in trials
      <3>3. row[s] = [st |-> "null", exp |-> exp, trial |-> trial, installed |-> TRUE,
                      force |-> FALSE]
        BY <1>1, <2>2
      <3>4. exp \in 0..Never BY <3>2
      <3>5. trial \in BOOLEAN OBVIOUS
      <3> HIDE DEF exp, trial
      <3>6. row[s] \in ServerRow BY <3>1, <3>3, <3>4, <3>5
      <3>7. row[s].st = "null" BY <3>3
      <3> QED BY <2>2, <3>6, <3>7
    <2> QED BY <2>1, <2>2
  <1>3. RowsTyped
    <2>1. row = [s \in Servers |-> row[s]] BY <1>1
    <2> QED BY <1>2, <2>1 DEF RowsTyped
  <1>4. NoOp \in Op /\ NoOp.pc = "idle"
    BY ServerAssumption DEF NoOp, Op, Kinds, Steps, Statuses, Never
  <1>5. CallsTyped /\ \A a \in Actors : op[a] = NoOp BY <1>4 DEF ServerInit, CallsTyped
  <1>6. ContainersTyped BY <1>1 DEF ServerInit, ContainersTyped, Up
  <1>7. BatchTyped BY DEF ServerInit, BatchTyped, IdleBatch, Stages
  <1>8. CountersTyped BY ServerAssumption DEF ServerInit, CountersTyped
  <1>9. ServerTypeOK
    BY <1>1, <1>3, <1>5, <1>6, <1>7, <1>8
       DEF ServerInit, ServerTypeOK, RowsTyped, ContainersTyped, CallsTyped, BatchTyped,
           CountersTyped
  <1>10. OrphansExplained /\ UnbornHasNothing
    BY <1>1, <1>2 DEF OrphansExplained, UnbornHasNothing, Exists, Up, HasDatabase, Statuses
  <1>11. \A a \in Actors : CallInOrder(a) /\ ~Creating(a)
    BY <1>4, <1>5 DEF CallInOrder, Creating, At
  <1> QED BY <1>9, <1>10, <1>11 DEF ServerIInv, Standing, CreatorsApart

\* Every step keeps the invariant.
LEMMA ServerStep == ServerIInv /\ [ServerNext]_serverVars => ServerIInv'
  <1> SUFFICES ASSUME ServerIInv, [ServerNext]_serverVars PROVE ServerIInv'
    OBVIOUS
  <1>t. ServerTypeOK /\ Standing BY DEF ServerIInv
  <1>1. ASSUME NEW r \in Requests, NEW s \in Busy, Begin(r, s) PROVE ServerIInv'
    <2>1. r \in Actors BY DEF Actors
    <2> QED BY <1>1, <1>t, <2>1, InsertStep, RequestSteps, MildKeeps
  <1>2. ASSUME NEW a \in Actors, Proceed(a) PROVE ServerIInv'
    <2>1. CallInOrder(a) BY <1>t DEF Standing
    <2>2. CASE \/ SetForceFlag(a) \/ SetServerStatus(a) \/ Compensate(a) \/ PersistServer(a)
               \/ Extend(a) \/ PersistExpiration(a)
      BY <1>t, <2>1, <2>2, RowSteps, MildKeeps
    <2>3. CASE \/ Resolve(a) \/ WingsAnswers(a) \/ WingsFails(a) \/ ConvertBuild(a)
               \/ DropFails(a)
      BY <1>t, <2>1, <2>3, CallSteps, MildKeeps
    <2>4. CASE DestroyAnswers(a) \/ DestroyFails(a) \/ DatabasesDropped(a)
      BY <2>4, DeletionSteps
    <2>5. CASE DeleteServerRow(a) \/ RevertCreate(a) BY <2>5, RowEnds
    <2>6. CASE CreateAnswers(a) \/ CreateFails(a) BY <2>6, CreateSteps
    <2> QED BY <1>2, <2>2, <2>3, <2>4, <2>5, <2>6 DEF Proceed
  <1>3. CASE \/ \E s \in Servers : InstallStarts(s) \/ InstallEnds(s)
             \/ ForceReinstallReset \/ DailyLifecycleBatch \/ Tick \/ Crash
    BY <1>3, <1>t, QuietSteps, QuietKeeps DEF Quiet, ServerIInv
  <1>4. ASSUME NEW s \in Servers, NextServer(s) PROVE ServerIInv'
    <2>1. Nightly \in Actors BY DEF Actors
    <2> QED BY <1>4, <1>t, <2>1, NightSteps, MildKeeps
  <1>5. CASE UNCHANGED serverVars
    BY <1>5, <1>t
       DEF serverVars, ServerIInv, ServerTypeOK, Standing, OrphansExplained, UnbornHasNothing,
           CallInOrder, CreatorsApart, Creating, At, Target, Up, HasDatabase, Exists
  <1> QED BY <1>1, <1>2, <1>3, <1>4, <1>5 DEF ServerNext, BatchSteps

\* The invariant holds of every server, however many there are, and of any number of
\* requests, days and restarts (server_lifecycle.py).
THEOREM ServerInvariant == ServerSpec => []ServerIInv
  BY ServersAtFirst, ServerStep, PTL DEF ServerSpec

\* Every variable of the lifecycle keeps its type, and an install script has a container.
THEOREM ServerTypeCorrect == ServerSpec => []ServerTypeOK
  <1>1. ServerIInv => ServerTypeOK BY DEF ServerIInv
  <1> QED BY <1>1, ServerInvariant, PTL

\* A container without a row is one that was left behind knowingly, and no database is left
\* behind (server_lifecycle.py create_server, delete_server).
THEOREM NoUnexplainedOrphan == ServerSpec => []OrphansExplained
  <1>1. ServerIInv => OrphansExplained BY DEF ServerIInv, Standing
  <1> QED BY <1>1, ServerInvariant, PTL
===============================================================================
