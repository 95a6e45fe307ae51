------------------------------- MODULE TunnelProofs ------------------------------
(***************************************************************************)
(* Proofs about Tunnels: whatever requests, deletions and restarts do in   *)
(* whatever order, a record that is still at Cloudflare is somebody's.     *)
(*                                                                         *)
(* A request owes a record between Cloudflare's answer and the row that    *)
(* takes it, and between the row that lets it go and its deletion; at any  *)
(* other time the rows and the lists have it.                              *)
(*                                                                         *)
(* And requests that do not overlap keep what is active served.            *)
(***************************************************************************)
EXTENDS Tunnels, TLAPS

-------------------------------------------------------------------------------
(* The inductive invariant *)

\* The records only this request knows of.
Owed(a) == IF op[a].pc \in {"save", "undo"} THEN {op[a].rec}
           ELSE IF op[a].pc = "olddns" THEN {op[a].old.rec} ELSE {}

Known(rec) ==
    \/ \E s \in Servers : row[s].rec = rec
    \/ <<"dns", rec>> \in orphans \/ rec \in excused
    \/ \E a \in Actors : rec \in Owed(a)

\* A record that a row or a request names has been created.
Created(rec) == rec # 0 => dns[rec] # None

\* What a request knows of its server, its name and its record where it is.
CallInOrder(a) ==
    LET o == op[a] IN
    /\ o.pc \in {"dns", "save", "undo"} => o.name \in Labels \X {o.zone}
    /\ o.pc \in {"save", "undo"} => o.rec # 0 /\ dns[o.rec] \in {o.name, Gone}
    /\ Created(o.rec)
    /\ o.pc = "delrow" /\ ~o.failed /\ o.rec # 0 => dns[o.rec] = Gone \/ o.rec \in excused
    /\ o.pc \in {"dns", "save", "olddns", "mark", "deldns", "delrow"} => o.s \in Servers
    /\ o.pc \in {"snapshot", "put"} /\ o.kind \in {"enable", "change"} => o.s \in Servers
    /\ o.pc \in {"dns", "save"} => o.kind \in {"enable", "change"}
    /\ o.pc \in {"create", "persist", "agent"} => o.kind = "install"

\* A row has a name and a record.
RowInOrder(s) ==
    /\ Present(s) <=> row[s].rec # 0
    /\ Present(s) => row[s].name \in Hostnames
    /\ Created(row[s].rec)

TunnelIInv ==
    /\ TunnelTypeOK
    /\ \A s \in Servers : RowInOrder(s)
    /\ \A a \in Actors : CallInOrder(a)
    /\ \A rec \in Records : Live(rec) => Known(rec)

-------------------------------------------------------------------------------
(* Types *)

HostTyped == host \in HostRow
RowsTyped == row \in [Servers -> Row]
DnsTyped == dns \in [Records -> Hostnames \cup {None, Gone}]
CallsTyped == op \in [Actors -> Op]
ListsTyped == orphans \subseteq {"dns", "tunnel"} \X Nat /\ excused \subseteq Records
TunnelsTyped ==
    /\ tunnels \in [1..MaxTunnels -> {"unused", "alive", "gone"}]
    /\ ingress \subseteq Hostnames \X Servers
    /\ connector \in 0..MaxTunnels
CountersTyped ==
    /\ exists \subseteq Servers
    /\ requests \in 0..MaxRequests /\ crashes \in 0..MaxCrashes
    /\ disturbed \in BOOLEAN
NamesApart ==
    \A s, t \in Servers : s # t /\ Present(s) /\ Present(t) => row[s].name # row[t].name
BoundFirst == host.tid # 0 \/ (\E s \in Servers : Present(s)) => host.bound

\* The type invariant, table by table.
LEMMA TunnelTypes ==
  TunnelTypeOK <=> /\ HostTyped /\ RowsTyped /\ DnsTyped /\ CallsTyped /\ ListsTyped
                   /\ TunnelsTyped /\ CountersTyped /\ NamesApart /\ BoundFirst
  BY DEF TunnelTypeOK, HostTyped, RowsTyped, DnsTyped, CallsTyped, ListsTyped, TunnelsTyped,
         CountersTyped, NamesApart, BoundFirst

\* The constants are numbers, no name is none, and there are an empty call and an empty row.
LEMMA Constants ==
  /\ MaxRecords \in Nat /\ MaxTunnels \in Nat /\ MaxRequests \in Nat /\ MaxCrashes \in Nat
  /\ None # Gone /\ {None, Gone} \cap Hostnames = {}
  /\ Deleter \in Actors /\ Requests \subseteq Actors
  /\ NoRow \in Row /\ NoRow.st = "none" /\ NoRow.rec = 0
  /\ NoOp \in Op /\ NoOp.pc = "idle" /\ NoOp.rec = 0
  <1>1. /\ MaxRecords \in Nat /\ MaxTunnels \in Nat /\ MaxRequests \in Nat /\ MaxCrashes \in Nat
        /\ None # Gone /\ {None, Gone} \cap Hostnames = {}
        /\ Deleter \in Actors /\ Requests \subseteq Actors
    BY TunnelAssumption DEF Actors
  <1>2. NoRow \in Row /\ NoRow.st = "none" /\ NoRow.rec = 0 BY <1>1 DEF NoRow, Row
  <1>3. NoOp \in Op /\ NoOp.pc = "idle" /\ NoOp.rec = 0
    BY <1>1, <1>2 DEF NoOp, Op, Kinds, Steps, Zones
  <1> QED BY <1>1, <1>2, <1>3

\* One call is rewritten, and the others wait.
CallBecomes(a, c) == op'[a] = c /\ \A b \in Actors \ {a} : op'[b] = op[b]

LEMMA CallWrite ==
  ASSUME CallsTyped, NEW a \in Actors, NEW c \in Op, op' = [op EXCEPT ![a] = c]
  PROVE  CallsTyped' /\ CallBecomes(a, c)
  BY DEF CallsTyped, CallBecomes

\* A call that has read the host's row.
LEMMA Calls ==
  ASSUME HostTyped, NEW kind \in Kinds, NEW s \in Servers \cup {None}, NEW pc \in Steps
  PROVE  LET c == Call(kind, s, pc) IN
         /\ c \in Op /\ c.kind = kind /\ c.s = s /\ c.pc = pc
         /\ c.zone = host.zone /\ c.rec = 0
  BY Constants DEF Call, HostTyped, HostRow, Op

\* A call that ends.
LEMMA Ends ==
  ASSUME CallsTyped, NEW a \in Actors, Finish(a)
  PROVE  CallsTyped' /\ CallBecomes(a, NoOp)
  BY Constants, CallWrite DEF Finish

\* A call that goes on knows what it knew.
LEMMA GoesOn ==
  ASSUME CallsTyped, NEW a \in Actors, NEW pc \in Steps, Goto(a, pc)
  PROVE  /\ CallsTyped' /\ CallBecomes(a, op'[a])
         /\ op'[a].pc = pc /\ op'[a].kind = op[a].kind /\ op'[a].s = op[a].s
         /\ op'[a].name = op[a].name /\ op'[a].rec = op[a].rec /\ op'[a].old = op[a].old
         /\ op'[a].zone = op[a].zone /\ op'[a].failed = op[a].failed
  <1> DEFINE c == [op[a] EXCEPT !.pc = pc]
  <1>1. op[a] \in Op BY DEF CallsTyped
  <1>2. /\ c \in Op /\ c.pc = pc /\ c.kind = op[a].kind /\ c.s = op[a].s /\ c.name = op[a].name
        /\ c.rec = op[a].rec /\ c.old = op[a].old /\ c.zone = op[a].zone
        /\ c.failed = op[a].failed
    BY <1>1 DEF Op
  <1>3. op' = [op EXCEPT ![a] = c] BY DEF Goto
  <1> HIDE DEF c
  <1>4. CallsTyped' /\ CallBecomes(a, c) BY <1>2, <1>3, CallWrite
  <1> QED BY <1>2, <1>4 DEF CallBecomes

\* One row is rewritten.
RowBecomes(s, r) == row'[s] = r /\ \A t \in Servers \ {s} : row'[t] = row[t]

LEMMA RowWrite ==
  ASSUME RowsTyped, NEW s \in Servers, NEW r \in Row, row' = [row EXCEPT ![s] = r]
  PROVE  RowsTyped' /\ RowBecomes(s, r)
  BY DEF RowsTyped, RowBecomes

-------------------------------------------------------------------------------
(* What stays in order *)

\* A record is deleted at most, and never forgotten.
DnsMoves == DnsTyped' /\ \A rec \in Records : dns[rec] # None => dns'[rec] \in {dns[rec], Gone}

ListsGrow == ListsTyped' /\ orphans \subseteq orphans' /\ excused \subseteq excused'

\* What Cloudflare does with a deletion, carried out or not.
LEMMA Deletions ==
  ASSUME DnsTyped, NEW rec \in 0..MaxRecords, NEW zone, dns' \in {dns, Deleted(rec, zone)}
  PROVE  /\ DnsMoves /\ Missed(rec, zone) \subseteq Records
         /\ \A q \in Records : Live(q)' => Live(q) /\ dns'[q] = dns[q]
         /\ dns' = Deleted(rec, zone) /\ rec # 0 /\ dns[rec] # None =>
               dns'[rec] = Gone \/ rec \in Missed(rec, zone)
         /\ dns' = Deleted(rec, zone) /\ Reaches(rec, zone) => ~Live(rec)'
  <1>1. rec # 0 => rec \in Records BY Constants DEF Records
  <1> QED BY <1>1, Constants
          DEF DnsTyped, DnsMoves, Deleted, Missed, Reaches, Live

LEMMA CallStays ==
  ASSUME TunnelIInv, DnsMoves, ListsGrow, NEW b \in Actors, op'[b] = op[b]
  PROVE  CallInOrder(b)'
  <1>1. CallInOrder(b) BY DEF TunnelIInv
  <1>2. op[b].rec \in 0..MaxRecords BY TunnelTypes DEF TunnelIInv, CallsTyped, Op
  <1>3. op[b].rec # 0 => op[b].rec \in Records BY <1>2, Constants DEF Records
  <1>4. op[b].rec # 0 => dns[op[b].rec] # None /\ dns'[op[b].rec] \in {dns[op[b].rec], Gone}
    BY <1>1, <1>3 DEF CallInOrder, Created, DnsMoves
  <1>5. op'[b].rec # 0 => dns'[op'[b].rec] # None BY <1>4, Constants
  <1> QED BY <1>1, <1>4, <1>5 DEF CallInOrder, ListsGrow, Created

LEMMA RowStays ==
  ASSUME TunnelIInv, DnsMoves, NEW s \in Servers, row'[s] = row[s]
  PROVE  RowInOrder(s)'
  <1>1. RowInOrder(s) BY DEF TunnelIInv
  <1>2. row[s].rec \in 0..MaxRecords BY TunnelTypes DEF TunnelIInv, RowsTyped, Row
  <1>3. row[s].rec # 0 => row[s].rec \in Records BY <1>2, Constants DEF Records
  <1>4. row[s].rec # 0 => dns'[row[s].rec] # None
    BY <1>1, <1>3, Constants DEF RowInOrder, Created, DnsMoves
  <1> QED BY <1>1, <1>4 DEF RowInOrder, Created, Present

\* A record stays known that no row loses and the call does not owe.
LEMMA KnownStays ==
  ASSUME TunnelIInv, NEW a \in Actors, \A b \in Actors \ {a} : op'[b] = op[b], ListsGrow,
         \A rec \in Records : Live(rec)' =>
            /\ Live(rec) \/ Known(rec)'
            /\ (\E s \in Servers : row[s].rec = rec /\ row'[s].rec # rec) => Known(rec)'
            /\ rec \in Owed(a) => Known(rec)'
  PROVE  \A rec \in Records : Live(rec)' => Known(rec)'
  <1> SUFFICES ASSUME NEW rec \in Records, Live(rec)', Live(rec) PROVE Known(rec)'
    OBVIOUS
  <1>1. Known(rec) BY DEF TunnelIInv
  <1>2. CASE \E s \in Servers : row[s].rec = rec
    <2>1. PICK s \in Servers : row[s].rec = rec BY <1>2
    <2>2. CASE row'[s].rec = rec BY <2>2 DEF Known
    <2> QED BY <2>1, <2>2
  <1>3. CASE <<"dns", rec>> \in orphans \/ rec \in excused BY <1>3 DEF ListsGrow, Known
  <1>4. ASSUME NEW b \in Actors, rec \in Owed(b) PROVE Known(rec)'
    <2>1. CASE b = a BY <1>4, <2>1
    <2>2. CASE b # a
      <3>1. op'[b] = op[b] BY <2>2
      <3>2. rec \in Owed(b)' BY <1>4, <3>1 DEF Owed
      <3> QED BY <3>2 DEF Known
    <2> QED BY <2>1, <2>2
  <1> QED BY <1>1, <1>2, <1>3, <1>4 DEF Known

\* The invariant after a step, part by part.
LEMMA Parts ==
  ASSUME HostTyped', RowsTyped', DnsTyped', CallsTyped', ListsTyped', TunnelsTyped',
         CountersTyped', NamesApart', BoundFirst',
         \A s \in Servers : RowInOrder(s)', \A a \in Actors : CallInOrder(a)',
         \A rec \in Records : Live(rec)' => Known(rec)'
  PROVE  TunnelIInv'
  BY DEF TunnelIInv, TunnelTypeOK, HostTyped, RowsTyped, DnsTyped, CallsTyped, ListsTyped,
         TunnelsTyped, CountersTyped, NamesApart, BoundFirst

\* Steps that touch no row and no record, of a call that owes nothing.
Calm(a) ==
    /\ UNCHANGED <<row, dns>> /\ ListsGrow
    /\ Owed(a) = {}
    /\ CallsTyped' /\ CallBecomes(a, op'[a]) /\ CallInOrder(a)'
    /\ HostTyped' /\ BoundFirst' /\ TunnelsTyped' /\ CountersTyped'

LEMMA CalmKeeps ==
  ASSUME TunnelIInv, NEW a \in Actors, Calm(a)
  PROVE  TunnelIInv'
  <1>1. /\ HostTyped' /\ CallsTyped' /\ ListsTyped' /\ TunnelsTyped' /\ CountersTyped'
        /\ BoundFirst'
    BY DEF Calm, ListsGrow
  <1>2. RowsTyped' /\ DnsTyped' /\ NamesApart' /\ DnsMoves
    BY TunnelTypes DEF TunnelIInv, Calm, RowsTyped, DnsTyped, NamesApart, Present, DnsMoves
  <1>3. \A s \in Servers : RowInOrder(s)' BY <1>2, RowStays DEF Calm
  <1>4. \A b \in Actors : CallInOrder(b)'
    <2>1. ASSUME NEW b \in Actors \ {a} PROVE CallInOrder(b)'
      BY <1>2, <2>1, CallStays DEF Calm, CallBecomes
    <2> QED BY <2>1 DEF Calm
  <1>5. \A rec \in Records : Live(rec)' => Known(rec)'
    <2>1. \A rec \in Records : Live(rec)' => Live(rec) BY DEF Live, Calm
    <2> QED BY <2>1, KnownStays DEF Calm, CallBecomes
  <1> QED BY <1>1, <1>2, <1>3, <1>4, <1>5, Parts

-------------------------------------------------------------------------------
(* Requests that begin *)

\* A call that begins has read a row and the host's, and owes nothing.
LEMMA CallBegins ==
  ASSUME CallsTyped, NEW a \in Actors, NEW c \in Op, op' = [op EXCEPT ![a] = c], UNCHANGED dns,
         c.pc \notin {"save", "undo", "delrow"},
         c.pc = "dns" => c.name \in Labels \X {c.zone} /\ c.kind \in {"enable", "change"},
         Created(c.rec),
         c.pc \in {"dns", "olddns", "mark", "deldns"} => c.s \in Servers,
         c.pc \in {"snapshot", "put"} /\ c.kind \in {"enable", "change"} => c.s \in Servers,
         c.pc \in {"create", "persist", "agent"} => c.kind = "install"
  PROVE  CallsTyped' /\ CallBecomes(a, op'[a]) /\ CallInOrder(a)'
  <1>1. CallsTyped' /\ CallBecomes(a, c) BY CallWrite
  <1>2. op'[a] = c BY <1>1 DEF CallBecomes
  <1> QED BY <1>1, <1>2 DEF CallInOrder, Created, CallBecomes

\* A call that has read the row of its server.
LEMMA ReadCalls ==
  ASSUME HostTyped, RowsTyped, NEW s \in Servers, RowInOrder(s), NEW kind \in Kinds,
         NEW pc \in Steps
  PROVE  LET c == [Call(kind, s, pc) EXCEPT !.rec = row[s].rec, !.old = row[s]] IN
         c \in Op /\ c.kind = kind /\ c.s = s /\ c.pc = pc /\ Created(c.rec)
  <1> DEFINE call == Call(kind, s, pc)
             rec == row[s].rec
             old == row[s]
  <1>1. call \in Op /\ call.kind = kind /\ call.s = s /\ call.pc = pc BY Calls
  <1>2. rec \in 0..MaxRecords /\ old \in Row /\ Created(rec)
    BY DEF RowsTyped, Row, RowInOrder
  <1> HIDE DEF call, rec, old
  <1> DEFINE c == [call EXCEPT !.rec = rec, !.old = old]
  <1>3. c \in Op /\ c.kind = kind /\ c.s = s /\ c.pc = pc /\ c.rec = rec
    BY <1>1, <1>2 DEF Op
  <1> QED BY <1>2, <1>3 DEF call, rec, old

\* Requests about a server, and its deletion.
LEMMA ServerBegins ==
  ASSUME TunnelIInv, NEW a \in Actors, NEW s \in Servers,
         \/ \E label \in Labels : Enable(a, s, label) \/ ChangeSubdomain(a, s, label)
         \/ Disable(a, s)
         \/ a = Deleter /\ OnServerPreDelete(s)
  PROVE  CallsTyped' /\ CallBecomes(a, op'[a]) /\ CallInOrder(a)'
  <1>0. HostTyped /\ RowsTyped /\ CallsTyped /\ RowInOrder(s) BY TunnelTypes DEF TunnelIInv
  <1>d. UNCHANGED dns BY DEF Enable, ChangeSubdomain, Disable, OnServerPreDelete, cloudflare
  <1>1. ASSUME NEW kind \in Kinds, NEW pc \in {"snapshot", "deldns", "drop"},
               Begin(a, [Call(kind, s, pc) EXCEPT !.rec = row[s].rec, !.old = row[s]])
        PROVE  CallsTyped' /\ CallBecomes(a, op'[a]) /\ CallInOrder(a)'
    <2> DEFINE c == [Call(kind, s, pc) EXCEPT !.rec = row[s].rec, !.old = row[s]]
    <2>1. pc \in Steps BY DEF Steps
    <2>2. c \in Op /\ c.kind = kind /\ c.s = s /\ c.pc = pc /\ Created(c.rec)
      BY <1>0, <2>1, ReadCalls
    <2>3. op' = [op EXCEPT ![a] = c] BY <1>1 DEF Begin
    <2> HIDE DEF c
    <2> QED BY <1>0, <1>d, <2>2, <2>3, CallBegins
  <1>2. ASSUME NEW kind \in Kinds \cap {"enable", "change"}, NEW pc \in {"snapshot", "dns"},
               NEW label \in Labels, NEW name, name = <<label, host.zone>>,
               Begin(a, [Call(kind, s, pc) EXCEPT !.name = name, !.old = row[s]])
        PROVE  CallsTyped' /\ CallBecomes(a, op'[a]) /\ CallInOrder(a)'
    <2> DEFINE c == [Call(kind, s, pc) EXCEPT !.name = name, !.old = row[s]]
    <2>1. pc \in Steps BY DEF Steps
    <2>n. name \in Labels \X {host.zone} BY <1>2
    <2>2. name \in Hostnames BY <1>0, <1>2 DEF Hostnames, HostTyped, HostRow
    <2>3. op' = [op EXCEPT ![a] = c] BY <1>2 DEF Begin
    <2>4. /\ c \in Op /\ c.kind = kind /\ c.s = s /\ c.pc = pc /\ c.rec = 0
          /\ c.name = name /\ c.zone = host.zone
      <3> DEFINE call == Call(kind, s, pc)
                 old == row[s]
      <3>1. /\ call \in Op /\ call.kind = kind /\ call.s = s /\ call.pc = pc
            /\ call.zone = host.zone /\ call.rec = 0
        BY <1>0, <2>1, Calls
      <3>2. old \in Row BY <1>0 DEF RowsTyped
      <3> HIDE DEF call, old
      <3>3. c = [call EXCEPT !.name = name, !.old = old] BY DEF call, old
      <3> QED BY <2>2, <3>1, <3>2, <3>3 DEF Op
    <2> HIDE DEF c
    <2> QED BY <1>0, <1>d, <2>n, <2>3, <2>4, CallBegins DEF Created
  <1>3. ASSUME NEW label \in Labels, Enable(a, s, label)
        PROVE  CallsTyped' /\ CallBecomes(a, op'[a]) /\ CallInOrder(a)'
    <2>1. "enable" \in Kinds BY DEF Kinds
    <2> QED BY <1>1, <1>2, <1>3, <2>1 DEF Enable
  <1>4. ASSUME NEW label \in Labels, ChangeSubdomain(a, s, label)
        PROVE  CallsTyped' /\ CallBecomes(a, op'[a]) /\ CallInOrder(a)'
    <2> DEFINE name == <<label, host.zone>>
               pc == IF name = row[s].name THEN "snapshot" ELSE "dns"
    <2>1. "change" \in Kinds BY DEF Kinds
    <2>2. pc \in {"snapshot", "dns"} OBVIOUS
    <2>3. Begin(a, [Call("change", s, pc) EXCEPT !.name = name, !.old = row[s]])
      BY <1>4 DEF ChangeSubdomain
    <2>4. name = <<label, host.zone>> OBVIOUS
    <2> HIDE DEF name, pc
    <2> QED BY <1>2, <2>1, <2>2, <2>3, <2>4
  <1>5. ASSUME Disable(a, s)
        PROVE  CallsTyped' /\ CallBecomes(a, op'[a]) /\ CallInOrder(a)'
    <2>1. "disable" \in Kinds BY DEF Kinds
    <2> QED BY <1>1, <1>5, <2>1 DEF Disable
  <1>6. ASSUME a = Deleter, OnServerPreDelete(s)
        PROVE  CallsTyped' /\ CallBecomes(a, op'[a]) /\ CallInOrder(a)'
    <2> DEFINE pc == IF Present(s) THEN "deldns" ELSE "drop"
    <2>1. "hook" \in Kinds BY DEF Kinds
    <2>2. pc \in {"deldns", "drop"} OBVIOUS
    <2>3. Begin(a, [Call("hook", s, pc) EXCEPT !.rec = row[s].rec, !.old = row[s]])
      BY <1>6 DEF OnServerPreDelete
    <2> HIDE DEF pc
    <2> QED BY <1>1, <2>1, <2>2, <2>3
  <1> QED BY <1>3, <1>4, <1>5, <1>6

\* Requests about the host's tunnel.
LEMMA HostBegins ==
  ASSUME TunnelIInv, NEW a \in Actors,
         Install(a) \/ SyncTunnel(a) \/ \E force \in BOOLEAN : Uninstall(a, force)
  PROVE  CallsTyped' /\ CallBecomes(a, op'[a]) /\ CallInOrder(a)'
  <1>0. HostTyped /\ CallsTyped BY TunnelTypes DEF TunnelIInv
  <1>d. UNCHANGED dns BY DEF Install, SyncTunnel, Uninstall, cloudflare
  <1>1. ASSUME NEW kind \in Kinds \ {"enable", "change"},
               NEW pc \in {"create", "agent", "snapshot", "stop"},
               pc \in {"create", "agent"} => kind = "install", Begin(a, Call(kind, None, pc))
        PROVE  CallsTyped' /\ CallBecomes(a, op'[a]) /\ CallInOrder(a)'
    <2> DEFINE c == Call(kind, None, pc)
    <2>1. pc \in Steps BY DEF Steps
    <2>2. c \in Op /\ c.kind = kind /\ c.pc = pc /\ c.rec = 0 BY <1>0, <2>1, Calls
    <2>3. op' = [op EXCEPT ![a] = c] BY <1>1 DEF Begin
    <2> HIDE DEF c
    <2> QED BY <1>0, <1>1, <1>d, <2>2, <2>3, CallBegins DEF Created
  <1>2. CASE Install(a)
    <2> DEFINE pc == IF host.tid = 0 THEN "create" ELSE "agent"
    <2>1. Begin(a, Call("install", None, pc)) BY <1>2 DEF Install
    <2>2. pc \in {"create", "agent"} /\ "install" \in Kinds BY DEF Kinds
    <2> HIDE DEF pc
    <2> QED BY <1>1, <2>1, <2>2
  <1>3. CASE SyncTunnel(a) BY <1>1, <1>3 DEF SyncTunnel, Kinds
  <1>4. CASE \E force \in BOOLEAN : Uninstall(a, force) BY <1>1, <1>4 DEF Uninstall, Kinds
  <1> QED BY <1>2, <1>3, <1>4

LEMMA BeginningSteps ==
  ASSUME TunnelIInv,
         (\E r \in Requests : StartRequest(r)) \/ \E s \in Servers : OnServerPreDelete(s)
  PROVE  TunnelIInv'
  <1>0. /\ HostTyped /\ CallsTyped /\ ListsTyped /\ TunnelsTyped /\ CountersTyped
        /\ BoundFirst /\ RowsTyped
    BY TunnelTypes DEF TunnelIInv
  <1>1. ASSUME NEW a \in Actors, op[a] = NoOp,
               UNCHANGED <<host, row, exists, orphans, dns, tunnels, ingress, connector,
                           crashes, excused, disturbed>>,
               requests' \in 0..MaxRequests,
               CallsTyped' /\ CallBecomes(a, op'[a]) /\ CallInOrder(a)'
        PROVE  TunnelIInv'
    <2>1. Owed(a) = {} BY <1>1, Constants DEF Owed
    <2>2. ListsGrow BY <1>0, <1>1 DEF ListsGrow, ListsTyped
    <2>3. HostTyped' /\ TunnelsTyped' /\ CountersTyped' /\ BoundFirst'
      BY <1>0, <1>1 DEF HostTyped, TunnelsTyped, CountersTyped, BoundFirst, Present
    <2>4. Calm(a) BY <1>1, <2>1, <2>2, <2>3 DEF Calm
    <2> QED BY <2>4, CalmKeeps
  <1>2. ASSUME NEW s \in Servers, OnServerPreDelete(s) PROVE TunnelIInv'
    <2>1. /\ op[Deleter] = NoOp
          /\ UNCHANGED <<host, row, exists, orphans, dns, tunnels, ingress, connector, requests,
                         crashes, excused, disturbed>>
      BY <1>2 DEF OnServerPreDelete, cloudflare
    <2>2. requests' \in 0..MaxRequests BY <1>0, <2>1 DEF CountersTyped
    <2>3. CallsTyped' /\ CallBecomes(Deleter, op'[Deleter]) /\ CallInOrder(Deleter)'
      BY <1>2, Constants, ServerBegins
    <2> QED BY <1>1, <2>1, <2>2, <2>3, Constants
  <1>3. ASSUME NEW r \in Requests, StartRequest(r) PROVE TunnelIInv'
    <2>1. op[r] = NoOp /\ r \in Actors BY <1>3, Constants DEF StartRequest
    <2>2. requests' \in 0..MaxRequests BY <1>0, <1>3, Constants DEF StartRequest, CountersTyped
    <2>3. ASSUME CallsTyped' /\ CallBecomes(r, op'[r]) /\ CallInOrder(r)',
                 UNCHANGED <<host, row, exists, orphans, cloudflare, crashes, excused, disturbed>>
          PROVE  TunnelIInv'
      BY <1>1, <2>1, <2>2, <2>3 DEF cloudflare
    <2>4. ASSUME NEW s \in Servers,
                 \/ \E label \in Labels : Enable(r, s, label) \/ ChangeSubdomain(r, s, label)
                 \/ Disable(r, s)
          PROVE  TunnelIInv'
      <3>1. CallsTyped' /\ CallBecomes(r, op'[r]) /\ CallInOrder(r)'
        BY <2>1, <2>4, ServerBegins
      <3>2. UNCHANGED <<host, row, exists, orphans, cloudflare, crashes, excused, disturbed>>
        BY <2>4 DEF Enable, ChangeSubdomain, Disable
      <3> QED BY <2>3, <3>1, <3>2
    <2>5. ASSUME Install(r) \/ SyncTunnel(r) \/ \E force \in BOOLEAN : Uninstall(r, force)
          PROVE  TunnelIInv'
      <3>1. CallsTyped' /\ CallBecomes(r, op'[r]) /\ CallInOrder(r)'
        BY <2>1, <2>5, HostBegins
      <3>2. UNCHANGED <<host, row, exists, orphans, cloudflare, crashes, excused, disturbed>>
        BY <2>5 DEF Install, SyncTunnel, Uninstall
      <3> QED BY <2>3, <3>1, <3>2
    <2>6. ASSUME NEW zone \in Zones, BindAccount(zone) PROVE TunnelIInv'
      <3>1. UNCHANGED <<row, exists, orphans, dns, tunnels, ingress, connector, op, crashes>>
        BY <2>6 DEF BindAccount, cloudflare
      <3>2. HostTyped' /\ BoundFirst'
        BY <2>6, Constants DEF BindAccount, HostTyped, HostRow, BoundFirst
      <3>3. excused \subseteq excused' /\ excused' \subseteq Records
        <4>1. \A s \in Servers : Present(s) => row[s].rec \in Records
          BY <1>0, Constants DEF TunnelIInv, RowInOrder, RowsTyped, Row, Records
        <4> QED BY <1>0, <2>6, <4>1 DEF BindAccount, ListsTyped
      <3>4. disturbed' \in BOOLEAN
        <4>1. disturbed' = (disturbed \/ host.bound) BY <2>6 DEF BindAccount
        <4> QED BY <4>1, Zenon
      <3>5. ListsGrow BY <1>0, <3>1, <3>3 DEF ListsGrow, ListsTyped
      <3>6. TunnelsTyped' /\ CallsTyped' /\ CallBecomes(r, op'[r])
        BY <1>0, <3>1 DEF TunnelsTyped, CallsTyped, CallBecomes
      <3>7. CountersTyped' BY <1>0, <2>2, <3>1, <3>4 DEF CountersTyped
      <3>8. Owed(r) = {} BY <2>1, Constants DEF Owed
      <3>9. CallInOrder(r)' BY <2>1, <3>1, Constants DEF CallInOrder, Created
      <3> QED BY <2>1, <3>1, <3>2, <3>5, <3>6, <3>7, <3>8, <3>9, CalmKeeps DEF Calm
    <2> QED BY <1>3, <2>4, <2>5, <2>6 DEF StartRequest
  <1> QED BY <1>2, <1>3

-------------------------------------------------------------------------------
(* Steps that touch no row and no record *)

\* A call that goes on past its record, keeping its server and its kind.
LEMMA CallGoes ==
  ASSUME TunnelIInv, NEW a \in Actors, NEW pc, Goto(a, pc), UNCHANGED dns,
         pc \in {"put", "agent", "snapshot", "collide", "delhost", "drop"},
         pc \in {"put", "snapshot"} /\ op[a].kind \in {"enable", "change"} => op[a].s \in Servers,
         pc = "agent" => op[a].kind = "install"
  PROVE  CallsTyped' /\ CallBecomes(a, op'[a]) /\ CallInOrder(a)' /\ op'[a].pc = pc
  <1> DEFINE c == [op[a] EXCEPT !.pc = pc]
  <1>0. CallsTyped /\ CallInOrder(a) BY TunnelTypes DEF TunnelIInv
  <1>1. op[a] \in Op /\ Created(op[a].rec) BY <1>0 DEF CallsTyped, CallInOrder
  <1>2. /\ c \in Op /\ c.pc = pc /\ c.kind = op[a].kind /\ c.s = op[a].s /\ c.rec = op[a].rec
    BY <1>1 DEF Op, Steps
  <1>3. op' = [op EXCEPT ![a] = c] BY DEF Goto
  <1> HIDE DEF c
  <1>4. CallsTyped' /\ CallBecomes(a, op'[a]) /\ CallInOrder(a)'
    BY <1>0, <1>1, <1>2, <1>3, CallBegins
  <1>5. op'[a] = c BY <1>0, <1>3 DEF CallsTyped
  <1> QED BY <1>2, <1>4, <1>5

LEMMA CallEnds ==
  ASSUME TunnelIInv, NEW a \in Actors, Finish(a)
  PROVE  CallsTyped' /\ CallBecomes(a, op'[a]) /\ CallInOrder(a)' /\ op'[a] = NoOp
  <1>1. CallsTyped BY TunnelTypes DEF TunnelIInv
  <1>2. CallsTyped' /\ CallBecomes(a, NoOp) BY <1>1, Ends
  <1>3. op'[a] = NoOp BY <1>2 DEF CallBecomes
  <1> QED BY <1>2, <1>3, Constants DEF CallInOrder, Created, CallBecomes

\* The ingress is built, put, and put again for a request whose push failed.
LEMMA IngressCalls ==
  ASSUME TunnelIInv, NEW a \in Actors, SnapshotRules(a) \/ PushRemoteIngress(a)
  PROVE  /\ CallsTyped' /\ CallBecomes(a, op'[a]) /\ CallInOrder(a)'
         /\ ingress' \subseteq Hostnames \X Servers
  <1>0. CallsTyped /\ CallInOrder(a) /\ RowsTyped /\ ingress \subseteq Hostnames \X Servers
    BY TunnelTypes DEF TunnelIInv, TunnelsTyped
  <1>1. op[a] \in Op /\ Created(op[a].rec) BY <1>0 DEF CallsTyped, CallInOrder
  <1>2. UNCHANGED dns BY DEF SnapshotRules, PushRemoteIngress, cloudflare
  <1>3. ASSUME NEW pc \in {"put", "deldns", "mark"}, NEW rules \in SUBSET (Hostnames \X Servers),
               (pc = "put" /\ op[a].kind \notin {"enable", "change"}) \/ op[a].s \in Servers,
               op' = [op EXCEPT ![a].pc = pc, ![a].rules = rules]
        PROVE  CallsTyped' /\ CallBecomes(a, op'[a]) /\ CallInOrder(a)'
    <2> DEFINE c == [op[a] EXCEPT !.pc = pc, !.rules = rules]
    <2>1. /\ c \in Op /\ c.pc = pc /\ c.kind = op[a].kind /\ c.s = op[a].s
          /\ c.rec = op[a].rec
      BY <1>1 DEF Op, Steps
    <2>2. op' = [op EXCEPT ![a] = c] BY <1>0, <1>3 DEF CallsTyped
    <2> HIDE DEF c
    <2> QED BY <1>0, <1>1, <1>2, <1>3, <2>1, <2>2, CallBegins
  <1>4. CASE SnapshotRules(a)
    <2>1. BuildIngress \in SUBSET (Hostnames \X Servers)
      BY DEF BuildIngress, TunnelIInv, RowInOrder, Present
    <2>2. op[a].kind \in {"enable", "change"} => op[a].s \in Servers
      BY <1>0, <1>4 DEF SnapshotRules, CallInOrder, At
    <2>3. op' = [op EXCEPT ![a].pc = "put", ![a].rules = BuildIngress] /\ ingress' = ingress
      BY <1>4 DEF SnapshotRules, cloudflare
    <2> HIDE DEF BuildIngress
    <2> QED BY <1>0, <1>3, <2>1, <2>2, <2>3
  <1>5. CASE PushRemoteIngress(a)
    <2>1. ingress' = ingress \/ ingress' = op[a].rules BY <1>5 DEF PushRemoteIngress
    <2>2. ingress' \subseteq Hostnames \X Servers BY <1>0, <1>1, <2>1 DEF Op
    <2>3. Finish(a) \/ AfterFailedPush(a) BY <1>5 DEF PushRemoteIngress
    <2>4. CASE Finish(a) BY <2>2, <2>4, CallEnds
    <2>5. CASE AfterFailedPush(a)
      <3>1. op[a].kind \in {"enable", "change"} => op[a].s \in Servers
        BY <1>0, <1>5 DEF PushRemoteIngress, CallInOrder, At
      <3>2. CASE ~host.bound
        <4>1. Finish(a) BY <2>5, <3>2 DEF AfterFailedPush
        <4> QED BY <4>1, <2>4
      <3>3. CASE host.bound /\ op[a].kind = "enable"
        <4> DEFINE pc == "deldns"
                   rules == {}
        <4>1. op' = [op EXCEPT ![a].pc = pc, ![a].rules = rules]
          BY <2>5, <3>3 DEF AfterFailedPush
        <4>2. /\ pc \in {"put", "deldns", "mark"} /\ rules \in SUBSET (Hostnames \X Servers)
              /\ op[a].s \in Servers
          BY <3>1, <3>3
        <4> HIDE DEF pc, rules
        <4> QED BY <4>1, <4>2, <1>3, <2>2
      <3>4. CASE host.bound /\ op[a].kind = "change"
        <4> DEFINE pc == "mark"
                   rules == {}
        <4>1. op' = [op EXCEPT ![a].pc = pc, ![a].rules = rules]
          BY <2>5, <3>4 DEF AfterFailedPush
        <4>2. /\ pc \in {"put", "deldns", "mark"} /\ rules \in SUBSET (Hostnames \X Servers)
              /\ op[a].s \in Servers
          BY <3>1, <3>4
        <4> HIDE DEF pc, rules
        <4> QED BY <4>1, <4>2, <1>3, <2>2
      <3>5. CASE host.bound /\ op[a].kind \notin {"enable", "change"}
        <4>1. Finish(a) BY <2>5, <3>5 DEF AfterFailedPush
        <4> QED BY <4>1, <2>4
      <3> QED BY <3>2, <3>3, <3>4, <3>5
    <2> QED BY <2>3, <2>4, <2>5
  <1> QED BY <1>4, <1>5

\* The tunnel and its connector: what a request does to them.
LEMMA TunnelCalls ==
  ASSUME TunnelIInv, NEW a \in Actors,
         \/ CreateTunnel(a) \/ DeleteStaleTunnel(a) \/ PersistTunnel(a) \/ StartConnector(a)
         \/ StopConnector(a) \/ FinalizeUninstall(a)
  PROVE  /\ CallsTyped' /\ CallBecomes(a, op'[a]) /\ CallInOrder(a)'
         /\ HostTyped' /\ BoundFirst' /\ TunnelsTyped'
  <1>0. /\ CallsTyped /\ CallInOrder(a) /\ HostTyped /\ BoundFirst /\ TunnelsTyped
    BY TunnelTypes DEF TunnelIInv
  <1>1. op[a] \in Op /\ Created(op[a].rec) BY <1>0 DEF CallsTyped, CallInOrder
  <1>2. op[a].tid \in 0..MaxTunnels BY <1>1 DEF Op
  <1>3. UNCHANGED <<row, dns>>
    BY DEF CreateTunnel, DeleteStaleTunnel, PersistTunnel, StartConnector, StopConnector,
           FinalizeUninstall, cloudflare
  <1>k. op[a].pc \in {"create", "persist", "agent"} => op[a].kind = "install"
    BY <1>0 DEF CallInOrder
  <1>h. CASE UNCHANGED host
    <2>1. HostTyped' /\ BoundFirst'
      BY <1>0, <1>3, <1>h DEF HostTyped, BoundFirst, Present
    <2>2. ASSUME NEW pc \in {"persist", "deltunnel"}, NEW t \in 0..MaxTunnels,
                 pc = "persist" => op[a].kind = "install",
                 op' = [op EXCEPT ![a].pc = pc, ![a].tid = t]
          PROVE  CallsTyped' /\ CallBecomes(a, op'[a]) /\ CallInOrder(a)'
      <3> DEFINE c == [op[a] EXCEPT !.pc = pc, !.tid = t]
      <3>1. c \in Op /\ c.pc = pc /\ c.kind = op[a].kind /\ c.rec = op[a].rec
        BY <1>1, <2>2 DEF Op, Steps
      <3>2. op' = [op EXCEPT ![a] = c] BY <1>0, <2>2 DEF CallsTyped
      <3> HIDE DEF c
      <3> QED BY <1>0, <1>1, <1>3, <2>2, <3>1, <3>2, CallBegins
    <2>3. CASE CreateTunnel(a)
      <3>1. \/ Goto(a, "collide")
            \/ \E t \in 1..MaxTunnels : op' = [op EXCEPT ![a].pc = "persist", ![a].tid = t]
        BY <2>3 DEF CreateTunnel, NextTunnel
      <3>2. \A t \in 1..MaxTunnels : t \in 0..MaxTunnels BY Constants
      <3>3. CallsTyped' /\ CallBecomes(a, op'[a]) /\ CallInOrder(a)'
        BY <1>3, <1>k, <2>2, <2>3, <3>1, <3>2, CallGoes DEF CreateTunnel, At
      <3>4. TunnelsTyped' BY <1>0, <2>3 DEF CreateTunnel, TunnelsTyped
      <3> QED BY <2>1, <3>3, <3>4
    <2>4. CASE DeleteStaleTunnel(a)
      <3>1. CallsTyped' /\ CallBecomes(a, op'[a]) /\ CallInOrder(a)'
        BY <2>4, CallEnds DEF DeleteStaleTunnel
      <3>2. TunnelsTyped' BY <1>0, <2>4 DEF DeleteStaleTunnel, TunnelsTyped
      <3> QED BY <2>1, <3>1, <3>2
    <2>5. CASE StartConnector(a)
      <3>1. Finish(a) \/ Goto(a, "snapshot") BY <2>5 DEF StartConnector
      <3>2. op[a].kind = "install" BY <1>k, <2>5 DEF StartConnector, At
      <3>3. CallsTyped' /\ CallBecomes(a, op'[a]) /\ CallInOrder(a)'
        BY <1>3, <3>1, <3>2, CallEnds, CallGoes
      <3>4. TunnelsTyped' BY <1>0, <1>2, <2>5 DEF StartConnector, TunnelsTyped
      <3> QED BY <2>1, <3>3, <3>4
    <2>6. CASE StopConnector(a)
      <3>1. host.tid \in 0..MaxTunnels BY <1>0 DEF HostTyped, HostRow
      <3>2. Finish(a) \/ op' = [op EXCEPT ![a].pc = "deltunnel", ![a].tid = host.tid]
        BY <2>6 DEF StopConnector
      <3>3. CallsTyped' /\ CallBecomes(a, op'[a]) /\ CallInOrder(a)'
        BY <2>2, <3>1, <3>2, CallEnds
      <3>4. TunnelsTyped' BY <1>0, <2>6, Constants DEF StopConnector, TunnelsTyped
      <3> QED BY <2>1, <3>3, <3>4
    <2>7. CASE FinalizeUninstall(a)
      <3>1. Finish(a) \/ Goto(a, "delhost") BY <2>7 DEF FinalizeUninstall
      <3>2. CallsTyped' /\ CallBecomes(a, op'[a]) /\ CallInOrder(a)'
        BY <1>3, <3>1, CallEnds, CallGoes
      <3>3. TunnelsTyped'
        BY <1>0, <2>7 DEF FinalizeUninstall, TunnelDeleted, TunnelsTyped, Alive
      <3> QED BY <2>1, <3>2, <3>3
    <2>8. CASE PersistTunnel(a)
      <3>1. Finish(a) \/ Goto(a, "agent") BY <2>8 DEF PersistTunnel
      <3>2. CallsTyped' /\ CallBecomes(a, op'[a]) /\ CallInOrder(a)'
        BY <1>3, <1>k, <2>8, <3>1, CallEnds, CallGoes DEF PersistTunnel, At
      <3>3. TunnelsTyped' BY <1>0, <2>8 DEF PersistTunnel, cloudflare, TunnelsTyped
      <3> QED BY <2>1, <3>2, <3>3
    <2> QED BY <2>3, <2>4, <2>5, <2>6, <2>7, <2>8
  <1>4. CASE PersistTunnel(a) /\ host.bound /\ host' = [host EXCEPT !.tid = op[a].tid]
    <2>1. CallsTyped' /\ CallBecomes(a, op'[a]) /\ CallInOrder(a)'
      BY <1>3, <1>4, <1>k, CallGoes DEF PersistTunnel, At
    <2>2. HostTyped' /\ host'.bound BY <1>0, <1>2, <1>4 DEF HostTyped, HostRow
    <2>3. BoundFirst' BY <2>2 DEF BoundFirst
    <2>4. TunnelsTyped' BY <1>0, <1>4 DEF PersistTunnel, cloudflare, TunnelsTyped
    <2> QED BY <2>1, <2>2, <2>3, <2>4
  <1> QED BY <1>h, <1>4
      DEF CreateTunnel, DeleteStaleTunnel, PersistTunnel, StartConnector, StopConnector,
          FinalizeUninstall

LEMMA CalmSteps ==
  ASSUME TunnelIInv, NEW a \in Actors,
         \/ SnapshotRules(a) \/ PushRemoteIngress(a) \/ DropServer(a)
         \/ CreateTunnel(a) \/ DeleteStaleTunnel(a) \/ PersistTunnel(a) \/ StartConnector(a)
         \/ StopConnector(a) \/ FinalizeUninstall(a)
  PROVE  TunnelIInv'
  <1>0. /\ HostTyped /\ CallsTyped /\ ListsTyped /\ TunnelsTyped /\ CountersTyped /\ BoundFirst
    BY TunnelTypes DEF TunnelIInv
  <1>1. UNCHANGED <<row, dns, excused, requests, crashes>>
    BY DEF SnapshotRules, PushRemoteIngress, DropServer, CreateTunnel, DeleteStaleTunnel,
           PersistTunnel, StartConnector, StopConnector, FinalizeUninstall, cloudflare
  <1>2. Owed(a) = {}
    <2>1. op[a].pc \notin {"save", "undo", "olddns"}
      BY DEF SnapshotRules, PushRemoteIngress, DropServer, CreateTunnel, DeleteStaleTunnel,
           PersistTunnel, StartConnector, StopConnector, FinalizeUninstall, At
    <2> QED BY <2>1 DEF Owed
  <1>3. ListsGrow
    <2>1. UNCHANGED orphans \/ \E t \in Nat : orphans' = orphans \cup {<<"tunnel", t>>}
      <3>1. CASE DeleteStaleTunnel(a)
        <4>1. DOMAIN tunnels \subseteq Nat BY <1>0, Constants DEF TunnelsTyped
        <4> QED BY <3>1, <4>1 DEF DeleteStaleTunnel
      <3>2. CASE FinalizeUninstall(a)
        <4>1. op[a].tid \in Nat BY <1>0, Constants DEF CallsTyped, Op
        <4> QED BY <3>2, <4>1 DEF FinalizeUninstall
      <3>3. CASE UNCHANGED orphans BY <3>3
      <3> QED BY <3>1, <3>2, <3>3
          DEF SnapshotRules, PushRemoteIngress, DropServer, CreateTunnel, PersistTunnel,
              StartConnector, StopConnector
    <2> QED BY <1>0, <1>1, <2>1 DEF ListsGrow, ListsTyped
  <1>4. CountersTyped'
    <2>1. exists' \subseteq Servers
      <3>1. exists' \subseteq exists
        BY DEF SnapshotRules, PushRemoteIngress, DropServer, CreateTunnel, DeleteStaleTunnel,
               PersistTunnel, StartConnector, StopConnector, FinalizeUninstall
      <3> QED BY <1>0, <3>1 DEF CountersTyped
    <2>2. disturbed' \in BOOLEAN
      <3>1. CASE SnapshotRules(a)
        <4>1. disturbed' = (disturbed \/ \E b \in Actors \ {a} : At(b, "put"))
          BY <3>1 DEF SnapshotRules
        <4> QED BY <4>1, Zenon
      <3>2. CASE disturbed' = disturbed BY <1>0, <3>2 DEF CountersTyped
      <3> QED BY <3>1, <3>2
          DEF PushRemoteIngress, DropServer, CreateTunnel, DeleteStaleTunnel,
              PersistTunnel, StartConnector, StopConnector, FinalizeUninstall
    <2> QED BY <1>0, <1>1, <2>1, <2>2 DEF CountersTyped
  <1>5. /\ CallsTyped' /\ CallBecomes(a, op'[a]) /\ CallInOrder(a)'
        /\ HostTyped' /\ BoundFirst' /\ TunnelsTyped'
    <2>1. CASE SnapshotRules(a) \/ PushRemoteIngress(a)
      <3>1. UNCHANGED <<host, row, tunnels, connector>>
        BY <2>1 DEF SnapshotRules, PushRemoteIngress, cloudflare
      <3>2. HostTyped' /\ BoundFirst' BY <1>0, <3>1 DEF HostTyped, BoundFirst, Present
      <3>3. /\ CallsTyped' /\ CallBecomes(a, op'[a]) /\ CallInOrder(a)'
            /\ ingress' \subseteq Hostnames \X Servers
        BY <2>1, IngressCalls
      <3>4. TunnelsTyped' BY <1>0, <3>1, <3>3 DEF TunnelsTyped
      <3> QED BY <3>2, <3>3, <3>4
    <2>2. CASE DropServer(a)
      <3>1. UNCHANGED <<host, row, tunnels, connector, ingress>> /\ Finish(a)
        BY <2>2 DEF DropServer, cloudflare
      <3>2. HostTyped' /\ BoundFirst' BY <1>0, <3>1 DEF HostTyped, BoundFirst, Present
      <3>3. TunnelsTyped' BY <1>0, <3>1 DEF TunnelsTyped
      <3> QED BY <3>1, <3>2, <3>3, CallEnds
    <2> QED BY <2>1, <2>2, TunnelCalls
  <1> QED BY <1>1, <1>2, <1>3, <1>4, <1>5, CalmKeeps DEF Calm

-------------------------------------------------------------------------------
(* Steps at Cloudflare's records *)

\* A record that comes is owed or listed, and one the call owed is gone or listed.
LEMMA RecordKeeps ==
  ASSUME TunnelIInv, NEW a \in Actors,
         UNCHANGED <<host, row, exists, tunnels, ingress, connector, requests, crashes, disturbed>>,
         DnsMoves, ListsGrow, CallsTyped', CallBecomes(a, op'[a]), CallInOrder(a)',
         \A rec \in Records : Live(rec)' =>
            (Live(rec) \/ Known(rec)') /\ (rec \in Owed(a) => Known(rec)')
  PROVE  TunnelIInv'
  <1>1. /\ HostTyped' /\ RowsTyped' /\ TunnelsTyped' /\ CountersTyped' /\ NamesApart' /\ BoundFirst'
    BY TunnelTypes
       DEF TunnelIInv, HostTyped, RowsTyped, TunnelsTyped, CountersTyped, NamesApart, BoundFirst,
           Present
  <1>2. DnsTyped' /\ ListsTyped' BY DEF DnsMoves, ListsGrow
  <1>3. \A s \in Servers : RowInOrder(s)' BY RowStays
  <1>4. \A b \in Actors : CallInOrder(b)'
    <2>1. ASSUME NEW b \in Actors \ {a} PROVE CallInOrder(b)'
      BY <2>1, CallStays DEF CallBecomes
    <2> QED BY <2>1
  <1>5. \A rec \in Records : Live(rec)' => Known(rec)' BY KnownStays DEF CallBecomes
  <1> QED BY <1>1, <1>2, <1>3, <1>4, <1>5, Parts

LEMMA RecordSteps ==
  ASSUME TunnelIInv, NEW a \in Actors,
         CreateDnsRecord(a) \/ UndoRecord(a) \/ DeleteOldRecord(a) \/ DeleteDnsRecord(a)
  PROVE  TunnelIInv'
  <1>0. CallsTyped /\ CallInOrder(a) /\ DnsTyped /\ ListsTyped BY TunnelTypes DEF TunnelIInv
  <1>1. /\ op[a] \in Op /\ op[a].rec \in 0..MaxRecords /\ op[a].old.rec \in 0..MaxRecords
        /\ op[a].zone \in Zones /\ 0..MaxRecords \subseteq Nat
    BY <1>0, Constants DEF CallsTyped, Op, Row
  <1>2. UNCHANGED <<host, row, exists, tunnels, ingress, connector, requests, crashes, disturbed>>
    BY DEF CreateDnsRecord, UndoRecord, DeleteOldRecord, DeleteDnsRecord
  <1>3. CASE CreateDnsRecord(a)
    <2>1. Owed(a) = {} BY <1>3 DEF CreateDnsRecord, At, Owed
    <2>2. UNCHANGED orphans BY <1>3 DEF CreateDnsRecord
    <2>3. /\ op[a].name \in Labels \X {op[a].zone} /\ op[a].s \in Servers
          /\ op[a].kind \in {"enable", "change"}
      BY <1>0, <1>3 DEF CreateDnsRecord, At, CallInOrder
    <2>4. op[a].name \in Hostnames BY <1>1, <2>3 DEF Hostnames
    <2>5. CASE Finish(a) /\ UNCHANGED <<dns, excused>>
      <3>1. DnsMoves /\ ListsGrow
        BY <1>0, <2>2, <2>5 DEF DnsMoves, DnsTyped, ListsGrow, ListsTyped
      <3>2. \A rec \in Records : Live(rec)' => Live(rec) BY <2>5 DEF Live
      <3> QED BY <1>2, <2>1, <2>5, <3>1, <3>2, CallEnds, RecordKeeps
    <2>6. ASSUME NEW rec \in NextRecord, dns' = [dns EXCEPT ![rec] = op[a].name],
                 \/ op' = [op EXCEPT ![a].pc = "save", ![a].rec = rec] /\ UNCHANGED excused
                 \/ Finish(a) /\ excused' = excused \cup {rec}
          PROVE  TunnelIInv'
      <3>1. rec \in Records /\ dns[rec] = None BY <2>6 DEF NextRecord
      <3>2. DnsMoves BY <1>0, <2>4, <2>6, <3>1 DEF DnsMoves, DnsTyped
      <3>3. ListsGrow BY <1>0, <2>2, <2>6, <3>1 DEF ListsGrow, ListsTyped
      <3>4. \A q \in Records : Live(q)' => Live(q) \/ q = rec
        BY <1>0, <2>6 DEF DnsTyped, Live
      <3>5. CASE Finish(a) /\ excused' = excused \cup {rec}
        <4>1. Known(rec)' BY <3>5 DEF Known
        <4> QED BY <1>2, <2>1, <3>2, <3>3, <3>4, <3>5, <4>1, CallEnds, RecordKeeps
      <3>6. CASE op' = [op EXCEPT ![a].pc = "save", ![a].rec = rec] /\ UNCHANGED excused
        <4> DEFINE c == [op[a] EXCEPT !.pc = "save", !.rec = rec]
        <4>0. rec \in 0..MaxRecords BY <3>1, Constants DEF Records
        <4>1. /\ c \in Op /\ c.pc = "save" /\ c.rec = rec /\ c.name = op[a].name
              /\ c.zone = op[a].zone /\ c.s = op[a].s /\ c.kind = op[a].kind
          BY <1>1, <4>0 DEF Op, Steps
        <4>2. op' = [op EXCEPT ![a] = c] BY <1>0, <3>6 DEF CallsTyped
        <4> HIDE DEF c
        <4>3. CallsTyped' /\ CallBecomes(a, c) /\ op'[a] = c
          BY <1>0, <4>1, <4>2, CallWrite DEF CallBecomes
        <4>4. dns'[rec] = op[a].name /\ op[a].name # None /\ rec # 0
          BY <1>0, <2>4, <2>6, <3>1, Constants DEF DnsTyped, Records
        <4>5. Known(rec)'
          <5>1. rec \in Owed(a)' BY <4>1, <4>3 DEF Owed
          <5> QED BY <5>1 DEF Known
        <4>6. CallInOrder(a)' BY <2>3, <4>1, <4>3, <4>4 DEF CallInOrder, Created
        <4>7. CallBecomes(a, op'[a]) BY <4>3 DEF CallBecomes
        <4> QED BY <1>2, <2>1, <3>2, <3>3, <3>4, <4>3, <4>5, <4>6, <4>7, RecordKeeps
      <3> QED BY <2>6, <3>5, <3>6
    <2> QED BY <1>3, <2>5, <2>6 DEF CreateDnsRecord
  <1>o. ASSUME NEW rec \in 0..MaxRecords, RecordOrphanDns(rec) \/ UNCHANGED orphans,
               excused \subseteq excused', excused' \subseteq Records
        PROVE  ListsGrow
    BY <1>0, <1>1, <1>o DEF RecordOrphanDns, ListsGrow, ListsTyped
  <1>4. CASE UndoRecord(a)
    <2> SUFFICES ASSUME NEW rec \in 0..MaxRecords, rec = op[a].rec PROVE TunnelIInv'
      BY <1>1
    <2>1. /\ rec \in 0..MaxRecords /\ rec # 0 /\ op[a].name \in Labels \X {op[a].zone}
          /\ dns[rec] \in {op[a].name, Gone}
      BY <1>0, <1>1, <1>4 DEF UndoRecord, At, CallInOrder
    <2>2. Owed(a) = {rec} BY <1>4 DEF UndoRecord, At, Owed
    <2>3. /\ dns' \in {dns, Deleted(rec, op[a].zone)}
          /\ Finish(a)
          /\ \/ dns' = Deleted(rec, op[a].zone) /\ UNCHANGED <<orphans, excused>>
             \/ orphans' = orphans \cup {<<"dns", rec>>} /\ UNCHANGED excused
             \/ excused' = excused \cup {rec} /\ UNCHANGED orphans
      BY <1>4 DEF UndoRecord
    <2>4. rec \in Records BY <2>1, Constants DEF Records
    <2>5. ListsGrow BY <1>o, <1>0, <2>1, <2>3, <2>4 DEF RecordOrphanDns, ListsTyped
    <2>6. DnsMoves /\ \A q \in Records : Live(q)' => Live(q)
      BY <1>0, <2>1, <2>3, Deletions
    <2>7. Live(rec)' => Known(rec)'
      <3>1. CASE dns' = Deleted(rec, op[a].zone)
        <4>1. Live(rec) => dns[rec] = op[a].name BY <2>1 DEF Live
        <4>2. Live(rec) => Reaches(rec, op[a].zone) BY <2>1, <4>1 DEF Reaches
        <4>3. Live(rec) => ~Live(rec)' BY <1>0, <2>1, <3>1, <4>2, Deletions
        <4> QED BY <2>4, <2>6, <4>3
      <3>2. CASE orphans' = orphans \cup {<<"dns", rec>>} \/ excused' = excused \cup {rec}
        BY <3>2 DEF Known
      <3> QED BY <2>3, <3>1, <3>2
    <2> QED BY <1>2, <2>2, <2>3, <2>5, <2>6, <2>7, CallEnds, RecordKeeps
  <1>5. CASE DeleteOldRecord(a)
    <2> SUFFICES ASSUME NEW rec \in 0..MaxRecords, rec = op[a].old.rec PROVE TunnelIInv'
      BY <1>1
    <2>1. rec \in 0..MaxRecords BY <1>1
    <2>2. Owed(a) = {rec} BY <1>5 DEF DeleteOldRecord, At, Owed
    <2>3. /\ dns' \in {dns, Deleted(rec, op[a].zone)}
          /\ \/ /\ dns' = Deleted(rec, op[a].zone)
                /\ excused' = excused \cup Missed(rec, op[a].zone) /\ UNCHANGED orphans
             \/ RecordOrphanDns(rec) /\ UNCHANGED excused
      BY <1>5 DEF DeleteOldRecord
    <2>5. /\ DnsMoves /\ Missed(rec, op[a].zone) \subseteq Records
          /\ \A q \in Records : Live(q)' => Live(q)
      BY <1>0, <2>1, <2>3, Deletions
    <2>4. ListsGrow BY <1>o, <1>0, <2>1, <2>3, <2>5 DEF ListsTyped
    <2>6. rec \in Records /\ Live(rec)' => Known(rec)'
      <3> SUFFICES ASSUME rec \in Records, Live(rec)' PROVE Known(rec)' OBVIOUS
      <3>1. Live(rec) BY <2>5
      <3>2. CASE dns' = Deleted(rec, op[a].zone)
                 /\ excused' = excused \cup Missed(rec, op[a].zone)
        <4>1. rec # 0 /\ dns[rec] # None BY <3>1 DEF Live
        <4>2. dns'[rec] = Gone \/ rec \in Missed(rec, op[a].zone)
          BY <1>0, <2>1, <3>2, <4>1, Deletions
        <4>3. dns'[rec] # Gone BY DEF Live
        <4> QED BY <3>2, <4>2, <4>3 DEF Known
      <3>3. CASE RecordOrphanDns(rec) BY <3>3 DEF RecordOrphanDns, Known
      <3> QED BY <2>3, <3>2, <3>3
    <2>7. CallsTyped' /\ CallBecomes(a, op'[a]) /\ CallInOrder(a)'
      <3>1. Goto(a, "snapshot") BY <1>5 DEF DeleteOldRecord
      <3>2. /\ CallsTyped' /\ CallBecomes(a, op'[a])
            /\ op'[a].pc = "snapshot" /\ op'[a].s = op[a].s /\ op'[a].rec = op[a].rec
        BY <1>0, <3>1, GoesOn DEF Steps
      <3>3. op[a].s \in Servers BY <1>0, <1>5 DEF DeleteOldRecord, At, CallInOrder
      <3>4. op[a].rec # 0 => dns'[op[a].rec] # None
        BY <1>0, <1>1, <2>5, Constants DEF CallInOrder, Created, DnsMoves, Records
      <3> QED BY <3>2, <3>3, <3>4 DEF CallInOrder, Created
    <2> QED BY <1>2, <2>2, <2>4, <2>5, <2>6, <2>7, RecordKeeps
  <1>6. CASE DeleteDnsRecord(a)
    <2> DEFINE rec == op[a].rec
    <2>1. rec \in 0..MaxRecords /\ op[a].s \in Servers /\ (rec # 0 => dns[rec] # None)
      BY <1>0, <1>1, <1>6 DEF DeleteDnsRecord, At, CallInOrder, Created
    <2>2. Owed(a) = {} BY <1>6 DEF DeleteDnsRecord, At, Owed
    <2>3. /\ dns' \in {dns, Deleted(rec, op[a].zone)} /\ UNCHANGED orphans
          /\ \/ /\ dns' = Deleted(rec, op[a].zone)
                /\ excused' = excused \cup Missed(rec, op[a].zone)
                /\ Goto(a, "delrow")
             \/ /\ op' = [op EXCEPT ![a].pc = "delrow", ![a].failed = TRUE]
                /\ UNCHANGED excused
      BY <1>6 DEF DeleteDnsRecord
    <2> HIDE DEF rec
    <2>4. /\ DnsMoves /\ Missed(rec, op[a].zone) \subseteq Records
          /\ \A q \in Records : Live(q)' => Live(q)
      BY <1>0, <2>1, <2>3, Deletions
    <2>5. ListsGrow BY <1>o, <1>0, <2>1, <2>3, <2>4 DEF ListsTyped
    <2>6. rec # 0 => dns'[rec] # None
      <3>1. rec # 0 => rec \in Records BY <2>1, Constants DEF Records
      <3> QED BY <2>1, <2>4, <3>1, Constants DEF DnsMoves
    <2>7. CallsTyped' /\ CallBecomes(a, op'[a]) /\ CallInOrder(a)'
      <3>1. CASE /\ dns' = Deleted(rec, op[a].zone)
                 /\ excused' = excused \cup Missed(rec, op[a].zone) /\ Goto(a, "delrow")
        <4>1. /\ CallsTyped' /\ CallBecomes(a, op'[a])
              /\ op'[a].pc = "delrow" /\ op'[a].s = op[a].s /\ op'[a].rec = rec
          BY <1>0, <3>1, GoesOn DEF Steps, rec
        <4>2. rec # 0 => dns'[rec] = Gone \/ rec \in excused'
          BY <1>0, <2>1, <3>1, Deletions
        <4> QED BY <2>1, <2>6, <4>1, <4>2 DEF CallInOrder, Created
      <3>2. CASE op' = [op EXCEPT ![a].pc = "delrow", ![a].failed = TRUE]
        <4> DEFINE c == [op[a] EXCEPT !.pc = "delrow", !.failed = TRUE]
        <4>1. /\ c \in Op /\ c.pc = "delrow" /\ c.failed /\ c.rec = rec /\ c.s = op[a].s
          BY <1>1 DEF Op, Steps, rec
        <4>2. op' = [op EXCEPT ![a] = c] BY <1>0, <3>2 DEF CallsTyped
        <4> HIDE DEF c
        <4>3. CallsTyped' /\ CallBecomes(a, c) BY <1>0, <4>1, <4>2, CallWrite
        <4>4. op'[a] = c BY <4>3 DEF CallBecomes
        <4> QED BY <2>1, <2>6, <4>1, <4>3, <4>4 DEF CallInOrder, Created, CallBecomes
      <3> QED BY <2>3, <3>1, <3>2
    <2> QED BY <1>2, <2>2, <2>4, <2>5, <2>7, RecordKeeps
  <1> QED BY <1>3, <1>4, <1>5, <1>6

-------------------------------------------------------------------------------
(* Steps at the rows *)

\* A row is rewritten whole, and the record it loses is owed, listed or gone.
LEMMA RowKeeps ==
  ASSUME TunnelIInv, NEW a \in Actors, NEW s \in Servers, NEW r \in Row,
         row' = [row EXCEPT ![s] = r],
         UNCHANGED <<host, exists, dns, tunnels, ingress, connector, requests, crashes, disturbed>>,
         ListsGrow, CallsTyped', CallBecomes(a, op'[a]), CallInOrder(a)',
         r.st # "none" <=> r.rec # 0, Created(r.rec),
         r.st # "none" => /\ r.name \in Hostnames /\ host.bound
                          /\ \A t \in Servers \ {s} : Present(t) => row[t].name # r.name,
         \A rec \in Records : Live(rec)' =>
            /\ rec = row[s].rec /\ rec # r.rec => Known(rec)'
            /\ rec \in Owed(a) => Known(rec)'
  PROVE  TunnelIInv'
  <1>0. /\ HostTyped /\ RowsTyped /\ DnsTyped /\ TunnelsTyped /\ CountersTyped /\ NamesApart
        /\ BoundFirst
    BY TunnelTypes DEF TunnelIInv
  <1>1. /\ HostTyped' /\ DnsTyped' /\ TunnelsTyped' /\ CountersTyped' /\ ListsTyped' /\ DnsMoves
    BY <1>0 DEF HostTyped, DnsTyped, TunnelsTyped, CountersTyped, ListsGrow, DnsMoves
  <1>2. RowsTyped' /\ row'[s] = r /\ \A t \in Servers \ {s} : row'[t] = row[t]
    BY <1>0, RowWrite DEF RowBecomes
  <1>3. NamesApart' BY <1>0, <1>2 DEF NamesApart, Present
  <1>4. BoundFirst' BY <1>0, <1>2 DEF BoundFirst, Present
  <1>5. \A t \in Servers : RowInOrder(t)'
    <2>1. ASSUME NEW t \in Servers \ {s} PROVE RowInOrder(t)' BY <1>1, <1>2, RowStays
    <2>2. RowInOrder(s)' BY <1>2 DEF RowInOrder, Present, Created
    <2> QED BY <2>1, <2>2
  <1>6. \A b \in Actors : CallInOrder(b)'
    <2>1. ASSUME NEW b \in Actors \ {a} PROVE CallInOrder(b)'
      BY <1>1, <2>1, CallStays DEF CallBecomes
    <2> QED BY <2>1
  <1>7. \A rec \in Records : Live(rec)' => Known(rec)'
    <2>1. \A rec \in Records : Live(rec)' => Live(rec) BY DEF Live
    <2>2. \A rec \in Records : Live(rec)' =>
             ((\E t \in Servers : row[t].rec = rec /\ row'[t].rec # rec) => Known(rec)')
      BY <1>2
    <2> QED BY <2>1, <2>2, KnownStays DEF CallBecomes
  <1> QED BY <1>1, <1>2, <1>3, <1>4, <1>5, <1>6, <1>7, Parts

\* A request whose row is not there any more, or whose name is taken.
LEMMA RowUntouched ==
  ASSUME TunnelIInv, NEW a \in Actors, op[a].pc \in {"save"}, UNCHANGED row,
         UNCHANGED <<host, exists, orphans, dns, tunnels, ingress, connector, requests, crashes,
                     disturbed>>,
         \/ Goto(a, "undo") /\ UNCHANGED excused
         \/ Finish(a) /\ excused' = excused \cup {op[a].rec}
  PROVE  TunnelIInv'
  <1> SUFFICES ASSUME NEW rec \in 0..MaxRecords, rec = op[a].rec PROVE TunnelIInv'
    BY TunnelTypes DEF TunnelIInv, CallsTyped, Op
  <1>0. CallsTyped /\ CallInOrder(a) /\ DnsTyped /\ ListsTyped BY TunnelTypes DEF TunnelIInv
  <1>1. /\ rec # 0 /\ op[a].name \in Labels \X {op[a].zone} /\ dns[rec] \in {op[a].name, Gone}
        /\ dns[rec] # None
    BY <1>0 DEF CallInOrder, Created
  <1>2. rec \in Records BY <1>1, Constants DEF Records
  <1>3. DnsMoves /\ ListsGrow
    BY <1>0, <1>2 DEF DnsMoves, DnsTyped, ListsGrow, ListsTyped
  <1>4. Owed(a) = {rec} /\ \A q \in Records : Live(q)' => Live(q) BY DEF Owed, Live
  <1>5. /\ CallsTyped' /\ CallBecomes(a, op'[a]) /\ CallInOrder(a)'
        /\ Known(rec)'
    <2>1. CASE Goto(a, "undo")
      <3>1. /\ CallsTyped' /\ CallBecomes(a, op'[a]) /\ op'[a].pc = "undo"
            /\ op'[a].name = op[a].name /\ op'[a].rec = rec /\ op'[a].zone = op[a].zone
        BY <1>0, <2>1, GoesOn DEF Steps
      <3>2. Known(rec)'
        <4>1. rec \in Owed(a)' BY <3>1 DEF Owed
        <4> QED BY <4>1 DEF Known
      <3> QED BY <1>1, <3>1, <3>2 DEF CallInOrder, Created
    <2>2. CASE Finish(a) /\ excused' = excused \cup {rec}
      BY <2>2, CallEnds DEF Known
    <2> QED BY <2>1, <2>2
  <1> QED BY <1>3, <1>4, <1>5, RecordKeeps

LEMMA Inserts ==
  ASSUME TunnelIInv, NEW a \in Actors, InsertRow(a)
  PROVE  TunnelIInv'
  <1> SUFFICES ASSUME NEW rec \in 0..MaxRecords, rec = op[a].rec, NEW s, s = op[a].s
               PROVE TunnelIInv'
    BY TunnelTypes DEF TunnelIInv, CallsTyped, Op
  <1>0. /\ CallsTyped /\ CallInOrder(a) /\ RowInOrder(op[a].s) /\ ListsTyped /\ RowsTyped
        /\ op[a] \in Op /\ s \in Servers
    BY TunnelTypes DEF TunnelIInv, CallsTyped, InsertRow, At, CallInOrder
  <1>1. /\ op[a].pc = "save" /\ op[a].kind \in {"enable", "change"}
        /\ rec # 0 /\ op[a].name \in Labels \X {op[a].zone} /\ dns[rec] # None
        /\ UNCHANGED <<host, exists, orphans, dns, tunnels, ingress, connector, requests, crashes,
                       excused, disturbed>>
    BY <1>0 DEF InsertRow, At, cloudflare, CallInOrder, Created
  <1>2. CASE Goto(a, "undo") /\ row' = row BY <1>1, <1>2, RowUntouched
  <1>3. ASSUME ~Present(s), ~Claimed(op[a].name, s), host.bound,
               NEW r, r = [st |-> "active", id |-> rec, name |-> op[a].name, rec |-> rec],
               row' = [row EXCEPT ![s] = r],
               op' = [op EXCEPT ![a].pc = "snapshot", ![a].old = row'[s]]
        PROVE  TunnelIInv'
    <2>1. op[a].name \in Hostnames BY <1>0, <1>1 DEF Op, Hostnames
    <2>2. r \in Row /\ r.st = "active" /\ r.rec = rec /\ r.name = op[a].name
      BY <1>3, <2>1 DEF Row
    <2>3. row'[s] = r BY <1>0, <1>3 DEF RowsTyped
    <2> DEFINE c == [op[a] EXCEPT !.pc = "snapshot", !.old = r]
    <2>4. /\ c \in Op /\ c.pc = "snapshot" /\ c.rec = rec /\ c.s = s
          /\ c.kind = op[a].kind
      BY <1>0, <2>2 DEF Op, Steps
    <2>5. op' = [op EXCEPT ![a] = c] BY <1>0, <1>3, <2>3 DEF CallsTyped
    <2> HIDE DEF c
    <2>6. CallsTyped' /\ CallBecomes(a, op'[a]) /\ CallInOrder(a)'
      BY <1>0, <1>1, <2>4, <2>5, CallBegins DEF Created
    <2>7. ListsGrow BY <1>0, <1>1 DEF ListsGrow, ListsTyped
    <2>8. Owed(a) = {rec} BY <1>1 DEF Owed
    <2>9. Known(rec)' BY <1>0, <2>2, <2>3 DEF Known
    <2>10. row[s].rec = 0 /\ 0 \notin Records BY <1>0, <1>3, Constants DEF RowInOrder, Records
    <2>11. /\ r.st # "none" <=> r.rec # 0
           /\ Created(r.rec)
           /\ r.name \in Hostnames /\ host.bound
           /\ \A t \in Servers \ {s} : row[t].name # r.name
      BY <1>1, <1>3, <2>1, <2>2 DEF Created, Claimed
    <2> QED BY <1>0, <1>1, <1>3, <2>2, <2>6, <2>7, <2>8, <2>9, <2>10, <2>11, RowKeeps
  <1> QED BY <1>2, <1>3 DEF InsertRow

LEMMA Updates ==
  ASSUME TunnelIInv, NEW a \in Actors, UpdateRow(a)
  PROVE  TunnelIInv'
  <1> SUFFICES ASSUME NEW rec \in 0..MaxRecords, rec = op[a].rec, NEW s, s = op[a].s,
                      NEW lost, lost = row[s].rec
               PROVE TunnelIInv'
    BY TunnelTypes DEF TunnelIInv, CallsTyped, Op
  <1>0. /\ CallsTyped /\ CallInOrder(a) /\ RowInOrder(s) /\ ListsTyped /\ RowsTyped
        /\ NamesApart /\ BoundFirst /\ op[a] \in Op /\ s \in Servers
    BY TunnelTypes DEF TunnelIInv, CallsTyped, UpdateRow, At, CallInOrder
  <1>1. /\ op[a].pc = "save" /\ op[a].kind \in {"enable", "change"}
        /\ rec # 0 /\ op[a].name \in Labels \X {op[a].zone} /\ dns[rec] # None
        /\ UNCHANGED <<host, exists, orphans, dns, tunnels, ingress, connector, requests, crashes,
                       disturbed>>
    BY <1>0 DEF UpdateRow, At, cloudflare, CallInOrder, Created
  <1>2. CASE ~SameRow(a) \/ Claimed(op[a].name, s)
    BY <1>1, <1>2, RowUntouched DEF UpdateRow
  <1>3. ASSUME SameRow(a), ~Claimed(op[a].name, s),
               NEW r, r = [row[s] EXCEPT !.st = "active", !.name = op[a].name, !.rec = rec]
        PROVE  TunnelIInv'
    <2>1. op[a].name \in Hostnames BY <1>0, <1>1 DEF Op, Hostnames
    <2>2. r \in Row /\ r.st = "active" /\ r.rec = rec /\ r.name = op[a].name
      BY <1>0, <1>3, <2>1 DEF Row, RowsTyped
    <2>3. /\ row' = [row EXCEPT ![s] = r]
          /\ Goto(a, IF op[a].kind = "change" THEN "olddns" ELSE "snapshot")
          /\ excused' = excused \cup (IF op[a].kind = "enable" \/ lost # op[a].old.rec
                                      THEN {lost} ELSE {})
      BY <1>0, <1>3 DEF UpdateRow, RowsTyped
    <2>4. Present(s) /\ lost \in Records /\ host.bound
      <3>1. Present(s) BY <1>3 DEF SameRow
      <3>2. lost \in 0..MaxRecords /\ lost # 0
        BY <1>0, <3>1 DEF RowsTyped, Row, RowInOrder
      <3>3. lost \in Records BY <3>2, Constants DEF Records
      <3> QED BY <1>0, <3>1, <3>3 DEF BoundFirst
    <2> DEFINE pc == IF op[a].kind = "change" THEN "olddns" ELSE "snapshot"
    <2>5. pc \in {"olddns", "snapshot"} /\ (op[a].kind = "change" => pc = "olddns") OBVIOUS
    <2>6. Goto(a, pc) BY <2>3
    <2> HIDE DEF pc
    <2>7. /\ CallsTyped' /\ CallBecomes(a, op'[a])
          /\ op'[a].pc = pc /\ op'[a].s = s /\ op'[a].rec = rec /\ op'[a].old = op[a].old
          /\ op'[a].kind = op[a].kind
      BY <1>0, <2>5, <2>6, GoesOn DEF Steps
    <2>8. CallInOrder(a)' BY <1>0, <1>1, <2>5, <2>7 DEF CallInOrder, Created
    <2>9. ListsGrow BY <1>0, <1>1, <2>3, <2>4 DEF ListsGrow, ListsTyped
    <2>10. Owed(a) = {rec} BY <1>1 DEF Owed
    <2>11. row'[s] = r BY <1>0, <2>3 DEF RowsTyped
    <2>12. Known(rec)' BY <1>0, <2>2, <2>11 DEF Known
    <2>13. Known(lost)'
      <3>1. CASE op[a].kind = "enable" \/ lost # op[a].old.rec BY <2>3, <3>1 DEF Known
      <3>2. CASE op[a].kind = "change" /\ lost = op[a].old.rec
        <4>1. lost \in Owed(a)' BY <2>5, <2>7, <3>2 DEF Owed
        <4> QED BY <4>1 DEF Known
      <3> QED BY <1>1, <3>1, <3>2
    <2>14. /\ r.st # "none" <=> r.rec # 0
           /\ Created(r.rec)
           /\ r.name \in Hostnames /\ host.bound
           /\ \A t \in Servers \ {s} : row[t].name # r.name
      BY <1>1, <1>3, <2>1, <2>2, <2>4 DEF Created, Claimed
    <2> QED BY <1>0, <1>1, <2>2, <2>3, <2>7, <2>8, <2>9, <2>10, <2>12, <2>13, <2>14, RowKeeps
  <1> QED BY <1>2, <1>3

LEMMA Marks ==
  ASSUME TunnelIInv, NEW a \in Actors, MarkFailed(a)
  PROVE  TunnelIInv'
  <1> SUFFICES ASSUME NEW s, s = op[a].s PROVE TunnelIInv'
    OBVIOUS
  <1>0. /\ CallsTyped /\ DnsTyped /\ RowInOrder(s) /\ ListsTyped /\ RowsTyped /\ NamesApart
        /\ BoundFirst /\ s \in Servers
    BY TunnelTypes DEF TunnelIInv, MarkFailed, At, CallInOrder
  <1>1. /\ Owed(a) = {} /\ Finish(a)
        /\ UNCHANGED <<host, exists, orphans, dns, tunnels, ingress, connector, requests, crashes,
                       excused, disturbed>>
    BY DEF MarkFailed, At, cloudflare, Owed
  <1>2. CallsTyped' /\ CallBecomes(a, op'[a]) /\ CallInOrder(a)' BY <1>1, CallEnds
  <1>3. ListsGrow /\ DnsMoves
    BY <1>0, <1>1 DEF ListsGrow, ListsTyped, DnsMoves, DnsTyped
  <1>4. CASE row' = row
    <2>1. \A rec \in Records : Live(rec)' => Live(rec) BY <1>1 DEF Live
    <2> QED BY <1>1, <1>2, <1>3, <1>4, <2>1, RecordKeeps
  <1>5. ASSUME SameRow(a), row' = [row EXCEPT ![s].st = "failed"],
               NEW r, r = [row[s] EXCEPT !.st = "failed"]
        PROVE  TunnelIInv'
    <2>1. Present(s) BY <1>5 DEF SameRow
    <2>2. r \in Row /\ r.st = "failed" /\ r.rec = row[s].rec /\ r.name = row[s].name
      BY <1>0, <1>5 DEF RowsTyped, Row
    <2>3. row' = [row EXCEPT ![s] = r] BY <1>0, <1>5 DEF RowsTyped
    <2>4. /\ r.st # "none" <=> r.rec # 0
          /\ Created(r.rec)
          /\ r.name \in Hostnames /\ host.bound
          /\ \A t \in Servers \ {s} : Present(t) => row[t].name # r.name
      BY <1>0, <2>1, <2>2 DEF RowInOrder, BoundFirst, NamesApart
    <2> QED BY <1>0, <1>1, <1>2, <1>3, <2>2, <2>3, <2>4, RowKeeps
  <1> QED BY <1>4, <1>5 DEF MarkFailed

LEMMA Deletes ==
  ASSUME TunnelIInv, NEW a \in Actors, DeleteRow(a)
  PROVE  TunnelIInv'
  <1> SUFFICES ASSUME NEW rec \in 0..MaxRecords, rec = op[a].rec, NEW s, s = op[a].s,
                      NEW lost, lost = row[s].rec
               PROVE TunnelIInv'
    BY TunnelTypes DEF TunnelIInv, CallsTyped, Op
  <1>0. /\ CallsTyped /\ HostTyped /\ DnsTyped /\ CallInOrder(a) /\ RowInOrder(s) /\ ListsTyped
        /\ RowsTyped /\ op[a] \in Op /\ s \in Servers
    BY TunnelTypes DEF TunnelIInv, CallsTyped, DeleteRow, At, CallInOrder
  <1>1. /\ op[a].pc = "delrow" /\ Owed(a) = {} /\ AfterRow(a)
        /\ (op[a].failed => <<"dns", rec>> \in orphans')
        /\ (~op[a].failed /\ rec # 0 => dns[rec] = Gone \/ rec \in excused)
        /\ UNCHANGED <<host, exists, dns, tunnels, ingress, connector, requests, crashes,
                       disturbed>>
    BY <1>0 DEF DeleteRow, RecordOrphanDns, At, Owed, cloudflare, CallInOrder
  <1>2. orphans \subseteq orphans' /\ orphans' \subseteq {"dns", "tunnel"} \X Nat
    <2>1. rec \in Nat BY Constants
    <2> QED BY <1>0, <2>1 DEF DeleteRow, RecordOrphanDns, ListsTyped
  <1>3. CallsTyped' /\ CallBecomes(a, op'[a]) /\ CallInOrder(a)'
    <2>1. ASSUME NEW kind \in {"disable", "hook"}, NEW pc \in {"snapshot", "drop"},
                 Begin(a, Call(kind, s, pc))
          PROVE  CallsTyped' /\ CallBecomes(a, op'[a]) /\ CallInOrder(a)'
      <3> DEFINE c == Call(kind, s, pc)
      <3>1. kind \in Kinds /\ pc \in Steps BY DEF Kinds, Steps
      <3>2. c \in Op /\ c.kind = kind /\ c.pc = pc /\ c.rec = 0 BY <1>0, <3>1, Calls
      <3>3. op' = [op EXCEPT ![a] = c] BY <2>1 DEF Begin
      <3> HIDE DEF c
      <3> QED BY <1>0, <1>1, <3>2, <3>3, CallBegins DEF Created
    <2>2. CASE Finish(a) BY <1>1, <2>2, CallEnds
    <2> QED BY <1>1, <2>1, <2>2 DEF AfterRow
  <1>4. CASE UNCHANGED <<row, excused>>
    <2>1. ListsGrow /\ DnsMoves
      BY <1>0, <1>1, <1>2, <1>4 DEF ListsGrow, ListsTyped, DnsMoves, DnsTyped
    <2>2. \A q \in Records : Live(q)' => Live(q) BY <1>1 DEF Live
    <2> QED BY <1>1, <1>3, <1>4, <2>1, <2>2, RecordKeeps
  <1>5. ASSUME SameRow(a), NEW r \in Row, r = NoRow, row' = [row EXCEPT ![s] = r],
               excused' = IF lost = rec THEN excused ELSE excused \cup {lost}
        PROVE  TunnelIInv'
    <2>1. lost \in Records
      <3>1. lost \in 0..MaxRecords /\ lost # 0
        BY <1>0, <1>5 DEF SameRow, RowsTyped, Row, RowInOrder
      <3> QED BY <3>1, Constants DEF Records
    <2>2. ListsGrow BY <1>0, <1>2, <1>5, <2>1 DEF ListsGrow, ListsTyped
    <2>3. Live(lost)' => Known(lost)'
      <3>1. CASE lost # rec BY <1>5, <3>1 DEF Known
      <3>2. CASE lost = rec /\ op[a].failed BY <1>1, <3>2 DEF Known
      <3>3. CASE lost = rec /\ ~op[a].failed
        <4>1. rec # 0 BY <2>1, <3>3, Constants DEF Records
        <4>2. dns[rec] = Gone \/ rec \in excused BY <1>1, <3>3, <4>1
        <4> QED BY <1>1, <2>2, <3>3, <4>2 DEF Live, Known, ListsGrow
      <3> QED BY <3>1, <3>2, <3>3
    <2>4. r.st = "none" /\ r.rec = 0 /\ Created(r.rec) BY <1>5, Constants DEF Created
    <2> QED BY <1>0, <1>1, <1>3, <1>5, <2>2, <2>3, <2>4, RowKeeps
  <1> QED BY <1>4, <1>5, Constants DEF DeleteRow

\* The host's row goes, and every server's with it.
LEMMA HostGoes ==
  ASSUME TunnelIInv, NEW a \in Actors, DeleteHostRow(a)
  PROVE  TunnelIInv'
  <1>0. /\ HostTyped /\ CallsTyped /\ DnsTyped /\ ListsTyped /\ RowsTyped /\ TunnelsTyped
        /\ CountersTyped
    BY TunnelTypes DEF TunnelIInv
  <1>1. /\ Owed(a) = {} /\ Finish(a)
        /\ UNCHANGED <<exists, orphans, dns, tunnels, ingress, connector, requests, crashes,
                       disturbed>>
        /\ host' = [bound |-> FALSE, zone |-> 1, tid |-> 0]
        /\ excused' = excused \cup {row[s].rec : s \in {t \in Servers : Present(t)}}
        /\ \A s \in Servers : row'[s] = NoRow
        /\ row' = [s \in Servers |-> NoRow]
    BY DEF DeleteHostRow, At, Owed, cloudflare
  <1>2. CallsTyped' /\ CallBecomes(a, op'[a]) /\ CallInOrder(a)' BY <1>1, CallEnds
  <1>3. HostTyped' /\ host'.tid = 0 BY <1>1, Constants DEF HostTyped, HostRow, Zones
  <1>4. RowsTyped' /\ NamesApart' /\ BoundFirst'
    BY <1>1, <1>3, Constants DEF RowsTyped, NamesApart, BoundFirst, Present
  <1>5. ListsGrow
    <2>1. \A s \in Servers : Present(s) => row[s].rec \in Records
      BY <1>0, Constants DEF TunnelIInv, RowInOrder, RowsTyped, Row, Records
    <2> QED BY <1>0, <1>1, <2>1 DEF ListsGrow, ListsTyped
  <1>6. DnsMoves /\ DnsTyped' /\ TunnelsTyped' /\ CountersTyped'
    BY <1>0, <1>1 DEF DnsMoves, DnsTyped, TunnelsTyped, CountersTyped
  <1>7. \A s \in Servers : RowInOrder(s)'
    BY <1>1, Constants DEF RowInOrder, Present, Created
  <1>8. \A b \in Actors : CallInOrder(b)'
    <2>1. ASSUME NEW b \in Actors \ {a} PROVE CallInOrder(b)'
      BY <1>2, <1>5, <1>6, <2>1, CallStays DEF CallBecomes
    <2> QED BY <1>2, <2>1
  <1>9. \A rec \in Records : Live(rec)' => Known(rec)'
    <2>1. \A rec \in Records : Live(rec)' => Live(rec) BY <1>1 DEF Live
    <2>2. ASSUME NEW rec \in Records, NEW s \in Servers, row[s].rec = rec
          PROVE  Known(rec)'
      <3>1. Present(s) BY <2>2, Constants DEF TunnelIInv, RowInOrder, Records
      <3> QED BY <1>1, <2>2, <3>1 DEF Known
    <2> QED BY <1>1, <1>2, <1>5, <2>1, <2>2, KnownStays DEF CallBecomes
  <1> QED BY <1>2, <1>3, <1>4, <1>5, <1>6, <1>7, <1>8, <1>9, Parts DEF ListsGrow

-------------------------------------------------------------------------------
(* Restarts, and the whole *)

\* A restart forgets the requests, and what they owed with them.
LEMMA Crashes ==
  ASSUME TunnelIInv, Crash
  PROVE  TunnelIInv'
  <1>0. /\ HostTyped /\ CallsTyped /\ DnsTyped /\ ListsTyped /\ RowsTyped /\ TunnelsTyped
        /\ CountersTyped /\ NamesApart /\ BoundFirst
    BY TunnelTypes DEF TunnelIInv
  <1>1. /\ \A a \in Actors : op'[a] = NoOp
        /\ op' = [a \in Actors |-> NoOp] /\ disturbed' = TRUE
        /\ crashes < MaxCrashes /\ crashes' = crashes + 1
        /\ excused' = excused \cup (InFlight \ {0})
        /\ UNCHANGED <<host, row, exists, orphans, dns, tunnels, ingress, connector, requests>>
    BY DEF Crash, cloudflare
  <1>2. /\ HostTyped' /\ RowsTyped' /\ DnsTyped' /\ TunnelsTyped' /\ NamesApart' /\ BoundFirst'
        /\ DnsMoves
    BY <1>0, <1>1 DEF HostTyped, RowsTyped, DnsTyped, TunnelsTyped, NamesApart, BoundFirst, Present,
                      DnsMoves
  <1>3. CallsTyped' BY <1>1, Constants DEF CallsTyped
  <1>4. CountersTyped' BY <1>0, <1>1, Constants DEF CountersTyped
  <1>5. ListsTyped'
    <2>1. InFlight \ {0} \subseteq Records
      <3>1. \A a \in Actors : op[a].rec \in 0..MaxRecords /\ op[a].old.rec \in 0..MaxRecords
        BY <1>0 DEF CallsTyped, Op, Row
      <3> QED BY <3>1, Constants DEF InFlight, Records
    <2> QED BY <1>0, <1>1, <2>1 DEF ListsTyped
  <1>6. \A s \in Servers : RowInOrder(s)' BY <1>1, <1>2, RowStays
  <1>7. \A a \in Actors : CallInOrder(a)' BY <1>1, Constants DEF CallInOrder, Created
  <1>8. \A rec \in Records : Live(rec)' => Known(rec)'
    <2> SUFFICES ASSUME NEW rec \in Records, Live(rec)' PROVE Known(rec)' OBVIOUS
    <2>1. Known(rec) BY <1>1 DEF TunnelIInv, Live
    <2>2. \A a \in Actors : rec \in Owed(a) => rec \in InFlight BY DEF Owed, InFlight
    <2>3. rec # 0 BY Constants DEF Records
    <2> QED BY <1>1, <2>1, <2>2, <2>3 DEF Known
  <1> QED BY <1>2, <1>3, <1>4, <1>5, <1>6, <1>7, <1>8, Parts

LEMMA TunnelStarts == TunnelInit => TunnelIInv
  <1> SUFFICES ASSUME TunnelInit PROVE TunnelIInv OBVIOUS
  <1>1. /\ \A s \in Servers : row[s] = NoRow
        /\ \A rec \in Records : dns[rec] = None
        /\ \A a \in Actors : op[a] = NoOp
    BY DEF TunnelInit
  <1>2. HostTyped /\ TunnelsTyped
    <2>1. 1 \in 1..MaxTunnels /\ 0 \in 0..MaxTunnels /\ 1 \in 0..MaxTunnels
      BY TunnelAssumption
    <2>2. host \in HostRow
      <3>1. \/ host = [bound |-> FALSE, zone |-> 1, tid |-> 0]
            \/ host = [bound |-> TRUE, zone |-> 1, tid |-> 1]
        BY DEF TunnelInit
      <3>2. 1 \in Zones BY DEF Zones
      <3>3. CASE host = [bound |-> FALSE, zone |-> 1, tid |-> 0] BY <2>1, <3>2, <3>3 DEF HostRow
      <3>4. CASE host = [bound |-> TRUE, zone |-> 1, tid |-> 1] BY <2>1, <3>2, <3>4 DEF HostRow
      <3> QED BY <3>1, <3>3, <3>4
    <2>3. /\ tunnels \in [1..MaxTunnels -> {"unused", "alive", "gone"}]
          /\ connector \in 0..MaxTunnels
      BY <2>1 DEF TunnelInit
    <2> QED BY <2>2, <2>3 DEF TunnelInit, HostTyped, TunnelsTyped
  <1>3. RowsTyped /\ DnsTyped /\ CallsTyped /\ ListsTyped
    BY Constants DEF TunnelInit, RowsTyped, DnsTyped, CallsTyped, ListsTyped
  <1>4. CountersTyped
    <2>1. disturbed \in BOOLEAN BY DEF TunnelInit
    <2>2. exists \subseteq Servers BY DEF TunnelInit
    <2>3. requests \in 0..MaxRequests /\ crashes \in 0..MaxCrashes
      BY Constants DEF TunnelInit
    <2> QED BY <2>1, <2>2, <2>3 DEF CountersTyped
  <1>5. NamesApart /\ BoundFirst
    <2>1. \A s \in Servers : ~Present(s) BY <1>1, Constants DEF Present
    <2>2. host.tid # 0 => host.bound BY DEF TunnelInit
    <2> QED BY <2>1, <2>2 DEF NamesApart, BoundFirst
  <1>6. \A s \in Servers : RowInOrder(s) BY <1>1, Constants DEF RowInOrder, Present, Created
  <1>7. \A a \in Actors : CallInOrder(a) BY <1>1, Constants DEF CallInOrder, Created
  <1>8. \A rec \in Records : ~Live(rec) BY <1>1 DEF Live
  <1> QED BY <1>2, <1>3, <1>4, <1>5, <1>6, <1>7, <1>8, TunnelTypes DEF TunnelIInv

LEMMA TunnelStutters ==
  ASSUME TunnelIInv, UNCHANGED tunnelVars
  PROVE  TunnelIInv'
  <1>1. UNCHANGED <<host, row, exists, orphans, dns, tunnels, ingress, connector, op, requests,
                    crashes, excused, disturbed>>
    BY DEF tunnelVars, cloudflare
  <1> QED BY <1>1
          DEF TunnelIInv, TunnelTypeOK, RowInOrder, CallInOrder, Known, Owed, Created, Live, Present

LEMMA TunnelStep == TunnelIInv /\ [TunnelNext]_tunnelVars => TunnelIInv'
  <1> SUFFICES ASSUME TunnelIInv, [TunnelNext]_tunnelVars PROVE TunnelIInv' OBVIOUS
  <1>1. CASE \E r \in Requests : StartRequest(r) BY <1>1, BeginningSteps
  <1>2. CASE \E s \in Servers : OnServerPreDelete(s) BY <1>2, BeginningSteps
  <1>3. ASSUME NEW a \in Actors, Proceed(a) PROVE TunnelIInv'
    BY <1>3, CalmSteps, RecordSteps, Inserts, Updates, Marks, Deletes, HostGoes DEF Proceed
  <1>4. CASE Crash BY <1>4, Crashes
  <1>5. CASE UNCHANGED tunnelVars BY <1>5, TunnelStutters
  <1> QED BY <1>1, <1>2, <1>3, <1>4, <1>5 DEF TunnelNext

\* Every request of user_servers_tunnel.py and every hook of dispatcher.py keeps the invariant.
THEOREM TunnelInvariant == TunnelSpec => []TunnelIInv
  BY TunnelStarts, TunnelStep, PTL DEF TunnelSpec

\* The rows, the lists and Cloudflare's records stay well formed, no two rows have one hostname,
\* and no row outlives its host's (the foreign key and the unique index of the tunnel tables).
THEOREM TunnelTypeCorrect == TunnelSpec => []TunnelTypeOK
  <1>1. TunnelIInv => TunnelTypeOK BY DEF TunnelIInv
  <1> QED BY <1>1, TunnelInvariant, PTL

\* Whatever requests, deletions and restarts do at once, a DNS record that is still at Cloudflare
\* belongs to a row, to a request under way or to the list of orphans, but for the cases
\* dispatcher.py forgets.
THEOREM NoForgottenRecord == TunnelSpec => []LeftoversKnown
  <1>1. TunnelIInv => LeftoversKnown
    <2> SUFFICES ASSUME TunnelIInv, NEW rec \in Records, Live(rec)
                 PROVE  \/ \E s \in Servers : row[s].rec = rec
                        \/ rec \in InFlight \/ <<"dns", rec>> \in orphans \/ rec \in excused
      BY DEF LeftoversKnown
    <2>1. Known(rec) BY DEF TunnelIInv
    <2>2. \A a \in Actors : rec \in Owed(a) => rec \in InFlight BY DEF Owed, InFlight
    <2> QED BY <2>1, <2>2 DEF Known
  <1> QED BY <1>1, TunnelInvariant, PTL

-------------------------------------------------------------------------------
(* Requests one at a time: what is active is served *)

\* No two requests are under way at once; a deletion may be, beside one.
Alone == \A q, r \in Requests : q # r => NoOp \in {op[q], op[r]}

\* The server whose row a request has not yet brought to Cloudflare, or will take back.
Pending(o) == IF /\ o.kind \in {"enable", "change"}
                 /\ o.pc \in {"olddns", "snapshot", "put", "mark", "deldns", "delrow"}
              THEN {o.s} ELSE {}

\* What a request that meets no other knows of the host and of the row it works on.
Fits(o) ==
    /\ o.pc = "idle" => o = NoOp
    /\ o.pc # "idle" => host.bound
    /\ o.kind \in {"enable", "change"} => host.tid # 0
    /\ o.pc \in {"create", "collide", "persist"} => host.tid = 0
    /\ o.pc = "deltunnel" => o.tid = host.tid
    /\ o.pc = "put" => BuildIngress \subseteq o.rules
    /\ \A s \in Pending(o) : Present(s) => row[s].id = o.old.id

Served(s) == <<row[s].name, s>> \in ingress
Routed ==
    Alive(host.tid) =>
        \A s \in Servers : row[s].st = "active" => Served(s) \/ \E a \in Requests : s \in Pending(op[a])
NoneWithout == host.tid = 0 => \A s \in Servers : ~Present(s)
Undisturbed == Routed /\ NoneWithout /\ \A a \in Requests : Fits(op[a])

\* The deletion of a server pushes nothing.
DeleterApart ==
    op[Deleter].pc \in {"idle", "deldns", "delrow", "drop"} /\ op[Deleter].kind \in {"none", "hook"}

RoutedIInv == DeleterApart /\ (~disturbed => Undisturbed)

LEMMA Nothing == NoOp.kind = "none" /\ NoOp.pc = "idle" /\ Pending(NoOp) = {}
  BY DEF NoOp, Pending

LEMMA CallSet ==
  ASSUME TunnelIInv, NEW a \in Actors, NEW c, op' = [op EXCEPT ![a] = c]
  PROVE  CallBecomes(a, c)
  BY TunnelTypes DEF TunnelIInv, CallsTyped, CallBecomes

LEMMA CallMoves ==
  ASSUME TunnelIInv, NEW a \in Actors, NEW pc, Goto(a, pc)
  PROVE  /\ CallBecomes(a, op'[a])
         /\ op'[a].pc = pc /\ op'[a].kind = op[a].kind /\ op'[a].s = op[a].s
         /\ op'[a].old = op[a].old /\ op'[a].tid = op[a].tid /\ op'[a].rules = op[a].rules
  <1>1. op[a] \in Op BY TunnelTypes DEF TunnelIInv, CallsTyped
  <1>2. PICK c : c = [op[a] EXCEPT !.pc = pc] OBVIOUS
  <1>3. /\ c.pc = pc /\ c.kind = op[a].kind /\ c.s = op[a].s
        /\ c.old = op[a].old /\ c.tid = op[a].tid /\ c.rules = op[a].rules
    BY <1>1, <1>2 DEF Op
  <1>4. CallBecomes(a, c) BY <1>2, CallSet DEF Goto
  <1> QED BY <1>3, <1>4 DEF CallBecomes

LEMMA CallStops ==
  ASSUME TunnelIInv, NEW a \in Actors, Finish(a)
  PROVE  CallBecomes(a, NoOp)
  BY CallSet DEF Finish

LEMMA NewCall ==
  ASSUME TunnelIInv, NEW kind, NEW s, NEW pc
  PROVE  LET c == Call(kind, s, pc) IN
         c.kind = kind /\ c.s = s /\ c.pc = pc /\ c.tid = host.tid
  BY DEF Call, NoOp

\* Of one request's step it is enough to say what becomes of the host, of the active rows and of
\* the request itself.
LEMMA OneMoves ==
  ASSUME Alone, Undisturbed, NEW a \in Requests, op[a] # NoOp, NEW c, CallBecomes(a, c),
         Fits(c)', NoneWithout',
         Alive(host.tid)' => \A s \in Servers : row'[s].st = "active" => Served(s)' \/ s \in Pending(c)
  PROVE  Undisturbed'
  <1>1. op'[a] = c BY DEF CallBecomes
  <1>2. ASSUME NEW b \in Requests \ {a} PROVE Fits(op[b])'
    <2>1. op'[b] = NoOp BY <1>2, Constants DEF Alone, CallBecomes
    <2> QED BY <2>1, Nothing DEF Fits
  <1>3. \A b \in Requests : Fits(op[b])' BY <1>1, <1>2
  <1>4. Routed' BY <1>1 DEF Routed
  <1> QED BY <1>3, <1>4 DEF Undisturbed

\* An active row is served or in the one request's hands.
LEMMA ServedOrHeld ==
  ASSUME Alone, Undisturbed, NEW a \in Requests, op[a] # NoOp, Alive(host.tid),
         NEW s \in Servers, row[s].st = "active"
  PROVE  Served(s) \/ s \in Pending(op[a])
  <1>1. Served(s) \/ \E b \in Requests : s \in Pending(op[b]) BY DEF Undisturbed, Routed
  <1>2. \A b \in Requests \ {a} : Pending(op[b]) = {} BY Nothing DEF Alone
  <1> QED BY <1>1, <1>2

\* A step that leaves host, rows and rules alone.
LEMMA OneGoesOn ==
  ASSUME Alone, Undisturbed, NEW a \in Requests, op[a] # NoOp, NEW c, CallBecomes(a, c),
         UNCHANGED <<host, row, tunnels, ingress>>, Fits(c)', Pending(op[a]) \subseteq Pending(c)
  PROVE  Undisturbed'
  <1>1. NoneWithout' BY DEF Undisturbed, NoneWithout, Present
  <1>2. Alive(host.tid)' => \A s \in Servers : row'[s].st = "active" => Served(s)' \/ s \in Pending(c)
    BY ServedOrHeld DEF Alive, Served
  <1> QED BY <1>1, <1>2, OneMoves

LEMMA IdleFits == ASSUME TunnelIInv PROVE Fits(NoOp)'
  BY Nothing DEF Fits

-------------------------------------------------------------------------------
(* One request's steps *)

\* A request that ends, or waits, with nothing pending.
LEMMA OneStops ==
  ASSUME TunnelIInv, Alone, Undisturbed, NEW a \in Requests, op[a].pc # "idle", Finish(a),
         UNCHANGED <<host, row, tunnels, ingress>>, Pending(op[a]) = {}
  PROVE  Undisturbed'
  <1>1. op[a] # NoOp /\ CallBecomes(a, NoOp) BY Nothing, CallStops, Constants
  <1> QED BY <1>1, IdleFits, OneGoesOn

LEMMA OneAtDns ==
  ASSUME TunnelIInv, Alone, Undisturbed, NEW a \in Requests,
         CreateDnsRecord(a) \/ UndoRecord(a) \/ DropServer(a)
  PROVE  Undisturbed'
  <1>1. op[a].pc \in {"dns", "undo", "drop"} BY DEF CreateDnsRecord, UndoRecord, DropServer, At
  <1>2. UNCHANGED <<host, row, tunnels, ingress>> /\ Pending(op[a]) = {} /\ op[a] # NoOp
    BY <1>1, Nothing DEF CreateDnsRecord, UndoRecord, DropServer, cloudflare, Pending
  <1>3. CASE Finish(a) BY <1>1, <1>2, <1>3, OneStops
  <1>4. CASE ~Finish(a)
    <2>1. op[a].pc = "dns" BY <1>4 DEF CreateDnsRecord, UndoRecord, DropServer, At
    <2>2. PICK rec : op' = [op EXCEPT ![a].pc = "save", ![a].rec = rec]
      BY <1>4 DEF CreateDnsRecord, UndoRecord, DropServer
    <2>3. PICK c : c = [op[a] EXCEPT !.pc = "save", !.rec = rec] OBVIOUS
    <2>4. op[a] \in Op BY Constants, TunnelTypes DEF TunnelIInv, CallsTyped
    <2>5. c.pc = "save" /\ c.kind = op[a].kind BY <2>3, <2>4 DEF Op
    <2>6. CallBecomes(a, c) BY <2>2, <2>3, CallSet, Constants
    <2>7. Fits(c)' BY <1>1, <1>2, <2>5 DEF Undisturbed, Fits, Pending
    <2> QED BY <1>2, <2>6, <2>7, OneGoesOn
  <1> QED BY <1>3, <1>4

LEMMA OneSnapshot ==
  ASSUME TunnelIInv, Alone, Undisturbed, NEW a \in Requests, SnapshotRules(a)
  PROVE  Undisturbed'
  <1>1. op[a].pc = "snapshot" /\ op[a] \in Op
    BY Constants, TunnelTypes DEF SnapshotRules, At, TunnelIInv, CallsTyped
  <1>2. PICK c : c = [op[a] EXCEPT !.pc = "put", !.rules = BuildIngress] OBVIOUS
  <1>3. c.pc = "put" /\ c.kind = op[a].kind /\ c.s = op[a].s /\ c.old = op[a].old /\ c.rules = BuildIngress
    BY <1>1, <1>2 DEF Op
  <1>4. op[a] # NoOp /\ CallBecomes(a, c) BY <1>1, <1>2, Nothing, CallSet, Constants DEF SnapshotRules
  <1>5. UNCHANGED <<host, row, tunnels, ingress>> BY DEF SnapshotRules, cloudflare
  <1>6. Pending(c) = Pending(op[a]) BY <1>1, <1>3 DEF Pending
  <1>7. Fits(c)' BY <1>1, <1>3, <1>5, <1>6 DEF Undisturbed, Fits, BuildIngress, Present
  <1> QED BY <1>4, <1>5, <1>6, <1>7, OneGoesOn

LEMMA OneAtOldRecord ==
  ASSUME TunnelIInv, Alone, Undisturbed, NEW a \in Requests, DeleteOldRecord(a)
  PROVE  Undisturbed'
  <1>1. op[a].pc = "olddns" /\ Goto(a, "snapshot") BY DEF DeleteOldRecord, At
  <1>2. PICK c : c = op'[a] OBVIOUS
  <1>3. /\ CallBecomes(a, c) /\ c.pc = "snapshot" /\ c.kind = op[a].kind /\ c.s = op[a].s
        /\ c.old = op[a].old
    BY <1>1, <1>2, CallMoves, Constants
  <1>4. UNCHANGED <<host, row, tunnels, ingress>> /\ op[a] # NoOp BY <1>1, Nothing DEF DeleteOldRecord
  <1>5. Pending(c) = Pending(op[a]) BY <1>1, <1>3 DEF Pending
  <1>6. Fits(c)' BY <1>1, <1>3, <1>4, <1>5 DEF Undisturbed, Fits, Present
  <1> QED BY <1>3, <1>4, <1>5, <1>6, OneGoesOn

LEMMA OneDeletesRecord ==
  ASSUME TunnelIInv, Alone, Undisturbed, NEW a \in Requests, DeleteDnsRecord(a)
  PROVE  Undisturbed'
  <1>1. op[a].pc = "deldns" /\ op[a] \in Op
    BY Constants, TunnelTypes DEF DeleteDnsRecord, At, TunnelIInv, CallsTyped
  <1>2. PICK c : op' = [op EXCEPT ![a] = c] /\ c.pc = "delrow" /\ c.kind = op[a].kind /\ c.s = op[a].s
                 /\ c.old = op[a].old
    <2>1. PICK c \in {[op[a] EXCEPT !.pc = "delrow"], [op[a] EXCEPT !.pc = "delrow", !.failed = TRUE]} :
              op' = [op EXCEPT ![a] = c]
      BY DEF DeleteDnsRecord, Goto
    <2> QED BY <1>1, <2>1 DEF Op
  <1>3. CallBecomes(a, c) BY <1>2, CallSet, Constants
  <1>4. UNCHANGED <<host, row, tunnels, ingress>> /\ op[a] # NoOp BY <1>1, Nothing DEF DeleteDnsRecord
  <1>5. Pending(c) = Pending(op[a]) BY <1>1, <1>2 DEF Pending
  <1>6. Fits(c)' BY <1>1, <1>2, <1>4, <1>5 DEF Undisturbed, Fits, Present
  <1> QED BY <1>3, <1>4, <1>5, <1>6, OneGoesOn

LEMMA OneAtConnector ==
  ASSUME TunnelIInv, Alone, Undisturbed, NEW a \in Requests, StartConnector(a) \/ StopConnector(a)
  PROVE  Undisturbed'
  <1>1. op[a].pc \in {"agent", "stop"} /\ op[a] \in Op
    BY Constants, TunnelTypes DEF StartConnector, StopConnector, At, TunnelIInv, CallsTyped
  <1>2. UNCHANGED <<host, row, tunnels, ingress>> /\ Pending(op[a]) = {} /\ op[a] # NoOp
    BY <1>1, Nothing DEF StartConnector, StopConnector, Pending
  <1>3. CASE Finish(a) BY <1>1, <1>2, <1>3, OneStops
  <1>4. CASE StartConnector(a) /\ ~Finish(a)
    <2>1. Goto(a, "snapshot") /\ op[a].pc = "agent" BY <1>4 DEF StartConnector, At
    <2>2. PICK c : c = op'[a] OBVIOUS
    <2>3. CallBecomes(a, c) /\ c.pc = "snapshot" /\ c.kind = op[a].kind BY <2>1, <2>2, CallMoves, Constants
    <2>4. op[a].kind = "install" BY <2>1, Constants DEF TunnelIInv, CallInOrder
    <2>5. Fits(c)' BY <1>1, <1>2, <2>3, <2>4 DEF Undisturbed, Fits, Pending
    <2> QED BY <1>2, <2>3, <2>5, OneGoesOn
  <1>5. CASE StopConnector(a) /\ ~Finish(a)
    <2>1. op' = [op EXCEPT ![a].pc = "deltunnel", ![a].tid = host.tid] BY <1>5 DEF StopConnector
    <2>2. PICK c : c = [op[a] EXCEPT !.pc = "deltunnel", !.tid = host.tid] OBVIOUS
    <2>3. c.pc = "deltunnel" /\ c.kind = op[a].kind /\ c.tid = host.tid BY <1>1, <2>2 DEF Op
    <2>4. CallBecomes(a, c) BY <2>1, <2>2, CallSet, Constants
    <2>5. Fits(c)' BY <1>1, <1>2, <2>3 DEF Undisturbed, Fits, Pending
    <2> QED BY <1>2, <2>4, <2>5, OneGoesOn
  <1> QED BY <1>3, <1>4, <1>5

\* A new row is in its request's hands.
LEMMA OneInserts ==
  ASSUME TunnelIInv, Alone, Undisturbed, NEW a \in Requests, InsertRow(a)
  PROVE  Undisturbed'
  <1>1. op[a].pc = "save" /\ op[a] \in Op /\ op[a].s \in Servers /\ op[a].kind \in {"enable", "change"}
    BY Constants, TunnelTypes DEF InsertRow, At, TunnelIInv, CallsTyped, CallInOrder
  <1>2. UNCHANGED <<host, tunnels, ingress>> /\ op[a] # NoOp /\ Pending(op[a]) = {}
    BY <1>1, Nothing DEF InsertRow, cloudflare, Pending
  <1>3. CASE row' = row /\ Goto(a, "undo")
    <2>1. PICK c : c = op'[a] OBVIOUS
    <2>2. CallBecomes(a, c) /\ c.pc = "undo" /\ c.kind = op[a].kind BY <1>3, <2>1, CallMoves, Constants
    <2>3. Fits(c)' BY <1>1, <1>2, <2>2 DEF Undisturbed, Fits, Pending
    <2> QED BY <1>2, <1>3, <2>2, <2>3, OneGoesOn
  <1>4. CASE ~(row' = row /\ Goto(a, "undo"))
    <2>1. PICK s, new : /\ s = op[a].s
                        /\ new = [st |-> "active", id |-> op[a].rec, name |-> op[a].name, rec |-> op[a].rec]
      OBVIOUS
    <2>2. /\ row' = [row EXCEPT ![s] = new]
          /\ op' = [op EXCEPT ![a].pc = "snapshot", ![a].old = row'[s]]
      BY <1>4, <2>1 DEF InsertRow
    <2>3. row'[s] = new /\ \A t \in Servers \ {s} : row'[t] = row[t]
      BY <1>1, <2>1, <2>2, TunnelTypes DEF TunnelIInv, RowsTyped
    <2>4. PICK c : c = [op[a] EXCEPT !.pc = "snapshot", !.old = row'[s]] OBVIOUS
    <2>5. c.pc = "snapshot" /\ c.kind = op[a].kind /\ c.s = s /\ c.old = new
      BY <1>1, <2>1, <2>3, <2>4 DEF Op
    <2>6. CallBecomes(a, c)
      <3>1. op \in [Actors -> Op] /\ a \in Actors BY Constants, TunnelTypes DEF TunnelIInv, CallsTyped
      <3>2. op'[a] = c BY <1>1, <2>2, <2>4, <3>1 DEF Op
      <3>3. \A b \in Actors \ {a} : op'[b] = op[b] BY <2>2, <3>1
      <3> QED BY <3>2, <3>3 DEF CallBecomes
    <2>7. Pending(c) = {s} BY <1>1, <2>5 DEF Pending
    <2>8. host.tid # 0 /\ host.bound BY <1>1 DEF Undisturbed, Fits
    <2>9. Fits(c)' BY <1>2, <2>3, <2>5, <2>7, <2>8 DEF Fits
    <2>10. NoneWithout' BY <1>2, <2>8 DEF NoneWithout
    <2>11. Alive(host.tid)' => \A t \in Servers : row'[t].st = "active" => Served(t)' \/ t \in Pending(c)
      BY <1>2, <2>3, <2>7, ServedOrHeld DEF Alive, Served
    <2> QED BY <1>2, <2>6, <2>9, <2>10, <2>11, OneMoves
  <1> QED BY <1>3, <1>4

LEMMA OneUpdates ==
  ASSUME TunnelIInv, Alone, Undisturbed, NEW a \in Requests, UpdateRow(a)
  PROVE  Undisturbed'
  <1>1. op[a].pc = "save" /\ op[a] \in Op /\ op[a].s \in Servers /\ op[a].kind \in {"enable", "change"}
    BY Constants, TunnelTypes DEF UpdateRow, At, TunnelIInv, CallsTyped, CallInOrder
  <1>2. UNCHANGED <<host, tunnels, ingress>> /\ op[a] # NoOp /\ Pending(op[a]) = {}
    BY <1>1, Nothing DEF UpdateRow, cloudflare, Pending
  <1>3. CASE row' = row /\ Finish(a) BY <1>1, <1>2, <1>3, OneStops
  <1>4. CASE row' = row /\ Goto(a, "undo")
    <2>1. PICK c : c = op'[a] OBVIOUS
    <2>2. CallBecomes(a, c) /\ c.pc = "undo" /\ c.kind = op[a].kind BY <1>4, <2>1, CallMoves, Constants
    <2>3. Fits(c)' BY <1>1, <1>2, <2>2 DEF Undisturbed, Fits, Pending
    <2> QED BY <1>2, <1>4, <2>2, <2>3, OneGoesOn
  <1>5. CASE SameRow(a) /\ ~Claimed(op[a].name, op[a].s)
    <2>1. PICK s, pc : s = op[a].s /\ pc = IF op[a].kind = "change" THEN "olddns" ELSE "snapshot" OBVIOUS
    <2>2. /\ row' = [row EXCEPT ![s].st = "active", ![s].name = op[a].name, ![s].rec = op[a].rec]
          /\ Goto(a, pc)
      BY <1>5, <2>1 DEF UpdateRow
    <2>3. row'[s].id = row[s].id /\ \A t \in Servers \ {s} : row'[t] = row[t]
      <3>1. row[s] \in Row /\ row \in [Servers -> Row] BY <1>1, <2>1, TunnelTypes DEF TunnelIInv, RowsTyped
      <3> QED BY <1>1, <2>1, <2>2, <3>1 DEF Row
    <2>4. PICK c : c = op'[a] OBVIOUS
    <2>5. CallBecomes(a, c) /\ c.pc = pc /\ c.kind = op[a].kind /\ c.s = s /\ c.old = op[a].old
      BY <2>1, <2>2, <2>4, CallMoves, Constants
    <2>6. Pending(c) = {s} BY <1>1, <2>1, <2>5 DEF Pending
    <2>7. host.tid # 0 /\ host.bound BY <1>1 DEF Undisturbed, Fits
    <2>8. row[s].id = op[a].old.id BY <1>5, <2>1 DEF SameRow
    <2>9. Fits(c)' BY <1>2, <2>1, <2>3, <2>5, <2>6, <2>7, <2>8 DEF Fits
    <2>10. NoneWithout' BY <1>2, <2>7 DEF NoneWithout
    <2>11. Alive(host.tid)' => \A t \in Servers : row'[t].st = "active" => Served(t)' \/ t \in Pending(c)
      BY <1>2, <2>3, <2>6, ServedOrHeld DEF Alive, Served
    <2> QED BY <1>2, <2>5, <2>9, <2>10, <2>11, OneMoves
  <1> QED BY <1>3, <1>4, <1>5 DEF UpdateRow

\* Rows that go take nothing with them that was served.
LEMMA OneRemoves ==
  ASSUME TunnelIInv, Alone, Undisturbed, NEW a \in Requests, op[a] # NoOp, NEW c, CallBecomes(a, c),
         UNCHANGED <<host, tunnels, ingress>>, Fits(c)',
         \A s \in Servers : row'[s].st = "active" => row'[s] = row[s] /\ s \notin Pending(op[a]),
         \A s \in Servers : Present(s)' => Present(s)
  PROVE  Undisturbed'
  <1>1. NoneWithout' BY DEF Undisturbed, NoneWithout
  <1>2. Alive(host.tid)' => \A s \in Servers : row'[s].st = "active" => Served(s)' \/ s \in Pending(c)
    BY ServedOrHeld DEF Alive, Served
  <1> QED BY <1>1, <1>2, OneMoves

LEMMA OneMarks ==
  ASSUME TunnelIInv, Alone, Undisturbed, NEW a \in Requests, MarkFailed(a)
  PROVE  Undisturbed'
  <1>1. op[a].pc = "mark" /\ op[a] # NoOp /\ op[a].s \in Servers
    BY Nothing, Constants DEF MarkFailed, At, TunnelIInv, CallInOrder
  <1>2. CallBecomes(a, NoOp) /\ UNCHANGED <<host, tunnels, ingress>>
    BY CallStops, Constants DEF MarkFailed, cloudflare
  <1>3. row \in [Servers -> Row] BY TunnelTypes DEF TunnelIInv, RowsTyped
  <1>4. Pending(op[a]) \subseteq {op[a].s} BY DEF Pending
  <1>5. \A s \in Pending(op[a]) : Present(s) => SameRow(a)
    BY <1>1, <1>4 DEF Undisturbed, Fits, SameRow
  <1>6. CASE SameRow(a)
    <2>1. row' = [row EXCEPT ![op[a].s].st = "failed"] BY <1>6 DEF MarkFailed
    <2>2. /\ row'[op[a].s].st = "failed" /\ \A s \in Servers \ {op[a].s} : row'[s] = row[s]
      BY <1>1, <1>3, <2>1 DEF Row
    <2>3. Present(op[a].s) BY <1>6 DEF SameRow
    <2> QED BY <1>1, <1>2, <1>4, <2>2, <2>3, IdleFits, OneRemoves DEF Present
  <1>7. CASE ~SameRow(a)
    <2>1. row' = row BY <1>7 DEF MarkFailed
    <2> QED BY <1>1, <1>2, <1>5, <1>7, <2>1, IdleFits, OneRemoves DEF Present
  <1> QED BY <1>6, <1>7

LEMMA OneDeletesRow ==
  ASSUME TunnelIInv, Alone, Undisturbed, NEW a \in Requests, DeleteRow(a)
  PROVE  Undisturbed'
  <1>1. op[a].pc = "delrow" /\ op[a] # NoOp /\ op[a].s \in Servers
    BY Nothing, Constants DEF DeleteRow, At, TunnelIInv, CallInOrder
  <1>2. UNCHANGED <<host, tunnels, ingress>> /\ host.bound
    BY <1>1 DEF DeleteRow, cloudflare, Undisturbed, Fits
  <1>3. PICK c : CallBecomes(a, c) /\ Fits(c)'
    <2>1. CASE op[a].kind \in {"disable", "hook"}
      <3>1. PICK pc \in {"snapshot", "drop"} : Begin(a, Call(op[a].kind, op[a].s, pc))
        BY <2>1 DEF DeleteRow, AfterRow
      <3>2. PICK c : c = Call(op[a].kind, op[a].s, pc) OBVIOUS
      <3>3. c.kind = op[a].kind /\ c.pc = pc BY <3>2, NewCall
      <3>4. CallBecomes(a, c) BY <3>1, <3>2, CallSet, Constants DEF Begin
      <3>5. Fits(c)' BY <1>2, <2>1, <3>1, <3>3 DEF Fits, Pending
      <3> QED BY <3>4, <3>5
    <2>2. CASE op[a].kind \notin {"disable", "hook"}
      <3>1. Finish(a) BY <2>2 DEF DeleteRow, AfterRow
      <3> QED BY <3>1, CallStops, IdleFits, Constants
    <2> QED BY <2>1, <2>2
  <1>4. row \in [Servers -> Row] BY TunnelTypes DEF TunnelIInv, RowsTyped
  <1>5. Pending(op[a]) \subseteq {op[a].s} BY DEF Pending
  <1>6. \A s \in Pending(op[a]) : Present(s) => SameRow(a)
    BY <1>1, <1>5 DEF Undisturbed, Fits, SameRow
  <1>7. CASE SameRow(a)
    <2>1. row' = [row EXCEPT ![op[a].s] = NoRow] BY <1>7 DEF DeleteRow
    <2>2. /\ row'[op[a].s].st = "none" /\ \A s \in Servers \ {op[a].s} : row'[s] = row[s]
      BY <1>1, <1>4, <2>1, Constants
    <2> QED BY <1>1, <1>2, <1>3, <1>5, <2>2, OneRemoves DEF Present
  <1>8. CASE ~SameRow(a)
    <2>1. row' = row BY <1>8 DEF DeleteRow
    <2> QED BY <1>1, <1>2, <1>3, <1>6, <1>8, <2>1, OneRemoves DEF Present
  <1> QED BY <1>7, <1>8

\* Rules that were carried out serve what is active.
LEMMA OneServes ==
  ASSUME Alone, Undisturbed, NEW a \in Requests, op[a] # NoOp, op[a].pc = "put", NEW c,
         CallBecomes(a, c), Fits(c)', ingress' = op[a].rules, UNCHANGED <<host, row, tunnels>>
  PROVE  Undisturbed'
  <1>1. Fits(op[a]) BY DEF Undisturbed
  <1>2. \A s \in Servers : row'[s].st = "active" => Served(s)' BY <1>1 DEF Fits, BuildIngress, Served
  <1>3. NoneWithout' BY DEF Undisturbed, NoneWithout, Present
  <1> QED BY <1>2, <1>3, OneMoves

\* A push that succeeds serves what is active; a push that fails leaves it to be taken back.
LEMMA OnePushes ==
  ASSUME TunnelIInv, Alone, Undisturbed, NEW a \in Requests, PushRemoteIngress(a)
  PROVE  Undisturbed'
  <1>1. op[a].pc = "put" /\ op[a] \in Op /\ op[a] # NoOp
    BY Nothing, Constants, TunnelTypes DEF PushRemoteIngress, At, TunnelIInv, CallsTyped
  <1>2. Fits(op[a]) /\ host.bound BY <1>1 DEF Undisturbed, Fits
  <1>3. UNCHANGED <<host, row, tunnels>> BY DEF PushRemoteIngress
  <1>4. CASE Finish(a) /\ ingress' = ingress /\ Pending(op[a]) = {} BY <1>1, <1>3, <1>4, OneStops
  <1>5. CASE Finish(a) /\ ingress' = op[a].rules
    BY <1>1, <1>3, <1>5, CallStops, IdleFits, OneServes, Constants
  <1>6. CASE \E pc \in {"deldns", "mark"} : op' = [op EXCEPT ![a].pc = pc, ![a].rules = {}]
    <2>1. PICK pc \in {"deldns", "mark"} : op' = [op EXCEPT ![a].pc = pc, ![a].rules = {}] BY <1>6
    <2>2. PICK c : c = [op[a] EXCEPT !.pc = pc, !.rules = {}] OBVIOUS
    <2>3. c.pc = pc /\ c.kind = op[a].kind /\ c.s = op[a].s /\ c.old = op[a].old
      BY <1>1, <2>2 DEF Op
    <2>4. CallBecomes(a, c) BY <2>1, <2>2, CallSet, Constants
    <2>5. Pending(c) = Pending(op[a]) BY <1>1, <2>1, <2>3 DEF Pending
    <2>6. Fits(c)' BY <1>2, <1>3, <2>1, <2>3, <2>5 DEF Fits, Present
    <2>7. ingress' = op[a].rules \/ ingress' = ingress BY DEF PushRemoteIngress
    <2>8. CASE ingress' = op[a].rules BY <1>1, <1>3, <2>4, <2>6, <2>8, OneServes
    <2>9. CASE ingress' = ingress BY <1>1, <1>3, <2>4, <2>5, <2>6, <2>9, OneGoesOn
    <2> QED BY <2>7, <2>8, <2>9
  <1>7. op[a].kind \notin {"enable", "change"} => Pending(op[a]) = {} BY DEF Pending
  <1>8. CASE AfterFailedPush(a)
    <2>1. \/ \E pc \in {"deldns", "mark"} : op' = [op EXCEPT ![a].pc = pc, ![a].rules = {}]
          \/ Finish(a) /\ op[a].kind \notin {"enable", "change"}
      BY <1>2, <1>8 DEF AfterFailedPush
    <2>2. ingress' = op[a].rules \/ ingress' = ingress BY DEF PushRemoteIngress
    <2> QED BY <1>4, <1>5, <1>6, <1>7, <2>1, <2>2
  <1> QED BY <1>5, <1>8 DEF PushRemoteIngress

\* While the host has no tunnel there are no hostnames.
LEMMA OneWithoutTunnel ==
  ASSUME TunnelIInv, Alone, Undisturbed, NEW a \in Requests,
         CreateTunnel(a) \/ DeleteStaleTunnel(a) \/ PersistTunnel(a)
  PROVE  Undisturbed'
  <1>1. op[a].pc \in {"create", "collide", "persist"} /\ op[a] \in Op /\ op[a] # NoOp
    BY Nothing, Constants, TunnelTypes
       DEF CreateTunnel, DeleteStaleTunnel, PersistTunnel, At, TunnelIInv, CallsTyped
  <1>2. Fits(op[a]) /\ host.bound /\ host.tid = 0 /\ Pending(op[a]) = {}
    BY <1>1 DEF Undisturbed, Fits, Pending
  <1>3. op[a].kind \notin {"enable", "change"} BY <1>2 DEF Fits
  <1>4. row' = row /\ host'.bound
    <2>1. CASE host' = host BY <1>2, <2>1 DEF CreateTunnel, DeleteStaleTunnel, PersistTunnel
    <2>2. CASE ~(host' = host)
      <3>1. host' = [host EXCEPT !.tid = op[a].tid] /\ row' = row
        BY <2>2 DEF CreateTunnel, DeleteStaleTunnel, PersistTunnel
      <3>2. host \in HostRow BY TunnelTypes DEF TunnelIInv, HostTyped
      <3> QED BY <1>2, <3>1, <3>2 DEF HostRow
    <2> QED BY <2>1, <2>2
  <1>5. \A s \in Servers : ~Present(s)' BY <1>2, <1>4 DEF Undisturbed, NoneWithout, Present
  <1>6. PICK c : CallBecomes(a, c) /\ Fits(c)'
    <2>1. CASE Finish(a) BY <2>1, CallStops, IdleFits, Constants
    <2>2. CASE ~Finish(a)
      <3>1. PICK c : CallBecomes(a, c) /\ c.kind = op[a].kind
                     /\ (c.pc = "agent" \/ (c.pc \in {"persist", "collide"} /\ host' = host))
        <4>1. CASE Goto(a, "agent") BY <4>1, CallMoves, Constants
        <4>2. CASE Goto(a, "collide") /\ host' = host BY <4>2, CallMoves, Constants
        <4>3. CASE ~(Goto(a, "agent") \/ Goto(a, "collide"))
          <5>1. host' = host /\ \E t : op' = [op EXCEPT ![a].pc = "persist", ![a].tid = t]
            BY <2>2, <4>3 DEF CreateTunnel, DeleteStaleTunnel, PersistTunnel
          <5>2. PICK t : op' = [op EXCEPT ![a].pc = "persist", ![a].tid = t] BY <5>1
          <5>3. PICK c : c = [op[a] EXCEPT !.pc = "persist", !.tid = t] OBVIOUS
          <5>4. c.pc = "persist" /\ c.kind = op[a].kind BY <1>1, <5>3 DEF Op
          <5>5. CallBecomes(a, c) BY <5>2, <5>3, CallSet, Constants
          <5> QED BY <5>1, <5>4, <5>5
        <4>4. \/ Goto(a, "agent") \/ (Goto(a, "collide") /\ host' = host)
              \/ ~(Goto(a, "agent") \/ Goto(a, "collide"))
          <5>1. Goto(a, "collide") => host' = host \/ Goto(a, "agent")
            BY <2>2 DEF CreateTunnel, DeleteStaleTunnel, PersistTunnel
          <5> QED BY <5>1
        <4> QED BY <4>1, <4>2, <4>3, <4>4
      <3>2. Fits(c)' BY <1>2, <1>3, <1>4, <3>1 DEF Fits, Pending
      <3> QED BY <3>1, <3>2
    <2> QED BY <2>1, <2>2
  <1>7. NoneWithout' BY <1>5 DEF NoneWithout
  <1>8. \A s \in Servers : row'[s].st # "active" BY <1>5 DEF Present
  <1> QED BY <1>1, <1>6, <1>7, <1>8, OneMoves

\* A tunnel that is deleted serves nothing more.
LEMMA OneUninstalls ==
  ASSUME TunnelIInv, Alone, Undisturbed, NEW a \in Requests, FinalizeUninstall(a)
  PROVE  Undisturbed'
  <1>1. op[a].pc = "deltunnel" /\ op[a] # NoOp BY Nothing DEF FinalizeUninstall, At
  <1>2. Fits(op[a]) /\ host.bound /\ op[a].tid = host.tid /\ Pending(op[a]) = {}
    BY <1>1 DEF Undisturbed, Fits, Pending
  <1>3. UNCHANGED <<host, row>> BY DEF FinalizeUninstall
  <1>4. ~Alive(host.tid)' \/ UNCHANGED <<tunnels, ingress>>
    <2>1. CASE host.tid = 0 BY <1>3, <2>1 DEF Alive
    <2>2. CASE host.tid # 0 /\ TunnelDeleted(host.tid)
      <3>1. host.tid \in 1..MaxTunnels /\ DOMAIN tunnels = 1..MaxTunnels
        BY <2>2, Constants, TunnelTypes DEF TunnelIInv, HostTyped, HostRow, TunnelsTyped
      <3> QED BY <1>3, <2>2, <3>1 DEF TunnelDeleted, Alive
    <2> QED BY <1>2, <2>1, <2>2 DEF FinalizeUninstall
  <1>5. PICK c : CallBecomes(a, c) /\ Fits(c)'
    <2>1. CASE Finish(a) BY <2>1, CallStops, IdleFits, Constants
    <2>2. CASE Goto(a, "delhost")
      <3>1. PICK c : c = op'[a] OBVIOUS
      <3>2. CallBecomes(a, c) /\ c.pc = "delhost" /\ c.kind = op[a].kind
        BY <2>2, <3>1, CallMoves, Constants
      <3>3. Fits(c)' BY <1>2, <1>3, <3>2 DEF Fits, Pending
      <3> QED BY <3>2, <3>3
    <2> QED BY <2>1, <2>2 DEF FinalizeUninstall
  <1>6. NoneWithout' BY <1>3 DEF Undisturbed, NoneWithout, Present
  <1>7. Alive(host.tid)' => \A s \in Servers : row'[s].st = "active" => Served(s)' \/ s \in Pending(c)
    BY <1>1, <1>2, <1>3, <1>4, ServedOrHeld DEF Alive, Served
  <1> QED BY <1>1, <1>5, <1>6, <1>7, OneMoves

LEMMA OneDeletesHost ==
  ASSUME TunnelIInv, Alone, Undisturbed, NEW a \in Requests, DeleteHostRow(a)
  PROVE  Undisturbed'
  <1>1. op[a] # NoOp BY Nothing DEF DeleteHostRow, At
  <1>2. CallBecomes(a, NoOp) BY CallStops, Constants DEF DeleteHostRow
  <1>3. host'.tid = 0 /\ \A s \in Servers : row'[s] = NoRow BY DEF DeleteHostRow
  <1>4. ~Alive(host.tid)' /\ NoneWithout' BY <1>3, Constants DEF Alive, NoneWithout, Present
  <1> QED BY <1>1, <1>2, <1>4, IdleFits, OneMoves

\* Requests that are under way keep what is active served, or in their hands.
LEMMA OneProceeds ==
  ASSUME TunnelIInv, Alone, Undisturbed, NEW a \in Requests, Proceed(a)
  PROVE  Undisturbed'
  BY OneAtDns, OneInserts, OneUpdates, OneAtOldRecord, OneSnapshot, OnePushes, OneMarks,
     OneDeletesRecord, OneDeletesRow, OneWithoutTunnel, OneAtConnector, OneUninstalls,
     OneDeletesHost
  DEF Proceed

-------------------------------------------------------------------------------
(* Beginnings, and deletions *)

\* A request that begins changes nothing yet.
LEMMA OneBegins ==
  ASSUME Undisturbed, NEW a \in Requests, op[a] = NoOp, NEW c, CallBecomes(a, c),
         UNCHANGED <<host, row, tunnels, ingress>>, Fits(c)'
  PROVE  Undisturbed'
  <1>1. op'[a] = c /\ \A b \in Requests \ {a} : op'[b] = op[b]
    BY Constants DEF CallBecomes
  <1>2. \A o : Fits(o) => Fits(o)'
    BY DEF Fits, BuildIngress, Present, Pending
  <1>3. \A b \in Requests : Fits(op[b])' BY <1>1, <1>2 DEF Undisturbed
  <1>4. NoneWithout' BY DEF Undisturbed, NoneWithout, Present
  <1>5. ASSUME NEW s \in Servers, Alive(host.tid), row[s].st = "active"
        PROVE  Served(s) \/ \E b \in Requests : s \in Pending(op'[b])
    <2>1. Served(s) \/ \E b \in Requests : s \in Pending(op[b]) BY <1>5 DEF Undisturbed, Routed
    <2> QED BY <1>1, <2>1, Nothing
  <1>6. Routed' BY <1>5 DEF Routed, Alive, Served
  <1> QED BY <1>3, <1>4, <1>6 DEF Undisturbed

LEMMA HostnameBegins ==
  ASSUME TunnelIInv, Undisturbed, NEW r \in Requests, op[r] = NoOp, NEW s \in Servers,
         \/ \E label \in Labels : Enable(r, s, label) \/ ChangeSubdomain(r, s, label)
         \/ Disable(r, s)
  PROVE  Undisturbed'
  <1>1. UNCHANGED <<host, row, tunnels, ingress>> BY DEF Enable, ChangeSubdomain, Disable, cloudflare
  <1>2. PICK c : /\ op' = [op EXCEPT ![r] = c]
                 /\ c.s = s /\ c.old = row[s] /\ c.pc \in {"dns", "snapshot", "deldns"}
                 /\ \/ c.kind = "disable" /\ host.bound
                    \/ c.kind \in {"enable", "change"} /\ host.tid # 0
    <2>1. CASE Disable(r, s)
      <3>1. PICK c : c = [Call("disable", s, "deldns") EXCEPT !.rec = row[s].rec, !.old = row[s]]
        OBVIOUS
      <3>2. c.s = s /\ c.old = row[s] /\ c.pc = "deldns" /\ c.kind = "disable"
        BY <3>1 DEF Call, NoOp
      <3> QED BY <2>1, <3>1, <3>2 DEF Disable, Begin
    <2>2. CASE \E label \in Labels : Enable(r, s, label)
      <3>1. PICK label \in Labels : Enable(r, s, label) BY <2>2
      <3>2. PICK c \in {[Call("enable", s, "snapshot") EXCEPT !.rec = row[s].rec, !.old = row[s]],
                        [Call("enable", s, "dns") EXCEPT !.name = <<label, host.zone>>, !.old = row[s]]} :
                op' = [op EXCEPT ![r] = c]
        BY <3>1 DEF Enable, Begin
      <3>3. c.s = s /\ c.old = row[s] /\ c.pc \in {"dns", "snapshot"} /\ c.kind = "enable"
        BY <3>2 DEF Call, NoOp
      <3> QED BY <3>1, <3>2, <3>3 DEF Enable
    <2>3. CASE \E label \in Labels : ChangeSubdomain(r, s, label)
      <3>1. PICK label \in Labels : ChangeSubdomain(r, s, label) BY <2>3
      <3>2. PICK pc \in {"dns", "snapshot"} :
                Begin(r, [Call("change", s, pc) EXCEPT !.name = <<label, host.zone>>, !.old = row[s]])
        BY <3>1 DEF ChangeSubdomain
      <3>3. PICK c : c = [Call("change", s, pc) EXCEPT !.name = <<label, host.zone>>, !.old = row[s]]
        OBVIOUS
      <3>4. c.s = s /\ c.old = row[s] /\ c.pc = pc /\ c.kind = "change" BY <3>3 DEF Call, NoOp
      <3> QED BY <3>1, <3>2, <3>3, <3>4 DEF ChangeSubdomain, Begin
    <2> QED BY <2>1, <2>2, <2>3
  <1>3. CallBecomes(r, c) BY <1>2, CallSet, Constants
  <1>4. host.bound BY <1>2, TunnelTypes DEF TunnelIInv, BoundFirst
  <1>5. Pending(c) \subseteq {s} BY <1>2 DEF Pending
  <1>6. Fits(c)' BY <1>1, <1>2, <1>4, <1>5 DEF Fits
  <1> QED BY <1>1, <1>3, <1>6, OneBegins

LEMMA TunnelBegins ==
  ASSUME TunnelIInv, Undisturbed, NEW r \in Requests, op[r] = NoOp,
         Install(r) \/ SyncTunnel(r) \/ \E force \in BOOLEAN : Uninstall(r, force)
  PROVE  Undisturbed'
  <1>1. UNCHANGED <<host, row, tunnels, ingress>> BY DEF Install, SyncTunnel, Uninstall, cloudflare
  <1>2. host.bound BY TunnelTypes DEF TunnelIInv, BoundFirst, Install, SyncTunnel, Uninstall
  <1>3. PICK kind \in {"install", "sync", "uninstall"}, pc \in {"create", "agent", "snapshot", "stop"} :
            Begin(r, Call(kind, None, pc)) /\ (pc = "create" => host.tid = 0)
    BY DEF Install, SyncTunnel, Uninstall
  <1>4. PICK c : c = Call(kind, None, pc) OBVIOUS
  <1>5. c.kind = kind /\ c.pc = pc BY <1>4, NewCall
  <1>6. CallBecomes(r, c) BY <1>3, <1>4, CallSet, Constants DEF Begin
  <1>7. Fits(c)' BY <1>1, <1>2, <1>3, <1>5 DEF Fits, Pending
  <1> QED BY <1>1, <1>6, <1>7, OneBegins

\* A host that is not bound has no hostnames, and nothing is under way there.
LEMMA BindingBegins ==
  ASSUME TunnelIInv, Undisturbed, NEW zone \in Zones, BindAccount(zone), ~host.bound
  PROVE  Undisturbed'
  <1>1. host'.tid = 0 /\ row' = row /\ op' = op BY DEF BindAccount
  <1>2. \A s \in Servers : ~Present(s)' BY <1>1, TunnelTypes DEF TunnelIInv, BoundFirst, Present
  <1>3. \A a \in Requests : op[a] = NoOp BY DEF Undisturbed, Fits
  <1>4. \A a \in Requests : Fits(op[a])' BY <1>1, <1>3, Nothing DEF Fits
  <1>5. Routed' BY <1>1 DEF Routed, Alive
  <1>6. NoneWithout' BY <1>2 DEF NoneWithout
  <1> QED BY <1>4, <1>5, <1>6 DEF Undisturbed

LEMMA OneStarts ==
  ASSUME TunnelIInv, Undisturbed, NEW r \in Requests, StartRequest(r), ~disturbed'
  PROVE  Undisturbed'
  <1>1. op[r] = NoOp BY DEF StartRequest
  <1>2. CASE \E zone \in Zones : BindAccount(zone)
    BY <1>2, BindingBegins DEF BindAccount
  <1> QED BY <1>1, <1>2, HostnameBegins, TunnelBegins DEF StartRequest

\* A deletion takes its server's row away, and leaves the other rows as they are.
LEMMA DeletionTakes ==
  ASSUME TunnelIInv, Undisturbed, UNCHANGED <<host, tunnels, ingress>>,
         \A b \in Requests : op'[b] = op[b],
         \A s \in Servers : row'[s] = row[s] \/ ~Present(s)'
  PROVE  Undisturbed'
  <1>1. BuildIngress' \subseteq BuildIngress BY DEF BuildIngress, Present
  <1>2. \A b \in Requests : Fits(op[b])'
    <2> SUFFICES ASSUME NEW b \in Requests PROVE Fits(op[b])' OBVIOUS
    <2>1. Fits(op[b]) /\ op'[b] = op[b] BY DEF Undisturbed
    <2>2. Pending(op[b]) \subseteq Servers BY Constants DEF TunnelIInv, CallInOrder, Pending
    <2> QED BY <1>1, <2>1, <2>2 DEF Fits, Present
  <1>3. NoneWithout' BY DEF Undisturbed, NoneWithout, Present
  <1>4. ASSUME NEW s \in Servers, Alive(host.tid), row'[s].st = "active"
        PROVE  Served(s)' \/ \E b \in Requests : s \in Pending(op'[b])
    <2>1. row'[s] = row[s] BY <1>4 DEF Present
    <2>2. Served(s) \/ \E b \in Requests : s \in Pending(op[b]) BY <1>4, <2>1 DEF Undisturbed, Routed
    <2> QED BY <2>1, <2>2 DEF Served
  <1>5. Routed' BY <1>4 DEF Routed, Alive
  <1> QED BY <1>2, <1>3, <1>5 DEF Undisturbed

LEMMA DeletionMoves ==
  ASSUME TunnelIInv, DeleterApart,
         Proceed(Deleter) \/ \E s \in Servers : OnServerPreDelete(s)
  PROVE  /\ UNCHANGED <<host, tunnels, ingress>> /\ DeleterApart'
         /\ \A b \in Requests : op'[b] = op[b]
         /\ \A s \in Servers : row'[s] = row[s] \/ ~Present(s)'
  <1>1. /\ op \in [Actors -> Op] /\ Deleter \in Actors /\ Requests \subseteq Actors \ {Deleter}
        /\ row \in [Servers -> Row]
    BY Constants, TunnelTypes, TunnelAssumption DEF TunnelIInv, CallsTyped, RowsTyped
  <1>2. CASE \E s \in Servers : OnServerPreDelete(s)
    <2>1. PICK s \in Servers, pc \in {"deldns", "drop"} :
              Begin(Deleter, [Call("hook", s, pc) EXCEPT !.rec = row[s].rec, !.old = row[s]])
              /\ UNCHANGED <<host, row, tunnels, ingress>>
      BY <1>2 DEF OnServerPreDelete, cloudflare
    <2>2. PICK c : c = [Call("hook", s, pc) EXCEPT !.rec = row[s].rec, !.old = row[s]] OBVIOUS
    <2>3. c.kind = "hook" /\ c.pc = pc BY <2>2 DEF Call, NoOp
    <2>4. CallBecomes(Deleter, c) BY <2>1, <2>2, CallSet, Constants DEF Begin
    <2> QED BY <1>1, <2>1, <2>3, <2>4 DEF CallBecomes, DeleterApart
  <1>3. CASE DeleteDnsRecord(Deleter)
    <2>1. PICK c : op' = [op EXCEPT ![Deleter] = c] /\ c.pc = "delrow" /\ c.kind = op[Deleter].kind
      <3>1. PICK c \in {[op[Deleter] EXCEPT !.pc = "delrow"],
                        [op[Deleter] EXCEPT !.pc = "delrow", !.failed = TRUE]} :
                op' = [op EXCEPT ![Deleter] = c]
        BY <1>3 DEF DeleteDnsRecord, Goto
      <3> QED BY <1>1, <3>1 DEF Op
    <2>2. CallBecomes(Deleter, c) BY <2>1, CallSet, Constants
    <2> QED BY <1>1, <1>3, <2>1, <2>2 DEF DeleteDnsRecord, CallBecomes, DeleterApart
  <1>4. CASE DeleteRow(Deleter)
    <2>1. PICK c : CallBecomes(Deleter, c) /\ c.pc \in {"idle", "drop"} /\ c.kind \in {"none", "hook"}
      <3>1. CASE Finish(Deleter) BY <3>1, CallStops, Constants, Nothing
      <3>2. CASE Begin(Deleter, Call("hook", op[Deleter].s, "drop"))
        <4>1. PICK c : c = Call("hook", op[Deleter].s, "drop") OBVIOUS
        <4>2. c.kind = "hook" /\ c.pc = "drop" BY <4>1, NewCall
        <4>3. CallBecomes(Deleter, c) BY <3>2, <4>1, CallSet, Constants DEF Begin
        <4> QED BY <4>2, <4>3
      <3>3. AfterRow(Deleter) /\ op[Deleter].kind \in {"none", "hook"}
        BY <1>4 DEF DeleteRow, DeleterApart
      <3>4. Finish(Deleter) \/ Begin(Deleter, Call("hook", op[Deleter].s, "drop"))
        BY <3>3 DEF AfterRow
      <3> QED BY <3>1, <3>2, <3>4
    <2>2. UNCHANGED <<host, tunnels, ingress>> BY <1>4 DEF DeleteRow, cloudflare
    <2>3. \A s \in Servers : row'[s] = row[s] \/ row'[s] = NoRow
      BY <1>1, <1>4 DEF DeleteRow
    <2> QED BY <1>1, <2>1, <2>2, <2>3, Constants DEF CallBecomes, DeleterApart, Present
  <1>5. CASE DropServer(Deleter)
    <2>1. CallBecomes(Deleter, NoOp) BY <1>5, CallStops, Constants DEF DropServer
    <2> QED BY <1>1, <1>5, <2>1, Nothing DEF DropServer, cloudflare, CallBecomes, DeleterApart
  <1>6. Proceed(Deleter) => DeleteDnsRecord(Deleter) \/ DeleteRow(Deleter) \/ DropServer(Deleter)
    BY DEF Proceed, DeleterApart, At, CreateDnsRecord, InsertRow, UpdateRow, UndoRecord,
           DeleteOldRecord, SnapshotRules, PushRemoteIngress, MarkFailed, CreateTunnel,
           DeleteStaleTunnel, PersistTunnel, StartConnector, StopConnector, FinalizeUninstall,
           DeleteHostRow
  <1> QED BY <1>2, <1>3, <1>4, <1>5, <1>6

\* A request does not touch the deletion's call.
LEMMA OthersWait ==
  ASSUME TunnelIInv, NEW a \in Requests, Proceed(a) \/ StartRequest(a)
  PROVE  op'[Deleter] = op[Deleter]
  <1>1. Deleter # a /\ op \in [Actors -> Op] BY TunnelAssumption, TunnelTypes DEF TunnelIInv, CallsTyped
  <1>2. ASSUME Proceed(a) PROVE op' = op \/ \E c : op' = [op EXCEPT ![a] = c]
    <2>1. CASE CreateDnsRecord(a) BY <2>1 DEF CreateDnsRecord, Finish
    <2>2. CASE InsertRow(a) BY <2>2 DEF InsertRow, Goto
    <2>3. CASE UpdateRow(a) BY <2>3 DEF UpdateRow, Goto, Finish
    <2>4. CASE UndoRecord(a) \/ DeleteOldRecord(a) BY <2>4 DEF UndoRecord, DeleteOldRecord, Finish, Goto
    <2>5. CASE SnapshotRules(a) BY <2>5 DEF SnapshotRules
    <2>6. CASE PushRemoteIngress(a) BY <2>6 DEF PushRemoteIngress, AfterFailedPush, Finish
    <2>7. CASE MarkFailed(a) \/ DropServer(a) BY <2>7 DEF MarkFailed, DropServer, Finish
    <2>8. CASE DeleteDnsRecord(a) BY <2>8 DEF DeleteDnsRecord, Goto
    <2>9. CASE DeleteRow(a) BY <2>9 DEF DeleteRow, AfterRow, Begin, Finish
    <2>10. CASE CreateTunnel(a) BY <2>10 DEF CreateTunnel, Goto
    <2>11. CASE DeleteStaleTunnel(a) \/ PersistTunnel(a)
      BY <2>11 DEF DeleteStaleTunnel, PersistTunnel, Finish, Goto
    <2>12. CASE StartConnector(a) \/ StopConnector(a) BY <2>12 DEF StartConnector, StopConnector, Finish, Goto
    <2>13. CASE FinalizeUninstall(a) \/ DeleteHostRow(a)
      BY <2>13 DEF FinalizeUninstall, DeleteHostRow, Finish, Goto
    <2> QED BY <1>2, <2>1, <2>2, <2>3, <2>4, <2>5, <2>6, <2>7, <2>8, <2>9, <2>10, <2>11, <2>12,
               <2>13 DEF Proceed
  <1>3. ASSUME StartRequest(a) PROVE op' = op \/ \E c : op' = [op EXCEPT ![a] = c]
    BY <1>3 DEF StartRequest, Enable, ChangeSubdomain, Disable, BindAccount, Install, SyncTunnel,
                Uninstall, Begin
  <1>4. ASSUME NEW c, op' = [op EXCEPT ![a] = c] PROVE op'[Deleter] = op[Deleter]
    BY <1>1, <1>4, Constants
  <1> QED BY <1>2, <1>3, <1>4

\* What disturbs a host disturbs it for good.
LEMMA DisturbedStays ==
  ASSUME TunnelIInv, TunnelNext, ~disturbed'
  PROVE  ~disturbed /\ ~Crash
  <1>1. ~Crash BY DEF Crash
  <1>2. ASSUME NEW r, StartRequest(r) PROVE ~disturbed
    BY <1>2 DEF StartRequest, Enable, ChangeSubdomain, Disable, BindAccount, Install, SyncTunnel,
                Uninstall
  <1>3. ASSUME NEW s, OnServerPreDelete(s) PROVE ~disturbed BY <1>3 DEF OnServerPreDelete
  <1>4. ASSUME NEW a, Proceed(a) PROVE ~disturbed
    BY <1>4 DEF Proceed, CreateDnsRecord, InsertRow, UpdateRow, UndoRecord, DeleteOldRecord,
                SnapshotRules, PushRemoteIngress, MarkFailed, DeleteDnsRecord, DeleteRow,
                DropServer, CreateTunnel, DeleteStaleTunnel, PersistTunnel, StartConnector,
                StopConnector, FinalizeUninstall, DeleteHostRow
  <1> QED BY <1>1, <1>2, <1>3, <1>4 DEF TunnelNext

-------------------------------------------------------------------------------
(* The invariant *)

LEMMA RoutedStarts == TunnelInit => RoutedIInv
  <1> SUFFICES ASSUME TunnelInit PROVE RoutedIInv OBVIOUS
  <1>1. \A a \in Actors : op[a] = NoOp BY DEF TunnelInit
  <1>2. \A s \in Servers : row[s] = NoRow BY DEF TunnelInit
  <1>3. \A a \in Requests : Fits(op[a]) BY <1>1, Nothing, Constants DEF Fits
  <1>4. Routed /\ NoneWithout BY <1>2, Constants DEF Routed, NoneWithout, Present
  <1>5. DeleterApart BY <1>1, Nothing, Constants DEF DeleterApart
  <1> QED BY <1>3, <1>4, <1>5 DEF RoutedIInv, Undisturbed

LEMMA RoutedStep ==
  TunnelIInv /\ Alone /\ RoutedIInv /\ [TunnelNext]_tunnelVars => RoutedIInv'
  <1> SUFFICES ASSUME TunnelIInv, Alone, RoutedIInv, [TunnelNext]_tunnelVars PROVE RoutedIInv'
    OBVIOUS
  <1>1. CASE UNCHANGED tunnelVars
    BY <1>1 DEF tunnelVars, cloudflare, RoutedIInv, DeleterApart, Undisturbed, Routed, NoneWithout,
                Fits, Pending, Served, Alive, Present, BuildIngress
  <1>2. CASE TunnelNext
    <2>1. DeleterApart'
      <3>1. CASE Crash BY <3>1, Nothing, Constants DEF Crash, DeleterApart
      <3>2. CASE Proceed(Deleter) \/ \E s \in Servers : OnServerPreDelete(s)
        BY <3>2, DeletionMoves DEF RoutedIInv
      <3>3. CASE \E a \in Requests : Proceed(a) \/ StartRequest(a)
        BY <3>3, OthersWait DEF RoutedIInv, DeleterApart
      <3> QED BY <1>2, <3>1, <3>2, <3>3 DEF TunnelNext, Actors
    <2>2. ASSUME ~disturbed' PROVE Undisturbed'
      <3>1. Undisturbed /\ ~Crash BY <1>2, <2>2, DisturbedStays DEF RoutedIInv
      <3>2. CASE Proceed(Deleter) \/ \E s \in Servers : OnServerPreDelete(s)
        BY <3>1, <3>2, DeletionMoves, DeletionTakes DEF RoutedIInv
      <3>3. ASSUME NEW a \in Requests, Proceed(a) PROVE Undisturbed' BY <3>1, <3>3, OneProceeds
      <3>4. ASSUME NEW r \in Requests, StartRequest(r) PROVE Undisturbed'
        BY <2>2, <3>1, <3>4, OneStarts
      <3> QED BY <1>2, <3>1, <3>2, <3>3, <3>4 DEF TunnelNext, Actors
    <2> QED BY <2>1, <2>2 DEF RoutedIInv
  <1> QED BY <1>1, <1>2

\* Requests of users and administrators that do not overlap, beside any deletion of a server, keep
\* this until the process restarts or the account is rebound: when nothing is under way, what is
\* active here is served at Cloudflare, whatever Cloudflare or the agent refused
\* (user_servers_tunnel.py, admin_hosts_tunnel.py, dispatcher.py).
THEOREM ActiveServed == TunnelSpec /\ []Alone => []ActiveRouted
  <1>1. ASSUME RoutedIInv PROVE ActiveRouted
    <2> SUFFICES ASSUME Quiet, ~disturbed, Alive(host.tid) PROVE BuildIngress \subseteq ingress
      BY DEF ActiveRouted
    <2>1. \A a \in Requests : Pending(op[a]) = {} BY Nothing, Constants DEF Quiet
    <2>2. \A s \in Servers : row[s].st = "active" => Served(s)
      BY <1>1, <2>1 DEF RoutedIInv, Undisturbed, Routed
    <2> QED BY <2>2 DEF BuildIngress, Served
  <1> QED BY <1>1, RoutedStarts, RoutedStep, TunnelInvariant, PTL DEF TunnelSpec
===============================================================================
