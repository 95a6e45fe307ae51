------------------------------ MODULE AccountProofs -----------------------------
(***************************************************************************)
(* Proofs about Accounts: a registration makes one user, whatever its link *)
(* and the way back of its claim do, and a mailed link dies with the next  *)
(* one, with its use, and with any other change of the password.           *)
(*                                                                         *)
(* A row is spent when its link no longer counts; rows are never spent     *)
(* twice, because whoever acts on a claim is alone with its row until it   *)
(* has made the user or given the row back.                                *)
(***************************************************************************)
EXTENDS Accounts, FiniteSetTheorems, TLAPS

-------------------------------------------------------------------------------
(* The inductive invariant *)

Spent(p) == pending[p].status \in {"used", "gone"}
Dead(r) == reset[r].status \in {"used", "gone"}
Claiming(w) == request[w].pc \in {"create", "revert"}
Born(p) == \E u \in Users : user[u].born = p

\* What a request knows of the row it is at.
RequestInOrder(w) ==
    LET r == request[w] IN
    /\ r.pc = "register" => r.email \in Emails /\ r.name \in Names
    /\ r.pc \in {"mailVerify", "claim", "create", "revert"} => r.row \in Pendings
    /\ r.pc \in {"mailReset", "claimReset", "password", "mailChange", "claimChange"}
       => r.row \in Links
    /\ r.pc = "publish" => r.row \in 1..MaxVersions
    /\ r.pc \in {"consent", "invalidate"} => r.user \in Users

\* A claim is one request's, its row is spent, and its user not there yet.
BirthsInOrder ==
    /\ \A u, v \in Users : user[u].born = user[v].born /\ user[u].born # 0 => u = v
    /\ \A u \in Users : user[u].born # 0 => Spent(user[u].born)
    /\ \A w \in Workers : Claiming(w) => Spent(request[w].row) /\ ~Born(request[w].row)
    /\ \A v, w \in Workers :
          Claiming(v) /\ Claiming(w) /\ request[v].row = request[w].row => v = w

\* The open links of one kind belong to different users, who exist or did.
OneOpen(table) ==
    /\ \A r \in Links : IsOpen(table[r]) => table[r].user \in Users
    /\ \A r, s \in Links :
          IsOpen(table[r]) /\ IsOpen(table[s]) /\ table[r].user = table[s].user => r = s

Invalidating(u) == \E w \in Workers : At(w, "invalidate") /\ request[w].user = u

\* A link that has set a password is dead, and one that is open is of the present password.
ResetsInOrder ==
    /\ OneOpen(reset)
    /\ \A r \in Links : IsOpen(reset[r]) => user[reset[r].user].state # "free"
    /\ \A u \in Users : user[u].link # 0 => Dead(user[u].link)
    /\ \A w \in Workers : At(w, "password") => Dead(request[w].row)
    /\ \A r \in Links : LET u == reset[r].user IN
          IsOpen(reset[r]) /\ u \in Alive =>
              reset[r].secret = user[u].secret \/ u \in exposed \/ Invalidating(u)

AccountIInv ==
    /\ AccountTypeOK
    /\ \A w \in Workers : RequestInOrder(w)
    /\ BirthsInOrder
    /\ ResetsInOrder
    /\ OneOpen(change)

-------------------------------------------------------------------------------
(* What a step does to one variable *)

PendingType == PendingRow \cup [status : {"none", "gone"}]

UsersTyped == user \in [Users -> UserRow]
PendingsTyped == pending \in [Pendings -> PendingType]
ResetsTyped == reset \in [Links -> LinkRow]
ChangesTyped == change \in [Links -> LinkRow]
AgreementTyped ==
    versions \subseteq 1..MaxVersions /\ agreement \in [current : {0} \cup versions, required : BOOLEAN]
RequestsTyped == request \in [Workers -> RequestRow]
FaultsTyped == exposed \subseteq Users /\ faults \in 0..MaxFaults

\* The type invariant, table by table.
LEMMA AccountTypes ==
  AccountTypeOK <=> /\ UsersTyped /\ PendingsTyped /\ ResetsTyped /\ ChangesTyped
                    /\ AgreementTyped /\ RequestsTyped /\ FaultsTyped
  BY DEF AccountTypeOK, UsersTyped, PendingsTyped, ResetsTyped, ChangesTyped, AgreementTyped,
         RequestsTyped, FaultsTyped, PendingType

\* The constants are numbers, and rows of the types they should be.
LEMMA Constants ==
  /\ MaxPendings \in Nat /\ MaxLinks \in Nat /\ MaxVersions \in Nat /\ MaxFaults \in Nat
  /\ NoUser \in UserRow /\ NoUser.secret = 0 /\ NoUser.link = 0
  /\ NoLink \in LinkRow /\ GoneLink \in LinkRow
  /\ GonePending \in PendingType /\ NoRequest \in RequestRow
  /\ GoneLink.status = "gone" /\ GoneLink.user = Nobody /\ Nobody \notin Users
  <1>1. MaxPendings \in Nat /\ MaxLinks \in Nat /\ MaxVersions \in Nat /\ MaxFaults \in Nat
    BY AccountAssumption
  <1>2. NoUser \in UserRow /\ NoUser.secret = 0 /\ NoUser.link = 0
    BY <1>1 DEF NoUser, UserRow
  <1>3. NoLink \in LinkRow BY <1>1 DEF NoLink, LinkRow, Ages
  <1>4. GoneLink \in LinkRow /\ GoneLink.status = "gone" /\ GoneLink.user = Nobody
    BY <1>3 DEF GoneLink, LinkRow, NoLink
  <1>5. GonePending \in PendingType BY DEF GonePending, PendingType
  <1>6. NoRequest \in RequestRow BY <1>1 DEF NoRequest, RequestRow, RequestSteps
  <1> QED BY <1>1, <1>2, <1>3, <1>4, <1>5, <1>6, AccountAssumption

\* One request moves, and the others wait.
RequestBecomes(w, r) ==
    request'[w] = r /\ \A v \in Workers \ {w} : request'[v] = request[v]

\* A request that is rewritten is the only one.
LEMMA RequestWrite ==
  ASSUME RequestsTyped, NEW w \in Workers, NEW r \in RequestRow,
         request' = [request EXCEPT ![w] = r]
  PROVE  RequestsTyped' /\ RequestBecomes(w, r)
  BY DEF RequestsTyped, RequestBecomes

\* A request that ends.
LEMMA RequestEnds ==
  ASSUME RequestsTyped, NEW w \in Workers, Finish(w)
  PROVE  RequestsTyped' /\ RequestBecomes(w, NoRequest)
  BY Constants, RequestWrite DEF Finish

\* A request that goes on.
LEMMA RequestGoes ==
  ASSUME RequestsTyped, NEW w \in Workers, NEW pc \in RequestSteps, GoTo(w, pc)
  PROVE  /\ RequestsTyped' /\ RequestBecomes(w, request'[w])
         /\ request'[w].pc = pc /\ request'[w].row = request[w].row
         /\ request'[w].user = request[w].user
  <1> DEFINE r == [request[w] EXCEPT !.pc = pc]
  <1>1. request[w] \in RequestRow BY DEF RequestsTyped
  <1>2. r \in RequestRow /\ r.pc = pc /\ r.row = request[w].row /\ r.user = request[w].user
    BY <1>1 DEF RequestRow
  <1>3. request' = [request EXCEPT ![w] = r] BY DEF GoTo
  <1> HIDE DEF r
  <1>4. RequestsTyped' /\ RequestBecomes(w, r) BY <1>2, <1>3, RequestWrite
  <1> QED BY <1>2, <1>4 DEF RequestBecomes

\* The links of a user close; nothing else of the table changes.
LEMMA ClosedLinks ==
  ASSUME NEW table \in [Links -> LinkRow], NEW u \in Users
  PROVE  /\ Closed(table, u) \in [Links -> LinkRow]
         /\ \A r \in Links :
               /\ Closed(table, u)[r].user = table[r].user
               /\ Closed(table, u)[r].secret = table[r].secret
               /\ Closed(table, u)[r].status =
                     IF table[r].user = u /\ IsOpen(table[r]) THEN "used" ELSE table[r].status
  <1>1. ASSUME NEW r \in Links
        PROVE  /\ Closed(table, u)[r] \in LinkRow
               /\ Closed(table, u)[r].user = table[r].user
               /\ Closed(table, u)[r].secret = table[r].secret
               /\ Closed(table, u)[r].status =
                     IF table[r].user = u /\ IsOpen(table[r]) THEN "used" ELSE table[r].status
    <2> DEFINE row == table[r]
               used == [row EXCEPT !.status = "used"]
    <2>1. row \in LinkRow OBVIOUS
    <2>2. used \in LinkRow /\ used.user = row.user /\ used.secret = row.secret
          /\ used.status = "used"
      BY <2>1 DEF LinkRow
    <2>3. Closed(table, u)[r] = IF row.user = u /\ IsOpen(row) THEN used ELSE row
      BY DEF Closed
    <2> HIDE DEF row, used
    <2>4. row = table[r] BY DEF row
    <2> QED BY <2>1, <2>2, <2>3, <2>4
  <1>2. Closed(table, u) = [r \in Links |-> Closed(table, u)[r]] BY DEF Closed
  <1> QED BY <1>1, <1>2

\* Time and the job change a row's age, or end the row.
LEMMA OldLinks ==
  ASSUME NEW table \in [Links -> LinkRow], NEW new \in Aged(table) \cup Cleaned(table, GoneLink)
  PROVE  /\ new \in [Links -> LinkRow]
         /\ \A r \in Links : \/ /\ new[r].status = table[r].status
                                /\ new[r].user = table[r].user
                                /\ new[r].secret = table[r].secret
                             \/ new[r].status = "gone" /\ table[r].status \in {"open", "used"}
  <1>1. CASE new \in Aged(table)
    <2>1. PICK i \in Links : new = [table EXCEPT ![i].age = Older(table[i].age)]
      BY <1>1 DEF Aged
    <2> DEFINE row == [table[i] EXCEPT !.age = Older(table[i].age)]
    <2>2. Older(table[i].age) \in Ages BY DEF Older, Ages
    <2>3. table[i] \in LinkRow OBVIOUS
    <2>4. /\ row \in LinkRow /\ row.status = table[i].status
          /\ row.user = table[i].user /\ row.secret = table[i].secret
      BY <2>2, <2>3 DEF LinkRow
    <2>5. new = [table EXCEPT ![i] = row] BY <2>1
    <2> HIDE DEF row
    <2> QED BY <2>4, <2>5
  <1>2. CASE new \in Cleaned(table, GoneLink)
    <2>1. PICK i \in Links : new = [table EXCEPT ![i] = GoneLink]
                             /\ table[i].status \in {"open", "used"}
      BY <1>2 DEF Cleaned
    <2> QED BY <2>1, Constants
  <1> QED BY <1>1, <1>2

\* The same of registrations.
LEMMA OldPendings ==
  ASSUME PendingsTyped, NEW new \in Aged(pending) \cup Cleaned(pending, GonePending)
  PROVE  /\ new \in [Pendings -> PendingType]
         /\ \A p \in Pendings : \/ new[p].status = pending[p].status
                                \/ new[p].status = "gone"
  <1>1. CASE new \in Aged(pending)
    <2>1. PICK i \in Pendings : /\ new = [pending EXCEPT ![i].age = Older(pending[i].age)]
                                /\ pending[i].status \in {"open", "used"}
      BY <1>1 DEF Aged, PendingsTyped
    <2> DEFINE row == [pending[i] EXCEPT !.age = Older(pending[i].age)]
    <2>2. Older(pending[i].age) \in Ages BY DEF Older, Ages
    <2>3. pending[i] \in PendingRow BY <2>1 DEF PendingsTyped, PendingType
    <2>4. row \in PendingRow /\ row.status = pending[i].status BY <2>2, <2>3 DEF PendingRow
    <2>5. new = [pending EXCEPT ![i] = row] BY <2>1
    <2> HIDE DEF row
    <2> QED BY <2>4, <2>5 DEF PendingsTyped, PendingType
  <1>2. CASE new \in Cleaned(pending, GonePending)
    <2>1. PICK i \in Pendings : new = [pending EXCEPT ![i] = GonePending]
      BY <1>2 DEF Cleaned, PendingsTyped
    <2> QED BY <2>1, Constants DEF PendingsTyped, GonePending
  <1> QED BY <1>1, <1>2

\* One user's row is rewritten.
UserBecomes(u, row) ==
    user'[u] = row /\ \A v \in Users \ {u} : user'[v] = user[v]

\* The other users stay.
LEMMA UserWrite ==
  ASSUME UsersTyped, NEW u \in Users, NEW row \in UserRow, user' = [user EXCEPT ![u] = row]
  PROVE  UsersTyped' /\ UserBecomes(u, row)
  BY DEF UsersTyped, UserBecomes

\* What matters here of a user stays.
UserStays(u) ==
    /\ user'[u].state = user[u].state /\ user'[u].born = user[u].born
    /\ user'[u].secret = user[u].secret /\ user'[u].link = user[u].link

\* An address or an acceptance changes.
LEMMA ProfileSteps ==
  ASSUME AccountTypeOK, NEW w \in Workers, RequestInOrder(w),
         \/ RecordConsent(w) \/ SetEmail(w)
         \/ \E u \in Users, e \in Emails : AdminUpdate(w, u, e) /\ e # user[u].email
  PROVE  UsersTyped' /\ \A u \in Users : UserStays(u)
  <1>0. UsersTyped /\ RequestsTyped /\ request[w] \in RequestRow
    BY AccountTypes DEF RequestsTyped
  <1>1. CASE user' = user BY <1>0, <1>1 DEF UsersTyped, UserStays
  <1>2. ASSUME NEW u \in Users, NEW e \in Emails \cup {"none"}, user' = [user EXCEPT ![u].email = e]
        PROVE  UsersTyped' /\ \A v \in Users : UserStays(v)
    <2> DEFINE row == [user[u] EXCEPT !.email = e]
    <2>1. user[u] \in UserRow BY <1>0 DEF UsersTyped
    <2>2. /\ row \in UserRow /\ row.state = user[u].state /\ row.born = user[u].born
          /\ row.secret = user[u].secret /\ row.link = user[u].link
      BY <2>1 DEF UserRow
    <2>3. user' = [user EXCEPT ![u] = row] BY <1>2
    <2> HIDE DEF row
    <2>4. UsersTyped' /\ UserBecomes(u, row) BY <1>0, <2>2, <2>3, UserWrite
    <2> QED BY <2>2, <2>4 DEF UserBecomes, UserStays
  <1>3. ASSUME NEW u \in Users, NEW set \in SUBSET (1..MaxVersions),
               user' = [user EXCEPT ![u].accepted = set]
        PROVE  UsersTyped' /\ \A v \in Users : UserStays(v)
    <2> DEFINE row == [user[u] EXCEPT !.accepted = set]
    <2>1. user[u] \in UserRow BY <1>0 DEF UsersTyped
    <2>2. /\ row \in UserRow /\ row.state = user[u].state /\ row.born = user[u].born
          /\ row.secret = user[u].secret /\ row.link = user[u].link
      BY <2>1 DEF UserRow
    <2>3. user' = [user EXCEPT ![u] = row] BY <1>3
    <2> HIDE DEF row
    <2>4. UsersTyped' /\ UserBecomes(u, row) BY <1>0, <2>2, <2>3, UserWrite
    <2> QED BY <2>2, <2>4 DEF UserBecomes, UserStays
  <1>4. CASE RecordConsent(w)
    <2>1. CASE user' = user BY <2>1, <1>1
    <2>2. CASE user' = [user EXCEPT ![request[w].user].accepted =
                 IF request[w].agreed > 0 /\ request[w].user \in Alive THEN @ \cup {request[w].agreed} ELSE @]
      <3> DEFINE u == request[w].user
                 agreed == request[w].agreed
                 set == IF agreed > 0 /\ u \in Alive THEN user[u].accepted \cup {agreed}
                        ELSE user[u].accepted
      <3>1. u \in Users BY <1>4 DEF RecordConsent, RequestInOrder, At
      <3>2. agreed \in 0..MaxVersions BY <1>0 DEF RequestRow
      <3>3. user[u] \in UserRow BY <1>0, <3>1 DEF UsersTyped
      <3>4. user[u].accepted \in SUBSET (1..MaxVersions) BY <3>3 DEF UserRow
      <3>5. agreed > 0 => agreed \in 1..MaxVersions BY <3>2, Constants
      <3>6. set \in SUBSET (1..MaxVersions) BY <3>4, <3>5
      <3>7. user' = [user EXCEPT ![u].accepted = set] BY <2>2
      <3> HIDE DEF set, u
      <3> QED BY <3>1, <3>6, <3>7, <1>3
    <2> QED BY <1>4, <2>1, <2>2 DEF RecordConsent
  <1>5. CASE SetEmail(w)
    <2>1. request[w].email \in Emails \cup {"none"} BY <1>0 DEF RequestRow
    <2> QED BY <1>5, <2>1, <1>1, <1>2 DEF SetEmail, Alive
  <1>6. CASE \E u \in Users, e \in Emails : AdminUpdate(w, u, e) /\ e # user[u].email
    BY <1>6, <1>2 DEF AdminUpdate
  <1> QED BY <1>4, <1>5, <1>6

\* A new user has no password of a link yet.
NewUserRow(e, n, p) ==
    [NoUser EXCEPT !.state = "alive", !.email = e, !.name = n, !.born = p]

\* A new row is one of a user.
LEMMA NewUserRows ==
  ASSUME NEW e \in Emails \cup {"none"}, NEW n \in Names \cup {"none"}, NEW p \in 0..MaxPendings
  PROVE  /\ NewUserRow(e, n, p) \in UserRow
         /\ NewUserRow(e, n, p).state = "alive" /\ NewUserRow(e, n, p).born = p
         /\ NewUserRow(e, n, p).secret = 0 /\ NewUserRow(e, n, p).link = 0
  <1> DEFINE row == NewUserRow(e, n, p)
  <1>1. /\ row \in UserRow /\ row.state = "alive" /\ row.born = p
        /\ row.secret = NoUser.secret /\ row.link = NoUser.link
    BY Constants DEF UserRow, NewUserRow
  <1> QED BY <1>1, Constants

\* The other users stay when one is made.
LEMMA NewUsers ==
  ASSUME AccountTypeOK, NEW u \in Users, NEW p, NEW row \in UserRow,
         row.state = "alive", row.born = p, row.secret = 0, row.link = 0,
         user' = [user EXCEPT ![u] = row]
  PROVE  /\ UsersTyped' /\ \A v \in Users \ {u} : UserStays(v)
         /\ user'[u].state = "alive" /\ user'[u].born = p /\ user'[u].secret = 0
         /\ user'[u].link = 0
  BY AccountTypes, UserWrite DEF UserBecomes, UserStays

\* A deleted user keeps the registration it came from.
LEMMA DeletedUsers ==
  ASSUME AccountTypeOK, NEW u \in Users, AdminDelete(u)
  PROVE  /\ UsersTyped' /\ \A v \in Users \ {u} : UserStays(v)
         /\ user'[u].state = "deleted" /\ user'[u].born = user[u].born /\ user'[u].link = 0
  <1> DEFINE row == [NoUser EXCEPT !.state = "deleted", !.born = user[u].born]
  <1>1. UsersTyped BY AccountTypes
  <1>2. user[u].born \in 0..MaxPendings BY <1>1 DEF UsersTyped, UserRow
  <1>3. /\ row \in UserRow /\ row.state = "deleted" /\ row.born = user[u].born
        /\ row.link = NoUser.link
    BY <1>2, Constants DEF UserRow
  <1>4. user' = [user EXCEPT ![u] = row] BY DEF AdminDelete
  <1> HIDE DEF row
  <1>5. UsersTyped' /\ UserBecomes(u, row) BY <1>1, <1>3, <1>4, UserWrite
  <1> QED BY <1>3, <1>5, Constants DEF UserBecomes, UserStays

\* A password set with the owner's or an administrator's hand forgets the link.
LEMMA NewSecrets ==
  ASSUME AccountTypeOK, NEW u \in Users, user[u].secret < MaxLinks,
         user' = [user EXCEPT ![u].secret = @ + 1, ![u].link = 0]
  PROVE  /\ UsersTyped' /\ \A v \in Users \ {u} : UserStays(v)
         /\ user'[u].state = user[u].state /\ user'[u].born = user[u].born /\ user'[u].link = 0
  <1> DEFINE row == [user[u] EXCEPT !.secret = user[u].secret + 1, !.link = 0]
  <1>1. UsersTyped /\ user[u] \in UserRow BY AccountTypes DEF UsersTyped
  <1>2. user[u].secret \in 0..MaxLinks BY <1>1 DEF UserRow
  <1>3. user[u].secret + 1 \in 0..MaxLinks /\ 0 \in 0..MaxLinks BY <1>2, Constants
  <1>4. row \in UserRow /\ row.state = user[u].state /\ row.born = user[u].born /\ row.link = 0
    BY <1>1, <1>3 DEF UserRow
  <1>5. user' = [user EXCEPT ![u] = row] BY <1>1 DEF UsersTyped, UserRow
  <1> HIDE DEF row
  <1>6. UsersTyped' /\ UserBecomes(u, row) BY <1>1, <1>4, <1>5, UserWrite
  <1> QED BY <1>4, <1>6 DEF UserBecomes, UserStays

\* A password set by a link remembers it.
LEMMA LinkedSecrets ==
  ASSUME AccountTypeOK, NEW w \in Workers, RequestInOrder(w), SetPassword(w)
  PROVE  /\ UsersTyped'
         /\ \A u \in Users : /\ user'[u].state = user[u].state /\ user'[u].born = user[u].born
                             /\ user'[u].secret = user[u].secret
                             /\ user'[u].link \in {user[u].link, request[w].row}
  <1>1. UsersTyped BY AccountTypes
  <1>2. CASE user' = user BY <1>1, <1>2 DEF UsersTyped
  <1>3. CASE user' # user
    <2> DEFINE u == request[w].user
               row == [user[u] EXCEPT !.link = request[w].row]
    <2>1. u \in Users BY <1>3 DEF SetPassword, Alive
    <2>2. request[w].row \in 0..MaxLinks
      BY Constants DEF SetPassword, RequestInOrder, At, Links
    <2>3. user[u] \in UserRow BY <1>1, <2>1 DEF UsersTyped
    <2>4. /\ row \in UserRow /\ row.state = user[u].state /\ row.born = user[u].born
          /\ row.secret = user[u].secret /\ row.link = request[w].row
      BY <2>2, <2>3 DEF UserRow
    <2>5. user' = [user EXCEPT ![u] = row] BY <1>3 DEF SetPassword
    <2> HIDE DEF row, u
    <2>6. UsersTyped' /\ UserBecomes(u, row) BY <1>1, <2>1, <2>4, <2>5, UserWrite
    <2> QED BY <2>4, <2>6 DEF UserBecomes
  <1> QED BY <1>2, <1>3

-------------------------------------------------------------------------------
(* Requests *)

\* Request w takes a step, and knows its row where it is then.
RequestTurns(w) ==
    /\ RequestsTyped' /\ RequestInOrder(w)'
    /\ \A v \in Workers \ {w} : request'[v] = request[v]

FirstSteps == {"register", "claim", "mailReset", "claimReset", "mailChange", "claimChange",
               "invalidate", "publish"}

\* The number of the next version is one.
LEMMA NextVersion ==
  ASSUME AgreementTyped, Cardinality(versions) + 1 <= MaxVersions
  PROVE  Cardinality(versions) + 1 \in 1..MaxVersions
  <1>1. IsFiniteSet(1..MaxVersions) BY Constants, FS_Interval
  <1>2. IsFiniteSet(versions) BY <1>1, FS_Subset DEF AgreementTyped
  <1>3. Cardinality(versions) \in Nat BY <1>2, FS_CardinalityType
  <1> QED BY <1>3, Constants

\* A request that begins is in order.
LEMMA Beginnings ==
  ASSUME AccountTypeOK, NEW w \in Workers,
         \/ \E e \in Emails, n \in Names : StartRegister(w, e, n)
         \/ \E p \in Pendings : StartVerify(w, p)
         \/ StartPublish(w)
         \/ \E u \in Users : \/ ForgotPassword(w, u) \/ StartReset(w, u) \/ StartConfirm(w, u)
                             \/ \E e \in Emails : ChangeEmail(w, u, e)
  PROVE  RequestTurns(w) /\ request'[w].pc \in FirstSteps \ {"invalidate"}
  <1>0. /\ RequestsTyped /\ PendingsTyped /\ ResetsTyped /\ ChangesTyped /\ AgreementTyped
    BY AccountTypes
  <1>s. ASSUME NEW r \in RequestRow, r.pc \in FirstSteps \ {"invalidate"},
               r.pc = "register" => r.email \in Emails /\ r.name \in Names,
               r.pc = "claim" => r.row \in Pendings,
               r.pc \in {"mailReset", "claimReset", "mailChange", "claimChange"} => r.row \in Links,
               r.pc = "publish" => r.row \in 1..MaxVersions,
               request' = [request EXCEPT ![w] = r]
        PROVE  RequestTurns(w) /\ request'[w].pc \in FirstSteps \ {"invalidate"}
    BY <1>0, <1>s, RequestWrite DEF RequestTurns, RequestInOrder, RequestBecomes, FirstSteps
  <1>1. ASSUME NEW e \in Emails, NEW n \in Names, StartRegister(w, e, n)
        PROVE  RequestTurns(w) /\ request'[w].pc \in FirstSteps \ {"invalidate"}
    <2> DEFINE r == [NoRequest EXCEPT !.pc = "register", !.email = e, !.name = n,
                                      !.agreed = ValidateAcceptance]
    <2>a. agreement.current \in {0} \cup versions BY <1>0 DEF AgreementTyped
    <2>b. {0} \cup versions \subseteq 0..MaxVersions BY <1>0, Constants DEF AgreementTyped
    <2>1. ValidateAcceptance \in 0..MaxVersions
      BY <2>a, <2>b, Constants DEF ValidateAcceptance
    <2>2. r \in RequestRow /\ r.pc = "register" /\ r.email = e /\ r.name = n
      BY <2>1, Constants DEF RequestRow, RequestSteps
    <2>3. request' = [request EXCEPT ![w] = r] BY <1>1 DEF StartRegister
    <2> HIDE DEF r
    <2> QED BY <2>2, <2>3, <1>s DEF FirstSteps
  <1>2. ASSUME NEW p \in Pendings, StartVerify(w, p)
        PROVE  RequestTurns(w) /\ request'[w].pc \in FirstSteps \ {"invalidate"}
    <2> DEFINE row == pending[p]
               r == [NoRequest EXCEPT !.pc = "claim", !.row = p, !.email = row.email,
                                      !.name = row.name, !.agreed = row.agreed]
    <2>1. row \in PendingRow
      BY <1>0, <1>2 DEF StartVerify, IsOpen, PendingsTyped, PendingType
    <2>2. row.email \in Emails \cup {"none"} /\ row.name \in Names \cup {"none"}
          /\ row.agreed \in 0..MaxVersions
      BY <2>1 DEF PendingRow
    <2>3. p \in Nat BY DEF Pendings
    <2> HIDE DEF row
    <2>4. r \in RequestRow /\ r.pc = "claim" /\ r.row = p
      BY <2>2, <2>3, Constants DEF RequestRow, RequestSteps
    <2>5. request' = [request EXCEPT ![w] = r] BY <1>2 DEF StartVerify, row
    <2> HIDE DEF r
    <2> QED BY <2>4, <2>5, <1>s DEF FirstSteps
  <1>3. ASSUME StartPublish(w)
        PROVE  RequestTurns(w) /\ request'[w].pc \in FirstSteps \ {"invalidate"}
    <2> DEFINE v == Cardinality(versions) + 1
               r == [NoRequest EXCEPT !.pc = "publish", !.row = v]
    <2>1. v \in 1..MaxVersions BY <1>0, <1>3, NextVersion DEF StartPublish
    <2>3. request' = [request EXCEPT ![w] = r] BY <1>3 DEF StartPublish
    <2> HIDE DEF v
    <2>4. v \in Nat BY <2>1, Constants
    <2>2. r \in RequestRow /\ r.pc = "publish" /\ r.row = v
      BY <2>4, Constants DEF RequestRow, RequestSteps
    <2> HIDE DEF r
    <2> QED BY <2>1, <2>2, <2>3, <1>s DEF FirstSteps
  <1>4. ASSUME NEW r \in Links, NEW pc \in {"mailReset", "mailChange"},
               request' = [request EXCEPT ![w] = [NoRequest EXCEPT !.pc = pc, !.row = r]]
        PROVE  RequestTurns(w) /\ request'[w].pc \in FirstSteps \ {"invalidate"}
    <2> DEFINE new == [NoRequest EXCEPT !.pc = pc, !.row = r]
    <2>1. r \in Nat BY DEF Links
    <2>2. new \in RequestRow /\ new.pc = pc /\ new.row = r
      BY <2>1, Constants DEF RequestRow, RequestSteps
    <2>3. request' = [request EXCEPT ![w] = new] BY <1>4
    <2> HIDE DEF new
    <2> QED BY <2>2, <2>3, <1>s DEF FirstSteps
  <1>5. ASSUME NEW u \in Users, ForgotPassword(w, u) \/ \E e \in Emails : ChangeEmail(w, u, e)
        PROVE  RequestTurns(w) /\ request'[w].pc \in FirstSteps \ {"invalidate"}
    <2>1. NextRow(reset) \subseteq Links /\ NextRow(change) \subseteq Links
      BY <1>0 DEF NextRow, ResetsTyped, ChangesTyped
    <2> QED BY <1>5, <2>1, <1>4 DEF ForgotPassword, ChangeEmail
  <1>6. ASSUME NEW u \in Users, StartReset(w, u)
        PROVE  RequestTurns(w) /\ request'[w].pc \in FirstSteps \ {"invalidate"}
    <2>1. PICK r \in NewestOpen(reset, u) : request' = [request EXCEPT ![w] =
              [NoRequest EXCEPT !.pc = "claimReset", !.row = r, !.user = u]]
      BY <1>6 DEF StartReset
    <2> DEFINE new == [NoRequest EXCEPT !.pc = "claimReset", !.row = r, !.user = u]
    <2>2. r \in Links /\ r \in Nat BY <1>0 DEF NewestOpen, ResetsTyped, Links
    <2>3. new \in RequestRow /\ new.pc = "claimReset" /\ new.row = r
      BY <2>2, Constants DEF RequestRow, RequestSteps
    <2>4. request' = [request EXCEPT ![w] = new] BY <2>1
    <2> HIDE DEF new
    <2> QED BY <2>2, <2>3, <2>4, <1>s DEF FirstSteps
  <1>7. ASSUME NEW u \in Users, StartConfirm(w, u)
        PROVE  RequestTurns(w) /\ request'[w].pc \in FirstSteps \ {"invalidate"}
    <2>1. PICK r \in NewestOpen(change, u) : request' = [request EXCEPT ![w] =
              [NoRequest EXCEPT !.pc = "claimChange", !.row = r, !.user = u,
                                !.email = change[r].email]]
      BY <1>7 DEF StartConfirm
    <2> DEFINE e == change[r].email
               new == [NoRequest EXCEPT !.pc = "claimChange", !.row = r, !.user = u, !.email = e]
    <2>2. r \in Links /\ r \in Nat BY <1>0 DEF NewestOpen, ChangesTyped, Links
    <2>3. e \in Emails \cup {"none"} BY <1>0, <2>2 DEF ChangesTyped, LinkRow
    <2>4. request' = [request EXCEPT ![w] = new] BY <2>1
    <2> HIDE DEF e
    <2>5. new \in RequestRow /\ new.pc = "claimChange" /\ new.row = r
      BY <2>2, <2>3, Constants DEF RequestRow, RequestSteps
    <2> HIDE DEF new
    <2> QED BY <2>2, <2>4, <2>5, <1>s DEF FirstSteps
  <1> QED BY <1>1, <1>2, <1>3, <1>5, <1>6, <1>7

\* An administrator's password waits for its second transaction.
LEMMA AdminBegins ==
  ASSUME AccountTypeOK, NEW w \in Workers, NEW u \in Users,
         request' = [request EXCEPT ![w] = [NoRequest EXCEPT !.pc = "invalidate", !.user = u]]
  PROVE  RequestTurns(w) /\ request'[w].pc = "invalidate" /\ request'[w].user = u
  <1> DEFINE r == [NoRequest EXCEPT !.pc = "invalidate", !.user = u]
  <1>1. RequestsTyped BY AccountTypes
  <1>2. r \in RequestRow /\ r.pc = "invalidate" /\ r.user = u
    BY Constants DEF RequestRow, RequestSteps
  <1>3. request' = [request EXCEPT ![w] = r] OBVIOUS
  <1> HIDE DEF r
  <1>4. RequestsTyped' /\ RequestBecomes(w, r) BY <1>1, <1>2, <1>3, RequestWrite
  <1> QED BY <1>2, <1>4 DEF RequestTurns, RequestInOrder, RequestBecomes

\* A request that ends has nothing left to know.
LEMMA Endings ==
  ASSUME AccountTypeOK, NEW w \in Workers, Finish(w)
  PROVE  RequestTurns(w) /\ request'[w].pc = "idle"
  <1>1. RequestsTyped' /\ RequestBecomes(w, NoRequest) BY AccountTypes, RequestEnds
  <1>2. NoRequest.pc = "idle" BY DEF NoRequest
  <1> QED BY <1>1, <1>2 DEF RequestTurns, RequestInOrder, RequestBecomes

\* A request that goes on keeps its row.
LEMMA Movings ==
  ASSUME AccountTypeOK, NEW w \in Workers, RequestInOrder(w),
         \/ At(w, "claim") /\ GoTo(w, "create")
         \/ At(w, "create") /\ GoTo(w, "revert")
         \/ At(w, "claimReset") /\ GoTo(w, "password")
         \/ At(w, "claimChange") /\ GoTo(w, "email")
  PROVE  RequestTurns(w) /\ request'[w].row = request[w].row
  <1>1. RequestsTyped BY AccountTypes
  <1> QED BY <1>1, RequestGoes
          DEF RequestTurns, RequestInOrder, RequestBecomes, At, RequestSteps

\* ... or is told the row or the user it has made.
LEMMA Tellings ==
  ASSUME AccountTypeOK, NEW w \in Workers
  PROVE  /\ \A p \in Pendings : request' = [request EXCEPT ![w].pc = "mailVerify", ![w].row = p]
            => RequestTurns(w) /\ request'[w].pc = "mailVerify"
         /\ \A u \in Users : request' = [request EXCEPT ![w].pc = "consent", ![w].user = u]
            => RequestTurns(w) /\ request'[w].pc = "consent"
  <1>0. RequestsTyped /\ request[w] \in RequestRow BY AccountTypes DEF RequestsTyped
  <1>1. ASSUME NEW p \in Pendings,
               request' = [request EXCEPT ![w].pc = "mailVerify", ![w].row = p]
        PROVE  RequestTurns(w) /\ request'[w].pc = "mailVerify"
    <2> DEFINE r == [request[w] EXCEPT !.pc = "mailVerify", !.row = p]
    <2>1. p \in Nat BY DEF Pendings
    <2>2. r \in RequestRow /\ r.pc = "mailVerify" /\ r.row = p
      BY <1>0, <2>1 DEF RequestRow, RequestSteps
    <2>3. request' = [request EXCEPT ![w] = r] BY <1>0, <1>1 DEF RequestsTyped
    <2> HIDE DEF r
    <2>4. RequestsTyped' /\ RequestBecomes(w, r) BY <1>0, <2>2, <2>3, RequestWrite
    <2> QED BY <2>2, <2>4 DEF RequestTurns, RequestInOrder, RequestBecomes
  <1>2. ASSUME NEW u \in Users,
               request' = [request EXCEPT ![w].pc = "consent", ![w].user = u]
        PROVE  RequestTurns(w) /\ request'[w].pc = "consent"
    <2> DEFINE r == [request[w] EXCEPT !.pc = "consent", !.user = u]
    <2>2. r \in RequestRow /\ r.pc = "consent" /\ r.user = u
      BY <1>0 DEF RequestRow, RequestSteps
    <2>3. request' = [request EXCEPT ![w] = r] BY <1>0, <1>2 DEF RequestsTyped
    <2> HIDE DEF r
    <2>4. RequestsTyped' /\ RequestBecomes(w, r) BY <1>0, <2>2, <2>3, RequestWrite
    <2> QED BY <2>2, <2>4 DEF RequestTurns, RequestInOrder, RequestBecomes
  <1> QED BY <1>1, <1>2

-------------------------------------------------------------------------------
(* Registrations *)

PendingsKept == PendingsTyped' /\ \A p \in Pendings : Spent(p) => Spent(p)'

\* A row's status is rewritten.
LEMMA PendingStatus ==
  ASSUME PendingsTyped, NEW p \in Pendings, pending[p].status \in {"open", "used"},
         NEW st \in {"open", "used"}, pending' = [pending EXCEPT ![p].status = st]
  PROVE  /\ PendingsTyped' /\ pending'[p].status = st
         /\ \A q \in Pendings \ {p} : pending'[q] = pending[q]
  <1> DEFINE row == [pending[p] EXCEPT !.status = st]
  <1>1. pending[p] \in PendingRow BY DEF PendingsTyped, PendingType
  <1>2. row \in PendingRow /\ row.status = st BY <1>1 DEF PendingRow
  <1>3. pending' = [pending EXCEPT ![p] = row] OBVIOUS
  <1> HIDE DEF row
  <1> QED BY <1>2, <1>3 DEF PendingsTyped, PendingType

\* A new row takes the place of the open ones of its address.
LEMMA InsertKeeps ==
  ASSUME AccountTypeOK, NEW w \in Workers, RequestInOrder(w), InsertPending(w)
  PROVE  PendingsKept /\ RequestTurns(w) /\ request'[w].pc \in {"idle", "mailVerify"}
  <1>0. PendingsTyped /\ RequestsTyped /\ request[w] \in RequestRow
    BY AccountTypes DEF RequestsTyped
  <1> DEFINE r == request[w]
             mine == {p \in Pendings : IsOpen(pending[p]) /\ pending[p].email = r.email}
  <1>1. CASE Finish(w) /\ UNCHANGED pending
    BY <1>0, <1>1, Endings DEF PendingsKept, PendingsTyped, Spent
  <1>2. ASSUME NEW p \in NextRow(pending),
               pending' = [q \in Pendings |->
                   CASE q = p       -> [status |-> "open", age |-> "live", email |-> r.email,
                                        name |-> r.name, agreed |-> r.agreed]
                     [] q \in mine  -> [pending[q] EXCEPT !.status = "used"]
                     [] OTHER       -> pending[q]],
               request' = [request EXCEPT ![w].pc = "mailVerify", ![w].row = p]
        PROVE  PendingsKept /\ RequestTurns(w) /\ request'[w].pc \in {"idle", "mailVerify"}
    <2> DEFINE new == [status |-> "open", age |-> "live", email |-> r.email,
                       name |-> r.name, agreed |-> r.agreed]
               used(q) == [pending[q] EXCEPT !.status = "used"]
    <2>1. p \in Pendings /\ pending[p].status = "none"
      BY <1>0 DEF NextRow, PendingsTyped
    <2>2. new \in PendingRow /\ new.status = "open"
      BY <1>0, <1>2 DEF InsertPending, RequestInOrder, At, PendingRow, RequestRow, Ages
    <2>3. \A q \in mine : used(q) \in PendingRow /\ used(q).status = "used"
      <3> TAKE q \in mine
      <3>1. pending[q] \in PendingRow BY <1>0 DEF PendingsTyped, PendingType, IsOpen
      <3> QED BY <3>1 DEF PendingRow
    <2>4. /\ pending'[p] = new
          /\ \A q \in Pendings \ {p} :
                pending'[q] = IF q \in mine THEN used(q) ELSE pending[q]
      <3> HIDE DEF new, mine, used
      <3>1. pending'[p] = CASE p = p -> new [] p \in mine -> used(p) [] OTHER -> pending[p]
        BY <1>2, <2>1, Zenon DEF new, mine, used
      <3>2. pending'[p] = new
        <4>1. p \notin mine BY <2>1 DEF mine, IsOpen
        <4> QED BY <3>1, <4>1, Zenon
      <3>3. ASSUME NEW q \in Pendings \ {p}
            PROVE  pending'[q] = IF q \in mine THEN used(q) ELSE pending[q]
        <4>1. pending'[q] = CASE q = p -> new [] q \in mine -> used(q) [] OTHER -> pending[q]
          BY <1>2, Zenon DEF new, mine, used
        <4>2. CASE q \in mine BY <4>1, <4>2, <3>3, Zenon
        <4>3. CASE q \notin mine BY <4>1, <4>3, <3>3, Zenon
        <4> QED BY <4>2, <4>3
      <3> QED BY <3>2, <3>3
    <2>5. DOMAIN pending' = Pendings /\ pending' = [q \in Pendings |-> pending'[q]]
      <3> DEFINE value(q) ==
                   CASE q = p       -> [status |-> "open", age |-> "live", email |-> r.email,
                                        name |-> r.name, agreed |-> r.agreed]
                     [] q \in mine  -> [pending[q] EXCEPT !.status = "used"]
                     [] OTHER       -> pending[q]
      <3>1. pending' = [q \in Pendings |-> value(q)] BY <1>2, Zenon
      <3> HIDE DEF value
      <3> QED BY <3>1
    <2>6. \A q \in mine : ~Spent(q) BY DEF IsOpen, Spent
    <2> HIDE DEF new, mine, used
    <2>7. \A q \in Pendings : pending'[q] \in PendingType
      BY <1>0, <2>2, <2>3, <2>4 DEF PendingsTyped, PendingType
    <2>8. PendingsTyped' BY <2>5, <2>7, Zenon DEF PendingsTyped
    <2>9. \A q \in Pendings : Spent(q) => Spent(q)'
      <3> TAKE q \in Pendings
      <3>1. CASE q = p BY <3>1, <2>1 DEF Spent
      <3>2. CASE q # p /\ q \in mine BY <3>2, <2>6
      <3>3. CASE q # p /\ q \notin mine BY <3>3, <2>4 DEF Spent
      <3> QED BY <3>1, <3>2, <3>3
    <2>10. RequestTurns(w) /\ request'[w].pc = "mailVerify" BY <1>2, <2>1, Tellings
    <2> QED BY <2>8, <2>9, <2>10 DEF PendingsKept
  <1> QED BY <1>1, <1>2 DEF InsertPending

\* The mail that fails, and a claim, spend a row.
LEMMA MailAndClaim ==
  ASSUME AccountTypeOK, NEW w \in Workers, RequestInOrder(w), MailVerify(w) \/ ClaimPending(w)
  PROVE  /\ PendingsKept /\ RequestTurns(w)
         /\ request'[w].pc = "idle" \/ ( /\ request'[w].pc = "create"
                                         /\ request'[w].row = request[w].row
                                         /\ ~Spent(request[w].row) /\ Spent(request[w].row)')
  <1> SUFFICES ASSUME NEW p \in Pendings, p = request[w].row
               PROVE  /\ PendingsKept /\ RequestTurns(w)
                      /\ request'[w].pc = "idle"
                            \/ ( /\ request'[w].pc = "create" /\ request'[w].row = p
                                 /\ ~Spent(p) /\ pending'[p].status = "used")
    BY DEF MailVerify, ClaimPending, RequestInOrder, At, Spent
  <1>0. PendingsTyped /\ RequestsTyped BY AccountTypes
  <1>u. UNCHANGED pending => PendingsKept BY <1>0 DEF PendingsKept, PendingsTyped, Spent
  <1>1. CASE MailVerify(w)
    <2>1. RequestTurns(w) /\ request'[w].pc = "idle" BY <1>1, Endings DEF MailVerify
    <2>2. CASE UNCHANGED pending BY <2>1, <2>2, <1>u
    <2>3. CASE pending' = [pending EXCEPT ![p] = GonePending]
      <3>1. GonePending \in PendingType /\ GonePending.status = "gone"
        BY Constants DEF GonePending
      <3> QED BY <2>1, <2>3, <3>1, <1>0 DEF PendingsKept, PendingsTyped, Spent
    <2> QED BY <1>1, <2>2, <2>3 DEF MailVerify
  <1>2. CASE ClaimPending(w)
    <2>1. CASE Finish(w) /\ UNCHANGED pending BY <2>1, <1>u, Endings
    <2>2. CASE /\ StillUnused(p) /\ pending' = [pending EXCEPT ![p].status = "used"]
               /\ GoTo(w, "create")
      <3>1. RequestTurns(w) /\ request'[w].row = p BY <1>2, <2>2, Movings DEF ClaimPending
      <3>2. request'[w].pc = "create" BY <1>0, <2>2, RequestGoes DEF RequestSteps
      <3>3. pending[p].status = "open" BY <2>2 DEF StillUnused, IsOpen
      <3>4. /\ PendingsTyped' /\ pending'[p].status = "used"
            /\ \A q \in Pendings \ {p} : pending'[q] = pending[q]
        BY <1>0, <2>2, <3>3, PendingStatus
      <3> QED BY <3>1, <3>2, <3>3, <3>4 DEF PendingsKept, Spent
    <2> QED BY <1>2, <2>1, <2>2 DEF ClaimPending
  <1> QED BY <1>1, <1>2

\* Rows that stay spent, users that stay or start afresh, and claims that stay or end keep
\* the births in order.
LEMMA BirthsStay ==
  ASSUME AccountIInv, PendingsKept,
         \A u \in Users : user'[u].born \in {user[u].born, 0},
         \A w \in Workers : Claiming(w)' => Claiming(w) /\ request'[w].row = request[w].row
  PROVE  BirthsInOrder'
  <1>1. BirthsInOrder BY DEF AccountIInv
  <1>2. \A u \in Users : user[u].born # 0 => user[u].born \in Pendings
    BY AccountTypes, Constants DEF AccountIInv, UsersTyped, UserRow, Pendings
  <1>3. \A w \in Workers : Claiming(w) => request[w].row \in Pendings
    BY DEF AccountIInv, RequestInOrder, Claiming
  <1>4. \A p \in Pendings : Spent(p) => Spent(p)' BY DEF PendingsKept
  <1>5. \A u, v \in Users : user'[u].born = user'[v].born /\ user'[u].born # 0 => u = v
    BY <1>1 DEF BirthsInOrder
  <1>6. \A u \in Users : user'[u].born # 0 => pending'[user'[u].born].status \in {"used", "gone"}
    BY <1>1, <1>2, <1>4 DEF BirthsInOrder, Spent
  <1>7. ASSUME NEW w \in Workers, Claiming(w)'
        PROVE  Spent(request[w].row)' /\ ~Born(request[w].row)'
    <2>1. PICK p \in Pendings : p = request[w].row /\ p = request'[w].row /\ Spent(p) /\ ~Born(p)
      BY <1>1, <1>3, <1>7 DEF BirthsInOrder
    <2>2. p # 0 BY DEF Pendings
    <2>3. pending'[p].status \in {"used", "gone"} BY <1>4, <2>1 DEF Spent
    <2>4. \A u \in Users : user'[u].born # p BY <2>1, <2>2 DEF Born
    <2> QED BY <2>1, <2>3, <2>4 DEF Spent, Born
  <1>8. \A v, w \in Workers :
          Claiming(v)' /\ Claiming(w)' /\ request'[v].row = request'[w].row => v = w
    BY <1>1 DEF BirthsInOrder
  <1> QED BY <1>5, <1>6, <1>7, <1>8 DEF BirthsInOrder, Spent

\* A claim is made of a row that was not spent.
LEMMA ClaimKeeps ==
  ASSUME AccountIInv, NEW w \in Workers, ClaimPending(w)
  PROVE  BirthsInOrder'
  <1>1. AccountTypeOK /\ RequestInOrder(w) /\ BirthsInOrder BY DEF AccountIInv
  <1>2. \A v \in Workers \ {w} : request'[v] = request[v]
    BY <1>1, MailAndClaim DEF RequestTurns
  <1>3. PendingsKept BY <1>1, MailAndClaim
  <1>4. user' = user BY DEF ClaimPending
  <1>5. CASE request'[w].pc = "idle"
    BY <1>2, <1>3, <1>4, <1>5, BirthsStay DEF Claiming
  <1>6. CASE request'[w].pc # "idle"
    <2>1. PICK p \in Pendings :
             /\ p = request[w].row /\ p = request'[w].row /\ ~Spent(p)
             /\ pending'[p].status \in {"used", "gone"}
      BY <1>1, <1>6, MailAndClaim DEF Spent, RequestInOrder, ClaimPending, At
    <2>2. \A u \in Users : user[u].born # 0 => user[u].born \in Pendings
      BY <1>1, AccountTypes, Constants DEF UsersTyped, UserRow, Pendings
    <2>3. \A v \in Workers : Claiming(v) => request[v].row \in Pendings /\ request[v].row # p
      BY <1>1, <2>1 DEF AccountIInv, RequestInOrder, Claiming, BirthsInOrder
    <2>4. \A q \in Pendings : Spent(q) => Spent(q)' BY <1>3 DEF PendingsKept
    <2>5. p # 0 BY DEF Pendings
    <2>6. \A u \in Users : user[u].born # p BY <1>1, <2>1, <2>5 DEF BirthsInOrder
    <2>7. \A u \in Users : user'[u].born # 0 => pending'[user'[u].born].status \in {"used", "gone"}
      BY <1>1, <1>4, <2>2, <2>4 DEF BirthsInOrder, Spent
    <2>8. ASSUME NEW v \in Workers, Claiming(v)'
          PROVE  Spent(request[v].row)' /\ ~Born(request[v].row)'
      <3>1. CASE v = w
        BY <3>1, <2>1, <2>6, <1>4 DEF Spent, Born
      <3>2. CASE v # w
        <4>1. Claiming(v) /\ request'[v] = request[v] BY <1>2, <2>8, <3>2 DEF Claiming
        <4>2. Spent(request[v].row) /\ ~Born(request[v].row) /\ request[v].row \in Pendings
          BY <1>1, <2>3, <4>1 DEF BirthsInOrder
        <4> QED BY <1>4, <2>4, <4>1, <4>2 DEF Spent, Born
      <3> QED BY <3>1, <3>2
    <2>9. \A v, x \in Workers :
            Claiming(v)' /\ Claiming(x)' /\ request'[v].row = request'[x].row => v = x
      BY <1>1, <1>2, <2>1, <2>3 DEF BirthsInOrder, Claiming
    <2> QED BY <1>1, <1>4, <2>7, <2>8, <2>9 DEF BirthsInOrder, Spent
  <1> QED BY <1>5, <1>6

\* The user is made by the one request with the claim.
LEMMA BirthKeeps ==
  ASSUME AccountIInv, NEW w \in Workers, CreateUser(w)
  PROVE  /\ UsersTyped' /\ RequestTurns(w) /\ BirthsInOrder'
         /\ request'[w].pc \in {"consent", "revert"}
         /\ \A u \in Users :
               \/ UserStays(u)
               \/ user[u].state = "free" /\ user'[u].state = "alive" /\ user'[u].link = 0
  <1>1. AccountTypeOK /\ RequestInOrder(w) /\ BirthsInOrder BY DEF AccountIInv
  <1>0. UsersTyped /\ PendingsTyped /\ RequestsTyped /\ request[w] \in RequestRow
    BY <1>1, AccountTypes DEF RequestsTyped
  <1> SUFFICES ASSUME NEW p \in Pendings, p = request[w].row
               PROVE  /\ UsersTyped' /\ RequestTurns(w) /\ BirthsInOrder'
                      /\ request'[w].pc \in {"consent", "revert"}
                      /\ \A u \in Users :
                            \/ UserStays(u)
                            \/ /\ user[u].state = "free" /\ user'[u].state = "alive"
                               /\ user'[u].link = 0
    BY <1>1 DEF CreateUser, RequestInOrder, At
  <1>k. PendingsKept BY <1>0 DEF CreateUser, PendingsKept, PendingsTyped, Spent
  <1>2. CASE GoTo(w, "revert") /\ UNCHANGED user
    <2>1. RequestTurns(w) /\ request'[w].row = p BY <1>1, <1>2, Movings DEF CreateUser
    <2>2. request'[w].pc = "revert" BY <1>0, <1>2, RequestGoes DEF RequestSteps
    <2>3. UsersTyped' /\ \A u \in Users : UserStays(u) BY <1>0, <1>2 DEF UsersTyped, UserStays
    <2>4. BirthsInOrder'
      BY <1>2, <1>k, <2>1, <2>2, BirthsStay DEF CreateUser, RequestTurns, Claiming, At
    <2> QED BY <2>1, <2>2, <2>3, <2>4
  <1>3. ASSUME NEW u \in Users, user[u].state = "free",
               user' = [user EXCEPT ![u] = [NoUser EXCEPT !.state = "alive",
                                       !.email = request[w].email, !.name = request[w].name,
                                       !.born = request[w].row]],
               request' = [request EXCEPT ![w].pc = "consent", ![w].user = u]
        PROVE  /\ UsersTyped' /\ RequestTurns(w) /\ BirthsInOrder'
               /\ request'[w].pc \in {"consent", "revert"}
               /\ \A v \in Users :
                     \/ UserStays(v)
                     \/ user[v].state = "free" /\ user'[v].state = "alive" /\ user'[v].link = 0
    <2>1. /\ request[w].email \in Emails \cup {"none"} /\ request[w].name \in Names \cup {"none"}
          /\ p \in 0..MaxPendings
      BY <1>0, Constants DEF RequestRow, Pendings
    <2>2. /\ UsersTyped' /\ \A v \in Users \ {u} : UserStays(v)
          /\ user'[u].state = "alive" /\ user'[u].born = p /\ user'[u].link = 0
      <3> DEFINE row == NewUserRow(request[w].email, request[w].name, p)
      <3>1. /\ row \in UserRow /\ row.state = "alive" /\ row.born = p
            /\ row.secret = 0 /\ row.link = 0
        BY <2>1, NewUserRows
      <3>2. user' = [user EXCEPT ![u] = row] BY <1>3 DEF NewUserRow
      <3> HIDE DEF row
      <3> QED BY <1>1, <3>1, <3>2, NewUsers
    <2>3. RequestTurns(w) /\ request'[w].pc = "consent" BY <1>1, <1>3, Tellings
    <2>4. pending' = pending BY DEF CreateUser
    <2>5. Claiming(w) BY DEF CreateUser, Claiming, At
    <2>6. Spent(p) /\ ~Born(p) /\ p # 0 BY <1>1, <2>5 DEF BirthsInOrder, Pendings
    <2>7. \A v \in Users \ {u} : user'[v].born = user[v].born /\ user[v].born # p
      BY <2>2, <2>6 DEF UserStays, Born
    <2>8. \A v, x \in Users : user'[v].born = user'[x].born /\ user'[v].born # 0 => v = x
      BY <1>1, <2>2, <2>7 DEF BirthsInOrder
    <2>9. \A v \in Users : user'[v].born # 0 => Spent(user[v].born)'
      BY <1>1, <2>2, <2>4, <2>6, <2>7 DEF BirthsInOrder, Spent
    <2>10. \A v \in Workers : Claiming(v)' =>
              v # w /\ Claiming(v) /\ request'[v] = request[v] /\ request[v].row # p
      BY <1>1, <2>3, <2>5 DEF RequestTurns, Claiming, BirthsInOrder
    <2>11. \A v \in Workers : Claiming(v)' => Spent(request[v].row)' /\ ~Born(request[v].row)'
      BY <1>1, <2>2, <2>4, <2>7, <2>10 DEF BirthsInOrder, Spent, Born
    <2>12. \A v, x \in Workers :
            Claiming(v)' /\ Claiming(x)' /\ request'[v].row = request'[x].row => v = x
      BY <1>1, <2>10 DEF BirthsInOrder
    <2>13. BirthsInOrder' BY <2>8, <2>9, <2>11, <2>12 DEF BirthsInOrder
    <2> QED BY <1>3, <2>2, <2>3, <2>13
  <1> QED BY <1>2, <1>3 DEF CreateUser

\* The claim's way back opens the row again, of which there is no user and no other claim.
LEMMA RevertKeeps ==
  ASSUME AccountIInv, NEW w \in Workers, RevertClaim(w)
  PROVE  PendingsTyped' /\ BirthsInOrder'
  <1>1. AccountTypeOK /\ RequestInOrder(w) /\ BirthsInOrder BY DEF AccountIInv
  <1>0. PendingsTyped BY <1>1, AccountTypes
  <1> SUFFICES ASSUME NEW p \in Pendings, p = request[w].row
               PROVE  PendingsTyped' /\ BirthsInOrder'
    BY <1>1 DEF RevertClaim, RequestInOrder, At
  <1>2. RequestTurns(w) /\ request'[w].pc = "idle" BY <1>1, Endings DEF RevertClaim
  <1>3. user' = user BY DEF RevertClaim
  <1>4. CASE pending' = pending
    <2>1. PendingsKept BY <1>0, <1>4 DEF PendingsKept, PendingsTyped, Spent
    <2> QED BY <1>2, <1>3, <2>1, BirthsStay DEF RequestTurns, Claiming, PendingsKept
  <1>5. CASE pending' = [pending EXCEPT ![p].status = "open"] /\ pending[p].status # "gone"
    <2>1. Claiming(w) BY DEF RevertClaim, Claiming, At
    <2>2. Spent(p) /\ ~Born(p) BY <1>1, <2>1 DEF BirthsInOrder
    <2>3. PendingsTyped' /\ \A q \in Pendings \ {p} : pending'[q] = pending[q]
      BY <1>0, <1>5, <2>2, PendingStatus DEF Spent
    <2>4. \A u \in Users : user[u].born # 0 => user[u].born \in Pendings \ {p}
      BY <1>1, <2>2, AccountTypes, Constants DEF UsersTyped, UserRow, Pendings, Born
    <2>5. \A v \in Workers : Claiming(v)' =>
             /\ Claiming(v) /\ request'[v] = request[v] /\ request[v].row \in Pendings \ {p}
      BY <1>1, <1>2, <2>1
         DEF RequestTurns, Claiming, BirthsInOrder, AccountIInv, RequestInOrder
    <2>6. \A u \in Users : user'[u].born # 0 => Spent(user[u].born)'
      BY <1>1, <1>3, <2>3, <2>4 DEF BirthsInOrder, Spent
    <2>7. \A v \in Workers : Claiming(v)' => Spent(request[v].row)' /\ ~Born(request[v].row)'
      BY <1>1, <1>3, <2>3, <2>5 DEF BirthsInOrder, Spent, Born
    <2>8. \A v, x \in Workers :
            Claiming(v)' /\ Claiming(x)' /\ request'[v].row = request'[x].row => v = x
      BY <1>1, <2>5 DEF BirthsInOrder
    <2> QED BY <1>1, <1>3, <2>3, <2>6, <2>7, <2>8 DEF BirthsInOrder
  <1> QED BY <1>4, <1>5 DEF RevertClaim

-------------------------------------------------------------------------------
(* Links *)

\* No link opens, and none comes back.
Shrinks(old, new) ==
    \A r \in Links :
        /\ IsOpen(new[r]) => /\ IsOpen(old[r]) /\ new[r].user = old[r].user
                             /\ new[r].secret = old[r].secret
        /\ old[r].status \in {"used", "gone"} => new[r].status \in {"used", "gone"}

HasOpen(table, u) == \E r \in Links : IsOpen(table[r]) /\ table[r].user = u

\* Links that shrink stay single.
LEMMA ShrinkingStays ==
  ASSUME NEW old, NEW new, OneOpen(old), Shrinks(old, new)
  PROVE  OneOpen(new)
  BY DEF OneOpen, Shrinks

\* Links shrink by closing those of a user ...
LEMMA ClosingShrinks ==
  ASSUME NEW table \in [Links -> LinkRow], NEW u \in Users
  PROVE  /\ Closed(table, u) \in [Links -> LinkRow]
         /\ Shrinks(table, Closed(table, u)) /\ ~HasOpen(Closed(table, u), u)
  BY ClosedLinks DEF Shrinks, IsOpen, HasOpen

\* ... using one ...
LEMMA UsingShrinks ==
  ASSUME NEW table \in [Links -> LinkRow], NEW r \in Links, IsOpen(table[r])
  PROVE  LET new == [table EXCEPT ![r].status = "used"] IN
         new \in [Links -> LinkRow] /\ Shrinks(table, new) /\ new[r].status = "used"
  <1> DEFINE row == [table[r] EXCEPT !.status = "used"]
  <1>1. table[r] \in LinkRow OBVIOUS
  <1>2. row \in LinkRow /\ row.status = "used" BY <1>1 DEF LinkRow
  <1>3. [table EXCEPT ![r].status = "used"] = [table EXCEPT ![r] = row] OBVIOUS
  <1> HIDE DEF row
  <1> QED BY <1>2, <1>3 DEF Shrinks, IsOpen

\* ... losing one with its mail ...
LEMMA LosingShrinks ==
  ASSUME NEW table \in [Links -> LinkRow], NEW r \in Links
  PROVE  LET new == [table EXCEPT ![r] = GoneLink] IN
         new \in [Links -> LinkRow] /\ Shrinks(table, new)
  BY Constants DEF Shrinks, IsOpen

\* ... and growing old.
LEMMA AgingShrinks ==
  ASSUME NEW table \in [Links -> LinkRow], NEW new \in Aged(table) \cup Cleaned(table, GoneLink)
  PROVE  new \in [Links -> LinkRow] /\ Shrinks(table, new)
  BY OldLinks DEF Shrinks, IsOpen

\* A new link takes the place of the user's others.
LEMMA NewLinks ==
  ASSUME AccountTypeOK, NEW table \in [Links -> LinkRow], OneOpen(table), NEW u \in Users,
         NEW e \in Emails \cup {"none"}, NEW r \in NextRow(table)
  PROVE  LET new == [Closed(table, u) EXCEPT ![r] = NewLink(u, e)] IN
         /\ new \in [Links -> LinkRow] /\ OneOpen(new)
         /\ r \in Links /\ table[r].status = "none"
         /\ IsOpen(new[r]) /\ new[r].user = u /\ new[r].secret = user[u].secret
         /\ \A s \in Links \ {r} : new[s] = Closed(table, u)[s]
  <1> DEFINE closed == Closed(table, u)
             row == NewLink(u, e)
  <1>1. r \in Links /\ table[r].status = "none" BY DEF NextRow
  <1>2. closed \in [Links -> LinkRow] /\ Shrinks(table, closed) /\ ~HasOpen(closed, u)
    BY ClosingShrinks
  <1>3. OneOpen(closed) BY <1>2, ShrinkingStays
  <1>4. user[u].secret \in 0..MaxLinks BY AccountTypes DEF UsersTyped, UserRow
  <1>5. row \in LinkRow /\ row.status = "open" /\ row.user = u /\ row.secret = user[u].secret
    BY <1>4 DEF NewLink, LinkRow, Ages
  <1> HIDE DEF closed, row
  <1> DEFINE new == [closed EXCEPT ![r] = row]
  <1>6. new \in [Links -> LinkRow] /\ new[r] = row /\ \A s \in Links \ {r} : new[s] = closed[s]
    BY <1>1, <1>2, <1>5
  <1> HIDE DEF new
  <1>7. OneOpen(new) BY <1>1, <1>2, <1>3, <1>5, <1>6 DEF OneOpen, HasOpen, IsOpen
  <1> QED BY <1>1, <1>5, <1>6, <1>7 DEF new, closed, row, IsOpen

-------------------------------------------------------------------------------
(* Passwords *)

\* Links that shrink, users that stay or whose links are closed or to be closed, and
\* passwords set by a link that is dead keep the links in order.
LEMMA ResetsStay ==
  ASSUME AccountIInv, Shrinks(reset, reset'),
         \A u \in Users :
            /\ user[u].state # "free" => user'[u].state # "free"
            /\ \/ user'[u].link \in {user[u].link, 0}
               \/ /\ user'[u].link \in Links
                  /\ reset'[user'[u].link].status \in {"used", "gone"}
            /\ user'[u].state = "alive" /\ HasOpen(reset', u) =>
                  \/ user[u].state = "free"
                  \/ user[u].state = "alive" /\ user'[u].secret = user[u].secret
                  \/ Invalidating(u)'
            /\ u \in exposed => u \in exposed'
            /\ Invalidating(u) => Invalidating(u)' \/ u \in exposed' \/ ~HasOpen(reset', u),
         \A w \in Workers : At(w, "password")' =>
            \/ At(w, "password") /\ request'[w].row = request[w].row
            \/ request'[w].row \in Links /\ reset'[request'[w].row].status \in {"used", "gone"}
  PROVE  ResetsInOrder'
  <1>1. ResetsInOrder /\ ResetsTyped BY AccountTypes DEF AccountIInv
  <1>2. OneOpen(reset)' BY <1>1, ShrinkingStays DEF ResetsInOrder, OneOpen, Shrinks
  <1>3. ASSUME NEW r \in Links, IsOpen(reset'[r])
        PROVE  /\ user'[reset'[r].user].state # "free"
               /\ user'[reset'[r].user].state = "alive" =>
                     \/ reset'[r].secret = user'[reset'[r].user].secret
                     \/ reset'[r].user \in exposed'
                     \/ \E u \in Users : u = reset'[r].user /\ Invalidating(u)'
    <2>1. PICK u \in Users : u = reset[r].user /\ u = reset'[r].user
      BY <1>1, <1>3 DEF ResetsInOrder, OneOpen, Shrinks
    <2>2. IsOpen(reset[r]) /\ reset'[r].secret = reset[r].secret BY <1>3 DEF Shrinks
    <2>3. HasOpen(reset', u) BY <1>3, <2>1 DEF HasOpen
    <2>4. user[u].state # "free" BY <1>1, <2>1, <2>2 DEF ResetsInOrder
    <2>5. user[u].state = "alive" =>
             reset[r].secret = user[u].secret \/ u \in exposed \/ Invalidating(u)
      BY <1>1, <2>1, <2>2 DEF ResetsInOrder, Alive
    <2> QED BY <2>1, <2>2, <2>3, <2>4, <2>5
  <1>4. ASSUME NEW u \in Users, user'[u].link # 0
        PROVE  reset'[user'[u].link].status \in {"used", "gone"}
    <2>1. CASE user'[u].link = user[u].link
      <3>1. user[u].link \in Links /\ Dead(user[u].link)
        BY <1>1, <1>4, <2>1, AccountTypes, Constants
           DEF AccountIInv, UsersTyped, UserRow, Links, ResetsInOrder
      <3> QED BY <2>1, <3>1 DEF Shrinks, Dead
    <2>2. CASE user'[u].link # user[u].link BY <1>4, <2>2
    <2> QED BY <2>1, <2>2
  <1>5. ASSUME NEW w \in Workers, At(w, "password")'
        PROVE  reset'[request'[w].row].status \in {"used", "gone"}
    <2>1. CASE At(w, "password") /\ request'[w].row = request[w].row
      <3>1. request[w].row \in Links /\ Dead(request[w].row)
        BY <1>1, <2>1 DEF AccountIInv, RequestInOrder, At, ResetsInOrder
      <3> QED BY <2>1, <3>1 DEF Shrinks, Dead
    <2> QED BY <1>5, <2>1
  <1> QED BY <1>2, <1>3, <1>4, <1>5 DEF ResetsInOrder, Dead, Alive

\* A new link has the present password, and is its user's only one.
LEMMA NewLinkKeeps ==
  ASSUME AccountIInv, NEW u \in Users, NEW r \in Links,
         OneOpen(reset)', reset[r].status = "none",
         IsOpen(reset'[r]), reset'[r].user = u, reset'[r].secret = user'[u].secret,
         \A s \in Links \ {r} :
            /\ IsOpen(reset'[s]) => /\ IsOpen(reset[s]) /\ reset'[s].user = reset[s].user
                                    /\ reset'[s].secret = reset[s].secret
            /\ reset[s].status \in {"used", "gone"} => reset'[s].status \in {"used", "gone"},
         \A v \in Users \ {u} : UserStays(v),
         user'[u].state = "alive", user'[u].link \in {user[u].link, 0},
         exposed' = exposed, \A v \in Users : Invalidating(v) => Invalidating(v)',
         \A w \in Workers : At(w, "password")' =>
            At(w, "password") /\ request'[w].row = request[w].row
  PROVE  ResetsInOrder'
  <1>1. ResetsInOrder /\ ResetsTyped BY AccountTypes DEF AccountIInv
  <1>2. \A s \in Links : Dead(s) => Dead(s)' BY DEF Dead
  <1>3. ASSUME NEW s \in Links \ {r}, IsOpen(reset'[s])
        PROVE  /\ user'[reset'[s].user].state # "free"
               /\ user'[reset'[s].user].state = "alive" =>
                     \/ reset'[s].secret = user'[reset'[s].user].secret
                     \/ reset'[s].user \in exposed'
                     \/ \E v \in Users : v = reset'[s].user /\ Invalidating(v)'
    <2>1. PICK v \in Users : v = reset[s].user /\ v = reset'[s].user
      BY <1>1, <1>3 DEF ResetsInOrder, OneOpen
    <2>2. v # u BY <1>3, <2>1 DEF OneOpen
    <2>3. IsOpen(reset[s]) /\ reset'[s].secret = reset[s].secret /\ UserStays(v)
      BY <1>3, <2>1, <2>2
    <2>4. user[v].state # "free"
          /\ (user[v].state = "alive" =>
                reset[s].secret = user[v].secret \/ v \in exposed \/ Invalidating(v))
      BY <1>1, <2>1, <2>3 DEF ResetsInOrder, Alive
    <2> QED BY <2>1, <2>3, <2>4 DEF UserStays
  <1>4. ASSUME NEW v \in Users, user'[v].link # 0
        PROVE  reset'[user'[v].link].status \in {"used", "gone"}
    <2>1. user'[v].link = user[v].link BY <1>4 DEF UserStays
    <2>2. user[v].link \in Links /\ Dead(user[v].link)
      BY <1>1, <1>4, <2>1, AccountTypes, Constants
         DEF AccountIInv, UsersTyped, UserRow, Links, ResetsInOrder
    <2> QED BY <2>1, <2>2, <1>2 DEF Dead
  <1>5. ASSUME NEW w \in Workers, At(w, "password")'
        PROVE  reset'[request'[w].row].status \in {"used", "gone"}
    <2>1. request[w].row \in Links /\ Dead(request[w].row)
      BY <1>1, <1>5 DEF AccountIInv, RequestInOrder, At, ResetsInOrder
    <2> QED BY <1>5, <2>1, <1>2 DEF Dead
  <1>6. \A s \in Links : IsOpen(reset'[s]) => user'[reset'[s].user].state # "free"
    BY <1>3
  <1>7. \A s \in Links : IsOpen(reset'[s]) /\ user'[reset'[s].user].state = "alive" =>
                     \/ reset'[s].secret = user'[reset'[s].user].secret
                     \/ reset'[s].user \in exposed'
                     \/ \E v \in Users : v = reset'[s].user /\ Invalidating(v)'
    BY <1>3
  <1> QED BY <1>4, <1>5, <1>6, <1>7 DEF ResetsInOrder, Dead, Alive

-------------------------------------------------------------------------------
(* The steps *)

\* What a step leaves alone stays as it should be.
LEMMA LeftAlone ==
  ASSUME AccountIInv
  PROVE  /\ UNCHANGED user => UsersTyped' /\ \A u \in Users : UserStays(u)
         /\ UNCHANGED pending => PendingsKept
         /\ UNCHANGED reset => ResetsTyped' /\ Shrinks(reset, reset')
         /\ UNCHANGED change => ChangesTyped' /\ OneOpen(change)'
         /\ UNCHANGED <<versions, agreement>> => AgreementTyped'
         /\ UNCHANGED request => RequestsTyped' /\ \A w \in Workers : RequestInOrder(w)'
         /\ UNCHANGED <<exposed, faults>> => FaultsTyped'
         /\ UNCHANGED exposed /\ Fault => FaultsTyped'
         /\ \A w \in Workers : RequestTurns(w) =>
               RequestsTyped' /\ \A v \in Workers : RequestInOrder(v)'
  <1>0. /\ UsersTyped /\ PendingsTyped /\ ResetsTyped /\ ChangesTyped /\ AgreementTyped
        /\ RequestsTyped /\ FaultsTyped /\ \A w \in Workers : RequestInOrder(w)
    BY AccountTypes DEF AccountIInv
  <1>1. UNCHANGED user => UsersTyped' /\ \A u \in Users : UserStays(u)
    BY <1>0 DEF UsersTyped, UserStays
  <1>2. UNCHANGED pending => PendingsKept BY <1>0 DEF PendingsKept, PendingsTyped, Spent
  <1>3. UNCHANGED reset => ResetsTyped' /\ Shrinks(reset, reset')
    BY <1>0 DEF ResetsTyped, Shrinks
  <1>4. UNCHANGED change => ChangesTyped' /\ OneOpen(change)'
    BY <1>0 DEF ChangesTyped, AccountIInv, OneOpen
  <1>5. UNCHANGED <<versions, agreement>> => AgreementTyped' BY <1>0 DEF AgreementTyped
  <1>6. UNCHANGED request => RequestsTyped' /\ \A w \in Workers : RequestInOrder(w)'
    BY <1>0 DEF RequestsTyped, RequestInOrder
  <1>7. UNCHANGED <<exposed, faults>> => FaultsTyped' BY <1>0 DEF FaultsTyped
  <1>8. UNCHANGED exposed /\ Fault => FaultsTyped' BY <1>0, Constants DEF FaultsTyped, Fault
  <1>9. ASSUME NEW w \in Workers, RequestTurns(w)
        PROVE  RequestsTyped' /\ \A v \in Workers : RequestInOrder(v)'
    <2>1. ASSUME NEW v \in Workers, v # w PROVE RequestInOrder(v)'
      BY <1>0, <1>9, <2>1 DEF RequestTurns, RequestInOrder
    <2> QED BY <1>9, <2>1 DEF RequestTurns
  <1> QED BY <1>1, <1>2, <1>3, <1>4, <1>5, <1>6, <1>7, <1>8, <1>9

\* Users that stay, begin or end have no new secret.
UserCalm(u) ==
    \/ UserStays(u)
    \/ user[u].state = "free" /\ user'[u].state = "alive" /\ user'[u].link = 0
    \/ user'[u].state = "deleted" /\ user'[u].link = 0

\* A request that does not set or end a password, and links that shrink.
LEMMA ResetsApart ==
  ASSUME AccountIInv, Shrinks(reset, reset'), \A u \in Users : UserCalm(u),
         UNCHANGED exposed,
         \A w \in Workers :
            /\ At(w, "invalidate") => request'[w] = request[w]
            /\ At(w, "password")' => request'[w] = request[w]
  PROVE  ResetsInOrder'
  <1>1. \A u \in Users : Invalidating(u) => Invalidating(u)' BY DEF Invalidating, At
  <1>2. \A w \in Workers : At(w, "password")' =>
            At(w, "password") /\ request'[w].row = request[w].row
    BY DEF At
  <1> QED BY <1>1, <1>2, ResetsStay DEF UserCalm, UserStays

\* The invariant after a step, part by part.
LEMMA Parts ==
  ASSUME UsersTyped', PendingsTyped', ResetsTyped', ChangesTyped', AgreementTyped',
         RequestsTyped', FaultsTyped', \A w \in Workers : RequestInOrder(w)',
         BirthsInOrder', ResetsInOrder', OneOpen(change)'
  PROVE  AccountIInv'
  BY DEF AccountIInv, AccountTypeOK, UsersTyped, PendingsTyped, PendingType, ResetsTyped,
         ChangesTyped, AgreementTyped, RequestsTyped, FaultsTyped

\* Requests that have read their row, and no more.
LEMMA BeginningSteps ==
  ASSUME AccountIInv, NEW w \in Workers,
         \/ \E e \in Emails, n \in Names : StartRegister(w, e, n)
         \/ \E p \in Pendings : StartVerify(w, p)
         \/ StartPublish(w)
         \/ \E u \in Users : StartReset(w, u) \/ StartConfirm(w, u)
  PROVE  AccountIInv'
  <1>1. AccountTypeOK /\ At(w, "idle")
    BY DEF AccountIInv, StartRegister, StartVerify, StartPublish, StartReset, StartConfirm
  <1>2. UNCHANGED <<user, pending, reset, change, versions, agreement, exposed, faults>>
    BY DEF StartRegister, StartVerify, StartPublish, StartReset, StartConfirm
  <1>3. RequestTurns(w) /\ request'[w].pc \in FirstSteps \ {"invalidate"} BY <1>1, Beginnings
  <1>4. /\ UsersTyped' /\ PendingsKept /\ ResetsTyped' /\ ChangesTyped' /\ AgreementTyped'
        /\ RequestsTyped' /\ FaultsTyped' /\ \A v \in Workers : RequestInOrder(v)'
        /\ OneOpen(change)' /\ Shrinks(reset, reset') /\ \A u \in Users : UserStays(u)
    BY <1>2, <1>3, LeftAlone
  <1>5. BirthsInOrder'
    BY <1>3, <1>4, BirthsStay DEF RequestTurns, FirstSteps, Claiming, UserStays
  <1>6. ResetsInOrder'
    BY <1>1, <1>2, <1>3, <1>4, ResetsApart DEF RequestTurns, FirstSteps, At, UserCalm
  <1> QED BY <1>4, <1>5, <1>6, Parts DEF PendingsKept

\* Registrations.
LEMMA RegistrationSteps ==
  ASSUME AccountIInv, NEW w \in Workers,
         \/ InsertPending(w) \/ MailVerify(w) \/ ClaimPending(w) \/ CreateUser(w)
         \/ RevertClaim(w) \/ RecordConsent(w)
  PROVE  AccountIInv'
  <1>1. AccountTypeOK /\ RequestInOrder(w) BY DEF AccountIInv
  <1>2. /\ UNCHANGED <<reset, change, versions, agreement, exposed>>
        /\ UNCHANGED faults \/ Fault
    BY DEF InsertPending, MailVerify, ClaimPending, CreateUser, RevertClaim, RecordConsent
  <1>3. /\ ResetsTyped' /\ ChangesTyped' /\ AgreementTyped' /\ FaultsTyped'
        /\ OneOpen(change)' /\ Shrinks(reset, reset')
    BY <1>2, LeftAlone
  <1>4. RequestTurns(w) /\ request'[w].pc \in {"idle", "mailVerify", "create", "consent", "revert"}
    <2>1. CASE InsertPending(w) BY <1>1, <2>1, InsertKeeps
    <2>2. CASE MailVerify(w) \/ ClaimPending(w) BY <1>1, <2>2, MailAndClaim
    <2>3. CASE CreateUser(w) BY <2>3, BirthKeeps
    <2>4. CASE RevertClaim(w) \/ RecordConsent(w)
      BY <1>1, <2>4, Endings DEF RevertClaim, RecordConsent
    <2> QED BY <2>1, <2>2, <2>3, <2>4
  <1>5. RequestsTyped' /\ \A v \in Workers : RequestInOrder(v)' BY <1>4, LeftAlone
  <1>6. At(w, "register") \/ At(w, "mailVerify") \/ At(w, "claim") \/ At(w, "create")
        \/ At(w, "revert") \/ At(w, "consent")
    BY DEF InsertPending, MailVerify, ClaimPending, CreateUser, RevertClaim, RecordConsent
  <1>7. UsersTyped' /\ \A u \in Users : UserCalm(u)
    <2>1. CASE CreateUser(w) BY <2>1, BirthKeeps DEF UserCalm
    <2>2. CASE RecordConsent(w) BY <1>1, <2>2, ProfileSteps DEF UserCalm
    <2>3. CASE InsertPending(w) \/ MailVerify(w) \/ ClaimPending(w) \/ RevertClaim(w)
      <3>1. UNCHANGED user BY <2>3 DEF InsertPending, MailVerify, ClaimPending, RevertClaim
      <3> QED BY <3>1, LeftAlone DEF UserCalm
    <2> QED BY <2>1, <2>2, <2>3
  <1>8. ResetsInOrder'
    BY <1>2, <1>3, <1>4, <1>6, <1>7, ResetsApart DEF RequestTurns, At
  <1>9. PendingsTyped' /\ BirthsInOrder'
    <2>1. CASE ClaimPending(w) BY <1>1, <2>1, MailAndClaim, ClaimKeeps DEF PendingsKept
    <2>2. CASE CreateUser(w)
      <3>1. UNCHANGED pending BY <2>2 DEF CreateUser
      <3> QED BY <2>2, <3>1, BirthKeeps, LeftAlone DEF PendingsKept
    <2>3. CASE RevertClaim(w) BY <2>3, RevertKeeps
    <2>4. CASE InsertPending(w) \/ MailVerify(w) \/ RecordConsent(w)
      <3>1. PendingsKept
        <4>1. CASE InsertPending(w) BY <1>1, <4>1, InsertKeeps
        <4>2. CASE MailVerify(w) BY <1>1, <4>2, MailAndClaim
        <4>3. CASE RecordConsent(w) BY <4>3, LeftAlone DEF RecordConsent
        <4> QED BY <2>4, <4>1, <4>2, <4>3
      <3>2. request'[w].pc \in {"idle", "mailVerify"}
        <4>1. CASE InsertPending(w) BY <1>1, <4>1, InsertKeeps
        <4>2. CASE MailVerify(w) BY <1>1, <4>2, Endings DEF MailVerify
        <4>3. CASE RecordConsent(w) BY <1>1, <4>3, Endings DEF RecordConsent
        <4> QED BY <2>4, <4>1, <4>2, <4>3
      <3>3. \A u \in Users : user'[u].born = user[u].born
        <4>1. CASE RecordConsent(w) BY <1>1, <4>1, ProfileSteps DEF UserStays
        <4>2. CASE user' = user BY <4>2
        <4> QED BY <2>4, <4>1, <4>2 DEF InsertPending, MailVerify
      <3> QED BY <1>4, <3>1, <3>2, <3>3, BirthsStay DEF RequestTurns, Claiming, PendingsKept
    <2> QED BY <2>1, <2>2, <2>3, <2>4
  <1> QED BY <1>3, <1>5, <1>7, <1>8, <1>9, Parts

\* The step of a request that does not touch registrations keeps the births in order.
LEMMA BirthsApart ==
  ASSUME AccountIInv, UNCHANGED pending, \A u \in Users : user'[u].born \in {user[u].born, 0},
         \A w \in Workers : Claiming(w)' => request'[w] = request[w]
  PROVE  PendingsTyped' /\ BirthsInOrder'
  <1>1. PendingsKept BY LeftAlone
  <1>2. \A w \in Workers : Claiming(w)' => Claiming(w) /\ request'[w].row = request[w].row
    BY DEF Claiming
  <1> QED BY <1>1, <1>2, BirthsStay DEF PendingsKept

\* Changes of the address.
LEMMA AddressSteps ==
  ASSUME AccountIInv, NEW w \in Workers,
         \/ \E u \in Users, e \in Emails : ChangeEmail(w, u, e)
         \/ MailChange(w) \/ ClaimChange(w) \/ SetEmail(w)
  PROVE  AccountIInv'
  <1>1. AccountTypeOK /\ RequestInOrder(w) /\ RequestsTyped /\ ChangesTyped /\ OneOpen(change)
    BY AccountTypes DEF AccountIInv
  <1>2. UNCHANGED <<pending, reset, versions, agreement, exposed, faults>>
    BY DEF ChangeEmail, MailChange, ClaimChange, SetEmail
  <1>3. /\ ResetsTyped' /\ AgreementTyped' /\ FaultsTyped' /\ Shrinks(reset, reset')
    BY <1>2, LeftAlone
  <1>4. UsersTyped' /\ \A u \in Users : UserStays(u)
    <2>1. CASE SetEmail(w) BY <1>1, <2>1, ProfileSteps
    <2>2. CASE user' = user BY <2>2, LeftAlone
    <2> QED BY <2>1, <2>2 DEF ChangeEmail, MailChange, ClaimChange
  <1>5. /\ RequestTurns(w) /\ request'[w].pc \in FirstSteps \cup {"idle", "email"}
        /\ request'[w].pc # "invalidate"
    <2>1. CASE \E u \in Users, e \in Emails : ChangeEmail(w, u, e) BY <1>1, <2>1, Beginnings
    <2>2. CASE MailChange(w) \/ SetEmail(w) \/ (ClaimChange(w) /\ Finish(w))
      BY <1>1, <2>2, Endings DEF MailChange, SetEmail
    <2>3. CASE ClaimChange(w) /\ GoTo(w, "email")
      BY <1>1, <2>3, Movings, RequestGoes DEF ClaimChange, RequestSteps
    <2> QED BY <2>1, <2>2, <2>3 DEF ClaimChange
  <1>6. RequestsTyped' /\ \A v \in Workers : RequestInOrder(v)' BY <1>5, LeftAlone
  <1>7. At(w, "idle") \/ At(w, "mailChange") \/ At(w, "claimChange") \/ At(w, "email")
    BY DEF ChangeEmail, MailChange, ClaimChange, SetEmail
  <1>8. ChangesTyped' /\ OneOpen(change)'
    <2>1. ASSUME NEW u \in Users, NEW e \in Emails, ChangeEmail(w, u, e)
          PROVE  ChangesTyped' /\ OneOpen(change)'
      <3>1. PICK r \in NextRow(change) :
               change' = [Closed(change, u) EXCEPT ![r] = NewLink(u, e)]
        BY <2>1 DEF ChangeEmail
      <3>2. change \in [Links -> LinkRow] BY <1>1 DEF ChangesTyped
      <3>3. change' \in [Links -> LinkRow] /\ OneOpen(change')
        BY <1>1, <3>1, <3>2, NewLinks
      <3> QED BY <3>3 DEF ChangesTyped, OneOpen
    <2>2. CASE UNCHANGED change BY <2>2, LeftAlone
    <2>3. ASSUME change' \in [Links -> LinkRow], Shrinks(change, change')
          PROVE  ChangesTyped' /\ OneOpen(change)'
      <3>1. OneOpen(change') BY <1>1, <2>3, ShrinkingStays
      <3> QED BY <2>3, <3>1 DEF ChangesTyped, OneOpen
    <2>4. ASSUME MailChange(w), change' = [change EXCEPT ![request[w].row] = GoneLink]
          PROVE  ChangesTyped' /\ OneOpen(change)'
      <3>1. request[w].row \in Links BY <1>1, <2>4 DEF MailChange, RequestInOrder, At
      <3> QED BY <1>1, <2>3, <2>4, <3>1, LosingShrinks DEF ChangesTyped
    <2>5. ASSUME ClaimChange(w), IsOpen(change[request[w].row]),
                 change' = [change EXCEPT ![request[w].row].status = "used"]
          PROVE  ChangesTyped' /\ OneOpen(change)'
      <3>1. request[w].row \in Links BY <1>1, <2>5 DEF ClaimChange, RequestInOrder, At
      <3> QED BY <1>1, <2>3, <2>5, <3>1, UsingShrinks DEF ChangesTyped
    <2> QED BY <2>1, <2>2, <2>4, <2>5 DEF MailChange, ClaimChange, SetEmail
  <1>9. PendingsTyped' /\ BirthsInOrder'
    BY <1>2, <1>4, <1>5, BirthsApart DEF RequestTurns, Claiming, UserStays, FirstSteps
  <1>10. ResetsInOrder'
    BY <1>2, <1>3, <1>4, <1>5, <1>7, ResetsApart DEF RequestTurns, At, UserCalm, FirstSteps
  <1> QED BY <1>3, <1>4, <1>6, <1>8, <1>9, <1>10, Parts

\* A password forgotten, and the link that sets another.
LEMMA ForgotKeeps ==
  ASSUME AccountIInv, NEW w \in Workers, NEW u \in Users, ForgotPassword(w, u)
  PROVE  AccountIInv'
  <1>1. AccountTypeOK /\ At(w, "idle") /\ ResetsTyped /\ ResetsInOrder /\ OneOpen(reset)
    BY AccountTypes DEF AccountIInv, ForgotPassword, ResetsInOrder
  <1>2. UNCHANGED <<user, pending, change, versions, agreement, exposed, faults>>
    BY DEF ForgotPassword
  <1>3. RequestTurns(w) /\ request'[w].pc \in FirstSteps \ {"invalidate"} BY <1>1, Beginnings
  <1>4. /\ UsersTyped' /\ ChangesTyped' /\ AgreementTyped' /\ RequestsTyped' /\ FaultsTyped'
        /\ OneOpen(change)' /\ \A v \in Users : UserStays(v)
        /\ \A v \in Workers : RequestInOrder(v)'
    BY <1>2, <1>3, LeftAlone
  <1>5. PICK r \in NextRow(reset) : reset' = [Closed(reset, u) EXCEPT ![r] = NewLink(u, "none")]
    BY DEF ForgotPassword
  <1>6. /\ reset' \in [Links -> LinkRow] /\ OneOpen(reset')
        /\ r \in Links /\ reset[r].status = "none"
        /\ IsOpen(reset'[r]) /\ reset'[r].user = u /\ reset'[r].secret = user[u].secret
        /\ \A s \in Links \ {r} : reset'[s] = Closed(reset, u)[s]
    <2> DEFINE e == "none"
    <2>1. reset \in [Links -> LinkRow] /\ e \in Emails \cup {"none"} BY <1>1 DEF ResetsTyped
    <2>2. reset' = [Closed(reset, u) EXCEPT ![r] = NewLink(u, e)] BY <1>5
    <2> HIDE DEF e
    <2> DEFINE new == [Closed(reset, u) EXCEPT ![r] = NewLink(u, e)]
    <2>3. /\ new \in [Links -> LinkRow] /\ OneOpen(new)
          /\ r \in Links /\ reset[r].status = "none"
          /\ IsOpen(new[r]) /\ new[r].user = u /\ new[r].secret = user[u].secret
          /\ \A s \in Links \ {r} : new[s] = Closed(reset, u)[s]
      BY <1>1, <2>1, NewLinks, Zenon
    <2>4. reset' = new BY <2>2
    <2> HIDE DEF new
    <2> QED BY <2>3, <2>4
  <1>7. Shrinks(reset, Closed(reset, u)) BY <1>1, ClosingShrinks DEF ResetsTyped
  <1>8. ASSUME NEW v \in Users, Invalidating(v) PROVE Invalidating(v)'
    <2>1. PICK x \in Workers : At(x, "invalidate") /\ request[x].user = v
      BY <1>8 DEF Invalidating
    <2>2. x # w BY <1>1, <2>1 DEF At
    <2> QED BY <1>3, <2>1, <2>2 DEF RequestTurns, Invalidating, At
  <1>9. \A v \in Workers : At(v, "password")' =>
            At(v, "password") /\ request'[v].row = request[v].row
    BY <1>3 DEF RequestTurns, At, FirstSteps
  <1>10. user[u].state = "alive" BY DEF ForgotPassword, Alive
  <1>11. ResetsInOrder'
    <2>1. \A s \in Links \ {r} :
            /\ IsOpen(reset'[s]) => /\ IsOpen(reset[s]) /\ reset'[s].user = reset[s].user
                                    /\ reset'[s].secret = reset[s].secret
            /\ reset[s].status \in {"used", "gone"} => reset'[s].status \in {"used", "gone"}
      BY <1>6, <1>7 DEF Shrinks
    <2>2. OneOpen(reset)' BY <1>6 DEF OneOpen
    <2> QED BY <1>2, <1>4, <1>6, <1>8, <1>9, <1>10, <2>1, <2>2, NewLinkKeeps
  <1>12. PendingsTyped' /\ BirthsInOrder'
    BY <1>2, <1>3, BirthsApart DEF RequestTurns, Claiming, FirstSteps
  <1>13. ResetsTyped' BY <1>6 DEF ResetsTyped
  <1> QED BY <1>4, <1>11, <1>12, <1>13, Parts

\* A reset, from its mail to the password, and the second commit of an administrator.
LEMMA PasswordSteps ==
  ASSUME AccountIInv, NEW w \in Workers,
         MailReset(w) \/ ClaimReset(w) \/ SetPassword(w) \/ InvalidateLinks(w)
  PROVE  AccountIInv'
  <1>1. AccountTypeOK /\ RequestInOrder(w) /\ RequestsTyped /\ ResetsTyped /\ ResetsInOrder
    BY AccountTypes DEF AccountIInv
  <1>2. UNCHANGED <<pending, change, versions, agreement, exposed, faults>>
    BY DEF MailReset, ClaimReset, SetPassword, InvalidateLinks
  <1>3. ChangesTyped' /\ AgreementTyped' /\ FaultsTyped' /\ OneOpen(change)'
    BY <1>2, LeftAlone
  <1>4. /\ RequestTurns(w)
        /\ \/ request'[w].pc = "idle"
           \/ /\ ClaimReset(w) /\ IsOpen(reset[request[w].row]) /\ request'[w].pc = "password"
              /\ request'[w].row = request[w].row
              /\ reset' = [reset EXCEPT ![request[w].row].status = "used"]
    <2>1. CASE MailReset(w) \/ SetPassword(w) \/ InvalidateLinks(w) \/ (ClaimReset(w) /\ Finish(w))
      BY <1>1, <2>1, Endings DEF MailReset, SetPassword, InvalidateLinks
    <2>2. CASE /\ ClaimReset(w) /\ GoTo(w, "password") /\ IsOpen(reset[request[w].row])
               /\ reset' = [reset EXCEPT ![request[w].row].status = "used"]
      BY <1>1, <2>2, Movings, RequestGoes DEF ClaimReset, RequestSteps
    <2> QED BY <2>1, <2>2 DEF ClaimReset
  <1>5. RequestsTyped' /\ \A v \in Workers : RequestInOrder(v)' BY <1>4, LeftAlone
  <1>6. /\ UsersTyped'
        /\ \A u \in Users :
              /\ user'[u].state = user[u].state /\ user'[u].born = user[u].born
              /\ user'[u].secret = user[u].secret
              /\ \/ user'[u].link = user[u].link
                 \/ At(w, "password") /\ user'[u].link = request[w].row
    <2>1. CASE SetPassword(w) BY <1>1, <2>1, LinkedSecrets DEF SetPassword
    <2>2. CASE user' = user BY <2>2, LeftAlone
    <2> QED BY <2>1, <2>2 DEF MailReset, ClaimReset, InvalidateLinks
  <1>7. /\ ResetsTyped' /\ Shrinks(reset, reset')
        /\ request'[w].pc = "password" => reset'[request[w].row].status = "used"
        /\ At(w, "invalidate") => ~HasOpen(reset', request[w].user)
    <2>1. CASE MailReset(w)
      <3>1. request[w].row \in Links BY <1>1, <2>1 DEF MailReset, RequestInOrder, At
      <3>2. CASE reset' = reset BY <1>4, <2>1, <3>2, LeftAlone DEF MailReset, At, ClaimReset
      <3>3. CASE reset' = [reset EXCEPT ![request[w].row] = GoneLink]
        BY <1>1, <1>4, <2>1, <3>1, <3>3, LosingShrinks DEF MailReset, At, ClaimReset, ResetsTyped
      <3> QED BY <2>1, <3>2, <3>3 DEF MailReset
    <2>2. CASE ClaimReset(w)
      <3>1. request[w].row \in Links BY <1>1, <2>2 DEF ClaimReset, RequestInOrder, At
      <3>2. CASE ~IsOpen(reset[request[w].row])
        <4>1. UNCHANGED reset /\ request'[w].pc = "idle" /\ ~At(w, "invalidate")
          BY <1>4, <2>2, <3>2 DEF ClaimReset, At
        <4> QED BY <4>1, LeftAlone
      <3>3. CASE IsOpen(reset[request[w].row])
        <4> DEFINE r == request[w].row
        <4>1. reset' = [reset EXCEPT ![r].status = "used"] /\ ~At(w, "invalidate")
          BY <2>2, <3>3 DEF ClaimReset, At
        <4>2. r \in Links /\ IsOpen(reset[r]) /\ reset \in [Links -> LinkRow]
          BY <1>1, <3>1, <3>3 DEF ResetsTyped
        <4> HIDE DEF r
        <4>3. /\ reset' \in [Links -> LinkRow] /\ Shrinks(reset, reset')
              /\ reset'[r].status = "used"
          BY <4>1, <4>2, UsingShrinks
        <4> QED BY <4>1, <4>3 DEF ResetsTyped, r
      <3> QED BY <3>2, <3>3
    <2>3. CASE SetPassword(w) BY <1>4, <2>3, LeftAlone DEF SetPassword, At, ClaimReset
    <2>4. CASE InvalidateLinks(w)
      <3>1. PICK u \in Users : u = request[w].user /\ reset' = Closed(reset, u)
        BY <1>1, <2>4 DEF InvalidateLinks, RequestInOrder, At
      <3>2. /\ reset' \in [Links -> LinkRow] /\ Shrinks(reset, reset') /\ ~HasOpen(reset', u)
        BY <1>1, <3>1, ClosingShrinks DEF ResetsTyped
      <3>3. request'[w].pc = "idle" BY <1>4, <2>4 DEF InvalidateLinks, ClaimReset, At
      <3> QED BY <3>1, <3>2, <3>3 DEF ResetsTyped
    <2> QED BY <2>1, <2>2, <2>3, <2>4
  <1>8. \A u \in Users : Invalidating(u) => Invalidating(u)' \/ ~HasOpen(reset', u)
    BY <1>4, <1>7 DEF Invalidating, RequestTurns, At
  <1>9. ASSUME NEW u \in Users, user'[u].link # user[u].link
        PROVE  user'[u].link \in Links /\ reset'[user'[u].link].status \in {"used", "gone"}
    <2>1. user'[u].link = request[w].row /\ At(w, "password") BY <1>6, <1>9
    <2>2. request[w].row \in Links /\ Dead(request[w].row)
      BY <1>1, <2>1 DEF RequestInOrder, At, ResetsInOrder
    <2> QED BY <1>7, <2>1, <2>2 DEF Shrinks, Dead
  <1>10. ASSUME NEW v \in Workers, At(v, "password")'
         PROVE  \/ At(v, "password") /\ request'[v].row = request[v].row
                \/ request'[v].row \in Links /\ reset'[request'[v].row].status \in {"used", "gone"}
    <2>1. CASE v # w BY <1>4, <1>10, <2>1 DEF RequestTurns, At
    <2>2. CASE v = w
      <3>1. ClaimReset(w) /\ request'[w].row = request[w].row BY <1>4, <1>10, <2>2 DEF At
      <3>2. request[w].row \in Links BY <1>1, <3>1 DEF ClaimReset, RequestInOrder, At
      <3> QED BY <1>7, <1>10, <2>2, <3>1, <3>2 DEF At
    <2> QED BY <2>1, <2>2
  <1>11. ResetsInOrder' BY <1>2, <1>6, <1>7, <1>8, <1>9, <1>10, ResetsStay
  <1>12. PendingsTyped' /\ BirthsInOrder'
    BY <1>2, <1>4, <1>6, BirthsApart DEF RequestTurns, Claiming
  <1> QED BY <1>3, <1>5, <1>6, <1>7, <1>11, <1>12, Parts

\* A password changed by its owner or by an administrator.
LEMMA SecretSteps ==
  ASSUME AccountIInv, NEW u \in Users,
         \/ ChangePassword(u)
         \/ \E w \in Workers, e \in Emails : AdminUpdate(w, u, e) /\ e = user[u].email
  PROVE  AccountIInv'
  <1>1. AccountTypeOK /\ RequestsTyped /\ ResetsTyped /\ ResetsInOrder
    BY AccountTypes DEF AccountIInv
  <1>2. UNCHANGED <<pending, change, versions, agreement, exposed, faults>>
    BY DEF ChangePassword, AdminUpdate
  <1>3. ChangesTyped' /\ AgreementTyped' /\ FaultsTyped' /\ OneOpen(change)'
    BY <1>2, LeftAlone
  <1>4. user[u].secret < MaxLinks /\ user' = [user EXCEPT ![u].secret = @ + 1, ![u].link = 0]
    BY DEF ChangePassword, AdminUpdate
  <1>5. /\ UsersTyped' /\ \A v \in Users \ {u} : UserStays(v)
        /\ user'[u].state = user[u].state /\ user'[u].born = user[u].born /\ user'[u].link = 0
    BY <1>1, <1>4, NewSecrets
  <1>6. /\ RequestsTyped' /\ \A v \in Workers : RequestInOrder(v)'
        /\ ResetsTyped' /\ Shrinks(reset, reset')
        /\ ~HasOpen(reset', u) \/ Invalidating(u)'
        /\ \A v \in Workers : \/ request'[v] = request[v]
                              \/ At(v, "idle") /\ request'[v].pc = "invalidate"
    <2>1. CASE ChangePassword(u)
      <3>1. UNCHANGED request /\ reset' = Closed(reset, u) BY <2>1 DEF ChangePassword
      <3>2. reset' \in [Links -> LinkRow] /\ Shrinks(reset, reset') /\ ~HasOpen(reset', u)
        BY <1>1, <3>1, ClosingShrinks DEF ResetsTyped
      <3> QED BY <3>1, <3>2, LeftAlone DEF ResetsTyped
    <2>2. ASSUME NEW w \in Workers, NEW e \in Emails, AdminUpdate(w, u, e), e = user[u].email
          PROVE  /\ RequestsTyped' /\ \A v \in Workers : RequestInOrder(v)'
                 /\ ResetsTyped' /\ Shrinks(reset, reset')
                 /\ Invalidating(u)'
                 /\ \A v \in Workers : \/ request'[v] = request[v]
                                       \/ At(v, "idle") /\ request'[v].pc = "invalidate"
      <3>1. UNCHANGED reset /\ At(w, "idle") BY <2>2 DEF AdminUpdate
      <3>2. request' = [request EXCEPT ![w] = [NoRequest EXCEPT !.pc = "invalidate", !.user = u]]
        BY <2>2 DEF AdminUpdate
      <3>3. RequestTurns(w) /\ request'[w].pc = "invalidate" /\ request'[w].user = u
        BY <1>1, <3>2, AdminBegins
      <3>4. Invalidating(u)' BY <3>3 DEF Invalidating, At
      <3> QED BY <3>1, <3>3, <3>4, LeftAlone DEF RequestTurns
    <2> QED BY <2>1, <2>2
  <1>7. ASSUME NEW v \in Users, Invalidating(v) PROVE Invalidating(v)'
    <2>1. PICK x \in Workers : At(x, "invalidate") /\ request[x].user = v
      BY <1>7 DEF Invalidating
    <2>2. request'[x] = request[x] BY <1>6, <2>1 DEF At
    <2> QED BY <2>1, <2>2 DEF Invalidating, At
  <1>8. \A w \in Workers : At(w, "password")' =>
            At(w, "password") /\ request'[w].row = request[w].row
    BY <1>6 DEF At
  <1>9. ResetsInOrder'
    <2>1. ASSUME NEW v \in Users
          PROVE  /\ user[v].state # "free" => user'[v].state # "free"
                 /\ user'[v].link \in {user[v].link, 0}
                 /\ user'[v].state = "alive" /\ HasOpen(reset', v) =>
                       \/ user[v].state = "alive" /\ user'[v].secret = user[v].secret
                       \/ Invalidating(v)'
                 /\ v \in exposed => v \in exposed'
                 /\ Invalidating(v) => Invalidating(v)'
      <3>1. CASE v = u BY <3>1, <1>2, <1>5, <1>6, <1>7
      <3>2. CASE v # u BY <3>2, <1>2, <1>5, <1>7 DEF UserStays
      <3> QED BY <3>1, <3>2
    <2> QED BY <1>6, <1>8, <2>1, ResetsStay
  <1>10. PendingsTyped' /\ BirthsInOrder'
    BY <1>2, <1>5, <1>6, BirthsApart DEF UserStays, Claiming
  <1> QED BY <1>3, <1>5, <1>6, <1>9, <1>10, Parts

\* What else administrators do to users.
LEMMA AdminSteps ==
  ASSUME AccountIInv,
         \/ \E u \in Users : AdminDelete(u)
         \/ \E w \in Workers, u \in Users, e \in Emails : AdminUpdate(w, u, e) /\ e # user[u].email
  PROVE  AccountIInv'
  <1>1. UNCHANGED <<pending, reset, change, versions, agreement, request, exposed, faults>>
    BY DEF AdminDelete, AdminUpdate
  <1>2. /\ ResetsTyped' /\ ChangesTyped' /\ AgreementTyped' /\ RequestsTyped' /\ FaultsTyped'
        /\ OneOpen(change)' /\ Shrinks(reset, reset') /\ \A w \in Workers : RequestInOrder(w)'
    BY <1>1, LeftAlone
  <1>3. /\ UsersTyped' /\ \A u \in Users : UserCalm(u) /\ user'[u].born = user[u].born
    <2>0. AccountTypeOK /\ \A w \in Workers : RequestInOrder(w) BY DEF AccountIInv
    <2>1. ASSUME NEW u \in Users, AdminDelete(u)
          PROVE  UsersTyped' /\ \A v \in Users : UserCalm(v) /\ user'[v].born = user[v].born
      BY <2>0, <2>1, DeletedUsers DEF UserCalm, UserStays
    <2>2. ASSUME NEW w \in Workers, NEW u \in Users, NEW e \in Emails,
                 AdminUpdate(w, u, e), e # user[u].email
          PROVE  UsersTyped' /\ \A v \in Users : UserCalm(v) /\ user'[v].born = user[v].born
      <3>1. UsersTyped' /\ \A v \in Users : UserStays(v) BY <2>0, <2>2, ProfileSteps
      <3> QED BY <3>1 DEF UserCalm, UserStays
    <2> QED BY <2>1, <2>2
  <1>4. ResetsInOrder' BY <1>1, <1>2, <1>3, ResetsApart
  <1>5. PendingsTyped' /\ BirthsInOrder' BY <1>1, <1>3, BirthsApart
  <1> QED BY <1>2, <1>3, <1>4, <1>5, Parts

\* A user made by an administrator, with or without a first link.
LEMMA CreateSteps ==
  ASSUME AccountIInv, NEW e \in Emails, NEW n \in Names, AdminCreate(e, n)
  PROVE  AccountIInv'
  <1>1. AccountTypeOK /\ ResetsTyped /\ ResetsInOrder /\ OneOpen(reset)
    BY AccountTypes DEF AccountIInv, ResetsInOrder
  <1>2. UNCHANGED <<pending, change, versions, agreement, request, exposed, faults>>
    BY DEF AdminCreate
  <1>3. /\ ChangesTyped' /\ AgreementTyped' /\ RequestsTyped' /\ FaultsTyped'
        /\ OneOpen(change)' /\ \A w \in Workers : RequestInOrder(w)'
    BY <1>2, LeftAlone
  <1>4. PICK u \in Users :
           /\ user[u].state = "free"
           /\ user' = [user EXCEPT ![u] = [NoUser EXCEPT !.state = "alive", !.email = e, !.name = n]]
           /\ \/ UNCHANGED reset
              \/ \E r \in NextRow(reset) : reset' = [reset EXCEPT ![r] =
                    [status |-> "open", age |-> "new", user |-> u, email |-> "none", secret |-> 0]]
    BY DEF AdminCreate
  <1>5. /\ UsersTyped' /\ \A v \in Users \ {u} : UserStays(v)
        /\ user'[u].state = "alive" /\ user'[u].born = 0 /\ user'[u].secret = 0
        /\ user'[u].link = 0
    <2> DEFINE row == [NoUser EXCEPT !.state = "alive", !.email = e, !.name = n]
    <2>1. NoUser.born = 0 BY DEF NoUser
    <2>2. /\ row \in UserRow /\ row.state = "alive" /\ row.born = 0
          /\ row.secret = 0 /\ row.link = 0
      <3>1. /\ row \in UserRow /\ row.state = "alive" /\ row.born = NoUser.born
            /\ row.secret = NoUser.secret /\ row.link = NoUser.link
        BY Constants DEF UserRow
      <3> QED BY <3>1, <2>1, Constants
    <2>3. user' = [user EXCEPT ![u] = row] BY <1>4
    <2> HIDE DEF row
    <2> QED BY <1>1, <2>2, <2>3, NewUsers
  <1>6. \A v \in Users : UserCalm(v) BY <1>4, <1>5 DEF UserCalm
  <1>7. PendingsTyped' /\ BirthsInOrder' BY <1>2, <1>5, BirthsApart DEF UserStays
  <1>8. ResetsTyped' /\ ResetsInOrder'
    <2>1. CASE UNCHANGED reset
      <3>1. ResetsTyped' /\ Shrinks(reset, reset') BY <2>1, LeftAlone
      <3> QED BY <1>2, <1>6, <3>1, ResetsApart
    <2>2. ASSUME NEW r \in NextRow(reset), reset' = [reset EXCEPT ![r] =
                    [status |-> "open", age |-> "new", user |-> u, email |-> "none", secret |-> 0]]
          PROVE  ResetsTyped' /\ ResetsInOrder'
      <3> DEFINE row == [status |-> "open", age |-> "new", user |-> u, email |-> "none", secret |-> 0]
      <3>1. r \in Links /\ reset[r].status = "none" BY <1>1 DEF NextRow, ResetsTyped
      <3>2. row \in LinkRow /\ row.status = "open" /\ row.user = u /\ row.secret = 0
        BY Constants DEF LinkRow, Ages
      <3>3. reset' = [reset EXCEPT ![r] = row] BY <2>2
      <3> HIDE DEF row
      <3>4. ResetsTyped' /\ reset'[r] = row /\ \A s \in Links \ {r} : reset'[s] = reset[s]
        BY <1>1, <3>1, <3>2, <3>3 DEF ResetsTyped
      <3>5. \A s \in Links : IsOpen(reset[s]) => reset[s].user # u
        BY <1>1, <1>4 DEF ResetsInOrder
      <3>6. OneOpen(reset)'
        <4>1. \A s \in Links : IsOpen(reset'[s]) => reset'[s].user \in Users
          BY <1>1, <3>2, <3>4 DEF OneOpen
        <4>2. \A s, t \in Links :
                IsOpen(reset'[s]) /\ IsOpen(reset'[t]) /\ reset'[s].user = reset'[t].user => s = t
          BY <1>1, <3>2, <3>4, <3>5 DEF OneOpen
        <4> QED BY <4>1, <4>2 DEF OneOpen
      <3>7. IsOpen(reset'[r]) /\ reset'[r].user = u /\ reset'[r].secret = user'[u].secret
        BY <1>5, <3>2, <3>4 DEF IsOpen
      <3>8. \A v \in Users : Invalidating(v) => Invalidating(v)' BY <1>2 DEF Invalidating, At
      <3>9. \A w \in Workers : At(w, "password")' =>
               At(w, "password") /\ request'[w].row = request[w].row
        BY <1>2 DEF At
      <3> QED BY <1>2, <1>5, <3>1, <3>4, <3>6, <3>7, <3>8, <3>9, NewLinkKeeps
    <2> QED BY <1>4, <2>1, <2>2
  <1> QED BY <1>3, <1>5, <1>7, <1>8, Parts

\* Agreements: nothing else moves.
LEMMA AgreementSteps ==
  ASSUME AccountIInv, ToggleRequired \/ \E w \in Workers : Publish(w)
  PROVE  AccountIInv'
  <1>1. AccountTypeOK /\ AgreementTyped BY AccountTypes DEF AccountIInv
  <1>2. UNCHANGED <<user, pending, reset, change, exposed, faults>> BY DEF ToggleRequired, Publish
  <1>3. /\ UsersTyped' /\ ResetsTyped' /\ ChangesTyped' /\ FaultsTyped' /\ OneOpen(change)'
        /\ Shrinks(reset, reset') /\ \A u \in Users : UserStays(u)
    BY <1>2, LeftAlone
  <1>4. /\ RequestsTyped' /\ \A v \in Workers : RequestInOrder(v)'
        /\ \A v \in Workers : \/ request'[v] = request[v]
                              \/ At(v, "publish") /\ request'[v].pc = "idle"
    <2>1. CASE ToggleRequired BY <2>1, LeftAlone DEF ToggleRequired
    <2>2. ASSUME NEW w \in Workers, Publish(w)
          PROVE  /\ RequestsTyped' /\ \A v \in Workers : RequestInOrder(v)'
                 /\ \A v \in Workers : \/ request'[v] = request[v]
                                       \/ At(v, "publish") /\ request'[v].pc = "idle"
      <3>1. RequestTurns(w) /\ request'[w].pc = "idle" BY <1>1, <2>2, Endings DEF Publish
      <3> QED BY <2>2, <3>1, LeftAlone DEF RequestTurns, Publish
    <2> QED BY <2>1, <2>2
  <1>5. AgreementTyped'
    <2>1. CASE ToggleRequired
      <3> DEFINE required == ~agreement.required
      <3>1. required \in BOOLEAN OBVIOUS
      <3>2. agreement' = [agreement EXCEPT !.required = required] /\ versions' = versions
        BY <2>1 DEF ToggleRequired
      <3> HIDE DEF required
      <3> QED BY <1>1, <3>1, <3>2 DEF AgreementTyped
    <2>2. ASSUME NEW w \in Workers, Publish(w) PROVE AgreementTyped'
      <3> DEFINE v == request[w].row
      <3>1. v \in 1..MaxVersions BY <2>2 DEF Publish, At, AccountIInv, RequestInOrder
      <3>2. \/ UNCHANGED <<versions, agreement>>
            \/ versions' = versions \cup {v} /\ agreement' = [agreement EXCEPT !.current = v]
        BY <2>2 DEF Publish
      <3> HIDE DEF v
      <3>3. CASE UNCHANGED <<versions, agreement>> BY <3>3, LeftAlone
      <3>4. CASE versions' = versions \cup {v} /\ agreement' = [agreement EXCEPT !.current = v]
        BY <1>1, <3>1, <3>4 DEF AgreementTyped
      <3> QED BY <3>2, <3>3, <3>4
    <2> QED BY <2>1, <2>2
  <1>6. ResetsInOrder' BY <1>2, <1>3, <1>4, ResetsApart DEF UserCalm, At
  <1>7. PendingsTyped' /\ BirthsInOrder' BY <1>2, <1>4, BirthsApart DEF Claiming
  <1> QED BY <1>3, <1>4, <1>5, <1>6, <1>7, Parts

\* Rows grow old, and the job deletes old rows.
LEMMA TimeSteps ==
  ASSUME AccountIInv, AgeRow \/ RunTokenCleanup
  PROVE  AccountIInv'
  <1>1. AccountTypeOK /\ PendingsTyped /\ ResetsTyped /\ ChangesTyped /\ OneOpen(change)
    BY AccountTypes DEF AccountIInv
  <1>2. UNCHANGED <<user, versions, agreement, request, exposed, faults>>
    BY DEF AgeRow, RunTokenCleanup
  <1>3. /\ UsersTyped' /\ AgreementTyped' /\ RequestsTyped' /\ FaultsTyped'
        /\ \A w \in Workers : RequestInOrder(w)'
    BY <1>2, LeftAlone
  <1>4. PendingsKept
    <2>1. UNCHANGED pending \/ pending' \in Aged(pending) \cup Cleaned(pending, GonePending)
      BY DEF AgeRow, RunTokenCleanup
    <2> QED BY <1>1, <2>1, OldPendings, LeftAlone DEF PendingsKept, PendingsTyped, Spent
  <1>5. ResetsTyped' /\ Shrinks(reset, reset')
    <2>1. UNCHANGED reset \/ reset' \in Aged(reset) \cup Cleaned(reset, GoneLink)
      BY DEF AgeRow, RunTokenCleanup
    <2> QED BY <1>1, <2>1, AgingShrinks, LeftAlone DEF ResetsTyped
  <1>6. ChangesTyped' /\ OneOpen(change)'
    <2>1. UNCHANGED change \/ change' \in Aged(change) \cup Cleaned(change, GoneLink)
      BY DEF AgeRow, RunTokenCleanup
    <2>2. CASE UNCHANGED change BY <2>2, LeftAlone
    <2>3. CASE change' \in Aged(change) \cup Cleaned(change, GoneLink)
      <3>1. change' \in [Links -> LinkRow] /\ Shrinks(change, change')
        BY <1>1, <2>3, AgingShrinks DEF ChangesTyped
      <3>2. OneOpen(change') BY <1>1, <3>1, ShrinkingStays
      <3> QED BY <3>1, <3>2 DEF ChangesTyped, OneOpen
    <2> QED BY <2>1, <2>2, <2>3
  <1>7. BirthsInOrder' BY <1>2, <1>4, BirthsStay DEF Claiming
  <1>8. ResetsInOrder' BY <1>2, <1>5, ResetsApart DEF UserCalm, UserStays, At
  <1> QED BY <1>3, <1>4, <1>5, <1>6, <1>7, <1>8, Parts DEF PendingsKept

\* After a restart nobody remembers a request; the users whose links were still to be
\* ended are exposed.
LEMMA RestartKeeps ==
  ASSUME AccountIInv, Restart
  PROVE  AccountIInv'
  <1>1. UNCHANGED <<user, pending, reset, change, versions, agreement>> BY DEF Restart
  <1>2. /\ UsersTyped' /\ ResetsTyped' /\ ChangesTyped' /\ AgreementTyped' /\ OneOpen(change)'
        /\ Shrinks(reset, reset')
    BY <1>1, LeftAlone
  <1>3. \A w \in Workers : request'[w] = NoRequest BY DEF Restart
  <1>4. NoRequest.pc = "idle" BY DEF NoRequest
  <1>5. RequestsTyped' /\ \A w \in Workers : RequestInOrder(w)'
    BY <1>3, <1>4, Constants DEF Restart, RequestsTyped, RequestInOrder
  <1>6. exposed' = exposed \cup {request[w].user : w \in {x \in Workers : At(x, "invalidate")}}
    BY DEF Restart
  <1>7. FaultsTyped'
    <2>1. FaultsTyped BY AccountTypes DEF AccountIInv
    <2>2. exposed' \subseteq Users
      BY <1>6, <2>1 DEF FaultsTyped, AccountIInv, RequestInOrder, At
    <2> QED BY <2>1, <2>2, Constants DEF Restart, Fault, FaultsTyped
  <1>8. \A u \in Users : (u \in exposed => u \in exposed') /\ (Invalidating(u) => u \in exposed')
    BY <1>6 DEF Invalidating
  <1>9. \A w \in Workers : ~At(w, "password")' BY <1>3, <1>4 DEF At
  <1>10. ResetsInOrder' BY <1>1, <1>2, <1>8, <1>9, ResetsStay
  <1>11. PendingsTyped' /\ BirthsInOrder' BY <1>1, <1>3, <1>4, BirthsApart DEF Claiming
  <1> QED BY <1>2, <1>5, <1>7, <1>10, <1>11, Parts

\* A step that changes nothing.
LEMMA Stutters ==
  ASSUME AccountIInv, UNCHANGED accountVars
  PROVE  AccountIInv'
  <1>1. UNCHANGED <<user, pending, reset, change, versions, agreement, request, exposed, faults>>
    BY DEF accountVars
  <1>2. /\ UsersTyped' /\ ResetsTyped' /\ ChangesTyped' /\ AgreementTyped' /\ RequestsTyped'
        /\ FaultsTyped' /\ OneOpen(change)' /\ Shrinks(reset, reset')
        /\ \A u \in Users : UserStays(u) /\ \A w \in Workers : RequestInOrder(w)'
    BY <1>1, LeftAlone
  <1>3. ResetsInOrder' BY <1>1, <1>2, ResetsApart DEF UserCalm
  <1>4. PendingsTyped' /\ BirthsInOrder' BY <1>1, BirthsApart
  <1>5. \A w \in Workers : RequestInOrder(w)' BY <1>1, LeftAlone
  <1> QED BY <1>2, <1>3, <1>4, <1>5, Parts

-------------------------------------------------------------------------------
(* The theorems *)

\* At first there are no users, links or requests.
LEMMA AccountsAtFirst == AccountInit => AccountIInv
  <1> SUFFICES ASSUME AccountInit PROVE AccountIInv
    OBVIOUS
  <1>1. /\ user = [u \in Users |-> NoUser]
        /\ pending = [p \in Pendings |-> [status |-> "none"]]
        /\ reset = [r \in Links |-> NoLink] /\ change = [r \in Links |-> NoLink]
        /\ versions = {} /\ agreement = [current |-> 0, required |-> TRUE]
        /\ request = [w \in Workers |-> NoRequest]
        /\ exposed = {} /\ faults = 0
    BY DEF AccountInit
  <1>2. UsersTyped /\ ResetsTyped /\ ChangesTyped /\ RequestsTyped /\ FaultsTyped
    BY <1>1, Constants DEF UsersTyped, ResetsTyped, ChangesTyped, RequestsTyped, FaultsTyped
  <1>3. PendingsTyped
    <2> DEFINE none == [status |-> "none"]
    <2>1. none \in PendingType BY DEF PendingType
    <2>2. pending = [p \in Pendings |-> none] BY <1>1
    <2> HIDE DEF none
    <2> QED BY <2>1, <2>2 DEF PendingsTyped
  <1>4. AgreementTyped BY <1>1 DEF AgreementTyped
  <1>5. AccountTypeOK BY <1>2, <1>3, <1>4, AccountTypes
  <1>6. NoRequest.pc = "idle" BY DEF NoRequest
  <1>7. NoUser.born = 0 /\ NoUser.link = 0 /\ NoLink.status = "none"
    BY DEF NoUser, NoLink
  <1>8. \A w \in Workers : RequestInOrder(w) BY <1>1, <1>6 DEF RequestInOrder
  <1>9. BirthsInOrder BY <1>1, <1>6, <1>7 DEF BirthsInOrder, Claiming
  <1>10. OneOpen(reset) /\ OneOpen(change) BY <1>1, <1>7 DEF OneOpen, IsOpen
  <1>11. ResetsInOrder BY <1>1, <1>6, <1>7, <1>10 DEF ResetsInOrder, IsOpen, At
  <1> QED BY <1>5, <1>8, <1>9, <1>10, <1>11 DEF AccountIInv

\* Every step keeps the invariant.
LEMMA AccountStep == AccountIInv /\ [AccountNext]_accountVars => AccountIInv'
  <1> SUFFICES ASSUME AccountIInv, [AccountNext]_accountVars PROVE AccountIInv'
    OBVIOUS
  <1>1. CASE UNCHANGED accountVars BY <1>1, Stutters
  <1>2. CASE AgeRow \/ RunTokenCleanup BY <1>2, TimeSteps
  <1>3. CASE Restart BY <1>3, RestartKeeps
  <1>4. CASE ToggleRequired BY <1>4, AgreementSteps
  <1>5. ASSUME NEW u \in Users, ChangePassword(u) \/ AdminDelete(u) PROVE AccountIInv'
    BY <1>5, SecretSteps, AdminSteps
  <1>6. ASSUME NEW e \in Emails, NEW n \in Names, AdminCreate(e, n) PROVE AccountIInv'
    BY <1>6, CreateSteps
  <1>7. ASSUME NEW w \in Workers,
               \/ InsertPending(w) \/ MailVerify(w) \/ ClaimPending(w) \/ CreateUser(w)
               \/ RevertClaim(w) \/ RecordConsent(w)
        PROVE  AccountIInv'
    BY <1>7, RegistrationSteps
  <1>8. ASSUME NEW w \in Workers,
               MailReset(w) \/ ClaimReset(w) \/ SetPassword(w) \/ InvalidateLinks(w)
        PROVE  AccountIInv'
    BY <1>8, PasswordSteps
  <1>9. ASSUME NEW w \in Workers, MailChange(w) \/ ClaimChange(w) \/ SetEmail(w)
        PROVE  AccountIInv'
    BY <1>9, AddressSteps
  <1>10. ASSUME NEW w \in Workers, StartPublish(w) PROVE AccountIInv' BY <1>10, BeginningSteps
  <1>11. ASSUME NEW w \in Workers, Publish(w) PROVE AccountIInv' BY <1>11, AgreementSteps
  <1>12. ASSUME NEW w \in Workers, NEW p \in Pendings, StartVerify(w, p) PROVE AccountIInv'
    BY <1>12, BeginningSteps
  <1>13. ASSUME NEW w \in Workers, NEW e \in Emails, NEW n \in Names, StartRegister(w, e, n)
         PROVE  AccountIInv'
    BY <1>13, BeginningSteps
  <1>14. ASSUME NEW w \in Workers, NEW u \in Users,
                \/ ForgotPassword(w, u) \/ StartReset(w, u) \/ StartConfirm(w, u)
                \/ \E e \in Emails : ChangeEmail(w, u, e) \/ AdminUpdate(w, u, e)
         PROVE  AccountIInv'
    <2>1. CASE ForgotPassword(w, u) BY <2>1, ForgotKeeps
    <2>2. CASE StartReset(w, u) \/ StartConfirm(w, u) BY <2>2, BeginningSteps
    <2>3. ASSUME NEW e \in Emails, ChangeEmail(w, u, e) PROVE AccountIInv' BY <2>3, AddressSteps
    <2>4. ASSUME NEW e \in Emails, AdminUpdate(w, u, e), e = user[u].email PROVE AccountIInv'
      BY <2>4, SecretSteps
    <2>5. ASSUME NEW e \in Emails, AdminUpdate(w, u, e), e # user[u].email PROVE AccountIInv'
      BY <2>5, AdminSteps
    <2> QED BY <1>14, <2>1, <2>2, <2>3, <2>4, <2>5
  <1> QED BY <1>1, <1>2, <1>3, <1>4, <1>5, <1>6, <1>7, <1>8, <1>9, <1>10, <1>11, <1>12, <1>13,
             <1>14 DEF AccountNext

\* Requests, claims and links stay in order in every run of auth.py, users.py and the
\* token job, however many users, links, requests and restarts there are.
THEOREM AccountInvariant == AccountSpec => []AccountIInv
  <1>1. AccountInit => AccountIInv BY AccountsAtFirst
  <1>2. AccountIInv /\ [AccountNext]_accountVars => AccountIInv' BY AccountStep
  <1> QED BY <1>1, <1>2, PTL DEF AccountSpec

\* The tables of accounts, links and agreements hold rows of their types.
THEOREM AccountTypeCorrect == AccountSpec => []AccountTypeOK
  <1>1. AccountIInv => AccountTypeOK BY DEF AccountIInv
  <1> QED BY <1>1, AccountInvariant, PTL

\* Births in order are single.
LEMMA BirthsAreSingle == AccountIInv => RegisteredOnce
  <1> SUFFICES ASSUME AccountIInv, NEW p \in Pendings
               PROVE  /\ Cardinality({u \in Users : user[u].born = p}) <= 1
                      /\ {u \in Users : user[u].born = p} # {} => ~IsOpen(pending[p])
    BY DEF RegisteredOnce
  <1> DEFINE born == {u \in Users : user[u].born = p}
  <1>1. p # 0 BY DEF Pendings
  <1>2. \A u, v \in born : u = v BY <1>1 DEF AccountIInv, BirthsInOrder
  <1>3. \A u \in born : Spent(p) BY <1>1 DEF AccountIInv, BirthsInOrder
  <1> HIDE DEF born
  <1>4. CASE born = {} BY <1>4, FS_EmptySet DEF born
  <1>5. ASSUME NEW u \in born PROVE born = {u} BY <1>2
  <1>6. CASE born # {}
    <2>1. PICK u \in born : TRUE BY <1>6
    <2>2. born = {u} BY <1>5, <2>1
    <2>3. Cardinality(born) = 1 BY <2>2, FS_Singleton
    <2>4. ~IsOpen(pending[p]) BY <1>3, <2>1 DEF Spent, IsOpen
    <2> QED BY <2>3, <2>4 DEF born
  <1> QED BY <1>4, <1>6

\* verify_registration makes one user of a registration, and leaves its link spent: claims,
\* their way back, retries and restarts make no second.
THEOREM OneUserPerRegistration == AccountSpec => []RegisteredOnce
  BY BirthsAreSingle, AccountInvariant, PTL

\* Links in order die.
LEMMA LinksInOrder == AccountIInv => LinksDie
  <1> SUFFICES ASSUME AccountIInv, NEW r \in Links, NEW s \in Links
               PROVE  /\ IsOpen(reset[r]) /\ IsOpen(reset[s]) /\ reset[r].user = reset[s].user => r = s
                      /\ IsOpen(change[r]) /\ IsOpen(change[s]) /\ change[r].user = change[s].user => r = s
                      /\ IsOpen(reset[r]) /\ reset[r].user \in Alive => user[reset[r].user].link # r
                      /\ IsOpen(reset[r]) /\ reset[r].user \in Alive =>
                            \/ reset[r].secret = user[reset[r].user].secret
                            \/ reset[r].user \in exposed
                            \/ \E w \in Workers : At(w, "invalidate") /\ request[w].user = reset[r].user
    BY DEF LinksDie
  <1>1. ResetsInOrder /\ OneOpen(reset) /\ OneOpen(change) BY DEF AccountIInv, ResetsInOrder
  <1>2. IsOpen(reset[r]) /\ reset[r].user \in Alive => user[reset[r].user].link # r
    <2>1. IsOpen(reset[r]) => ~Dead(r) BY DEF IsOpen, Dead
    <2>2. r # 0 BY DEF Links
    <2> QED BY <1>1, <2>1, <2>2 DEF ResetsInOrder, Alive
  <1>3. IsOpen(reset[r]) /\ reset[r].user \in Alive =>
                            \/ reset[r].secret = user[reset[r].user].secret
                            \/ reset[r].user \in exposed
                            \/ \E w \in Workers : At(w, "invalidate") /\ request[w].user = reset[r].user
    BY <1>1 DEF ResetsInOrder, Invalidating
  <1> QED BY <1>1, <1>2, <1>3 DEF OneOpen

\* A user has one live link of a kind; it dies with its use, and with a password set by the
\* owner or an administrator, but for the moment (or the restart) between the two commits
\* of update_user.
THEOREM LinksDieOut == AccountSpec => []LinksDie
  BY LinksInOrder, AccountInvariant, PTL
===============================================================================
