-------------------------------- MODULE Accounts --------------------------------
(***************************************************************************)
(* Accounts: registration by a mailed link, forgotten passwords, changes   *)
(* of password and address, what administrators do to users, agreements    *)
(* and their versions, and the job that deletes old links.  Every handler  *)
(* checks first and writes later, in a transaction of its own per step.    *)
(***************************************************************************)
EXTENDS Naturals, FiniteSets

CONSTANTS
    Users, Nobody,
    Emails, Names,
    Workers,
    MaxPendings,   \* registrations ever begun
    MaxLinks,      \* links ever mailed to reset a password, or to change an address
    MaxVersions,   \* versions of the agreement
    MaxFaults      \* failed commits and restarts

ASSUME AccountAssumption ==
    /\ Nobody \notin Users
    /\ {MaxPendings, MaxLinks, MaxVersions, MaxFaults} \subseteq Nat

VARIABLES
    user,       \* the panel's users
    pending,    \* manager_pending_registrations
    reset,      \* manager_password_resets
    change,     \* manager_email_changes
    versions,   \* published versions of the agreement
    agreement,  \* its current version and whether registration requires it
    request,    \* requests between two of their steps
    exposed,    \* users whose old links a fault left alive
    faults

accountVars == <<user, pending, reset, change, versions, agreement, request, exposed, faults>>

Pendings == 1..MaxPendings
Links == 1..MaxLinks
Ages == {"new", "live", "expired"}   \* of a link: the first minute, half an hour, later

UserRow == [state : {"free", "alive", "deleted"}, email : Emails \cup {"none"}, name : Names \cup {"none"},
            born : 0..MaxPendings, accepted : SUBSET (1..MaxVersions),
            secret : 0..MaxLinks,      \* changes of the password by its owner or an admin
            link : 0..MaxLinks]        \* the link that set the password last
PendingRow == [status : {"open", "used"}, age : Ages, email : Emails,
               name : Names, agreed : 0..MaxVersions]
LinkRow == [status : {"none", "open", "used", "gone"}, age : Ages, user : Users \cup {Nobody},
            email : Emails \cup {"none"}, secret : 0..MaxLinks]
RequestSteps == {"idle", "register", "mailVerify", "claim", "create", "revert", "consent",
                 "mailReset", "claimReset", "password", "invalidate", "mailChange",
                 "claimChange", "email", "publish"}
RequestRow == [pc : RequestSteps, user : Users \cup {Nobody}, row : Nat,
               email : Emails \cup {"none"}, name : Names \cup {"none"}, agreed : 0..MaxVersions]

AccountTypeOK ==
    /\ user \in [Users -> UserRow]
    /\ pending \in [Pendings -> PendingRow \cup [status : {"none", "gone"}]]
    /\ reset \in [Links -> LinkRow]
    /\ change \in [Links -> LinkRow]
    /\ versions \subseteq 1..MaxVersions
    /\ agreement \in [current : {0} \cup versions, required : BOOLEAN]
    /\ request \in [Workers -> RequestRow]
    /\ exposed \subseteq Users
    /\ faults \in 0..MaxFaults

NoUser == [state |-> "free", email |-> "none", name |-> "none", born |-> 0, accepted |-> {},
           secret |-> 0, link |-> 0]
NoLink == [status |-> "none", age |-> "new", user |-> Nobody, email |-> "none", secret |-> 0]
GoneLink == [NoLink EXCEPT !.status = "gone"]
GonePending == [status |-> "gone"]
NoRequest == [pc |-> "idle", user |-> Nobody, row |-> 0, email |-> "none", name |-> "none",
              agreed |-> 0]

AccountInit ==
    /\ user = [u \in Users |-> NoUser]
    /\ pending = [p \in Pendings |-> [status |-> "none"]]
    /\ reset = [r \in Links |-> NoLink]
    /\ change = [r \in Links |-> NoLink]
    /\ versions = {} /\ agreement = [current |-> 0, required |-> TRUE]
    /\ request = [w \in Workers |-> NoRequest]
    /\ exposed = {} /\ faults = 0

-------------------------------------------------------------------------------
(* Requests and rows *)

At(w, pc) == request[w].pc = pc
GoTo(w, pc) == request' = [request EXCEPT ![w].pc = pc]
Finish(w) == request' = [request EXCEPT ![w] = NoRequest]

Fault == faults < MaxFaults /\ faults' = faults + 1

Alive == {u \in Users : user[u].state = "alive"}
EmailTaken(e, u) == \E v \in Alive \ {u} : user[v].email = e
NameTaken(n, u) == \E v \in Alive \ {u} : user[v].name = n

IsOpen(row) == row.status = "open"
Valid(row) == row.age \in {"new", "live"}
NextRow(table) == {i \in DOMAIN table : table[i].status = "none"
                        /\ \A j \in DOMAIN table : j < i => table[j].status # "none"}
\* Seeded defect: a new link leaves the earlier ones as they are.
LeftOpen(table, u) == table
\* The rows of user u, which a new one replaces.
Closed(table, u) ==
    [i \in DOMAIN table |-> IF table[i].user = u /\ IsOpen(table[i])
                            THEN [table[i] EXCEPT !.status = "used"] ELSE table[i]]
\* A link sent within the last minute.
Recent(table, u) ==
    \E i \in DOMAIN table : table[i].user = u /\ table[i].age = "new" /\ table[i].status # "gone"
\* The newest open link of u, the only one whose token is compared.
NewestOpen(table, u) ==
    {i \in DOMAIN table :
        /\ table[i].user = u /\ IsOpen(table[i])
        /\ \A j \in DOMAIN table : table[j].user = u /\ IsOpen(table[j]) => j <= i}

-------------------------------------------------------------------------------
(* Registration *)

\* What the form must have agreed to: the current version, if one is required.
ValidateAcceptance == IF agreement.required THEN agreement.current ELSE 0

\* An unused registration blocks its user name, however old its link is.
NameReserved(n) == \E p \in Pendings : IsOpen(pending[p]) /\ pending[p].name = n

\* register: its checks, which take no lock.
StartRegister(w, e, n) ==
    /\ At(w, "idle")
    /\ ~EmailTaken(e, Nobody) /\ ~NameTaken(n, Nobody)
    /\ ~NameReserved(n)
    /\ request' = [request EXCEPT ![w] =
          [NoRequest EXCEPT !.pc = "register", !.email = e, !.name = n,
                            !.agreed = ValidateAcceptance]]
    /\ UNCHANGED <<user, pending, reset, change, versions, agreement, exposed, faults>>

\* ... and its transaction, under a lock on the rows of the address.
InsertPending(w) ==
    LET r == request[w]
        mine == {p \in Pendings : IsOpen(pending[p]) /\ pending[p].email = r.email}
    IN
    /\ At(w, "register")
    /\ IF \E p \in mine : Valid(pending[p])
       THEN Finish(w) /\ UNCHANGED pending
       ELSE \E p \in NextRow(pending) :
             /\ pending' = [q \in Pendings |->
                   CASE q = p       -> [status |-> "open", age |-> "live", email |-> r.email,
                                        name |-> r.name, agreed |-> r.agreed]
                     [] q \in mine  -> [pending[q] EXCEPT !.status = "used"]
                     [] OTHER       -> pending[q]]
             /\ request' = [request EXCEPT ![w].pc = "mailVerify", ![w].row = p]
    /\ UNCHANGED <<user, reset, change, versions, agreement, exposed, faults>>

\* The row goes if the mail does not.
MailVerify(w) ==
    /\ At(w, "mailVerify")
    /\ \/ UNCHANGED pending
       \/ pending' = [pending EXCEPT ![request[w].row] = GonePending]
    /\ Finish(w)
    /\ UNCHANGED <<user, reset, change, versions, agreement, exposed, faults>>

StartVerify(w, p) ==
    /\ At(w, "idle")
    /\ IsOpen(pending[p]) /\ Valid(pending[p])
    /\ ~EmailTaken(pending[p].email, Nobody) /\ ~NameTaken(pending[p].name, Nobody)
    /\ request' = [request EXCEPT ![w] =
          [NoRequest EXCEPT !.pc = "claim", !.row = p, !.email = pending[p].email,
                            !.name = pending[p].name, !.agreed = pending[p].agreed]]
    /\ UNCHANGED <<user, pending, reset, change, versions, agreement, exposed, faults>>

\* Seeded defect: the row is claimed by its number alone.
RowThere(p) == pending[p].status # "gone"
\* The condition of the UPDATE that claims.
StillUnused(p) == IsOpen(pending[p])

ClaimPending(w) ==
    LET p == request[w].row IN
    /\ At(w, "claim")
    /\ IF StillUnused(p)
       THEN pending' = [pending EXCEPT ![p].status = "used"] /\ GoTo(w, "create")
       ELSE Finish(w) /\ UNCHANGED pending
    /\ UNCHANGED <<user, reset, change, versions, agreement, exposed, faults>>

\* The panel's unique indexes decide between two of one address or name.
CreateUser(w) ==
    LET r == request[w] IN
    /\ At(w, "create")
    /\ \/ /\ ~EmailTaken(r.email, Nobody) /\ ~NameTaken(r.name, Nobody)
          /\ \E u \in {v \in Users : user[v].state = "free"} :
              /\ user' = [user EXCEPT ![u] = [NoUser EXCEPT !.state = "alive", !.email = r.email,
                                                            !.name = r.name, !.born = r.row]]
              /\ request' = [request EXCEPT ![w].pc = "consent", ![w].user = u]
          /\ UNCHANGED faults
       \/ /\ EmailTaken(r.email, Nobody) \/ NameTaken(r.name, Nobody)
          /\ GoTo(w, "revert")
          /\ UNCHANGED <<user, faults>>
       \/ Fault /\ GoTo(w, "revert") /\ UNCHANGED user
    /\ UNCHANGED <<pending, reset, change, versions, agreement, exposed>>

RevertClaim(w) ==
    LET p == request[w].row IN
    /\ At(w, "revert")
    /\ \/ /\ pending' = IF pending[p].status = "gone" THEN pending
                        ELSE [pending EXCEPT ![p].status = "open"]
          /\ UNCHANGED faults
       \/ Fault /\ UNCHANGED pending
    /\ Finish(w)
    /\ UNCHANGED <<user, reset, change, versions, agreement, exposed>>

\* What was agreed to on the form becomes an acceptance of the user, best-effort.
RecordConsent(w) ==
    LET r == request[w] IN
    /\ At(w, "consent")
    /\ \/ /\ user' = [user EXCEPT ![r.user].accepted =
                         IF r.agreed > 0 /\ r.user \in Alive THEN @ \cup {r.agreed} ELSE @]
          /\ UNCHANGED faults
       \/ Fault /\ UNCHANGED user
    /\ Finish(w)
    /\ UNCHANGED <<pending, reset, change, versions, agreement, exposed>>

-------------------------------------------------------------------------------
(* Passwords *)

NewLink(u, e) == [status |-> "open", age |-> "new", user |-> u, email |-> e,
                  secret |-> user[u].secret]

\* forgot_password, under a lock on the user.
ForgotPassword(w, u) ==
    /\ At(w, "idle")
    /\ u \in Alive
    /\ ~Recent(reset, u)
    /\ \E r \in NextRow(reset) :
        /\ reset' = [Closed(reset, u) EXCEPT ![r] = NewLink(u, "none")]
        /\ request' = [request EXCEPT ![w] = [NoRequest EXCEPT !.pc = "mailReset", !.row = r]]
    /\ UNCHANGED <<user, pending, change, versions, agreement, exposed, faults>>

MailReset(w) ==
    /\ At(w, "mailReset")
    /\ \/ UNCHANGED reset
       \/ reset' = [reset EXCEPT ![request[w].row] = GoneLink]
    /\ Finish(w)
    /\ UNCHANGED <<user, pending, change, versions, agreement, exposed, faults>>

StartReset(w, u) ==
    /\ At(w, "idle")
    /\ u \in Alive
    /\ \E r \in NewestOpen(reset, u) :
        /\ Valid(reset[r])
        /\ request' = [request EXCEPT ![w] =
              [NoRequest EXCEPT !.pc = "claimReset", !.row = r, !.user = u]]
    /\ UNCHANGED <<user, pending, reset, change, versions, agreement, exposed, faults>>

ClaimReset(w) ==
    LET r == request[w].row IN
    /\ At(w, "claimReset")
    /\ IF IsOpen(reset[r])
       THEN reset' = [reset EXCEPT ![r].status = "used"] /\ GoTo(w, "password")
       ELSE Finish(w) /\ UNCHANGED reset
    /\ UNCHANGED <<user, pending, change, versions, agreement, exposed, faults>>

\* The password is written after the link's claim was committed.  What else the
\* session writes are the values it read, and unchanged columns are not written.
SetPassword(w) ==
    /\ At(w, "password")
    /\ user' = IF request[w].user \in Alive THEN [user EXCEPT ![request[w].user].link = request[w].row]
               ELSE user
    /\ Finish(w)
    /\ UNCHANGED <<pending, reset, change, versions, agreement, exposed, faults>>

\* The owner's change and the end of all links, in one transaction.
ChangePassword(u) ==
    /\ u \in Alive /\ user[u].secret < MaxLinks
    /\ user' = [user EXCEPT ![u].secret = @ + 1, ![u].link = 0]
    /\ reset' = Closed(reset, u)
    /\ UNCHANGED <<pending, change, versions, agreement, request, exposed, faults>>

-------------------------------------------------------------------------------
(* Addresses *)

ChangeEmail(w, u, e) ==
    /\ At(w, "idle")
    /\ u \in Alive /\ e # user[u].email /\ ~EmailTaken(e, u)
    /\ ~Recent(change, u)
    /\ \E r \in NextRow(change) :
        /\ change' = [Closed(change, u) EXCEPT ![r] = NewLink(u, e)]
        /\ request' = [request EXCEPT ![w] = [NoRequest EXCEPT !.pc = "mailChange", !.row = r]]
    /\ UNCHANGED <<user, pending, reset, versions, agreement, exposed, faults>>

MailChange(w) ==
    /\ At(w, "mailChange")
    /\ \/ UNCHANGED change
       \/ change' = [change EXCEPT ![request[w].row] = GoneLink]
    /\ Finish(w)
    /\ UNCHANGED <<user, pending, reset, versions, agreement, exposed, faults>>

StartConfirm(w, u) ==
    /\ At(w, "idle")
    /\ \E r \in NewestOpen(change, u) :
        /\ Valid(change[r]) /\ u \in Alive /\ ~EmailTaken(change[r].email, u)
        /\ request' = [request EXCEPT ![w] =
              [NoRequest EXCEPT !.pc = "claimChange", !.row = r, !.user = u,
                                !.email = change[r].email]]
    /\ UNCHANGED <<user, pending, reset, change, versions, agreement, exposed, faults>>

ClaimChange(w) ==
    LET r == request[w].row IN
    /\ At(w, "claimChange")
    /\ IF IsOpen(change[r])
       THEN change' = [change EXCEPT ![r].status = "used"] /\ GoTo(w, "email")
       ELSE Finish(w) /\ UNCHANGED change
    /\ UNCHANGED <<user, pending, reset, versions, agreement, exposed, faults>>

\* The unique index may refuse the address; the link is spent all the same.
SetEmail(w) ==
    LET r == request[w] IN
    /\ At(w, "email")
    /\ user' = IF r.user \in Alive /\ ~EmailTaken(r.email, r.user)
               THEN [user EXCEPT ![r.user].email = r.email] ELSE user
    /\ Finish(w)
    /\ UNCHANGED <<pending, reset, change, versions, agreement, exposed, faults>>

-------------------------------------------------------------------------------
(* Administrators *)

\* create_user: a user with a first link in the mail, or without.
AdminCreate(e, n) ==
    /\ ~EmailTaken(e, Nobody) /\ ~NameTaken(n, Nobody)
    /\ \E u \in {v \in Users : user[v].state = "free"} :
        /\ user' = [user EXCEPT ![u] = [NoUser EXCEPT !.state = "alive", !.email = e, !.name = n]]
        /\ \/ UNCHANGED reset
           \/ \E r \in NextRow(reset) : reset' = [reset EXCEPT ![r] =
                 [status |-> "open", age |-> "new", user |-> u, email |-> "none", secret |-> 0]]
    /\ UNCHANGED <<pending, change, versions, agreement, request, exposed, faults>>

\* update_user with another address, or with a password: then the links end in a second
\* transaction.
AdminUpdate(w, u, e) ==
    /\ At(w, "idle")
    /\ u \in Alive /\ ~EmailTaken(e, u)
    /\ \/ e # user[u].email /\ user' = [user EXCEPT ![u].email = e] /\ UNCHANGED request
       \/ /\ e = user[u].email /\ user[u].secret < MaxLinks
          /\ user' = [user EXCEPT ![u].secret = @ + 1, ![u].link = 0]
          /\ request' = [request EXCEPT ![w] =
                [NoRequest EXCEPT !.pc = "invalidate", !.user = u]]
    /\ UNCHANGED <<pending, reset, change, versions, agreement, exposed, faults>>

InvalidateLinks(w) ==
    /\ At(w, "invalidate")
    /\ reset' = Closed(reset, request[w].user)
    /\ Finish(w)
    /\ UNCHANGED <<user, pending, change, versions, agreement, exposed, faults>>

\* delete_user, once the user's servers are gone.
AdminDelete(u) ==
    /\ u \in Alive
    /\ user' = [user EXCEPT ![u] = [NoUser EXCEPT !.state = "deleted", !.born = user[u].born]]
    /\ UNCHANGED <<pending, reset, change, versions, agreement, request, exposed, faults>>

\* versions_publish with a bump reads the highest version, ...
StartPublish(w) ==
    LET next == Cardinality(versions) + 1 IN
    /\ At(w, "idle")
    /\ next <= MaxVersions
    /\ request' = [request EXCEPT ![w] = [NoRequest EXCEPT !.pc = "publish", !.row = next]]
    /\ UNCHANGED <<user, pending, reset, change, versions, agreement, exposed, faults>>

NewVersion(v) == v \notin versions

\* Seeded defect: the agreement points at the version before it is inserted.
PublishPointer(w) ==
    /\ At(w, "publish")
    /\ agreement' = [agreement EXCEPT !.current = request[w].row]
    /\ Finish(w)
    /\ UNCHANGED <<user, pending, reset, change, versions, exposed, faults>>
\* ... and inserts the next one, which becomes the current one in the same commit.
Publish(w) ==
    LET v == request[w].row IN
    /\ At(w, "publish")
    /\ IF NewVersion(v)
       THEN versions' = versions \cup {v} /\ agreement' = [agreement EXCEPT !.current = v]
       ELSE UNCHANGED <<versions, agreement>>
    /\ Finish(w)
    /\ UNCHANGED <<user, pending, reset, change, exposed, faults>>

\* agreements_update and agreements_disable.
ToggleRequired ==
    /\ agreement' = [agreement EXCEPT !.required = ~@]
    /\ UNCHANGED <<user, pending, reset, change, versions, request, exposed, faults>>

-------------------------------------------------------------------------------
(* Time, the job, restarts *)

Older(age) == IF age = "new" THEN "live" ELSE "expired"

Aged(table) ==
    {[table EXCEPT ![i].age = Older(@)] :
        i \in {j \in DOMAIN table : table[j].status \in {"open", "used"}
                                    /\ table[j].age # "expired"}}

AgeRow ==
    /\ \/ pending' \in Aged(pending) /\ UNCHANGED <<reset, change>>
       \/ reset' \in Aged(reset) /\ UNCHANGED <<pending, change>>
       \/ change' \in Aged(change) /\ UNCHANGED <<pending, reset>>
    /\ UNCHANGED <<user, versions, agreement, request, exposed, faults>>

\* The rows the job finds a day old, some of the expired ones.
Cleaned(table, gone) == {[table EXCEPT ![i] = gone] :
                            i \in {j \in DOMAIN table : table[j].status \in {"open", "used"}
                                                        /\ table[j].age = "expired"}}

RunTokenCleanup ==
    /\ \/ pending' \in Cleaned(pending, GonePending) /\ UNCHANGED <<reset, change>>
       \/ reset' \in Cleaned(reset, GoneLink) /\ UNCHANGED <<pending, change>>
       \/ change' \in Cleaned(change, GoneLink) /\ UNCHANGED <<pending, reset>>
    /\ UNCHANGED <<user, versions, agreement, request, exposed, faults>>

Restart ==
    /\ Fault
    /\ \E w \in Workers : ~At(w, "idle")
    /\ request' = [w \in Workers |-> NoRequest]
    /\ exposed' = exposed \cup {request[w].user : w \in {x \in Workers : At(x, "invalidate")}}
    /\ UNCHANGED <<user, pending, reset, change, versions, agreement>>

AccountNext ==
    \/ AgeRow \/ RunTokenCleanup \/ Restart \/ ToggleRequired
    \/ \E u \in Users : ChangePassword(u) \/ AdminDelete(u)
    \/ \E e \in Emails, n \in Names : AdminCreate(e, n)
    \/ \E w \in Workers :
        \/ InsertPending(w) \/ MailVerify(w) \/ ClaimPending(w) \/ CreateUser(w)
        \/ RevertClaim(w) \/ RecordConsent(w)
        \/ MailReset(w) \/ ClaimReset(w) \/ SetPassword(w) \/ InvalidateLinks(w)
        \/ MailChange(w) \/ ClaimChange(w) \/ SetEmail(w)
        \/ StartPublish(w) \/ Publish(w)
        \/ \E p \in Pendings : StartVerify(w, p)
        \/ \E e \in Emails, n \in Names : StartRegister(w, e, n)
        \/ \E u \in Users :
            \/ ForgotPassword(w, u) \/ StartReset(w, u) \/ StartConfirm(w, u)
            \/ \E e \in Emails : ChangeEmail(w, u, e) \/ AdminUpdate(w, u, e)

AccountSpec == AccountInit /\ [][AccountNext]_accountVars

-------------------------------------------------------------------------------
(* Properties *)

\* A registration makes one user, however often its link is followed and whatever the
\* claim's way back does: once the user is there the link is spent.
RegisteredOnce ==
    \A p \in Pendings :
        LET born == {u \in Users : user[u].born = p} IN
        Cardinality(born) <= 1 /\ (born # {} => ~IsOpen(pending[p]))

\* A user has one live link of a kind, which sets a password once, and a link mailed before the owner or an
\* administrator set another password does not set it again, except between the two
\* commits of the administrator's request, where a restart may leave it.
LinksDie ==
    \A r, s \in Links :
        /\ IsOpen(reset[r]) /\ IsOpen(reset[s]) /\ reset[r].user = reset[s].user => r = s
        /\ IsOpen(change[r]) /\ IsOpen(change[s]) /\ change[r].user = change[s].user => r = s
        /\ LET u == reset[r].user IN
           IsOpen(reset[r]) /\ u \in Alive => user[u].link # r
        /\ LET u == reset[r].user IN
           IsOpen(reset[r]) /\ u \in Alive =>
              \/ reset[r].secret = user[u].secret
              \/ u \in exposed
              \/ \E w \in Workers : At(w, "invalidate") /\ request[w].user = u
===============================================================================
