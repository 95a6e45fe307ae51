------------------------------- MODULE MCAccounts -------------------------------
(***************************************************************************)
(* An instance of Accounts for TLC.  Its three concerns share the users    *)
(* only; a behaviour goes into one of them in depth.                       *)
(***************************************************************************)
EXTENDS Accounts, TLC

CONSTANTS u1, u2, w1, w2

Untouched(table) == \A i \in DOMAIN table : table[i].status = "none"
NoAgreement == versions = {} /\ agreement.required
OwnPasswords == \A u \in Users : user[u].secret = 0

Passwords ==
    /\ Untouched(pending) /\ Untouched(change) /\ NoAgreement
    /\ \A u \in Users : user[u].email # "b"
    /\ \E u \in Users : user[u].state = "free"
Addresses == Untouched(pending) /\ Untouched(reset) /\ NoAgreement /\ OwnPasswords
Registrations ==
    Untouched(reset) /\ Untouched(change) /\ OwnPasswords /\ versions \subseteq {1}
Agreements ==
    /\ Untouched(pending) /\ Untouched(reset) /\ Untouched(change)
    /\ \A u \in Users : user[u].state = "free"

OneConcern == Passwords \/ Addresses \/ Registrations \/ Agreements

Symmetric == Permutations(Users) \cup Permutations(Workers)
===============================================================================
