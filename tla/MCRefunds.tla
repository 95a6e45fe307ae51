------------------------------- MODULE MCRefunds -------------------------------
(***************************************************************************)
(* An instance of Refunds for TLC: an order at either gateway, paid with   *)
(* the wrong amount, so that an administrator decides what becomes of it.  *)
(***************************************************************************)
EXTENDS Refunds, TLC

CONSTANTS o1, o2, w1, w2, t1, u1

OneUser == [o \in Orders |-> u1]
Renewals == [o \in Orders |-> "renew"]
OneEach == [o \in Orders |-> IF o = o1 THEN "alipay_direct" ELSE "hupijiao"]

\* A behaviour has one of the two orders, and two workers and the restart if that is Alipay's.
Untouched(o) == order[o].status = "absent" /\ trade[o].state = "none" /\ server[o] = "live" /\ \A w \in Workers : task[w].order # o
OneOrder ==
    \/ Untouched(o2)
    \/ Untouched(o1) /\ crashes = 0 /\ At(w2, "idle") /\ AtDesk(w2, "idle")

WorkerSymmetry == Permutations(Workers)
===============================================================================
