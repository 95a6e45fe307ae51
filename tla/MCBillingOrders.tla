--------------------------- MODULE MCBillingOrders ---------------------------
(***************************************************************************)
(* Instances of BillingProperties for TLC: one or two orders of one        *)
(* customer, of one kind and at one gateway.                               *)
(***************************************************************************)
EXTENDS BillingProperties, TLC

CONSTANTS o1, o2, w1, w2, t1, t2, u1

OneUser == [o \in Orders |-> u1]

RenewalAndUpgrade == [o \in Orders |-> IF o = o1 THEN "renew" ELSE "upgrade"]
Purchase == [o \in Orders |-> "new_purchase"]

Alipay == [o \in Orders |-> "alipay_direct"]
Hupijiao == [o \in Orders |-> "hupijiao"]

WorkerSymmetry == Permutations(Workers)
==============================================================================
