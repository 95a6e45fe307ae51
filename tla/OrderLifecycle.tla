---------------------------- MODULE OrderLifecycle ----------------------------
(***************************************************************************)
(* What the order system promises a customer, whatever leases, retries and *)
(* repeated notifications go on behind it.  A payment that is recorded is  *)
(* never forgotten and never leaves an order silently ended; an order ends *)
(* by itself only while nothing has been received; what was bought is      *)
(* delivered at most once, for money, and an order is fulfilled only when  *)
(* it has been delivered.                                                  *)
(***************************************************************************)
CONSTANTS Orders, Txs

VARIABLES outcome, paid, delivered

Outcomes == {"none", "open", "review", "fulfilled", "ended", "erased"}

LTypeOK ==
    /\ outcome \in [Orders -> Outcomes]
    /\ paid \in [Orders -> SUBSET Txs]
    /\ delivered \in [Orders -> BOOLEAN]

LInit ==
    /\ outcome = [o \in Orders |-> "none"]
    /\ paid = [o \in Orders |-> {}]
    /\ delivered = [o \in Orders |-> FALSE]

Live(o) == outcome[o] \notin {"none", "erased"}

Becomes(o, result) == outcome' = [outcome EXCEPT ![o] = result]

Place(o) ==
    /\ outcome[o] = "none"
    /\ Becomes(o, "open")
    /\ UNCHANGED <<paid, delivered>>

\* Money for an order that has ended brings it back for a human to look at.
Receive(o, t) ==
    /\ Live(o)
    /\ t \notin paid[o]
    /\ paid' = [paid EXCEPT ![o] = @ \cup {t}]
    /\ \/ Becomes(o, "review")
       \/ outcome[o] # "ended" /\ UNCHANGED outcome
    /\ UNCHANGED delivered

Deliver(o) ==
    /\ Live(o)
    /\ paid[o] # {}
    /\ ~delivered[o]
    /\ delivered' = [delivered EXCEPT ![o] = TRUE]
    /\ UNCHANGED <<outcome, paid>>

Fulfil(o) ==
    /\ Live(o)
    /\ delivered[o]
    /\ Becomes(o, "fulfilled")
    /\ UNCHANGED <<paid, delivered>>

\* Delivery was given up on.
Hold(o) ==
    /\ Live(o)
    /\ paid[o] # {}
    /\ Becomes(o, "review")
    /\ UNCHANGED <<paid, delivered>>

Resume(o) ==
    /\ outcome[o] = "review"
    /\ Becomes(o, "open")
    /\ UNCHANGED <<paid, delivered>>

Withdraw(o) ==
    /\ outcome[o] = "open"
    /\ paid[o] = {}
    /\ Becomes(o, "ended")
    /\ UNCHANGED <<paid, delivered>>

\* Only a human ends an order that money was received for.
WriteOff(o) ==
    /\ outcome[o] = "review"
    /\ Becomes(o, "ended")
    /\ UNCHANGED <<paid, delivered>>

Erase(o) ==
    /\ Live(o)
    /\ paid[o] = {}
    /\ Becomes(o, "erased")
    /\ UNCHANGED <<paid, delivered>>

LNext ==
    \E o \in Orders :
        \/ Place(o) \/ Deliver(o) \/ Fulfil(o) \/ Hold(o) \/ Resume(o)
        \/ Withdraw(o) \/ WriteOff(o) \/ Erase(o)
        \/ \E t \in Txs : Receive(o, t)

LSpec == LInit /\ [][LNext]_<<outcome, paid, delivered>>
===============================================================================
