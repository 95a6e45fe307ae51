-------------------------------- MODULE MCServers -------------------------------
(***************************************************************************)
(* An instance of Servers for TLC: two requests about the one server there *)
(* is, with a database or not, or one request about it while the batch     *)
(* also has another, expired, server on a node that need not answer.       *)
(***************************************************************************)
EXTENDS Servers, TLC

CONSTANT r1

Alone == row[2].st = "unborn" /\ requests + crashes <= 2
Expired == row[2].exp = 0 /\ ~row[2].trial
Neighbour ==
    requests <= 1 /\ (Exists(2) => Expired /\ \A s \in Servers : ~HasDatabase(s))
Bounded == Alone \/ Neighbour
===============================================================================
