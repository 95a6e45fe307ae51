-------------------------------- MODULE MCTunnels -------------------------------
(***************************************************************************)
(* An instance of Tunnels for TLC.                                         *)
(***************************************************************************)
EXTENDS Tunnels, TLC

CONSTANTS s1, s2, a, b, r1, r2

Symmetric == Permutations({s1, s2}) \cup Permutations({a, b})

VARIABLE met   \* two requests were under way at once
Alone == \A q, r \in Requests : q # r => NoOp \in {op[q], op[r]}
OneServer ==
    /\ requests <= 2 /\ crashes = 0 /\ exists = Servers /\ op[Deleter] = NoOp
    /\ Alone \/ \A q, r \in Requests : op[q].kind = "enable" /\ op[q].s = op[r].s

MetInit == TunnelInit /\ met = FALSE
MetNext == TunnelNext /\ met' = (met \/ ~Alone')
MetSpec == MetInit /\ [][MetNext]_<<tunnelVars, met>>

\* Two enablings of a server and nothing else, or four requests one by one; a restart after three.
Bounded ==
    /\ crashes = 0 \/ requests < MaxRequests
    /\ met => OneServer
    /\ ~met => op[r2] = NoOp
===============================================================================
