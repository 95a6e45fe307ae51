-------------------------------- MODULE Alerts --------------------------------
(***************************************************************************)
(* The alerts of one host.  Once a minute the monitoring job reads the     *)
(* host's rules, pulls its agent, probes Wings from outside, compares the  *)
(* answers with the samples of earlier minutes, raises, resolves and mails *)
(* alerts, and commits everything at the end.  The session does not flush  *)
(* by itself: a check sees the rows of its own minute only after a new     *)
(* alert has been written.  Administrators change the rules, resolve       *)
(* alerts and refresh the host while a minute is under way.                *)
(***************************************************************************)
EXTENDS Integers, Sequences, FiniteSets

CONSTANTS
    Kinds,        \* kinds of host tried, of "wings_node" and "gateway"
    Pulls,        \* what a minute may find
    RuleSets,     \* sets of alert types an administrator switches off
    Sustain,      \* sustain_min of the two availability rules
    Window,       \* sustain_min of the CPU rule, in minutes
    Cooldown,     \* cooldown_min, in minutes
    MaxAdminSteps \* what administrators do in all

AvailabilityTypes == {"node_offline", "agent_only_down", "wings_only_down"}
AlertTypes == AvailabilityTypes \cup {"cpu_high", "disk_high", "disk_critical", "network_down", "clash_down"}
\* agent: the pull was answered; wings: the agent saw Wings; public: the probe from outside reached it;
\* clash: the agent's own probe of its proxy; "none" where nothing was measured.
Pull == [agent : BOOLEAN, wings : BOOLEAN, public : {"ok", "failed", "none"},
         cpu : {"none", "normal", "above"}, disk : {"none", "normal", "high", "critical"},
         clash : {"ok", "failed", "none"}]
MinSamples == 3                  \* of _check_sustained_above
LastN == IF Sustain < 2 THEN 2 ELSE Sustain
History == IF LastN > Window THEN LastN ELSE Window   \* committed rows that are kept

ASSUME AlertAssumption ==
    /\ Kinds \subseteq {"wings_node", "gateway"} /\ Pulls \subseteq Pull
    /\ RuleSets \subseteq SUBSET AlertTypes /\ {} \in RuleSets
    /\ {Sustain, Window, Cooldown, MaxAdminSteps} \subseteq Nat

VARIABLES
    kind, enabled,  \* of the host
    off,            \* alert types its rules disable
    samples,        \* committed rows, the newest first
    visible,        \* how many of them are less than five minutes old
    open,           \* types with an unresolved alert
    quiet,          \* minutes until an open alert may be mailed again
    cycle,          \* the monitoring job
    adminSteps

alertVars == <<kind, enabled, off, samples, visible, open, quiet, cycle, adminSteps>>

NoCycle == [on |-> FALSE, off |-> {}, open |-> {}, later |-> 0]

AlertTypeOK ==
    /\ kind \in Kinds /\ enabled \in BOOLEAN /\ off \in RuleSets
    /\ samples \in Seq(Pull) /\ Len(samples) <= History + cycle.later
    /\ visible \in 0..Window /\ visible <= Len(samples)
    /\ open \subseteq AlertTypes /\ quiet \in [AlertTypes -> 0..Cooldown]
    /\ cycle \in [on : BOOLEAN, off : RuleSets, open : SUBSET AlertTypes, later : 0..MaxAdminSteps]
    /\ adminSteps \in 0..MaxAdminSteps

AlertInit ==
    /\ kind \in Kinds /\ enabled = TRUE /\ off = {}
    /\ samples = <<>> /\ visible = 0
    /\ open = {} /\ quiet = [t \in AlertTypes |-> 0]
    /\ cycle = NoCycle /\ adminSteps = 0

-----------------------------------------------------------------------------
(* What the checks read. *)

NewestRows(n, rows) == SubSeq(rows, 1, IF n < Len(rows) THEN n ELSE Len(rows))
CountRows(rows, Test(_)) == Cardinality({i \in 1..Len(rows) : Test(rows[i])})
\* The rows of the transaction's snapshot: without those refreshed since.
SnapshotRows == SubSeq(samples, cycle.later + 1, Len(samples))
SnapshotVisible == IF visible > cycle.later THEN visible - cycle.later ELSE 0

\* What later checks read of a stored pull.
Row(p) == [p EXCEPT !.wings = FALSE, !.disk = "none"]

Unanswered(row) == ~row.agent
Measured(row) == row.cpu # "none"
Above(row) == row.cpu = "above"

\* Seeded defect: a single missed pull is a row of failures.
FirstMissIsEnough(rows) ==
    LET last == NewestRows(LastN, rows)
    IN  Len(last) >= 1 /\ 10 * CountRows(last, Unanswered) >= 8 * Len(last)

_check_offline_sustained(rows) ==
    LET last == NewestRows(LastN, rows)
    IN  Len(last) >= 2 /\ 10 * CountRows(last, Unanswered) >= 8 * Len(last)

\* recent: the rows of the window, the minute's own among them once flushed.
_check_sustained_above(recent) ==
    LET rows == SelectSeq(recent, Measured)
    IN  Len(rows) >= MinSamples /\ 10 * CountRows(rows, Above) >= 8 * Len(rows)

(* One minute's work on the alerts: s.open and s.quiet as they become,     *)
(* s.flushed once a new alert was written, s.mail whether mails go out.    *)

_maybe_notify(s, t) ==
    IF s.mail /\ s.quiet[t] = 0 THEN [s EXCEPT !.quiet[t] = Cooldown] ELSE s

_auto_resolve(s, t) == [s EXCEPT !.open = @ \ {t}, !.quiet[t] = 0]
ResolveAll(s, types) ==
    [s EXCEPT !.open = @ \ types, !.quiet = [t \in AlertTypes |-> IF t \in types THEN 0 ELSE @[t]]]

_raise_or_skip(s, t) ==
    IF t \in s.off THEN _auto_resolve(s, t)
    ELSE IF t \in s.open THEN _maybe_notify(s, t)
    ELSE _maybe_notify([s EXCEPT !.open = @ \cup {t}, !.flushed = TRUE], t)

RaiseIf(condition, s, t) == IF condition THEN _raise_or_skip(s, t) ELSE s
Verdict(s, t, bad) == IF bad THEN _raise_or_skip(s, t) ELSE _auto_resolve(s, t)

CheckAvailability(s, p) ==
    LET sustained == _check_offline_sustained(SnapshotRows)
        wingsUp == p.wings \/ p.public = "ok"
        only == CASE ~p.agent /\ (kind # "wings_node" \/ wingsUp) -> "agent_only_down"
                  [] ~p.agent -> "node_offline"
                  [] kind = "wings_node" /\ ~wingsUp -> "wings_only_down"
                  [] OTHER -> "none"
        gate == only = "wings_only_down" \/ sustained
    IN  ResolveAll(RaiseIf(only # "none" /\ gate, s, only), AvailabilityTypes \ {only})

CheckCpu(s, p) ==
    LET seen == IF s.flushed THEN <<p>> \o NewestRows(SnapshotVisible, SnapshotRows)
                ELSE NewestRows(SnapshotVisible, SnapshotRows)
    IN  IF Above(p) THEN RaiseIf(_check_sustained_above(NewestRows(Window, seen)), s, "cpu_high")
        ELSE _auto_resolve(s, "cpu_high")

CheckDisk(s, p) ==
    CASE p.disk = "none"     -> s
      [] p.disk = "critical" -> _raise_or_skip(s, "disk_critical")
      [] p.disk = "high"     -> _auto_resolve(_raise_or_skip(s, "disk_high"), "disk_critical")
      [] p.disk = "normal"   -> ResolveAll(s, {"disk_high", "disk_critical"})

\* The newest visible result of a probe, "none" if there is none.
Latest(rows, probe) ==
    LET known == SelectSeq(rows, LAMBDA row : row[probe] # "none")
    IN  IF known = <<>> THEN "none" ELSE known[1][probe]
ProbeVerdict(s, t, result) == IF result = "none" THEN s ELSE Verdict(s, t, result = "failed")

_check_probe_alerts(s, p) ==
    LET rows == (IF s.flushed THEN <<p>> ELSE <<>>) \o NewestRows(SnapshotVisible, SnapshotRows)
    IN  ProbeVerdict(ProbeVerdict(s, "network_down", Latest(rows, "public")),
                     "clash_down", Latest(rows, "clash"))

_check_alerts(s, p) == CheckDisk(CheckCpu(CheckAvailability(s, p), p), p)

-----------------------------------------------------------------------------
(* The monitoring job. *)

\* Seeded defect: the time since the last mail is compared without its end.
StartWithoutFloor ==
    /\ ~cycle.on /\ enabled
    /\ cycle' = [on |-> TRUE, off |-> off, open |-> open, later |-> 0]
    /\ quiet' = [t \in AlertTypes |-> quiet[t] - 1]
    /\ UNCHANGED <<kind, enabled, off, samples, visible, open, adminSteps>>

\* The read of hosts, rules and agents' addresses; with it the transaction's snapshot.
CycleStart ==
    /\ ~cycle.on /\ enabled
    /\ cycle' = [on |-> TRUE, off |-> off, open |-> open, later |-> 0]
    /\ quiet' = [t \in AlertTypes |-> IF quiet[t] > 0 THEN quiet[t] - 1 ELSE 0]
    /\ UNCHANGED <<kind, enabled, off, samples, visible, open, adminSteps>>

MinuteOf(p, mail) ==
    _check_probe_alerts(_check_alerts([open |-> cycle.open, quiet |-> quiet, off |-> cycle.off,
                                       flushed |-> FALSE, mail |-> mail], p), p)

\* Pull, probe, check, mail and commit.  An alert resolved by hand since the snapshot stays resolved.
CycleCommit(p, mail) ==
    /\ cycle.on
    /\ kind # "wings_node" => p.public = "none"
    /\ samples' = NewestRows(History, SubSeq(samples, 1, cycle.later) \o <<Row(p)>> \o SnapshotRows)
    /\ visible' = IF visible < Window THEN visible + 1 ELSE Window
    /\ cycle' = NoCycle
    /\ LET s == MinuteOf(p, mail)
           byHand == cycle.open \ open
       IN  /\ open' = s.open \ byHand
           /\ quiet' = [t \in AlertTypes |-> IF t \in byHand THEN 0 ELSE s.quiet[t]]
    /\ UNCHANGED <<kind, enabled, off, adminSteps>>

\* A restart, or a statement the database refuses, before the commit: nothing of the minute stays.
CycleLost ==
    /\ cycle.on /\ cycle' = NoCycle
    /\ samples' = NewestRows(History, samples)
    /\ UNCHANGED <<kind, enabled, off, visible, open, quiet, adminSteps>>

\* Minutes without a committed cycle: what was visible is older than five minutes.
MinutesPass ==
    /\ ~cycle.on /\ visible > 0 /\ visible' = 0
    /\ quiet' \in {quiet, [t \in AlertTypes |-> 0]}
    /\ UNCHANGED <<kind, enabled, off, samples, open, cycle, adminSteps>>

-----------------------------------------------------------------------------
(* Administrators. *)

AdminStep == adminSteps < MaxAdminSteps /\ adminSteps' = adminSteps + 1

put_host_alerts ==
    /\ AdminStep
    /\ off' \in RuleSets
    /\ UNCHANGED <<kind, enabled, samples, visible, open, quiet, cycle>>

resolve_alert(t) ==
    /\ AdminStep
    /\ t \in open /\ open' = open \ {t} /\ quiet' = [quiet EXCEPT ![t] = 0]
    /\ UNCHANGED <<kind, enabled, off, samples, visible, cycle>>

patch_host_enabled ==
    /\ AdminStep
    /\ enabled' = ~enabled
    /\ UNCHANGED <<kind, off, samples, visible, open, quiet, cycle>>

\* One pull at once: only an answer is stored, without the probe from outside and the agent's probes.
refresh_agent_pull(p) ==
    /\ AdminStep
    /\ kind = "wings_node" /\ p.agent
    /\ cycle' = IF cycle.on THEN [cycle EXCEPT !.later = @ + 1] ELSE cycle
    /\ samples' = NewestRows(History + cycle'.later,
                             <<[Row(p) EXCEPT !.public = "none", !.clash = "none"]>> \o samples)
    /\ visible' = IF visible < Window THEN visible + 1 ELSE Window
    /\ UNCHANGED <<kind, enabled, off, open, quiet>>

AlertNext ==
    \/ CycleStart
    \/ \E p \in Pulls, mail \in BOOLEAN : CycleCommit(p, mail)
    \/ CycleLost
    \/ MinutesPass
    \/ put_host_alerts
    \/ \E t \in AlertTypes : resolve_alert(t)
    \/ patch_host_enabled
    \/ \E p \in Pulls : refresh_agent_pull(p)

AlertSpec == AlertInit /\ [][AlertNext]_alertVars

-----------------------------------------------------------------------------
(* Properties. *)

Unanswereds(n, rows) == Len(rows) >= n /\ \A i \in 1..n : ~rows[i].agent

\* What the minute's own answers are cause to alert about.
Cause(p) == {t \in AlertTypes :
    CASE t = "node_offline"    -> kind = "wings_node" /\ ~p.agent /\ p.public # "ok"
      [] t = "agent_only_down" -> ~p.agent /\ (kind # "wings_node" \/ p.public = "ok")
      [] t = "wings_only_down" -> kind = "wings_node" /\ p.agent /\ ~p.wings /\ p.public # "ok"
      [] t = "cpu_high"        -> p.cpu = "above"
      [] t = "disk_high"       -> p.disk = "high"
      [] t = "disk_critical"   -> p.disk = "critical"
      [] t = "network_down"    -> p.public = "failed"
      [] t = "clash_down"      -> p.clash = "failed"}
\* Types that alert at the first sign, those that wait for a row of failures, those a minute late.
AtOnce == {"wings_only_down", "disk_high", "disk_critical"}
Sustained == {"node_offline", "agent_only_down"}
Lagging == {"network_down", "clash_down"}
Repeats(t, p) == SnapshotVisible > 0 /\ LET r == SnapshotRows[1] IN
    CASE t = "network_down" -> r.public = p.public /\ p.public # "none"
      [] t = "clash_down"   -> r.clash = p.clash /\ p.clash # "none"
Bad(p) == (Cause(p) \cap AtOnce)
    \cup {t \in Cause(p) \cap Sustained : Unanswereds(LastN + 1, <<p>> \o SnapshotRows)}
    \cup {t \in Cause(p) \cap Lagging : Repeats(t, p)}

\* A committed minute leaves the alerts its pulls call for: at most one of the three availability
\* alerts, none of an agent that answers, a new one only after LastN + 1 unanswered pulls in a row, and
\* then surely; a probe's alert at the latest a minute after the probe; a CPU alert only while the
\* CPU is high, raised after MinSamples such pulls; and what is bad is open and, if mails go
\* out, mailed, whatever became of earlier mails.  Disabled types are not raised, and what an
\* administrator resolved meanwhile stays resolved.
MinuteJudged(p, mail) ==
    LET fresh == open' \ cycle.open
        due == (Bad(p) \ cycle.off) \ (cycle.open \ open)
    IN  /\ Cardinality(open' \cap AvailabilityTypes) <= 1
        /\ open' \cap (AvailabilityTypes \cup {"cpu_high"}) \subseteq Cause(p)
        /\ fresh \cap Sustained # {} => Unanswereds(LastN + 1, <<p>> \o SnapshotRows)
        /\ "cpu_high" \in fresh => CountRows(<<p>> \o SnapshotRows, Above) >= MinSamples
        /\ due \subseteq open' /\ fresh \cap cycle.off = {}
        /\ mail => \A t \in due : quiet'[t] > 0
        /\ p.disk = "normal" => {"disk_high", "disk_critical"} \cap open' = {}
        /\ p.disk = "high" => "disk_critical" \notin open'
        /\ \A t \in Lagging : t \notin Cause(p) /\ Repeats(t, p) => t \notin open'
AlertsMatchPulls ==
    [][\A p \in Pulls, mail \in BOOLEAN : CycleCommit(p, mail) => MinuteJudged(p, mail)]_alertVars

=============================================================================
