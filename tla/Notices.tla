-------------------------------- MODULE Notices --------------------------------
(***************************************************************************)
(* What the owners of servers are told by mail: that a server is installed *)
(* (a scan every minute, with retries), and, from the three daily reminder *)
(* jobs, that it expires tomorrow, was stopped, is deleted tomorrow.  The  *)
(* nightly batch stops and deletes servers at an hour of its own.  The     *)
(* jobs' process may restart, a mail may fail or arrive although its       *)
(* sending failed, and owners and administrators change rows meanwhile.    *)
(***************************************************************************)
EXTENDS Integers, FiniteSets

CONSTANTS
    NoticeServers,
    Delays,         \* length of _RETRY_DELAYS
    Graces,         \* values of AUTOMATION_DELETE_DAYS tried
    DefaultGrace,   \* its default
    LastDay, MaxNoticeFaults, MaxChanges

ASSUME NoticeAssumption ==
    /\ {Delays, MaxNoticeFaults, MaxChanges} \subseteq Nat
    /\ Graces \cup {DefaultGrace, LastDay} \subseteq Nat \ {0}

VARIABLES
    server,    \* the panel's rows, their expiration date and their owner's address
    notice,    \* the install-notify columns of manager_server_meta
    scan,      \* the scan under way
    remind,    \* what each reminder job has still to mail, or "idle"
    calendar,  \* the day, and the daily jobs that had their hour
    grace,     \* AUTOMATION_DELETE_DAYS
    mails,     \* history: install mails that left
    strays,    \* history: install mails that left unrecorded
    promised,  \* history: the day of deletion the owner was told last, 0 if none
    excused,   \* history: servers whose warning could not come
    used       \* faults and changes so far

noticeVars == <<server, notice, scan, remind, calendar, grace, mails, strays, promised, excused, used>>

Reminders == {"expiry", "expired", "pre_delete"}
Days == 1..(LastDay + 1)
Nobody == "nobody"
NoScan == [todo |-> {}, read |-> [s \in NoticeServers |-> 0], at |-> Nobody, pc |-> "idle"]
NoNotice == [done |-> FALSE, attempts |-> 0, waits |-> FALSE]
Present(s) == server[s].st # "gone"

NoticeTypeOK ==
    /\ server \in [NoticeServers -> [st : {"installing", "null", "suspended", "gone"}, installed : BOOLEAN,
                                     exp : Days, trial : BOOLEAN, email : BOOLEAN]]
    /\ notice \in [NoticeServers -> [done : BOOLEAN, attempts : 0..(Delays + 1), waits : BOOLEAN]]
    /\ scan \in [todo : SUBSET NoticeServers, read : [NoticeServers -> 0..(Delays + 1)],
                 at : NoticeServers \cup {Nobody}, pc : {"idle", "next", "mark", "fail"}]
    /\ remind \in [Reminders -> SUBSET NoticeServers]
    /\ calendar \in [day : 1..LastDay, ran : SUBSET (Reminders \cup {"night"})]
    /\ grace \in Graces
    /\ mails \in [NoticeServers -> Nat] /\ strays \in [NoticeServers -> Nat]
    /\ promised \in [NoticeServers -> 0..(LastDay + 1)] /\ excused \subseteq NoticeServers
    /\ used \in [faults : 0..MaxNoticeFaults, changes : 0..MaxChanges]

Due(exp, g) == exp + g - 1   \* the day of the mail that announces the deletion
\* Its mail run is over, or has made its list, already.
TooLate(exp, g) == Due(exp, g) < calendar.day \/ (Due(exp, g) = calendar.day /\ "pre_delete" \in calendar.ran)

NoticeInit ==
    /\ server \in [NoticeServers -> [st : {"installing"}, installed : {FALSE}, exp : Days,
                                     trial : BOOLEAN, email : BOOLEAN]]
    /\ notice = [s \in NoticeServers |-> NoNotice]
    /\ scan = NoScan /\ remind = [r \in Reminders |-> {}]
    /\ calendar = [day |-> 1, ran |-> {}] /\ grace \in Graces
    /\ mails = [s \in NoticeServers |-> 0] /\ strays = [s \in NoticeServers |-> 0]
    /\ promised = [s \in NoticeServers |-> 0] /\ excused = {s \in NoticeServers : ~server[s].email}
    /\ used = [faults |-> 0, changes |-> 0]

NoticeFault == used.faults < MaxNoticeFaults /\ used' = [used EXCEPT !.faults = @ + 1]
Change == used.changes < MaxChanges /\ used' = [used EXCEPT !.changes = @ + 1]

-----------------------------------------------------------------------------
(* server_install_notify *)

Eligible == {s \in NoticeServers : server[s].installed /\ server[s].st = "null"
                                   /\ ~notice[s].done /\ ~notice[s].waits}

run_install_notify_scan ==
    /\ scan.pc = "idle" /\ Eligible # {}
    /\ scan' = [NoScan EXCEPT !.todo = Eligible, !.read = [s \in NoticeServers |-> notice[s].attempts], !.pc = "next"]
    /\ UNCHANGED <<server, notice, remind, calendar, grace, mails, strays, promised, excused, used>>

\* EmailClient.send, three attempts at most: the mail leaves and is reported sent; does not leave; or
\* leaves and is reported failed, or left once more before it was reported sent.
Sent(s, pc) == mails' = [mails EXCEPT ![s] = @ + 1] /\ UNCHANGED strays /\ pc = "mark"
NotSent(pc) == UNCHANGED <<mails, strays>> /\ pc = "fail"
SentAstray(s, pc) ==
    /\ strays' = [strays EXCEPT ![s] = @ + 1]
    /\ \/ mails' = [mails EXCEPT ![s] = @ + 1] /\ pc = "fail"
       \/ mails' = [mails EXCEPT ![s] = @ + 2] /\ pc = "mark"

ScanNext(s) ==
    /\ scan.pc = "next" /\ s \in scan.todo
    /\ \E pc \in {"mark", "fail"} :
           /\ scan' = [scan EXCEPT !.todo = @ \ {s}, !.at = s, !.pc = pc]
           /\ IF ~server[s].email THEN pc = "mark" /\ UNCHANGED <<mails, strays, used>>
              ELSE \/ (Sent(s, pc) \/ NotSent(pc)) /\ UNCHANGED used
                   \/ SentAstray(s, pc) /\ NoticeFault
    /\ UNCHANGED <<server, notice, remind, calendar, grace, promised, excused>>

\* The row of a server deleted meanwhile refuses its columns, and the scan ends with that error.
Recorded(n) ==
    LET s == scan.at IN
    IF Present(s) THEN /\ notice' = [notice EXCEPT ![s] = n]
                       /\ scan' = [scan EXCEPT !.at = Nobody, !.pc = "next"]
    ELSE scan' = NoScan /\ UNCHANGED notice

_mark_notified ==
    /\ scan.pc = "mark" /\ Recorded([notice[scan.at] EXCEPT !.done = TRUE])
    /\ UNCHANGED <<server, remind, calendar, grace, mails, strays, promised, excused, used>>

\* Seeded defect: the last delay counts as the end of the budget.
ExhaustedEarly(attempts) == attempts >= Delays
Exhausted(attempts) == attempts > Delays

_record_notify_failure ==
    LET attempts == scan.read[scan.at] + 1 IN
    /\ scan.pc = "fail"
    /\ Recorded([done |-> Exhausted(attempts), attempts |-> attempts, waits |-> ~Exhausted(attempts)])
    /\ UNCHANGED <<server, remind, calendar, grace, mails, strays, promised, excused, used>>

ScanEnds ==
    /\ scan.pc = "next" /\ scan.todo = {} /\ scan' = NoScan
    /\ UNCHANGED <<server, notice, remind, calendar, grace, mails, strays, promised, excused, used>>

RetryDue(s) ==
    /\ notice[s].waits /\ notice' = [notice EXCEPT ![s].waits = FALSE]
    /\ UNCHANGED <<server, scan, remind, calendar, grace, mails, strays, promised, excused, used>>

-----------------------------------------------------------------------------
(* The daily jobs. *)

\* SettingsStore.get: the row's value, or the default when the database refuses the query.
SettingRead(value) ==
    \/ value = grace /\ UNCHANGED <<used, excused>>
    \/ value = DefaultGrace /\ value # grace /\ NoticeFault /\ excused' = NoticeServers

Listed(reminder, g) == {s \in NoticeServers : Present(s) /\
    CASE reminder = "expiry"     -> server[s].exp = calendar.day + 1
      [] reminder = "expired"    -> server[s].exp = calendar.day - 1 /\ server[s].st = "suspended" /\ ~server[s].trial
      [] reminder = "pre_delete" -> server[s].exp = calendar.day - (g - 1)}

run_reminder_task(reminder) ==
    /\ reminder \notin calendar.ran
    /\ calendar' = [calendar EXCEPT !.ran = @ \cup {reminder}]
    /\ \E g \in Graces \cup {DefaultGrace} :
           /\ IF reminder = "pre_delete" THEN SettingRead(g) ELSE g = grace /\ UNCHANGED <<used, excused>>
           /\ remind' = [remind EXCEPT ![reminder] = Listed(reminder, g)]
    /\ UNCHANGED <<server, notice, scan, grace, mails, strays, promised>>

\* One server's mail.  Owners without an address are passed over.
_send_reminder(reminder, s) ==
    /\ s \in remind[reminder] /\ remind' = [remind EXCEPT ![reminder] = @ \ {s}]
    /\ IF reminder = "pre_delete" /\ server[s].email
       THEN \/ promised' = [promised EXCEPT ![s] = calendar.day + 1] /\ UNCHANGED <<excused, used>>
            \/ NoticeFault /\ excused' = excused \cup {s} /\ UNCHANGED promised
       ELSE UNCHANGED <<promised, excused, used>>
    /\ UNCHANGED <<server, notice, scan, calendar, grace, mails, strays>>

SuspendCandidates == {s \in NoticeServers : server[s].st = "null" /\ server[s].exp < calendar.day /\ ~server[s].trial}
ExpiredBeforeOrOn(day) == {s \in NoticeServers : Present(s) /\ server[s].exp <= day /\ ~server[s].trial}
TrialExpired == {s \in NoticeServers : Present(s) /\ server[s].exp < calendar.day /\ server[s].trial}

\* What the batch lists; it may fail on some of it.
\* Seeded defect: the grace period counts from the day after.
LongExpiredEarly(g) == ExpiredBeforeOrOn(calendar.day - g + 1)
LongExpired(g) == ExpiredBeforeOrOn(calendar.day - g)

\* The meta rows go with the servers; what a reminder job has loaded stays loaded.
Gone(servers) == notice' = [s \in NoticeServers |-> IF s \in servers THEN NoNotice ELSE notice[s]]

DailyLifecycle(suspended, deleted) ==
    /\ "night" \notin calendar.ran
    /\ calendar' = [calendar EXCEPT !.ran = @ \cup {"night"}]
    /\ suspended \subseteq SuspendCandidates
    /\ \E g \in Graces \cup {DefaultGrace} : SettingRead(g) /\ deleted \subseteq LongExpired(g) \cup TrialExpired
    /\ server' = [s \in NoticeServers |->
           IF s \in deleted THEN [server[s] EXCEPT !.st = "gone"]
           ELSE IF s \in suspended THEN [server[s] EXCEPT !.st = "suspended"] ELSE server[s]]
    /\ Gone(deleted)
    /\ UNCHANGED <<scan, remind, grace, mails, strays, promised>>

\* Midnight.  A job that missed its hour does not make up for it.
Midnight ==
    /\ calendar.day < LastDay /\ \A r \in Reminders : remind[r] = {}
    /\ calendar' = [day |-> calendar.day + 1, ran |-> {}]
    /\ excused' = excused \cup (IF "pre_delete" \in calendar.ran THEN {}
                                ELSE {s \in NoticeServers : Due(server[s].exp, grace) = calendar.day})
    /\ UNCHANGED <<server, notice, scan, remind, grace, mails, strays, promised, used>>

-----------------------------------------------------------------------------
(* The others. *)

\* The jobs' process restarts: the scan and the mails still to be sent are gone.
JobsRestart ==
    /\ NoticeFault /\ scan' = NoScan /\ remind' = [r \in Reminders |-> {}]
    /\ strays' = IF scan.pc = "mark" /\ server[scan.at].email THEN [strays EXCEPT ![scan.at] = @ + 1] ELSE strays
    /\ excused' = excused \cup remind["pre_delete"]
    /\ UNCHANGED <<server, notice, calendar, grace, mails, promised>>

InstallEnds(s) ==
    /\ server[s].st = "installing"
    /\ server' = [server EXCEPT ![s].st = "null", ![s].installed = TRUE]
    /\ UNCHANGED <<notice, scan, remind, calendar, grace, mails, strays, promised, excused, used>>

\* A reinstallation clears installed_at, never install_notified_at.
Reinstall(s) ==
    /\ server[s].st = "null" /\ server[s].installed /\ Change
    /\ server' = [server EXCEPT ![s].st = "installing", ![s].installed = FALSE]
    /\ UNCHANGED <<notice, scan, remind, calendar, grace, mails, strays, promised, excused>>

\* A renewal, or an administrator's date: a stopped server starts again.
SetExpiration(s, day) ==
    /\ Present(s) /\ day # server[s].exp /\ Change
    /\ server' = [server EXCEPT ![s].exp = day, ![s].st = IF @ = "suspended" THEN "null" ELSE @]
    /\ promised' = [promised EXCEPT ![s] = 0]
    /\ excused' = IF server[s].email /\ ~TooLate(day, grace) THEN excused \ {s} ELSE excused \cup {s}
    /\ UNCHANGED <<notice, scan, remind, calendar, grace, mails, strays>>

ServerDeleted(s) ==
    /\ Present(s) /\ Change
    /\ server' = [server EXCEPT ![s].st = "gone"] /\ Gone({s})
    /\ UNCHANGED <<scan, remind, calendar, grace, mails, strays, promised, excused>>

automation_save(g) ==
    /\ g # grace /\ Change /\ grace' = g
    /\ excused' = excused \cup {s \in NoticeServers : TooLate(server[s].exp, g)}
    /\ UNCHANGED <<server, notice, scan, remind, calendar, mails, strays, promised>>

NoticeNext ==
    \/ run_install_notify_scan \/ _mark_notified \/ _record_notify_failure \/ ScanEnds
    \/ \E s \in NoticeServers : ScanNext(s) \/ RetryDue(s) \/ InstallEnds(s) \/ Reinstall(s) \/ ServerDeleted(s)
    \/ \E r \in Reminders : run_reminder_task(r) \/ \E s \in NoticeServers : _send_reminder(r, s)
    \/ \E suspended, deleted \in SUBSET NoticeServers : DailyLifecycle(suspended, deleted)
    \/ Midnight \/ JobsRestart
    \/ \E s \in NoticeServers, day \in Days : SetExpiration(s, day)
    \/ \E g \in Graces : automation_save(g)

NoticeSpec == NoticeInit /\ [][NoticeNext]_noticeVars

-----------------------------------------------------------------------------
(* Properties. *)

\* An owner learns once that the server is installed, whatever reinstallations follow, but for mails
\* that left unrecorded; and no server is given up before the mail left or every delay was tried.
InstallToldOnce ==
    \A s \in NoticeServers :
        /\ mails[s] <= 1 + strays[s]
        /\ notice[s].done => ~server[s].email \/ mails[s] > 0 \/ notice[s].attempts = Delays + 1

\* The nightly batch deletes no server whose owner was not told the day, or was told a later one, unless
\* the mail run of the day was missed or failed, or the date or the grace period was set when that
\* run was over.  (Trial servers are deleted without a grace period.)
DeletionAnnounced ==
    [][\A suspended, deleted \in SUBSET NoticeServers : DailyLifecycle(suspended, deleted) =>
           \A s \in deleted : server[s].trial \/ s \in excused' \/ promised[s] \in 1..calendar.day]_noticeVars
===============================================================================
