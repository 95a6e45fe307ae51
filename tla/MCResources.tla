------------------------------ MODULE MCResources ------------------------------
(***************************************************************************)
(* What hangs on a server: its LLM key, its ports and the mails about it,  *)
(* for TLC.  The three share no state, so a behaviour moves one of them.   *)
(***************************************************************************)
EXTENDS LlmKeys, ServerPorts, Notices, TLC

CONSTANTS s1, s2, r1, r2, o1, o2, a1, c1, c2

Symmetric == Permutations({r1, r2}) \cup Permutations({o1, o2})

ResourceInit == LlmInit /\ PortInit /\ NoticeInit

\* One of the initial states of Notices, the others are for Notices alone.
NoNotices ==
    /\ calendar = [day |-> 1, ran |-> {}] /\ used = [faults |-> 0, changes |-> 0] /\ grace = DefaultGrace
    /\ \A s \in NoticeServers :
         server[s] = [st |-> "installing", installed |-> FALSE, exp |-> 1, trial |-> TRUE, email |-> TRUE]
KeysUntouched == budget.requests = 0 /\ budget.syncs = 0
PortsUntouched == begun.requests = 0 /\ port = [p \in Ports |-> [there |-> TRUE, owner |-> NoOne]]

\* While an administrator's request is under way nobody else's is, and the node keeps its ports:
\* what they do to each other is a hazard the README names.
AdminsAlone ==
    \A a \in Admins : job'[a] # Idle =>
        /\ \A b \in Placers \ {a} : job'[b] = Idle
        /\ job[a] # Idle => \A p \in Ports : port'[p].there = port[p].there

ResourceNext ==
    \/ NoNotices /\ PortsUntouched /\ LlmNext /\ UNCHANGED <<portVars, noticeVars>>
    \/ NoNotices /\ KeysUntouched /\ PortNext /\ AdminsAlone /\ UNCHANGED <<llmVars, noticeVars>>
    \/ KeysUntouched /\ PortsUntouched /\ NoticeNext /\ UNCHANGED <<llmVars, portVars>>

ResourceSpec == ResourceInit /\ [][ResourceNext]_<<llmVars, portVars, noticeVars>>

\* The mails of an installation, or those of the reminder jobs; the nightly batch, the owners and the
\* administrators beside either.
NoInstallMails == scan = NoScan /\ \A s \in NoticeServers : notice[s] = NoNotice
OneKindOfMail == NoInstallMails \/ calendar.ran \subseteq {"night"}

\* Types and shapes of the parts: one account for one key, a key for servers that are there, a
\* primary port for one server, a port for servers that are there.
ResourceTypeOK == LlmTypeOK /\ PortTypeOK /\ NoticeTypeOK
===============================================================================
