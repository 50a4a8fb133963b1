----------------------------- MODULE JobService -----------------------------
(* What IJobSystem promises its caller (engine/jobs/job_system.hpp and       *)
(* docs/architecture/jobs.md), with no threads, locks or call stacks: an      *)
(* accepted job is owed exactly one result; results reach the bounded mailbox *)
(* numbered in completion order and leave it only through a drain; a result   *)
(* may be given up only while the service shuts down with its mailbox full;   *)
(* and the service has shut down only when it owes nothing.  ThreadPool is    *)
(* shown to implement it.                                                     *)
EXTENDS Naturals, Sequences, SequencesExt

CONSTANTS Jobs,       \* the job ids the service may hand out
          Capacity    \* bound of the completed-result mailbox

VARIABLES owed,       \* accepted jobs whose result is not published yet
          mailbox,    \* published results waiting for a drain
          delivered,  \* every result a drain has returned, in order
          dropped,    \* jobs whose result was given up during shutdown
          phase       \* "open", "closing" or "closed"

vars == <<owed, mailbox, delivered, dropped, phase>>

Results == [job : Jobs, order : Nat \ {0}]

Published == {result.job : result \in ToSet(delivered \o mailbox)}

Init ==
    /\ owed = {}
    /\ mailbox = <<>>
    /\ delivered = <<>>
    /\ dropped = {}
    /\ phase = "open"

Accept(job) ==
    /\ phase = "open"
    /\ job \notin owed \cup dropped \cup Published
    /\ owed' = owed \cup {job}
    /\ UNCHANGED <<mailbox, delivered, dropped, phase>>

Publish(job) ==
    /\ phase # "closed"
    /\ job \in owed
    /\ Len(mailbox) < Capacity
    /\ owed' = owed \ {job}
    /\ mailbox' = Append(mailbox,
                         [job |-> job, order |-> Len(delivered) + Len(mailbox) + 1])
    /\ UNCHANGED <<delivered, dropped, phase>>

GiveUp(job) ==
    /\ phase = "closing"
    /\ job \in owed
    /\ Len(mailbox) >= Capacity
    /\ owed' = owed \ {job}
    /\ dropped' = dropped \cup {job}
    /\ UNCHANGED <<mailbox, delivered, phase>>

Drain ==
    /\ phase # "closed"
    /\ mailbox' = <<>>
    /\ delivered' = delivered \o mailbox
    /\ UNCHANGED <<owed, dropped, phase>>

Close ==
    /\ phase = "open"
    /\ phase' = "closing"
    /\ UNCHANGED <<owed, mailbox, delivered, dropped>>

Closed ==
    /\ phase = "closing"
    /\ owed = {}
    /\ phase' = "closed"
    /\ UNCHANGED <<owed, mailbox, delivered, dropped>>

Next ==
    \/ \E job \in Jobs : Accept(job) \/ Publish(job) \/ GiveUp(job)
    \/ Drain
    \/ Close
    \/ Closed

Spec == Init /\ [][Next]_vars

=============================================================================
