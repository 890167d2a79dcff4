------------------------------ MODULE Tickets ------------------------------
(***************************************************************************)
(* The tickets of a split issue (ci/issue-agent/run.mjs, publishSplit and  *)
(* unblock; scope.mjs): approving the plan opens its tickets as sub-issues *)
(* and labels those that nothing blocks; a labelled ticket is built, or    *)
(* loses its label while something still blocks it; when a ticket closes,  *)
(* `unblock` labels those that were waiting for it.                        *)
(*                                                                         *)
(*   split:   next -> link -> next ... -> over, or failed and run again    *)
(*   run:     due -> read -> [unlabel | build]                             *)
(*   unblock: due -> read -> label                                         *)
(*                                                                         *)
(* An unblock has no queue: one runs for every ticket that closes, at the  *)
(* same time as the others and as the tickets' runs.  Not modelled: the    *)
(* brief of a ticket edited by hand, assignees and the labels of people,   *)
(* pull requests, a repository where the labels of a job start no run.     *)
(***************************************************************************)
EXTENDS Integers, Sequences, FiniteSets

CONSTANTS
  Blockers,     \* the tickets in ticketOrder, each as the set of those that block it
  MaxIssues,    \* bound: the issues opened
  MaxTicketActs \* bound: what people do, and what fails

ASSUME TicketsAssumption ==
  /\ Blockers \in Seq(SUBSET Nat)
  /\ \A t \in 1..Len(Blockers) : Blockers[t] \subseteq 1..(t - 1)
  /\ {MaxIssues, MaxTicketActs} \subseteq Nat

VARIABLES
  issues, \* the tickets opened: GitHub's issues, by number
  split,  \* how far publishSplit is: a stage
  runs,   \* a ticket's run: a stage
  closed, \* tickets whose closing no unblock has seen yet
  waking, \* what the unblocks under way found to start
  missed, \* tickets that nobody will start any more, and whose fault it is (Properties)
  acts

ticketsVars == <<issues, split, runs, closed, waking, missed, acts>>

Opened == 1..Len(issues)

TicketsInit ==
  /\ issues = <<>>
  /\ split = "next"
  /\ runs = <<>>
  /\ closed = {} /\ waking = {}
  /\ missed = {}
  /\ acts = 0

-----------------------------------------------------------------------------
(* The plan *)

\* The sub-issues of the plan's issue.
Linked == {n \in Opened : issues[n].linked}

\* The issue of each ticket that is opened and linked; a closed one too.
Numbers(t) == {n \in Linked : issues[n].ticket = t}

\* Mutant: only a ticket that is still as it was approved counts as done.
DoneSealed(n) == issues[n].state = "completed" /\ issues[n].sealed

\* isDone
IsDone(n) == issues[n].state = "completed"

\* frontier
Frontier ==
  {n \in Linked :
     /\ issues[n].sealed /\ issues[n].state = "open"
     /\ ~issues[n].labelled /\ ~issues[n].stopped
     /\ \A b \in issues[n].blockedBy : b \in Linked /\ IsDone(b)}

\* blockersLeft
Blocked(n) == \E b \in issues[n].blockedBy : issues[b].state # "completed"

\* Labels every ticket of `ns`; the label starts a run where it was not there yet.
Label(ns) ==
  /\ issues' = [n \in Opened |-> IF n \in ns THEN [issues[n] EXCEPT !.labelled = TRUE] ELSE issues[n]]
  /\ runs' = [n \in Opened |->
       IF n \in ns /\ ~issues[n].labelled THEN [runs[n] EXCEPT !.due = TRUE] ELSE runs[n]]

-----------------------------------------------------------------------------
(* publishSplit *)

Missing == {t \in 1..Len(Blockers) : Numbers(t) = {}}

\* The next ticket that is not there; what blocks it is.
OpenTicket ==
  /\ split = "next" /\ Len(issues) < MaxIssues
  /\ \E t \in Missing :
     /\ \A u \in Missing : t <= u
     /\ issues' = Append(issues, [ticket |-> t, blockedBy |-> UNION {Numbers(b) : b \in Blockers[t]}, linked |-> FALSE,
                                 state |-> "open", sealed |-> TRUE, labelled |-> FALSE, stopped |-> FALSE])
  /\ runs' = Append(runs, [stage |-> "idle", due |-> FALSE])
  /\ split' = "link"
  /\ UNCHANGED <<closed, waking, missed, acts>>

\* Linked; or GitHub's answers failed and the ticket is closed again, whether or not one of the calls
\* had linked it.
LinkTicket ==
  LET n == Len(issues) IN
  /\ split = "link"
  /\ \/ /\ issues' = [issues EXCEPT ![n].linked = TRUE]
        /\ split' = "next"
        /\ missed' = missed \cup IF issues[n].blockedBy # {} /\ ~Blocked(n) THEN {n} ELSE {}
        /\ UNCHANGED <<closed, acts>>
     \/ /\ acts < MaxTicketActs /\ acts' = acts + 1
        /\ \E linked \in BOOLEAN :
             issues' = [issues EXCEPT ![n].linked = linked,
                          ![n].state = IF @ = "open" THEN "dropped" ELSE @]
        /\ closed' = closed \cup {n}
        /\ split' = "failed"
        /\ UNCHANGED missed
  /\ UNCHANGED <<runs, waking>>

LabelStarts ==
  /\ split = "next" /\ Missing = {}
  /\ Label(UNION {Numbers(t) : t \in {u \in 1..Len(Blockers) : Blockers[u] = {}}})
  /\ split' = "over"
  /\ UNCHANGED <<closed, waking, missed, acts>>

\* The job dies, before or after a ticket is linked; or it is run again.
SplitDies ==
  /\ split \in {"next", "link"} /\ acts < MaxTicketActs /\ acts' = acts + 1
  /\ split' = "failed"
  /\ UNCHANGED <<issues, runs, closed, waking, missed>>

SplitAgain ==
  /\ split = "failed"
  /\ split' = "next"
  /\ UNCHANGED <<issues, runs, closed, waking, missed, acts>>

-----------------------------------------------------------------------------
(* A labelled ticket's run *)

Stage(n, stage) == runs' = [runs EXCEPT ![n].stage = stage]

\* snapshotIssue: a sealed ticket goes to the build, if it is open and nothing blocks it.
RunReads(n) ==
  /\ runs[n].due /\ runs[n].stage = "idle"
  /\ runs' = [runs EXCEPT ![n] =
       [due |-> FALSE,
        stage |-> IF issues[n].sealed /\ Blocked(n) THEN "unlabel"
                  ELSE IF issues[n].sealed /\ issues[n].state = "open" THEN "build" ELSE "idle"]]
  /\ UNCHANGED <<issues, split, closed, waking, missed, acts>>

\* The label comes off, so that unblock can put it back.
RunUnlabels(n) ==
  /\ runs[n].stage = "unlabel"
  /\ issues' = [issues EXCEPT ![n].labelled = FALSE]
  /\ missed' = missed \cup IF Blocked(n) THEN {} ELSE {n}
  /\ Stage(n, "idle")
  /\ UNCHANGED <<split, closed, waking, acts>>

\* A pull request, a failure; or a criterion is challenged, and nobody restarts the ticket but a person.
RunBuilds(n) ==
  /\ runs[n].stage = "build"
  /\ \/ UNCHANGED issues
     \/ issues' = [issues EXCEPT ![n].stopped = TRUE, ![n].labelled = FALSE]
  /\ Stage(n, "idle")
  /\ UNCHANGED <<split, closed, waking, missed, acts>>

-----------------------------------------------------------------------------
(* unblock *)

UnblockReads(n) ==
  /\ n \in closed /\ closed' = closed \ {n}
  /\ waking' = waking \cup {Frontier}
  /\ UNCHANGED <<issues, split, runs, missed, acts>>

UnblockLabels(next) ==
  /\ next \in waking /\ waking' = waking \ {next}
  /\ Label(next)
  /\ UNCHANGED <<split, closed, missed, acts>>

\* The job fails: nothing starts it again.
UnblockDies(n) ==
  /\ n \in closed /\ closed' = closed \ {n}
  /\ acts < MaxTicketActs /\ acts' = acts + 1
  /\ missed' = missed \cup {m \in Opened : n \in issues[m].blockedBy}
  /\ UNCHANGED <<issues, split, runs, waking>>

-----------------------------------------------------------------------------
(* People *)

ActOnTicket == acts < MaxTicketActs /\ acts' = acts + 1

PersonLabelsTicket(n) ==
  /\ ActOnTicket
  /\ ~issues[n].labelled /\ Label({n})
  /\ UNCHANGED <<split, closed, waking, missed>>

\* Settles a challenge: build it as approved anyway.
PersonRestarts(n) ==
  /\ ActOnTicket
  /\ issues[n].stopped
  /\ issues' = [issues EXCEPT ![n].stopped = FALSE, ![n].labelled = TRUE]
  /\ runs' = [runs EXCEPT ![n].due = TRUE]
  /\ UNCHANGED <<split, closed, waking, missed>>

PersonUnlabelsTicket(n) ==
  /\ ActOnTicket
  /\ issues[n].labelled /\ issues' = [issues EXCEPT ![n].labelled = FALSE]
  /\ missed' = missed \cup {n}
  /\ UNCHANGED <<split, runs, closed, waking>>

PersonEditsTicket(n) ==
  /\ ActOnTicket
  /\ issues[n].sealed /\ issues' = [issues EXCEPT ![n].sealed = FALSE]
  /\ UNCHANGED <<split, runs, closed, waking, missed>>

\* A pull request is merged, or someone closes the ticket.
PersonCloses(n, how) ==
  /\ ActOnTicket
  /\ issues[n].state = "open" /\ issues' = [issues EXCEPT ![n].state = how]
  /\ closed' = closed \cup {n}
  /\ UNCHANGED <<split, runs, waking, missed>>

PersonReopens(n) ==
  /\ ActOnTicket
  /\ issues[n].state # "open" /\ issues' = [issues EXCEPT ![n].state = "open"]
  /\ missed' = missed \cup {n}
  /\ UNCHANGED <<split, runs, closed, waking>>

TicketsNext ==
  \/ OpenTicket \/ LinkTicket \/ LabelStarts \/ SplitDies \/ SplitAgain
  \/ \E n \in Opened :
       \/ RunReads(n) \/ RunUnlabels(n) \/ RunBuilds(n)
       \/ UnblockReads(n) \/ UnblockDies(n)
       \/ PersonLabelsTicket(n) \/ PersonRestarts(n) \/ PersonUnlabelsTicket(n) \/ PersonEditsTicket(n) \/ PersonReopens(n)
       \/ \E how \in {"completed", "dropped"} : PersonCloses(n, how)
  \/ \E next \in waking : UnblockLabels(next)

TicketsSpec == TicketsInit /\ [][TicketsNext]_ticketsVars

-----------------------------------------------------------------------------
(* Properties *)

Settled ==
  /\ split = "over"
  /\ \A n \in Opened : runs[n] = [stage |-> "idle", due |-> FALSE]
  /\ closed = {} /\ waking = {}

\* No ticket is forgotten: once everything that blocks it is completed, in whatever order the tickets
\* closed and the unblocks ran, a ticket that is as approved and not stopped has been labelled.
\* `missed` names the ways it can be: its run read an open blocker and took the label off when the last
\* one had closed already, all of them closed before the ticket was opened, the unblock of one died, or
\* a person took the label off or reopened it.
TicketsStart ==
  Settled =>
    \A n \in Linked :
      /\ issues[n].sealed /\ issues[n].state = "open" /\ ~issues[n].stopped
      /\ \A b \in issues[n].blockedBy : issues[b].state = "completed"
      => issues[n].labelled \/ n \in missed
=============================================================================
