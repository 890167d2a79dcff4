----------------------------- MODULE ReviewLoop -----------------------------
(***************************************************************************)
(* The review loop of one pull request (ci/issue-agent/run.mjs, checks.mjs *)
(* and the workflows issue-agent-review.yml and claude-code-review.yml):   *)
(* after each review of its head a run assesses the pull request, lets     *)
(* agents fix what blocks, and pushes; in the end it hands the pull        *)
(* request to a human.                                                     *)
(*                                                                         *)
(* GitHub runs one loop run of a pull request at a time and keeps one more *)
(* waiting, the newest.  Meanwhile people push, label, close and comment,  *)
(* main moves, and a review may end in any way.  A conflicting head gets   *)
(* no review at all.  Any call to GitHub may fail.                         *)
(*                                                                         *)
(*   run: idle -> assess -> fix -> push -> pushing -> testing -> answering *)
(*                  |                |        |          |           |     *)
(*                  +-> handing <----+--------+----------+-----------+     *)
(*                                                                         *)
(* and back to idle, or to the run that waits, from every stage but fix.   *)
(*                                                                         *)
(* Not modelled: drafts, a head that stops to conflict because main moved, *)
(* a change taken back exactly, and what the agents do (the fix job's      *)
(* outcome, of the ones it may hand over).                                 *)
(***************************************************************************)
EXTENDS Integers

CONSTANTS
  MaxCycles,  \* MAX_REVIEW_CYCLES
  MaxEvents,  \* bound: what people do, how often main moves, and what fails, taken together
  MaxFaults   \* bound: calls to GitHub that fail where nothing catches it, and jobs killed

ASSUME CyclesAssumption == MaxCycles \in Nat \ {0}
ASSUME LoopBoundsAssumption == MaxEvents \in Nat /\ MaxFaults \in Nat

VARIABLES
  pr,        \* the pull request: open, labelled agent:in-review, and how it was handed over
  head,      \* its head commit, and the one that last changed its diff
  conflict,  \* does it conflict with main?
  thread,    \* is a thread by someone with write access open?
  reviewing, \* the head a review is under way for
  ended,     \* how the review of the head ended
  finished,  \* the diff of the last head a review succeeded on
  summary,   \* the reviewer's last summary, of what, and whether it counts as newer than the head
  marks,     \* the loop's own comments: cycles, answered changes, heads verified
  run,       \* the loop run under way
  waiting,   \* the one that waits for it
  sweep,     \* main moved and the sweep has not run yet
  loopOn,    \* is there a token whose pushes start workflows?
  lost,      \* the head for which a run that was due is lost, and no event has made up for it
  pushes,    \* how many commits the loop has pushed
  relabels,  \* how often a person has put the pull request back into the loop
  events,
  faults

github == <<pr, head, conflict, thread, reviewing, ended, finished, summary, marks>>
bounds == <<pushes, relabels, events, faults>>
loopVars == <<github, run, waiting, sweep, loopOn, lost, bounds>>

NoHead == 0
NoCommit == [n |-> NoHead, merge |-> FALSE, diff |-> NoHead, own |-> FALSE]
NoReview == [n |-> NoHead, diff |-> NoHead]
NoSummary == [verdict |-> "none", of |-> NoHead, diff |-> NoHead, newer |-> FALSE]
NoEvent == [kind |-> "none", head |-> NoHead, conclusion |-> "none"]
NoJob == [head |-> NoCommit, summary |-> NoSummary, cycle |-> 0, verdict |-> "none", thread |-> FALSE,
          action |-> "none"]
NoOutcome == [status |-> "needs-human", merged |-> FALSE, resolved |-> FALSE, patch |-> FALSE, met |-> FALSE]
IdleRun ==
  [stage |-> "idle", event |-> NoEvent, job |-> NoJob, outcome |-> NoOutcome, moved |-> FALSE, hand |-> "none"]
RunOf(event) == [IdleRun EXCEPT !.stage = "assess", !.event = event]

LoopInit ==
  /\ pr = [open |-> TRUE, labelled |-> TRUE, handed |-> "none"]
  /\ head = [NoCommit EXCEPT !.n = 1, !.diff = 1]
  /\ conflict = FALSE
  /\ thread = FALSE
  /\ reviewing = [n |-> 1, diff |-> 1]
  /\ ended = "none" /\ finished = NoHead
  /\ summary = NoSummary
  /\ marks = [cycles |-> 0, changes |-> 0, verified |-> {}]
  /\ run = IdleRun
  /\ waiting = NoEvent
  /\ sweep = FALSE
  /\ loopOn = TRUE
  /\ lost = NoHead
  /\ pushes = 0 /\ relabels = 0 /\ events = 0 /\ faults = 0

\* Something fails that nothing catches.
Fault == faults < MaxFaults /\ events + faults < MaxEvents /\ faults' = faults + 1

-----------------------------------------------------------------------------
(* What a run decides *)

\* loopRefusal: the pull request is closed, or not in the loop (any more).
Refused == ~pr.open \/ ~pr.labelled

\* Is it of this head, and not that of a review a newer push cancelled?
OfHead(event) == event.kind \notin {"none", "cancelled"} /\ event.head \in {NoHead, head.n}

\* How the head's review ended, as far as this run knows.
Conclusion(event) == IF event.kind = "label" THEN ended ELSE event.conclusion

\* latestVerdict: a summary newer than the head, or the last one for a head that only merges main in.
Verdict(event) ==
  IF summary.newer \/ (head.merge /\ Conclusion(event) = "success") THEN summary.verdict ELSE "none"

\* Mutant: a conflict is seen to once the head has been reviewed.
ConflictingOnceReviewed(event, known) == conflict /\ known /\ Conclusion(event) # "none"

\* Does the head conflict with main, as far as GitHub says (loadPrSettled)?  Then no review comes.
Conflicting(event, known) == conflict /\ known

\* reviewDecision and decideOnVerdict.
Decision(event, known) ==
  LET verdict == Verdict(event)
      atCap == marks.cycles >= MaxCycles
  IN
  IF ~loopOn THEN "give-up"
  ELSE IF Conflicting(event, known) THEN IF atCap THEN "give-up" ELSE "conflict"
  ELSE IF verdict = "none" THEN IF Conclusion(event) = "none" THEN "wait" ELSE "give-up"
  ELSE IF verdict = "changes" THEN IF marks.changes >= 1 \/ atCap THEN "give-up" ELSE "fix"
  ELSE IF thread /\ ~atCap THEN "fix"
  ELSE IF head.n \in marks.verified THEN "done" ELSE "verify"

\* Would its run do something about the pull request as it is now?
Wakes(event) == OfHead(event) /\ Decision(event, TRUE) # "wait"

-----------------------------------------------------------------------------
(* The loop's concurrency group *)

\* Has the run under way something left to do about the pull request: a push, a hand-over, another run?
Underway ==
  \/ run.stage = "assess" /\ Wakes(run.event)
  \/ run.stage \in {"fix", "push"} /\ run.job.head.n = head.n
  \/ run.stage \in {"pushing", "handing"}
  \/ run.stage = "testing" /\ conflict
  \/ run.stage = "answering" /\ ~run.outcome.merged /\ ~run.outcome.patch

\* An event takes the waiting place, from any that had it.
Queue(event) ==
  /\ waiting' = event
  /\ lost' = IF Wakes(event) THEN NoHead ELSE IF Wakes(waiting) /\ ~Underway THEN head.n ELSE lost

\* An event starts a run, or waits for the one under way.
Trigger(event) ==
  \/ /\ run.stage = "idle" /\ run' = RunOf(event)
     /\ lost' = IF Wakes(event) THEN NoHead ELSE lost
     /\ UNCHANGED waiting
  \/ run.stage # "idle" /\ Queue(event) /\ UNCHANGED run

\* A run ends, and the one that waited starts.
End ==
  /\ run' = IF waiting = NoEvent THEN IdleRun ELSE RunOf(waiting)
  /\ waiting' = NoEvent

\* What was due is not done: nobody does it, unless the run that waits will.
Lose(due) == lost' = IF due /\ ~Wakes(waiting) THEN head.n ELSE lost

Next(stage) == run' = [run EXCEPT !.stage = stage] /\ UNCHANGED <<waiting, lost>>

\* handOver is called: it goes on to the label without another look at the head.
Hand(kind) ==
  /\ run' = [run EXCEPT !.stage = "handing", !.hand = kind, !.outcome = NoOutcome, !.moved = FALSE]
  /\ UNCHANGED <<waiting, lost>>

-----------------------------------------------------------------------------
(* assess *)

\* assessReview: what it reads of the pull request is what the rest of the run goes by.  When GitHub does
\* not say in time whether the head conflicts with main, it is taken not to.
Assess(known) ==
  LET event == run.event
      stale == Refused \/ ~OfHead(event)
      action == Decision(event, known)
      job == [head |-> head, summary |-> summary, cycle |-> marks.cycles, verdict |-> Verdict(event),
              thread |-> thread, action |-> action]
      Do(stage, hand) == /\ run' = [run EXCEPT !.stage = stage, !.job = job, !.hand = hand]
                         /\ UNCHANGED <<waiting, lost>>
  IN
  /\ run.stage = "assess"
  /\ IF known THEN UNCHANGED faults ELSE conflict /\ Fault
  /\ \/ stale /\ End /\ UNCHANGED lost
     \/ ~stale /\ action = "wait" /\ End /\ Lose(Underway)
     \/ ~stale /\ action = "give-up" /\ Do("handing", "needs-human")
     \/ ~stale /\ action = "done" /\ Do("handing", "ready")
     \/ ~stale /\ action \in {"fix", "conflict", "verify"} /\ Do("fix", "none")
  /\ UNCHANGED <<github, sweep, loopOn, pushes, relabels, events>>

\* handOver: off the loop, ready for review or in need of a human.
HandOver ==
  /\ run.stage = "handing"
  /\ pr' = [pr EXCEPT !.labelled = FALSE,
                      !.handed = IF run.hand = "ready" THEN "ready" ELSE "needs-human"]
  /\ End
  /\ UNCHANGED <<head, conflict, thread, reviewing, ended, finished, summary, marks, sweep, loopOn, lost, bounds>>

-----------------------------------------------------------------------------
(* fix *)

\* Mutant: a criterion that is not met is seen to past the cap.
MayChangeOnceMore(job) == conflict => job.cycle < MaxCycles

\* conflictMidCycle and afterVerification: no change is made past the cap.
MayChange(job) == job.action = "verify" \/ conflict => job.cycle < MaxCycles

\* fixReview: main is merged in when the head conflicts with it, or shares changes with it; what the
\* agents made of it is handed over, if the pipeline's checks passed.  The job may die, and what it
\* says is not to be trusted: it may say "verified" though nobody asked.
Fix ==
  /\ run.stage = "fix"
  /\ \E status \in {"needs-human", "verified", "ready"}, merged, patch, met \in BOOLEAN :
       /\ status = "ready" => MayChange(run.job)
       /\ status = "ready" /\ conflict => merged
       /\ status # "ready" => ~merged /\ ~patch
       /\ status # "verified" => ~met
       /\ run' = [run EXCEPT !.stage = "push", !.moved = FALSE,
            !.outcome = [status |-> status, merged |-> merged, resolved |-> merged /\ conflict,
                         patch |-> patch, met |-> met]]
  /\ UNCHANGED <<github, waiting, sweep, loopOn, lost, bounds>>

-----------------------------------------------------------------------------
(* push *)

\* acceptVerified: only when it was asked for, with every criterion met.
AcceptVerified(job, outcome) == job.action = "verify" /\ outcome.met

\* pushReview up to the push: the head, the refusals, what the fix job said, the rebuild.
PushCheck ==
  LET job == run.job
      outcome == run.outcome
      gone == head.n # job.head.n \/ Refused
      verified == outcome.status = "verified" /\ AcceptVerified(job, outcome)
  IN
  /\ run.stage = "push"
  /\ \/ gone /\ End /\ UNCHANGED <<marks, lost>>
     \/ ~gone /\ Hand("needs-human") /\ UNCHANGED marks
     \/ /\ ~gone /\ loopOn /\ verified
        /\ marks' = [marks EXCEPT !.verified = @ \cup {job.head.n}]
        /\ Hand("ready")
     \/ ~gone /\ loopOn /\ outcome.status = "ready" /\ Next("pushing") /\ UNCHANGED marks
  /\ UNCHANGED <<pr, head, conflict, thread, reviewing, ended, finished, summary, sweep, loopOn, bounds>>

\* A new head: reviewed at once, unless it conflicts with main.  The last summary counts as newer than a
\* commit made before it, however late it is pushed.
NewHead(new, conflicts, late) ==
  /\ head' = new
  /\ conflict' = conflicts
  /\ ended' = "none"
  /\ summary' = [summary EXCEPT !.newer = late /\ summary.of # NoHead]
  /\ reviewing' = IF conflicts THEN reviewing ELSE [n |-> new.n, diff |-> new.diff]

\* A review under way is cancelled then, which is one more event for the loop's group.
CancelledEvent == [NoEvent EXCEPT !.kind = "cancelled"]
Cancels(conflicts) == ~conflicts /\ reviewing # NoReview

\* The push: refused when the head has moved since it was looked at, which throws.
Push ==
  LET outcome == run.outcome
      conflicts == IF outcome.merged THEN run.moved ELSE conflict
      diff == IF outcome.patch \/ outcome.resolved THEN head.n + 1 ELSE head.diff
  IN
  /\ run.stage = "pushing"
  /\ \/ /\ ~outcome.merged /\ ~outcome.patch
        /\ Next("answering") /\ UNCHANGED <<github, pushes>>
     \/ /\ outcome.merged \/ outcome.patch
        /\ head.n # run.job.head.n
        /\ Hand("failed") /\ UNCHANGED <<github, pushes>>
     \/ /\ outcome.merged \/ outcome.patch
        /\ head.n = run.job.head.n
        /\ NewHead([n |-> head.n + 1, merge |-> ~outcome.patch, diff |-> diff, own |-> FALSE], conflicts, FALSE)
        /\ pushes' = pushes + 1
        /\ run' = [run EXCEPT !.stage = "testing"]
        /\ IF Cancels(conflicts) THEN Queue(CancelledEvent) ELSE UNCHANGED <<waiting, lost>>
        /\ UNCHANGED <<pr, thread, finished, marks>>
  /\ UNCHANGED <<sweep, loopOn, relabels, events, faults>>

DispatchEvent == [NoEvent EXCEPT !.kind = "dispatch"]

\* Does the pushed head conflict with the latest main?  Then a run is asked for, since no review comes; a
\* dispatch that GitHub refuses is only logged (dispatchReviewLoop).
PushTest ==
  /\ run.stage = "testing"
  /\ run' = [run EXCEPT !.stage = "answering"]
  /\ \/ ~conflict /\ UNCHANGED <<waiting, lost, faults>>
     \/ conflict /\ Queue(DispatchEvent) /\ UNCHANGED faults
     \/ conflict /\ Fault /\ Lose(TRUE) /\ UNCHANGED waiting
  /\ UNCHANGED <<github, sweep, loopOn, pushes, relabels, events>>

\* cycleMark and pushedCycle: a conflict or criteria cycle answers no verdict.
Marked(job, outcome) ==
  [marks EXCEPT !.cycles = @ + 1,
                !.changes = IF job.action = "fix" /\ job.verdict = "changes" /\ ~outcome.resolved
                            THEN @ + 1 ELSE @]

\* The replies, the cycle's comment, and the hand-over when nothing was pushed.
PushAnswer ==
  LET outcome == run.outcome IN
  /\ run.stage = "answering"
  /\ \/ UNCHANGED thread
     \/ run.job.thread /\ ~outcome.resolved /\ run.job.action # "conflict" /\ thread' = FALSE
  /\ marks' = Marked(run.job, outcome)
  /\ IF outcome.merged \/ outcome.patch THEN End /\ UNCHANGED lost ELSE Hand("needs-human")
  /\ UNCHANGED <<pr, head, conflict, reviewing, ended, finished, summary, sweep, loopOn, bounds>>

\* The push job catches what pushReview throws, and hands the pull request over, in whatever state it is.
PushThrows ==
  /\ \/ run.stage \in {"push", "pushing", "testing", "answering"}
     \/ run.stage = "handing" /\ run.job.action \in {"fix", "conflict", "verify"} /\ run.hand # "failed"
  /\ Hand("failed")
  /\ UNCHANGED <<github, sweep, loopOn, bounds>>

\* What nothing catches: a call that throws in assess, a label that GitHub refuses, the hand-over of a run
\* that has failed, a job that is killed.  (The push job runs whatever becomes of the fix job.)
RunFails ==
  /\ run.stage \notin {"idle", "fix"}
  /\ Fault
  /\ End
  /\ Lose(Underway)
  /\ UNCHANGED <<github, sweep, loopOn, pushes, relabels, events>>

-----------------------------------------------------------------------------
(* The reviewer *)

ReviewEvent(conclusion) == [kind |-> "review", head |-> reviewing.n, conclusion |-> conclusion]

\* Mutant: a head that merges something in is taken to add nothing.
MaySkipMerges == reviewing.diff = finished \/ head.merge

\* The diff is that of the last head a review succeeded on: there may be nothing new to read.
MaySkip == reviewing.diff = finished

\* A review ends, with a summary or without: one that finds something to read fails unless it posts.
ReviewEnds(posts, verdict, conclusion) ==
  /\ reviewing # NoReview
  /\ ~posts => verdict = "none" /\ (conclusion = "success" => MaySkip)
  /\ summary' = IF posts THEN [verdict |-> verdict, of |-> reviewing.n, diff |-> reviewing.diff, newer |-> TRUE]
                          ELSE summary
  /\ ended' = IF reviewing.n = head.n THEN conclusion ELSE ended
  /\ finished' = IF conclusion = "success" THEN reviewing.diff ELSE finished
  /\ reviewing' = NoReview
  /\ Trigger(ReviewEvent(conclusion))
  /\ UNCHANGED <<pr, head, conflict, thread, marks, sweep, loopOn, bounds>>

-----------------------------------------------------------------------------
(* People, and main *)

Outside == events + faults < MaxEvents /\ events' = events + 1

Person == Outside /\ UNCHANGED <<pushes, sweep, faults>>

\* A commit, a merge that changes the pull request's own diff too, or main merged in; made before the
\* reviewer's last summary or after it.
PersonPushes(kind, conflicts, late) ==
  LET diff == IF kind = "update" THEN head.diff ELSE head.n + 1 IN
  /\ Person
  /\ pr.open
  /\ late => summary.of # NoHead
  /\ kind = "update" => ~conflicts
  /\ NewHead([n |-> head.n + 1, merge |-> kind # "commit", diff |-> diff, own |-> conflicts], conflicts, late)
  /\ IF Cancels(conflicts) THEN Trigger(CancelledEvent) ELSE UNCHANGED <<run, waiting, lost>>
  /\ UNCHANGED <<pr, thread, finished, marks, loopOn, relabels>>

PersonLabels ==
  /\ Person
  /\ pr.open /\ ~pr.labelled
  /\ pr' = [pr EXCEPT !.labelled = TRUE, !.handed = "none"]
  /\ relabels' = relabels + 1
  /\ Trigger([NoEvent EXCEPT !.kind = "label", !.head = head.n])
  /\ UNCHANGED <<head, conflict, thread, reviewing, ended, finished, summary, marks, loopOn>>

PersonTakesOver ==
  /\ Person
  /\ pr.open
  /\ \/ pr.labelled /\ pr' = [pr EXCEPT !.labelled = FALSE]
     \/ pr' = [pr EXCEPT !.open = FALSE]
  /\ UNCHANGED <<head, conflict, thread, reviewing, ended, finished, summary, marks, run, waiting, lost, loopOn,
                 relabels>>

PersonComments ==
  /\ Person
  /\ thread' = ~thread
  /\ UNCHANGED <<pr, head, conflict, reviewing, ended, finished, summary, marks, run, waiting, lost, loopOn,
                 relabels>>

PersonDispatches ==
  /\ Person
  /\ Trigger(DispatchEvent)
  /\ UNCHANGED <<github, loopOn, relabels>>

TokenExpires ==
  /\ Person
  /\ loopOn' = FALSE
  /\ UNCHANGED <<github, run, waiting, lost, relabels>>

MainMoves(conflicts) ==
  /\ Outside
  /\ conflict' = (conflict \/ conflicts)
  /\ run' = [run EXCEPT !.moved = @ \/ conflicts]
  /\ sweep' = TRUE
  /\ UNCHANGED <<pr, head, thread, reviewing, ended, finished, summary, marks, waiting, lost, loopOn, pushes,
                 relabels, faults>>

\* sweepConflicts: a run for a pull request in the loop that conflicts with main now.
SweepConflicts ==
  /\ sweep /\ sweep' = FALSE
  /\ IF conflict /\ ~Refused THEN Trigger(DispatchEvent) ELSE UNCHANGED <<run, waiting, lost>>
  /\ UNCHANGED <<github, loopOn, bounds>>

\* The sweep does not get to this one: a read threw, for this or an earlier pull request, GitHub did not
\* say in time whether it conflicts, or refused the dispatch.
SweepMisses ==
  /\ sweep /\ sweep' = FALSE
  /\ conflict /\ ~Refused
  /\ Fault
  /\ Lose(~Underway)
  /\ UNCHANGED <<github, run, waiting, loopOn, pushes, relabels, events>>

-----------------------------------------------------------------------------
LoopNext ==
  \/ \E known \in BOOLEAN : Assess(known)
  \/ HandOver \/ Fix \/ PushCheck \/ Push \/ PushTest \/ PushAnswer \/ PushThrows \/ RunFails
  \/ \E posts \in BOOLEAN, verdict \in {"none", "ready", "changes"}, conclusion \in {"success", "failure"} :
       ReviewEnds(posts, verdict, conclusion)
  \/ \E kind \in {"commit", "merge", "update"}, conflicts, late \in BOOLEAN : PersonPushes(kind, conflicts, late)
  \/ PersonLabels \/ PersonTakesOver \/ PersonComments \/ PersonDispatches \/ TokenExpires
  \/ \E conflicts \in BOOLEAN : MainMoves(conflicts)
  \/ SweepConflicts \/ SweepMisses

LoopSpec == LoopInit /\ [][LoopNext]_loopVars

-----------------------------------------------------------------------------
(* Properties *)

\* A pull request in the loop that no run is at has something that will wake one: a review of its head
\* that will end, or a sweep that is due for it.  Two things break it, which nobody but a person mends: a
\* person pushed a commit that conflicts with main (no review, and no sweep until main moves); and the run
\* that was due for this very head is lost, since a call failed where nothing catches it or an event that
\* has nothing to say took the waiting place of its own, and no event that wakes came after
\* (reviewDecision, dispatchReviewLoop, sweepConflicts, the concurrency group).
NeverStranded ==
  pr.open /\ pr.labelled /\ run.stage = "idle" =>
    reviewing.n = head.n \/ (conflict /\ sweep) \/ head.own \/ lost = head.n

\* The loop pushes at most MAX_REVIEW_CYCLES commits, and one more for each time a person put the pull
\* request back or a job died: a cycle that fails after its push leaves no comment to be counted by, but
\* then a human has it (cyclesDone, conflictMidCycle, afterVerification, the hand-over when push throws).
CyclesBounded == pushes <= MaxCycles + relabels + faults

\* What a run hands over as ready is a head whose criteria were checked and whose whole diff was read in
\* the review that said "ready" (Pick review scope, latestVerdict).  A commit made before the last summary
\* and pushed after it passes for reviewed: latestVerdict goes by the times.
ReadyIsReviewed ==
  [][LET job == run.job IN
     pr.handed # "ready" /\ pr'.handed = "ready" =>
       /\ job.head.n \in marks.verified
       /\ job.verdict = "ready" /\ job.summary.verdict = "ready"
       /\ \/ job.summary.diff = job.head.diff
          \/ job.summary.newer /\ job.summary.of # job.head.n]_loopVars
=============================================================================
