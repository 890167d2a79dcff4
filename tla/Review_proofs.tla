--------------------------- MODULE Review_proofs ---------------------------
(***************************************************************************)
(* Proofs about the issue agent: the review loop of its pull request, for  *)
(* any cap on its cycles and any number of events around it; the build of  *)
(* an issue, for any number of rounds, fixes and reviewers and any budget; *)
(* the tickets of a split issue, for any plan; and the conversation on an  *)
(* issue, for any number of briefs and of things people do.                *)
(***************************************************************************)
EXTENDS ReviewLoop, Briefs, Implementation, Tickets, FiniteSetTheorems, TLAPS

-----------------------------------------------------------------------------
(* The review loop *)

Verdicts == {"none", "ready", "changes"}
Conclusions == {"none", "success", "failure"}
LoopStages == {"idle", "assess", "fix", "push", "pushing", "testing", "answering", "handing"}
Hands == {"none", "ready", "needs-human", "failed"}
PullRequests == [open : BOOLEAN, labelled : BOOLEAN, handed : {"none", "ready", "needs-human"}]
Commits == [n : Nat, merge : BOOLEAN, diff : Nat, own : BOOLEAN]
Summaries == [verdict : Verdicts, of : Nat, diff : Nat, newer : BOOLEAN]
AllMarks == [cycles : Nat, changes : Nat, verified : SUBSET Nat]
LoopEvents == [kind : {"none", "review", "label", "dispatch", "cancelled"}, head : Nat, conclusion : Conclusions]
Jobs ==
  [head : Commits, summary : Summaries, cycle : Nat, verdict : Verdicts, thread : BOOLEAN,
   action : {"none", "give-up", "done", "fix", "conflict", "verify"}]
Outcomes ==
  [status : {"needs-human", "verified", "ready"}, merged : BOOLEAN, resolved : BOOLEAN, patch : BOOLEAN,
   met : BOOLEAN]
LoopRuns ==
  [stage : LoopStages, event : LoopEvents, job : Jobs, outcome : Outcomes, moved : BOOLEAN, hand : Hands]

LoopTypes ==
  /\ pr \in PullRequests
  /\ head \in Commits
  /\ conflict \in BOOLEAN /\ thread \in BOOLEAN /\ sweep \in BOOLEAN /\ loopOn \in BOOLEAN
  /\ reviewing \in [n : Nat, diff : Nat]
  /\ ended \in Conclusions
  /\ finished \in Nat
  /\ summary \in Summaries
  /\ marks \in AllMarks
  /\ run \in LoopRuns
  /\ waiting \in LoopEvents
  /\ lost \in Nat
  /\ pushes \in Nat /\ relabels \in Nat /\ events \in Nat /\ faults \in Nat

\* A push is counted by a comment, or the pull request is off the loop, or its run is still at it, or was
\* killed; and a run that may push knows how many cycles there were.
Counted ==
  LET Room == marks.cycles + relabels + faults IN
  /\ CyclesBounded
  /\ run.stage \in {"idle", "assess"} => pushes <= Room + (IF pr.labelled THEN 0 ELSE 1)
  /\ run.stage \in {"fix", "push", "pushing"} =>
       /\ pushes <= Room /\ run.job.cycle = marks.cycles
       /\ run.job.action # "verify" => marks.cycles < MaxCycles
  /\ run.stage = "push" /\ run.outcome.status = "ready" => marks.cycles < MaxCycles
  /\ run.stage = "pushing" => marks.cycles < MaxCycles
  /\ run.stage \in {"testing", "answering", "handing"} => pushes <= Room + 1

\* What is known of a head and its review.  Diffs are numbered by the head that made them, so the last one
\* that a review finished on, the one the last summary is of, the one being read and the head's are in order:
\* a review that may skip has nothing to add to the last summary.
Reviewed ==
  /\ head.n > 0 /\ head.diff <= head.n
  /\ finished <= summary.diff /\ summary.diff <= head.diff /\ summary.of <= head.n
  /\ reviewing # NoReview =>
       /\ reviewing.n > 0 /\ reviewing.n <= head.n
       /\ summary.diff <= reviewing.diff /\ reviewing.diff <= head.diff
       /\ reviewing.n = head.n => reviewing.diff = head.diff
       /\ reviewing.n # head.n => conflict
       /\ ended = "none"
  /\ ended = "none" => reviewing.n = head.n \/ conflict
  /\ ended = "success" => summary.diff = head.diff
  /\ summary.newer => summary.diff = head.diff \/ summary.of # head.n

\* What an event says of a review is how it ended.
Told(event) ==
  event.conclusion # "none" =>
    /\ event.kind = "review" /\ event.head > 0 /\ event.head <= head.n
    /\ event.head = head.n => ended = event.conclusion

\* The review that said "ready" read the whole diff of the head, or passes for later than the head.
Backs(review, commit) ==
  review.verdict = "ready" /\ (review.diff = commit.diff \/ (review.newer /\ review.of # commit.n))

\* What a run took from assess, and what it may hand over.
Judged ==
  /\ run.job.verdict = "ready" => Backs(run.job.summary, run.job.head)
  /\ run.job.action = "verify" => run.job.verdict = "ready"
  /\ run.hand = "ready" => run.job.head.n \in marks.verified /\ run.job.verdict = "ready"

\* A sweep is none for a head that does not conflict, and a run or the one that waits may be at it.
Attended ==
  /\ run.stage = "idle" => waiting = NoEvent
  /\ pr.open /\ pr.labelled =>
       reviewing.n = head.n \/ head.own \/ (conflict /\ sweep) \/ lost = head.n \/ Underway \/ Wakes(waiting)

LoopInv ==
  LoopTypes /\ Counted /\ Reviewed /\ (\A event \in {run.event, waiting} : Told(event)) /\ Judged /\ Attended

-----------------------------------------------------------------------------

\* What a run may set about doing, and when (reviewDecision, decideOnVerdict).
LEMMA WhatIsDecided ==
  ASSUME LoopTypes, NEW event \in LoopEvents, NEW known \in BOOLEAN
  PROVE  /\ Verdict(event) \in Verdicts
         /\ Decision(event, known) \in {"give-up", "conflict", "wait", "fix", "done", "verify"}
         /\ Decision(event, known) \in {"fix", "conflict"} => marks.cycles < MaxCycles
         /\ Decision(event, known) \in {"done", "verify"} => Verdict(event) = "ready"
         /\ Decision(event, known) = "done" => head.n \in marks.verified
<1>1. Verdict(event) \in Verdicts
  BY DEF Verdict, LoopTypes, Summaries, Verdicts
<1> QED
  BY <1>1, CyclesAssumption DEF Decision, Conflicting, Verdicts, LoopTypes, AllMarks

\* When an event's run does not wait for the review (reviewDecision).
LEMMA WhatWakes ==
  ASSUME LoopTypes, NEW event \in LoopEvents
  PROVE  Wakes(event) <=>
           /\ OfHead(event)
           /\ ~loopOn \/ conflict \/ (summary.newer /\ summary.verdict # "none") \/ Conclusion(event) # "none"
<1>1. Decision(event, TRUE) = "wait" <=>
        loopOn /\ ~conflict /\ Verdict(event) = "none" /\ Conclusion(event) = "none"
  BY DEF Decision, Conflicting, LoopTypes
<1>2. Verdict(event) = "none" /\ Conclusion(event) = "none" <=>
        ~(summary.newer /\ summary.verdict # "none") /\ Conclusion(event) = "none"
  BY DEF Verdict, LoopTypes, Summaries
<1> QED
  BY <1>1, <1>2 DEF Wakes, LoopTypes

\* A verdict of "ready" that applies to the head (latestVerdict) is backed.
LEMMA VerdictIsBacked ==
  ASSUME LoopInv, NEW event \in {run.event, waiting}, OfHead(event), Verdict(event) = "ready"
  PROVE  Backs(summary, head)
<1>1. LoopTypes /\ Reviewed /\ Told(event)
  BY DEF LoopInv
<1>2. summary.verdict = "ready" /\ (summary.newer \/ Conclusion(event) = "success")
  BY DEF Verdict
<1>3. CASE summary.newer
  BY <1>1, <1>2, <1>3 DEF Backs, Reviewed
<1>4. CASE Conclusion(event) = "success"
  <2>1. ended = "success"
    BY <1>1, <1>4 DEF Conclusion, Told, OfHead, NoHead
  <2> QED
    BY <1>1, <1>2, <2>1 DEF Backs, Reviewed
<1> QED
  BY <1>2, <1>3, <1>4

\* The events the loop makes up itself, and a run one starts.
LEMMA EventShapes ==
  /\ NoEvent \in LoopEvents /\ NoEvent.kind = "none" /\ NoEvent.conclusion = "none"
  /\ DispatchEvent \in LoopEvents /\ DispatchEvent.kind = "dispatch" /\ DispatchEvent.head = NoHead
  /\ DispatchEvent.conclusion = "none" /\ DispatchEvent # NoEvent
  /\ CancelledEvent \in LoopEvents /\ CancelledEvent.conclusion = "none"
  /\ IdleRun \in LoopRuns /\ IdleRun.stage = "idle" /\ IdleRun.job = NoJob /\ IdleRun.event = NoEvent
  /\ IdleRun.hand = "none" /\ NoOutcome \in Outcomes
  /\ NoJob.verdict = "none" /\ NoJob.action = "none"
  /\ \A event \in LoopEvents :
       /\ RunOf(event) \in LoopRuns /\ RunOf(event).stage = "assess" /\ RunOf(event).event = event
       /\ RunOf(event).job = NoJob /\ RunOf(event).hand = "none"
<1> USE DEF NoEvent, NoHead, LoopEvents, Conclusions
<1>1. NoEvent \in LoopEvents /\ NoEvent.kind = "none" /\ NoEvent.conclusion = "none"
  OBVIOUS
<1>2. /\ DispatchEvent \in LoopEvents /\ DispatchEvent.kind = "dispatch" /\ DispatchEvent.head = NoHead
      /\ DispatchEvent.conclusion = "none"
  BY DEF DispatchEvent
<1>3. CancelledEvent \in LoopEvents /\ CancelledEvent.conclusion = "none"
  BY DEF CancelledEvent
<1>4. NoCommit \in Commits /\ NoSummary \in Summaries
  BY DEF NoCommit, NoSummary, Commits, Summaries, Verdicts
<1>5. NoJob \in Jobs /\ NoJob.verdict = "none" /\ NoJob.action = "none" /\ NoOutcome \in Outcomes
  BY <1>4 DEF NoJob, NoOutcome, Jobs, Outcomes, Verdicts
<1>6. /\ IdleRun \in LoopRuns /\ IdleRun.stage = "idle" /\ IdleRun.job = NoJob /\ IdleRun.event = NoEvent
      /\ IdleRun.hand = "none"
  BY <1>1, <1>5 DEF IdleRun, LoopRuns, LoopStages, Hands
<1>7. ASSUME NEW event \in LoopEvents
      PROVE  /\ RunOf(event) \in LoopRuns /\ RunOf(event).stage = "assess" /\ RunOf(event).event = event
             /\ RunOf(event).job = NoJob /\ RunOf(event).hand = "none"
  BY <1>6, <1>7 DEF RunOf, LoopRuns, LoopStages
<1> QED
  BY <1>1, <1>2, <1>3, <1>5, <1>6, <1>7

\* The first head is under review, and in the loop.
LEMMA LoopStart == LoopInit => LoopInv
<1> SUFFICES ASSUME LoopInit PROVE LoopInv
  OBVIOUS
<1> USE CyclesAssumption DEF LoopInit
<1>1. LoopTypes
  <2>1. run \in LoopRuns /\ waiting \in LoopEvents
    BY EventShapes
  <2>2. /\ pr \in PullRequests /\ head \in Commits /\ summary \in Summaries /\ marks \in AllMarks
        /\ reviewing \in [n : Nat, diff : Nat] /\ ended \in Conclusions
    BY DEF PullRequests, Commits, Summaries, AllMarks, Conclusions, Verdicts, NoCommit, NoSummary, NoHead
  <2> QED
    BY <2>1, <2>2 DEF LoopTypes, NoHead
<1>2. run.stage = "idle" /\ run.event = NoEvent /\ run.job = NoJob /\ run.hand = "none"
  BY EventShapes
<1>3. Counted
  BY <1>2 DEF Counted, CyclesBounded
<1>4. Reviewed
  BY DEF Reviewed, NoCommit, NoSummary, NoHead
<1>5. \A event \in {run.event, waiting} : Told(event)
  BY <1>2, EventShapes DEF Told
<1>6. Judged
  BY <1>2, EventShapes DEF Judged
<1>7. Attended
  BY DEF Attended, NoCommit
<1> QED
  BY <1>1, <1>3, <1>4, <1>5, <1>6, <1>7 DEF LoopInv

\* What the fix job leaves for the push job, and what it leaves alone.
LEMMA FixMoves ==
  ASSUME LoopTypes, Fix
  PROVE  /\ run.stage = "fix"
         /\ run' \in LoopRuns /\ run'.stage = "push" /\ run'.job = run.job /\ run'.event = run.event
         /\ run'.hand = run.hand
         /\ run'.outcome.status = "ready" => MayChange(run.job)
         /\ UNCHANGED <<github, waiting, sweep, loopOn, lost, bounds>>
<1>1. run.stage = "fix" /\ UNCHANGED <<github, waiting, sweep, loopOn, lost, bounds>>
  BY Zenon DEF Fix
<1>2. PICK status \in {"needs-human", "verified", "ready"}, merged \in BOOLEAN, patch \in BOOLEAN, met \in BOOLEAN :
        /\ status = "ready" => MayChange(run.job)
        /\ status = "ready" /\ conflict => merged
        /\ status # "ready" => ~merged /\ ~patch
        /\ status # "verified" => ~met
        /\ run' = [run EXCEPT !.stage = "push", !.moved = FALSE,
             !.outcome = [status |-> status, merged |-> merged, resolved |-> merged /\ conflict,
                          patch |-> patch, met |-> met]]
  BY ZenonT(30) DEF Fix
<1>3. (merged /\ conflict) \in BOOLEAN
  BY Zenon
<1> DEFINE made == [status |-> status, merged |-> merged, resolved |-> merged /\ conflict, patch |-> patch,
                    met |-> met]
<1>4. made \in Outcomes /\ made.status = status
  BY <1>3 DEF Outcomes
<1>5. run' = [run EXCEPT !.stage = "push", !.moved = FALSE, !.outcome = made]
  BY <1>2, Zenon
<1> HIDE DEF made
<1>6. run' \in LoopRuns /\ run'.stage = "push" /\ run'.job = run.job /\ run'.event = run.event
      /\ run'.hand = run.hand /\ run'.outcome = made
  BY <1>4, <1>5 DEF LoopTypes, LoopRuns, LoopStages
<1>7. status = "ready" => MayChange(run.job)
  BY <1>2, Zenon
<1> QED
  BY <1>1, <1>4, <1>6, <1>7

\* GitHub's concurrency group: an event takes the waiting place.
LEMMA QueueShape ==
  ASSUME LoopTypes, NEW event \in LoopEvents, Queue(event)
  PROVE  /\ waiting' = event /\ lost' \in Nat
         /\ Wakes(event) \/ lost' = head.n \/ (lost' = lost /\ (Underway \/ ~Wakes(waiting)))
BY DEF Queue, LoopTypes, Commits, NoHead

\* An event starts a run or takes the waiting place.
LEMMA TriggerShape ==
  ASSUME LoopInv, NEW event \in LoopEvents, Trigger(event)
  PROVE  /\ run' \in LoopRuns /\ waiting' \in LoopEvents /\ lost' \in Nat
         /\ \/ /\ run.stage = "idle" /\ run' = RunOf(event) /\ waiting = NoEvent /\ waiting' = waiting
               /\ Wakes(event) \/ lost' = lost
            \/ /\ run.stage # "idle" /\ run' = run /\ waiting' = event
               /\ Wakes(event) \/ lost' = head.n \/ (lost' = lost /\ (Underway \/ ~Wakes(waiting)))
<1>1. /\ LoopTypes /\ run \in LoopRuns /\ waiting \in LoopEvents /\ lost \in Nat
      /\ run.stage = "idle" => waiting = NoEvent
  BY DEF LoopInv, LoopTypes, Attended
<1>2. CASE /\ run.stage = "idle" /\ run' = RunOf(event) /\ waiting' = waiting
           /\ lost' = IF Wakes(event) THEN NoHead ELSE lost
  BY <1>1, <1>2, EventShapes DEF NoHead
<1>3. CASE run.stage # "idle" /\ Queue(event) /\ run' = run
  BY <1>1, <1>3, QueueShape
<1> QED
  BY <1>2, <1>3 DEF Trigger

\* The end of a run starts the one that waited.
LEMMA EndShape ==
  ASSUME LoopTypes, End
  PROVE  /\ run' \in LoopRuns /\ waiting' \in LoopEvents
         /\ run'.job = NoJob /\ run'.hand = "none" /\ waiting' = NoEvent
         /\ \/ waiting = NoEvent /\ run'.stage = "idle" /\ run'.event = NoEvent
            \/ waiting # NoEvent /\ run'.stage = "assess" /\ run'.event = waiting
BY EventShapes DEF End, LoopTypes

\* What was due is lost for this head, or the run that waits is at it.
LEMMA LoseShape ==
  ASSUME LoopTypes, NEW due, Lose(due)
  PROVE  /\ lost' \in Nat /\ (lost' = lost \/ lost' = head.n)
         /\ due => lost' = head.n \/ Wakes(waiting)
<1>1. CASE due /\ ~Wakes(waiting)
  BY <1>1 DEF Lose, LoopTypes, Commits
<1>2. CASE ~(due /\ ~Wakes(waiting))
  BY <1>2 DEF Lose, LoopTypes
<1> QED
  BY <1>1, <1>2

\* The stages of the run under way.
LEMMA StageShape ==
  ASSUME LoopTypes, NEW stage \in LoopStages, Next(stage)
  PROVE  /\ run' \in LoopRuns /\ run'.stage = stage /\ run'.job = run.job /\ run'.event = run.event
         /\ run'.hand = run.hand /\ run'.outcome = run.outcome /\ waiting' = waiting /\ lost' = lost
BY DEF Next, LoopTypes, LoopRuns

\* A hand-over begins.
LEMMA HandShape ==
  ASSUME LoopTypes, NEW kind \in Hands, Hand(kind)
  PROVE  /\ run' \in LoopRuns /\ run'.stage = "handing" /\ run'.job = run.job /\ run'.event = run.event
         /\ run'.hand = kind /\ waiting' = waiting /\ lost' = lost
BY EventShapes DEF Hand, LoopTypes, LoopRuns, LoopStages

\* What a run takes with it from assess.
LEMMA AssessMoves ==
  ASSUME LoopInv, NEW known \in BOOLEAN, Assess(known)
  PROVE  /\ run.stage = "assess" /\ UNCHANGED <<github, sweep, loopOn, pushes, relabels, events>>
         /\ faults' = faults \/ faults' = faults + 1
         /\ \/ (Refused \/ ~OfHead(run.event)) /\ End /\ lost' = lost
            \/ ~Refused /\ End /\ Lose(Underway)
            \/ /\ ~Refused /\ OfHead(run.event)
               /\ run' \in LoopRuns /\ run'.event = run.event /\ waiting' = waiting /\ lost' = lost
               /\ run'.job.head = head /\ run'.job.summary = summary /\ run'.job.cycle = marks.cycles
               /\ run'.job.verdict = Verdict(run.event) /\ run'.job.action = Decision(run.event, known)
               /\ \/ run'.stage = "handing" /\ run'.hand = "needs-human" /\ run'.job.action = "give-up"
                  \/ run'.stage = "handing" /\ run'.hand = "ready" /\ run'.job.action = "done"
                  \/ run'.stage = "fix" /\ run'.hand = "none" /\ run'.job.action \in {"fix", "conflict", "verify"}
<1>1. LoopTypes /\ run \in LoopRuns /\ run.event \in LoopEvents
  BY DEF LoopInv, LoopTypes, LoopRuns
<1> DEFINE action == Decision(run.event, known)
           job == [head |-> head, summary |-> summary, cycle |-> marks.cycles, verdict |-> Verdict(run.event),
                   thread |-> thread, action |-> action]
           Do(stage, hand) == run' = [run EXCEPT !.stage = stage, !.job = job, !.hand = hand]
<1>2. /\ run.stage = "assess" /\ UNCHANGED <<github, sweep, loopOn, pushes, relabels, events>>
      /\ UNCHANGED faults \/ Fault
  BY Zenon DEF Assess
<1>3. faults' = faults \/ faults' = faults + 1
  BY <1>2 DEF Fault
<1>4. \/ (Refused \/ ~OfHead(run.event)) /\ End /\ lost' = lost
      \/ ~Refused /\ End /\ Lose(Underway)
      \/ /\ ~Refused /\ OfHead(run.event) /\ waiting' = waiting /\ lost' = lost
         /\ \/ action = "give-up" /\ Do("handing", "needs-human")
            \/ action = "done" /\ Do("handing", "ready")
            \/ action \in {"fix", "conflict", "verify"} /\ Do("fix", "none")
  BY Zenon DEF Assess
<1>5. ASSUME action \in {"give-up", "done", "fix", "conflict", "verify"},
             NEW stage \in LoopStages, NEW hand \in Hands, Do(stage, hand)
      PROVE  /\ run' \in LoopRuns /\ run'.event = run.event /\ run'.job = job
             /\ run'.stage = stage /\ run'.hand = hand
  <2>1. job \in Jobs
    <3>1. Verdict(run.event) \in Verdicts
      BY <1>1, WhatIsDecided
    <3> QED
      BY <1>1, <1>5, <3>1 DEF Jobs, LoopTypes, AllMarks
  <2> HIDE DEF job
  <2> QED
    BY <1>1, <1>5, <2>1 DEF LoopRuns
<1>6. /\ job.head = head /\ job.summary = summary /\ job.cycle = marks.cycles
      /\ job.verdict = Verdict(run.event) /\ job.action = action
  OBVIOUS
<1>7. /\ "handing" \in LoopStages /\ "fix" \in LoopStages
      /\ "ready" \in Hands /\ "needs-human" \in Hands /\ "none" \in Hands
  BY DEF LoopStages, Hands
<1> HIDE DEF job, action
<1>8. CASE action = "give-up" /\ Do("handing", "needs-human")
  BY <1>2, <1>3, <1>4, <1>5, <1>6, <1>7, <1>8 DEF action
<1>9. CASE action = "done" /\ Do("handing", "ready")
  BY <1>2, <1>3, <1>4, <1>5, <1>6, <1>7, <1>9 DEF action
<1>10. CASE action \in {"fix", "conflict", "verify"} /\ Do("fix", "none")
  BY <1>2, <1>3, <1>4, <1>5, <1>6, <1>7, <1>10 DEF action
<1> QED
  BY <1>2, <1>3, <1>4, <1>8, <1>9, <1>10

\* A hand-over takes the pull request off the loop.
LEMMA HandOverMoves ==
  ASSUME LoopTypes, HandOver
  PROVE  /\ run.stage = "handing" /\ End /\ lost' = lost
         /\ pr' \in PullRequests /\ ~pr'.labelled /\ (pr'.handed = "ready" => run.hand = "ready")
         /\ UNCHANGED <<head, conflict, thread, reviewing, ended, finished, summary, marks, sweep, loopOn, bounds>>
<1>1. run.stage = "handing" /\ End
      /\ UNCHANGED <<head, conflict, thread, reviewing, ended, finished, summary, marks, sweep, loopOn, lost, bounds>>
  BY DEF HandOver
<1> DEFINE handed == IF run.hand = "ready" THEN "ready" ELSE "needs-human"
<1>2. pr' = [pr EXCEPT !.labelled = FALSE, !.handed = handed]
  BY DEF HandOver
<1>3. handed \in {"ready", "needs-human"} /\ (handed = "ready" => run.hand = "ready")
  OBVIOUS
<1>4. pr \in PullRequests /\ head.n \in Nat
  BY DEF LoopTypes, Commits
<1> HIDE DEF handed
<1>5. pr' \in PullRequests /\ ~pr'.labelled /\ pr'.handed = handed
  BY <1>2, <1>3, <1>4 DEF PullRequests
<1> QED
  BY <1>1, <1>3, <1>5

\* Before a push: the head is another, or the pull request is given up or ready, or it goes on.
LEMMA PushCheckMoves ==
  ASSUME LoopTypes, PushCheck
  PROVE  /\ run.stage = "push"
         /\ UNCHANGED <<pr, head, conflict, thread, reviewing, ended, finished, summary, sweep, loopOn, bounds>>
         /\ marks' \in AllMarks /\ marks'.cycles = marks.cycles /\ marks.verified \subseteq marks'.verified
         /\ \/ (head.n # run.job.head.n \/ Refused) /\ End /\ lost' = lost
            \/ Hand("needs-human")
            \/ Hand("ready") /\ run.job.action = "verify" /\ run.job.head.n \in marks'.verified
            \/ Next("pushing") /\ run.outcome.status = "ready"
<1>1. /\ run.stage = "push"
      /\ UNCHANGED <<pr, head, conflict, thread, reviewing, ended, finished, summary, sweep, loopOn, bounds>>
  BY DEF PushCheck
<1>2. marks \in AllMarks /\ run.job.head.n \in Nat
  BY DEF LoopTypes, LoopRuns, Jobs, Commits
<1>3. \/ /\ marks' = marks
         /\ \/ (head.n # run.job.head.n \/ Refused) /\ End /\ lost' = lost
            \/ Hand("needs-human")
            \/ Next("pushing") /\ run.outcome.status = "ready"
      \/ /\ marks' = [marks EXCEPT !.verified = @ \cup {run.job.head.n}]
         /\ Hand("ready") /\ run.job.action = "verify"
  BY DEF PushCheck, AcceptVerified
<1>4. CASE marks' = [marks EXCEPT !.verified = @ \cup {run.job.head.n}] /\ Hand("ready") /\ run.job.action = "verify"
  <2> DEFINE verified == marks.verified \cup {run.job.head.n}
  <2>1. verified \in SUBSET Nat /\ marks.verified \subseteq verified /\ run.job.head.n \in verified
    BY <1>2 DEF AllMarks
  <2>2. marks' = [marks EXCEPT !.verified = verified]
    BY <1>4
  <2> HIDE DEF verified
  <2> QED
    BY <1>1, <1>2, <1>4, <2>1, <2>2 DEF AllMarks
<1> QED
  BY <1>1, <1>2, <1>3, <1>4

\* A new head, and what is known of it.
LEMMA NewHeadShape ==
  ASSUME LoopInv, NEW new \in Commits, NEW conflicts \in BOOLEAN, NEW late \in BOOLEAN,
         NewHead(new, conflicts, late), new.n = head.n + 1, new.diff \in {head.diff, new.n}, finished' = finished
  PROVE  /\ head' = new /\ head'.n = head.n + 1 /\ head' \in Commits /\ conflict' \in BOOLEAN
         /\ reviewing' \in [n : Nat, diff : Nat] /\ ended' \in Conclusions /\ summary' \in Summaries
         /\ ended' = "none" /\ (conflicts \/ reviewing'.n = head'.n) /\ conflict' = conflicts
         /\ Reviewed'
<1>1. /\ LoopTypes /\ Reviewed /\ head \in Commits /\ summary \in Summaries /\ finished \in Nat
      /\ reviewing \in [n : Nat, diff : Nat]
  BY DEF LoopInv, LoopTypes
<1> DEFINE newer == late /\ summary.of # NoHead
<1>2. /\ head' = new /\ conflict' = conflicts /\ ended' = "none"
      /\ summary' = [summary EXCEPT !.newer = newer]
      /\ reviewing' = IF conflicts THEN reviewing ELSE [n |-> new.n, diff |-> new.diff]
  BY DEF NewHead
<1>3. newer \in BOOLEAN
  OBVIOUS
<1> HIDE DEF newer
<1>4. /\ summary' \in Summaries /\ summary'.of = summary.of /\ summary'.diff = summary.diff
  BY <1>1, <1>2, <1>3 DEF Summaries
<1>5. /\ reviewing' \in [n : Nat, diff : Nat]
      /\ conflicts \/ (reviewing'.n = new.n /\ reviewing'.diff = new.diff)
      /\ conflicts => reviewing' = reviewing
  <2>1. new.n \in Nat /\ new.diff \in Nat
    BY DEF Commits
  <2>2. CASE conflicts
    BY <1>1, <1>2, <2>2
  <2>3. CASE ~conflicts
    BY <1>2, <2>1, <2>3
  <2> QED
    BY <2>2, <2>3
<1>6. /\ new.n \in Nat /\ new.diff \in Nat /\ head.n \in Nat /\ head.diff \in Nat /\ summary.diff \in Nat
      /\ summary.of \in Nat
  BY <1>1 DEF Commits, Summaries
<1>7. Reviewed'
  <2>1. head'.n > 0 /\ head'.diff <= head'.n /\ head.diff <= head'.diff
    BY <1>1, <1>2, <1>6 DEF Reviewed
  <2>2. finished' <= summary'.diff /\ summary'.diff <= head'.diff /\ summary'.of <= head'.n /\ summary'.of # head'.n
    BY <1>1, <1>2, <1>4, <1>6, <2>1 DEF Reviewed
  <2>3. ASSUME reviewing' # NoReview
        PROVE  /\ reviewing'.n > 0 /\ reviewing'.n <= head'.n
               /\ summary'.diff <= reviewing'.diff /\ reviewing'.diff <= head'.diff
               /\ reviewing'.n = head'.n => reviewing'.diff = head'.diff
               /\ reviewing'.n # head'.n => conflict'
               /\ ended' = "none"
    <3>1. CASE conflicts
      BY <1>1, <1>2, <1>4, <1>5, <1>6, <2>1, <2>3, <3>1 DEF Reviewed
    <3>2. CASE ~conflicts
      BY <1>2, <1>4, <1>5, <1>6, <2>1, <2>2, <3>2
    <3> QED
      BY <3>1, <3>2
  <2> QED
    BY <1>2, <1>5, <2>1, <2>2, <2>3 DEF Reviewed
<1> QED
  BY <1>2, <1>4, <1>5, <1>7 DEF Conclusions

\* The push: a new head, by the loop, or none.
LEMMA PushMoves ==
  ASSUME LoopInv, Push
  PROVE  /\ run.stage = "pushing"
         /\ UNCHANGED <<pr, thread, finished, marks, sweep, loopOn, relabels, events, faults>>
         /\ \/ Next("answering") /\ ~run.outcome.merged /\ ~run.outcome.patch /\ UNCHANGED <<github, pushes>>
            \/ Hand("failed") /\ UNCHANGED <<github, pushes>>
            \/ /\ pushes' = pushes + 1 /\ run' \in LoopRuns /\ run'.stage = "testing"
               /\ run'.job = run.job /\ run'.event = run.event /\ run'.hand = run.hand
               /\ waiting' \in {waiting, CancelledEvent} /\ lost' \in Nat
               /\ \E new \in Commits, conflicts \in BOOLEAN :
                    NewHead(new, conflicts, FALSE) /\ new.n = head.n + 1 /\ new.diff \in {head.diff, new.n}
<1>1. LoopTypes /\ run \in LoopRuns /\ head \in Commits
  BY DEF LoopInv, LoopTypes
<1>2. run.stage = "pushing" /\ UNCHANGED <<sweep, loopOn, relabels, events, faults>>
  BY DEF Push
<1> DEFINE conflicts == IF run.outcome.merged THEN run.moved ELSE conflict
           diff == IF run.outcome.patch \/ run.outcome.resolved THEN head.n + 1 ELSE head.diff
           new == [n |-> head.n + 1, merge |-> ~run.outcome.patch, diff |-> diff, own |-> FALSE]
<1>3. \/ Next("answering") /\ ~run.outcome.merged /\ ~run.outcome.patch /\ UNCHANGED <<github, pushes>>
      \/ Hand("failed") /\ UNCHANGED <<github, pushes>>
      \/ /\ NewHead(new, conflicts, FALSE) /\ pushes' = pushes + 1 /\ run' = [run EXCEPT !.stage = "testing"]
         /\ Queue(CancelledEvent) \/ UNCHANGED <<waiting, lost>>
         /\ UNCHANGED <<pr, thread, finished, marks>>
  BY DEF Push
<1>4. CASE /\ NewHead(new, conflicts, FALSE) /\ pushes' = pushes + 1 /\ run' = [run EXCEPT !.stage = "testing"]
           /\ Queue(CancelledEvent) \/ UNCHANGED <<waiting, lost>>
           /\ UNCHANGED <<pr, thread, finished, marks>>
  <2>1. /\ run' \in LoopRuns /\ run'.stage = "testing"
        /\ run'.job = run.job /\ run'.event = run.event /\ run'.hand = run.hand
    BY <1>1, <1>4 DEF LoopRuns, LoopStages
  <2>2. waiting' \in {waiting, CancelledEvent} /\ lost' \in Nat
    BY <1>1, <1>4, QueueShape, EventShapes DEF LoopTypes
  <2>3. conflicts \in BOOLEAN
    BY <1>1 DEF LoopTypes, LoopRuns
  <2>4. (~run.outcome.patch) \in BOOLEAN /\ head.n + 1 \in Nat /\ diff \in Nat /\ diff \in {head.diff, head.n + 1}
    BY <1>1 DEF Commits
  <2>5. new \in Commits /\ new.n = head.n + 1 /\ new.diff \in {head.diff, new.n}
    BY <2>4 DEF Commits
  <2> HIDE DEF new, conflicts
  <2> QED
    BY <1>2, <1>4, <2>1, <2>2, <2>3, <2>5
<1> QED
  BY <1>2, <1>3, <1>4 DEF github

\* After the push: a dispatch, when no review will come.
LEMMA PushTestMoves ==
  ASSUME LoopTypes, PushTest
  PROVE  /\ run.stage = "testing"
         /\ run' \in LoopRuns /\ run'.stage = "answering" /\ run'.job = run.job /\ run'.event = run.event
         /\ run'.hand = run.hand
         /\ UNCHANGED <<github, sweep, loopOn, pushes, relabels, events>>
         /\ faults' = faults \/ faults' = faults + 1
         /\ \/ ~conflict /\ waiting' = waiting /\ lost' = lost
            \/ conflict /\ Queue(DispatchEvent)
            \/ conflict /\ waiting' = waiting /\ Lose(TRUE)
<1>1. /\ run.stage = "testing" /\ run' = [run EXCEPT !.stage = "answering"]
      /\ UNCHANGED <<github, sweep, loopOn, pushes, relabels, events>>
      /\ faults' = faults \/ faults' = faults + 1
      /\ \/ ~conflict /\ waiting' = waiting /\ lost' = lost
         \/ conflict /\ Queue(DispatchEvent)
         \/ conflict /\ waiting' = waiting /\ Lose(TRUE)
  BY DEF PushTest, Fault
<1>2. /\ run' \in LoopRuns /\ run'.stage = "answering" /\ run'.job = run.job /\ run'.event = run.event
      /\ run'.hand = run.hand
  BY <1>1 DEF LoopTypes, LoopRuns, LoopStages
<1> QED
  BY <1>1, <1>2

\* The answers: one cycle more, and the next run or a human.
LEMMA PushAnswerMoves ==
  ASSUME LoopTypes, PushAnswer
  PROVE  /\ run.stage = "answering"
         /\ UNCHANGED <<pr, head, conflict, reviewing, ended, finished, summary, sweep, loopOn, bounds>>
         /\ thread' \in BOOLEAN
         /\ marks' \in AllMarks /\ marks'.cycles = marks.cycles + 1 /\ marks'.verified = marks.verified
         /\ \/ (run.outcome.merged \/ run.outcome.patch) /\ End /\ lost' = lost
            \/ Hand("needs-human")
<1>1. /\ run.stage = "answering"
      /\ UNCHANGED <<pr, head, conflict, reviewing, ended, finished, summary, sweep, loopOn, bounds>>
      /\ thread' \in {thread, FALSE} /\ marks' = Marked(run.job, run.outcome)
      /\ \/ (run.outcome.merged \/ run.outcome.patch) /\ End /\ lost' = lost
         \/ Hand("needs-human")
  BY DEF PushAnswer
<1> DEFINE cycles == marks.cycles + 1
           changes == IF run.job.action = "fix" /\ run.job.verdict = "changes" /\ ~run.outcome.resolved
                      THEN marks.changes + 1 ELSE marks.changes
<1>2. marks' = [marks EXCEPT !.cycles = cycles, !.changes = changes]
  BY <1>1 DEF Marked
<1>3. marks \in AllMarks /\ thread \in BOOLEAN
  BY DEF LoopTypes
<1>4. cycles \in Nat /\ changes \in Nat
  BY <1>3 DEF AllMarks
<1> HIDE DEF changes
<1>5. marks' \in AllMarks /\ marks'.cycles = marks.cycles + 1 /\ marks'.verified = marks.verified
  BY <1>2, <1>3, <1>4 DEF AllMarks
<1> QED
  BY <1>1, <1>3, <1>5

\* A failure that the push job catches, and one that nothing catches.
LEMMA FailureMoves ==
  /\ PushThrows => /\ run.stage \in {"push", "pushing", "testing", "answering", "handing"} /\ Hand("failed")
                   /\ UNCHANGED <<github, sweep, loopOn, bounds>>
  /\ RunFails => /\ run.stage \notin {"idle", "fix"} /\ End /\ Lose(Underway) /\ faults' = faults + 1
                 /\ UNCHANGED <<github, sweep, loopOn, pushes, relabels, events>>
BY DEF PushThrows, RunFails, Fault

\* The end of a review is an event of its head; a label is one of the head it is put on.
LEMMA ReviewerEventShapes ==
  ASSUME LoopTypes
  PROVE  /\ \A conclusion \in {"success", "failure"} :
              LET event == ReviewEvent(conclusion) IN
              /\ event \in LoopEvents /\ event.kind = "review" /\ event.head = reviewing.n
              /\ event.conclusion = conclusion
         /\ LET event == [NoEvent EXCEPT !.kind = "label", !.head = head.n] IN
              /\ event \in LoopEvents /\ event.kind = "label" /\ event.head = head.n /\ event.conclusion = "none"
BY EventShapes DEF ReviewEvent, LoopEvents, Conclusions, LoopTypes, Commits

-----------------------------------------------------------------------------

\* What happens around the loop's runs: reviews that end, people, main, the sweep.
AroundIt ==
  \/ \E posts \in BOOLEAN, verdict \in {"none", "ready", "changes"}, conclusion \in {"success", "failure"} :
       ReviewEnds(posts, verdict, conclusion)
  \/ \E kind \in {"commit", "merge", "update"}, conflicts, late \in BOOLEAN : PersonPushes(kind, conflicts, late)
  \/ PersonLabels \/ PersonTakesOver \/ PersonComments \/ PersonDispatches \/ TokenExpires
  \/ \E conflicts \in BOOLEAN : MainMoves(conflicts)
  \/ SweepConflicts \/ SweepMisses
  \/ UNCHANGED loopVars

\* The end of a review, and what is known after it.
LEMMA ReviewMoves ==
  ASSUME LoopInv, NEW posts \in BOOLEAN, NEW verdict \in Verdicts, NEW conclusion \in {"success", "failure"},
         ReviewEnds(posts, verdict, conclusion)
  PROVE  /\ UNCHANGED <<pr, head, conflict, thread, marks, sweep, loopOn, bounds>>
         /\ Trigger(ReviewEvent(conclusion)) /\ reviewing # NoReview /\ reviewing' = NoReview
         /\ summary' \in Summaries /\ ended' \in Conclusions /\ finished' \in Nat
         /\ reviewing.n = head.n => ended' = conclusion
         /\ reviewing.n # head.n => ended' = ended
         /\ summary' = summary \/ summary'.newer
         /\ summary.newer /\ summary.verdict # "none" => summary' = summary \/ reviewing.n = head.n \/ conflict
         /\ Reviewed'
<1>1. /\ LoopTypes /\ Reviewed /\ reviewing \in [n : Nat, diff : Nat] /\ finished \in Nat /\ summary \in Summaries
      /\ head.n \in Nat /\ head.diff \in Nat /\ reviewing.n \in Nat /\ reviewing.diff \in Nat
      /\ summary.diff \in Nat /\ summary.of \in Nat
  BY DEF LoopInv, LoopTypes, Commits, Summaries
<1>2. /\ UNCHANGED <<pr, head, conflict, thread, marks, sweep, loopOn, bounds>>
      /\ Trigger(ReviewEvent(conclusion)) /\ reviewing # NoReview /\ reviewing' = NoReview
      /\ ~posts => (conclusion = "success" => reviewing.diff = finished)
      /\ summary' = IF posts THEN [verdict |-> verdict, of |-> reviewing.n, diff |-> reviewing.diff, newer |-> TRUE]
                              ELSE summary
      /\ ended' = IF reviewing.n = head.n THEN conclusion ELSE ended
      /\ finished' = IF conclusion = "success" THEN reviewing.diff ELSE finished
  BY DEF ReviewEnds, MaySkip
<1>3. summary' \in Summaries /\ ended' \in Conclusions /\ finished' \in Nat
  BY <1>1, <1>2 DEF Summaries, LoopTypes, Conclusions
<1>4. /\ reviewing.n <= head.n /\ summary.diff <= reviewing.diff /\ reviewing.diff <= head.diff
      /\ reviewing.n = head.n => reviewing.diff = head.diff
      /\ reviewing.n # head.n => conflict
      /\ ended = "none" /\ finished <= summary.diff
  BY <1>1, <1>2 DEF Reviewed
<1>5. finished' <= summary'.diff /\ summary'.diff <= head.diff /\ summary'.of <= head.n
  <2>1. CASE posts
    BY <1>1, <1>2, <1>4, <2>1 DEF Reviewed
  <2>2. CASE ~posts
    BY <1>1, <1>2, <1>4, <2>2 DEF Reviewed
  <2> QED
    BY <2>1, <2>2
<1>6. ended' = "none" => conflict
  BY <1>2, <1>4
<1>7. ended' = "success" => summary'.diff = head.diff
  BY <1>1, <1>2, <1>4, <1>5
<1>8. summary'.newer => summary'.diff = head.diff \/ summary'.of # head.n
  BY <1>1, <1>2, <1>4 DEF Reviewed
<1>9. Reviewed'
  BY <1>1, <1>2, <1>5, <1>6, <1>7, <1>8 DEF Reviewed
<1>10. summary' = summary \/ summary'.newer
  BY <1>2
<1> QED
  BY <1>2, <1>3, <1>4, <1>9, <1>10

\* A person's push: a new head, which is reviewed or conflicts.
LEMMA PersonPushMoves ==
  ASSUME LoopInv, NEW kind \in {"commit", "merge", "update"}, NEW conflicts \in BOOLEAN, NEW late \in BOOLEAN,
         PersonPushes(kind, conflicts, late)
  PROVE  /\ UNCHANGED <<pr, thread, finished, marks, loopOn, relabels, pushes, sweep, faults>>
         /\ events' = events + 1
         /\ Trigger(CancelledEvent) \/ UNCHANGED <<run, waiting, lost>>
         /\ head'.own \/ reviewing'.n = head'.n
         /\ \E new \in Commits :
              NewHead(new, conflicts, late) /\ new.n = head.n + 1 /\ new.diff \in {head.diff, new.n}
<1>1. head \in Commits
  BY DEF LoopInv, LoopTypes
<1> DEFINE diff == IF kind = "update" THEN head.diff ELSE head.n + 1
           new == [n |-> head.n + 1, merge |-> kind # "commit", diff |-> diff, own |-> conflicts]
<1>2. /\ UNCHANGED <<pr, thread, finished, marks, loopOn, relabels, pushes, sweep, faults>>
      /\ events' = events + 1
      /\ Trigger(CancelledEvent) \/ UNCHANGED <<run, waiting, lost>>
      /\ NewHead(new, conflicts, late)
  BY DEF PersonPushes, Person, Outside
<1>3. (kind # "commit") \in BOOLEAN /\ head.n + 1 \in Nat /\ diff \in Nat /\ diff \in {head.diff, head.n + 1}
  BY <1>1 DEF Commits
<1>4. new \in Commits /\ new.n = head.n + 1 /\ new.diff \in {head.diff, new.n} /\ new.own = conflicts
  BY <1>3 DEF Commits
<1> HIDE DEF new
<1>5. head'.own \/ reviewing'.n = head'.n
  BY <1>2, <1>4 DEF NewHead
<1> QED
  BY <1>2, <1>4, <1>5

\* What else people and the sweep do leaves the head and its review alone.
LEMMA OutsideMoves ==
  ASSUME LoopInv,
         \/ PersonLabels \/ PersonTakesOver \/ PersonComments \/ PersonDispatches \/ TokenExpires
         \/ \E conflicts \in BOOLEAN : MainMoves(conflicts)
         \/ SweepConflicts \/ SweepMisses
         \/ UNCHANGED loopVars
  PROVE  /\ UNCHANGED <<head, reviewing, ended, finished, summary, marks, pushes>>
         /\ pr' \in PullRequests /\ (conflict => conflict') /\ (loopOn' => loopOn)
         /\ pr'.handed = "ready" => pr.handed = "ready"
         /\ conflict' \in BOOLEAN /\ thread' \in BOOLEAN /\ sweep' \in BOOLEAN /\ loopOn' \in BOOLEAN
         /\ relabels' \in {relabels, relabels + 1} /\ events' \in {events, events + 1}
         /\ faults' \in {faults, faults + 1}
         /\ pr'.labelled => pr.labelled \/ relabels' = relabels + 1
<1>1. LoopTypes /\ pr \in PullRequests
  BY DEF LoopInv, LoopTypes
<1>2. CASE PersonLabels
  <2>1. pr' = [pr EXCEPT !.labelled = TRUE, !.handed = "none"] /\ relabels' = relabels + 1
    BY <1>2 DEF PersonLabels
  <2>2. pr' \in PullRequests /\ pr'.handed = "none"
    BY <1>1, <2>1 DEF PullRequests, NoHead
  <2> QED
    BY <1>1, <1>2, <2>1, <2>2 DEF PersonLabels, Person, Outside, LoopTypes
<1>3. CASE PersonTakesOver
  <2>1. pr' = [pr EXCEPT !.labelled = FALSE] \/ pr' = [pr EXCEPT !.open = FALSE]
    BY <1>3 DEF PersonTakesOver
  <2>2. pr' \in PullRequests /\ pr'.handed = pr.handed /\ (pr'.labelled => pr.labelled)
    BY <1>1, <2>1 DEF PullRequests
  <2> QED
    BY <1>1, <1>3, <2>2 DEF PersonTakesOver, Person, Outside, LoopTypes
<1>4. CASE PersonComments
  <2>1. thread' \in BOOLEAN
    BY <1>4 DEF PersonComments
  <2> QED
    BY <1>1, <1>4, <2>1 DEF PersonComments, Person, Outside, LoopTypes
<1>5. CASE PersonDispatches \/ TokenExpires
  <2>1. /\ UNCHANGED <<pr, head, conflict, thread, reviewing, ended, finished, summary, marks, sweep>>
        /\ UNCHANGED <<pushes, relabels, faults>> /\ events' = events + 1
        /\ loopOn' = loopOn \/ loopOn' = FALSE
    BY <1>5 DEF PersonDispatches, TokenExpires, Person, Outside, github
  <2>2. loopOn' \in BOOLEAN /\ (loopOn' => loopOn)
    <3>1. loopOn \in BOOLEAN
      BY <1>1 DEF LoopTypes
    <3>2. CASE loopOn' = loopOn
      BY <3>1, <3>2
    <3>3. CASE loopOn' = FALSE
      BY <3>3, Zenon
    <3> QED
      BY <2>1, <3>2, <3>3
  <2> QED
    BY <1>1, <2>1, <2>2 DEF LoopTypes
<1>6. ASSUME NEW conflicts \in BOOLEAN, MainMoves(conflicts)
      PROVE  /\ UNCHANGED <<head, reviewing, ended, finished, summary, marks, pushes, pr, thread, loopOn, relabels,
                            faults>>
             /\ (conflict => conflict') /\ conflict' \in BOOLEAN /\ sweep' \in BOOLEAN /\ events' = events + 1
  <2>1. conflict' = (conflict \/ conflicts)
    BY <1>6 DEF MainMoves
  <2>2. (conflict => conflict') /\ conflict' \in BOOLEAN
    BY <2>1, Zenon
  <2> QED
    BY <1>6, <2>2 DEF MainMoves, Outside
<1>7. CASE SweepConflicts \/ SweepMisses \/ UNCHANGED loopVars
  <2>1. /\ UNCHANGED <<pr, head, conflict, thread, reviewing, ended, finished, summary, marks, loopOn>>
        /\ UNCHANGED <<pushes, relabels, events>> /\ faults' \in {faults, faults + 1}
        /\ sweep' = sweep \/ sweep' = FALSE
    BY <1>7 DEF SweepConflicts, SweepMisses, Fault, loopVars, github, bounds
  <2>2. sweep' \in BOOLEAN
    BY <1>1, <2>1, Zenon DEF LoopTypes
  <2> QED
    BY <1>1, <2>1, <2>2 DEF LoopTypes
<1> QED
  BY <1>1, <1>2, <1>3, <1>4, <1>5, <1>6, <1>7 DEF LoopTypes

\* None of it changes a run under way: at most it starts one.
LEMMA RunsAreKept ==
  ASSUME LoopInv, AroundIt
  PROVE  /\ run' \in LoopRuns /\ waiting' \in LoopEvents /\ lost' \in Nat
         /\ \/ /\ run'.stage = run.stage /\ run'.job = run.job /\ run'.outcome = run.outcome
               /\ run'.event = run.event /\ run'.hand = run.hand
            \/ /\ run.stage = "idle" /\ run'.stage = "assess" /\ run'.job = NoJob /\ run'.hand = "none"
<1>1. LoopTypes /\ run \in LoopRuns /\ waiting \in LoopEvents /\ lost \in Nat
  BY DEF LoopInv, LoopTypes
<1> DEFINE Kept == /\ run'.stage = run.stage /\ run'.job = run.job /\ run'.outcome = run.outcome
                   /\ run'.event = run.event /\ run'.hand = run.hand
           Starts == run.stage = "idle" /\ run'.stage = "assess" /\ run'.job = NoJob /\ run'.hand = "none"
           Typed == run' \in LoopRuns /\ waiting' \in LoopEvents /\ lost' \in Nat
<1>2. ASSUME NEW event \in LoopEvents, Trigger(event) PROVE Typed /\ (Kept \/ Starts)
  BY <1>2, TriggerShape, EventShapes
<1>3. ASSUME NEW posts \in BOOLEAN, NEW verdict \in {"none", "ready", "changes"},
             NEW conclusion \in {"success", "failure"}, ReviewEnds(posts, verdict, conclusion)
      PROVE  Typed /\ (Kept \/ Starts)
  <2>1. Trigger(ReviewEvent(conclusion)) /\ ReviewEvent(conclusion) \in LoopEvents
    BY <1>1, <1>3, ReviewMoves, ReviewerEventShapes DEF Verdicts
  <2> QED
    BY <1>2, <2>1
<1>4. ASSUME NEW kind \in {"commit", "merge", "update"}, NEW conflicts \in BOOLEAN, NEW late \in BOOLEAN,
             PersonPushes(kind, conflicts, late)
      PROVE  Typed /\ (Kept \/ Starts)
  <2>1. Trigger(CancelledEvent) \/ UNCHANGED <<run, waiting, lost>>
    BY <1>4, PersonPushMoves
  <2> QED
    BY <1>1, <1>2, <2>1, EventShapes
<1>5. CASE PersonLabels
  <2> DEFINE event == [NoEvent EXCEPT !.kind = "label", !.head = head.n]
  <2>1. Trigger(event) /\ event \in LoopEvents
    BY <1>1, <1>5, ReviewerEventShapes DEF PersonLabels
  <2> HIDE DEF event
  <2> QED
    BY <1>2, <2>1
<1>6. CASE PersonDispatches \/ SweepConflicts
  <2>1. Trigger(DispatchEvent) \/ UNCHANGED <<run, waiting, lost>>
    BY <1>6 DEF PersonDispatches, SweepConflicts
  <2> QED
    BY <1>1, <1>2, <2>1, EventShapes
<1>7. ASSUME NEW conflicts \in BOOLEAN, MainMoves(conflicts) PROVE Typed /\ Kept
  <2>1. run' = [run EXCEPT !.moved = @ \/ conflicts] /\ UNCHANGED <<waiting, lost>>
    BY <1>7 DEF MainMoves
  <2>2. (run.moved \/ conflicts) \in BOOLEAN
    BY Zenon
  <2> QED
    BY <1>1, <2>1, <2>2 DEF LoopRuns
<1>8. CASE SweepMisses
  <2>1. Lose(~Underway) /\ UNCHANGED <<run, waiting>>
    BY <1>8 DEF SweepMisses
  <2>2. lost' \in Nat
    BY <1>1, <2>1 DEF Lose, LoopTypes, Commits
  <2> QED
    BY <1>1, <2>1, <2>2
<1>9. CASE PersonTakesOver \/ PersonComments \/ TokenExpires \/ UNCHANGED loopVars
  BY <1>1, <1>9 DEF PersonTakesOver, PersonComments, TokenExpires, loopVars
<1> QED
  BY <1>3, <1>4, <1>5, <1>6, <1>7, <1>8, <1>9 DEF AroundIt

-----------------------------------------------------------------------------

\* Whatever happens, the types are kept.
LEMMA LoopTypesStep == LoopInv /\ [LoopNext]_loopVars => LoopTypes'
<1> SUFFICES ASSUME LoopInv, [LoopNext]_loopVars PROVE LoopTypes'
  OBVIOUS
<1>1. LoopTypes
  BY DEF LoopInv
<1>2. ASSUME End, lost' \in Nat, pr' \in PullRequests, marks' \in AllMarks, thread' \in BOOLEAN, faults' \in Nat,
             UNCHANGED <<head, conflict, reviewing, ended, finished, summary, sweep, loopOn, pushes, relabels, events>>
      PROVE  LoopTypes'
  BY <1>1, <1>2, EndShape DEF LoopTypes
<1>3. ASSUME run' \in LoopRuns, waiting' \in LoopEvents, lost' \in Nat, marks' \in AllMarks, thread' \in BOOLEAN,
             faults' \in Nat,
             UNCHANGED <<pr, head, conflict, reviewing, ended, finished, summary, sweep, loopOn, pushes, relabels,
                         events>>
      PROVE  LoopTypes'
  BY <1>1, <1>3 DEF LoopTypes
<1>4. ASSUME NEW kind \in Hands, Hand(kind) PROVE run' \in LoopRuns /\ waiting' \in LoopEvents /\ lost' \in Nat
  BY <1>1, <1>4, HandShape DEF LoopTypes
<1>5. ASSUME NEW known \in BOOLEAN, Assess(known) PROVE LoopTypes'
  <2>1. /\ UNCHANGED <<pr, head, conflict, reviewing, ended, finished, summary, sweep, loopOn, pushes, relabels, events>>
        /\ marks' \in AllMarks /\ thread' \in BOOLEAN /\ faults' \in Nat
    BY <1>1, <1>5, AssessMoves DEF github, LoopTypes
  <2>2. CASE End /\ (lost' = lost \/ Lose(Underway))
    BY <1>1, <1>2, <2>1, <2>2, LoseShape DEF LoopTypes
  <2>3. CASE run' \in LoopRuns /\ waiting' = waiting /\ lost' = lost
    BY <1>1, <1>3, <2>1, <2>3 DEF LoopTypes
  <2> QED
    BY <1>5, <2>2, <2>3, AssessMoves
<1>6. CASE HandOver
  BY <1>1, <1>2, <1>6, HandOverMoves DEF LoopTypes, bounds
<1>7. CASE Fix
  BY <1>1, <1>3, <1>7, FixMoves DEF LoopTypes, github, bounds
<1>8. CASE PushCheck
  <2>1. /\ UNCHANGED <<pr, head, conflict, reviewing, ended, finished, summary, sweep, loopOn, pushes, relabels, events>>
        /\ marks' \in AllMarks /\ thread' \in BOOLEAN /\ faults' \in Nat
    BY <1>1, <1>8, PushCheckMoves DEF bounds, LoopTypes
  <2>2. CASE End /\ lost' = lost
    BY <1>1, <1>2, <2>1, <2>2 DEF LoopTypes
  <2>3. CASE Hand("needs-human") \/ Hand("ready")
    BY <1>3, <1>4, <2>1, <2>3 DEF Hands
  <2>4. CASE Next("pushing")
    BY <1>1, <1>3, <2>1, <2>4, StageShape DEF LoopStages, LoopTypes
  <2> QED
    BY <1>1, <1>8, <2>2, <2>3, <2>4, PushCheckMoves
<1>9. CASE Push
  <2>1. UNCHANGED <<pr, thread, finished, marks, sweep, loopOn, relabels, events, faults>>
    BY <1>9, PushMoves
  <2>2. CASE (Next("answering") \/ Hand("failed")) /\ UNCHANGED <<github, pushes>>
    <3>1. run' \in LoopRuns /\ waiting' \in LoopEvents /\ lost' \in Nat
      BY <1>1, <1>4, <2>2, StageShape DEF LoopStages, LoopTypes, Hands
    <3> QED
      BY <1>1, <1>3, <2>1, <2>2, <3>1 DEF github, LoopTypes
  <2>3. ASSUME pushes' = pushes + 1, run' \in LoopRuns, waiting' \in {waiting, CancelledEvent}, lost' \in Nat,
               NEW new \in Commits, NEW conflicts \in BOOLEAN,
               NewHead(new, conflicts, FALSE), new.n = head.n + 1, new.diff \in {head.diff, new.n}
        PROVE  LoopTypes'
    <3>1. /\ head' \in Commits /\ conflict' \in BOOLEAN /\ reviewing' \in [n : Nat, diff : Nat]
          /\ ended' \in Conclusions /\ summary' \in Summaries
      BY <2>1, <2>3, NewHeadShape
    <3>2. waiting' \in LoopEvents
      BY <1>1, <2>3, EventShapes DEF LoopTypes
    <3> QED
      BY <1>1, <2>1, <2>3, <3>1, <3>2 DEF LoopTypes
  <2> QED
    BY <1>9, <2>2, <2>3, PushMoves
<1>10. CASE PushTest
  <2>1. waiting' \in LoopEvents /\ lost' \in Nat
    BY <1>1, <1>10, PushTestMoves, QueueShape, LoseShape, EventShapes DEF LoopTypes
  <2> QED
    BY <1>1, <1>3, <1>10, <2>1, PushTestMoves DEF LoopTypes, github
<1>11. CASE PushAnswer
  <2>1. CASE End /\ lost' = lost
    BY <1>1, <1>2, <1>11, <2>1, PushAnswerMoves DEF LoopTypes, bounds
  <2>2. CASE Hand("needs-human")
    BY <1>1, <1>3, <1>4, <1>11, <2>2, PushAnswerMoves DEF LoopTypes, bounds, Hands
  <2> QED
    BY <1>1, <1>11, <2>1, <2>2, PushAnswerMoves
<1>12. CASE PushThrows
  BY <1>1, <1>3, <1>4, <1>12, FailureMoves DEF LoopTypes, github, bounds, Hands
<1>13. CASE RunFails
  BY <1>1, <1>2, <1>13, FailureMoves, LoseShape DEF LoopTypes, github
<1>14. CASE AroundIt
  <2>1. run' \in LoopRuns /\ waiting' \in LoopEvents /\ lost' \in Nat
    BY <1>14, RunsAreKept
  <2>2. ASSUME NEW posts \in BOOLEAN, NEW verdict \in {"none", "ready", "changes"},
               NEW conclusion \in {"success", "failure"}, ReviewEnds(posts, verdict, conclusion)
        PROVE  LoopTypes'
    <3>1. /\ UNCHANGED <<pr, head, conflict, thread, marks, sweep, loopOn, bounds>> /\ reviewing' = NoReview
          /\ summary' \in Summaries /\ ended' \in Conclusions /\ finished' \in Nat
      BY <2>2, ReviewMoves DEF Verdicts
    <3>2. reviewing' \in [n : Nat, diff : Nat]
      BY <3>1 DEF NoReview, NoHead
    <3> QED
      BY <1>1, <2>1, <3>1, <3>2 DEF LoopTypes, bounds
  <2>3. ASSUME NEW kind \in {"commit", "merge", "update"}, NEW conflicts \in BOOLEAN, NEW late \in BOOLEAN,
               PersonPushes(kind, conflicts, late)
        PROVE  LoopTypes'
    <3>1. UNCHANGED <<pr, thread, finished, marks, loopOn, relabels, pushes, sweep, faults>> /\ events' = events + 1
      BY <2>3, PersonPushMoves
    <3>2. /\ head' \in Commits /\ conflict' \in BOOLEAN /\ reviewing' \in [n : Nat, diff : Nat]
          /\ ended' \in Conclusions /\ summary' \in Summaries
      BY <2>3, <3>1, PersonPushMoves, NewHeadShape
    <3> QED
      BY <1>1, <2>1, <3>1, <3>2 DEF LoopTypes
  <2>4. CASE /\ ~\E posts \in BOOLEAN, verdict \in {"none", "ready", "changes"}, conclusion \in {"success", "failure"} :
                  ReviewEnds(posts, verdict, conclusion)
             /\ ~\E kind \in {"commit", "merge", "update"}, conflicts, late \in BOOLEAN :
                  PersonPushes(kind, conflicts, late)
    BY <1>1, <1>14, <2>1, <2>4, OutsideMoves DEF LoopTypes, AroundIt
  <2> QED
    BY <2>2, <2>3, <2>4
<1> QED
  BY <1>5, <1>6, <1>7, <1>8, <1>9, <1>10, <1>11, <1>12, <1>13, <1>14 DEF LoopNext, AroundIt

\* A cycle starts below the cap, and its push is one more than the comments count until its own is written;
\* when that is not, the pull request is off the loop until a person puts it back, or its run has died.
LEMMA CountedStep == LoopInv /\ [LoopNext]_loopVars => Counted'
<1> SUFFICES ASSUME LoopInv, [LoopNext]_loopVars PROVE Counted'
  OBVIOUS
<1>1. /\ LoopTypes /\ Counted /\ run \in LoopRuns /\ marks.cycles \in Nat /\ MaxCycles \in Nat
      /\ pushes \in Nat /\ relabels \in Nat /\ faults \in Nat
  BY CyclesAssumption DEF LoopInv, LoopTypes, AllMarks
<1> DEFINE room == marks.cycles + relabels + faults
<1>2. ASSUME End, UNCHANGED <<pushes, relabels>>,
             \/ /\ marks'.cycles = marks.cycles
                /\ \/ faults' = faults /\ pushes <= room + (IF pr'.labelled THEN 0 ELSE 1)
                   \/ faults' = faults + 1 /\ pushes <= room + 1
             \/ marks'.cycles = marks.cycles + 1 /\ faults' = faults /\ pushes <= room + 1
      PROVE  Counted'
  <2>1. run'.stage \in {"idle", "assess"}
    BY <1>1, <1>2, EndShape
  <2> QED
    BY <1>1, <1>2, <2>1 DEF Counted, CyclesBounded
<1>3. ASSUME run'.stage = "handing", UNCHANGED <<pushes, relabels>>, faults' \in {faults, faults + 1},
             marks'.cycles \in {marks.cycles, marks.cycles + 1}, pushes <= room + 1
      PROVE  Counted'
  <2>1. /\ pushes <= MaxCycles + relabels + faults'
        /\ pushes <= marks'.cycles + relabels + faults' + 1
    <3>1. faults' \in Nat /\ faults <= faults' /\ marks'.cycles \in Nat /\ marks.cycles <= marks'.cycles
      BY <1>1, <1>3
    <3>2. pushes <= MaxCycles + relabels + faults /\ pushes <= marks.cycles + relabels + faults + 1
      BY <1>1, <1>3 DEF Counted, CyclesBounded
    <3>3. /\ MaxCycles \in Nat /\ relabels \in Nat /\ faults \in Nat /\ pushes \in Nat /\ marks.cycles \in Nat
      BY <1>1
    <3>4. \A a, b, c, d, e, f \in Nat :
            e <= f => /\ a <= b + c + e => a <= b + c + f
                      /\ d <= b /\ a <= d + c + e + 1 => a <= b + c + f + 1
      OBVIOUS
    <3> HIDE DEF room
    <3> QED
      BY <3>1, <3>2, <3>3, <3>4
  <2> QED
    BY <1>3, <2>1 DEF Counted, CyclesBounded
<1>4. ASSUME NEW known \in BOOLEAN, Assess(known) PROVE Counted'
  <2>1. /\ UNCHANGED <<pushes, relabels, marks, pr>> /\ run.stage = "assess" /\ faults' \in {faults, faults + 1}
        /\ pushes <= room + (IF pr.labelled THEN 0 ELSE 1)
    BY <1>1, <1>4, AssessMoves DEF github, Counted
  <2>2. CASE End
    BY <1>1, <1>2, <2>1, <2>2
  <2>3. CASE run'.stage = "handing"
    BY <1>1, <1>3, <2>1, <2>3
  <2>4. CASE /\ ~Refused /\ run'.stage = "fix" /\ run'.job.cycle = marks.cycles
             /\ run'.job.action = Decision(run.event, known) /\ run'.job.action \in {"fix", "conflict", "verify"}
    <3>1. run'.job.action # "verify" => marks.cycles < MaxCycles
      <4>1. run.event \in LoopEvents
        BY <1>1 DEF LoopRuns
      <4> QED
        BY <1>1, <2>4, <4>1, WhatIsDecided
    <3>2. pr.labelled /\ pushes <= marks.cycles + relabels + faults' /\ pushes <= MaxCycles + relabels + faults'
      <4>1. faults' \in Nat /\ faults <= faults'
        BY <1>1, <2>1
      <4>2. pr.labelled /\ pushes <= marks.cycles + relabels + faults /\ pushes <= MaxCycles + relabels + faults
        BY <1>1, <2>1, <2>4 DEF Counted, CyclesBounded, Refused
      <4>3. \A a, b, c, e, f \in Nat : e <= f /\ a <= b + c + e => a <= b + c + f
        OBVIOUS
      <4> HIDE DEF room
      <4> QED
        BY <1>1, <4>1, <4>2, <4>3
    <3> QED
      BY <2>1, <2>4, <3>1, <3>2 DEF Counted, CyclesBounded
  <2> QED
    BY <1>4, <2>2, <2>3, <2>4, AssessMoves
<1>5. CASE HandOver
  BY <1>1, <1>2, <1>5, HandOverMoves DEF bounds, Counted
<1>6. CASE Fix
  <2>1. /\ run.stage = "fix" /\ run'.stage = "push" /\ run'.job = run.job
        /\ run'.outcome.status = "ready" => MayChange(run.job)
        /\ UNCHANGED <<pushes, relabels, marks, faults>>
    BY <1>1, <1>6, FixMoves DEF github, bounds
  <2>2. run'.outcome.status = "ready" => marks.cycles < MaxCycles
    BY <1>1, <2>1 DEF MayChange, Counted
  <2> QED
    BY <1>1, <2>1, <2>2 DEF Counted, CyclesBounded
<1>7. CASE PushCheck
  <2>1. /\ run.stage = "push" /\ UNCHANGED <<pushes, relabels, faults>> /\ marks'.cycles = marks.cycles
        /\ pushes <= room
    BY <1>1, <1>7, PushCheckMoves DEF bounds, Counted
  <2>2. CASE End
    BY <1>1, <1>2, <2>1, <2>2
  <2>3. CASE Hand("needs-human") \/ Hand("ready")
    <3>1. run'.stage = "handing"
      BY <1>1, <2>3, HandShape DEF Hands
    <3> QED
      BY <1>1, <1>3, <2>1, <3>1
  <2>4. CASE Next("pushing") /\ run.outcome.status = "ready"
    <3>1. run'.stage = "pushing" /\ run'.job = run.job
      BY <1>1, <2>4, StageShape DEF LoopStages
    <3> QED
      BY <1>1, <2>1, <2>4, <3>1 DEF Counted, CyclesBounded
  <2> QED
    BY <1>1, <1>7, <2>2, <2>3, <2>4, PushCheckMoves
<1>8. CASE Push
  <2>1. /\ run.stage = "pushing" /\ UNCHANGED <<relabels, marks, faults>> /\ marks.cycles < MaxCycles
        /\ pushes <= room
    BY <1>1, <1>8, PushMoves DEF Counted
  <2>2. CASE Next("answering") /\ pushes' = pushes
    <3>1. run'.stage = "answering"
      BY <1>1, <2>2, StageShape DEF LoopStages
    <3> QED
      BY <1>1, <2>1, <2>2, <3>1 DEF Counted, CyclesBounded
  <2>3. CASE Hand("failed") /\ pushes' = pushes
    <3>1. run'.stage = "handing"
      BY <1>1, <2>3, HandShape DEF Hands
    <3> QED
      BY <1>1, <1>3, <2>1, <2>3, <3>1
  <2>4. CASE pushes' = pushes + 1 /\ run'.stage = "testing"
    BY <1>1, <2>1, <2>4 DEF Counted, CyclesBounded
  <2> QED
    BY <1>8, <2>2, <2>3, <2>4, PushMoves
<1>9. CASE PushTest
  <2>1. /\ run.stage = "testing" /\ run'.stage = "answering" /\ UNCHANGED <<pushes, relabels, marks>>
        /\ faults' \in {faults, faults + 1}
    BY <1>1, <1>9, PushTestMoves DEF github
  <2> QED
    BY <1>1, <2>1 DEF Counted, CyclesBounded
<1>10. CASE PushAnswer
  <2>1. /\ run.stage = "answering" /\ UNCHANGED <<pushes, relabels, faults>> /\ pushes <= room + 1
        /\ marks'.cycles = marks.cycles + 1
    BY <1>1, <1>10, PushAnswerMoves DEF bounds, Counted
  <2>2. CASE End
    BY <1>1, <1>2, <2>1, <2>2
  <2>3. CASE Hand("needs-human")
    <3>1. run'.stage = "handing"
      BY <1>1, <2>3, HandShape DEF Hands
    <3> QED
      BY <1>1, <1>3, <2>1, <3>1
  <2> QED
    BY <1>1, <1>10, <2>2, <2>3, PushAnswerMoves
<1>11. CASE PushThrows
  <2>1. /\ run.stage \in {"push", "pushing", "testing", "answering", "handing"} /\ Hand("failed")
        /\ UNCHANGED <<pushes, relabels, marks, faults>>
    BY <1>11, FailureMoves DEF github, bounds
  <2>2. run'.stage = "handing" /\ pushes <= room + 1
    BY <1>1, <2>1, HandShape DEF Hands, Counted
  <2> QED
    BY <1>1, <1>3, <2>1, <2>2
<1>12. CASE RunFails
  <2>1. /\ run.stage \in LoopStages \ {"idle", "fix"} /\ End /\ UNCHANGED <<pushes, relabels, marks>>
        /\ faults' = faults + 1
    BY <1>1, <1>12, FailureMoves DEF github, LoopRuns
  <2>2. pushes <= room + 1
    BY <1>1, <2>1 DEF Counted, LoopStages
  <2> QED
    BY <1>1, <1>2, <2>1, <2>2
<1>13. CASE AroundIt
  <2>1. /\ pushes' = pushes /\ marks' = marks /\ relabels' \in {relabels, relabels + 1}
        /\ faults' \in {faults, faults + 1} /\ (pr'.labelled => pr.labelled \/ relabels' = relabels + 1)
    <3>1. ASSUME NEW posts \in BOOLEAN, NEW verdict \in {"none", "ready", "changes"},
                 NEW conclusion \in {"success", "failure"}, ReviewEnds(posts, verdict, conclusion)
          PROVE  UNCHANGED <<pr, marks, pushes, relabels, faults>>
      BY <3>1, ReviewMoves DEF bounds, Verdicts
    <3>2. ASSUME NEW kind \in {"commit", "merge", "update"}, NEW conflicts \in BOOLEAN, NEW late \in BOOLEAN,
                 PersonPushes(kind, conflicts, late)
          PROVE  UNCHANGED <<pr, marks, pushes, relabels, faults>>
      BY <3>2, PersonPushMoves
    <3> QED
      BY <1>13, <3>1, <3>2, OutsideMoves DEF AroundIt
  <2>2. CASE run'.stage = run.stage /\ run'.job = run.job /\ run'.outcome = run.outcome
    <3>1. CyclesBounded'
      BY <1>1, <2>1 DEF Counted, CyclesBounded
    <3>2. run'.stage \in {"idle", "assess"} =>
            pushes' <= marks'.cycles + relabels' + faults' + (IF pr'.labelled THEN 0 ELSE 1)
      BY <1>1, <2>1, <2>2 DEF Counted
    <3>3. run'.stage \in {"fix", "push", "pushing"} =>
            /\ pushes' <= marks'.cycles + relabels' + faults' /\ run'.job.cycle = marks'.cycles
            /\ run'.job.action # "verify" => marks'.cycles < MaxCycles
      BY <1>1, <2>1, <2>2 DEF Counted
    <3>4. run'.stage \in {"testing", "answering", "handing"} => pushes' <= marks'.cycles + relabels' + faults' + 1
      BY <1>1, <2>1, <2>2 DEF Counted
    <3>5. /\ run'.stage = "push" /\ run'.outcome.status = "ready" => marks'.cycles < MaxCycles
          /\ run'.stage = "pushing" => marks'.cycles < MaxCycles
      BY <1>1, <2>1, <2>2 DEF Counted
    <3> QED
      BY <3>1, <3>2, <3>3, <3>4, <3>5 DEF Counted
  <2>3. CASE run.stage = "idle" /\ run'.stage = "assess"
    <3>1. CyclesBounded'
      BY <1>1, <2>1 DEF Counted, CyclesBounded
    <3>2. pushes' <= marks'.cycles + relabels' + faults' + (IF pr'.labelled THEN 0 ELSE 1)
      BY <1>1, <2>1, <2>3 DEF Counted
    <3> QED
      BY <2>3, <3>1, <3>2 DEF Counted
  <2> QED
    BY <1>13, <2>2, <2>3, RunsAreKept
<1> QED
  BY <1>4, <1>5, <1>6, <1>7, <1>8, <1>9, <1>10, <1>11, <1>12, <1>13 DEF LoopNext, AroundIt

-----------------------------------------------------------------------------

\* A step gives the pull request a new head, ends a review, or leaves both alone.
LEMMA HeadSteps ==
  ASSUME LoopInv, [LoopNext]_loopVars
  PROVE  \/ head'.n = head.n + 1 /\ marks' = marks /\ Reviewed'
         \/ \E posts \in BOOLEAN, verdict \in Verdicts, conclusion \in {"success", "failure"} :
              ReviewEnds(posts, verdict, conclusion)
         \/ /\ UNCHANGED <<head, reviewing, ended, finished, summary>> /\ (conflict => conflict')
            /\ marks.verified \subseteq marks'.verified
<1>1. LoopTypes
  BY DEF LoopInv
<1>2. ASSUME NEW known \in BOOLEAN, Assess(known)
      PROVE  UNCHANGED <<head, reviewing, ended, finished, summary, conflict, marks>>
  BY <1>2, AssessMoves DEF github
<1>3. CASE HandOver \/ Fix \/ PushTest \/ PushThrows \/ RunFails
  BY <1>1, <1>3, HandOverMoves, FixMoves, PushTestMoves, FailureMoves DEF github
<1>4. CASE PushCheck \/ PushAnswer
  BY <1>1, <1>4, PushCheckMoves, PushAnswerMoves
<1>5. CASE Push
  <2>1. CASE UNCHANGED <<github, pushes>>
    BY <2>1 DEF github
  <2>2. ASSUME NEW new \in Commits, NEW conflicts \in BOOLEAN,
               NewHead(new, conflicts, FALSE), new.n = head.n + 1, new.diff \in {head.diff, new.n}
        PROVE  head'.n = head.n + 1 /\ marks' = marks /\ Reviewed'
    BY <1>5, <2>2, PushMoves, NewHeadShape
  <2> QED
    BY <1>5, <2>1, <2>2, PushMoves
<1>6. ASSUME NEW kind \in {"commit", "merge", "update"}, NEW conflicts \in BOOLEAN, NEW late \in BOOLEAN,
             PersonPushes(kind, conflicts, late)
      PROVE  head'.n = head.n + 1 /\ marks' = marks /\ Reviewed'
  BY <1>6, PersonPushMoves, NewHeadShape
<1>7. CASE \/ PersonLabels \/ PersonTakesOver \/ PersonComments \/ PersonDispatches \/ TokenExpires
           \/ \E conflicts \in BOOLEAN : MainMoves(conflicts)
           \/ SweepConflicts \/ SweepMisses
           \/ UNCHANGED loopVars
  <2>1. UNCHANGED <<head, reviewing, ended, finished, summary, marks>> /\ (conflict => conflict')
    BY <1>7, OutsideMoves
  <2> QED
    BY <2>1
<1> QED
  BY <1>2, <1>3, <1>4, <1>5, <1>6, <1>7 DEF LoopNext, Verdicts

\* What is known of a head and its review stays so.
LEMMA ReviewedStep == LoopInv /\ [LoopNext]_loopVars => Reviewed'
<1> SUFFICES ASSUME LoopInv, [LoopNext]_loopVars PROVE Reviewed'
  OBVIOUS
<1>1. CASE UNCHANGED <<head, reviewing, ended, finished, summary>> /\ (conflict => conflict')
  BY <1>1 DEF LoopInv, Reviewed
<1> QED
  BY <1>1, HeadSteps, ReviewMoves

\* The events the group holds after a step: those it held, or one that says nothing of a review, or the end
\* of one.
LEMMA EventSteps ==
  ASSUME LoopInv, [LoopNext]_loopVars, NEW event \in {run'.event, waiting'}
  PROVE  \/ event \in {run.event, waiting}
         \/ event.conclusion = "none"
         \/ \E posts \in BOOLEAN, verdict \in Verdicts, conclusion \in {"success", "failure"} :
              ReviewEnds(posts, verdict, conclusion) /\ event = ReviewEvent(conclusion)
<1>1. LoopTypes /\ run \in LoopRuns
  BY DEF LoopInv, LoopTypes
<1> DEFINE Same == event \in {run.event, waiting} \/ event.conclusion = "none"
<1>2. ASSUME End PROVE Same
  BY <1>1, <1>2, EndShape, EventShapes
<1>3. ASSUME run'.event = run.event, waiting' \in {waiting, DispatchEvent, CancelledEvent} PROVE Same
  BY <1>3, EventShapes
<1>4. ASSUME NEW e \in LoopEvents, Trigger(e) PROVE event \in {run.event, waiting, e}
  BY <1>4, TriggerShape, EventShapes
<1>5. ASSUME NEW known \in BOOLEAN, Assess(known) PROVE Same
  BY <1>2, <1>3, <1>5, AssessMoves
<1>6. ASSUME NEW kind \in Hands, Hand(kind) PROVE Same
  BY <1>1, <1>3, <1>6, HandShape
<1>7. ASSUME NEW stage \in LoopStages, Next(stage) PROVE Same
  BY <1>1, <1>3, <1>7, StageShape
<1>8. CASE HandOver \/ Fix \/ PushThrows \/ RunFails
  BY <1>1, <1>2, <1>3, <1>6, <1>8, HandOverMoves, FixMoves, FailureMoves DEF Hands
<1>9. CASE PushCheck \/ PushAnswer
  BY <1>1, <1>2, <1>6, <1>7, <1>9, PushCheckMoves, PushAnswerMoves DEF Hands, LoopStages
<1>10. CASE Push
  BY <1>3, <1>6, <1>7, <1>10, PushMoves DEF Hands, LoopStages
<1>11. CASE PushTest
  <2>1. waiting' \in {waiting, DispatchEvent}
    BY <1>1, <1>11, PushTestMoves, QueueShape, EventShapes
  <2> QED
    BY <1>1, <1>3, <1>11, <2>1, PushTestMoves
<1>12. ASSUME NEW posts \in BOOLEAN, NEW verdict \in {"none", "ready", "changes"},
              NEW conclusion \in {"success", "failure"}, ReviewEnds(posts, verdict, conclusion)
       PROVE  event \in {run.event, waiting} \/ event = ReviewEvent(conclusion)
  <2>1. Trigger(ReviewEvent(conclusion)) /\ ReviewEvent(conclusion) \in LoopEvents
    BY <1>1, <1>12, ReviewMoves, ReviewerEventShapes DEF Verdicts
  <2> QED
    BY <1>4, <2>1
<1>13. ASSUME NEW kind \in {"commit", "merge", "update"}, NEW conflicts \in BOOLEAN, NEW late \in BOOLEAN,
              PersonPushes(kind, conflicts, late)
       PROVE  Same
  <2>1. Trigger(CancelledEvent) \/ UNCHANGED <<run, waiting, lost>>
    BY <1>13, PersonPushMoves
  <2> QED
    BY <1>4, <2>1, EventShapes
<1>14. CASE PersonLabels
  <2> DEFINE e == [NoEvent EXCEPT !.kind = "label", !.head = head.n]
  <2>1. Trigger(e) /\ e \in LoopEvents /\ e.conclusion = "none"
    BY <1>1, <1>14, ReviewerEventShapes DEF PersonLabels
  <2> HIDE DEF e
  <2> QED
    BY <1>4, <2>1
<1>15. CASE PersonDispatches \/ SweepConflicts
  <2>1. Trigger(DispatchEvent) \/ UNCHANGED <<run, waiting, lost>>
    BY <1>15 DEF PersonDispatches, SweepConflicts
  <2> QED
    BY <1>4, <2>1, EventShapes
<1>16. ASSUME NEW conflicts \in BOOLEAN, MainMoves(conflicts) PROVE Same
  BY <1>1, <1>16 DEF MainMoves, LoopRuns
<1>17. CASE PersonTakesOver \/ PersonComments \/ TokenExpires \/ SweepMisses \/ UNCHANGED loopVars
  BY <1>17 DEF PersonTakesOver, PersonComments, TokenExpires, SweepMisses, loopVars
<1> QED
  BY <1>5, <1>8, <1>9, <1>10, <1>11, <1>12, <1>13, <1>14, <1>15, <1>16, <1>17 DEF LoopNext, Verdicts

\* What an event says of a review stays so: a head is reviewed once.
LEMMA ToldStep ==
  ASSUME LoopInv, [LoopNext]_loopVars, NEW event \in {run'.event, waiting'}
  PROVE  Told(event)'
<1>1. /\ LoopTypes /\ Reviewed /\ head.n \in Nat /\ reviewing.n \in Nat
      /\ run.event.head \in Nat /\ waiting.head \in Nat
  BY DEF LoopInv, LoopTypes, Commits, LoopRuns, LoopEvents
<1>2. ASSUME event.conclusion # "none"
      PROVE  /\ event.kind = "review" /\ event.head > 0 /\ event.head <= head'.n
             /\ event.head = head'.n => ended' = event.conclusion
  <2>1. CASE event \in {run.event, waiting}
    <3>1. /\ event.kind = "review" /\ event.head > 0 /\ event.head <= head.n /\ event.head \in Nat
          /\ event.head = head.n => ended = event.conclusion
      BY <1>1, <1>2, <2>1 DEF LoopInv, Told
    <3>2. CASE head'.n = head.n + 1
      BY <1>1, <3>1, <3>2
    <3>3. ASSUME NEW posts \in BOOLEAN, NEW verdict \in Verdicts, NEW conclusion \in {"success", "failure"},
                 ReviewEnds(posts, verdict, conclusion)
          PROVE  head' = head /\ event.head # head.n
      BY <1>1, <1>2, <3>1, <3>3, ReviewMoves DEF Reviewed
    <3> QED
      BY <3>1, <3>2, <3>3, HeadSteps
  <2>2. ASSUME NEW posts \in BOOLEAN, NEW verdict \in Verdicts, NEW conclusion \in {"success", "failure"},
               ReviewEnds(posts, verdict, conclusion), event = ReviewEvent(conclusion)
        PROVE  /\ event.kind = "review" /\ event.head > 0 /\ event.head <= head'.n
               /\ event.head = head'.n => ended' = event.conclusion
    <3>1. /\ event.kind = "review" /\ event.head = reviewing.n /\ event.conclusion = conclusion
      BY <1>1, <2>2, ReviewerEventShapes
    <3>2. head' = head /\ reviewing # NoReview /\ (reviewing.n = head.n => ended' = conclusion)
      BY <2>2, ReviewMoves
    <3> QED
      BY <1>1, <3>1, <3>2 DEF Reviewed
  <2> QED
    BY <1>2, <2>1, <2>2, EventSteps
<1> QED
  BY <1>2 DEF Told

\* What a run took from assess it keeps, and a head whose criteria were checked stays one.
LEMMA JudgedStep == LoopInv /\ [LoopNext]_loopVars => Judged'
<1> SUFFICES ASSUME LoopInv, [LoopNext]_loopVars PROVE Judged'
  OBVIOUS
<1>1. LoopTypes /\ Judged /\ run \in LoopRuns /\ run.event \in LoopEvents
  BY DEF LoopInv, LoopTypes, LoopRuns
<1>2. ASSUME run'.job = NoJob, run'.hand = "none" PROVE Judged'
  BY <1>2, EventShapes DEF Judged
<1>3. ASSUME run'.job = run.job, run'.hand = run.hand \/ run'.hand # "ready" PROVE Judged'
  <2>1. marks.verified \subseteq marks'.verified
    BY HeadSteps, ReviewMoves
  <2> QED
    BY <1>1, <1>3, <2>1 DEF Judged
<1>4. ASSUME NEW kind \in Hands, kind # "ready", Hand(kind) PROVE Judged'
  BY <1>1, <1>3, <1>4, HandShape
<1>5. ASSUME NEW stage \in LoopStages, Next(stage) PROVE Judged'
  BY <1>1, <1>3, <1>5, StageShape
<1>6. ASSUME NEW known \in BOOLEAN, Assess(known) PROVE Judged'
  <2>1. CASE End
    BY <1>1, <1>2, <2>1, EndShape
  <2>2. CASE /\ OfHead(run.event) /\ run'.job.head = head /\ run'.job.summary = summary
             /\ run'.job.verdict = Verdict(run.event) /\ run'.job.action = Decision(run.event, known)
             /\ run'.hand = "ready" => run'.job.action = "done"
    <3>1. marks' = marks
      BY <1>6, AssessMoves DEF github
    <3>2. Verdict(run.event) = "ready" => Backs(summary, head)
      BY <2>2, VerdictIsBacked
    <3>3. /\ Decision(run.event, known) \in {"done", "verify"} => Verdict(run.event) = "ready"
          /\ Decision(run.event, known) = "done" => head.n \in marks.verified
      BY <1>1, WhatIsDecided
    <3>4. run'.job.verdict = "ready" => Backs(run'.job.summary, run'.job.head)
      BY <2>2, <3>2
    <3>5. /\ run'.job.action = "verify" => run'.job.verdict = "ready"
          /\ run'.hand = "ready" => run'.job.head.n \in marks'.verified /\ run'.job.verdict = "ready"
      BY <2>2, <3>1, <3>3
    <3> QED
      BY <3>4, <3>5 DEF Judged, Backs
  <2> QED
    BY <1>6, <2>1, <2>2, AssessMoves
<1>7. CASE HandOver \/ Fix \/ PushThrows \/ RunFails
  BY <1>1, <1>2, <1>3, <1>4, <1>7, HandOverMoves, FixMoves, FailureMoves, EndShape DEF Hands
<1>8. CASE PushCheck
  <2>1. CASE Hand("ready") /\ run.job.action = "verify" /\ run.job.head.n \in marks'.verified
    <3>1. run'.job = run.job
      BY <1>1, <2>1, HandShape DEF Hands
    <3> QED
      BY <1>1, <2>1, <3>1 DEF Judged
  <2> QED
    BY <1>1, <1>2, <1>4, <1>5, <1>8, <2>1, PushCheckMoves, EndShape DEF Hands, LoopStages
<1>9. CASE Push
  BY <1>3, <1>4, <1>5, <1>9, PushMoves DEF Hands, LoopStages
<1>10. CASE PushTest \/ PushAnswer
  BY <1>1, <1>2, <1>3, <1>4, <1>10, PushTestMoves, PushAnswerMoves, EndShape DEF Hands
<1>11. CASE AroundIt
  BY <1>2, <1>3, <1>11, RunsAreKept
<1> QED
  BY <1>6, <1>7, <1>8, <1>9, <1>10, <1>11 DEF LoopNext, AroundIt

-----------------------------------------------------------------------------

\* What WhatWakes says, for use after a step as well.
WakesMeans ==
  \A event \in LoopEvents :
    Wakes(event) <=>
      /\ OfHead(event)
      /\ ~loopOn \/ conflict \/ (summary.newer /\ summary.verdict # "none") \/ Conclusion(event) # "none"

LEMMA WakesThen == (LoopTypes => WakesMeans) /\ (LoopTypes' => WakesMeans')
<1>1. LoopTypes => WakesMeans
  BY WhatWakes DEF WakesMeans
<1>2. LoopTypes' => WakesMeans'
  BY <1>1, PTL
<1> QED
  BY <1>1, <1>2

\* Nothing that an event's run had to go by is gone.
Stays ==
  /\ head' = head /\ (conflict => conflict') /\ (loopOn' => loopOn)
  /\ conflict \/ UNCHANGED <<ended, summary>>

\* An event that wakes goes on to do so, as long as the head is the same.
LEMMA WakesStays ==
  ASSUME LoopInv, [LoopNext]_loopVars, Stays, NEW event \in LoopEvents, Wakes(event)
  PROVE  Wakes(event)'
<1>1. WakesMeans /\ WakesMeans'
  BY LoopTypesStep, WakesThen DEF LoopInv
<1>2. OfHead(event) /\ OfHead(event)'
  BY <1>1 DEF Stays, WakesMeans, OfHead
<1> QED
  BY <1>1, <1>2 DEF Stays, WakesMeans, Conclusion

\* A run under way stays at it, and so does the event that waits.
LEMMA KeepAttends ==
  ASSUME LoopInv, [LoopNext]_loopVars, Stays, waiting' = waiting,
         run'.stage = run.stage, run'.job = run.job, run'.outcome = run.outcome, run'.event = run.event
  PROVE  /\ Underway => Underway'
         /\ Wakes(waiting) => Wakes(waiting)'
<1>1. run.event \in LoopEvents /\ waiting \in LoopEvents
  BY DEF LoopInv, LoopTypes, LoopRuns
<1>2. Wakes(waiting) => Wakes(waiting)'
  BY <1>1, WakesStays
<1>3. Wakes(run.event) => Wakes(run.event)'
  BY <1>1, WakesStays
<1> QED
  BY <1>2, <1>3 DEF Underway, Stays

\* When a run ends, the one that waited takes up what it was waiting with.
LEMMA EndAttends ==
  ASSUME LoopInv, [LoopNext]_loopVars, Stays, End, Wakes(waiting)
  PROVE  Underway'
<1>1. waiting # NoEvent /\ waiting \in LoopEvents
  BY EventShapes DEF Wakes, OfHead, LoopInv, LoopTypes
<1>2. run'.stage = "assess" /\ run'.event = waiting
  BY <1>1, EndShape DEF LoopInv
<1>3. PICK event \in LoopEvents : event = waiting
  BY <1>1
<1>4. Wakes(event)'
  BY <1>3, WakesStays
<1> QED
  BY <1>2, <1>3, <1>4 DEF Underway

\* An event that wakes is taken up; one that does not leaves things as they were, or a run that was due is
\* lost.
LEMMA TriggerAttends ==
  ASSUME LoopInv, [LoopNext]_loopVars, NEW event \in LoopEvents, Trigger(event), lost' # head.n,
         Wakes(event)' \/ (Stays /\ (lost' = lost => Underway \/ Wakes(waiting)))
  PROVE  Underway' \/ Wakes(waiting)'
<1>1. ~Wakes(NoEvent)
  BY EventShapes DEF Wakes, OfHead
<1>2. CASE run.stage = "idle" /\ run' = RunOf(event) /\ waiting = NoEvent /\ (Wakes(event) \/ lost' = lost)
  <2>1. Wakes(event)'
    BY <1>1, <1>2, WakesStays DEF Underway
  <2>2. run'.stage = "assess" /\ run'.event = event
    BY <1>2, EventShapes
  <2> QED
    BY <2>1, <2>2 DEF Underway
<1>3. CASE /\ run' = run /\ waiting' = event
           /\ Wakes(event) \/ (lost' = lost /\ (Underway \/ ~Wakes(waiting)))
  <2>1. CASE Wakes(event)'
    BY <1>3, <2>1
  <2>2. CASE Stays /\ Underway
    <3>1. PICK own \in LoopEvents : own = run.event
      BY DEF LoopInv, LoopTypes, LoopRuns
    <3>2. Wakes(own) => Wakes(own)'
      BY <2>2, <3>1, WakesStays
    <3> QED
      BY <1>3, <2>2, <3>1, <3>2 DEF Underway, Stays
  <2> QED
    BY <1>3, <2>1, <2>2, WakesStays
<1> QED
  BY <1>2, <1>3, TriggerShape

\* An idle group has no event that waits.
LEMMA IdleWaits ==
  ASSUME LoopInv, [LoopNext]_loopVars, run'.stage = "idle"
  PROVE  waiting' = NoEvent
<1>1. LoopTypes /\ run \in LoopRuns /\ (run.stage = "idle" => waiting = NoEvent)
  BY DEF LoopInv, LoopTypes, Attended
<1>2. ASSUME End PROVE waiting' = NoEvent
  BY <1>1, <1>2, EndShape
<1>3. ASSUME NEW kind \in Hands, Hand(kind) PROVE FALSE
  BY <1>1, <1>3, HandShape
<1>4. ASSUME NEW stage \in LoopStages \ {"idle"}, Next(stage) PROVE FALSE
  BY <1>1, <1>4, StageShape
<1>5. ASSUME NEW event \in LoopEvents, Trigger(event) PROVE FALSE
  BY <1>5, TriggerShape, EventShapes
<1>6. ASSUME NEW known \in BOOLEAN, Assess(known) PROVE waiting' = NoEvent
  BY <1>2, <1>6, AssessMoves
<1>7. CASE HandOver \/ Fix \/ PushTest \/ PushThrows \/ RunFails
  BY <1>1, <1>2, <1>3, <1>7, HandOverMoves, FixMoves, PushTestMoves, FailureMoves DEF Hands
<1>8. CASE PushCheck \/ Push \/ PushAnswer
  BY <1>1, <1>2, <1>3, <1>4, <1>8, PushCheckMoves, PushMoves, PushAnswerMoves DEF Hands, LoopStages
<1>9. ASSUME NEW posts \in BOOLEAN, NEW verdict \in {"none", "ready", "changes"},
             NEW conclusion \in {"success", "failure"}, ReviewEnds(posts, verdict, conclusion)
      PROVE  FALSE
  BY <1>1, <1>5, <1>9, ReviewMoves, ReviewerEventShapes DEF Verdicts
<1>10. ASSUME NEW kind \in {"commit", "merge", "update"}, NEW conflicts \in BOOLEAN, NEW late \in BOOLEAN,
              PersonPushes(kind, conflicts, late)
       PROVE  waiting' = NoEvent
  BY <1>1, <1>5, <1>10, PersonPushMoves, EventShapes
<1>11. CASE PersonLabels
  <2> DEFINE event == [NoEvent EXCEPT !.kind = "label", !.head = head.n]
  <2>1. Trigger(event) /\ event \in LoopEvents
    BY <1>1, <1>11, ReviewerEventShapes DEF PersonLabels
  <2> HIDE DEF event
  <2> QED
    BY <1>5, <2>1
<1>12. CASE PersonDispatches \/ SweepConflicts
  BY <1>1, <1>5, <1>12, EventShapes DEF PersonDispatches, SweepConflicts
<1>13. ASSUME NEW conflicts \in BOOLEAN, MainMoves(conflicts) PROVE waiting' = NoEvent
  BY <1>1, <1>13 DEF MainMoves, LoopRuns
<1>14. CASE PersonTakesOver \/ PersonComments \/ TokenExpires \/ SweepMisses \/ UNCHANGED loopVars
  BY <1>1, <1>14 DEF PersonTakesOver, PersonComments, TokenExpires, SweepMisses, loopVars
<1> QED
  BY <1>6, <1>7, <1>8, <1>9, <1>10, <1>11, <1>12, <1>13, <1>14 DEF LoopNext

\* Someone is at a pull request that is in the loop, unless one of the exceptions of NeverStranded holds.
LEMMA AttendedStep == LoopInv /\ [LoopNext]_loopVars => Attended'
<1> SUFFICES ASSUME LoopInv, [LoopNext]_loopVars,
                    pr'.open, pr'.labelled, reviewing'.n # head'.n, ~head'.own, ~(conflict' /\ sweep'),
                    lost' # head'.n
             PROVE  Underway' \/ Wakes(waiting)'
  BY IdleWaits DEF Attended
<1>1. /\ LoopTypes /\ Attended /\ Reviewed /\ run \in LoopRuns /\ run.event \in LoopEvents
      /\ waiting \in LoopEvents /\ head.n \in Nat
  BY DEF LoopInv, LoopTypes, LoopRuns, Commits
<1>2. ASSUME pr.open, pr.labelled, head' = head, reviewing.n # head.n, lost' = lost,
             conflict /\ sweep => conflict' /\ sweep'
      PROVE  Underway \/ Wakes(waiting)
  BY <1>1, <1>2 DEF Attended
<1>3. ASSUME End, Stays, Underway => lost' = head.n \/ Wakes(waiting), Underway \/ Wakes(waiting) \/ lost' # lost,
             lost' # lost => lost' = head.n
      PROVE  Underway'
  BY <1>3, EndAttends DEF Stays
<1>4. ASSUME NEW kind \in Hands, Hand(kind) PROVE Underway'
  BY <1>1, <1>4, HandShape DEF Underway
<1>5. ASSUME UNCHANGED github, loopOn' = loopOn PROVE Stays
  BY <1>5 DEF github, Stays
<1>6. ASSUME NEW known \in BOOLEAN, Assess(known) PROVE Underway'
  <2>1. /\ run.stage = "assess" /\ Stays
        /\ UNCHANGED <<pr, head, conflict, reviewing, sweep>>
    BY <1>5, <1>6, AssessMoves DEF github
  <2>2. lost' = lost => Underway \/ Wakes(waiting)
    BY <1>2, <2>1
  <2>3. CASE (Refused \/ ~OfHead(run.event)) /\ End /\ lost' = lost
    <3>1. ~Underway
      BY <2>1, <2>3 DEF Refused, Underway, Wakes
    <3> QED
      BY <1>3, <2>1, <2>2, <2>3, <3>1
  <2>4. CASE End /\ Lose(Underway)
    BY <1>1, <1>3, <2>1, <2>2, <2>4, LoseShape
  <2>5. CASE run'.stage = "handing" \/ (run'.stage = "fix" /\ run'.job.head = head)
    BY <2>1, <2>5 DEF Underway
  <2> QED
    BY <1>6, <2>3, <2>4, <2>5, AssessMoves
<1>7. CASE HandOver
  BY <1>1, <1>7, HandOverMoves
<1>8. CASE Fix
  <2>1. /\ UNCHANGED <<github, waiting, sweep, loopOn, lost>> /\ run.stage = "fix" /\ run'.stage = "push"
        /\ run'.job = run.job
    BY <1>1, <1>8, FixMoves
  <2>2. Stays /\ UNCHANGED <<pr, head, conflict, reviewing>>
    BY <1>5, <2>1 DEF github
  <2>3. Underway \/ Wakes(waiting)
    BY <1>2, <2>1, <2>2
  <2>4. CASE Underway
    BY <2>1, <2>2, <2>4 DEF Underway
  <2>5. CASE Wakes(waiting)
    <3>1. PICK event \in LoopEvents : event = waiting
      BY <1>1
    <3> QED
      BY <2>1, <2>2, <2>5, <3>1, WakesStays
  <2> QED
    BY <2>3, <2>4, <2>5
<1>9. CASE PushCheck
  <2>1. /\ run.stage = "push" /\ UNCHANGED <<pr, head, conflict, reviewing, ended, summary, sweep, loopOn>>
    BY <1>1, <1>9, PushCheckMoves
  <2>2. Stays
    BY <2>1 DEF Stays
  <2>3. CASE (head.n # run.job.head.n \/ Refused) /\ End /\ lost' = lost
    <3>1. ~Underway
      BY <2>1, <2>3 DEF Refused, Underway
    <3> QED
      BY <1>2, <1>3, <2>1, <2>2, <2>3, <3>1
  <2>4. CASE Next("pushing")
    BY <1>1, <2>4, StageShape DEF Underway, LoopStages
  <2> QED
    BY <1>1, <1>4, <1>9, <2>3, <2>4, PushCheckMoves DEF Hands
<1>10. CASE Push
  <2>1. CASE Next("answering") /\ ~run.outcome.merged /\ ~run.outcome.patch
    BY <1>1, <2>1, StageShape DEF Underway, LoopStages
  <2>2. ASSUME run'.stage = "testing", NEW new \in Commits, NEW conflicts \in BOOLEAN,
               NewHead(new, conflicts, FALSE), new.n = head.n + 1, new.diff \in {head.diff, new.n}
        PROVE  Underway'
    <3>1. conflict'
      BY <1>10, <2>2, PushMoves, NewHeadShape
    <3> QED
      BY <2>2, <3>1 DEF Underway
  <2> QED
    BY <1>4, <1>10, <2>1, <2>2, PushMoves DEF Hands
<1>11. CASE PushTest
  <2>1. /\ run.stage = "testing" /\ UNCHANGED <<pr, head, conflict, reviewing, sweep>> /\ Stays
    BY <1>1, <1>5, <1>11, PushTestMoves DEF github
  <2>2. CASE conflict /\ Queue(DispatchEvent)
    <3>1. PICK event \in LoopEvents : event = DispatchEvent
      BY EventShapes
    <3>2. waiting' = event
      BY <1>1, <2>2, <3>1, QueueShape
    <3>3. OfHead(event)
      BY <3>1, EventShapes DEF OfHead
    <3>4. Wakes(event)
      BY <1>1, <2>2, <3>3, WhatWakes
    <3> QED
      BY <2>1, <3>2, <3>4, WakesStays
  <2>3. CASE waiting' = waiting /\ (Wakes(waiting) \/ (~conflict /\ lost' = lost))
    <3>1. ~conflict => ~Underway
      BY <2>1 DEF Underway
    <3>2. Wakes(waiting)
      BY <1>2, <2>1, <2>3, <3>1
    <3>3. PICK event \in LoopEvents : event = waiting
      BY <1>1
    <3> QED
      BY <2>1, <2>3, <3>2, <3>3, WakesStays
  <2>4. CASE waiting' = waiting /\ Lose(TRUE)
    BY <1>1, <2>1, <2>3, <2>4, LoseShape
  <2> QED
    BY <1>1, <1>11, <2>2, <2>3, <2>4, PushTestMoves
<1>12. CASE PushAnswer
  <2>1. /\ run.stage = "answering" /\ UNCHANGED <<pr, head, conflict, reviewing, ended, summary, sweep, loopOn>>
    BY <1>1, <1>12, PushAnswerMoves
  <2>2. Stays
    BY <2>1 DEF Stays
  <2>3. CASE (run.outcome.merged \/ run.outcome.patch) /\ End /\ lost' = lost
    <3>1. ~Underway
      BY <2>1, <2>3 DEF Underway
    <3> QED
      BY <1>2, <1>3, <2>1, <2>2, <2>3, <3>1
  <2> QED
    BY <1>1, <1>4, <1>12, <2>3, PushAnswerMoves DEF Hands
<1>13. CASE PushThrows
  BY <1>4, <1>13, FailureMoves DEF Hands
<1>14. CASE RunFails
  <2>1. /\ End /\ Lose(Underway) /\ Stays /\ UNCHANGED <<pr, head, conflict, reviewing, sweep>>
    BY <1>5, <1>14, FailureMoves DEF github
  <2>2. lost' = lost => Underway \/ Wakes(waiting)
    BY <1>2, <2>1
  <2> QED
    BY <1>1, <1>3, <2>1, <2>2, LoseShape
<1>15. ASSUME NEW posts \in BOOLEAN, NEW verdict \in {"none", "ready", "changes"},
              NEW conclusion \in {"success", "failure"}, ReviewEnds(posts, verdict, conclusion)
       PROVE  Underway' \/ Wakes(waiting)'
  <2>1. /\ UNCHANGED <<pr, head, conflict, sweep, loopOn>>
        /\ Trigger(ReviewEvent(conclusion)) /\ reviewing # NoReview
        /\ reviewing.n = head.n => ended' = conclusion
    BY <1>15, ReviewMoves DEF Verdicts
  <2>2. PICK event \in LoopEvents :
          /\ event = ReviewEvent(conclusion) /\ event.kind = "review" /\ event.head = reviewing.n
          /\ event.conclusion = conclusion
    BY <1>1, ReviewerEventShapes
  <2>3. CASE reviewing.n = head.n
    <3>1. OfHead(event)' /\ Conclusion(event)' # "none"
      BY <2>1, <2>2, <2>3 DEF OfHead, Conclusion
    <3>2. Wakes(event)'
      BY <3>1, LoopTypesStep, WakesThen DEF WakesMeans
    <3> QED
      BY <2>1, <2>2, <3>2, TriggerAttends
  <2>4. CASE reviewing.n # head.n
    <3>1. Stays
      BY <1>1, <2>1, <2>4 DEF Stays, Reviewed
    <3>2. lost' = lost => Underway \/ Wakes(waiting)
      BY <1>2, <2>1, <2>4
    <3> QED
      BY <2>1, <2>2, <3>1, <3>2, TriggerAttends
  <2> QED
    BY <2>3, <2>4
<1>16. ASSUME NEW kind \in {"commit", "merge", "update"}, NEW conflicts \in BOOLEAN, NEW late \in BOOLEAN,
              PersonPushes(kind, conflicts, late)
       PROVE  FALSE
  BY <1>16, PersonPushMoves
<1>17. CASE PersonLabels
  <2> DEFINE label == [NoEvent EXCEPT !.kind = "label", !.head = head.n]
  <2>1. label \in LoopEvents /\ label.kind = "label" /\ label.head = head.n /\ Trigger(label)
    BY <1>1, <1>17, ReviewerEventShapes DEF PersonLabels
  <2>2. UNCHANGED <<head, conflict, reviewing, ended>>
    BY <1>17 DEF PersonLabels
  <2> HIDE DEF label
  <2>3. PICK event \in LoopEvents : event = label
    BY <2>1
  <2>4. OfHead(event)' /\ (conflict' \/ Conclusion(event)' # "none")
    BY <1>1, <2>1, <2>2, <2>3 DEF OfHead, Conclusion, Reviewed
  <2>5. Wakes(event)'
    BY <2>4, LoopTypesStep, WakesThen DEF WakesMeans
  <2> QED
    BY <2>1, <2>2, <2>3, <2>5, TriggerAttends
<1>18. CASE PersonDispatches \/ SweepConflicts
  <2>1. UNCHANGED <<pr, head, conflict, reviewing>> /\ Stays
    BY <1>5, <1>18 DEF PersonDispatches, SweepConflicts, github
  <2>2. CASE Trigger(DispatchEvent)
    <3>1. PICK event \in LoopEvents : event = DispatchEvent
      BY EventShapes
    <3>2. OfHead(event)
      BY <3>1, EventShapes DEF OfHead
    <3>3. CASE conflict
      <4>1. Wakes(event)
        BY <1>1, <3>2, <3>3, WhatWakes
      <4>2. Wakes(event)'
        BY <2>1, <4>1, WakesStays
      <4> QED
        BY <2>1, <2>2, <3>1, <4>2, TriggerAttends
    <3>4. CASE ~conflict
      <4>1. lost' = lost => Underway \/ Wakes(waiting)
        BY <1>2, <2>1, <3>4
      <4> QED
        BY <2>1, <2>2, <3>1, <4>1, TriggerAttends
    <3> QED
      BY <3>3, <3>4
  <2>3. CASE UNCHANGED <<run, waiting, lost>> /\ ~conflict
    <3>1. Underway \/ Wakes(waiting)
      BY <1>2, <2>1, <2>3
    <3> QED
      BY <2>1, <2>3, <3>1, KeepAttends
  <2> QED
    BY <1>18, <2>1, <2>2, <2>3 DEF PersonDispatches, SweepConflicts, Refused
<1>19. CASE SweepMisses
  <2>1. UNCHANGED <<head, run, waiting>> /\ Lose(~Underway) /\ Stays
    BY <1>5, <1>19 DEF SweepMisses, github
  <2>2. Underway \/ Wakes(waiting)
    BY <1>1, <2>1, LoseShape
  <2> QED
    BY <2>1, <2>2, KeepAttends
<1>20. CASE PersonTakesOver
  BY <1>1, <1>20 DEF PersonTakesOver, LoopTypes, PullRequests
<1>21. CASE PersonComments \/ TokenExpires \/ UNCHANGED loopVars
  <2>1. /\ UNCHANGED <<pr, head, conflict, reviewing, ended, summary, sweep, run, waiting, lost>>
        /\ loopOn' = loopOn \/ loopOn' = FALSE
    BY <1>21 DEF PersonComments, TokenExpires, Person, loopVars, github
  <2>2. Stays
    BY <2>1 DEF Stays
  <2>3. Underway \/ Wakes(waiting)
    BY <1>2, <2>1
  <2> QED
    BY <2>1, <2>2, <2>3, KeepAttends
<1>22. ASSUME NEW conflicts \in BOOLEAN, MainMoves(conflicts) PROVE Underway' \/ Wakes(waiting)'
  <2>1. UNCHANGED <<pr, head, reviewing, ended, summary, waiting, lost, loopOn>> /\ sweep'
    BY <1>22 DEF MainMoves
  <2>2. conflict => conflict'
    BY <1>22, Zenon DEF MainMoves
  <2>3. /\ run'.stage = run.stage /\ run'.job = run.job /\ run'.outcome = run.outcome /\ run'.event = run.event
    BY <1>1, <1>22 DEF MainMoves, LoopRuns
  <2>4. Underway \/ Wakes(waiting)
    BY <1>2, <2>1, <2>2
  <2>5. Stays
    BY <2>1, <2>2 DEF Stays
  <2> QED
    BY <2>1, <2>3, <2>4, <2>5, KeepAttends
<1> QED
  BY <1>6, <1>7, <1>8, <1>9, <1>10, <1>11, <1>12, <1>13, <1>14, <1>15, <1>16, <1>17, <1>18, <1>19, <1>20, <1>21,
     <1>22 DEF LoopNext

\* A hand-over as ready: its criteria verified on the head the run took, and its review still "ready".
LEMMA ReadyStep ==
  ASSUME LoopInv, [LoopNext]_loopVars, pr.handed # "ready", pr'.handed = "ready"
  PROVE  run.job.head.n \in marks.verified /\ run.job.verdict = "ready" /\ Backs(run.job.summary, run.job.head)
<1>1. LoopTypes /\ Judged
  BY DEF LoopInv
<1>2. CASE HandOver
  BY <1>1, <1>2, HandOverMoves DEF Judged
<1>3. ASSUME NEW known \in BOOLEAN, Assess(known) PROVE pr' = pr
  BY <1>3, AssessMoves DEF github
<1>4. CASE Fix \/ PushCheck \/ Push \/ PushTest \/ PushAnswer \/ PushThrows \/ RunFails
  BY <1>1, <1>4, FixMoves, PushCheckMoves, PushMoves, PushTestMoves, PushAnswerMoves, FailureMoves DEF github
<1>5. CASE AroundIt
  <2>1. ASSUME NEW posts \in BOOLEAN, NEW verdict \in {"none", "ready", "changes"},
               NEW conclusion \in {"success", "failure"}, ReviewEnds(posts, verdict, conclusion)
        PROVE  pr' = pr
    BY <2>1, ReviewMoves DEF Verdicts
  <2>2. ASSUME NEW kind \in {"commit", "merge", "update"}, NEW conflicts \in BOOLEAN, NEW late \in BOOLEAN,
               PersonPushes(kind, conflicts, late)
        PROVE  pr' = pr
    BY <2>2, PersonPushMoves
  <2> QED
    BY <1>5, <2>1, <2>2, OutsideMoves DEF AroundIt
<1> QED
  BY <1>2, <1>3, <1>4, <1>5 DEF LoopNext, AroundIt

\* The inductive invariant of the review loop (run.mjs reviewMode, checks.mjs, issue-agent-review.yml).
THEOREM LoopInvariant == LoopSpec => []LoopInv
<1>1. LoopInit => LoopInv
  BY LoopStart
<1>2. LoopInv /\ [LoopNext]_loopVars => LoopInv'
  BY LoopTypesStep, CountedStep, ReviewedStep, ToldStep, JudgedStep, AttendedStep DEF LoopInv
<1> QED
  BY <1>1, <1>2, PTL DEF LoopSpec

\* The loop pushes at most MAX_REVIEW_CYCLES commits, and one more for each time a person put the pull
\* request back or a job died, wherever a cycle fails (cyclesDone, conflictMidCycle, afterVerification).
THEOREM CyclesAlwaysBounded == LoopSpec => []CyclesBounded
<1>1. LoopInv => CyclesBounded
  BY DEF LoopInv, Counted
<1> QED
  BY <1>1, LoopInvariant, PTL

\* A pull request in the loop that no run is at has something that will wake one, whatever call fails, unless
\* the run that was due for this very head is lost and no event that wakes came after (reviewDecision, the
\* concurrency group, the two dispatches, the sweep).
THEOREM NeverLeftStranded == LoopSpec => []NeverStranded
<1>1. LoopInv => NeverStranded
  BY EventShapes DEF LoopInv, Attended, NeverStranded, Underway, Wakes, OfHead
<1> QED
  BY <1>1, LoopInvariant, PTL

\* What is handed over as ready had its criteria checked, and the review that said so read its whole diff
\* (latestVerdict, Pick review scope), except for a commit older than the last summary.
THEOREM HandedOverAsReviewed == LoopSpec => ReadyIsReviewed
<1>1. LoopInv /\ [LoopNext]_loopVars =>
        [LET job == run.job IN
         pr.handed # "ready" /\ pr'.handed = "ready" =>
           /\ job.head.n \in marks.verified
           /\ job.verdict = "ready" /\ job.summary.verdict = "ready"
           /\ \/ job.summary.diff = job.head.diff
              \/ job.summary.newer /\ job.summary.of # job.head.n]_loopVars
  BY ReadyStep DEF Backs
<1> QED
  BY <1>1, LoopInvariant, PTL DEF LoopSpec, ReadyIsReviewed

-----------------------------------------------------------------------------
(* The build of an issue *)

Trees == Nat
Records == [test : {"none", "fast", "root"}, ok : BOOLEAN, hash : Trees \cup {NoTree}, clean : BOOLEAN]
Reviewers ==
  [status : {"off", "reads", "answers", "fails", "spent"}, attempt : Nat, left : Int, allowed : Nat]
Statuses == {"error", "blocked", "challenged", "nopr", "report"}

ImplTypes ==
  /\ tree \in Trees
  /\ spent \in Nat
  /\ current \in Records /\ last \in Records
  /\ reviewers \in [Lenses -> Reviewers]
  /\ ready \in Trees \cup {NoTree}
  /\ outcome \in [status : Statuses, done : BOOLEAN, patch : Trees]
  /\ pull \in [open : BOOLEAN, done : BOOLEAN, untested : BOOLEAN, patch : Trees]
  /\ IsFiniteSet(proven) /\ IsFiniteSet(rewritten) /\ IsFiniteSet(cleared)

\* A round's record names a tree that its root tests passed on; the one that is clean is the change put back
\* after the reviews, and nothing else is published as done.
Recorded ==
  /\ \A r \in {current, last} : r.test = "root" /\ r.ok => r.hash \in proven \cup rewritten
  /\ ~current.clean
  /\ step = "review" => current.hash \in Trees
  /\ last.clean => ready \in Trees /\ ready \in cleared
  /\ outcome.done => outcome.patch \in cleared
  /\ ReadyIsProven

\* What a reviewer may still spend.
Reserve(l) == IF reviewers[l].status = "reads" THEN reviewers[l].left ELSE 0

\* The money is there for all the reviewers that read: from what is spent, through each one's reserve in
\* turn, the sums stay below the run's budget.
Covered(n, order, sum) ==
  /\ n \in Nat /\ order \in [1..n -> Lenses] /\ sum \in [0..n -> Int]
  /\ \A l \in Lenses : \E k \in 1..n : order[k] = l
  /\ sum[0] = spent /\ sum[n] <= RunBudget
  /\ \A k \in 1..n : sum[k - 1] + Reserve(order[k]) <= sum[k]
  /\ \A i, k \in 0..n : i <= k => sum[i] <= sum[k]

Budgeted ==
  /\ WithinRunBudget
  /\ \A l \in Lenses : reviewers[l].status = "reads" => reviewers[l].allowed <= reviewers[l].left
  /\ (\E l \in Lenses : reviewers[l].status # "off")
       => step = "review" /\ \E n, order, sum : Covered(n, order, sum)

ImplInv == ImplTypes /\ Recorded /\ Budgeted

-----------------------------------------------------------------------------

\* The lesser of two numbers.
LEMMA MinOfTwo ==
  ASSUME NEW a \in Int, NEW b \in Int
  PROVE  Min({a, b}) \in {a, b} /\ Min({a, b}) <= a /\ Min({a, b}) <= b
<1>1. \E x \in {a, b} : \A y \in {a, b} : x <= y
  OBVIOUS
<1> QED
  BY <1>1 DEF Min

\* The least of three.
LEMMA MinOfThree ==
  ASSUME NEW a \in Int, NEW b \in Int, NEW c \in Int
  PROVE  /\ Min({a, b, c}) \in {a, b, c}
         /\ Min({a, b, c}) <= a /\ Min({a, b, c}) <= b /\ Min({a, b, c}) <= c
<1>1. \E x \in {a, b, c} : \A y \in {a, b, c} : x <= y
  OBVIOUS
<1> QED
  BY <1>1 DEF Min

\* The greater of two.
LEMMA MaxOfTwo ==
  ASSUME NEW a \in Int, NEW b \in Int
  PROVE  Max({a, b}) \in {a, b} /\ Max({a, b}) >= a /\ Max({a, b}) >= b
<1>1. \E x \in {a, b} : \A y \in {a, b} : x >= y
  OBVIOUS
<1> QED
  BY <1>1 DEF Max

\* What an agent's call may spend is within its caller's cap and what the run has left (callBudget).
LEMMA AllowedWithin ==
  ASSUME NEW rest \in Nat, NEW cap \in Nat
  PROVE  LET allowed == Max({0, Min({AgentBudget, rest, cap})}) IN
         allowed \in Nat /\ allowed <= rest /\ allowed <= cap
<1>1. AgentBudget \in Nat
  BY ImplementationAssumption
<1> DEFINE least == Min({AgentBudget, rest, cap})
<1>2. least \in Int /\ least <= rest /\ least <= cap
  <2>1. AgentBudget \in Int /\ rest \in Int /\ cap \in Int
    BY <1>1
  <2> QED
    BY <2>1, MinOfThree, Zenon
<1> HIDE DEF least
<1>3. Max({0, least}) \in {0, least} /\ Max({0, least}) >= 0
  BY <1>2, MaxOfTwo
<1> QED
  BY <1>2, <1>3 DEF least

\* A call never costs more than it may spend.
LEMMA CallsWithin ==
  ASSUME NEW allowed \in Nat, NEW call \in Calls(allowed)
  PROVE  call.cost \in 0..allowed /\ call.ends \in {"answers", "fails", "spent"}
BY DEF Calls

\* So the run stays within its budget with every call that is made alone.
LEMMA CallWithin ==
  ASSUME ImplTypes, WithinRunBudget, NEW call \in Call
  PROVE  spent + call.cost \in Nat /\ spent + call.cost <= RunBudget
<1>1. RunBudget \in Nat /\ spent \in Nat /\ spent <= RunBudget
  BY ImplementationAssumption DEF ImplTypes, WithinRunBudget
<1>2. RunBudget - spent \in Nat
  BY <1>1
<1>3. Allowed(RunBudget) \in Nat /\ Allowed(RunBudget) <= RunBudget - spent
  BY <1>1, <1>2, AllowedWithin DEF Allowed
<1>4. call.cost \in 0..Allowed(RunBudget)
  BY <1>3, CallsWithin DEF Call
<1> QED
  BY <1>1, <1>3, <1>4

\* There is a tree nothing recorded is about: fewer are known than there are numbers up to their count.
LEMMA FreshTreeIs ==
  ASSUME ImplTypes
  PROVE  FreshTree \in Nat \ {0} /\ FreshTree \notin Known
<1>1. IsFiniteSet({0, tree, current.hash, last.hash, ready, outcome.patch})
  <2>1. IsFiniteSet({0} \cup {tree})
    BY FS_Singleton, FS_Union
  <2>2. IsFiniteSet({current.hash} \cup {last.hash})
    BY FS_Singleton, FS_Union
  <2>3. IsFiniteSet({ready} \cup {outcome.patch})
    BY FS_Singleton, FS_Union
  <2>4. IsFiniteSet((({0} \cup {tree}) \cup ({current.hash} \cup {last.hash})) \cup ({ready} \cup {outcome.patch}))
    BY <2>1, <2>2, <2>3, FS_Union
  <2>5. {0, tree, current.hash, last.hash, ready, outcome.patch}
          = (({0} \cup {tree}) \cup ({current.hash} \cup {last.hash})) \cup ({ready} \cup {outcome.patch})
    OBVIOUS
  <2> QED
    BY <2>4, <2>5
<1>2. IsFiniteSet(Known)
  BY <1>1, FS_Union DEF Known, ImplTypes
<1>3. Cardinality(Known) \in Nat
  BY <1>2, FS_CardinalityType
<1>4. Cardinality(0..Cardinality(Known)) = Cardinality(Known) + 1
  BY <1>3, FS_Interval
<1>5. ~(0..Cardinality(Known) \subseteq Known)
  BY <1>2, <1>3, <1>4, FS_Subset
<1>6. 0 \in Known
  BY DEF Known
<1>7. \E t \in 1..Cardinality(Known) : t \notin Known
  BY <1>3, <1>5, <1>6
<1> QED
  BY <1>3, <1>7 DEF FreshTree

\* The tree of main, an agent's or a test's: all are trees.
LEMMA WrittenTrees == ImplTypes => Written \subseteq Trees
BY FreshTreeIs DEF Written, Trees, ImplTypes

\* The build starts with nothing spent and nothing recorded.
LEMMA ImplStart == ImplInit => ImplInv
<1> SUFFICES ASSUME ImplInit PROVE ImplInv
  OBVIOUS
<1> USE DEF ImplInit, NoRound, NoTree, Trees
<1>1. ImplTypes
  BY FS_EmptySet DEF ImplTypes, Records, Reviewers, Statuses, NoReviewer, NotReported, NoPull
<1>2. Recorded
  BY DEF Recorded, ReadyIsProven, NotReported, NoPull
<1>3. Budgeted
  BY ImplementationAssumption DEF Budgeted, WithinRunBudget, NoReviewer
<1> QED
  BY <1>1, <1>2, <1>3 DEF ImplInv

-----------------------------------------------------------------------------

\* What becomes of the records when a check fails or a round is over (the loop of iterate).
LEMMA RoundShapes ==
  ASSUME ImplTypes, NEW record \in Records
  PROVE  /\ NextRound(record) => last' = record /\ current' = NoRound /\ step' \in {"implement", "finish"}
         /\ Fails(record) =>
              /\ last' \in {last, record} /\ current' = NoRound
              /\ step' \in {"implement", "finish"}
         /\ NoRound \in Records
BY DEF NextRound, Fails, NoRound, Records

\* A build's steps keep the types.
LEMMA ImplTypesStep == ImplInv /\ [ImplNext]_implVars => ImplTypes'
<1> SUFFICES ASSUME ImplInv, [ImplNext]_implVars PROVE ImplTypes'
  OBVIOUS
<1>1. ImplTypes /\ WithinRunBudget
  BY DEF ImplInv, Budgeted
<1>2. NoRound \in Records /\ NoReviewer \in Reviewers /\ Written \subseteq Trees /\ 0 \in Trees
  BY <1>1, RoundShapes, WrittenTrees DEF NoReviewer, Reviewers, Trees, NoRound, Records
<1>3. CASE SpecAgent
  <2>1. spent' \in Nat
    BY <1>1, <1>3, CallWithin DEF SpecAgent
  <2>2. outcome' \in [status : Statuses, done : BOOLEAN, patch : Trees]
    BY <1>1, <1>3 DEF SpecAgent, Throws, ImplTypes, Statuses
  <2> QED
    BY <1>1, <1>3, <2>1, <2>2 DEF SpecAgent, SameTree, SameRounds, SameReview, history, ImplTypes
<1>4. CASE Implement
  <2>1. spent' \in Nat /\ tree' \in Trees
    BY <1>1, <1>2, <1>4, CallWithin DEF Implement
  <2>2. outcome' \in [status : Statuses, done : BOOLEAN, patch : Trees]
    BY <1>1, <1>4 DEF Implement, Throws, ImplTypes, Statuses
  <2> QED
    BY <1>1, <1>4, <2>1, <2>2 DEF Implement, SameRounds, SameReview, history, ImplTypes
<1>5. CASE Gates
  <2>1. \A test \in {"none", "fast"} : [NoRound EXCEPT !.test = test] \in Records
    BY <1>2 DEF Records
  <2>2. [NoRound EXCEPT !.test = "fast", !.ok = TRUE] \in Records
    BY <1>2 DEF Records
  <2>3. current' \in Records /\ last' \in Records
    <3>1. ASSUME NEW test \in {"none", "fast"}, Fails([NoRound EXCEPT !.test = test])
          PROVE  current' \in Records /\ last' \in Records
      <4> DEFINE r == [NoRound EXCEPT !.test = test]
      <4>1. r \in Records /\ Fails(r)
        BY <2>1, <3>1
      <4> HIDE DEF r
      <4> QED
        BY <1>1, <1>2, <4>1, RoundShapes DEF ImplTypes
    <3> QED
      BY <1>1, <1>5, <2>2, <3>1 DEF Gates, ImplTypes
  <2> QED
    BY <1>1, <1>5, <2>3 DEF Gates, SameTree, SameReview, SameEnd, history, ImplTypes
<1>6. CASE MutationCheck
  <2>1. current' \in Records /\ last' \in Records
    BY <1>1, <1>2, <1>6, RoundShapes DEF MutationCheck, SameRounds, ImplTypes
  <2> QED
    BY <1>1, <1>6, <2>1 DEF MutationCheck, SameTree, SameReview, SameEnd, history, ImplTypes
<1>7. CASE RootTests
  <2>1. PICK new \in Written, passes \in BOOLEAN :
          /\ tree' = new
          /\ IF passes
             THEN /\ current' = [NoRound EXCEPT !.test = "root", !.ok = passes, !.hash = new]
                  /\ UNCHANGED last
                  /\ proven' = proven \cup {tree}
                  /\ rewritten' = rewritten \cup ({new} \ {tree})
             ELSE /\ Fails([NoRound EXCEPT !.test = "root", !.ok = passes, !.hash = new])
                  /\ UNCHANGED <<proven, rewritten>>
    BY <1>7 DEF RootTests
  <2> DEFINE record == [NoRound EXCEPT !.test = "root", !.ok = passes, !.hash = new]
  <2>2. record \in Records /\ tree' \in Trees
    BY <1>2, <2>1 DEF Records
  <2> HIDE DEF record
  <2>3. current' \in Records /\ last' \in Records
    BY <1>1, <1>2, <2>1, <2>2, RoundShapes DEF ImplTypes, record
  <2>4. IsFiniteSet(proven') /\ IsFiniteSet(rewritten')
    <3>1. IsFiniteSet({tree}) /\ IsFiniteSet({new} \ {tree})
      BY FS_Singleton, FS_RemoveElement
    <3>2. IsFiniteSet(proven \cup {tree}) /\ IsFiniteSet(rewritten \cup ({new} \ {tree}))
      BY <1>1, <3>1, FS_Union DEF ImplTypes
    <3> QED
      BY <1>1, <2>1, <3>2 DEF ImplTypes
  <2> QED
    BY <1>1, <1>7, <2>2, <2>3, <2>4 DEF RootTests, SameReview, SameEnd, ImplTypes
<1>8. CASE StartReviews
  <2>1. reviewers' \in [Lenses -> Reviewers]
    <3>1. Share \in Nat
      <4>1. RunBudget - spent \in Nat /\ AgentBudget \in Nat
        BY <1>1, ImplementationAssumption DEF ImplTypes, WithinRunBudget
      <4>2. Cardinality(Lenses) \in Nat /\ Cardinality(Lenses) # 0
        BY ImplementationAssumption, FS_CardinalityType, FS_EmptySet
      <4>3. (RunBudget - spent) \div Cardinality(Lenses) \in Nat
        BY <4>1, <4>2
      <4> QED
        BY <4>1, <4>3, MinOfTwo DEF Share
    <3>2. Allowed(Share) \in Nat
      <4>1. RunBudget - spent \in Nat
        BY <1>1, ImplementationAssumption DEF ImplTypes, WithinRunBudget
      <4> QED
        BY <3>1, <4>1, AllowedWithin DEF Allowed
    <3> QED
      BY <1>8, <3>1, <3>2 DEF StartReviews, Reviewers
  <2> QED
    BY <1>1, <1>8, <2>1 DEF StartReviews, SameTree, SameRounds, SameEnd, history, ImplTypes
<1>9. ASSUME NEW l \in Lenses, ReviewerEnds(l) PROVE ImplTypes'
  <2>1. reviewers[l] \in Reviewers
    BY <1>1 DEF ImplTypes
  <2>2. PICK call \in Calls(reviewers[l].allowed), new \in Written, retried \in BOOLEAN :
          /\ spent' = spent + call.cost
          /\ tree' = new
          /\ reviewers' = [reviewers EXCEPT ![l] =
               IF retried
               THEN [status |-> "reads", attempt |-> 2, left |-> @.left - call.cost,
                     allowed |-> Max({0, Min({AgentBudget, RunBudget - spent', @.left - call.cost})})]
               ELSE [@ EXCEPT !.status = call.ends, !.allowed = 0]]
    BY <1>9, Zenon DEF ReviewerEnds
  <2>3. call.cost \in Nat /\ call.ends \in {"answers", "fails", "spent"}
    BY <2>1, CallsWithin DEF Reviewers
  <2>4. spent' \in Nat /\ tree' \in Trees
    BY <1>1, <1>2, <2>2, <2>3 DEF ImplTypes
  <2> DEFINE rest == reviewers[l].left - call.cost
             allowed == Max({0, Min({AgentBudget, RunBudget - spent', rest})})
  <2>5. rest \in Int /\ allowed \in Nat
    <3>1. rest \in Int /\ RunBudget - spent' \in Int /\ AgentBudget \in Int
      BY <1>1, <2>1, <2>3, <2>4, ImplementationAssumption DEF Reviewers
    <3> DEFINE least == Min({AgentBudget, RunBudget - spent', rest})
    <3>2. least \in Int
      BY <3>1, MinOfThree
    <3> HIDE DEF least
    <3>3. ASSUME NEW a \in Int PROVE Max({0, a}) \in Nat
      <4>1. Max({0, a}) \in {0, a} /\ Max({0, a}) >= 0
        BY MaxOfTwo
      <4> QED
        BY <4>1
    <3> QED
      BY <3>1, <3>2, <3>3 DEF least
  <2>6. reviewers' \in [Lenses -> Reviewers]
    <3>1. [status |-> "reads", attempt |-> 2, left |-> rest, allowed |-> allowed] \in Reviewers
      BY <2>5 DEF Reviewers
    <3>2. [reviewers[l] EXCEPT !.status = call.ends, !.allowed = 0] \in Reviewers
      BY <2>1, <2>3 DEF Reviewers
    <3>3. reviewers' = [reviewers EXCEPT ![l] =
             IF retried THEN [status |-> "reads", attempt |-> 2, left |-> rest, allowed |-> allowed]
             ELSE [reviewers[l] EXCEPT !.status = call.ends, !.allowed = 0]]
      BY <2>2
    <3> HIDE DEF rest, allowed
    <3> QED
      BY <1>1, <3>1, <3>2, <3>3 DEF ImplTypes
  <2> QED
    BY <1>1, <1>9, <2>4, <2>6 DEF ReviewerEnds, SameRounds, SameEnd, history, ImplTypes
<1>10. CASE Settle
  <2>1. step = "review" /\ current.hash \in Trees
    BY <1>10 DEF Settle, ImplInv, Recorded
  <2>2. [current EXCEPT !.clean = TRUE] \in Records
    BY <1>1 DEF ImplTypes, Records
  <2>3. current' \in Records /\ last' \in Records
    BY <1>1, <1>2, <1>10, <2>2, RoundShapes DEF Settle, ImplTypes
  <2>4. ready' \in Trees \cup {NoTree} /\ tree' \in Trees
    BY <1>1, <1>10, <2>1 DEF Settle, ImplTypes
  <2>5. reviewers' \in [Lenses -> Reviewers]
    BY <1>2, <1>10 DEF Settle
  <2>6. IsFiniteSet(cleared')
    <3>1. IsFiniteSet(cleared \cup {current.hash})
      BY <1>1, FS_AddElement DEF ImplTypes
    <3> QED
      BY <1>1, <1>10, <3>1 DEF Settle, ImplTypes
  <2> QED
    BY <1>1, <1>10, <2>3, <2>4, <2>5, <2>6 DEF Settle, SameEnd, ImplTypes
<1>11. CASE Finish
  <2>1. outcome' \in [status : Statuses, done : BOOLEAN, patch : Trees]
    <3>1. \A forbidden \in BOOLEAN : (last.clean /\ ~forbidden) \in BOOLEAN
      BY Zenon
    <3>2. (IF ready # NoTree THEN ready ELSE tree) \in Trees
      BY <1>1 DEF ImplTypes
    <3>3. CASE outcome' = [outcome EXCEPT !.status = "nopr"]
      BY <1>1, <3>3 DEF ImplTypes, Statuses
    <3>4. ASSUME NEW done \in BOOLEAN, NEW patch \in Trees,
                 outcome' = [status |-> "report", done |-> done, patch |-> patch]
          PROVE  outcome' \in [status : Statuses, done : BOOLEAN, patch : Trees]
      BY <3>4 DEF Statuses
    <3> QED
      BY <1>11, <3>1, <3>2, <3>3, <3>4 DEF Finish
  <2> QED
    BY <1>1, <1>11, <2>1 DEF Finish, SameTree, SameRounds, SameReview, history, ImplTypes
<1>12. CASE Evidence
  <2>1. spent' \in Nat /\ tree' \in Trees
    BY <1>1, <1>2, <1>12, CallWithin DEF Evidence, SameTree, ImplTypes
  <2> QED
    BY <1>1, <1>12, <2>1 DEF Evidence, SameRounds, SameReview, SameEnd, history, ImplTypes
<1>13. CASE Publish
  <2>1. RootTestRefusal(last, outcome.patch) \in BOOLEAN
    BY Zenon DEF RootTestRefusal
  <2>2. pull' \in [open : BOOLEAN, done : BOOLEAN, untested : BOOLEAN, patch : Trees]
    <3>1. ASSUME NEW untested \in BOOLEAN,
                 pull' = [open |-> TRUE, done |-> outcome.done, untested |-> untested, patch |-> outcome.patch]
          PROVE  pull' \in [open : BOOLEAN, done : BOOLEAN, untested : BOOLEAN, patch : Trees]
      BY <1>1, <3>1 DEF ImplTypes
    <3> QED
      BY <1>1, <1>13, <2>1, <3>1 DEF Publish, ImplTypes
  <2> QED
    BY <1>1, <1>13, <2>2 DEF Publish, SameTree, SameRounds, SameReview, history, ImplTypes
<1>14. CASE UNCHANGED implVars
  BY <1>1, <1>14 DEF implVars, history, ImplTypes
<1> QED
  BY <1>3, <1>4, <1>5, <1>6, <1>7, <1>8, <1>9, <1>10, <1>11, <1>12, <1>13, <1>14 DEF ImplNext

\* A build's steps keep what is recorded true of the trees.
LEMMA RecordedStep == ImplInv /\ [ImplNext]_implVars => Recorded'
<1> SUFFICES ASSUME ImplInv, [ImplNext]_implVars PROVE Recorded'
  OBVIOUS
<1>1. ImplTypes /\ Recorded
  BY DEF ImplInv
<1> DEFINE Passed(r, trees) == r.test = "root" /\ r.ok => r.hash \in trees
           Tests == Passed(current', proven' \cup rewritten') /\ Passed(last', proven' \cup rewritten')
           Clean == /\ ~current'.clean
                    /\ step' = "review" => current'.hash \in Trees
                    /\ last'.clean => ready' \in Trees /\ ready' \in cleared'
           Ended == /\ outcome'.done => outcome'.patch \in cleared'
                    /\ pull'.open =>
                         /\ pull'.done => pull'.patch \in cleared'
                         /\ pull'.untested \/ pull'.patch \in proven' \cup rewritten'
<1>2. SUFFICES Tests /\ Clean /\ Ended
  <2>1. ASSUME Tests PROVE \A r \in {current', last'} : Passed(r, proven' \cup rewritten')
    BY <2>1
  <2> HIDE DEF Tests
  <2> QED
    BY <2>1 DEF Recorded, ReadyIsProven
<1>3. ASSUME SameRounds, UNCHANGED <<ready, history>>, step' # "review" PROVE Tests /\ Clean
  BY <1>1, <1>3 DEF Recorded, SameRounds, history
<1>4. ASSUME SameEnd, proven \subseteq proven', rewritten \subseteq rewritten', cleared \subseteq cleared' PROVE Ended
  BY <1>1, <1>4 DEF Recorded, ReadyIsProven, SameEnd
<1>5. ASSUME NEW record \in Records, Fails(record) \/ NextRound(record), UNCHANGED ready,
             Passed(record, proven' \cup rewritten'), ~record.clean,
             proven \subseteq proven', rewritten \subseteq rewritten', cleared \subseteq cleared'
      PROVE  Tests /\ Clean
  <2>1. last' \in {last, record} /\ current' = NoRound /\ step' \in {"implement", "finish"}
    BY <1>1, <1>5, RoundShapes
  <2> QED
    BY <1>1, <1>5, <2>1 DEF Recorded, NoRound
<1>6. CASE SpecAgent
  <2>1. Tests /\ Clean
    BY <1>3, <1>6 DEF SpecAgent, SameReview, Throws
  <2>2. Ended
    BY <1>1, <1>6 DEF SpecAgent, Throws, Recorded, ReadyIsProven, history, ImplTypes
  <2> QED
    BY <2>1, <2>2
<1>7. CASE Implement
  <2>1. Tests /\ Clean
    BY <1>3, <1>7 DEF Implement, SameReview, Throws
  <2>2. Ended
    BY <1>1, <1>7 DEF Implement, Throws, Recorded, ReadyIsProven, history, ImplTypes
  <2> QED
    BY <2>1, <2>2
<1>8. CASE Gates
  <2>1. Ended
    BY <1>4, <1>8 DEF Gates, history
  <2>2. ASSUME NEW test \in {"none", "fast"}, Fails([NoRound EXCEPT !.test = test]) PROVE Tests /\ Clean
    <3> DEFINE r == [NoRound EXCEPT !.test = test]
    <3>1. r \in Records /\ r.test # "root" /\ ~r.clean /\ Fails(r)
      BY <2>2 DEF NoRound, Records
    <3> HIDE DEF r
    <3> QED
      BY <1>5, <1>8, <3>1 DEF Gates, SameReview, history
  <2>3. CASE step' = "mutation" /\ current' = [NoRound EXCEPT !.test = "fast", !.ok = TRUE] /\ UNCHANGED last
    <3>1. UNCHANGED <<ready, proven, rewritten, cleared>>
      BY <1>8 DEF Gates, SameReview, history
    <3>2. current'.test = "fast" /\ ~current'.clean
      BY <2>3 DEF NoRound
    <3> QED
      BY <1>1, <2>1, <2>3, <3>1, <3>2 DEF Recorded, NoRound
  <2> QED
    BY <1>8, <2>1, <2>2, <2>3 DEF Gates
<1>9. CASE MutationCheck
  <2>1. Ended
    BY <1>4, <1>9 DEF MutationCheck, history
  <2>2. UNCHANGED <<ready, proven, rewritten, cleared>>
    BY <1>9 DEF MutationCheck, SameReview, history
  <2>3. CASE Fails(current)
    <3>1. current \in Records /\ Passed(current, proven' \cup rewritten') /\ ~current.clean
      BY <1>1, <2>2 DEF ImplTypes, Recorded
    <3> QED
      BY <1>5, <2>1, <2>2, <2>3, <3>1
  <2>4. CASE step' = "root" /\ SameRounds
    BY <1>3, <2>1, <2>2, <2>4 DEF history
  <2> QED
    BY <1>9, <2>1, <2>3, <2>4 DEF MutationCheck
<1>10. CASE RootTests
  <2>1. PICK new \in Written, passes \in BOOLEAN :
          /\ tree' = new
          /\ IF passes
             THEN /\ current' = [NoRound EXCEPT !.test = "root", !.ok = passes, !.hash = new]
                  /\ UNCHANGED last
                  /\ proven' = proven \cup {tree}
                  /\ rewritten' = rewritten \cup ({new} \ {tree})
             ELSE /\ Fails([NoRound EXCEPT !.test = "root", !.ok = passes, !.hash = new])
                  /\ UNCHANGED <<proven, rewritten>>
    BY <1>10 DEF RootTests
  <2>2. Ended
    BY <1>4, <1>10, <2>1 DEF RootTests
  <2> DEFINE r == [NoRound EXCEPT !.test = "root", !.ok = passes, !.hash = new]
  <2>3. new \in Trees
    BY <1>1, <2>1, WrittenTrees
  <2>4. r \in Records /\ r.ok = passes /\ r.hash = new /\ ~r.clean
    BY <2>3 DEF Records, NoRound
  <2> HIDE DEF r
  <2>5. CASE passes
    <3>1. current' = r /\ last' = last /\ new \in proven' \cup rewritten'
      BY <2>1, <2>5 DEF r
    <3>2. UNCHANGED <<ready, cleared>> /\ proven \subseteq proven' /\ rewritten \subseteq rewritten'
      BY <1>10, <2>1, <2>5 DEF RootTests, SameReview
    <3> QED
      BY <1>1, <2>2, <2>3, <2>4, <3>1, <3>2 DEF Recorded
  <2>6. CASE ~passes
    <3>1. Fails(r) /\ UNCHANGED <<proven, rewritten, cleared, ready>>
      BY <1>10, <2>1, <2>6 DEF r, RootTests, SameReview
    <3> QED
      BY <1>5, <2>2, <2>4, <2>6, <3>1
  <2> QED
    BY <2>5, <2>6
<1>11. CASE StartReviews \/ (\E l \in Lenses : ReviewerEnds(l))
  BY <1>1, <1>11 DEF StartReviews, ReviewerEnds, SameRounds, SameEnd, history, Recorded, ReadyIsProven
<1>12. CASE Settle
  <2>1. step = "review" /\ current \in Records /\ current.hash \in Trees /\ ~current.clean
    BY <1>1, <1>12 DEF Settle, Recorded, ImplTypes
  <2>2. cleared' \in {cleared, cleared \cup {current.hash}} /\ UNCHANGED <<proven, rewritten>>
    BY <1>12 DEF Settle
  <2>3. Ended
    BY <1>4, <1>12, <2>2 DEF Settle
  <2>4. CASE /\ step' = "finish" /\ last' = [current EXCEPT !.clean = TRUE] /\ current' = NoRound
             /\ ready' = current.hash /\ cleared' = cleared \cup {current.hash}
    <3> DEFINE r == [current EXCEPT !.clean = TRUE]
    <3>1. r.test = current.test /\ r.ok = current.ok /\ r.hash = current.hash /\ last' = r
      BY <2>1, <2>4 DEF Records
    <3> HIDE DEF r
    <3> QED
      BY <1>1, <2>1, <2>2, <2>3, <2>4, <3>1 DEF Recorded, NoRound
  <2>5. CASE NextRound(current) /\ UNCHANGED <<ready, cleared>>
    BY <1>1, <1>5, <2>1, <2>2, <2>3, <2>5 DEF Recorded
  <2>6. CASE step' = "finish" /\ last' = current /\ current' = NoRound /\ UNCHANGED <<ready, cleared>>
    BY <1>1, <2>1, <2>2, <2>3, <2>6 DEF Recorded, NoRound
  <2> QED
    BY <1>12, <2>4, <2>5, <2>6 DEF Settle
<1>13. CASE Finish
  <2>1. Tests /\ Clean
    BY <1>3, <1>13 DEF Finish, SameReview
  <2>2. Ended
    <3>1. CASE outcome' = [outcome EXCEPT !.status = "nopr"]
      BY <1>1, <1>13, <3>1 DEF Finish, Recorded, ReadyIsProven, history, ImplTypes
    <3>2. ASSUME NEW forbidden \in BOOLEAN,
                 outcome' = [status |-> "report", done |-> last.clean /\ ~forbidden,
                             patch |-> IF ready # NoTree THEN ready ELSE tree]
          PROVE  Ended
      <4>1. outcome'.done => last.clean
        BY <3>2, Zenon
      <4>2. last.clean => ready # NoTree
        BY <1>1 DEF Recorded, Trees, NoTree
      <4>3. outcome'.done => outcome'.patch \in cleared
        BY <1>1, <3>2, <4>1, <4>2 DEF Recorded
      <4> QED
        BY <1>1, <1>13, <4>3 DEF Finish, Recorded, ReadyIsProven, history
    <3> QED
      BY <1>13, <3>1, <3>2 DEF Finish
  <2> QED
    BY <2>1, <2>2
<1>14. CASE Evidence
  <2>1. Tests /\ Clean
    BY <1>3, <1>14 DEF Evidence, SameReview
  <2>2. Ended
    BY <1>4, <1>14 DEF Evidence, history
  <2> QED
    BY <2>1, <2>2
<1>15. CASE Publish
  <2>1. Tests /\ Clean
    BY <1>3, <1>15 DEF Publish, SameReview
  <2>2. CASE UNCHANGED pull
    <3>1. UNCHANGED <<outcome, proven, rewritten, cleared>>
      BY <1>15 DEF Publish, history
    <3> QED
      BY <1>1, <2>1, <2>2, <3>1 DEF Recorded, ReadyIsProven
  <2>3. ASSUME NEW untested, untested = RootTestRefusal(last, outcome.patch),
               pull' = [open |-> TRUE, done |-> outcome.done, untested |-> untested, patch |-> outcome.patch]
        PROVE  Ended
    <3>1. untested \/ outcome.patch \in proven \cup rewritten
      BY <1>1, <2>3 DEF RootTestRefusal, Recorded, ImplTypes, Records
    <3> QED
      BY <1>1, <1>15, <2>3, <3>1 DEF Publish, Recorded, history
  <2> QED
    BY <1>15, <2>1, <2>2, <2>3 DEF Publish
<1>16. CASE UNCHANGED implVars
  BY <1>1, <1>16 DEF implVars, history, Recorded, ReadyIsProven
<1> QED
  BY <1>6, <1>7, <1>8, <1>9, <1>10, <1>11, <1>12, <1>13, <1>14, <1>15, <1>16 DEF ImplNext

\* A step that calls no reviewer: none reads before it, nor after it, and what it spends is allowed.
LEMMA NoneReading ==
  ASSUME ImplInv, step # "review", reviewers' = reviewers,
         \/ UNCHANGED spent
         \/ \E call \in Call : spent' = spent + call.cost
  PROVE  Budgeted'
<1>1. \A l \in Lenses : reviewers[l].status = "off"
  BY DEF ImplInv, Budgeted
<1>2. WithinRunBudget'
  BY CallWithin DEF ImplInv, Budgeted, WithinRunBudget
<1> QED
  BY <1>1, <1>2 DEF Budgeted

\* The reviewers' shares together are within what the run has left.
LEMMA SharesFit ==
  ASSUME ImplTypes, WithinRunBudget
  PROVE  LET n == Cardinality(Lenses) IN
         n \in Nat \ {0} /\ Share \in Nat /\ n * Share <= RunBudget - spent
<1> DEFINE n == Cardinality(Lenses)
           rest == RunBudget - spent
           part == rest \div n
<1>1. n \in Nat /\ n # 0
  BY ImplementationAssumption, FS_CardinalityType, FS_EmptySet
<1>2. rest \in Nat /\ AgentBudget \in Nat
  BY ImplementationAssumption DEF ImplTypes, WithinRunBudget
<1>3. part \in Nat /\ n * part <= rest
  <2> HIDE DEF n, rest
  <2> QED
    BY <1>1, <1>2
<1>4. Share \in Nat /\ Share <= part
  <2> HIDE DEF part
  <2>1. Share = Min({AgentBudget, part})
    BY DEF Share, part
  <2>2. AgentBudget \in Int /\ part \in Int
    BY <1>2, <1>3
  <2>3. Share \in {AgentBudget, part} /\ Share <= part
    BY <2>1, <2>2, MinOfTwo, Zenon
  <2> QED
    BY <1>2, <1>3, <2>3
<1>5. n * Share <= n * part
  <2> HIDE DEF n, part
  <2> QED
    BY <1>1, <1>3, <1>4
<1> HIDE DEF n, rest, part
<1>6. n * Share <= rest
  <2>1. n * Share \in Int /\ n * part \in Int
    BY <1>1, <1>3, <1>4
  <2> QED
    BY <1>2, <1>3, <1>5, <2>1
<1> QED
  BY <1>1, <1>4, <1>6 DEF n, rest

\* When the reviewers start, in any order, each one's share is put aside.
LEMMA SharesCovered ==
  ASSUME ImplInv, StartReviews
  PROVE  Budgeted'
<1> DEFINE n == Cardinality(Lenses)
<1>1. n \in Nat \ {0} /\ Share \in Nat /\ n * Share <= RunBudget - spent
  BY SharesFit DEF ImplInv, Budgeted
<1>2. RunBudget \in Nat /\ spent \in Nat /\ spent <= RunBudget
  BY ImplementationAssumption DEF ImplInv, ImplTypes, Budgeted, WithinRunBudget
<1>3. Allowed(Share) \in Nat /\ Allowed(Share) <= Share
  <2>1. RunBudget - spent \in Nat
    BY <1>2
  <2> QED
    BY <1>1, <2>1, AllowedWithin DEF Allowed
<1>4. spent' = spent /\ step' = "review"
  BY DEF StartReviews
<1>5. \A l \in Lenses : reviewers'[l].status = "reads" /\ reviewers'[l].left = Share /\ reviewers'[l].allowed = Allowed(Share)
  BY DEF StartReviews
<1>6. PICK order \in Bijection(1..n, Lenses) : TRUE
  BY ImplementationAssumption, FS_CardinalityType DEF ExistsBijection
<1>7. order \in [1..n -> Lenses] /\ \A l \in Lenses : \E k \in 1..n : order[k] = l
  BY <1>6 DEF Bijection, Injection, Surjection, IsInjective
<1> HIDE DEF n
<1> DEFINE sum == [k \in 0..n |-> spent + k * Share]
<1>8. sum \in [0..n -> Int] /\ sum[0] = spent /\ sum[n] <= RunBudget
  <2>1. \A k \in 0..n : k * Share \in Int
    BY <1>1
  <2>2. 0 * Share = 0
    BY <1>1
  <2>3. n * Share \in Int
    BY <1>1
  <2> QED
    BY <1>1, <1>2, <2>1, <2>2, <2>3
<1>9. \A k \in 1..n : sum[k - 1] + Share <= sum[k]
  <2> TAKE k \in 1..n
  <2>1. (k - 1) * Share + Share = k * Share
    BY <1>1
  <2>2. k - 1 \in 0..n /\ k \in 0..n /\ (k - 1) * Share \in Int /\ k * Share \in Int
    BY <1>1
  <2> QED
    BY <1>1, <1>2, <2>1, <2>2
<1>10. \A i, k \in 0..n : i <= k => sum[i] <= sum[k]
  <2> TAKE i, k \in 0..n
  <2>1. i <= k => i * Share <= k * Share
    BY <1>1
  <2>2. i * Share \in Int /\ k * Share \in Int
    BY <1>1
  <2> QED
    BY <1>1, <1>2, <2>1, <2>2
<1> HIDE DEF sum
<1>11. PICK sums \in [0..n -> Int] :
         /\ sums[0] = spent /\ sums[n] <= RunBudget
         /\ \A k \in 1..n : sums[k - 1] + Share <= sums[k]
         /\ \A i, k \in 0..n : i <= k => sums[i] <= sums[k]
  BY <1>8, <1>9, <1>10
<1>12. \A k \in 1..n : Reserve(order[k])' = Share
  BY <1>5, <1>7 DEF Reserve
<1>13. Covered(n, order, sums)'
  BY <1>1, <1>4, <1>7, <1>11, <1>12 DEF Covered
<1> QED
  BY <1>1, <1>2, <1>3, <1>4, <1>5, <1>13 DEF Budgeted, WithinRunBudget

\* When a reviewer's call ends, what it cost comes out of that reviewer's reserve and nobody else's.
LEMMA ReserveSpent ==
  ASSUME ImplInv, NEW l \in Lenses, ReviewerEnds(l)
  PROVE  Budgeted'
<1>1. ImplTypes /\ reviewers[l] \in Reviewers /\ step = "review" /\ reviewers[l].status = "reads"
  BY DEF ImplInv, ImplTypes, ReviewerEnds
<1>2. PICK call \in Calls(reviewers[l].allowed), retried \in BOOLEAN :
        /\ spent' = spent + call.cost
        /\ retried => reviewers[l].left - call.cost > 0
        /\ reviewers' = [reviewers EXCEPT ![l] =
             IF retried
             THEN [status |-> "reads", attempt |-> 2, left |-> @.left - call.cost,
                   allowed |-> Max({0, Min({AgentBudget, RunBudget - spent', @.left - call.cost})})]
             ELSE [@ EXCEPT !.status = call.ends, !.allowed = 0]]
  BY Zenon DEF ReviewerEnds
<1> DEFINE cost == call.cost
           rest == reviewers[l].left - cost
           allowed == Max({0, Min({AgentBudget, RunBudget - spent', rest})})
<1>3. reviewers[l].left \in Nat /\ reviewers[l].allowed \in Nat /\ reviewers[l].allowed <= reviewers[l].left
  BY <1>1 DEF Reviewers, ImplInv, Budgeted
<1>4. cost \in Nat /\ cost <= reviewers[l].left /\ call.ends \in {"answers", "fails", "spent"} /\ rest \in Nat
  BY <1>3, CallsWithin
<1>5. spent \in Nat /\ RunBudget \in Nat /\ spent' = spent + cost
  BY <1>1, <1>2, ImplementationAssumption DEF ImplTypes
<1>6. \A m \in Lenses \ {l} : reviewers'[m] = reviewers[m]
  BY <1>1, <1>2 DEF ImplTypes
<1>7. reviewers'[l] = IF retried THEN [status |-> "reads", attempt |-> 2, left |-> rest, allowed |-> allowed]
                       ELSE [reviewers[l] EXCEPT !.status = call.ends, !.allowed = 0]
  BY <1>1, <1>2 DEF ImplTypes
<1>8. PICK n, order, sum : Covered(n, order, sum)
  BY <1>1 DEF ImplInv, Budgeted
<1>9. PICK j \in 1..n : order[j] = l
  BY <1>8 DEF Covered
<1> HIDE DEF cost, rest, allowed
<1>10. Reserve(l)' <= reviewers[l].left - cost /\ Reserve(l)' \in Nat
  <2>1. CASE retried
    BY <1>4, <1>7, <2>1 DEF Reserve, rest
  <2>2. CASE ~retried
    <3>1. reviewers'[l].status = call.ends
      BY <1>1, <1>7, <2>2 DEF Reviewers
    <3> QED
      BY <1>3, <1>4, <3>1 DEF Reserve
  <2> QED
    BY <2>1, <2>2
<1>11. \A m \in Lenses : Reserve(m) \in Nat /\ Reserve(m)' \in Nat /\ Reserve(m)' <= Reserve(m)
  <2> TAKE m \in Lenses
  <2>1. reviewers[m] \in Reviewers
    BY <1>1 DEF ImplTypes
  <2>2. CASE m = l
    BY <1>1, <1>3, <1>4, <1>10, <2>2 DEF Reserve
  <2>3. CASE m # l
    <3>1. Reserve(m) \in Nat
      BY <2>1 DEF Reserve, Reviewers, ImplInv, Budgeted
    <3>2. Reserve(m)' = Reserve(m)
      BY <1>6, <2>3 DEF Reserve
    <3> QED
      BY <3>1, <3>2
  <2> QED
    BY <2>2, <2>3
<1>12. /\ n \in Nat /\ order \in [1..n -> Lenses] /\ sum \in [0..n -> Int]
       /\ sum[0] = spent /\ sum[n] <= RunBudget
       /\ \A k \in 1..n : sum[k - 1] + Reserve(order[k]) <= sum[k]
       /\ \A i, k \in 0..n : i <= k => sum[i] <= sum[k]
  BY <1>8 DEF Covered
<1> DEFINE after == [k \in 0..n |-> IF k < j THEN sum[k] + cost ELSE sum[k]]
<1>13. after \in [0..n -> Int] /\ after[0] = spent + cost /\ after[n] <= RunBudget
  BY <1>4, <1>9, <1>12
<1>14. sum[j - 1] + cost + Reserve(l)' <= sum[j]
  <2>1. Reserve(l) = reviewers[l].left
    BY <1>1 DEF Reserve
  <2>2. sum[j - 1] \in Int /\ sum[j] \in Int /\ sum[j - 1] + reviewers[l].left <= sum[j]
    BY <1>9, <1>12, <2>1
  <2> QED
    BY <1>3, <1>4, <1>10, <2>2
<1>15. \A k \in 1..n : after[k - 1] + Reserve(order[k])' <= after[k]
  <2> TAKE k \in 1..n
  <2>1. k - 1 \in 0..n /\ k \in 0..n /\ j - 1 \in 0..n /\ j \in 0..n /\ order[k] \in Lenses
    BY <1>9, <1>12
  <2>2. sum[k - 1] + Reserve(order[k])' <= sum[k]
    BY <1>11, <1>12, <2>1
  <2>3. CASE k = j
    BY <1>4, <1>9, <1>10, <1>12, <1>14, <2>1, <2>3
  <2>4. CASE k < j
    <3>1. after[k - 1] = sum[k - 1] + cost /\ after[k] = sum[k] + cost
      BY <1>12, <2>1, <2>4
    <3>2. sum[k - 1] \in Int /\ sum[k] \in Int /\ Reserve(order[k])' \in Int
      BY <1>11, <1>12, <2>1
    <3> HIDE DEF after
    <3> QED
      BY <1>4, <2>2, <3>1, <3>2
  <2>5. CASE k > j
    BY <1>12, <2>1, <2>2, <2>5
  <2> QED
    BY <2>1, <2>3, <2>4, <2>5
<1>16. \A i, k \in 0..n : i <= k => after[i] <= after[k]
  <2> TAKE i, k \in 0..n
  <2>1. i < j /\ k >= j => sum[i] <= sum[j - 1] /\ sum[j] <= sum[k]
    BY <1>9, <1>12
  <2>2. sum[j - 1] + cost <= sum[j]
    <3>1. sum[j - 1] \in Int /\ sum[j] \in Int /\ Reserve(l)' \in Nat
      BY <1>9, <1>10, <1>12
    <3> QED
      BY <1>4, <1>14, <3>1
  <2>3. sum[i] \in Int /\ sum[k] \in Int /\ sum[j - 1] \in Int /\ sum[j] \in Int
    BY <1>9, <1>12
  <2>4. after[i] = (IF i < j THEN sum[i] + cost ELSE sum[i]) /\ after[k] = (IF k < j THEN sum[k] + cost ELSE sum[k])
    OBVIOUS
  <2>5. i <= k => sum[i] <= sum[k]
    BY <1>12
  <2> HIDE DEF after
  <2> QED
    BY <1>4, <1>9, <2>1, <2>2, <2>3, <2>4, <2>5
<1> HIDE DEF after
<1>17. PICK sums \in [0..n -> Int] :
         /\ sums[0] = spent' /\ sums[n] <= RunBudget
         /\ \A k \in 1..n : sums[k - 1] + Reserve(order[k])' <= sums[k]
         /\ \A i, k \in 0..n : i <= k => sums[i] <= sums[k]
  BY <1>5, <1>13, <1>15, <1>16
<1>18. Covered(n, order, sums)'
  BY <1>8, <1>12, <1>17 DEF Covered
<1>19. WithinRunBudget'
  BY <1>5, <1>12, <1>17 DEF WithinRunBudget
<1>20. \A m \in Lenses : reviewers'[m].status = "reads" => reviewers'[m].allowed <= reviewers'[m].left
  <2>1. allowed <= rest
    <3>1. RunBudget - spent' \in Nat
      BY <1>4, <1>5, <1>19 DEF WithinRunBudget
    <3> QED
      BY <1>4, <3>1, AllowedWithin DEF allowed
  <2>2. reviewers'[l].status = "reads" => reviewers'[l].allowed <= reviewers'[l].left
    <3>1. CASE retried
      BY <1>7, <2>1, <3>1
    <3>2. CASE ~retried
      BY <1>1, <1>4, <1>7, <3>2 DEF Reviewers
    <3> QED
      BY <3>1, <3>2
  <2> QED
    BY <1>6, <2>2 DEF ImplInv, Budgeted
<1>21. step' = "review"
  BY DEF ReviewerEnds
<1> QED
  BY <1>18, <1>19, <1>20, <1>21 DEF Budgeted

\* A build's steps keep the money there.
LEMMA BudgetedStep == ImplInv /\ [ImplNext]_implVars => Budgeted'
<1> SUFFICES ASSUME ImplInv, [ImplNext]_implVars PROVE Budgeted'
  OBVIOUS
<1>1. CASE SpecAgent \/ Implement \/ Finish \/ Evidence \/ Publish
  <2>1. \/ UNCHANGED spent
        \/ \E call \in Call : spent' = spent + call.cost
    BY <1>1, Zenon DEF SpecAgent, Implement, Finish, Evidence, Publish
  <2>2. step # "review" /\ reviewers' = reviewers
    BY <1>1 DEF SpecAgent, Implement, Finish, Evidence, Publish, SameReview
  <2> QED
    BY <2>1, <2>2, NoneReading
<1>2. CASE Gates \/ MutationCheck \/ RootTests
  <2>1. step # "review" /\ reviewers' = reviewers /\ spent' = spent
    BY <1>2 DEF Gates, MutationCheck, RootTests, SameReview
  <2> QED
    BY <2>1, NoneReading
<1>3. CASE StartReviews
  BY <1>3, SharesCovered
<1>4. CASE \E l \in Lenses : ReviewerEnds(l)
  BY <1>4, ReserveSpent
<1>5. CASE Settle
  BY <1>5 DEF Settle, ImplInv, Budgeted, WithinRunBudget, NoReviewer
<1>6. CASE UNCHANGED implVars
  <2>1. UNCHANGED <<spent, step, reviewers>>
    BY <1>6 DEF implVars
  <2>2. \A n, order, sum : Covered(n, order, sum) => Covered(n, order, sum)'
    BY <2>1 DEF Covered, Reserve
  <2> QED
    BY <2>1, <2>2 DEF ImplInv, Budgeted, WithinRunBudget
<1> QED
  BY <1>1, <1>2, <1>3, <1>4, <1>5, <1>6 DEF ImplNext

\* In every state of a build, the records are true of the trees they name and the money of every reviewer
\* that reads is there (iterate, finishImplement and callBudget in run.mjs).
THEOREM ImplInvariant == ImplSpec => []ImplInv
<1>1. ImplInv /\ [ImplNext]_implVars => ImplInv'
  BY ImplTypesStep, RecordedStep, BudgetedStep DEF ImplInv
<1> QED
  BY <1>1, ImplStart, PTL DEF ImplSpec

\* A pull request opened as ready carries exactly the patch that the root tests passed on and all the
\* reviewers cleared, however many rounds, fixes and reviewers there are and whatever wrote to the tree in
\* between (rootTestRefusal and reviewedPatch in run.mjs).
THEOREM AlwaysReadyIsProven == ImplSpec => []ReadyIsProven
<1>1. ImplInv => ReadyIsProven
  BY DEF ImplInv, Recorded
<1> QED
  BY <1>1, ImplInvariant, PTL

\* A run never spends past its cap, with any number of reviewers reading and retrying at once (the shares
\* and the cap in run.mjs).
THEOREM AlwaysWithinBudget == ImplSpec => []WithinRunBudget
<1>1. ImplInv => WithinRunBudget
  BY DEF ImplInv, Budgeted
<1> QED
  BY <1>1, ImplInvariant, PTL

-----------------------------------------------------------------------------
(* The tickets of a split issue *)

TicketIssues ==
  [ticket : 1..Len(Blockers), blockedBy : SUBSET Nat, linked : BOOLEAN,
   state : {"open", "completed", "dropped"}, sealed : BOOLEAN, labelled : BOOLEAN, stopped : BOOLEAN]

\* What blocks a ticket was linked before it was opened; one that nothing blocks is so by the plan; the ticket
\* that is about to be linked is not linked yet.
Planned ==
  /\ issues \in Seq(TicketIssues)
  /\ \A n \in Opened : issues[n].blockedBy \subseteq Linked
  /\ \A n \in Opened : issues[n].blockedBy = {} => Blockers[issues[n].ticket] = {}
  /\ split = "link" => Len(issues) # 0 /\ ~issues[Len(issues)].linked

\* Nothing keeps the ticket from being built.
Startable(n) ==
  /\ issues[n].sealed /\ issues[n].state = "open" /\ ~issues[n].stopped
  /\ \A b \in issues[n].blockedBy : issues[b].state = "completed"

\* A ticket that could start has started, or something under way will start it: the unblock that is due for
\* one of its blockers, one that has found it, or the split's own last step.
WillStart(n) ==
  \/ issues[n].labelled \/ n \in missed
  \/ \E b \in closed : b \in issues[n].blockedBy
  \/ \E next \in waking : n \in next
  \/ issues[n].blockedBy = {} /\ split # "over"

TicketsInv == Planned /\ \A n \in Linked : Startable(n) => WillStart(n)

\* Whoever changes an issue leaves its ticket, its link and its blockers as they were: the plan stays.
LEMMA PlanKept ==
  ASSUME TicketsInv, issues' \in [Opened -> TicketIssues], split' = "link" => split = "link",
         \A n \in Opened : /\ issues'[n].ticket = issues[n].ticket
                           /\ issues'[n].blockedBy = issues[n].blockedBy
                           /\ issues'[n].linked = issues[n].linked
  PROVE  Planned' /\ Opened' = Opened /\ Linked' = Linked
<1>1. Len(issues) \in Nat /\ Opened = 1..Len(issues)
  BY DEF TicketsInv, Planned, Opened
<1>2. issues' \in Seq(TicketIssues) /\ Len(issues') = Len(issues)
  BY <1>1
<1>3. Opened' = Opened /\ Linked' = Linked
  BY <1>2 DEF Opened, Linked
<1>4. /\ \A n \in Opened : issues'[n].blockedBy \subseteq Linked
      /\ \A n \in Opened : issues'[n].blockedBy = {} => Blockers[issues'[n].ticket] = {}
  BY DEF TicketsInv, Planned
<1>5. split' = "link" => Len(issues') # 0 /\ ~issues'[Len(issues')].linked
  <2>1. Len(issues) # 0 => Len(issues) \in Opened
    BY <1>1
  <2> QED
    BY <1>2, <2>1 DEF TicketsInv, Planned
<1> QED
  BY <1>2, <1>3, <1>4, <1>5 DEF Planned

\* One issue changed.
LEMMA OneChanged ==
  ASSUME TicketsInv, NEW n \in Opened, NEW issue \in TicketIssues, issues' = [issues EXCEPT ![n] = issue],
         issue.ticket = issues[n].ticket, issue.blockedBy = issues[n].blockedBy, issue.linked = issues[n].linked,
         split' = "link" => split = "link"
  PROVE  /\ Planned' /\ Opened' = Opened /\ Linked' = Linked
         /\ issues'[n] = issue /\ \A m \in Opened \ {n} : issues'[m] = issues[m]
<1>1. issues \in [Opened -> TicketIssues]
  BY DEF TicketsInv, Planned, Opened
<1>2. issues'[n] = issue /\ \A m \in Opened \ {n} : issues'[m] = issues[m]
  BY <1>1
<1>3. issues' \in [Opened -> TicketIssues]
  BY <1>1
<1> QED
  BY <1>2, <1>3, PlanKept

\* Labels change nothing else.
LEMMA LabelsOnly ==
  ASSUME TicketsInv, NEW ns, Label(ns), split' = "link" => split = "link"
  PROVE  /\ Planned' /\ Opened' = Opened /\ Linked' = Linked
         /\ \A n \in Opened :
              /\ issues'[n].sealed = issues[n].sealed /\ issues'[n].state = issues[n].state
              /\ issues'[n].stopped = issues[n].stopped /\ issues'[n].blockedBy = issues[n].blockedBy
              /\ issues[n].labelled \/ n \in ns => issues'[n].labelled
<1>1. issues \in [Opened -> TicketIssues]
  BY DEF TicketsInv, Planned, Opened
<1>2. \A n \in Opened : [issues[n] EXCEPT !.labelled = TRUE] \in TicketIssues
  BY <1>1 DEF TicketIssues
<1>3. \A n \in Opened : issues'[n] = IF n \in ns THEN [issues[n] EXCEPT !.labelled = TRUE] ELSE issues[n]
  BY DEF Label
<1>4. issues' \in [Opened -> TicketIssues]
  BY <1>1, <1>2 DEF Label
<1>5. \A n \in Opened :
        /\ issues'[n].ticket = issues[n].ticket /\ issues'[n].linked = issues[n].linked
        /\ issues'[n].sealed = issues[n].sealed /\ issues'[n].state = issues[n].state
        /\ issues'[n].stopped = issues[n].stopped /\ issues'[n].blockedBy = issues[n].blockedBy
        /\ issues[n].labelled \/ n \in ns => issues'[n].labelled
  BY <1>1, <1>3 DEF TicketIssues
<1> QED
  BY <1>4, <1>5, PlanKept

\* Nothing is opened before the split.
LEMMA TicketsStarted == TicketsInit => TicketsInv
BY DEF TicketsInit, TicketsInv, Planned, Opened, Linked

\* The tickets' steps keep the plan, and keep every ticket that could start on its way.
LEMMA TicketsStep == TicketsInv /\ [TicketsNext]_ticketsVars => TicketsInv'
<1> SUFFICES ASSUME TicketsInv, [TicketsNext]_ticketsVars PROVE TicketsInv'
  OBVIOUS
<1>1. Len(issues) \in Nat /\ Opened = 1..Len(issues) /\ issues \in [Opened -> TicketIssues] /\ Linked \subseteq Opened
  BY DEF TicketsInv, Planned, Opened, Linked
<1>2. \A n \in Opened : issues[n].blockedBy \subseteq Linked
  BY DEF TicketsInv, Planned
<1>3. \A n \in Linked : Startable(n) => WillStart(n)
  BY DEF TicketsInv
\* A step that touches no issue.
<1>4. ASSUME issues' = issues, split' = "link" => split = "link" PROVE Planned' /\ Opened' = Opened /\ Linked' = Linked
  BY <1>1, <1>4, PlanKept
\* A step that changes one issue: the others only see what its state becomes.
<1>5. ASSUME NEW n \in Opened, NEW issue \in TicketIssues, issues' = [issues EXCEPT ![n] = issue],
             issue.ticket = issues[n].ticket, issue.blockedBy = issues[n].blockedBy, issue.linked = issues[n].linked,
             issue.state = "completed" => issues[n].state = "completed" \/ n \in closed',
             UNCHANGED <<split, waking>>, closed \subseteq closed', missed \subseteq missed',
             Startable(n)' => issue.labelled \/ n \in missed'
      PROVE  TicketsInv'
  <2>1. /\ Planned' /\ Opened' = Opened /\ Linked' = Linked
        /\ issues'[n] = issue /\ \A m \in Opened \ {n} : issues'[m] = issues[m]
    BY <1>5, OneChanged
  <2>2. ASSUME NEW m \in Linked', Startable(m)' PROVE WillStart(m)'
    <3>1. PICK k \in Opened : k = m
      BY <1>1, <2>1
    <3>2. CASE k = n
      BY <1>5, <2>1, <2>2, <3>1, <3>2 DEF WillStart
    <3>3. CASE k # n
      <4>1. issues'[k] = issues[k]
        BY <2>1, <3>3
      <4>2. CASE n \in issues[k].blockedBy /\ n \in closed'
        BY <2>1, <3>1, <4>1, <4>2 DEF WillStart
      <4>3. CASE ~(n \in issues[k].blockedBy /\ n \in closed')
        <5>1. \A b \in issues[k].blockedBy : b \in Opened /\ (issues'[b].state = "completed" => issues[b].state = "completed")
          BY <1>1, <1>2, <1>5, <2>1, <4>3
        <5>2. Startable(k)
          BY <2>2, <3>1, <4>1, <5>1 DEF Startable
        <5> QED
          BY <1>3, <1>5, <2>1, <2>2, <3>1, <4>1, <5>2 DEF WillStart
      <4> QED
        BY <4>2, <4>3
    <3> QED
      BY <3>2, <3>3
  <2> QED
    BY <2>1, <2>2 DEF TicketsInv
\* A step that labels.
<1>6. ASSUME NEW ns, Label(ns), UNCHANGED <<closed, missed>>, split' \in {split, "over"},
             \A n \in Linked, next \in waking : n \in next => n \in ns \/ next \in waking',
             split' = split \/ \A n \in Linked : issues[n].blockedBy = {} => n \in ns
      PROVE  TicketsInv'
  <2>1. /\ Planned' /\ Opened' = Opened /\ Linked' = Linked
        /\ \A n \in Opened :
             /\ issues'[n].sealed = issues[n].sealed /\ issues'[n].state = issues[n].state
             /\ issues'[n].stopped = issues[n].stopped /\ issues'[n].blockedBy = issues[n].blockedBy
             /\ issues[n].labelled \/ n \in ns => issues'[n].labelled
    BY <1>6, LabelsOnly
  <2>2. ASSUME NEW m \in Linked', Startable(m)' PROVE WillStart(m)'
    <3>1. PICK k \in Opened : k = m
      BY <1>1, <2>1
    <3>2. Startable(k)
      BY <1>1, <1>2, <2>1, <2>2, <3>1 DEF Startable
    <3> QED
      BY <1>3, <1>6, <2>1, <2>2, <3>1, <3>2 DEF WillStart
  <2> QED
    BY <2>1, <2>2 DEF TicketsInv
<1>7. CASE OpenTicket
  <2>1. PICK t \in Missing :
          /\ \A u \in Missing : t <= u
          /\ issues' = Append(issues,
               [ticket |-> t, blockedBy |-> UNION {Numbers(b) : b \in Blockers[t]}, linked |-> FALSE,
                state |-> "open", sealed |-> TRUE, labelled |-> FALSE, stopped |-> FALSE])
    BY <1>7 DEF OpenTicket
  <2> DEFINE blockedBy == UNION {Numbers(b) : b \in Blockers[t]}
             issue == [ticket |-> t, blockedBy |-> blockedBy, linked |-> FALSE,
                       state |-> "open", sealed |-> TRUE, labelled |-> FALSE, stopped |-> FALSE]
             n == Len(issues) + 1
  <2>2. t \in 1..Len(Blockers) /\ Len(Blockers) \in Nat
    BY TicketsAssumption DEF Missing
  <2>3. blockedBy \subseteq Linked
    BY DEF Numbers
  <2>4. blockedBy = {} => Blockers[t] = {}
    <3>1. \A b \in Blockers[t] : b \in 1..Len(Blockers) /\ ~(t <= b)
      BY <2>2, TicketsAssumption
    <3>2. \A b \in Blockers[t] : Numbers(b) # {}
      BY <2>1, <3>1 DEF Missing
    <3> QED
      BY <3>2
  <2>5. issue \in TicketIssues
    <3> HIDE DEF blockedBy
    <3>1. blockedBy \in SUBSET Nat
      BY <1>1, <2>3
    <3> QED
      BY <2>2, <3>1 DEF TicketIssues
  <2>6. issue.blockedBy = blockedBy /\ issue.ticket = t /\ ~issue.linked
    OBVIOUS
  <2>7. issues' = Append(issues, issue)
    BY <2>1
  <2> HIDE DEF blockedBy, issue
  <2>8. /\ issues' \in Seq(TicketIssues) /\ Len(issues') = n /\ n \in Nat \ {0}
        /\ issues'[n] = issue /\ \A m \in Opened : issues'[m] = issues[m]
    BY <1>1, <2>5, <2>7 DEF TicketsInv, Planned
  <2>9. Opened' = Opened \cup {n} /\ n \notin Opened
    BY <1>1, <2>8 DEF Opened
  <2>10. Linked' = Linked
    BY <2>6, <2>8, <2>9 DEF Linked
  <2>11. \A m \in Opened' : issues'[m].blockedBy \subseteq Linked'
    BY <1>2, <2>3, <2>6, <2>8, <2>9, <2>10
  <2>12. \A m \in Opened' : issues'[m].blockedBy = {} => Blockers[issues'[m].ticket] = {}
    BY <2>4, <2>6, <2>8, <2>9 DEF TicketsInv, Planned
  <2>13. Planned'
    BY <2>6, <2>8, <2>11, <2>12 DEF Planned
  <2>14. ASSUME NEW m \in Linked', Startable(m)' PROVE WillStart(m)'
    <3>1. PICK k \in Linked : k = m
      BY <2>10
    <3>2. \A b \in {k} \cup issues[k].blockedBy : issues'[b] = issues[b]
      BY <1>1, <1>2, <2>8, <3>1
    <3>3. Startable(k)
      BY <2>14, <3>1, <3>2 DEF Startable
    <3>4. split' # "over" /\ split # "over" /\ UNCHANGED <<closed, waking, missed>>
      BY <1>7 DEF OpenTicket
    <3> QED
      BY <1>3, <3>1, <3>2, <3>3, <3>4 DEF WillStart
  <2> QED
    BY <2>13, <2>14 DEF TicketsInv
<1>8. CASE LinkTicket
  <2> DEFINE n == Len(issues)
  <2>1. n \in Opened /\ ~issues[n].linked /\ split = "link" /\ n \notin Linked
    BY <1>1, <1>8 DEF LinkTicket, TicketsInv, Planned, Linked
  <2>2. PICK linked \in BOOLEAN, state \in {"open", "completed", "dropped"} :
          /\ issues' = [issues EXCEPT ![n].linked = linked, ![n].state = state]
          /\ state \in {issues[n].state, "dropped"}
          /\ \/ state = issues[n].state /\ closed' = closed
                /\ missed' = missed \cup IF issues[n].blockedBy # {} /\ ~Blocked(n) THEN {n} ELSE {}
             \/ (state # "open" /\ missed' = missed /\ closed' = closed \cup {n})
    <3>1. CASE /\ issues' = [issues EXCEPT ![n].linked = TRUE] /\ UNCHANGED <<closed, acts>>
               /\ missed' = missed \cup IF issues[n].blockedBy # {} /\ ~Blocked(n) THEN {n} ELSE {}
      <4>1. issues' = [issues EXCEPT ![n].linked = TRUE, ![n].state = issues[n].state]
        BY <1>1, <2>1, <3>1 DEF TicketIssues
      <4> QED
        BY <1>1, <2>1, <3>1, <4>1 DEF TicketIssues
    <3>2. ASSUME NEW linked \in BOOLEAN, closed' = closed \cup {n}, missed' = missed,
                 issues' = [issues EXCEPT ![n].linked = linked, ![n].state = IF @ = "open" THEN "dropped" ELSE @]
          PROVE  \E state \in {"open", "completed", "dropped"} :
                   /\ issues' = [issues EXCEPT ![n].linked = linked, ![n].state = state]
                   /\ state \in {issues[n].state, "dropped"} /\ state # "open"
      <4> DEFINE state == IF issues[n].state = "open" THEN "dropped" ELSE issues[n].state
      <4>1. issues' = [issues EXCEPT ![n].linked = linked, ![n].state = state]
        BY <1>1, <2>1, <3>2 DEF TicketIssues
      <4>2. state \in {"open", "completed", "dropped"} /\ state # "open" /\ state \in {issues[n].state, "dropped"}
        BY <1>1, <2>1 DEF TicketIssues
      <4> QED
        BY <4>1, <4>2
    <3> QED
      BY <1>8, <3>1, <3>2 DEF LinkTicket
  <2> DEFINE issue == [issues[n] EXCEPT !.linked = linked, !.state = state]
  <2>3. /\ issue \in TicketIssues /\ issue.ticket = issues[n].ticket /\ issue.blockedBy = issues[n].blockedBy
        /\ issue.linked = linked /\ issue.state = state /\ issue.labelled = issues[n].labelled
        /\ issue.sealed = issues[n].sealed /\ issue.stopped = issues[n].stopped
    BY <1>1, <2>1 DEF TicketIssues
  <2>4. issues' = [issues EXCEPT ![n] = issue]
    BY <1>1, <2>1, <2>2 DEF TicketIssues
  <2> HIDE DEF issue
  <2>5. /\ issues' \in Seq(TicketIssues) /\ Len(issues') = n
        /\ issues'[n] = issue /\ \A m \in Opened \ {n} : issues'[m] = issues[m]
    <3>1. /\ issues' \in [Opened -> TicketIssues]
          /\ issues'[n] = issue /\ \A m \in Opened \ {n} : issues'[m] = issues[m]
      BY <1>1, <2>1, <2>3, <2>4
    <3>2. issues' \in [1..n -> TicketIssues] /\ n \in Nat
      BY <1>1, <3>1
    <3> HIDE DEF n
    <3>3. issues' \in Seq(TicketIssues) /\ Len(issues') = n
      BY <3>2
    <3> QED
      BY <3>1, <3>3
  <2>6. Opened' = Opened /\ Linked \subseteq Linked' /\ Linked' \subseteq Linked \cup {n}
    BY <1>1, <2>1, <2>5 DEF Opened, Linked
  <2>7. /\ \A m \in Opened' : issues'[m].blockedBy = issues[m].blockedBy
        /\ \A m \in Opened' : issues'[m].ticket = issues[m].ticket
    BY <2>3, <2>5, <2>6
  <2>8. split' \in {"next", "failed"} /\ waking' = waking
    BY <1>8 DEF LinkTicket
  <2>9. Planned'
    BY <2>5, <2>6, <2>7, <2>8 DEF TicketsInv, Planned
  <2>10. ASSUME NEW m \in Linked', Startable(m)' PROVE WillStart(m)'
    <3>1. PICK k \in Opened : k = m
      BY <2>1, <2>6, <1>1
    <3>2. \A b \in issues[k].blockedBy : b # n /\ issues'[b] = issues[b]
      BY <1>1, <1>2, <2>1, <2>5
    <3>3. issues'[k].blockedBy = issues[k].blockedBy /\ \A b \in issues[k].blockedBy : issues[b].state = "completed"
      BY <2>6, <2>7, <2>10, <3>1, <3>2 DEF Startable
    <3>4. CASE k = n
      <4>1. n \in missed' \/ issues'[n].blockedBy = {}
        BY <2>2, <2>3, <2>5, <2>10, <3>1, <3>3, <3>4 DEF Startable, Blocked
      <4> QED
        BY <2>8, <3>1, <3>4, <4>1 DEF WillStart
    <3>5. CASE k # n
      <4>1. k \in Linked /\ issues'[k] = issues[k]
        BY <2>5, <2>6, <3>1, <3>5
      <4>2. Startable(k)
        BY <2>10, <3>1, <3>3, <4>1 DEF Startable
      <4>3. WillStart(k)
        BY <1>3, <4>1, <4>2
      <4> QED
        BY <2>2, <2>8, <3>1, <4>1, <4>3 DEF WillStart
    <3> QED
      BY <3>4, <3>5
  <2> QED
    BY <2>9, <2>10 DEF TicketsInv
<1>9. CASE LabelStarts
  <2>1. Label(UNION {Numbers(t) : t \in {u \in 1..Len(Blockers) : Blockers[u] = {}}})
    BY <1>9 DEF LabelStarts
  <2>2. \A n \in Linked : issues[n].blockedBy = {} =>
          n \in UNION {Numbers(t) : t \in {u \in 1..Len(Blockers) : Blockers[u] = {}}}
    <3> TAKE n \in Linked
    <3>1. issues[n].ticket \in 1..Len(Blockers) /\ n \in Numbers(issues[n].ticket)
      BY <1>1 DEF TicketIssues, Numbers
    <3>2. issues[n].blockedBy = {} => Blockers[issues[n].ticket] = {}
      BY <1>1 DEF TicketsInv, Planned
    <3> QED
      BY <3>1, <3>2
  <2>3. UNCHANGED <<closed, missed, waking>> /\ split' = "over"
    BY <1>9 DEF LabelStarts
  <2> QED
    BY <1>6, <2>1, <2>2, <2>3
<1>10. ASSUME issues' = issues, split' = "link" => split = "link", split' = "over" => split = "over",
              missed \subseteq missed', waking \subseteq waking',
              \A n \in closed \ closed', m \in Linked :
                n \in issues[m].blockedBy /\ Startable(m) => WillStart(m)'
       PROVE  TicketsInv'
  <2>1. Planned' /\ Opened' = Opened /\ Linked' = Linked
    BY <1>4, <1>10
  <2>2. ASSUME NEW m \in Linked', Startable(m)' PROVE WillStart(m)'
    <3>1. PICK k \in Linked : k = m
      BY <2>1
    <3>2. Startable(k) /\ WillStart(k)
      BY <1>3, <1>10, <2>2, <3>1 DEF Startable
    <3> QED
      BY <1>10, <3>1, <3>2 DEF WillStart
  <2> QED
    BY <2>1, <2>2 DEF TicketsInv
<1>11. CASE SplitDies \/ SplitAgain \/ \E n \in Opened : RunReads(n)
  BY <1>10, <1>11 DEF SplitDies, SplitAgain, RunReads
<1>12. ASSUME NEW n \in Opened, RunUnlabels(n) \/ PersonUnlabelsTicket(n) PROVE TicketsInv'
  <2> DEFINE issue == [issues[n] EXCEPT !.labelled = FALSE]
  <2>1. /\ issue \in TicketIssues /\ issue.ticket = issues[n].ticket /\ issue.blockedBy = issues[n].blockedBy
        /\ issue.linked = issues[n].linked /\ issue.state = issues[n].state
    BY <1>1, <1>12 DEF TicketIssues
  <2>2. issues' = [issues EXCEPT ![n] = issue]
    BY <1>1, <1>12 DEF RunUnlabels, PersonUnlabelsTicket
  <2> HIDE DEF issue
  <2>3. UNCHANGED <<split, closed, waking>> /\ missed \subseteq missed' /\ (Blocked(n) \/ n \in missed')
    BY <1>12 DEF RunUnlabels, PersonUnlabelsTicket
  <2>4. Blocked(n) => ~Startable(n)'
    <3>1. \A b \in Opened : issues'[b].state = issues[b].state /\ issues'[b].blockedBy = issues[b].blockedBy
      BY <1>1, <2>1, <2>2
    <3> QED
      BY <1>1, <1>2, <1>12, <3>1 DEF Blocked, Startable
  <2> QED
    BY <1>5, <1>12, <2>1, <2>2, <2>3, <2>4
<1>13. ASSUME NEW n \in Opened, NEW how \in {"completed", "dropped"}, PersonCloses(n, how) PROVE TicketsInv'
  <2> DEFINE issue == [issues[n] EXCEPT !.state = how]
  <2>1. /\ issue \in TicketIssues /\ issue.ticket = issues[n].ticket /\ issue.blockedBy = issues[n].blockedBy
        /\ issue.linked = issues[n].linked /\ issue.state = how
    BY <1>1, <1>13 DEF TicketIssues
  <2>2. issues' = [issues EXCEPT ![n] = issue]
    BY <1>1, <1>13 DEF PersonCloses
  <2> HIDE DEF issue
  <2>3. UNCHANGED <<split, waking, missed>> /\ closed \subseteq closed' /\ n \in closed'
    BY <1>13 DEF PersonCloses
  <2>4. ~Startable(n)'
    BY <1>1, <2>1, <2>2 DEF Startable
  <2> QED
    BY <1>5, <2>1, <2>2, <2>3, <2>4
<1>14. ASSUME NEW n \in Opened, PersonReopens(n) PROVE TicketsInv'
  <2> DEFINE issue == [issues[n] EXCEPT !.state = "open"]
  <2>1. /\ issue \in TicketIssues /\ issue.ticket = issues[n].ticket /\ issue.blockedBy = issues[n].blockedBy
        /\ issue.linked = issues[n].linked /\ issue.state = "open"
    BY <1>1, <1>14 DEF TicketIssues
  <2>2. issues' = [issues EXCEPT ![n] = issue]
    BY <1>1, <1>14 DEF PersonReopens
  <2> HIDE DEF issue
  <2>3. UNCHANGED <<split, closed, waking>> /\ missed \subseteq missed' /\ n \in missed'
    BY <1>14 DEF PersonReopens
  <2> QED
    BY <1>5, <2>1, <2>2, <2>3
<1>15. ASSUME NEW n \in Opened, PersonEditsTicket(n) PROVE TicketsInv'
  <2> DEFINE issue == [issues[n] EXCEPT !.sealed = FALSE]
  <2>1. /\ issue \in TicketIssues /\ issue.ticket = issues[n].ticket /\ issue.blockedBy = issues[n].blockedBy
        /\ issue.linked = issues[n].linked /\ issue.state = issues[n].state /\ ~issue.sealed
    BY <1>1, <1>15 DEF TicketIssues
  <2>2. issues' = [issues EXCEPT ![n] = issue]
    BY <1>1, <1>15 DEF PersonEditsTicket
  <2> HIDE DEF issue
  <2>3. UNCHANGED <<split, closed, waking, missed>>
    BY <1>15 DEF PersonEditsTicket
  <2>4. ~Startable(n)'
    BY <1>1, <2>1, <2>2 DEF Startable
  <2> QED
    BY <1>5, <2>1, <2>2, <2>3, <2>4
<1>16. ASSUME NEW n \in Opened, PersonRestarts(n) PROVE TicketsInv'
  <2> DEFINE issue == [issues[n] EXCEPT !.stopped = FALSE, !.labelled = TRUE]
  <2>1. /\ issue \in TicketIssues /\ issue.ticket = issues[n].ticket /\ issue.blockedBy = issues[n].blockedBy
        /\ issue.linked = issues[n].linked /\ issue.state = issues[n].state /\ issue.labelled
    BY <1>1, <1>16 DEF TicketIssues
  <2>2. issues' = [issues EXCEPT ![n] = issue]
    BY <1>1, <1>16 DEF PersonRestarts, TicketIssues
  <2> HIDE DEF issue
  <2>3. UNCHANGED <<split, closed, waking, missed>>
    BY <1>16 DEF PersonRestarts
  <2> QED
    BY <1>5, <2>1, <2>2, <2>3
<1>17. ASSUME NEW n \in Opened, RunBuilds(n) PROVE TicketsInv'
  <2>1. UNCHANGED <<split, closed, waking, missed>>
    BY <1>17 DEF RunBuilds
  <2>2. CASE issues' = issues
    BY <1>10, <2>1, <2>2
  <2>3. CASE issues' = [issues EXCEPT ![n].stopped = TRUE, ![n].labelled = FALSE]
    <3> DEFINE issue == [issues[n] EXCEPT !.stopped = TRUE, !.labelled = FALSE]
    <3>1. /\ issue \in TicketIssues /\ issue.ticket = issues[n].ticket /\ issue.blockedBy = issues[n].blockedBy
          /\ issue.linked = issues[n].linked /\ issue.state = issues[n].state /\ issue.stopped
      BY <1>1, <1>17 DEF TicketIssues
    <3>2. issues' = [issues EXCEPT ![n] = issue]
      BY <1>1, <1>17, <2>3 DEF TicketIssues
    <3> HIDE DEF issue
    <3>3. ~Startable(n)'
      BY <1>1, <3>1, <3>2 DEF Startable
    <3> QED
      BY <1>5, <2>1, <3>1, <3>2, <3>3
  <2> QED
    BY <1>17, <2>2, <2>3 DEF RunBuilds
<1>18. ASSUME NEW n \in Opened, UnblockReads(n) PROVE TicketsInv'
  <2>1. UNCHANGED <<issues, split, missed>> /\ closed \ closed' \subseteq {n} /\ waking' = waking \cup {Frontier}
    BY <1>18 DEF UnblockReads
  <2>2. \A m \in Linked : Startable(m) => issues[m].labelled \/ m \in Frontier
    <3> TAKE m \in Linked
    <3>1. issues[m].blockedBy \subseteq Linked
      BY <1>1, <1>2
    <3> QED
      BY <3>1 DEF Startable, Frontier, IsDone
  <2>3. \A m \in Linked : Startable(m) => WillStart(m)'
    BY <2>1, <2>2 DEF WillStart
  <2> QED
    BY <1>10, <2>1, <2>3
<1>19. ASSUME NEW n \in Opened, UnblockDies(n) PROVE TicketsInv'
  <2>1. /\ UNCHANGED <<issues, split, waking>> /\ closed \ closed' \subseteq {n}
        /\ missed' = missed \cup {m \in Opened : n \in issues[m].blockedBy}
    BY <1>19 DEF UnblockDies
  <2>2. \A m \in Linked : n \in issues[m].blockedBy => WillStart(m)'
    BY <1>1, <2>1 DEF WillStart
  <2> QED
    BY <1>10, <2>1, <2>2
<1>20. ASSUME NEW n \in Opened, PersonLabelsTicket(n) PROVE TicketsInv'
  BY <1>6, <1>20 DEF PersonLabelsTicket
<1>21. ASSUME NEW next \in waking, UnblockLabels(next) PROVE TicketsInv'
  BY <1>6, <1>21 DEF UnblockLabels
<1>22. CASE UNCHANGED ticketsVars
  BY <1>10, <1>22 DEF ticketsVars
<1>23. CASE TicketsNext
  BY <1>7, <1>8, <1>9, <1>11, <1>12, <1>13, <1>14, <1>15, <1>16, <1>17, <1>18, <1>19, <1>20, <1>21, <1>23 DEF TicketsNext
<1> QED
  BY <1>22, <1>23

\* In every state of a split, a ticket that could start is labelled, given up for a named reason, or on its
\* way to be (publishSplit and unblock in run.mjs).
THEOREM TicketsInvariant == TicketsSpec => []TicketsInv
BY TicketsStarted, TicketsStep, PTL DEF TicketsSpec

\* No ticket of a plan, whatever blocks what, is forgotten: once nothing is under way, one whose blockers are
\* all completed has been labelled, however its blockers' closings, their unblocks, the tickets' runs, failed
\* splits and people crossed (frontier and unblock in run.mjs).
THEOREM TicketsAlwaysStart == TicketsSpec => []TicketsStart
<1>1. TicketsInv => TicketsStart
  BY DEF TicketsInv, TicketsStart, Settled, Startable, WillStart
<1> QED
  BY <1>1, TicketsInvariant, PTL

-----------------------------------------------------------------------------
(* The conversation on an issue *)

\* What was written by the time `t`.
WrittenBy(t) == [start : Nat, read : 0..t, posted : 0..t, replied : 0..t, sealed : BOOLEAN]
EventsBy(t) == [kind : {"none", "agent", "approved", "comment"}, at : 0..t]
RunsBy(t) ==
  [stage : {"idle", "snapshot", "mark", "agents", "publish", "post", "label"}, event : EventsBy(t),
   phase : {"none", "skip", "quiet", "build", "brief"}, asOf : 0..t, from : WrittenBy(t),
   outcome : {"none", "pr", "nopr", "challenged", "failed", "revised", "kept", "blocked"}]

BriefsTypes ==
  /\ now \in Nat /\ said \in 0..now /\ edited \in 0..now
  /\ briefs \in Seq(WrittenBy(now))
  /\ noticed \in 0..now /\ failures \in Nat /\ prs \in Nat /\ left \in BOOLEAN
  /\ doing \in [Groups -> RunsBy(now)] /\ awaits \in [Groups -> EventsBy(now)]

\* An issue marked as worked on has a run that will take the mark off, or a pull request.
MarkedByRun ==
  "working" \in labels =>
    \/ prs > 0 \/ left
    \/ \E g \in Groups : doing[g].stage \in {"agents", "publish", "post", "label"}

BriefsInv == BriefsTypes /\ MarkedByRun

\* A set of numbers up to `n` has a greatest: there is no endless chain of the intervals from one to `n`.
LEMMA GreatestOf ==
  ASSUME NEW n \in Nat, NEW S, S \subseteq 0..n, S # {}
  PROVE  Max(S) \in S /\ \A x \in S : x <= Max(S)
<1> DEFINE From(x) == x..n
           T == {From(x) : x \in S}
<1>1. IsFiniteSet(0..n)
  BY FS_Interval
<1>2. FiniteSubsetsOf(0..n) = SUBSET (0..n)
  BY <1>1, FS_FiniteSubsetsOfFinite
<1>3. T \subseteq FiniteSubsetsOf(0..n) /\ T # {}
  <2>1. \A x \in S : From(x) \subseteq 0..n
    OBVIOUS
  <2> HIDE DEF From
  <2>2. T \subseteq SUBSET (0..n)
    BY <2>1
  <2>3. T # {}
    OBVIOUS
  <2> QED
    BY <1>2, <2>2, <2>3
<1>4. PICK t \in T : \A u \in T : ~(<<u, t>> \in StrictSubsetOrdering(0..n))
  BY <1>3, FS_StrictSubsetOrderingWellFounded, WFMin
<1>5. PICK x \in S : t = From(x)
  BY <1>4
<1>6. \A y \in S : y <= x
  <2> SUFFICES ASSUME NEW y \in S, ~(y <= x) PROVE FALSE
    OBVIOUS
  <2>1. x \in 0..n /\ y \in 0..n
    OBVIOUS
  <2>2. From(y) \subseteq From(x) /\ From(y) # From(x) /\ From(x) \subseteq 0..n /\ From(y) \subseteq 0..n
    BY <2>1
  <2>3. <<From(y), From(x)>> \in StrictSubsetOrdering(0..n)
    BY <2>2 DEF StrictSubsetOrdering
  <2> QED
    BY <1>4, <1>5, <2>3
<1> QED
  BY <1>6 DEF Max

\* What was written stays written.
LEMMA WrittenBefore ==
  ASSUME NEW t \in Nat, NEW u \in Nat, t <= u
  PROVE  WrittenBy(t) \subseteq WrittenBy(u) /\ EventsBy(t) \subseteq EventsBy(u) /\ RunsBy(t) \subseteq RunsBy(u)
<1>1. 0..t \subseteq 0..u
  OBVIOUS
<1>2. WrittenBy(t) \subseteq WrittenBy(u) /\ EventsBy(t) \subseteq EventsBy(u)
  BY <1>1 DEF WrittenBy, EventsBy
<1> QED
  BY <1>1, <1>2 DEF RunsBy

\* A run that starts, and none.
LEMMA FreshRuns ==
  ASSUME NEW t \in Nat
  PROVE  /\ None \in EventsBy(t) /\ NoBrief \in WrittenBy(t) /\ Idle \in RunsBy(t)
         /\ Idle.stage = "idle" /\ Idle.phase = "none"
         /\ \A event \in EventsBy(t) :
              /\ Started(event) \in RunsBy(t)
              /\ Started(event).stage = "snapshot" /\ Started(event).phase = "none"
<1>1. None \in EventsBy(t) /\ NoBrief \in WrittenBy(t)
  BY DEF None, NoBrief, EventsBy, WrittenBy
<1>2. Idle \in RunsBy(t)
  BY <1>1 DEF Idle, RunsBy
<1> QED
  BY <1>1, <1>2 DEF Started, Idle, RunsBy

\* A run that is over leaves its group to the one that waited; the other group's goes on.
LEMMA RunsOver ==
  ASSUME BriefsTypes, NEW g \in Groups, Over(g)
  PROVE  /\ doing' \in [Groups -> RunsBy(now)] /\ awaits' \in [Groups -> EventsBy(now)]
         /\ doing'[g].stage \in {"idle", "snapshot"} /\ doing'[g].phase = "none"
         /\ \A h \in Groups \ {g} : doing'[h] = doing[h]
<1>1. now \in Nat /\ doing \in [Groups -> RunsBy(now)] /\ awaits \in [Groups -> EventsBy(now)]
  BY DEF BriefsTypes
<1>2. None \in EventsBy(now) /\ Idle \in RunsBy(now) /\ Idle.stage = "idle" /\ Idle.phase = "none"
  BY <1>1, FreshRuns
<1> DEFINE next == IF awaits[g] = None THEN Idle ELSE Started(awaits[g])
<1>3. next \in RunsBy(now) /\ next.stage \in {"idle", "snapshot"} /\ next.phase = "none"
  BY <1>1, <1>2, FreshRuns
<1>4. doing' = [doing EXCEPT ![g] = next] /\ awaits' = [awaits EXCEPT ![g] = None]
  BY DEF Over
<1> HIDE DEF next
<1> QED
  BY <1>1, <1>2, <1>3, <1>4

\* An event that is queued starts a run, or waits; the run it finds under way goes on, or is published as
\* failed.
LEMMA RunsQueued ==
  ASSUME BriefsTypes, NEW t \in Nat, now <= t, NEW g \in Groups, NEW event \in EventsBy(t), Queued(g, event)
  PROVE  /\ doing' \in [Groups -> RunsBy(t)] /\ awaits' \in [Groups -> EventsBy(t)]
         /\ \A h \in Groups :
              /\ doing'[h].phase \in {doing[h].phase, "none"}
              /\ doing[h].stage \in {"agents", "publish", "post", "label"} =>
                   doing'[h].stage \in {"agents", "publish", "post", "label"}
<1>1. doing \in [Groups -> RunsBy(t)] /\ awaits \in [Groups -> EventsBy(t)]
  BY WrittenBefore DEF BriefsTypes
<1>2. CASE doing' = [doing EXCEPT ![g] = Started(event)] /\ UNCHANGED awaits
           /\ (doing[g].stage = "idle" \/ doing[g].stage \in {"snapshot", "mark"})
  <2>1. Started(event) \in RunsBy(t) /\ Started(event).phase = "none"
    BY FreshRuns
  <2> QED
    BY <1>1, <1>2, <2>1
<1>3. CASE awaits' = [awaits EXCEPT ![g] = event] /\ UNCHANGED doing
  BY <1>1, <1>3
<1>4. CASE awaits' = [awaits EXCEPT ![g] = event]
           /\ doing' = [doing EXCEPT ![g].stage = "publish", ![g].outcome = "failed"]
  <2> DEFINE next == [doing[g] EXCEPT !.stage = "publish", !.outcome = "failed"]
  <2>1. next \in RunsBy(t) /\ next.phase = doing[g].phase /\ next.stage = "publish"
    BY <1>1 DEF RunsBy
  <2>2. doing' = [doing EXCEPT ![g] = next]
    BY <1>1, <1>4 DEF RunsBy
  <2> HIDE DEF next
  <2> QED
    BY <1>1, <1>4, <2>1, <2>2
<1> QED
  BY <1>2, <1>3, <1>4 DEF Queued

\* The conversation starts with nothing said.
LEMMA BriefsStart == BriefsInit => BriefsInv
<1> SUFFICES ASSUME BriefsInit PROVE BriefsInv
  OBVIOUS
<1>1. Idle \in RunsBy(0) /\ None \in EventsBy(0)
  BY FreshRuns
<1> QED
  <2>1. BriefsTypes
    <3>1. /\ now = 0 /\ said = 0 /\ edited = 0 /\ noticed = 0 /\ failures = 0 /\ prs = 0 /\ left = FALSE
          /\ briefs = <<>> /\ doing = [g \in Groups |-> Idle] /\ awaits = [g \in Groups |-> None]
      BY DEF BriefsInit
    <3>2. doing \in [Groups -> RunsBy(0)] /\ awaits \in [Groups -> EventsBy(0)]
      BY <1>1, <3>1
    <3>3. briefs \in Seq(WrittenBy(0))
      BY <3>1
    <3>4. /\ doing \in [Groups -> RunsBy(now)] /\ awaits \in [Groups -> EventsBy(now)]
          /\ briefs \in Seq(WrittenBy(now))
      BY <3>1, <3>2, <3>3
    <3>5. now \in Nat /\ said \in 0..now /\ edited \in 0..now /\ noticed \in 0..now
      BY <3>1
    <3>6. failures \in Nat /\ prs \in Nat /\ left \in BOOLEAN
      BY <3>1
    <3> QED
      BY <3>4, <3>5, <3>6 DEF BriefsTypes
  <2>2. MarkedByRun
    BY DEF BriefsInit, MarkedByRun
  <2> QED
    BY <2>1, <2>2 DEF BriefsInv

\* The steps of a run, and its end, in the state of one group.
LEMMA StepTyped ==
  ASSUME BriefsTypes, NEW g \in Groups, NEW next \in RunsBy(now), Step(g, next)
  PROVE  /\ doing' \in [Groups -> RunsBy(now)] /\ awaits' \in [Groups -> EventsBy(now)]
         /\ doing'[g] = next /\ \A h \in Groups \ {g} : doing'[h] = doing[h]
BY DEF BriefsTypes, Step

\* The conversation's steps keep the types and the mark, and a run starts to build in one of them only.
LEMMA BriefsStep ==
  ASSUME BriefsInv, [BriefsNext]_briefsVars
  PROVE  /\ BriefsInv'
         /\ \A g \in Groups : doing'[g].phase \in {doing[g].phase, "none"} \/ Snapshot(g)
<1> DEFINE Still == \A g \in Groups : doing'[g].phase \in {doing[g].phase, "none"}
<1>1. /\ now \in Nat /\ doing \in [Groups -> RunsBy(now)] /\ awaits \in [Groups -> EventsBy(now)]
      /\ briefs \in Seq(WrittenBy(now)) /\ BriefsTypes /\ MarkedByRun
  BY DEF BriefsInv, BriefsTypes
\* A group's run ends; the mark is off, or a pull request was opened.
<1>2. ASSUME NEW g \in Groups, Over(g), UNCHANGED <<words, left>>,
             briefs' \in Seq(WrittenBy(now)), noticed' \in {noticed, now}, failures' \in Nat, prs' \in Nat, prs' >= prs,
             \/ "working" \notin labels' \/ prs' > 0
             \/ labels' = labels /\ doing[g].stage \notin {"agents", "publish", "post", "label"}
      PROVE  BriefsInv' /\ Still
  <2>1. /\ doing' \in [Groups -> RunsBy(now)] /\ awaits' \in [Groups -> EventsBy(now)]
        /\ doing'[g].phase = "none" /\ \A h \in Groups \ {g} : doing'[h] = doing[h]
    BY <1>1, <1>2, RunsOver
  <2>2. BriefsTypes'
    BY <1>1, <1>2, <2>1 DEF BriefsTypes, words
  <2>3. MarkedByRun'
    BY <1>1, <1>2, <2>1 DEF MarkedByRun, BriefsTypes
  <2>4. Still
    BY <2>1
  <2> QED
    BY <2>2, <2>3, <2>4 DEF BriefsInv
\* A group's run goes on, at work if it was.
<1>3. ASSUME NEW g \in Groups, NEW next \in RunsBy(now), Step(g, next), UNCHANGED <<words, notices, prs, left>>,
             briefs' \in Seq(WrittenBy(now)),
             \/ next.stage \in {"agents", "publish", "post", "label"}
             \/ labels' = labels /\ doing[g].stage \notin {"agents", "publish", "post", "label"}
      PROVE  BriefsInv' /\ (next.phase = doing[g].phase => Still)
  <2>1. /\ doing' \in [Groups -> RunsBy(now)] /\ awaits' \in [Groups -> EventsBy(now)]
        /\ doing'[g] = next /\ \A h \in Groups \ {g} : doing'[h] = doing[h]
    BY <1>1, <1>3, StepTyped
  <2>2. BriefsTypes'
    BY <1>1, <1>3, <2>1 DEF BriefsTypes, words, notices
  <2>3. MarkedByRun'
    BY <1>1, <1>3, <2>1 DEF MarkedByRun
  <2>4. next.phase = doing[g].phase => Still
    BY <2>1
  <2> QED
    BY <2>2, <2>3, <2>4 DEF BriefsInv
\* Somebody does something.
<1>4. ASSUME NEW t \in Nat, now' = t, t \in {now, now + 1}, said' \in {said, t}, edited' \in {edited, t},
             briefs' \in Seq(WrittenBy(t)), noticed' = noticed, failures' \in Nat, prs' \in Nat, left' \in BOOLEAN,
             "working" \in labels' => "working" \in labels /\ (left \/ prs > 0 => left' \/ prs' > 0),
             \/ UNCHANGED <<doing, awaits>>
             \/ \E g \in Groups, event \in EventsBy(t) : Queued(g, event)
      PROVE  BriefsInv' /\ Still
  <2>1. now <= t
    BY <1>1, <1>4
  <2>2. /\ doing' \in [Groups -> RunsBy(t)] /\ awaits' \in [Groups -> EventsBy(t)]
        /\ \A h \in Groups :
             /\ doing'[h].phase \in {doing[h].phase, "none"}
             /\ doing[h].stage \in {"agents", "publish", "post", "label"} =>
                  doing'[h].stage \in {"agents", "publish", "post", "label"}
    <3>1. CASE UNCHANGED <<doing, awaits>>
      BY <1>1, <2>1, <3>1, WrittenBefore
    <3>2. CASE \E g \in Groups, event \in EventsBy(t) : Queued(g, event)
      BY <1>1, <2>1, <3>2, RunsQueued
    <3> QED
      BY <1>4, <3>1, <3>2
  <2>3. BriefsTypes'
    BY <1>1, <1>4, <2>1, <2>2 DEF BriefsTypes
  <2>4. MarkedByRun'
    BY <1>1, <1>4, <2>2 DEF MarkedByRun
  <2> QED
    BY <2>2, <2>3, <2>4 DEF BriefsInv
\* The latest brief marked as answered.
<1>5. \A t \in 0..now :
        [briefs EXCEPT ![Versions].replied = Max({@, t})] \in Seq(WrittenBy(now))
  <2> TAKE t \in 0..now
  <2>1. CASE Versions \in 1..Len(briefs)
    <3> DEFINE replied == Max({briefs[Versions].replied, t})
    <3>1. briefs[Versions] \in WrittenBy(now)
      BY <1>1, <2>1
    <3>2. replied \in 0..now
      <4>1. briefs[Versions].replied \in Int /\ t \in Int
        BY <1>1, <3>1 DEF WrittenBy
      <4>2. replied \in {briefs[Versions].replied, t}
        BY <4>1, MaxOfTwo, Zenon
      <4> QED
        BY <3>1, <4>2 DEF WrittenBy
    <3> HIDE DEF replied
    <3>3. [briefs[Versions] EXCEPT !.replied = replied] \in WrittenBy(now)
      BY <3>1, <3>2 DEF WrittenBy
    <3>4. [briefs EXCEPT ![Versions].replied = Max({@, t})]
            = [briefs EXCEPT ![Versions] = [briefs[Versions] EXCEPT !.replied = replied]]
      BY <1>1, <2>1 DEF replied
    <3>5. \A b \in WrittenBy(now) : [briefs EXCEPT ![Versions] = b] \in Seq(WrittenBy(now))
      BY <1>1, <2>1
    <3> QED
      BY <3>3, <3>4, <3>5, Zenon
  <2>2. CASE Versions \notin 1..Len(briefs)
    <3>1. [briefs EXCEPT ![Versions].replied = Max({@, t})] = briefs
      BY <1>1, <2>2
    <3> QED
      BY <1>1, <3>1
  <2> QED
    BY <2>1, <2>2
<1>6. \A g \in Groups : doing[g] \in RunsBy(now) /\ doing[g].asOf \in 0..now /\ doing[g].event.at \in 0..now
  BY <1>1 DEF RunsBy, EventsBy
<1>7. ASSUME NEW g \in Groups, Snapshot(g) PROVE BriefsInv' /\ \A h \in Groups \ {g} : doing'[h] = doing[h]
  <2> DEFINE event == doing[g].event
             phase == PlanRun(event)
             asOf == IF event.kind = "comment" THEN now ELSE event.at
             from == IF HasLatest /\ ~StartsOver(event) /\ phase \in {"brief", "build"} THEN Latest ELSE NoBrief
             next == [doing[g] EXCEPT !.stage = "mark", !.phase = phase, !.asOf = asOf, !.from = from]
  <2>1. phase \in {"none", "skip", "quiet", "build", "brief"}
    BY DEF PlanRun
  <2>2. asOf \in 0..now
    BY <1>1, <1>6
  <2>3. from \in WrittenBy(now)
    BY <1>1, FreshRuns DEF HasLatest, Versions, Latest
  <2>4. Step(g, next) /\ doing[g].stage = "snapshot" /\ UNCHANGED <<words, labels, briefs, notices, prs, left>>
    BY <1>7 DEF Snapshot
  <2>5. next \in RunsBy(now)
    <3> HIDE DEF phase, asOf, from
    <3> QED
      BY <1>6, <2>1, <2>2, <2>3 DEF RunsBy
  <2> HIDE DEF next
  <2> QED
    BY <1>1, <1>3, <2>4, <2>5, StepTyped
<1>8. ASSUME NEW g \in Groups, Mark(g) PROVE BriefsInv' /\ Still
  <2>1. CASE /\ doing[g].phase \in {"skip", "quiet"} /\ noticed' \in {noticed, now}
             /\ Over(g) /\ UNCHANGED labels
    <3>1. doing[g].stage = "mark" /\ UNCHANGED <<words, briefs, failures, prs, left>>
      BY <1>8 DEF Mark
    <3> QED
      BY <1>1, <1>2, <2>1, <3>1 DEF BriefsTypes
  <2>2. CASE Step(g, [doing[g] EXCEPT !.stage = "agents"]) /\ UNCHANGED noticed
    <3> DEFINE next == [doing[g] EXCEPT !.stage = "agents"]
    <3>1. next \in RunsBy(now) /\ next.stage = "agents" /\ next.phase = doing[g].phase
      BY <1>6 DEF RunsBy
    <3>2. UNCHANGED <<words, briefs, notices, prs, left>>
      BY <1>8, <2>2 DEF Mark, notices
    <3> HIDE DEF next
    <3> QED
      BY <1>1, <1>3, <2>2, <3>1, <3>2 DEF next
  <2> QED
    BY <1>8, <2>1, <2>2 DEF Mark
<1>9. ASSUME NEW g \in Groups, Agents(g) PROVE BriefsInv' /\ Still
  <2>1. PICK outcome_ \in {"pr", "nopr", "challenged", "failed", "revised", "kept", "blocked"} :
          Step(g, [doing[g] EXCEPT !.stage = "publish", !.outcome = outcome_])
    BY <1>9 DEF Agents
  <2> DEFINE next == [doing[g] EXCEPT !.stage = "publish", !.outcome = outcome_]
  <2>2. next \in RunsBy(now) /\ next.stage = "publish" /\ next.phase = doing[g].phase
    BY <1>6 DEF RunsBy
  <2>3. UNCHANGED <<words, labels, briefs, notices, prs, left>>
    BY <1>9 DEF Agents
  <2> HIDE DEF next
  <2> QED
    BY <1>1, <1>3, <2>1, <2>2, <2>3 DEF next
<1>10. ASSUME NEW g \in Groups, PublishFails(g) PROVE BriefsInv' /\ Still
  <2>1. Over(g) /\ UNCHANGED <<words, briefs, noticed, left>> /\ "working" \notin labels'
    BY <1>10 DEF PublishFails, Reports, NotWorking
  <2>2. failures' \in Nat
    <3>1. failures + 1 \in Int /\ 2 \in Int /\ failures \in Nat
      BY <1>1 DEF BriefsTypes
    <3>2. Min({failures + 1, 2}) \in {failures + 1, 2}
      BY <3>1, MinOfTwo, Zenon
    <3> QED
      BY <1>10, <3>1, <3>2 DEF PublishFails, Reports
  <2>3. prs' \in Nat /\ prs' >= prs
    BY <1>1, <1>10 DEF PublishFails, BriefsTypes
  <2> QED
    BY <1>1, <1>2, <2>1, <2>2, <2>3
<1>11. ASSUME NEW g \in Groups, PublishBlocked(g) \/ LabelBrief(g) PROVE BriefsInv' /\ Still
  <2>1. /\ Over(g) /\ UNCHANGED <<words, briefs, failures, prs, left>> /\ "working" \notin labels'
        /\ noticed' \in {noticed, now}
    BY <1>11 DEF PublishBlocked, LabelBrief, notices
  <2> QED
    BY <1>1, <1>2, <2>1 DEF BriefsTypes
<1>12. ASSUME NEW g \in Groups, PublishReply(g) \/ PublishChallenge(g) PROVE BriefsInv' /\ Still
  <2>1. /\ Over(g) /\ UNCHANGED <<words, noticed, failures, prs, left>> /\ "working" \notin labels'
        /\ briefs' = [briefs EXCEPT ![Versions].replied = Max({@, doing[g].asOf})]
    BY <1>12 DEF PublishReply, PublishChallenge, notices
  <2>2. briefs' \in Seq(WrittenBy(now))
    BY <1>5, <1>6, <2>1
  <2> QED
    BY <1>1, <1>2, <2>1, <2>2 DEF BriefsTypes
<1>13. ASSUME NEW g \in Groups, PublishBrief(g) PROVE BriefsInv' /\ Still
  <2> DEFINE start == IF StartsOver(doing[g].event) \/ ~HasLatest THEN Versions + 1 ELSE Latest.start
             from == [start |-> start, read |-> doing[g].asOf, posted |-> 0, replied |-> 0, sealed |-> TRUE]
             next == [doing[g] EXCEPT !.stage = "post", !.from = from]
  <2>1. Step(g, next) /\ UNCHANGED <<words, labels, briefs, notices, prs, left>>
    BY <1>13 DEF PublishBrief
  <2>2. start \in Nat
    <3>1. Versions \in Nat /\ (HasLatest => Latest \in WrittenBy(now))
      BY <1>1 DEF Versions, HasLatest, Latest
    <3> QED
      BY <3>1 DEF WrittenBy
  <2> HIDE DEF start
  <2>3. from \in WrittenBy(now)
    BY <1>1, <1>6, <2>2 DEF WrittenBy
  <2> HIDE DEF from
  <2>4. next \in RunsBy(now) /\ next.stage = "post" /\ next.phase = doing[g].phase
    BY <1>6, <2>3 DEF RunsBy
  <2> HIDE DEF next
  <2> QED
    BY <1>1, <1>3, <2>1, <2>4
<1>14. ASSUME NEW g \in Groups, PostBrief(g) PROVE BriefsInv' /\ Still
  <2> DEFINE posted == [doing[g].from EXCEPT !.posted = now]
             next == [doing[g] EXCEPT !.stage = "label"]
  <2>1. Step(g, next) /\ briefs' = Append(briefs, posted) /\ UNCHANGED <<words, labels, notices, prs, left>>
    BY <1>14 DEF PostBrief
  <2>2. next \in RunsBy(now) /\ next.stage = "label" /\ next.phase = doing[g].phase /\ doing[g].from \in WrittenBy(now)
    BY <1>6 DEF RunsBy
  <2>3. posted \in WrittenBy(now)
    <3>1. now \in 0..now
      BY <1>1
    <3> QED
      BY <2>2, <3>1 DEF WrittenBy
  <2> HIDE DEF posted, next
  <2>4. briefs' \in Seq(WrittenBy(now))
    BY <1>1, <2>1, <2>3
  <2> QED
    BY <1>1, <1>3, <2>1, <2>2, <2>4
<1>15. ASSUME NEW g \in Groups, PublishRun(g) PROVE BriefsInv' /\ Still
  <2>1. Over(g) /\ UNCHANGED <<words, briefs, failures, left>> /\ noticed' = now
    BY <1>15 DEF PublishRun
  <2>2. prs' \in Nat /\ prs' >= prs /\ ("working" \notin labels' \/ prs' > 0)
    <3>1. CASE doing[g].outcome = "pr"
      BY <1>1, <1>15, <3>1 DEF PublishRun, BriefsTypes
    <3>2. CASE doing[g].outcome # "pr"
      <4>1. prs' = prs /\ labels' = labels \ {"working"}
        BY <1>15, <3>2 DEF PublishRun
      <4> QED
        BY <1>1, <4>1 DEF BriefsTypes
    <3> QED
      BY <3>1, <3>2
  <2> QED
    BY <1>1, <1>2, <2>1, <2>2 DEF BriefsTypes
<1>16. now + 1 \in Nat /\ WrittenBy(now) \subseteq WrittenBy(now + 1) /\ Seq(WrittenBy(now)) \subseteq Seq(WrittenBy(now + 1))
  <2>1. now + 1 \in Nat /\ WrittenBy(now) \subseteq WrittenBy(now + 1)
    BY <1>1, WrittenBefore
  <2> QED
    BY <2>1
<1>17. CASE PersonSays
  <2>1. PICK t \in Nat : t = now + 1
    BY <1>16
  <2>2. /\ now' = t /\ said' = t /\ failures' = 0 /\ UNCHANGED <<edited, labels, briefs, noticed, prs, left>>
        /\ Queued("talk", [kind |-> "comment", at |-> 0]) \/ UNCHANGED <<doing, awaits>>
    BY <1>17, <2>1 DEF PersonSays, Act
  <2>3. [kind |-> "comment", at |-> 0] \in EventsBy(t) /\ "talk" \in Groups
    BY <2>1 DEF EventsBy, Groups
  <2>4. \/ UNCHANGED <<doing, awaits>>
        \/ \E g \in Groups, event \in EventsBy(t) : Queued(g, event)
    BY <2>2, <2>3
  <2> QED
    BY <1>1, <1>4, <1>16, <2>1, <2>2, <2>4 DEF BriefsTypes
<1>18. CASE PersonRewrites
  <2>1. PICK t \in Nat : t = now + 1
    BY <1>16
  <2>2. /\ now' = t /\ edited' \in {edited, t} /\ UNCHANGED <<said, labels, noticed, failures, prs, left, doing, awaits>>
        /\ briefs' = briefs \/ (HasLatest /\ briefs' = [briefs EXCEPT ![Versions].sealed = FALSE])
    BY <1>18, <2>1 DEF PersonRewrites, Act, notices
  <2>3. briefs' \in Seq(WrittenBy(now))
    <3>1. CASE HasLatest /\ briefs' = [briefs EXCEPT ![Versions].sealed = FALSE]
      <4>1. Versions \in 1..Len(briefs) /\ briefs[Versions] \in WrittenBy(now)
        BY <1>1, <3>1 DEF HasLatest, Versions
      <4>2. [briefs[Versions] EXCEPT !.sealed = FALSE] \in WrittenBy(now)
        BY <4>1 DEF WrittenBy
      <4>3. briefs' = [briefs EXCEPT ![Versions] = [briefs[Versions] EXCEPT !.sealed = FALSE]]
        BY <1>1, <3>1, <4>1
      <4> QED
        BY <1>1, <4>1, <4>2, <4>3
    <3> QED
      BY <1>1, <2>2, <3>1
  <2> QED
    BY <1>1, <1>4, <1>16, <2>1, <2>2, <2>3 DEF BriefsTypes
<1>19. ASSUME NEW label \in {"agent", "approved"}, PersonAdds(label) \/ PersonRemoves(label) PROVE BriefsInv' /\ Still
  <2>1. PICK t \in Nat : t = now + 1
    BY <1>16
  <2>2. /\ now' = t /\ UNCHANGED <<said, edited, briefs, noticed, failures, prs, left>>
        /\ "working" \in labels' => "working" \in labels
        /\ UNCHANGED <<doing, awaits>> \/ Queued("main", [kind |-> label, at |-> t])
    BY <1>19, <2>1 DEF PersonAdds, PersonRemoves, Act, notices
  <2>3. [kind |-> label, at |-> t] \in EventsBy(t) /\ "main" \in Groups
    BY <2>1 DEF EventsBy, Groups
  <2>4. \/ UNCHANGED <<doing, awaits>>
        \/ \E g \in Groups, event \in EventsBy(t) : Queued(g, event)
    BY <2>2, <2>3
  <2> QED
    BY <1>1, <1>4, <1>16, <2>1, <2>2, <2>4 DEF BriefsTypes
<1>20. CASE PersonClosesPr
  <2>1. PICK t \in Nat : t = now + 1
    BY <1>16
  <2>2. /\ now' = t /\ UNCHANGED <<said, edited, labels, briefs, noticed, failures, doing, awaits>>
        /\ prs > 0 /\ prs' = prs - 1 /\ left' = (left \/ "working" \in labels)
    BY <1>20, <2>1 DEF PersonClosesPr, Act, notices
  <2>3. prs' \in Nat
    BY <1>1, <2>2 DEF BriefsTypes
  <2>4. left' \in BOOLEAN
    BY <2>2, Zenon
  <2>5. "working" \in labels => left'
    BY <2>2, Zenon
  <2> QED
    BY <1>1, <1>4, <1>16, <2>1, <2>2, <2>3, <2>4, <2>5 DEF BriefsTypes
<1>21. CASE SweepBriefs
  <2>1. /\ Queued("talk", [kind |-> "comment", at |-> 0])
        /\ UNCHANGED <<now, said, edited, labels, briefs, noticed, failures, prs, left>>
    BY <1>21 DEF SweepBriefs, words, notices
  <2>2. PICK t \in Nat : t = now
    BY <1>1
  <2>3. [kind |-> "comment", at |-> 0] \in EventsBy(t) /\ "talk" \in Groups
    BY <2>2 DEF EventsBy, Groups
  <2>4. \E g \in Groups, event \in EventsBy(t) : Queued(g, event)
    BY <2>1, <2>3
  <2> QED
    BY <1>1, <1>4, <2>1, <2>2, <2>4 DEF BriefsTypes
<1>22. CASE LoopHandsOver \/ UNCHANGED briefsVars
  <2>1. /\ UNCHANGED <<now, said, edited, briefs, noticed, failures, prs, left, doing, awaits>>
        /\ "working" \in labels' => "working" \in labels
    BY <1>22 DEF LoopHandsOver, NotWorking, briefsVars, words, notices
  <2>2. PICK t \in Nat : t = now
    BY <1>1
  <2> QED
    BY <1>1, <1>4, <2>1, <2>2 DEF BriefsTypes
<1>23. CASE \E g \in Groups : Snapshot(g)
  <2>1. PICK g \in Groups : Snapshot(g)
    BY <1>23
  <2> QED
    BY <1>7, <2>1
<1>24. CASE \E g \in Groups : \/ Mark(g) \/ Agents(g) \/ PublishFails(g) \/ PublishBlocked(g) \/ PublishReply(g)
                             \/ PublishBrief(g) \/ PostBrief(g) \/ LabelBrief(g) \/ PublishRun(g) \/ PublishChallenge(g)
  BY <1>8, <1>9, <1>10, <1>11, <1>12, <1>13, <1>14, <1>15, <1>24
<1>25. CASE \/ PersonSays \/ PersonRewrites \/ PersonClosesPr \/ SweepBriefs \/ LoopHandsOver
            \/ \E label \in {"agent", "approved"} : PersonAdds(label) \/ PersonRemoves(label)
            \/ UNCHANGED briefsVars
  BY <1>17, <1>18, <1>19, <1>20, <1>21, <1>22, <1>25
<1> QED
  BY <1>23, <1>24, <1>25 DEF BriefsNext

\* In every state of the conversation, an issue marked as worked on has a run that will take the mark off,
\* or a pull request (setStatus in run.mjs).
THEOREM BriefsInvariant == BriefsSpec => []BriefsInv
BY BriefsStart, BriefsStep, PTL DEF BriefsSpec

\* No maintainer's comment is lost, however many there are, whichever events are lost and runs cancelled: with
\* no run under way the sweep takes up the one nobody has answered, or the pipeline has said why it does not
\* (sweepWanted and setStatus in run.mjs).
THEOREM AlwaysCommentsSettled == BriefsSpec => []CommentsSettled
<1>1. BriefsInv => CommentsSettled
  <2> SUFFICES ASSUME BriefsInv, Quiet, Unanswered, ~(noticed >= said \/ failures >= 2 \/ Round >= MaxBriefs),
                      ~(prs > 0 \/ left)
               PROVE  "working" \notin labels /\ SweepWanted
    BY DEF CommentsSettled
  <2>1. \A g \in Groups : doing[g].stage = "idle"
    BY DEF Quiet, Idle
  <2>2. "working" \notin labels
    BY <2>1 DEF BriefsInv, MarkedByRun
  <2>3. Round \in Int
    <3>1. Versions \in Nat /\ (HasLatest => Latest \in WrittenBy(now))
      BY DEF BriefsInv, BriefsTypes, Versions, HasLatest, Latest
    <3> QED
      BY <3>1 DEF Round, WrittenBy
  <2>4. noticed < said /\ failures < 2 /\ Round < MaxBriefs
    BY <2>3, BriefsAssumption DEF BriefsInv, BriefsTypes
  <2> QED
    BY <2>2, <2>4 DEF SweepWanted
<1> QED
  BY <1>1, BriefsInvariant, PTL

\* An issue is built from a brief whose agents, or an earlier version's, had read everything a maintainer said
\* about it, for any number of versions, comments and edits by hand (approvalRefusal and answeredAt in run.mjs
\* and brief.mjs).
THEOREM AlwaysBuiltAsSpoken == BriefsSpec => BuiltAsSpoken
<1>1. ASSUME BriefsInv, [BriefsNext]_briefsVars, doing["main"].phase # "build", doing'["main"].phase = "build"
      PROVE  LET from == doing'["main"].from IN
             \/ said <= Max({from.read, from.replied})
             \/ \E i \in 1..(Versions - 1) :
                  LET brief == briefs[i] IN
                  said <= Max({IF brief.sealed THEN brief.read ELSE brief.posted, brief.replied})
  <2>1. now \in Nat /\ said \in 0..now /\ briefs \in Seq(WrittenBy(now)) /\ doing["main"] \in RunsBy(now)
    BY <1>1 DEF BriefsInv, BriefsTypes, Groups
  <2>2. Snapshot("main")
    BY <1>1, BriefsStep DEF Groups
  <2> DEFINE event == doing["main"].event
             phase == PlanRun(event)
             asOf == IF event.kind = "comment" THEN now ELSE event.at
             from == IF HasLatest /\ ~StartsOver(event) /\ phase \in {"brief", "build"} THEN Latest ELSE NoBrief
             next == [doing["main"] EXCEPT !.stage = "mark", !.phase = phase, !.asOf = asOf, !.from = from]
  <2>3. doing'["main"] = next
    BY <1>1, <2>2 DEF Snapshot, Step, BriefsInv, BriefsTypes, Groups
  <2>4. next.phase = phase /\ next.from = from
    <3> HIDE DEF phase, asOf, from
    <3> QED
      BY <2>1 DEF RunsBy
  <2>5. event.kind = "approved" /\ Approvable
    <3>1. PlanRun(event) = "build"
      BY <1>1, <2>3, <2>4
    <3> QED
      BY <3>1 DEF PlanRun
  <2>6. doing'["main"].from = Latest /\ HasLatest /\ ~Unanswered
    BY <1>1, <2>3, <2>4, <2>5 DEF Approvable, StartsOver
  <2>7. Versions \in Nat \ {0} /\ \A i \in 1..Versions : briefs[i] \in WrittenBy(now)
    BY <2>1, <2>6 DEF Versions, HasLatest
  <2> DEFINE Counts(brief) == Max({IF brief.sealed THEN brief.read ELSE brief.posted, brief.replied})
  <2>8. \A i \in 1..Versions : AnsweredAt(briefs[i]) = Counts(briefs[i]) /\ Counts(briefs[i]) \in 0..now
    <3> TAKE i \in 1..Versions
    <3> DEFINE first == IF briefs[i].sealed THEN briefs[i].read ELSE briefs[i].posted
    <3>1. first \in 0..now /\ briefs[i].replied \in 0..now
      BY <2>7 DEF WrittenBy
    <3>2. Max({first, briefs[i].replied}) \in {first, briefs[i].replied}
      <4>1. first \in Int /\ briefs[i].replied \in Int
        BY <2>1, <3>1
      <4> HIDE DEF first
      <4> QED
        BY <4>1, MaxOfTwo
    <3> QED
      BY <3>1, <3>2 DEF AnsweredAt
  <2> HIDE DEF Counts
  <2>9. PICK answered \in {0} \cup {AnsweredAt(briefs[i]) : i \in 1..Versions} : said <= answered
    <3> DEFINE all == {0} \cup {AnsweredAt(briefs[i]) : i \in 1..Versions}
    <3>1. all \subseteq 0..now /\ all # {}
      BY <2>1, <2>8
    <3>2. Max(all) \in all /\ Max(all) \in 0..now
      BY <2>1, <3>1, GreatestOf
    <3>3. LastOurs = Max(all)
      BY DEF LastOurs
    <3> HIDE DEF all
    <3>4. said <= Max(all)
      BY <2>1, <2>6, <2>7, <3>2, <3>3 DEF Unanswered
    <3> QED
      BY <3>2, <3>4 DEF all
  <2>10. Counts(Latest) = Max({Latest.read, Latest.replied}) /\ Latest = briefs[Versions] /\ Counts(Latest) \in 0..now
    BY <2>6, <2>7, <2>8 DEF Counts, Latest, HasLatest
  <2>11. CASE answered = 0
    <3>1. said <= Counts(Latest)
      BY <2>1, <2>9, <2>10, <2>11
    <3> QED
      BY <2>6, <2>10, <3>1
  <2>12. ASSUME NEW i \in 1..Versions, answered = AnsweredAt(briefs[i])
         PROVE  said <= Counts(Latest) \/ \E k \in 1..(Versions - 1) : said <= Counts(briefs[k])
    <3>1. said <= Counts(briefs[i])
      BY <2>8, <2>9, <2>12
    <3>2. i = Versions \/ i \in 1..(Versions - 1)
      BY <2>7
    <3> QED
      BY <2>10, <3>1, <3>2
  <2> QED
    BY <2>6, <2>9, <2>10, <2>11, <2>12 DEF Counts
<1> QED
  BY <1>1, BriefsInvariant, PTL DEF BriefsSpec, BuiltAsSpoken
=============================================================================
