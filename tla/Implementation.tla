--------------------------- MODULE Implementation ---------------------------
(***************************************************************************)
(* How the issue agent builds an issue (ci/issue-agent/run.mjs, iterate,   *)
(* finishImplement and publishRun; checks.mjs): an agent changes a working *)
(* tree, the pipeline runs the gates on it and the root tests last, three  *)
(* reviewers read it at the same time, and after a few rounds the change   *)
(* is published as a pull request that is ready, or needs a human.         *)
(*                                                                         *)
(*   implement -> gates -> mutation -> root -> review -> settle            *)
(*       ^___________________________|__________________|   -> finish ->   *)
(*                                                 evidence -> publish     *)
(*                                                                         *)
(* A tree stands for the patch `git diff` takes of it; 0 is the tree of    *)
(* main.  What agents answer, whether a test passes and what the test runs *)
(* write is left open; what they write before the root tests is as if the  *)
(* implementer had.  Money is in whole units, rounded down.                *)
(***************************************************************************)
EXTENDS Integers, FiniteSets, FiniteSetsExt

CONSTANTS
  MaxRounds,   \* MAX_ROUNDS
  MaxFixes,    \* MAX_FIXES
  AgentBudget, \* AGENT_BUDGET_USD
  RunBudget,   \* RUN_BUDGET_USD
  Lenses       \* the reviewers

ASSUME ImplementationAssumption ==
  /\ {MaxRounds, AgentBudget, RunBudget} \subseteq Nat \ {0}
  /\ MaxFixes \in Nat
  /\ IsFiniteSet(Lenses) /\ Lenses # {}

VARIABLES
  tree,      \* the working tree
  spent,     \* RUN.costUsd
  step,      \* where the run is
  round, attempt,
  current,   \* the record of this round
  last,      \* of the last round recorded
  reviewers, \* by lens
  ready,     \* reviewedPatch
  outcome,   \* what is handed to publish
  pull,      \* the pull request
  proven,    \* trees the root tests passed on
  rewritten, \* trees a passing root run left behind where it had not found them
  cleared    \* trees all the reviewers passed

history == <<proven, rewritten, cleared>>
implVars == <<tree, spent, step, round, attempt, current, last, reviewers, ready, outcome, pull, history>>

NoTree == -1
NoRound == [test |-> "none", ok |-> FALSE, hash |-> NoTree, clean |-> FALSE]
NoReviewer == [status |-> "off", attempt |-> 0, left |-> 0, allowed |-> 0]
NotReported == [status |-> "error", done |-> FALSE, patch |-> 0]
NoPull == [open |-> FALSE, done |-> FALSE, untested |-> FALSE, patch |-> 0]

ImplInit ==
  /\ tree = 0
  /\ spent = 0
  /\ step \in {"spec", "implement"} \* no brief, or an approved one
  /\ round = 1 /\ attempt = 0
  /\ current = NoRound /\ last = NoRound
  /\ reviewers = [l \in Lenses |-> NoReviewer]
  /\ ready = NoTree
  /\ outcome = NotReported
  /\ pull = NoPull
  /\ proven = {} /\ rewritten = {} /\ cleared = {}

-----------------------------------------------------------------------------
(* An agent's call *)

\* What a call may spend; `cap` is the caller's.
Allowed(cap) == Max({0, Min({AgentBudget, RunBudget - spent, cap})})

\* How it ends when it may spend `allowed`: it answered, it failed, or the money ran out.
Calls(allowed) ==
  IF allowed = 0 THEN {[cost |-> 0, ends |-> "spent"]}
  ELSE [cost : 0..allowed, ends : {"answers", "fails"}] \cup {[cost |-> allowed, ends |-> "spent"]}

Call == Calls(Allowed(RunBudget))

\* A tree not seen before: one that nothing recorded is about.
Known == {0, tree, current.hash, last.hash, ready, outcome.patch} \cup proven \cup rewritten \cup cleared
FreshTree == CHOOSE t \in 1..Cardinality(Known) : t \notin Known

\* What writing to the tree may leave.
Written == {tree, FreshTree}

SameTree == UNCHANGED tree
SameReview == UNCHANGED <<reviewers, ready>>
SameRounds == UNCHANGED <<round, attempt, current, last>>
SameEnd == UNCHANGED <<outcome, pull>>

\* The agents' job ends without an outcome.
Throws == step' = "publish" /\ UNCHANGED outcome

-----------------------------------------------------------------------------
(* The spec, the implementer *)

SpecAgent ==
  /\ step = "spec"
  /\ \E call \in Call, actionable \in BOOLEAN :
       /\ spent' = spent + call.cost
       /\ CASE call.ends # "answers" -> Throws
            [] ~actionable -> step' = "publish" /\ outcome' = [outcome EXCEPT !.status = "blocked"]
            [] OTHER -> step' = "implement" /\ UNCHANGED outcome
  /\ SameTree /\ SameRounds /\ SameReview /\ UNCHANGED <<pull, history>>

\* The implementer, and each of its fixes.  One that questions the brief ends the run.
Implement ==
  /\ step = "implement"
  /\ \E call \in Call, new \in Written \cup {0}, challenge \in BOOLEAN :
       /\ spent' = spent + call.cost
       /\ tree' = new
       /\ CASE call.ends = "fails" -> Throws
            [] call.ends = "spent" -> step' = "finish" /\ UNCHANGED outcome
            [] challenge -> step' = "publish" /\ outcome' = [outcome EXCEPT !.status = "challenged"]
            [] OTHER -> step' = "gates" /\ UNCHANGED outcome
  /\ SameRounds /\ SameReview /\ UNCHANGED <<pull, history>>

-----------------------------------------------------------------------------
(* The checks of a round *)

\* The loop's next round, or its end.
NextRound(record) ==
  /\ last' = record /\ current' = NoRound
  /\ IF round < MaxRounds
     THEN step' = "implement" /\ round' = round + 1 /\ attempt' = 0
     ELSE step' = "finish" /\ UNCHANGED <<round, attempt>>

\* A check failed: the implementer fixes it, MaxFixes times a round.
Fails(record) ==
  IF attempt < MaxFixes
  THEN step' = "implement" /\ attempt' = attempt + 1 /\ current' = NoRound /\ UNCHANGED <<round, last>>
  ELSE NextRound(record)

\* The build, the types, the lint, then the tests of what changed.
Gates ==
  /\ step = "gates"
  /\ \/ \E test \in {"none", "fast"} : Fails([NoRound EXCEPT !.test = test])
     \/ /\ step' = "mutation" /\ current' = [NoRound EXCEPT !.test = "fast", !.ok = TRUE]
        /\ UNCHANGED <<round, attempt, last>>
  /\ SameTree /\ SameReview /\ SameEnd /\ UNCHANGED <<spent, history>>

\* mutationCheck: the change is taken back and put back, and its tests run again.
MutationCheck ==
  /\ step = "mutation"
  /\ Fails(current) \/ (step' = "root" /\ SameRounds)
  /\ SameTree /\ SameReview /\ SameEnd /\ UNCHANGED <<spent, history>>

\* The root tests, once the rest passed; the hash is taken when they are over.
RootTests ==
  /\ step = "root"
  /\ \E new \in Written, passes \in BOOLEAN :
       LET record == [NoRound EXCEPT !.test = "root", !.ok = passes, !.hash = new] IN
       /\ tree' = new
       /\ IF passes
          THEN /\ step' = "review" /\ current' = record /\ UNCHANGED <<round, attempt, last>>
               /\ proven' = proven \cup {tree}
               /\ rewritten' = rewritten \cup ({new} \ {tree})
          ELSE Fails(record) /\ UNCHANGED <<proven, rewritten>>
  /\ SameReview /\ SameEnd /\ UNCHANGED <<spent, cleared>>

-----------------------------------------------------------------------------
(* The reviews *)

\* Mutant: each reviewer may spend what is left.
ShareOfEach == Min({AgentBudget, RunBudget - spent})

\* What is left when the round starts, in equal shares.
Share == Min({AgentBudget, (RunBudget - spent) \div Cardinality(Lenses)})

\* All the reviewers start at once, on the tree that was just tested.
StartReviews ==
  /\ step = "review" /\ \A l \in Lenses : reviewers[l].status = "off"
  /\ reviewers' = [l \in Lenses |-> [status |-> "reads", attempt |-> 1, left |-> Share, allowed |-> Allowed(Share)]]
  /\ SameTree /\ SameRounds /\ SameEnd /\ UNCHANGED <<spent, step, ready, history>>

\* A reviewer's call ends; it is made once more if it failed and the reviewer's share allows.
ReviewerEnds(l) ==
  LET me == reviewers[l] IN
  /\ step = "review" /\ me.status = "reads"
  /\ \E call \in Calls(me.allowed), new \in Written :
       LET left == me.left - call.cost
           retried == call.ends = "fails" /\ me.attempt < 2 /\ left > 0
       IN
       /\ spent' = spent + call.cost
       /\ tree' = new
       /\ reviewers' = [reviewers EXCEPT ![l] =
            IF retried
            THEN [status |-> "reads", attempt |-> 2, left |-> left,
                  allowed |-> Max({0, Min({AgentBudget, RunBudget - spent', left})})]
            ELSE [@ EXCEPT !.status = call.ends, !.allowed = 0]]
  /\ SameRounds /\ SameEnd /\ UNCHANGED <<step, ready, history>>

\* The reviewed change is put back, and the verdicts are read.
Settle ==
  LET frozen == current.hash IN
  /\ step = "review" /\ \A l \in Lenses : reviewers[l].status \in {"answers", "fails", "spent"}
  /\ tree' = frozen
  /\ reviewers' = [l \in Lenses |-> NoReviewer]
  /\ IF \A l \in Lenses : reviewers[l].status = "answers"
     THEN \/ /\ step' = "finish" /\ last' = [current EXCEPT !.clean = TRUE] /\ current' = NoRound
             /\ ready' = frozen /\ cleared' = cleared \cup {frozen}
             /\ UNCHANGED <<round, attempt>>
          \/ NextRound(current) /\ UNCHANGED <<ready, cleared>>
     ELSE /\ step' = "finish" /\ last' = current /\ current' = NoRound
          /\ UNCHANGED <<round, attempt, ready, cleared>>
  /\ SameEnd /\ UNCHANGED <<spent, proven, rewritten>>

-----------------------------------------------------------------------------
(* The report *)

\* finishImplement, up to the patch; a change to forbidden paths is never done.
Finish ==
  /\ step = "finish"
  /\ IF last = NoRound
     THEN step' = "publish" /\ outcome' = [outcome EXCEPT !.status = "nopr"]
     ELSE /\ step' = "evidence"
          /\ \E forbidden \in BOOLEAN :
               outcome' = [status |-> "report", done |-> last.clean /\ ~forbidden,
                           patch |-> IF ready # NoTree THEN ready ELSE tree]
  /\ SameTree /\ SameRounds /\ SameReview /\ UNCHANGED <<spent, pull, history>>

\* The agents that show the change work in the same tree; their failure is not the run's.
Evidence ==
  /\ step = "evidence"
  /\ \/ step' = "publish" /\ SameTree /\ UNCHANGED spent
     \/ /\ last.clean
        /\ \E call \in Call, new \in Written :
             spent' = spent + call.cost /\ tree' = new /\ step' = "publish"
  /\ SameRounds /\ SameReview /\ SameEnd /\ UNCHANGED history

-----------------------------------------------------------------------------
(* publishRun *)

\* Mutant: a passing root run in the last round is enough, whatever it ran on.
RefusalTrusting(record, patch) == record.test # "root" \/ ~record.ok

\* Has the patch not passed the root tests?  rootTestRefusal
RootTestRefusal(record, patch) == record.test # "root" \/ ~record.ok \/ record.hash # patch

\* A pull request is opened for a change that is not empty, and not for a "ready" one that is untested.
Publish ==
  LET untested == RootTestRefusal(last, outcome.patch) IN
  /\ step = "publish"
  /\ step' = "over"
  /\ \/ /\ outcome.status = "report" /\ outcome.patch # 0
        /\ ~(outcome.done /\ untested)
        /\ pull' = [open |-> TRUE, done |-> outcome.done, untested |-> untested, patch |-> outcome.patch]
     \/ UNCHANGED pull \* a notice instead
  /\ SameTree /\ SameRounds /\ SameReview /\ UNCHANGED <<spent, outcome, history>>

ImplNext ==
  \/ SpecAgent \/ Implement
  \/ Gates \/ MutationCheck \/ RootTests
  \/ StartReviews \/ (\E l \in Lenses : ReviewerEnds(l)) \/ Settle
  \/ Finish \/ Evidence \/ Publish

ImplSpec == ImplInit /\ [][ImplNext]_implVars

-----------------------------------------------------------------------------
(* Properties *)

\* A pull request opened as ready carries exactly the patch the root tests passed on and all the
\* reviewers cleared, and one that does not say it is untested carries a patch the root tests passed
\* on: whatever a later round, a reviewer's test run or the evidence changed in the tree, and wherever
\* the money ran out.  Only what the passing root run itself wrote was not there when it started.
ReadyIsProven ==
  pull.open =>
    /\ pull.done => pull.patch \in cleared
    /\ pull.untested \/ pull.patch \in proven \cup rewritten

\* The comment on `cap`: three reviewers at once, each with a retry, cannot spend past the run's cap.
WithinRunBudget == spent <= RunBudget
=============================================================================
