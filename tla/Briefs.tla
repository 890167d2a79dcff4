------------------------------- MODULE Briefs -------------------------------
(***************************************************************************)
(* The issue agent's conversation on one issue, from the label `agent` to  *)
(* the pull request (ci/issue-agent/run.mjs, brief.mjs and the workflows   *)
(* issue-agent.yml and issue-agent-run.yml): a run writes a brief, people  *)
(* answer it in comments, runs answer those, and the label agent:approved  *)
(* builds the latest version.                                              *)
(*                                                                         *)
(* Labels and comments start runs in two groups, "main" and "talk", one    *)
(* run of each at a time.  A newer label waits in place of an older one; a *)
(* newer comment cancels the run that answers an older one.  An event of a *)
(* comment may be lost; an hourly sweep makes up for it.                   *)
(*                                                                         *)
(*   run: idle -> snapshot -> mark -> agents -> publish [-> post -> label] *)
(*                                                                         *)
(* `now` counts what people did: what a run has read by then is what they  *)
(* had done by then.  Not modelled: the age limits of the sweep, assignees *)
(* and the other labels that hold an issue back, a run started by hand, a  *)
(* job that GitHub kills, and what the agents do.                          *)
(***************************************************************************)
EXTENDS Integers, Sequences, FiniteSetsExt

CONSTANTS
  MaxBriefs,   \* MAX_BRIEFS
  MaxVersions, \* bound: the briefs posted
  MaxActs      \* bound: what people do

ASSUME BriefsAssumption == MaxBriefs \in Nat \ {0} /\ MaxVersions \in Nat /\ MaxActs \in Nat

VARIABLES
  now,       \* how much people have done
  said,      \* when a maintainer last commented
  edited,    \* when the issue was last edited
  labels,    \* of the issue
  briefs,    \* the briefs posted, oldest first
  noticed,   \* when the pipeline last gave a notice
  failures,  \* failed runs it has reported since the last comment
  prs,       \* open pull requests of the issue
  left,      \* was one of them closed while the review loop had it?
  doing,     \* the run under way, by group
  awaits     \* the event that waits for it, by group

notices == <<noticed, failures>>
words == <<now, said, edited>>
briefsVars == <<words, labels, briefs, notices, prs, left, doing, awaits>>

Groups == {"main", "talk"}
None == [kind |-> "none", at |-> 0]
NoBrief == [start |-> 0, read |-> 0, posted |-> 0, replied |-> 0, sealed |-> FALSE]
Idle == [stage |-> "idle", event |-> None, phase |-> "none", asOf |-> 0, from |-> NoBrief, outcome |-> "none"]
Started(event) == [Idle EXCEPT !.stage = "snapshot", !.event = event]

BriefsInit ==
  /\ now = 0 /\ said = 0 /\ edited = 0
  /\ labels = {}
  /\ briefs = <<>>
  /\ noticed = 0 /\ failures = 0
  /\ prs = 0 /\ left = FALSE
  /\ doing = [g \in Groups |-> Idle]
  /\ awaits = [g \in Groups |-> None]

-----------------------------------------------------------------------------
(* Where the conversation stands: briefState *)

Versions == Len(briefs)
HasLatest == Versions > 0 /\ briefs[Versions].sealed
Latest == briefs[Versions]

\* Versions since `agent` was last added.
Round == IF HasLatest THEN Versions - Latest.start + 1 ELSE Versions

\* Mutant: a comment written while its answer was under way counts as answered.
AnsweredWhenPosted(brief) == brief.posted

\* What the agents had read when they answered: with this brief (one edited by hand no longer tells), or
\* with a reply that left it as it is.
AnsweredAt(brief) == Max({IF brief.sealed THEN brief.read ELSE brief.posted, brief.replied})

LastOurs == Max({0} \cup {AnsweredAt(briefs[i]) : i \in 1..Versions})
Unanswered == Versions > 0 /\ said > LastOurs

\* approvalRefusal
Approvable == HasLatest /\ ~Unanswered /\ edited <= Latest.read

\* sweepWanted: unanswered, not seen by a run, retried once at most, below the cap.
SweepWanted == Unanswered /\ noticed < said /\ failures < 2 /\ Round < MaxBriefs

-----------------------------------------------------------------------------
(* The concurrency groups *)

\* A label waits for the run under way; a comment cancels it: a run that has not read the issue yet is
\* gone, one the agents work on is published as failed, and one that is being published goes on.
Queued(g, event) ==
  IF doing[g].stage = "idle" \/ (g = "talk" /\ doing[g].stage \in {"snapshot", "mark"})
  THEN doing' = [doing EXCEPT ![g] = Started(event)] /\ UNCHANGED awaits
  ELSE /\ awaits' = [awaits EXCEPT ![g] = event]
       /\ IF g = "talk" /\ doing[g].stage = "agents"
          THEN doing' = [doing EXCEPT ![g].stage = "publish", ![g].outcome = "failed"]
          ELSE UNCHANGED doing

\* A run ends, and the one that waited starts.
Over(g) ==
  /\ doing' = [doing EXCEPT ![g] = IF awaits[g] = None THEN Idle ELSE Started(awaits[g])]
  /\ awaits' = [awaits EXCEPT ![g] = None]

Step(g, run) == doing' = [doing EXCEPT ![g] = run] /\ UNCHANGED awaits

-----------------------------------------------------------------------------
(* The trusted snapshot *)

StartsOver(event) == event.kind = "agent"

\* preflight
Preflight == prs = 0

\* planRun and the refusals of snapshotIssue.
PlanRun(event) ==
  CASE event.kind # "comment" /\ edited > event.at -> "skip"
    [] event.kind = "comment" /\ ("awaiting" \notin labels \/ ~Unanswered) -> "quiet"
    [] event.kind = "comment" /\ Round >= MaxBriefs -> "skip"
    [] event.kind = "approved" /\ ~Approvable -> "skip"
    [] ~Preflight -> "skip"
    [] OTHER -> IF event.kind = "approved" THEN "build" ELSE "brief"

\* A comment's run reads up to now, a label's what there was when the label came.
Snapshot(g) ==
  LET event == doing[g].event
      phase == PlanRun(event)
  IN
  /\ doing[g].stage = "snapshot"
  /\ Step(g, [doing[g] EXCEPT !.stage = "mark", !.phase = phase,
                !.asOf = IF event.kind = "comment" THEN now ELSE event.at,
                !.from = IF HasLatest /\ ~StartsOver(event) /\ phase \in {"brief", "build"} THEN Latest ELSE NoBrief])
  /\ UNCHANGED <<words, labels, briefs, notices, prs, left>>

\* The notice of a skip (a refused approval's does not count as one), or the labels of a start.
Mark(g) ==
  LET run == doing[g] IN
  /\ run.stage = "mark"
  /\ \/ /\ run.phase \in {"skip", "quiet"}
        /\ noticed' = IF run.phase = "skip" /\ run.event.kind # "approved" THEN now ELSE noticed
        /\ Over(g) /\ UNCHANGED labels
     \/ /\ run.phase \in {"brief", "build"}
        /\ labels' = (labels \cup {"working"}) \ IF run.phase = "build" THEN {"awaiting"} ELSE {}
        /\ Step(g, [run EXCEPT !.stage = "agents"]) /\ UNCHANGED noticed
  /\ UNCHANGED <<words, briefs, failures, prs, left>>

-----------------------------------------------------------------------------
(* The agents *)

\* briefIssue and implementIssue, by how they end; a reply keeps the brief it was given.
Agents(g) ==
  LET run == doing[g] IN
  /\ run.stage = "agents"
  /\ \E outcome \in IF run.phase = "build" THEN {"pr", "nopr", "challenged", "failed"}
                    ELSE {"revised", "kept", "blocked", "failed"} :
       /\ outcome = "kept" => run.from # NoBrief
       /\ outcome = "revised" => Versions < MaxVersions
       /\ Step(g, [run EXCEPT !.stage = "publish", !.outcome = outcome])
  /\ UNCHANGED <<words, labels, briefs, notices, prs, left>>

-----------------------------------------------------------------------------
(* publishBrief, publishRun *)

\* Mutant: a failed run leaves the issue marked as worked on.
StillWorking(g) == UNCHANGED labels

\* setStatus, working: false.
NotWorking(g) == labels' = labels \ {"working"}

\* The error's notice; only whether there were two matters.
Reports(g) ==
  /\ failures' = Min({failures + 1, 2})
  /\ NotWorking(g)
  /\ Over(g)

\* No outcome, or publishing threw; a pull request may have been opened before it did.
PublishFails(g) ==
  /\ doing[g].stage \in {"publish", "post"}
  /\ Reports(g)
  /\ prs' \in IF doing[g].outcome = "pr" THEN {prs, prs + 1} ELSE {prs}
  /\ UNCHANGED <<words, briefs, noticed, left>>

\* Not actionable, or not to be discussed in public: nothing waits for an approval any more.
PublishBlocked(g) ==
  /\ doing[g].stage = "publish" /\ doing[g].outcome = "blocked"
  /\ noticed' = now
  /\ \E private \in BOOLEAN :
       labels' = labels \ ({"working", "awaiting"} \cup IF private THEN {"approved"} ELSE {})
  /\ Over(g)
  /\ UNCHANGED <<words, briefs, failures, prs, left>>

\* The comment is answered and the latest brief stands, whichever that is by now.
PublishReply(g) ==
  LET run == doing[g] IN
  /\ run.stage = "publish" /\ run.outcome = "kept" /\ HasLatest
  /\ briefs' = [briefs EXCEPT ![Versions].replied = Max({@, run.asOf})]
  /\ labels' = (labels \cup {"awaiting"}) \ {"working"}
  /\ Over(g)
  /\ UNCHANGED <<words, notices, prs, left>>

\* The next version is worked out from the comments, then posted, then the labels are set.
PublishBrief(g) ==
  LET run == doing[g] IN
  /\ run.stage = "publish" /\ (run.outcome = "revised" \/ (run.outcome = "kept" /\ ~HasLatest))
  /\ Versions < MaxVersions
  /\ Step(g, [run EXCEPT !.stage = "post",
       !.from = [start |-> IF StartsOver(run.event) \/ ~HasLatest THEN Versions + 1 ELSE Latest.start,
                 read |-> run.asOf, posted |-> 0, replied |-> 0, sealed |-> TRUE]])
  /\ UNCHANGED <<words, labels, briefs, notices, prs, left>>

PostBrief(g) ==
  LET run == doing[g] IN
  /\ run.stage = "post"
  /\ Versions < MaxVersions
  /\ briefs' = Append(briefs, [run.from EXCEPT !.posted = now])
  /\ Step(g, [run EXCEPT !.stage = "label"])
  /\ UNCHANGED <<words, labels, notices, prs, left>>

LabelBrief(g) ==
  /\ doing[g].stage = "label"
  /\ labels' = (labels \cup {"awaiting"}) \ {"working", "approved"}
  /\ Over(g)
  /\ UNCHANGED <<words, briefs, notices, prs, left>>

\* A pull request, which the review loop takes on or not; or a notice that there is none.
PublishRun(g) ==
  LET run == doing[g] IN
  /\ run.stage = "publish" /\ run.outcome \in {"pr", "nopr"}
  /\ IF run.outcome = "pr" THEN prs' = prs + 1 ELSE UNCHANGED prs
  /\ noticed' = now
  /\ \E loop \in IF run.outcome = "pr" THEN BOOLEAN ELSE {FALSE} :
       labels' = IF loop THEN labels \cup {"working"} ELSE labels \ {"working"}
  /\ Over(g)
  /\ UNCHANGED <<words, briefs, failures, left>>

\* The implementer questions a criterion: back to the brief.
PublishChallenge(g) ==
  LET run == doing[g] IN
  /\ run.stage = "publish" /\ run.outcome = "challenged"
  /\ briefs' = [briefs EXCEPT ![Versions].replied = Max({@, run.asOf})]
  /\ labels' = (labels \cup {"awaiting"}) \ {"working", "approved"}
  /\ Over(g)
  /\ UNCHANGED <<words, notices, prs, left>>

-----------------------------------------------------------------------------
(* People, the sweep, the review loop *)

Act == now < MaxActs /\ now' = now + 1

\* A comment, or one edited; its event starts a run if a brief waits, or is lost.
PersonSays ==
  /\ Act
  /\ said' = now + 1
  /\ failures' = 0
  /\ \/ "awaiting" \in labels /\ Queued("talk", [kind |-> "comment", at |-> 0])
     \/ UNCHANGED <<doing, awaits>>
  /\ UNCHANGED <<edited, labels, briefs, noticed, prs, left>>

PersonRewrites ==
  /\ Act
  /\ \/ edited' = now + 1 /\ UNCHANGED briefs
     \/ /\ HasLatest /\ briefs' = [briefs EXCEPT ![Versions].sealed = FALSE]
        /\ UNCHANGED edited
  /\ UNCHANGED <<said, labels, notices, prs, left, doing, awaits>>

PersonAdds(label) ==
  /\ Act
  /\ label \notin labels
  /\ labels' = labels \cup {label}
  /\ Queued("main", [kind |-> label, at |-> now + 1])
  /\ UNCHANGED <<said, edited, briefs, notices, prs, left>>

PersonRemoves(label) ==
  /\ Act
  /\ label \in labels /\ labels' = labels \ {label}
  /\ UNCHANGED <<said, edited, briefs, notices, prs, left, doing, awaits>>

PersonClosesPr ==
  /\ Act
  /\ prs > 0 /\ prs' = prs - 1
  /\ left' = (left \/ "working" \in labels)
  /\ UNCHANGED <<said, edited, labels, briefs, notices, doing, awaits>>

\* sweepBriefs
SweepBriefs ==
  /\ "awaiting" \in labels /\ "working" \notin labels
  /\ SweepWanted
  /\ Queued("talk", [kind |-> "comment", at |-> 0])
  /\ UNCHANGED <<words, labels, briefs, notices, prs, left>>

\* The review loop has handed the pull request over.
LoopHandsOver ==
  /\ prs > 0 /\ "working" \in labels
  /\ NotWorking("main")
  /\ UNCHANGED <<words, briefs, notices, prs, left, doing, awaits>>

BriefsNext ==
  \/ \E g \in Groups :
       \/ Snapshot(g) \/ Mark(g) \/ Agents(g)
       \/ PublishFails(g) \/ PublishBlocked(g) \/ PublishReply(g) \/ PublishBrief(g) \/ PostBrief(g)
       \/ LabelBrief(g) \/ PublishRun(g) \/ PublishChallenge(g)
  \/ PersonSays \/ PersonRewrites \/ PersonClosesPr
  \/ \E label \in {"agent", "approved"} : PersonAdds(label) \/ PersonRemoves(label)
  \/ SweepBriefs \/ LoopHandsOver

BriefsSpec == BriefsInit /\ [][BriefsNext]_briefsVars

-----------------------------------------------------------------------------
(* Properties *)

Quiet == \A g \in Groups : doing[g] = Idle

\* No maintainer's comment on a brief that waits for one is lost, though its event may be, and though a
\* newer one cancels the run that answers it: with no run under way, a comment nobody has answered is one
\* the hourly sweep takes up - and the issue is not marked as worked on, which would hide it from the
\* sweep - unless the pipeline has said since that it stopped, failed twice, or is at its cap
\* (sweepWanted, setStatus).  A pull request of the issue keeps the mark for as long as the review loop
\* has it, and for ever when it is closed meanwhile.
CommentsSettled ==
  Quiet /\ "awaiting" \in labels /\ Unanswered =>
    \/ "working" \notin labels /\ SweepWanted
    \/ noticed >= said \/ failures >= 2 \/ Round >= MaxBriefs
    \/ prs > 0 \/ left

\* An issue is built from a brief whose agents had read everything a maintainer has said about it, also
\* what was said while they wrote it (approvalRefusal, answeredAt).  The exceptions are an earlier version
\* that had: its run and the latest one's, of a label and of a comment, crossed, and it counts for the
\* latest; or it was edited by hand, and counts as of when it was posted.
BuiltAsSpoken ==
  [][doing["main"].phase # "build" /\ doing'["main"].phase = "build"
       => LET from == doing'["main"].from IN
          \/ said <= Max({from.read, from.replied})
          \/ \E i \in 1..(Versions - 1) :
               LET brief == briefs[i] IN
               said <= Max({IF brief.sealed THEN brief.read ELSE brief.posted, brief.replied})]_briefsVars
=============================================================================
