------------------------------ MODULE MCReview ------------------------------
(***************************************************************************)
(* The issue agent: the conversation about an issue (Briefs), its build    *)
(* (Implementation), the review loop of its pull request (ReviewLoop) and  *)
(* the tickets of an issue that was split (Tickets).  Each is checked      *)
(* while the others stand still.                                           *)
(*                                                                         *)
(* Three tickets: the second waits for the first, the third for both.  A   *)
(* build has two rounds of two attempts, two reviewers, and money for a    *)
(* little more than one round.  Of the two things that people, main or a   *)
(* failure may do to the pull request under review, the second one comes   *)
(* before the first cycle of the loop is counted, the first one whenever.  *)
(***************************************************************************)
EXTENDS ReviewLoop, Briefs, Implementation, Tickets

MCBlockers == <<{}, {1}, {1, 2}>>

VARIABLE part  \* which part moves

reviewVars == <<loopVars, briefsVars, implVars, ticketsVars, part>>

ReviewInit ==
  /\ LoopInit /\ BriefsInit /\ ImplInit /\ TicketsInit
  /\ part \in {"loop", "briefs", "build", "tickets"}
  /\ part # "build" => step = "spec"

SecondIsEarly == events' + faults' > 1 /\ events' + faults' > events + faults => marks.cycles = 0

ReviewNext ==
  \/ part = "loop" /\ LoopNext /\ SecondIsEarly /\ UNCHANGED <<briefsVars, implVars, ticketsVars, part>>
  \/ part = "briefs" /\ BriefsNext /\ UNCHANGED <<loopVars, implVars, ticketsVars, part>>
  \/ part = "build" /\ ImplNext /\ UNCHANGED <<loopVars, briefsVars, ticketsVars, part>>
  \/ part = "tickets" /\ TicketsNext /\ UNCHANGED <<loopVars, briefsVars, implVars, part>>

ReviewSpec == ReviewInit /\ [][ReviewNext]_reviewVars
=============================================================================
