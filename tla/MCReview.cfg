\* One pull request in the loop; one issue's conversation; one build; one plan of three tickets.
SPECIFICATION ReviewSpec
CONSTANTS
  MaxCycles = 2
  MaxEvents = 2
  MaxFaults = 2
  MaxBriefs = 2
  MaxVersions = 3
  MaxActs = 5
  MaxRounds = 2
  MaxFixes = 1
  AgentBudget = 2
  RunBudget = 5
  Lenses = {"spec", "security"}
  Blockers <- MCBlockers
  MaxIssues = 4
  MaxTicketActs = 3
CHECK_DEADLOCK FALSE
INVARIANTS CyclesBounded NeverStranded CommentsSettled ReadyIsProven WithinRunBudget TicketsStart
PROPERTIES ReadyIsReviewed BuiltAsSpoken
