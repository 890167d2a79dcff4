\* Is a holder who is old enough accepted on either platform, whatever the order's age limit?
SPECIFICATION CeremoniesSpec
CONSTANTS
  Tabs = {"proof"}
  RailsOf <- MCRailsOf
  Quotes <- MCQuotes
  HolderAge = 30
  PolicyAge = 21
  Ttl <- MCTtl
  MaxClock = 1
  MaxBuilt <- MCMaxBuilt
  MaxRepriced = 1
  None = None
CHECK_DEADLOCK FALSE
INVARIANTS TimelyAnswerAccepted
