\* Two conversations edit, check out and complete; ask for a grant and redial; the process restarts.
\* Two delegated purchases of two permissions; every cart and line_items limit of this size;
\* the age page and a payment page of an order that is re-priced once.
SPECIFICATION AgentSpec
CONSTANTS
  Conversations = {"ann", "bob"}
  Transport <- MCTransport
  Callers = {"c1", "c2"}
  Parties <- MCParties
  Skus = {"tea"}
  Orders = {"o1"}
  MaxKeys = 2
  MaxAsked = 1
  Dialers = {"d1", "d2"}
  Principals = {"s1", "s2"}
  Params <- MCParams
  Words <- MCWords
  Products = {"sneaker", "boot"}
  Matches <- MCMatches
  Sized = {"boot"}
  Pinned <- MCPinned
  Price <- MCPrice
  MaxRounds = 2
  MaxDials = 3
  Permissions = {"small", "large"}
  Signed <- MCSigned
  Merchants = {"shop", "mill"}
  Goods = {"tea", "lamp"}
  Prices <- MCPrices
  MaxQuotes = 2
  MaxSpends = 2
  MaxTime = 1
  Items = {"coffee", "tea"}
  Requirements = {"r1", "r2"}
  MaxQuantity = 2
  Tabs = {"proof", "pay"}
  RailsOf <- MCRailsOf
  Quotes <- MCQuotes
  HolderAge = 21
  PolicyAge = 21
  Ttl <- MCTtl
  MaxClock = 1
  MaxBuilt <- MCMaxBuilt
  MaxRepriced = 1
  None = None
CHECK_DEADLOCK FALSE
INVARIANTS CartsApart SoldCartsAreEmptied MintedAsNamed RedialNeverMints ToldAsRecorded SoldAsSigned FitsIfAssignable PaidAsSigned ProvedAtThreshold TimelyAnswerAccepted
