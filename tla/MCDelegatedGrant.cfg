\* Concurrent spends of every kind over a store that may error: the caps, the ledger, retries, the
\* promise, and, with fairness, that no call is wedged.
CONSTANTS
  c1 = c1
  c2 = c2
  c3 = c3
  Calls <- MCTwoCalls
  Keys <- MCKeys
  Skus <- MCSkus
  Purchases <- MCPurchases
  Catalogs <- MCCatalogs
  Terms <- MCOutageTerms
  Merchant = "shop"
  Budget = 100
  PerSpend = 70
  StoreMayFail = TRUE
  Absent = Absent
  Fraction = Fraction
  NoIntent = NoIntent
SPECIFICATION FairEngineSpec
INVARIANTS WithinCaps DrawsAreRecorded
PROPERTIES AnswersMatchLedger EveryCallReturns PromiseKept
