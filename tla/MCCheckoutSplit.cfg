\* Two processes that restart, the credentials declared or not, a store that may error, answers
\* of the processor that may be lost.
SPECIFICATION FairCheckoutSpec
CONSTANTS
  c1 = c1  c2 = c2  c3 = c3  p1 = p1  p2 = p2
  Calls <- MCTwoCalls
  Processes <- MCTwoProcesses
  Shops <- MCGatedStorefronts
  Catalogs <- MCSplitCatalogs
  Requests <- MCSplitRequests
  Claims <- MCClaims
  References <- MCReferences
  Dedupes = TRUE
  Unreliable = TRUE
  NoRecord = NoRecord  NoRequest = NoRequest  NoProcess = NoProcess
CHECK_DEADLOCK FALSE
INVARIANTS ChargedOnce SoldAsProved
PROPERTIES EveryRequestAnswered
