\* One process, reliable stores, every rail: requests race a re-price and each other.
SPECIFICATION CheckoutSpec
CONSTANTS
  c1 = c1  c2 = c2  c3 = c3  p1 = p1  p2 = p2
  Calls <- MCCalls
  Processes <- MCOneProcess
  Shops <- MCShops
  Catalogs <- MCCatalogs
  Requests <- MCRequests
  Claims <- MCClaims
  References <- MCReferences
  Dedupes = FALSE
  Unreliable = FALSE
  NoRecord = NoRecord  NoRequest = NoRequest  NoProcess = NoProcess
SYMMETRY CallSymmetry
CHECK_DEADLOCK FALSE
INVARIANTS ChargesAreRecorded SoldAsAuthorized
PROPERTIES SaleKept
