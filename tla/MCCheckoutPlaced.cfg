\* An order without gates, placed by a double click.
SPECIFICATION CheckoutSpec
CONSTANTS
  c1 = c1  c2 = c2  c3 = c3  p1 = p1  p2 = p2
  Calls <- MCTwoCalls
  Processes <- MCOneProcess
  Shops <- MCOpenShop
  Catalogs <- MCOpenCatalog
  Requests <- MCPlaceRequests
  Claims <- MCClaims
  References <- MCReferences
  Dedupes = FALSE
  Unreliable = FALSE
  NoRecord = NoRecord  NoRequest = NoRequest  NoProcess = NoProcess
CHECK_DEADLOCK FALSE
INVARIANTS AnnouncedOnce
