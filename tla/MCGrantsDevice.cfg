\* A device grant, its key held by the gate or by the agent: a signature races an age proof, a
\* membership proof, a revoke and a spend the door may refuse or the engine may throw on.
CONSTANTS
  Calls <- MCDeviceCalls
  Kind <- MCDeviceKind
  Keys <- MCKeys
  Skus <- MCSkus
  Purchases <- MCOddPurchases
  Catalogs <- MCAgeCatalogs
  Terms <- MCAgeTerms
  Options <- MCDevice
  LoyaltyPct = 10
  Merchant = "shop"
  Budget = 110
  PerSpend = 70
  StoreMayFail = FALSE
  Absent = Absent
  Fraction = Fraction
  NoIntent = NoIntent
SPECIFICATION FairGrantsSpec
INVARIANT RestrictedNeedsProof
PROPERTIES RevokeTakesEffect
