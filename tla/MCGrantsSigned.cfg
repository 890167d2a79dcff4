\* A proof recorded while a signature is being verified: is what is sealed what was signed?
CONSTANTS
  Calls <- MCDeviceCalls
  Kind <- MCDeviceKind
  Keys <- MCKeys
  Skus <- MCSkus
  Purchases <- MCOddPurchases
  Catalogs <- MCAgeCatalogs
  Terms <- MCAgeTerms
  Options <- MCDevice
  LoyaltyPct = 10
  Merchant = "shop"
  Budget = 110
  PerSpend = 70
  StoreMayFail = FALSE
  Absent = Absent
  Fraction = Fraction
  NoIntent = NoIntent
SPECIFICATION GrantsSpec
INVARIANT SealedTermsAreSigned
