\* A page grant: approve, deny and revoke race two spends.
CONSTANTS
  Calls <- MCPageCalls
  Kind <- MCPageKind
  Keys <- MCKeys
  Skus <- MCSkus
  Purchases <- MCPurchases
  Catalogs <- MCCatalogs
  Terms <- MCTerms
  Options <- MCPage
  LoyaltyPct = 10
  Merchant = "shop"
  Budget = 110
  PerSpend = 70
  StoreMayFail = FALSE
  Absent = Absent
  Fraction = Fraction
  NoIntent = NoIntent
SPECIFICATION GrantsSpec
INVARIANTS OneDecision ReceiptsMatchLedger RetryGetsOriginal
PROPERTIES RevokeWins UsesEngine
