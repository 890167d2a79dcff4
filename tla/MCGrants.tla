------------------------------ MODULE MCGrants ------------------------------
(***************************************************************************)
(* Small instances of Grants.  Page mode: two approvals or an approval and *)
(* a denial race a revoke while two spends are asked for, one of them a    *)
(* retry.  Device mode: a signature races an age proof, a membership proof *)
(* and a revoke, with a spend the door refuses or the engine throws on.    *)
(* The catalog re-prices, restricts or withdraws a product at any moment.  *)
(***************************************************************************)
EXTENDS Grants, TLC

MCKeys == {"k1", "k2"}
MCSkus == {"coffee", "wine"}

Item(price, minAge, category) == [price |-> price, minAge |-> minAge, category |-> category]

MCCatalogs == { [coffee |-> Item(50, 0, "drinks"), wine |-> Item(70, 21, "drinks")],
                [coffee |-> Item(60, 0, "drinks"), wine |-> Absent] }

\* The wine's age limit is raised between two reads, and the coffee, which a grant may name,
\* withdrawn: the door lets it through and the engine throws.
MCAgeCatalogs == { [coffee |-> Item(50, 0, "drinks"), wine |-> Item(70, 18, "drinks")],
                   [coffee |-> Absent, wine |-> Item(70, 21, "drinks")] }

MCTerms == [age : {0, 21}, pct : {0, 10}]
MCAgeTerms == [age : {0, 18, 21}, pct : {0, 10}]

Buy(key, sku, qty) == [key |-> key, sku |-> sku, qty |-> qty, merchant |-> "shop"]

MCPurchases ==
  { Buy("k1", "coffee", 1), Buy("k2", "coffee", 1), Buy("k1", "wine", 1) }
\* What the door itself refuses, next to one good purchase.
MCOddPurchases ==
  { Buy("k1", "coffee", 1), Buy("k1", "coffee", Fraction), Buy("k1", "wine", 1) }

Drinks == [bounded |-> TRUE, skus |-> {}, categories |-> {"drinks"}]
OnlyCoffee == [bounded |-> TRUE, skus |-> {"coffee"}, categories |-> {}]

MCPage == {[signing |-> "page", agentHeld |-> FALSE, allow |-> Drinks]}
MCDevice == { [signing |-> "device", agentHeld |-> FALSE, allow |-> Drinks],
              [signing |-> "device", agentHeld |-> TRUE, allow |-> OnlyCoffee] }

MCPageKind == [a |-> "approve", b |-> "approve", d |-> "deny", r |-> "revoke", s |-> "spend", t |-> "spend"]
MCPageCalls == DOMAIN MCPageKind
MCDeviceKind == [g |-> "sign", h |-> "age", m |-> "membership", r |-> "revoke", s |-> "spend"]
MCDeviceCalls == DOMAIN MCDeviceKind
=============================================================================
