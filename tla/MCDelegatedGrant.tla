-------------------------- MODULE MCDelegatedGrant --------------------------
(***************************************************************************)
(* A small instance of DelegatedGrant: two keys, so that two draws contend *)
(* for a budget only one of them fits; three calls, so that a retry races  *)
(* a call under the other key; a catalog whose coffee is re-priced, and    *)
(* whose wine (21+) can be withdrawn, while calls wait.                    *)
(***************************************************************************)
EXTENDS DelegatedGrant, TLC

CONSTANTS c1, c2, c3

MCCalls == {c1, c2, c3}
MCTwoCalls == {c1, c2}
MCKeys == {"k1", "k2"}
MCSkus == {"coffee", "wine"}

Item(price, minAge, category) == [price |-> price, minAge |-> minAge, category |-> category]

MCCatalogs == { [coffee |-> Item(50, 0, "drinks"), wine |-> Item(70, 21, "drinks")],
                [coffee |-> Item(60, 0, "drinks"), wine |-> Absent] }

Buy(key, sku, qty) == [key |-> key, sku |-> sku, qty |-> qty, merchant |-> Merchant]

\* One ordinary purchase per key, and the refusals: over the cap, age, foreign merchant, quantity.
MCPurchases ==
  { Buy("k1", "coffee", 1), Buy("k2", "coffee", 1), Buy("k1", "wine", 1), Buy("k2", "coffee", 2),
    Buy("k1", "coffee", Fraction), Buy("k2", "coffee", 0),
    [Buy("k1", "coffee", 1) EXCEPT !.merchant = "elsewhere"] }

MCTwoPurchases == { Buy("k1", "coffee", 1), Buy("k2", "coffee", 1), Buy("k1", "wine", 1) }

MCTwoTerms == { [age |-> 0, pct |-> 0], [age |-> 21, pct |-> 10] }
MCOutageTerms == { [age |-> 21, pct |-> 10], [age |-> 0, pct |-> 100] }

=============================================================================
