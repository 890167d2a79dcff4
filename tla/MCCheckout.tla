----------------------------- MODULE MCCheckout -----------------------------
(***************************************************************************)
(* Small instances of Checkout: an order of a product restricted by age    *)
(* and by a custom gate, with a member's discount, under a catalog that is *)
(* re-priced while requests wait.                                          *)
(***************************************************************************)
EXTENDS Checkout, TLC

CONSTANTS c1, c2, c3, p1, p2

MCCalls == {c1, c2, c3}
MCTwoCalls == {c1, c2}
MCOneProcess == {p1}
MCTwoProcesses == {p1, p2}
MCClaims == {"age", "membership", "rx"}
MCReferences == {"order", "ref1", "ref2"}

Shop(orders, gated, settles) ==
  [orders |-> orders, gated |-> gated, settles |-> settles, declared |-> FALSE]
DeclaredShop(orders, gated, settles) == [Shop(orders, gated, settles) EXCEPT !.declared = TRUE]
MCShops == { Shop(FALSE, TRUE, TRUE), Shop(FALSE, FALSE, FALSE), Shop(TRUE, TRUE, FALSE),
             Shop(TRUE, FALSE, FALSE) }
MCGatedStorefront == { DeclaredShop(FALSE, TRUE, FALSE) }
MCGatedStorefronts == { Shop(TRUE, TRUE, FALSE), DeclaredShop(FALSE, TRUE, FALSE) }
MCOpenShop == { DeclaredShop(TRUE, FALSE, FALSE) }
MCMemberShop == { DeclaredShop(TRUE, TRUE, FALSE) }

Quote(price, wants) == [price |-> price, discount |-> price \div 10, needs |-> wants]
GenerousQuote(price, wants) == [Quote(price, wants) EXCEPT !.discount = price \div 5]
MCCatalogs == { Quote(100, {"age"}), Quote(110, {"age"}), GenerousQuote(120, {"rx"}) }
MCGenerousCatalog == { GenerousQuote(100, {}) }
MCSplitCatalogs == { Quote(100, {"age", "rx"}), Quote(110, {"age"}) }
MCOpenCatalog == { Quote(100, {}) }

Request(rail, claims, reference, amount) ==
  [rail |-> rail, claims |-> claims, reference |-> reference, amount |-> amount]
Prove(claim) == Request("credential", {claim}, "order", 0)
Passkey == Request("passkey", {}, "order", 0)
Delegated(reference) == Request("delegated", {"age", "rx"}, reference, 100)
Place == Request("place", {}, "order", 0)

MCRequests == { Prove("age"), Prove("rx"), Prove("membership"), Passkey, Place }
MCSplitRequests == { Passkey, Delegated("ref1"), Prove("age") }
MCPlaceRequests == { Place }
MCMemberRequests == { Prove("membership"), Passkey }

CallSymmetry == Permutations(MCCalls)
=============================================================================
