------------------------------ MODULE MCAgent -------------------------------
(***************************************************************************)
(* What an agent and its human meet at a merchant: the storefront's cart   *)
(* tools (Storefront), its multi-round grant tool (Rounds), the verifier   *)
(* of delegated purchases (Purchases), its line_items limit (LineItems),   *)
(* the ceremony pages of an order (Ceremonies).  They share no state here, *)
(* so each is checked while the others stand still.                        *)
(*                                                                         *)
(* Carts: two callers, the agent and the widget of a conversation without  *)
(* a session, or the agent of one with a session and the agent of one      *)
(* without.  Grants: two calls at once, of two sessions; words that fit    *)
(* two products, one, or none; one product with a variant, and one that    *)
(* some cap cannot pay.  Purchases: two permissions, for two agents, that  *)
(* overlap in the store and in the goods; two merchants.  Ceremonies: the  *)
(* age page or a demo payment in one tab, a payment page in the other, a  *)
(* catalog that changes once, a holder who is just old enough.             *)
(***************************************************************************)
EXTENDS Storefront, Rounds, Purchases, LineItems, Ceremonies

MCTransport == [ann |-> "session", bob |-> "sessionless"]
MCParties == { [c1 |-> "ann", c2 |-> "bob"], [c1 |-> "bob", c2 |-> "bob"] }

MCWords == {"shoes", "sneaker", "boot", "boot9", "junk"}
MCMatches == [shoes |-> {"sneaker", "boot"}, sneaker |-> {"sneaker"}, boot |-> {"boot"}, boot9 |-> {"boot"},
              junk |-> {}]
MCPinned == [w \in MCWords |-> IF w = "boot9" THEN {"boot"} ELSE {}]
MCParams == { [words |-> "shoes", cap |-> 60], [words |-> "boot", cap |-> 60] }
MCPrice == [sneaker |-> 70, boot |-> 60]

MCSigned ==
  [small |-> [agent |-> "ann", exp |-> 2,
              checkout |-> [merchants |-> {"shop"}, goods |-> {"tea", "lamp"}],
              payment |-> [payees |-> {"shop", "mill"}, max |-> 3, budget |-> 4, uses |-> NoLimit,
                           from |-> 0, to |-> 2]],
   large |-> [agent |-> "bob", exp |-> 1,
              checkout |-> [merchants |-> {"shop", "mill"}, goods |-> {"tea"}],
              payment |-> [payees |-> {"shop"}, max |-> 5, budget |-> 8, uses |-> 1, from |-> 0, to |-> 1]]]
MCCatalog == [tea |-> 2, lamp |-> 3]
MCPrices == {MCCatalog, [tea |-> 3, lamp |-> 3]}

MCRailsOf == [proof |-> Proofs \cup {"payment demo"}, pay |-> Payments]
MCQuotes == { [total |-> 10, limit |-> 18], [total |-> 10, limit |-> 21], [total |-> 12, limit |-> 0] }
MCTtl == [k \in Wallets \cup Prompts |-> 0]
MCMaxBuilt == [proof |-> 1, pay |-> 2]

VARIABLE part  \* which part moves

agentVars == <<storefrontVars, roundsVars, purchaseVars, flowVars, ceremonyVars, part>>

StillStorefront == of = [c1 |-> "ann", c2 |-> "bob"]
StillFlow == basket = [i \in Items |-> 0] /\ limit = [r \in Requirements |-> [items |-> {}, quantity |-> 0]]
StillCeremonies == quote = [total |-> 10, limit |-> 18]

AgentInit ==
  /\ StorefrontInit /\ RoundsInit /\ PurchasesInit /\ LineItemsInit /\ CeremoniesInit
  /\ part \in {"carts", "grants", "purchases", "basket", "ceremonies"}
  /\ price = [m \in Merchants |-> MCCatalog]
  /\ part # "carts" => StillStorefront
  /\ part # "basket" => StillFlow
  /\ part # "ceremonies" => StillCeremonies

AgentNext ==
  \/ part = "carts" /\ StorefrontNext
     /\ UNCHANGED <<roundsVars, purchaseVars, flowVars, ceremonyVars, part>>
  \/ part = "grants" /\ RoundsNext
     /\ UNCHANGED <<storefrontVars, purchaseVars, flowVars, ceremonyVars, part>>
  \/ part = "purchases" /\ PurchasesNext
     /\ UNCHANGED <<storefrontVars, roundsVars, flowVars, ceremonyVars, part>>
  \/ part = "basket" /\ LineItemsNext
     /\ UNCHANGED <<storefrontVars, roundsVars, purchaseVars, ceremonyVars, part>>
  \/ part = "ceremonies" /\ CeremoniesNext
     /\ UNCHANGED <<storefrontVars, roundsVars, purchaseVars, flowVars, part>>

AgentSpec == AgentInit /\ [][AgentNext]_agentVars
=============================================================================
