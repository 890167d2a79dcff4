------------------------------ MODULE Purchases ------------------------------
(***************************************************************************)
(* Delegated purchases (ap2/chain): a person's wallet signs a permission,  *)
(* two open mandates at once; an agent spends it with a chain of           *)
(* signatures per mandate; a merchant verifies both chains, asks its       *)
(* ledger what was spent under the permission, and its catalog what the    *)
(* cart costs, and records the purchase.                                   *)
(*                                                                         *)
(* Signatures are symbolic: a hop can only have been signed by the key it  *)
(* names, and only wallets sign permissions (that no issuer vouches for    *)
(* the wallet is the "presence-only" trust the code makes its caller       *)
(* accept).  What an agent has signed it may keep, send again, put on      *)
(* another link, and pair with what it signed for another purchase; and    *)
(* software other than the library may do one thing differently.  A chain  *)
(* whose mandates are of the wrong type is not modelled.                   *)
(*                                                                         *)
(* The merchant around the verifier is external: it issues a nonce with    *)
(* each cart it quotes, takes each nonce once, and records a purchase as   *)
(* soon as it is accepted.                                                 *)
(*                                                                         *)
(* One limit stands for each kind: payees for instruments and processors,  *)
(* carts for merchants' line items (see LineItems), max for amount ranges. *)
(***************************************************************************)
EXTENDS FiniteSetsExt, Functions, Integers, Sequences

CONSTANTS
  Permissions,  \* what wallets have signed
  Signed,       \* the two open mandates of each permission
  Merchants,
  Goods,        \* the carts a merchant may be asked to quote
  Prices,       \* the catalogs a merchant may have: the price of each cart
  MaxQuotes,    \* bound: carts quoted
  MaxSpends,    \* bound: purchases an agent signs
  MaxTime       \* bound: the clock

Agents == {Signed[p].agent : p \in Permissions}
NoLimit == 0    \* of uses
NoDate == -1

ASSUME PurchasesAssumption ==
  /\ \A p \in Permissions :
       /\ DOMAIN Signed[p] = {"agent", "exp", "checkout", "payment"}
       /\ {Signed[p].payment.max, Signed[p].payment.budget, Signed[p].payment.uses} \subseteq Int
  /\ Prices \subseteq [Goods -> Nat \ {0}]
  /\ MaxQuotes \in Nat /\ MaxSpends \in Nat /\ MaxTime \in Nat

VARIABLES
  now,
  price,      \* each merchant's catalog
  quotes,     \* the carts quoted, each with its nonce, its position
  taken,      \* the nonces that have come back
  spends,     \* what agents have signed: a hop of each chain
  verifying,  \* the verifications under way, each with a nonce of its own
  ledger,     \* what each merchant has recorded under each permission id
  bought,     \* the purchases accepted
  raced       \* where two verifications under one permission overlapped

purchaseVars == <<now, price, quotes, taken, spends, verifying, ledger, bought, raced>>

\* A wallet's key binding, which a chain discloses one of the two mandates of.  A signature has two
\* spellings.
Links == [permission : Permissions, spelling : {1, 2}]

Total(purchases) == SumFunctionOnSet([i \in DOMAIN bought |-> bought[i].amount], purchases)

NothingSpent == [amount |-> 0, uses |-> 0]

PurchasesInit ==
  /\ now = 0
  /\ price \in [Merchants -> Prices]
  /\ quotes = << >>
  /\ taken = {}
  /\ spends = {}
  /\ verifying = {}
  /\ ledger = << >>
  /\ bought = << >>
  /\ raced = {}

-----------------------------------------------------------------------------
(* The merchant quotes, the agent spends *)

\* signCheckout, and a fresh nonce.
Quote(m, goods) ==
  /\ Len(quotes) < MaxQuotes
  /\ quotes' = Append(quotes, [merchant |-> m, goods |-> goods, total |-> price[m][goods]])
  /\ UNCHANGED <<now, price, taken, spends, verifying, ledger, bought, raced>>

\* appendAgentHop, for both chains: bound to the wallet's link, for one merchant and nonce.
Signature(agent, p, quote) ==
  [agent |-> agent, over |-> [permission |-> p, spelling |-> 1], audience |-> quotes[quote].merchant,
   nonce |-> quote, quote |-> quote, payee |-> quotes[quote].merchant, amount |-> quotes[quote].total,
   date |-> NoDate]

Sign(spend) ==
  /\ Cardinality(spends) < MaxSpends
  /\ spends' = spends \cup {spend}
  /\ UNCHANGED <<now, price, quotes, taken, verifying, ledger, bought, raced>>

\* DelegatedIntent.spend: for the key the permission names, with the cart's own merchant and total.
Spend(p, quote) == Sign(Signature(Signed[p].agent, p, quote))

\* Other software: for another permission's key, over the other spelling, for another nonce, or with
\* another content.
SpendOtherwise(p, quote) ==
  LET spend == Signature(Signed[p].agent, p, quote) IN
  \/ \E agent \in Agents \ {spend.agent} : Sign(Signature(agent, p, quote))
  \/ Sign([spend EXCEPT !.over.spelling = 2])
  \/ \E n \in DOMAIN quotes \ {quote} : Sign([spend EXCEPT !.nonce = n])
  \/ \E m \in Merchants \ {spend.payee} : Sign([spend EXCEPT !.payee = m])
  \/ \E q \in DOMAIN quotes \ {quote} : Sign([spend EXCEPT !.amount = quotes[q].total])
  \/ \E t \in 0..MaxTime : Sign([spend EXCEPT !.date = t])

-----------------------------------------------------------------------------
(* verifyDelegatedPurchase *)

\* verifyChain: the wallet names the agent's key, the hop is bound to this very link, nothing has
\* expired, and the purchase is for this merchant and nonce.
ChainVerified(link, hop, m, nonce) ==
  /\ hop.agent = Signed[link.permission].agent
  /\ hop.over = link
  /\ now < Signed[link.permission].exp
  /\ hop.audience = m /\ hop.nonce = nonce

\* Mutant: one permission has as many ids as its signature has spellings.
PermissionIdOfSpelling(link) == <<link.permission, link.spelling>>

\* permissionIdOf: of what the wallet signed, without the signature.
PermissionIdOf(link) == <<link.permission>>

\* Both chains rest on one wallet signature, to the letter.
OnePermission(checkoutLink, paymentLink) ==
  /\ checkoutLink.permission = paymentLink.permission
  /\ checkoutLink.spelling = paymentLink.spelling

Presented(nonce) ==
  {chain \in [link : Links, hop : spends] :
     ChainVerified(chain.link, chain.hop, quotes[nonce].merchant, nonce)}

\* What is checked before the ledger is asked: the chains, the merchant's own cart, the payment for it.
Present(nonce) ==
  LET m == quotes[nonce].merchant IN
  /\ nonce \notin taken
  /\ \E checkout, payment \in Presented(nonce) :
       /\ OnePermission(checkout.link, payment.link)
       /\ quotes[checkout.hop.quote].merchant = m
       /\ payment.hop.quote = checkout.hop.quote
       /\ payment.hop.payee = m
       /\ verifying' = verifying \cup {
            [stage |-> "ledger", nonce |-> nonce, merchant |-> m, id |-> PermissionIdOf(checkout.link),
             at |-> now, checkout |-> checkout.link.permission, payment |-> payment.link.permission,
             agent |-> payment.hop.agent, quote |-> payment.hop.quote, amount |-> payment.hop.amount,
             date |-> payment.hop.date]}
  /\ taken' = taken \cup {nonce}
  /\ UNCHANGED <<now, price, quotes, spends, ledger, bought, raced>>

Recorded(m, id) == IF <<m, id>> \in DOMAIN ledger THEN ledger[<<m, id>>] ELSE NothingSpent

\* evaluateCheckout: the store and the cart.
CheckoutAllowed(terms, m, goods) == m \in terms.merchants /\ goods \in terms.goods

\* A payment that names no date executes now; one dated in the past would, too, and is refused.
InWindow(terms, exp, date) ==
  LET when == IF date = NoDate THEN now ELSE date IN
  /\ date <= exp
  /\ when >= now
  /\ terms.from <= when /\ when <= terms.to

\* evaluatePayment.
PaymentAllowed(terms, exp, call, spent) ==
  /\ call.merchant \in terms.payees
  /\ call.amount <= terms.max
  /\ spent.amount + call.amount <= terms.budget
  /\ terms.uses # NoLimit => spent.uses < terms.uses
  /\ InWindow(terms, exp, call.date)

\* The ledger has answered: every limit of both mandates, which must name one another, and the cart's
\* total.
Judge(call) ==
  LET goods == quotes[call.quote].goods
      open == Signed[call.payment]
      overlapped == \E other \in verifying :
        other.stage = "pricing" /\ other.merchant = call.merchant /\ other.payment = call.payment
      passes ==
        /\ CheckoutAllowed(Signed[call.checkout].checkout, call.merchant, goods)
        /\ open.checkout = Signed[call.checkout].checkout
        /\ PaymentAllowed(open.payment, open.exp, call, Recorded(call.merchant, call.id))
        /\ call.amount = quotes[call.quote].total
  IN
  /\ call.stage = "ledger"
  /\ verifying' = (verifying \ {call}) \cup (IF passes THEN {[call EXCEPT !.stage = "pricing"]} ELSE {})
  /\ raced' = IF passes /\ overlapped THEN raced \cup {<<call.merchant, call.payment>>} ELSE raced
  /\ UNCHANGED <<now, price, quotes, taken, spends, ledger, bought>>

\* The catalog has answered: it decides, and the merchant records what it has accepted.
Settle(call) ==
  LET quote == quotes[call.quote]
      spent == Recorded(call.merchant, call.id)
      entry == [amount |-> spent.amount + call.amount, uses |-> spent.uses + 1]
  IN
  /\ call.stage = "pricing"
  /\ \/ /\ price[call.merchant][quote.goods] # quote.total
        /\ UNCHANGED <<ledger, bought>>
     \/ /\ price[call.merchant][quote.goods] = quote.total
        /\ ledger' = [x \in DOMAIN ledger \cup {<<call.merchant, call.id>>} |->
                        IF x = <<call.merchant, call.id>> THEN entry ELSE ledger[x]]
        /\ bought' = Append(bought, [merchant |-> call.merchant, checkout |-> call.checkout,
             payment |-> call.payment, agent |-> call.agent, goods |-> quote.goods,
             amount |-> call.amount, at |-> call.at])
  /\ verifying' = verifying \ {call}
  /\ UNCHANGED <<now, price, quotes, taken, spends, raced>>

-----------------------------------------------------------------------------
Tick == now < MaxTime /\ now' = now + 1 /\ UNCHANGED <<price, quotes, taken, spends, verifying, ledger, bought, raced>>

\* The catalog changes during a verification: an earlier change would look the same to it.
Reprice(m, catalog) ==
  /\ price[m] # catalog
  /\ bought = << >> /\ \E call \in verifying : call.merchant = m /\ call.stage = "pricing"
  /\ price' = [price EXCEPT ![m] = catalog]
  /\ UNCHANGED <<now, quotes, taken, spends, verifying, ledger, bought, raced>>

PurchasesNext ==
  \/ \E m \in Merchants, goods \in Goods : Quote(m, goods)
  \/ \E p \in Permissions, q \in DOMAIN quotes : Spend(p, q) \/ SpendOtherwise(p, q)
  \/ \E nonce \in DOMAIN quotes : Present(nonce)
  \/ \E call \in verifying : Judge(call) \/ Settle(call)
  \/ Tick
  \/ \E m \in Merchants, catalog \in Prices : Reprice(m, catalog)

PurchasesSpec == PurchasesInit /\ [][PurchasesNext]_purchaseVars

-----------------------------------------------------------------------------
(* Properties *)

Under(m, p) == {i \in DOMAIN bought : bought[i].merchant = m /\ bought[i].payment = p}

\* What merchants sold is what one person signed, at once, for this agent: the goods, the store, the
\* payment's limits, before it expired; and of one permission each store sold no more than its budget
\* and uses, however often its signature is spelled anew or its hops are used again.  The ledger is
\* asked before the catalog, so two purchases verified at once both fit: then it is the merchant who
\* lets the budget be overrun.
SoldAsSigned ==
  /\ \A i \in DOMAIN bought :
       LET b == bought[i]
           signed == Signed[b.payment]
       IN
       /\ b.checkout = b.payment
       /\ b.agent = signed.agent /\ b.at < signed.exp
       /\ b.merchant \in signed.checkout.merchants /\ b.goods \in signed.checkout.goods
       /\ b.amount <= signed.payment.max
  /\ \A m \in Merchants, p \in Permissions :
       Under(m, p) # {} /\ <<m, p>> \notin raced =>
         /\ Total(Under(m, p)) <= Signed[p].payment.budget
         /\ Signed[p].payment.uses # NoLimit => Cardinality(Under(m, p)) <= Signed[p].payment.uses
=============================================================================
