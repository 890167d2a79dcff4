--------------------------- MODULE DelegatedGrant ---------------------------
(***************************************************************************)
(* The spending engine: one DelegatedGrant (delegated.ts), the             *)
(* delegated-draw branch of completeOrder (ceremony/completion.ts), the    *)
(* bounds check (ceremony/mandate.ts) and the draw ledger                  *)
(* (ceremony/revocation.ts), under any number of concurrent spend() calls. *)
(*                                                                         *)
(* Every `await' of the code is a point where another call, a revoke or a  *)
(* change of the host's catalog can run, so spend() is split into the      *)
(* steps between its awaits.  The steps of one call are                    *)
(*                                                                         *)
(*   idle -> signing -> queued -> repricing -> reading -> checking         *)
(*        -> committing -> recording -> settled -> done                    *)
(*                                                                         *)
(* with a refusal or an echo going straight to "settled" and a throw to    *)
(* "threw".  From "repricing" to "recording" the call is inside the        *)
(* per-order mutex of completeOrder.                                       *)
(***************************************************************************)
EXTENDS Integers, FiniteSets, KeyedMutex

CONSTANTS
  Calls,         \* spend() calls; each call is made once
  Keys,          \* idempotency keys: paymentMandateId, pspTransactionId, order id
  Skus,          \* product ids a purchase may name
  Purchases,     \* arguments spend() is called with
  Catalogs,      \* contents the host's catalog may have
  Terms,         \* proofs a preApprove() may seal
  Merchant,      \* the merchant the grant names
  Budget,        \* totalAmount, in the catalog's units
  PerSpend,      \* maxAmount
  StoreMayFail,  \* whether the revocation store may be unavailable
  Absent,        \* a sku the catalog does not hold
  Fraction,      \* a quantity that is not a whole number
  NoIntent       \* no intent has been sealed

Entries == [price : Nat, minAge : Nat, category : STRING]

ASSUME CapsAssumption == Budget \in Nat /\ PerSpend \in Nat
ASSUME StoreAssumption == StoreMayFail \in BOOLEAN
ASSUME FractionAssumption == Fraction \notin Int
ASSUME PurchasesAssumption ==
  \A p \in Purchases : p.key \in Keys /\ p.sku \in Skus /\ p.qty \in Int \cup {Fraction}
ASSUME CatalogsAssumption == Catalogs \subseteq [Skus -> Entries \cup {Absent}]
ASSUME AbsentAssumption == Absent \notin Entries
ASSUME TermsAssumption == Terms \subseteq [age : Nat, pct : Nat] /\ NoIntent \notin Terms

VARIABLES
  catalog,       \* the host's live catalog, read at every pricing
  intent,        \* the sealed proofs: the age shown (0: none), the loyalty rate
  revoked,       \* the ledger's kill switch (this intent's, or its subject's)
  draws,         \* the ledger: amount committed under each key, 0 when none
  spent,         \* the sum of the committed draws
  completed,     \* completion records: amount recorded for each order, 0: none
  tails,         \* completeOrder's per-order mutex
  step,          \* where each call stands
  purchase,      \* the arguments of each call
  total,         \* order.total the call priced and signed
  sawRevoked,    \* isRevoked() as the call read it
  sawLedger,     \* priorDraws() returned the live list, not a fresh empty one
  verdict,       \* what completeOrder answered the call
  result         \* what spend() returned

ledger == <<revoked, draws, spent>>
reads  == <<sawRevoked, sawLedger>>
engineVars == <<catalog, intent, revoked, draws, spent, completed, tails, step,
                purchase, total, sawRevoked, sawLedger, verdict, result>>

Steps == {"idle", "signing", "queued", "repricing", "reading", "checking",
          "committing", "recording", "settled", "done", "threw"}
InsideMutex == {"repricing", "reading", "checking", "committing", "recording"}

Refusals == {"invalid-amount", "reprice", "step-up", "revoked", "over-cap", "over-total",
             "out-of-scope", "replay", "consumed", "revocation-unavailable"}
Verdicts == Refusals \cup {"none", "ok"}

NoPurchase == [key |-> "", sku |-> "", qty |-> 0, merchant |-> Merchant]
NoResult   == [ok |-> FALSE, amount |-> 0, remaining |-> 0, reason |-> "none"]

EngineInit ==
  /\ catalog \in Catalogs
  /\ intent = NoIntent
  /\ revoked = FALSE
  /\ draws = [k \in Keys |-> 0]
  /\ spent = 0
  /\ completed = [k \in Keys |-> 0]
  /\ tails = NoTails(Keys)
  /\ step = [c \in Calls |-> "idle"]
  /\ purchase = [c \in Calls |-> NoPurchase]
  /\ total = [c \in Calls |-> 0]
  /\ sawRevoked = [c \in Calls |-> FALSE]
  /\ sawLedger = [c \in Calls |-> FALSE]
  /\ verdict = [c \in Calls |-> "none"]
  /\ result = [c \in Calls |-> NoResult]

-----------------------------------------------------------------------------
(* Pricing *)

IsWholeQuantity(q) == q # Fraction /\ q >= 1

\* Math.round(subtotal * pct / 100) of a non-negative subtotal.
LoyaltyDiscount(subtotal, pct) == (subtotal * pct + 50) \div 100

\* createOrder() of a one-line order at the live price and the sealed rate.
OrderTotal(p) ==
  LET subtotal == catalog[p.sku].price * p.qty
  IN  subtotal - LoyaltyDiscount(subtotal, intent.pct)

Priced(p) == catalog[p.sku] # Absent

AgeProofCovers(p) == catalog[p.sku].minAge = 0 \/ catalog[p.sku].minAge <= intent.age

-----------------------------------------------------------------------------
(* The grant's environment *)

\* preApprove(): the proofs are sealed with the bounds and never change.
PreApprove(terms) ==
  /\ intent = NoIntent
  /\ intent' = terms
  /\ UNCHANGED <<catalog, ledger, completed, tails, step, purchase, total, reads, verdict, result>>

\* The host re-prices, adds or withdraws a product; pricing reads the live object.
ChangeCatalog(new) ==
  /\ catalog' = new
  /\ UNCHANGED <<intent, ledger, completed, tails, step, purchase, total, reads, verdict, result>>

\* revoke() of this grant, or revokeSubject() of its subject.
Revoke ==
  /\ intent # NoIntent
  /\ revoked' = TRUE
  /\ UNCHANGED <<catalog, intent, draws, spent, completed, tails, step, purchase, total, reads,
                 verdict, result>>

-----------------------------------------------------------------------------
(* spend() up to completeOrder *)

Goto(c, s) == step' = [step EXCEPT ![c] = s]

RefuseQuantity(c, p) ==
  /\ ~IsWholeQuantity(p.qty)
  /\ Goto(c, "settled")
  /\ verdict' = [verdict EXCEPT ![c] = "invalid-amount"]
  /\ UNCHANGED total

UnknownItem(c, p) ==
  /\ IsWholeQuantity(p.qty)
  /\ ~Priced(p)
  /\ Goto(c, "threw")
  /\ UNCHANGED <<verdict, total>>

SignDraw(c, p) ==
  /\ IsWholeQuantity(p.qty)
  /\ Priced(p)
  /\ total' = [total EXCEPT ![c] = OrderTotal(p)]
  /\ Goto(c, "signing")
  /\ UNCHANGED verdict

\* spend(): refuse a fractional quantity, price the item, start signing the draw.
Spend(c, p) ==
  /\ step[c] = "idle"
  /\ intent # NoIntent
  /\ purchase' = [purchase EXCEPT ![c] = p]
  /\ RefuseQuantity(c, p) \/ UnknownItem(c, p) \/ SignDraw(c, p)
  /\ UNCHANGED <<catalog, intent, ledger, completed, tails, reads, result>>

\* The draw is signed; completeOrder joins the order's queue.
CompleteOrder(c) ==
  /\ step[c] = "signing"
  /\ tails' = Join(tails, purchase[c].key, c)
  /\ Goto(c, "queued")
  /\ UNCHANGED <<catalog, intent, ledger, completed, purchase, total, reads, verdict, result>>

-----------------------------------------------------------------------------
(* completeOrderLocked, delegated-draw branch *)

\* The locked section returns this verdict and the next run of the order may start.
Answer(c, v) ==
  /\ verdict' = [verdict EXCEPT ![c] = v]
  /\ tails' = Settle(tails, purchase[c].key)
  /\ Goto(c, "settled")

Proceed(c, s) == Goto(c, s) /\ UNCHANGED <<tails, verdict>>

\* A recorded order is echoed before anything else is looked at.
Lookup(c) ==
  /\ step[c] = "queued"
  /\ Executing(tails, purchase[c].key, c)
  /\ \/ completed[purchase[c].key] > 0 /\ Answer(c, "ok")
     \/ completed[purchase[c].key] = 0 /\ Proceed(c, "repricing")
  /\ UNCHANGED <<catalog, intent, ledger, completed, purchase, total, reads, result>>

\* Re-price against the live catalog, check the sealed age, call isRevoked().
Reprice(c) ==
  LET p == purchase[c] IN
  /\ step[c] = "repricing"
  /\ Priced(p)
  /\ \/ OrderTotal(p) # total[c] /\ Answer(c, "reprice") /\ UNCHANGED sawRevoked
     \/ /\ OrderTotal(p) = total[c]
        /\ ~AgeProofCovers(p)
        /\ Answer(c, "step-up")
        /\ UNCHANGED sawRevoked
     \/ /\ OrderTotal(p) = total[c]
        /\ AgeProofCovers(p)
        /\ sawRevoked' = [sawRevoked EXCEPT ![c] = revoked]
        /\ Proceed(c, "reading")
  /\ UNCHANGED <<catalog, intent, ledger, completed, purchase, total, sawLedger, result>>

\* Mutant: the throw does not settle the order's mutex.
RepriceThrowsUnsettled(c) ==
  /\ step[c] = "repricing"
  /\ ~Priced(purchase[c])
  /\ Goto(c, "threw")
  /\ UNCHANGED <<catalog, intent, ledger, completed, tails, purchase, total, reads, verdict, result>>

\* The item left the catalog while the call waited: createOrder throws inside the mutex.
RepriceThrows(c) ==
  /\ step[c] = "repricing"
  /\ ~Priced(purchase[c])
  /\ tails' = Settle(tails, purchase[c].key)
  /\ Goto(c, "threw")
  /\ UNCHANGED <<catalog, intent, ledger, completed, purchase, total, reads, verdict, result>>

\* priorDraws() returns the ledger's own array once a draw exists, else a fresh empty one.
ReadPrior(c) ==
  /\ step[c] = "reading"
  /\ sawLedger' = [sawLedger EXCEPT ![c] = (spent > 0)]
  /\ Proceed(c, "checking")
  /\ UNCHANGED <<catalog, intent, ledger, completed, purchase, total, sawRevoked, result>>

\* A store that errors refuses the draw, whichever of its calls it was.
StoreFails(c) ==
  /\ StoreMayFail
  /\ step[c] \in {"reading", "checking"}
  /\ Answer(c, "revocation-unavailable")
  /\ UNCHANGED <<catalog, intent, ledger, completed, purchase, total, reads, result>>

\* The refusals of checkDraw() in the order it collects them; the first is reported.
CheckDraw(c) ==
  LET prior    == IF sawLedger[c] THEN spent ELSE 0
      consumed == sawLedger[c] /\ draws[purchase[c].key] > 0
  IN  IF total[c] <= 0 THEN "invalid-amount"
      ELSE IF total[c] > PerSpend THEN "over-cap"
      ELSE IF prior + total[c] > Budget THEN "over-total"
      ELSE IF purchase[c].merchant # Merchant THEN "out-of-scope"
      ELSE IF consumed THEN "replay"
      ELSE "ok"

Check(c) ==
  /\ step[c] = "checking"
  /\ \/ sawRevoked[c] /\ Answer(c, "revoked")
     \/ ~sawRevoked[c] /\ CheckDraw(c) # "ok" /\ Answer(c, CheckDraw(c))
     \/ ~sawRevoked[c] /\ CheckDraw(c) = "ok" /\ Proceed(c, "committing")
  /\ UNCHANGED <<catalog, intent, ledger, completed, purchase, total, reads, result>>

\* Mutants: the commit trusts the pre-check for the cumulative cap, or for the kill switch.
CommitDrawTrustsCap(key, amount) ==
  IF revoked THEN "revoked" ELSE IF draws[key] > 0 THEN "consumed" ELSE "ok"
CommitDrawTrustsSwitch(key, amount) ==
  IF draws[key] > 0 THEN "consumed" ELSE IF spent + amount > Budget THEN "over-total" ELSE "ok"

\* commitDraw(): kill switch, single use and cumulative cap, decided in one step.
CommitDraw(key, amount) ==
  IF revoked THEN "revoked"
  ELSE IF draws[key] > 0 THEN "consumed"
  ELSE IF spent + amount > Budget THEN "over-total"
  ELSE "ok"

AppendDraw(key, amount) ==
  /\ draws' = [draws EXCEPT ![key] = amount]
  /\ spent' = spent + amount

CommitRefused(c) ==
  LET v == CommitDraw(purchase[c].key, total[c]) IN
  /\ step[c] = "committing"
  /\ v # "ok"
  /\ Answer(c, v)
  /\ UNCHANGED <<catalog, intent, ledger, completed, purchase, total, reads, result>>

Commit(c) ==
  /\ step[c] = "committing"
  /\ CommitDraw(purchase[c].key, total[c]) = "ok"
  /\ AppendDraw(purchase[c].key, total[c])
  /\ Proceed(c, "recording")
  /\ UNCHANGED <<catalog, intent, revoked, completed, purchase, total, reads, result>>

\* The store errors on commitDraw, having appended the draw or not.
CommitFails(c) ==
  /\ StoreMayFail
  /\ step[c] = "committing"
  /\ \/ UNCHANGED <<draws, spent>>
     \/ /\ CommitDraw(purchase[c].key, total[c]) = "ok"
        /\ AppendDraw(purchase[c].key, total[c])
  /\ Answer(c, "revocation-unavailable")
  /\ UNCHANGED <<catalog, intent, revoked, completed, purchase, total, reads, result>>

\* Mutant: the completion is answered and not recorded.
RecordMissing(c) ==
  /\ step[c] = "recording"
  /\ Answer(c, "ok")
  /\ UNCHANGED <<catalog, intent, ledger, completed, purchase, total, reads, result>>

\* Write the completion record (no settlement on a draw) and leave the mutex.
Record(c) ==
  /\ step[c] = "recording"
  /\ completed' = [completed EXCEPT ![purchase[c].key] = total[c]]
  /\ Answer(c, "ok")
  /\ UNCHANGED <<catalog, intent, ledger, purchase, total, reads, result>>

-----------------------------------------------------------------------------
\* spend() after completeOrder: read the headroom and return.
Return(c) ==
  /\ step[c] = "settled"
  /\ result' = [result EXCEPT ![c] =
       [ok |-> verdict[c] = "ok", amount |-> total[c], remaining |-> Budget - spent,
        reason |-> verdict[c]]]
  /\ Goto(c, "done")
  /\ UNCHANGED <<catalog, intent, ledger, completed, tails, purchase, total, reads, verdict>>

\* The headroom read is outside the try: an erroring store makes spend() itself throw.
ReturnThrows(c) ==
  /\ StoreMayFail
  /\ step[c] = "settled"
  /\ Goto(c, "threw")
  /\ UNCHANGED <<catalog, intent, ledger, completed, tails, purchase, total, reads, verdict, result>>

CallStep(c) ==
  \/ CompleteOrder(c) \/ Lookup(c) \/ Reprice(c) \/ RepriceThrows(c) \/ ReadPrior(c)
  \/ StoreFails(c) \/ Check(c) \/ CommitRefused(c) \/ Commit(c) \/ CommitFails(c)
  \/ Record(c) \/ Return(c) \/ ReturnThrows(c)

Environment ==
  \/ \E terms \in Terms : PreApprove(terms)
  \/ \E new \in Catalogs : ChangeCatalog(new)
  \/ Revoke
  \/ \E c \in Calls, p \in Purchases : Spend(c, p)

EngineNext == Environment \/ \E c \in Calls : CallStep(c)

EngineSpec == EngineInit /\ [][EngineNext]_engineVars

\* The event loop runs every pending continuation: each step a started call can take.
FairCalls == \A c \in Calls : WF_engineVars(CallStep(c))
FairEngineSpec == EngineSpec /\ FairCalls

-----------------------------------------------------------------------------
(* Properties *)

EngineTypeOK ==
  /\ catalog \in [Skus -> Entries \cup {Absent}]
  /\ intent \in Terms \cup {NoIntent}
  /\ revoked \in BOOLEAN
  /\ draws \in [Keys -> Nat]
  /\ spent \in Nat
  /\ completed \in [Keys -> Nat]
  /\ tails \in [Keys -> Seq(Calls)]
  /\ step \in [Calls -> Steps]
  /\ purchase \in [Calls -> Purchases \cup {NoPurchase}]
  /\ total \in [Calls -> Int]
  /\ sawRevoked \in [Calls -> BOOLEAN]
  /\ sawLedger \in [Calls -> BOOLEAN]
  /\ verdict \in [Calls -> Verdicts]
  /\ result \in [Calls -> [ok : BOOLEAN, amount : Int, remaining : Int, reason : Verdicts]]

\* The caps hold of the ledger whatever interleaving of draws the pre-checks let through
\* (two draws can both pass checkDraw against the same prior draws).
WithinCaps ==
  /\ spent <= Budget
  /\ \A k \in Keys : draws[k] <= PerSpend

\* The store failed a call of this key, which was answered without knowing whether it is charged.
InDoubt(k, c) == purchase[c].key = k /\ verdict[c] = "revocation-unavailable"

\* Committing a draw and recording the order are two steps.  A charged key without its record is
\* either between them, with the call that will write it still inside the mutex, or its draw was
\* appended by a call that the store failed.  Otherwise a retry would not find what it was charged.
DrawsAreRecorded ==
  \A k \in Keys : completed[k] # draws[k] =>
    /\ completed[k] = 0
    /\ \E c \in Calls :
         /\ total[c] = draws[k]
         /\ InDoubt(k, c) \/ (step[c] = "recording" /\ purchase[c].key = k)

\* A draw is refused only while its key is uncharged: concurrent calls and retries under one
\* key are echoed, never told "replay" or "consumed" for money that was taken; unless the store
\* failed a call of that key.
RefusalMeansUncharged ==
  [][\A c \in Calls :
       step[c] \in InsideMutex /\ verdict'[c] \in Refusals =>
         draws'[purchase[c].key] = 0 \/ \E d \in Calls : InDoubt(purchase[c].key, d)']_engineVars

\* What a success reports: the key was charged exactly once and is on record.
OkMeansCharged ==
  \A c \in Calls : result[c].ok =>
    LET k == purchase[c].key IN draws[k] > 0 /\ completed[k] = draws[k]

\* What the engine answers is what its ledger says.
AnswersMatchLedger == []OkMeansCharged /\ RefusalMeansUncharged

\* A throw or a refusal inside the per-order mutex never wedges the calls queued behind it.
EveryCallReturns ==
  \A c \in Calls : step[c] # "idle" ~> step[c] \in {"done", "threw"}

\* The engine keeps the promise of Allowance.
Phase == IF revoked THEN "stopped" ELSE IF intent = NoIntent THEN "closed" ELSE "open"
Promise == INSTANCE Allowance WITH phase <- Phase, charged <- draws
PromiseKept == Promise!Spec
=============================================================================
