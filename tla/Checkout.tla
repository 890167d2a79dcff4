------------------------------ MODULE Checkout ------------------------------
(***************************************************************************)
(* One order completed by a human who is present: the credential rail that *)
(* records what was proved, the payment rails, the shared completion seam  *)
(* (ceremony/completion.ts, its human-present branch) and the direct place *)
(* path, on the two hosts the packages ship: orders.serve() and the        *)
(* storefront.                                                             *)
(*                                                                         *)
(* Several server processes may serve the order.  The created order, the   *)
(* verification record and the completion record live in stores they       *)
(* share; the per-order mutex and the registry of credentials live in each *)
(* process and are lost when it restarts.  Every store access and every    *)
(* call of an external service is a point where other requests run.        *)
(*                                                                         *)
(*   proof:    idle -> presenting -> proving <-> merging -> done           *)
(*   payment:  ... proving -> queued -> pricing -> settling -> recording   *)
(*                 -> announcing -> clearing -> done                       *)
(*   place:    idle -> placing -> writing -> announcing -> done            *)
(*                                                                         *)
(* From "pricing" to "clearing" a payment is inside the order's mutex.     *)
(***************************************************************************)
EXTENDS Integers, KeyedMutex

CONSTANTS
  Calls,       \* HTTP requests; each is made once
  Processes,   \* server processes
  Shops,       \* deployments: the host, whether its policy gates the order, its own settle, whether
               \* the credentials are declared when a process starts (CredentAgentOptions)
  Catalogs,    \* what re-pricing the order's lines may give
  Requests,    \* what a request may ask for
  Claims,      \* "age", "membership" and the ids of custom gates
  References,  \* the references a processor may be asked to settle
  Dedupes,     \* the processor de-duplicates settle() on the reference
  Unreliable,  \* processes restart, a store may error, a settlement's answer may be lost
  NoRecord, NoRequest, NoProcess

Quotes == [price : Nat, discount : Nat, needs : SUBSET (Claims \ {"membership"})]
Rails == {"credential", "passkey", "delegated", "place"}
RailRequests == [rail : Rails, claims : SUBSET Claims, reference : References, amount : Nat]

ASSUME ShopsAssumption ==
  /\ Shops \subseteq [orders : BOOLEAN, gated : BOOLEAN, settles : BOOLEAN, declared : BOOLEAN]
  /\ \A s \in Shops : s.orders => ~s.settles
ASSUME CatalogsAssumption == Catalogs \subseteq Quotes /\ \A q \in Catalogs : q.discount <= q.price
ASSUME RequestsAssumption == Requests \subseteq RailRequests /\ NoRequest \notin Requests
ASSUME FlagsAssumption == {Dedupes, Unreliable} \subseteq BOOLEAN
ASSUME SentinelsAssumption ==
  /\ NoProcess \notin Processes
  /\ NoRecord \notin [rail : Rails, amount : Int, due : [total : Int, needs : SUBSET Claims]]

VARIABLES
  shop,          \* the deployment, fixed
  quoted,        \* the total stored with the order when it was created, fixed
  catalog,       \* the host's live catalog
  known,         \* the processes whose registry holds the order's credentials
  verification,  \* the order's verification record: the claims marked proved
  record,        \* the completion record
  announced,     \* how many times order.settled fired
  charges,       \* what the processor took, in order
  tails,         \* completeOrder's mutex, one per process
  step,          \* where each request stands
  request,       \* what it asked for
  process,       \* the process that serves it
  signed,        \* the total resolveOrder gave it
  passed,        \* every gate of the rail passed (before the presentation: its amount gate)
  vouched,       \* its presentation was accepted
  todo,          \* the claims it has still to write
  prev,          \* the verification record it read before a write
  thunk,         \* the delegated rail gave it a settle of its own
  due,           \* what the re-priced order asked of it: its total and the claims it needs
  answer         \* what the request was answered

host      == <<shop, quoted, catalog, known>>
store     == <<verification, record>>
money     == <<announced, charges>>
asked     == <<request, process>>
localVars == <<signed, passed, vouched, todo, prev, thunk, due>>
checkoutVars == <<host, store, money, tails, step, asked, localVars, answer>>

Steps == {"idle", "presenting", "proving", "merging", "queued", "pricing", "settling",
          "recording", "announcing", "clearing", "placing", "writing", "done", "lost"}
InsideMutex == {"pricing", "settling", "recording", "announcing", "clearing"}
Answers == {"none", "verified", "refused", "unknown", "error", "gates", "reprice", "age", "gate",
            "settlement", "completed", "verification required", "placed"}

Idle(c) == step[c] = "idle"
NothingDue == [total |-> 0, needs |-> {}]
Gates(claims) == claims \ {"age", "membership"}

CheckoutInit ==
  /\ shop \in Shops
  /\ catalog \in Catalogs
  /\ quoted = catalog.price
  /\ \E creator \in Processes : known = (IF shop.declared THEN Processes ELSE {creator})
  /\ verification = {}
  /\ record = NoRecord
  /\ announced = 0
  /\ charges = << >>
  /\ tails = NoTails(Processes)
  /\ step = [c \in Calls |-> "idle"]
  /\ request = [c \in Calls |-> NoRequest]
  /\ process = [c \in Calls |-> NoProcess]
  /\ signed = [c \in Calls |-> 0]
  /\ passed = [c \in Calls |-> FALSE]
  /\ vouched = [c \in Calls |-> FALSE]
  /\ todo = [c \in Calls |-> {}]
  /\ prev = [c \in Calls |-> {}]
  /\ thunk = [c \in Calls |-> FALSE]
  /\ due = [c \in Calls |-> NothingDue]
  /\ answer = [c \in Calls |-> "none"]

\* The default percentage (DEFAULT_LOYALTY_DISCOUNT_PCT, LOYALTY_DISCOUNT_PCT) of the lines.
DefaultDiscount == (10 * catalog.price) \div 100

\* orders.serve gives the discount of the order's policy, the storefront always the default one.
Discount == IF shop.orders THEN catalog.discount ELSE DefaultDiscount

\* The total of the order's lines at the live prices; the discount is opted into by a proof.
Total(proved) == catalog.price - (IF "membership" \in proved THEN Discount ELSE 0)

Goto(c, s) == step' = [step EXCEPT ![c] = s]
Respond(c, a) == Goto(c, "done") /\ answer' = [answer EXCEPT ![c] = a]
Serve(c, r, p) ==
  /\ Idle(c)
  /\ request' = [request EXCEPT ![c] = r]
  /\ process' = [process EXCEPT ![c] = p]

-----------------------------------------------------------------------------
(* The host *)

\* The storefront prices from its source's current snapshot; an orders.serve order is stored priced.
ChangeCatalog(new) ==
  /\ ~shop.orders
  /\ catalog' = new
  /\ UNCHANGED <<shop, quoted, known, store, money, tails, step, asked, localVars, answer>>

\* requirements(), run to render the order's page, registers the policy's credentials here.
OpenPage(p) ==
  /\ known' = known \cup {p}
  /\ UNCHANGED <<shop, quoted, catalog, store, money, tails, step, asked, localVars, answer>>

\* Mutant: a restarted process does not register the declared credentials.
RestartForgetful(p) ==
  /\ Unreliable
  /\ step' = [c \in Calls |-> IF process[c] = p /\ step[c] # "done" THEN "lost" ELSE step[c]]
  /\ tails' = [tails EXCEPT ![p] = << >>]
  /\ known' = known \ {p}
  /\ UNCHANGED <<shop, quoted, catalog, store, money, asked, localVars, answer>>

\* A process restarts: its requests are lost, its mutex and its registry start afresh.
Restart(p) ==
  /\ Unreliable
  /\ step' = [c \in Calls |-> IF process[c] = p /\ step[c] # "done" THEN "lost" ELSE step[c]]
  /\ tails' = [tails EXCEPT ![p] = << >>]
  /\ known' = IF shop.declared THEN known ELSE known \ {p}
  /\ UNCHANGED <<shop, quoted, catalog, store, money, asked, localVars, answer>>

-----------------------------------------------------------------------------
(* The rails up to completeOrder *)

\* POST credential/verify: a custom credential this process never registered is unknown to it.
BeginProof(c, r, p) ==
  /\ r.rail = "credential"
  /\ Serve(c, r, p)
  /\ IF Gates(r.claims) # {} /\ p \notin known
       THEN Respond(c, "unknown")
       ELSE Goto(c, "presenting") /\ UNCHANGED answer
  /\ UNCHANGED <<host, store, money, tails, localVars>>

\* Gate 1 of runGates and runDcGates: the discount in force is none or the default one, for
\* neither route hands them the percentage of the order's policy.
DiscountBound == catalog.price - Total(verification) \in {0, DefaultDiscount}

\* The delegated rail's amount gate: the amount the wallet authorized is the order's.
AmountBound(r) == r.amount = Total(verification)

\* POST passkey/verify, dc-payment/verify, delegated/verify: resolveOrder re-prices the order,
\* which is the one the rail's amount gate will judge.
BeginPayment(c, r, p) ==
  /\ r.rail = "passkey" \/ (r.rail = "delegated" /\ ~shop.orders)
  /\ Serve(c, r, p)
  /\ signed' = [signed EXCEPT ![c] = Total(verification)]
  /\ passed' = [passed EXCEPT ![c] = IF r.rail = "delegated" THEN AmountBound(r) ELSE DiscountBound]
  /\ Goto(c, "presenting")
  /\ UNCHANGED <<host, store, money, tails, vouched, todo, prev, thunk, due, answer>>

\* The claims of an accepted presentation that this process can evaluate.
Evaluated(c) ==
  IF request[c].rail = "delegated" /\ process[c] \notin known THEN {} ELSE request[c].claims

\* The presentation is verified: accepted (and its claims will be written) or not, the rail's
\* own gates passing or not.  The delegated rail settles if its registry knows of a payment.
Present(c) ==
  /\ step[c] = "presenting"
  /\ \E accepted \in BOOLEAN, ok \in BOOLEAN :
       /\ ok => accepted /\ (request[c].rail = "credential" \/ passed[c])
       /\ request[c].rail = "credential" => ok = accepted
       /\ request[c].rail = "passkey" => ok = (accepted /\ passed[c])
       /\ vouched' = [vouched EXCEPT ![c] = accepted]
       /\ passed' = [passed EXCEPT ![c] = ok]
       /\ todo' = [todo EXCEPT ![c] = IF accepted THEN Evaluated(c) ELSE {}]
  /\ thunk' = [thunk EXCEPT ![c] = request[c].rail = "delegated" /\ process[c] \in known]
  /\ Goto(c, "proving")
  /\ UNCHANGED <<host, store, money, tails, asked, signed, prev, due, answer>>

\* A presentation that does not parse, or a verifier that errors: the rail answers 400.
PresentThrows(c) ==
  /\ step[c] = "presenting"
  /\ Respond(c, "error")
  /\ UNCHANGED <<host, store, money, tails, asked, localVars>>

\* recordVerified, recordVerifiedGate, markAgeVerified, markGateVerified: read the record ...
ReadClaims(c) ==
  /\ step[c] = "proving"
  /\ todo[c] # {}
  /\ prev' = [prev EXCEPT ![c] = verification]
  /\ Goto(c, "merging")
  /\ UNCHANGED <<host, store, money, tails, asked, signed, passed, vouched, todo, thunk, due, answer>>

\* ... and write back what was read with one claim added.
WriteClaim(c, claim) ==
  /\ step[c] = "merging"
  /\ verification' = prev[c] \cup {claim}
  /\ todo' = [todo EXCEPT ![c] = @ \ {claim}]
  /\ Goto(c, "proving")
  /\ UNCHANGED <<host, record, money, tails, asked, signed, passed, vouched, prev, thunk, due, answer>>

EndProof(c) ==
  /\ step[c] = "proving"
  /\ todo[c] = {}
  /\ request[c].rail = "credential"
  /\ Respond(c, IF passed[c] THEN "verified" ELSE "refused")
  /\ UNCHANGED <<host, store, money, tails, asked, localVars>>

\* The rail calls the completion seam; completeOrder joins this process's queue for the order.
Submit(c) ==
  /\ step[c] = "proving"
  /\ todo[c] = {}
  /\ request[c].rail # "credential"
  /\ tails' = Join(tails, process[c], c)
  /\ Goto(c, "queued")
  /\ UNCHANGED <<host, store, money, asked, localVars, answer>>

-----------------------------------------------------------------------------
(* completeOrderLocked, human-present branch *)

\* The locked section returns (or throws): the answer goes out and the next run may start.
Answer(c, a) == tails' = Settle(tails, process[c]) /\ Respond(c, a)
Proceed(c, s) == Goto(c, s) /\ UNCHANGED <<tails, answer>>

\* Mutant: the locked section does not wait for the run before it.
LookupUnlocked(c) ==
  /\ step[c] = "queued"
  /\ \/ ~passed[c] /\ Answer(c, "gates")
     \/ passed[c] /\ record # NoRecord /\ Answer(c, "completed")
     \/ passed[c] /\ record = NoRecord /\ Proceed(c, "pricing")
  /\ UNCHANGED <<host, store, money, asked, localVars>>

\* A failed gate refuses; a recorded order is echoed and nothing is done again.
Lookup(c) ==
  /\ step[c] = "queued"
  /\ Executing(tails, process[c], c)
  /\ \/ ~passed[c] /\ Answer(c, "gates")
     \/ passed[c] /\ record # NoRecord /\ Answer(c, "completed")
     \/ passed[c] /\ record = NoRecord /\ Proceed(c, "pricing")
  /\ UNCHANGED <<host, store, money, asked, localVars>>

\* The custom gates a process can enforce are those of its registry; age is read off the lines.
Enforced(c) == IF process[c] \in known THEN catalog.needs ELSE catalog.needs \cap {"age"}

\* What the seam re-derives from the catalog: the total, and the claims the lines call for.
Demanded == [total |-> Total(verification), needs |-> catalog.needs]

Settling(c) == thunk[c] \/ shop.settles

\* Mutant: the signed total is not compared with the re-derived one.
PriceTrusting(c) ==
  /\ step[c] = "pricing"
  /\ due' = [due EXCEPT ![c] = Demanded]
  /\ \/ Enforced(c) \subseteq verification /\ Proceed(c, IF Settling(c) THEN "settling" ELSE "recording")
     \/ ~(Enforced(c) \subseteq verification) /\ Answer(c, "gate")
  /\ UNCHANGED <<host, store, money, asked, signed, passed, vouched, todo, prev, thunk>>

\* Read the verification record, then in one go: re-price, the age gate, the custom gates.
Price(c) ==
  LET missing == Enforced(c) \ verification IN
  /\ step[c] = "pricing"
  /\ due' = [due EXCEPT ![c] = Demanded]
  /\ \/ Total(verification) # signed[c] /\ Answer(c, "reprice")
     \/ Total(verification) = signed[c] /\ "age" \in missing /\ Answer(c, "age")
     \/ Total(verification) = signed[c] /\ missing # {} /\ "age" \notin missing /\ Answer(c, "gate")
     \/ /\ Total(verification) = signed[c]
        /\ missing = {}
        /\ Proceed(c, IF Settling(c) THEN "settling" ELSE "recording")
  /\ UNCHANGED <<host, store, money, asked, signed, passed, vouched, todo, prev, thunk>>

\* Mutant: the processor de-duplicates nothing.
ChargeAgain(c) ==
  charges' = Append(charges, [reference |-> request[c].reference, amount |-> signed[c]])

\* The processor takes the order's amount, once per reference if it de-duplicates.
Charge(c) ==
  charges' =
    IF Dedupes /\ \E i \in DOMAIN charges : charges[i].reference = request[c].reference
      THEN charges
      ELSE Append(charges, [reference |-> request[c].reference, amount |-> signed[c]])

SettlePayment(c) ==
  /\ step[c] = "settling"
  /\ Charge(c)
  /\ Proceed(c, "recording")
  /\ UNCHANGED <<host, store, announced, asked, localVars>>

\* Mutant: the throw does not settle the order's mutex.
SettleThrowsUnsettled(c) ==
  /\ step[c] = "settling"
  /\ Goto(c, "lost")
  /\ UNCHANGED <<host, store, money, tails, asked, localVars, answer>>

\* settle() throws, the money not taken or (its answer lost) taken: not completed, not recorded.
SettleThrows(c) ==
  /\ step[c] = "settling"
  /\ UNCHANGED charges \/ (Unreliable /\ Charge(c))
  /\ Answer(c, "settlement")
  /\ UNCHANGED <<host, store, announced, asked, localVars>>

\* Mutant: the verification record is cleared, the completion record is not kept.
RecordMissing(c) ==
  /\ step[c] = "recording"
  /\ Proceed(c, "clearing")
  /\ UNCHANGED <<host, store, money, asked, localVars>>

\* Write the completion record; orders.serve's store announces it next.
Record(c) ==
  /\ step[c] = "recording"
  /\ record' = [rail |-> request[c].rail, amount |-> signed[c], due |-> due[c]]
  /\ Proceed(c, IF shop.orders THEN "announcing" ELSE "clearing")
  /\ UNCHANGED <<host, verification, money, asked, localVars>>

\* A store errors: the locked section throws, the rail answers 400.
StoreThrows(c) ==
  /\ Unreliable
  /\ step[c] \in {"recording", "clearing"}
  /\ Answer(c, "error")
  /\ UNCHANGED <<host, store, money, asked, localVars>>

\* orders._complete fires order.settled after the write; a place request is then answered.
Announce(c) ==
  /\ step[c] = "announcing"
  /\ announced' = announced + 1
  /\ \/ request[c].rail = "place" /\ Respond(c, "placed") /\ UNCHANGED tails
     \/ request[c].rail # "place" /\ Proceed(c, "clearing")
  /\ UNCHANGED <<host, store, charges, asked, localVars>>

\* Clear the cart and the order's verification record, and answer.
Clear(c) ==
  /\ step[c] = "clearing"
  /\ verification' = {}
  /\ Answer(c, "completed")
  /\ UNCHANGED <<host, record, money, asked, localVars>>

-----------------------------------------------------------------------------
(* The place path: completes without a ceremony, outside the mutex *)

\* An order whose policy asks for anything is refused; reading the policy registers it.
BeginPlace(c, r, p) ==
  /\ r.rail = "place"
  /\ Serve(c, r, p)
  /\ known' = known \cup {p}
  /\ IF shop.gated THEN Respond(c, "verification required")
                   ELSE Goto(c, IF shop.orders THEN "placing" ELSE "writing") /\ UNCHANGED answer
  /\ UNCHANGED <<shop, quoted, catalog, store, money, tails, localVars>>

\* orders.serve: an order already completed is not recorded again.
PlaceLookup(c) ==
  /\ step[c] = "placing"
  /\ \/ record # NoRecord /\ Respond(c, "placed")
     \/ record = NoRecord /\ Goto(c, "writing") /\ UNCHANGED answer
  /\ UNCHANGED <<host, store, money, tails, asked, localVars>>

\* The storefront writes whatever is there already.
PlaceWrite(c) ==
  /\ step[c] = "writing"
  /\ record' = [rail |-> "place", amount |-> quoted, due |-> NothingDue]
  /\ IF shop.orders THEN Goto(c, "announcing") /\ UNCHANGED answer ELSE Respond(c, "placed")
  /\ UNCHANGED <<host, verification, money, tails, asked, localVars>>

-----------------------------------------------------------------------------
CallStep(c) ==
  \/ Present(c) \/ PresentThrows(c) \/ ReadClaims(c) \/ (\E claim \in todo[c] : WriteClaim(c, claim))
  \/ EndProof(c) \/ Submit(c) \/ Lookup(c) \/ Price(c) \/ SettlePayment(c) \/ SettleThrows(c)
  \/ Record(c) \/ StoreThrows(c) \/ Announce(c) \/ Clear(c) \/ PlaceLookup(c) \/ PlaceWrite(c)

Arrival(c, r, p) == BeginProof(c, r, p) \/ BeginPayment(c, r, p) \/ BeginPlace(c, r, p)

CheckoutNext ==
  \/ \E new \in Catalogs : ChangeCatalog(new)
  \/ \E p \in Processes : OpenPage(p) \/ Restart(p)
  \/ \E c \in Calls, r \in Requests, p \in Processes : Arrival(c, r, p)
  \/ \E c \in Calls : CallStep(c)

CheckoutSpec == CheckoutInit /\ [][CheckoutNext]_checkoutVars

\* The event loop runs every pending continuation, and awaited services answer or time out.
FairCheckoutSpec == CheckoutSpec /\ \A c \in Calls : WF_checkoutVars(CallStep(c))

-----------------------------------------------------------------------------
(* Properties *)

Accepted == {c \in Calls : vouched[c]}
Presented == UNION {request[c].claims : c \in Accepted}
SoldByRail == record # NoRecord /\ record.rail # "place"

\* The order is charged once however its requests overlap, are retried, or land on different
\* processes, and whatever fails between the charge and the record.
ChargedOnce == Len(charges) <= 1

\* While no store and no answer is lost, money taken is either on record or about to be, by a
\* request still inside the mutex: a refused or failed payment has taken nothing.
ChargesAreRecorded ==
  ~Unreliable /\ charges # << >> /\ record = NoRecord =>
    \E c \in Calls : step[c] = "recording" /\ Executing(tails, process[c], c)

\* What a rail recorded is the total the catalog gave when the order was last priced, what some
\* shopper authorized in a request whose gates passed, and, where the shop settles, what the
\* processor took: no re-price and no discount slips in between.
SoldAsAuthorized ==
  SoldByRail =>
    /\ record.amount = record.due.total
    /\ \E c \in Calls :
      /\ passed[c] /\ request[c].rail = record.rail /\ signed[c] = record.amount
      /\ Settling(c) => \E i \in DOMAIN charges :
                          charges[i] = [reference |-> request[c].reference, amount |-> record.amount]

\* Where the credentials are declared, every claim the order demanded when it was priced for the
\* last time had been presented, for this order: a lost update of the verification record only
\* ever loses claims, and a restart does not open a gate.  Where they are not, age still had been:
\* it is re-derived from the priced lines, on a process that restarted or never rendered the page.
SoldAsProved ==
  SoldByRail => (IF shop.declared THEN record.due.needs ELSE record.due.needs \cap {"age"}) \subseteq Presented

\* A gated order is completed by a rail only, and announced at most once: what is left of a Sale (below)
\* where a store, an answer or the process may be lost.
GatedOrderSettlesOnce ==
  shop.gated => announced <= 1 /\ (record # NoRecord => record.rail # "place")
\* The comment on the place handler: a retried or double-clicked POST must not re-record the
\* order or fire order.settled again.
AnnouncedOnce == announced <= 1

\* The comment on Gate 1 of runGates: the configured percentage is what lets a legitimately
\* discounted order pass, so a payer whose presentation was accepted passes the amount gate.
DiscountedOrderPasses ==
  \A c \in Calls : step[c] = "proving" /\ request[c].rail = "passkey" /\ vouched[c] => passed[c]

\* A refusal, a throw or a failed settlement inside the mutex never wedges the requests behind it.
EveryRequestAnswered == \A c \in Calls : step[c] # "idle" ~> step[c] \in {"done", "lost"}

-----------------------------------------------------------------------------
(* The promise: a gated order is a Sale *)

\* The payments a shopper agreed to: the presentation was accepted, and every gate passed.
Agreed == {c \in Calls : vouched[c] /\ passed[c] /\ request[c].rail # "credential"}
Agreements == {[rail |-> request[c].rail, amount |-> signed[c]] : c \in Agreed}

\* An order nobody gates may be placed without an agreement: its sale is left out.
Order == INSTANCE Sale WITH
  agreed <- IF shop.gated THEN Agreements ELSE {},
  taken  <- IF shop.gated THEN [i \in DOMAIN charges |-> charges[i].amount] ELSE << >>,
  sold   <- IF shop.gated /\ record # NoRecord
              THEN <<[rail |-> record.rail, amount |-> record.amount]>> ELSE << >>,
  told   <- IF shop.gated THEN announced ELSE 0

\* On one process whose stores and processor lose nothing, the requests that overlap on a gated
\* order, re-priced and retried, add up to one sale: an amount is taken only if a shopper agreed
\* to it, once, before the sale is recorded, the record is that agreement, and the shop hears of
\* it once, afterwards.
SaleKept == Order!Spec
=============================================================================
