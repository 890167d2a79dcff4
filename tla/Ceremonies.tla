----------------------------- MODULE Ceremonies -----------------------------
(***************************************************************************)
(* The ceremonies in front of the completion seam: the pages of one order, *)
(* the request each prefetches and seals, the wallet that answers it, and  *)
(* the verify handlers (ceremony/credential-gate, dc-payment, passkey,     *)
(* delegated-payment).                                                     *)
(*                                                                         *)
(* Nothing of a ceremony is kept on the server: what verify must know of   *)
(* the request it answers travels through the page, sealed with an expiry. *)
(* So the order is priced four times - when the page is rendered, when its *)
(* request is built, when verify resolves it, when it is completed - and   *)
(* the catalog may change before each.  The wallet prompt is called in the *)
(* tap itself, with the request the page has ready; a page keeps one ready *)
(* by fetching another after every failure, and two fetches may overlap.   *)
(*                                                                         *)
(*   closed -> open -> prompt -> posted -> resolved -> judged -> open      *)
(*                                            judged -> completing -> done *)
(*                                                                         *)
(* The completion seam and the verification record are Checkout's; here    *)
(* each is one step.                                                       *)
(***************************************************************************)
EXTENDS Integers, FiniteSets

CONSTANTS
  Tabs,         \* open pages of the order
  RailsOf,      \* which rails each may be of
  Quotes,       \* what pricing the order's lines may give: a total, and the strictest minimumAge
                \* (0 when no line has one)
  HolderAge,    \* how old the wallet's holder is
  PolicyAge,    \* N of the age.over(N) the delegated rail's policy registered
  Ttl,          \* for how many ticks what a rail seals can be opened
  MaxClock,     \* bounds the clock
  MaxBuilt,     \* bounds the requests built for each tab
  MaxRepriced,  \* bounds the changes of the catalog
  None

Wallets == {"age", "payment"}                \* the page prefetches a request
Prompts == {"passkey", "delegated"}          \* the tap fetches it
Demos == {"age demo", "payment demo"}        \* no wallet: the page presents claims of its own
CeremonyRails == Wallets \cup Prompts \cup Demos
Proofs == {"age", "age demo"}
Payments == CeremonyRails \ Proofs
Platforms == {"openid4vp", "org-iso-mdoc"}   \* which of the two protocols offered the browser takes

ASSUME QuotesAssumption == Quotes \subseteq [total : Nat, limit : Nat] /\ {HolderAge, PolicyAge} \subseteq Nat
ASSUME RailsAssumption == RailsOf \in [Tabs -> SUBSET CeremonyRails]
ASSUME NoneAssumption == None \notin [number : Nat, rail : CeremonyRails, order : Quotes, until : Nat]
ASSUME TtlAssumption == Ttl \in [Wallets \cup Prompts -> Nat]
ASSUME CeremoniesBounds == {MaxClock, MaxRepriced} \subseteq Nat /\ MaxBuilt \in [Tabs -> Nat]

VARIABLES
  clock, repriced,
  quote,       \* the order as the catalog prices it now: its total and its age limit
  ageVerified, \* the order's verification record
  sale,        \* the completion record
  page,        \* each tab's rail, platform and the order it was rendered with
  ready,       \* reqData: the request it holds for the next tap
  pending,     \* its fetches under way
  built,       \* how many requests were built for it
  shown,       \* rd: the request its wallet was shown
  answer,      \* what the wallet answered: the over-age claims it disclosed, whether it signed
  token,       \* the sealed context it sends to verify
  view,        \* the order verify resolved
  step, verdict,
  proved,      \* ghost: the over-age claims of the presentations that were recorded
  raised       \* ghost: the age limit went up after a proof, or while one was being verified

server == <<clock, repriced, quote>>
standing == <<ageVerified, sale, proved, raised>>
tabVars == <<page, ready, pending, built, shown, answer, token, view, step, verdict>>
ceremonyVars == <<server, standing, tabVars>>

Silent == [over |-> {}, signs |-> FALSE]

CeremoniesInit ==
  /\ clock = 0 /\ repriced = 0
  /\ quote \in Quotes
  /\ ageVerified = FALSE /\ sale = None
  /\ page = [t \in Tabs |-> None]
  /\ ready = [t \in Tabs |-> None]
  /\ pending = [t \in Tabs |-> {}]
  /\ built = [t \in Tabs |-> 0]
  /\ shown = [t \in Tabs |-> None]
  /\ answer = [t \in Tabs |-> Silent]
  /\ token = [t \in Tabs |-> None]
  /\ view = [t \in Tabs |-> None]
  /\ step = [t \in Tabs |-> "closed"]
  /\ verdict = [t \in Tabs |-> "none"]
  /\ proved = {} /\ raised = FALSE

Rail(t) == page[t].rail
Goto(t, s) == step' = [step EXCEPT ![t] = s]

\* requiredAgeForOrder(order) ?? 21
Threshold(q) == IF q.limit = 0 THEN 21 ELSE q.limit

-----------------------------------------------------------------------------
(* The merchant, and time *)

\* The catalog changes, or a membership proved elsewhere lowers the total.
ChangeQuote(q) ==
  /\ repriced < MaxRepriced
  /\ q # quote
  /\ repriced' = repriced + 1
  /\ quote' = q
  /\ raised' = (raised \/ (q.limit > quote.limit
                            /\ (ageVerified \/ \E t \in Tabs : step[t] = "resolved")))
  /\ UNCHANGED <<clock, ageVerified, sale, proved, tabVars>>

TimePasses ==
  /\ clock < MaxClock
  /\ clock' = clock + 1
  /\ UNCHANGED <<repriced, quote, standing, tabVars>>

-----------------------------------------------------------------------------
(* Requests *)

\* What a request to the wallet says of the order, and until when what was sealed with it opens.
\* Its number stands for the fresh key or challenge in it.
Request(t) ==
  [number |-> built[t] + 1, rail |-> Rail(t), order |-> quote, until |-> clock + Ttl[Rail(t)]]

\* prefetch(): forget the request at hand, fetch one (as often as MaxBuilt lets it).
Prefetch(t) ==
  /\ ready' = [ready EXCEPT ![t] = None]
  /\ pending' = [pending EXCEPT ![t] = @ \cup (IF built[t] < MaxBuilt[t] THEN {Request(t)} ELSE {})]
  /\ built' = [built EXCEPT ![t] = IF @ < MaxBuilt[t] THEN @ + 1 ELSE @]

\* ageDcql: the boolean at the threshold, and the 18 bracket.
DcqlClaims(n) == IF n > 18 THEN {n, 18} ELSE {18}
\* mdocDocSpec: the booleans bracketing the threshold.
MdocElements(n) == IF n >= 21 THEN {21, 18} ELSE {18}

\* The over-age booleans a request asks for: the delegated rail asks what its policy registered (with
\* no when(), so of every order), the age rail what the order needs.
Requested(t) ==
  LET n == IF Rail(t) = "delegated" THEN PolicyAge ELSE Threshold(shown[t].order) IN
  IF page[t].platform = "org-iso-mdoc" THEN MdocElements(n) ELSE DcqlClaims(n)

-----------------------------------------------------------------------------
(* The page *)

\* GET the page: the order as it is priced now.  A page with a wallet button prefetches.
OpenPage(t, rail, platform) ==
  /\ step[t] = "closed"
  /\ rail \in RailsOf[t]
  /\ rail # "age" => platform = "openid4vp"
  /\ page' = [page EXCEPT ![t] = [rail |-> rail, platform |-> platform, order |-> quote]]
  /\ Goto(t, "open")
  /\ UNCHANGED <<server, standing, ready, pending, built, shown, answer, token, view, verdict>>

\* The page's script prefetches: when it starts, or on a tap that finds nothing ready.
Prepare(t) ==
  /\ step[t] = "open"
  /\ Rail(t) \in Wallets
  /\ ready[t] = None
  /\ built[t] < MaxBuilt[t]
  /\ Prefetch(t)
  /\ UNCHANGED <<server, standing, page, shown, answer, token, view, step, verdict>>

\* A response arrives, in whatever order, whatever the page is doing by then.
Arrive(t, r) ==
  /\ pending' = [pending EXCEPT ![t] = @ \ {r}]
  /\ ready' = [ready EXCEPT ![t] = r]
  /\ UNCHANGED <<server, standing, page, built, shown, answer, token, view, step, verdict>>

\* A fetch fails, or is answered with an error, which is no request.
FetchFails(t, r) ==
  /\ pending' = [pending EXCEPT ![t] = @ \ {r}]
  /\ \/ UNCHANGED ready
     \/ ready' = [ready EXCEPT ![t] = None]
  /\ UNCHANGED <<server, standing, page, built, shown, answer, token, view, step, verdict>>

\* The tap calls the wallet with the request at hand: const rd = reqData.
TapWallet(t) ==
  /\ step[t] = "open"
  /\ Rail(t) \in Wallets
  /\ ready[t] # None
  /\ shown' = [shown EXCEPT ![t] = ready[t]]
  /\ Goto(t, "prompt")
  /\ UNCHANGED <<server, standing, page, ready, pending, built, answer, token, view, verdict>>

\* The passkey and delegated pages fetch their options or their handoff in the tap.
TapPrompt(t) ==
  /\ step[t] = "open"
  /\ Rail(t) \in Prompts
  /\ built[t] < MaxBuilt[t]
  /\ shown' = [shown EXCEPT ![t] = Request(t)]
  /\ built' = [built EXCEPT ![t] = @ + 1]
  /\ Goto(t, "prompt")
  /\ UNCHANGED <<server, standing, page, ready, pending, answer, token, view, verdict>>

\* The instant demo posts at once: the claim at the page's threshold, or the page's amount.
TapDemo(t) ==
  /\ step[t] = "open"
  /\ Rail(t) \in Demos
  /\ answer' = [answer EXCEPT ![t] =
                  [over |-> IF Rail(t) = "age demo" THEN {Threshold(page[t].order)} ELSE {},
                   signs |-> TRUE]]
  /\ Goto(t, "posted")
  /\ UNCHANGED <<server, standing, page, ready, pending, built, shown, token, view, verdict>>

\* Mutant: the page sends the context of the request it holds by now.
SentLatest(t) == IF Rail(t) \in Wallets THEN ready[t] ELSE shown[t]

\* The context the page sends along is the one that came with the request the wallet was shown.
Sent(t) == shown[t]

\* The holder consents.  The wallet discloses what it was asked for and is true, and signs the
\* transaction data, unless its build predates that; the passkey signs the challenge; the external
\* verifier reports what its wallet signed.
WalletAnswers(t) ==
  /\ step[t] = "prompt"
  /\ \E signs \in BOOLEAN :
       /\ ~signs => Rail(t) \in {"payment", "delegated"}
       /\ answer' = [answer EXCEPT ![t] =
                       [over |-> IF Rail(t) \in {"age", "delegated"}
                                   THEN {n \in Requested(t) : HolderAge >= n} ELSE {},
                        signs |-> signs]]
  /\ token' = [token EXCEPT ![t] = Sent(t)]
  /\ Goto(t, "posted")
  /\ UNCHANGED <<server, standing, page, ready, pending, built, shown, view, verdict>>

\* The page after a ceremony that did not complete: the buttons work again, on a fresh request.
Reopen(t) ==
  /\ Goto(t, "open")
  /\ shown' = [shown EXCEPT ![t] = None]
  /\ answer' = [answer EXCEPT ![t] = Silent]
  /\ token' = [token EXCEPT ![t] = None]
  /\ view' = [view EXCEPT ![t] = None]
  /\ verdict' = [verdict EXCEPT ![t] = "none"]
  /\ IF Rail(t) \in Wallets THEN Prefetch(t) ELSE UNCHANGED <<ready, pending, built>>
  /\ UNCHANGED page

\* The holder closes the prompt, or it fails.
Cancel(t) ==
  /\ step[t] = "prompt"
  /\ Reopen(t)
  /\ UNCHANGED <<server, standing>>

-----------------------------------------------------------------------------
(* POST verify *)

\* openReaderContext, openMdocContext, verifyChallenge, openReference.
InTime(t) == token[t] # None => clock <= token[t].until

\* The reference of the delegated rail is opened before the order is resolved ...
Expired(t) == verdict' = [verdict EXCEPT ![t] = "expired"] /\ Goto(t, "judged")

ReferenceLate(t) ==
  /\ step[t] = "posted"
  /\ Rail(t) = "delegated" /\ ~InTime(t)
  /\ Expired(t)
  /\ UNCHANGED <<server, standing, page, ready, pending, built, shown, answer, token, view>>

\* resolveOrder.
Resolve(t) ==
  /\ step[t] = "posted"
  /\ Rail(t) = "delegated" => InTime(t)
  /\ view' = [view EXCEPT ![t] = quote]
  /\ Goto(t, "resolved")
  /\ UNCHANGED <<server, standing, page, ready, pending, built, shown, answer, token, verdict>>

\* ... the contexts of the other rails after it.
ContextLate(t) ==
  /\ step[t] = "resolved"
  /\ Rail(t) # "delegated" /\ ~InTime(t)
  /\ Expired(t)
  /\ UNCHANGED <<server, standing, page, ready, pending, built, shown, answer, token, view>>

\* The answer is decrypted with the key, or checked against the challenge, that was sealed.
Readable(t) == Rail(t) \in Demos \/ (token[t] # None /\ token[t].number = shown[t].number)

\* Mutant: the proof is evaluated at the threshold its request was built for.
EvaluatesAsAsked(t) ==
  Threshold(IF Rail(t) \in Demos THEN page[t].order ELSE shown[t].order) \in answer[t].over

\* evaluateCredential: the explicit positive at the threshold of the order as it is now.
Evaluates(t) == Threshold(view[t]) \in answer[t].over

\* What the human was shown, and authorized: the page's amount, the one in the request.
Authorized(t) ==
  (IF Rail(t) \in {"passkey", "payment demo"} THEN page[t] ELSE shown[t]).order.total

\* Mutant: the transaction data the wallet signed is not compared with the order.
HashOnly(t) == answer[t].signs

\* runDcGates, runDelegatedGates: signed, and for the amount of the order as it is now.  The
\* passkey's assertion carries no amount.
AmountBound(t) ==
  Rail(t) = "passkey" \/ (answer[t].signs /\ Authorized(t) = view[t].total)

\* The age rail records what it accepts; so does the delegated rail, of a presentment its verifier
\* approved, whether or not the amount is bound.
Proves(t) ==
  \/ Rail(t) \in Proofs /\ Evaluates(t)
  \/ Rail(t) = "delegated" /\ answer[t].signs /\ Evaluates(t)

Verify(t) ==
  LET accepts == IF Rail(t) \in Proofs THEN Evaluates(t) ELSE AmountBound(t) IN
  /\ step[t] = "resolved"
  /\ Rail(t) = "delegated" \/ InTime(t)
  /\ verdict' = [verdict EXCEPT ![t] = IF Readable(t) /\ accepts THEN "accepted" ELSE "refused"]
  /\ ageVerified' = (ageVerified \/ (Readable(t) /\ Proves(t)))
  /\ proved' = proved \cup {n \in answer[t].over : Readable(t) /\ Proves(t)}
  /\ Goto(t, "judged")
  /\ UNCHANGED <<server, sale, raised, page, ready, pending, built, shown, answer, token, view>>

\* completeOrder re-prices the order and re-derives its age limit.
Passes(t) == view[t].total = quote.total /\ (quote.limit > 0 => ageVerified)

\* The seam refuses a gate that failed; then echoes an order on record; then refuses a re-price, or an
\* age limit without a proof.
Completes(t) == Rail(t) \in Payments /\ verdict[t] = "accepted" /\ (sale # None \/ Passes(t))

\* The order is recorded once, and its proofs cleared.
Complete(t) ==
  /\ step[t] = "judged" /\ Completes(t)
  /\ sale' = IF sale # None THEN sale
             ELSE [rail |-> Rail(t), amount |-> view[t].total, limit |-> quote.limit,
                   authorized |-> Authorized(t)]
  /\ ageVerified' = (sale # None /\ ageVerified)
  /\ Goto(t, "done")
  /\ UNCHANGED <<server, proved, raised, page, ready, pending, built, shown, answer, token, view, verdict>>

\* A proof sends the human back to the checkout.
Proven(t) == Rail(t) \in Proofs /\ verdict[t] = "accepted"

Done(t) ==
  /\ step[t] = "judged" /\ Proven(t)
  /\ Goto(t, "done")
  /\ UNCHANGED <<server, standing, page, ready, pending, built, shown, answer, token, view, verdict>>

\* Refused, by verify or by the seam.
Refuse(t) ==
  /\ step[t] = "judged" /\ ~Proven(t) /\ ~Completes(t)
  /\ Reopen(t)
  /\ UNCHANGED <<server, standing>>

-----------------------------------------------------------------------------
CeremoniesNext ==
  \/ \E q \in Quotes : ChangeQuote(q)
  \/ TimePasses
  \/ \E t \in Tabs :
       \/ \E rail \in CeremonyRails, platform \in Platforms : OpenPage(t, rail, platform)
       \/ \E r \in pending[t] : Arrive(t, r) \/ FetchFails(t, r)
       \/ Prepare(t) \/ TapWallet(t) \/ TapPrompt(t) \/ TapDemo(t) \/ WalletAnswers(t) \/ Cancel(t)
       \/ ReferenceLate(t) \/ Resolve(t) \/ ContextLate(t)
       \/ Verify(t) \/ Complete(t) \/ Done(t) \/ Refuse(t)

CeremoniesSpec == CeremoniesInit /\ [][CeremoniesNext]_ceremonyVars

-----------------------------------------------------------------------------
(* Properties *)

\* txData.ts, verify.ts: what is charged is what the wallet's holder was shown and signed, however the
\* order was re-priced between the page, the request, the verification and the completion.  (Not of a
\* passkey: its assertion carries no amount, and the one on its page is not sent.)
PaidAsSigned == sale # None /\ sale.rail # "passkey" => sale.amount = sale.authorized

\* An 18+ proof never satisfies a 21+ gate: a sale under an age limit follows a proof at that limit or
\* above, whatever the limit was when the page was rendered or its request built.  (Unless the limit
\* went up after the proof was evaluated: the verification record says "proved", not at what age.)
ProvedAtThreshold ==
  sale # None /\ sale.limit > 0 => raised \/ \E n \in proved : n >= sale.limit

\* doc-spec.ts, envelope.ts: a wallet that holds the claim satisfies either path.  What a holder old
\* enough, or a payer whose wallet signs, gives in time for an order that has not changed is accepted:
\* the right context is sent with it whatever was fetched meanwhile, and what was asked for is what
\* verify requires.
TimelyAnswerAccepted ==
  \A t \in Tabs :
    /\ step[t] = "judged" /\ verdict[t] # "expired" /\ Rail(t) \in Wallets \cup Prompts
    /\ shown[t].order = view[t]
    /\ IF Rail(t) = "age" THEN HolderAge >= Threshold(view[t]) ELSE answer[t].signs
    => verdict[t] = "accepted"
=============================================================================
