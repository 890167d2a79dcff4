# CredentAgent: a TLA+ model of its grants, checkout and agents

CredentAgent (`packages/credentagent-gate`, `packages/credentagent-storefront`) lets an AI agent
buy things for a person: either a person is present and proves what an order asks for, or a person
has approved a grant earlier and the agent spends within it. The repository also holds the agent
that works on its own issues (`ci/issue-agent`). This directory models the parts that keep state,
move money or take turns with people, checks them with TLC on small instances and proves every safety
property that holds there with TLAPS, for every instance.

Paths below are relative to `src/packages/`; `gate/` is `credentagent-gate/src/`, `store/` is
`credentagent-storefront/src/`, `ia/` is `src/ci/issue-agent/`.

## Inventory

| Component | Code | State | Operations | What is hard | What makes it correct |
|---|---|---|---|---|---|
| Per-key mutex | `gate/keyed-mutex.ts` | a promise tail per key, per process | `run` | throws inside; other processes are not excluded | one at a time, FIFO, never wedged |
| Spending engine | `gate/delegated.ts`, `ceremony/completion.ts`, `mandate.ts`, `revocation.ts` | sealed intent, draw ledger, kill switch, completion records | `preApprove`, `spend`, `usage`, `revoke` | pre-check and commit separated by awaits; retries; a re-priced catalog; store outages | caps hold, one charge per key, revoke is final, what is charged is on record |
| Grants facade | `gate/grants.ts`, `grants-age.ts` | one record per grant: status, proofs, signed products, cache | create, approve, deny, credential proofs, device sealing, `spend`, `revoke` | half of revoke is outside the lock; signing awaits a wallet; the cache replays | one decision, revoke wins, receipts match the ledger, restricted goods need a proof |
| Grant routes | `gate/grants-serve.ts`, `ceremony/grant-credential`, `ceremony/intent-sign` | none of their own | HTTP handlers | data captured before an await and used after it | what is sealed is what was shown and signed |
| Completion seam | `ceremony/completion.ts` | completion records, verification records, per-order mutex | `completeOrder` | overlapping requests, several processes, settle-then-fail | charged once, recorded once, sold at the authorized price with every claim proved |
| Rails | `ceremony/{passkey,dc-payment,delegated-payment,credential-gate}`, `mount.ts` | the verification record, by read-modify-write | `verify` handlers | lost updates, stale totals | an unproved order is not completed |
| Orders facade | `gate/orders.ts`, `orders-serve.ts` | created and completed orders | create, retrieve, place, complete | place is outside the mutex | a gated order is only completed by a rail |
| Client registry | `gate/client.ts` | credentials met by this process, a bounded map of policies per order | `requirements`, `mount`, `on` | lost at restart, absent in other processes, the oldest policy evicted | gates are enforced where they are known, age everywhere; forgetting never opens a gate |
| Storefront | `store/server.ts`, `state.ts` | carts, issued cart ids, sessions, created and completed orders | MCP tools, checkout, place-order, status | two callers on one cart, a completion that empties it, restarts | one conversation never sees another's cart; a sold cart is emptied |
| Webhooks | `gate/webhooks.ts` | endpoints, in-memory deliveries | `register`, `deliver`, `verifyEvent` | timeouts, retries, late and duplicated posts, restarts | every delivery ends; a receiver acts once |
| Multi-round requests | `gate/mrtr.ts`, the grant tool in `store/server.ts` | sealed in the client's hands | `open`, `ask`, mint, redial | replay of a round, from another session, after a decision | bound to tool, parameters, principal, expiry; a redial never mints |
| AP2 chain | `gate/ap2/chain/` | none (the merchant's ledger and nonces are its caller's) | sign a hop, verify a purchase | hops re-used, spelled anew, paired; two verifications at once | what is sold is what one person signed |
| `line_items` limit | `gate/ap2/chain/constraints.ts` | none | a maximum flow | a unit placed too early must move | fits exactly when an assignment exists |
| Manifest, credentials, envelopes | `gate/manifest.ts`, `credentials.ts`, `envelope.ts`, `gated.ts`, `host.ts` | none | pure resolution | - | what is required is what the policy says |
| Ceremony pages | `ceremony/*/page.ts`, their `request.ts` | the request a page holds for the next tap | open, prefetch, tap, verify, retry | the order is priced anew at each; fetches overlap; requests expire | what is charged was signed, an age proof is at the limit, a good answer is accepted |
| Tokens, mdoc, presentations | `ceremony/mdoc`, `challengeToken.ts`, `referenceToken.ts`, `cartMandate.ts` | none: sealed in the page's hands | seal, open, verify | cryptography | unforgeable, request-bound, expiring |
| Issue agent: briefs | `ia/run.mjs`, `brief.mjs`, `.github/workflows/issue-agent.yml`, `issue-agent-run.yml` | the issue's comments, labels, briefs | a run per label or comment, an hourly sweep | comments cross, are lost, cancel runs | nothing said is ignored; what is built was approved |
| Issue agent: implementation | `ia/run.mjs`, `checks.mjs` | a working tree, money, rounds | implement, gates, root tests, reviewers, publish | a tree changed after it was tested; three reviewers spend at once | ready means tested and reviewed; the budget holds |
| Issue agent: review loop | `ia/run.mjs`, `checks.mjs`, `.github/workflows/issue-agent-review.yml` | marks on the pull request | assess, fix, push, sweep | one waiting run; pushes, merges and verdicts race | bounded, never stranded, ready means reviewed |
| Issue agent: tickets | `ia/run.mjs`, `scope.mjs` | sub-issues, labels | split, run, unblock | unblocks race each other and the tickets' runs | no ticket is forgotten |
| Storefront widget | `store/ui/` | an optimistic cart, a queue of updates | - | - | - |
| Checkout page, cards; doctor; Redis; deployment, examples | the rest | - | - | - | - |

How they interact: the HTTP routes call the Grants facade or the rails; the facade calls the engine
(`rec.engine.spend`, `.revoke`) while holding the grant's mutex; the engine and every rail end in
`completeOrder`, which holds the order's mutex, re-prices from the host's catalog, and writes the
completion record. `orders.serve` announces the completion once the record is written: to its
listeners and, through the webhooks, to endpoints. The storefront's tools share its cart store with
that completion, which empties the cart an order came from; its grant tool opens and redials grants.
All of this is single-threaded JavaScript: the interleavings are those at `await`, plus, when the
stores are shared, those of several processes. The issue agent is a set of GitHub workflows: what
interleaves are jobs, the people on the issue or the pull request, and events that GitHub queues,
drops or cancels.

## Modules

| Module | What it is |
|---|---|
| `KeyedMutex` | The mutex as a sequence of waiting runs per key: `Join` appends, `Executing` is being at the head, `Settle` removes the head whether it returned or threw. |
| `Allowance` | The abstract promise of a grant: closed, open, stopped; a charge per key within the caps, only while open. |
| `DelegatedGrant` | One grant's engine; one call of `spend` is split at its awaits. Extends `KeyedMutex`; instantiates `Allowance`. |
| `Grants` | The facade and its rails over the engine, by extension: the facade's steps drive the engine's actions, conjoined with the facade's own variables. |
| `Sale` | The abstract promise of a gated order: agreements are made and kept; money is taken once, for one of them; the order is sold once, on one of them; then the shop is told, once. |
| `Checkout` | One order completed by a person who is present, on both hosts and on several processes. Extends `KeyedMutex`; instantiates `Sale`. |
| `DelegatedGrant_proofs`, `Grants_proofs`, `Checkout_proofs`, `Orders_proofs`, `Storefront_proofs`, `Purchases_proofs`, `Ceremonies_proofs`, `Review_proofs` | Theorems and their proofs; `Review_proofs` is about the four modules of the issue agent, `Orders_proofs` about `Webhooks` too, `Storefront_proofs` about `Rounds`, `Purchases_proofs` about `LineItems`. |
| `Webhooks` | Events, attempts, timeouts and retries of the sender; the receiver behind a lossy network. |
| `Orders` | Several orders with policies of their own, a bounded memory of policies, restarts. Extends `Webhooks`: an announced order is an event. |
| `Storefront` | Carts, cart ids and sessions; checkout; the completion that empties a cart. |
| `Rounds` | The grant tool over sealed multi-round states: naming, sizing, minting, redialling. |
| `Purchases` | Delegated purchases: two signed permissions, agents' hops, verification, the merchant's ledger. |
| `Ceremonies` | The pages of one order, their sealed requests, the wallet's answers and the verify handlers, while the order is re-priced. |
| `LineItems` | The maximum flow behind a `line_items` limit, one step at a time, against a reference. |
| `ReviewLoop` | The loop on one pull request: its workflow's queue, its three jobs, the reviewer's scope, people, main, and calls to GitHub that fail. |
| `Briefs` | The conversation about one issue up to the build. |
| `Implementation` | One build: its gates, rounds, reviewers, budget and the pull request it opens. |
| `Tickets` | The tickets of a split issue and the jobs that unblock them. |
| `MCDelegatedGrant`, `MCGrants`, `MCCheckout`, `MCOrders`, `MCCeremonies` | The instances TLC checks. |
| `MCAgent` | `Storefront`, `Rounds`, `Purchases`, `LineItems`, `Ceremonies` side by side, one moving at a time. |
| `MCReview` | `ReviewLoop`, `Briefs`, `Implementation`, `Tickets` side by side, one moving at a time. |

The parts of `MCAgent` share no state in the code, except that `Ceremonies` ends in the completion seam,
which `Checkout` interleaves and which is one step there; nor do those of `MCReview` beyond what each leaves
open about the others (a build is a step of `Briefs`, a pull request leaving the loop is
`LoopHandsOver`), so that interleaving them would add states and no behaviours.

A definition named `...Missing`, `...Trusting`, `...Unlocked` and the like, commented as a mutant,
is a plausible bug of the definition after it. No specification uses it; putting it in that
definition's place must break the property `PROJECT.json` pairs it with.

### State and actions against the code

*DelegatedGrant.* `catalog` is the host's catalog behind `buildCatalog`; `intent` the proofs
`preApprove` seals (the caps are constants, the merchant too); `revoked`, `draws`, `spent` the
`MemoryRevocationStore`; `completed` the completion records; `tails` `completionSerializer`. The
steps of a call follow the awaits of `spend` and `completeOrderLocked`: `Spend` (validation,
pricing, the age step-up), `SignDraw`, `CompleteOrder` (joining the queue), `Lookup` (idempotent
echo), `Reprice`, `ReadPrior`, `Check` (`checkDraw`), `Commit`, `Record`, `Return`. The failing
paths are actions of their own: an unknown item throws (`RepriceThrows`), a store that errors
refuses (`StoreFails`, `CommitFails`) or throws (`ReturnThrows`). `sawLedger` distinguishes the two
things `priorDraws` may return: the ledger's live array, which later commits extend under the
reader, or a fresh empty one.

*Grants.* `status`, `ageProof`, `memberPct`, `signedSkus`, `cache` are fields of the grant's record.
`Kind` fixes what each request is. `at` is where it stands; `"sealing"` and `"spending"` are the
places inside the lock. `RevokeNow` is the synchronous half of `revoke()` (the status is left alone,
the ledger is stopped) and `RevokeLocked` the half behind the lock, which stops a ledger that was
created in between. `EngineStep` runs the engine's steps of a spend that holds the lock.

*Checkout.* `verification` is the verification record, as the set of claims it marks proved;
`record` the completion record; `known` the processes whose registry holds the order's credentials;
`charges` what the processor took. `due` is a history variable: what the order asked for when it was
priced for the last time. `Serve`, `Present`, `ReadClaims`/`WriteClaim`, `Submit` are the rails;
`Lookup`, `Price`, `SettlePayment`, `Record`, `Announce`, `Clear` the locked section;
`BeginPlace`, `PlaceLookup`, `PlaceWrite` the place path. `Restart` forgets a process's mutex,
requests and, unless the credentials are declared to the constructor, its registry. The
storefront's catalog may change at any moment (`ChangeCatalog`); an `orders.serve` order is priced
by what was stored.

*Webhooks.* `errand` is where `deliverTo` stands for an event and an endpoint, `attempt` its loop
counter, `posts` what is on the wire. `Send` signs with the time of the attempt, `Answered` and
`TimesOut` are the two ends of the awaited `fetch`; a post that timed out may still arrive
(`Arrive`), late enough to be refused by `verifyEvent` (`GoStale`). The receiver that drops an event
id it has handled is external: the file's header asks it of its users.

*Orders.* `registry` and `remembered` are the client's `credentials` and `orderPolicies`;
`Remember` is `rememberOrderPolicy` with its eviction, `Scope` is `policyCredentialIds`, where "no
policy known" widens to every gate of the registry. `Complete`, `StoreCompleted`, `Announce` are the
seam and `_complete`; `Restart` drops registry, map, deliveries and what was under way.

*Storefront.* `call` is where a tool call stands between its awaits: `ReadCart` and `WriteCart` are
the `get` and `set` of a cart, `StoreOrder` and `MapCart` the two writes of a checkout. `CartKeyOf`
is `sessionOf` and `cartKeyOf`, including the cart id issued on a first call and the answer to one
that this process does not know. The completion's `Record`, `Unmap`, `EmptyCart`, `Forget` are the
writes of `_complete` and `clearCart` in their order. `asked`, `owner`, `edited`, `undone`, `cutOff`
are history variables of the properties.

*Rounds.* A sealed state is a record of what `mrtr.ts` seals: subject, parameters, what was
gathered, the round. Grants are process memory: `kept` is the first that this process knows, and a redial
for an earlier one is told "not-found". `Fitting` is a variant chosen by the words themselves (`Pinned`,
which is `prefillVariants`) or by an answer. `given` holds every state the server has sealed, `Dial` presents any of them
(or a forged one) from any session, `Refusal` is `open`, `Merge` what an answer adds. `Match`,
`Create`, `Await`, `Held` are the tool's steps up to its next await.

*Purchases.* `spends` is all that agents have signed: `Spend` what the library's own code signs,
`SpendOtherwise` what other software may. `Present` is the verification up to the await of the
ledger, `Judge` up to the await of the catalog, `Settle` the rest. `PermissionIdOf` and
`OnePermission` are what ties the two chains to one signature, to the letter.

*LineItems.* `BuildArcs` is the set-up, `Levels` the breadth-first search, `Advance`, `Retreat`,
`Augment` the depth-first search over arcs with room, tried in any order. `Assignable` is the
reference.

*Ceremonies.* `ready` is a page's `reqData`, `pending` its fetches under way, `shown` the `rd` a tap took,
`token` the sealed context its POST carries; `page`, `shown`, `view` and `quote` are the order as it was
priced for the page, for the request, by `resolveOrder` in verify, and now. `Prefetch`, `TapWallet`,
`WalletAnswers`, `Reopen` are the pages' scripts; `Resolve`, `Verify` the handlers, with `Requested`,
`Evaluates` and `AmountBound` what each rail asks for and holds the answer to; `Complete` is the seam. A
wallet discloses what it was asked for and is true. A tab uses one button of its page.

*ReviewLoop.* `Trigger`, `Queue` and `End` are the workflow's concurrency group: one run, one
waiting, the newest. `Decision` is `reviewDecision` and `decideOnVerdict`, on what the run knows of the
conflict: `loadPrSettled` may give up on GitHub and take the head not to conflict. `Assess`, `Fix`,
`PushCheck`, `Push`, `PushTest` and `PushAnswer` are the three jobs, cut where the code calls GitHub;
`HandOver` is the label, a step of its own, so that a push may fall between it and the last look at the head. `PushThrows` is what push-review catches and hands over; `RunFails` is what nothing catches: a call
that throws in assess, a refused label, a killed job. `SweepConflicts` is the job of `main` that looks for pull
requests that conflict, `SweepMisses` one that did not get to this pull request. `MaySkip` is the reviewer's
rule that a head whose diff has not changed since the last one it finished on gets no new summary; a diff is
named by the head that made it. `lost` is a history variable: the head for which a run that would have done
something is gone, by a failure that nothing catches or because an event with nothing to do took its waiting
place, until an event comes that would do something (`Wakes`).

*Briefs.* `briefs` are the posted versions with what their agents had read; `AnsweredAt`,
`Approvable`, `SweepWanted` are `briefState`, `approvalRefusal`, `sweepWanted`. `Queued` and `Over`
are the two concurrency groups, of which "talk" cancels. A run is `Snapshot`, `Mark`, `Agents` and
the publish steps, each of which writes to GitHub.

*Implementation.* `tree` names a working tree by its patch; `Gates`, `MutationCheck`, `RootTests`,
`StartReviews`, `ReviewerEnds`, `Settle`, `Finish`, `Evidence`, `Publish` are the phases of `iterate`
and `finishImplement`. A call of an agent costs what it may, answers, fails, or runs out (`Calls`).

*Tickets.* `OpenTicket`, `LinkTicket`, `LabelStarts` are `publishSplit`, which may die between any two
and be run again. `RunReads`/`RunUnlabels` and `UnblockReads`/`UnblockLabels` are a ticket's run and an
unblock, each reading before it writes. `Frontier` is `frontier`, `Blocked` is `blockersLeft`.

### Abstractions

- Signatures, digests, sealed tokens and wallets are perfect: a presentation is accepted or
  refused, and what it binds is compared directly.
- Amounts are whole units; `LoyaltyDiscount` keeps the code's rounding.
- A purchase has one line. The multi-line sum has no branch of its own.
- A store call is one atomic step at the store. In `Checkout`, the read of the verification record
  and the synchronous pricing after it are one action: nothing in between is observable to the
  properties except the catalog, whose later value is the one used.
- In `Checkout`, `passkey` stands for `dc-payment`; both re-price, verify, run their gates and complete.
- The place request of `orders.serve` re-prices the stored lines, which gives what was stored
  (`quoted`).
- Identifiers are not modelled beyond equality. Expiry is modelled where a property is about it
  (multi-round states, permissions, webhook time stamps, what a ceremony seals) and left out elsewhere.
- Carts of `Storefront` and `Rounds` hold whole products; variants are a flag where the tool asks.
- What an agent, a reviewer or a test answers is open; only the shape of the answer is fixed.

## Runs

| Run | Instance | Asks |
|---|---|---|
| `engine` | 2 calls, 2 keys, every kind of argument, 2 catalogs, budget 100, cap 70, a store that may error at any call | Do the caps, the ledger, the records and the echo survive concurrent draws, a re-price, a kill switch and outages? Does every call return? Is the promise kept? |
| `page` | 2 approvals, a denial, a revoke, 2 spends | One decision, one outcome per key, revoke wins, receipts match. |
| `device` | a signature, an age proof, a membership proof, a revoke, a spend with odd arguments or of a withdrawn product; key held by gate or agent | Are restricted goods bought only under a signed proof? Is a revoke ever stuck behind the grant's lock? |
| `sale` | 3 requests on any rail, 1 process, 3 catalogs, 4 deployments, no de-duplication | Does the in-process mutex charge and record once, at the authorized price? Is a gated order's sale kept? |
| `split` | 2 requests, 2 processes that restart, lost answers, store errors, credentials declared or not | Charged once by reference, nothing sold unproved, the age gate holds where the registry is empty, everyone answered. |
| `orders` | 2 orders, a map of 1 policy, one gate declared and one not, 1 endpoint, 1 event, 1 retry, restarts, a lossy network | Does forgetting an order open a gate, block a proven one, announce twice or lose an announcement? |
| `agent` | 2 callers and 1 order; 2 dialers, 2 sessions, 3 calls; 2 permissions, 2 merchants, 2 spends; 2 items and 2 requirements of up to 2 units; 2 tabs of one order, 1 and 2 requests, 3 quotes, 1 change, 1 tick | Whose cart, whose grant, whose permission; does the flow decide rightly? Does a re-price, an overlap of requests or an expiry between page and completion charge, prove or refuse wrongly? |
| `review` | 2 cycles, 2 acts of people, moves of main or failing calls in any mix; 2 briefs a round, 3 versions, 5 acts; 2 rounds with a fix, 2 reviewers, money for a little over one round; 3 tickets, 4 issues, 3 acts or failures | Is a pull request ever left with nothing due, pushed to without bound, or handed over unread? Does the issue agent ever ignore a comment, overspend, misreport or leave a ticket? |
| `signed`, `placed`, `member`, `threshold` | - | Violations: see Findings. |

Why the bounds are enough to meet the interesting cases. `engine`: two draws of 60 pass the check and
together exceed the budget; a retry races its original, or a draw of the other key; a 10% membership
makes the rounding matter, a 100% one a total of zero. A third call only repeats a role: what two
draws commit between them decides about the next. `page`: both an approve-approve and an approve-deny
race, each beside a revoke and a retry. `device`: the age limit is raised from 18 to 21 between any
two reads, and the coffee withdrawn, which the door lets through and the engine throws on. `sale`: a
product that asks for age, for a custom gate, or is re-priced, with a member's discount; three
requests are two payments and a proof, or a payment, its retry and a place; symmetry permutes the
requests, which are interchangeable. `split`: two payments each on either process, each possibly
restarted or failed at each store call. `orders`: with room for one policy, the second order evicts
the first; one event is posted twice. `agent`: two callers of one conversation, or of two with
different transports; words that fit one product, two or none; a product with a variant and one a
cap cannot pay; two permissions that overlap in the store and in the goods, one with a budget, one
with a single use; two overlapping requirements are the least for which a unit must move;
a page that proves or pays beside one that pays, by any rail, over an order whose total changes, or whose
limit goes from 18 to 21 or back, at any moment, with a second request in flight behind the one shown and
tokens that live for one tick. `review`: a second cycle meets the cap; two things from outside are a push
and a label, a failure and what a person does about it, a displaced event and what displaced it, or two
failures. The second of them comes before the first cycle is counted (`SecondIsEarly` of `MCReview`), the first one
whenever: that includes the relabel after a cycle that died uncounted, and leaves out what two people do in two
cycles, which only the theorems reach. A cycle begins and ends with events of the loop's own, which are not
counted. Two versions of a brief are an answer and its correction, a third the one past the cap; the third ticket waits for two others, whose
unblocks race; a fourth issue is a ticket opened again by a second attempt.

Bounds, all in guards: `MaxEvents` of `Webhooks` (events) and of `ReviewLoop` (what people do, moves of main and failing calls together), `MaxFaults` (the failing calls of these),
`MaxKeys`, `MaxAsked`, `MaxDials`, `MaxQuotes`, `MaxSpends`, `MaxTime`, `MaxQuantity`, `MaxClock`, `MaxBuilt`, `MaxRepriced`, `MaxVersions`,
`MaxActs`, `MaxIssues`, `MaxTicketActs`. `MaxRounds` of `Rounds`, `MaxPolicies`, `Retries`,
`MaxCycles`, `MaxBriefs`, `MaxRounds` of `Implementation`, `MaxFixes` and the budgets are the code's
own. Every other counter is bounded by the requests being made once. `CHECK_DEADLOCK FALSE` is said
where all requests, acts or events may be over; in the runs of grants the catalog can always change.

### Fairness

Weak fairness is assumed per call of the server's own steps (`FairCalls`, `ServerStep`,
`CallStep`): a resolved promise's continuation is always run by the event loop, and store, verifier
and processor calls settle, with an answer or an error. Nothing is assumed of people, agents and
wallets: a request may never be made, a page never approved. Catalog changes, restarts and outages
have no fairness either, and may go on for ever. The liveness properties say that no throw, refusal
or failure wedges what queues behind it: `EveryCallReturns`, `RevokeTakesEffect`,
`EveryRequestAnswered` (a request whose process restarts is lost, which its client sees).

`FairOrdersSpec` assumes of `orders.serve` that its shopper tries again a payment that failed (weak
fairness of `Complete`) and that the store, tried for ever, does not fail every time (strong fairness
of `StoreCompleted`): both are needed for `ProvenOrderSettles`, which is about gates. The sender of a
webhook is fair, since its timers fire; the network and the receiver owe nothing, and
`DeliveredOrReported` holds all the same.

The storefront's tools, the multi-round tool and the issue agent are checked for safety only: nothing
there promises that a person, an agent or GitHub goes on. That they do not get stuck is said of states
instead (`NeverStranded`, `CommentsSettled`, `TicketsStart`): where nothing is under way, something
is due that will go on, or it is one of the named cases in which it is a person's turn.

### What the properties except

Some properties name a case in which the code does not do what one might wish. Each is a limit of
the code that its authors accept or that only people can meet, and the property holds outside it.

- `DrawsAreRecorded`, and of `AnswersMatchLedger` the part on refusals: a call answered "revocation-unavailable" does not know
  whether its draw was committed (`InDoubt`).
- `SoldCartsAreEmptied`: an edit that read the cart before a completion emptied it writes it back
  (`undone`); a restart cut the completion off, and its retry finds the record and only echoes it
  (`cutOff`).
- `ChargedOnce`: it is of one reference per order. Two pages of one order carry two, and on two
  processes both are settled, so that de-duplicating on the reference is not enough there
  (`ceremony/delegated-payment/request.ts:60-66` against `ceremony/types.ts:314-320`).
- `PaidAsSigned`: a passkey's assertion carries no amount, and the total on its page is not sent; an
  order re-priced after the page was rendered is charged at the new total.
- `ProvedAtThreshold`: the verification record holds `ageVerified`, not at what age, so a limit raised
  after the proof was evaluated is met by it (`raised`).
- `SoldAsSigned`: two verifications under one permission in flight together both see the ledger before
  either purchase (`raced`); serializing them is left to the merchant.
- `NeverStranded`: a person pushed a commit that conflicts (`head.own`), which no review and no sweep looks
  at before main moves; or the run due for this very head is lost (`lost`), to a call that failed where
  nothing catches it or to an event with nothing to do that took its waiting place. An event that stands in for
  the one it replaces, a failure of a run with nothing left to do, or one made up for by a later event, are
  not excused. So "Never stranded. A review that fails [...] hands the PR to a human" (`ia/README.md:396`) is
  more than the code does: assess-review catches nothing (`ia/run.mjs:1669-1684`), nor does the sweep (1228-1231);
  GitHub may say UNKNOWN for too long, so that a conflicting head is waited on (1266-1275); and the event
  of a failed review gives way to a dispatch by hand, which is told of no conclusion and waits for a review that
  is over, or to that of a review which a push cancelled (`.github/workflows/issue-agent-review.yml:46`).
- `ReadyIsReviewed`: a commit made before the last summary and pushed after it passes for reviewed, since
  times are compared (`job.summary.newer` with another head; `ia/checks.mjs:240`): a label's run then goes on
  while the review of that commit is running, where `ia/README.md:389-390` says it waits. The property is of the
  head the run looked at: a push between that look (`ia/run.mjs:1472-1473`, 1286) and the label (1320) is handed over
  as ready unchecked, where `ia/checks.mjs:265-266` says the criteria are checked "on the final code".
- `CommentsSettled`: the pipeline has given a notice, failed twice, reached its cap, or the issue has
  or lost a pull request.
- `BuiltAsSpoken`: an answer to a label and one to a comment crossed, so that it is an earlier version
  whose agents had read all that was said; or an earlier version was edited by hand, which counts as of
  when it was posted.
- `ReadyIsProven`: what the passing root run itself wrote into the tree was not there when it started
  (`rewritten`), because the hash is taken when the run is over (`ia/run.mjs:658`).
- `TicketsStart`: the ways a ticket can be missed (`missed`): its run's stale read takes the label off
  after the last blocker closed; every blocker closed before it was opened; its unblock died; a person
  took the label off or reopened it.

## Findings

Each is a place where a comment or a doc says more than the code does; the first two are defects.

1. `member`: the passkey and dc-payment routes do not hand the amount gate the percentage of the
   order's policy, so it lets no discount or 10% pass (`ceremony/passkey/routes.ts:179`,
   `ceremony/dc-payment/verify.ts:327`), while `orders.serve` prices a proven member's order at the
   policy's own (`gate/orders-serve.ts:77-84`): under `membership.discount(20)` every payment of a
   member is refused. `ceremony/mandate.ts:147-150` says the configured percentage passes. The
   storefront always gives the default percentage and is not affected.
2. `threshold`: the org-iso-mdoc request asks for `age_over_21` and `age_over_18`, or the latter alone,
   whatever the order's limit (`ceremony/credential-gate/doc-spec.ts:18`), while verify requires
   `age_over_N` at the limit itself (`ceremony/credential-gate/verify.ts:96`): under a limit of 25 a
   holder of 30 is refused on that platform and accepted on the other, which `doc-spec.ts:4-5` says are
   aligned. Below 18 neither platform asks for the claim verify wants, on this rail and on a grant's
   (`ceremony/grant-credential/routes.ts`), which is the same defect at the other end.
3. `signed`: a proof recorded while a signature is being verified is sealed without being signed
   (`gate/grants.ts:701` against `:482-484`, `:699-700`).
4. `placed`: two overlapping place requests record and announce twice
   (`gate/orders-serve.ts:283` against `:281-282`).

The engine's echo of a retried key reports the total just priced, not the original amount
(`gate/delegated.ts:296` against `:70-71`); the charge is not repeated, and the facade's cache answers
before the engine is asked (`RetryGetsOriginal`), so no run is spent on it.

The empty registry of an undeclared process is documented (`gate/client.ts:155-161`); it is
the field `declared` of `Shops`, not a finding.

## Proofs

Every theorem holds for all values of the constants that satisfy the named `ASSUME`s of the modules: any
number of calls, processes, tabs, orders, callers, reviewers or tickets, any catalogs, policies and
bounds. The `ASSUME`s say that limits and bounds are naturals, that tables have the domains their names
say and that sentinels are distinct from what they are not; the few that say more are named below. Each proof has the
same shape: an inductive invariant, that it holds initially, that every step keeps it (one proof step
per action), and that it implies the property; an action property is proved of a step that starts in it.
The text below says of each what the invariant adds to the property.

*DelegatedGrant_proofs.* `WithinCaps` is inductive only together with what the calls carry. The
invariant `EngineInv` is `Framed /\ Accounts`. `Framed` is `EngineTypeOK` and `Control`: a call
inside the mutex is at the head of its key's queue (so two calls of one key are never both
inside), and a call that has started has an intent. `Accounts` relates each call to the ledger: a
call in "recording" has its key drawn for its total and not yet recorded; a call in the earlier
steps of the mutex has no record under its key; a call answered ok has its key drawn and recorded;
the caps hold. The caps come from `CommitDraw` alone, whose re-check is atomic with the append; the
single charge per key from it too; what needs the mutex is that the record agrees with the draw.
`DrawsAreRecorded` is itself inductive over `EngineInv`, and `RefusalMeansUncharged` follows from
both: a call of a key that is drawn and not recorded finds, when it enters the mutex, either nobody
in doubt, and then the record, or a call that is, which the property excepts. Both hold with a store
that errors at any call. `EngineKeepsPromise` maps each step
to a step of `Allowance` or to a stutter: `PreApprove` to `Approve`, `Commit` to `Charge`, `Revoke`
to `Stop`.

*Grants_proofs.* `Grants` assumes besides that its ledger does not fail and that purchases name its
merchant: the facade keeps the ledger in memory and never passes a merchant of its own.
`GrantsInv` is `EngineInv /\ Facade /\ Lifecycle`. `Facade` holds the types and
`Placed`: a request under the lock is at the head of its queue, each place belongs to requests of
one kind, and only a request that has returned was answered. `Lifecycle` says that a grant being sealed is pending, that
an intent exists only on an authorized or revoked grant, that the ledger is stopped while a revoke of
a sealed grant is between its halves, that a revoke that has returned left the status revoked, and
that a decision ends the pending state. `FacadeUsesEngine` shows each step of
the facade to be an engine step or to leave the engine alone; the engine's theorems then carry
over. `RevokedForGood` and `RevokeEndsSpending` are action properties proved from `GrantsInv`, one
step per action. Three more invariants rest on these. `DoorsInv`: a kept door is one that was returned, and
a replayed one is the kept one. `ReceiptsInv`: a spend under the lock has either not charged its key, and
then the headroom last told is still the ledger's, or has charged it for its total, and then is on its
way to say so; and a key that is charged is kept as such or has a spend on it. `RestrictedInv`: whoever
authorized a device grant signed the very list it is bound to; a spend under the lock is for a product
that was signed for; and one that the engine has let past its age check is for a product that some
catalog of the host restricts to no more than the sealed age.

*Checkout_proofs.* `CheckoutInv` is the types, `Served` (a request that is under way has its process),
`Stands` (what a call has passed to stand where it stands: its gates, the head of its process's queue,
the total it asks for) and that declared credentials are known everywhere. Each property is then
inductive with a part of its own: `ProvedInv` (the verification record and every copy of it a rail
holds contain only what was presented: updates are lost, never invented), `AuthorizedInv` (the charge of
a call in "recording"), `OnceInv` (a call past the look-up found no record, and one about to announce is
the first), `ChargedInv` (every charge is under the reference of a request that settles here). Four theorems have a
hypothesis, each the one under which the property is meant, and met by the instance that checks it:
`AlwaysSoldAsAuthorized` a processor that does not de-duplicate (one that does keeps the first amount
of a reference); `GatedOrderAnnouncedOnce` one process; `OrderChargedOnce` a processor that
de-duplicates and one reference per order; `GatedOrderIsASale` one process, whose stores and processor
lose nothing.

`GatedOrderIsASale` maps each step of a gated order to a step of `Sale` or to a stutter: `SettlePayment` to
`Take`, `Record` to `Sell`, `Announce` to `Tell`; every other step is `Agree`, which lets agreements
be added and none be lost. An agreement is the rail and the total of a payment whose presentation
was accepted and whose gates passed. `SaleInv` adds to the invariants above that a payment past its presentation
was vouched for when its gates passed, and that money taken of an order not on record is one charge, of
the call that is recording it: the mutex leaves that call alone, so what is sold is what was paid for.
An order nobody gates is left out of the mapping, since it may be placed without an agreement (`placed`).

*Orders_proofs.* `OrdersInv` has four parts. `GatesHeld`: a declared credential is never lost, and an
order past the gate check proved every declared gate its policy asks for, whether the client remembers that
policy or not. `HeardOnce`: an order is announced after it is recorded. `EventsApart`: every event is
about a settled order of its own. `ActsAsHandled`: a receiver acted once on whatever it has handled, and
nothing is sent or handled but the events created.

*Storefront_proofs.* Two callers of one conversation edit a cart without a lock, so that a write may bring
back what another took out, and no count of the cart alone is inductive. The invariant numbers the units
a conversation asks for: a cart, as stored or as an edit has read it, is `Backed` by units that were
asked for and that no pending edit still brings. `Owned`: a key belongs to one conversation for good.
`Bought`: so does an order, and a checkout under way. `Sold`: an order on record whose key is still mapped is being
emptied, or was cut off. `Gone`: what an edit has read is gone from the sold lines, unless the cart was
emptied under it.

The grant tool (`Rounds`), in the same module. Nothing between two rounds is kept on the server, so
`RoundsInv` is about every state the server has ever sealed, presented again or not: what it says was
answered was asked, in its session and under its bounds (`AnsweredAsAsked`), and what waits carries its
grant (`Carried`); and about every call under way and what each was last told.

*Purchases_proofs.* Both modules it is about count with the community modules' `SumFunctionOnSet`, a
recursion over a set. The library's induction theorems take an operator as a parameter, which the installed
provers cannot instantiate; but a set of subsets of a finite set has a least member (`LeastSubset`, from
the well-foundedness of the subset order), and taking a least counterexample is an induction whose
statement is first-order. So are proved: that the recursion has one solution (`SumsExist`, `SumsAgree`),
the sum with and without an element, of a part, of sums, and by rows and by columns (`SumByColumns`). The
same way there is a least number, an induction over numbers, and the breadth-first layers (`LayersExist`). Assumed of the constants
beyond their types: prices are positive, items and requirements finite in number and apart from each other.

`PurchasesInv` says of a verification under way (`AsSigned`) that both its mandates are of one
permission, for its agent and in time, and past the ledger that every limit of it is met; of the ledger
(`LedgerTrue`) that under a permission's id stands the sum and the count of what was sold under it, which is
where it matters that the id is of what was signed and not of a spelling of the signature; and
(`StillFits`) that unless two of them overlapped, a verification past the ledger is the only one under its
permission and fits what the ledger holds, so that recording it keeps the budget and the uses.

`LineItemsInv` is about the flow. `Balanced`: an arc and its reverse together have the room they
started with, what an item has been given is placed with requirements, what a requirement has accepted
went to the sink. `OnTrail`: the search is on a path with room, one level at a time, so that no node is on
it twice, and pushing along it (`PathBalances`) keeps the balance. When the sink is no longer reached, either
nothing is left at the source, and what was placed is an assignment (`PlacedAssigns`); or an item has units
left, and then (`CutRefuses`) the nodes still reached are a cut: requirements among them are full, items
among them are accepted by no others, so that no assignment at all holds the cart. The layers stop
growing within as many steps as there are nodes (`NearCloses`), which is why those left out are truly out of
reach. That the search ends is neither checked nor proved.

*Ceremonies_proofs.* `CeremoniesInv` says what a tab has in hand at each step (`Held`: the request its wallet
was shown, and with it the very context sealed for it, however many others were prefetched since), what a verdict stands
for (`Judged`), and that the record of a proof is as strong as the limit in force unless that went up
(`Recorded`). `TimelyIsAccepted` assumes that every order's limit is none, 18 or 21 (`Askable`); the run
`threshold` shows that it fails without that.

*Review_proofs.* The loop, in parts of `LoopInv`: `LoopTypes`; `Counted` (a push is counted by a comment, or
its run is still at it, or the pull request has left, or a job died); `Reviewed` (diffs are numbered by
the head that made them, and the last one a review finished on, the one the last summary is of, the one being read and
the head's come in that order, so that a review that may skip adds nothing to the last summary); `Told` (what an
event says of a review is how it ended); `Judged` (what a run has read, of its own head, backs its verdict, and a run about to
hand over as ready goes by a verdict "ready" and checked criteria, wherever the head has got to since); and `Attended`, which strengthens `NeverStranded` to every
state, those where a run is under way included: it, or the event that waits, has something to decide on, or what was due
is `lost`. The
build: `Recorded` (a record is true of the tree it names) and `Budgeted`; that the run's cap holds while
reviewers spend at once needs the sum of what they may still spend, which is stated without a sum over a set: there is an
order of them along which the partial sums stay below the cap (`Covered`). The tickets: a ticket that could start
is labelled, missed for a named reason, or due (`WillStart`), for any plan in which a ticket waits for
earlier ones. The conversation: an issue marked as worked on has a run that will take the mark off, or a
pull request (`MarkedByRun`); `GreatestOf` is that a non-empty set of numbers up to a bound has a maximum.

| Theorem | Property |
|---|---|
| `EngineTypeCorrect`, `CapsHold` | `EngineTypeOK`, `WithinCaps` |
| `NoOrphanedDraw`, `AnswersAreTrue` | `DrawsAreRecorded`, `AnswersMatchLedger` (from `SuccessIsCharged` and `RefusedIsUncharged`) |
| `EngineKeepsPromise`, `GrantKeepsPromise` | `PromiseKept` |
| `GrantsTypeCorrect`, `FacadeUsesEngine`, `GrantOrphansNoDraw` | `GrantsTypeOK`, `UsesEngine`, `DrawsAreRecorded` |
| `DecidedOnce`, `RevokeEndsSpending` | `OneDecision`, `RevokeWins` |
| `RevokedStaysStopped`, `RevokedForGood` | `RevokedIsStopped`, `RevokedIsFinal` |
| `RetriesGetOriginal`, `ReceiptsAlwaysMatch`, `RestrictedAlwaysProved` | `RetryGetsOriginal`, `ReceiptsMatchLedger`, `RestrictedNeedsProof` |
| `ChargeIsRecorded`, `AlwaysSoldAsProved`, `AlwaysSoldAsAuthorized` | `ChargesAreRecorded`, `SoldAsProved`, `SoldAsAuthorized` |
| `GatedOrderAnnouncedOnce`, `OrderChargedOnce`, `GatedOrderIsASale` | `GatedOrderSettlesOnce`, `ChargedOnce`, `SaleKept` |
| `EvictionOpensNothing`, `AlwaysActedOnOnce` | `EvictionNeverOpens`, `ActedOnOnce` |
| `CartsAlwaysApart`, `SoldCartsAlwaysEmptied` | `CartsApart`, `SoldCartsAreEmptied` |
| `AlwaysMintedAsNamed`, `NeverMintsAgain`, `AlwaysToldAsRecorded` | `MintedAsNamed`, `RedialNeverMints`, `ToldAsRecorded` |
| `AlwaysSoldAsSigned`, `AlwaysFitsIfAssignable` | `SoldAsSigned`, `FitsIfAssignable` |
| `AlwaysPaidAsSigned`, `AlwaysProvedAtThreshold`, `TimelyIsAccepted` | `PaidAsSigned`, `ProvedAtThreshold`, `TimelyAnswerAccepted` |
| `CyclesAlwaysBounded`, `NeverLeftStranded`, `HandedOverAsReviewed` | `CyclesBounded`, `NeverStranded`, `ReadyIsReviewed` |
| `AlwaysReadyIsProven`, `AlwaysWithinBudget` | `ReadyIsProven`, `WithinRunBudget` |
| `TicketsAlwaysStart`, `AlwaysCommentsSettled`, `AlwaysBuiltAsSpoken` | `TicketsStart`, `CommentsSettled`, `BuiltAsSpoken` |
| `EngineInvariant`, `GrantsInvariant`, `CheckoutInvariant`, `OrdersInvariant`, `StorefrontInvariant`, `RoundsInvariant`, `PurchasesInvariant`, `LineItemsInvariant`, `CeremoniesInvariant`, `LoopInvariant`, `ImplInvariant`, `TicketsInvariant`, `BriefsInvariant` | the inductive invariants |

`EngineTypeOK`, `GrantsTypeOK`, `RevokedIsStopped` and `RevokedIsFinal` are proved and are in no run:
the invariants the others rest on contain or imply them. So is `GatedOrderSettlesOnce`, which `SaleKept`
implies in the run, and which the theorem keeps where a store, an answer or the process may be lost. The theorems are about the specifications without
fairness, which those with fairness imply; in `MCAgent` and `MCReview` every part steps by its own
next-state relation, so that they hold of the parts there.

### Only model-checked

- Liveness under fairness, which is outside what the prover can do, as is ENABLED: `EveryCallReturns`,
  `RevokeTakesEffect`, `EveryRequestAnswered`, `ProvenOrderSettles`, `DeliveredOrReported`.
- That the properties of the violating runs fail: a proof can only show what holds.

No module declares a RECURSIVE operator, so that all of them stay within the prover's reach.

## Not modelled

Whole components:

- The signed cart mandate in `completeOrder` and its reconciliation: neither shipped host passes a
  `signingKey` there, so the branch is not reached from them.
- Manifest resolution, the cryptography and parsing of mdoc and OpenID4VP answers, the human-present
  `ap2/verify.ts`, the conversion between gate and AP2 terms: stateless functions; the models take their verdict.
- The checkout page and cards, the doctor, Redis's expiry, deployment and the examples; the storefront's widget
  beside what it asks of the cart tools.

Inside the modelled ones:

- `Storefront`: a lone connection, which has one cart under the default key; product pages.
- `Purchases`: chains whose mandates are of the wrong type, lifetimes of a hop. Nonces (issued with a
  quote, taken once) and the recording of a purchase are the merchant's, and external. That no issuer
  vouches for a wallet is the "presence-only" trust its caller accepts. The catalog changes only during
  a verification: an earlier change looks the same to it.
- `Ceremonies`: the membership page and custom credentials' claims, an order that no longer resolves, a
  settlement that fails (see `Checkout`), the stateless cart token, a second button of the same page.
- `LineItems`: quantities beyond the safe integers, lines of no units.
- `ReviewLoop`: drafts, reviews cancelled by hand, a head that stops conflicting because main moved, a change
  taken back exactly (a diff is never that of an earlier head again). The event of a review that a push cancels arrives with that push. A
  label that GitHub refuses ends the run there, without the comment that would still follow; a throw in `handOver` after
  the label leaves a pull request that carries both labels, which is one handed over here. A refusal in the
  middle of a rebuild is folded into handing over to a human.
- `Briefs`: the sweep's age limits, assignees and the other labels that hold an issue back, a run
  started by hand, a killed job, the plain-language check of a brief.
- `Implementation`: the words of a challenge, the mutation check's choice of mutants, the evidence
  itself.
- `Tickets`: the brief of a ticket edited by hand, assignees, pull requests. A link that GitHub carried
  out although its answers failed leaves a closed, linked ticket, which a second attempt takes for
  opened (`ia/run.mjs:1135`); it is a behaviour of the model.

## Plan

Done: the grants; checkout; orders, webhooks; carts, multi-round requests, delegated purchases; the
ceremony pages; the issue agent; and the proofs of all their safety properties and of the refinements of `Allowance` and `Sale`.

1. The storefront widget: its optimistic cart and its queue of updates over `Storefront`'s tools.
2. The question router of the deployment (`ask-core.mjs`).
