------------------------------- MODULE Grants -------------------------------
(***************************************************************************)
(* The Grants facade (grants.ts) over the spending engine: one grant from  *)
(* pending to its end, with its approve / deny seams, the credential rail  *)
(* (ceremony/grant-credential), the device-signing rail                    *)
(* (ceremony/intent-sign), the spend door with its idempotency cache, and  *)
(* revoke.  Everything but the first half of revoke runs under the grant's *)
(* KeyedMutex; the engine's steps interleave with whatever does not.       *)
(*                                                                         *)
(* Each member of Calls is one request: Kind says which.  A human's steps  *)
(* (approving, presenting a credential, signing on the phone) may never    *)
(* come; the server's own steps are fair.                                  *)
(***************************************************************************)
EXTENDS DelegatedGrant

CONSTANTS
  Kind,          \* the operation each call asks for
  Options,       \* create() options: signing mode, agent-held key, allow bounds
  LoyaltyPct     \* loyaltyDiscountPct of the host's programme, 0 when none

Bounds == [bounded : BOOLEAN, skus : SUBSET Skus, categories : SUBSET STRING]
Operations == {"spend", "approve", "deny", "age", "membership", "sign", "revoke"}
Ages == {0} \cup UNION {{cat[s].minAge : s \in {x \in Skus : cat[x] # Absent}} : cat \in Catalogs}
DoorCodes == {"none", "invalid-request", "agent-held-key", "not-authorized", "not-allowed",
              "invalid-amount", "per-spend-exceeded", "budget-exceeded", "wrong-merchant",
              "step-up", "revoked", "refused"}

ASSUME KindAssumption == Kind \in [Calls -> Operations]
\* agentPublicKey() refuses a key on a page grant.
ASSUME OptionsAssumption ==
  /\ Options \subseteq [signing : {"page", "device"}, agentHeld : BOOLEAN, allow : Bounds]
  /\ \A o \in Options : o.agentHeld => o.signing = "device"
ASSUME LoyaltyAssumption == LoyaltyPct \in Nat
ASSUME ProofTermsAssumption == [age : Ages, pct : {0, LoyaltyPct}] \subseteq Terms
\* The facade names no merchant of its own and keeps its ledger in memory.
ASSUME FacadeAssumption == ~StoreMayFail /\ \A p \in Purchases : p.merchant = Merchant

VARIABLES
  opts,          \* rec.opts and rec.agentKey, frozen at create()
  status,        \* rec.status
  ageProof,      \* rec.ageProof.provenAge, 0: none
  memberPct,     \* rec.membershipProof.discountPct, 0: none
  signedSkus,    \* rec.signedSkus; every sku when no mandate names a list
  cache,         \* rec.cache: the door kept for each idempotency key
  locks,         \* the KeyedMutex of grants.ts, for this grant
  at,            \* where each call stands
  request,       \* the purchase a spend call asks for
  terms,         \* proofs a call captured: to record, or to seal
  signed,        \* terms and products a sign call put before the wallet
  door,          \* what a spend call returned
  answer         \* what any other call returned

record == <<opts, status, ageProof, memberPct, signedSkus>>
replies == <<door, answer>>
facadeVars == <<opts, status, ageProof, memberPct, signedSkus, cache, locks, at, request, terms,
                signed, door, answer>>
vars == <<engineVars, facadeVars>>

Places == {"idle", "presenting", "signing", "verifying", "revoking", "waiting", "sealing",
           "spending", "returned", "failed"}
UnderLock == {"sealing", "spending"}

GrantId == "grant"
NoProofs == [age |-> 0, pct |-> 0]
NoSigned == [age |-> 0, pct |-> 0, skus |-> {}]
NoDoor == [ok |-> FALSE, code |-> "none", amount |-> 0, remaining |-> 0, replayed |-> FALSE]

\* create() put the record in place.
GrantsInit ==
  /\ EngineInit
  /\ opts \in Options
  /\ status = "pending"
  /\ ageProof = 0
  /\ memberPct = 0
  /\ signedSkus = Skus
  /\ cache = [k \in Keys |-> NoDoor]
  /\ locks = NoTails({GrantId})
  /\ at = [c \in Calls |-> "idle"]
  /\ request = [c \in Calls |-> NoPurchase]
  /\ terms = [c \in Calls |-> NoProofs]
  /\ signed = [c \in Calls |-> NoSigned]
  /\ door = [c \in Calls |-> NoDoor]
  /\ answer = [c \in Calls |-> "none"]

-----------------------------------------------------------------------------
(* What the bounds allow, read from the live catalog *)

CategoryOf(sku) == IF catalog[sku] = Absent THEN "" ELSE catalog[sku].category

SkuAllowed(sku) ==
  \/ ~opts.allow.bounded
  \/ sku \in opts.allow.skus
  \/ CategoryOf(sku) # "" /\ CategoryOf(sku) \in opts.allow.categories

\* Mutant: only the live bounds count.
AllowedLive(sku) == SkuAllowed(sku)

\* A device-signed grant is bounded by the live bounds AND by the list the mandate names.
Allowed(sku) == sku \in signedSkus /\ SkuAllowed(sku)

\* The ages the products in scope demand; the page asks for the strictest.
AgesInScope ==
  LET inScope == IF opts.allow.skus # {} THEN opts.allow.skus \cap Skus ELSE {s \in Skus : SkuAllowed(s)}
  IN  {catalog[s].minAge : s \in {x \in inScope : catalog[x] # Absent}}

\* The products a mandate may name: restricted ones only once the human proved the age.
AllowedSkus ==
  {s \in Skus : /\ catalog[s] # Absent
                /\ SkuAllowed(s)
                /\ catalog[s].minAge = 0 \/ catalog[s].minAge <= ageProof}

\* The bounds a signature covers: the proofs recorded so far and the products allowed.
SignInputs == [age |-> ageProof, pct |-> memberPct, skus |-> AllowedSkus]

-----------------------------------------------------------------------------
(* Entering and leaving the grant's mutex *)

Move(c, place) == at' = [at EXCEPT ![c] = place]

Enter(c) == locks' = Join(locks, GrantId, c) /\ Move(c, "waiting")

Locked(c) == at[c] = "waiting" /\ Executing(locks, GrantId, c)

Leave(c) == locks' = Settle(locks, GrantId) /\ Move(c, "returned")

Reply(c, a) == answer' = [answer EXCEPT ![c] = a]

-----------------------------------------------------------------------------
(* The human's decision: approve (page) and deny *)

Decide(c) ==
  /\ Kind[c] \in {"approve", "deny"}
  /\ at[c] = "idle"
  /\ Enter(c)
  /\ UNCHANGED <<engineVars, record, cache, request, terms, signed, replies>>

\* The early return of an operation whose grant is no longer pending.
Refuse(c) ==
  /\ Leave(c)
  /\ Reply(c, "no")
  /\ UNCHANGED <<engineVars, record, cache, request, terms, signed, door>>

\* _authorize(): start sealing the intent with the proofs recorded so far.
Authorize(c) ==
  /\ Kind[c] = "approve"
  /\ Locked(c)
  /\ \/ (status # "pending" \/ opts.signing = "device") /\ Refuse(c)
     \/ /\ status = "pending"
        /\ opts.signing = "page"
        /\ terms' = [terms EXCEPT ![c] = [age |-> ageProof, pct |-> memberPct]]
        /\ Move(c, "sealing")
        /\ UNCHANGED <<engineVars, record, cache, locks, request, signed, replies>>

\* Mutant: a denial does not look at the status.
DenyAnytime(c) ==
  /\ Kind[c] = "deny"
  /\ Locked(c)
  /\ status' = "denied"
  /\ Leave(c)
  /\ Reply(c, "yes")
  /\ UNCHANGED <<engineVars, opts, ageProof, memberPct, signedSkus, cache, request, terms, signed, door>>

Deny(c) ==
  /\ Kind[c] = "deny"
  /\ Locked(c)
  /\ \/ status # "pending" /\ Refuse(c)
     \/ /\ status = "pending"
        /\ status' = "denied"
        /\ Leave(c)
        /\ Reply(c, "yes")
        /\ UNCHANGED <<engineVars, opts, ageProof, memberPct, signedSkus, cache, request, terms, signed, door>>

\* preApprove() returned: the engine and the status are set in one tick.
Seal(c) ==
  /\ at[c] = "sealing"
  /\ PreApprove(terms[c])
  /\ status' = "authorized"
  /\ signedSkus' = IF Kind[c] = "sign" THEN signed[c].skus ELSE signedSkus
  /\ Leave(c)
  /\ Reply(c, "yes")
  /\ UNCHANGED <<opts, ageProof, memberPct, cache, request, terms, signed, door>>

-----------------------------------------------------------------------------
(* The credential rail: proofs made before the decision *)

\* POST .../age/verify: the threshold is derived from the catalog before the wallet's
\* presentation is verified, and recorded after.
PresentAge(c) ==
  /\ Kind[c] = "age"
  /\ at[c] = "idle"
  /\ status = "pending"
  /\ \E age \in AgesInScope :
       /\ age > 0 /\ \A other \in AgesInScope : other <= age
       /\ terms' = [terms EXCEPT ![c] = [age |-> age, pct |-> 0]]
  /\ Move(c, "presenting")
  /\ UNCHANGED <<engineVars, record, cache, locks, request, signed, replies>>

PresentMembership(c) ==
  /\ Kind[c] = "membership"
  /\ at[c] = "idle"
  /\ status = "pending"
  /\ LoyaltyPct > 0
  /\ terms' = [terms EXCEPT ![c] = [age |-> 0, pct |-> LoyaltyPct]]
  /\ Move(c, "presenting")
  /\ UNCHANGED <<engineVars, record, cache, locks, request, signed, replies>>

\* The presentation does not satisfy the policy, or could not be opened: nothing is recorded.
PresentationFails(c) ==
  /\ at[c] \in {"presenting", "verifying"}
  /\ Move(c, "returned")
  /\ Reply(c, "no")
  /\ UNCHANGED <<engineVars, record, cache, locks, request, terms, signed, door>>

\* It does: record the claim, or hand the signature to _authorizeDevice.
PresentationHolds(c) ==
  /\ at[c] \in {"presenting", "verifying"}
  /\ Enter(c)
  /\ UNCHANGED <<engineVars, record, cache, request, terms, signed, replies>>

Recorded(c) ==
  /\ Leave(c)
  /\ Reply(c, "yes")
  /\ UNCHANGED <<engineVars, opts, status, signedSkus, cache, request, terms, signed, door>>

\* _recordAgeProof(): a weaker second proof never lowers the first.
RecordAgeProof(c) ==
  /\ Kind[c] = "age"
  /\ Locked(c)
  /\ \/ status # "pending" /\ Refuse(c)
     \/ /\ status = "pending"
        /\ ageProof' = IF ageProof >= terms[c].age THEN ageProof ELSE terms[c].age
        /\ UNCHANGED memberPct
        /\ Recorded(c)

RecordMembershipProof(c) ==
  /\ Kind[c] = "membership"
  /\ Locked(c)
  /\ \/ status # "pending" /\ Refuse(c)
     \/ /\ status = "pending"
        /\ memberPct' = terms[c].pct
        /\ UNCHANGED ageProof
        /\ Recorded(c)

-----------------------------------------------------------------------------
(* The device-signing rail *)

\* GET .../sign/request: the terms as they stand are put before the wallet.
SignRequest(c) ==
  /\ Kind[c] = "sign"
  /\ at[c] = "idle"
  /\ opts.signing = "device"
  /\ status = "pending"
  /\ AllowedSkus # {}
  /\ signed' = [signed EXCEPT ![c] = SignInputs]
  /\ Move(c, "signing")
  /\ UNCHANGED <<engineVars, record, cache, locks, request, terms, replies>>

\* POST .../sign/verify: the record's terms are read here, compared with the signed ones,
\* and not read again until the intent is sealed.
SignVerify(c) ==
  /\ at[c] = "signing"
  /\ \/ SignInputs = signed[c] /\ Move(c, "verifying") /\ UNCHANGED answer
     \/ SignInputs # signed[c] /\ Move(c, "returned") /\ Reply(c, "no")
  /\ UNCHANGED <<engineVars, record, cache, locks, request, terms, signed, door>>

\* _authorizeDevice(): with an agent-held key the permission is recorded and no engine sealed.
AuthorizeDevice(c) ==
  /\ Kind[c] = "sign"
  /\ Locked(c)
  /\ \/ status # "pending" /\ Refuse(c)
     \/ /\ status = "pending"
        /\ opts.agentHeld
        /\ status' = "authorized"
        /\ signedSkus' = signed[c].skus
        /\ Leave(c)
        /\ Reply(c, "yes")
        /\ UNCHANGED <<engineVars, opts, ageProof, memberPct, cache, request, terms, signed, door>>
     \/ /\ status = "pending"
        /\ ~opts.agentHeld
        /\ terms' = [terms EXCEPT ![c] = [age |-> ageProof, pct |-> memberPct]]
        /\ Move(c, "sealing")
        /\ UNCHANGED <<engineVars, record, cache, locks, request, signed, replies>>

-----------------------------------------------------------------------------
(* The spend door *)

AskSpend(c, p) ==
  /\ Kind[c] = "spend"
  /\ at[c] = "idle"
  /\ request' = [request EXCEPT ![c] = p]
  /\ Enter(c)
  /\ UNCHANGED <<engineVars, record, cache, terms, signed, replies>>

Refusal(code) == [NoDoor EXCEPT !.code = code]

\* The refusals the door gives before the engine, in their order; "none": the engine decides.
DoorRefusal(p) ==
  IF p.qty = Fraction THEN "invalid-request"
  ELSE IF opts.agentHeld THEN "agent-held-key"
  ELSE IF status = "revoked" THEN "revoked"
  ELSE IF status # "authorized" \/ intent = NoIntent THEN "not-authorized"
  ELSE IF ~Allowed(p.sku) THEN "not-allowed"
  ELSE "none"

Cached(key) == cache[key] # NoDoor

\* Mutant: a replay reports what the item costs now.
ReplayAtLivePrice(c) ==
  LET p == request[c] IN
  /\ Kind[c] = "spend"
  /\ Locked(c)
  /\ p.qty # Fraction
  /\ Cached(p.key)
  /\ door' = [door EXCEPT ![c] = [cache[p.key] EXCEPT !.replayed = TRUE,
                !.amount = IF @ > 0 /\ Priced(p) THEN OrderTotal(p) ELSE @]]
  /\ Leave(c)
  /\ UNCHANGED <<engineVars, record, cache, request, terms, signed, answer>>

\* A key that already has an outcome gets that outcome, whatever it asks for now.
Replay(c) ==
  /\ Kind[c] = "spend"
  /\ Locked(c)
  /\ request[c].qty # Fraction
  /\ Cached(request[c].key)
  /\ door' = [door EXCEPT ![c] = [cache[request[c].key] EXCEPT !.replayed = TRUE]]
  /\ Leave(c)
  /\ UNCHANGED <<engineVars, record, cache, request, terms, signed, answer>>

\* Only "not-allowed" is final for the key; the others may pass on a retry.
RefuseSpend(c) ==
  LET code == DoorRefusal(request[c]) IN
  /\ Kind[c] = "spend"
  /\ Locked(c)
  /\ code # "none"
  /\ code = "invalid-request" \/ ~Cached(request[c].key)
  /\ door' = [door EXCEPT ![c] = Refusal(code)]
  /\ cache' = IF code = "not-allowed"
              THEN [cache EXCEPT ![request[c].key] = Refusal(code)] ELSE cache
  /\ Leave(c)
  /\ UNCHANGED <<engineVars, record, request, terms, signed, answer>>

SpendEngine(c) ==
  /\ Kind[c] = "spend"
  /\ Locked(c)
  /\ ~Cached(request[c].key)
  /\ DoorRefusal(request[c]) = "none"
  /\ Spend(c, request[c])
  /\ Move(c, "spending")
  /\ UNCHANGED <<record, cache, locks, request, terms, signed, replies>>

EngineStep(c) ==
  /\ at[c] = "spending"
  /\ CallStep(c)
  /\ UNCHANGED facadeVars

\* CODE_MAP: the engine's reason in the door's vocabulary; the rest coarsens to "refused".
CodeOf(reason) ==
  CASE reason \in {"invalid-amount", "step-up", "revoked"} -> reason
    [] reason = "over-cap" -> "per-spend-exceeded"
    [] reason = "over-total" -> "budget-exceeded"
    [] reason = "out-of-scope" -> "wrong-merchant"
    [] reason = "consumed" -> "revoked"
    [] OTHER -> "refused"

DoorOf(r) ==
  IF r.ok THEN [ok |-> TRUE, code |-> "none", amount |-> r.amount, remaining |-> r.remaining,
                replayed |-> FALSE]
          ELSE [Refusal(CodeOf(r.reason)) EXCEPT !.remaining = r.remaining]

\* Mutant: the door is returned and not kept.
CacheDoorMissing(c) ==
  /\ at[c] = "spending"
  /\ step[c] = "done"
  /\ door' = [door EXCEPT ![c] = DoorOf(result[c])]
  /\ Leave(c)
  /\ UNCHANGED <<engineVars, record, cache, request, terms, signed, answer>>

\* The engine answered: the door is kept for the key and returned.
CacheDoor(c) ==
  /\ at[c] = "spending"
  /\ step[c] = "done"
  /\ door' = [door EXCEPT ![c] = DoorOf(result[c])]
  /\ cache' = [cache EXCEPT ![request[c].key] = DoorOf(result[c])]
  /\ Leave(c)
  /\ UNCHANGED <<engineVars, record, request, terms, signed, answer>>

\* Mutant: a throw keeps the grant's lock.
SpendThrowsLocked(c) ==
  /\ at[c] = "spending"
  /\ step[c] = "threw"
  /\ Move(c, "failed")
  /\ UNCHANGED <<engineVars, record, cache, locks, request, terms, signed, replies>>

\* The engine threw (an item the catalog does not hold): nothing is kept, the lock is freed.
SpendThrows(c) ==
  /\ at[c] = "spending"
  /\ step[c] = "threw"
  /\ locks' = Settle(locks, GrantId)
  /\ Move(c, "failed")
  /\ UNCHANGED <<engineVars, record, cache, request, terms, signed, replies>>

-----------------------------------------------------------------------------
(* Revoke: the ledger at once and outside the mutex, the status inside it *)

\* Mutant: revoke drops the engine instead of stopping its ledger.
StopLedgerDrops ==
  /\ intent' = NoIntent
  /\ UNCHANGED <<catalog, ledger, completed, tails, step, purchase, total, reads, verdict, result>>

StopLedger == IF intent # NoIntent THEN Revoke ELSE UNCHANGED engineVars

RevokeNow(c) ==
  /\ Kind[c] = "revoke"
  /\ at[c] = "idle"
  /\ StopLedger
  /\ \/ intent # NoIntent /\ Move(c, "revoking") /\ UNCHANGED locks
     \/ intent = NoIntent /\ Enter(c)
  /\ UNCHANGED <<record, cache, request, terms, signed, replies>>

RevokeQueues(c) ==
  /\ at[c] = "revoking"
  /\ Enter(c)
  /\ UNCHANGED <<engineVars, record, cache, request, terms, signed, replies>>

\* Catches an authorize that sealed an engine after RevokeNow looked.
RevokeLocked(c) ==
  /\ Kind[c] = "revoke"
  /\ Locked(c)
  /\ StopLedger
  /\ status' = "revoked"
  /\ Leave(c)
  /\ Reply(c, "yes")
  /\ UNCHANGED <<opts, ageProof, memberPct, signedSkus, cache, request, terms, signed, door>>

-----------------------------------------------------------------------------
HostChangesCatalog(new) == ChangeCatalog(new) /\ UNCHANGED facadeVars

\* Steps the server itself takes once a call is under way.
ServerStep(c) ==
  \/ Authorize(c) \/ Deny(c) \/ Seal(c)
  \/ PresentationFails(c) \/ PresentationHolds(c) \/ RecordAgeProof(c) \/ RecordMembershipProof(c)
  \/ AuthorizeDevice(c)
  \/ Replay(c) \/ RefuseSpend(c) \/ SpendEngine(c) \/ EngineStep(c) \/ CacheDoor(c) \/ SpendThrows(c)
  \/ RevokeQueues(c) \/ RevokeLocked(c)

\* Requests that arrive from people, agents and their wallets.
Arrival(c) ==
  \/ Decide(c) \/ PresentAge(c) \/ PresentMembership(c) \/ SignRequest(c) \/ SignVerify(c)
  \/ \E p \in Purchases : AskSpend(c, p)
  \/ RevokeNow(c)

GrantsNext ==
  \/ \E new \in Catalogs : HostChangesCatalog(new)
  \/ \E c \in Calls : Arrival(c) \/ ServerStep(c)

GrantsSpec == GrantsInit /\ [][GrantsNext]_vars

\* Promise continuations always run; nothing is assumed of the people and agents.
FairGrantsSpec == GrantsSpec /\ \A c \in Calls : WF_vars(ServerStep(c))

-----------------------------------------------------------------------------
(* Properties *)

GrantsTypeOK ==
  /\ EngineTypeOK
  /\ opts \in Options
  /\ status \in {"pending", "authorized", "denied", "revoked"}
  /\ ageProof \in Ages
  /\ memberPct \in {0, LoyaltyPct}
  /\ signedSkus \in SUBSET Skus
  /\ cache \in [Keys -> [ok : BOOLEAN, code : DoorCodes, amount : Int, remaining : Int, replayed : BOOLEAN]]
  /\ locks \in [{GrantId} -> Seq(Calls)]
  /\ at \in [Calls -> Places]
  /\ request \in [Calls -> Purchases \cup {NoPurchase}]
  /\ terms \in [Calls -> [age : Ages, pct : {0, LoyaltyPct}]]
  /\ signed \in [Calls -> [age : Ages, pct : {0, LoyaltyPct}, skus : SUBSET Skus]]
  /\ door \in [Calls -> [ok : BOOLEAN, code : DoorCodes, amount : Int, remaining : Int, replayed : BOOLEAN]]
  /\ answer \in [Calls -> {"none", "yes", "no"}]

\* The facade drives the engine only through its own operations, so whatever the engine
\* guarantees holds of a grant: the promise of Allowance among it.
UsesEngine == EngineSpec

\* Terminal states: whatever races it (an approve that is sealing, a signature on its way), a
\* revoked grant has its ledger stopped and is never authorized again.
RevokedIsStopped == status = "revoked" /\ intent # NoIntent => revoked
RevokedIsFinal == [][status = "revoked" => status' = "revoked"]_vars

\* Revoke wins mid-spend: from the tick revoke() is called on a sealed grant, and in any case
\* once it has returned, no spend (not even one in flight) charges anything.
RevokeWins ==
  [][(\E c \in Calls : \/ at[c] = "revoking"
                       \/ Kind[c] = "revoke" /\ at[c] = "returned") => UNCHANGED <<draws, spent>>]_vars

\* One decision per grant: of all the approvals, denials and signatures in flight at most one
\* succeeds, and there is an intent to spend against only if it was not a denial.
OneDecision ==
  /\ \A c, d \in Calls :
       /\ Kind[c] \in {"approve", "deny", "sign"} /\ answer[c] = "yes"
       /\ Kind[d] \in {"approve", "deny", "sign"} /\ answer[d] = "yes"
       => c = d
  /\ intent # NoIntent =>
       \E c \in Calls : Kind[c] \in {"approve", "sign"} /\ answer[c] = "yes"
  /\ status \in {"pending", "denied"} => intent = NoIntent

\* The receipts an agent holds account for the ledger: money is taken under a key exactly when
\* the key's door says so and for that amount, except while the spend is still in the engine;
\* and the smallest headroom reported is the headroom there is.
ReceiptsMatchLedger ==
  LET inEngine == {c \in Calls : at[c] = "spending"} IN
  /\ \A k \in Keys : cache[k].ok => draws[k] = cache[k].amount
  /\ \A k \in Keys : draws[k] > 0 => cache[k].ok \/ \E c \in inEngine : request[c].key = k
  /\ inEngine = {} /\ spent > 0 =>
       \E k \in Keys : cache[k].ok /\ cache[k].remaining = Budget - spent

\* A retried key gets the outcome of the key's first answer, success or refusal, even when it
\* asks for another item or the item was re-priced since.
RetryGetsOriginal ==
  \A c \in Calls : door[c].replayed =>
    \E d \in Calls : /\ request[d].key = request[c].key
                     /\ door[d] = [door[c] EXCEPT !.replayed = FALSE]

\* A product restricted in every catalog the host had is bought only under a sealed proof of
\* that age, and on a device grant only if the wallet signed for it.
RestrictedNeedsProof ==
  \A c \in Calls : door[c].ok /\ ~door[c].replayed =>
    LET sku == request[c].sku IN
    /\ \E cat \in Catalogs : cat[sku] # Absent /\ cat[sku].minAge <= intent.age
    /\ opts.signing = "device" =>
         \E d \in Calls : Kind[d] = "sign" /\ answer[d] = "yes" /\ sku \in signed[d].skus

\* The comment on _boundsInputFor: a claim recorded between /request and /verify does not
\* silently ride a signature given for different terms.
SealedTermsAreSigned ==
  opts.signing = "device" /\ intent # NoIntent =>
    \E c \in Calls : /\ Kind[c] = "sign" /\ answer[c] = "yes"
                     /\ intent = [age |-> signed[c].age, pct |-> signed[c].pct]

\* Whoever holds the grant's mutex gets out of it, by an answer or by a throw: a revoke is
\* never stuck behind a spend or an approval.
RevokeTakesEffect ==
  \A c \in Calls : Kind[c] = "revoke" /\ at[c] # "idle" ~> status = "revoked" /\ at[c] = "returned"
=============================================================================
