---------------------------- MODULE Grants_proofs ----------------------------
(***************************************************************************)
(* What TLAPS proves of the Grants facade, for every set of requests and   *)
(* every catalog.  The inductive invariant adds to the engine's: the       *)
(* facade's types; who may be under the grant's lock (Placed); and the     *)
(* lifecycle of the record (Lifecycle), whose heart is that while an       *)
(* intent is being sealed the status cannot leave "pending".  Three more   *)
(* rest on it: which door a key was first given (DoorsInv), what a spend   *)
(* under the lock has done to its key (ReceiptsInv), and under which proof *)
(* and signature it does it (RestrictedInv).                               *)
(***************************************************************************)
EXTENDS Grants, DelegatedGrant_proofs

FacadeTypes ==
  /\ catalog \in Catalogs
  /\ opts \in Options
  /\ status \in {"pending", "authorized", "denied", "revoked"}
  /\ ageProof \in Ages
  /\ memberPct \in {0, LoyaltyPct}
  /\ signedSkus \in SUBSET Skus
  /\ cache \in [Keys -> [ok : BOOLEAN, code : DoorCodes, amount : Int, remaining : Int, replayed : BOOLEAN]]
  /\ locks \in [{GrantId} -> Seq(Calls)]
  /\ at \in [Calls -> Places]
  /\ request \in [Calls -> Purchases \cup {NoPurchase}]
  /\ terms \in [Calls -> [age : Ages, pct : {0, LoyaltyPct}]]
  /\ signed \in [Calls -> [age : Ages, pct : {0, LoyaltyPct}, skus : SUBSET Skus]]
  /\ door \in [Calls -> [ok : BOOLEAN, code : DoorCodes, amount : Int, remaining : Int, replayed : BOOLEAN]]
  /\ answer \in [Calls -> {"none", "yes", "no"}]

\* Which calls can be where, and that only the head of the queue is under the lock.
PlacedCall(c) ==
  /\ at[c] \in UnderLock => Executing(locks, GrantId, c)
  /\ at[c] = "presenting" => Kind[c] \in {"age", "membership"}
  /\ at[c] \in {"signing", "verifying"} => Kind[c] = "sign"
  /\ at[c] = "sealing" => Kind[c] \in {"approve", "sign"}
  /\ at[c] = "spending" => Kind[c] = "spend"
  /\ at[c] = "revoking" => Kind[c] = "revoke"
  /\ Kind[c] = "spend" /\ at[c] # "idle" => request[c] \in Purchases
  /\ answer[c] = "yes" => at[c] = "returned"
Placed == \A c \in Calls : PlacedCall(c)

Deciding == {c \in Calls : Kind[c] \in {"approve", "deny", "sign"} /\ answer[c] = "yes"}

Lifecycle ==
  /\ intent # NoIntent => status \in {"authorized", "revoked"}
  /\ RevokedIsStopped
  /\ \A c \in Calls : at[c] = "sealing" => status = "pending"
  /\ \A c \in Calls : at[c] = "revoking" => revoked
  /\ \A c \in Calls : Kind[c] = "revoke" /\ at[c] = "returned" => status = "revoked"
  /\ Deciding # {} => status # "pending"
  /\ OneDecision

Facade == FacadeTypes /\ Placed

GrantsInv == EngineInv /\ Facade /\ Lifecycle

-----------------------------------------------------------------------------
(* The grant's lock *)

\* One call is under the grant's lock.
LEMMA LockExcludes ==
  ASSUME Facade, NEW c \in Calls, NEW d \in Calls, Executing(locks, GrantId, c), at[d] \in UnderLock
  PROVE  c = d
<1>1. Executing(locks, GrantId, d)
  BY DEF Facade, Placed, PlacedCall
<1> QED
  BY <1>1 DEF Executing

\* A call that is let in finds nobody sealing or spending.
LEMMA LockIsFree ==
  ASSUME Facade, NEW c \in Calls, Locked(c)
  PROVE  \A d \in Calls : at[d] \notin UnderLock
BY LockExcludes DEF Locked, UnderLock

\* A call that moves leaves the others where they are.
LEMMA MoveTypes ==
  ASSUME Facade, NEW c \in Calls, NEW place \in Places, Move(c, place)
  PROVE  at' \in [Calls -> Places] /\ at'[c] = place /\ \A d \in Calls : d # c => at'[d] = at[d]
BY DEF Facade, FacadeTypes, Move

\* Whoever settles the lock was the only one under it.
LEMMA SettleLock ==
  ASSUME Facade, NEW c \in Calls, Executing(locks, GrantId, c),
         NEW place \in Places \ UnderLock, Move(c, place), locks' = Settle(locks, GrantId)
  PROVE  locks' \in [{GrantId} -> Seq(Calls)] /\ \A d \in Calls : at'[d] \notin UnderLock
<1>1. locks[GrantId] \in Seq(Calls) /\ locks[GrantId] # << >>
  BY DEF Facade, FacadeTypes, Executing
<1>2. Tail(locks[GrantId]) \in Seq(Calls)
  BY <1>1
<1>3. locks' \in [{GrantId} -> Seq(Calls)]
  BY <1>2 DEF Facade, FacadeTypes, Settle
<1>4. \A d \in Calls : d # c => at[d] \notin UnderLock
  BY LockExcludes
<1> QED
  BY <1>3, <1>4, MoveTypes

\* A call that queues for the lock lets nobody out.
LEMMA EnterLock ==
  ASSUME Facade, NEW c \in Calls, Enter(c)
  PROVE  /\ locks' \in [{GrantId} -> Seq(Calls)]
         /\ \A d \in Calls : at'[d] \in UnderLock => Executing(locks', GrantId, d)
<1>1. locks[GrantId] \in Seq(Calls) /\ "waiting" \in Places /\ "waiting" \notin UnderLock
  BY DEF Facade, FacadeTypes, Places, UnderLock
<1>2. locks' \in [{GrantId} -> Seq(Calls)] /\ locks'[GrantId] = Append(locks[GrantId], c)
  BY <1>1 DEF Enter, Join, Facade, FacadeTypes
<1>3. ASSUME NEW d \in Calls, at'[d] \in UnderLock PROVE Executing(locks', GrantId, d)
  <2>1. at[d] \in UnderLock
    BY <1>1, <1>3, MoveTypes DEF Enter
  <2>2. Executing(locks, GrantId, d)
    BY <2>1 DEF Facade, Placed, PlacedCall
  <2> QED
    BY <1>1, <1>2, <2>2, JoinKeepsHead DEF Executing
<1> QED
  BY <1>2, <1>3

-----------------------------------------------------------------------------
(* The facade drives the engine by the engine's own steps *)

\* The facade drives the engine by the engine's own steps.
LEMMA EngineDriven ==
  ASSUME EngineInv, Facade, [GrantsNext]_vars
  PROVE  [EngineNext]_engineVars
<1> USE DEF Facade
<1>1. ASSUME NEW c \in Calls, Seal(c) PROVE EngineNext
  <2>1. terms[c] \in Terms
    BY ProofTermsAssumption DEF FacadeTypes
  <2> QED
    BY <1>1, <2>1 DEF Seal, EngineNext, Environment
<1>2. ASSUME NEW c \in Calls, SpendEngine(c) PROVE EngineNext
  <2>1. request[c] \in Purchases
    BY <1>2 DEF SpendEngine, Locked, Placed, PlacedCall
  <2> QED
    BY <1>2, <2>1 DEF SpendEngine, EngineNext, Environment
<1>3. ASSUME NEW c \in Calls, EngineStep(c) PROVE EngineNext
  BY <1>3 DEF EngineStep, EngineNext
<1>4. ASSUME StopLedger PROVE [EngineNext]_engineVars
  BY <1>4 DEF StopLedger, EngineNext, Environment
<1>5. ASSUME NEW new \in Catalogs, HostChangesCatalog(new) PROVE EngineNext
  BY <1>5 DEF HostChangesCatalog, EngineNext, Environment
<1>6. ASSUME NEW c \in Calls, Arrival(c) PROVE [EngineNext]_engineVars
  BY <1>4, <1>6 DEF Arrival, Decide, PresentAge, PresentMembership, SignRequest, SignVerify, AskSpend, RevokeNow
<1>7. ASSUME NEW c \in Calls, ServerStep(c) PROVE [EngineNext]_engineVars
  BY <1>1, <1>2, <1>3, <1>4, <1>7
     DEF ServerStep, Authorize, Deny, Refuse, Recorded, PresentationFails, PresentationHolds, RecordAgeProof,
         RecordMembershipProof, AuthorizeDevice, Replay, RefuseSpend, CacheDoor, SpendThrows, RevokeQueues,
         RevokeLocked
<1>8. CASE UNCHANGED vars
  BY <1>8 DEF vars
<1> QED
  BY <1>5, <1>6, <1>7, <1>8 DEF GrantsNext

-----------------------------------------------------------------------------
(* The facade's types are inductive *)

\* The ages a grant's scope asks for are ages.
LEMMA ScopeAges ==
  ASSUME FacadeTypes
  PROVE  AgesInScope \subseteq Ages
<1> SUFFICES ASSUME NEW s \in Skus, catalog[s] # Absent PROVE catalog[s].minAge \in Ages
  BY DEF AgesInScope
<1>1. catalog \in Catalogs
  BY DEF FacadeTypes
<1> QED
  BY <1>1 DEF Ages

\* The doors a spend may be given.
LEMMA DoorsTyped ==
  /\ NoDoor \in [ok : BOOLEAN, code : DoorCodes, amount : Int, remaining : Int, replayed : BOOLEAN]
  /\ \A code \in DoorCodes :
       Refusal(code) \in [ok : BOOLEAN, code : DoorCodes, amount : Int, remaining : Int, replayed : BOOLEAN]
<1>1. NoDoor \in [ok : BOOLEAN, code : DoorCodes, amount : Int, remaining : Int, replayed : BOOLEAN]
  BY DEF NoDoor, DoorCodes
<1>2. ASSUME NEW code \in DoorCodes
      PROVE  Refusal(code) \in [ok : BOOLEAN, code : DoorCodes, amount : Int, remaining : Int, replayed : BOOLEAN]
  BY <1>1 DEF Refusal
<1> QED
  BY <1>1, <1>2

\* What the door refuses with.
LEMMA RefusalTyped ==
  ASSUME NEW p
  PROVE  DoorRefusal(p) \in DoorCodes
BY DEF DoorRefusal, DoorCodes

\* The door that is made of the engine's result.
LEMMA DoorTyped ==
  ASSUME EngineTypeOK, NEW c \in Calls
  PROVE  DoorOf(result[c]) \in [ok : BOOLEAN, code : DoorCodes, amount : Int, remaining : Int, replayed : BOOLEAN]
<1>1. result[c] \in [ok : BOOLEAN, amount : Int, remaining : Int, reason : Verdicts]
  BY DEF EngineTypeOK
<1>2. CodeOf(result[c].reason) \in DoorCodes
  BY DEF CodeOf, DoorCodes
<1>3. "none" \in DoorCodes
  BY DEF DoorCodes
<1>4. CASE result[c].ok
  BY <1>1, <1>3, <1>4 DEF DoorOf
<1>5. CASE ~result[c].ok
  <2>1. Refusal(CodeOf(result[c].reason))
          \in [ok : BOOLEAN, code : DoorCodes, amount : Int, remaining : Int, replayed : BOOLEAN]
    BY <1>2, DoorsTyped
  <2> QED
    BY <1>1, <1>5, <2>1 DEF DoorOf
<1> QED
  BY <1>4, <1>5

\* Leaving the lock with a reply.
LEMMA LeaveTypes ==
  ASSUME Facade, NEW c \in Calls, Executing(locks, GrantId, c), Leave(c)
  PROVE  locks' \in [{GrantId} -> Seq(Calls)] /\ at' \in [Calls -> Places]
<1>1. "returned" \in Places \ UnderLock
  BY DEF Places, UnderLock
<1> QED
  BY <1>1, SettleLock, MoveTypes DEF Leave

\* A call is replied to by a yes or a no.
LEMMA ReplyTypes ==
  ASSUME FacadeTypes, NEW c \in Calls, NEW a \in {"yes", "no"}, Reply(c, a)
  PROVE  answer' \in [Calls -> {"none", "yes", "no"}]
BY DEF FacadeTypes, Reply

\* A step of a spend under way changes neither the catalog, the intent nor the kill switch.
LEMMA EngineLeavesCatalog ==
  ASSUME NEW c \in Calls, CallStep(c)
  PROVE  UNCHANGED <<catalog, intent, revoked>>
BY DEF CallStep, CompleteOrder, Lookup, Reprice, RepriceThrows, ReadPrior, StoreFails, Check, CommitRefused,
       Commit, CommitFails, Record, Return, ReturnThrows, ledger

\* Every step keeps the facade's types.
LEMMA TypesStep ==
  ASSUME EngineInv, Facade, [GrantsNext]_vars
  PROVE  FacadeTypes'
<1> USE DEF Facade
<1> DEFINE Doors == [ok : BOOLEAN, code : DoorCodes, amount : Int, remaining : Int, replayed : BOOLEAN]
<1>1. ASSUME NEW c \in Calls, Decide(c) PROVE FacadeTypes'
  BY <1>1, EnterLock, MoveTypes DEF Decide, Enter, FacadeTypes, engineVars, record, replies, Places
<1>2. ASSUME NEW c \in Calls, Executing(locks, GrantId, c), Refuse(c) PROVE FacadeTypes'
  BY <1>2, LeaveTypes, ReplyTypes DEF Refuse, FacadeTypes, engineVars, record
<1>3. ASSUME NEW c \in Calls, Authorize(c) PROVE FacadeTypes'
  <2>1. CASE Refuse(c)
    BY <1>2, <1>3, <2>1 DEF Authorize, Locked
  <2>2. CASE ~Refuse(c)
    <3>1. Move(c, "sealing") /\ terms' = [terms EXCEPT ![c] = [age |-> ageProof, pct |-> memberPct]]
          /\ UNCHANGED <<engineVars, record, cache, locks, request, signed, replies>>
      BY <1>3, <2>2 DEF Authorize
    <3> QED
      BY <3>1, MoveTypes DEF FacadeTypes, engineVars, record, replies, Places
  <2> QED
    BY <2>1, <2>2
<1>4. ASSUME NEW c \in Calls, Deny(c) PROVE FacadeTypes'
  <2>1. CASE Refuse(c)
    BY <1>2, <1>4, <2>1 DEF Deny, Locked
  <2>2. CASE ~Refuse(c)
    BY <1>4, <2>2, LeaveTypes, ReplyTypes DEF Deny, Locked, FacadeTypes, engineVars
  <2> QED
    BY <2>1, <2>2
<1>5. ASSUME NEW c \in Calls, Seal(c) PROVE FacadeTypes'
  <2>1. Executing(locks, GrantId, c)
    BY <1>5 DEF Seal, Placed, PlacedCall, UnderLock
  <2>2. signedSkus' \in SUBSET Skus
    BY <1>5 DEF Seal, FacadeTypes
  <2> QED
    BY <1>5, <2>1, <2>2, LeaveTypes, ReplyTypes DEF Seal, PreApprove, FacadeTypes
<1>6. ASSUME NEW c \in Calls, PresentAge(c) PROVE FacadeTypes'
  <2>1. terms' \in [Calls -> [age : Ages, pct : {0, LoyaltyPct}]]
    BY <1>6, ScopeAges DEF PresentAge, FacadeTypes
  <2> QED
    BY <1>6, <2>1, MoveTypes DEF PresentAge, FacadeTypes, engineVars, record, replies, Places
<1>7. ASSUME NEW c \in Calls, PresentMembership(c) PROVE FacadeTypes'
  <2>1. 0 \in Ages
    BY DEF Ages
  <2> QED
    BY <1>7, <2>1, MoveTypes DEF PresentMembership, FacadeTypes, engineVars, record, replies, Places
<1>8. ASSUME NEW c \in Calls, PresentationFails(c) PROVE FacadeTypes'
  BY <1>8, MoveTypes, ReplyTypes DEF PresentationFails, FacadeTypes, engineVars, record, Places
<1>9. ASSUME NEW c \in Calls, PresentationHolds(c) PROVE FacadeTypes'
  BY <1>9, EnterLock, MoveTypes DEF PresentationHolds, Enter, FacadeTypes, engineVars, record, replies, Places
<1>10. ASSUME NEW c \in Calls, RecordAgeProof(c) PROVE FacadeTypes'
  <2>1. CASE Refuse(c)
    BY <1>2, <1>10, <2>1 DEF RecordAgeProof, Locked
  <2>2. CASE ~Refuse(c)
    <3>1. ageProof' \in Ages /\ UNCHANGED memberPct /\ Recorded(c)
      BY <1>10, <2>2 DEF RecordAgeProof, FacadeTypes
    <3>2. Executing(locks, GrantId, c)
      BY <1>10 DEF RecordAgeProof, Locked
    <3> QED
      BY <3>1, <3>2, LeaveTypes, ReplyTypes DEF Recorded, FacadeTypes, engineVars
  <2> QED
    BY <2>1, <2>2
<1>11. ASSUME NEW c \in Calls, RecordMembershipProof(c) PROVE FacadeTypes'
  <2>1. CASE Refuse(c)
    BY <1>2, <1>11, <2>1 DEF RecordMembershipProof, Locked
  <2>2. CASE ~Refuse(c)
    BY <1>11, <2>2, LeaveTypes, ReplyTypes DEF RecordMembershipProof, Recorded, Locked, FacadeTypes, engineVars
  <2> QED
    BY <2>1, <2>2
<1>12. ASSUME NEW c \in Calls, SignRequest(c) PROVE FacadeTypes'
  <2>1. signed' \in [Calls -> [age : Ages, pct : {0, LoyaltyPct}, skus : SUBSET Skus]]
    BY <1>12 DEF SignRequest, SignInputs, AllowedSkus, FacadeTypes
  <2> QED
    BY <1>12, <2>1, MoveTypes DEF SignRequest, FacadeTypes, engineVars, record, replies, Places
<1>13. ASSUME NEW c \in Calls, SignVerify(c) PROVE FacadeTypes'
  <2>1. \E place \in {"verifying", "returned"} : Move(c, place)
    BY <1>13 DEF SignVerify
  <2>2. at' \in [Calls -> Places]
    BY <2>1, MoveTypes DEF Places
  <2>3. answer' \in [Calls -> {"none", "yes", "no"}]
    BY <1>13, ReplyTypes DEF SignVerify, FacadeTypes
  <2> QED
    BY <1>13, <2>2, <2>3 DEF SignVerify, FacadeTypes, engineVars, record
<1>14. ASSUME NEW c \in Calls, AuthorizeDevice(c) PROVE FacadeTypes'
  <2>1. Executing(locks, GrantId, c)
    BY <1>14 DEF AuthorizeDevice, Locked
  <2>2. CASE Refuse(c)
    BY <1>2, <2>1, <2>2
  <2>3. CASE Leave(c) /\ ~Refuse(c)
    <3>1. signedSkus' \in SUBSET Skus /\ Reply(c, "yes") /\ status' = "authorized"
          /\ UNCHANGED <<engineVars, opts, ageProof, memberPct, cache, request, terms, signed, door>>
      BY <1>14, <2>3, MoveTypes DEF AuthorizeDevice, FacadeTypes, Leave, Places
    <3> QED
      BY <2>1, <2>3, <3>1, LeaveTypes, ReplyTypes DEF FacadeTypes, engineVars
  <2>4. CASE ~Leave(c) /\ ~Refuse(c)
    <3>1. Move(c, "sealing") /\ terms' = [terms EXCEPT ![c] = [age |-> ageProof, pct |-> memberPct]]
          /\ UNCHANGED <<engineVars, record, cache, locks, request, signed, replies>>
      BY <1>14, <2>4 DEF AuthorizeDevice
    <3> QED
      BY <3>1, MoveTypes DEF FacadeTypes, engineVars, record, replies, Places
  <2> QED
    BY <2>2, <2>3, <2>4
<1>15. ASSUME NEW c \in Calls, NEW p \in Purchases, AskSpend(c, p) PROVE FacadeTypes'
  BY <1>15, EnterLock, MoveTypes DEF AskSpend, Enter, FacadeTypes, engineVars, record, replies, Places
<1>16. ASSUME NEW c \in Calls, Replay(c) PROVE FacadeTypes'
  <2>1. request[c] \in Purchases /\ request[c].key \in Keys
    BY <1>16, PurchasesAssumption DEF Replay, Locked, Placed, PlacedCall
  <2>2. cache[request[c].key] \in Doors
    BY <2>1 DEF FacadeTypes
  <2>3. [cache[request[c].key] EXCEPT !.replayed = TRUE] \in Doors
    BY <2>2
  <2>4. door' \in [Calls -> Doors]
    BY <1>16, <2>3 DEF Replay, FacadeTypes
  <2> QED
    BY <1>16, <2>4, LeaveTypes DEF Replay, Locked, FacadeTypes, engineVars, record
<1>17. ASSUME NEW c \in Calls, RefuseSpend(c) PROVE FacadeTypes'
  <2>1. Refusal(DoorRefusal(request[c])) \in Doors
    BY RefusalTyped, DoorsTyped
  <2>2. door' \in [Calls -> Doors] /\ cache' \in [Keys -> Doors]
    BY <1>17, <2>1 DEF RefuseSpend, FacadeTypes
  <2> QED
    BY <1>17, <2>2, LeaveTypes DEF RefuseSpend, Locked, FacadeTypes, engineVars, record
<1>18. ASSUME NEW c \in Calls, SpendEngine(c) PROVE FacadeTypes'
  BY <1>18, MoveTypes DEF SpendEngine, Spend, FacadeTypes, record, replies, Places
<1>19. ASSUME NEW c \in Calls, EngineStep(c) PROVE FacadeTypes'
  BY <1>19, EngineLeavesCatalog DEF EngineStep, facadeVars, FacadeTypes
<1>20. ASSUME NEW c \in Calls, CacheDoor(c) PROVE FacadeTypes'
  <2>1. Executing(locks, GrantId, c)
    BY <1>20 DEF CacheDoor, Placed, PlacedCall, UnderLock
  <2>2. DoorOf(result[c]) \in Doors
    BY DoorTyped DEF EngineInv, Framed
  <2>3. door' \in [Calls -> Doors] /\ cache' \in [Keys -> Doors]
    BY <1>20, <2>2 DEF CacheDoor, FacadeTypes
  <2> QED
    BY <1>20, <2>1, <2>3, LeaveTypes DEF CacheDoor, FacadeTypes, engineVars, record
<1>21. ASSUME NEW c \in Calls, SpendThrows(c) PROVE FacadeTypes'
  <2>1. Executing(locks, GrantId, c) /\ "failed" \in Places \ UnderLock
    BY <1>21 DEF SpendThrows, Placed, PlacedCall, UnderLock, Places
  <2> QED
    BY <1>21, <2>1, SettleLock, MoveTypes DEF SpendThrows, FacadeTypes, engineVars, record, replies
<1>22. ASSUME StopLedger PROVE UNCHANGED <<catalog, intent>>
  BY <1>22 DEF StopLedger, Revoke, engineVars
<1>23. ASSUME NEW c \in Calls, RevokeNow(c) PROVE FacadeTypes'
  <2>1. UNCHANGED <<catalog, intent>>
    BY <1>22, <1>23 DEF RevokeNow
  <2>2. CASE Enter(c)
    BY <1>23, <2>1, <2>2, EnterLock, MoveTypes DEF RevokeNow, Enter, FacadeTypes, record, replies, Places
  <2>3. CASE ~Enter(c)
    BY <1>23, <2>1, <2>3, MoveTypes DEF RevokeNow, FacadeTypes, record, replies, Places
  <2> QED
    BY <2>2, <2>3
<1>24. ASSUME NEW c \in Calls, RevokeQueues(c) PROVE FacadeTypes'
  BY <1>24, EnterLock, MoveTypes DEF RevokeQueues, Enter, FacadeTypes, engineVars, record, replies, Places
<1>25. ASSUME NEW c \in Calls, RevokeLocked(c) PROVE FacadeTypes'
  BY <1>22, <1>25, LeaveTypes, ReplyTypes DEF RevokeLocked, Locked, FacadeTypes
<1>26. ASSUME NEW new \in Catalogs, HostChangesCatalog(new) PROVE FacadeTypes'
  BY <1>26 DEF HostChangesCatalog, ChangeCatalog, facadeVars, FacadeTypes
<1>27. CASE UNCHANGED vars
  BY <1>27 DEF vars, engineVars, facadeVars, FacadeTypes
<1>28. ASSUME NEW c \in Calls, Arrival(c) PROVE FacadeTypes'
  BY <1>1, <1>6, <1>7, <1>12, <1>13, <1>15, <1>23, <1>28 DEF Arrival
<1>29. ASSUME NEW c \in Calls, ServerStep(c) PROVE FacadeTypes'
  BY <1>3, <1>4, <1>5, <1>8, <1>9, <1>10, <1>11, <1>14, <1>16, <1>17, <1>18, <1>19, <1>20, <1>21, <1>24,
     <1>25, <1>29 DEF ServerStep
<1> QED
  BY <1>26, <1>27, <1>28, <1>29 DEF GrantsNext
-----------------------------------------------------------------------------
(* Who may be where is inductive *)

\* Where a call of each kind may go.
MayGo(c, place) ==
  /\ place = "presenting" => Kind[c] \in {"age", "membership"}
  /\ place \in {"signing", "verifying"} => Kind[c] = "sign"
  /\ place = "sealing" => Kind[c] \in {"approve", "sign"}
  /\ place = "spending" => Kind[c] = "spend"
  /\ place = "revoking" => Kind[c] = "revoke"

Answered(c, place) == answer' = answer \/ (place = "returned" /\ (Reply(c, "yes") \/ Reply(c, "no")))

\* Only c moves, and it may be where it goes.
LEMMA MovePlaced ==
  ASSUME Facade, NEW c \in Calls, NEW place \in Places, Move(c, place), at[c] # "returned",
         \A d \in Calls : at'[d] \in UnderLock => Executing(locks', GrantId, d),
         \A d \in Calls : d # c => request'[d] = request[d],
         Kind[c] = "spend" => request'[c] \in Purchases,
         Answered(c, place), MayGo(c, place)
  PROVE  Placed'
<1>1. at'[c] = place /\ \A d \in Calls : d # c => at'[d] = at[d]
  BY MoveTypes
<1>2. answer'[c] = "yes" => place = "returned"
  BY DEF Answered, Facade, FacadeTypes, Placed, PlacedCall
<1>3. \A d \in Calls : d # c => answer'[d] = answer[d]
  BY DEF Answered, Facade, FacadeTypes, Reply
<1>4. ASSUME NEW d \in Calls, d # c PROVE PlacedCall(d)'
  BY <1>1, <1>3, <1>4 DEF Facade, Placed, PlacedCall
<1>5. PlacedCall(c)'
  BY <1>1, <1>2 DEF PlacedCall, MayGo
<1> QED
  BY <1>4, <1>5 DEF Placed

\* Who queues for the lock stands there with what it asked for.
LEMMA EnterPlaced ==
  ASSUME Facade, NEW c \in Calls, Enter(c), at[c] # "returned", UNCHANGED answer,
         \A d \in Calls : d # c => request'[d] = request[d],
         Kind[c] = "spend" => request'[c] \in Purchases
  PROVE  Placed'
<1>1. Move(c, "waiting") /\ "waiting" \in Places
  BY DEF Enter, Places
<1>2. \A d \in Calls : at'[d] \in UnderLock => Executing(locks', GrantId, d)
  BY EnterLock
<1>3. MayGo(c, "waiting") /\ Answered(c, "waiting")
  BY DEF MayGo, Answered
<1> QED
  BY <1>1, <1>2, <1>3, MovePlaced

\* Who leaves the lock lets only itself out.
LEMMA LeavePlaced ==
  ASSUME Facade, NEW c \in Calls, Executing(locks, GrantId, c), at[c] \in {"waiting", "sealing", "spending"},
         NEW place \in {"returned", "failed"}, Move(c, place), locks' = Settle(locks, GrantId),
         UNCHANGED request, Answered(c, place)
  PROVE  Placed'
<1>1. place \in Places \ UnderLock
  BY DEF Places, UnderLock
<1>2. \A d \in Calls : at'[d] \notin UnderLock
  BY <1>1, SettleLock
<1>3. Kind[c] = "spend" => request'[c] \in Purchases
  BY DEF Facade, Placed, PlacedCall
<1>4. MayGo(c, place) /\ at[c] # "returned"
  BY DEF MayGo
<1>5. \A d \in Calls : at'[d] \in UnderLock => Executing(locks', GrantId, d)
  BY <1>2
<1> QED
  BY <1>1, <1>3, <1>4, <1>5, MovePlaced

\* Going under the lock: its holder does, and nobody else is there.
LEMMA HoldPlaced ==
  ASSUME Facade, NEW c \in Calls, Locked(c), NEW place \in UnderLock, Move(c, place),
         UNCHANGED <<locks, request, answer>>,
         MayGo(c, place)
  PROVE  Placed'
<1>1. place \in Places
  BY DEF Places, UnderLock
<1>2. \A d \in Calls : at'[d] \in UnderLock => Executing(locks', GrantId, d)
  <2>1. \A d \in Calls : d # c => at'[d] \notin UnderLock
    BY <1>1, MoveTypes, LockIsFree
  <2> QED
    BY <2>1 DEF Locked, Executing
<1>3. Kind[c] = "spend" => request'[c] \in Purchases
  BY DEF Locked, Facade, Placed, PlacedCall
<1>4. Answered(c, place) /\ at[c] # "returned"
  BY DEF Answered, Locked
<1> QED
  BY <1>1, <1>2, <1>3, <1>4, MovePlaced

\* Moving outside the lock.
LEMMA StrollPlaced ==
  ASSUME Facade, NEW c \in Calls, NEW place \in Places \ UnderLock, Move(c, place), at[c] # "returned",
         UNCHANGED <<locks, request>>,
         Kind[c] = "spend" => request[c] \in Purchases,
         Answered(c, place), MayGo(c, place)
  PROVE  Placed'
<1>1. \A d \in Calls : at'[d] \in UnderLock => Executing(locks', GrantId, d)
  BY MoveTypes DEF Facade, Placed, PlacedCall, Executing
<1> QED
  BY <1>1, MovePlaced

\* Every step keeps each call where the lock and its request allow it to be.
LEMMA PlacedStep ==
  ASSUME EngineInv, Facade, [GrantsNext]_vars
  PROVE  Placed'
<1> USE DEF record, replies, MayGo, Answered
<1>1. ASSUME NEW c \in Calls, Decide(c) PROVE Placed'
  BY <1>1, EnterPlaced DEF Decide
<1>2. ASSUME NEW c \in Calls, Locked(c), Refuse(c) PROVE Placed'
  BY <1>2, LeavePlaced DEF Locked, Refuse, Leave
<1>3. ASSUME NEW c \in Calls, Authorize(c) PROVE Placed'
  <2>1. CASE Refuse(c)
    BY <1>2, <1>3, <2>1 DEF Authorize
  <2>2. CASE ~Refuse(c)
    BY <1>3, <2>2, HoldPlaced DEF Authorize, UnderLock
  <2> QED
    BY <2>1, <2>2
<1>4. ASSUME NEW c \in Calls, Deny(c) PROVE Placed'
  <2>1. CASE Refuse(c)
    BY <1>2, <1>4, <2>1 DEF Deny
  <2>2. CASE ~Refuse(c)
    BY <1>4, <2>2, LeavePlaced DEF Deny, Locked, Leave
  <2> QED
    BY <2>1, <2>2
<1>5. ASSUME NEW c \in Calls, Seal(c) PROVE Placed'
  <2>1. Executing(locks, GrantId, c)
    BY <1>5 DEF Seal, Facade, Placed, PlacedCall, UnderLock
  <2> QED
    BY <1>5, <2>1, LeavePlaced DEF Seal, Leave
<1>6. ASSUME NEW c \in Calls, PresentAge(c) PROVE Placed'
  BY <1>6, StrollPlaced DEF PresentAge, Places, UnderLock
<1>7. ASSUME NEW c \in Calls, PresentMembership(c) PROVE Placed'
  BY <1>7, StrollPlaced DEF PresentMembership, Places, UnderLock
<1>8. ASSUME NEW c \in Calls, PresentationFails(c) PROVE Placed'
  <2>1. Kind[c] # "spend"
    BY <1>8 DEF PresentationFails, Facade, Placed, PlacedCall
  <2> QED
    BY <1>8, <2>1, StrollPlaced DEF PresentationFails, Places, UnderLock
<1>9. ASSUME NEW c \in Calls, PresentationHolds(c) PROVE Placed'
  <2>1. Kind[c] # "spend"
    BY <1>9 DEF PresentationHolds, Facade, Placed, PlacedCall
  <2> QED
    BY <1>9, <2>1, EnterPlaced DEF PresentationHolds
<1>10. ASSUME NEW c \in Calls, RecordAgeProof(c) PROVE Placed'
  <2>1. CASE Refuse(c)
    BY <1>2, <1>10, <2>1 DEF RecordAgeProof
  <2>2. CASE ~Refuse(c)
    BY <1>10, <2>2, LeavePlaced DEF RecordAgeProof, Recorded, Locked, Leave
  <2> QED
    BY <2>1, <2>2
<1>11. ASSUME NEW c \in Calls, RecordMembershipProof(c) PROVE Placed'
  <2>1. CASE Refuse(c)
    BY <1>2, <1>11, <2>1 DEF RecordMembershipProof
  <2>2. CASE ~Refuse(c)
    BY <1>11, <2>2, LeavePlaced DEF RecordMembershipProof, Recorded, Locked, Leave
  <2> QED
    BY <2>1, <2>2
<1>12. ASSUME NEW c \in Calls, SignRequest(c) PROVE Placed'
  BY <1>12, StrollPlaced DEF SignRequest, Places, UnderLock
<1>13. ASSUME NEW c \in Calls, SignVerify(c) PROVE Placed'
  <2>1. Kind[c] = "sign"
    BY <1>13 DEF SignVerify, Facade, Placed, PlacedCall
  <2>2. CASE Move(c, "verifying") /\ UNCHANGED answer
    BY <1>13, <2>1, <2>2, StrollPlaced DEF SignVerify, Places, UnderLock
  <2>3. CASE Move(c, "returned") /\ Reply(c, "no")
    BY <1>13, <2>1, <2>3, StrollPlaced DEF SignVerify, Places, UnderLock
  <2> QED
    BY <1>13, <2>2, <2>3 DEF SignVerify
<1>14. ASSUME NEW c \in Calls, AuthorizeDevice(c) PROVE Placed'
  <2>1. CASE Refuse(c)
    BY <1>2, <1>14, <2>1 DEF AuthorizeDevice
  <2>2. CASE Leave(c) /\ ~Refuse(c)
    <3>1. UNCHANGED request /\ Reply(c, "yes")
      BY <1>14, <2>2, MoveTypes DEF AuthorizeDevice, Leave, Places
    <3> QED
      BY <1>14, <2>2, <3>1, LeavePlaced DEF AuthorizeDevice, Locked, Leave
  <2>3. CASE ~Leave(c) /\ ~Refuse(c)
    BY <1>14, <2>3, HoldPlaced DEF AuthorizeDevice, UnderLock
  <2> QED
    BY <2>1, <2>2, <2>3
<1>15. ASSUME NEW c \in Calls, NEW p \in Purchases, AskSpend(c, p) PROVE Placed'
  <2>1. request'[c] = p /\ \A d \in Calls : d # c => request'[d] = request[d]
    BY <1>15 DEF AskSpend, Facade, FacadeTypes
  <2> QED
    BY <1>15, <2>1, EnterPlaced DEF AskSpend
<1>16. ASSUME NEW c \in Calls, Replay(c) PROVE Placed'
  BY <1>16, LeavePlaced DEF Replay, Locked, Leave
<1>17. ASSUME NEW c \in Calls, RefuseSpend(c) PROVE Placed'
  BY <1>17, LeavePlaced DEF RefuseSpend, Locked, Leave
<1>18. ASSUME NEW c \in Calls, SpendEngine(c) PROVE Placed'
  BY <1>18, HoldPlaced DEF SpendEngine, UnderLock
<1>19. ASSUME UNCHANGED facadeVars PROVE Placed'
  BY <1>19 DEF facadeVars, Facade, Placed, PlacedCall, Executing
<1>20. ASSUME NEW c \in Calls, CacheDoor(c) PROVE Placed'
  <2>1. Executing(locks, GrantId, c)
    BY <1>20 DEF CacheDoor, Facade, Placed, PlacedCall, UnderLock
  <2> QED
    BY <1>20, <2>1, LeavePlaced DEF CacheDoor, Leave
<1>21. ASSUME NEW c \in Calls, SpendThrows(c) PROVE Placed'
  <2>1. Executing(locks, GrantId, c)
    BY <1>21 DEF SpendThrows, Facade, Placed, PlacedCall, UnderLock
  <2> QED
    BY <1>21, <2>1, LeavePlaced DEF SpendThrows
<1>22. ASSUME NEW c \in Calls, RevokeNow(c) PROVE Placed'
  <2>1. CASE Enter(c)
    BY <1>22, <2>1, EnterPlaced DEF RevokeNow
  <2>2. CASE ~Enter(c)
    BY <1>22, <2>2, StrollPlaced DEF RevokeNow, Places, UnderLock
  <2> QED
    BY <2>1, <2>2
<1>23. ASSUME NEW c \in Calls, RevokeQueues(c) PROVE Placed'
  <2>1. Kind[c] # "spend"
    BY <1>23 DEF RevokeQueues, Facade, Placed, PlacedCall
  <2> QED
    BY <1>23, <2>1, EnterPlaced DEF RevokeQueues
<1>24. ASSUME NEW c \in Calls, RevokeLocked(c) PROVE Placed'
  BY <1>24, LeavePlaced DEF RevokeLocked, Locked, Leave
<1>25. ASSUME NEW c \in Calls, Arrival(c) PROVE Placed'
  BY <1>1, <1>6, <1>7, <1>12, <1>13, <1>15, <1>22, <1>25 DEF Arrival
<1>26. ASSUME NEW c \in Calls, ServerStep(c) PROVE Placed'
  BY <1>3, <1>4, <1>5, <1>8, <1>9, <1>10, <1>11, <1>14, <1>16, <1>17, <1>18, <1>19, <1>20, <1>21, <1>23,
     <1>24, <1>26 DEF ServerStep, EngineStep
<1> QED
  BY <1>19, <1>25, <1>26 DEF GrantsNext, HostChangesCatalog, vars
-----------------------------------------------------------------------------
(* The lifecycle is inductive *)

\* A step that decides nothing: c moves, the status and the intent stay.
LEMMA QuietStep ==
  ASSUME Facade, Lifecycle, NEW c \in Calls, NEW place \in Places, Move(c, place),
         place = "sealing" => status = "pending",
         place = "revoking" => revoked',
         place = "returned" => Kind[c] # "revoke",
         UNCHANGED <<status, intent>>, revoked => revoked',
         \/ answer' = answer
         \/ Reply(c, "no") /\ answer[c] # "yes"
         \/ Reply(c, "yes") /\ Kind[c] \in {"age", "membership"}
  PROVE  Lifecycle'
<1>1. at'[c] = place /\ \A d \in Calls : d # c => at'[d] = at[d]
  BY MoveTypes
<1>2. \A d \in Calls : Kind[d] \in {"approve", "deny", "sign"} => (answer'[d] = "yes" <=> answer[d] = "yes")
  BY DEF Facade, FacadeTypes, Reply
<1>3. Deciding' = Deciding
  BY <1>2 DEF Deciding
<1>4. OneDecision'
  BY <1>2 DEF Lifecycle, OneDecision
<1>5. RevokedIsStopped'
  BY DEF Lifecycle, RevokedIsStopped
<1>6. \A d \in Calls : /\ at'[d] = "sealing" => status' = "pending"
                       /\ at'[d] = "revoking" => revoked'
                       /\ Kind[d] = "revoke" /\ at'[d] = "returned" => status' = "revoked"
  BY <1>1 DEF Lifecycle
<1>7. (intent' # NoIntent => status' \in {"authorized", "revoked"}) /\ (Deciding' # {} => status' # "pending")
  BY <1>3 DEF Lifecycle
<1> QED
  BY <1>4, <1>5, <1>6, <1>7 DEF Lifecycle

\* The human's decision: nothing was decided before, and nobody else is about to.
LEMMA DecisionStep ==
  ASSUME Facade, Lifecycle, NEW c \in Calls, Executing(locks, GrantId, c), Leave(c), Reply(c, "yes"),
         at[c] \notin {"returned"}, status = "pending",
         \/ Kind[c] \in {"approve", "sign"} /\ status' = "authorized"
         \/ Kind[c] = "deny" /\ status' = "denied" /\ intent' = intent,
         UNCHANGED revoked
  PROVE  Lifecycle'
<1>1. "returned" \in Places \ UnderLock
  BY DEF Places, UnderLock
<1>2. /\ at'[c] = "returned" /\ \A d \in Calls : d # c => at'[d] = at[d]
      /\ \A d \in Calls : at'[d] \notin UnderLock
  BY <1>1, MoveTypes, SettleLock DEF Leave
<1>3. intent = NoIntent /\ Deciding = {}
  BY DEF Lifecycle
<1>4. answer'[c] = "yes" /\ \A d \in Calls : d # c => answer'[d] = answer[d]
  BY DEF Facade, FacadeTypes, Reply
<1>5. \A d \in Calls : Kind[d] \in {"approve", "deny", "sign"} /\ answer'[d] = "yes" => d = c
  BY <1>3, <1>4 DEF Deciding
<1>6. status' # "pending" /\ status' # "revoked"
  OBVIOUS
<1>7. OneDecision'
  BY <1>3, <1>4, <1>5, <1>6 DEF OneDecision
<1>8. \A d \in Calls : at'[d] = "revoking" => revoked'
  BY <1>2 DEF Lifecycle
<1>9. \A d \in Calls : ~(Kind[d] = "revoke" /\ at'[d] = "returned")
  BY <1>2 DEF Lifecycle
<1>10. \A d \in Calls : at'[d] # "sealing"
  BY <1>2 DEF UnderLock
<1>11. intent' # NoIntent => status' \in {"authorized", "revoked"}
  BY <1>3
<1> QED
  BY <1>6, <1>7, <1>8, <1>9, <1>10, <1>11 DEF Lifecycle, RevokedIsStopped

\* Stopping the ledger charges nothing, and stops it for good.
LEMMA StopsLedger ==
  ASSUME EngineInv, StopLedger
  PROVE  /\ UNCHANGED <<intent, draws, spent>> /\ (revoked => revoked') /\ (intent # NoIntent => revoked')
BY DEF StopLedger, Revoke, engineVars

\* A revoke keeps the grant's life cycle.
LEMMA RevokeStep ==
  ASSUME EngineInv, Facade, Lifecycle, NEW c \in Calls, RevokeLocked(c)
  PROVE  Lifecycle'
<1>1. "returned" \in Places \ UnderLock /\ Executing(locks, GrantId, c)
  BY DEF Places, UnderLock, RevokeLocked, Locked
<1>2. /\ at'[c] = "returned" /\ \A d \in Calls : d # c => at'[d] = at[d]
      /\ \A d \in Calls : at'[d] \notin UnderLock
  BY <1>1, MoveTypes, SettleLock DEF RevokeLocked, Leave
<1>3. UNCHANGED intent /\ (revoked => revoked') /\ (intent # NoIntent => revoked')
  BY StopsLedger DEF RevokeLocked
<1>4. status' = "revoked" /\ Kind[c] = "revoke" /\ Reply(c, "yes")
  BY DEF RevokeLocked
<1>5. \A d \in Calls : d # c => answer'[d] = answer[d]
  BY <1>4 DEF Facade, FacadeTypes, Reply
<1>6. \A d \in Calls : Kind[d] \in {"approve", "deny", "sign"} => (answer'[d] = "yes" <=> answer[d] = "yes")
  BY <1>4, <1>5
<1>7. OneDecision'
  BY <1>3, <1>4, <1>6 DEF Lifecycle, OneDecision
<1>8. \A d \in Calls : at'[d] # "sealing" /\ (at'[d] = "revoking" => revoked')
  BY <1>2, <1>3 DEF Lifecycle, UnderLock
<1> QED
  BY <1>3, <1>4, <1>7, <1>8 DEF Lifecycle, RevokedIsStopped

\* Every step keeps the grant's life cycle: its status, its seal and its engine's ledger in agreement.
LEMMA LifecycleStep ==
  ASSUME EngineInv, Facade, Lifecycle, [GrantsNext]_vars
  PROVE  Lifecycle'
<1> USE DEF record, replies, engineVars, ledger
<1>1. ASSUME NEW c \in Calls, Locked(c), Refuse(c), Kind[c] # "revoke" PROVE Lifecycle'
  <2>1. answer[c] # "yes" /\ Move(c, "returned") /\ "returned" \in Places
    BY <1>1 DEF Locked, Refuse, Leave, Facade, Placed, PlacedCall, Places
  <2> QED
    BY <1>1, <2>1, QuietStep DEF Refuse
<1>2. ASSUME NEW c \in Calls, Enter(c), UNCHANGED <<status, intent, answer>>, revoked => revoked' PROVE Lifecycle'
  BY <1>2, QuietStep DEF Enter, Places
<1>3. ASSUME NEW c \in Calls, NEW place \in Places \ {"sealing", "revoking"}, Move(c, place),
             Kind[c] # "revoke", UNCHANGED <<status, intent, revoked, answer>>
      PROVE  Lifecycle'
  BY <1>3, QuietStep
<1>4. ASSUME NEW c \in Calls, Locked(c), status = "pending", Move(c, "sealing"),
             UNCHANGED <<status, intent, revoked, answer>>
      PROVE  Lifecycle'
  BY <1>4, QuietStep DEF Places
<1>5. ASSUME NEW c \in Calls, Authorize(c) PROVE Lifecycle'
  <2>1. CASE Refuse(c)
    BY <1>1, <1>5, <2>1 DEF Authorize
  <2>2. CASE ~Refuse(c)
    BY <1>4, <1>5, <2>2 DEF Authorize
  <2> QED
    BY <2>1, <2>2
<1>6. ASSUME NEW c \in Calls, Deny(c) PROVE Lifecycle'
  <2>1. CASE Refuse(c)
    BY <1>1, <1>6, <2>1 DEF Deny
  <2>2. CASE ~Refuse(c)
    BY <1>6, <2>2, DecisionStep DEF Deny, Locked
  <2> QED
    BY <2>1, <2>2
<1>7. ASSUME NEW c \in Calls, Seal(c) PROVE Lifecycle'
  <2>1. Executing(locks, GrantId, c) /\ Kind[c] \in {"approve", "sign"} /\ status = "pending"
    BY <1>7 DEF Seal, Facade, Placed, PlacedCall, UnderLock, Lifecycle
  <2> QED
    BY <1>7, <2>1, DecisionStep DEF Seal, PreApprove
<1>8. ASSUME NEW c \in Calls, PresentationFails(c) PROVE Lifecycle'
  <2>1. Kind[c] # "revoke" /\ answer[c] # "yes" /\ "returned" \in Places
    BY <1>8 DEF PresentationFails, Facade, Placed, PlacedCall, Places
  <2> QED
    BY <1>8, <2>1, QuietStep DEF PresentationFails
<1>9. ASSUME NEW c \in Calls, Kind[c] \in {"age", "membership"}, Recorded(c) PROVE Lifecycle'
  BY <1>9, QuietStep DEF Recorded, Leave, Places
<1>10. ASSUME NEW c \in Calls, RecordAgeProof(c) \/ RecordMembershipProof(c) PROVE Lifecycle'
  <2>1. CASE Refuse(c)
    BY <1>1, <1>10, <2>1 DEF RecordAgeProof, RecordMembershipProof
  <2>2. CASE ~Refuse(c)
    BY <1>9, <1>10, <2>2 DEF RecordAgeProof, RecordMembershipProof
  <2> QED
    BY <2>1, <2>2
<1>11. ASSUME NEW c \in Calls, SignVerify(c) PROVE Lifecycle'
  <2>1. Kind[c] = "sign" /\ answer[c] # "yes" /\ {"returned", "verifying"} \subseteq Places
    BY <1>11 DEF SignVerify, Facade, Placed, PlacedCall, Places
  <2> QED
    BY <1>11, <2>1, QuietStep DEF SignVerify
<1>12. ASSUME NEW c \in Calls, AuthorizeDevice(c) PROVE Lifecycle'
  <2>1. CASE Refuse(c)
    BY <1>1, <1>12, <2>1 DEF AuthorizeDevice
  <2>2. CASE Leave(c) /\ ~Refuse(c)
    <3>1. status = "pending" /\ status' = "authorized" /\ Reply(c, "yes") /\ UNCHANGED revoked
      BY <1>12, <2>2, MoveTypes DEF AuthorizeDevice, Leave, Places
    <3> QED
      BY <1>12, <2>2, <3>1, DecisionStep DEF AuthorizeDevice, Locked
  <2>3. CASE ~Leave(c) /\ ~Refuse(c)
    BY <1>4, <1>12, <2>3 DEF AuthorizeDevice
  <2> QED
    BY <2>1, <2>2, <2>3
<1>13. ASSUME NEW c \in Calls, Replay(c) \/ RefuseSpend(c) \/ CacheDoor(c) \/ SpendThrows(c) PROVE Lifecycle'
  <2>1. Kind[c] = "spend" /\ {"returned", "failed"} \subseteq Places
    BY <1>13 DEF Replay, RefuseSpend, CacheDoor, SpendThrows, Facade, Placed, PlacedCall, Places
  <2> QED
    BY <1>3, <1>13, <2>1 DEF Replay, RefuseSpend, CacheDoor, SpendThrows, Leave
<1>14. ASSUME NEW c \in Calls, SpendEngine(c) PROVE Lifecycle'
  BY <1>3, <1>14 DEF SpendEngine, Spend, Places
<1>15. ASSUME UNCHANGED facadeVars, UNCHANGED <<intent, revoked>> PROVE Lifecycle'
  BY <1>15 DEF facadeVars, Lifecycle, OneDecision, RevokedIsStopped, Deciding
<1>16. ASSUME NEW c \in Calls, RevokeNow(c) PROVE Lifecycle'
  <2>1. UNCHANGED <<intent, status, answer>> /\ (revoked => revoked') /\ (intent # NoIntent => revoked')
    BY <1>16, StopsLedger DEF RevokeNow
  <2>2. CASE Enter(c)
    BY <1>2, <2>1, <2>2
  <2>3. CASE Move(c, "revoking") /\ intent # NoIntent
    BY <2>1, <2>3, QuietStep DEF Places
  <2> QED
    BY <1>16, <2>2, <2>3 DEF RevokeNow
<1>17. ASSUME NEW c \in Calls, Arrival(c) PROVE Lifecycle'
  <2>1. ASSUME Decide(c) \/ \E p \in Purchases : AskSpend(c, p) PROVE Lifecycle'
    BY <1>2, <2>1 DEF Decide, AskSpend
  <2>2. ASSUME PresentAge(c) \/ PresentMembership(c) \/ SignRequest(c) PROVE Lifecycle'
    BY <1>3, <2>2 DEF PresentAge, PresentMembership, SignRequest, Places
  <2> QED
    BY <1>11, <1>16, <1>17, <2>1, <2>2 DEF Arrival
<1>18. ASSUME NEW c \in Calls, ServerStep(c) PROVE Lifecycle'
  <2>1. ASSUME PresentationHolds(c) \/ RevokeQueues(c) PROVE Lifecycle'
    BY <1>2, <2>1 DEF PresentationHolds, RevokeQueues
  <2>2. ASSUME EngineStep(c) PROVE Lifecycle'
    BY <1>15, <2>2, EngineLeavesCatalog DEF EngineStep
  <2> QED
    BY <1>5, <1>6, <1>7, <1>8, <1>10, <1>12, <1>13, <1>14, <1>18, <2>1, <2>2, RevokeStep DEF ServerStep
<1> QED
  BY <1>15, <1>17, <1>18 DEF GrantsNext, HostChangesCatalog, ChangeCatalog, vars
-----------------------------------------------------------------------------
(* Theorems *)

\* It holds when the grant is created.
LEMMA GrantsInitInv ==
  ASSUME GrantsInit
  PROVE  GrantsInv
<1> USE DEF GrantsInit
<1>1. EngineInv /\ catalog \in Catalogs /\ intent = NoIntent /\ revoked = FALSE
  BY EngineInitInv DEF EngineInit
<1>2. locks \in [{GrantId} -> Seq(Calls)]
  BY DEF NoTails
<1>3. 0 \in Ages /\ "idle" \in Places /\ "idle" \notin UnderLock
  BY DEF Ages, Places, UnderLock
<1>4. terms \in [Calls -> [age : Ages, pct : {0, LoyaltyPct}]]
  BY <1>3 DEF NoProofs
<1>5. signed \in [Calls -> [age : Ages, pct : {0, LoyaltyPct}, skus : SUBSET Skus]]
  BY <1>3 DEF NoSigned
<1>6. FacadeTypes
  BY <1>1, <1>2, <1>3, <1>4, <1>5, DoorsTyped DEF FacadeTypes
<1>7. Placed
  BY <1>3 DEF Placed, PlacedCall
<1>8. Lifecycle
  BY <1>1 DEF Lifecycle, RevokedIsStopped, OneDecision, Deciding
<1> QED
  BY <1>1, <1>6, <1>7, <1>8 DEF GrantsInv, Facade

\* The inductive invariant of the facade.
THEOREM GrantsInvariant == GrantsSpec => []GrantsInv
<1>1. GrantsInit => GrantsInv
  BY GrantsInitInv
<1>2. GrantsInv /\ [GrantsNext]_vars => GrantsInv'
  BY EngineDriven, FramedStep, AccountsStep, TypesStep, PlacedStep, LifecycleStep
     DEF GrantsInv, EngineInv, Facade
<1> QED
  BY <1>1, <1>2, PTL DEF GrantsSpec

\* Every variable of the facade and of the engine under it keeps its type: the door answers only
\* in the vocabulary of CODE_MAP.
THEOREM GrantsTypeCorrect == GrantsSpec => []GrantsTypeOK
<1>1. GrantsInv => GrantsTypeOK
  BY DEF GrantsInv, EngineInv, Framed, Facade, FacadeTypes, GrantsTypeOK
<1> QED
  BY <1>1, GrantsInvariant, PTL

\* grants.ts takes no step on the engine that is not one of the engine's own operations.
THEOREM FacadeUsesEngine == GrantsSpec => UsesEngine
<1>1. GrantsInit => EngineInit
  BY DEF GrantsInit
<1>2. GrantsInv /\ [GrantsNext]_vars => [EngineNext]_engineVars
  BY EngineDriven DEF GrantsInv
<1> QED
  BY <1>1, <1>2, GrantsInvariant, PTL DEF GrantsSpec, EngineSpec, UsesEngine

\* The grant, facade and engine together, keeps the promise of Allowance to the person who
\* approved it.
THEOREM GrantKeepsPromise == GrantsSpec => PromiseKept
BY FacadeUsesEngine, EngineKeepsPromise, PTL DEF UsesEngine

\* Under the facade, whose ledger is in memory, no charge is ever without its record.
THEOREM GrantOrphansNoDraw == GrantsSpec => []DrawsAreRecorded
BY FacadeUsesEngine, NoOrphanedDraw, FacadeAssumption, PTL DEF UsesEngine

\* grants.ts, revoke: a revoked grant with an engine has its ledger stopped.
THEOREM RevokedStaysStopped == GrantsSpec => []RevokedIsStopped
<1>1. GrantsInv => RevokedIsStopped
  BY DEF GrantsInv, Lifecycle
<1> QED
  BY <1>1, GrantsInvariant, PTL

\* grants.ts, _authorize / _authorizeDevice / _deny: of all the decisions in flight at most one
\* succeeds, and only an approval leaves an intent to spend against.
THEOREM DecidedOnce == GrantsSpec => []OneDecision
<1>1. GrantsInv => OneDecision
  BY DEF GrantsInv, Lifecycle
<1> QED
  BY <1>1, GrantsInvariant, PTL

\* No step takes a grant out of "revoked".
LEMMA RevokedStep ==
  ASSUME GrantsInv, [GrantsNext]_vars, status = "revoked"
  PROVE  status' = "revoked"
<1>1. ASSUME NEW c \in Calls, Seal(c) PROVE FALSE
  BY <1>1 DEF Seal, GrantsInv, Lifecycle
<1>2. ASSUME NEW c \in Calls, ServerStep(c) PROVE status' = "revoked"
  BY <1>1, <1>2 DEF ServerStep, Authorize, Deny, Refuse, Recorded, PresentationFails, PresentationHolds,
     RecordAgeProof, RecordMembershipProof, AuthorizeDevice, Replay, RefuseSpend, SpendEngine, EngineStep,
     CacheDoor, SpendThrows, RevokeQueues, RevokeLocked, record, facadeVars
<1>3. ASSUME NEW c \in Calls, Arrival(c) PROVE status' = "revoked"
  BY <1>3 DEF Arrival, Decide, PresentAge, PresentMembership, SignRequest, SignVerify, AskSpend, RevokeNow,
     record
<1> QED
  BY <1>2, <1>3 DEF GrantsNext, HostChangesCatalog, facadeVars, vars

\* grants.ts: "revoked" is terminal, whatever was being approved, signed or denied meanwhile.
THEOREM RevokedForGood == GrantsSpec => RevokedIsFinal
<1>1. GrantsInv /\ [GrantsNext]_vars => [status = "revoked" => status' = "revoked"]_vars
  BY RevokedStep
<1> QED
  BY <1>1, GrantsInvariant, PTL DEF GrantsSpec, RevokedIsFinal

\* commitDraw reads the kill switch in the step that appends the draw.
LEMMA StoppedStep ==
  ASSUME EngineInv, ~StoreMayFail, [EngineNext]_engineVars, revoked \/ intent = NoIntent
  PROVE  UNCHANGED <<draws, spent>>
<1>1. ASSUME NEW c \in Calls, Commit(c) PROVE FALSE
  <2>1. intent # NoIntent
    BY <1>1 DEF Commit, EngineInv, Framed, Control
  <2> QED
    BY <1>1, <2>1 DEF Commit, CommitDraw
<1>2. ASSUME NEW c \in Calls, CallStep(c) PROVE UNCHANGED <<draws, spent>>
  BY <1>1, <1>2 DEF CallStep, CompleteOrder, Lookup, Reprice, RepriceThrows, ReadPrior, StoreFails, Check,
     CommitRefused, CommitFails, Record, Return, ReturnThrows, ledger
<1>3. ASSUME Environment PROVE UNCHANGED <<draws, spent>>
  BY <1>3 DEF Environment, PreApprove, ChangeCatalog, Revoke, Spend, ledger
<1> QED
  BY <1>2, <1>3 DEF EngineNext, engineVars

\* grants.ts, revoke: once revoke() has looked at a sealed grant, or has returned, nothing is
\* charged, not even by a spend that was past every check.
THEOREM RevokeEndsSpending == GrantsSpec => RevokeWins
<1>1. ASSUME GrantsInv, [GrantsNext]_vars,
             NEW c \in Calls, at[c] = "revoking" \/ (Kind[c] = "revoke" /\ at[c] = "returned")
      PROVE  UNCHANGED <<draws, spent>>
  <2>1. revoked \/ intent = NoIntent
    BY <1>1 DEF GrantsInv, Lifecycle, RevokedIsStopped
  <2>2. EngineInv /\ [EngineNext]_engineVars
    BY <1>1, EngineDriven DEF GrantsInv
  <2> QED
    BY <2>1, <2>2, StoppedStep, FacadeAssumption
<1>2. GrantsInv /\ [GrantsNext]_vars =>
        [(\E c \in Calls : \/ at[c] = "revoking"
                           \/ Kind[c] = "revoke" /\ at[c] = "returned") => UNCHANGED <<draws, spent>>]_vars
  BY <1>1
<1> QED
  BY <1>2, GrantsInvariant, PTL DEF GrantsSpec, RevokeWins
-----------------------------------------------------------------------------
(* A request moves alone *)

\* A request that moves has not returned, and what the others hold stays as it is.
LEMMA MovesAlone ==
  ASSUME Facade, NEW c \in Calls, Arrival(c) \/ ServerStep(c)
  PROVE  /\ at[c] \notin {"returned", "failed"}
         /\ \A d \in Calls : d # c =>
              /\ at'[d] = at[d] /\ request'[d] = request[d] /\ signed'[d] = signed[d]
              /\ door'[d] = door[d] /\ answer'[d] = answer[d]
<1> USE DEF Arrival, ServerStep, Decide, Authorize, Deny, Refuse, Seal, PresentAge, PresentMembership,
            PresentationFails, PresentationHolds, Recorded, RecordAgeProof, RecordMembershipProof, SignRequest,
            SignVerify, AuthorizeDevice, AskSpend, Replay, RefuseSpend, SpendEngine, EngineStep, CacheDoor,
            SpendThrows, RevokeNow, RevokeQueues, RevokeLocked, Enter, Leave, Locked, facadeVars, replies
<1>1. at[c] \notin {"returned", "failed"}
  OBVIOUS
<1>2. ASSUME NEW d \in Calls, d # c PROVE at'[d] = at[d]
  <2>1. at' = at \/ \E place : at' = [at EXCEPT ![c] = place]
    BY DEF Move
  <2> QED
    BY <1>2, <2>1 DEF Facade, FacadeTypes
<1>3. ASSUME NEW d \in Calls, d # c PROVE request'[d] = request[d]
  BY <1>3 DEF Facade, FacadeTypes
<1>4. ASSUME NEW d \in Calls, d # c PROVE signed'[d] = signed[d]
  BY <1>4 DEF Facade, FacadeTypes
<1>5. ASSUME NEW d \in Calls, d # c PROVE door'[d] = door[d]
  BY <1>5 DEF Facade, FacadeTypes
<1>6. ASSUME NEW d \in Calls, d # c PROVE answer'[d] = answer[d]
  BY <1>6 DEF Facade, FacadeTypes, Reply
<1> QED
  BY <1>1, <1>2, <1>3, <1>4, <1>5, <1>6

AtDoor(c) == SpendEngine(c) \/ EngineStep(c) \/ CacheDoor(c) \/ SpendThrows(c) \/ Replay(c) \/ RefuseSpend(c)

\* But for the spend door and the engine behind it, no step touches the ledger, a spend or a kept door.
LEMMA AwayFromDoor ==
  ASSUME Facade, NEW c \in Calls, Arrival(c) \/ ServerStep(c), ~AtDoor(c)
  PROVE  /\ UNCHANGED <<cache, door, draws, spent, step, purchase, total, verdict, result>>
         /\ at[c] # "spending" /\ at'[c] # "spending"
<1> USE DEF AtDoor, Arrival, ServerStep, Decide, Authorize, Deny, Refuse, Seal, PresentAge, PresentMembership,
            PresentationFails, PresentationHolds, Recorded, RecordAgeProof, RecordMembershipProof, SignRequest,
            SignVerify, AuthorizeDevice, AskSpend, RevokeNow, RevokeQueues, RevokeLocked, Enter, Leave, Locked,
            replies, record
<1>1. StopLedger => UNCHANGED <<draws, spent, step, purchase, total, verdict, result>>
  BY DEF StopLedger, Revoke, engineVars
<1>2. PreApprove(terms[c]) => UNCHANGED <<draws, spent, step, purchase, total, verdict, result>>
  BY DEF PreApprove, ledger
<1>3. UNCHANGED engineVars => UNCHANGED <<draws, spent, step, purchase, total, verdict, result>>
  BY DEF engineVars
<1>4. UNCHANGED <<draws, spent, step, purchase, total, verdict, result>>
  BY <1>1, <1>2, <1>3
<1>5. UNCHANGED <<cache, door>>
  OBVIOUS
<1>6. at[c] # "spending"
  BY DEF Facade, Placed, PlacedCall
<1>7. at'[c] # "spending"
  BY <1>6 DEF Move, Facade, FacadeTypes
<1> QED
  BY <1>4, <1>5, <1>6, <1>7

-----------------------------------------------------------------------------
(* A retry is told what its key was first told *)

\* A request of this key has returned with this door.
Outcome(k, d) == \E c \in Calls : at[c] = "returned" /\ request[c].key = k /\ door[c] = d

\* A kept door is one that was returned; a replayed one is the kept one.
DoorsInv ==
  /\ \A c \in Calls : door[c] # NoDoor => at[c] = "returned"
  /\ \A k \in Keys : Cached(k) => ~cache[k].replayed /\ Outcome(k, cache[k])
  /\ \A c \in Calls : door[c].replayed => Outcome(request[c].key, [door[c] EXCEPT !.replayed = FALSE])

\* A replayed door with its mark taken off is the kept one.
LEMMA Unreplayed ==
  ASSUME NEW d \in [ok : BOOLEAN, code : DoorCodes, amount : Int, remaining : Int, replayed : BOOLEAN],
         ~d.replayed
  PROVE  [[d EXCEPT !.replayed = TRUE] EXCEPT !.replayed = FALSE] = d
<1>1. d.replayed = FALSE
  OBVIOUS
<1> QED
  BY <1>1

\* A replay returns the kept door, marked.
LEMMA ReplayMarks ==
  ASSUME Facade, NEW c \in Calls, Replay(c)
  PROVE  /\ request[c].key \in Keys /\ Cached(request[c].key) /\ UNCHANGED <<cache, request>>
         /\ door'[c] = [cache[request[c].key] EXCEPT !.replayed = TRUE] /\ door'[c].replayed
         /\ at'[c] = "returned"
<1> DEFINE Doors == [ok : BOOLEAN, code : DoorCodes, amount : Int, remaining : Int, replayed : BOOLEAN]
<1>1. request[c].key \in Keys /\ Cached(request[c].key) /\ UNCHANGED <<cache, request>>
  BY PurchasesAssumption DEF Replay, Locked, Facade, Placed, PlacedCall
<1>2. PICK old \in Doors : old = cache[request[c].key]
  BY <1>1 DEF Facade, FacadeTypes
<1>3. door'[c] = [old EXCEPT !.replayed = TRUE] /\ at'[c] = "returned"
  BY <1>2 DEF Replay, Leave, Move, Facade, FacadeTypes
<1>4. door'[c].replayed
  BY <1>2, <1>3
<1> QED
  BY <1>1, <1>2, <1>3, <1>4

\* Every step of a grant keeps the doors true.
LEMMA DoorsStep ==
  ASSUME EngineInv, Facade, DoorsInv, [GrantsNext]_vars
  PROVE  DoorsInv'
<1> DEFINE Doors == [ok : BOOLEAN, code : DoorCodes, amount : Int, remaining : Int, replayed : BOOLEAN]
<1>1. ASSUME UNCHANGED facadeVars PROVE DoorsInv'
  BY <1>1 DEF facadeVars, DoorsInv, Outcome, Cached
<1>2. ASSUME NEW c \in Calls, Arrival(c) \/ ServerStep(c) PROVE DoorsInv'
  <2>1. /\ at[c] # "returned"
        /\ \A d \in Calls : d # c => at'[d] = at[d] /\ request'[d] = request[d] /\ door'[d] = door[d]
    BY <1>2, MovesAlone
  <2>2. \A k, v : (\E d \in Calls : at[d] = "returned" /\ request[d].key = k /\ door[d] = v)
                    => \E d \in Calls : at'[d] = "returned" /\ request'[d].key = k /\ door'[d] = v
    BY <2>1
  <2>3. door[c] = NoDoor /\ ~NoDoor.replayed
    BY <2>1 DEF DoorsInv, NoDoor
  <2>4. \A d \in Calls : d # c =>
          /\ door'[d] # NoDoor => at'[d] = "returned"
          /\ door'[d].replayed => Outcome(request[d].key, [door[d] EXCEPT !.replayed = FALSE])'
    BY <2>1, <2>2 DEF DoorsInv, Outcome
  <2>5. \A k \in Keys : cache'[k] = cache[k] /\ Cached(k) => ~cache'[k].replayed /\ Outcome(k, cache[k])'
    BY <2>2 DEF DoorsInv, Outcome
  <2>6. ASSUME UNCHANGED <<cache, door>> PROVE DoorsInv'
    BY <2>3, <2>4, <2>5, <2>6 DEF DoorsInv, Cached
  <2>7. ASSUME NEW new \in Doors, ~new.replayed, door' = [door EXCEPT ![c] = new], at'[c] = "returned",
               request' = request,
               cache' = cache \/ cache' = [cache EXCEPT ![request[c].key] = new]
        PROVE  DoorsInv'
    <3>1. door'[c] = new
      BY <2>7 DEF Facade, FacadeTypes
    <3>2. \A k \in Keys : cache'[k] = cache[k] \/ (cache'[k] = new /\ k = request[c].key)
      BY <2>7 DEF Facade, FacadeTypes
    <3>3. Outcome(request[c].key, new)'
      BY <2>7, <3>1 DEF Outcome
    <3>4. \A k \in Keys : Cached(k)' => ~cache'[k].replayed /\ Outcome(k, cache[k])'
      BY <2>5, <2>7, <3>2, <3>3 DEF Cached, Outcome
    <3> QED
      BY <2>4, <2>7, <3>1, <3>4 DEF DoorsInv
  <2>8. CASE Replay(c)
    <3>1. request[c].key \in Keys /\ Cached(request[c].key) /\ UNCHANGED <<cache, request>>
      BY <2>8, ReplayMarks
    <3>2. PICK old \in Doors : old = cache[request[c].key]
      BY <3>1 DEF Facade, FacadeTypes
    <3>3. ~old.replayed /\ Outcome(request[c].key, old)
      BY <3>1, <3>2 DEF DoorsInv
    <3>4. door'[c] = [old EXCEPT !.replayed = TRUE] /\ at'[c] = "returned"
      BY <2>8, <3>2, ReplayMarks
    <3>5. [door'[c] EXCEPT !.replayed = FALSE] = old
      BY <3>3, <3>4, Unreplayed
    <3>6. Outcome(request[c].key, [door[c] EXCEPT !.replayed = FALSE])'
      <4>1. \E d \in Calls : at[d] = "returned" /\ request[d].key = request[c].key /\ door[d] = old
        BY <3>3 DEF Outcome
      <4>2. \E d \in Calls : at'[d] = "returned" /\ request'[d].key = request[c].key /\ door'[d] = old
        BY <2>1, <4>1
      <4> QED
        BY <3>1, <3>5, <4>2 DEF Outcome
    <3> QED
      BY <2>4, <2>5, <3>1, <3>4, <3>6 DEF DoorsInv, Cached
  <2>9. CASE CacheDoor(c)
    <3>1. DoorOf(result[c]) \in Doors
      BY DoorTyped DEF EngineInv, Framed
    <3>2. ~DoorOf(result[c]).replayed
      BY DEF DoorOf, Refusal, NoDoor
    <3>3. at'[c] = "returned"
      BY <2>9 DEF CacheDoor, Leave, Move, Facade, FacadeTypes
    <3> QED
      BY <2>7, <2>9, <3>1, <3>2, <3>3 DEF CacheDoor
  <2>10. CASE RefuseSpend(c)
    <3>1. Refusal(DoorRefusal(request[c])) \in Doors
      BY RefusalTyped, DoorsTyped
    <3>2. ~Refusal(DoorRefusal(request[c])).replayed
      BY DEF Refusal, NoDoor
    <3>3. at'[c] = "returned"
      BY <2>10 DEF RefuseSpend, Leave, Move, Facade, FacadeTypes
    <3> QED
      BY <2>7, <2>10, <3>1, <3>2, <3>3 DEF RefuseSpend
  <2>11. CASE SpendEngine(c) \/ EngineStep(c) \/ SpendThrows(c)
    BY <2>6, <2>11 DEF SpendEngine, EngineStep, SpendThrows, facadeVars, replies
  <2>12. CASE ~AtDoor(c)
    BY <1>2, <2>6, <2>12, AwayFromDoor
  <2> QED
    BY <2>8, <2>9, <2>10, <2>11, <2>12 DEF AtDoor
<1> QED
  BY <1>1, <1>2 DEF GrantsNext, HostChangesCatalog, vars

\* The doors are true in every state of a grant.
LEMMA DoorsAlways == GrantsSpec => []DoorsInv
<1>1. GrantsInit => DoorsInv
  BY DEF GrantsInit, DoorsInv, NoDoor, Cached
<1>2. GrantsInv /\ DoorsInv /\ [GrantsNext]_vars => DoorsInv'
  BY DoorsStep DEF GrantsInv
<1> QED
  BY <1>1, <1>2, GrantsInvariant, PTL DEF GrantsSpec

\* grants.ts, spend: a retried key is answered as it first was, whatever it asks for now and whatever the
\* item costs.
THEOREM RetriesGetOriginal == GrantsSpec => []RetryGetsOriginal
<1>1. DoorsInv => RetryGetsOriginal
  BY DEF DoorsInv, Outcome, RetryGetsOriginal
<1> QED
  BY <1>1, DoorsAlways, PTL
-----------------------------------------------------------------------------
(* Receipts and ledger *)

\* The smallest headroom reported is the headroom there is.
Told == spent > 0 => \E k \in Keys : cache[k].ok /\ cache[k].remaining = Budget - spent

\* What a spend in the engine has done to its key.
NotCharged(c) == draws[request[c].key] = 0 /\ Told /\ step[c] # "recording" /\ verdict[c] # "ok"
HasCharged(c) ==
  /\ draws[request[c].key] = total[c] /\ total[c] > 0
  /\ step[c] = "recording" \/ (step[c] \in {"settled", "done"} /\ verdict[c] = "ok")

InEngine(c) ==
  /\ purchase[c] = request[c] /\ step[c] # "idle" /\ ~Cached(request[c].key)
  /\ NotCharged(c) \/ HasCharged(c)
  /\ step[c] = "done" => /\ result[c].ok <=> verdict[c] = "ok"
                         /\ result[c].amount = total[c] /\ result[c].remaining = Budget - spent

SpendingOn(k) == \E c \in Calls : at[c] = "spending" /\ request[c].key = k

ReceiptsInv ==
  /\ \A c \in Calls : at[c] = "spending" => InEngine(c)
  /\ Told \/ \E c \in Calls : at[c] = "spending"
  /\ \A k \in Keys : cache[k].ok => draws[k] = cache[k].amount
  /\ \A k \in Keys : draws[k] > 0 => cache[k].ok \/ SpendingOn(k)

\* The grant's lock lets one spend into the engine.
LEMMA OneSpends ==
  ASSUME Facade, NEW c \in Calls, NEW d \in Calls, at[c] = "spending", at[d] = "spending"
  PROVE  c = d
<1>1. Executing(locks, GrantId, c)
  BY DEF Facade, Placed, PlacedCall, UnderLock
<1> QED
  BY <1>1, LockExcludes DEF UnderLock

\* A key that is not kept has not succeeded.
LEMMA UncachedNotOk == \A k \in Keys : ~Cached(k) => ~cache[k].ok
BY DEF Cached, NoDoor

\* Of the steps of a spend, only the commit charges, and only its own key.
LEMMA EngineCharges ==
  ASSUME EngineInv, NEW c \in Calls, CallStep(c), ~Commit(c)
  PROVE  UNCHANGED <<draws, spent>>
BY FacadeAssumption DEF CallStep, CompleteOrder, Lookup, Reprice, RepriceThrows, ReadPrior, StoreFails, Check,
       CommitRefused, CommitFails, Record, Return, ReturnThrows, ledger

\* A spend that moves in the engine leaves its purchase and its total.
LEMMA EngineKeeps ==
  ASSUME NEW c \in Calls, CallStep(c)
  PROVE  UNCHANGED <<purchase, total>>
BY DEF CallStep, CompleteOrder, Lookup, Reprice, RepriceThrows, ReadPrior, StoreFails, Check,
       CommitRefused, Commit, CommitFails, Record, Return, ReturnThrows

\* A spend that has not charged its key goes on not having, or charges it.
LEMMA UnchargedMoves ==
  ASSUME EngineInv, NEW c \in Calls, step[c] # "idle", CallStep(c), ~Commit(c), ~Return(c),
         draws[purchase[c].key] = 0, step[c] # "recording"
  PROVE  step'[c] \notin {"idle", "recording", "done"} /\ (verdict'[c] = "ok" => verdict[c] = "ok")
<1> USE FacadeAssumption DEF EngineInv, Framed, EngineTypeOK
<1>1. ASSUME NEW v \in Verdicts, Answer(c, v), v # "ok"
      PROVE  step'[c] \notin {"idle", "recording", "done"} /\ verdict'[c] # "ok"
  BY <1>1 DEF Answer, Goto
<1>2. ASSUME NEW s \in {"queued", "repricing", "reading", "checking", "committing", "threw"}, Goto(c, s), UNCHANGED verdict
      PROVE  step'[c] \notin {"idle", "recording", "done"} /\ (verdict'[c] = "ok" => verdict[c] = "ok")
  BY <1>2 DEF Goto
<1>3. CASE Lookup(c)
  <2>1. purchase[c].key \in Keys
    BY KeyOf
  <2>2. completed[purchase[c].key] = 0
    BY <2>1 DEF Accounts
  <2> QED
    BY <1>2, <1>3, <2>2 DEF Lookup, Proceed
<1>4. CASE Reprice(c)
  BY <1>1, <1>2, <1>4 DEF Reprice, Proceed, Verdicts, Refusals
<1>5. CASE Check(c)
  <2>1. CheckDraw(c) # "ok" => CheckDraw(c) \in Verdicts
    BY CheckedVerdict
  <2> QED
    BY <1>1, <1>2, <1>5, <2>1 DEF Check, Proceed, Verdicts, Refusals
<1>6. CASE CommitRefused(c)
  <2>1. CommitDraw(purchase[c].key, total[c]) \in Verdicts
    BY CommitVerdict DEF Verdicts, Refusals
  <2> QED
    BY <1>1, <1>6, <2>1 DEF CommitRefused
<1>7. CASE CompleteOrder(c) \/ RepriceThrows(c) \/ ReadPrior(c)
  BY <1>2, <1>7 DEF CompleteOrder, RepriceThrows, ReadPrior, Proceed
<1> QED
  BY <1>3, <1>4, <1>5, <1>6, <1>7 DEF CallStep, StoreFails, CommitFails, Record, ReturnThrows

\* A spend starts with nothing decided for it but a refusal of its quantity.
LEMMA SpendStarts ==
  ASSUME EngineInv, NEW c \in Calls, NEW p, Spend(c, p)
  PROVE  purchase'[c] = p /\ step'[c] \in {"settled", "threw", "signing"} /\ verdict'[c] # "ok"
<1>1. verdict[c] = "none" /\ step[c] = "idle"
  BY DEF Spend, EngineInv, Accounts, CallAccounts
<1> QED
  BY <1>1 DEF Spend, RefuseQuantity, UnknownItem, SignDraw, Goto, EngineInv, Framed, EngineTypeOK

\* What a spend does in the engine, its receipt will account for.
LEMMA EngineReceipts ==
  ASSUME EngineInv, EngineInv', Facade, ReceiptsInv, NEW c \in Calls, EngineStep(c)
  PROVE  ReceiptsInv'
<1> USE DEF EngineInv, Framed, EngineTypeOK
<1>1. at[c] = "spending" /\ UNCHANGED facadeVars /\ CallStep(c)
  BY DEF EngineStep
<1>2. InEngine(c) /\ \A d \in Calls : at[d] = "spending" => d = c
  BY <1>1, OneSpends DEF ReceiptsInv
<1>3. step[c] # "idle" /\ purchase[c] = request[c]
  BY <1>2 DEF InEngine
<1>4. PICK k \in Keys : k = request[c].key
  BY <1>3, KeyOf
<1>5. UNCHANGED <<purchase, total, cache, request, at>>
  BY <1>1, EngineKeeps DEF facadeVars
<1>6. \A j \in Keys : j # k => draws'[j] = draws[j]
  <2>1. CASE Commit(c)
    BY <1>3, <1>4, <2>1 DEF Commit, AppendDraw
  <2>2. CASE ~Commit(c)
    BY <1>1, <2>2, EngineCharges
  <2> QED
    BY <2>1, <2>2
<1>7. ASSUME NotCharged(c)' \/ HasCharged(c)', step'[c] \notin {"idle", "done"} PROVE InEngine(c)'
  BY <1>2, <1>5, <1>7 DEF InEngine, Cached
<1>8. ASSUME Return(c) PROVE InEngine(c)'
  <2>1. UNCHANGED <<draws, spent, verdict>> /\ step'[c] = "done" /\ step[c] = "settled"
    BY <1>8 DEF Return, Goto, ledger
  <2>2. /\ result'[c].ok = (verdict[c] = "ok") /\ result'[c].amount = total[c]
        /\ result'[c].remaining = Budget - spent
    BY <1>8 DEF Return
  <2>3. result'[c].ok <=> verdict'[c] = "ok"
    BY <2>1, <2>2
  <2>4. NotCharged(c)' \/ HasCharged(c)'
    BY <1>2, <1>5, <2>1 DEF InEngine, NotCharged, HasCharged, Told
  <2> QED
    BY <1>2, <1>5, <2>1, <2>2, <2>3, <2>4 DEF InEngine, Cached
<1>9. ASSUME Commit(c) PROVE InEngine(c)'
  <2>1. step'[c] = "recording"
    BY <1>9 DEF Commit, Proceed, Goto
  <2>2. draws'[k] = total'[c] /\ total'[c] > 0
    BY <1>3, <1>4, <1>5, <2>1 DEF Accounts, CallAccounts
  <2>3. HasCharged(c)'
    BY <1>4, <1>5, <2>1, <2>2 DEF HasCharged
  <2> QED
    BY <1>7, <2>1, <2>3
<1>10. ASSUME ~Return(c), ~Commit(c) PROVE InEngine(c)'
  <2>1. UNCHANGED <<draws, spent>>
    BY <1>1, <1>10, EngineCharges
  <2>2. CASE NotCharged(c)
    <3>1. step'[c] \notin {"idle", "recording", "done"} /\ verdict'[c] # "ok"
      BY <1>1, <1>3, <1>10, <2>2, UnchargedMoves DEF NotCharged
    <3>2. NotCharged(c)'
      BY <1>5, <2>1, <2>2, <3>1 DEF NotCharged, Told
    <3> QED
      BY <1>7, <3>1, <3>2
  <2>3. CASE HasCharged(c)
    <3>1. Record(c)
      BY <1>1, <1>10, <2>3, FacadeAssumption DEF HasCharged, CallStep, CompleteOrder, Lookup, Reprice, RepriceThrows,
         ReadPrior, StoreFails, Check, CommitRefused, CommitFails, Record, ReturnThrows
    <3>2. step'[c] = "settled" /\ verdict'[c] = "ok"
      BY <3>1 DEF Record, Answer, Goto
    <3>3. HasCharged(c)'
      BY <1>5, <2>1, <2>3, <3>2 DEF HasCharged
    <3> QED
      BY <1>7, <3>2, <3>3
  <2> QED
    BY <1>2, <2>2, <2>3 DEF InEngine
<1>11. InEngine(c)'
  BY <1>8, <1>9, <1>10
<1>12. \A j \in Keys : cache[j].ok => j # k
  BY <1>2, <1>4, UncachedNotOk DEF InEngine
<1>13. \A j \in Keys : cache'[j].ok => draws'[j] = cache'[j].amount
  BY <1>5, <1>6, <1>12 DEF ReceiptsInv
<1>14. \A j \in Keys : draws'[j] > 0 => cache'[j].ok \/ SpendingOn(j)'
  <2>1. SpendingOn(k)'
    BY <1>1, <1>4, <1>5 DEF SpendingOn
  <2>2. \A j \in Keys : SpendingOn(j) => SpendingOn(j)'
    BY <1>5 DEF SpendingOn
  <2> QED
    BY <1>5, <1>6, <2>1, <2>2 DEF ReceiptsInv
<1> QED
  BY <1>1, <1>2, <1>5, <1>11, <1>13, <1>14 DEF ReceiptsInv

\* Every step of a grant keeps its receipts and its ledger in agreement.
LEMMA ReceiptsStep ==
  ASSUME EngineInv, EngineInv', Facade, ReceiptsInv, [GrantsNext]_vars
  PROVE  ReceiptsInv'
<1> DEFINE Doors == [ok : BOOLEAN, code : DoorCodes, amount : Int, remaining : Int, replayed : BOOLEAN]
<1>1. ASSUME UNCHANGED facadeVars, UNCHANGED <<draws, spent, step, purchase, total, verdict, result>>
      PROVE  ReceiptsInv'
  BY <1>1 DEF facadeVars, ReceiptsInv, InEngine, NotCharged, HasCharged, Told, SpendingOn, Cached
<1>2. ASSUME NEW c \in Calls, Arrival(c) \/ ServerStep(c), ~AtDoor(c) PROVE ReceiptsInv'
  <2>1. /\ UNCHANGED <<cache, draws, spent, step, purchase, total, verdict, result>>
        /\ at[c] # "spending" /\ at'[c] # "spending"
    BY <1>2, AwayFromDoor
  <2>2. \A d \in Calls : d # c => at'[d] = at[d] /\ request'[d] = request[d]
    BY <1>2, MovesAlone
  <2>3. \A d \in Calls : at'[d] = "spending" <=> at[d] = "spending"
    BY <2>1, <2>2
  <2>4. \A d \in Calls : at'[d] = "spending" => InEngine(d)'
    BY <2>1, <2>2, <2>3 DEF ReceiptsInv, InEngine, NotCharged, HasCharged, Told, Cached
  <2>5. Told' \/ \E d \in Calls : at'[d] = "spending"
    BY <2>1, <2>3 DEF ReceiptsInv, Told
  <2>6. \A k \in Keys : SpendingOn(k) => SpendingOn(k)'
    BY <2>1, <2>2 DEF SpendingOn
  <2> QED
    BY <2>1, <2>4, <2>5, <2>6 DEF ReceiptsInv
<1>3. ASSUME NEW c \in Calls, Kind[c] = "spend", Locked(c)
      PROVE  /\ request[c] \in Purchases /\ request[c].key \in Keys
             /\ \A d \in Calls : at[d] # "spending"
  BY <1>3, LockIsFree, PurchasesAssumption DEF Locked, Facade, Placed, PlacedCall, UnderLock
<1>4. ASSUME NEW c \in Calls, Replay(c) \/ RefuseSpend(c) PROVE ReceiptsInv'
  <2>1. request[c].key \in Keys /\ \A d \in Calls : at[d] # "spending"
    BY <1>3, <1>4 DEF Replay, RefuseSpend
  <2>2. /\ \A d \in Calls : at'[d] # "spending"
        /\ UNCHANGED <<draws, spent>>
    BY <1>4, <2>1 DEF Replay, RefuseSpend, Leave, Move, engineVars, Facade, FacadeTypes
  <2>3. \A k \in Keys : cache'[k] = cache[k] \/ (~cache[k].ok /\ ~cache'[k].ok)
    <3>1. CASE UNCHANGED cache
      BY <3>1
    <3>2. CASE ~Cached(request[c].key) /\ cache' = [cache EXCEPT ![request[c].key] = Refusal("not-allowed")]
      BY <2>1, <3>2, UncachedNotOk DEF Refusal, NoDoor, Facade, FacadeTypes
    <3> QED
      BY <1>4, <3>1, <3>2 DEF Replay, RefuseSpend
  <2>4. Told'
    BY <2>1, <2>2, <2>3 DEF ReceiptsInv, Told
  <2>5. \A k \in Keys : draws'[k] > 0 => cache'[k].ok
    BY <2>1, <2>2, <2>3 DEF ReceiptsInv, SpendingOn
  <2>6. \A k \in Keys : cache'[k].ok => draws'[k] = cache'[k].amount
    BY <2>2, <2>3 DEF ReceiptsInv
  <2> QED
    BY <2>2, <2>4, <2>5, <2>6 DEF ReceiptsInv
<1>5. ASSUME NEW c \in Calls, SpendEngine(c) PROVE ReceiptsInv'
  <2>1. PICK k \in Keys : k = request[c].key
    BY <1>3, <1>5 DEF SpendEngine
  <2>2. ~Cached(k) /\ \A d \in Calls : at[d] # "spending"
    BY <1>3, <1>5, <2>1 DEF SpendEngine
  <2>3. Told /\ draws[k] = 0
    <3>1. ~(draws[k] > 0)
      BY <2>2, UncachedNotOk DEF ReceiptsInv, SpendingOn
    <3>2. draws[k] \in Nat
      BY DEF EngineInv, Framed, EngineTypeOK
    <3> QED
      BY <2>2, <3>1, <3>2 DEF ReceiptsInv
  <2>4. UNCHANGED <<draws, spent, cache, request>> /\ Spend(c, request[c])
    BY <1>5 DEF SpendEngine, Spend, ledger
  <2>5. \A d \in Calls : at'[d] = "spending" <=> d = c
    BY <1>5, <2>2 DEF SpendEngine, Move, Facade, FacadeTypes
  <2>6. purchase'[c] = request[c] /\ step'[c] \in {"settled", "threw", "signing"} /\ verdict'[c] # "ok"
    BY <2>4, SpendStarts
  <2>7. InEngine(c)'
    BY <2>1, <2>2, <2>3, <2>4, <2>6 DEF InEngine, NotCharged, Told, Cached
  <2>8. \A j \in Keys : draws'[j] > 0 => cache'[j].ok
    BY <2>2, <2>4 DEF ReceiptsInv, SpendingOn
  <2> QED
    BY <2>4, <2>5, <2>7, <2>8 DEF ReceiptsInv
<1>6. ASSUME NEW c \in Calls, CacheDoor(c) \/ SpendThrows(c) PROVE ReceiptsInv'
  <2>1. at[c] = "spending" /\ InEngine(c) /\ \A d \in Calls : at[d] = "spending" => d = c
    BY <1>6, OneSpends DEF CacheDoor, SpendThrows, ReceiptsInv
  <2>2. PICK k \in Keys : k = request[c].key
    BY <2>1, KeyOf DEF InEngine, EngineInv
  <2>3. UNCHANGED <<draws, spent>> /\ \A d \in Calls : at'[d] # "spending"
    BY <1>6, <2>1 DEF CacheDoor, SpendThrows, Leave, Move, engineVars, Facade, FacadeTypes
  <2>4. ~cache[k].ok /\ \A j \in Keys : SpendingOn(j) => j = k
    BY <2>1, <2>2, UncachedNotOk DEF InEngine, SpendingOn
  <2>5. CASE SpendThrows(c)
    <3>1. NotCharged(c) /\ UNCHANGED cache
      BY <2>1, <2>5 DEF InEngine, HasCharged, SpendThrows
    <3>2. \A j \in Keys : draws'[j] > 0 => cache'[j].ok
      BY <2>2, <2>3, <2>4, <3>1 DEF ReceiptsInv, NotCharged
    <3> QED
      BY <2>3, <3>1, <3>2 DEF ReceiptsInv, NotCharged, Told
  <2>6. CASE CacheDoor(c)
    <3>1. cache' = [cache EXCEPT ![k] = DoorOf(result[c])] /\ step[c] = "done"
      BY <2>2, <2>6 DEF CacheDoor
    <3>2. cache'[k] = DoorOf(result[c]) /\ \A j \in Keys : j # k => cache'[j] = cache[j]
      BY <3>1 DEF Facade, FacadeTypes
    <3>3. CASE HasCharged(c)
      <4>1. result[c].ok /\ result[c].amount = draws[k] /\ result[c].remaining = Budget - spent
        BY <2>1, <2>2, <3>1, <3>3 DEF InEngine, HasCharged
      <4>2. cache'[k].ok /\ cache'[k].amount = draws[k] /\ cache'[k].remaining = Budget - spent
        BY <3>2, <4>1 DEF DoorOf
      <4>3. Told'
        BY <2>3, <4>2 DEF Told
      <4>4. \A j \in Keys : draws'[j] > 0 => cache'[j].ok
        BY <2>3, <2>4, <3>2, <4>2 DEF ReceiptsInv
      <4>5. \A j \in Keys : cache'[j].ok => draws'[j] = cache'[j].amount
        BY <2>3, <3>2, <4>2 DEF ReceiptsInv
      <4> QED
        BY <2>3, <4>3, <4>4, <4>5 DEF ReceiptsInv
    <3>4. CASE NotCharged(c)
      <4>1. ~result[c].ok /\ draws[k] = 0 /\ Told
        BY <2>1, <2>2, <3>1, <3>4 DEF InEngine, NotCharged
      <4>2. ~cache'[k].ok
        BY <3>2, <4>1 DEF DoorOf, Refusal, NoDoor
      <4>3. Told'
        BY <2>3, <2>4, <3>2, <4>1 DEF Told
      <4>4. \A j \in Keys : draws'[j] > 0 => cache'[j].ok
        BY <2>3, <2>4, <3>2, <4>1 DEF ReceiptsInv
      <4>5. \A j \in Keys : cache'[j].ok => draws'[j] = cache'[j].amount
        BY <2>3, <3>2, <4>2 DEF ReceiptsInv
      <4> QED
        BY <2>3, <4>3, <4>4, <4>5 DEF ReceiptsInv
    <3> QED
      BY <2>1, <3>3, <3>4 DEF InEngine
  <2> QED
    BY <1>6, <2>5, <2>6
<1>7. ASSUME NEW c \in Calls, Arrival(c) \/ ServerStep(c) PROVE ReceiptsInv'
  BY <1>2, <1>4, <1>5, <1>6, <1>7, EngineReceipts DEF AtDoor
<1>8. ASSUME NEW new \in Catalogs, HostChangesCatalog(new) PROVE ReceiptsInv'
  BY <1>1, <1>8 DEF HostChangesCatalog, ChangeCatalog, ledger
<1>9. CASE UNCHANGED vars
  BY <1>1, <1>9 DEF vars, engineVars
<1> QED
  BY <1>7, <1>8, <1>9 DEF GrantsNext

\* The receipts and the ledger agree in every state of a grant.
LEMMA ReceiptsAlways == GrantsSpec => []ReceiptsInv
<1>1. GrantsInit => ReceiptsInv
  BY DEF GrantsInit, EngineInit, ReceiptsInv, Told, NoDoor
<1>2. GrantsInv /\ GrantsInv' /\ ReceiptsInv /\ [GrantsNext]_vars => ReceiptsInv'
  BY ReceiptsStep DEF GrantsInv
<1> QED
  BY <1>1, <1>2, GrantsInvariant, PTL DEF GrantsSpec

\* grants.ts, spend and its cache: money is taken under a key exactly when the key's door says so, for that
\* amount, and the headroom last reported is the headroom there is.
THEOREM ReceiptsAlwaysMatch == GrantsSpec => []ReceiptsMatchLedger
<1>1. ReceiptsInv => ReceiptsMatchLedger
  BY DEF ReceiptsInv, ReceiptsMatchLedger, Told, SpendingOn
<1> QED
  BY <1>1, ReceiptsAlways, PTL
-----------------------------------------------------------------------------
(* Restricted goods *)

\* On a device grant, a wallet signed for what this request asks for.
SignedFor(c) ==
  opts.signing = "device" =>
    \E d \in Calls : Kind[d] = "sign" /\ answer[d] = "yes" /\ request[c].sku \in signed[d].skus

\* The sealed age covers what some catalog the host had asked for it.
CoveredBy(c) ==
  /\ intent # NoIntent
  /\ \E cat \in Catalogs : cat[request[c].sku] # Absent /\ cat[request[c].sku].minAge <= intent.age

\* The engine has found the age of this spend sufficient.
Passed(c) == step[c] \in {"reading", "checking", "committing", "recording"} \/ verdict[c] = "ok"

RestrictedInv ==
  /\ opts.signing = "device" /\ status = "authorized" =>
       \E d \in Calls : Kind[d] = "sign" /\ answer[d] = "yes" /\ signedSkus = signed[d].skus
  /\ \A c \in Calls : at[c] = "sealing" /\ Kind[c] = "approve" => opts.signing = "page"
  /\ \A c \in Calls : at[c] = "spending" => SignedFor(c)
  /\ \A c \in Calls : at[c] = "spending" /\ Passed(c) => CoveredBy(c)
  /\ \A c \in Calls : door[c].ok /\ ~door[c].replayed => SignedFor(c) /\ CoveredBy(c)

\* Nothing unsays a signature or unseals a proof.
LEMMA ProofsStay ==
  ASSUME EngineInv, Facade, [GrantsNext]_vars
  PROVE  /\ UNCHANGED opts /\ (intent # NoIntent => intent' = intent)
         /\ \A d \in Calls : answer[d] = "yes" => answer'[d] = "yes" /\ signed'[d] = signed[d]
         /\ \A c \in Calls : request'[c] = request[c] =>
              (SignedFor(c) => SignedFor(c)') /\ (CoveredBy(c) => CoveredBy(c)')
<1>1. UNCHANGED opts
  BY DEF GrantsNext, HostChangesCatalog, Arrival, ServerStep, Decide, Authorize, Deny, Refuse, Seal, PresentAge,
     PresentMembership, PresentationFails, PresentationHolds, Recorded, RecordAgeProof, RecordMembershipProof,
     SignRequest, SignVerify, AuthorizeDevice, AskSpend, Replay, RefuseSpend, SpendEngine, EngineStep, CacheDoor,
     SpendThrows, RevokeNow, RevokeQueues, RevokeLocked, facadeVars, record, vars
<1>2. [EngineNext]_engineVars
  BY EngineDriven
<1>3. intent # NoIntent => intent' = intent
  <2>1. ASSUME NEW c \in Calls, CallStep(c) PROVE UNCHANGED intent
    BY <2>1, EngineLeavesCatalog
  <2> QED
    BY <1>2, <2>1 DEF EngineNext, Environment, PreApprove, ChangeCatalog, Revoke, Spend, engineVars
<1>4. ASSUME NEW d \in Calls, answer[d] = "yes" PROVE answer'[d] = "yes" /\ signed'[d] = signed[d]
  <2>1. at[d] = "returned"
    BY <1>4 DEF Facade, Placed, PlacedCall
  <2>2. ASSUME NEW c \in Calls, Arrival(c) \/ ServerStep(c) PROVE answer'[d] = answer[d] /\ signed'[d] = signed[d]
    BY <2>1, <2>2, MovesAlone
  <2> QED
    BY <1>4, <2>2 DEF GrantsNext, HostChangesCatalog, facadeVars, vars
<1>5. \A c \in Calls : request'[c] = request[c] => (SignedFor(c) => SignedFor(c)')
  BY <1>1, <1>4 DEF SignedFor
<1>6. \A c \in Calls : request'[c] = request[c] => (CoveredBy(c) => CoveredBy(c)')
  BY <1>3 DEF CoveredBy
<1> QED
  BY <1>1, <1>3, <1>4, <1>5, <1>6

\* Whoever authorized a device grant signed the list it is bound to.
LEMMA AuthorizedBySigning ==
  ASSUME EngineInv, Facade, RestrictedInv, NEW c \in Calls, Arrival(c) \/ ServerStep(c),
         opts'.signing = "device", status' = "authorized"
  PROVE  \E d \in Calls : Kind[d] = "sign" /\ answer'[d] = "yes" /\ signedSkus' = signed'[d].skus
<1>0. [GrantsNext]_vars
  BY DEF GrantsNext
<1>1. UNCHANGED opts /\ \A d \in Calls : answer[d] = "yes" => answer'[d] = "yes" /\ signed'[d] = signed[d]
  BY <1>0, ProofsStay
<1>2. CASE Seal(c)
  <2>1. Kind[c] = "sign"
    BY <1>1, <1>2 DEF Seal, RestrictedInv, Facade, Placed, PlacedCall
  <2>2. signedSkus' = signed'[c].skus /\ answer'[c] = "yes"
    BY <1>2, <2>1 DEF Seal, Reply, Facade, FacadeTypes
  <2> QED
    BY <2>1, <2>2
<1>3. CASE signedSkus' = signed[c].skus /\ Kind[c] = "sign" /\ Reply(c, "yes") /\ UNCHANGED signed
  BY <1>3 DEF Reply, Facade, FacadeTypes
<1>4. CASE UNCHANGED signedSkus /\ status = "authorized"
  BY <1>1, <1>4 DEF RestrictedInv
<1>5. AuthorizeDevice(c) =>
        \/ signedSkus' = signed[c].skus /\ Kind[c] = "sign" /\ Reply(c, "yes") /\ UNCHANGED signed
        \/ UNCHANGED <<signedSkus, status>>
  BY DEF AuthorizeDevice, Refuse, record
<1>6. ~Seal(c) /\ ~AuthorizeDevice(c) => UNCHANGED signedSkus /\ status = "authorized"
  BY DEF Arrival, ServerStep, Decide, Authorize, Deny, Refuse, PresentAge,
     PresentMembership, PresentationFails, PresentationHolds, Recorded, RecordAgeProof, RecordMembershipProof,
     SignRequest, SignVerify, AskSpend, Replay, RefuseSpend, SpendEngine, EngineStep, CacheDoor,
     SpendThrows, RevokeNow, RevokeQueues, RevokeLocked, facadeVars, record
<1> QED
  BY <1>2, <1>3, <1>4, <1>5, <1>6

\* A human seals by approving only on a page grant.
LEMMA SealedByApproval ==
  ASSUME Facade, RestrictedInv, NEW c \in Calls, Arrival(c) \/ ServerStep(c),
         at'[c] = "sealing", Kind[c] = "approve"
  PROVE  opts.signing = "page"
<1>1. CASE at[c] = "sealing"
  BY <1>1 DEF RestrictedInv
<1>2. CASE at[c] # "sealing" /\ Authorize(c)
  <2>1. CASE Refuse(c)
    BY <2>1 DEF Refuse, Leave, Move, Facade, FacadeTypes
  <2> QED
    BY <1>2, <2>1 DEF Authorize
<1>3. CASE at[c] # "sealing" /\ ~Authorize(c)
  <2>1. \E place \in Places \ {"sealing"} : at' = [at EXCEPT ![c] = place]
    BY <1>3 DEF Arrival, ServerStep, Decide, Deny, Refuse, Seal, PresentAge, PresentMembership, PresentationFails,
       PresentationHolds, Recorded, RecordAgeProof, RecordMembershipProof, SignRequest, SignVerify,
       AuthorizeDevice, AskSpend, Replay, RefuseSpend, SpendEngine, CacheDoor, SpendThrows, RevokeNow,
       RevokeQueues, RevokeLocked, EngineStep, facadeVars, Enter, Leave, Move, Places
  <2> QED
    BY <2>1 DEF Facade, FacadeTypes
<1> QED
  BY <1>1, <1>2, <1>3

\* A spend in the engine passes the age check only under a proof that covers its product.
LEMMA PassesCovered ==
  ASSUME EngineInv, Facade, ReceiptsInv, RestrictedInv, NEW c \in Calls, EngineStep(c), Passed(c)'
  PROVE  CoveredBy(c)
<1> USE FacadeAssumption DEF EngineInv, Framed, EngineTypeOK
<1>1. at[c] = "spending" /\ CallStep(c)
  BY DEF EngineStep
<1>2. InEngine(c) /\ purchase[c] = request[c] /\ step[c] # "idle"
  BY <1>1 DEF ReceiptsInv, InEngine
<1>3. CASE Passed(c)
  BY <1>1, <1>3 DEF RestrictedInv
<1>4. CASE ~Passed(c) /\ Reprice(c)
  <2>1. Priced(purchase[c]) /\ AgeProofCovers(purchase[c])
    BY <1>4 DEF Reprice, Answer, Goto, Passed
  <2>2. intent # NoIntent /\ purchase[c].sku \in Skus
    BY <1>2, KeyOf DEF Control
  <2>3. intent.age \in Nat
    BY <2>2, TermsAssumption
  <2>4. catalog[purchase[c].sku].minAge <= intent.age
    BY <2>1, <2>3 DEF AgeProofCovers
  <2> QED
    BY <1>2, <2>1, <2>2, <2>4 DEF CoveredBy, Priced, Facade, FacadeTypes
<1>5. CASE ~Passed(c) /\ ~Reprice(c)
  <2>1. step[c] \notin {"reading", "checking", "committing", "recording"} /\ verdict[c] # "ok"
    BY <1>5 DEF Passed
  <2>2. NotCharged(c)
    BY <1>2, <2>1 DEF InEngine, HasCharged
  <2>3. ~Commit(c)
    BY <2>1 DEF Commit
  <2>4. CASE Return(c)
    BY <2>1, <2>4 DEF Return, Goto, Passed
  <2>5. CASE ~Return(c)
    <3>1. verdict'[c] # "ok"
      BY <1>1, <1>2, <2>1, <2>2, <2>3, <2>5, UnchargedMoves DEF NotCharged
    <3>2. step'[c] \notin {"reading", "checking", "committing", "recording"}
      BY <1>1, <1>5, <2>1, <2>5 DEF CallStep, CompleteOrder, Lookup, RepriceThrows, ReadPrior, StoreFails, Check,
         CommitRefused, Commit, CommitFails, Record, ReturnThrows, Proceed, Answer, Goto
    <3> QED
      BY <3>1, <3>2 DEF Passed
  <2> QED
    BY <2>4, <2>5
<1> QED
  BY <1>3, <1>4, <1>5

\* Every step of a grant keeps what restricted goods are bought under.
LEMMA RestrictedStep ==
  ASSUME EngineInv, Facade, DoorsInv, ReceiptsInv, RestrictedInv, [GrantsNext]_vars
  PROVE  RestrictedInv'
<1>1. /\ UNCHANGED opts
      /\ \A d \in Calls : answer[d] = "yes" => answer'[d] = "yes" /\ signed'[d] = signed[d]
      /\ \A c \in Calls : request'[c] = request[c] =>
           (SignedFor(c) => SignedFor(c)') /\ (CoveredBy(c) => CoveredBy(c)')
  BY ProofsStay
<1>2. ASSUME UNCHANGED facadeVars, UNCHANGED <<step, verdict>> PROVE RestrictedInv'
  <2>1. UNCHANGED <<opts, status, signedSkus, at, request, signed, door, answer>>
    BY <1>2 DEF facadeVars
  <2>2. \A c \in Calls : Passed(c)' = Passed(c)
    BY <1>2 DEF Passed
  <2>3. \A c \in Calls : door'[c].ok /\ ~door'[c].replayed => SignedFor(c)' /\ CoveredBy(c)'
    BY <1>1, <2>1 DEF RestrictedInv
  <2>4. \A c \in Calls : at'[c] = "spending" => SignedFor(c)' /\ (Passed(c)' => CoveredBy(c)')
    BY <1>1, <2>1, <2>2 DEF RestrictedInv
  <2> QED
    BY <2>1, <2>3, <2>4 DEF RestrictedInv
<1>3. ASSUME NEW c \in Calls, Arrival(c) \/ ServerStep(c) PROVE RestrictedInv'
  <2>1. /\ at[c] \notin {"returned", "failed"}
        /\ \A d \in Calls : d # c => at'[d] = at[d] /\ request'[d] = request[d] /\ door'[d] = door[d]
    BY <1>3, MovesAlone
  <2>2. opts'.signing = "device" /\ status' = "authorized" =>
          \E d \in Calls : Kind[d] = "sign" /\ answer'[d] = "yes" /\ signedSkus' = signed'[d].skus
    BY <1>3, AuthorizedBySigning
  <2>3. \A d \in Calls : at'[d] = "sealing" /\ Kind[d] = "approve" => opts'.signing = "page"
    BY <1>1, <1>3, <2>1, SealedByApproval DEF RestrictedInv
  <2>4. door[c] = NoDoor
    BY <2>1 DEF DoorsInv
  <2>5. ASSUME NEW d \in Calls, at'[d] = "spending" PROVE SignedFor(d)' /\ (Passed(d)' => CoveredBy(d)')
    <3>1. CASE d # c
      <4>1. at[d] = "spending" /\ request'[d] = request[d] /\ ~AtDoor(c)
        BY <2>1, <2>5, <3>1, OneSpends, LockIsFree DEF AtDoor, SpendEngine, EngineStep, CacheDoor, SpendThrows, Replay,
           RefuseSpend, UnderLock
      <4>2. Passed(d)' = Passed(d)
        BY <1>3, <4>1, AwayFromDoor DEF Passed
      <4> QED
        BY <1>1, <4>1, <4>2 DEF RestrictedInv
    <3>2. CASE d = c /\ SpendEngine(c)
      <4>1. Spend(c, request[c]) /\ UNCHANGED request /\ DoorRefusal(request[c]) = "none"
        BY <3>2 DEF SpendEngine
      <4>2. status = "authorized" /\ request[c].sku \in signedSkus
        BY <4>1 DEF DoorRefusal, Allowed
      <4>3. SignedFor(c)
        BY <4>2 DEF RestrictedInv, SignedFor
      <4>4. ~Passed(c)'
        BY <4>1, SpendStarts DEF Passed
      <4> QED
        BY <1>1, <3>2, <4>1, <4>3, <4>4
    <3>3. CASE d = c /\ EngineStep(c)
      <4>1. at[c] = "spending" /\ UNCHANGED request
        BY <3>3 DEF EngineStep, facadeVars
      <4>2. Passed(c)' => CoveredBy(c)
        BY <3>3, PassesCovered
      <4> QED
        BY <1>1, <3>3, <4>1, <4>2 DEF RestrictedInv
    <3>4. CASE d = c /\ ~SpendEngine(c) /\ ~EngineStep(c)
      <4>1. ~AtDoor(c) => at'[c] # "spending"
        BY <1>3, AwayFromDoor
      <4>2. CacheDoor(c) \/ SpendThrows(c) \/ Replay(c) \/ RefuseSpend(c) => at'[c] # "spending"
        BY DEF CacheDoor, SpendThrows, Replay, RefuseSpend, Leave, Move, Facade, FacadeTypes
      <4> QED
        BY <2>5, <3>4, <4>1, <4>2 DEF AtDoor
    <3> QED
      BY <3>1, <3>2, <3>3, <3>4
  <2>6. ASSUME NEW d \in Calls, door'[d].ok, ~door'[d].replayed
        PROVE  SignedFor(d)' /\ CoveredBy(d)'
    <3>1. CASE d # c
      BY <1>1, <2>1, <2>6, <3>1 DEF RestrictedInv
    <3>2. CASE d = c /\ CacheDoor(c)
      <4>1. door'[c] = DoorOf(result[c]) /\ UNCHANGED request /\ at[c] = "spending" /\ step[c] = "done"
        BY <3>2 DEF CacheDoor, Facade, FacadeTypes
      <4>2. result[c].ok
        BY <2>6, <3>2, <4>1 DEF DoorOf, Refusal, NoDoor
      <4>3. Passed(c)
        BY <4>1, <4>2 DEF ReceiptsInv, InEngine, Passed
      <4> QED
        BY <1>1, <3>2, <4>1, <4>3 DEF RestrictedInv
    <3>3. CASE d = c /\ ~CacheDoor(c)
      <4>1. UNCHANGED door => FALSE
        BY <2>4, <2>6, <3>3 DEF NoDoor
      <4>2. ~Replay(c)
        BY <2>6, <3>3, ReplayMarks
      <4>3. ~RefuseSpend(c)
        <5>1. RefuseSpend(c) => door'[c] = Refusal(DoorRefusal(request[c]))
          BY DEF RefuseSpend, Facade, FacadeTypes
        <5> QED
          BY <2>6, <3>3, <5>1 DEF Refusal, NoDoor
      <4>4. SpendEngine(c) \/ EngineStep(c) \/ SpendThrows(c) => UNCHANGED door
        BY DEF SpendEngine, EngineStep, SpendThrows, facadeVars, replies
      <4>5. ~AtDoor(c) => UNCHANGED door
        BY <1>3, AwayFromDoor
      <4> QED
        BY <3>3, <4>1, <4>2, <4>3, <4>4, <4>5 DEF AtDoor
    <3> QED
      BY <3>1, <3>2, <3>3
  <2> QED
    BY <2>2, <2>3, <2>5, <2>6 DEF RestrictedInv
<1> QED
  BY <1>2, <1>3 DEF GrantsNext, HostChangesCatalog, ChangeCatalog, vars, engineVars

\* What restricted goods are bought under holds in every state of a grant.
LEMMA RestrictedAlways == GrantsSpec => []RestrictedInv
<1>1. GrantsInit => RestrictedInv
  BY DEF GrantsInit, RestrictedInv, NoDoor
<1>2. GrantsInv /\ DoorsInv /\ ReceiptsInv /\ RestrictedInv /\ [GrantsNext]_vars => RestrictedInv'
  BY RestrictedStep DEF GrantsInv
<1> QED
  BY <1>1, <1>2, GrantsInvariant, DoorsAlways, ReceiptsAlways, PTL DEF GrantsSpec

\* grants.ts, spend, and the engine's age check: a product that every catalog restricts is bought only under a
\* sealed proof of that age, and on a device grant only if the wallet signed for it, whatever is re-priced,
\* withdrawn or signed meanwhile.
THEOREM RestrictedAlwaysProved == GrantsSpec => []RestrictedNeedsProof
<1>1. RestrictedInv => RestrictedNeedsProof
  BY DEF RestrictedInv, RestrictedNeedsProof, SignedFor, CoveredBy
<1> QED
  BY <1>1, RestrictedAlways, PTL
=============================================================================
