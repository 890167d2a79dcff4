------------------------- MODULE Ceremonies_proofs -------------------------
(***************************************************************************)
(* What TLAPS proves of the ceremonies, for every set of tabs, catalogs,   *)
(* holders, lifetimes and bounds.  The inductive invariant says, beside    *)
(* the types, what a tab has in hand at each step (Held): the request its  *)
(* wallet was shown, and with it the very context sealed for it; the claim *)
(* a verdict makes (Judged); and that the record of a proof is as strong   *)
(* as the limit in force, unless that went up (Recorded).                  *)
(***************************************************************************)
EXTENDS Ceremonies, TLAPS

Made == [number : Nat, rail : CeremonyRails, order : Quotes, until : Nat]
Pages == [rail : CeremonyRails, platform : Platforms, order : Quotes]
Steps == {"closed", "open", "prompt", "posted", "resolved", "judged", "done"}

CeremonyTypes ==
  /\ clock \in Nat
  /\ quote \in Quotes
  /\ ageVerified \in BOOLEAN /\ raised \in BOOLEAN
  /\ proved \in SUBSET Nat
  /\ page \in [Tabs -> Pages \cup {None}]
  /\ ready \in [Tabs -> Made \cup {None}]
  /\ pending \in [Tabs -> SUBSET Made]
  /\ built \in [Tabs -> Nat]
  /\ shown \in [Tabs -> Made \cup {None}]
  /\ answer \in [Tabs -> [over : SUBSET Nat, signs : BOOLEAN]]
  /\ token \in [Tabs -> Made \cup {None}]
  /\ view \in [Tabs -> Quotes \cup {None}]
  /\ step \in [Tabs -> Steps]
  /\ verdict \in [Tabs -> {"none", "accepted", "refused", "expired"}]

\* What a tab has in hand.
Held(t) ==
  /\ step[t] # "closed" => page[t] \in Pages
  /\ step[t] = "prompt" => shown[t] \in Made /\ Rail(t) \in Wallets \cup Prompts
  /\ step[t] \in {"posted", "resolved"} /\ Rail(t) \notin Demos =>
       /\ shown[t] \in Made /\ token[t] = shown[t]
       /\ Rail(t) = "age" => answer[t].over = {n \in Requested(t) : HolderAge >= n}
  /\ step[t] = "resolved" => view[t] \in Quotes /\ (raised \/ view[t].limit >= quote.limit)

\* The age limits that both platforms' requests ask for.
Askable == \A q \in Quotes : q.limit \in {0, 18, 21}

\* TimelyAnswerAccepted, of one tab.
Timely(t) ==
  /\ step[t] = "judged" /\ verdict[t] # "expired" /\ Rail(t) \in Wallets \cup Prompts
  /\ shown[t].order = view[t]
  /\ IF Rail(t) = "age" THEN HolderAge >= Threshold(view[t]) ELSE answer[t].signs
  => verdict[t] = "accepted"

\* What a verdict stands for: an accepted payment is bound to its amount, and what is given in time is
\* accepted.
Judged(t) ==
  /\ step[t] = "judged" /\ verdict[t] = "accepted" /\ Rail(t) \in Payments =>
       view[t] \in Quotes /\ AmountBound(t)
  /\ Askable => Timely(t)

Recorded == ageVerified => raised \/ \E n \in proved : n >= quote.limit

CeremoniesInv ==
  /\ CeremonyTypes
  /\ \A t \in Tabs : Held(t) /\ Judged(t)
  /\ Recorded /\ PaidAsSigned /\ ProvedAtThreshold

-----------------------------------------------------------------------------
(* Types *)

\* Init leaves every tab closed and nothing on record.
LEMMA CeremoniesStart == CeremoniesInit => CeremoniesInv
<1> SUFFICES ASSUME CeremoniesInit PROVE CeremoniesInv
  OBVIOUS
<1>1. CeremonyTypes
  BY DEF CeremoniesInit, CeremonyTypes, Silent, Steps
<1>2. \A t \in Tabs : Held(t) /\ Judged(t)
  BY DEF CeremoniesInit, Held, Judged, Timely
<1>3. Recorded /\ PaidAsSigned /\ ProvedAtThreshold
  BY DEF CeremoniesInit, Recorded, PaidAsSigned, ProvedAtThreshold
<1> QED
  BY <1>1, <1>2, <1>3 DEF CeremoniesInv

\* A request is built of the tab's rail and the order as it is priced now.
LEMMA RequestIsMade ==
  ASSUME CeremonyTypes, NEW t \in Tabs, page[t] \in Pages, Rail(t) \in Wallets \cup Prompts
  PROVE  Request(t) \in Made /\ Request(t) # None
BY NoneAssumption, TtlAssumption DEF CeremonyTypes, Request, Made, Pages, Rail, Wallets, Prompts, CeremonyRails

\* The over-age claims a request asks for are numbers.
LEMMA RequestedIsNat ==
  ASSUME CeremonyTypes, NEW t \in Tabs, shown[t] \in Made
  PROVE  Requested(t) \in SUBSET Nat
BY QuotesAssumption DEF CeremonyTypes, Requested, Made, Threshold, MdocElements, DcqlClaims

-----------------------------------------------------------------------------
(* What a step leaves alone *)

Untouched(t) ==
  /\ page'[t] = page[t] /\ shown'[t] = shown[t] /\ answer'[t] = answer[t] /\ token'[t] = token[t]
  /\ view'[t] = view[t] /\ step'[t] = step[t] /\ verdict'[t] = verdict[t]

\* A tab that a step does not touch has in hand what it had.
LEMMA UntouchedKeeps ==
  ASSUME NEW t \in Tabs, Held(t), Judged(t), Untouched(t), UNCHANGED <<quote, raised>>
  PROVE  Held(t)' /\ Judged(t)'
<1>1. Rail(t)' = Rail(t) /\ Requested(t)' = Requested(t)
  BY DEF Untouched, Rail, Requested
<1>2. AmountBound(t)' = AmountBound(t) /\ Authorized(t)' = Authorized(t) /\ Timely(t)' = Timely(t)
  BY <1>1 DEF Untouched, AmountBound, Authorized, Timely
<1>3. Held(t)'
  BY <1>1, <1>2 DEF Held, Untouched
<1>4. Judged(t)'
  BY <1>1, <1>2 DEF Judged, Untouched
<1> QED
  BY <1>3, <1>4

\* A step that leaves the server and the order's standing alone keeps what is on record.
LEMMA StandingKeeps ==
  ASSUME Recorded, PaidAsSigned, ProvedAtThreshold, UNCHANGED <<quote, standing>>
  PROVE  Recorded' /\ PaidAsSigned' /\ ProvedAtThreshold'
BY DEF standing, Recorded, PaidAsSigned, ProvedAtThreshold

-----------------------------------------------------------------------------
(* The merchant, and time *)

\* When the catalog changes, either no proof is on record or being judged, or the limit did not go up,
\* or that it did is noted.
LEMMA ChangeQuoteKeeps ==
  ASSUME CeremoniesInv, NEW q \in Quotes, ChangeQuote(q)
  PROVE  CeremoniesInv'
<1> USE DEF CeremoniesInv
<1>0. /\ quote.limit \in Nat /\ q.limit \in Nat /\ quote' = q
      /\ raised' = (raised \/ (q.limit > quote.limit /\ (ageVerified \/ \E t \in Tabs : step[t] = "resolved")))
      /\ UNCHANGED <<clock, ageVerified, sale, proved, tabVars>>
  BY QuotesAssumption DEF CeremonyTypes, ChangeQuote
<1>a. /\ raised => raised'
      /\ (q.limit > quote.limit /\ (ageVerified \/ \E t \in Tabs : step[t] = "resolved")) => raised'
  BY <1>0, Zenon
<1>1. CeremonyTypes'
  BY <1>0 DEF CeremonyTypes, tabVars
<1>2. ASSUME NEW t \in Tabs PROVE Held(t)' /\ Judged(t)'
  <2>1. Judged(t)'
    BY <1>0 DEF Judged, Timely, tabVars, AmountBound, Authorized, Rail
  <2>2. ASSUME step[t] = "resolved" PROVE raised' \/ view[t].limit >= q.limit
    <3>1. view[t].limit \in Nat
      BY <2>2, QuotesAssumption DEF Held
    <3> QED
      BY <1>0, <1>a, <2>2, <3>1 DEF Held
  <2> QED
    BY <1>0, <2>1, <2>2 DEF Held, tabVars, Requested, Rail
<1>3. Recorded'
  <2>1. SUFFICES ASSUME ageVerified, ~raised' PROVE \E n \in proved : n >= q.limit
    BY <1>0 DEF Recorded
  <2>2. PICK n \in proved : n >= quote.limit
    BY <1>0, <2>1 DEF Recorded
  <2>3. n \in Nat /\ q.limit <= quote.limit
    BY <1>0, <1>a, <2>1 DEF CeremonyTypes
  <2> QED
    BY <1>0, <2>2, <2>3
<1>4. PaidAsSigned' /\ ProvedAtThreshold'
  BY <1>0 DEF PaidAsSigned, ProvedAtThreshold
<1> QED
  BY <1>1, <1>2, <1>3, <1>4

\* Time only passes.
LEMMA TimePassesKeeps ==
  ASSUME CeremoniesInv, TimePasses
  PROVE  CeremoniesInv'
<1> USE DEF CeremoniesInv, TimePasses
<1>1. CeremonyTypes'
  BY DEF CeremonyTypes, tabVars, standing
<1>2. \A t \in Tabs : Untouched(t)
  BY DEF Untouched, tabVars
<1>3. UNCHANGED <<quote, standing, raised>>
  BY DEF standing
<1> QED
  BY <1>1, <1>2, <1>3, UntouchedKeeps, StandingKeeps

-----------------------------------------------------------------------------
(* The page and its wallet *)

\* A step of one tab that leaves the server and the order's standing alone is judged by that tab.
LEMMA TabStep ==
  ASSUME CeremoniesInv, NEW t \in Tabs, UNCHANGED <<server, standing>>,
         CeremonyTypes', Held(t)', Judged(t)', \A u \in Tabs \ {t} : Untouched(u)
  PROVE  CeremoniesInv'
<1>1. UNCHANGED <<quote, raised>>
  BY DEF server, standing
<1>2. ASSUME NEW u \in Tabs PROVE Held(u)' /\ Judged(u)'
  BY <1>1, UntouchedKeeps DEF CeremoniesInv
<1> QED
  BY <1>1, <1>2, StandingKeeps DEF CeremoniesInv

\* prefetch() keeps the types of what the page has ready and under way.
LEMMA PrefetchTypes ==
  ASSUME CeremonyTypes, NEW t \in Tabs, page[t] \in Pages, Rail(t) \in Wallets, Prefetch(t)
  PROVE  /\ ready' \in [Tabs -> Made \cup {None}]
         /\ pending' \in [Tabs -> SUBSET Made]
         /\ built' \in [Tabs -> Nat]
<1>1. Request(t) \in Made
  BY RequestIsMade
<1>2. ready' \in [Tabs -> Made \cup {None}] /\ built' \in [Tabs -> Nat]
  BY CeremoniesBounds DEF CeremonyTypes, Prefetch
<1>3. pending' \in [Tabs -> SUBSET Made]
  BY <1>1 DEF CeremonyTypes, Prefetch
<1> QED
  BY <1>2, <1>3

\* A page that is opened again holds nothing of the ceremony that failed.
LEMMA ReopenKeeps ==
  ASSUME CeremoniesInv, NEW t \in Tabs, step[t] # "closed", Reopen(t), UNCHANGED <<server, standing>>
  PROVE  CeremoniesInv'
<1>1. page[t] \in Pages
  BY DEF CeremoniesInv, Held
<1>2. ready' \in [Tabs -> Made \cup {None}] /\ pending' \in [Tabs -> SUBSET Made] /\ built' \in [Tabs -> Nat]
  <2>1. CASE Rail(t) \in Wallets
    BY <1>1, <2>1, PrefetchTypes DEF CeremoniesInv, Reopen
  <2>2. CASE Rail(t) \notin Wallets
    BY <2>2 DEF CeremoniesInv, CeremonyTypes, Reopen
  <2> QED
    BY <2>1, <2>2
<1>3. CeremonyTypes'
  BY <1>2 DEF CeremoniesInv, CeremonyTypes, Reopen, Goto, Silent, Steps, server, standing
<1>4. step'[t] = "open" /\ page'[t] = page[t]
  BY DEF CeremoniesInv, CeremonyTypes, Reopen, Goto
<1>5. Held(t)' /\ Judged(t)'
  BY <1>1, <1>4 DEF Held, Judged, Timely
<1>6. \A u \in Tabs \ {t} : Untouched(u)
  BY DEF CeremoniesInv, CeremonyTypes, Reopen, Goto, Untouched
<1> QED
  BY <1>3, <1>5, <1>6, TabStep

\* What the page does of its own: fetch requests, and lose them.
LEMMA FetchingKeeps ==
  ASSUME CeremoniesInv, NEW t \in Tabs, NEW r,
         Prepare(t) \/ (r \in pending[t] /\ (Arrive(t, r) \/ FetchFails(t, r)))
  PROVE  CeremoniesInv'
<1>1. UNCHANGED <<server, standing>> /\ UNCHANGED <<page, shown, answer, token, view, step, verdict>>
  BY DEF Prepare, Arrive, FetchFails
<1>2. ready' \in [Tabs -> Made \cup {None}] /\ pending' \in [Tabs -> SUBSET Made] /\ built' \in [Tabs -> Nat]
  <2>1. CASE Prepare(t)
    <3>1. page[t] \in Pages
      BY <2>1 DEF CeremoniesInv, Held, Prepare
    <3> QED
      BY <2>1, <3>1, PrefetchTypes DEF CeremoniesInv, Prepare
  <2>2. CASE r \in pending[t] /\ Arrive(t, r)
    BY <2>2 DEF CeremoniesInv, CeremonyTypes, Arrive
  <2>3. CASE r \in pending[t] /\ FetchFails(t, r)
    BY <2>3 DEF CeremoniesInv, CeremonyTypes, FetchFails
  <2> QED
    BY <2>1, <2>2, <2>3
<1>3. CeremonyTypes'
  BY <1>1, <1>2 DEF CeremoniesInv, CeremonyTypes, server, standing
<1>4. \A u \in Tabs : Untouched(u)
  BY <1>1 DEF Untouched
<1>5. UNCHANGED <<quote, raised>>
  BY <1>1 DEF server, standing
<1>6. Held(t)' /\ Judged(t)'
  BY <1>4, <1>5, UntouchedKeeps DEF CeremoniesInv
<1> QED
  BY <1>1, <1>3, <1>4, <1>6, TabStep

\* The page is opened: on a rail, with the order as it is priced now.
LEMMA OpenPageKeeps ==
  ASSUME CeremoniesInv, NEW t \in Tabs, NEW rail \in CeremonyRails, NEW platform \in Platforms,
         OpenPage(t, rail, platform)
  PROVE  CeremoniesInv'
<1> USE DEF CeremoniesInv
<1>1. CeremonyTypes'
  BY DEF CeremonyTypes, OpenPage, Goto, Steps, Pages, server, standing
<1>2. step'[t] = "open" /\ page'[t] \in Pages
  BY DEF CeremonyTypes, OpenPage, Goto, Pages, server
<1>3. Held(t)' /\ Judged(t)'
  BY <1>2 DEF Held, Judged, Timely
<1>4. \A u \in Tabs \ {t} : Untouched(u)
  BY DEF CeremonyTypes, OpenPage, Goto, Untouched
<1>5. UNCHANGED <<server, standing>>
  BY DEF OpenPage
<1> QED
  BY <1>1, <1>3, <1>4, <1>5, TabStep

\* The tap shows the wallet the request at hand, or one fetched in the tap.
LEMMA TapKeeps ==
  ASSUME CeremoniesInv, NEW t \in Tabs, TapWallet(t) \/ TapPrompt(t)
  PROVE  CeremoniesInv'
<1> USE DEF CeremoniesInv
<1>1. page[t] \in Pages /\ Rail(t) \in Wallets \cup Prompts
  BY DEF Held, TapWallet, TapPrompt
<1>2. Request(t) \in Made
  BY <1>1, RequestIsMade
<1>3. shown' \in [Tabs -> Made \cup {None}] /\ shown'[t] \in Made
  BY <1>2 DEF CeremonyTypes, TapWallet, TapPrompt
<1>4. built' \in [Tabs -> Nat]
  BY DEF CeremonyTypes, TapWallet, TapPrompt
<1>5. CeremonyTypes'
  BY <1>3, <1>4 DEF CeremonyTypes, TapWallet, TapPrompt, Goto, Steps, server, standing
<1>6. step'[t] = "prompt" /\ page'[t] = page[t]
  BY DEF CeremonyTypes, TapWallet, TapPrompt, Goto
<1>7. Held(t)' /\ Judged(t)'
  BY <1>1, <1>3, <1>6 DEF Held, Judged, Timely, Rail
<1>8. \A u \in Tabs \ {t} : Untouched(u)
  BY DEF CeremonyTypes, TapWallet, TapPrompt, Goto, Untouched
<1>9. UNCHANGED <<server, standing>>
  BY DEF TapWallet, TapPrompt
<1> QED
  BY <1>5, <1>7, <1>8, <1>9, TabStep

\* The instant demo answers for itself.
LEMMA TapDemoKeeps ==
  ASSUME CeremoniesInv, NEW t \in Tabs, TapDemo(t)
  PROVE  CeremoniesInv'
<1> USE DEF CeremoniesInv
<1>1. page[t] \in Pages /\ Rail(t) \in Demos /\ Threshold(page[t].order) \in Nat
  BY QuotesAssumption DEF Held, TapDemo, Threshold, Pages
<1>2. CeremonyTypes'
  BY <1>1 DEF CeremonyTypes, TapDemo, Goto, Steps, server, standing
<1>3. step'[t] = "posted" /\ page'[t] = page[t]
  BY DEF CeremonyTypes, TapDemo, Goto
<1>4. Held(t)' /\ Judged(t)'
  BY <1>1, <1>3 DEF Held, Judged, Timely, Rail
<1>5. \A u \in Tabs \ {t} : Untouched(u)
  BY DEF CeremonyTypes, TapDemo, Goto, Untouched
<1>6. UNCHANGED <<server, standing>>
  BY DEF TapDemo
<1> QED
  BY <1>2, <1>4, <1>5, <1>6, TabStep

\* The wallet answers what it was shown, and the context sealed for exactly that is sent along.
LEMMA WalletAnswersKeeps ==
  ASSUME CeremoniesInv, NEW t \in Tabs, WalletAnswers(t)
  PROVE  CeremoniesInv'
<1> USE DEF CeremoniesInv
<1>1. page[t] \in Pages /\ Rail(t) \in Wallets \cup Prompts /\ shown[t] \in Made
  BY DEF Held, WalletAnswers
<1>2. Requested(t) \in SUBSET Nat
  BY <1>1, RequestedIsNat
<1>3. PICK signs \in BOOLEAN :
        answer' = [answer EXCEPT ![t] =
                     [over |-> IF Rail(t) \in {"age", "delegated"}
                                 THEN {n \in Requested(t) : HolderAge >= n} ELSE {},
                      signs |-> signs]]
  BY DEF WalletAnswers
<1>4. answer' \in [Tabs -> [over : SUBSET Nat, signs : BOOLEAN]]
  BY <1>2, <1>3 DEF CeremonyTypes
<1>5. CeremonyTypes'
  BY <1>1, <1>4 DEF CeremonyTypes, WalletAnswers, Goto, Sent, Steps, server, standing
<1>6. /\ step'[t] = "posted" /\ page' = page /\ shown' = shown /\ token'[t] = shown[t]
      /\ Rail(t) = "age" => answer'[t].over = {n \in Requested(t) : HolderAge >= n}
  BY <1>3 DEF CeremonyTypes, WalletAnswers, Goto, Sent
<1>7. Requested(t)' = Requested(t) /\ Rail(t)' = Rail(t)
  BY <1>6 DEF Requested, Rail
<1>8. Held(t)' /\ Judged(t)'
  BY <1>1, <1>6, <1>7 DEF Held, Judged, Timely
<1>9. \A u \in Tabs \ {t} : Untouched(u)
  BY <1>3 DEF CeremonyTypes, WalletAnswers, Goto, Untouched
<1>10. UNCHANGED <<server, standing>>
  BY DEF WalletAnswers
<1> QED
  BY <1>5, <1>8, <1>9, <1>10, TabStep

-----------------------------------------------------------------------------
(* Verify *)

\* Whatever was sealed can no longer be opened: no verdict but "expired".
LEMMA LateKeeps ==
  ASSUME CeremoniesInv, NEW t \in Tabs, ReferenceLate(t) \/ ContextLate(t)
  PROVE  CeremoniesInv'
<1> USE DEF CeremoniesInv
<1>1. CeremonyTypes'
  BY DEF CeremonyTypes, ReferenceLate, ContextLate, Expired, Goto, Steps, server, standing
<1>2. step'[t] = "judged" /\ verdict'[t] = "expired" /\ page' = page
  BY DEF CeremonyTypes, ReferenceLate, ContextLate, Expired, Goto
<1>3. page[t] \in Pages
  BY DEF Held, ReferenceLate, ContextLate
<1>4. Held(t)' /\ Judged(t)'
  BY <1>2, <1>3 DEF Held, Judged, Timely
<1>5. \A u \in Tabs \ {t} : Untouched(u)
  BY DEF CeremonyTypes, ReferenceLate, ContextLate, Expired, Goto, Untouched
<1>6. UNCHANGED <<server, standing>>
  BY DEF ReferenceLate, ContextLate
<1> QED
  BY <1>1, <1>4, <1>5, <1>6, TabStep

\* The order verify judges is the one of now.
LEMMA ResolveKeeps ==
  ASSUME CeremoniesInv, NEW t \in Tabs, Resolve(t)
  PROVE  CeremoniesInv'
<1> USE DEF CeremoniesInv
<1>1. CeremonyTypes'
  BY DEF CeremonyTypes, Resolve, Goto, Steps, server, standing
<1>2. /\ step[t] = "posted" /\ step'[t] = "resolved" /\ view'[t] = quote /\ quote' = quote
      /\ UNCHANGED <<page, shown, answer, token, verdict>>
  BY DEF CeremonyTypes, Resolve, Goto, server
<1>3. quote \in Quotes /\ quote.limit \in Nat /\ page[t] \in Pages
  BY <1>2, QuotesAssumption DEF CeremonyTypes, Held
<1>4. Requested(t)' = Requested(t) /\ Rail(t)' = Rail(t)
  BY <1>2 DEF Requested, Rail
<1>5. Held(t)' /\ Judged(t)'
  BY <1>2, <1>3, <1>4 DEF Held, Judged, Timely
<1>6. \A u \in Tabs \ {t} : Untouched(u)
  BY DEF CeremonyTypes, Resolve, Goto, Untouched
<1>7. UNCHANGED <<server, standing>>
  BY DEF Resolve
<1> QED
  BY <1>1, <1>5, <1>6, <1>7, TabStep

\* Of an order at a limit both platforms ask for, a request asks for the very claim verify requires.
LEMMA AskedIsRequired ==
  ASSUME CeremonyTypes, Askable, NEW t \in Tabs, Rail(t) = "age", shown[t] \in Made
  PROVE  Threshold(shown[t].order) \in Requested(t)
<1>1. shown[t].order.limit \in {0, 18, 21}
  BY DEF Askable, Made
<1>2. Threshold(shown[t].order) \in {18, 21}
  BY <1>1 DEF Threshold
<1> QED
  BY <1>2 DEF Requested, MdocElements, DcqlClaims

\* What is recorded was disclosed at the threshold of the order as it is; what is accepted is bound to its
\* amount; what a wallet gave in time is not refused.
LEMMA VerifyKeeps ==
  ASSUME CeremoniesInv, NEW t \in Tabs, Verify(t)
  PROVE  CeremoniesInv'
<1> USE DEF CeremoniesInv
<1> DEFINE accepts == IF Rail(t) \in Proofs THEN Evaluates(t) ELSE AmountBound(t)
<1>1. /\ step[t] = "resolved" /\ step'[t] = "judged"
      /\ verdict'[t] = IF Readable(t) /\ accepts THEN "accepted" ELSE "refused"
      /\ UNCHANGED <<server, sale, raised, page, ready, pending, built, shown, answer, token, view>>
  BY DEF CeremonyTypes, Verify, Goto
<1>2. view[t] \in Quotes /\ page[t] \in Pages /\ (raised \/ view[t].limit >= quote.limit)
  BY <1>1 DEF Held
<1>3. /\ ageVerified' = (ageVerified \/ (Readable(t) /\ Proves(t)))
      /\ proved' = proved \cup {n \in answer[t].over : Readable(t) /\ Proves(t)}
  BY DEF Verify
<1>4. proved' \in SUBSET Nat /\ ageVerified' \in BOOLEAN
  <2>1. answer[t].over \in SUBSET Nat
    BY DEF CeremonyTypes
  <2>2. proved' \in SUBSET Nat
    BY <1>3, <2>1 DEF CeremonyTypes
  <2>3. ageVerified' \in BOOLEAN
    BY <1>3, Zenon DEF CeremonyTypes
  <2> QED
    BY <2>2, <2>3
<1>5. CeremonyTypes'
  BY <1>1, <1>4 DEF CeremonyTypes, Verify, Goto, Steps, server
<1>6. ASSUME NEW u \in Tabs \ {t} PROVE Held(u)' /\ Judged(u)'
  <2>1. Untouched(u)
    BY <1>1 DEF CeremonyTypes, Verify, Goto, Untouched
  <2> QED
    BY <1>1, <2>1, UntouchedKeeps DEF server
<1>7. Held(t)'
  BY <1>1, <1>2 DEF Held
<1>8. Rail(t)' = Rail(t) /\ AmountBound(t)' = AmountBound(t)
  BY <1>1 DEF Rail, AmountBound, Authorized
<1>9. verdict'[t] = "accepted" /\ Rail(t) \in Payments => AmountBound(t)
  BY <1>1 DEF Payments
<1>10. ASSUME Askable PROVE Timely(t)'
  <2>1. SUFFICES ASSUME Rail(t) \in Wallets \cup Prompts, shown[t].order = view[t],
                        IF Rail(t) = "age" THEN HolderAge >= Threshold(view[t]) ELSE answer[t].signs
                 PROVE  Readable(t) /\ accepts
    BY <1>1, <1>8 DEF Timely
  <2>2. shown[t] \in Made /\ token[t] = shown[t]
    BY <1>1, <2>1 DEF Held, Demos, Wallets, Prompts
  <2>3. Readable(t)
    BY <2>2, NoneAssumption DEF Readable, Made
  <2>4. CASE Rail(t) = "age"
    <3>1. answer[t].over = {n \in Requested(t) : HolderAge >= n}
      BY <1>1, <2>4 DEF Held, Demos
    <3>2. Threshold(view[t]) \in Requested(t)
      BY <1>10, <2>1, <2>2, <2>4, AskedIsRequired
    <3> QED
      BY <2>1, <2>3, <2>4, <3>1, <3>2 DEF Evaluates, Proofs
  <2>5. CASE Rail(t) # "age"
    BY <2>1, <2>3, <2>5 DEF Proofs, Wallets, Prompts, AmountBound, Authorized
  <2> QED
    BY <2>4, <2>5
<1>11. Judged(t)'
  BY <1>1, <1>2, <1>8, <1>9, <1>10 DEF Judged
<1>12. Recorded'
  <2>1. quote' = quote /\ raised' = raised /\ quote.limit \in Nat
    BY <1>1, QuotesAssumption DEF server, CeremonyTypes
  <2>2. CASE Readable(t) /\ Proves(t)
    <3>1. Threshold(view[t]) \in answer[t].over /\ view[t].limit \in Nat
      BY <1>2, <2>2, QuotesAssumption DEF Proves, Evaluates
    <3>2. Threshold(view[t]) \in proved'
      BY <1>3, <2>2, <3>1
    <3>3. raised \/ Threshold(view[t]) >= quote.limit
      BY <1>2, <2>1, <3>1 DEF Threshold
    <3> QED
      BY <2>1, <3>2, <3>3 DEF Recorded
  <2>3. CASE ~(Readable(t) /\ Proves(t))
    <3>1. ageVerified' => ageVerified
      BY <1>3, <2>3, Zenon
    <3> QED
      BY <1>3, <2>1, <3>1 DEF Recorded
  <2> QED
    BY <2>2, <2>3
<1>13. PaidAsSigned' /\ ProvedAtThreshold'
  BY <1>1, <1>3 DEF PaidAsSigned, ProvedAtThreshold
<1> QED
  BY <1>5, <1>6, <1>7, <1>11, <1>12, <1>13

-----------------------------------------------------------------------------
(* The completion seam *)

\* A sale is of an accepted payment, for the amount it is bound to, under a limit that was proved.
LEMMA CompleteKeeps ==
  ASSUME CeremoniesInv, NEW t \in Tabs, Complete(t)
  PROVE  CeremoniesInv'
<1> USE DEF CeremoniesInv
<1>1. /\ step[t] = "judged" /\ step'[t] = "done" /\ Rail(t) \in Payments /\ verdict[t] = "accepted"
      /\ sale # None \/ Passes(t)
      /\ UNCHANGED <<server, proved, raised, page, ready, pending, built, shown, answer, token, view, verdict>>
  BY DEF CeremonyTypes, Complete, Completes, Goto
<1>2. /\ ageVerified' = (sale # None /\ ageVerified)
      /\ sale' = IF sale # None THEN sale
                 ELSE [rail |-> Rail(t), amount |-> view[t].total, limit |-> quote.limit,
                       authorized |-> Authorized(t)]
  BY DEF Complete
<1>3. ageVerified' \in BOOLEAN /\ (ageVerified' => ageVerified)
  BY <1>2, Zenon
<1>4. CeremonyTypes'
  BY <1>1, <1>3 DEF CeremonyTypes, Complete, Goto, Steps, server
<1>5. ASSUME NEW u \in Tabs \ {t} PROVE Held(u)' /\ Judged(u)'
  <2>1. Untouched(u)
    BY <1>1 DEF CeremonyTypes, Complete, Goto, Untouched
  <2> QED
    BY <1>1, <2>1, UntouchedKeeps DEF server
<1>6. Held(t)' /\ Judged(t)'
  BY <1>1 DEF Held, Judged, Timely
<1>7. Recorded'
  BY <1>1, <1>3 DEF Recorded, server
<1>8. PaidAsSigned'
  <2>1. AmountBound(t) /\ view[t] \in Quotes
    BY <1>1 DEF Judged
  <2> QED
    BY <1>2, <2>1 DEF AmountBound, PaidAsSigned
<1>9. ProvedAtThreshold'
  BY <1>1, <1>2 DEF Passes, Recorded, ProvedAtThreshold
<1> QED
  BY <1>4, <1>5, <1>6, <1>7, <1>8, <1>9

\* A proof sends the human back.
LEMMA DoneKeeps ==
  ASSUME CeremoniesInv, NEW t \in Tabs, Done(t)
  PROVE  CeremoniesInv'
<1> USE DEF CeremoniesInv
<1>1. CeremonyTypes'
  BY DEF CeremonyTypes, Done, Goto, Steps, server, standing
<1>2. step'[t] = "done" /\ page'[t] = page[t] /\ step[t] = "judged"
  BY DEF CeremonyTypes, Done, Goto
<1>3. Held(t)' /\ Judged(t)'
  BY <1>2 DEF Held, Judged, Timely
<1>4. \A u \in Tabs \ {t} : Untouched(u)
  BY DEF CeremonyTypes, Done, Goto, Untouched
<1>5. UNCHANGED <<server, standing>>
  BY DEF Done
<1> QED
  BY <1>1, <1>3, <1>4, <1>5, TabStep

-----------------------------------------------------------------------------
(* The invariant and what follows from it *)

\* Every step of a ceremony keeps the inductive invariant.
LEMMA CeremoniesInductive == CeremoniesInv /\ [CeremoniesNext]_ceremonyVars => CeremoniesInv'
<1> SUFFICES ASSUME CeremoniesInv, [CeremoniesNext]_ceremonyVars PROVE CeremoniesInv'
  OBVIOUS
<1>1. ASSUME NEW q \in Quotes, ChangeQuote(q) PROVE CeremoniesInv'
  BY <1>1, ChangeQuoteKeeps
<1>2. CASE TimePasses
  BY <1>2, TimePassesKeeps
<1>3. ASSUME NEW t \in Tabs, NEW rail \in CeremonyRails, NEW platform \in Platforms, OpenPage(t, rail, platform)
      PROVE  CeremoniesInv'
  BY <1>3, OpenPageKeeps
<1>4. ASSUME NEW t \in Tabs, NEW r,
             Prepare(t) \/ (r \in pending[t] /\ (Arrive(t, r) \/ FetchFails(t, r)))
      PROVE  CeremoniesInv'
  BY <1>4, FetchingKeeps
<1>5. ASSUME NEW t \in Tabs, TapWallet(t) \/ TapPrompt(t) PROVE CeremoniesInv'
  BY <1>5, TapKeeps
<1>6. ASSUME NEW t \in Tabs, TapDemo(t) PROVE CeremoniesInv'
  BY <1>6, TapDemoKeeps
<1>7. ASSUME NEW t \in Tabs, WalletAnswers(t) PROVE CeremoniesInv'
  BY <1>7, WalletAnswersKeeps
<1>8. ASSUME NEW t \in Tabs, Cancel(t) \/ Refuse(t) PROVE CeremoniesInv'
  BY <1>8, ReopenKeeps DEF Cancel, Refuse
<1>9. ASSUME NEW t \in Tabs, ReferenceLate(t) \/ ContextLate(t) PROVE CeremoniesInv'
  BY <1>9, LateKeeps
<1>10. ASSUME NEW t \in Tabs, Resolve(t) PROVE CeremoniesInv'
  BY <1>10, ResolveKeeps
<1>11. ASSUME NEW t \in Tabs, Verify(t) PROVE CeremoniesInv'
  BY <1>11, VerifyKeeps
<1>12. ASSUME NEW t \in Tabs, Complete(t) PROVE CeremoniesInv'
  BY <1>12, CompleteKeeps
<1>13. ASSUME NEW t \in Tabs, Done(t) PROVE CeremoniesInv'
  BY <1>13, DoneKeeps
<1>14. CASE UNCHANGED ceremonyVars
  <2>1. UNCHANGED <<server, standing>> /\ \A t \in Tabs : Untouched(t)
    BY <1>14 DEF ceremonyVars, tabVars, Untouched
  <2>2. CeremonyTypes'
    BY <1>14 DEF CeremoniesInv, CeremonyTypes, ceremonyVars, server, standing, tabVars
  <2> QED
    BY <2>1, <2>2, UntouchedKeeps, StandingKeeps DEF CeremoniesInv, server, standing
<1> QED
  BY <1>1, <1>2, <1>3, <1>4, <1>5, <1>6, <1>7, <1>8, <1>9, <1>10, <1>11, <1>12, <1>13, <1>14 DEF CeremoniesNext

\* The inductive invariant of the ceremonies: what each tab holds, what a verdict stands for, and what the
\* verification record and the sale say.
THEOREM CeremoniesInvariant == CeremoniesSpec => []CeremoniesInv
  BY CeremoniesStart, CeremoniesInductive, PTL DEF CeremoniesSpec

\* What is charged is what the wallet's holder signed (txData.ts, dc-payment/verify.ts), whatever the
\* catalog becomes between the page and the completion.
THEOREM AlwaysPaidAsSigned == CeremoniesSpec => []PaidAsSigned
<1>1. CeremoniesInv => PaidAsSigned
  BY DEF CeremoniesInv
<1> QED
  BY <1>1, CeremoniesInvariant, PTL

\* A sale under an age limit follows a proof at that limit or above (credential-gate's evaluate,
\* completeOrder's age gate), unless the limit went up after the proof.
THEOREM AlwaysProvedAtThreshold == CeremoniesSpec => []ProvedAtThreshold
<1>1. CeremoniesInv => ProvedAtThreshold
  BY DEF CeremoniesInv
<1> QED
  BY <1>1, CeremoniesInvariant, PTL

\* Where no order has another age limit than 18 or 21, what a wallet gives in time, for an order that has
\* not changed, is accepted on either platform (doc-spec.ts, envelope.ts, the pages' prefetch).  With
\* other limits it is not: an org-iso-mdoc request does not ask for them.
THEOREM TimelyIsAccepted ==
  ASSUME Askable
  PROVE  CeremoniesSpec => []TimelyAnswerAccepted
<1>1. CeremoniesInv => TimelyAnswerAccepted
  BY DEF CeremoniesInv, Judged, Timely, TimelyAnswerAccepted
<1> QED
  BY <1>1, CeremoniesInvariant, PTL

=============================================================================
