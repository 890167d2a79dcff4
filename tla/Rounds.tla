------------------------------- MODULE Rounds -------------------------------
(***************************************************************************)
(* create-spending-grant of an item the human named in words (server.ts)   *)
(* over multi-round requests (mrtr.ts): the tool asks which product and    *)
(* which of its variants is meant, mints a grant for that one product, and *)
(* then re-reads the grant at each redial until the human has decided.     *)
(*                                                                         *)
(* The server keeps nothing between rounds.  What has been gathered rides  *)
(* in a sealed state, which the client presents again, whichever it likes  *)
(* of those it was given, as often as it likes, also from another session  *)
(* or beside another call.  The grant's own life (Grants) is only its      *)
(* status here, moved by the human at the approve page.                    *)
(*                                                                         *)
(*   dial: idle -> matching -> creating -> viewing -> idle                 *)
(*             \-> holding -> viewing | idle            (a grant is waited *)
(*                                                       for)              *)
(***************************************************************************)
EXTENDS Integers, FiniteSets, Sequences

CONSTANTS
  Dialers,     \* calls that may be under way at once
  Principals,  \* the sessions they may come from
  Params,      \* the arguments: the words that name the item, and the cap
  Words,       \* what a human may call a product
  Products,    \* product ids
  Matches,     \* matchProducts: the products that words fit best
  Sized,       \* the products with a variant to choose
  Pinned,      \* prefillVariants: the products whose variant the words choose already
  Price,       \* the live prices
  MaxRounds,   \* MAX_ROUNDS
  MaxDials     \* bound: the calls made

ASSUME MatchesAssumption == Matches \in [Words -> SUBSET Products]
ASSUME ParamsAssumption == \A p \in Params : p.words \in Words /\ p.cap \in Nat
ASSUME PinnedAssumption == Pinned \in [Words -> SUBSET Products]
ASSUME PriceAssumption == Price \in [Products -> Nat] /\ Sized \subseteq Products
ASSUME RoundsAssumption == MaxRounds \in Nat /\ MaxDials \in Nat

VARIABLES
  given,    \* the states clients hold that the server's secret sealed
  expired,  \* the ones past their time
  dial,     \* where each call stands
  grants,   \* the grants created, in order
  kept,     \* the first of them this process knows: it keeps them in memory
  said,     \* what each call was last answered
  replies,  \* what humans answered to questions that were asked
  dials     \* how many calls have been made

roundsVars == <<given, expired, dial, grants, kept, said, replies, dials>>

NoGrant == 0
Fields == {"item", "size", "approval"}
NoAnswers == [f \in {"item", "size"} |-> "none"]
NoState == [param |-> [words |-> "", cap |-> 0], sub |-> "", n |-> 0, answers |-> NoAnswers,
            asks |-> "nothing", grant |-> NoGrant, awaiting |-> FALSE]
Forged == [NoState EXCEPT !.asks = "anything"]
NoDial == [stage |-> "idle", round |-> NoState, declined |-> FALSE]
Nothing == [code |-> "nothing", grant |-> NoGrant]
Sizes == {"fits", "odd"}

\* A reply: to one field, or a refusal to answer, or none.
Replies == {[to |-> "item", value |-> w] : w \in Words} \cup {[to |-> "size", value |-> z] : z \in Sizes}
           \cup {[to |-> "approval", value |-> "true"], [to |-> "none", value |-> "none"],
                 [to |-> "all", value |-> "decline"]}

RoundsInit ==
  /\ given = {}
  /\ expired = {}
  /\ dial = [d \in Dialers |-> NoDial]
  /\ grants = << >>
  /\ kept = 1
  /\ said = [d \in Dialers |-> Nothing]
  /\ replies = {}
  /\ dials = 0

-----------------------------------------------------------------------------
(* Opening a round *)

\* open(): the signature, the time, the arguments, the session, in this order.
Refusal(state, sub, param) ==
  IF state = NoState THEN "none"
  ELSE IF state = Forged THEN "tampered"
  ELSE IF state \in expired THEN "expired"
  ELSE IF state.param # param THEN "wrong-request"
  ELSE IF state.sub # sub THEN "wrong-principal"
  ELSE "none"

\* Mutant: an answer to a question that was not asked is believed.
MergeUnasked(state, reply) ==
  IF reply.to \in {"item", "size"} THEN [state.answers EXCEPT ![reply.to] = reply.value] ELSE state.answers

\* Only the fields the state asked for are taken from a reply.
Merge(state, reply) ==
  IF reply.to = state.asks /\ reply.to # "approval"
  THEN [state.answers EXCEPT ![reply.to] = reply.value] ELSE state.answers

Say(d, code, grant) == said' = [said EXCEPT ![d] = [code |-> code, grant |-> grant]]
At(d, stage) == dial' = [dial EXCEPT ![d].stage = stage]
End(d) == dial' = [dial EXCEPT ![d] = NoDial]

\* A call, with a state or without: refused, or on to the grant it waits for, or to the questions.
Dial(d, sub, param, state, reply) ==
  LET code == Refusal(state, sub, param)
      declined == reply.to = "all" /\ state.asks # "nothing"
      round == [state EXCEPT !.param = param, !.sub = sub, !.answers = Merge(state, reply)]
      Round(stage) == dial' = [dial EXCEPT ![d] = [stage |-> stage, round |-> round, declined |-> declined]]
  IN
  /\ dial[d].stage = "idle"
  /\ dials < MaxDials
  /\ dials' = dials + 1
  /\ replies' = IF code = "none" /\ reply.to = state.asks
                THEN replies \cup {<<sub, param, reply.to, reply.value>>} ELSE replies
  /\ \/ code # "none" /\ Say(d, code, NoGrant) /\ UNCHANGED dial
     \/ code = "none" /\ state.grant # NoGrant /\ Round("holding") /\ UNCHANGED said
     \/ code = "none" /\ state.grant = NoGrant /\ declined /\ Say(d, "declined", NoGrant) /\ UNCHANGED dial
     \/ code = "none" /\ state.grant = NoGrant /\ ~declined /\ Round("matching") /\ UNCHANGED said
  /\ UNCHANGED <<given, expired, grants, kept>>

-----------------------------------------------------------------------------
(* Asking *)

\* ask(): seal what is known, one round further, with the question.
Seal(d, asks) ==
  given' = given \cup {[dial[d].round EXCEPT !.n = @ + 1, !.asks = asks]}

\* A question for the human, or, after MAX_ROUNDS of them, the end.
Ask(d, asks) ==
  \/ dial[d].round.n < MaxRounds /\ Seal(d, asks) /\ Say(d, "input-required", NoGrant)
  \/ dial[d].round.n >= MaxRounds /\ Say(d, "unresolved", NoGrant) /\ UNCHANGED given

\* The human's words, or the answer that replaced them.
Said(r) == IF r.answers["item"] = "none" THEN r.param.words ELSE r.answers["item"]
Named(r) == Matches[Said(r)]

\* The variant is chosen by those words, or by an answer that is on the menu.
Fitting(r, p) == p \in Sized => p \in Pinned[Said(r)] \/ r.answers["size"] = "fits"

\* What is still open is asked; a product its cap can never pay is refused; else a grant is created.
Match(d) ==
  LET r == dial[d].round IN
  /\ dial[d].stage = "matching"
  /\ \/ Cardinality(Named(r)) # 1 /\ Ask(d, "item") /\ End(d)
     \/ \E p \in Products :
          /\ Named(r) = {p}
          /\ \/ ~Fitting(r, p) /\ Ask(d, "size") /\ End(d)
             \/ /\ Fitting(r, p) /\ Price[p] > r.param.cap
                /\ Say(d, "bounds-too-low", NoGrant) /\ End(d) /\ UNCHANGED given
             \/ Fitting(r, p) /\ Price[p] <= r.param.cap /\ At(d, "creating") /\ UNCHANGED <<given, said>>
  /\ UNCHANGED <<expired, grants, kept, replies, dials>>

\* grants.create(): a pending grant for that product and nothing else.
Create(d) ==
  \E p \in Products :
    LET r == dial[d].round IN
    /\ dial[d].stage = "creating"
    /\ Named(r) = {p}
    /\ grants' = Append(grants, [product |-> p, sub |-> r.sub, param |-> r.param, status |-> "pending",
                                 approved |-> FALSE, redialed |-> r.awaiting])
    /\ dial' = [dial EXCEPT ![d].stage = "viewing", ![d].round.grant = Len(grants')]
    /\ UNCHANGED <<given, expired, kept, said, replies, dials>>

-----------------------------------------------------------------------------
(* Waiting for the human *)

\* Mutant: the grant is not carried into the next round.
AwaitForgetting(d) ==
  /\ dial[d].stage = "viewing"
  /\ given' = given \cup {[dial[d].round EXCEPT !.n = MaxRounds, !.asks = "approval", !.awaiting = TRUE,
                                              !.grant = NoGrant]}
  /\ Say(d, "awaiting-approval", dial[d].round.grant)
  /\ End(d)
  /\ UNCHANGED <<expired, grants, kept, replies, dials>>

\* awaitApproval(): the grant rides in the state (the rounds of waiting are not counted here).
Await(d) ==
  /\ dial[d].stage = "viewing"
  /\ given' = given \cup {[dial[d].round EXCEPT !.n = MaxRounds, !.asks = "approval", !.awaiting = TRUE]}
  /\ Say(d, "awaiting-approval", dial[d].round.grant)
  /\ End(d)
  /\ UNCHANGED <<expired, grants, kept, replies, dials>>

StatusOf(d) == grants[dial[d].round.grant].status
Known(d) == dial[d].round.grant >= kept

\* Mutant: the client's word is taken for the approval.
HeldTrusting(d) ==
  /\ dial[d].stage = "holding"
  /\ \/ ~dial[d].declined /\ Say(d, "authorized", dial[d].round.grant) /\ End(d)
     \/ dial[d].declined /\ Say(d, "declined", dial[d].round.grant) /\ End(d)
  /\ UNCHANGED <<given, expired, grants, kept, replies, dials>>

\* The held redial: the record is gone, or says it is decided, or the human declined here, or the time is up.
Held(d) ==
  /\ dial[d].stage = "holding"
  /\ \/ ~Known(d) /\ Say(d, "not-found", NoGrant) /\ End(d)
     \/ Known(d) /\ StatusOf(d) # "pending" /\ Say(d, StatusOf(d), dial[d].round.grant) /\ End(d)
     \/ /\ Known(d) /\ StatusOf(d) = "pending" /\ dial[d].declined
        /\ Say(d, "declined", dial[d].round.grant) /\ End(d)
     \/ Known(d) /\ StatusOf(d) = "pending" /\ ~dial[d].declined /\ At(d, "viewing") /\ UNCHANGED said
  /\ UNCHANGED <<given, expired, grants, kept, replies, dials>>

-----------------------------------------------------------------------------
(* The human, the clock, the process *)

\* The approve page: approved or denied while pending; revoked, unless denied.
Decide(g, status) ==
  /\ g \in kept..Len(grants)
  /\ IF status = "revoked" THEN grants[g].status \in {"pending", "authorized"}
                           ELSE grants[g].status = "pending"
  /\ grants' = [grants EXCEPT ![g].status = status, ![g].approved = @ \/ status = "authorized"]
  /\ UNCHANGED <<given, expired, dial, kept, said, replies, dials>>

Expire(state) ==
  /\ state \notin expired
  /\ expired' = expired \cup {state}
  /\ UNCHANGED <<given, dial, grants, kept, said, replies, dials>>

\* The calls under way are gone and so are the grants, and the states when their secret is not configured.
RestartRounds ==
  /\ dial' = [d \in Dialers |-> NoDial]
  /\ given' \in {given, {}}
  /\ kept' = Len(grants) + 1
  /\ UNCHANGED <<expired, grants, said, replies, dials>>

-----------------------------------------------------------------------------
DialStep(d) == Match(d) \/ Create(d) \/ Await(d) \/ Held(d)

RoundsNext ==
  \/ \E d \in Dialers :
       \/ \E sub \in Principals, param \in Params, state \in given \cup {NoState, Forged}, reply \in Replies :
            Dial(d, sub, param, state, reply)
       \/ DialStep(d)
  \/ \E g \in DOMAIN grants, status \in {"authorized", "denied", "revoked"} : Decide(g, status)
  \/ \E state \in given : Expire(state)
  \/ RestartRounds

RoundsSpec == RoundsInit /\ [][RoundsNext]_roundsVars

-----------------------------------------------------------------------------
(* Properties *)

\* A grant is minted for the one product the human's own words fit, or that the human named, in answer
\* to a question, from this session and under these bounds, as are its variants; never for one they cannot pay.
MintedAsNamed ==
  \A i \in DOMAIN grants :
    LET g == grants[i] IN
    /\ Price[g.product] <= g.param.cap
    /\ \/ Matches[g.param.words] = {g.product}
       \/ \E w \in Words : Matches[w] = {g.product} /\ <<g.sub, g.param, "item", w>> \in replies
    /\ \/ g.product \notin Sized \/ g.product \in Pinned[g.param.words]
       \/ \E w \in Words : g.product \in Pinned[w] /\ <<g.sub, g.param, "item", w>> \in replies
       \/ <<g.sub, g.param, "size", "fits">> \in replies

\* "Never mint a new grant while this one is pending": a redial with the state that came with a grant
\* never mints another, however often it is redialed, in whatever order, and from wherever.
RedialNeverMints == \A i \in DOMAIN grants : ~grants[i].redialed

\* A reply is a doorbell, not a credential: a call told "authorized" only of a grant the human has
\* approved at its page; told "denied" or "revoked" only of one that is.
ToldAsRecorded ==
  \A d \in Dialers :
    LET a == said[d] IN
    /\ a.code = "authorized" => grants[a.grant].approved
    /\ a.code \in {"denied", "revoked"} => grants[a.grant].status = a.code
=============================================================================
