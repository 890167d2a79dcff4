------------------------------ MODULE Webhooks ------------------------------
(***************************************************************************)
(* The outbound webhooks (webhooks.ts): an event is fanned out to every    *)
(* endpoint subscribed at that moment, each attempt signed again at its    *)
(* own time, bounded by a timeout and retried after a back-off, until one  *)
(* is answered 2xx or the attempts are used up and the failure reported.   *)
(*                                                                         *)
(* A post is a message: it may never arrive, be refused, be handled and    *)
(* its answer lost, or arrive after the sender gave it up.  The receiver   *)
(* is the other service: it verifies with verifyEvent and drops an event   *)
(* id it has handled, as the header of the file asks of it.                *)
(*                                                                         *)
(*   errand: none -> due -> sent -> delivered                              *)
(*                     ^------' \-> reported         (lost: a restart)     *)
(***************************************************************************)
EXTENDS Integers, FiniteSets

CONSTANTS
  Endpoints,   \* the URLs a receiver listens on
  Static,      \* the ones given to the constructor
  Subscribed,  \* the ones whose filter lets order.settled through
  Keyholders,  \* the receivers that hold their endpoint's secret
  Objects,     \* what an event is about
  Retries,     \* WebhookOptions.retries
  MaxEvents    \* bound: the events the runs deliver

ASSUME EndpointsAssumption ==
  /\ Static \subseteq Endpoints /\ Subscribed \subseteq Endpoints /\ Keyholders \subseteq Endpoints
ASSUME RetriesAssumption == Retries \in Nat /\ MaxEvents \in Nat

VARIABLES
  endpoints,  \* this.endpoints
  events,     \* the events created: what each id is about
  errand,     \* deliverTo: where the delivery of an event to an endpoint stands
  attempt,    \* the attempt it is at, counted from 0
  posts,      \* the posts under way
  handled,    \* the event ids each receiver has handled
  effects     \* how often each receiver acted on each object

webhookVars == <<endpoints, events, errand, attempt, posts, handled, effects>>

Ids == 1..MaxEvents
WebhooksInit ==
  /\ endpoints = Static
  /\ events = [i \in {} |-> 0]
  /\ errand = [d \in Ids \X Endpoints |-> "none"]
  /\ attempt = [d \in Ids \X Endpoints |-> 0]
  /\ posts = {}
  /\ handled = [e \in Endpoints |-> {}]
  /\ effects = [e \in Endpoints |-> [o \in Objects |-> 0]]

-----------------------------------------------------------------------------
(* The sender *)

\* register() mutates this instance only.
Register(e) ==
  /\ endpoints' = endpoints \cup {e}
  /\ UNCHANGED <<events, errand, attempt, posts, handled, effects>>

\* deliver(): one event, one id, for every endpoint subscribed now.
Deliver(object) ==
  LET id == Cardinality(DOMAIN events) + 1 IN
  /\ id \in Ids
  /\ events' = [i \in 1..id |-> IF i = id THEN object ELSE events[i]]
  /\ errand' = [d \in Ids \X Endpoints |->
                  IF d[1] = id /\ d[2] \in endpoints \cap Subscribed THEN "due" ELSE errand[d]]
  /\ UNCHANGED <<endpoints, attempt, posts, handled, effects>>

\* One attempt, signed with the time it is made at.
Send(i, e) ==
  /\ errand[<<i, e>>] = "due"
  /\ posts' = posts \cup
       {[id |-> i, to |-> e, attempt |-> attempt[<<i, e>>], fresh |-> TRUE, answer |-> "none"]}
  /\ errand' = [errand EXCEPT ![<<i, e>>] = "sent"]
  /\ UNCHANGED <<endpoints, events, attempt, handled, effects>>

\* Mutant: an attempt that failed is always made again.
RetryForever(i, e) ==
  errand' = [errand EXCEPT ![<<i, e>>] = "due"] /\ attempt' = [attempt EXCEPT ![<<i, e>>] = (@ + 1) % 2]

\* After a failed attempt: back off and try again, or report it as given up.
Retry(i, e) ==
  \/ /\ attempt[<<i, e>>] < Retries
     /\ errand' = [errand EXCEPT ![<<i, e>>] = "due"]
     /\ attempt' = [attempt EXCEPT ![<<i, e>>] = @ + 1]
  \/ /\ attempt[<<i, e>>] = Retries
     /\ errand' = [errand EXCEPT ![<<i, e>>] = "reported"]
     /\ UNCHANGED attempt

Awaited(i, e) == {p \in posts : p.id = i /\ p.to = e /\ p.attempt = attempt[<<i, e>>]}

\* The receiver's answer is back: only a 2xx is a delivery, a redirect is not followed.
Answered(i, e) ==
  \E p \in Awaited(i, e) :
    /\ errand[<<i, e>>] = "sent"
    /\ p.answer # "none"
    /\ posts' = posts \ {p}
    /\ \/ p.answer = "2xx" /\ errand' = [errand EXCEPT ![<<i, e>>] = "delivered"] /\ UNCHANGED attempt
       \/ p.answer = "error" /\ Retry(i, e)
    /\ UNCHANGED <<endpoints, events, handled, effects>>

\* The attempt times out or its connection fails; the post may reach the receiver all the same.
TimesOut(i, e) ==
  /\ errand[<<i, e>>] = "sent"
  /\ Retry(i, e)
  /\ posts' = posts \ {p \in Awaited(i, e) : p.answer # "none"}
  /\ UNCHANGED <<endpoints, events, handled, effects>>

\* The process restarts: deliveries under way are gone, and so are the endpoints it registered.
StopDeliveries ==
  /\ endpoints' = Static
  /\ errand' = [d \in DOMAIN errand |-> IF errand[d] \in {"due", "sent"} THEN "lost" ELSE errand[d]]
  /\ posts' = {p \in posts : p.answer = "none"}
  /\ UNCHANGED <<events, attempt, handled, effects>>

-----------------------------------------------------------------------------
(* The network and the receiver *)

\* A post under way outlives the receiver's replay window.
GoStale(p) ==
  /\ p.answer = "none" /\ p.fresh
  /\ posts' = (posts \ {p}) \cup {[p EXCEPT !.fresh = FALSE]}
  /\ UNCHANGED <<endpoints, events, errand, attempt, handled, effects>>

\* verifyEvent: the secret first, then the age of the time it covers.
VerifyEvent(p) ==
  IF p.to \notin Keyholders THEN "no-match" ELSE IF ~p.fresh THEN "timestamp" ELSE "ok"

Reply(p, a) == posts' = (posts \ {p}) \cup {[p EXCEPT !.answer = a]}

\* The receiver acts on an event it has not handled.
Handle(p) ==
  /\ handled' = [handled EXCEPT ![p.to] = @ \cup {p.id}]
  /\ effects' = IF p.id \in handled[p.to] THEN effects
                ELSE [effects EXCEPT ![p.to][events[p.id]] = @ + 1]

\* The receiver refuses, handles and answers (perhaps with an error after all), or only errors.
Arrive(p) ==
  /\ p.answer = "none"
  /\ \/ VerifyEvent(p) # "ok" /\ Reply(p, "error") /\ UNCHANGED <<handled, effects>>
     \/ VerifyEvent(p) = "ok" /\ Handle(p) /\ \E a \in {"2xx", "error"} : Reply(p, a)
     \/ VerifyEvent(p) = "ok" /\ Reply(p, "error") /\ UNCHANGED <<handled, effects>>
  /\ UNCHANGED <<endpoints, events, errand, attempt>>

-----------------------------------------------------------------------------
SenderStep(i, e) == Send(i, e) \/ Answered(i, e) \/ TimesOut(i, e)
NetworkStep == \E p \in posts : GoStale(p) \/ Arrive(p)
WebhooksStep == NetworkStep \/ \E i \in Ids, e \in Endpoints : SenderStep(i, e)

-----------------------------------------------------------------------------
(* Properties *)

\* The delivery promise never stays pending: unless the process stops, every errand ends delivered
\* or reported, whatever the receiver does, and a receiver that never answers included.
DeliveredOrReported ==
  \A i \in Ids, e \in Endpoints :
    errand[<<i, e>>] = "due" ~> errand[<<i, e>>] \in {"delivered", "reported", "lost"}
=============================================================================
