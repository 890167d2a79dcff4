--------------------------- MODULE Orders_proofs ---------------------------
(***************************************************************************)
(* Proofs about the Orders facade and its webhooks, for any number of      *)
(* orders, gates, endpoints, policies remembered and attempts: no order is *)
(* completed without the declared gates its policy asks for, and no one    *)
(* acts on an order twice, or on one the store does not hold.              *)
(***************************************************************************)
EXTENDS Orders, FiniteSetTheorems, TLAPS

-----------------------------------------------------------------------------
(* The invariant *)

Answers == {"none", "2xx", "error"}
Errands == {"none", "due", "sent", "delivered", "reported", "lost"}
Posts == [id : Ids, to : Endpoints, attempt : Nat, fresh : BOOLEAN, answer : Answers]

\* The variables of Orders and of Webhooks that an argument below depends on.
OrdersTypes ==
  /\ registry \subseteq Gates
  /\ proven \in [Objects -> SUBSET Gates]
  /\ stage \in [Objects -> Stages]
  /\ completed \subseteq Objects
  /\ heard \in [Objects -> Nat]

WebhooksTypes ==
  /\ errand \in [Ids \X Endpoints -> Errands]
  /\ attempt \in [Ids \X Endpoints -> Nat]
  /\ posts \subseteq Posts
  /\ handled \in [Endpoints -> SUBSET Ids]
  /\ effects \in [Endpoints -> [Objects -> Nat]]

\* The declared gates that the policy of an order asks for and that apply to it.
Needed(o) == {g \in Policy[o] \cap Declared : o \in Applies[g]}

\* A restart loses the credentials the process met, never the declared ones; and an order past the gate
\* check has proved those of them it needs.
GatesHeld ==
  /\ Declared \subseteq registry
  /\ \A o \in Objects :
       stage[o] \in {"recording", "announcing", "settled"} \/ o \in completed
       => Needed(o) \subseteq proven[o]

\* An order is announced after it is recorded, and the listeners have heard of those that are settled.
HeardOnce ==
  \A o \in Objects :
    /\ stage[o] \in {"announcing", "settled"} => o \in completed
    /\ heard[o] = IF stage[o] = "settled" THEN 1 ELSE 0

\* Every event is about a settled order of its own.
EventsApart ==
  /\ \E n \in Nat : n <= MaxEvents /\ events \in [1..n -> Objects]
  /\ \A i \in DOMAIN events : stage[events[i]] = "settled"
  /\ \A i, j \in DOMAIN events : events[i] = events[j] => i = j

\* Nothing is sent or handled but the events created, and a receiver acted once on what each it handled is
\* about.
ActsAsHandled ==
  /\ \A i \in Ids, e \in Endpoints : errand[<<i, e>>] # "none" => i \in DOMAIN events
  /\ \A p \in posts : p.id \in DOMAIN events
  /\ \A e \in Endpoints :
       /\ handled[e] \subseteq DOMAIN events
       /\ \A o \in Objects : effects[e][o] = IF \E i \in handled[e] : events[i] = o THEN 1 ELSE 0

OrdersInv == OrdersTypes /\ WebhooksTypes /\ GatesHeld /\ HeardOnce /\ EventsApart /\ ActsAsHandled

-----------------------------------------------------------------------------
(* It holds initially *)

\* Nothing is created, sent or heard of yet (OrdersInit, WebhooksInit).
LEMMA OrdersStart == OrdersInit => OrdersInv
<1> SUFFICES ASSUME OrdersInit PROVE OrdersInv
  OBVIOUS
<1> USE PolicyAssumption, EndpointsAssumption, RetriesAssumption DEF OrdersInit, WebhooksInit
<1>1. OrdersTypes
  BY DEF OrdersTypes, Stages
<1>2. WebhooksTypes
  <2>1. errand \in [Ids \X Endpoints -> Errands] /\ attempt \in [Ids \X Endpoints -> Nat]
    BY DEF Errands
  <2> QED
    BY <2>1 DEF WebhooksTypes, Posts
<1>3. GatesHeld
  BY DEF GatesHeld
<1>4. HeardOnce
  BY DEF HeardOnce
<1>5. EventsApart
  <2>1. events \in [1..0 -> Objects] /\ 0 \in Nat /\ 0 <= MaxEvents
    OBVIOUS
  <2>2. DOMAIN events = {}
    OBVIOUS
  <2> QED
    BY <2>1, <2>2 DEF EventsApart
<1>6. ActsAsHandled
  <2>1. \A i \in Ids, e \in Endpoints : errand[<<i, e>>] = "none"
    OBVIOUS
  <2> QED
    BY <2>1 DEF ActsAsHandled
<1> QED
  BY <1>1, <1>2, <1>3, <1>4, <1>5, <1>6 DEF OrdersInv

-----------------------------------------------------------------------------
(* A step of the orders *)

\* The orders keep their types, whatever is done with them.
LEMMA OrdersTypesStep == OrdersInv /\ [OrdersNext]_ordersVars => OrdersTypes'
<1> SUFFICES ASSUME OrdersInv, [OrdersNext]_ordersVars PROVE OrdersTypes'
  OBVIOUS
<1> USE PolicyAssumption DEF OrdersTypes, Stages, OrdersInv, Goto
<1>1. ASSUME NEW o \in Objects, Create(o) PROVE OrdersTypes'
  BY <1>1 DEF Create, Resolve
<1>2. ASSUME NEW o \in Objects, RenderPage(o) PROVE OrdersTypes'
  BY <1>2 DEF RenderPage, Resolve
<1>3. ASSUME NEW o \in Objects, Complete(o) PROVE OrdersTypes'
  BY <1>3 DEF Complete
<1>4. ASSUME NEW o \in Objects, ServerStep(o) PROVE OrdersTypes'
  <2>1. CASE StoreCreated(o) \/ StoreCompleted(o) \/ StoreThrows(o)
    BY <2>1 DEF StoreCreated, StoreCompleted, StoreThrows
  <2>2. CASE Announce(o)
    BY <2>2 DEF Announce
  <2> QED
    BY <1>4, <2>1, <2>2 DEF ServerStep
<1>5. ASSUME NEW o \in Objects, NEW g \in Gates, Prove(o, g) PROVE OrdersTypes'
  BY <1>5 DEF Prove
<1>6. CASE Restart
  BY <1>6 DEF Restart
<1>7. CASE UNCHANGED orderVars
  BY <1>7 DEF orderVars
<1> QED
  BY <1>1, <1>2, <1>3, <1>4, <1>5, <1>6, <1>7 DEF OrdersNext, ordersVars, RegisterEndpoint, WebhookStep

\* An order that passes the gate check has proved the declared gates it needs: the registry holds
\* every declared gate, and whatever the client remembers, the scope never leaves out one of the
\* order's policy (policyCredentialIds).
LEMMA CheckedGates ==
  ASSUME OrdersInv, NEW o \in Objects, Complete(o)
  PROVE  Needed(o) \subseteq proven[o]
<1>1. Declared \subseteq registry /\ Policy[o] \subseteq Gates
  BY PolicyAssumption DEF OrdersInv, GatesHeld
<1>2. Policy[o] \subseteq Scope(o)
  BY <1>1 DEF Scope
<1> QED
  BY <1>1, <1>2 DEF Complete, Unproven, Needed

\* No gate proved is forgotten, no declared credential unregistered, and only a rail completes an order.
LEMMA GatesStep == OrdersInv /\ [OrdersNext]_ordersVars => GatesHeld'
<1> SUFFICES ASSUME OrdersInv, [OrdersNext]_ordersVars PROVE GatesHeld'
  OBVIOUS
<1> DEFINE Past(o) == stage[o] \in {"recording", "announcing", "settled"} \/ o \in completed
<1>1. Declared \subseteq registry'
  BY DEF OrdersInv, GatesHeld, OrdersNext, Create, RenderPage, Resolve, Complete, ServerStep, StoreCreated,
         StoreCompleted, StoreThrows, Announce, Prove, Restart, RegisterEndpoint, WebhookStep, ordersVars,
         orderVars
<1>2. \A o \in Objects : proven[o] \subseteq proven'[o]
  BY DEF OrdersInv, OrdersTypes, OrdersNext, Create, RenderPage, Complete, ServerStep, StoreCreated,
         StoreCompleted, StoreThrows, Announce, Prove, Restart, RegisterEndpoint, WebhookStep, ordersVars,
         orderVars
<1>3. ASSUME NEW o \in Objects, Past(o)' PROVE Past(o) \/ Complete(o)
  <2> USE DEF OrdersInv, OrdersTypes, Stages, Goto
  <2>1. ASSUME NEW q \in Objects, Create(q) \/ RenderPage(q) \/ ServerStep(q) PROVE Past(o)
    BY <1>3, <2>1 DEF Create, RenderPage, ServerStep, StoreCreated, StoreCompleted, StoreThrows, Announce
  <2>2. ASSUME NEW q \in Objects, Complete(q) PROVE Past(o) \/ Complete(o)
    <3>1. CASE q = o
      BY <2>2, <3>1
    <3>2. CASE q # o
      BY <1>3, <2>2, <3>2 DEF Complete
    <3> QED
      BY <3>1, <3>2
  <2>3. ASSUME NEW q \in Objects, NEW g \in Gates, Prove(q, g) PROVE Past(o)
    BY <1>3, <2>3 DEF Prove
  <2>4. CASE Restart
    BY <1>3, <2>4 DEF Restart
  <2>5. CASE UNCHANGED orderVars
    BY <1>3, <2>5 DEF orderVars
  <2> QED
    BY <2>1, <2>2, <2>3, <2>4, <2>5 DEF OrdersNext, ordersVars, RegisterEndpoint, WebhookStep
<1>4. ASSUME NEW o \in Objects, Past(o)' PROVE Needed(o) \subseteq proven'[o]
  <2>1. Needed(o) \subseteq proven[o]
    BY <1>3, <1>4, CheckedGates DEF OrdersInv, GatesHeld
  <2> QED
    BY <1>2, <2>1
<1> QED
  BY <1>1, <1>4 DEF GatesHeld, Needed

\* A settled order stays settled, and only the announcement settles one.
LEMMA SettledStays ==
  ASSUME OrdersInv, [OrdersNext]_ordersVars, NEW o \in Objects
  PROVE  /\ stage[o] = "settled" => stage'[o] = "settled"
         /\ stage'[o] = "settled" => stage[o] = "settled" \/ Announce(o)
<1> USE DEF OrdersInv, OrdersTypes, Stages, Goto
<1>1. ASSUME NEW q \in Objects, Create(q) \/ RenderPage(q) \/ Complete(q) \/ ServerStep(q)
      PROVE  /\ stage[o] = "settled" => stage'[o] = "settled"
             /\ stage'[o] = "settled" => stage[o] = "settled" \/ Announce(o)
  BY <1>1 DEF Create, RenderPage, Complete, ServerStep, StoreCreated, StoreCompleted, StoreThrows, Announce
<1>2. CASE Restart
  BY <1>2 DEF Restart
<1>3. ASSUME NEW q \in Objects, NEW g \in Gates, Prove(q, g) PROVE stage' = stage
  BY <1>3 DEF Prove
<1>4. CASE UNCHANGED orderVars
  BY <1>4 DEF orderVars
<1> QED
  BY <1>1, <1>2, <1>3, <1>4 DEF OrdersNext, ordersVars, RegisterEndpoint, WebhookStep

\* An order is announced once, after it is recorded: what a restart cuts off between the two is open
\* again, and completed.
LEMMA HeardStep == OrdersInv /\ [OrdersNext]_ordersVars => HeardOnce'
<1> SUFFICES ASSUME OrdersInv, [OrdersNext]_ordersVars, NEW o \in Objects
             PROVE  /\ stage'[o] \in {"announcing", "settled"} => o \in completed'
                    /\ heard'[o] = IF stage'[o] = "settled" THEN 1 ELSE 0
  BY DEF HeardOnce
<1> USE DEF OrdersInv, OrdersTypes, Stages, HeardOnce, Goto
<1>1. ASSUME NEW q \in Objects, Create(q) \/ RenderPage(q) \/ Complete(q)
      PROVE  /\ stage'[o] \in {"announcing", "settled"} => o \in completed'
             /\ heard'[o] = IF stage'[o] = "settled" THEN 1 ELSE 0
  BY <1>1 DEF Create, RenderPage, Complete
<1>2. ASSUME NEW q \in Objects, ServerStep(q)
      PROVE  /\ stage'[o] \in {"announcing", "settled"} => o \in completed'
             /\ heard'[o] = IF stage'[o] = "settled" THEN 1 ELSE 0
  <2>1. CASE StoreCreated(q) \/ StoreCompleted(q) \/ StoreThrows(q)
    BY <2>1 DEF StoreCreated, StoreCompleted, StoreThrows
  <2>2. CASE Announce(q)
    BY <2>2 DEF Announce
  <2> QED
    BY <1>2, <2>1, <2>2 DEF ServerStep
<1>3. ASSUME NEW q \in Objects, NEW g \in Gates, Prove(q, g)
      PROVE stage' = stage /\ completed' = completed /\ heard' = heard
  BY <1>3 DEF Prove
<1>4. CASE Restart
  BY <1>4 DEF Restart
<1>5. CASE UNCHANGED orderVars
  BY <1>5 DEF orderVars
<1> QED
  BY <1>1, <1>2, <1>3, <1>4, <1>5 DEF OrdersNext, ordersVars, RegisterEndpoint, WebhookStep

-----------------------------------------------------------------------------
(* A step of the webhooks *)

\* What Deliver adds: the next id, about the order announced, and errands for it alone.
LEMMA EventAdded ==
  ASSUME OrdersInv, NEW o \in Objects, Deliver(o)
  PROVE  \E n \in Nat :
           /\ n + 1 \in Ids
           /\ events \in [1..n -> Objects] /\ events' \in [1..(n + 1) -> Objects]
           /\ events'[n + 1] = o
           /\ \A i \in 1..n : events'[i] = events[i]
           /\ \A i \in Ids, e \in Endpoints : errand'[<<i, e>>] = errand[<<i, e>>] \/ i = n + 1
<1>1. PICK n \in Nat : n <= MaxEvents /\ events \in [1..n -> Objects]
  BY DEF OrdersInv, EventsApart
<1>2. Cardinality(DOMAIN events) = n
  BY <1>1, FS_Interval
<1>3. n + 1 \in Ids /\ events' = [i \in 1..(n + 1) |-> IF i = n + 1 THEN o ELSE events[i]]
  BY <1>1, <1>2 DEF Deliver
<1>4. \A i \in Ids, e \in Endpoints : errand'[<<i, e>>] = errand[<<i, e>>] \/ i = n + 1
  <2>1. errand' = [d \in Ids \X Endpoints |->
                     IF d[1] = n + 1 /\ d[2] \in endpoints \cap Subscribed THEN "due" ELSE errand[d]]
    BY <1>2 DEF Deliver
  <2> QED
    BY <2>1
<1> QED
  BY <1>1, <1>3, <1>4

\* The announcement of an order that was not settled is an event no receiver has handled.
LEMMA AnnounceStep ==
  ASSUME OrdersInv, NEW o \in Objects, Announce(o)
  PROVE  WebhooksTypes' /\ EventsApart' /\ ActsAsHandled'
<1>1. PICK n \in Nat :
        /\ n + 1 \in Ids
        /\ events \in [1..n -> Objects] /\ events' \in [1..(n + 1) -> Objects]
        /\ events'[n + 1] = o
        /\ \A i \in 1..n : events'[i] = events[i]
        /\ \A i \in Ids, e \in Endpoints : errand'[<<i, e>>] = errand[<<i, e>>] \/ i = n + 1
  BY EventAdded DEF Announce
<1>2. /\ stage[o] = "announcing" /\ stage'[o] = "settled"
      /\ \A q \in Objects : stage[q] = "settled" => stage'[q] = "settled"
      /\ UNCHANGED <<attempt, posts, handled, effects>>
  BY DEF OrdersInv, OrdersTypes, Announce, Goto, Deliver
<1>3. DOMAIN events = 1..n /\ DOMAIN events' = 1..(n + 1) /\ n + 1 <= MaxEvents
  BY <1>1, RetriesAssumption DEF Ids
<1>4. WebhooksTypes'
  <2>1. errand' \in [Ids \X Endpoints -> Errands]
    BY DEF Announce, Deliver, OrdersInv, WebhooksTypes, Errands
  <2> QED
    BY <1>2, <2>1 DEF OrdersInv, WebhooksTypes
<1>5. EventsApart'
  <2>1. \A i \in 1..n : events[i] # o
    BY <1>2, <1>3 DEF OrdersInv, EventsApart
  <2>2. \A i \in DOMAIN events' : stage'[events'[i]] = "settled"
    BY <1>1, <1>2, <1>3 DEF OrdersInv, EventsApart
  <2>3. \A i, j \in DOMAIN events' : events'[i] = events'[j] => i = j
    BY <1>1, <1>3, <2>1 DEF OrdersInv, EventsApart
  <2> QED
    BY <1>1, <1>3, <2>2, <2>3 DEF EventsApart
<1>6. ActsAsHandled'
  <2>1. \A i \in Ids, e \in Endpoints : errand'[<<i, e>>] # "none" => i \in DOMAIN events'
    BY <1>1, <1>3 DEF OrdersInv, ActsAsHandled
  <2>2. \A p \in posts' : p.id \in DOMAIN events'
    BY <1>2, <1>3 DEF OrdersInv, ActsAsHandled
  <2>3. ASSUME NEW e \in Endpoints
        PROVE  /\ handled'[e] \subseteq DOMAIN events'
               /\ \A q \in Objects : effects'[e][q] = IF \E i \in handled'[e] : events'[i] = q THEN 1 ELSE 0
    <3>1. handled'[e] \subseteq 1..n /\ handled'[e] = handled[e] /\ effects'[e] = effects[e]
      BY <1>2, <1>3 DEF OrdersInv, ActsAsHandled
    <3>2. \A i \in handled'[e] : events'[i] = events[i]
      BY <1>1, <3>1
    <3> QED
      BY <1>3, <3>1, <3>2 DEF OrdersInv, ActsAsHandled
  <2> QED
    BY <2>1, <2>2, <2>3 DEF ActsAsHandled
<1> QED
  BY <1>4, <1>5, <1>6

\* A receiver that has handled no event about the object of this one has not acted on it yet.
LEMMA HandleStep ==
  ASSUME OrdersInv, NEW p \in posts, Handle(p), UNCHANGED <<events, errand, attempt>>, posts' \subseteq Posts,
         \A q \in posts' : q.id \in DOMAIN events
  PROVE  WebhooksTypes' /\ ActsAsHandled'
<1> DEFINE thing == events[p.id]
<1>1. p.to \in Endpoints /\ p.id \in Ids /\ p.id \in DOMAIN events /\ thing \in Objects
  BY DEF OrdersInv, WebhooksTypes, Posts, ActsAsHandled, EventsApart
<1>2. /\ handled' = [handled EXCEPT ![p.to] = @ \cup {p.id}]
      /\ effects' = IF p.id \in handled[p.to] THEN effects ELSE [effects EXCEPT ![p.to][thing] = @ + 1]
  BY DEF Handle
<1>3. handled \in [Endpoints -> SUBSET Ids] /\ effects \in [Endpoints -> [Objects -> Nat]]
  BY DEF OrdersInv, WebhooksTypes
<1>4. \A i, j \in DOMAIN events : events[i] = events[j] => i = j
  BY DEF OrdersInv, EventsApart
<1>5. \A e \in Endpoints :
        /\ handled[e] \subseteq DOMAIN events
        /\ \A o \in Objects : effects[e][o] = IF \E i \in handled[e] : events[i] = o THEN 1 ELSE 0
  BY DEF OrdersInv, ActsAsHandled
<1> HIDE DEF thing
<1>6. handled' \in [Endpoints -> SUBSET Ids] /\ effects' \in [Endpoints -> [Objects -> Nat]]
  <2>1. CASE p.id \in handled[p.to]
    BY <1>1, <1>2, <1>3, <2>1
  <2>2. CASE p.id \notin handled[p.to]
    BY <1>1, <1>2, <1>3, <2>2
  <2> QED
    BY <2>1, <2>2
<1>7. ASSUME NEW e \in Endpoints
      PROVE  /\ handled'[e] \subseteq DOMAIN events
             /\ \A o \in Objects : effects'[e][o] = IF \E i \in handled'[e] : events[i] = o THEN 1 ELSE 0
  <2>1. CASE e # p.to \/ p.id \in handled[p.to]
    <3>1. handled'[e] = handled[e] /\ effects'[e] = effects[e]
      BY <1>1, <1>2, <1>3, <2>1
    <3> QED
      BY <1>5, <3>1
  <2>2. CASE e = p.to /\ p.id \notin handled[p.to]
    <3>1. handled'[e] = handled[e] \cup {p.id} /\ effects'[e] = [effects[e] EXCEPT ![thing] = @ + 1]
      BY <1>1, <1>2, <1>3, <2>2
    <3>2. \A i \in handled[e] : events[i] # thing
      BY <1>1, <1>4, <1>5, <2>2 DEF thing
    <3>3. effects[e][thing] = 0 /\ effects[e] \in [Objects -> Nat]
      BY <1>1, <1>3, <1>5, <3>2
    <3>4. \A o \in Objects : effects'[e][o] = IF o = thing THEN 1 ELSE effects[e][o]
      BY <3>1, <3>3
    <3> QED
      BY <1>1, <1>5, <3>1, <3>2, <3>4 DEF thing
  <2> QED
    BY <2>1, <2>2
<1> QED
  BY <1>6, <1>7 DEF OrdersInv, WebhooksTypes, ActsAsHandled

\* The sender, the network and a receiver that refuses create no event and act on nothing.
LEMMA SenderFrame ==
  ASSUME OrdersInv, UNCHANGED <<events, handled, effects>>,
         errand' \in [Ids \X Endpoints -> Errands], attempt' \in [Ids \X Endpoints -> Nat],
         posts' \subseteq Posts, \A q \in posts' : q.id \in DOMAIN events,
         \A i \in Ids, e \in Endpoints : errand'[<<i, e>>] # "none" => i \in DOMAIN events
  PROVE  WebhooksTypes' /\ ActsAsHandled'
BY DEF OrdersInv, WebhooksTypes, ActsAsHandled

\* An attempt that failed is retried or reported, for its own errand (deliverTo).
LEMMA RetryStep ==
  ASSUME OrdersInv, NEW i \in Ids, NEW e \in Endpoints, errand[<<i, e>>] = "sent", Retry(i, e)
  PROVE  /\ errand' \in [Ids \X Endpoints -> Errands] /\ attempt' \in [Ids \X Endpoints -> Nat]
         /\ \A j \in Ids, f \in Endpoints : errand'[<<j, f>>] # "none" => errand[<<j, f>>] # "none"
<1> USE DEF OrdersInv, WebhooksTypes, Errands
<1>1. <<i, e>> \in Ids \X Endpoints
  OBVIOUS
<1>2. CASE errand' = [errand EXCEPT ![<<i, e>>] = "due"] /\ attempt' = [attempt EXCEPT ![<<i, e>>] = @ + 1]
  <2>1. attempt' \in [Ids \X Endpoints -> Nat]
    BY <1>1, <1>2
  <2>2. errand' \in [Ids \X Endpoints -> Errands]
    BY <1>1, <1>2
  <2> QED
    BY <1>1, <1>2, <2>1, <2>2
<1>3. CASE errand' = [errand EXCEPT ![<<i, e>>] = "reported"] /\ UNCHANGED attempt
  BY <1>1, <1>3
<1> QED
  BY <1>2, <1>3 DEF Retry

\* The sender posts what is due and gives up what was sent; no errand comes out of nothing.
LEMMA SenderStepKeeps ==
  ASSUME OrdersInv, NEW i \in Ids, NEW e \in Endpoints, SenderStep(i, e)
  PROVE  WebhooksTypes' /\ ActsAsHandled'
<1> USE DEF OrdersInv, WebhooksTypes, Errands
<1>1. <<i, e>> \in Ids \X Endpoints /\ posts \subseteq Posts /\ \A p \in posts : p.id \in DOMAIN events
  BY DEF ActsAsHandled
<1>2. CASE Send(i, e)
  <2>1. errand[<<i, e>>] = "due" /\ i \in DOMAIN events
    BY <1>2 DEF Send, ActsAsHandled
  <2> DEFINE post == [id |-> i, to |-> e, attempt |-> attempt[<<i, e>>], fresh |-> TRUE, answer |-> "none"]
  <2>2. post \in Posts /\ post.id = i
    BY <1>1 DEF Posts, Answers
  <2>3. posts' = posts \cup {post}
    BY <1>2 DEF Send
  <2> HIDE DEF post
  <2>4. posts' \subseteq Posts /\ \A q \in posts' : q.id \in DOMAIN events
    BY <1>1, <2>1, <2>2, <2>3
  <2>5. /\ errand' \in [Ids \X Endpoints -> Errands]
        /\ \A j \in Ids, f \in Endpoints : errand'[<<j, f>>] # "none" => errand[<<j, f>>] # "none"
    BY <1>1, <1>2 DEF Send
  <2> QED
    BY <1>2, <2>4, <2>5, SenderFrame DEF Send, ActsAsHandled
<1>3. CASE Answered(i, e)
  <2>1. PICK p \in Awaited(i, e) :
          /\ errand[<<i, e>>] = "sent"
          /\ posts' = posts \ {p}
          /\ \/ errand' = [errand EXCEPT ![<<i, e>>] = "delivered"] /\ UNCHANGED attempt
             \/ Retry(i, e)
          /\ UNCHANGED <<events, handled, effects>>
    BY <1>3 DEF Answered
  <2>2. posts' \subseteq Posts /\ \A q \in posts' : q.id \in DOMAIN events
    BY <1>1, <2>1
  <2>3. /\ errand' \in [Ids \X Endpoints -> Errands] /\ attempt' \in [Ids \X Endpoints -> Nat]
        /\ \A j \in Ids, f \in Endpoints : errand'[<<j, f>>] # "none" => errand[<<j, f>>] # "none"
    <3>1. CASE errand' = [errand EXCEPT ![<<i, e>>] = "delivered"] /\ UNCHANGED attempt
      BY <1>1, <2>1, <3>1
    <3>2. CASE Retry(i, e)
      BY <2>1, <3>2, RetryStep
    <3> QED
      BY <2>1, <3>1, <3>2
  <2> QED
    BY <2>1, <2>2, <2>3, SenderFrame DEF ActsAsHandled
<1>4. CASE TimesOut(i, e)
  <2>1. posts' \subseteq Posts /\ \A q \in posts' : q.id \in DOMAIN events
    BY <1>1, <1>4 DEF TimesOut
  <2>2. /\ errand' \in [Ids \X Endpoints -> Errands] /\ attempt' \in [Ids \X Endpoints -> Nat]
        /\ \A j \in Ids, f \in Endpoints : errand'[<<j, f>>] # "none" => errand[<<j, f>>] # "none"
    BY <1>4, RetryStep DEF TimesOut
  <2> QED
    BY <1>4, <2>1, <2>2, SenderFrame DEF TimesOut, ActsAsHandled
<1> QED
  BY <1>2, <1>3, <1>4 DEF SenderStep

\* A post goes stale or arrives: it keeps its event, and is handled only as HandleStep has it.
LEMMA NetworkStepKeeps ==
  ASSUME OrdersInv, NEW p \in posts, GoStale(p) \/ Arrive(p)
  PROVE  WebhooksTypes' /\ ActsAsHandled'
<1>1. p \in Posts /\ posts \subseteq Posts /\ \A q \in posts : q.id \in DOMAIN events
  BY DEF OrdersInv, WebhooksTypes, ActsAsHandled
<1>2. /\ [p EXCEPT !.fresh = FALSE] \in Posts
      /\ [p EXCEPT !.fresh = FALSE].id = p.id
  BY <1>1 DEF Posts
<1>3. \A a \in Answers : [p EXCEPT !.answer = a] \in Posts /\ [p EXCEPT !.answer = a].id = p.id
  BY <1>1 DEF Posts
<1>4. posts' \subseteq Posts /\ \A q \in posts' : q.id \in DOMAIN events
  <2>1. CASE posts' = (posts \ {p}) \cup {[p EXCEPT !.fresh = FALSE]}
    BY <1>1, <1>2, <2>1
  <2>2. ASSUME NEW a \in Answers, posts' = (posts \ {p}) \cup {[p EXCEPT !.answer = a]}
        PROVE  posts' \subseteq Posts /\ \A q \in posts' : q.id \in DOMAIN events
    BY <1>1, <1>3, <2>2
  <2> QED
    BY <2>1, <2>2 DEF GoStale, Arrive, Reply, Answers
<1>5. UNCHANGED <<events, errand, attempt>> /\ (Handle(p) \/ UNCHANGED <<handled, effects>>)
  BY DEF GoStale, Arrive
<1>6. CASE Handle(p)
  BY <1>4, <1>5, <1>6, HandleStep
<1>7. CASE UNCHANGED <<handled, effects>>
  <2>1. /\ errand' \in [Ids \X Endpoints -> Errands] /\ attempt' \in [Ids \X Endpoints -> Nat]
        /\ \A j \in Ids, f \in Endpoints : errand'[<<j, f>>] # "none" => j \in DOMAIN events
    BY <1>5 DEF OrdersInv, WebhooksTypes, ActsAsHandled
  <2> QED
    BY <1>4, <1>5, <1>7, <2>1, SenderFrame
<1> QED
  BY <1>5, <1>6, <1>7

\* A restart drops the deliveries under way and what was answered of them.
LEMMA StopKeeps ==
  ASSUME OrdersInv, StopDeliveries
  PROVE  WebhooksTypes' /\ ActsAsHandled'
<1>1. /\ errand' \in [Ids \X Endpoints -> Errands]
      /\ \A j \in Ids, f \in Endpoints : errand'[<<j, f>>] # "none" => errand[<<j, f>>] # "none"
  BY DEF StopDeliveries, OrdersInv, WebhooksTypes, Errands
<1>2. posts' \subseteq Posts /\ \A q \in posts' : q.id \in DOMAIN events
  BY DEF StopDeliveries, OrdersInv, WebhooksTypes, ActsAsHandled
<1>3. UNCHANGED <<events, handled, effects>> /\ attempt' \in [Ids \X Endpoints -> Nat]
  BY DEF StopDeliveries, OrdersInv, WebhooksTypes
<1> QED
  BY <1>1, <1>2, <1>3, SenderFrame DEF OrdersInv, ActsAsHandled

-----------------------------------------------------------------------------
(* The theorems *)

\* Orders and webhooks together: every step of either keeps what the other's half relies on.
LEMMA OrdersInductive == OrdersInv /\ [OrdersNext]_ordersVars => OrdersInv'
<1> SUFFICES ASSUME OrdersInv, [OrdersNext]_ordersVars PROVE WebhooksTypes' /\ EventsApart' /\ ActsAsHandled'
  BY OrdersTypesStep, GatesStep, HeardStep DEF OrdersInv
<1>1. CASE \E o \in Objects : Announce(o)
  BY <1>1, AnnounceStep
<1>2. ASSUME ~\E o \in Objects : Announce(o)
      PROVE  WebhooksTypes' /\ ActsAsHandled' /\ UNCHANGED events
  <2>1. CASE UNCHANGED <<events, errand, attempt, posts, handled, effects>>
    BY <2>1 DEF OrdersInv, WebhooksTypes, ActsAsHandled
  <2>2. CASE Restart
    BY <2>2, StopKeeps DEF Restart, StopDeliveries
  <2>3. CASE WebhookStep
    <3>1. CASE NetworkStep
      BY <3>1, NetworkStepKeeps DEF NetworkStep, GoStale, Arrive
    <3>2. CASE \E i \in Ids, e \in Endpoints : SenderStep(i, e)
      BY <3>2, SenderStepKeeps DEF SenderStep, Send, Answered, TimesOut
    <3> QED
      BY <2>3, <3>1, <3>2 DEF WebhookStep, WebhooksStep
  <2>4. CASE \E e \in Endpoints : RegisterEndpoint(e)
    BY <2>1, <2>4 DEF RegisterEndpoint, Register
  <2>5. ASSUME NEW o \in Objects, Create(o) \/ RenderPage(o) \/ Complete(o) \/ ServerStep(o)
        PROVE  UNCHANGED webhookVars
    BY <1>2, <2>5 DEF Create, RenderPage, Complete, ServerStep, StoreCreated, StoreCompleted, StoreThrows
  <2>6. ASSUME NEW o \in Objects, NEW g \in Gates, Prove(o, g) PROVE UNCHANGED webhookVars
    BY <2>6 DEF Prove
  <2> QED
    BY <2>1, <2>2, <2>3, <2>4, <2>5, <2>6 DEF OrdersNext, ordersVars, webhookVars
<1>3. ASSUME UNCHANGED events PROVE EventsApart'
  <2>1. \A i \in DOMAIN events : events[i] \in Objects
    BY DEF OrdersInv, EventsApart
  <2>2. \A i \in DOMAIN events : stage'[events[i]] = "settled"
    BY <2>1, SettledStays DEF OrdersInv, EventsApart
  <2> QED
    BY <1>3, <2>2 DEF OrdersInv, EventsApart
<1> QED
  BY <1>1, <1>2, <1>3

\* The inductive invariant of orders.ts and webhooks.ts, whatever is restarted, retried or lost.
THEOREM OrdersInvariant == OrdersSpec => []OrdersInv
<1>1. OrdersInit => OrdersInv
  BY OrdersStart
<1>2. OrdersInv /\ [OrdersNext]_ordersVars => OrdersInv'
  BY OrdersInductive
<1> QED
  BY <1>1, <1>2, PTL DEF OrdersSpec

\* No order is completed without the declared gates its policy asks for, whatever the client has
\* forgotten of it (rememberOrderPolicy, policyCredentialIds, hasUnprovenCustomGate).
THEOREM EvictionOpensNothing == OrdersSpec => []EvictionNeverOpens
<1>1. OrdersInv => EvictionNeverOpens
  BY DEF OrdersInv, OrdersTypes, GatesHeld, Needed, EvictionNeverOpens
<1> QED
  BY <1>1, OrdersInvariant, PTL

\* The listeners and every receiver act on an order at most once, and only on one the store holds
\* (_complete, deliver, verifyEvent).
THEOREM AlwaysActedOnOnce == OrdersSpec => []ActedOnOnce
<1>1. OrdersInv => ActedOnOnce
  <2> SUFFICES ASSUME OrdersInv, NEW o \in Objects
               PROVE  LET most == IF o \in completed THEN 1 ELSE 0 IN
                      heard[o] <= most /\ \A e \in Endpoints : effects[e][o] <= most
    BY DEF ActedOnOnce
  <2>1. heard[o] <= IF o \in completed THEN 1 ELSE 0
    BY DEF OrdersInv, HeardOnce
  <2>2. ASSUME NEW e \in Endpoints PROVE effects[e][o] <= IF o \in completed THEN 1 ELSE 0
    <3>1. effects[e][o] = IF \E i \in handled[e] : events[i] = o THEN 1 ELSE 0
      BY DEF OrdersInv, ActsAsHandled
    <3>2. ASSUME NEW i \in handled[e], events[i] = o PROVE o \in completed
      BY <3>2 DEF OrdersInv, ActsAsHandled, EventsApart, HeardOnce
    <3> QED
      BY <3>1, <3>2
  <2> QED
    BY <2>1, <2>2
<1> QED
  BY <1>1, OrdersInvariant, PTL
=============================================================================
