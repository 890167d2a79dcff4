------------------------------- MODULE Orders -------------------------------
(***************************************************************************)
(* The Orders facade of one CredentAgent: several orders, each created     *)
(* with a policy of its own, completed through the rails, recorded and     *)
(* announced (orders.ts), and the client's memory of policies that says    *)
(* which custom gates an order must have proved (client.ts, completion.ts).*)
(*                                                                         *)
(* The stores are shared and survive a restart.  The registry of           *)
(* credentials, the policies remembered (a bounded map, the oldest evicted *)
(* first), the listeners and the webhook deliveries live in the process.   *)
(* An order is completed on the host's mount, whose rails only know what   *)
(* the client remembers, or by orders.serve, which reads the stored policy.*)
(*                                                                         *)
(*   order: new -> creating -> open -> recording -> announcing -> settled  *)
(*                                 ^------'   a refusal, a throw, a restart *)
(***************************************************************************)
EXTENDS Webhooks, Sequences, SequencesExt

CONSTANTS
  Gates,        \* the ids of custom credentials
  Declared,     \* the ones given to the constructor
  Policy,       \* the custom gates each order's policy asks for
  MaxPolicies,  \* MAX in rememberOrderPolicy
  Applies       \* Applies[g]: the orders whose lines the gate's appliesTo accepts

ASSUME PolicyAssumption ==
  /\ Declared \subseteq Gates
  /\ Policy \in [Objects -> SUBSET Gates]
  /\ Applies \in [Gates -> SUBSET Objects]
ASSUME MaxPoliciesAssumption == MaxPolicies \in Nat \ {0}

VARIABLES
  served,      \* the orders are completed by orders.serve, not on the host's mount
  registry,    \* the custom credentials the process has met
  remembered,  \* orderPolicies: the orders whose policy it remembers, the oldest first
  stage,       \* where each order stands
  proven,      \* the gates recorded as proved for it
  completed,   \* the orders in the completed store
  heard        \* how often the in-process listeners heard of it

orderVars == <<served, registry, remembered, stage, proven, completed, heard>>
ordersVars == <<orderVars, webhookVars>>

Stages == {"new", "creating", "open", "recording", "announcing", "settled"}

OrdersInit ==
  /\ WebhooksInit
  /\ served \in BOOLEAN
  /\ registry = Declared
  /\ remembered = << >>
  /\ stage = [o \in Objects |-> "new"]
  /\ proven = [o \in Objects |-> {}]
  /\ completed = {}
  /\ heard = [o \in Objects |-> 0]

Goto(o, s) == stage' = [stage EXCEPT ![o] = s]

-----------------------------------------------------------------------------
(* The client: requirements() *)

\* rememberOrderPolicy: to the tail, and the oldest out when there are too many.
Remember(o) ==
  LET kept == Append(Remove(remembered, o), o) IN
  remembered' = IF Len(kept) > MaxPolicies THEN Tail(kept) ELSE kept

Resolve(o) == registry' = registry \cup Policy[o] /\ Remember(o)

\* orders.create(): resolve the policy, then store the order before its link is given out.
Create(o) ==
  /\ stage[o] = "new"
  /\ Resolve(o)
  /\ Goto(o, "creating")
  /\ UNCHANGED <<served, proven, completed, heard, webhookVars>>

StoreCreated(o) ==
  /\ stage[o] = "creating"
  /\ Goto(o, "open")
  /\ UNCHANGED <<served, registry, remembered, proven, completed, heard, webhookVars>>

\* The order's page is rendered (again): its policy is resolved again.
RenderPage(o) ==
  /\ stage[o] \notin {"new", "creating"}
  /\ Resolve(o)
  /\ UNCHANGED <<served, stage, proven, completed, heard, webhookVars>>

-----------------------------------------------------------------------------
(* The rails and the completion seam *)

\* A credential rail records a gate this process knows of.
Prove(o, g) ==
  /\ stage[o] = "open"
  /\ g \in registry
  /\ proven' = [proven EXCEPT ![o] = @ \cup {g}]
  /\ UNCHANGED <<served, registry, remembered, stage, completed, heard, webhookVars>>

\* Mutant: an order whose policy is not remembered has no gates.
ScopeOpen(o) ==
  IF served THEN Policy[o] ELSE IF o \in ToSet(remembered) THEN Policy[o] ELSE {}

\* Mutant: every gate any order asked for.
ScopeWide(o) == Gates

\* policyCredentialIds: the stored policy, or the remembered one, or else no scope: every gate.
Scope(o) ==
  IF served \/ o \in ToSet(remembered) THEN Policy[o] ELSE Gates

\* hasUnprovenCustomGate: the registered gates in scope that apply and are not proved.
Unproven(o) == {g \in registry \cap Scope(o) : o \in Applies[g]} \ proven[o]

\* A payment rail completes the order: refused while a gate is missing, echoed when recorded
\* (neither changes anything).
Complete(o) ==
  /\ stage[o] = "open"
  /\ o \notin completed
  /\ Unproven(o) = {}
  /\ Goto(o, "recording")
  /\ UNCHANGED <<served, registry, remembered, proven, completed, heard, webhookVars>>

\* Mutant: the order is announced before it is recorded.
StoreCompletedLate(o) ==
  /\ stage[o] = "recording"
  /\ Goto(o, "announcing")
  /\ UNCHANGED <<served, registry, remembered, proven, completed, heard, webhookVars>>

\* _complete(): write the record ...
StoreCompleted(o) ==
  /\ stage[o] = "recording"
  /\ completed' = completed \cup {o}
  /\ Goto(o, "announcing")
  /\ UNCHANGED <<served, registry, remembered, proven, heard, webhookVars>>

\* (the store errors: the rail answers 400 and the order can be tried again)
StoreThrows(o) ==
  /\ stage[o] = "recording"
  /\ Goto(o, "open")
  /\ UNCHANGED <<served, registry, remembered, proven, completed, heard, webhookVars>>

\* ... then tell the listeners and fan the event out, which nothing waits for.
Announce(o) ==
  /\ stage[o] = "announcing"
  /\ heard' = [heard EXCEPT ![o] = @ + 1]
  /\ Deliver(o)
  /\ Goto(o, "settled")
  /\ UNCHANGED <<served, registry, remembered, proven, completed>>

\* The process restarts: what was under way is dropped, an order not stored was never created.
Restart ==
  /\ registry' = Declared
  /\ remembered' = << >>
  /\ stage' = [o \in Objects |->
       CASE stage[o] \in {"new", "creating"} -> "new"
         [] stage[o] \in {"open", "recording", "announcing"} -> "open"
         [] OTHER -> stage[o]]
  /\ StopDeliveries
  /\ UNCHANGED <<served, proven, completed, heard>>

RegisterEndpoint(e) == Register(e) /\ UNCHANGED orderVars
WebhookStep == WebhooksStep /\ UNCHANGED orderVars

-----------------------------------------------------------------------------
ServerStep(o) == StoreCreated(o) \/ StoreCompleted(o) \/ StoreThrows(o) \/ Announce(o)
OrdersNext ==
  \/ \E o \in Objects : Create(o) \/ RenderPage(o) \/ Complete(o) \/ ServerStep(o)
  \/ \E o \in Objects, g \in Gates : Prove(o, g)
  \/ \E e \in Endpoints : RegisterEndpoint(e)
  \/ Restart \/ WebhookStep

OrdersSpec == OrdersInit /\ [][OrdersNext]_ordersVars

\* The event loop runs pending continuations and its timers fire; a shopper whose payment failed
\* tries again, and the store does not fail every time; the receiver owes nothing.
FairOrdersSpec ==
  /\ OrdersSpec
  /\ \A o \in Objects : WF_ordersVars(Complete(o)) /\ SF_ordersVars(StoreCompleted(o))
  /\ \A i \in Ids, e \in Endpoints : WF_ordersVars(SenderStep(i, e) /\ UNCHANGED orderVars)

-----------------------------------------------------------------------------
(* Properties *)

\* rememberOrderPolicy's comment: evicting the oldest never opens a gate.  Where the credentials
\* are declared, neither does a restart.
EvictionNeverOpens ==
  \A o \in completed : {g \in Policy[o] \cap Declared : o \in Applies[g]} \subseteq proven[o]

\* The registry accumulates the gates of every order: an order served with its stored policy is
\* never stuck behind a gate only another order asked for, whatever was evicted or restarted.
ProvenOrderSettles ==
  \A o \in Objects :
    served /\ stage[o] = "open" /\ Policy[o] \subseteq proven[o] ~> o \in completed

\* Listeners and receivers act on an order at most once, however often it is paid again, and its
\* event is sent, timed out, answered late or lost; and only on an order the store holds.
ActedOnOnce ==
  \A o \in Objects :
    LET most == IF o \in completed THEN 1 ELSE 0 IN
    heard[o] <= most /\ \A e \in Endpoints : effects[e][o] <= most
=============================================================================
