----------------------------- MODULE Storefront -----------------------------
(***************************************************************************)
(* The storefront's carts and orders (server.ts): the MCP tools that edit  *)
(* a cart, checkout, and the completion that empties the cart an order was *)
(* checked out from.                                                       *)
(*                                                                         *)
(* A conversation has two callers, the agent and the widget, that share    *)
(* one cart.  Its key is the MCP session, or a cart id the store issues on *)
(* the first cart call (a lone connection, as over stdio, has the default  *)
(* key: that store has the one cart and is not modelled).                  *)
(* Carts, orders and records are in stores that survive a restart; the     *)
(* sessions live in the process.  Each await of a tool is a point where    *)
(* another call, or a completion, runs.                                    *)
(*                                                                         *)
(*   call: idle -> reading -> writing -> idle                              *)
(*                    \-> ordering -> mapping -> idle      (checkout)      *)
(*   completion: none -> recording -> unmapping -> emptying -> forgetting  *)
(***************************************************************************)
EXTENDS Integers, FiniteSets

CONSTANTS
  Conversations,  \* the conversations an MCP host has with the storefront
  Transport,      \* how each one is served: "session" or "sessionless"
  Callers,        \* its agent, its widget: who calls the tools, one call at a time
  Parties,        \* the conversations the callers may be part of
  Skus,           \* product ids
  Orders,         \* order ids the storefront may mint
  MaxKeys,        \* bound: sessions and cart ids issued
  MaxAsked        \* bound: what a conversation asks for of one product

ASSUME TransportAssumption == Transport \in [Conversations -> {"session", "sessionless"}]
ASSUME PartiesAssumption == Parties \subseteq [Callers -> Conversations]
ASSUME BoundsAssumption == MaxKeys \in Nat /\ MaxAsked \in Nat

VARIABLES
  of,          \* the conversation each caller is part of
  issued,      \* how many sessions and cart ids have been issued
  held,        \* the session or cart id each conversation has been given
  live,        \* the sessions in transports, and the cart ids this process verifies
  carts,       \* the cart store
  call,        \* where each caller's call stands
  created,     \* the created-order store: the lines of each order
  orderCarts,  \* the cart key recorded for an order at checkout
  offered,     \* the orders whose checkout link was answered
  records,     \* the completed-order store: who wrote the record
  completing,  \* where each completion stands: a rail's, or a place-order's
  owner,       \* whose conversation a key was issued to
  asked,       \* what each conversation has asked for so far
  cutOff,      \* the orders with a completion that a restart cut off
  edited,      \* per cart: the products edited since a completion last emptied it
  undone       \* the carts written back by an edit that had read them before that

clientVars == <<of, issued, held, live, owner, asked>>
orderVars == <<created, orderCarts, offered, records>>
emptied == <<edited, undone>>
storefrontVars == <<clientVars, orderVars, carts, call, completing, cutOff, emptied>>

NoKey == -1
DefaultKey == 0
Keys == 0..MaxKeys
Rails == {"rail", "place"}
Carts == [Skus -> Nat]
Empty == [s \in Skus |-> 0]
Idle == [stage |-> "idle", tool |-> "none", key |-> NoKey, sku |-> "", quantity |-> 0, cart |-> Empty,
         stale |-> FALSE]
Stages == {"idle", "reading", "writing", "ordering", "mapping"}
NotCompleting == [stage |-> "none", key |-> NoKey]
StorefrontInit ==
  /\ of \in Parties
  /\ issued = 0
  /\ held = [v \in Conversations |-> NoKey]
  /\ live = {}
  /\ carts = [k \in Keys |-> Empty]
  /\ call = [a \in Callers |-> Idle]
  /\ created = [o \in {} |-> Empty]
  /\ orderCarts = [o \in Orders |-> NoKey]
  /\ offered = {}
  /\ records = [o \in Orders |-> "none"]
  /\ completing = [d \in Orders \X Rails |-> NotCompleting]
  /\ owner = [k \in {} |-> ""]
  /\ asked = [v \in Conversations |-> Empty]
  /\ cutOff = {}
  /\ edited = [k \in Keys |-> {}]
  /\ undone = {}

-----------------------------------------------------------------------------
(* Sessions and cart ids *)

Issue(v, k) ==
  /\ k \in Keys
  /\ issued' = k
  /\ live' = live \cup {k}
  /\ owner' = [j \in DOMAIN owner \cup {k} |-> IF j = k THEN v ELSE owner[j]]

\* POST /mcp with an initialize, the first time or after a 400 for a session that is gone.
Initialize(v) ==
  /\ Transport[v] = "session"
  /\ held[v] \notin live
  /\ Issue(v, issued + 1)
  /\ held' = [held EXCEPT ![v] = issued']
  /\ UNCHANGED <<of, orderVars, carts, call, completing, asked, cutOff, emptied>>

\* Mutant: a call without a session falls back to the shared key.
CartKeyOfShared(v, k) ==
  /\ k = IF Transport[v] = "session" THEN held[v] ELSE DefaultKey
  /\ Transport[v] = "session" => k \in live
  /\ UNCHANGED <<issued, live, owner>>

\* sessionOf, cartKeyOf: the session, the caller's cart id, or a new one.
CartKeyOf(v, k) ==
  \/ k = held[v] /\ k \in live /\ UNCHANGED <<issued, live, owner>>
  \/ Transport[v] = "sessionless" /\ held[v] = NoKey /\ k = issued + 1 /\ Issue(v, k)

\* A cart id the store does not verify is refused (UNKNOWN_CART_ID): the conversation starts over.
UnknownCartId(v) ==
  /\ Transport[v] = "sessionless"
  /\ held[v] \notin live \cup {NoKey}
  /\ held' = [held EXCEPT ![v] = NoKey]
  /\ UNCHANGED <<of, issued, live, owner, asked, orderVars, carts, call, completing, cutOff, emptied>>

-----------------------------------------------------------------------------
(* The cart tools *)

Begin(a, c) ==
  /\ call[a].stage = "idle"
  /\ \E k \in Keys : CartKeyOf(of[a], k) /\ call' = [call EXCEPT ![a] = [c EXCEPT !.key = k]]
  /\ UNCHANGED <<of, orderVars, held, carts, completing, cutOff, emptied>>

\* add-to-cart, and set-quantity with remove-from-cart, which sets 0: resolve the key.
Edit(a, tool, sku, quantity) ==
  /\ tool = "add" => quantity > 0
  /\ asked[of[a]][sku] + quantity <= MaxAsked
  /\ Begin(a, [Idle EXCEPT !.stage = "reading", !.tool = tool, !.sku = sku, !.quantity = quantity])
  /\ asked' = [asked EXCEPT ![of[a]][sku] = @ + quantity]

\* get-cart and browse-products only read the cart, and may be where its id is issued.
Look(a) ==
  /\ call[a].stage = "idle"
  /\ \E k \in Keys : CartKeyOf(of[a], k) /\ held' = [held EXCEPT ![of[a]] = k]
  /\ UNCHANGED <<of, orderVars, carts, call, completing, asked, cutOff, emptied>>

\* checkout of the cart.
Checkout(a) ==
  /\ Begin(a, [Idle EXCEPT !.stage = "reading", !.tool = "checkout"])
  /\ UNCHANGED asked

\* checkout of the items it is given: the cart is not looked at, but it is the one recorded.
CheckoutItems(a, sku) ==
  /\ asked[of[a]][sku] < MaxAsked
  /\ Begin(a, [Idle EXCEPT !.stage = "ordering", !.tool = "checkout", !.cart = [Empty EXCEPT ![sku] = 1]])
  /\ asked' = [asked EXCEPT ![of[a]][sku] = @ + 1]

Changed(c) ==
  [c.cart EXCEPT ![c.sku] = IF c.tool = "add" THEN @ + c.quantity ELSE c.quantity]

\* The answer hands the key to a conversation that had none.
Answer(a) ==
  /\ call' = [call EXCEPT ![a] = Idle]
  /\ held' = [held EXCEPT ![of[a]] = call[a].key]
  /\ UNCHANGED <<of, issued, live, owner, asked>>

\* cartStore.read(): a copy of the cart; an empty cart is not checked out.
ReadCart(a) ==
  LET c == call[a]
      cart == carts[c.key]
      Next(stage) == /\ call' = [call EXCEPT ![a].stage = stage, ![a].cart = cart]
                     /\ UNCHANGED clientVars
  IN
  /\ c.stage = "reading"
  /\ \/ c.tool # "checkout" /\ Next("writing")
     \/ c.tool = "checkout" /\ cart = Empty /\ Answer(a)
     \/ c.tool = "checkout" /\ cart # Empty /\ Next("ordering")
  /\ UNCHANGED <<orderVars, carts, completing, cutOff, emptied>>

\* cartStore.write(): the cart as it was read, changed.
WriteCart(a) ==
  LET c == call[a] IN
  /\ c.stage = "writing"
  /\ carts' = [carts EXCEPT ![c.key] = Changed(c)]
  /\ edited' = [edited EXCEPT ![c.key] = @ \cup {c.sku}]
  /\ undone' = IF c.stale THEN undone \cup {c.key} ELSE undone
  /\ Answer(a)
  /\ UNCHANGED <<orderVars, completing, cutOff>>

-----------------------------------------------------------------------------
(* checkout, after the cart was read *)

\* createdOrderStore.write(): a new order with the lines read.
StoreOrder(a) ==
  \E o \in Orders \ DOMAIN created :
    /\ call[a].stage = "ordering"
    /\ created' = [p \in DOMAIN created \cup {o} |-> IF p = o THEN call[a].cart ELSE created[p]]
    /\ call' = [call EXCEPT ![a].stage = "mapping", ![a].sku = o]
    /\ UNCHANGED <<clientVars, orderCarts, offered, records, carts, completing, cutOff, emptied>>

\* orderCarts.write(), and the link is answered.
MapCart(a) ==
  /\ call[a].stage = "mapping"
  /\ orderCarts' = [orderCarts EXCEPT ![call[a].sku] = call[a].key]
  /\ offered' = offered \cup {call[a].sku}
  /\ Answer(a)
  /\ UNCHANGED <<created, records, carts, completing, cutOff, emptied>>

-----------------------------------------------------------------------------
(* Completion *)

Pass(o, r, stage) == completing' = [completing EXCEPT ![<<o, r>>].stage = stage]

\* completeOrder under the order's mutex: an order on record is echoed, which changes nothing.
BeginRail(o) ==
  /\ o \in offered /\ completing[<<o, "rail">>].stage = "none"
  /\ records[o] = "none"
  /\ Pass(o, "rail", "recording")
  /\ UNCHANGED <<clientVars, orderVars, carts, call, cutOff, emptied>>

\* POST /checkout/place-order of an ungated order: whatever is on record.
BeginPlace(o) ==
  /\ o \in offered /\ completing[<<o, "place">>].stage = "none"
  /\ Pass(o, "place", "recording")
  /\ UNCHANGED <<clientVars, orderVars, carts, call, cutOff, emptied>>

Record(o, r) ==
  /\ completing[<<o, r>>].stage = "recording"
  /\ records' = [records EXCEPT ![o] = r]
  /\ Pass(o, r, "unmapping")
  /\ UNCHANGED <<clientVars, created, orderCarts, offered, carts, call, cutOff, emptied>>

\* clearOrderCart: read the order's key; there is none when its cart was emptied before.
Unmap(o, r) ==
  /\ completing[<<o, r>>].stage = "unmapping"
  /\ completing' = [completing EXCEPT ![<<o, r>>] =
       IF orderCarts[o] = NoKey THEN NotCompleting ELSE [stage |-> "emptying", key |-> orderCarts[o]]]
  /\ UNCHANGED <<clientVars, orderVars, carts, call, cutOff, emptied>>

\* Mutant: the cart is left as it is.
EmptyNothing(o, r) ==
  /\ completing[<<o, r>>].stage = "emptying"
  /\ edited' = [edited EXCEPT ![completing[<<o, r>>].key] = {}]
  /\ undone' = undone \ {completing[<<o, r>>].key}
  /\ Pass(o, r, "forgetting")
  /\ UNCHANGED <<clientVars, orderVars, carts, call, cutOff>>

\* ... write an empty cart under it, with whatever was added since the checkout ...
EmptyCart(o, r) ==
  LET k == completing[<<o, r>>].key IN
  /\ completing[<<o, r>>].stage = "emptying"
  /\ carts' = [carts EXCEPT ![k] = Empty]
  /\ edited' = [edited EXCEPT ![k] = {}]
  /\ undone' = undone \ {k}
  /\ call' = [c \in DOMAIN call |->
       IF call[c].stage = "writing" /\ call[c].key = k THEN [call[c] EXCEPT !.stale = TRUE] ELSE call[c]]
  /\ Pass(o, r, "forgetting")
  /\ UNCHANGED <<clientVars, orderVars, cutOff>>

\* ... and forget the key.
Forget(o, r) ==
  /\ completing[<<o, r>>].stage = "forgetting"
  /\ orderCarts' = [orderCarts EXCEPT ![o] = NoKey]
  /\ completing' = [completing EXCEPT ![<<o, r>>] = NotCompleting]
  /\ UNCHANGED <<clientVars, created, offered, records, carts, call, cutOff, emptied>>

\* The process restarts: its sessions, the calls and the completions under way are gone, and so are
\* the cart ids when the secret they are signed with is not configured.
Restart ==
  /\ live' \in {{}, {k \in live : Transport[owner[k]] = "sessionless"}}
  /\ call' = [c \in DOMAIN call |-> Idle]
  /\ completing' = [c \in DOMAIN completing |-> NotCompleting]
  /\ cutOff' = cutOff \cup {o \in Orders : \E r \in Rails : completing[<<o, r>>].stage # "none"}
  /\ UNCHANGED <<of, issued, held, owner, asked, orderVars, carts, emptied>>

-----------------------------------------------------------------------------
CallStep(a) == ReadCart(a) \/ WriteCart(a) \/ StoreOrder(a) \/ MapCart(a)
CompletionStep(o, r) == Record(o, r) \/ Unmap(o, r) \/ EmptyCart(o, r) \/ Forget(o, r)

StorefrontNext ==
  \/ \E v \in Conversations : Initialize(v) \/ UnknownCartId(v)
  \/ \E a \in Callers :
       \/ \E tool \in {"add", "set"}, sku \in Skus, n \in 0..MaxAsked : Edit(a, tool, sku, n)
       \/ Look(a) \/ Checkout(a) \/ \E sku \in Skus : CheckoutItems(a, sku)
       \/ CallStep(a)
  \/ \E o \in Orders : BeginRail(o) \/ BeginPlace(o) \/ \E r \in Rails : CompletionStep(o, r)
  \/ Restart

StorefrontSpec == StorefrontInit /\ [][StorefrontNext]_storefrontVars

-----------------------------------------------------------------------------
(* Properties *)

\* server.ts's "cross-user bleed": a cart with anything in it has a key that was issued, and holds no
\* more than the conversation it was issued to has asked for, whoever else edits, checks out,
\* completes, or restarts.  And an order holds only what some one conversation asked for: its
\* completion will empty, if any, a cart of that conversation.
CartsApart ==
  /\ \A k \in Keys, s \in Skus :
       carts[k][s] > 0 => k \in DOMAIN owner /\ carts[k][s] <= asked[owner[k]][s]
  /\ \A o \in DOMAIN created :
       \E v \in Conversations :
         /\ \A s \in Skus : created[o][s] <= asked[v][s]
         /\ orderCarts[o] # NoKey => orderCarts[o] \in DOMAIN owner /\ owner[orderCarts[o]] = v

\* The storefront's README: completion empties the cart its order came from.  What was in it comes
\* back only when it is asked for again, or when an edit that had read the cart writes it back.
SoldLinesStayGone ==
  \A k \in Keys : k \in undone \/ \A s \in Skus : carts[k][s] > 0 => s \in edited[k]

\* An order on record whose completions have all ended has its cart emptied and its key forgotten,
\* unless a restart cut one off (a retry on a rail then finds the record and only echoes it).
RecordedIsEmptied ==
  \A o \in Orders :
    records[o] # "none" /\ (\A r \in Rails : completing[<<o, r>>].stage = "none")
      => orderCarts[o] = NoKey \/ o \in cutOff

\* A cart that was sold is emptied, and stays so.
SoldCartsAreEmptied == RecordedIsEmptied /\ SoldLinesStayGone
=============================================================================
