------------------------- MODULE Storefront_proofs --------------------------
(***************************************************************************)
(* Proofs about the storefront: its carts and orders (Storefront) and its  *)
(* multi-round grant tool (Rounds), for any conversations, callers,        *)
(* products, orders, sessions, words and bounds.                           *)
(*                                                                         *)
(* No cart holds more than its own conversation asked for, and a sold cart *)
(* is emptied and stays so.  Two callers of a conversation edit one cart   *)
(* without a lock, so a write may bring back what another write took out,  *)
(* and no count of the cart alone is inductive.  The invariant numbers the *)
(* units a conversation asks for, 1 to asked: a cart, as stored or as an   *)
(* edit has read it, holds units already asked for, and none of those that *)
(* a pending edit still brings (Backed).                                   *)
(*                                                                         *)
(* A grant is for what the human named, and no redial mints another.       *)
(* Nothing between two rounds is kept on the server, so the invariant is   *)
(* one about the states the clients hold, whichever they present again and *)
(* from wherever: each answer in one was given to a question, from its     *)
(* session and under its bounds (AnsweredAsAsked), and one that waits      *)
(* carries its grant (Carried).                                            *)
(***************************************************************************)
EXTENDS Storefront, Rounds, FiniteSetTheorems, TLAPS

-----------------------------------------------------------------------------
(* The invariant *)

Calls == [stage : Stages, tool : {"none", "add", "set", "checkout"}, key : Keys \cup {NoKey},
          sku : Skus \cup Orders \cup {""}, quantity : Nat, cart : Carts, stale : BOOLEAN]
Completions == [stage : {"none", "recording", "unmapping", "emptying", "forgetting"},
                key : Keys \cup {NoKey}]

\* A cart tool that is going to write the cart.
Editing(c) == c.stage \in {"reading", "writing"} /\ c.tool # "checkout"

ClientsTyped ==
  /\ of \in [Callers -> Conversations]
  /\ issued \in 0..MaxKeys
  /\ held \in [Conversations -> Keys \cup {NoKey}]
  /\ live \subseteq 1..issued
  /\ owner \in [1..issued -> Conversations]
  /\ asked \in [Conversations -> Carts]

CallsTyped ==
  /\ call \in [Callers -> Calls]
  /\ \A a \in Callers : Editing(call[a]) => call[a].sku \in Skus
  /\ \A a \in Callers : call[a].stage = "writing" => call[a].tool # "checkout"

OrdersTyped ==
  /\ DOMAIN created \subseteq Orders
  /\ created \in [DOMAIN created -> Carts]
  /\ orderCarts \in [Orders -> Keys \cup {NoKey}]
  /\ offered \subseteq DOMAIN created
  /\ records \in [Orders -> {"none"} \cup Rails]
  /\ completing \in [Orders \X Rails -> Completions]

CartsTyped ==
  /\ carts \in [Keys -> Carts]
  /\ edited \in [Keys -> SUBSET Skus]
  /\ undone \subseteq Keys

Typed == ClientsTyped /\ CallsTyped /\ OrdersTyped /\ CartsTyped

\* A conversation holds, and its callers use, only keys that were issued to it.
Owned ==
  /\ \A v \in Conversations : held[v] # NoKey => held[v] \in 1..issued /\ owner[held[v]] = v
  /\ \A a \in Callers :
       call[a].stage # "idle" => call[a].key \in 1..issued /\ owner[call[a].key] = of[a]

\* The units of a product that the conversation of a key has asked for.
Units(k, s) == IF k \in 1..issued THEN 1..asked[owner[k]][s] ELSE {}

\* The units that pending edits bring: those of two edits of one product of one cart are apart.
Pending(U) ==
  /\ \A a \in Callers : Editing(call[a]) =>
       /\ U[a] \subseteq Units(call[a].key, call[a].sku)
       /\ call[a].quantity <= Cardinality(U[a])
  /\ \A a, b \in Callers :
       (/\ a # b
        /\ Editing(call[a]) /\ Editing(call[b])
        /\ call[a].key = call[b].key
        /\ call[a].sku = call[b].sku) => U[a] \cap U[b] = {}

\* X tells a cart of key k apart from the units that pending edits bring to that cart.
Backs(X, cart, k, U) ==
  \A s \in Skus :
    /\ X[s] \subseteq Units(k, s)
    /\ cart[s] <= Cardinality(X[s])
    /\ \A b \in Callers :
         (Editing(call[b]) /\ call[b].key = k /\ call[b].sku = s) => X[s] \cap U[b] = {}

Backing == [Skus -> SUBSET Nat]

BackedBy(U) ==
  /\ Pending(U)
  /\ \A k \in Keys : \E X \in Backing : Backs(X, carts[k], k, U)
  /\ \A a \in Callers :
       call[a].stage = "writing" => \E X \in Backing : Backs(X, call[a].cart, call[a].key, U)

Backed == \E U \in [Callers -> SUBSET Nat] : BackedBy(U)

\* An order holds what one conversation asked for, and is mapped to a cart of that conversation.
Mapped ==
  /\ \A o \in Orders : orderCarts[o] # NoKey => o \in offered
  /\ \A o \in DOMAIN created :
       \E v \in Conversations :
         /\ \A s \in Skus : created[o][s] <= asked[v][s]
         /\ orderCarts[o] # NoKey => orderCarts[o] \in DOMAIN owner /\ owner[orderCarts[o]] = v

\* So does a checkout under way, and its order is its own until it is offered.
Buying ==
  /\ \A a \in Callers :
       call[a].stage = "ordering" => \A s \in Skus : call[a].cart[s] <= asked[of[a]][s]
  /\ \A a \in Callers : call[a].stage = "mapping" =>
       /\ call[a].sku \in DOMAIN created \ offered
       /\ \A s \in Skus : created[call[a].sku][s] <= asked[of[a]][s]
  /\ \A a, b \in Callers :
       (call[a].stage = "mapping" /\ call[b].stage = "mapping" /\ call[a].sku = call[b].sku) => a = b

Bought == Mapped /\ Buying

\* An order on record with its key still mapped is being emptied, or a restart cut that off.
Sold ==
  /\ \A o \in Orders : records[o] # "none" => o \in offered
  /\ \A o \in Orders, r \in Rails : completing[<<o, r>>].stage # "none" => o \in offered
  /\ \A o \in Orders : (records[o] # "none" /\ orderCarts[o] # NoKey) =>
       \/ o \in cutOff
       \/ \E r \in Rails : completing[<<o, r>>].stage \in {"unmapping", "emptying", "forgetting"}

\* What an edit has read is gone from the sold lines, unless the cart was emptied under it.
Gone ==
  /\ SoldLinesStayGone
  /\ \A a \in Callers : (call[a].stage = "writing" /\ ~call[a].stale) =>
       \/ call[a].key \in undone
       \/ \A s \in Skus : call[a].cart[s] > 0 => s \in edited[call[a].key]

StorefrontInv == Typed /\ Owned /\ Backed /\ Bought /\ Sold /\ Gone

\* What every step leaves in place of who asked for what.
Grows ==
  /\ of' = of
  /\ issued <= issued'
  /\ \A j \in 1..issued : owner'[j] = owner[j]
  /\ \A v \in Conversations, s \in Skus : asked[v][s] <= asked'[v][s]

-----------------------------------------------------------------------------
(* Keys *)

\* A key given to a call was issued to the conversation of its caller, by now at the latest.
LEMMA KeyGiven ==
  ASSUME ClientsTyped, Owned, NEW v \in Conversations, NEW k \in Keys, CartKeyOf(v, k)
  PROVE  /\ issued' \in 0..MaxKeys /\ issued <= issued'
         /\ live' \subseteq 1..issued'
         /\ owner' \in [1..issued' -> Conversations]
         /\ \A j \in 1..issued : owner'[j] = owner[j]
         /\ k \in 1..issued' /\ owner'[k] = v
<1>0. MaxKeys \in Nat /\ issued \in Nat
  BY BoundsAssumption DEF ClientsTyped
<1>1. CASE k = held[v] /\ k \in live /\ UNCHANGED <<issued, live, owner>>
  <2>1. held[v] # NoKey
    BY <1>0, <1>1 DEF ClientsTyped, NoKey
  <2> QED
    BY <1>1, <2>1, <1>0 DEF ClientsTyped, Owned
<1>2. CASE k = issued + 1 /\ Issue(v, k)
  <2>1. 1..(issued + 1) = 1..issued \cup {issued + 1}
    BY <1>0
  <2>2. DOMAIN owner = 1..issued
    BY DEF ClientsTyped
  <2>3. issued' = issued + 1 /\ live' = live \cup {issued + 1} /\ issued + 1 \in Keys
    BY <1>2 DEF Issue
  <2>4. owner' = [j \in 1..(issued + 1) |-> IF j = issued + 1 THEN v ELSE owner[j]]
    BY <1>2, <2>1, <2>2 DEF Issue
  <2>5. owner' \in [1..issued' -> Conversations]
    BY <2>3, <2>4, <2>1 DEF ClientsTyped
  <2>6. \A j \in 1..issued : owner'[j] = owner[j]
    BY <2>4, <1>0
  <2>7. owner'[k] = v /\ k \in 1..issued'
    BY <2>4, <2>3, <1>2, <1>0
  <2>8. live' \subseteq 1..issued'
    BY <2>3, <2>1 DEF ClientsTyped
  <2>9. issued' \in 0..MaxKeys /\ issued <= issued'
    BY <2>3, <1>0 DEF Keys
  <2> QED
    BY <2>5, <2>6, <2>7, <2>8, <2>9
<1> QED
  BY <1>1, <1>2, CartKeyOf(v, k) DEF CartKeyOf

\* Asking for more of a product takes nothing from what was asked for.
LEMMA AskingMore ==
  ASSUME ClientsTyped, NEW v \in Conversations, NEW s \in Skus, NEW n \in Nat,
         asked' = [asked EXCEPT ![v][s] = @ + n]
  PROVE  /\ asked' \in [Conversations -> Carts]
         /\ \A w \in Conversations, p \in Skus : asked[w][p] <= asked'[w][p]
         /\ asked'[v][s] = asked[v][s] + n
<1>1. asked \in [Conversations -> [Skus -> Nat]]
  BY DEF ClientsTyped, Carts
<1> DEFINE row == [asked[v] EXCEPT ![s] = asked[v][s] + n]
<1>2. asked' = [asked EXCEPT ![v] = row]
  OBVIOUS
<1>3. row \in [Skus -> Nat] /\ row[s] = asked[v][s] + n /\ \A p \in Skus : p # s => row[p] = asked[v][p]
  BY <1>1
<1> HIDE DEF row
<1>4. asked' \in [Conversations -> Carts]
  BY <1>1, <1>2, <1>3 DEF Carts
<1>5. asked'[v] = row /\ \A w \in Conversations : w # v => asked'[w] = asked[w]
  BY <1>1, <1>2
<1>6. \A p \in Skus : asked[v][p] <= row[p]
  BY <1>1, <1>3
<1>7. \A w \in Conversations, p \in Skus : asked[w][p] <= asked'[w][p]
  BY <1>1, <1>5, <1>6
<1> QED
  BY <1>3, <1>4, <1>5, <1>7

\* What was owned stays owned when keys are only added: held keys, and keys of calls that go on.
LEMMA OwnedStays ==
  ASSUME ClientsTyped, Owned, CallsTyped, of' = of, issued' \in Nat, issued <= issued',
         \A j \in 1..issued : owner'[j] = owner[j],
         \A v \in Conversations : held'[v] # NoKey =>
           held'[v] = held[v] \/ (held'[v] \in 1..issued' /\ owner'[held'[v]] = v),
         \A b \in Callers : call'[b].stage # "idle" =>
           \/ call[b].stage # "idle" /\ call'[b].key = call[b].key
           \/ call'[b].key \in 1..issued' /\ owner'[call'[b].key] = of[b]
  PROVE  Owned'
<1>0. issued \in Nat
  BY BoundsAssumption DEF ClientsTyped
<1>1. 1..issued \subseteq 1..issued'
  BY <1>0
<1>2. \A v \in Conversations : held'[v] # NoKey => held'[v] \in 1..issued' /\ owner'[held'[v]] = v
  BY <1>1 DEF Owned
<1>3. \A b \in Callers :
        call'[b].stage # "idle" => call'[b].key \in 1..issued' /\ owner'[call'[b].key] = of'[b]
  BY <1>1 DEF Owned
<1> QED
  BY <1>2, <1>3 DEF Owned

\* A tool begins: its call has a key of its conversation.
LEMMA Begun ==
  ASSUME Typed, Owned, NEW a \in Callers, NEW c \in Calls, Begin(a, c)
  PROVE  /\ issued' \in 0..MaxKeys /\ issued <= issued'
         /\ live' \subseteq 1..issued'
         /\ owner' \in [1..issued' -> Conversations]
         /\ \A j \in 1..issued : owner'[j] = owner[j]
         /\ Owned'
         /\ \E k \in Keys : /\ k \in 1..issued' /\ owner'[k] = of[a]
                            /\ call' = [call EXCEPT ![a] = [c EXCEPT !.key = k]]
<1>1. PICK k \in Keys : CartKeyOf(of[a], k) /\ call' = [call EXCEPT ![a] = [c EXCEPT !.key = k]]
  BY DEF Begin
<1>2. of[a] \in Conversations /\ of' = of /\ held' = held
  BY DEF Begin, Typed, ClientsTyped
<1>3. /\ issued' \in 0..MaxKeys /\ issued <= issued'
      /\ live' \subseteq 1..issued'
      /\ owner' \in [1..issued' -> Conversations]
      /\ \A j \in 1..issued : owner'[j] = owner[j]
      /\ k \in 1..issued' /\ owner'[k] = of[a]
  BY <1>1, <1>2, KeyGiven DEF Typed
<1>4. call'[a].key = k /\ \A b \in Callers : b # a => call'[b] = call[b]
  <2> DEFINE r == [c EXCEPT !.key = k]
  <2>1. r.key = k
    BY DEF Calls
  <2> HIDE DEF r
  <2>2. call' = [call EXCEPT ![a] = r]
    BY <1>1 DEF r
  <2> QED
    BY <2>1, <2>2 DEF Typed, CallsTyped
<1>5. issued' \in Nat
  BY <1>3, BoundsAssumption
<1>6. Owned'
  BY <1>2, <1>3, <1>4, <1>5, OwnedStays DEF Typed
<1> QED
  BY <1>1, <1>3, <1>6

\* A call that ends hands its key to the conversation of its caller.
LEMMA Answered ==
  ASSUME Typed, Owned, NEW a \in Callers, call[a].stage # "idle", Answer(a)
  PROVE  /\ ClientsTyped' /\ Grows /\ Owned'
         /\ call' = [call EXCEPT ![a] = Idle]
         /\ call'[a] = Idle /\ \A b \in Callers : b # a => call'[b] = call[b]
<1>1. /\ of' = of /\ issued' = issued /\ live' = live /\ owner' = owner /\ asked' = asked
      /\ held' = [held EXCEPT ![of[a]] = call[a].key]
      /\ call' = [call EXCEPT ![a] = Idle]
  BY DEF Answer
<1>2. of[a] \in Conversations /\ call[a].key \in 1..issued /\ owner[call[a].key] = of[a]
  BY DEF Owned, Typed, ClientsTyped
<1>3. issued \in Nat /\ 1..issued \subseteq Keys
  BY BoundsAssumption DEF Typed, ClientsTyped, Keys
<1>4. ClientsTyped'
  BY <1>1, <1>2, <1>3 DEF Typed, ClientsTyped
<1>5. \A v \in Conversations, s \in Skus : asked[v][s] \in Nat
  BY DEF Typed, ClientsTyped, Carts
<1>6. Grows
  BY <1>1, <1>3, <1>5 DEF Grows
<1>7. call'[a] = Idle /\ \A b \in Callers : b # a => call'[b] = call[b]
  BY <1>1 DEF Typed, CallsTyped
<1>8. Idle.stage = "idle"
  BY DEF Idle
<1>9. \A v \in Conversations : held'[v] = IF v = of[a] THEN call[a].key ELSE held[v]
  BY <1>1 DEF Typed, ClientsTyped
<1>10. Owned'
  BY <1>1, <1>2, <1>3, <1>7, <1>8, <1>9, OwnedStays DEF Typed
<1> QED
  BY <1>1, <1>4, <1>6, <1>7, <1>10

\* The records a tool begins with.
LEMMA BeginRecords ==
  /\ Idle \in Calls
  /\ \A tool \in {"add", "set"}, sku \in Skus, n \in Nat :
       [Idle EXCEPT !.stage = "reading", !.tool = tool, !.sku = sku, !.quantity = n] \in Calls
  /\ [Idle EXCEPT !.stage = "reading", !.tool = "checkout"] \in Calls
  /\ \A sku \in Skus :
       [Idle EXCEPT !.stage = "ordering", !.tool = "checkout", !.cart = [Empty EXCEPT ![sku] = 1]] \in Calls
<1>1. Empty \in Carts
  BY DEF Empty, Carts
<1>2. \A sku \in Skus : [Empty EXCEPT ![sku] = 1] \in Carts
  BY <1>1 DEF Carts
<1> QED
  BY <1>1, <1>2 DEF Idle, Calls, Stages, NoKey

\* Whose keys, and who asked for what, is kept by every step.
LEMMA ClientsKept ==
  ASSUME Typed, Owned, [StorefrontNext]_storefrontVars
  PROVE  ClientsTyped' /\ Grows /\ Owned'
<1>0. /\ issued \in Nat /\ MaxKeys \in Nat /\ 1..issued \subseteq Keys
      /\ \A v \in Conversations, s \in Skus : asked[v][s] \in Nat
      /\ of \in [Callers -> Conversations]
  BY BoundsAssumption DEF Typed, ClientsTyped, Keys, Carts
\* Steps that leave the keys alone, and of the calls only end some or move them on.
<1>1. ASSUME UNCHANGED clientVars,
             \A b \in Callers : call'[b].stage # "idle" =>
               call[b].stage # "idle" /\ call'[b].key = call[b].key
      PROVE  ClientsTyped' /\ Grows /\ Owned'
  <2>1. of' = of /\ issued' = issued /\ live' = live /\ owner' = owner /\ asked' = asked /\ held' = held
    BY <1>1 DEF clientVars
  <2>2. ClientsTyped' /\ Grows
    BY <2>1, <1>0 DEF Typed, ClientsTyped, Grows
  <2>3. Owned'
    BY <2>1, <1>0, <1>1, OwnedStays DEF Typed
  <2> QED
    BY <2>2, <2>3
<1>2. ASSUME NEW v \in Conversations, Initialize(v)
      PROVE  ClientsTyped' /\ Grows /\ Owned'
  <2>1. 1..(issued + 1) = 1..issued \cup {issued + 1} /\ DOMAIN owner = 1..issued
    BY <1>0 DEF Typed, ClientsTyped
  <2>2. /\ issued' = issued + 1 /\ live' = live \cup {issued + 1} /\ issued + 1 \in Keys
        /\ of' = of /\ asked' = asked /\ call' = call
        /\ held' = [held EXCEPT ![v] = issued + 1]
    BY <1>2 DEF Initialize, Issue
  <2>3. owner' = [j \in 1..(issued + 1) |-> IF j = issued + 1 THEN v ELSE owner[j]]
    BY <1>2, <2>1 DEF Initialize, Issue
  <2>4. owner' \in [1..issued' -> Conversations]
    BY <2>1, <2>2, <2>3 DEF Typed, ClientsTyped
  <2>5. (\A j \in 1..issued : owner'[j] = owner[j]) /\ owner'[issued + 1] = v
    BY <2>3, <1>0
  <2>6. issued' \in 0..MaxKeys /\ issued <= issued' /\ live' \subseteq 1..issued'
    BY <2>1, <2>2, <1>0 DEF Keys, Typed, ClientsTyped
  <2>7. ClientsTyped'
    BY <2>2, <2>4, <2>6, <1>0 DEF Typed, ClientsTyped
  <2>8. Grows
    BY <2>2, <2>5, <2>6, <1>0 DEF Grows
  <2>9. \A w \in Conversations : held'[w] = IF w = v THEN issued + 1 ELSE held[w]
    BY <2>2 DEF Typed, ClientsTyped
  <2>10. issued + 1 \in 1..issued' /\ issued' \in Nat
    BY <2>2, <1>0
  <2>11. Owned'
    BY <2>2, <2>5, <2>6, <2>9, <2>10, OwnedStays DEF Typed
  <2> QED
    BY <2>7, <2>8, <2>11
<1>3. ASSUME NEW v \in Conversations, UnknownCartId(v)
      PROVE  ClientsTyped' /\ Grows /\ Owned'
  <2>1. /\ of' = of /\ issued' = issued /\ live' = live /\ owner' = owner /\ asked' = asked /\ call' = call
        /\ held' = [held EXCEPT ![v] = NoKey]
    BY <1>3 DEF UnknownCartId
  <2>2. \A w \in Conversations : held'[w] = IF w = v THEN NoKey ELSE held[w]
    BY <2>1 DEF Typed, ClientsTyped
  <2>3. ClientsTyped' /\ Grows
    BY <2>1, <1>0 DEF Typed, ClientsTyped, Grows
  <2>4. Owned'
    BY <2>1, <2>2, <1>0, OwnedStays DEF Typed
  <2> QED
    BY <2>3, <2>4
<1>4. ASSUME NEW a \in Callers, Look(a)
      PROVE  ClientsTyped' /\ Grows /\ Owned'
  <2>1. PICK k \in Keys : CartKeyOf(of[a], k) /\ held' = [held EXCEPT ![of[a]] = k]
    BY <1>4 DEF Look
  <2>2. of' = of /\ asked' = asked /\ call' = call /\ of[a] \in Conversations
    BY <1>4, <1>0 DEF Look
  <2>3. /\ issued' \in 0..MaxKeys /\ issued <= issued'
        /\ live' \subseteq 1..issued'
        /\ owner' \in [1..issued' -> Conversations]
        /\ \A j \in 1..issued : owner'[j] = owner[j]
        /\ k \in 1..issued' /\ owner'[k] = of[a]
    BY <2>1, <2>2, KeyGiven DEF Typed
  <2>4. ClientsTyped' /\ Grows
    BY <2>1, <2>2, <2>3, <1>0 DEF Typed, ClientsTyped, Grows
  <2>5. \A w \in Conversations : held'[w] = IF w = of[a] THEN k ELSE held[w]
    BY <2>1 DEF Typed, ClientsTyped
  <2>6. Owned'
    BY <2>2, <2>3, <2>5, <1>0, OwnedStays DEF Typed
  <2> QED
    BY <2>4, <2>6
\* A tool that begins, with something asked for or nothing.
<1>5. ASSUME NEW a \in Callers, NEW c \in Calls, Begin(a, c),
             asked' \in [Conversations -> Carts],
             \A v \in Conversations, s \in Skus : asked[v][s] <= asked'[v][s]
      PROVE  ClientsTyped' /\ Grows /\ Owned'
  <2>1. of' = of /\ held' = held
    BY <1>5 DEF Begin
  <2>2. /\ issued' \in 0..MaxKeys /\ issued <= issued'
        /\ live' \subseteq 1..issued'
        /\ owner' \in [1..issued' -> Conversations]
        /\ \A j \in 1..issued : owner'[j] = owner[j]
        /\ Owned'
    BY <1>5, Begun
  <2> QED
    BY <2>1, <2>2, <1>5 DEF Typed, ClientsTyped, Grows
<1>6. ASSUME NEW a \in Callers, NEW tool \in {"add", "set"}, NEW sku \in Skus, NEW n \in 0..MaxAsked,
             Edit(a, tool, sku, n)
      PROVE  ClientsTyped' /\ Grows /\ Owned'
  <2>1. n \in Nat /\ of[a] \in Conversations
    BY BoundsAssumption, <1>0
  <2>2. asked' = [asked EXCEPT ![of[a]][sku] = @ + n]
    BY <1>6 DEF Edit
  <2>3. /\ asked' \in [Conversations -> Carts]
        /\ \A v \in Conversations, s \in Skus : asked[v][s] <= asked'[v][s]
    BY <2>1, <2>2, AskingMore DEF Typed
  <2> QED
    BY <2>1, <2>3, <1>5, <1>6, BeginRecords DEF Edit
<1>7. ASSUME NEW a \in Callers, Checkout(a)
      PROVE  ClientsTyped' /\ Grows /\ Owned'
  <2>1. asked' = asked /\ Begin(a, [Idle EXCEPT !.stage = "reading", !.tool = "checkout"])
    BY <1>7 DEF Checkout
  <2>2. asked' \in [Conversations -> Carts] /\ \A v \in Conversations, s \in Skus : asked[v][s] <= asked'[v][s]
    BY <2>1, <1>0 DEF Typed, ClientsTyped
  <2> QED
    BY <2>1, <2>2, <1>5, BeginRecords
<1>8. ASSUME NEW a \in Callers, NEW sku \in Skus, CheckoutItems(a, sku)
      PROVE  ClientsTyped' /\ Grows /\ Owned'
  <2>1. of[a] \in Conversations /\ asked' = [asked EXCEPT ![of[a]][sku] = @ + 1]
    BY <1>8, <1>0 DEF CheckoutItems
  <2>2. asked' \in [Conversations -> Carts] /\ \A v \in Conversations, s \in Skus : asked[v][s] <= asked'[v][s]
    BY <2>1, AskingMore DEF Typed
  <2> QED
    BY <2>2, <1>5, <1>8, BeginRecords DEF CheckoutItems
<1>9. ASSUME NEW a \in Callers, ReadCart(a)
      PROVE  ClientsTyped' /\ Grows /\ Owned'
  <2> DEFINE cart == carts[call[a].key]
  <2>0. call[a].stage = "reading"
    BY <1>9 DEF ReadCart
  <2>1. CASE Answer(a)
    BY <2>0, <2>1, Answered
  <2>2. ASSUME NEW stage \in {"writing", "ordering"}, UNCHANGED clientVars,
               call' = [call EXCEPT ![a].stage = stage, ![a].cart = cart]
        PROVE  ClientsTyped' /\ Grows /\ Owned'
    <3> HIDE DEF cart
    <3> DEFINE r == [call[a] EXCEPT !.stage = stage, !.cart = cart]
    <3>1. r.key = call[a].key
      BY DEF Typed, CallsTyped, Calls
    <3>2. call' = [call EXCEPT ![a] = r]
      BY <2>2 DEF Typed, CallsTyped, Calls
    <3> HIDE DEF r
    <3>3. \A b \in Callers : call'[b] = IF b = a THEN r ELSE call[b]
      BY <3>2 DEF Typed, CallsTyped
    <3> QED
      BY <3>1, <3>3, <2>0, <2>2, <1>1
  <2> QED
    BY <1>9, <2>1, <2>2 DEF ReadCart
<1>10. ASSUME NEW a \in Callers, WriteCart(a) \/ MapCart(a)
       PROVE  ClientsTyped' /\ Grows /\ Owned'
  <2>1. Answer(a) /\ call[a].stage # "idle"
    BY <1>10 DEF WriteCart, MapCart
  <2> QED
    BY <2>1, Answered
<1>11. ASSUME NEW a \in Callers, StoreOrder(a)
       PROVE  ClientsTyped' /\ Grows /\ Owned'
  <2>1. PICK o \in Orders :
           /\ call[a].stage = "ordering"
           /\ call' = [call EXCEPT ![a].stage = "mapping", ![a].sku = o]
           /\ UNCHANGED clientVars
    BY <1>11 DEF StoreOrder
  <2> DEFINE r == [call[a] EXCEPT !.stage = "mapping", !.sku = o]
  <2>2. r.key = call[a].key
    BY DEF Typed, CallsTyped, Calls
  <2>3. call' = [call EXCEPT ![a] = r]
    BY <2>1 DEF Typed, CallsTyped, Calls
  <2> HIDE DEF r
  <2>4. \A b \in Callers : call'[b] = IF b = a THEN r ELSE call[b]
    BY <2>3 DEF Typed, CallsTyped
  <2> QED
    BY <2>1, <2>2, <2>4, <1>1
<1>12. ASSUME NEW o \in Orders, BeginRail(o) \/ BeginPlace(o)
       PROVE  ClientsTyped' /\ Grows /\ Owned'
  <2>1. UNCHANGED clientVars /\ call' = call
    BY <1>12 DEF BeginRail, BeginPlace
  <2> QED
    BY <2>1, <1>1
<1>13. ASSUME NEW o \in Orders, NEW r \in Rails, Record(o, r) \/ Unmap(o, r) \/ Forget(o, r)
       PROVE  ClientsTyped' /\ Grows /\ Owned'
  <2>1. UNCHANGED clientVars /\ call' = call
    BY <1>13 DEF Record, Unmap, Forget
  <2> QED
    BY <2>1, <1>1
<1>14. ASSUME NEW o \in Orders, NEW r \in Rails, EmptyCart(o, r)
       PROVE  ClientsTyped' /\ Grows /\ Owned'
  <2> DEFINE k == completing[<<o, r>>].key
  <2>1. /\ UNCHANGED clientVars
        /\ call' = [c \in DOMAIN call |->
             IF call[c].stage = "writing" /\ call[c].key = k THEN [call[c] EXCEPT !.stale = TRUE] ELSE call[c]]
    BY <1>14 DEF EmptyCart
  <2> HIDE DEF k
  <2>2. \A b \in Callers : call'[b].stage = call[b].stage /\ call'[b].key = call[b].key
    BY <2>1 DEF Typed, CallsTyped, Calls
  <2> QED
    BY <2>1, <2>2, <1>1
<1>15. CASE Restart
  <2>1. /\ of' = of /\ issued' = issued /\ held' = held /\ owner' = owner /\ asked' = asked
        /\ live' \subseteq live
        /\ call' = [c \in DOMAIN call |-> Idle]
    BY <1>15 DEF Restart
  <2>2. \A b \in Callers : call'[b].stage = "idle"
    BY <2>1 DEF Typed, CallsTyped, Idle
  <2>3. ClientsTyped' /\ Grows
    BY <2>1, <1>0 DEF Typed, ClientsTyped, Grows
  <2>4. Owned'
    BY <2>1, <2>2, <1>0, OwnedStays DEF Typed
  <2> QED
    BY <2>3, <2>4
<1>16. CASE UNCHANGED storefrontVars
  BY <1>16, <1>1 DEF storefrontVars
<1> QED
  BY <1>2, <1>3, <1>4, <1>6, <1>7, <1>8, <1>9, <1>10, <1>11, <1>12, <1>13, <1>14, <1>15, <1>16
     DEF StorefrontNext, CallStep, CompletionStep

-----------------------------------------------------------------------------
(* What the steps of a call do to it *)

\* Every other call stays as it is.
Others(a) == call' \in [Callers -> Calls] /\ \A b \in Callers : b # a => call'[b] = call[b]

\* A call that edits the cart begins, with units that were not asked for before.
LEMMA EditBegun ==
  ASSUME Typed, Owned, NEW a \in Callers, NEW tool \in {"add", "set"}, NEW sku \in Skus,
         NEW n \in 0..MaxAsked, Edit(a, tool, sku, n)
  PROVE  /\ Others(a) /\ call[a].stage = "idle"
         /\ call'[a] \in Calls
         /\ call'[a].stage = "reading" /\ call'[a].tool = tool
         /\ call'[a].sku = sku /\ call'[a].quantity = n
         /\ call'[a].key \in Keys /\ call'[a].key \in 1..issued' /\ owner'[call'[a].key] = of[a]
         /\ n \in Nat /\ asked'[of[a]][sku] = asked[of[a]][sku] + n
         /\ UNCHANGED <<orderVars, carts, completing, cutOff, emptied>>
<1> DEFINE c == [Idle EXCEPT !.stage = "reading", !.tool = tool, !.sku = sku, !.quantity = n]
<1>1. n \in Nat /\ of[a] \in Conversations
  BY BoundsAssumption DEF Typed, ClientsTyped
<1>2. c \in Calls
  BY <1>1, BeginRecords
<1>3. c.stage = "reading" /\ c.tool = tool /\ c.sku = sku /\ c.quantity = n
  BY DEF Idle
<1>4. Begin(a, c) /\ asked' = [asked EXCEPT ![of[a]][sku] = @ + n]
  BY DEF Edit
<1> HIDE DEF c
<1>5. PICK k \in Keys : k \in 1..issued' /\ owner'[k] = of[a] /\ call' = [call EXCEPT ![a] = [c EXCEPT !.key = k]]
  BY <1>2, <1>4, Begun
<1> DEFINE r == [c EXCEPT !.key = k]
<1>6. r \in Calls /\ r.stage = c.stage /\ r.tool = c.tool /\ r.sku = c.sku /\ r.quantity = c.quantity /\ r.key = k
  BY <1>2, <1>5 DEF Calls
<1> HIDE DEF r
<1>7. call'[a] = r /\ Others(a)
  BY <1>5, <1>6 DEF r, Others, Typed, CallsTyped
<1>8. asked'[of[a]][sku] = asked[of[a]][sku] + n
  <2>1. ASSUME NEW v \in Conversations, asked' = [asked EXCEPT ![v][sku] = @ + n]
        PROVE  asked'[v][sku] = asked[v][sku] + n
    BY <1>1, <2>1, AskingMore DEF Typed
  <2> QED
    BY <1>1, <1>4, <2>1
<1>9. call[a].stage = "idle" /\ UNCHANGED <<orderVars, carts, completing, cutOff, emptied>>
  BY <1>4 DEF Begin
<1> QED
  BY <1>1, <1>3, <1>5, <1>6, <1>7, <1>8, <1>9

\* A checkout begins, of the cart or of items that are asked for in the call.
LEMMA CheckoutBegun ==
  ASSUME Typed, Owned, NEW a \in Callers, Checkout(a) \/ \E sku \in Skus : CheckoutItems(a, sku)
  PROVE  /\ Others(a) /\ call[a].stage = "idle"
         /\ call'[a] \in Calls /\ call'[a].tool = "checkout"
         /\ call'[a].stage \in {"reading", "ordering"}
         /\ call'[a].stage = "ordering" => \A s \in Skus : call'[a].cart[s] <= asked'[of[a]][s]
         /\ call'[a].key \in Keys /\ call'[a].key \in 1..issued' /\ owner'[call'[a].key] = of[a]
         /\ UNCHANGED <<orderVars, carts, completing, cutOff, emptied>>
<1>0. of[a] \in Conversations /\ \A s \in Skus : asked[of[a]][s] \in Nat
  BY DEF Typed, ClientsTyped, Carts
<1>1. ASSUME NEW c \in Calls, Begin(a, c), c.tool = "checkout", c.stage \in {"reading", "ordering"},
             c.stage = "ordering" => \A s \in Skus : c.cart[s] <= asked'[of[a]][s]
      PROVE  /\ Others(a) /\ call[a].stage = "idle"
             /\ call'[a] \in Calls /\ call'[a].tool = "checkout"
             /\ call'[a].stage \in {"reading", "ordering"}
             /\ call'[a].stage = "ordering" => \A s \in Skus : call'[a].cart[s] <= asked'[of[a]][s]
             /\ call'[a].key \in Keys /\ call'[a].key \in 1..issued' /\ owner'[call'[a].key] = of[a]
             /\ UNCHANGED <<orderVars, carts, completing, cutOff, emptied>>
  <2>1. PICK k \in Keys : k \in 1..issued' /\ owner'[k] = of[a] /\ call' = [call EXCEPT ![a] = [c EXCEPT !.key = k]]
    BY <1>1, Begun
  <2> DEFINE r == [c EXCEPT !.key = k]
  <2>2. r \in Calls /\ r.stage = c.stage /\ r.tool = c.tool /\ r.cart = c.cart /\ r.key = k
    BY <1>1, <2>1 DEF Calls
  <2> HIDE DEF r
  <2>3. call'[a] = r /\ Others(a)
    BY <2>1, <2>2 DEF r, Others, Typed, CallsTyped
  <2>4. call[a].stage = "idle" /\ UNCHANGED <<orderVars, carts, completing, cutOff, emptied>>
    BY <1>1 DEF Begin
  <2> QED
    BY <1>1, <2>1, <2>2, <2>3, <2>4
<1>2. CASE Checkout(a)
  <2> DEFINE c == [Idle EXCEPT !.stage = "reading", !.tool = "checkout"]
  <2>1. c \in Calls /\ c.tool = "checkout" /\ c.stage = "reading" /\ Begin(a, c)
    BY <1>2, BeginRecords DEF Checkout, Idle
  <2> HIDE DEF c
  <2> QED
    BY <2>1, <1>1
<1>3. ASSUME NEW sku \in Skus, CheckoutItems(a, sku)
      PROVE  \E c \in Calls : /\ Begin(a, c) /\ c.tool = "checkout" /\ c.stage = "ordering"
                              /\ \A s \in Skus : c.cart[s] <= asked'[of[a]][s]
  <2> DEFINE one == [Empty EXCEPT ![sku] = 1]
             c == [Idle EXCEPT !.stage = "ordering", !.tool = "checkout", !.cart = one]
  <2>1. c \in Calls /\ Begin(a, c) /\ asked' = [asked EXCEPT ![of[a]][sku] = @ + 1]
    BY <1>3, BeginRecords DEF CheckoutItems
  <2>2. c.tool = "checkout" /\ c.stage = "ordering" /\ c.cart = one
    BY DEF Idle
  <2>3. \A s \in Skus : one[s] = IF s = sku THEN 1 ELSE 0
    BY DEF Empty
  <2> HIDE DEF c, one
  <2>4. /\ asked'[of[a]][sku] = asked[of[a]][sku] + 1
        /\ \A s \in Skus : asked[of[a]][s] <= asked'[of[a]][s]
        /\ asked' \in [Conversations -> Carts]
    BY <1>0, <2>1, AskingMore DEF Typed
  <2>5. \A s \in Skus : asked'[of[a]][s] \in Nat
    BY <1>0, <2>4 DEF Carts
  <2>6. \A s \in Skus : one[s] <= asked'[of[a]][s]
    BY <1>0, <2>3, <2>4, <2>5
  <2> QED
    BY <2>1, <2>2, <2>6
<1> QED
  BY <1>1, <1>2, <1>3

\* A call reads the cart: it goes on with a copy, or ends when there is nothing to check out.
LEMMA CartRead ==
  ASSUME Typed, Owned, NEW a \in Callers, ReadCart(a)
  PROVE  /\ Others(a) /\ call[a].stage = "reading" /\ call[a].key \in Keys
         /\ UNCHANGED <<orderVars, carts, completing, cutOff, emptied, owner, asked, of, issued>>
         /\ \/ call'[a] = Idle
            \/ /\ call'[a] \in Calls /\ call'[a].cart = carts[call[a].key]
               /\ call'[a].key = call[a].key /\ call'[a].tool = call[a].tool
               /\ call'[a].sku = call[a].sku /\ call'[a].quantity = call[a].quantity
               /\ \/ call'[a].stage = "writing" /\ call[a].tool # "checkout"
                  \/ call'[a].stage = "ordering" /\ call[a].tool = "checkout"
<1> DEFINE cart == carts[call[a].key]
<1>0. /\ call[a].stage = "reading" /\ issued \in 0..MaxKeys
      /\ UNCHANGED <<orderVars, carts, completing, cutOff, emptied>>
  BY DEF ReadCart, Typed, ClientsTyped
<1>1. call[a].key \in Keys
  BY <1>0, BoundsAssumption DEF Owned, Keys
<1>2. cart \in Carts
  BY <1>1 DEF Typed, CartsTyped
<1>3. CASE Answer(a)
  <2>1. call'[a] = Idle /\ Others(a)
    BY <1>0, <1>3, Answered, BeginRecords DEF Others, Typed, CallsTyped
  <2>2. UNCHANGED <<owner, asked, of, issued>>
    BY <1>3 DEF Answer
  <2> QED
    BY <1>0, <1>1, <2>1, <2>2
<1>4. ASSUME NEW stage \in {"writing", "ordering"}, UNCHANGED clientVars,
             call' = [call EXCEPT ![a].stage = stage, ![a].cart = cart]
      PROVE  /\ Others(a) /\ UNCHANGED <<owner, asked, of, issued>>
             /\ call'[a] \in Calls /\ call'[a].cart = cart /\ call'[a].stage = stage
             /\ call'[a].key = call[a].key /\ call'[a].tool = call[a].tool
             /\ call'[a].sku = call[a].sku /\ call'[a].quantity = call[a].quantity
  <2> HIDE DEF cart
  <2> DEFINE r == [call[a] EXCEPT !.stage = stage, !.cart = cart]
  <2>1. r \in Calls /\ r.key = call[a].key /\ r.tool = call[a].tool
    BY <1>2 DEF Typed, CallsTyped, Calls, Stages
  <2>2. r.sku = call[a].sku /\ r.quantity = call[a].quantity /\ r.stage = stage /\ r.cart = cart
    BY DEF Typed, CallsTyped, Calls
  <2>3. call' = [call EXCEPT ![a] = r]
    BY <1>4 DEF Typed, CallsTyped, Calls
  <2> HIDE DEF r
  <2>4. call'[a] = r /\ Others(a)
    BY <2>1, <2>3 DEF Others, Typed, CallsTyped
  <2>5. UNCHANGED <<owner, asked, of, issued>>
    BY <1>4 DEF clientVars
  <2> QED
    BY <2>1, <2>2, <2>4, <2>5
<1>5. CASE /\ call[a].tool # "checkout"
           /\ UNCHANGED clientVars
           /\ call' = [call EXCEPT ![a].stage = "writing", ![a].cart = cart]
  BY <1>0, <1>1, <1>4, <1>5
<1>6. CASE /\ call[a].tool = "checkout"
           /\ UNCHANGED clientVars
           /\ call' = [call EXCEPT ![a].stage = "ordering", ![a].cart = cart]
  BY <1>0, <1>1, <1>4, <1>6
<1> QED
  BY <1>3, <1>5, <1>6 DEF ReadCart

\* A call stores the order it read the lines of.
LEMMA OrderStored ==
  ASSUME Typed, NEW a \in Callers, NEW o \in Orders \ DOMAIN created,
         call[a].stage = "ordering",
         created' = [p \in DOMAIN created \cup {o} |-> IF p = o THEN call[a].cart ELSE created[p]],
         call' = [call EXCEPT ![a].stage = "mapping", ![a].sku = o]
  PROVE  /\ Others(a)
         /\ call'[a] \in Calls /\ call'[a].stage = "mapping" /\ call'[a].sku = o
         /\ call'[a].key = call[a].key
         /\ DOMAIN created' = DOMAIN created \cup {o}
         /\ created'[o] = call[a].cart /\ \A p \in DOMAIN created : created'[p] = created[p]
<1> DEFINE r == [call[a] EXCEPT !.stage = "mapping", !.sku = o]
<1>1. r \in Calls /\ r.stage = "mapping" /\ r.sku = o /\ r.key = call[a].key
  BY DEF Typed, CallsTyped, Calls, Stages
<1>2. call' = [call EXCEPT ![a] = r]
  BY DEF Typed, CallsTyped, Calls
<1> HIDE DEF r
<1>3. call'[a] = r /\ Others(a)
  BY <1>1, <1>2 DEF Others, Typed, CallsTyped
<1> QED
  BY <1>1, <1>3

\* A completion empties a cart: the edits that had read it are stale from then on.
LEMMA CartEmptied ==
  ASSUME Typed, NEW o \in Orders, NEW r \in Rails, NEW k, k = completing[<<o, r>>].key, EmptyCart(o, r)
  PROVE  \A b \in Callers :
           /\ call'[b] \in Calls /\ call'[b].stage = call[b].stage /\ call'[b].key = call[b].key
           /\ call'[b].tool = call[b].tool /\ call'[b].sku = call[b].sku
           /\ call'[b].quantity = call[b].quantity /\ call'[b].cart = call[b].cart
           /\ call'[b].stage = "writing" /\ call'[b].key = k => call'[b].stale
           /\ ~call'[b].stale => ~call[b].stale
<1>1. call' = [c \in DOMAIN call |->
        IF call[c].stage = "writing" /\ call[c].key = k THEN [call[c] EXCEPT !.stale = TRUE] ELSE call[c]]
  BY DEF EmptyCart
<1>2. SUFFICES ASSUME NEW b \in Callers
      PROVE /\ call'[b] \in Calls /\ call'[b].stage = call[b].stage /\ call'[b].key = call[b].key
            /\ call'[b].tool = call[b].tool /\ call'[b].sku = call[b].sku
            /\ call'[b].quantity = call[b].quantity /\ call'[b].cart = call[b].cart
            /\ call'[b].stage = "writing" /\ call'[b].key = k => call'[b].stale
            /\ ~call'[b].stale => ~call[b].stale
  OBVIOUS
<1> DEFINE c == call[b]
           d == [c EXCEPT !.stale = TRUE]
<1>3. c \in Calls /\ call'[b] = IF c.stage = "writing" /\ c.key = k THEN d ELSE c
  BY <1>1 DEF Typed, CallsTyped
<1>4. d \in Calls /\ d.stage = c.stage /\ d.key = c.key /\ d.tool = c.tool /\ d.sku = c.sku
  BY <1>3 DEF Calls
<1>5. d.quantity = c.quantity /\ d.cart = c.cart /\ d.stale
  BY <1>3 DEF Calls
<1> HIDE DEF d
<1>6. CASE c.stage = "writing" /\ c.key = k
  <2>1. call'[b] = d
    BY <1>3, <1>6
  <2> QED
    BY <2>1, <1>4, <1>5
<1>7. CASE ~(c.stage = "writing" /\ c.key = k)
  <2>1. call'[b] = c
    BY <1>3, <1>7
  <2> QED
    BY <2>1, <1>3, <1>7
<1> QED
  BY <1>6, <1>7

-----------------------------------------------------------------------------
(* Types *)

\* The cart an edit writes.
LEMMA ChangedTyped ==
  ASSUME NEW c \in Calls, c.sku \in Skus
  PROVE  /\ Changed(c) \in Carts
         /\ Changed(c)[c.sku] = IF c.tool = "add" THEN c.cart[c.sku] + c.quantity ELSE c.quantity
         /\ \A s \in Skus : s # c.sku => Changed(c)[s] = c.cart[s]
<1>1. c.cart \in [Skus -> Nat] /\ c.quantity \in Nat
  BY DEF Calls, Carts
<1>2. c.cart[c.sku] \in Nat
  BY <1>1
<1> QED
  BY <1>1, <1>2 DEF Changed, Carts

\* Calls keep their shape.
LEMMA CallsKept ==
  ASSUME Typed, Owned, [StorefrontNext]_storefrontVars
  PROVE  CallsTyped'
\* One call begins, moves on or ends.
<1>1. ASSUME NEW a \in Callers, Others(a),
             Editing(call'[a]) => call'[a].sku \in Skus,
             call'[a].stage = "writing" => call'[a].tool # "checkout"
      PROVE  CallsTyped'
  <2>1. call' \in [Callers -> Calls] /\ \A b \in Callers : b # a => call'[b] = call[b]
    BY <1>1 DEF Others
  <2>2. \A b \in Callers : Editing(call'[b]) => call'[b].sku \in Skus
    BY <1>1, <2>1 DEF Typed, CallsTyped
  <2>3. \A b \in Callers : call'[b].stage = "writing" => call'[b].tool # "checkout"
    BY <1>1, <2>1 DEF Typed, CallsTyped
  <2> QED
    BY <2>1, <2>2, <2>3 DEF CallsTyped
\* No call changes.
<1>2. ASSUME call' = call
      PROVE  CallsTyped'
  BY <1>2 DEF Typed, CallsTyped
<1>3. Idle.stage = "idle" /\ Idle \in Calls
  BY BeginRecords DEF Idle
<1>4. ASSUME NEW a \in Callers, Answer(a)
      PROVE  CallsTyped'
  <2>1. call' = [call EXCEPT ![a] = Idle]
    BY <1>4 DEF Answer
  <2>2. Others(a) /\ call'[a] = Idle
    BY <1>3, <2>1 DEF Others, Typed, CallsTyped
  <2> QED
    BY <1>1, <1>3, <2>2 DEF Editing
<1>5. ASSUME NEW v \in Conversations, Initialize(v) \/ UnknownCartId(v)
      PROVE  CallsTyped'
  BY <1>2, <1>5 DEF Initialize, UnknownCartId
<1>6. ASSUME NEW a \in Callers, Look(a)
      PROVE  CallsTyped'
  BY <1>2, <1>6 DEF Look
<1>7. ASSUME NEW a \in Callers, NEW tool \in {"add", "set"}, NEW sku \in Skus, NEW n \in 0..MaxAsked,
             Edit(a, tool, sku, n)
      PROVE  CallsTyped'
  <2>1. Others(a) /\ call'[a].stage = "reading" /\ call'[a].sku = sku
    BY <1>7, EditBegun
  <2> QED
    BY <2>1, <1>1
<1>8. ASSUME NEW a \in Callers, Checkout(a) \/ \E sku \in Skus : CheckoutItems(a, sku)
      PROVE  CallsTyped'
  <2>1. Others(a) /\ call'[a].tool = "checkout" /\ call'[a].stage \in {"reading", "ordering"}
    BY <1>8, CheckoutBegun
  <2> QED
    BY <2>1, <1>1 DEF Editing
<1>9. ASSUME NEW a \in Callers, ReadCart(a)
      PROVE  CallsTyped'
  <2>1. CASE call'[a] = Idle
    BY <2>1, <1>1, <1>3, <1>9, CartRead DEF Editing
  <2>2. CASE call'[a].stage = "ordering"
    BY <2>2, <1>1, <1>9, CartRead DEF Editing
  <2>3. CASE /\ call'[a].stage = "writing" /\ call[a].tool # "checkout"
             /\ call'[a].tool = call[a].tool /\ call'[a].sku = call[a].sku
    <3>1. call[a].stage = "reading" /\ Others(a)
      BY <1>9, CartRead
    <3>2. call[a].sku \in Skus
      BY <3>1, <2>3 DEF Editing, Typed, CallsTyped
    <3> QED
      BY <3>1, <3>2, <2>3, <1>1
  <2> QED
    BY <2>1, <2>2, <2>3, <1>9, CartRead
<1>10. ASSUME NEW a \in Callers, WriteCart(a) \/ MapCart(a)
       PROVE  CallsTyped'
  BY <1>4, <1>10 DEF WriteCart, MapCart
<1>11. ASSUME NEW a \in Callers, StoreOrder(a)
       PROVE  CallsTyped'
  <2>1. Others(a) /\ call'[a].stage = "mapping"
    BY <1>11, OrderStored DEF StoreOrder
  <2> QED
    BY <2>1, <1>1 DEF Editing
<1>12. ASSUME NEW o \in Orders, BeginRail(o) \/ BeginPlace(o)
       PROVE  CallsTyped'
  BY <1>2, <1>12 DEF BeginRail, BeginPlace
<1>13. ASSUME NEW o \in Orders, NEW r \in Rails, Record(o, r) \/ Unmap(o, r) \/ Forget(o, r)
       PROVE  CallsTyped'
  BY <1>2, <1>13 DEF Record, Unmap, Forget
<1>14. ASSUME NEW o \in Orders, NEW r \in Rails, EmptyCart(o, r)
       PROVE  CallsTyped'
  <2>1. \A b \in Callers : /\ call'[b] \in Calls /\ call'[b].stage = call[b].stage
                           /\ call'[b].tool = call[b].tool /\ call'[b].sku = call[b].sku
    BY <1>14, CartEmptied
  <2>2. call' = [c \in Callers |-> call'[c]]
    <3>1. DOMAIN call = Callers
      BY DEF Typed, CallsTyped
    <3> QED
      BY <1>14, <3>1 DEF EmptyCart
  <2>3. call' \in [Callers -> Calls]
    BY <2>1, <2>2
  <2>4. \A b \in Callers : Editing(call'[b]) => call'[b].sku \in Skus
    BY <2>1 DEF Editing, Typed, CallsTyped
  <2>5. \A b \in Callers : call'[b].stage = "writing" => call'[b].tool # "checkout"
    BY <2>1 DEF Typed, CallsTyped
  <2> QED
    BY <2>3, <2>4, <2>5 DEF CallsTyped
<1>15. CASE Restart
  <2>1. call' = [c \in Callers |-> Idle]
    BY <1>15 DEF Restart, Typed, CallsTyped
  <2> QED
    BY <2>1, <1>3 DEF CallsTyped, Editing
<1>16. CASE UNCHANGED storefrontVars
  BY <1>16, <1>2 DEF storefrontVars
<1> QED
  BY <1>5, <1>6, <1>7, <1>8, <1>9, <1>10, <1>11, <1>12, <1>13, <1>14, <1>15, <1>16
     DEF StorefrontNext, CallStep, CompletionStep

\* The stores keep their shape.
LEMMA StoresKept ==
  ASSUME Typed, Owned, Bought, [StorefrontNext]_storefrontVars
  PROVE  OrdersTyped' /\ CartsTyped'
<1>1. ASSUME UNCHANGED <<carts, emptied>>
      PROVE  CartsTyped'
  BY <1>1 DEF emptied, Typed, CartsTyped
<1>2. ASSUME UNCHANGED <<orderVars, completing>>
      PROVE  OrdersTyped'
  BY <1>2 DEF orderVars, Typed, OrdersTyped
<1>3. ASSUME NEW d \in Orders \X Rails, NEW c \in Completions,
             completing' = [completing EXCEPT ![d] = c]
      PROVE  completing' \in [Orders \X Rails -> Completions]
  BY <1>3 DEF Typed, OrdersTyped
<1>4. ASSUME NEW o \in Orders, NEW r \in Rails,
             NEW stage \in {"none", "recording", "unmapping", "emptying", "forgetting"},
             Pass(o, r, stage)
      PROVE  completing' \in [Orders \X Rails -> Completions]
  <2> DEFINE d == <<o, r>>
             c == [completing[d] EXCEPT !.stage = stage]
  <2>1. d \in Orders \X Rails
    OBVIOUS
  <2>2. c \in Completions
    BY <2>1 DEF Typed, OrdersTyped, Completions
  <2>3. completing' = [completing EXCEPT ![d] = c]
    BY <1>4, <2>1 DEF Pass, Typed, OrdersTyped, Completions
  <2> HIDE DEF c, d
  <2> QED
    BY <2>1, <2>2, <2>3, <1>3
<1>5. NotCompleting \in Completions
  BY DEF NotCompleting, Completions
<1>6. ASSUME NEW v \in Conversations, Initialize(v) \/ UnknownCartId(v)
      PROVE  OrdersTyped' /\ CartsTyped'
  BY <1>6, <1>1, <1>2 DEF Initialize, UnknownCartId
<1>7. ASSUME NEW a \in Callers, Look(a)
      PROVE  OrdersTyped' /\ CartsTyped'
  BY <1>7, <1>1, <1>2 DEF Look
<1>8. ASSUME NEW a \in Callers, NEW tool \in {"add", "set"}, NEW sku \in Skus, NEW n \in 0..MaxAsked,
             Edit(a, tool, sku, n)
      PROVE  OrdersTyped' /\ CartsTyped'
  BY <1>8, <1>1, <1>2 DEF Edit, Begin
<1>9. ASSUME NEW a \in Callers, Checkout(a) \/ \E sku \in Skus : CheckoutItems(a, sku)
      PROVE  OrdersTyped' /\ CartsTyped'
  BY <1>9, <1>1, <1>2 DEF Checkout, CheckoutItems, Begin
<1>10. ASSUME NEW a \in Callers, ReadCart(a)
       PROVE  OrdersTyped' /\ CartsTyped'
  BY <1>10, <1>1, <1>2 DEF ReadCart
<1>11. ASSUME NEW a \in Callers, WriteCart(a)
       PROVE  OrdersTyped' /\ CartsTyped'
  <2> DEFINE c == call[a]
  <2>1. /\ c.stage = "writing" /\ carts' = [carts EXCEPT ![c.key] = Changed(c)]
        /\ edited' = [edited EXCEPT ![c.key] = @ \cup {c.sku}]
        /\ undone' = IF c.stale THEN undone \cup {c.key} ELSE undone
        /\ UNCHANGED <<orderVars, completing>>
    BY <1>11 DEF WriteCart
  <2>2. c \in Calls /\ c.sku \in Skus
    BY <2>1 DEF Typed, CallsTyped, Editing
  <2>3. Changed(c) \in Carts
    BY <2>2, ChangedTyped
  <2>4. c.key \in Keys
    BY <2>1, BoundsAssumption DEF Owned, Keys, Typed, ClientsTyped
  <2> HIDE DEF c
  <2>5. CartsTyped'
    BY <2>1, <2>2, <2>3, <2>4 DEF Typed, CartsTyped
  <2> QED
    BY <2>1, <2>5, <1>2
<1>12. ASSUME NEW a \in Callers, StoreOrder(a)
       PROVE  OrdersTyped' /\ CartsTyped'
  <2>1. PICK o \in Orders \ DOMAIN created :
          /\ created' = [p \in DOMAIN created \cup {o} |-> IF p = o THEN call[a].cart ELSE created[p]]
          /\ UNCHANGED <<orderCarts, offered, records, carts, completing, emptied>>
    BY <1>12 DEF StoreOrder
  <2>2. call[a].cart \in Carts
    BY DEF Typed, CallsTyped, Calls
  <2>3. DOMAIN created' = DOMAIN created \cup {o}
    BY <2>1
  <2>4. created' \in [DOMAIN created' -> Carts]
    BY <2>1, <2>2, <2>3 DEF Typed, OrdersTyped
  <2>5. OrdersTyped'
    BY <2>1, <2>3, <2>4 DEF Typed, OrdersTyped
  <2> QED
    BY <2>1, <2>5, <1>1
<1>13. ASSUME NEW a \in Callers, MapCart(a)
       PROVE  OrdersTyped' /\ CartsTyped'
  <2>1. /\ call[a].stage = "mapping" /\ orderCarts' = [orderCarts EXCEPT ![call[a].sku] = call[a].key]
        /\ offered' = offered \cup {call[a].sku}
        /\ UNCHANGED <<created, records, carts, completing, emptied>>
    BY <1>13 DEF MapCart
  <2>2. call[a].sku \in DOMAIN created /\ call[a].key \in Keys \cup {NoKey}
    BY <2>1 DEF Bought, Buying, Typed, CallsTyped, Calls
  <2>3. OrdersTyped'
    BY <2>1, <2>2 DEF Typed, OrdersTyped
  <2> QED
    BY <2>1, <2>3, <1>1
<1>14. ASSUME NEW o \in Orders, BeginRail(o) \/ BeginPlace(o)
       PROVE  OrdersTyped' /\ CartsTyped'
  <2>1. /\ UNCHANGED <<orderVars, carts, emptied>>
        /\ \E r \in Rails : Pass(o, r, "recording")
    BY <1>14 DEF BeginRail, BeginPlace, Rails
  <2>2. completing' \in [Orders \X Rails -> Completions]
    BY <2>1, <1>4
  <2> QED
    BY <2>1, <2>2, <1>1 DEF orderVars, Typed, OrdersTyped
<1>15. ASSUME NEW o \in Orders, NEW r \in Rails, Record(o, r)
       PROVE  OrdersTyped' /\ CartsTyped'
  <2>1. /\ UNCHANGED <<created, orderCarts, offered, carts, emptied>>
        /\ records' = [records EXCEPT ![o] = r] /\ Pass(o, r, "unmapping")
    BY <1>15 DEF Record
  <2>2. completing' \in [Orders \X Rails -> Completions]
    BY <2>1, <1>4
  <2>3. OrdersTyped'
    BY <2>1, <2>2 DEF Typed, OrdersTyped
  <2> QED
    BY <2>1, <2>3, <1>1
<1>16. ASSUME NEW o \in Orders, NEW r \in Rails, Unmap(o, r)
       PROVE  OrdersTyped' /\ CartsTyped'
  <2> DEFINE d == <<o, r>>
             c == IF orderCarts[o] = NoKey THEN NotCompleting ELSE [stage |-> "emptying", key |-> orderCarts[o]]
  <2>1. UNCHANGED <<orderVars, carts, emptied>> /\ completing' = [completing EXCEPT ![d] = c]
    BY <1>16 DEF Unmap
  <2>2. d \in Orders \X Rails /\ c \in Completions
    BY <1>5 DEF Completions, Typed, OrdersTyped
  <2> HIDE DEF d, c
  <2>3. completing' \in [Orders \X Rails -> Completions]
    BY <2>1, <2>2, <1>3
  <2> QED
    BY <2>1, <2>3, <1>1 DEF orderVars, Typed, OrdersTyped
<1>17. ASSUME NEW o \in Orders, NEW r \in Rails, EmptyCart(o, r)
       PROVE  OrdersTyped' /\ CartsTyped'
  <2> DEFINE k == completing[<<o, r>>].key
  <2>1. /\ carts' = [carts EXCEPT ![k] = Empty]
        /\ edited' = [edited EXCEPT ![k] = {}]
        /\ undone' = undone \ {k}
        /\ Pass(o, r, "forgetting") /\ UNCHANGED orderVars
    BY <1>17 DEF EmptyCart
  <2>2. completing' \in [Orders \X Rails -> Completions]
    BY <2>1, <1>4
  <2>3. Empty \in Carts
    BY DEF Empty, Carts
  <2> HIDE DEF k
  <2>4. CartsTyped'
    BY <2>1, <2>3 DEF Typed, CartsTyped
  <2> QED
    BY <2>1, <2>2, <2>4 DEF orderVars, Typed, OrdersTyped
<1>18. ASSUME NEW o \in Orders, NEW r \in Rails, Forget(o, r)
       PROVE  OrdersTyped' /\ CartsTyped'
  <2> DEFINE d == <<o, r>>
  <2>1. /\ orderCarts' = [orderCarts EXCEPT ![o] = NoKey]
        /\ completing' = [completing EXCEPT ![d] = NotCompleting]
        /\ UNCHANGED <<created, offered, records, carts, emptied>>
    BY <1>18 DEF Forget
  <2>2. d \in Orders \X Rails
    OBVIOUS
  <2> HIDE DEF d
  <2>3. completing' \in [Orders \X Rails -> Completions]
    BY <2>1, <2>2, <1>3, <1>5
  <2>4. OrdersTyped'
    BY <2>1, <2>3 DEF Typed, OrdersTyped
  <2> QED
    BY <2>1, <2>4, <1>1
<1>19. CASE Restart
  <2>1. /\ UNCHANGED <<orderVars, carts, emptied>>
        /\ completing' = [d \in Orders \X Rails |-> NotCompleting]
    BY <1>19 DEF Restart, Typed, OrdersTyped
  <2>2. completing' \in [Orders \X Rails -> Completions]
    BY <2>1, <1>5
  <2> QED
    BY <2>1, <2>2, <1>1 DEF orderVars, Typed, OrdersTyped
<1>20. CASE UNCHANGED storefrontVars
  BY <1>20, <1>1, <1>2 DEF storefrontVars
<1> QED
  BY <1>6, <1>7, <1>8, <1>9, <1>10, <1>11, <1>12, <1>13, <1>14, <1>15, <1>16, <1>17, <1>18, <1>19, <1>20
     DEF StorefrontNext, CallStep, CompletionStep

-----------------------------------------------------------------------------
(* Carts are backed by what was asked for *)

\* Units asked for stay asked for.
LEMMA UnitsGrow ==
  ASSUME Typed, ClientsTyped', Grows, NEW k, NEW s \in Skus
  PROVE  Units(k, s) \subseteq Units(k, s)'
<1>1. CASE k \in 1..issued
  <2>1. issued \in Nat /\ issued' \in Nat /\ issued <= issued'
    BY BoundsAssumption DEF Typed, ClientsTyped, Grows
  <2>2. k \in 1..issued' /\ owner'[k] = owner[k] /\ owner[k] \in Conversations
    BY <1>1, <2>1 DEF Grows, Typed, ClientsTyped
  <2>3. asked[owner[k]][s] \in Nat /\ asked'[owner[k]][s] \in Nat
    BY <2>2 DEF Typed, ClientsTyped, Carts
  <2>4. asked[owner[k]][s] <= asked'[owner[k]][s]
    BY <2>2 DEF Grows
  <2>5. 1..asked[owner[k]][s] \subseteq 1..asked'[owner[k]][s]
    BY <2>3, <2>4
  <2> QED
    BY <1>1, <2>2, <2>5 DEF Units
<1>2. CASE k \notin 1..issued
  BY <1>2 DEF Units
<1> QED
  BY <1>1, <1>2

\* A set of units is finite, and no larger than what was asked for.
LEMMA UnitsCount ==
  ASSUME Typed, NEW k, NEW s \in Skus, NEW S \in SUBSET Units(k, s)
  PROVE  /\ IsFiniteSet(S) /\ Cardinality(S) \in Nat
         /\ k \in 1..issued => Cardinality(S) <= asked[owner[k]][s]
         /\ k \notin 1..issued => Cardinality(S) = 0
<1>1. CASE k \in 1..issued
  <2> DEFINE n == asked[owner[k]][s]
  <2>1. n \in Nat
    BY <1>1 DEF Typed, ClientsTyped, Carts
  <2>2. S \subseteq 1..n
    BY <1>1 DEF Units
  <2> HIDE DEF n
  <2>3. IsFiniteSet(1..n) /\ Cardinality(1..n) = n
    BY <2>1, FS_Interval
  <2>4. IsFiniteSet(S) /\ Cardinality(S) <= n
    BY <2>2, <2>3, FS_Subset
  <2>5. Cardinality(S) \in Nat
    BY <2>4, FS_CardinalityType
  <2> QED
    BY <1>1, <2>4, <2>5 DEF n
<1>2. CASE k \notin 1..issued
  <2>1. S = {}
    BY <1>2 DEF Units
  <2> QED
    BY <1>2, <2>1, FS_EmptySet
<1> QED
  BY <1>1, <1>2

\* An edit that was pending before is the same edit.
SameEdit(b) ==
  /\ Editing(call[b])
  /\ call'[b].key = call[b].key
  /\ call'[b].sku = call[b].sku
  /\ call'[b].quantity = call[b].quantity

\* An edit begins with units that nobody had asked for.
FreshEdit(b, units) ==
  /\ units \cap Units(call'[b].key, call'[b].sku) = {}
  /\ units \subseteq Units(call[b].key, call[b].sku)'
  /\ call'[b].quantity <= Cardinality(units)

\* Pending edits go on, and at most one begins, with fresh units.
EditsGoOn(U, V, A) ==
  /\ \A b, c \in A : b = c
  /\ \A b \in Callers : Editing(call'[b]) =>
       IF b \in A THEN FreshEdit(b, V[b]) ELSE SameEdit(b) /\ V[b] = U[b]

\* What backed a cart before a step backs it after the step.
LEMMA BacksStays ==
  ASSUME Typed, ClientsTyped', Grows, NEW U, NEW V, NEW A, EditsGoOn(U, V, A),
         NEW X, NEW cart, NEW k, Backs(X, cart, k, U)
  PROVE  Backs(X, cart, k, V)'
<1> SUFFICES ASSUME NEW s \in Skus
             PROVE  /\ X[s] \subseteq Units(k, s)'
                    /\ cart[s] <= Cardinality(X[s])
                    /\ \A b \in Callers :
                         (Editing(call'[b]) /\ call'[b].key = k /\ call'[b].sku = s) => X[s] \cap V[b] = {}
  BY DEF Backs, Editing
<1>1. X[s] \subseteq Units(k, s) /\ cart[s] <= Cardinality(X[s])
  BY DEF Backs
<1>2. X[s] \subseteq Units(k, s)'
  BY <1>1, UnitsGrow
<1>3. ASSUME NEW b \in Callers, Editing(call'[b]), call'[b].key = k, call'[b].sku = s
      PROVE  X[s] \cap V[b] = {}
  <2>1. CASE b \in A
    <3>1. V[b] \cap Units(k, s) = {}
      BY <1>3, <2>1 DEF EditsGoOn, FreshEdit
    <3> QED
      BY <1>1, <3>1
  <2>2. CASE b \notin A
    <3>1. V[b] = U[b] /\ Editing(call[b]) /\ call[b].key = k /\ call[b].sku = s
      BY <1>3, <2>2 DEF EditsGoOn, SameEdit
    <3> QED
      BY <3>1 DEF Backs
  <2> QED
    BY <2>1, <2>2
<1> QED
  BY <1>1, <1>2, <1>3

\* The units of pending edits stay apart.
LEMMA PendingStays ==
  ASSUME Typed, ClientsTyped', CallsTyped', Grows, NEW U, NEW V, NEW A, EditsGoOn(U, V, A), Pending(U)
  PROVE  Pending(V)'
<1>1. ASSUME NEW a \in Callers, Editing(call'[a])
      PROVE  V[a] \subseteq Units(call[a].key, call[a].sku)' /\ call'[a].quantity <= Cardinality(V[a])
  <2>1. CASE a \in A
    BY <1>1, <2>1 DEF EditsGoOn, FreshEdit
  <2>2. CASE a \notin A
    <3>1. V[a] = U[a] /\ SameEdit(a)
      BY <1>1, <2>2 DEF EditsGoOn
    <3>2. U[a] \subseteq Units(call[a].key, call[a].sku) /\ call[a].quantity <= Cardinality(U[a])
      BY <3>1 DEF SameEdit, Pending
    <3>3. PICK k, s : k = call[a].key /\ s = call[a].sku
      OBVIOUS
    <3>4. s \in Skus
      BY <3>1, <3>3 DEF SameEdit, Typed, CallsTyped
    <3>5. Units(k, s) \subseteq Units(k, s)'
      BY <3>4, UnitsGrow
    <3>6. Units(k, s)' = Units(call[a].key, call[a].sku)'
      BY <3>1, <3>3 DEF SameEdit, Units
    <3> QED
      BY <3>1, <3>2, <3>3, <3>5, <3>6 DEF SameEdit
  <2> QED
    BY <2>1, <2>2
<1>2. ASSUME NEW a \in Callers, NEW b \in Callers, a # b,
             Editing(call'[a]), Editing(call'[b]), call'[a].key = call'[b].key, call'[a].sku = call'[b].sku
      PROVE  V[a] \cap V[b] = {}
  <2>1. ASSUME NEW c \in Callers, NEW d \in Callers, c \in A, d \notin A,
               Editing(call'[c]), Editing(call'[d]), call'[c].key = call'[d].key, call'[c].sku = call'[d].sku
        PROVE  V[c] \cap V[d] = {}
    <3>1. V[c] \cap Units(call'[c].key, call'[c].sku) = {}
      BY <2>1 DEF EditsGoOn, FreshEdit
    <3>2. V[d] = U[d] /\ Editing(call[d]) /\ call[d].key = call'[c].key /\ call[d].sku = call'[c].sku
      BY <2>1 DEF EditsGoOn, SameEdit
    <3>3. U[d] \subseteq Units(call'[c].key, call'[c].sku)
      BY <3>2 DEF Pending
    <3> QED
      BY <3>1, <3>2, <3>3
  <2>2. CASE a \in A /\ b \in A
    BY <1>2, <2>2 DEF EditsGoOn
  <2>3. CASE a \notin A /\ b \notin A
    <3>1. /\ V[a] = U[a] /\ Editing(call[a]) /\ call[a].key = call'[a].key /\ call[a].sku = call'[a].sku
          /\ V[b] = U[b] /\ Editing(call[b]) /\ call[b].key = call'[b].key /\ call[b].sku = call'[b].sku
      BY <1>2, <2>3 DEF EditsGoOn, SameEdit
    <3> QED
      BY <1>2, <3>1 DEF Pending
  <2>4. CASE a \in A /\ b \notin A
    BY <1>2, <2>1, <2>4
  <2>5. CASE a \notin A /\ b \in A
    BY <1>2, <2>1, <2>5
  <2> QED
    BY <2>2, <2>3, <2>4, <2>5
<1> QED
  BY <1>1, <1>2 DEF Pending, Editing

\* Carts stay backed in a step that leaves each cart alone or backs what it puts there, and in
\* which an edit reads a cart or keeps what it has read.
LEMMA BackedStays ==
  ASSUME Typed, Typed', Grows, NEW U, NEW V, NEW A, EditsGoOn(U, V, A), BackedBy(U),
         \A k \in Keys : carts'[k] = carts[k] \/ \E X \in Backing : Backs(X, carts[k], k, V)',
         \A b \in Callers : call'[b].stage = "writing" =>
           \/ /\ call[b].stage = "writing"
              /\ call'[b].cart = call[b].cart /\ call'[b].key = call[b].key
           \/ call'[b].key \in Keys /\ call'[b].cart = carts[call'[b].key]
  PROVE  BackedBy(V)'
<1>0. ClientsTyped' /\ CallsTyped'
  BY DEF Typed
<1>1. Pending(V)'
  BY <1>0, PendingStays DEF BackedBy
<1>2. ASSUME NEW k \in Keys
      PROVE  \E X \in Backing : Backs(X, carts[k], k, V)'
  <2>1. CASE carts'[k] = carts[k]
    <3>1. PICK cart : cart = carts[k]
      OBVIOUS
    <3>2. PICK X \in Backing : Backs(X, cart, k, U)
      BY <3>1 DEF BackedBy
    <3>3. Backs(X, cart, k, V)'
      BY <1>0, <3>2, BacksStays
    <3>4. Backs(X, carts[k], k, V)'
      BY <2>1, <3>1, <3>3 DEF Backs
    <3> QED
      BY <3>4
  <2> QED
    BY <2>1
<1>3. ASSUME NEW b \in Callers, call'[b].stage = "writing"
      PROVE  \E X \in Backing : Backs(X, call[b].cart, call[b].key, V)'
  <2>1. PICK cart, k : cart = call'[b].cart /\ k = call'[b].key
    OBVIOUS
  <2>2. \E X \in Backing : Backs(X, cart, k, U)
    <3>1. CASE /\ call[b].stage = "writing"
               /\ call'[b].cart = call[b].cart /\ call'[b].key = call[b].key
      BY <2>1, <3>1 DEF BackedBy
    <3>2. CASE call'[b].key \in Keys /\ call'[b].cart = carts[call'[b].key]
      <4>1. k \in Keys /\ cart = carts[k]
        BY <2>1, <3>2
      <4>2. \E X \in Backing : Backs(X, carts[k], k, U)
        BY <4>1 DEF BackedBy
      <4> QED
        BY <4>1, <4>2
    <3> QED
      BY <1>3, <3>1, <3>2
  <2>3. PICK X \in Backing : Backs(X, cart, k, U)
    BY <2>2
  <2>4. Backs(X, cart, k, V)'
    BY <1>0, <2>3, BacksStays
  <2>5. Backs(X, call[b].cart, call[b].key, V)'
    BY <2>1, <2>4 DEF Backs
  <2> QED
    BY <2>5
<1> QED
  BY <1>1, <1>2, <1>3 DEF BackedBy

\* X backs what the call writes to the cart of key k, apart from what the other edits bring.
BacksWrite(X, a, k, U) ==
  \A s \in Skus :
    /\ X[s] \subseteq Units(k, s)
    /\ Changed(call[a])[s] <= Cardinality(X[s])
    /\ \A b \in Callers :
         (b # a /\ Editing(call[b]) /\ call[b].key = k /\ call[b].sku = s) => X[s] \cap U[b] = {}

\* A written cart is backed by what the edit had read and the units it brings.
LEMMA WrittenBacked ==
  ASSUME Typed, Owned, NEW U \in [Callers -> SUBSET Nat], BackedBy(U),
         NEW a \in Callers, call[a].stage = "writing", NEW k, k = call[a].key
  PROVE  \E X \in Backing : BacksWrite(X, a, k, U)
<1> DEFINE c == call[a]
           p == c.sku
<1>1. c \in Calls /\ p \in Skus /\ Editing(c)
  BY DEF Typed, CallsTyped, Editing
<1>2. PICK X \in Backing : Backs(X, c.cart, k, U)
  BY DEF BackedBy
<1>3. U[a] \in SUBSET Nat /\ U[a] \subseteq Units(k, p) /\ c.quantity <= Cardinality(U[a])
  BY <1>1 DEF BackedBy, Pending
<1>4. /\ \A s \in Skus : s # p => Changed(c)[s] = c.cart[s]
      /\ Changed(c)[p] = IF c.tool = "add" THEN c.cart[p] + c.quantity ELSE c.quantity
  BY <1>1, ChangedTyped
<1> DEFINE units == IF c.tool = "add" THEN X[p] \cup U[a] ELSE U[a]
           Y == [X EXCEPT ![p] = units]
<1>5. X[p] \subseteq Units(k, p) /\ c.cart[p] <= Cardinality(X[p]) /\ X[p] \cap U[a] = {}
  BY <1>1, <1>2 DEF Backs
<1>6. units \subseteq Units(k, p) /\ units \in SUBSET Nat
  BY <1>1, <1>2, <1>3, <1>5 DEF Backing
<1>7. c.cart[p] \in Nat /\ c.quantity \in Nat
  BY <1>1 DEF Calls, Carts
<1>8. Changed(c)[p] <= Cardinality(units)
  <2>1. IsFiniteSet(X[p]) /\ IsFiniteSet(U[a]) /\ Cardinality(X[p]) \in Nat /\ Cardinality(U[a]) \in Nat
    BY <1>1, <1>3, <1>5, UnitsCount
  <2>2. CASE c.tool = "add"
    <3> DEFINE S == X[p]
               T == U[a]
    <3>1. S \cap T = {} /\ c.cart[p] <= Cardinality(S) /\ c.quantity <= Cardinality(T)
      BY <1>3, <1>5
    <3>2. units = S \cup T /\ Changed(c)[p] = c.cart[p] + c.quantity
      BY <2>2, <1>4
    <3>3. IsFiniteSet(S) /\ IsFiniteSet(T) /\ Cardinality(S) \in Nat /\ Cardinality(T) \in Nat
      BY <2>1
    <3> HIDE DEF S, T, units
    <3>4. Cardinality(S \cup T) = Cardinality(S) + Cardinality(T) - Cardinality(S \cap T)
      BY <3>3, FS_Union
    <3>5. Cardinality(S \cap T) = 0
      BY <3>1, FS_EmptySet
    <3>6. Cardinality(units) = Cardinality(S) + Cardinality(T)
      BY <3>2, <3>3, <3>4, <3>5
    <3>7. c.cart[p] + c.quantity <= Cardinality(S) + Cardinality(T)
      BY <1>7, <3>1, <3>3
    <3> QED
      BY <3>2, <3>6, <3>7
  <2>3. CASE c.tool # "add"
    BY <2>3, <1>3, <1>4
  <2> QED
    BY <2>2, <2>3
<1>9. ASSUME NEW b \in Callers, b # a, Editing(call[b]), call[b].key = k, call[b].sku = p
      PROVE  units \cap U[b] = {}
  <2>1. U[a] \cap U[b] = {}
    BY <1>1, <1>9 DEF BackedBy, Pending
  <2>2. X[p] \cap U[b] = {}
    BY <1>1, <1>2, <1>9 DEF Backs
  <2> QED
    BY <2>1, <2>2
<1> HIDE DEF units
<1>10. Y \in Backing /\ Y[p] = units /\ \A s \in Skus : s # p => Y[s] = X[s]
  BY <1>1, <1>2, <1>6 DEF Backing
<1> HIDE DEF Y
<1>11. ASSUME NEW s \in Skus
       PROVE  /\ Y[s] \subseteq Units(k, s)
              /\ Changed(c)[s] <= Cardinality(Y[s])
              /\ \A b \in Callers :
                   (b # a /\ Editing(call[b]) /\ call[b].key = k /\ call[b].sku = s) => Y[s] \cap U[b] = {}
  <2>1. CASE s = p
    BY <2>1, <1>6, <1>8, <1>9, <1>10
  <2>2. CASE s # p
    BY <2>2, <1>2, <1>4, <1>10 DEF Backs
  <2> QED
    BY <2>1, <2>2
<1> QED
  BY <1>10, <1>11 DEF BacksWrite

\* Every step leaves the carts backed.
LEMMA BackedKept ==
  ASSUME Typed, Typed', Owned, Backed, Grows, [StorefrontNext]_storefrontVars
  PROVE  Backed'
<1>0. PICK U \in [Callers -> SUBSET Nat] : BackedBy(U)
  BY DEF Backed
\* No edit begins: those there are go on, or end.
<1>1. ASSUME \A b \in Callers : Editing(call'[b]) => SameEdit(b),
             \A k \in Keys : carts'[k] = carts[k] \/ \E X \in Backing : Backs(X, carts[k], k, U)',
             \A b \in Callers : call'[b].stage = "writing" =>
               \/ /\ call[b].stage = "writing"
                  /\ call'[b].cart = call[b].cart /\ call'[b].key = call[b].key
               \/ call'[b].key \in Keys /\ call'[b].cart = carts[call'[b].key]
      PROVE  Backed'
  <2>1. EditsGoOn(U, U, {})
    BY <1>1 DEF EditsGoOn
  <2>2. BackedBy(U)'
    BY <1>0, <1>1, <2>1, BackedStays
  <2> QED
    BY <1>0, <2>2 DEF Backed
\* The carts stay, and one call moves on, no edit of it beginning.
<1>2. ASSUME NEW a \in Callers, Others(a), carts' = carts, ~Editing(call'[a])
      PROVE  Backed'
  <2>1. \A b \in Callers : b # a => call'[b] = call[b]
    BY <1>2 DEF Others
  <2>2. \A b \in Callers : Editing(call'[b]) => SameEdit(b)
    BY <1>2, <2>1 DEF SameEdit
  <2>3. call'[a].stage # "writing"
    BY <1>2 DEF Editing, Typed, CallsTyped
  <2>4. \A b \in Callers : call'[b].stage = "writing" =>
          call[b].stage = "writing" /\ call'[b].cart = call[b].cart /\ call'[b].key = call[b].key
    BY <2>1, <2>3
  <2> QED
    BY <1>1, <1>2, <2>2, <2>4
\* The carts and the calls stay.
<1>3. ASSUME carts' = carts, call' = call
      PROVE  Backed'
  <2>1. \A b \in Callers : Editing(call'[b]) => SameEdit(b)
    BY <1>3 DEF SameEdit
  <2> QED
    BY <1>1, <1>3, <2>1
<1>4. ~Editing(Idle) /\ Idle.stage # "writing"
  BY DEF Editing, Idle
<1>5. ASSUME NEW v \in Conversations, Initialize(v) \/ UnknownCartId(v)
      PROVE  Backed'
  BY <1>3, <1>5 DEF Initialize, UnknownCartId
<1>6. ASSUME NEW a \in Callers, Look(a)
      PROVE  Backed'
  BY <1>3, <1>6 DEF Look
<1>7. ASSUME NEW a \in Callers, NEW tool \in {"add", "set"}, NEW sku \in Skus, NEW n \in 0..MaxAsked,
             Edit(a, tool, sku, n)
      PROVE  Backed'
  <2>0. PICK m, k : m = asked[of[a]][sku] /\ k = call'[a].key
    OBVIOUS
  <2>1. /\ Others(a) /\ call[a].stage = "idle"
        /\ call'[a].stage = "reading" /\ call'[a].sku = sku /\ call'[a].quantity = n
        /\ k \in 1..issued' /\ owner'[k] = of[a]
        /\ n \in Nat /\ asked'[of[a]][sku] = m + n /\ carts' = carts
    BY <1>7, <2>0, EditBegun
  <2>2. m \in Nat
    BY <2>0 DEF Typed, ClientsTyped, Carts
  <2>3. /\ (m + 1)..(m + n) \subseteq 1..(m + n)
        /\ (m + 1)..(m + n) \cap 1..m = {}
        /\ (m + 1)..(m + n) \in SUBSET Nat
    BY <2>1, <2>2
  <2>4. Cardinality((m + 1)..(m + n)) = n
    <3>1. m + 1 \in Int /\ m + n \in Int
      BY <2>1, <2>2
    <3>2. Cardinality((m + 1)..(m + n)) = IF m + 1 > m + n THEN 0 ELSE (m + n) - (m + 1) + 1
      BY <3>1, FS_Interval
    <3> QED
      BY <2>1, <2>2, <3>2
  <2>5. PICK V : V \in [Callers -> SUBSET Nat] /\ V[a] = (m + 1)..(m + n) /\ \A b \in Callers : b # a => V[b] = U[b]
    <3> DEFINE V == [U EXCEPT ![a] = (m + 1)..(m + n)]
    <3>1. V \in [Callers -> SUBSET Nat] /\ V[a] = (m + 1)..(m + n) /\ \A b \in Callers : b # a => V[b] = U[b]
      BY <1>0, <2>3
    <3> QED
      BY <3>1
  <2>6. Units(k, sku) \subseteq 1..m
    <3>1. k \in 1..issued => owner[k] = of[a]
      BY <2>1 DEF Grows
    <3> QED
      BY <2>0, <3>1 DEF Units
  <2>7. Units(k, sku)' = 1..(m + n)
    <3>1. Units(k, sku)' = IF k \in 1..issued' THEN 1..asked'[owner'[k]][sku] ELSE {}
      BY DEF Units
    <3> QED
      BY <2>1, <3>1
  <2>8. FreshEdit(a, V[a])
    <3>1. V[a] \cap Units(k, sku) = {}
      BY <2>3, <2>5, <2>6
    <3>2. Units(k, sku)' = Units(call[a].key, call[a].sku)' /\ V[a] \subseteq Units(k, sku)'
      BY <2>0, <2>1, <2>3, <2>5, <2>7 DEF Units
    <3> QED
      BY <2>0, <2>1, <2>3, <2>4, <2>5, <3>1, <3>2 DEF FreshEdit
  <2>9. EditsGoOn(U, V, {a})
    BY <2>1, <2>5, <2>8 DEF EditsGoOn, SameEdit, Others
  <2>10. \A b \in Callers : call'[b].stage = "writing" =>
           call[b].stage = "writing" /\ call'[b].cart = call[b].cart /\ call'[b].key = call[b].key
    BY <2>1 DEF Others
  <2>11. BackedBy(V)'
    BY <1>0, <2>1, <2>9, <2>10, BackedStays
  <2> QED
    BY <2>5, <2>11 DEF Backed
<1>8. ASSUME NEW a \in Callers, Checkout(a) \/ \E sku \in Skus : CheckoutItems(a, sku)
      PROVE  Backed'
  <2>1. Others(a) /\ call'[a].tool = "checkout" /\ carts' = carts
    BY <1>8, CheckoutBegun
  <2>2. ~Editing(call'[a])
    BY <2>1 DEF Editing
  <2> QED
    BY <2>1, <2>2, <1>2
<1>9. ASSUME NEW a \in Callers, ReadCart(a)
      PROVE  Backed'
  <2>0. Others(a) /\ carts' = carts /\ call[a].stage = "reading" /\ call[a].key \in Keys
    BY <1>9, CartRead
  <2>1. CASE call'[a] = Idle
    BY <2>0, <2>1, <1>2, <1>4
  <2>2. CASE call'[a].stage = "ordering"
    BY <2>0, <2>2, <1>2 DEF Editing
  <2>3. CASE /\ call'[a].cart = carts[call[a].key]
             /\ call'[a].key = call[a].key
             /\ call'[a].sku = call[a].sku /\ call'[a].quantity = call[a].quantity
             /\ call'[a].stage = "writing" /\ call[a].tool # "checkout"
    <3>1. SameEdit(a)
      BY <2>0, <2>3 DEF SameEdit, Editing
    <3>2. \A b \in Callers : b # a => call'[b] = call[b]
      BY <2>0 DEF Others
    <3>3. \A b \in Callers : Editing(call'[b]) => SameEdit(b)
      BY <3>1, <3>2 DEF SameEdit
    <3>4. \A b \in Callers : call'[b].stage = "writing" =>
            \/ call[b].stage = "writing" /\ call'[b].cart = call[b].cart /\ call'[b].key = call[b].key
            \/ call'[b].key \in Keys /\ call'[b].cart = carts[call'[b].key]
      BY <2>0, <2>3, <3>2
    <3> QED
      BY <2>0, <3>3, <3>4, <1>1
  <2> QED
    BY <2>1, <2>2, <2>3, <1>9, CartRead
<1>10. ASSUME NEW a \in Callers, WriteCart(a)
       PROVE  Backed'
  <2>0. PICK k : k = call[a].key
    OBVIOUS
  <2>1. call[a].stage = "writing" /\ carts' = [carts EXCEPT ![k] = Changed(call[a])] /\ Answer(a)
    BY <1>10, <2>0 DEF WriteCart
  <2>2. call'[a] = Idle /\ \A b \in Callers : b # a => call'[b] = call[b]
    BY <2>1, Answered
  <2>3. \A b \in Callers : Editing(call'[b]) => SameEdit(b)
    BY <2>2, <1>4 DEF SameEdit
  <2>4. \A b \in Callers : call'[b].stage = "writing" =>
          call[b].stage = "writing" /\ call'[b].cart = call[b].cart /\ call'[b].key = call[b].key
    BY <2>2, <1>4
  <2>5. UNCHANGED <<issued, owner, asked>>
    BY <2>1 DEF Answer
  <2>6. PICK X \in Backing : BacksWrite(X, a, k, U)
    BY <1>0, <2>0, <2>1, WrittenBacked
  <2>7. \A j \in Keys : j # k => carts'[j] = carts[j]
    BY <2>1 DEF Typed, CartsTyped
  <2>8. ASSUME k \in Keys
        PROVE  Backs(X, carts[k], k, U)'
    <3>1. carts'[k] = Changed(call[a])
      BY <2>1, <2>8 DEF Typed, CartsTyped
    <3>2. \A s \in Skus : Units(k, s)' = Units(k, s)
      BY <2>5 DEF Units
    <3>3. ASSUME NEW s \in Skus, NEW b \in Callers, Editing(call'[b]), call'[b].key = k, call'[b].sku = s
          PROVE  X[s] \cap U[b] = {}
      <4>1. b # a /\ call'[b] = call[b]
        BY <2>2, <1>4, <3>3
      <4> QED
        BY <4>1, <2>6, <3>3 DEF BacksWrite
    <3>4. \A s \in Skus : X[s] \subseteq Units(k, s)' /\ carts'[k][s] <= Cardinality(X[s])
      BY <2>6, <3>1, <3>2 DEF BacksWrite
    <3>5. Backs(X, carts[k], k, U)'
      BY <3>3, <3>4 DEF Backs, Editing
    <3> QED
      BY <3>5
  <2> QED
    BY <1>1, <2>3, <2>4, <2>7, <2>8
<1>11. ASSUME NEW a \in Callers, StoreOrder(a)
       PROVE  Backed'
  <2>1. Others(a) /\ call'[a].stage = "mapping" /\ carts' = carts
    BY <1>11, OrderStored DEF StoreOrder
  <2> QED
    BY <2>1, <1>2 DEF Editing
<1>12. ASSUME NEW a \in Callers, MapCart(a)
       PROVE  Backed'
  <2>1. carts' = carts /\ call' = [call EXCEPT ![a] = Idle]
    BY <1>12 DEF MapCart, Answer
  <2>2. Others(a) /\ call'[a] = Idle
    BY <2>1, BeginRecords DEF Others, Typed, CallsTyped
  <2> QED
    BY <2>1, <2>2, <1>2, <1>4
<1>13. ASSUME NEW o \in Orders, BeginRail(o) \/ BeginPlace(o)
       PROVE  Backed'
  BY <1>3, <1>13 DEF BeginRail, BeginPlace
<1>14. ASSUME NEW o \in Orders, NEW r \in Rails, Record(o, r) \/ Unmap(o, r) \/ Forget(o, r)
       PROVE  Backed'
  BY <1>3, <1>14 DEF Record, Unmap, Forget
<1>15. ASSUME NEW o \in Orders, NEW r \in Rails, EmptyCart(o, r)
       PROVE  Backed'
  <2>1. \A b \in Callers : /\ call'[b].stage = call[b].stage /\ call'[b].key = call[b].key
                           /\ call'[b].tool = call[b].tool /\ call'[b].sku = call[b].sku
                           /\ call'[b].quantity = call[b].quantity /\ call'[b].cart = call[b].cart
    BY <1>15, CartEmptied
  <2>2. \A b \in Callers : Editing(call'[b]) => SameEdit(b)
    BY <2>1 DEF SameEdit, Editing
  <2>3. \A j \in Keys : carts'[j] = carts[j] \/ carts'[j] = Empty
    BY <1>15 DEF EmptyCart, Typed, CartsTyped
  <2>4. ASSUME NEW j \in Keys, carts'[j] = Empty
        PROVE  \E X \in Backing : Backs(X, carts[j], j, U)'
    <3>1. PICK X \in Backing : \A s \in Skus : X[s] = {}
      <4> DEFINE X == [s \in Skus |-> {}]
      <4>1. X \in Backing /\ \A s \in Skus : X[s] = {}
        BY DEF Backing
      <4> QED
        BY <4>1
    <3>2. ASSUME NEW s \in Skus
          PROVE  carts'[j][s] <= Cardinality(X[s])
      <4>1. carts'[j][s] = 0
        BY <2>4 DEF Empty
      <4>2. Cardinality(X[s]) = 0
        BY <3>1, FS_EmptySet
      <4> QED
        BY <4>1, <4>2
    <3>3. \A s \in Skus : carts'[j][s] <= Cardinality(X[s])
      BY <3>2
    <3>4. Backs(X, carts[j], j, U)'
      BY <3>1, <3>3 DEF Backs
    <3> QED
      BY <3>4
  <2> QED
    BY <1>1, <2>1, <2>2, <2>3, <2>4
<1>16. CASE Restart
  <2>1. carts' = carts /\ \A b \in Callers : call'[b] = Idle
    BY <1>16 DEF Restart, Typed, CallsTyped
  <2>2. \A b \in Callers : ~Editing(call'[b]) /\ call'[b].stage # "writing"
    BY <2>1, <1>4
  <2> QED
    BY <2>1, <2>2, <1>1
<1>17. CASE UNCHANGED storefrontVars
  BY <1>17, <1>3 DEF storefrontVars
<1> QED
  BY <1>5, <1>6, <1>7, <1>8, <1>9, <1>10, <1>11, <1>12, <1>13, <1>14, <1>15, <1>16, <1>17
     DEF StorefrontNext, CallStep, CompletionStep

-----------------------------------------------------------------------------
(* Orders are what was asked for *)

\* A backed cart holds no more than the conversation of its key has asked for.
LEMMA BackedIsAsked ==
  ASSUME Typed, NEW U, NEW X, NEW cart \in Carts, NEW k, Backs(X, cart, k, U), NEW s \in Skus
  PROVE  /\ k \in 1..issued => cart[s] <= asked[owner[k]][s]
         /\ k \notin 1..issued => cart[s] = 0
<1>1. X[s] \in SUBSET Units(k, s) /\ cart[s] <= Cardinality(X[s]) /\ cart[s] \in Nat
  BY DEF Backs, Carts
<1>2. /\ Cardinality(X[s]) \in Nat
      /\ k \in 1..issued => Cardinality(X[s]) <= asked[owner[k]][s]
      /\ k \notin 1..issued => Cardinality(X[s]) = 0
  BY <1>1, UnitsCount
<1>3. CASE k \in 1..issued
  <2>1. asked[owner[k]][s] \in Nat
    BY <1>3 DEF Typed, ClientsTyped, Carts
  <2> QED
    BY <1>1, <1>2, <1>3, <2>1
<1>4. CASE k \notin 1..issued
  BY <1>1, <1>2, <1>4
<1> QED
  BY <1>3, <1>4

\* So does every cart in the store.
LEMMA CartIsAsked ==
  ASSUME Typed, Backed, NEW k \in Keys, NEW s \in Skus
  PROVE  /\ k \in 1..issued => carts[k][s] <= asked[owner[k]][s]
         /\ k \notin 1..issued => carts[k][s] = 0
<1>1. PICK U, X : Backs(X, carts[k], k, U)
  BY DEF Backed, BackedBy
<1>2. carts[k] \in Carts
  BY DEF Typed, CartsTyped
<1> QED
  BY <1>1, <1>2, BackedIsAsked

\* What was asked for, and a key that was issued, stay so.
LEMMA AskedStays ==
  ASSUME Typed, Typed', Grows, NEW cart \in Carts, NEW v \in Conversations,
         \A s \in Skus : cart[s] <= asked[v][s]
  PROVE  \A s \in Skus : cart[s] <= asked'[v][s]
<1> SUFFICES ASSUME NEW s \in Skus
             PROVE  cart[s] <= asked'[v][s]
  OBVIOUS
<1>1. asked[v][s] <= asked'[v][s] /\ cart[s] <= asked[v][s]
  BY DEF Grows
<1>2. cart[s] \in Nat /\ asked[v][s] \in Nat /\ asked'[v][s] \in Nat
  BY DEF Typed, ClientsTyped, Carts
<1> QED
  BY <1>1, <1>2

\* The orders in the store stay mapped to carts of those who asked for them.
LEMMA MappedKept ==
  ASSUME Typed, Typed', Owned, Bought, Grows, [StorefrontNext]_storefrontVars
  PROVE  Mapped'
\* An order as it was, with its cart as it was or forgotten.
<1>1. ASSUME NEW o \in DOMAIN created, created'[o] = created[o], o \in Orders,
             orderCarts'[o] = orderCarts[o] \/ orderCarts'[o] = NoKey
      PROVE  \E v \in Conversations :
               /\ \A s \in Skus : created'[o][s] <= asked'[v][s]
               /\ orderCarts'[o] # NoKey => orderCarts'[o] \in DOMAIN owner' /\ owner'[orderCarts'[o]] = v
  <2>1. PICK v \in Conversations :
          /\ \A s \in Skus : created[o][s] <= asked[v][s]
          /\ orderCarts[o] # NoKey => orderCarts[o] \in DOMAIN owner /\ owner[orderCarts[o]] = v
    BY DEF Bought, Mapped
  <2>2. created[o] \in Carts
    BY DEF Typed, OrdersTyped
  <2>3. \A s \in Skus : created[o][s] <= asked'[v][s]
    BY <2>1, <2>2, AskedStays
  <2>4. DOMAIN owner = 1..issued /\ DOMAIN owner' = 1..issued' /\ 1..issued \subseteq 1..issued'
    BY BoundsAssumption DEF Typed, ClientsTyped, Grows
  <2>5. orderCarts'[o] # NoKey => orderCarts'[o] \in DOMAIN owner' /\ owner'[orderCarts'[o]] = v
    BY <1>1, <2>1, <2>4 DEF Grows
  <2> QED
    BY <1>1, <2>3, <2>5
\* The orders stay, and nothing or a cart is forgotten.
<1>2. ASSUME created' = created, offered' = offered,
             \A o \in Orders : orderCarts'[o] = orderCarts[o] \/ orderCarts'[o] = NoKey
      PROVE  Mapped'
  <2>1. \A o \in Orders : orderCarts'[o] # NoKey => o \in offered'
    BY <1>2 DEF Bought, Mapped
  <2>2. \A o \in DOMAIN created : o \in Orders /\ created'[o] = created[o]
    BY <1>2 DEF Typed, OrdersTyped
  <2>3. DOMAIN created' = DOMAIN created
    BY <1>2
  <2> QED
    BY <2>1, <2>2, <2>3, <1>1, <1>2 DEF Mapped
<1>3. ASSUME UNCHANGED orderVars
      PROVE  Mapped'
  BY <1>2, <1>3 DEF orderVars
<1>4. ASSUME NEW a \in Callers, StoreOrder(a)
      PROVE  Mapped'
  <2>1. PICK o \in Orders \ DOMAIN created :
          /\ call[a].stage = "ordering"
          /\ created' = [p \in DOMAIN created \cup {o} |-> IF p = o THEN call[a].cart ELSE created[p]]
          /\ call' = [call EXCEPT ![a].stage = "mapping", ![a].sku = o]
          /\ UNCHANGED <<clientVars, orderCarts, offered>>
    BY <1>4 DEF StoreOrder
  <2>2. /\ DOMAIN created' = DOMAIN created \cup {o}
        /\ created'[o] = call[a].cart /\ \A p \in DOMAIN created : created'[p] = created[p]
    BY <2>1, OrderStored
  <2>3. of[a] \in Conversations /\ asked' = asked
    BY <2>1 DEF clientVars, Typed, ClientsTyped
  <2>4. \A s \in Skus : created'[o][s] <= asked'[of[a]][s]
    BY <2>1, <2>2, <2>3 DEF Bought, Buying
  <2>5. orderCarts'[o] = NoKey
    BY <2>1 DEF Bought, Mapped, Typed, OrdersTyped
  <2>6. \A p \in DOMAIN created : p \in Orders /\ orderCarts'[p] = orderCarts[p]
    BY <2>1 DEF Typed, OrdersTyped
  <2>7. \A p \in Orders : orderCarts'[p] # NoKey => p \in offered'
    BY <2>1 DEF Bought, Mapped
  <2>8. ASSUME NEW p \in DOMAIN created'
        PROVE  \E v \in Conversations :
                 /\ \A s \in Skus : created'[p][s] <= asked'[v][s]
                 /\ orderCarts'[p] # NoKey => orderCarts'[p] \in DOMAIN owner' /\ owner'[orderCarts'[p]] = v
    <3>1. CASE p = o
      BY <3>1, <2>3, <2>4, <2>5
    <3>2. CASE p \in DOMAIN created
      BY <3>2, <2>2, <2>6, <1>1
    <3> QED
      BY <3>1, <3>2, <2>2
  <2> QED
    BY <2>7, <2>8 DEF Mapped
<1>5. ASSUME NEW a \in Callers, MapCart(a)
      PROVE  Mapped'
  <2> DEFINE o == call[a].sku
             k == call[a].key
  <2>1. /\ call[a].stage = "mapping" /\ orderCarts' = [orderCarts EXCEPT ![o] = k]
        /\ offered' = offered \cup {o} /\ created' = created
        /\ UNCHANGED <<owner, asked>>
    BY <1>5 DEF MapCart, Answer
  <2>2. o \in DOMAIN created /\ \A s \in Skus : created[o][s] <= asked[of[a]][s]
    BY <2>1 DEF Bought, Buying
  <2>3. k \in 1..issued /\ owner[k] = of[a] /\ DOMAIN owner = 1..issued /\ of[a] \in Conversations
    BY <2>1 DEF Owned, Typed, ClientsTyped
  <2>4. DOMAIN created \subseteq Orders /\ orderCarts'[o] = k
        /\ \A p \in Orders : p # o => orderCarts'[p] = orderCarts[p]
    BY <2>1, <2>2 DEF Typed, OrdersTyped
  <2> HIDE DEF o, k
  <2>5. \A p \in Orders : orderCarts'[p] # NoKey => p \in offered'
    BY <2>1, <2>4 DEF Bought, Mapped
  <2>6. ASSUME NEW p \in DOMAIN created
        PROVE  \E v \in Conversations :
                 /\ \A s \in Skus : created'[p][s] <= asked'[v][s]
                 /\ orderCarts'[p] # NoKey => orderCarts'[p] \in DOMAIN owner' /\ owner'[orderCarts'[p]] = v
    <3>1. CASE p = o
      BY <3>1, <2>1, <2>2, <2>3, <2>4
    <3>2. CASE p # o
      BY <3>2, <2>1, <2>4, <1>1
    <3> QED
      BY <3>1, <3>2
  <2>7. DOMAIN created' = DOMAIN created
    BY <2>1
  <2> QED
    BY <2>5, <2>6, <2>7 DEF Mapped
<1>6. ASSUME NEW v \in Conversations, Initialize(v) \/ UnknownCartId(v)
      PROVE  Mapped'
  BY <1>6, <1>3 DEF Initialize, UnknownCartId
<1>7. ASSUME NEW a \in Callers, Look(a)
      PROVE  Mapped'
  BY <1>7, <1>3 DEF Look
<1>8. ASSUME NEW a \in Callers, NEW tool \in {"add", "set"}, NEW sku \in Skus, NEW n \in 0..MaxAsked,
             Edit(a, tool, sku, n)
      PROVE  Mapped'
  BY <1>8, <1>3 DEF Edit, Begin
<1>9. ASSUME NEW a \in Callers, Checkout(a) \/ \E sku \in Skus : CheckoutItems(a, sku)
      PROVE  Mapped'
  BY <1>9, <1>3 DEF Checkout, CheckoutItems, Begin
<1>10. ASSUME NEW a \in Callers, ReadCart(a) \/ WriteCart(a)
       PROVE  Mapped'
  BY <1>10, <1>3 DEF ReadCart, WriteCart
<1>11. ASSUME NEW o \in Orders, BeginRail(o) \/ BeginPlace(o)
       PROVE  Mapped'
  BY <1>11, <1>3 DEF BeginRail, BeginPlace
<1>12. ASSUME NEW o \in Orders, NEW r \in Rails, Record(o, r) \/ Unmap(o, r) \/ EmptyCart(o, r)
       PROVE  Mapped'
  BY <1>12, <1>2 DEF Record, Unmap, EmptyCart, orderVars
<1>13. ASSUME NEW o \in Orders, NEW r \in Rails, Forget(o, r)
       PROVE  Mapped'
  <2>1. \A p \in Orders : orderCarts'[p] = orderCarts[p] \/ orderCarts'[p] = NoKey
    BY <1>13 DEF Forget, Typed, OrdersTyped
  <2> QED
    BY <2>1, <1>13, <1>2 DEF Forget
<1>14. CASE Restart
  BY <1>14, <1>3 DEF Restart
<1>15. CASE UNCHANGED storefrontVars
  BY <1>15, <1>3 DEF storefrontVars
<1> QED
  BY <1>4, <1>5, <1>6, <1>7, <1>8, <1>9, <1>10, <1>11, <1>12, <1>13, <1>14, <1>15
     DEF StorefrontNext, CallStep, CompletionStep

\* A checkout under way stays one of what its conversation asked for.
LEMMA BuyingKept ==
  ASSUME Typed, Typed', Owned, Backed, Bought, Grows, [StorefrontNext]_storefrontVars
  PROVE  Buying'
<1>0. of' = of /\ \A a \in Callers : of[a] \in Conversations
  BY DEF Grows, Typed, ClientsTyped
\* A checkout that reaches no new point, while its order, if any, is not offered.
<1>1. ASSUME NEW a \in Callers, call'[a].stage = call[a].stage, call'[a].cart = call[a].cart,
             call'[a].sku = call[a].sku,
             \A o \in DOMAIN created : o \in DOMAIN created' /\ created'[o] = created[o],
             call[a].stage = "mapping" => call[a].sku \notin offered'
      PROVE  /\ call'[a].stage = "ordering" => \A s \in Skus : call'[a].cart[s] <= asked'[of'[a]][s]
             /\ call'[a].stage = "mapping" =>
                  /\ call'[a].sku \in DOMAIN created' \ offered'
                  /\ \A s \in Skus : created'[call'[a].sku][s] <= asked'[of'[a]][s]
  <2>1. CASE call[a].stage = "ordering"
    <3>1. call[a].cart \in Carts /\ \A s \in Skus : call[a].cart[s] <= asked[of[a]][s]
      BY <2>1 DEF Bought, Buying, Typed, CallsTyped, Calls
    <3>2. \A s \in Skus : call[a].cart[s] <= asked'[of[a]][s]
      BY <3>1, <1>0, AskedStays
    <3> QED
      BY <1>0, <1>1, <2>1, <3>2
  <2>2. CASE call[a].stage = "mapping"
    <3> DEFINE o == call[a].sku
    <3>1. o \in DOMAIN created /\ \A s \in Skus : created[o][s] <= asked[of[a]][s]
      BY <2>2 DEF Bought, Buying
    <3>2. created[o] \in Carts
      BY <3>1 DEF Typed, OrdersTyped
    <3>3. \A s \in Skus : created[o][s] <= asked'[of[a]][s]
      BY <3>1, <3>2, <1>0, AskedStays
    <3> QED
      BY <1>0, <1>1, <2>2, <3>1, <3>3
  <2> QED
    BY <1>1, <2>1, <2>2
\* Checkouts go on or end, and the orders stay.
<1>2. ASSUME created' = created, offered' = offered,
             \A a \in Callers : call'[a].stage \in {"ordering", "mapping"} =>
               /\ call'[a].stage = call[a].stage /\ call'[a].cart = call[a].cart
               /\ call'[a].sku = call[a].sku
      PROVE  Buying'
  <2>1. \A a \in Callers : call[a].stage = "mapping" => call[a].sku \notin offered'
    BY <1>2 DEF Bought, Buying
  <2>2. \A a \in Callers :
          /\ call'[a].stage = "ordering" => \A s \in Skus : call'[a].cart[s] <= asked'[of'[a]][s]
          /\ call'[a].stage = "mapping" =>
               /\ call'[a].sku \in DOMAIN created' \ offered'
               /\ \A s \in Skus : created'[call'[a].sku][s] <= asked'[of'[a]][s]
    BY <1>1, <1>2, <2>1
  <2>3. \A a, b \in Callers :
          (call'[a].stage = "mapping" /\ call'[b].stage = "mapping" /\ call'[a].sku = call'[b].sku) => a = b
    BY <1>2 DEF Bought, Buying
  <2> QED
    BY <2>2, <2>3 DEF Buying
\* One call moves on, and is not mapping an order.
<1>3. ASSUME NEW a \in Callers, Others(a), created' = created, offered' = offered,
             call'[a].stage # "mapping",
             call'[a].stage = "ordering" => \A s \in Skus : call'[a].cart[s] <= asked'[of[a]][s]
      PROVE  Buying'
  <2>1. \A b \in Callers : b # a => call'[b] = call[b]
    BY <1>3 DEF Others
  <2>2. \A b \in Callers : call[b].stage = "mapping" => call[b].sku \notin offered'
    BY <1>3 DEF Bought, Buying
  <2>3. \A b \in Callers : b # a =>
          /\ call'[b].stage = "ordering" => \A s \in Skus : call'[b].cart[s] <= asked'[of'[b]][s]
          /\ call'[b].stage = "mapping" =>
               /\ call'[b].sku \in DOMAIN created' \ offered'
               /\ \A s \in Skus : created'[call'[b].sku][s] <= asked'[of'[b]][s]
    BY <1>1, <1>3, <2>1, <2>2
  <2>4. \A b, c \in Callers :
          (call'[b].stage = "mapping" /\ call'[c].stage = "mapping" /\ call'[b].sku = call'[c].sku) => b = c
    BY <1>3, <2>1 DEF Bought, Buying
  <2> QED
    BY <1>0, <1>3, <2>3, <2>4 DEF Buying
<1>4. Idle.stage = "idle"
  BY DEF Idle
\* Nothing moves.
<1>5. ASSUME created' = created, offered' = offered, call' = call
      PROVE  Buying'
  BY <1>2, <1>5
<1>6. ASSUME NEW v \in Conversations, Initialize(v) \/ UnknownCartId(v)
      PROVE  Buying'
  BY <1>6, <1>5 DEF Initialize, UnknownCartId, orderVars
<1>7. ASSUME NEW a \in Callers, Look(a)
      PROVE  Buying'
  BY <1>7, <1>5 DEF Look, orderVars
<1>8. ASSUME NEW a \in Callers, NEW tool \in {"add", "set"}, NEW sku \in Skus, NEW n \in 0..MaxAsked,
             Edit(a, tool, sku, n)
      PROVE  Buying'
  <2>1. Others(a) /\ call'[a].stage = "reading" /\ UNCHANGED orderVars
    BY <1>8, EditBegun
  <2> QED
    BY <2>1, <1>3 DEF orderVars
<1>9. ASSUME NEW a \in Callers, Checkout(a) \/ \E sku \in Skus : CheckoutItems(a, sku)
      PROVE  Buying'
  <2>1. /\ Others(a) /\ call'[a].stage \in {"reading", "ordering"} /\ UNCHANGED orderVars
        /\ call'[a].stage = "ordering" => \A s \in Skus : call'[a].cart[s] <= asked'[of[a]][s]
    BY <1>9, CheckoutBegun
  <2> QED
    BY <2>1, <1>3 DEF orderVars
<1>10. ASSUME NEW a \in Callers, ReadCart(a)
       PROVE  Buying'
  <2> DEFINE k == call[a].key
  <2>1. /\ Others(a) /\ UNCHANGED <<orderVars, asked>> /\ call[a].stage = "reading" /\ k \in Keys
        /\ \/ call'[a].stage \in {"idle", "writing"}
           \/ call'[a].stage = "ordering" /\ call'[a].cart = carts[k]
    BY <1>4, <1>10, CartRead
  <2>2. k \in 1..issued /\ owner[k] = of[a]
    BY <2>1 DEF Owned
  <2>3. \A s \in Skus : carts[k][s] <= asked[of[a]][s]
    BY <2>1, <2>2, CartIsAsked
  <2> HIDE DEF k
  <2>4. call'[a].stage = "ordering" => \A s \in Skus : call'[a].cart[s] <= asked'[of[a]][s]
    BY <2>1, <2>3
  <2> QED
    BY <2>1, <2>4, <1>3 DEF orderVars
<1>11. ASSUME NEW a \in Callers, WriteCart(a)
       PROVE  Buying'
  <2>1. call' = [call EXCEPT ![a] = Idle] /\ UNCHANGED orderVars
    BY <1>11 DEF WriteCart, Answer
  <2>2. Others(a) /\ call'[a] = Idle
    BY <2>1, BeginRecords DEF Others, Typed, CallsTyped
  <2> QED
    BY <2>1, <2>2, <1>3, <1>4 DEF orderVars
<1>12. ASSUME NEW a \in Callers, StoreOrder(a)
       PROVE  Buying'
  <2>1. PICK o \in Orders \ DOMAIN created :
          /\ call[a].stage = "ordering"
          /\ created' = [p \in DOMAIN created \cup {o} |-> IF p = o THEN call[a].cart ELSE created[p]]
          /\ call' = [call EXCEPT ![a].stage = "mapping", ![a].sku = o]
          /\ UNCHANGED <<clientVars, offered>>
    BY <1>12 DEF StoreOrder
  <2>2. /\ Others(a) /\ call'[a].stage = "mapping" /\ call'[a].sku = o
        /\ DOMAIN created' = DOMAIN created \cup {o}
        /\ created'[o] = call[a].cart /\ \A p \in DOMAIN created : created'[p] = created[p]
    BY <2>1, OrderStored
  <2>3. \A b \in Callers : b # a => call'[b] = call[b]
    BY <2>2 DEF Others
  <2>4. o \notin offered /\ offered' = offered /\ asked' = asked
    BY <2>1 DEF Typed, OrdersTyped, clientVars
  <2>5. \A s \in Skus : created'[o][s] <= asked'[of'[a]][s]
    BY <1>0, <2>1, <2>2, <2>4 DEF Bought, Buying
  <2>6. \A b \in Callers : call[b].stage = "mapping" => call[b].sku \in DOMAIN created \ offered'
    BY <2>4 DEF Bought, Buying
  <2>7. \A b \in Callers : b # a =>
          /\ call'[b].stage = "ordering" => \A s \in Skus : call'[b].cart[s] <= asked'[of'[b]][s]
          /\ call'[b].stage = "mapping" =>
               /\ call'[b].sku \in DOMAIN created' \ offered'
               /\ \A s \in Skus : created'[call'[b].sku][s] <= asked'[of'[b]][s]
    BY <1>1, <2>2, <2>3, <2>6
  <2>8. \A b, c \in Callers :
          (call'[b].stage = "mapping" /\ call'[c].stage = "mapping" /\ call'[b].sku = call'[c].sku) => b = c
    <3>1. \A b \in Callers : (b # a /\ call'[b].stage = "mapping") => call'[b].sku # o
      BY <2>1, <2>3, <2>6
    <3>2. \A b, c \in Callers :
            (call[b].stage = "mapping" /\ call[c].stage = "mapping" /\ call[b].sku = call[c].sku) => b = c
      BY DEF Bought, Buying
    <3> QED
      BY <2>2, <2>3, <3>1, <3>2
  <2>9. call'[a].sku \in DOMAIN created' \ offered'
    BY <2>2, <2>4
  <2> QED
    BY <2>2, <2>5, <2>7, <2>8, <2>9 DEF Buying
<1>13. ASSUME NEW a \in Callers, MapCart(a)
       PROVE  Buying'
  <2>1. /\ call[a].stage = "mapping" /\ offered' = offered \cup {call[a].sku} /\ created' = created
        /\ call' = [call EXCEPT ![a] = Idle]
    BY <1>13 DEF MapCart, Answer
  <2>2. call'[a] = Idle /\ \A b \in Callers : b # a => call'[b] = call[b]
    BY <2>1 DEF Typed, CallsTyped
  <2>3. \A b \in Callers : (b # a /\ call[b].stage = "mapping") => call[b].sku \notin offered'
    BY <2>1 DEF Bought, Buying
  <2>4. \A b \in Callers : b # a =>
          /\ call'[b].stage = "ordering" => \A s \in Skus : call'[b].cart[s] <= asked'[of'[b]][s]
          /\ call'[b].stage = "mapping" =>
               /\ call'[b].sku \in DOMAIN created' \ offered'
               /\ \A s \in Skus : created'[call'[b].sku][s] <= asked'[of'[b]][s]
    BY <1>1, <2>1, <2>2, <2>3
  <2>5. \A b, c \in Callers :
          (call'[b].stage = "mapping" /\ call'[c].stage = "mapping" /\ call'[b].sku = call'[c].sku) => b = c
    BY <1>4, <2>2 DEF Bought, Buying
  <2> QED
    BY <1>4, <2>2, <2>4, <2>5 DEF Buying
<1>14. ASSUME NEW o \in Orders, BeginRail(o) \/ BeginPlace(o)
       PROVE  Buying'
  BY <1>14, <1>5 DEF BeginRail, BeginPlace, orderVars
<1>15. ASSUME NEW o \in Orders, NEW r \in Rails, Record(o, r) \/ Unmap(o, r) \/ Forget(o, r)
       PROVE  Buying'
  BY <1>15, <1>5 DEF Record, Unmap, Forget, orderVars
<1>16. ASSUME NEW o \in Orders, NEW r \in Rails, EmptyCart(o, r)
       PROVE  Buying'
  <2>1. \A b \in Callers : /\ call'[b].stage = call[b].stage /\ call'[b].cart = call[b].cart
                           /\ call'[b].sku = call[b].sku
    BY <1>16, CartEmptied
  <2>2. created' = created /\ offered' = offered
    BY <1>16 DEF EmptyCart, orderVars
  <2> QED
    BY <2>1, <2>2, <1>2
<1>17. CASE Restart
  <2>1. created' = created /\ offered' = offered /\ \A b \in Callers : call'[b] = Idle
    BY <1>17 DEF Restart, orderVars, Typed, CallsTyped
  <2> QED
    BY <2>1, <1>2, <1>4
<1>18. CASE UNCHANGED storefrontVars
  BY <1>18, <1>5 DEF storefrontVars, orderVars
<1> QED
  BY <1>6, <1>7, <1>8, <1>9, <1>10, <1>11, <1>12, <1>13, <1>14, <1>15, <1>16, <1>17, <1>18
     DEF StorefrontNext, CallStep, CompletionStep

-----------------------------------------------------------------------------
(* Sold carts are emptied *)

\* A completion passes to its next stage, and no other moves.
LEMMA Passed ==
  ASSUME Typed, NEW o \in Orders, NEW r \in Rails, NEW c,
         completing' = [completing EXCEPT ![<<o, r>>] = c]
  PROVE  /\ completing'[<<o, r>>] = c
         /\ \A p \in Orders, q \in Rails : <<p, q>> # <<o, r>> => completing'[<<p, q>>] = completing[<<p, q>>]
<1> DEFINE d == <<o, r>>
<1>1. d \in Orders \X Rails
  OBVIOUS
<1>2. \A p \in Orders, q \in Rails : <<p, q>> \in Orders \X Rails
  OBVIOUS
<1>3. completing \in [Orders \X Rails -> Completions]
  BY DEF Typed, OrdersTyped
<1>4. completing'[d] = c
  BY <1>1, <1>3
<1>5. \A e \in Orders \X Rails : e # d => completing'[e] = completing[e]
  BY <1>1, <1>3
<1> QED
  BY <1>2, <1>4, <1>5

\* The same of Pass.
LEMMA StagePassed ==
  ASSUME Typed, NEW o \in Orders, NEW r \in Rails, NEW stage, Pass(o, r, stage)
  PROVE  /\ completing'[<<o, r>>].stage = stage
         /\ \A p \in Orders, q \in Rails : <<p, q>> # <<o, r>> => completing'[<<p, q>>] = completing[<<p, q>>]
<1> DEFINE d == <<o, r>>
           c == [completing[d] EXCEPT !.stage = stage]
<1>1. d \in Orders \X Rails
  OBVIOUS
<1>2. c.stage = stage
  BY <1>1 DEF Typed, OrdersTyped, Completions
<1>3. completing' = [completing EXCEPT ![d] = c]
  BY <1>1 DEF Pass, Typed, OrdersTyped, Completions
<1>4. completing' = [completing EXCEPT ![<<o, r>>] = c]
  BY <1>3
<1> HIDE DEF c, d
<1>5. /\ completing'[<<o, r>>] = c
      /\ \A p \in Orders, q \in Rails : <<p, q>> # <<o, r>> => completing'[<<p, q>>] = completing[<<p, q>>]
  BY <1>4, Passed
<1> QED
  BY <1>2, <1>5

\* An order on record keeps someone who empties its cart, until it is emptied.
LEMMA SoldKept ==
  ASSUME Typed, Typed', Bought, Sold, [StorefrontNext]_storefrontVars
  PROVE  Sold'
<1> DEFINE InHand == {"unmapping", "emptying", "forgetting"}
\* Completions stand still.
<1>1. ASSUME records' = records, completing' = completing, orderCarts' = orderCarts,
             offered \subseteq offered', cutOff' = cutOff
      PROVE  Sold'
  BY <1>1 DEF Sold
\* One completion passes to a stage in hand, or begins, and nothing else moves.
<1>2. ASSUME NEW o \in Orders, NEW r \in Rails, NEW stage \in {"recording", "unmapping", "emptying", "forgetting"},
             completing'[<<o, r>>].stage = stage, o \in offered,
             \A p \in Orders, q \in Rails : <<p, q>> # <<o, r>> => completing'[<<p, q>>] = completing[<<p, q>>],
             stage = "recording" => completing[<<o, r>>].stage \notin InHand /\ records'[o] = records[o],
             \A p \in Orders : p # o => records'[p] = records[p],
             offered' = offered, orderCarts' = orderCarts, cutOff' = cutOff
      PROVE  Sold'
  <2>1. \A p \in Orders : records'[p] # "none" => p \in offered'
    BY <1>2 DEF Sold
  <2>2. \A p \in Orders, q \in Rails : completing'[<<p, q>>].stage # "none" => p \in offered'
    BY <1>2 DEF Sold
  <2>3. ASSUME NEW p \in Orders, records'[p] # "none", orderCarts'[p] # NoKey, p \notin cutOff'
        PROVE  \E q \in Rails : completing'[<<p, q>>].stage \in InHand
    <3>1. CASE p = o /\ stage # "recording"
      BY <1>2, <3>1
    <3>2. CASE p # o \/ stage = "recording"
      <4>1. records[p] # "none" /\ orderCarts[p] # NoKey /\ p \notin cutOff
        BY <1>2, <2>3, <3>2
      <4>2. PICK q \in Rails : completing[<<p, q>>].stage \in InHand
        BY <4>1 DEF Sold
      <4>3. <<p, q>> # <<o, r>>
        BY <1>2, <3>2, <4>2
      <4> QED
        BY <1>2, <4>2, <4>3
    <3> QED
      BY <3>1, <3>2
  <2> QED
    BY <2>1, <2>2, <2>3 DEF Sold
\* One completion ends, and its order's cart is not mapped, or no longer.
<1>3. ASSUME NEW o \in Orders, NEW r \in Rails,
             completing'[<<o, r>>].stage = "none",
             \A p \in Orders, q \in Rails : <<p, q>> # <<o, r>> => completing'[<<p, q>>] = completing[<<p, q>>],
             orderCarts'[o] = NoKey, \A p \in Orders : p # o => orderCarts'[p] = orderCarts[p],
             records' = records, offered' = offered, cutOff' = cutOff
      PROVE  Sold'
  <2>1. \A p \in Orders : records'[p] # "none" => p \in offered'
    BY <1>3 DEF Sold
  <2>2. \A p \in Orders, q \in Rails : completing'[<<p, q>>].stage # "none" => p \in offered'
    BY <1>3 DEF Sold
  <2>3. ASSUME NEW p \in Orders, records'[p] # "none", orderCarts'[p] # NoKey, p \notin cutOff'
        PROVE  \E q \in Rails : completing'[<<p, q>>].stage \in InHand
    <3>1. p # o
      BY <1>3, <2>3
    <3>2. records[p] # "none" /\ orderCarts[p] # NoKey /\ p \notin cutOff
      BY <1>3, <2>3, <3>1
    <3>3. PICK q \in Rails : completing[<<p, q>>].stage \in InHand
      BY <3>2 DEF Sold
    <3> QED
      BY <1>3, <3>1, <3>3
  <2> QED
    BY <2>1, <2>2, <2>3 DEF Sold
<1>4. ASSUME UNCHANGED <<orderVars, completing, cutOff>>
      PROVE  Sold'
  BY <1>1, <1>4 DEF orderVars
<1>5. ASSUME NEW v \in Conversations, Initialize(v) \/ UnknownCartId(v)
      PROVE  Sold'
  BY <1>5, <1>4 DEF Initialize, UnknownCartId
<1>6. ASSUME NEW a \in Callers, Look(a)
      PROVE  Sold'
  BY <1>6, <1>4 DEF Look
<1>7. ASSUME NEW a \in Callers, NEW tool \in {"add", "set"}, NEW sku \in Skus, NEW n \in 0..MaxAsked,
             Edit(a, tool, sku, n)
      PROVE  Sold'
  BY <1>7, <1>4 DEF Edit, Begin
<1>8. ASSUME NEW a \in Callers, Checkout(a) \/ \E sku \in Skus : CheckoutItems(a, sku)
      PROVE  Sold'
  BY <1>8, <1>4 DEF Checkout, CheckoutItems, Begin
<1>9. ASSUME NEW a \in Callers, ReadCart(a) \/ WriteCart(a)
      PROVE  Sold'
  BY <1>9, <1>4 DEF ReadCart, WriteCart
<1>10. ASSUME NEW a \in Callers, StoreOrder(a)
       PROVE  Sold'
  BY <1>10, <1>1 DEF StoreOrder
<1>11. ASSUME NEW a \in Callers, MapCart(a)
       PROVE  Sold'
  <2> DEFINE o == call[a].sku
  <2>1. /\ call[a].stage = "mapping" /\ orderCarts' = [orderCarts EXCEPT ![o] = call[a].key]
        /\ offered' = offered \cup {o}
        /\ records' = records /\ completing' = completing /\ cutOff' = cutOff
    BY <1>11 DEF MapCart
  <2>2. o \notin offered
    BY <2>1 DEF Bought, Buying
  <2> HIDE DEF o
  <2>3. \A p \in Orders : p # o => orderCarts'[p] = orderCarts[p]
    BY <2>1 DEF Typed, OrdersTyped
  <2>4. \A p \in Orders : records'[p] # "none" => p \in offered /\ p # o
    BY <2>1, <2>2 DEF Sold
  <2> QED
    BY <2>1, <2>3, <2>4 DEF Sold
<1>12. ASSUME NEW o \in Orders, NEW r \in Rails, o \in offered, completing[<<o, r>>].stage = "none",
              Pass(o, r, "recording"), UNCHANGED <<orderVars, cutOff>>
       PROVE  Sold'
  <2>1. /\ completing'[<<o, r>>].stage = "recording"
        /\ \A p \in Orders, q \in Rails : <<p, q>> # <<o, r>> => completing'[<<p, q>>] = completing[<<p, q>>]
    BY <1>12, StagePassed
  <2>2. completing[<<o, r>>].stage \notin InHand
    BY <1>12
  <2> HIDE DEF InHand
  <2> QED
    BY <2>1, <2>2, <1>2, <1>12 DEF orderVars
<1>13. ASSUME NEW o \in Orders, BeginRail(o) \/ BeginPlace(o)
       PROVE  Sold'
  BY <1>12, <1>13 DEF BeginRail, BeginPlace, Rails
<1>14. ASSUME NEW o \in Orders, NEW r \in Rails, Record(o, r)
       PROVE  Sold'
  <2>1. /\ completing[<<o, r>>].stage = "recording" /\ Pass(o, r, "unmapping")
        /\ records' = [records EXCEPT ![o] = r]
        /\ UNCHANGED <<orderCarts, offered, cutOff>>
    BY <1>14 DEF Record
  <2>2. o \in offered
    BY <2>1 DEF Sold
  <2>3. \A p \in Orders : p # o => records'[p] = records[p]
    BY <2>1 DEF Typed, OrdersTyped
  <2>4. /\ completing'[<<o, r>>].stage = "unmapping"
        /\ \A p \in Orders, q \in Rails : <<p, q>> # <<o, r>> => completing'[<<p, q>>] = completing[<<p, q>>]
    BY <2>1, StagePassed
  <2> QED
    BY <2>1, <2>2, <2>3, <2>4, <1>2
<1>15. ASSUME NEW o \in Orders, NEW r \in Rails, Unmap(o, r)
       PROVE  Sold'
  <2> DEFINE c == IF orderCarts[o] = NoKey THEN NotCompleting ELSE [stage |-> "emptying", key |-> orderCarts[o]]
  <2>1. /\ completing[<<o, r>>].stage = "unmapping" /\ completing' = [completing EXCEPT ![<<o, r>>] = c]
        /\ UNCHANGED <<orderVars, cutOff>>
    BY <1>15 DEF Unmap
  <2>2. c.stage = IF orderCarts[o] = NoKey THEN "none" ELSE "emptying"
    BY DEF NotCompleting
  <2> HIDE DEF c
  <2>3. /\ completing'[<<o, r>>] = c
        /\ \A p \in Orders, q \in Rails : <<p, q>> # <<o, r>> => completing'[<<p, q>>] = completing[<<p, q>>]
    BY <2>1, Passed
  <2>4. o \in offered
    BY <2>1 DEF Sold
  <2>5. CASE orderCarts[o] = NoKey
    BY <2>1, <2>2, <2>3, <2>5, <1>3 DEF orderVars
  <2>6. CASE orderCarts[o] # NoKey
    BY <2>1, <2>2, <2>3, <2>4, <2>6, <1>2 DEF orderVars
  <2> QED
    BY <2>5, <2>6
<1>16. ASSUME NEW o \in Orders, NEW r \in Rails, EmptyCart(o, r)
       PROVE  Sold'
  <2>1. /\ completing[<<o, r>>].stage = "emptying" /\ Pass(o, r, "forgetting")
        /\ UNCHANGED <<orderVars, cutOff>>
    BY <1>16 DEF EmptyCart
  <2>2. o \in offered
    BY <2>1 DEF Sold
  <2>3. /\ completing'[<<o, r>>].stage = "forgetting"
        /\ \A p \in Orders, q \in Rails : <<p, q>> # <<o, r>> => completing'[<<p, q>>] = completing[<<p, q>>]
    BY <2>1, StagePassed
  <2> QED
    BY <2>1, <2>2, <2>3, <1>2 DEF orderVars
<1>17. ASSUME NEW o \in Orders, NEW r \in Rails, Forget(o, r)
       PROVE  Sold'
  <2>1. /\ orderCarts' = [orderCarts EXCEPT ![o] = NoKey]
        /\ completing' = [completing EXCEPT ![<<o, r>>] = NotCompleting]
        /\ UNCHANGED <<records, offered, cutOff>>
    BY <1>17 DEF Forget
  <2>2. orderCarts'[o] = NoKey /\ \A p \in Orders : p # o => orderCarts'[p] = orderCarts[p]
    BY <2>1 DEF Typed, OrdersTyped
  <2>3. /\ completing'[<<o, r>>].stage = "none"
        /\ \A p \in Orders, q \in Rails : <<p, q>> # <<o, r>> => completing'[<<p, q>>] = completing[<<p, q>>]
    <3>1. NotCompleting.stage = "none"
      BY DEF NotCompleting
    <3>2. /\ completing'[<<o, r>>] = NotCompleting
          /\ \A p \in Orders, q \in Rails : <<p, q>> # <<o, r>> => completing'[<<p, q>>] = completing[<<p, q>>]
      BY <2>1, Passed
    <3> QED
      BY <3>1, <3>2
  <2> QED
    BY <2>1, <2>2, <2>3, <1>3
<1>18. CASE Restart
  <2>1. /\ UNCHANGED orderVars
        /\ completing' = [d \in Orders \X Rails |-> NotCompleting]
        /\ cutOff' = cutOff \cup {o \in Orders : \E r \in Rails : completing[<<o, r>>].stage # "none"}
    BY <1>18 DEF Restart, Typed, OrdersTyped
  <2>2. \A o \in Orders, r \in Rails : completing'[<<o, r>>].stage = "none"
    BY <2>1 DEF NotCompleting
  <2>3. ASSUME NEW o \in Orders, records'[o] # "none", orderCarts'[o] # NoKey
        PROVE  o \in cutOff'
    <3>1. records[o] # "none" /\ orderCarts[o] # NoKey
      BY <2>1, <2>3 DEF orderVars
    <3>2. o \in cutOff \/ \E r \in Rails : completing[<<o, r>>].stage \in InHand
      BY <3>1 DEF Sold
    <3> QED
      BY <2>1, <3>2
  <2>4. \A o \in Orders : records'[o] # "none" => o \in offered'
    BY <2>1 DEF Sold, orderVars
  <2> QED
    BY <2>2, <2>3, <2>4 DEF Sold
<1>19. CASE UNCHANGED storefrontVars
  BY <1>19, <1>4 DEF storefrontVars
<1> QED
  BY <1>5, <1>6, <1>7, <1>8, <1>9, <1>10, <1>11, <1>13, <1>14, <1>15, <1>16, <1>17, <1>18, <1>19
     DEF StorefrontNext, CallStep, CompletionStep

\* What is gone from a sold cart stays gone, until it is asked for or written back.
LEMMA GoneKept ==
  ASSUME Typed, Typed', Owned, Gone, [StorefrontNext]_storefrontVars
  PROVE  Gone'
\* The carts stay, and an edit reads one or keeps what it has read.
<1>1. ASSUME UNCHANGED <<carts, emptied>>,
             \A b \in Callers : (call'[b].stage = "writing" /\ ~call'[b].stale) =>
               \/ /\ call[b].stage = "writing" /\ ~call[b].stale
                  /\ call'[b].cart = call[b].cart /\ call'[b].key = call[b].key
               \/ call'[b].key \in Keys /\ call'[b].cart = carts[call'[b].key]
      PROVE  Gone'
  <2>1. carts' = carts /\ edited' = edited /\ undone' = undone
    BY <1>1 DEF emptied
  <2>2. SoldLinesStayGone'
    BY <2>1 DEF Gone, SoldLinesStayGone
  <2>3. ASSUME NEW b \in Callers, call'[b].stage = "writing", ~call'[b].stale
        PROVE  \/ call'[b].key \in undone'
               \/ \A s \in Skus : call'[b].cart[s] > 0 => s \in edited'[call'[b].key]
    <3>1. CASE /\ call[b].stage = "writing" /\ ~call[b].stale
               /\ call'[b].cart = call[b].cart /\ call'[b].key = call[b].key
      BY <2>1, <3>1 DEF Gone
    <3>2. CASE call'[b].key \in Keys /\ call'[b].cart = carts[call'[b].key]
      BY <2>1, <3>2 DEF Gone, SoldLinesStayGone
    <3> QED
      BY <1>1, <2>3, <3>1, <3>2
  <2> QED
    BY <2>2, <2>3 DEF Gone
\* One call moves on, and has nothing to write.
<1>2. ASSUME NEW a \in Callers, Others(a), UNCHANGED <<carts, emptied>>, call'[a].stage # "writing"
      PROVE  Gone'
  <2>1. \A b \in Callers : b # a => call'[b] = call[b]
    BY <1>2 DEF Others
  <2>2. \A b \in Callers : (call'[b].stage = "writing" /\ ~call'[b].stale) =>
          /\ call[b].stage = "writing" /\ ~call[b].stale
          /\ call'[b].cart = call[b].cart /\ call'[b].key = call[b].key
    BY <1>2, <2>1
  <2> QED
    BY <1>1, <1>2, <2>2
<1>3. ASSUME UNCHANGED <<carts, emptied>>, call' = call
      PROVE  Gone'
  BY <1>1, <1>3
<1>4. Idle.stage = "idle"
  BY DEF Idle
<1>5. ASSUME NEW v \in Conversations, Initialize(v) \/ UnknownCartId(v)
      PROVE  Gone'
  BY <1>5, <1>3 DEF Initialize, UnknownCartId
<1>6. ASSUME NEW a \in Callers, Look(a)
      PROVE  Gone'
  BY <1>6, <1>3 DEF Look
<1>7. ASSUME NEW a \in Callers, NEW tool \in {"add", "set"}, NEW sku \in Skus, NEW n \in 0..MaxAsked,
             Edit(a, tool, sku, n)
      PROVE  Gone'
  <2>1. Others(a) /\ call'[a].stage = "reading" /\ UNCHANGED <<carts, emptied>>
    BY <1>7, EditBegun
  <2> QED
    BY <2>1, <1>2
<1>8. ASSUME NEW a \in Callers, Checkout(a) \/ \E sku \in Skus : CheckoutItems(a, sku)
      PROVE  Gone'
  <2>1. Others(a) /\ call'[a].stage \in {"reading", "ordering"} /\ UNCHANGED <<carts, emptied>>
    BY <1>8, CheckoutBegun
  <2> QED
    BY <2>1, <1>2
<1>9. ASSUME NEW a \in Callers, ReadCart(a)
      PROVE  Gone'
  <2>1. /\ Others(a) /\ UNCHANGED <<carts, emptied>> /\ call[a].key \in Keys
        /\ \/ call'[a].stage # "writing"
           \/ call'[a].cart = carts[call[a].key] /\ call'[a].key = call[a].key
    BY <1>4, <1>9, CartRead
  <2>2. \A b \in Callers : b # a => call'[b] = call[b]
    BY <2>1 DEF Others
  <2>3. \A b \in Callers : (call'[b].stage = "writing" /\ ~call'[b].stale) =>
          \/ /\ call[b].stage = "writing" /\ ~call[b].stale
             /\ call'[b].cart = call[b].cart /\ call'[b].key = call[b].key
          \/ call'[b].key \in Keys /\ call'[b].cart = carts[call'[b].key]
    BY <2>1, <2>2
  <2> QED
    BY <1>1, <2>1, <2>3
<1>10. ASSUME NEW a \in Callers, WriteCart(a)
       PROVE  Gone'
  <2> DEFINE c == call[a]
             k == c.key
  <2>1. /\ c.stage = "writing" /\ carts' = [carts EXCEPT ![k] = Changed(c)]
        /\ edited' = [edited EXCEPT ![k] = @ \cup {c.sku}]
        /\ undone' = IF c.stale THEN undone \cup {k} ELSE undone
        /\ call' = [call EXCEPT ![a] = Idle]
    BY <1>10 DEF WriteCart, Answer
  <2>2. c \in Calls /\ c.sku \in Skus
    BY <2>1 DEF Typed, CallsTyped, Editing
  <2>3. \A s \in Skus : s # c.sku => Changed(c)[s] = c.cart[s]
    BY <2>2, ChangedTyped
  <2>4. k \in Keys
    BY <2>1, BoundsAssumption DEF Owned, Keys, Typed, ClientsTyped
  <2>5. call'[a].stage # "writing" /\ \A b \in Callers : b # a => call'[b] = call[b]
    BY <2>1, <1>4 DEF Typed, CallsTyped
  <2>6. c.stale \/ k \in undone \/ \A s \in Skus : c.cart[s] > 0 => s \in edited[k]
    BY <2>1 DEF Gone
  <2> HIDE DEF c, k
  <2>7. /\ carts'[k] = Changed(c) /\ \A j \in Keys : j # k => carts'[j] = carts[j]
        /\ edited'[k] = edited[k] \cup {c.sku}
        /\ \A j \in Keys : j # k => edited'[j] = edited[j]
    BY <2>1, <2>4 DEF Typed, CartsTyped
  <2>8. undone \subseteq undone' /\ (c.stale => k \in undone')
    BY <2>1
  <2>9. ASSUME NEW j \in Keys
        PROVE  j \in undone' \/ \A s \in Skus : carts'[j][s] > 0 => s \in edited'[j]
    <3>1. CASE j = k
      <4>1. CASE k \in undone'
        BY <3>1, <4>1
      <4>2. CASE k \notin undone'
        <5>1. \A s \in Skus : c.cart[s] > 0 => s \in edited[k]
          BY <2>6, <2>8, <4>2
        <5>2. \A s \in Skus : carts'[k][s] > 0 => s \in edited'[k]
          BY <2>3, <2>7, <5>1
        <5> QED
          BY <3>1, <5>2
      <4> QED
        BY <4>1, <4>2
    <3>2. CASE j # k
      BY <3>2, <2>7, <2>8 DEF Gone, SoldLinesStayGone
    <3> QED
      BY <3>1, <3>2
  <2>10. ASSUME NEW b \in Callers, call'[b].stage = "writing", ~call'[b].stale
         PROVE  \/ call'[b].key \in undone'
                \/ \A s \in Skus : call'[b].cart[s] > 0 => s \in edited'[call'[b].key]
    <3>1. b # a /\ call'[b] = call[b]
      BY <2>5, <2>10
    <3>2. call[b].key \in Keys
      BY <2>10, <3>1, BoundsAssumption DEF Owned, Keys, Typed, ClientsTyped
    <3>3. edited[call[b].key] \subseteq edited'[call[b].key]
      BY <2>7, <3>2
    <3>4. call[b].key \in undone \/ \A s \in Skus : call[b].cart[s] > 0 => s \in edited[call[b].key]
      BY <2>10, <3>1 DEF Gone
    <3> QED
      BY <2>8, <3>1, <3>3, <3>4
  <2>11. SoldLinesStayGone'
    BY <2>9 DEF SoldLinesStayGone
  <2> QED
    BY <2>10, <2>11 DEF Gone
<1>11. ASSUME NEW a \in Callers, StoreOrder(a)
       PROVE  Gone'
  <2>1. Others(a) /\ call'[a].stage = "mapping" /\ UNCHANGED <<carts, emptied>>
    BY <1>11, OrderStored DEF StoreOrder
  <2> QED
    BY <2>1, <1>2
<1>12. ASSUME NEW a \in Callers, MapCart(a)
       PROVE  Gone'
  <2>1. UNCHANGED <<carts, emptied>> /\ call' = [call EXCEPT ![a] = Idle]
    BY <1>12 DEF MapCart, Answer
  <2>2. Others(a) /\ call'[a] = Idle
    BY <2>1, BeginRecords DEF Others, Typed, CallsTyped
  <2> QED
    BY <2>1, <2>2, <1>2, <1>4
<1>13. ASSUME NEW o \in Orders, BeginRail(o) \/ BeginPlace(o)
       PROVE  Gone'
  BY <1>13, <1>3 DEF BeginRail, BeginPlace
<1>14. ASSUME NEW o \in Orders, NEW r \in Rails, Record(o, r) \/ Unmap(o, r) \/ Forget(o, r)
       PROVE  Gone'
  BY <1>14, <1>3 DEF Record, Unmap, Forget
<1>15. ASSUME NEW o \in Orders, NEW r \in Rails, EmptyCart(o, r)
       PROVE  Gone'
  <2> DEFINE k == completing[<<o, r>>].key
  <2>1. /\ carts' = [carts EXCEPT ![k] = Empty]
        /\ edited' = [edited EXCEPT ![k] = {}]
        /\ undone' = undone \ {k}
    BY <1>15 DEF EmptyCart
  <2>2. \A b \in Callers :
          /\ call'[b].stage = call[b].stage /\ call'[b].key = call[b].key /\ call'[b].cart = call[b].cart
          /\ call'[b].stage = "writing" /\ call'[b].key = k => call'[b].stale
          /\ ~call'[b].stale => ~call[b].stale
    BY <1>15, CartEmptied
  <2> HIDE DEF k
  <2>3. /\ \A j \in Keys : j # k => carts'[j] = carts[j] /\ edited'[j] = edited[j]
        /\ k \in Keys => carts'[k] = Empty
        /\ \A j : j # k /\ j \in undone => j \in undone'
    BY <2>1 DEF Typed, CartsTyped
  <2>4. ASSUME NEW j \in Keys
        PROVE  j \in undone' \/ \A s \in Skus : carts'[j][s] > 0 => s \in edited'[j]
    <3>1. CASE j = k
      <4>1. \A s \in Skus : carts'[j][s] = 0
        BY <2>3, <3>1 DEF Empty
      <4> QED
        BY <4>1
    <3>2. CASE j # k
      BY <3>2, <2>3 DEF Gone, SoldLinesStayGone
    <3> QED
      BY <3>1, <3>2
  <2>5. ASSUME NEW b \in Callers, call'[b].stage = "writing", ~call'[b].stale
        PROVE  \/ call'[b].key \in undone'
               \/ \A s \in Skus : call'[b].cart[s] > 0 => s \in edited'[call'[b].key]
    <3>1. call[b].stage = "writing" /\ ~call[b].stale /\ call[b].key # k
      BY <2>2, <2>5
    <3>2. call[b].key \in Keys
      BY <3>1, BoundsAssumption DEF Owned, Keys, Typed, ClientsTyped
    <3>3. call[b].key \in undone \/ \A s \in Skus : call[b].cart[s] > 0 => s \in edited[call[b].key]
      BY <3>1 DEF Gone
    <3> QED
      BY <2>2, <2>3, <3>1, <3>2, <3>3
  <2>6. SoldLinesStayGone'
    BY <2>4 DEF SoldLinesStayGone
  <2> QED
    BY <2>5, <2>6 DEF Gone
<1>16. CASE Restart
  <2>1. UNCHANGED <<carts, emptied>> /\ \A b \in Callers : call'[b] = Idle
    BY <1>16 DEF Restart, Typed, CallsTyped
  <2> QED
    BY <2>1, <1>1, <1>4
<1>17. CASE UNCHANGED storefrontVars
  BY <1>17, <1>3 DEF storefrontVars
<1> QED
  BY <1>5, <1>6, <1>7, <1>8, <1>9, <1>10, <1>11, <1>12, <1>13, <1>14, <1>15, <1>16, <1>17
     DEF StorefrontNext, CallStep, CompletionStep

-----------------------------------------------------------------------------
(* The theorems *)

\* At the start nothing was issued, asked for or put in a cart.
LEMMA StorefrontStarts ==
  ASSUME StorefrontInit
  PROVE  StorefrontInv
<1>0. Idle \in Calls /\ Idle.stage = "idle" /\ ~Editing(Idle)
  BY BeginRecords DEF Idle, Editing
<1>1. Empty \in Carts /\ \A s \in Skus : Empty[s] = 0
  BY DEF Empty, Carts
<1>2. 1..0 = {} /\ 0 \in 0..MaxKeys
  BY BoundsAssumption
<1>3. ClientsTyped
  <2>1. of \in [Callers -> Conversations] /\ issued = 0 /\ live = {}
    BY PartiesAssumption DEF StorefrontInit
  <2>2. owner \in [1..issued -> Conversations]
    BY <1>2, <2>1 DEF StorefrontInit
  <2>3. held \in [Conversations -> Keys \cup {NoKey}] /\ asked \in [Conversations -> Carts]
    BY <1>1 DEF StorefrontInit
  <2> QED
    BY <1>2, <2>1, <2>2, <2>3 DEF ClientsTyped
<1>4. \A a \in Callers : call[a] = Idle
  BY DEF StorefrontInit
<1>5. CallsTyped
  BY <1>0, <1>4 DEF StorefrontInit, CallsTyped
<1>6. DOMAIN created = {} /\ offered = {}
  BY DEF StorefrontInit
<1>7. OrdersTyped
  <2>1. NotCompleting \in Completions
    BY DEF NotCompleting, Completions
  <2>2. completing \in [Orders \X Rails -> Completions]
    BY <2>1 DEF StorefrontInit
  <2>3. created \in [DOMAIN created -> Carts]
    BY <1>6 DEF StorefrontInit
  <2> QED
    BY <1>6, <2>2, <2>3 DEF StorefrontInit, OrdersTyped
<1>8. CartsTyped
  BY <1>1 DEF StorefrontInit, CartsTyped
<1>9. Typed
  BY <1>3, <1>5, <1>7, <1>8 DEF Typed
<1>10. Owned
  BY <1>0, <1>4 DEF StorefrontInit, Owned
<1>11. Backed
  <2> DEFINE U == [a \in Callers |-> {}]
             X == [s \in Skus |-> {}]
  <2>1. U \in [Callers -> SUBSET Nat] /\ X \in Backing /\ \A s \in Skus : X[s] = {}
    BY DEF Backing
  <2> HIDE DEF U, X
  <2>2. Pending(U)
    BY <1>0, <1>4 DEF Pending
  <2>3. ASSUME NEW k \in Keys
        PROVE  Backs(X, carts[k], k, U)
    <3>1. \A s \in Skus : carts[k][s] = 0
      BY <1>1 DEF StorefrontInit
    <3>2. \A s \in Skus : Cardinality(X[s]) = 0
      BY <2>1, FS_EmptySet
    <3> QED
      BY <1>0, <1>4, <2>1, <3>1, <3>2 DEF Backs
  <2>4. \A a \in Callers : call[a].stage # "writing"
    BY <1>0, <1>4
  <2> QED
    BY <2>1, <2>2, <2>3, <2>4 DEF Backed, BackedBy
<1>12. Bought
  BY <1>0, <1>4, <1>6 DEF StorefrontInit, Bought, Mapped, Buying
<1>13. Sold
  BY DEF StorefrontInit, Sold, NotCompleting
<1>14. Gone
  <2>1. \A k \in Keys, s \in Skus : carts[k][s] = 0
    BY <1>1 DEF StorefrontInit
  <2> QED
    BY <1>0, <1>4, <2>1 DEF Gone, SoldLinesStayGone
<1> QED
  BY <1>9, <1>10, <1>11, <1>12, <1>13, <1>14 DEF StorefrontInv

\* Every step keeps the invariant.
LEMMA StorefrontSteps ==
  ASSUME StorefrontInv, [StorefrontNext]_storefrontVars
  PROVE  StorefrontInv'
<1>1. ClientsTyped' /\ Grows /\ Owned'
  BY ClientsKept DEF StorefrontInv
<1>2. CallsTyped'
  BY CallsKept DEF StorefrontInv
<1>3. OrdersTyped' /\ CartsTyped'
  BY StoresKept DEF StorefrontInv
<1>4. Typed'
  BY <1>1, <1>2, <1>3 DEF Typed
<1>5. Backed'
  BY <1>1, <1>4, BackedKept DEF StorefrontInv
<1>6. Mapped' /\ Buying'
  BY <1>1, <1>4, MappedKept, BuyingKept DEF StorefrontInv
<1>7. Sold' /\ Gone'
  BY <1>4, SoldKept, GoneKept DEF StorefrontInv
<1> QED
  BY <1>1, <1>4, <1>5, <1>6, <1>7 DEF StorefrontInv, Bought

\* Keys, carts, calls, orders and completions are what they are taken for: keys belong to one
\* conversation, carts are backed by what was asked for, sold carts are in someone's hand.
THEOREM StorefrontInvariant == StorefrontSpec => []StorefrontInv
<1>1. StorefrontInit => StorefrontInv
  BY StorefrontStarts
<1>2. StorefrontInv /\ [StorefrontNext]_storefrontVars => StorefrontInv'
  BY StorefrontSteps
<1> QED
  BY <1>1, <1>2, PTL DEF StorefrontSpec

\* No bleed between conversations, for any number of them: a cart, and an order, holds at most what
\* one conversation asked for, through concurrent edits, checkouts, completions and restarts.
THEOREM CartsAlwaysApart == StorefrontSpec => []CartsApart
<1>1. StorefrontInv => CartsApart
  <2> SUFFICES ASSUME StorefrontInv
               PROVE  CartsApart
    OBVIOUS
  <2>1. Typed /\ Backed /\ Bought /\ DOMAIN owner = 1..issued
    BY DEF StorefrontInv, Typed, ClientsTyped
  <2>2. ASSUME NEW k \in Keys, NEW s \in Skus, carts[k][s] > 0
        PROVE  k \in DOMAIN owner /\ carts[k][s] <= asked[owner[k]][s]
    <3>1. k \in 1..issued
      BY <2>1, <2>2, CartIsAsked
    <3> QED
      BY <2>1, <3>1, CartIsAsked
  <2> QED
    BY <2>1, <2>2 DEF CartsApart, Bought, Mapped
<1> QED
  BY <1>1, StorefrontInvariant, PTL

\* A completed order's cart is emptied and its key forgotten, unless a restart cut the completion
\* off, and sold lines come back only by a new edit or by one that had read the cart before.
THEOREM SoldCartsAlwaysEmptied == StorefrontSpec => []SoldCartsAreEmptied
<1>1. StorefrontInv => SoldCartsAreEmptied
  BY DEF StorefrontInv, Sold, Gone, SoldCartsAreEmptied, RecordedIsEmptied
<1> QED
  BY <1>1, StorefrontInvariant, PTL

-----------------------------------------------------------------------------
(* The multi-round grant tool *)

AnswerSets == [{"item", "size"} -> Words \cup Sizes \cup {"none"}]
RoundStates ==
  [param : Params, sub : Principals, n : Nat, answers : AnswerSets, asks : Fields \cup {"nothing"},
   grant : Nat, awaiting : BOOLEAN]
Minted ==
  [product : Products, sub : Principals, param : Params, approved : BOOLEAN, redialed : BOOLEAN,
   status : {"pending", "authorized", "denied", "revoked"}]
Codes ==
  {"nothing", "none", "tampered", "expired", "wrong-request", "wrong-principal", "declined", "input-required",
   "unresolved", "not-found", "bounds-too-low", "awaiting-approval", "authorized", "denied", "revoked"}
DialStages == {"idle", "matching", "creating", "viewing", "holding"}

RoundsTypes ==
  /\ given \in SUBSET RoundStates
  /\ dial \in [Dialers -> [stage : DialStages, round : RoundStates \cup {NoState}, declined : BOOLEAN]]
  /\ \A d \in Dialers : dial[d].stage # "idle" => dial[d].round \in RoundStates
  /\ grants \in Seq(Minted)
  /\ said \in [Dialers -> [code : Codes, grant : Nat]]

\* What was answered was asked, of this session under these bounds.
AnsweredAsAsked(r) ==
  /\ r.answers["item"] # "none" =>
       r.answers["item"] \in Words /\ <<r.sub, r.param, "item", r.answers["item"]>> \in replies
  /\ r.answers["size"] = "fits" => <<r.sub, r.param, "size", "fits">> \in replies

\* What waits for a grant carries it.
Carried(r) == r.grant \in 0..Len(grants) /\ (r.awaiting => r.grant # NoGrant)

\* The one product a call is about is in its size and within its cap.
Payable(r) == \A p \in Products : Named(r) = {p} => Price[p] <= r.param.cap /\ Fitting(r, p)

Dialed(d) ==
  LET r == dial[d].round IN
  dial[d].stage # "idle" =>
    /\ AnsweredAsAsked(r) /\ Carried(r)
    /\ r.grant = NoGrant <=> dial[d].stage \in {"matching", "creating"}
    /\ dial[d].stage = "creating" => Payable(r)

\* ToldAsRecorded, of one call, and of a grant there is.
Told(d) ==
  LET a == said[d] IN
  a.code \in {"authorized", "denied", "revoked"} =>
    /\ a.grant \in 1..Len(grants)
    /\ a.code = "authorized" => grants[a.grant].approved
    /\ a.code \in {"denied", "revoked"} => grants[a.grant].status = a.code

RoundsInv ==
  /\ RoundsTypes
  /\ \A s \in given : AnsweredAsAsked(s) /\ Carried(s)
  /\ \A d \in Dialers : Dialed(d) /\ Told(d)
  /\ \A i \in DOMAIN grants : grants[i].status = "authorized" => grants[i].approved
  /\ MintedAsNamed /\ RedialNeverMints

-----------------------------------------------------------------------------
\* The state a call without one starts from.
LEMMA NoStateFields ==
  /\ NoState.param = [words |-> "", cap |-> 0] /\ NoState.sub = "" /\ NoState.n = 0
  /\ NoState.answers = NoAnswers /\ NoState.asks = "nothing" /\ NoState.grant = NoGrant
  /\ NoState.awaiting = FALSE
  /\ NoState \in [param : {[words |-> "", cap |-> 0]}, sub : {""}, n : Nat, answers : AnswerSets,
                  asks : Fields \cup {"nothing"}, grant : Nat, awaiting : BOOLEAN]
  /\ Forged.asks = "anything" /\ Forged # NoState
<1>1. NoAnswers \in AnswerSets
  BY DEF NoAnswers, AnswerSets
<1> QED
  BY <1>1 DEF NoState, Forged, NoGrant

\* What a reply may be to, and what it may say.
LEMMA ReplyShape ==
  ASSUME NEW reply \in Replies
  PROVE  /\ reply.to \in {"item", "size", "approval", "none", "all"}
         /\ reply.to = "item" => reply.value \in Words
         /\ reply.to = "size" => reply.value \in Sizes
<1>1. CASE reply \in {[to |-> "item", value |-> w] : w \in Words}
  BY <1>1
<1>2. CASE reply \in {[to |-> "size", value |-> z] : z \in Sizes}
  BY <1>2
<1>3. CASE reply \in {[to |-> "approval", value |-> "true"], [to |-> "none", value |-> "none"],
                     [to |-> "all", value |-> "decline"]}
  BY <1>3
<1> QED
  BY <1>1, <1>2, <1>3 DEF Replies

\* Nothing is known and nothing minted before the first call.
LEMMA RoundsStart == RoundsInit => RoundsInv
<1> SUFFICES ASSUME RoundsInit PROVE RoundsInv
  OBVIOUS
<1> USE DEF RoundsInit
<1>1. RoundsTypes
  <2>1. dial \in [Dialers -> [stage : DialStages, round : RoundStates \cup {NoState}, declined : BOOLEAN]]
    BY DEF NoDial, DialStages
  <2>2. \A d \in Dialers : dial[d].stage = "idle"
    BY DEF NoDial
  <2>3. grants \in Seq(Minted) /\ given \in SUBSET RoundStates
    OBVIOUS
  <2>4. said \in [Dialers -> [code : Codes, grant : Nat]]
    BY DEF Nothing, NoGrant, Codes
  <2> QED
    BY <2>1, <2>2, <2>3, <2>4 DEF RoundsTypes
<1>2. \A d \in Dialers : Dialed(d) /\ Told(d)
  BY DEF Dialed, Told, NoDial, Nothing
<1>3. MintedAsNamed /\ RedialNeverMints
  BY DEF MintedAsNamed, RedialNeverMints
<1> QED
  BY <1>1, <1>2, <1>3 DEF RoundsInv

\* The round a call starts: what it presents, for its own arguments and session, and its answer.
Taken(sub, param, state, reply) ==
  [state EXCEPT !.param = param, !.sub = sub, !.answers = Merge(state, reply)]

\* A state of the client's is taken up only by the session and under the bounds it was sealed for, and
\* only the answer to what it asks is added (open, mergeAnswers).
LEMMA RoundTaken ==
  ASSUME RoundsInv, NEW sub \in Principals, NEW param \in Params, NEW state \in given \cup {NoState, Forged},
         NEW reply \in Replies, Refusal(state, sub, param) = "none", replies \subseteq replies',
         reply.to = state.asks => <<sub, param, reply.to, reply.value>> \in replies'
  PROVE  LET r == Taken(sub, param, state, reply) IN
         r \in RoundStates /\ Carried(r) /\ AnsweredAsAsked(r)' /\ r.grant = state.grant
<1> DEFINE r == Taken(sub, param, state, reply)
           NoParam == [words |-> "", cap |-> 0]
           AnyStates == [param : Params \cup {NoParam}, sub : Principals \cup {""}, n : Nat, answers : AnswerSets,
                         asks : Fields \cup {"nothing"}, grant : Nat, awaiting : BOOLEAN]
<1>1. state # Forged
  BY NoStateFields DEF Refusal
<1>2. state \in AnyStates /\ (state # NoState => state \in given)
  BY <1>1, NoStateFields DEF RoundsInv, RoundsTypes, RoundStates
<1>3. Merge(state, reply) \in AnswerSets
  BY <1>2, ReplyShape DEF Merge, AnswerSets
<1>4. /\ r \in RoundStates /\ r.param = param /\ r.sub = sub /\ r.answers = Merge(state, reply)
      /\ r.grant = state.grant /\ r.awaiting = state.awaiting
  BY <1>2, <1>3 DEF RoundStates, Taken
<1> HIDE DEF r
<1>5. Carried(r)
  <2>1. CASE state = NoState
    <3>1. Len(grants) \in Nat
      BY DEF RoundsInv, RoundsTypes
    <3>2. r.grant = 0
      BY <1>4, <2>1, NoStateFields DEF NoGrant
    <3>3. ~r.awaiting
      BY <1>4, <2>1, NoStateFields
    <3> QED
      BY <3>1, <3>2, <3>3 DEF Carried
  <2>2. CASE state # NoState
    BY <1>2, <1>4, <2>2 DEF RoundsInv, Carried
  <2> QED
    BY <2>1, <2>2
<1>6. /\ state.answers["item"] # "none" =>
           state.answers["item"] \in Words /\ <<sub, param, "item", state.answers["item"]>> \in replies'
      /\ state.answers["size"] = "fits" => <<sub, param, "size", "fits">> \in replies'
  <2>1. CASE state = NoState
    BY <2>1, NoStateFields DEF NoAnswers
  <2>2. CASE state \in given /\ state # NoState
    <3>1. state.param = param /\ state.sub = sub /\ AnsweredAsAsked(state)
      BY <1>1, <2>2 DEF Refusal, RoundsInv
    <3> QED
      BY <3>1 DEF AnsweredAsAsked
  <2> QED
    BY <1>2, <2>1, <2>2
<1>7. /\ r.answers["item"] # "none" =>
           r.answers["item"] \in Words /\ <<sub, param, "item", r.answers["item"]>> \in replies'
      /\ r.answers["size"] = "fits" => <<sub, param, "size", "fits">> \in replies'
  <2>1. state.answers \in AnswerSets
    BY <1>2
  <2>2. CASE reply.to = state.asks /\ reply.to # "approval"
    <3>1. reply.to \in {"item", "size"}
      BY <1>2, <2>2, ReplyShape DEF Fields
    <3>2. r.answers = [state.answers EXCEPT ![reply.to] = reply.value]
      BY <1>4, <2>2 DEF Merge
    <3>3. CASE reply.to = "item"
      BY <1>6, <2>1, <2>2, <3>2, <3>3, ReplyShape DEF AnswerSets
    <3>4. CASE reply.to = "size"
      BY <1>6, <2>1, <2>2, <3>2, <3>4, ReplyShape DEF AnswerSets
    <3> QED
      BY <3>1, <3>3, <3>4
  <2>3. CASE ~(reply.to = state.asks /\ reply.to # "approval")
    BY <1>4, <1>6, <2>3 DEF Merge
  <2> QED
    BY <2>2, <2>3
<1>8. AnsweredAsAsked(r)'
  BY <1>4, <1>7 DEF AnsweredAsAsked
<1> QED
  BY <1>4, <1>5, <1>8 DEF r

-----------------------------------------------------------------------------
(* What a step leaves alone *)

\* A reply that was given stays given.
LEMMA AnsweredStays ==
  ASSUME NEW r, AnsweredAsAsked(r), replies \subseteq replies'
  PROVE  AnsweredAsAsked(r)'
BY DEF AnsweredAsAsked

\* A call that a step does not touch stands where it stood, and was told what it was told.
LEMMA OtherCalls ==
  ASSUME RoundsInv, NEW e \in Dialers, dial'[e] = dial[e], said'[e] = said[e], replies \subseteq replies',
         grants' = grants
  PROVE  Dialed(e)' /\ Told(e)'
<1>1. Told(e)'
  BY DEF RoundsInv, Told
<1>2. AnsweredAsAsked(dial[e].round) => AnsweredAsAsked(dial[e].round)'
  BY AnsweredStays DEF AnsweredAsAsked
<1>3. Dialed(e)'
  BY DEF RoundsInv, Dialed, AnsweredAsAsked, Carried, Payable, Named, Said, Fitting
<1> QED
  BY <1>1, <1>3

\* What was minted stays minted for what it was.
LEMMA MintedStays ==
  ASSUME RoundsInv, replies \subseteq replies', grants' = grants
  PROVE  /\ \A i \in DOMAIN grants' : grants'[i].status = "authorized" => grants'[i].approved
         /\ MintedAsNamed' /\ RedialNeverMints'
         /\ \A s \in given : AnsweredAsAsked(s)' /\ Carried(s)'
<1>1. MintedAsNamed'
  BY DEF RoundsInv, MintedAsNamed
<1>2. RedialNeverMints' /\ \A i \in DOMAIN grants' : grants'[i].status = "authorized" => grants'[i].approved
  BY DEF RoundsInv, RedialNeverMints
<1>3. \A s \in given : AnsweredAsAsked(s)' /\ Carried(s)'
  BY DEF RoundsInv, AnsweredAsAsked, Carried
<1> QED
  BY <1>1, <1>2, <1>3

-----------------------------------------------------------------------------
(* A call *)

\* A call that starts: refused, declined, or a round of its own.
LEMMA DialKeeps ==
  ASSUME RoundsInv, NEW d \in Dialers, NEW sub \in Principals, NEW param \in Params,
         NEW state \in given \cup {NoState, Forged}, NEW reply \in Replies,
         Dial(d, sub, param, state, reply)
  PROVE  RoundsInv'
<1> DEFINE code == Refusal(state, sub, param)
           declined == reply.to = "all" /\ state.asks # "nothing"
           r == Taken(sub, param, state, reply)
           Rounded(stage) == dial' = [dial EXCEPT ![d] = [stage |-> stage, round |-> r, declined |-> declined]]
<1>1. /\ dial[d].stage = "idle" /\ grants' = grants /\ given' = given
      /\ replies' = IF code = "none" /\ reply.to = state.asks
                      THEN replies \cup {<<sub, param, reply.to, reply.value>>} ELSE replies
  BY DEF Dial
<1>2. replies \subseteq replies'
  BY <1>1
<1>3. dial \in [Dialers -> [stage : DialStages, round : RoundStates \cup {NoState}, declined : BOOLEAN]]
      /\ said \in [Dialers -> [code : Codes, grant : Nat]]
  BY DEF RoundsInv, RoundsTypes
<1>4. CASE /\ dial' = dial
           /\ \E c \in Codes \ {"authorized", "denied", "revoked"} : Say(d, c, NoGrant)
  <2>1. PICK c \in Codes \ {"authorized", "denied", "revoked"} : Say(d, c, NoGrant)
    BY <1>4
  <2>2. said' \in [Dialers -> [code : Codes, grant : Nat]] /\ said'[d].code = c
        /\ \A e \in Dialers \ {d} : said'[e] = said[e]
    BY <1>3, <2>1 DEF Say, NoGrant
  <2>3. Dialed(d)' /\ Told(d)'
    BY <1>1, <1>4, <2>2 DEF Dialed, Told
  <2>4. \A e \in Dialers \ {d} : Dialed(e)' /\ Told(e)'
    BY <1>1, <1>2, <1>4, <2>2, OtherCalls
  <2>5. RoundsTypes'
    BY <1>1, <1>4, <2>2 DEF RoundsInv, RoundsTypes
  <2> QED
    BY <1>1, <1>2, <2>3, <2>4, <2>5, MintedStays DEF RoundsInv
<1>5. ASSUME code = "none", said' = said, NEW stage \in {"matching", "holding"}, Rounded(stage),
             state.grant = NoGrant <=> stage = "matching"
      PROVE  RoundsInv'
  <2>1. r \in RoundStates /\ Carried(r) /\ AnsweredAsAsked(r)' /\ r.grant = state.grant
    BY <1>1, <1>2, <1>5, RoundTaken
  <2>2. dial'[d] = [stage |-> stage, round |-> r, declined |-> declined]
        /\ \A e \in Dialers \ {d} : dial'[e] = dial[e]
    BY <1>3, <1>5
  <2>3. dial' \in [Dialers -> [stage : DialStages, round : RoundStates \cup {NoState}, declined : BOOLEAN]]
    BY <1>3, <1>5, <2>1 DEF DialStages
  <2>4. RoundsTypes'
    BY <1>1, <1>5, <2>1, <2>2, <2>3 DEF RoundsInv, RoundsTypes
  <2>5. Dialed(d)'
    <3>1. dial'[d].stage = stage /\ dial'[d].round = r
      BY <2>2
    <3> HIDE DEF r
    <3>2. Carried(r)'
      BY <1>1, <2>1 DEF Carried
    <3> QED
      BY <1>5, <2>1, <3>1, <3>2 DEF Dialed
  <2>6. Told(d)'
    BY <1>1, <1>5 DEF RoundsInv, Told
  <2>7. \A e \in Dialers \ {d} : Dialed(e)' /\ Told(e)'
    BY <1>1, <1>2, <1>5, <2>2, OtherCalls
  <2> QED
    BY <1>1, <1>2, <2>4, <2>5, <2>6, <2>7, MintedStays DEF RoundsInv
<1>6. code \in {"none", "tampered", "expired", "wrong-request", "wrong-principal"}
  BY DEF Refusal
<1>7. \/ code # "none" /\ Say(d, code, NoGrant) /\ dial' = dial
      \/ code = "none" /\ state.grant # NoGrant /\ Rounded("holding") /\ said' = said
      \/ code = "none" /\ state.grant = NoGrant /\ Say(d, "declined", NoGrant) /\ dial' = dial
      \/ code = "none" /\ state.grant = NoGrant /\ Rounded("matching") /\ said' = said
  BY DEF Dial, Taken
<1>8. CASE code # "none" /\ Say(d, code, NoGrant) /\ dial' = dial
  BY <1>4, <1>6, <1>8 DEF Codes
<1>9. CASE code = "none" /\ state.grant # NoGrant /\ Rounded("holding") /\ said' = said
  BY <1>5, <1>9
<1>10. CASE code = "none" /\ state.grant = NoGrant /\ Say(d, "declined", NoGrant) /\ dial' = dial
  BY <1>4, <1>10 DEF Codes
<1>11. CASE code = "none" /\ state.grant = NoGrant /\ Rounded("matching") /\ said' = said
  BY <1>5, <1>11
<1> QED
  BY <1>7, <1>8, <1>9, <1>10, <1>11

\* A call that is answered: what it seals is sound, and what it is told is so.
LEMMA EndKeeps ==
  ASSUME RoundsInv, NEW d \in Dialers, NEW code \in Codes, NEW grant \in Nat,
         Say(d, code, grant), End(d), UNCHANGED <<grants, replies>>,
         given' \in SUBSET RoundStates, \A s \in given' : s \in given \/ (AnsweredAsAsked(s) /\ Carried(s)),
         code \in {"authorized", "denied", "revoked"} =>
           /\ grant \in 1..Len(grants)
           /\ code = "authorized" => grants[grant].approved
           /\ code \in {"denied", "revoked"} => grants[grant].status = code
  PROVE  RoundsInv'
<1>1. /\ dial \in [Dialers -> [stage : DialStages, round : RoundStates \cup {NoState}, declined : BOOLEAN]]
      /\ said \in [Dialers -> [code : Codes, grant : Nat]]
  BY DEF RoundsInv, RoundsTypes
<1>2. /\ dial'[d] = NoDial /\ \A e \in Dialers \ {d} : dial'[e] = dial[e]
      /\ dial' \in [Dialers -> [stage : DialStages, round : RoundStates \cup {NoState}, declined : BOOLEAN]]
  BY <1>1 DEF End, NoDial, DialStages
<1>3. /\ said'[d] = [code |-> code, grant |-> grant] /\ \A e \in Dialers \ {d} : said'[e] = said[e]
      /\ said' \in [Dialers -> [code : Codes, grant : Nat]]
  BY <1>1 DEF Say
<1>4. RoundsTypes'
  BY <1>2, <1>3 DEF RoundsInv, RoundsTypes, NoDial
<1>5. Dialed(d)' /\ Told(d)'
  BY <1>2, <1>3 DEF Dialed, Told, NoDial
<1>6. \A e \in Dialers \ {d} : Dialed(e)' /\ Told(e)'
  BY <1>2, <1>3, OtherCalls
<1>7. \A s \in given' : AnsweredAsAsked(s)' /\ Carried(s)'
  BY MintedStays DEF AnsweredAsAsked, Carried
<1> QED
  BY <1>4, <1>5, <1>6, <1>7, MintedStays DEF RoundsInv

\* A call that moves on within its round.
LEMMA AtKeeps ==
  ASSUME RoundsInv, NEW d \in Dialers, NEW stage \in DialStages, dial[d].stage # "idle", At(d, stage),
         UNCHANGED <<given, grants, said, replies>>,
         dial[d].round.grant = NoGrant <=> stage \in {"matching", "creating"},
         stage = "creating" => Payable(dial[d].round)
  PROVE  RoundsInv'
<1>1. dial \in [Dialers -> [stage : DialStages, round : RoundStates \cup {NoState}, declined : BOOLEAN]]
      /\ dial[d].round \in RoundStates
  BY DEF RoundsInv, RoundsTypes
<1>2. /\ dial'[d].stage = stage /\ dial'[d].round = dial[d].round
      /\ \A e \in Dialers \ {d} : dial'[e] = dial[e]
      /\ dial' \in [Dialers -> [stage : DialStages, round : RoundStates \cup {NoState}, declined : BOOLEAN]]
  BY <1>1 DEF At
<1>3. RoundsTypes'
  BY <1>1, <1>2 DEF RoundsInv, RoundsTypes
<1>4. Dialed(d)'
  BY <1>2 DEF RoundsInv, Dialed, AnsweredAsAsked, Carried, Payable, Named, Said, Fitting
<1>5. Told(d)'
  BY DEF RoundsInv, Told
<1>6. \A e \in Dialers \ {d} : Dialed(e)' /\ Told(e)'
  BY <1>2, OtherCalls
<1> QED
  BY <1>3, <1>4, <1>5, <1>6, MintedStays DEF RoundsInv

\* What a question seals: the round, one further.
LEMMA AskKeeps ==
  ASSUME RoundsInv, NEW d \in Dialers, dial[d].stage = "matching", NEW asks \in {"item", "size"},
         Ask(d, asks), End(d), UNCHANGED <<grants, replies>>
  PROVE  RoundsInv'
<1> DEFINE r == dial[d].round
           s == [r EXCEPT !.n = @ + 1, !.asks = asks]
<1>1. r \in RoundStates /\ AnsweredAsAsked(r) /\ Carried(r)
  BY DEF RoundsInv, RoundsTypes, Dialed
<1>2. s \in RoundStates /\ AnsweredAsAsked(s) /\ Carried(s)
  <2>1. /\ s.param = r.param /\ s.sub = r.sub /\ s.answers = r.answers /\ s.grant = r.grant
        /\ s.awaiting = r.awaiting
    BY <1>1 DEF RoundStates
  <2>2. s \in RoundStates
    <3>1. r.n + 1 \in Nat /\ asks \in Fields \cup {"nothing"}
      BY <1>1 DEF RoundStates, Fields
    <3> DEFINE t == [r EXCEPT !.n = r.n + 1]
    <3>2. t \in RoundStates /\ s = [t EXCEPT !.asks = asks]
      BY <1>1, <3>1 DEF RoundStates
    <3> HIDE DEF t
    <3> QED
      BY <3>1, <3>2 DEF RoundStates
  <2> HIDE DEF s
  <2> QED
    BY <1>1, <2>1, <2>2 DEF AnsweredAsAsked, Carried
<1>3. given' \in {given, given \cup {s}}
  BY DEF Ask, Seal
<1>4. given' \in SUBSET RoundStates /\ \A x \in given' : x \in given \/ (AnsweredAsAsked(x) /\ Carried(x))
  BY <1>2, <1>3 DEF RoundsInv, RoundsTypes
<1>5. PICK code \in {"input-required", "unresolved"} : Say(d, code, NoGrant)
  BY DEF Ask
<1> QED
  BY <1>4, <1>5, EndKeeps DEF Codes, NoGrant

\* What is still open is asked; a grant is created only for what can be paid.
LEMMA MatchKeeps ==
  ASSUME RoundsInv, NEW d \in Dialers, Match(d)
  PROVE  RoundsInv'
<1> DEFINE r == dial[d].round
<1>1. dial[d].stage = "matching" /\ UNCHANGED <<grants, replies>>
  BY DEF Match
<1>2. CASE \E asks \in {"item", "size"} : Ask(d, asks) /\ End(d)
  BY <1>1, <1>2, AskKeeps
<1>3. CASE Say(d, "bounds-too-low", NoGrant) /\ End(d) /\ given' = given
  BY <1>1, <1>3, EndKeeps DEF Codes, NoGrant, RoundsInv, RoundsTypes
<1>4. ASSUME NEW p \in Products, Named(r) = {p}, Fitting(r, p), Price[p] <= r.param.cap, At(d, "creating"),
             UNCHANGED <<given, said>>
      PROVE  RoundsInv'
  <2>1. Payable(r)
    BY <1>4 DEF Payable
  <2>2. r.grant = NoGrant
    BY <1>1 DEF RoundsInv, Dialed
  <2> QED
    BY <1>1, <1>4, <2>1, <2>2, AtKeeps DEF DialStages
<1> QED
  BY <1>2, <1>3, <1>4 DEF Match

\* A redial while the grant is pending hands out the state it came with again.
LEMMA AwaitKeeps ==
  ASSUME RoundsInv, NEW d \in Dialers, Await(d)
  PROVE  RoundsInv'
<1> DEFINE r == dial[d].round
           s == [r EXCEPT !.n = MaxRounds, !.asks = "approval", !.awaiting = TRUE]
<1>1. /\ dial[d].stage = "viewing" /\ given' = given \cup {s} /\ Say(d, "awaiting-approval", r.grant) /\ End(d)
      /\ UNCHANGED <<grants, replies>>
  BY DEF Await
<1>2. r \in RoundStates /\ AnsweredAsAsked(r) /\ Carried(r) /\ r.grant # NoGrant
  BY <1>1 DEF RoundsInv, RoundsTypes, Dialed
<1>3. s \in RoundStates /\ AnsweredAsAsked(s) /\ Carried(s)
  BY <1>2, RoundsAssumption DEF RoundStates, Fields, AnsweredAsAsked, Carried
<1>4. given' \in SUBSET RoundStates /\ \A x \in given' : x \in given \/ (AnsweredAsAsked(x) /\ Carried(x))
  BY <1>1, <1>3 DEF RoundsInv, RoundsTypes
<1>5. r.grant \in Nat
  BY <1>2 DEF RoundStates
<1> QED
  BY <1>1, <1>4, <1>5, EndKeeps DEF Codes

\* The held redial tells what the record says.
LEMMA HeldKeeps ==
  ASSUME RoundsInv, NEW d \in Dialers, Held(d)
  PROVE  RoundsInv'
<1> DEFINE g == dial[d].round.grant
<1>1. dial[d].stage = "holding" /\ UNCHANGED <<given, grants, replies>>
  BY DEF Held
<1>2. g \in 1..Len(grants) /\ g # NoGrant
  BY <1>1 DEF RoundsInv, RoundsTypes, Dialed, Carried, NoGrant
<1>3. grants[g] \in Minted /\ (grants[g].status = "authorized" => grants[g].approved)
  BY <1>2 DEF RoundsInv, RoundsTypes
<1>4. given' \in SUBSET RoundStates
  BY <1>1 DEF RoundsInv, RoundsTypes
<1>5. CASE StatusOf(d) # "pending" /\ Say(d, StatusOf(d), g) /\ End(d)
  <2>1. StatusOf(d) \in {"authorized", "denied", "revoked"} /\ StatusOf(d) = grants[g].status
    BY <1>3, <1>5 DEF StatusOf, Minted
  <2> QED
    BY <1>1, <1>2, <1>3, <1>4, <1>5, <2>1, EndKeeps DEF Codes
<1>6. CASE Say(d, "declined", g) /\ End(d)
  BY <1>1, <1>2, <1>4, <1>6, EndKeeps DEF Codes
<1>7. CASE Say(d, "not-found", NoGrant) /\ End(d)
  BY <1>1, <1>4, <1>7, EndKeeps DEF Codes, NoGrant
<1>8. CASE At(d, "viewing") /\ said' = said
  BY <1>1, <1>2, <1>8, AtKeeps DEF DialStages
<1> QED
  BY <1>5, <1>6, <1>7, <1>8 DEF Held

\* A grant is created once in a call, which waits for it from then on.
LEMMA CreateKeeps ==
  ASSUME RoundsInv, NEW d \in Dialers, Create(d)
  PROVE  RoundsInv'
<1> DEFINE r == dial[d].round
<1>1. PICK p \in Products :
        /\ dial[d].stage = "creating" /\ Named(r) = {p}
        /\ grants' = Append(grants, [product |-> p, sub |-> r.sub, param |-> r.param, status |-> "pending",
                                     approved |-> FALSE, redialed |-> r.awaiting])
        /\ dial' = [dial EXCEPT ![d].stage = "viewing", ![d].round.grant = Len(grants')]
        /\ UNCHANGED <<given, expired, kept, said, replies, dials>>
  BY DEF Create
<1> DEFINE new == [product |-> p, sub |-> r.sub, param |-> r.param, status |-> "pending",
                   approved |-> FALSE, redialed |-> r.awaiting]
<1>2. r \in RoundStates /\ AnsweredAsAsked(r) /\ r.awaiting = FALSE /\ Payable(r)
  BY <1>1 DEF RoundsInv, RoundsTypes, Dialed, Carried, RoundStates
<1>3. new \in Minted
  BY <1>2 DEF RoundStates, Minted
<1>4. grants \in Seq(Minted) /\ Len(grants) \in Nat
  BY DEF RoundsInv, RoundsTypes
<1>5. /\ grants' \in Seq(Minted) /\ Len(grants') = Len(grants) + 1 /\ grants'[Len(grants) + 1] = new
      /\ \A i \in 1..Len(grants) : grants'[i] = grants[i]
      /\ DOMAIN grants = 1..Len(grants) /\ DOMAIN grants' = 1..(Len(grants) + 1)
  <2> HIDE DEF new
  <2>1. grants' = Append(grants, new)
    BY <1>1 DEF new
  <2> QED
    BY <1>3, <1>4, <2>1
<1> DEFINE next == [r EXCEPT !.grant = Len(grants) + 1]
<1>6. /\ dial'[d].stage = "viewing" /\ dial'[d].round = next
      /\ \A e \in Dialers \ {d} : dial'[e] = dial[e]
      /\ dial' \in [Dialers -> [stage : DialStages, round : RoundStates \cup {NoState}, declined : BOOLEAN]]
      /\ next \in RoundStates /\ next.grant = Len(grants) + 1
      /\ next.sub = r.sub /\ next.param = r.param /\ next.answers = r.answers
  <2>1. dial \in [Dialers -> [stage : DialStages, round : RoundStates \cup {NoState}, declined : BOOLEAN]]
    BY DEF RoundsInv, RoundsTypes
  <2>2. /\ next \in RoundStates /\ next.grant = Len(grants) + 1
        /\ next.sub = r.sub /\ next.param = r.param /\ next.answers = r.answers
    BY <1>2, <1>4 DEF RoundStates
  <2> DEFINE moved == [stage |-> "viewing", round |-> next, declined |-> dial[d].declined]
  <2>3. dial' = [dial EXCEPT ![d] = moved]
    <3>1. dial' = [dial EXCEPT ![d] = [[dial[d] EXCEPT !.stage = "viewing"] EXCEPT !.round =
                                         [[dial[d] EXCEPT !.stage = "viewing"].round EXCEPT !.grant = Len(grants) + 1]]]
      BY <1>1, <1>5, <2>1
    <3>2. dial[d] = [stage |-> dial[d].stage, round |-> r, declined |-> dial[d].declined]
      BY <2>1
    <3>3. [dial[d] EXCEPT !.stage = "viewing"] = [stage |-> "viewing", round |-> r, declined |-> dial[d].declined]
      BY <3>2
    <3>4. /\ [dial[d] EXCEPT !.stage = "viewing"].round = r
          /\ [[dial[d] EXCEPT !.stage = "viewing"] EXCEPT !.round = next] = moved
      <4> DEFINE viewing == [dial[d] EXCEPT !.stage = "viewing"]
      <4>1. viewing = [stage |-> "viewing", round |-> r, declined |-> dial[d].declined]
        BY <3>3
      <4> HIDE DEF viewing, next
      <4>2. viewing.round = r /\ [viewing EXCEPT !.round = next] = moved
        BY <4>1
      <4> QED
        BY <4>2 DEF viewing
    <3> HIDE DEF moved
    <3> QED
      BY <3>1, <3>4
  <2>4. moved \in [stage : DialStages, round : RoundStates \cup {NoState}, declined : BOOLEAN]
    <3> HIDE DEF next
    <3> QED
      BY <2>1, <2>2 DEF DialStages
  <2>5. moved.stage = "viewing" /\ moved.round = next
    OBVIOUS
  <2> HIDE DEF moved, next
  <2> QED
    BY <2>1, <2>2, <2>3, <2>4, <2>5
<1> HIDE DEF next
<1>7. RoundsTypes'
  BY <1>1, <1>5, <1>6 DEF RoundsInv, RoundsTypes
<1>8. \A s \in given' : AnsweredAsAsked(s)' /\ Carried(s)'
  <2>1. ASSUME NEW s \in given PROVE AnsweredAsAsked(s) /\ s.grant \in 0..Len(grants) /\ (s.awaiting => s.grant # NoGrant)
    BY DEF RoundsInv, Carried
  <2>2. 0..Len(grants) \subseteq 0..Len(grants')
    BY <1>4, <1>5
  <2> QED
    BY <1>1, <2>1, <2>2 DEF AnsweredAsAsked, Carried
<1>9. ASSUME NEW e \in Dialers PROVE Dialed(e)' /\ Told(e)'
  <2>1. Told(e)'
    BY <1>1, <1>4, <1>5 DEF RoundsInv, RoundsTypes, Told
  <2>2. CASE e = d
    <3>1. AnsweredAsAsked(dial[d].round)'
      <4>1. dial'[d].round.sub = r.sub /\ dial'[d].round.param = r.param /\ dial'[d].round.answers = r.answers
        BY <1>6
      <4>2. replies' = replies /\ AnsweredAsAsked(r)
        BY <1>1, <1>2
      <4> HIDE DEF r
      <4> QED
        BY <4>1, <4>2 DEF AnsweredAsAsked
    <3>2. Len(grants) + 1 \in 0..Len(grants') /\ Len(grants) + 1 # NoGrant
      BY <1>4, <1>5 DEF NoGrant
    <3>3. dial'[d].stage = "viewing" /\ dial'[d].round.grant = Len(grants) + 1
      BY <1>6
    <3>4. Carried(dial[d].round)'
      BY <3>2, <3>3 DEF Carried
    <3> QED
      BY <2>1, <2>2, <3>1, <3>2, <3>3, <3>4 DEF Dialed
  <2>3. CASE e # d
    <3>1. dial[e].stage # "idle" => AnsweredAsAsked(dial[e].round) /\ Carried(dial[e].round)
      BY DEF RoundsInv, Dialed
    <3>2. dial[e].stage # "idle" => AnsweredAsAsked(dial[e].round)' /\ dial[e].round.grant \in 0..Len(grants')
      <4>1. 0..Len(grants) \subseteq 0..Len(grants')
        BY <1>4, <1>5
      <4>2. dial[e].stage # "idle" => AnsweredAsAsked(dial[e].round)'
        BY <1>1, <1>6, <2>3, <3>1 DEF AnsweredAsAsked
      <4> QED
        BY <3>1, <4>1, <4>2 DEF Carried
    <3> QED
      BY <1>6, <2>1, <2>3, <3>1, <3>2 DEF RoundsInv, Dialed, AnsweredAsAsked, Carried, Payable, Named, Said, Fitting
  <2> QED
    BY <2>2, <2>3
<1>10. \A i \in DOMAIN grants' : grants'[i].status = "authorized" => grants'[i].approved
  BY <1>5 DEF RoundsInv
<1>11. RedialNeverMints'
  BY <1>2, <1>5 DEF RoundsInv, RedialNeverMints
<1>12. MintedAsNamed'
  <2>1. Price[p] <= r.param.cap /\ Fitting(r, p)
    BY <1>1, <1>2 DEF Payable
  <2>2. \/ Matches[r.param.words] = {p}
        \/ \E w \in Words : Matches[w] = {p} /\ <<r.sub, r.param, "item", w>> \in replies
    BY <1>1, <1>2 DEF Named, Said, AnsweredAsAsked
  <2>3. \/ p \notin Sized \/ p \in Pinned[r.param.words]
        \/ \E w \in Words : p \in Pinned[w] /\ <<r.sub, r.param, "item", w>> \in replies
        \/ <<r.sub, r.param, "size", "fits">> \in replies
    BY <1>2, <2>1 DEF Fitting, Said, AnsweredAsAsked
  <2>4. ASSUME NEW i \in DOMAIN grants'
        PROVE  LET g == grants'[i] IN
               /\ Price[g.product] <= g.param.cap
               /\ \/ Matches[g.param.words] = {g.product}
                  \/ \E w \in Words : Matches[w] = {g.product} /\ <<g.sub, g.param, "item", w>> \in replies
               /\ \/ g.product \notin Sized \/ g.product \in Pinned[g.param.words]
                  \/ \E w \in Words : g.product \in Pinned[w] /\ <<g.sub, g.param, "item", w>> \in replies
                  \/ <<g.sub, g.param, "size", "fits">> \in replies
    <3>1. CASE i \in DOMAIN grants
      BY <1>5, <3>1 DEF RoundsInv, MintedAsNamed
    <3>2. CASE i = Len(grants) + 1
      <4>1. grants'[i].product = p /\ grants'[i].param = r.param /\ grants'[i].sub = r.sub
        BY <1>5, <3>2
      <4> QED
        BY <2>1, <2>2, <2>3, <4>1
    <3>3. i \in DOMAIN grants \/ i = Len(grants) + 1
      BY <1>4, <1>5
    <3> QED
      BY <3>1, <3>2, <3>3
  <2> QED
    BY <1>1, <2>4 DEF MintedAsNamed
<1> QED
  BY <1>7, <1>8, <1>9, <1>10, <1>11, <1>12 DEF RoundsInv

-----------------------------------------------------------------------------
(* The human, the clock, the process *)

\* The human decides a pending grant, or revokes one; no decision is taken back.
LEMMA DecideKeeps ==
  ASSUME RoundsInv, NEW g \in DOMAIN grants, NEW status \in {"authorized", "denied", "revoked"}, Decide(g, status)
  PROVE  RoundsInv'
<1>1. /\ grants' = [grants EXCEPT ![g].status = status, ![g].approved = @ \/ status = "authorized"]
      /\ IF status = "revoked" THEN grants[g].status \in {"pending", "authorized"}
                               ELSE grants[g].status = "pending"
      /\ UNCHANGED <<given, expired, dial, kept, said, replies, dials>>
  BY DEF Decide
<1>2. grants \in Seq(Minted) /\ grants[g] \in Minted
  BY DEF RoundsInv, RoundsTypes
<1>3. (grants[g].approved \/ status = "authorized") \in BOOLEAN
  BY Zenon
<1> DEFINE decided == [grants[g] EXCEPT !.status = status, !.approved = (grants[g].approved \/ status = "authorized")]
<1>4. /\ grants' \in Seq(Minted) /\ DOMAIN grants' = DOMAIN grants /\ Len(grants') = Len(grants)
      /\ DOMAIN grants = 1..Len(grants)
      /\ \A i \in DOMAIN grants : /\ i # g => grants'[i] = grants[i]
                                 /\ grants'[i].product = grants[i].product /\ grants'[i].sub = grants[i].sub
                                 /\ grants'[i].param = grants[i].param
                                 /\ grants'[i].redialed = grants[i].redialed
      /\ grants'[g].status = status /\ grants'[g].approved = (grants[g].approved \/ status = "authorized")
  <2>1. grants' = [grants EXCEPT ![g] = decided]
    BY <1>1
  <2>2. /\ decided \in Minted /\ decided.product = grants[g].product /\ decided.sub = grants[g].sub
        /\ decided.param = grants[g].param /\ decided.redialed = grants[g].redialed
        /\ decided.status = status /\ decided.approved = (grants[g].approved \/ status = "authorized")
    <3> DEFINE b == grants[g].approved \/ status = "authorized"
    <3>1. b \in BOOLEAN
      BY Zenon
    <3>2. decided = [grants[g] EXCEPT !.status = status, !.approved = b]
      OBVIOUS
    <3> HIDE DEF b
    <3>3. [grants[g] EXCEPT !.status = status, !.approved = b] \in Minted
      BY <1>2, <3>1 DEF Minted
    <3>4. LET c == [grants[g] EXCEPT !.status = status, !.approved = b] IN
          /\ c.product = grants[g].product /\ c.sub = grants[g].sub /\ c.param = grants[g].param
          /\ c.redialed = grants[g].redialed /\ c.status = status /\ c.approved = b
      BY <1>2 DEF Minted
    <3> QED
      BY <3>2, <3>3, <3>4 DEF b
  <2> HIDE DEF decided
  <2>3. /\ grants' \in Seq(Minted) /\ DOMAIN grants' = DOMAIN grants /\ Len(grants') = Len(grants)
        /\ DOMAIN grants = 1..Len(grants) /\ grants'[g] = decided
        /\ \A i \in DOMAIN grants : i # g => grants'[i] = grants[i]
    BY <1>2, <2>1, <2>2
  <2> QED
    BY <2>2, <2>3
<1>5. (grants[g].approved => grants'[g].approved) /\ (status = "authorized" => grants'[g].approved)
  BY <1>4, Zenon
<1>6. RoundsTypes' /\ \A s \in given' : AnsweredAsAsked(s)' /\ Carried(s)'
  BY <1>1, <1>4 DEF RoundsInv, RoundsTypes, AnsweredAsAsked, Carried
<1>7. ASSUME NEW e \in Dialers PROVE Dialed(e)' /\ Told(e)'
  <2>1. Told(e)'
    BY <1>1, <1>4, <1>5 DEF RoundsInv, Told
  <2>2. Dialed(e)'
    BY <1>1, <1>4 DEF RoundsInv, Dialed, AnsweredAsAsked, Carried, Payable, Named, Said, Fitting
  <2> QED
    BY <2>1, <2>2
<1>8. \A i \in DOMAIN grants' : grants'[i].status = "authorized" => grants'[i].approved
  BY <1>4, <1>5 DEF RoundsInv
<1>9. MintedAsNamed'
  <2>1. ASSUME NEW i \in DOMAIN grants'
        PROVE  i \in DOMAIN grants /\ grants'[i].product = grants[i].product /\ grants'[i].sub = grants[i].sub
               /\ grants'[i].param = grants[i].param
    BY <1>4
  <2> QED
    <3> SUFFICES ASSUME NEW i \in DOMAIN grants'
                 PROVE  LET g0 == grants'[i] IN
                        /\ Price[g0.product] <= g0.param.cap
                        /\ \/ Matches[g0.param.words] = {g0.product}
                           \/ \E w \in Words : /\ Matches[w] = {g0.product}
                                             /\ <<g0.sub, g0.param, "item", w>> \in replies
                        /\ \/ g0.product \notin Sized \/ g0.product \in Pinned[g0.param.words]
                           \/ \E w \in Words : /\ g0.product \in Pinned[w]
                                             /\ <<g0.sub, g0.param, "item", w>> \in replies
                           \/ <<g0.sub, g0.param, "size", "fits">> \in replies
      <4>1. DOMAIN grants' = DOMAIN grants /\ replies' = replies
        BY <1>1, <1>4
      <4> QED
        BY <4>1, Zenon DEF MintedAsNamed
    <3>1. i \in DOMAIN grants /\ MintedAsNamed
      BY <2>1 DEF RoundsInv
    <3> QED
      BY <2>1, <3>1 DEF MintedAsNamed
<1>10. RedialNeverMints'
  BY <1>4 DEF RoundsInv, RedialNeverMints
<1> QED
  BY <1>6, <1>7, <1>8, <1>9, <1>10 DEF RoundsInv

\* Neither a state that lapses nor a restart makes a state.
LEMMA RestartKeeps ==
  ASSUME RoundsInv, RestartRounds \/ \E state \in given : Expire(state)
  PROVE  RoundsInv'
<1>1. given' \in {given, {}} /\ UNCHANGED <<grants, said, replies>> /\ (dial' = dial \/ dial' = [d \in Dialers |-> NoDial])
  BY DEF RestartRounds, Expire
<1>2. ASSUME NEW d \in Dialers PROVE Dialed(d)' /\ Told(d)'
  <2>1. CASE dial'[d] = dial[d]
    BY <1>1, <2>1, OtherCalls
  <2>2. CASE dial'[d] = NoDial
    BY <1>1, <2>2 DEF RoundsInv, Dialed, Told, NoDial
  <2> QED
    BY <1>1, <2>1, <2>2
<1>3. dial' \in [Dialers -> [stage : DialStages, round : RoundStates \cup {NoState}, declined : BOOLEAN]]
      /\ \A d \in Dialers : dial'[d].stage # "idle" => dial'[d].round \in RoundStates
  <2>1. NoDial.stage = "idle" /\ NoDial \in [stage : DialStages, round : RoundStates \cup {NoState}, declined : BOOLEAN]
    BY DEF NoDial, DialStages
  <2>2. CASE dial' = dial
    BY <2>2 DEF RoundsInv, RoundsTypes
  <2>3. CASE dial' = [d \in Dialers |-> NoDial]
    BY <2>1, <2>3
  <2> QED
    BY <1>1, <2>2, <2>3
<1>4. RoundsTypes'
  BY <1>1, <1>3 DEF RoundsInv, RoundsTypes
<1> QED
  BY <1>1, <1>2, <1>4, MintedStays DEF RoundsInv

-----------------------------------------------------------------------------
(* The invariant and what follows from it *)

\* Every step keeps the inductive invariant.
LEMMA RoundsInductive == RoundsInv /\ [RoundsNext]_roundsVars => RoundsInv'
<1> SUFFICES ASSUME RoundsInv, [RoundsNext]_roundsVars PROVE RoundsInv'
  OBVIOUS
<1>1. ASSUME NEW d \in Dialers, NEW sub \in Principals, NEW param \in Params,
             NEW state \in given \cup {NoState, Forged}, NEW reply \in Replies, Dial(d, sub, param, state, reply)
      PROVE  RoundsInv'
  BY <1>1, DialKeeps
<1>2. ASSUME NEW d \in Dialers, DialStep(d) PROVE RoundsInv'
  BY <1>2, MatchKeeps, CreateKeeps, AwaitKeeps, HeldKeeps DEF DialStep
<1>3. ASSUME NEW g \in DOMAIN grants, NEW status \in {"authorized", "denied", "revoked"}, Decide(g, status)
      PROVE  RoundsInv'
  BY <1>3, DecideKeeps
<1>4. CASE RestartRounds \/ \E state \in given : Expire(state)
  BY <1>4, RestartKeeps
<1>5. CASE UNCHANGED roundsVars
  <2>1. UNCHANGED <<given, dial, grants, said, replies>>
    BY <1>5 DEF roundsVars
  <2>2. RoundsTypes' /\ \A d \in Dialers : Dialed(d)' /\ Told(d)'
    BY <2>1, OtherCalls DEF RoundsInv, RoundsTypes
  <2> QED
    BY <2>1, <2>2, MintedStays DEF RoundsInv
<1> QED
  BY <1>1, <1>2, <1>3, <1>4, <1>5 DEF RoundsNext

\* The inductive invariant of the multi-round tool: of every state a client may present again, of every
\* call under way, and of every grant.
THEOREM RoundsInvariant == RoundsSpec => []RoundsInv
  BY RoundsStart, RoundsInductive, PTL DEF RoundsSpec

\* A grant is for the one product the human's words fit or that the human named, in this session and under
\* these bounds (server.ts, create-spending-grant; mrtr.ts, open and mergeAnswers).
THEOREM AlwaysMintedAsNamed == RoundsSpec => []MintedAsNamed
<1>1. RoundsInv => MintedAsNamed
  BY DEF RoundsInv
<1> QED
  BY <1>1, RoundsInvariant, PTL

\* A redial with a state that waits for a grant never mints another (awaitApproval).
THEOREM NeverMintsAgain == RoundsSpec => []RedialNeverMints
<1>1. RoundsInv => RedialNeverMints
  BY DEF RoundsInv
<1> QED
  BY <1>1, RoundsInvariant, PTL

\* What a call is told of a grant is what its record says, or said when it was approved.
THEOREM AlwaysToldAsRecorded == RoundsSpec => []ToldAsRecorded
<1>1. RoundsInv => ToldAsRecorded
  BY DEF RoundsInv, Told, ToldAsRecorded
<1> QED
  BY <1>1, RoundsInvariant, PTL
=============================================================================
