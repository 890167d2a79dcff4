-------------------------- MODULE Checkout_proofs --------------------------
(***************************************************************************)
(* What TLAPS proves of an order's completion by a human who is present,   *)
(* for every set of calls, processes, deployments, catalogs and requests.  *)
(*                                                                         *)
(* The inductive invariant says of each call (Stands) what it must have    *)
(* passed to stand where it stands, and that inside the mutex of a process *)
(* there is one call at most.  Each property is then kept by every step    *)
(* that starts where the invariant holds.                                  *)
(***************************************************************************)
EXTENDS Checkout, TLAPS

Dues == [total : Int, needs : SUBSET Claims]
Records == [rail : Rails, amount : Int, due : Dues]

CheckoutTypes ==
  /\ shop \in Shops /\ catalog \in Catalogs /\ quoted \in Int
  /\ known \in SUBSET Processes
  /\ verification \in SUBSET Claims
  /\ record \in Records \cup {NoRecord}
  /\ announced \in Nat
  /\ charges \in Seq([reference : References, amount : Int])
  /\ tails \in [Processes -> Seq(Calls)]
  /\ step \in [Calls -> Steps]
  /\ request \in [Calls -> Requests \cup {NoRequest}]
  /\ process \in [Calls -> Processes \cup {NoProcess}]
  /\ signed \in [Calls -> Int]
  /\ passed \in [Calls -> BOOLEAN] /\ vouched \in [Calls -> BOOLEAN] /\ thunk \in [Calls -> BOOLEAN]
  /\ todo \in [Calls -> SUBSET Claims] /\ prev \in [Calls -> SUBSET Claims]
  /\ due \in [Calls -> Dues]
  /\ answer \in [Calls -> Answers]

\* A call that asked for something asked it of a process that is there.
Served(c) ==
  /\ ~Idle(c) => request[c] \in Requests /\ process[c] \in Processes
  /\ Idle(c) => process[c] = NoProcess

\* What a call must have passed to stand where it stands.
Stands(c) ==
  /\ step[c] \in {"placing", "writing"} => request[c].rail = "place"
  /\ step[c] \in {"presenting", "proving", "merging", "queued", "pricing", "settling", "recording", "clearing"}
       => request[c].rail # "place"
  /\ step[c] \in InsideMutex \cup {"queued"} => request[c].rail # "credential"
  /\ step[c] \in {"placing", "writing", "announcing"} /\ request[c].rail = "place" => ~shop.gated
  /\ step[c] \in InsideMutex /\ request[c].rail # "place" => passed[c] /\ Executing(tails, process[c], c)
  /\ step[c] \in {"idle", "presenting"} => ~vouched[c]
  /\ vouched[c] \/ todo[c] = {}
  /\ todo[c] # {} => todo[c] \subseteq request[c].claims
  /\ step[c] \in {"settling", "recording"} => signed[c] = due[c].total

CheckoutInv ==
  /\ CheckoutTypes
  /\ \A c \in Calls : Served(c) /\ Stands(c)
  /\ shop.declared => known = Processes

-----------------------------------------------------------------------------
(* What is in force *)

\* A request that is made is one of the rails' requests.
LEMMA RequestShape ==
  ASSUME NEW r \in Requests
  PROVE  r.rail \in Rails /\ r.claims \in SUBSET Claims /\ r.reference \in References /\ r.amount \in Nat
         /\ r # NoRequest
BY RequestsAssumption DEF RailRequests

\* The lines' total is a number, and what they call for are claims (resolveOrder).
LEMMA PricedInForce ==
  ASSUME CheckoutTypes, NEW proved
  PROVE  /\ catalog.price \in Nat /\ catalog.needs \in SUBSET Claims
         /\ Total(proved) \in Int
<1>1. catalog \in Quotes
  BY CatalogsAssumption DEF CheckoutTypes
<1>2. catalog.price \in Nat /\ catalog.discount \in Nat /\ catalog.needs \in SUBSET Claims
  BY <1>1 DEF Quotes
<1>3. (10 * catalog.price) \div 100 \in Int
  BY <1>2
<1>4. Discount \in Int
  BY <1>2, <1>3 DEF Discount, DefaultDiscount
<1> HIDE DEF Discount
<1>5. Total(proved) \in Int
  BY <1>2, <1>4 DEF Total
<1> QED
  BY <1>2, <1>5

-----------------------------------------------------------------------------
(* The order's mutex *)

\* Only one call of a process is inside.
LEMMA OneInside ==
  ASSUME NEW p, NEW c, NEW d, Executing(tails, p, c), Executing(tails, p, d)
  PROVE  c = d
BY DEF Executing

\* A call that joins the queue does not overtake the one inside.
LEMMA JoinKeeps ==
  ASSUME CheckoutTypes, NEW c \in Calls, NEW p \in Processes, tails' = Join(tails, p, c)
  PROVE  /\ tails' \in [Processes -> Seq(Calls)]
         /\ \A q \in Processes, d \in Calls : Executing(tails, q, d) => Executing(tails', q, d)
<1>1. tails \in [Processes -> Seq(Calls)]
  BY DEF CheckoutTypes
<1>2. Append(tails[p], c) \in Seq(Calls)
  BY <1>1
<1>3. tails' \in [Processes -> Seq(Calls)] /\ tails'[p] = Append(tails[p], c)
      /\ \A q \in Processes \ {p} : tails'[q] = tails[q]
  BY <1>1, <1>2 DEF Join
<1>4. ASSUME NEW q \in Processes, NEW d \in Calls, Executing(tails, q, d) PROVE Executing(tails', q, d)
  <2>1. CASE q = p
    <3>1. tails[p] \in Seq(Calls) /\ tails[p] # << >> /\ Head(tails[p]) = d
      BY <1>1, <1>4, <2>1 DEF Executing
    <3>2. Append(tails[p], c) # << >> /\ Head(Append(tails[p], c)) = d
      BY <3>1
    <3> QED
      BY <1>3, <2>1, <3>2 DEF Executing
  <2>2. CASE q # p
    BY <1>3, <1>4, <2>2 DEF Executing
  <2> QED
    BY <2>1, <2>2
<1> QED
  BY <1>3, <1>4

\* A call that leaves lets nobody out but itself.
LEMMA SettleKeeps ==
  ASSUME CheckoutTypes, NEW c \in Calls, NEW p \in Processes, Executing(tails, p, c), tails' = Settle(tails, p)
  PROVE  /\ tails' \in [Processes -> Seq(Calls)]
         /\ \A q \in Processes, d \in Calls \ {c} : Executing(tails, q, d) => Executing(tails', q, d)
<1>1. tails \in [Processes -> Seq(Calls)] /\ tails[p] \in Seq(Calls) /\ tails[p] # << >>
  BY DEF CheckoutTypes, Executing
<1>2. Tail(tails[p]) \in Seq(Calls)
  BY <1>1
<1>3. tails' \in [Processes -> Seq(Calls)] /\ \A q \in Processes \ {p} : tails'[q] = tails[q]
  BY <1>1, <1>2 DEF Settle
<1>4. ASSUME NEW q \in Processes, NEW d \in Calls \ {c}, Executing(tails, q, d) PROVE Executing(tails', q, d)
  <2>1. q # p
    BY <1>4, OneInside
  <2> QED
    BY <1>3, <1>4, <2>1 DEF Executing
<1> QED
  BY <1>3, <1>4

-----------------------------------------------------------------------------
(* Types *)

\* A call moves to a step there is.
LEMMA GoesTo ==
  ASSUME CheckoutTypes, NEW c \in Calls, NEW s \in Steps, Goto(c, s)
  PROVE  step' \in [Calls -> Steps] /\ step'[c] = s /\ \A d \in Calls \ {c} : step'[d] = step[d]
BY DEF CheckoutTypes, Goto

\* A call that is answered is done.
LEMMA Responds ==
  ASSUME CheckoutTypes, NEW c \in Calls, NEW a \in Answers, Respond(c, a)
  PROVE  /\ step' \in [Calls -> Steps] /\ step'[c] = "done" /\ \A d \in Calls \ {c} : step'[d] = step[d]
         /\ answer' \in [Calls -> Answers]
<1>1. Goto(c, "done") /\ "done" \in Steps
  BY DEF Respond, Steps
<1>2. answer' \in [Calls -> Answers]
  BY DEF Respond, CheckoutTypes
<1> QED
  BY <1>1, <1>2, GoesTo

\* A call inside the mutex that is answered leaves it.
LEMMA AnswersOut ==
  ASSUME CheckoutTypes, NEW c \in Calls, NEW a \in Answers, process[c] \in Processes,
         Executing(tails, process[c], c), Answer(c, a)
  PROVE  /\ step' \in [Calls -> Steps] /\ step'[c] = "done" /\ \A d \in Calls \ {c} : step'[d] = step[d]
         /\ answer' \in [Calls -> Answers]
         /\ tails' \in [Processes -> Seq(Calls)]
         /\ \A q \in Processes, d \in Calls \ {c} : Executing(tails, q, d) => Executing(tails', q, d)
BY Responds, SettleKeeps DEF Answer

\* A call that arrives is served.
LEMMA ServesTypes ==
  ASSUME CheckoutTypes, NEW c \in Calls, NEW r \in Requests, NEW p \in Processes, Serve(c, r, p)
  PROVE  /\ request' \in [Calls -> Requests \cup {NoRequest}] /\ process' \in [Calls -> Processes \cup {NoProcess}]
         /\ request'[c] = r /\ process'[c] = p
         /\ \A d \in Calls \ {c} : request'[d] = request[d] /\ process'[d] = process[d]
BY DEF CheckoutTypes, Serve

\* What the processor took is written behind what it had taken.
LEMMA ChargesTypes ==
  ASSUME CheckoutTypes, NEW c \in Calls, request[c] \in Requests, UNCHANGED charges \/ Charge(c)
  PROVE  charges' \in Seq([reference : References, amount : Int])
<1> DEFINE taken == [reference |-> request[c].reference, amount |-> signed[c]]
<1>1. taken \in [reference : References, amount : Int]
  BY RequestShape DEF CheckoutTypes
<1>2. charges' = charges \/ charges' = Append(charges, taken)
  BY DEF Charge
<1> DEFINE Takings == [reference : References, amount : Int]
<1>3. charges \in Seq(Takings) /\ taken \in Takings
  BY <1>1 DEF CheckoutTypes
<1> HIDE DEF taken, Takings
<1>4. charges' \in Seq(Takings)
  BY <1>2, <1>3
<1> QED
  BY <1>4 DEF Takings

\* Every step keeps the types.
LEMMA TypesStep ==
  ASSUME CheckoutInv, [CheckoutNext]_checkoutVars
  PROVE  CheckoutTypes'
<1>0. CheckoutTypes /\ \A c \in Calls : Served(c) /\ Stands(c)
  BY DEF CheckoutInv
<1> USE DEF host, store, money, asked, localVars
<1>1. ASSUME NEW c \in Calls, NEW r \in Requests, NEW p \in Processes, BeginProof(c, r, p) PROVE CheckoutTypes'
  BY <1>0, <1>1, ServesTypes, GoesTo, Responds DEF BeginProof, CheckoutTypes, Steps, Answers
<1>2. ASSUME NEW c \in Calls, NEW r \in Requests, NEW p \in Processes, BeginPayment(c, r, p) PROVE CheckoutTypes'
  <2>1. AmountBound(r) \in BOOLEAN /\ DiscountBound \in BOOLEAN
    BY SMT DEF AmountBound, DiscountBound
  <2>2. passed' \in [Calls -> BOOLEAN] /\ signed' \in [Calls -> Int]
    BY <1>0, <1>2, <2>1, PricedInForce DEF BeginPayment, CheckoutTypes
  <2> QED
    BY <1>0, <1>2, <2>2, ServesTypes, GoesTo DEF BeginPayment, CheckoutTypes, Steps
<1>3. ASSUME NEW c \in Calls, NEW r \in Requests, NEW p \in Processes, BeginPlace(c, r, p) PROVE CheckoutTypes'
  BY <1>0, <1>3, ServesTypes, GoesTo, Responds, ZenonT(60) DEF BeginPlace, CheckoutTypes, Steps, Answers
<1>4. ASSUME NEW c \in Calls, Present(c) PROVE CheckoutTypes'
  <2>1. request[c] \in Requests
    BY <1>0, <1>4 DEF Present, Served, Idle
  <2>2. Evaluated(c) \in SUBSET Claims
    BY <2>1, RequestShape DEF Evaluated
  <2> QED
    BY <1>0, <1>4, <2>2, GoesTo DEF Present, CheckoutTypes, Steps
<1>5. ASSUME NEW c \in Calls, PresentThrows(c) \/ EndProof(c) PROVE CheckoutTypes'
  BY <1>0, <1>5, Responds DEF PresentThrows, EndProof, CheckoutTypes, Answers
<1>6. ASSUME NEW c \in Calls, ReadClaims(c) PROVE CheckoutTypes'
  BY <1>0, <1>6, GoesTo DEF ReadClaims, CheckoutTypes, Steps
<1>7. ASSUME NEW c \in Calls, NEW claim \in todo[c], WriteClaim(c, claim) PROVE CheckoutTypes'
  BY <1>0, <1>7, GoesTo DEF WriteClaim, CheckoutTypes, Steps
<1>8. ASSUME NEW c \in Calls, Submit(c) PROVE CheckoutTypes'
  <2>1. process[c] \in Processes
    BY <1>0, <1>8 DEF Submit, Served, Idle
  <2> QED
    BY <1>0, <1>8, <2>1, GoesTo, JoinKeeps DEF Submit, CheckoutTypes, Steps
<1>9. ASSUME NEW c \in Calls, Lookup(c) PROVE CheckoutTypes'
  <2>1. process[c] \in Processes /\ Executing(tails, process[c], c)
    BY <1>0, <1>9 DEF Lookup, Served, Idle
  <2> QED
    BY <1>0, <1>9, <2>1, GoesTo, AnswersOut DEF Lookup, Proceed, CheckoutTypes, Steps, Answers
<1>10. ASSUME NEW c \in Calls, Price(c) PROVE CheckoutTypes'
  <2>1. process[c] \in Processes /\ Executing(tails, process[c], c)
    BY <1>0, <1>10 DEF Price, Served, Idle, Stands, InsideMutex
  <2>2. Demanded \in Dues
    BY <1>0, PricedInForce DEF Demanded, Dues
  <2>3. due' \in [Calls -> Dues]
    BY <1>0, <1>10, <2>2 DEF Price, CheckoutTypes
  <2> QED
    BY <1>0, <1>10, <2>1, <2>3, GoesTo, AnswersOut DEF Price, Proceed, CheckoutTypes, Steps, Answers
<1>11. ASSUME NEW c \in Calls, SettlePayment(c) \/ SettleThrows(c) PROVE CheckoutTypes'
  <2>1. process[c] \in Processes /\ Executing(tails, process[c], c) /\ request[c] \in Requests
    BY <1>0, <1>11 DEF SettlePayment, SettleThrows, Served, Idle, Stands, InsideMutex
  <2>2. charges' \in Seq([reference : References, amount : Int])
    BY <1>0, <1>11, <2>1, ChargesTypes DEF SettlePayment, SettleThrows
  <2> QED
    BY <1>0, <1>11, <2>1, <2>2, GoesTo, AnswersOut
       DEF SettlePayment, SettleThrows, Proceed, CheckoutTypes, Steps, Answers
<1>12. ASSUME NEW c \in Calls, Record(c) PROVE CheckoutTypes'
  <2>1. request[c] \in Requests
    BY <1>0, <1>12 DEF Record, Served, Idle
  <2>2. record' \in Records
    BY <1>0, <1>12, <2>1, RequestShape DEF Record, Records, CheckoutTypes
  <2> QED
    BY <1>0, <1>12, <2>2, GoesTo DEF Record, Proceed, CheckoutTypes, Steps
<1>13. ASSUME NEW c \in Calls, StoreThrows(c) \/ Clear(c) PROVE CheckoutTypes'
  <2>1. process[c] \in Processes /\ Executing(tails, process[c], c)
    BY <1>0, <1>13 DEF StoreThrows, Clear, Served, Idle, Stands, InsideMutex
  <2> QED
    BY <1>0, <1>13, <2>1, AnswersOut DEF StoreThrows, Clear, CheckoutTypes, Answers
<1>14. ASSUME NEW c \in Calls, Announce(c) PROVE CheckoutTypes'
  <2>1. step' \in [Calls -> Steps] /\ answer' \in [Calls -> Answers]
    <3>1. CASE Respond(c, "placed")
      BY <1>0, <3>1, Responds DEF Answers
    <3>2. CASE Proceed(c, "clearing")
      BY <1>0, <3>2, GoesTo DEF Proceed, CheckoutTypes, Steps
    <3> QED
      BY <1>14, <3>1, <3>2 DEF Announce
  <2>2. tails' = tails /\ announced' = announced + 1
    BY <1>14 DEF Announce, Proceed
  <2> QED
    BY <1>0, <1>14, <2>1, <2>2 DEF Announce, CheckoutTypes
<1>15. ASSUME NEW c \in Calls, PlaceLookup(c) PROVE CheckoutTypes'
  BY <1>0, <1>15, GoesTo, Responds DEF PlaceLookup, CheckoutTypes, Steps, Answers
<1>16. ASSUME NEW c \in Calls, PlaceWrite(c) PROVE CheckoutTypes'
  <2>1. record' \in Records
    BY <1>0, <1>16 DEF PlaceWrite, Records, Rails, Dues, NothingDue, CheckoutTypes
  <2> QED
    BY <1>0, <1>16, <2>1, GoesTo, Responds DEF PlaceWrite, CheckoutTypes, Steps, Answers
<1>17. ASSUME NEW new \in Catalogs, ChangeCatalog(new) PROVE CheckoutTypes'
  BY <1>0, <1>17 DEF ChangeCatalog, CheckoutTypes
<1>18. ASSUME NEW p \in Processes, OpenPage(p) \/ Restart(p) PROVE CheckoutTypes'
  <2>1. "lost" \in Steps /\ << >> \in Seq(Calls)
    BY DEF Steps
  <2> QED
    BY <1>0, <1>18, <2>1 DEF OpenPage, Restart, CheckoutTypes
<1>19. CASE UNCHANGED checkoutVars
  BY <1>0, <1>19 DEF checkoutVars, CheckoutTypes
<1> QED
  BY <1>1, <1>2, <1>3, <1>4, <1>5, <1>6, <1>7, <1>8, <1>9, <1>10, <1>11, <1>12, <1>13, <1>14, <1>15, <1>16,
     <1>17, <1>18, <1>19 DEF CheckoutNext, Arrival, CallStep

-----------------------------------------------------------------------------
(* The calls that do not take a step *)

\* A call that another one's step leaves where it is, with what it had and with its place in the queue.
Untouched(d) ==
  /\ step'[d] = step[d] /\ request'[d] = request[d] /\ process'[d] = process[d] /\ signed'[d] = signed[d]
  /\ passed'[d] = passed[d] /\ vouched'[d] = vouched[d] /\ todo'[d] = todo[d] /\ prev'[d] = prev[d]
  /\ thunk'[d] = thunk[d] /\ due'[d] = due[d]

\* What a step of a call leaves alone.
Apart(c) ==
  /\ UNCHANGED <<shop, quoted, catalog>>
  /\ \A d \in Calls \ {c} :
       /\ Untouched(d)
       /\ step[d] \in InsideMutex /\ request[d].rail # "place" => Executing(tails', process[d], d)

\* A step that does not touch the queues lets everybody stay.
LEMMA QueueStays ==
  ASSUME CheckoutInv, NEW c \in Calls,
         \/ tails' = tails
         \/ \E p \in Processes : tails' = Join(tails, p, c)
         \/ /\ process[c] \in Processes /\ Executing(tails, process[c], c)
            /\ tails' = Settle(tails, process[c])
  PROVE  \A d \in Calls \ {c} :
           step[d] \in InsideMutex /\ request[d].rail # "place" => Executing(tails', process[d], d)
<1> SUFFICES ASSUME NEW d \in Calls \ {c}, step[d] \in InsideMutex, request[d].rail # "place"
             PROVE  Executing(tails', process[d], d)
  OBVIOUS
<1>1. process[d] \in Processes /\ Executing(tails, process[d], d) /\ CheckoutTypes
  BY DEF CheckoutInv, Served, Stands, Idle, InsideMutex
<1> QED
  BY <1>1, JoinKeeps, SettleKeeps

\* A step of a call leaves the others, the order and the catalog alone.
LEMMA ApartStep ==
  ASSUME CheckoutInv, NEW c \in Calls,
         CallStep(c) \/ \E r \in Requests, p \in Processes : Arrival(c, r, p)
  PROVE  Apart(c)
<1>0. CheckoutTypes /\ Served(c) /\ Stands(c)
  BY DEF CheckoutInv
<1> USE DEF host, store, money, asked, localVars
<1>1. UNCHANGED <<shop, quoted, catalog>>
  BY DEF CallStep, Arrival, BeginProof, BeginPayment, BeginPlace, Present, PresentThrows, ReadClaims, WriteClaim,
         EndProof, Submit, Lookup, Price, SettlePayment, SettleThrows, Record, StoreThrows, Announce, Clear,
         PlaceLookup, PlaceWrite
<1>2. \/ tails' = tails
      \/ \E p \in Processes : tails' = Join(tails, p, c)
      \/ /\ process[c] \in Processes /\ Executing(tails, process[c], c)
         /\ tails' = Settle(tails, process[c])
  <2>1. CASE Submit(c)
    BY <1>0, <2>1 DEF Submit, Served, Idle
  <2>2. CASE Lookup(c) \/ Price(c) \/ SettlePayment(c) \/ SettleThrows(c) \/ Record(c) \/ StoreThrows(c) \/ Clear(c)
    <3>1. step[c] \in {"queued", "pricing", "settling", "recording", "clearing"}
      BY <2>2 DEF Lookup, Price, SettlePayment, SettleThrows, Record, StoreThrows, Clear
    <3>2. process[c] \in Processes
      BY <1>0, <3>1 DEF Served, Idle
    <3>3. Executing(tails, process[c], c)
      BY <1>0, <2>2, <3>1 DEF Lookup, Price, SettlePayment, SettleThrows, Record, StoreThrows, Clear, Stands, InsideMutex
    <3>4. tails' = tails \/ tails' = Settle(tails, process[c])
      BY <2>2 DEF Lookup, Price, SettlePayment, SettleThrows, Record, StoreThrows, Clear, Proceed, Answer
    <3> QED
      BY <3>2, <3>3, <3>4
  <2>3. CASE ~(Submit(c) \/ Lookup(c) \/ Price(c) \/ SettlePayment(c) \/ SettleThrows(c) \/ Record(c)
               \/ StoreThrows(c) \/ Clear(c))
    BY <2>3 DEF CallStep, Arrival, BeginProof, BeginPayment, BeginPlace, Present, PresentThrows, ReadClaims, WriteClaim,
                EndProof, Announce, Proceed, PlaceLookup, PlaceWrite
  <2> QED
    BY <2>1, <2>2, <2>3
<1>3. ASSUME NEW d \in Calls \ {c} PROVE Untouched(d)
  <2>1. step'[d] = step[d]
    BY <1>0 DEF CheckoutTypes, CallStep, Arrival, BeginProof, BeginPayment, BeginPlace, Present, PresentThrows, ReadClaims,
         WriteClaim, EndProof, Submit, Lookup, Price, SettlePayment, SettleThrows, Record, StoreThrows, Announce, Clear,
         PlaceLookup, PlaceWrite, Goto, Respond, Answer, Proceed
  <2>2. request'[d] = request[d] /\ process'[d] = process[d]
    BY <1>0 DEF CheckoutTypes, CallStep, Arrival, BeginProof, BeginPayment, BeginPlace, Present, PresentThrows, ReadClaims,
         WriteClaim, EndProof, Submit, Lookup, Price, SettlePayment, SettleThrows, Record, StoreThrows, Announce, Clear,
         PlaceLookup, PlaceWrite, Serve
  <2>3. signed'[d] = signed[d] /\ passed'[d] = passed[d]
    BY <1>0 DEF CheckoutTypes, CallStep, Arrival, BeginProof, BeginPayment, BeginPlace, Present, PresentThrows, ReadClaims,
         WriteClaim, EndProof, Submit, Lookup, Price, SettlePayment, SettleThrows, Record, StoreThrows, Announce, Clear,
         PlaceLookup, PlaceWrite
  <2>4. vouched'[d] = vouched[d] /\ todo'[d] = todo[d] /\ prev'[d] = prev[d]
    BY <1>0 DEF CheckoutTypes, CallStep, Arrival, BeginProof, BeginPayment, BeginPlace, Present, PresentThrows, ReadClaims,
         WriteClaim, EndProof, Submit, Lookup, Price, SettlePayment, SettleThrows, Record, StoreThrows, Announce, Clear,
         PlaceLookup, PlaceWrite
  <2>5. thunk'[d] = thunk[d] /\ due'[d] = due[d]
    BY <1>0 DEF CheckoutTypes, CallStep, Arrival, BeginProof, BeginPayment, BeginPlace, Present, PresentThrows, ReadClaims,
         WriteClaim, EndProof, Submit, Lookup, Price, SettlePayment, SettleThrows, Record, StoreThrows, Announce, Clear,
         PlaceLookup, PlaceWrite
  <2> QED
    BY <2>1, <2>2, <2>3, <2>4, <2>5 DEF Untouched
<1> QED
  BY <1>1, <1>2, <1>3, QueueStays DEF Apart

-----------------------------------------------------------------------------
(* The call that takes a step *)

\* A call stands after its step where it has what it takes to stand there.
LEMMA StandsStep ==
  ASSUME CheckoutInv, NEW c \in Calls,
         CallStep(c) \/ \E r \in Requests, p \in Processes : Arrival(c, r, p)
  PROVE  Served(c)' /\ Stands(c)'
<1>0. CheckoutTypes /\ Served(c) /\ Stands(c)
  BY DEF CheckoutInv
<1> USE DEF host, store, money, asked, localVars
<1>1. ASSUME NEW r \in Requests, NEW p \in Processes, BeginProof(c, r, p) PROVE Served(c)' /\ Stands(c)'
  <2>0. request'[c] = r /\ process'[c] = p
    BY <1>0, <1>1, ServesTypes DEF BeginProof
  <2>1. Respond(c, "unknown") \/ Goto(c, "presenting")
    BY <1>1 DEF BeginProof
  <2>3. step'[c] \in {"done", "presenting"}
    BY <1>0, <2>1, GoesTo, Responds DEF Steps, Answers
  <2>2. step[c] = "idle" /\ r.rail = "credential" /\ vouched' = vouched /\ todo' = todo
    BY <1>1 DEF BeginProof, Serve, Idle
  <2> QED
    BY <1>0, <2>0, <2>2, <2>3 DEF Served, Stands, Idle, InsideMutex
<1>2. ASSUME NEW r \in Requests, NEW p \in Processes, BeginPayment(c, r, p) PROVE Served(c)' /\ Stands(c)'
  <2>1. request'[c] = r /\ process'[c] = p /\ step'[c] = "presenting"
    BY <1>0, <1>2, ServesTypes, GoesTo DEF BeginPayment, Steps
  <2>2. step[c] = "idle" /\ r.rail # "place" /\ vouched' = vouched /\ todo' = todo
    BY <1>2 DEF BeginPayment, Serve, Idle
  <2>3. ~vouched[c] /\ todo[c] = {}
    BY <1>0, <2>2 DEF Stands
  <2> QED
    BY <2>1, <2>2, <2>3 DEF Served, Stands, Idle, InsideMutex
<1>3. ASSUME NEW r \in Requests, NEW p \in Processes, BeginPlace(c, r, p) PROVE Served(c)' /\ Stands(c)'
  <2>1. /\ request'[c] = r /\ process'[c] = p /\ step'[c] \in {"done", "placing", "writing"}
        /\ step'[c] # "done" => ~shop.gated
    BY <1>0, <1>3, ServesTypes, GoesTo, Responds, ZenonT(60) DEF BeginPlace, Steps, Answers
  <2>2. step[c] = "idle" /\ r.rail = "place" /\ vouched' = vouched /\ todo' = todo /\ shop' = shop
    BY <1>3 DEF BeginPlace, Serve, Idle
  <2>3. ~vouched[c] /\ todo[c] = {}
    BY <1>0, <2>2 DEF Stands
  <2>4. step'[c] \in {"placing", "writing", "announcing"} => ~shop'.gated
    BY <2>1, <2>2
  <2> QED
    BY <2>1, <2>2, <2>3, <2>4 DEF Served, Stands, Idle, InsideMutex
<1>4. CASE Present(c)
  <2>1. step'[c] = "proving" /\ step[c] = "presenting" /\ request' = request /\ process' = process
    BY <1>0, <1>4, GoesTo DEF Present, Steps
  <2>2. PICK accepted \in BOOLEAN : vouched'[c] = accepted /\ todo'[c] = IF accepted THEN Evaluated(c) ELSE {}
    BY <1>0, <1>4 DEF Present, CheckoutTypes
  <2>3. Evaluated(c) \subseteq request[c].claims
    BY DEF Evaluated
  <2>4. (vouched'[c] \/ todo'[c] = {}) /\ todo'[c] \subseteq request[c].claims
    BY <2>2, <2>3
  <2> QED
    BY <1>0, <2>1, <2>4 DEF Served, Stands, Idle, InsideMutex
<1>5. CASE PresentThrows(c) \/ EndProof(c)
  <2>1. step'[c] = "done" /\ step[c] \in {"presenting", "proving"}
        /\ UNCHANGED <<request, process, vouched, todo>>
    BY <1>0, <1>5, Responds DEF PresentThrows, EndProof, Answers
  <2> QED
    BY <1>0, <2>1 DEF Served, Stands, Idle, InsideMutex
<1>6. CASE ReadClaims(c)
  <2>1. step'[c] = "merging" /\ step[c] = "proving" /\ UNCHANGED <<request, process, vouched, todo>>
    BY <1>0, <1>6, GoesTo DEF ReadClaims, Steps
  <2> QED
    BY <1>0, <2>1 DEF Served, Stands, Idle, InsideMutex
<1>7. ASSUME NEW claim \in todo[c], WriteClaim(c, claim) PROVE Served(c)' /\ Stands(c)'
  <2>1. step'[c] = "proving" /\ step[c] = "merging" /\ UNCHANGED <<request, process, vouched>>
        /\ todo'[c] = todo[c] \ {claim}
    BY <1>0, <1>7, GoesTo DEF WriteClaim, CheckoutTypes, Steps
  <2> QED
    BY <1>0, <2>1 DEF Served, Stands, Idle, InsideMutex
<1>8. CASE Submit(c)
  <2>1. /\ step'[c] = "queued" /\ step[c] = "proving" /\ request[c].rail # "credential"
        /\ UNCHANGED <<request, process, vouched, todo>>
    BY <1>0, <1>8, GoesTo DEF Submit, Steps
  <2> QED
    BY <1>0, <2>1 DEF Served, Stands, Idle, InsideMutex
<1>9. CASE Lookup(c)
  <2>1. step[c] = "queued" /\ Executing(tails, process[c], c) /\ UNCHANGED <<request, process, passed, vouched, todo>>
    BY <1>9 DEF Lookup
  <2>2. step'[c] = "done" \/ (step'[c] = "pricing" /\ passed[c] /\ tails' = tails)
    BY <1>0, <1>9, GoesTo, Responds DEF Lookup, Proceed, Answer, Steps, Answers
  <2> QED
    BY <1>0, <2>1, <2>2 DEF Served, Stands, Idle, InsideMutex
<1>10. CASE Price(c)
  <2>1. step[c] = "pricing" /\ UNCHANGED <<request, process, signed, passed, vouched, todo>>
        /\ due'[c].total = Total(verification)
    BY <1>0, <1>10 DEF Price, CheckoutTypes, Demanded
  <2>2. \/ step'[c] = "done"
        \/ step'[c] \in {"settling", "recording"} /\ Total(verification) = signed[c] /\ tails' = tails
    BY <1>0, <1>10, GoesTo, Responds DEF Price, Proceed, Answer, Steps, Answers
  <2> QED
    BY <1>0, <2>1, <2>2 DEF Served, Stands, Idle, InsideMutex
<1>11. CASE SettlePayment(c) \/ SettleThrows(c)
  <2>1. step[c] = "settling" /\ UNCHANGED <<request, process, signed, passed, vouched, todo, due>>
    BY <1>11 DEF SettlePayment, SettleThrows
  <2>2. step'[c] = "done" \/ (step'[c] = "recording" /\ tails' = tails)
    BY <1>0, <1>11, GoesTo, Responds DEF SettlePayment, SettleThrows, Proceed, Answer, Steps, Answers
  <2> QED
    BY <1>0, <2>1, <2>2 DEF Served, Stands, Idle, InsideMutex
<1>12. CASE Record(c) \/ StoreThrows(c) \/ Clear(c)
  <2>1. step[c] \in {"recording", "clearing"} /\ UNCHANGED <<request, process, passed, vouched, todo>>
    BY <1>12 DEF Record, StoreThrows, Clear
  <2>2. step'[c] = "done" \/ (step'[c] \in {"announcing", "clearing"} /\ tails' = tails)
    BY <1>0, <1>12, GoesTo, Responds DEF Record, StoreThrows, Clear, Proceed, Answer, Steps, Answers
  <2> QED
    BY <1>0, <2>1, <2>2 DEF Served, Stands, Idle, InsideMutex
<1>13. CASE Announce(c)
  <2>1. step[c] = "announcing" /\ UNCHANGED <<shop, request, process, passed, vouched, todo, tails>>
    BY <1>13 DEF Announce, Proceed
  <2>2. step'[c] = "done" \/ (step'[c] = "clearing" /\ request[c].rail # "place")
    BY <1>0, <1>13, GoesTo, Responds DEF Announce, Proceed, Steps, Answers
  <2> QED
    BY <1>0, <2>1, <2>2 DEF Served, Stands, Idle, InsideMutex
<1>14. CASE PlaceLookup(c) \/ PlaceWrite(c)
  <2>1. step[c] \in {"placing", "writing"} /\ UNCHANGED <<shop, request, process, vouched, todo>>
    BY <1>14 DEF PlaceLookup, PlaceWrite
  <2>2. step'[c] \in {"done", "writing", "announcing"}
    BY <1>0, <1>14, GoesTo, Responds DEF PlaceLookup, PlaceWrite, Steps, Answers
  <2> QED
    BY <1>0, <2>1, <2>2 DEF Served, Stands, Idle, InsideMutex
<1> QED
  BY <1>1, <1>2, <1>3, <1>4, <1>5, <1>6, <1>7, <1>8, <1>9, <1>10, <1>11, <1>12, <1>13, <1>14 DEF CallStep, Arrival

\* No process has to forget the credentials that are declared (Restart), or may register any others.
LEMMA DeclaredStep ==
  ASSUME CheckoutInv, [CheckoutNext]_checkoutVars
  PROVE  UNCHANGED <<shop, quoted>> /\ (shop.declared => known' = Processes)
<1> USE DEF host, store, money, asked, localVars
<1>1. UNCHANGED <<shop, quoted>>
  BY ZenonT(60) DEF CheckoutNext, ChangeCatalog, OpenPage, Restart, CallStep, Arrival, BeginProof, BeginPayment, BeginPlace, Present,
         PresentThrows, ReadClaims, WriteClaim, EndProof, Submit, Lookup, Price, SettlePayment, SettleThrows, Record,
         StoreThrows, Announce, Clear, PlaceLookup, PlaceWrite, checkoutVars
<1>2. \/ known' = known
      \/ \E p \in Processes : known' = known \cup {p} \/ (known' = IF shop.declared THEN known ELSE known \ {p})
  BY ZenonT(60) DEF CheckoutNext, ChangeCatalog, OpenPage, Restart, CallStep, Arrival, BeginProof, BeginPayment, BeginPlace, Present,
         PresentThrows, ReadClaims, WriteClaim, EndProof, Submit, Lookup, Price, SettlePayment, SettleThrows, Record,
         StoreThrows, Announce, Clear, PlaceLookup, PlaceWrite, checkoutVars
<1> QED
  BY <1>1, <1>2 DEF CheckoutInv

\* A restart leaves the calls of the other processes where they are.
LEMMA RestartStands ==
  ASSUME CheckoutInv, NEW p \in Processes, Restart(p), NEW c \in Calls
  PROVE  Served(c)' /\ Stands(c)'
<1>1. /\ step'[c] = IF process[c] = p /\ step[c] # "done" THEN "lost" ELSE step[c]
      /\ tails \in [Processes -> Seq(Calls)] /\ tails' = [tails EXCEPT ![p] = << >>]
      /\ UNCHANGED <<shop, request, process, signed, passed, vouched, todo, due>>
  BY DEF Restart, CheckoutInv, CheckoutTypes, asked, localVars
<1>2. Served(c) /\ Stands(c)
  BY DEF CheckoutInv
<1>3. CASE step'[c] = "lost"
  <2>1. step[c] # "idle"
    BY <1>1, <1>2, <1>3, SentinelsAssumption DEF Served, Idle
  <2> QED
    BY <1>1, <1>2, <1>3, <2>1 DEF Served, Stands, Idle, InsideMutex
<1>4. CASE step'[c] = step[c] /\ (process[c] # p \/ step[c] = "done")
  <2>1. step[c] \in InsideMutex /\ request[c].rail # "place" => Executing(tails', process[c], c)
    <3> SUFFICES ASSUME step[c] \in InsideMutex, request[c].rail # "place" PROVE Executing(tails', process[c], c)
      OBVIOUS
    <3>1. process[c] \in Processes /\ process[c] # p /\ Executing(tails, process[c], c)
      BY <1>2, <1>4 DEF Served, Stands, Idle, InsideMutex
    <3> QED
      BY <1>1, <3>1 DEF Executing
  <2> QED
    BY <1>1, <1>2, <1>4, <2>1 DEF Served, Stands, Idle
<1> QED
  BY <1>1, <1>3, <1>4

-----------------------------------------------------------------------------
(* The inductive invariant *)

\* An order is created before anyone asks for it.
LEMMA CheckoutStart == CheckoutInit => CheckoutInv
<1> SUFFICES ASSUME CheckoutInit PROVE CheckoutInv
  OBVIOUS
<1>1. catalog.price \in Nat
  BY CatalogsAssumption DEF CheckoutInit, Quotes
<1>2. CheckoutTypes
  BY <1>1 DEF CheckoutInit, CheckoutTypes, NoTails, Steps, Dues, NothingDue, Answers
<1>3. \A c \in Calls : Served(c) /\ Stands(c)
  BY DEF CheckoutInit, Served, Stands, Idle, InsideMutex
<1> QED
  BY <1>2, <1>3 DEF CheckoutInit, CheckoutInv

\* Every step keeps the inductive invariant.
LEMMA CheckoutInductive == CheckoutInv /\ [CheckoutNext]_checkoutVars => CheckoutInv'
<1> SUFFICES ASSUME CheckoutInv, [CheckoutNext]_checkoutVars PROVE CheckoutInv'
  OBVIOUS
<1>1. ASSUME NEW c \in Calls, CallStep(c) \/ \E r \in Requests, p \in Processes : Arrival(c, r, p)
      PROVE  \A d \in Calls : Served(d)' /\ Stands(d)'
  <2>1. ASSUME NEW d \in Calls \ {c} PROVE Served(d)' /\ Stands(d)'
    <3>1. Untouched(d) /\ shop' = shop
          /\ (step[d] \in InsideMutex /\ request[d].rail # "place" => Executing(tails', process[d], d))
      BY <1>1, ApartStep DEF Apart
    <3>2. Served(d) /\ Stands(d)
      BY DEF CheckoutInv
    <3> QED
      BY <3>1, <3>2 DEF Untouched, Served, Stands, Idle
  <2> QED
    BY <1>1, <2>1, StandsStep
<1>2. ASSUME UNCHANGED <<shop, tails, step, asked, localVars>>
      PROVE  \A d \in Calls : Served(d)' /\ Stands(d)'
  BY <1>2 DEF CheckoutInv, Served, Stands, Idle, asked, localVars
<1>3. ASSUME NEW p \in Processes, Restart(p) PROVE \A d \in Calls : Served(d)' /\ Stands(d)'
  BY <1>3, RestartStands
<1>4. \A d \in Calls : Served(d)' /\ Stands(d)'
  BY <1>1, <1>2, <1>3 DEF CheckoutNext, ChangeCatalog, OpenPage, checkoutVars, host
<1> QED
  BY <1>4, TypesStep, DeclaredStep DEF CheckoutInv

\* The inductive invariant of an order's completion: of its types, of every call where it stands, and of
\* the mutex of each process.
THEOREM CheckoutInvariant == CheckoutSpec => []CheckoutInv
  BY CheckoutStart, CheckoutInductive, PTL DEF CheckoutSpec

-----------------------------------------------------------------------------
(* What is never forgotten *)

\* A call keeps what it asked for and what it has passed; a presentation that was accepted stays so.
LEMMA Remembered ==
  ASSUME CheckoutInv, [CheckoutNext]_checkoutVars, NEW c \in Calls
  PROVE  /\ ~Idle(c) => request'[c] = request[c] /\ process'[c] = process[c] /\ signed'[c] = signed[c]
         /\ vouched[c] => vouched'[c]
         /\ step[c] \notin {"idle", "presenting"} =>
              /\ step'[c] \notin {"idle", "presenting"}
              /\ passed'[c] = passed[c] /\ thunk'[c] = thunk[c]
<1> USE DEF host, store, money, asked, localVars
<1>0. CheckoutTypes /\ Served(c) /\ Stands(c)
  BY DEF CheckoutInv
<1>1. CASE \E d \in Calls \ {c} : CallStep(d) \/ \E r \in Requests, p \in Processes : Arrival(d, r, p)
  BY <1>1, ApartStep DEF Apart, Untouched
<1>2. CASE CallStep(c)
  <2>1. UNCHANGED <<request, process, signed>>
    BY <1>2 DEF CallStep, Present, PresentThrows, ReadClaims, WriteClaim, EndProof, Submit, Lookup, Price, SettlePayment,
         SettleThrows, Record, StoreThrows, Announce, Clear, PlaceLookup, PlaceWrite
  <2>2. CASE Present(c)
    BY <1>0, <2>1, <2>2, GoesTo DEF Present, Steps, Stands
  <2>3. CASE ~Present(c)
    <3>1. UNCHANGED <<passed, vouched, thunk>>
      BY <1>2, <2>3 DEF CallStep, PresentThrows, ReadClaims, WriteClaim, EndProof, Submit, Lookup, Price, SettlePayment,
           SettleThrows, Record, StoreThrows, Announce, Clear, PlaceLookup, PlaceWrite
    <3>2. step'[c] \notin {"idle", "presenting"}
      BY <1>0, <1>2, <2>3 DEF CallStep, PresentThrows, ReadClaims, WriteClaim, EndProof, Submit, Lookup, Price,
           SettlePayment, SettleThrows, Record, StoreThrows, Announce, Clear, PlaceLookup, PlaceWrite, Goto, Respond,
           Answer, Proceed, CheckoutTypes
    <3> QED
      BY <2>1, <3>1, <3>2
  <2> QED
    BY <2>2, <2>3
<1>3. CASE \E r \in Requests, p \in Processes : Arrival(c, r, p)
  <2>1. Idle(c) /\ vouched' = vouched
    BY <1>3 DEF Arrival, BeginProof, BeginPayment, BeginPlace, Serve
  <2> QED
    BY <2>1 DEF Idle
<1>4. CASE \/ \E new \in Catalogs : ChangeCatalog(new)
           \/ \E p \in Processes : OpenPage(p) \/ Restart(p)
           \/ UNCHANGED checkoutVars
  <2>1. UNCHANGED <<request, process, signed, passed, vouched, thunk>>
    BY <1>4 DEF ChangeCatalog, OpenPage, Restart, checkoutVars
  <2>2. step'[c] \in {step[c], "lost"}
    BY <1>0, <1>4 DEF ChangeCatalog, OpenPage, Restart, checkoutVars
  <2> QED
    BY <2>1, <2>2
<1> QED
  BY <1>1, <1>2, <1>3, <1>4 DEF CheckoutNext

\* A completion record is written by a rail or by the place path, and never taken back.
LEMMA RecordWritten ==
  ASSUME CheckoutInv, [CheckoutNext]_checkoutVars
  PROVE  /\ \/ record' = record
            \/ \E c \in Calls : Record(c)
            \/ \E c \in Calls : PlaceWrite(c)
         /\ record # NoRecord => record' # NoRecord
         /\ \A c \in Calls : Record(c) \/ PlaceWrite(c) => record' # NoRecord
<1> USE DEF host, store, money, asked, localVars
<1>1. \/ record' = record
      \/ \E c \in Calls : Record(c)
      \/ \E c \in Calls : PlaceWrite(c)
  BY ZenonT(60) DEF CheckoutNext, ChangeCatalog, OpenPage, Restart, CallStep, Arrival, BeginProof, BeginPayment, BeginPlace, Present,
         PresentThrows, ReadClaims, WriteClaim, EndProof, Submit, Lookup, Price, SettlePayment, SettleThrows,
         StoreThrows, Announce, Clear, PlaceLookup, checkoutVars
<1>2. ASSUME NEW c \in Calls, Record(c) \/ PlaceWrite(c) PROVE record' # NoRecord
  <2>1. CASE Record(c)
    <3>1. request[c] \in Requests /\ signed[c] \in Int /\ due[c] \in Dues
      BY <2>1 DEF Record, CheckoutInv, CheckoutTypes, Served, Idle
    <3>2. record' \in Records
      BY <2>1, <3>1, RequestShape DEF Record, Records
    <3> QED
      BY <3>2, SentinelsAssumption DEF Records, Dues
  <2>2. CASE PlaceWrite(c)
    <3>1. record' \in Records
      BY <2>2 DEF PlaceWrite, Records, Rails, Dues, NothingDue, CheckoutInv, CheckoutTypes
    <3> QED
      BY <3>1, SentinelsAssumption DEF Records, Dues
  <2> QED
    BY <1>2, <2>1, <2>2
<1> QED
  BY <1>1, <1>2

\* The processor's book only grows, at a settlement.
LEMMA ChargesGrow ==
  ASSUME CheckoutInv, [CheckoutNext]_checkoutVars
  PROVE  /\ \/ charges' = charges
            \/ \E c \in Calls : step[c] = "settling" /\ Charge(c) /\ (SettlePayment(c) \/ (Unreliable /\ SettleThrows(c)))
         /\ Len(charges) <= Len(charges') /\ \A i \in DOMAIN charges : i \in DOMAIN charges' /\ charges'[i] = charges[i]
<1> USE DEF host, store, money, asked, localVars
<1>1. \/ charges' = charges
      \/ \E c \in Calls : step[c] = "settling" /\ Charge(c) /\ (SettlePayment(c) \/ (Unreliable /\ SettleThrows(c)))
  BY ZenonT(60) DEF CheckoutNext, ChangeCatalog, OpenPage, Restart, CallStep, Arrival, BeginProof, BeginPayment, BeginPlace, Present,
         PresentThrows, ReadClaims, WriteClaim, EndProof, Submit, Lookup, Price, SettlePayment, SettleThrows, Record,
         StoreThrows, Announce, Clear, PlaceLookup, PlaceWrite, checkoutVars
<1>2. \/ charges' = charges
      \/ \E c \in Calls : charges' = Append(charges, [reference |-> request[c].reference, amount |-> signed[c]])
  BY <1>1 DEF Charge
<1>3. charges \in Seq([reference : References, amount : Int]) /\ charges' \in Seq([reference : References, amount : Int])
  BY TypesStep DEF CheckoutInv, CheckoutTypes
<1>4. ASSUME NEW entry, charges' = Append(charges, entry)
      PROVE  Len(charges) <= Len(charges') /\ \A i \in DOMAIN charges : i \in DOMAIN charges' /\ charges'[i] = charges[i]
  BY <1>3, <1>4
<1>5. CASE charges' = charges
  BY <1>1, <1>3, <1>5
<1>6. CASE \E c \in Calls : charges' = Append(charges, [reference |-> request[c].reference, amount |-> signed[c]])
  BY <1>1, <1>4, <1>6
<1> QED
  BY <1>2, <1>5, <1>6

-----------------------------------------------------------------------------
(* What was taken is recorded *)

\* While nothing is lost, who is about to record the completion does not leave before.
LEMMA RecordingWaits ==
  ASSUME CheckoutInv, ~Unreliable, [CheckoutNext]_checkoutVars, record' = NoRecord,
         NEW c \in Calls, step[c] = "recording"
  PROVE  step'[c] = "recording"
<1>1. ASSUME CallStep(c) PROVE FALSE
  <2>1. Record(c) \/ StoreThrows(c)
    BY <1>1 DEF CallStep, Present, PresentThrows, ReadClaims, WriteClaim, EndProof, Submit, Lookup, Price,
       SettlePayment, SettleThrows, Announce, Clear, PlaceLookup, PlaceWrite
  <2> QED
    BY <2>1, RecordWritten DEF StoreThrows
<1>2. CASE \E d \in Calls : CallStep(d) \/ \E r \in Requests, p \in Processes : Arrival(d, r, p)
  <2>1. PICK d \in Calls : CallStep(d) \/ \E r \in Requests, p \in Processes : Arrival(d, r, p)
    BY <1>2
  <2>2. d # c
    BY <1>1, <2>1 DEF Arrival, BeginProof, BeginPayment, BeginPlace, Serve, Idle
  <2> QED
    BY <2>1, <2>2, ApartStep DEF Apart, Untouched
<1>3. CASE ~\E d \in Calls : CallStep(d) \/ \E r \in Requests, p \in Processes : Arrival(d, r, p)
  BY <1>3 DEF CheckoutNext, ChangeCatalog, OpenPage, Restart, checkoutVars
<1> QED
  BY <1>2, <1>3

\* While nothing is lost, money that was taken waits for its record inside the mutex.
LEMMA RecordedStep ==
  ASSUME CheckoutInv, CheckoutInv', ChargesAreRecorded, [CheckoutNext]_checkoutVars
  PROVE  ChargesAreRecorded'
<1> SUFFICES ASSUME ~Unreliable, charges' # << >>, record' = NoRecord
             PROVE  \E c \in Calls : step'[c] = "recording" /\ Executing(tails', process'[c], c)
  BY DEF ChargesAreRecorded
<1>1. \E c \in Calls : step'[c] = "recording"
  <2>1. CASE charges' = charges
    <3>1. record = NoRecord
      BY RecordWritten
    <3>2. PICK c \in Calls : step[c] = "recording"
      BY <2>1, <3>1 DEF ChargesAreRecorded
    <3> QED
      BY <3>2, RecordingWaits
  <2>2. CASE charges' # charges
    <3>1. PICK c \in Calls : SettlePayment(c)
      BY <2>2, ChargesGrow
    <3> QED
      BY <3>1, GoesTo DEF SettlePayment, Proceed, CheckoutInv, Steps
  <2> QED
    BY <2>1, <2>2
<1>2. PICK c \in Calls : step'[c] = "recording"
  BY <1>1
<1>3. Executing(tails', process'[c], c)
  BY <1>2 DEF CheckoutInv, Stands, InsideMutex
<1> QED
  BY <1>2, <1>3

\* While no store and no answer is lost, a payment that was refused or that failed has taken nothing: what
\* was taken is on record or about to be (completion.ts, settle and then record).
THEOREM ChargeIsRecorded == CheckoutSpec => []ChargesAreRecorded
<1>1. CheckoutInit => ChargesAreRecorded
  BY DEF CheckoutInit, ChargesAreRecorded
<1>2. CheckoutInv /\ CheckoutInv' /\ ChargesAreRecorded /\ [CheckoutNext]_checkoutVars => ChargesAreRecorded'
  BY RecordedStep
<1> QED
  BY <1>1, <1>2, CheckoutInvariant, PTL DEF CheckoutSpec

-----------------------------------------------------------------------------
(* What was sold was proved *)

\* What a deployment answers for of the claims an order called for: all of them where every process has
\* the credentials declared, else the age, which is read off the lines.
Answered(claims) == IF shop.declared THEN claims ELSE claims \cap {"age"}

ProvedInv ==
  /\ verification \subseteq Presented
  /\ \A c \in Calls : prev[c] \subseteq Presented
  /\ \A c \in Calls : step[c] \in {"settling", "recording"} => Answered(due[c].needs) \subseteq Presented
  /\ SoldAsProved

\* What was presented stays presented.
LEMMA PresentedGrows ==
  ASSUME CheckoutInv, [CheckoutNext]_checkoutVars
  PROVE  Presented \subseteq Presented'
<1> SUFFICES ASSUME NEW c \in Calls, vouched[c] PROVE request[c].claims \subseteq Presented'
  BY DEF Presented, Accepted
<1>1. ~Idle(c)
  BY DEF CheckoutInv, Stands, Idle
<1>2. vouched'[c] /\ request'[c] = request[c]
  BY <1>1, Remembered
<1> QED
  BY <1>2 DEF Presented, Accepted

\* The verification record only ever says what was presented, however its updates overlap.
LEMMA VerifiedStep ==
  ASSUME CheckoutInv, ProvedInv, [CheckoutNext]_checkoutVars
  PROVE  verification' \subseteq Presented' /\ \A c \in Calls : prev'[c] \subseteq Presented'
<1> USE DEF host, store, money, asked, localVars
<1>1. \/ UNCHANGED verification
      \/ \E c \in Calls : \E claim \in todo[c] : WriteClaim(c, claim)
      \/ verification' = {}
  BY ZenonT(60) DEF CheckoutNext, ChangeCatalog, OpenPage, Restart, CallStep, Arrival, BeginProof, BeginPayment, BeginPlace, Present,
         PresentThrows, ReadClaims, EndProof, Submit, Lookup, Price, SettlePayment, SettleThrows, Record,
         StoreThrows, Announce, Clear, PlaceLookup, PlaceWrite, checkoutVars
<1>2. \/ UNCHANGED prev
      \/ \E c \in Calls : ReadClaims(c)
  BY ZenonT(60) DEF CheckoutNext, ChangeCatalog, OpenPage, Restart, CallStep, Arrival, BeginProof, BeginPayment, BeginPlace, Present,
         PresentThrows, WriteClaim, EndProof, Submit, Lookup, Price, SettlePayment, SettleThrows, Record,
         StoreThrows, Announce, Clear, PlaceLookup, PlaceWrite, checkoutVars
<1>3. verification' \subseteq Presented
  <2>1. ASSUME NEW c \in Calls, NEW claim \in todo[c], WriteClaim(c, claim) PROVE verification' \subseteq Presented
    <3>1. vouched[c] /\ claim \in request[c].claims
      BY DEF CheckoutInv, Stands
    <3>2. claim \in Presented
      BY <3>1 DEF Presented, Accepted
    <3> QED
      BY <2>1, <3>2 DEF WriteClaim, ProvedInv
  <2> QED
    BY <1>1, <2>1 DEF ProvedInv
<1>4. \A c \in Calls : prev'[c] \subseteq Presented
  BY <1>2 DEF ReadClaims, ProvedInv, CheckoutInv, CheckoutTypes
<1> QED
  BY <1>3, <1>4, PresentedGrows

\* Where a call settles or records, the order asked of it only what had been presented.
LEMMA DueStep ==
  ASSUME CheckoutInv, ProvedInv, [CheckoutNext]_checkoutVars, NEW c \in Calls, step'[c] \in {"settling", "recording"}
  PROVE  Answered(due[c].needs)' \subseteq Presented'
<1> USE DEF host, store, money, asked, localVars
<1>1. shop' = shop
  BY DeclaredStep
<1>2. CASE Price(c)
  <2>1. Enforced(c) \subseteq verification
    BY <1>2, Responds DEF Price, Answer, CheckoutInv, Answers
  <2>2. due'[c].needs = catalog.needs
    BY <1>2 DEF Price, Demanded, CheckoutInv, CheckoutTypes
  <2>3. process[c] \in Processes
    BY <1>2 DEF Price, CheckoutInv, Served, Idle
  <2>4. Answered(catalog.needs) \subseteq Enforced(c)
    BY <2>3 DEF CheckoutInv, Enforced, Answered
  <2>5. Answered(catalog.needs) \subseteq Presented
    BY <2>1, <2>4 DEF ProvedInv
  <2> QED
    BY <1>1, <2>2, <2>5, PresentedGrows DEF Answered
<1>3. CASE ~Price(c)
  <2>1. step[c] \in {"settling", "recording"} /\ due'[c] = due[c]
    <3>1. CASE \E d \in Calls \ {c} : CallStep(d) \/ \E r \in Requests, p \in Processes : Arrival(d, r, p)
      BY <3>1, ApartStep DEF Apart, Untouched
    <3>2. CASE CallStep(c)
      BY <1>3, <3>2 DEF CallStep, Present, PresentThrows, ReadClaims, WriteClaim, EndProof, Submit, Lookup, SettlePayment,
           SettleThrows, Record, StoreThrows, Announce, Clear, PlaceLookup, PlaceWrite, Goto, Respond, Answer, Proceed,
           CheckoutInv, CheckoutTypes
    <3>3. CASE \E r \in Requests, p \in Processes : Arrival(c, r, p)
      BY <3>3 DEF Arrival, BeginProof, BeginPayment, BeginPlace, Goto, Respond, CheckoutInv, CheckoutTypes
    <3>4. CASE \/ \E new \in Catalogs : ChangeCatalog(new)
               \/ \E p \in Processes : OpenPage(p) \/ Restart(p)
               \/ UNCHANGED checkoutVars
      BY <3>4 DEF ChangeCatalog, OpenPage, Restart, checkoutVars
    <3> QED
      BY <3>1, <3>2, <3>3, <3>4 DEF CheckoutNext
  <2>2. Answered(due[c].needs) \subseteq Presented
    BY <2>1 DEF ProvedInv
  <2> QED
    BY <1>1, <2>1, <2>2, PresentedGrows DEF Answered
<1> QED
  BY <1>2, <1>3

\* Every step keeps what was sold proved.
LEMMA ProvedStep ==
  ASSUME CheckoutInv, ProvedInv, [CheckoutNext]_checkoutVars
  PROVE  ProvedInv'
<1>1. SoldAsProved'
  <2>1. CASE record' = record
    BY <2>1, DeclaredStep, PresentedGrows DEF ProvedInv, SoldAsProved, SoldByRail
  <2>2. ASSUME NEW c \in Calls, Record(c) PROVE SoldAsProved'
    <3>1. record'.due = due[c] /\ step[c] = "recording"
      BY <2>2 DEF Record
    <3>2. Answered(due[c].needs) \subseteq Presented
      BY <3>1 DEF ProvedInv
    <3> QED
      BY <3>1, <3>2, DeclaredStep, PresentedGrows DEF SoldAsProved, Answered
  <2>3. ASSUME NEW c \in Calls, PlaceWrite(c) PROVE SoldAsProved'
    BY <2>3 DEF PlaceWrite, SoldAsProved, SoldByRail
  <2> QED
    BY <2>1, <2>2, <2>3, RecordWritten
<1> QED
  BY <1>1, VerifiedStep, DueStep DEF ProvedInv

\* Every claim a sold order called for when it was priced for the last time had been presented for it, on
\* whichever processes, and whatever updates of the verification record were lost (completion.ts).
THEOREM AlwaysSoldAsProved == CheckoutSpec => []SoldAsProved
<1>1. CheckoutInit => ProvedInv
  BY DEF CheckoutInit, ProvedInv, SoldAsProved, SoldByRail
<1>2. CheckoutInv /\ ProvedInv /\ [CheckoutNext]_checkoutVars => ProvedInv'
  BY ProvedStep
<1>3. ProvedInv => SoldAsProved
  BY DEF ProvedInv
<1> QED
  BY <1>1, <1>2, <1>3, CheckoutInvariant, PTL DEF CheckoutSpec

-----------------------------------------------------------------------------
(* What was sold was authorized *)

\* The processor took what a call was to pay.
Paid(c) ==
  \E i \in DOMAIN charges : charges[i] = [reference |-> request[c].reference, amount |-> signed[c]]

\* The call that sold the order, which asks for nothing any more.
SoldBy(c) ==
  /\ step[c] \notin {"idle", "presenting"} /\ passed[c]
  /\ request[c].rail = record.rail /\ signed[c] = record.amount
  /\ Settling(c) => Paid(c)

AuthorizedInv ==
  /\ \A c \in Calls : step[c] = "recording" /\ Settling(c) => Paid(c)
  /\ SoldByRail => record.amount = record.due.total /\ \E c \in Calls : SoldBy(c)

\* Money that a call paid stays paid.
LEMMA PaidStays ==
  ASSUME CheckoutInv, [CheckoutNext]_checkoutVars, NEW c \in Calls, step[c] \notin {"idle", "presenting"}, Paid(c)
  PROVE  Paid(c)'
<1>1. request'[c] = request[c] /\ signed'[c] = signed[c]
  BY Remembered DEF Idle
<1> QED
  BY <1>1, ChargesGrow DEF Paid

\* A call that settles pays, where the processor de-duplicates nothing.
LEMMA SettlePays ==
  ASSUME CheckoutInv, NEW c \in Calls, SettlePayment(c), ~Dedupes
  PROVE  Paid(c)'
<1> DEFINE taken == [reference |-> request[c].reference, amount |-> signed[c]]
<1>1. charges' = Append(charges, taken) /\ UNCHANGED <<request, signed>>
  BY DEF SettlePayment, Charge, asked, localVars
<1>2. charges \in Seq([reference : References, amount : Int])
  BY DEF CheckoutInv, CheckoutTypes
<1> HIDE DEF taken
<1>3. Len(charges) + 1 \in DOMAIN charges' /\ charges'[Len(charges) + 1] = taken
  BY <1>1, <1>2
<1> QED
  BY <1>1, <1>3 DEF Paid, taken

\* A call that is about to record has paid, if it had to.
LEMMA RecordingPaid ==
  ASSUME CheckoutInv, AuthorizedInv, [CheckoutNext]_checkoutVars, ~Dedupes, NEW c \in Calls,
         step'[c] = "recording", Settling(c)'
  PROVE  Paid(c)'
<1> USE DEF host, store, money, asked, localVars
<1>1. CASE step[c] = "recording"
  <2>1. Settling(c)
    BY <1>1, Remembered, DeclaredStep DEF Settling
  <2> QED
    BY <1>1, <2>1, PaidStays DEF AuthorizedInv
<1>2. CASE step[c] # "recording"
  <2>1. CallStep(c)
    <3>1. CASE \E d \in Calls \ {c} : CallStep(d) \/ \E r \in Requests, p \in Processes : Arrival(d, r, p)
      BY <1>2, <3>1, ApartStep DEF Apart, Untouched
    <3>2. CASE \E r \in Requests, p \in Processes : Arrival(c, r, p)
      BY <3>2 DEF Arrival, BeginProof, BeginPayment, BeginPlace, Goto, Respond, CheckoutInv, CheckoutTypes
    <3>3. CASE \/ \E new \in Catalogs : ChangeCatalog(new)
               \/ \E p \in Processes : OpenPage(p) \/ Restart(p)
               \/ UNCHANGED checkoutVars
      BY <1>2, <3>3 DEF ChangeCatalog, OpenPage, Restart, checkoutVars
    <3> QED
      BY <3>1, <3>2, <3>3 DEF CheckoutNext
  <2>2. SettlePayment(c) \/ Price(c)
    BY <1>2, <2>1 DEF CallStep, Present, PresentThrows, ReadClaims, WriteClaim, EndProof, Submit, Lookup,
         SettleThrows, Record, StoreThrows, Announce, Clear, PlaceLookup, PlaceWrite, Goto, Respond, Answer, Proceed,
         CheckoutInv, CheckoutTypes
  <2>3. CASE Price(c)
    <3>1. Settling(c)
      BY <2>3 DEF Settling, Price
    <3>2. Goto(c, "settling") \/ Respond(c, "reprice") \/ Respond(c, "age") \/ Respond(c, "gate")
      BY <2>3, <3>1 DEF Price, Proceed, Answer
    <3> QED
      BY <3>2 DEF Goto, Respond, CheckoutInv, CheckoutTypes
  <2> QED
    BY <2>2, <2>3, SettlePays
<1> QED
  BY <1>1, <1>2

\* Every step keeps what was sold authorized.
LEMMA AuthorizedStep ==
  ASSUME CheckoutInv, AuthorizedInv, [CheckoutNext]_checkoutVars, ~Dedupes
  PROVE  AuthorizedInv'
<1>1. \A c \in Calls : step'[c] = "recording" /\ Settling(c)' => Paid(c)'
  BY RecordingPaid
<1>2. SoldByRail' => record'.amount = record'.due.total /\ \E c \in Calls : SoldBy(c)'
  <2> SUFFICES ASSUME SoldByRail' PROVE record'.amount = record'.due.total /\ \E c \in Calls : SoldBy(c)'
    OBVIOUS
  <2>1. CASE record' = record
    <3>1. record.amount = record.due.total /\ \E c \in Calls : SoldBy(c)
      BY <2>1 DEF AuthorizedInv, SoldByRail
    <3>2. PICK c \in Calls : SoldBy(c)
      BY <3>1
    <3>3. /\ step'[c] \notin {"idle", "presenting"} /\ passed'[c] = passed[c] /\ thunk'[c] = thunk[c]
          /\ request'[c] = request[c] /\ signed'[c] = signed[c] /\ shop' = shop
      BY <3>2, Remembered, DeclaredStep DEF SoldBy, Idle
    <3>4. Settling(c)' => Paid(c)'
      BY <3>2, <3>3, PaidStays DEF SoldBy, Settling
    <3>5. SoldBy(c)'
      BY <2>1, <3>2, <3>3, <3>4 DEF SoldBy
    <3> QED
      BY <2>1, <3>1, <3>5
  <2>2. ASSUME NEW c \in Calls, Record(c)
        PROVE  record'.amount = record'.due.total /\ \E d \in Calls : SoldBy(d)'
    <3>1. /\ step[c] = "recording" /\ record' = [rail |-> request[c].rail, amount |-> signed[c], due |-> due[c]]
          /\ UNCHANGED <<shop, charges, request, signed, passed, thunk>>
      BY <2>2 DEF Record, host, money, asked, localVars
    <3>2. request[c].rail # "place" /\ signed[c] = due[c].total
      BY <3>1 DEF CheckoutInv, Stands
    <3>3. passed[c]
      BY <3>1, <3>2 DEF CheckoutInv, Stands, InsideMutex
    <3>4. step'[c] \notin {"idle", "presenting"}
      BY <3>1, Remembered
    <3>5. Settling(c)' => Paid(c)'
      BY <3>1 DEF AuthorizedInv, Settling, Paid
    <3>6. SoldBy(c)'
      BY <3>1, <3>3, <3>4, <3>5 DEF SoldBy
    <3> QED
      BY <3>1, <3>2, <3>6
  <2>3. ASSUME NEW c \in Calls, PlaceWrite(c) PROVE FALSE
    BY <2>3 DEF PlaceWrite, SoldByRail
  <2> QED
    BY <2>1, <2>2, <2>3, RecordWritten
<1> QED
  BY <1>1, <1>2 DEF AuthorizedInv

\* What a rail sold is what the catalog asked for when the order was last priced, what a shopper
\* authorized, and what the processor took: where it takes what it is asked to take, once for every
\* settlement (completion.ts, re-price and settle).
THEOREM AlwaysSoldAsAuthorized ==
  ASSUME ~Dedupes
  PROVE  CheckoutSpec => []SoldAsAuthorized
<1>1. CheckoutInit => AuthorizedInv
  BY DEF CheckoutInit, AuthorizedInv, SoldByRail
<1>2. CheckoutInv /\ AuthorizedInv /\ [CheckoutNext]_checkoutVars => AuthorizedInv'
  BY AuthorizedStep
<1>3. AuthorizedInv => SoldAsAuthorized
  BY DEF AuthorizedInv, SoldAsAuthorized, SoldBy, Paid
<1> QED
  BY <1>1, <1>2, <1>3, CheckoutInvariant, PTL DEF CheckoutSpec

-----------------------------------------------------------------------------
(* A gated order settles once *)

OneProcess == \A p, q \in Processes : p = q

OnceInv ==
  /\ announced # 0 => announced = 1 /\ record # NoRecord
  /\ \A c \in Calls : step[c] \in {"pricing", "settling", "recording"} => record = NoRecord
  /\ \A c \in Calls : step[c] = "announcing" => record # NoRecord /\ announced = 0
  /\ record # NoRecord => record.rail # "place"

\* Of a gated order there is one call inside the mutex at most.
LEMMA Alone ==
  ASSUME CheckoutInv, OneProcess, shop.gated, NEW c \in Calls, NEW d \in Calls,
         step[c] \in InsideMutex, step[d] \in InsideMutex
  PROVE  c = d
<1>1. request[c].rail # "place" /\ request[d].rail # "place"
  BY DEF CheckoutInv, Stands, InsideMutex
<1>2. process[c] = process[d]
  BY DEF CheckoutInv, Served, Idle, OneProcess, InsideMutex
<1> QED
  BY <1>1, <1>2, OneInside DEF CheckoutInv, Stands

\* Every step of a gated order on one process keeps it announced once at most.
LEMMA OnceStep ==
  ASSUME CheckoutInv, OneProcess, shop.gated, OnceInv, [CheckoutNext]_checkoutVars
  PROVE  OnceInv'
<1> USE DEF host, store, money, asked, localVars
<1>0. CheckoutTypes
  BY DEF CheckoutInv
<1> DEFINE Locked == {"pricing", "settling", "recording"}
<1>1. ASSUME NEW c \in Calls, Lookup(c) PROVE OnceInv'
  <2>1. UNCHANGED <<record, announced>> /\ (step'[c] = "done" \/ (step'[c] = "pricing" /\ record = NoRecord))
    BY <1>0, <1>1, GoesTo, Responds DEF Lookup, Proceed, Answer, Steps, Answers
  <2>2. \A d \in Calls \ {c} : step'[d] = step[d]
    BY <1>1, ApartStep DEF CallStep, Apart, Untouched
  <2> QED
    BY <2>1, <2>2 DEF OnceInv
<1>2. ASSUME NEW c \in Calls, Record(c) PROVE OnceInv'
  <2>1. step[c] = "recording" /\ record'.rail = request[c].rail /\ announced' = announced
        /\ step'[c] \in {"announcing", "clearing"}
    BY <1>0, <1>2, GoesTo DEF Record, Proceed, Steps
  <2>2. record = NoRecord /\ record' # NoRecord /\ request[c].rail # "place"
    BY <1>2, <2>1, RecordWritten DEF OnceInv, CheckoutInv, Stands
  <2>3. \A d \in Calls \ {c} : step'[d] \notin InsideMutex
    BY <1>2, <2>1, Alone, ApartStep DEF CallStep, Apart, Untouched, InsideMutex
  <2> QED
    BY <2>1, <2>2, <2>3 DEF OnceInv, InsideMutex
<1>3. ASSUME NEW c \in Calls, Announce(c) PROVE OnceInv'
  <2>1. step[c] = "announcing" /\ announced' = announced + 1 /\ record' = record
    BY <1>3 DEF Announce
  <2>2. step'[c] \in {"clearing", "done"}
    BY <1>0, <1>3, GoesTo, Responds DEF Announce, Proceed, Steps, Answers
  <2>3. record # NoRecord /\ announced = 0
    BY <2>1 DEF OnceInv
  <2>4. \A d \in Calls \ {c} : step'[d] \notin InsideMutex
    BY <1>3, <2>1, Alone, ApartStep DEF CallStep, Apart, Untouched, InsideMutex
  <2> QED
    BY <2>1, <2>2, <2>3, <2>4 DEF OnceInv, InsideMutex
<1>4. ASSUME NEW c \in Calls, PlaceWrite(c) PROVE FALSE
  BY <1>4 DEF PlaceWrite, CheckoutInv, Stands
<1>5. ASSUME UNCHANGED <<record, announced>>,
             \A c \in Calls : step'[c] \in InsideMutex =>
               step'[c] = step[c] \/ (step[c] \in Locked /\ step'[c] \in Locked) \/ step'[c] = "clearing"
      PROVE  OnceInv'
  BY <1>5 DEF OnceInv, InsideMutex
<1>6. ASSUME NEW c \in Calls, Price(c) \/ SettlePayment(c) \/ SettleThrows(c) \/ StoreThrows(c) \/ Clear(c)
      PROVE  OnceInv'
  <2>1. UNCHANGED <<record, announced>>
    BY <1>6 DEF Price, SettlePayment, SettleThrows, StoreThrows, Clear
  <2>2. step'[c] = "done" \/ (step[c] \in Locked /\ step'[c] \in Locked)
    BY <1>0, <1>6, GoesTo, Responds DEF Price, SettlePayment, SettleThrows, StoreThrows, Clear, Proceed, Answer, Steps, Answers
  <2>3. \A d \in Calls \ {c} : step'[d] = step[d]
    BY <1>6, ApartStep DEF CallStep, Apart, Untouched
  <2> QED
    BY <1>5, <2>1, <2>2, <2>3 DEF InsideMutex
<1>7. ASSUME NEW c \in Calls,
             \/ \E r \in Requests, p \in Processes : Arrival(c, r, p)
             \/ Present(c) \/ PresentThrows(c) \/ ReadClaims(c) \/ \E claim \in todo[c] : WriteClaim(c, claim)
             \/ EndProof(c) \/ Submit(c) \/ PlaceLookup(c)
      PROVE  OnceInv'
  <2>1. UNCHANGED <<record, announced>>
    BY <1>7 DEF Arrival, BeginProof, BeginPayment, BeginPlace, Present, PresentThrows, ReadClaims, WriteClaim, EndProof,
         Submit, PlaceLookup
  <2>2. step'[c] \notin InsideMutex
    <3>1. CASE \E r \in Requests, p \in Processes : Arrival(c, r, p)
      <4>1. \/ Goto(c, "presenting") \/ Goto(c, "placing") \/ Goto(c, "writing") \/ Respond(c, "unknown")
            \/ Respond(c, "verification required")
        BY <3>1 DEF Arrival, BeginProof, BeginPayment, BeginPlace
      <4> QED
        BY <1>0, <4>1 DEF Goto, Respond, CheckoutTypes, InsideMutex
    <3>2. CASE ~\E r \in Requests, p \in Processes : Arrival(c, r, p)
      BY <1>0, <1>7, <3>2 DEF Present, PresentThrows, ReadClaims, WriteClaim, EndProof, Submit, PlaceLookup, Goto, Respond,
         CheckoutTypes, InsideMutex
    <3> QED
      BY <3>1, <3>2
  <2>3. \A d \in Calls \ {c} : step'[d] = step[d]
    BY <1>7, ApartStep DEF CallStep, Apart, Untouched
  <2> QED
    BY <1>5, <2>1, <2>2, <2>3
<1>8. CASE \/ \E new \in Catalogs : ChangeCatalog(new)
           \/ \E p \in Processes : OpenPage(p) \/ Restart(p)
           \/ UNCHANGED checkoutVars
  <2>1. UNCHANGED <<record, announced>> /\ \A c \in Calls : step'[c] \in {step[c], "lost"}
    BY <1>8 DEF ChangeCatalog, OpenPage, Restart, checkoutVars
  <2> QED
    BY <1>5, <2>1 DEF InsideMutex
<1>9. ASSUME NEW c \in Calls, CallStep(c) PROVE OnceInv'
  BY <1>1, <1>2, <1>3, <1>4, <1>6, <1>7, <1>9 DEF CallStep
<1> QED
  BY <1>7, <1>8, <1>9 DEF CheckoutNext

\* On one process, a gated order is completed by a rail, and announced once at most: of those that reach
\* the seam, only one finds it open (completion.ts, the per-order mutex; orders-serve.ts, the place handler).
THEOREM GatedOrderAnnouncedOnce ==
  ASSUME OneProcess
  PROVE  CheckoutSpec => []GatedOrderSettlesOnce
<1>1. CheckoutInit => (shop.gated => OnceInv)
  BY DEF CheckoutInit, OnceInv
<1>2. CheckoutInv /\ (shop.gated => OnceInv) /\ [CheckoutNext]_checkoutVars => (shop.gated => OnceInv)'
  BY OnceStep, DeclaredStep
<1>3. CheckoutInv /\ (shop.gated => OnceInv) => GatedOrderSettlesOnce
  BY DEF OnceInv, GatedOrderSettlesOnce
<1> QED
  BY <1>1, <1>2, <1>3, CheckoutInvariant, PTL DEF CheckoutSpec

-----------------------------------------------------------------------------
(* An order is charged once *)

\* Does a request of a rail settle in a deployment: by its own settlement, or by the shop's?
Settles(s, r) == r.rail = "delegated" \/ (s.settles /\ r.rail = "passkey")

\* Whatever settles in a deployment asks the processor under the same reference, the order's.
OneReference ==
  \A s \in Shops, q, r \in Requests : Settles(s, q) /\ Settles(s, r) => q.reference = r.reference

ChargedInv ==
  /\ \A c \in Calls : thunk[c] => request[c].rail = "delegated" /\ step[c] \notin {"idle", "presenting"}
  /\ \A c \in Calls : step[c] = "settling" => Settling(c)
  /\ \A i \in DOMAIN charges : \E r \in Requests : Settles(shop, r) /\ charges[i].reference = r.reference
  /\ ChargedOnce

\* What settles is a request that settles in this deployment.
LEMMA SettlingSettles ==
  ASSUME CheckoutInv, ChargedInv, NEW c \in Calls, step[c] = "settling"
  PROVE  request[c] \in Requests /\ Settles(shop, request[c])
<1>1. request[c] \in Requests /\ request[c].rail \notin {"place", "credential"} /\ (thunk[c] \/ shop.settles)
  BY DEF CheckoutInv, Served, Idle, Stands, InsideMutex, ChargedInv, Settling
<1>2. request[c].rail \in Rails
  BY <1>1, RequestShape
<1> QED
  BY <1>1, <1>2 DEF ChargedInv, Settles, Rails

\* A second settlement of the order takes nothing more.
LEMMA ChargeOnce ==
  ASSUME CheckoutInv, ChargedInv, Dedupes, OneReference, NEW c \in Calls, step[c] = "settling", Charge(c)
  PROVE  /\ Len(charges') <= 1
         /\ \A i \in DOMAIN charges' : \E r \in Requests : Settles(shop, r) /\ charges'[i].reference = r.reference
<1> DEFINE taken == [reference |-> request[c].reference, amount |-> signed[c]]
           Takings == [reference : References, amount : Int]
<1>1. charges \in Seq(Takings) /\ shop \in Shops
  BY DEF CheckoutInv, CheckoutTypes
<1>2. request[c] \in Requests /\ Settles(shop, request[c])
  BY SettlingSettles
<1>3. CASE charges = << >>
  <2>1. charges' = Append(charges, taken)
    BY <1>3 DEF Charge
  <2>2. taken.reference = request[c].reference
    OBVIOUS
  <2> HIDE DEF taken, Takings
  <2>3. Len(charges') = 1 /\ DOMAIN charges' = {1} /\ charges'[1] = taken
    BY <1>3, <2>1
  <2> QED
    BY <1>2, <2>2, <2>3
<1>4. CASE charges # << >>
  <2>1. 1 \in DOMAIN charges
    BY <1>1, <1>4
  <2>2. charges[1].reference = request[c].reference
    BY <1>1, <1>2, <2>1 DEF ChargedInv, OneReference
  <2>3. charges' = charges
    BY <2>1, <2>2 DEF Charge
  <2> QED
    BY <2>3 DEF ChargedInv, ChargedOnce
<1> QED
  BY <1>3, <1>4

\* Every step keeps the order charged once.
LEMMA ChargedStep ==
  ASSUME CheckoutInv, ChargedInv, Dedupes, OneReference, [CheckoutNext]_checkoutVars
  PROVE  ChargedInv'
<1> USE DEF host, store, money, asked, localVars
<1>0. CheckoutTypes /\ shop' = shop
  BY DeclaredStep DEF CheckoutInv
<1>1. ASSUME NEW c \in Calls, thunk'[c]
      PROVE  request'[c].rail = "delegated" /\ step'[c] \notin {"idle", "presenting"}
  <2>1. CASE Present(c)
    BY <1>0, <1>1, <2>1, GoesTo DEF Present, CheckoutTypes, Steps
  <2>2. CASE ~Present(c)
    <3>1. thunk[c]
      <4>1. CASE \E d \in Calls \ {c} : CallStep(d) \/ \E r \in Requests, p \in Processes : Arrival(d, r, p)
        BY <1>1, <4>1, ApartStep DEF Apart, Untouched
      <4>2. CASE ~\E d \in Calls \ {c} : CallStep(d) \/ \E r \in Requests, p \in Processes : Arrival(d, r, p)
        <5>1. thunk' = thunk
          BY <2>2, <4>2, ZenonT(60) DEF CheckoutNext, ChangeCatalog, OpenPage, Restart, CallStep, Arrival, BeginProof, BeginPayment,
             BeginPlace, PresentThrows, ReadClaims, WriteClaim, EndProof, Submit, Lookup, Price, SettlePayment,
             SettleThrows, Record, StoreThrows, Announce, Clear, PlaceLookup, PlaceWrite, checkoutVars
        <5> QED
          BY <1>1, <5>1
      <4> QED
        BY <4>1, <4>2
    <3> QED
      BY <3>1, Remembered DEF ChargedInv, Idle
  <2> QED
    BY <2>1, <2>2
<1>2. ASSUME NEW c \in Calls, step'[c] = "settling" PROVE Settling(c)'
  <2>1. CASE step[c] = "settling"
    BY <1>0, <2>1, Remembered DEF ChargedInv, Settling
  <2>2. CASE step[c] # "settling"
    <3>1. CASE \E d \in Calls \ {c} : CallStep(d) \/ \E r \in Requests, p \in Processes : Arrival(d, r, p)
      BY <1>2, <2>2, <3>1, ApartStep DEF Apart, Untouched
    <3>2. CASE CallStep(c)
      <4>1. Price(c)
        BY <1>0, <1>2, <2>2, <3>2 DEF CallStep, Present, PresentThrows, ReadClaims, WriteClaim, EndProof, Submit, Lookup,
           SettlePayment, SettleThrows, Record, StoreThrows, Announce, Clear, PlaceLookup, PlaceWrite, Goto, Respond,
           Answer, Proceed, CheckoutTypes
      <4>2. Settling(c)
        BY <1>0, <1>2, <4>1 DEF Price, Goto, Respond, Answer, Proceed, CheckoutTypes
      <4> QED
        BY <1>0, <4>1, <4>2 DEF Price, Settling
    <3>3. CASE \E r \in Requests, p \in Processes : Arrival(c, r, p)
      BY <1>0, <1>2, <3>3 DEF Arrival, BeginProof, BeginPayment, BeginPlace, Goto, Respond, CheckoutTypes
    <3>4. CASE \/ \E new \in Catalogs : ChangeCatalog(new)
               \/ \E p \in Processes : OpenPage(p) \/ Restart(p)
               \/ UNCHANGED checkoutVars
      BY <1>2, <2>2, <3>4 DEF ChangeCatalog, OpenPage, Restart, checkoutVars
    <3> QED
      BY <3>1, <3>2, <3>3, <3>4 DEF CheckoutNext
  <2> QED
    BY <2>1, <2>2
<1>3. /\ Len(charges') <= 1
      /\ \A i \in DOMAIN charges' : \E r \in Requests : Settles(shop, r) /\ charges'[i].reference = r.reference
  <2>1. CASE charges' = charges
    BY <2>1 DEF ChargedInv, ChargedOnce
  <2>2. CASE charges' # charges
    BY <2>2, ChargesGrow, ChargeOnce
  <2> QED
    BY <2>1, <2>2
<1> QED
  BY <1>0, <1>1, <1>2, <1>3 DEF ChargedInv, ChargedOnce

\* The order is charged once, however its requests overlap, are retried or land on different processes, and
\* whatever is lost between the charge and the record: where the processor de-duplicates on the
\* reference, and every settlement of the order is under the same one (completion.ts, settle).
THEOREM OrderChargedOnce ==
  ASSUME Dedupes, OneReference
  PROVE  CheckoutSpec => []ChargedOnce
<1>1. CheckoutInit => ChargedInv
  BY DEF CheckoutInit, ChargedInv, ChargedOnce
<1>2. CheckoutInv /\ ChargedInv /\ [CheckoutNext]_checkoutVars => ChargedInv'
  BY ChargedStep
<1>3. ChargedInv => ChargedOnce
  BY DEF ChargedInv
<1> QED
  BY <1>1, <1>2, <1>3, CheckoutInvariant, PTL DEF CheckoutSpec

-----------------------------------------------------------------------------
(* A gated order is a sale *)

\* Where a payment stands from its presentation to its answer.
Paying == {"proving", "merging", "queued"} \cup InsideMutex

SaleInv ==
  /\ \A c \in Calls : step[c] \in Paying /\ request[c].rail # "place" /\ passed[c] => vouched[c]
  /\ record = NoRecord /\ charges # << >> =>
       /\ Len(charges) = 1
       /\ \E c \in Calls : step[c] = "recording" /\ charges[1].amount = signed[c]

\* The presentation of a payment whose gates passed was accepted.
LEMMA PassedVouched ==
  ASSUME CheckoutInv, [CheckoutNext]_checkoutVars,
         \A c \in Calls : step[c] \in Paying /\ request[c].rail # "place" /\ passed[c] => vouched[c],
         NEW c \in Calls, step'[c] \in Paying, request'[c].rail # "place", passed'[c]
  PROVE  vouched'[c]
<1>0. CheckoutTypes
  BY DEF CheckoutInv
<1>1. CASE step[c] \in Paying
  BY <1>1, Remembered DEF Paying, InsideMutex, Idle
<1>2. CASE step[c] \notin Paying
  <2>1. ASSUME NEW d \in Calls \ {c}, CallStep(d) \/ \E r \in Requests, p \in Processes : Arrival(d, r, p)
        PROVE  FALSE
    BY <1>2, <2>1, ApartStep DEF Apart, Untouched
  <2>2. ASSUME NEW r \in Requests, NEW p \in Processes, Arrival(c, r, p) PROVE FALSE
    <3>1. \/ Goto(c, "presenting") \/ Goto(c, "placing") \/ Goto(c, "writing") \/ Respond(c, "unknown")
          \/ Respond(c, "verification required")
      BY <2>2 DEF Arrival, BeginProof, BeginPayment, BeginPlace
    <3> QED
      BY <1>0, <3>1 DEF Goto, Respond, CheckoutTypes, Paying, InsideMutex
  <2>3. ASSUME \/ \E new \in Catalogs : ChangeCatalog(new)
               \/ \E p \in Processes : OpenPage(p) \/ Restart(p)
               \/ UNCHANGED checkoutVars
        PROVE  FALSE
    <3>1. step'[c] \in {step[c], "lost"}
      BY <1>0, <2>3 DEF ChangeCatalog, OpenPage, Restart, checkoutVars
    <3> QED
      BY <1>2, <3>1 DEF Paying, InsideMutex
  <2>4. CallStep(c)
    BY <2>1, <2>2, <2>3 DEF CheckoutNext
  <2>5. CASE Present(c)
    BY <1>0, <2>5 DEF Present, CheckoutTypes
  <2>6. CASE PresentThrows(c)
    BY <1>0, <2>6, Responds DEF PresentThrows, Answers, Paying, InsideMutex
  <2>7. CASE PlaceLookup(c) \/ PlaceWrite(c)
    BY <1>0, <2>7 DEF CheckoutInv, Stands, PlaceLookup, PlaceWrite, asked
  <2> QED
    BY <1>2, <2>4, <2>5, <2>6, <2>7
       DEF CallStep, ReadClaims, WriteClaim, EndProof, Submit, Lookup, Price, SettlePayment, SettleThrows, Record,
           StoreThrows, Announce, Clear, Paying, InsideMutex
<1> QED
  BY <1>1, <1>2

\* The processor takes money of an order once: who pays is alone inside the mutex.
LEMMA TakenOnce ==
  ASSUME CheckoutInv, OneProcess, shop.gated, OnceInv, SaleInv, NEW c \in Calls, step[c] = "settling"
  PROVE  charges = << >> /\ record = NoRecord
<1>1. record = NoRecord
  BY DEF OnceInv
<1>2. ASSUME NEW d \in Calls, step[d] = "recording" PROVE FALSE
  BY <1>2, Alone DEF InsideMutex
<1> QED
  BY <1>1, <1>2 DEF SaleInv

\* A settlement adds the amount its shopper authorized to an empty book.
LEMMA FirstCharge ==
  ASSUME CheckoutInv, OneProcess, shop.gated, OnceInv, SaleInv, NEW c \in Calls, SettlePayment(c)
  PROVE  charges = << >> /\ charges' = <<[reference |-> request[c].reference, amount |-> signed[c]]>>
<1>1. charges = << >>
  BY TakenOnce DEF SettlePayment
<1>2. Charge(c)
  BY DEF SettlePayment
<1> QED
  BY <1>1, <1>2 DEF Charge

\* Every step of a gated order on one process that loses nothing keeps what was taken with who records it.
LEMMA SaleStep ==
  ASSUME CheckoutInv, OneProcess, ~Unreliable, shop.gated, OnceInv, SaleInv, [CheckoutNext]_checkoutVars
  PROVE  SaleInv'
<1>0. CheckoutTypes
  BY DEF CheckoutInv
<1>1. ASSUME NEW c \in Calls, step'[c] \in Paying, request'[c].rail # "place", passed'[c] PROVE vouched'[c]
  BY <1>1, PassedVouched DEF SaleInv
<1>2. ASSUME record' = NoRecord, charges' # << >>
      PROVE  Len(charges') = 1 /\ \E c \in Calls : step'[c] = "recording" /\ charges'[1].amount = signed'[c]
  <2>1. record = NoRecord
    BY <1>2, RecordWritten
  <2>2. CASE charges' = charges
    <3>1. PICK c \in Calls : step[c] = "recording" /\ charges[1].amount = signed[c]
      BY <1>2, <2>1, <2>2 DEF SaleInv
    <3>2. step'[c] = "recording"
      BY <1>2, <3>1, RecordingWaits
    <3>3. signed'[c] = signed[c]
      BY <3>1, Remembered DEF Idle
    <3> QED
      BY <1>2, <2>1, <2>2, <3>1, <3>2, <3>3 DEF SaleInv
  <2>3. CASE charges' # charges
    <3>1. PICK c \in Calls : SettlePayment(c)
      BY <2>3, ChargesGrow
    <3>2. charges' = <<[reference |-> request[c].reference, amount |-> signed[c]]>>
      BY <3>1, FirstCharge
    <3>3. step'[c] = "recording" /\ signed' = signed
      BY <1>0, <3>1, GoesTo DEF SettlePayment, Proceed, Steps, localVars
    <3> QED
      BY <3>2, <3>3
  <2> QED
    BY <2>2, <2>3
<1> QED
  BY <1>1, <1>2 DEF SaleInv

\* The shop is told by an announcement only.
LEMMA ToldByAnnounce ==
  ASSUME [CheckoutNext]_checkoutVars
  PROVE  announced' = announced \/ \E c \in Calls : Announce(c)
BY ZenonT(60) DEF CheckoutNext, ChangeCatalog, OpenPage, Restart, CallStep, Arrival, BeginProof, BeginPayment,
   BeginPlace, Present, PresentThrows, ReadClaims, WriteClaim, EndProof, Submit, Lookup, Price, SettlePayment,
   SettleThrows, Record, StoreThrows, Clear, PlaceLookup, PlaceWrite, checkoutVars, money

\* What a shopper agreed to stays agreed.
LEMMA AgreementsGrow ==
  ASSUME CheckoutInv, [CheckoutNext]_checkoutVars
  PROVE  Agreements \subseteq Agreements'
<1> SUFFICES ASSUME NEW c \in Agreed
             PROVE  [rail |-> request[c].rail, amount |-> signed[c]] \in Agreements'
  BY DEF Agreements
<1>1. c \in Calls /\ step[c] \notin {"idle", "presenting"}
  BY DEF Agreed, CheckoutInv, Stands
<1>2. request'[c] = request[c] /\ signed'[c] = signed[c] /\ passed'[c] = passed[c] /\ vouched'[c]
  BY <1>1, Remembered DEF Agreed, Idle
<1>3. c \in Agreed'
  BY <1>1, <1>2 DEF Agreed
<1> QED
  BY <1>2, <1>3 DEF Agreements

\* A payment inside the mutex is one its shopper agreed to.
LEMMA AgreedInside ==
  ASSUME CheckoutInv, shop.gated, SaleInv, NEW c \in Calls, step[c] \in InsideMutex
  PROVE  [rail |-> request[c].rail, amount |-> signed[c]] \in Agreements
<1>1. request[c].rail # "place" /\ request[c].rail # "credential" /\ passed[c]
  BY DEF CheckoutInv, Stands, InsideMutex
<1>2. vouched[c]
  BY <1>1 DEF SaleInv, Paying
<1> QED
  BY <1>1, <1>2 DEF Agreements, Agreed

\* The amounts of the processor's book.
LEMMA AmountsTaken ==
  ASSUME NEW entry
  PROVE  /\ [i \in DOMAIN << >> |-> << >>[i].amount] = << >>
         /\ [i \in DOMAIN <<entry>> |-> <<entry>>[i].amount] = <<entry.amount>>
  OBVIOUS

\* Every step of a gated order is a step of its sale.
LEMMA GatedSaleStep ==
  ASSUME CheckoutInv, OneProcess, ~Unreliable, shop.gated, OnceInv, SaleInv, [CheckoutNext]_checkoutVars
  PROVE  [Order!Next]_Order!vars
<1> USE DEF host, store, money, asked, localVars
<1>0. shop' = shop
  BY DeclaredStep
<1>1. ASSUME NEW c \in Calls, Record(c) PROVE [Order!Next]_Order!vars
  <2> DEFINE terms == [rail |-> request[c].rail, amount |-> signed[c]]
  <2>1. step[c] = "recording" /\ record = NoRecord
    BY <1>1 DEF Record, OnceInv
  <2>2. terms \in Agreements
    BY <2>1, AgreedInside DEF InsideMutex
  <2>3. record' # NoRecord /\ record'.rail = request[c].rail /\ record'.amount = signed[c]
    BY <1>1, RecordWritten DEF Record
  <2>4. UNCHANGED <<charges, announced>> /\ Agreements' = Agreements
    BY <1>1 DEF Record, Agreements, Agreed
  <2>5. CASE charges = << >>
    BY <1>0, <2>1, <2>2, <2>3, <2>4, <2>5, AmountsTaken DEF Order!Next, Order!Sell
  <2>6. CASE charges # << >>
    <3>1. PICK d \in Calls : step[d] = "recording" /\ charges[1].amount = signed[d]
      BY <2>1, <2>6 DEF SaleInv
    <3>2. d = c
      BY <2>1, <3>1, Alone DEF InsideMutex
    <3>3. charges = <<charges[1]>>
      BY <2>1, <2>6 DEF SaleInv, CheckoutInv, CheckoutTypes
    <3>4. [i \in DOMAIN charges |-> charges[i].amount] = <<signed[c]>>
      BY <3>1, <3>2, <3>3, AmountsTaken
    <3> QED
      BY <1>0, <2>1, <2>2, <2>3, <2>4, <3>4 DEF Order!Next, Order!Sell
  <2> QED
    BY <2>5, <2>6
<1>2. ASSUME NEW c \in Calls, SettlePayment(c) PROVE [Order!Next]_Order!vars
  <2> DEFINE terms == [rail |-> request[c].rail, amount |-> signed[c]]
  <2>1. charges = << >> /\ charges' = <<[reference |-> request[c].reference, amount |-> signed[c]]>>
    BY <1>2, FirstCharge
  <2>2. record = NoRecord /\ record' = record /\ announced' = announced /\ Agreements' = Agreements
    BY <1>2, TakenOnce DEF SettlePayment, Agreements, Agreed
  <2>3. terms \in Agreements
    BY <1>2, AgreedInside DEF InsideMutex, SettlePayment
  <2>4. [i \in DOMAIN charges |-> charges[i].amount] = << >>
        /\ [i \in DOMAIN charges' |-> charges'[i].amount] = <<signed[c]>>
    BY <2>1, AmountsTaken
  <2> QED
    BY <1>0, <2>2, <2>3, <2>4 DEF Order!Next, Order!Take
<1>3. ASSUME NEW c \in Calls, Announce(c) PROVE [Order!Next]_Order!vars
  <2>1. record # NoRecord /\ announced = 0 /\ announced' = 1
    BY <1>3 DEF Announce, OnceInv
  <2>2. UNCHANGED <<charges, record>> /\ Agreements' = Agreements
    BY <1>3 DEF Announce, Agreements, Agreed
  <2> QED
    BY <1>0, <2>1, <2>2 DEF Order!Next, Order!Tell
<1>4. ASSUME UNCHANGED <<record, charges, announced>> PROVE [Order!Next]_Order!vars
  BY <1>0, <1>4, AgreementsGrow DEF Order!Next, Order!Agree
<1>5. ASSUME NEW c \in Calls, PlaceWrite(c) PROVE FALSE
  BY <1>5 DEF PlaceWrite, CheckoutInv, Stands
<1> QED
  BY <1>1, <1>2, <1>3, <1>4, <1>5, RecordWritten, ChargesGrow, ToldByAnnounce

\* On one process whose stores and processor lose nothing, the requests that overlap on a gated order keep
\* the promise of a sale: money is taken once, for what a shopper agreed to, and then recorded as that
\* agreement, and then the shop is told, once (completion.ts, the locked section of completeOrder).
THEOREM GatedOrderIsASale ==
  ASSUME OneProcess, ~Unreliable
  PROVE  CheckoutSpec => SaleKept
<1> DEFINE Inv == shop.gated => OnceInv /\ SaleInv
<1>1. CheckoutInit => Inv
  BY DEF CheckoutInit, OnceInv, SaleInv, Paying, InsideMutex
<1>2. CheckoutInv /\ Inv /\ [CheckoutNext]_checkoutVars => Inv'
  BY OnceStep, SaleStep, DeclaredStep
<1>3. CheckoutInit => Order!Init
  BY AmountsTaken DEF CheckoutInit, Order!Init, Agreements, Agreed
<1>4. CheckoutInv /\ Inv /\ [CheckoutNext]_checkoutVars => [Order!Next]_Order!vars
  <2> SUFFICES ASSUME CheckoutInv, Inv, [CheckoutNext]_checkoutVars PROVE [Order!Next]_Order!vars
    OBVIOUS
  <2>1. CASE shop.gated
    BY <2>1, GatedSaleStep
  <2>2. CASE ~shop.gated
    <3>1. shop' = shop
      BY DeclaredStep
    <3> QED
      BY <2>2, <3>1 DEF Order!vars
  <2> QED
    BY <2>1, <2>2
<1> HIDE DEF Inv
<1> QED
  BY <1>1, <1>2, <1>3, <1>4, CheckoutInvariant, PTL DEF CheckoutSpec, SaleKept, Order!Spec

=============================================================================
