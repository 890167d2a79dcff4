------------------------------ MODULE LineItems ------------------------------
(***************************************************************************)
(* lineItemsFit (ap2/chain/constraints.ts): does a cart fit a line_items   *)
(* limit?  Every unit of every item needs a requirement that accepts the   *)
(* item and has room for the unit.  The code answers with a maximum flow   *)
(* (Dinic): items, requirements, and the arcs between them.                *)
(*                                                                         *)
(* The order in which the depth-first search tries the arcs of a node is   *)
(* left open.  Quantities beyond the safe integers are not modelled, nor   *)
(* are lines of no units: an item is in the cart when it has one at least. *)
(***************************************************************************)
EXTENDS FiniteSetsExt, Functions, Sequences, Integers

CONSTANTS
  Items,         \* what a cart may hold
  Requirements,  \* the requirements of the limit
  MaxQuantity    \* bound: of an item in the cart, and of a requirement

VARIABLES
  basket,  \* what the cart holds
  limit,   \* the line_items constraint
  cap,     \* what each arc still takes
  level,   \* the distance of each node from the source, or Unreached
  passed,  \* arcs the search of this phase has given up
  trail,   \* the nodes the search is at
  fit      \* the answer, or what is being done

flowVars == <<basket, limit, cap, level, passed, trail, fit>>

Source == "source"
Sink == "sink"
Nodes == {Source, Sink} \cup Items \cup Requirements
Unreached == -1
Unlimited == MaxQuantity + 1  \* Infinity: more than the source gives to any item
NoFlow == [u \in Nodes |-> [v \in Nodes |-> 0]]

ASSUME LineItemsAssumption ==
  /\ MaxQuantity \in Nat
  /\ IsFiniteSet(Items) /\ IsFiniteSet(Requirements)
  /\ Items \cap Requirements = {} /\ {Source, Sink} \cap (Items \cup Requirements) = {}

AtSource == [v \in Nodes |-> IF v = Source THEN 0 ELSE Unreached]

Last(path) == path[Len(path)]
TotalOf(quantity, set) == SumFunctionOnSet(quantity, set)

\* An empty list of acceptable items accepts any.
Accepts(r, item) == limit[r].items = {} \/ item \in limit[r].items

LineItemsInit ==
  /\ basket \in [Items -> 0..MaxQuantity]
  /\ limit \in [Requirements -> [items : SUBSET Items, quantity : 0..MaxQuantity]]
  /\ cap = NoFlow
  /\ level = AtSource
  /\ passed = {}
  /\ trail = << >>
  /\ fit = "asked"

\* The arcs: source to item, item to the requirements that accept it, requirement to sink.
Capacity(u, v) ==
  IF u = Source /\ v \in Items THEN basket[v]
  ELSE IF u \in Items /\ v \in Requirements /\ basket[u] > 0 /\ Accepts(v, u) THEN Unlimited
  ELSE IF u \in Requirements /\ v = Sink THEN limit[u].quantity
  ELSE 0

\* An empty cart, or an item no requirement accepts, is refused at once.
BuildArcs ==
  LET inCart == {i \in Items : basket[i] > 0} IN
  /\ fit = "asked"
  /\ \/ /\ inCart = {} \/ \E i \in inCart : \A r \in Requirements : ~Accepts(r, i)
        /\ fit' = "refused" /\ UNCHANGED cap
     \/ /\ inCart # {} /\ \A i \in inCart : \E r \in Requirements : Accepts(r, i)
        /\ fit' = "levels"
        /\ cap' = [u \in Nodes |-> [v \in Nodes |-> Capacity(u, v)]]
  /\ UNCHANGED <<basket, limit, level, passed, trail>>

\* The breadth-first search: the nodes at most so many arcs with room from the source.
Near[n \in 0..Cardinality(Nodes)] ==
  IF n = 0 THEN {Source}
  ELSE LET nearer == Near[n - 1] IN nearer \cup {v \in Nodes : \E u \in nearer : cap[u][v] > 0}

\* How far each node is.  When the sink is reached, a search along these levels; when it is not, the
\* answer: what is left of an item at its source has no room anywhere.
Levels ==
  LET layers == [n \in 0..Cardinality(Nodes) |-> Near[n]]
      at(v) == {n \in DOMAIN layers : v \in layers[n]}
  IN
  /\ fit = "levels"
  /\ level' = [v \in Nodes |-> IF at(v) = {} THEN Unreached ELSE Min(at(v))]
  /\ \/ level'[Sink] # Unreached /\ fit' = "pushing" /\ trail' = <<Source>>
     \/ /\ level'[Sink] = Unreached
        /\ fit' = IF \E i \in Items : cap[Source][i] > 0 THEN "refused" ELSE "fits"
        /\ UNCHANGED trail
  /\ UNCHANGED <<basket, limit, cap, passed>>

Open(u, v) == cap[u][v] > 0 /\ level[v] = level[u] + 1 /\ <<u, v>> \notin passed

Advance ==
  /\ fit = "pushing" /\ Last(trail) # Sink
  /\ \E v \in Nodes : Open(Last(trail), v) /\ trail' = Append(trail, v)
  /\ UNCHANGED <<basket, limit, cap, level, passed, fit>>

Retreat ==
  /\ fit = "pushing" /\ Last(trail) # Sink
  /\ \A v \in Nodes : ~Open(Last(trail), v)
  /\ \/ /\ Len(trail) = 1
        /\ fit' = "levels" /\ passed' = {} /\ trail' = << >>
        /\ UNCHANGED level
     \/ /\ Len(trail) > 1
        /\ passed' = passed \cup {<<trail[Len(trail) - 1], Last(trail)>>}
        /\ trail' = SubSeq(trail, 1, Len(trail) - 1)
        /\ UNCHANGED <<level, fit>>
  /\ UNCHANGED <<basket, limit, cap>>

\* Mutant: what was placed is never moved to another requirement.
AfterKept(arcs, pushed) ==
  [u \in Nodes |-> [v \in Nodes |-> IF <<u, v>> \in arcs THEN cap[u][v] - pushed ELSE cap[u][v]]]

\* What was pushed along an arc can be pushed back along its reverse.
After(arcs, pushed) ==
  [u \in Nodes |-> [v \in Nodes |->
     cap[u][v] + (IF <<v, u>> \in arcs THEN pushed ELSE 0) - (IF <<u, v>> \in arcs THEN pushed ELSE 0)]]

Augment ==
  LET arcs == {<<trail[n], trail[n + 1]>> : n \in 1..Len(trail) - 1} IN
  /\ fit = "pushing" /\ Last(trail) = Sink
  /\ cap' = After(arcs, Min({cap[a[1]][a[2]] : a \in arcs}))
  /\ trail' = <<Source>>
  /\ UNCHANGED <<basket, limit, level, passed, fit>>

LineItemsNext == BuildArcs \/ Levels \/ Advance \/ Retreat \/ Augment

LineItemsSpec == LineItemsInit /\ [][LineItemsNext]_flowVars

-----------------------------------------------------------------------------
(* Properties *)

\* Units of each item placed with requirements that accept it, none beyond its quantity.
Assignable(held) ==
  \E put \in [Items -> [Requirements -> 0..MaxQuantity]] :
    /\ \A i \in Items, r \in Requirements : put[i][r] > 0 => Accepts(r, i)
    /\ \A i \in Items : held[i] = TotalOf(put[i], Requirements)
    /\ \A r \in Requirements : TotalOf([i \in Items |-> put[i][r]], Items) <= limit[r].quantity

\* The flow's answer is the right one: a cart is let through exactly when it is not empty and its
\* units can be assigned, whatever the overlap of the requirements and the order of the search.
FitsIfAssignable ==
  fit \in {"fits", "refused"} =>
    (fit = "fits" <=> Assignable(basket) /\ \E i \in Items : basket[i] > 0)
=============================================================================
