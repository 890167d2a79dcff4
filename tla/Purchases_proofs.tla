-------------------------- MODULE Purchases_proofs --------------------------
(***************************************************************************)
(* Proofs about delegated purchases (Purchases) and about the line_items   *)
(* limit (LineItems), for any permissions, merchants, prices and agents,   *)
(* and for any items, requirements and quantities.                         *)
(*                                                                         *)
(* Both count with sums over finite sets.  The facts about sums are proved *)
(* here from their definition, by taking a least counterexample among the  *)
(* subsets of a finite set.                                                *)
(*                                                                         *)
(* What is sold was signed: a verification under way is of one permission, *)
(* whose limits it has passed (AsSigned); the ledger holds, under the id   *)
(* of a permission, exactly what was sold under it (LedgerTrue); and where *)
(* no two verifications overlapped, the one past the ledger still fits     *)
(* what the ledger holds (StillFits).                                      *)
(*                                                                         *)
(* The flow of lineItemsFit: an arc and its reverse keep their sum, and    *)
(* what a node takes in it passes on (Balanced).  So what was pushed to    *)
(* the sink is an assignment of units to requirements (PlacedAssigns), and *)
(* when no path is left, the nodes still reached are a cut that shows that *)
(* no assignment holds the whole cart (CutRefuses).                        *)
(***************************************************************************)
EXTENDS Purchases, LineItems, FiniteSetTheorems, WellFoundedInduction, TLAPS

-----------------------------------------------------------------------------
(* Sums over finite sets *)

\* A set of subsets of a finite set has a least one: the form of induction over a finite set that needs
\* no operator as a parameter.
LEMMA LeastSubset ==
  ASSUME NEW S, IsFiniteSet(S), NEW T, T \subseteq SUBSET S, T # {}
  PROVE  \E t \in T : \A u \in T : u \subseteq t => u = t
<1>1. FiniteSubsetsOf(S) = SUBSET S
  BY FS_FiniteSubsetsOfFinite
<1>2. PICK t \in T : \A u \in T : ~(<<u, t>> \in StrictSubsetOrdering(S))
  BY <1>1, FS_StrictSubsetOrderingWellFounded, WFMin
<1>3. \A u \in T : u \subseteq t => u = t
  BY <1>2 DEF StrictSubsetOrdering
<1> QED
  BY <1>3

PickOf(s) == CHOOSE x \in s : TRUE

\* The recursive function behind a sum.
Sums(g, q, S) ==
  g = [s \in SUBSET S |-> IF s = {} THEN 0 ELSE q[PickOf(s)] + g[s \ {PickOf(s)}]]

\* What a sum takes first is in the set.
LEMMA PickedIsIn == ASSUME NEW s, s # {} PROVE PickOf(s) \in s
BY DEF PickOf

\* SumFunctionOnSet, unfolded: it is the recursive function's value at the whole set.
LEMMA SumIsLast ==
  ASSUME NEW q, NEW S
  PROVE  SumFunctionOnSet(q, S) = (CHOOSE g : Sums(g, q, S))[S]
BY DEF SumFunctionOnSet, FoldFunctionOnSet, MapThenFoldSet, Sums, PickOf

\* There is one such function: on the subsets they share, any two agree.
LEMMA SumsAgree ==
  ASSUME NEW q, NEW S, IsFiniteSet(S), NEW T \in SUBSET S, NEW g, NEW h, Sums(g, q, S), Sums(h, q, T)
  PROVE  \A s \in SUBSET T : g[s] = h[s]
<1> DEFINE Bad == {s \in SUBSET T : g[s] # h[s]}
<1> SUFFICES ASSUME Bad # {} PROVE FALSE
  OBVIOUS
<1>1. IsFiniteSet(T)
  BY FS_Subset
<1>2. PICK t \in Bad : \A u \in Bad : u \subseteq t => u = t
  <2>1. Bad \subseteq SUBSET T
    OBVIOUS
  <2> HIDE DEF Bad
  <2> QED
    BY <1>1, <2>1, LeastSubset
<1>3. t # {}
  BY <1>2 DEF Sums
<1>4. PickOf(t) \in t
  BY <1>3, PickedIsIn
<1>5. g[t \ {PickOf(t)}] = h[t \ {PickOf(t)}]
  BY <1>2, <1>4
<1>6. g[t] = q[PickOf(t)] + g[t \ {PickOf(t)}]
  BY <1>2, <1>3 DEF Sums
<1>7. h[t] = q[PickOf(t)] + h[t \ {PickOf(t)}]
  BY <1>2, <1>3 DEF Sums
<1> QED
  BY <1>2, <1>5, <1>6, <1>7

\* There is such a function, on every finite set.
LEMMA SumsExist ==
  ASSUME NEW q, NEW S, IsFiniteSet(S)
  PROVE  \E g : Sums(g, q, S)
<1> DEFINE Bad == {T \in SUBSET S : ~ \E g : Sums(g, q, T)}
<1> SUFFICES ASSUME Bad # {} PROVE FALSE
  OBVIOUS
<1>1. PICK T \in Bad : \A u \in Bad : u \subseteq T => u = T
  <2>1. Bad \subseteq SUBSET S
    OBVIOUS
  <2> HIDE DEF Bad
  <2> QED
    BY <2>1, LeastSubset
<1> DEFINE G(u) == CHOOSE g : Sums(g, q, u)
<1>2. ASSUME NEW u \in SUBSET T, u # T PROVE Sums(G(u), q, u)
  BY <1>1, <1>2
<1> DEFINE rest(s) == s \ {PickOf(s)}
           h == [s \in SUBSET T |-> IF s = {} THEN 0 ELSE q[PickOf(s)] + G(rest(s))[rest(s)]]
<1>3. ASSUME NEW s \in SUBSET T, s # {} PROVE h[s] = q[PickOf(s)] + h[rest(s)]
  <2>1. rest(s) \in SUBSET T /\ rest(s) # T
    BY <1>3, PickedIsIn
  <2>2. Sums(G(rest(s)), q, rest(s))
    BY <1>2, <2>1
  <2> DEFINE u == rest(s)
  <2>3. CASE u = {}
    <3>1. G(u)[u] = 0
      BY <2>2, <2>3 DEF Sums
    <3>2. h[u] = 0
      BY <2>1, <2>3
    <3> HIDE DEF G
    <3> QED
      BY <1>3, <3>1, <3>2
  <2>4. CASE u # {}
    <3>1. rest(u) \in SUBSET u /\ rest(u) # T /\ u \in SUBSET T /\ rest(u) \in SUBSET T
      BY <2>1, <2>4
    <3>2. Sums(G(rest(u)), q, rest(u))
      BY <1>2, <3>1
    <3>3. IsFiniteSet(u)
      BY <3>1, FS_Subset
    <3>4. G(u)[rest(u)] = G(rest(u))[rest(u)]
      <4> HIDE DEF G
      <4> QED
        BY <2>2, <3>1, <3>2, <3>3, SumsAgree
    <3>5. G(u)[u] = q[PickOf(u)] + G(u)[rest(u)]
      <4> HIDE DEF G
      <4> QED
        BY <2>2, <2>4 DEF Sums
    <3>6. h[u] = q[PickOf(u)] + G(rest(u))[rest(u)]
      <4> HIDE DEF G
      <4> QED
        BY <3>1, <2>4
    <3> HIDE DEF G
    <3> QED
      BY <1>3, <3>4, <3>5, <3>6
  <2> QED
    BY <2>3, <2>4
<1>4. Sums(h, q, T)
  <2>1. \A s \in SUBSET T : h[s] = IF s = {} THEN 0 ELSE q[PickOf(s)] + h[rest(s)]
    <3> HIDE DEF h, rest
    <3>1. h[{}] = 0
      <4> HIDE DEF G
      <4> QED
        BY DEF h
    <3> QED
      BY <1>3, <3>1
  <2>2. h = [s \in SUBSET T |-> h[s]]
    <3> HIDE DEF G
    <3> QED
      OBVIOUS
  <2> HIDE DEF h
  <2> QED
    BY <2>1, <2>2 DEF Sums
<1> QED
  BY <1>1, <1>4

\* The sum over nothing.
LEMMA SumOfNone == ASSUME NEW q PROVE SumFunctionOnSet(q, {}) = 0
<1>1. PICK g : Sums(g, q, {})
  BY FS_EmptySet, SumsExist
<1>2. Sums(CHOOSE h : Sums(h, q, {}), q, {})
  BY <1>1
<1> QED
  BY <1>2, SumIsLast DEF Sums

\* The sum over a set, by the element it takes first.
LEMMA SumOfPicked ==
  ASSUME NEW q, NEW S, IsFiniteSet(S), S # {}
  PROVE  SumFunctionOnSet(q, S) = q[PickOf(S)] + SumFunctionOnSet(q, S \ {PickOf(S)})
<1> DEFINE G(s) == CHOOSE g : Sums(g, q, s)
           rest == S \ {PickOf(S)}
<1>1. IsFiniteSet(rest)
  BY FS_RemoveElement
<1>2. Sums(G(S), q, S) /\ Sums(G(rest), q, rest)
  BY <1>1, SumsExist
<1>3. SumFunctionOnSet(q, S) = G(S)[S] /\ SumFunctionOnSet(q, rest) = G(rest)[rest]
  BY SumIsLast
<1> HIDE DEF G
<1>4. G(S)[S] = q[PickOf(S)] + G(S)[rest]
  BY <1>2 DEF Sums
<1>5. G(S)[rest] = G(rest)[rest]
  <2>1. rest \in SUBSET S
    OBVIOUS
  <2> HIDE DEF rest
  <2> QED
    BY <1>2, <2>1, SumsAgree
<1> QED
  BY <1>3, <1>4, <1>5

\* The sum of numbers is a number; of natural numbers, a natural number.
LEMMA SumIsNumber ==
  ASSUME NEW q, NEW S, IsFiniteSet(S)
  PROVE  /\ (\A x \in S : q[x] \in Int) => SumFunctionOnSet(q, S) \in Int
         /\ (\A x \in S : q[x] \in Nat) => SumFunctionOnSet(q, S) \in Nat
<1> SUFFICES ASSUME NEW N \in {Int, Nat}, \A x \in S : q[x] \in N
             PROVE  SumFunctionOnSet(q, S) \in N
  OBVIOUS
<1> DEFINE Bad == {s \in SUBSET S : SumFunctionOnSet(q, s) \notin N}
<1> SUFFICES ASSUME Bad # {} PROVE FALSE
  OBVIOUS
<1>1. PICK s \in Bad : \A u \in Bad : u \subseteq s => u = s
  <2>1. Bad \subseteq SUBSET S
    OBVIOUS
  <2> HIDE DEF Bad
  <2> QED
    BY <2>1, LeastSubset
<1>2. s # {}
  <2>1. SumFunctionOnSet(q, {}) \in N
    BY SumOfNone
  <2> QED
    BY <1>1, <2>1
<1>3. PickOf(s) \in s /\ IsFiniteSet(s)
  BY <1>1, <1>2, PickedIsIn, FS_Subset
<1>4. SumFunctionOnSet(q, s \ {PickOf(s)}) \in N
  BY <1>1, <1>3
<1>5. SumFunctionOnSet(q, s) = q[PickOf(s)] + SumFunctionOnSet(q, s \ {PickOf(s)})
  BY <1>2, <1>3, SumOfPicked
<1>6. q[PickOf(s)] \in N
  BY <1>1, <1>3
<1> HIDE DEF Bad
<1> QED
  <2>1. SumFunctionOnSet(q, s) \in N
    BY <1>4, <1>5, <1>6
  <2> QED
    BY <1>1, <2>1 DEF Bad

\* Whichever element is taken out first.
LEMMA SumWithout ==
  ASSUME NEW q, NEW S, IsFiniteSet(S), \A x \in S : q[x] \in Int, NEW e \in S
  PROVE  SumFunctionOnSet(q, S) = q[e] + SumFunctionOnSet(q, S \ {e})
<1> DEFINE Differs(s) ==
             \E x \in s : SumFunctionOnSet(q, s) # q[x] + SumFunctionOnSet(q, s \ {x})
           Bad == {s \in SUBSET S : Differs(s)}
<1> SUFFICES ASSUME Bad # {} PROVE FALSE
  OBVIOUS
<1>1. PICK s \in Bad : \A u \in Bad : u \subseteq s => u = s
  <2>1. Bad \subseteq SUBSET S
    OBVIOUS
  <2> HIDE DEF Bad
  <2> QED
    BY <2>1, LeastSubset
<1>2. PICK x \in s : SumFunctionOnSet(q, s) # q[x] + SumFunctionOnSet(q, s \ {x})
  BY <1>1
<1> DEFINE p == PickOf(s)
<1>3. p \in s /\ IsFiniteSet(s) /\ s \subseteq S
  BY <1>1, <1>2, PickedIsIn, FS_Subset
<1>4. SumFunctionOnSet(q, s) = q[p] + SumFunctionOnSet(q, s \ {p})
  BY <1>2, <1>3, SumOfPicked
<1>5. p # x
  BY <1>2, <1>4
<1>6. ~Differs(s \ {p}) /\ ~Differs(s \ {x})
  <2>1. s \ {p} \notin Bad /\ s \ {x} \notin Bad
    <3> HIDE DEF Bad
    <3> QED
      BY <1>1, <1>2, <1>3
  <2> QED
    BY <1>3, <2>1
<1>7. SumFunctionOnSet(q, s \ {p}) = q[x] + SumFunctionOnSet(q, (s \ {p}) \ {x})
  BY <1>2, <1>5, <1>6
<1>8. SumFunctionOnSet(q, s \ {x}) = q[p] + SumFunctionOnSet(q, (s \ {x}) \ {p})
  BY <1>3, <1>5, <1>6
<1>9. SumFunctionOnSet(q, s \ {x}) = q[p] + SumFunctionOnSet(q, (s \ {p}) \ {x})
  <2>1. (s \ {p}) \ {x} = (s \ {x}) \ {p}
    OBVIOUS
  <2> QED
    BY <1>8, <2>1
<1>10. q[p] \in Int /\ q[x] \in Int
  BY <1>2, <1>3
<1>11. SumFunctionOnSet(q, (s \ {p}) \ {x}) \in Int
  <2>1. IsFiniteSet((s \ {p}) \ {x}) /\ \A y \in (s \ {p}) \ {x} : q[y] \in Int
    BY <1>3, FS_RemoveElement
  <2> QED
    BY <2>1, SumIsNumber
<1>12. SumFunctionOnSet(q, s) = q[x] + SumFunctionOnSet(q, s \ {x})
  <2> HIDE DEF p, Bad
  <2> DEFINE c == SumFunctionOnSet(q, (s \ {p}) \ {x})
  <2>1. SumFunctionOnSet(q, s) = q[p] + (q[x] + c)
    BY <1>4, <1>7
  <2>2. SumFunctionOnSet(q, s \ {x}) = q[p] + c
    BY <1>9
  <2>3. c \in Int
    BY <1>11
  <2> HIDE DEF c
  <2> QED
    BY <1>10, <2>1, <2>2, <2>3
<1> QED
  BY <1>2, <1>12

\* The sum over a set and one element more.
LEMMA SumWith ==
  ASSUME NEW q, NEW S, IsFiniteSet(S), NEW e, e \notin S, \A x \in S \cup {e} : q[x] \in Int
  PROVE  SumFunctionOnSet(q, S \cup {e}) = q[e] + SumFunctionOnSet(q, S)
<1>1. IsFiniteSet(S \cup {e}) /\ e \in S \cup {e}
  BY FS_AddElement
<1>2. (S \cup {e}) \ {e} = S
  OBVIOUS
<1> QED
  BY <1>1, <1>2, SumWithout

\* A sum depends on what is summed only.
LEMMA SumOfSame ==
  ASSUME NEW q, NEW r, NEW S, IsFiniteSet(S), \A x \in S : q[x] = r[x]
  PROVE  SumFunctionOnSet(q, S) = SumFunctionOnSet(r, S)
<1> DEFINE Bad == {s \in SUBSET S : SumFunctionOnSet(q, s) # SumFunctionOnSet(r, s)}
<1> SUFFICES ASSUME Bad # {} PROVE FALSE
  OBVIOUS
<1>1. PICK s \in Bad : \A u \in Bad : u \subseteq s => u = s
  <2>1. Bad \subseteq SUBSET S
    OBVIOUS
  <2> HIDE DEF Bad
  <2> QED
    BY <2>1, LeastSubset
<1>2. s # {}
  BY <1>1, SumOfNone
<1>3. PickOf(s) \in s /\ IsFiniteSet(s) /\ s \subseteq S
  BY <1>1, <1>2, PickedIsIn, FS_Subset
<1>4. SumFunctionOnSet(q, s \ {PickOf(s)}) = SumFunctionOnSet(r, s \ {PickOf(s)})
  BY <1>1, <1>3
<1>5. SumFunctionOnSet(q, s) = q[PickOf(s)] + SumFunctionOnSet(q, s \ {PickOf(s)})
  BY <1>2, <1>3, SumOfPicked
<1>6. SumFunctionOnSet(r, s) = r[PickOf(s)] + SumFunctionOnSet(r, s \ {PickOf(s)})
  BY <1>2, <1>3, SumOfPicked
<1>7. SumFunctionOnSet(q, s) = SumFunctionOnSet(r, s)
  BY <1>3, <1>4, <1>5, <1>6
<1> QED
  BY <1>1, <1>7

\* Induction over a finite set, as a fact about a set of its subsets.
LEMMA SubsetInduction ==
  ASSUME NEW S, IsFiniteSet(S), NEW Good, {} \in Good,
         \A s \in SUBSET S : \A x \in s : s \ {x} \in Good => s \in Good
  PROVE  S \in Good
<1> DEFINE Bad == (SUBSET S) \ Good
<1> SUFFICES ASSUME Bad # {} PROVE FALSE
  OBVIOUS
<1>1. PICK s \in Bad : \A u \in Bad : u \subseteq s => u = s
  <2>1. Bad \subseteq SUBSET S
    OBVIOUS
  <2> HIDE DEF Bad
  <2> QED
    BY <2>1, LeastSubset
<1>2. PICK x \in s : TRUE
  <2>1. s # {}
    BY <1>1
  <2> QED
    BY <2>1
<1>3. s \ {x} \notin Bad /\ s \ {x} \in SUBSET S
  BY <1>1, <1>2
<1> QED
  BY <1>1, <1>2, <1>3

\* A sum of zeros.
LEMMA SumOfZeros ==
  ASSUME NEW q, NEW S, IsFiniteSet(S), \A x \in S : q[x] = 0
  PROVE  SumFunctionOnSet(q, S) = 0
<1> DEFINE Good == {s \in SUBSET S : SumFunctionOnSet(q, s) = 0}
<1>1. {} \in Good
  BY SumOfNone
<1>2. ASSUME NEW s \in SUBSET S, NEW x \in s, s \ {x} \in Good PROVE s \in Good
  <2>1. IsFiniteSet(s) /\ \A y \in s : q[y] \in Int
    BY FS_Subset
  <2>2. SumFunctionOnSet(q, s) = q[x] + SumFunctionOnSet(q, s \ {x})
    BY <2>1, SumWithout
  <2> QED
    BY <1>2, <2>2
<1>3. S \in Good
  <2> HIDE DEF Good
  <2> QED
    BY <1>1, <1>2, SubsetInduction
<1> QED
  BY <1>3

\* Two sums, one of which is nowhere greater.
LEMMA SumGrows ==
  ASSUME NEW q, NEW r, NEW S, IsFiniteSet(S),
         \A x \in S : q[x] \in Int /\ r[x] \in Int /\ q[x] <= r[x]
  PROVE  /\ SumFunctionOnSet(q, S) <= SumFunctionOnSet(r, S)
         /\ (\E x \in S : q[x] < r[x]) => SumFunctionOnSet(q, S) < SumFunctionOnSet(r, S)
<1> DEFINE Good == {s \in SUBSET S : SumFunctionOnSet(q, s) <= SumFunctionOnSet(r, s)}
<1>1. {} \in Good
  BY SumOfNone
<1>2. ASSUME NEW s \in SUBSET S, NEW x \in s
      PROVE  /\ SumFunctionOnSet(q, s \ {x}) \in Int /\ SumFunctionOnSet(r, s \ {x}) \in Int
             /\ SumFunctionOnSet(q, s) = q[x] + SumFunctionOnSet(q, s \ {x})
             /\ SumFunctionOnSet(r, s) = r[x] + SumFunctionOnSet(r, s \ {x})
  <2>1. IsFiniteSet(s) /\ IsFiniteSet(s \ {x})
    BY FS_Subset, FS_RemoveElement
  <2>2. \A y \in s : q[y] \in Int /\ r[y] \in Int
    OBVIOUS
  <2> QED
    BY <2>1, <2>2, SumIsNumber, SumWithout
<1>3. ASSUME NEW s \in SUBSET S, NEW x \in s, s \ {x} \in Good PROVE s \in Good
  BY <1>2, <1>3
<1>4. ASSUME NEW s \in SUBSET S PROVE s \in Good
  <2>1. IsFiniteSet(s)
    BY FS_Subset
  <2> HIDE DEF Good
  <2> QED
    BY <1>1, <1>3, <2>1, SubsetInduction
<1>5. ASSUME NEW x \in S, q[x] < r[x] PROVE SumFunctionOnSet(q, S) < SumFunctionOnSet(r, S)
  <2>1. SumFunctionOnSet(q, S \ {x}) <= SumFunctionOnSet(r, S \ {x})
    BY <1>4
  <2> HIDE DEF Good
  <2> QED
    BY <1>2, <1>5, <2>1
<1> QED
  BY <1>4, <1>5

\* A part of a sum, and one that leaves nothing out.
LEMMA SumOfPart ==
  ASSUME NEW q, NEW S, IsFiniteSet(S), NEW T \in SUBSET S, \A x \in S : q[x] \in Nat
  PROVE  /\ SumFunctionOnSet(q, T) <= SumFunctionOnSet(q, S)
         /\ (\A x \in S \ T : q[x] = 0) => SumFunctionOnSet(q, T) = SumFunctionOnSet(q, S)
<1> DEFINE Good == {s \in SUBSET S :
             /\ SumFunctionOnSet(q, s \cap T) <= SumFunctionOnSet(q, s)
             /\ (\A x \in S \ T : q[x] = 0) => SumFunctionOnSet(q, s \cap T) = SumFunctionOnSet(q, s)}
<1>1. {} \in Good
  <2>1. {} \cap T = {}
    OBVIOUS
  <2> QED
    BY <2>1, SumOfNone
<1>2. ASSUME NEW s \in SUBSET S, NEW x \in s, s \ {x} \in Good PROVE s \in Good
  <2> DEFINE u == s \ {x}
  <2>1. IsFiniteSet(s) /\ IsFiniteSet(u) /\ IsFiniteSet(s \cap T) /\ IsFiniteSet(u \cap T)
    BY FS_Subset, FS_RemoveElement, FS_Intersection
  <2>2. SumFunctionOnSet(q, s) = q[x] + SumFunctionOnSet(q, u)
    BY <2>1, SumWithout
  <2>3. CASE x \in T
    <3>1. (s \cap T) \ {x} = u \cap T /\ x \in s \cap T
      BY <2>3
    <3>2. SumFunctionOnSet(q, s \cap T) = q[x] + SumFunctionOnSet(q, (s \cap T) \ {x})
      BY <2>1, <3>1, SumWithout
    <3>3. SumFunctionOnSet(q, u) \in Nat /\ SumFunctionOnSet(q, u \cap T) \in Nat /\ q[x] \in Nat
      BY <2>1, SumIsNumber
    <3>4. SumFunctionOnSet(q, s \cap T) = q[x] + SumFunctionOnSet(q, u \cap T)
      BY <3>1, <3>2
    <3> HIDE DEF u
    <3> QED
      BY <1>2, <2>2, <3>3, <3>4 DEF u
  <2>4. CASE x \notin T
    <3>1. s \cap T = u \cap T
      BY <2>4
    <3>2. SumFunctionOnSet(q, u) \in Nat /\ SumFunctionOnSet(q, u \cap T) \in Nat /\ q[x] \in Nat
      BY <2>1, SumIsNumber
    <3>3. SumFunctionOnSet(q, s \cap T) = SumFunctionOnSet(q, u \cap T)
      BY <3>1
    <3>4. x \in S \ T
      BY <2>4
    <3> HIDE DEF u
    <3> QED
      BY <1>2, <2>2, <3>2, <3>3, <3>4 DEF u
  <2> QED
    BY <2>3, <2>4
<1>3. S \in Good
  <2> HIDE DEF Good
  <2> QED
    BY <1>1, <1>2, SubsetInduction
<1>4. S \cap T = T
  OBVIOUS
<1> QED
  BY <1>3, <1>4

\* Sums add up, term by term.
LEMMA SumOfSums ==
  ASSUME NEW q, NEW r, NEW b, NEW S, IsFiniteSet(S),
         \A x \in S : q[x] \in Int /\ r[x] \in Int /\ b[x] = q[x] + r[x]
  PROVE  SumFunctionOnSet(b, S) = SumFunctionOnSet(q, S) + SumFunctionOnSet(r, S)
<1> DEFINE Good == {s \in SUBSET S : SumFunctionOnSet(b, s) = SumFunctionOnSet(q, s) + SumFunctionOnSet(r, s)}
<1>0. \A x \in S : b[x] = q[x] + r[x] /\ b[x] \in Int
  OBVIOUS
<1>1. {} \in Good
  BY SumOfNone
<1>2. ASSUME NEW s \in SUBSET S, NEW x \in s, s \ {x} \in Good PROVE s \in Good
  <2> DEFINE u == s \ {x}
  <2>1. IsFiniteSet(s) /\ IsFiniteSet(u)
    BY FS_Subset, FS_RemoveElement
  <2>2. /\ SumFunctionOnSet(q, s) = q[x] + SumFunctionOnSet(q, u)
        /\ SumFunctionOnSet(r, s) = r[x] + SumFunctionOnSet(r, u)
        /\ SumFunctionOnSet(b, s) = b[x] + SumFunctionOnSet(b, u)
    BY <1>0, <2>1, SumWithout
  <2>3. SumFunctionOnSet(q, u) \in Int /\ SumFunctionOnSet(r, u) \in Int
    BY <2>1, SumIsNumber
  <2>4. SumFunctionOnSet(b, u) = SumFunctionOnSet(q, u) + SumFunctionOnSet(r, u)
    BY <1>2
  <2>5. b[x] = q[x] + r[x] /\ q[x] \in Int /\ r[x] \in Int
    BY <1>0
  <2>6. SumFunctionOnSet(b, s) = SumFunctionOnSet(q, s) + SumFunctionOnSet(r, s)
    <3> HIDE DEF u, Good
    <3> QED
      BY <2>2, <2>3, <2>4, <2>5
  <2> QED
    BY <2>6
<1>3. S \in Good
  <2> HIDE DEF Good
  <2> QED
    BY <1>1, <1>2, SubsetInduction
<1> QED
  BY <1>3

Turned(f, g, S, T) == \A x \in S, y \in T : f[x][y] \in Int /\ g[y][x] = f[x][y]
SumsOfRows(rows, f, S, T) == \A x \in S : rows[x] = SumFunctionOnSet(f[x], T)
SumsWithin(bound, f, S, T) == \A x \in S : bound[x] \in Int /\ SumFunctionOnSet(f[x], T) <= bound[x]

\* The rows of a table and its columns have one sum.
LEMMA SumByColumns ==
  ASSUME NEW S, IsFiniteSet(S), NEW T, IsFiniteSet(T),
         NEW f, NEW g, Turned(f, g, S, T),
         NEW rows, SumsOfRows(rows, f, S, T), NEW columns, SumsOfRows(columns, g, T, S)
  PROVE  SumFunctionOnSet(rows, S) = SumFunctionOnSet(columns, T)
<1> USE DEF Turned, SumsOfRows
<1> DEFINE down(s) == [y \in T |-> SumFunctionOnSet(g[y], s)]
           Good == {s \in SUBSET S : SumFunctionOnSet(rows, s) = SumFunctionOnSet(down(s), T)}
<1>1. ASSUME NEW s \in SUBSET S
      PROVE  \A y \in T : down(s)[y] = SumFunctionOnSet(g[y], s) /\ down(s)[y] \in Int
  <2> SUFFICES ASSUME NEW y \in T PROVE SumFunctionOnSet(g[y], s) \in Int
    OBVIOUS
  <2>1. IsFiniteSet(s) /\ \A x \in s : g[y][x] \in Int
    BY FS_Subset
  <2> QED
    BY <2>1, SumIsNumber
<1>2. \A x \in S : rows[x] \in Int
  BY SumIsNumber
<1> HIDE DEF down
<1>3. {} \in Good
  <2>1. \A y \in T : down({})[y] = 0
    BY <1>1, SumOfNone
  <2>2. SumFunctionOnSet(down({}), T) = 0
    BY <2>1, SumOfZeros
  <2> QED
    BY <2>2, SumOfNone
<1>4. ASSUME NEW s \in SUBSET S, NEW x \in s, s \ {x} \in Good PROVE s \in Good
  <2> DEFINE u == s \ {x}
  <2>1. IsFiniteSet(s) /\ u \in SUBSET S /\ x \in S
    BY FS_Subset
  <2>2. SumFunctionOnSet(rows, s) = rows[x] + SumFunctionOnSet(rows, u)
    BY <1>2, <2>1, SumWithout
  <2>3. ASSUME NEW y \in T
        PROVE  f[x][y] \in Int /\ down(u)[y] \in Int /\ down(s)[y] = f[x][y] + down(u)[y]
    <3>1. \A z \in s : g[y][z] \in Int
      OBVIOUS
    <3>2. SumFunctionOnSet(g[y], s) = g[y][x] + SumFunctionOnSet(g[y], u)
      BY <2>1, <3>1, SumWithout
    <3> HIDE DEF u
    <3> QED
      BY <1>1, <2>1, <3>2
  <2> HIDE DEF u
  <2>4. SumFunctionOnSet(down(s), T) = SumFunctionOnSet(f[x], T) + SumFunctionOnSet(down(u), T)
    BY <2>3, SumOfSums
  <2>5. SumFunctionOnSet(rows, u) = SumFunctionOnSet(down(u), T)
    BY <1>4 DEF u
  <2>6. SumFunctionOnSet(rows, s) = SumFunctionOnSet(down(s), T)
    BY <2>1, <2>2, <2>4, <2>5
  <2> QED
    BY <2>6
<1>5. S \in Good
  <2> HIDE DEF Good
  <2> QED
    BY <1>3, <1>4, SubsetInduction
<1>6. SumFunctionOnSet(down(S), T) = SumFunctionOnSet(columns, T)
  <2>1. \A y \in T : down(S)[y] = columns[y]
    BY <1>1
  <2> QED
    BY <2>1, SumOfSame
<1> QED
  BY <1>5, <1>6

\* A sum in which one term has changed.
LEMMA SumChangedAt ==
  ASSUME NEW q, NEW r, NEW S, IsFiniteSet(S), \A x \in S : q[x] \in Int /\ r[x] \in Int,
         NEW e \in S, \A x \in S \ {e} : q[x] = r[x]
  PROVE  SumFunctionOnSet(r, S) = SumFunctionOnSet(q, S) + (r[e] - q[e])
<1>1. IsFiniteSet(S \ {e})
  BY FS_RemoveElement
<1>2. SumFunctionOnSet(q, S \ {e}) = SumFunctionOnSet(r, S \ {e}) /\ SumFunctionOnSet(q, S \ {e}) \in Int
  BY <1>1, SumOfSame, SumIsNumber
<1>3. /\ SumFunctionOnSet(q, S) = q[e] + SumFunctionOnSet(q, S \ {e})
      /\ SumFunctionOnSet(r, S) = r[e] + SumFunctionOnSet(r, S \ {e})
  BY SumWithout
<1> QED
  BY <1>2, <1>3

\* What is taken from one term and put on another.
LEMMA SumMoved ==
  ASSUME NEW q, NEW r, NEW S, IsFiniteSet(S), \A x \in S : q[x] \in Int /\ r[x] \in Int,
         NEW a \in S, NEW b \in S, a # b, NEW p \in Int, r[a] = q[a] + p, r[b] = q[b] - p,
         \A x \in S \ {a, b} : q[x] = r[x]
  PROVE  SumFunctionOnSet(r, S) = SumFunctionOnSet(q, S)
<1> DEFINE U == S \ {a}
<1>1. IsFiniteSet(U) /\ b \in U /\ \A x \in U \ {b} : q[x] = r[x]
  BY FS_RemoveElement
<1>2. SumFunctionOnSet(r, U) = SumFunctionOnSet(q, U) + (r[b] - q[b])
  <2>1. \A x \in U : q[x] \in Int /\ r[x] \in Int
    OBVIOUS
  <2> HIDE DEF U
  <2> QED
    BY <1>1, <2>1, SumChangedAt
<1>3. SumFunctionOnSet(q, S) = q[a] + SumFunctionOnSet(q, U) /\ SumFunctionOnSet(r, S) = r[a] + SumFunctionOnSet(r, U)
  BY SumWithout
<1>4. SumFunctionOnSet(q, U) \in Int
  BY <1>1, SumIsNumber
<1> HIDE DEF U
<1> QED
  BY <1>2, <1>3, <1>4

-----------------------------------------------------------------------------
(* Induction over numbers, as a fact about a set of them *)

\* A set of numbers has a least one.
LEMMA LeastNumber ==
  ASSUME NEW S, S \subseteq Nat, S # {}
  PROVE  \E n \in S : \A k \in S : n <= k
<1> PICK m \in S : TRUE
  OBVIOUS
<1> DEFINE T == {0..k : k \in S \cap (0..m)}
<1>1. T \subseteq SUBSET (0..m) /\ T # {}
  <2>1. \A k \in S \cap (0..m) : 0..k \subseteq 0..m
    OBVIOUS
  <2>2. m \in S \cap (0..m)
    OBVIOUS
  <2> QED
    BY <2>1, <2>2
<1>2. PICK t \in T : \A u \in T : u \subseteq t => u = t
  <2> DEFINE upTo == 0..m
  <2>1. m \in Int /\ 0 \in Int
    OBVIOUS
  <2>2. IsFiniteSet(upTo)
    BY <2>1, FS_Interval
  <2>3. T \subseteq SUBSET upTo /\ T # {}
    BY <1>1
  <2> HIDE DEF T, upTo
  <2> QED
    BY <2>2, <2>3, LeastSubset
<1>3. PICK n \in S \cap (0..m) : t = 0..n
  BY <1>2
<1>4. ASSUME NEW k \in S, ~(n <= k) PROVE FALSE
  <2>1. k \in S \cap (0..m) /\ 0..k \subseteq 0..n
    BY <1>3, <1>4
  <2>2. 0..k \in T
    BY <2>1
  <2> HIDE DEF T
  <2>3. 0..k = 0..n
    BY <1>2, <1>3, <2>1, <2>2
  <2>4. n \in 0..n /\ n \notin 0..k
    BY <1>3, <1>4
  <2> QED
    BY <2>3, <2>4
<1> QED
  BY <1>3, <1>4

\* Induction over the numbers, as a fact about the set of those it holds of.
LEMMA NumberInduction ==
  ASSUME NEW Good, 0 \in Good, \A n \in Nat : n \in Good => n + 1 \in Good
  PROVE  Nat \subseteq Good
<1> DEFINE Bad == Nat \ Good
<1> SUFFICES ASSUME Bad # {} PROVE FALSE
  OBVIOUS
<1>1. PICK n \in Bad : \A k \in Bad : n <= k
  <2>1. Bad \subseteq Nat
    OBVIOUS
  <2> HIDE DEF Bad
  <2> QED
    BY <2>1, LeastNumber
<1>2. n - 1 \in Nat /\ n - 1 \notin Bad
  BY <1>1
<1> QED
  BY <1>1, <1>2

\* Min, of a set of numbers, is its least.
LEMMA LeastIsMin ==
  ASSUME NEW S, S \subseteq Nat, S # {}
  PROVE  Min(S) \in S /\ \A k \in S : Min(S) <= k
BY LeastNumber DEF Min

-----------------------------------------------------------------------------
(* Delegated purchases *)

Hops ==
  [agent : Agents, over : Links, audience : Merchants, nonce : Nat, quote : Nat, payee : Merchants,
   amount : Nat, date : Int]
Calls ==
  [stage : {"ledger", "pricing"}, nonce : Nat, merchant : Merchants, id : {<<p>> : p \in Permissions},
   at : Nat, checkout : Permissions, payment : Permissions, agent : Agents, quote : Nat, amount : Nat,
   date : Int]
Sales ==
  [merchant : Merchants, checkout : Permissions, payment : Permissions, agent : Agents, goods : Goods,
   amount : Nat, at : Nat]

PurchasesTypes ==
  /\ now \in Nat
  /\ price \in [Merchants -> Prices]
  /\ quotes \in Seq([merchant : Merchants, goods : Goods, total : Nat])
  /\ spends \in SUBSET Hops /\ \A hop \in spends : hop.quote \in DOMAIN quotes
  /\ verifying \in SUBSET Calls /\ \A call \in verifying : call.quote \in DOMAIN quotes
  /\ bought \in Seq(Sales)
  /\ raced \in SUBSET (Merchants \X Permissions)

\* A verification under way has found one permission, for this agent and not expired; past the
\* ledger's answer, everything else that was signed.
AsSigned(call) ==
  LET signed == Signed[call.payment] IN
  /\ call.checkout = call.payment /\ call.id = <<call.payment>>
  /\ call.agent = signed.agent /\ call.at < signed.exp
  /\ call.stage = "pricing" =>
       /\ call.merchant \in signed.checkout.merchants
       /\ quotes[call.quote].goods \in signed.checkout.goods
       /\ call.amount <= signed.payment.max

\* What the ledger says is what was sold.
LedgerTrue ==
  \A m \in Merchants, p \in Permissions :
    Recorded(m, <<p>>) = [amount |-> Total(Under(m, p)), uses |-> Cardinality(Under(m, p))]

\* Where no verifications overlapped, one at most is past the ledger, and it still fits.
StillFits ==
  \A call \in verifying :
    LET terms == Signed[call.payment].payment
        spent == Recorded(call.merchant, <<call.payment>>)
    IN
    call.stage = "pricing" /\ <<call.merchant, call.payment>> \notin raced =>
      /\ spent.amount + call.amount <= terms.budget
      /\ terms.uses # NoLimit => spent.uses < terms.uses
      /\ \A other \in verifying :
           other.stage = "pricing" /\ other.merchant = call.merchant /\ other.payment = call.payment =>
             other = call

PurchasesInv ==
  /\ PurchasesTypes
  /\ \A call \in verifying : AsSigned(call)
  /\ LedgerTrue
  /\ StillFits
  /\ SoldAsSigned

\* It holds before anything was quoted.
LEMMA PurchasesStart == PurchasesInit => PurchasesInv
<1> SUFFICES ASSUME PurchasesInit PROVE PurchasesInv
  OBVIOUS
<1> USE DEF PurchasesInit
<1>1. PurchasesTypes
  BY DEF PurchasesTypes
<1>2. LedgerTrue
  <2> SUFFICES ASSUME NEW m \in Merchants, NEW p \in Permissions
               PROVE  Recorded(m, <<p>>) = [amount |-> Total(Under(m, p)), uses |-> Cardinality(Under(m, p))]
    BY DEF LedgerTrue
  <2>1. Under(m, p) = {}
    BY DEF Under
  <2>2. Recorded(m, <<p>>) = [amount |-> 0, uses |-> 0]
    BY DEF Recorded, NothingSpent
  <2> QED
    BY <2>1, <2>2, SumOfNone, FS_EmptySet DEF Total
<1>3. SoldAsSigned
  BY DEF SoldAsSigned, Under
<1> QED
  BY <1>1, <1>2, <1>3 DEF PurchasesInv, StillFits

\* What is sold under a permission at a merchant, and the terms it is sold on, are numbers.
LEMMA SoldIsFinite ==
  ASSUME bought \in Seq(Sales), NEW m, NEW p
  PROVE  /\ IsFiniteSet(Under(m, p)) /\ Under(m, p) \subseteq 1..Len(bought)
         /\ Total(Under(m, p)) \in Nat /\ Cardinality(Under(m, p)) \in Nat
<1>1. Under(m, p) \subseteq 1..Len(bought)
  BY DEF Under
<1>2. IsFiniteSet(Under(m, p))
  BY <1>1, FS_Interval, FS_Subset
<1>3. \A i \in Under(m, p) : [j \in DOMAIN bought |-> bought[j].amount][i] \in Nat
  <2>1. \A i \in 1..Len(bought) : bought[i] \in Sales /\ i \in DOMAIN bought
    OBVIOUS
  <2>2. \A i \in 1..Len(bought) : bought[i].amount \in Nat
    BY <2>1 DEF Sales
  <2> QED
    BY <1>1, <2>1, <2>2
<1> QED
  BY <1>1, <1>2, <1>3, SumIsNumber, FS_CardinalityType DEF Total

\* A purchase adds its amount and one use to what was sold under its permission at its merchant, and
\* nothing elsewhere.
LEMMA SoldWithOneMore ==
  ASSUME bought \in Seq(Sales), NEW sale \in Sales, bought' = Append(bought, sale),
         NEW m \in Merchants, NEW p \in Permissions
  PROVE  IF sale.merchant = m /\ sale.payment = p
         THEN /\ Total(Under(m, p))' = Total(Under(m, p)) + sale.amount
              /\ Cardinality(Under(m, p)') = Cardinality(Under(m, p)) + 1
              /\ Under(m, p)' # {}
         ELSE Total(Under(m, p))' = Total(Under(m, p)) /\ Under(m, p)' = Under(m, p)
<1> DEFINE n == Len(bought) + 1
           old == [i \in DOMAIN bought |-> bought[i].amount]
           new == [i \in DOMAIN bought' |-> bought'[i].amount]
           U == Under(m, p)
<1>1. /\ DOMAIN bought = 1..Len(bought) /\ DOMAIN bought' = 1..n /\ Len(bought) \in Nat
      /\ \A i \in 1..Len(bought) : bought'[i] = bought[i]
      /\ bought'[n] = sale
      /\ \A i \in 1..Len(bought) : bought[i] \in Sales
  OBVIOUS
<1>2. IsFiniteSet(U) /\ U \subseteq 1..Len(bought) /\ Total(U) \in Nat /\ Cardinality(U) \in Nat
  BY SoldIsFinite
<1>3. \A i \in U : old[i] = new[i] /\ new[i] \in Int
  BY <1>1, <1>2 DEF Sales
<1>4. SumFunctionOnSet(old, U) = SumFunctionOnSet(new, U)
  <2> HIDE DEF old, new, U
  <2> QED
    BY <1>2, <1>3, SumOfSame
<1>5. n \notin U
  BY <1>1, <1>2
<1>6. CASE sale.merchant = m /\ sale.payment = p
  <2>1. Under(m, p)' = U \cup {n}
    BY <1>1, <1>6 DEF Under
  <2>2. new[n] = sale.amount /\ sale.amount \in Nat
    BY <1>1 DEF Sales
  <2>3. SumFunctionOnSet(new, U \cup {n}) = new[n] + SumFunctionOnSet(new, U)
    <3>1. new[n] \in Int
      BY <2>2
    <3> HIDE DEF new, U, n, old
    <3>2. \A i \in U \cup {n} : new[i] \in Int
      BY <1>3, <3>1
    <3> QED
      BY <1>2, <1>5, <3>2, SumWith
  <2>4. Total(U) = SumFunctionOnSet(old, U) /\ Total(Under(m, p))' = SumFunctionOnSet(new, Under(m, p)')
    BY DEF Total
  <2>5. Cardinality(U \cup {n}) = Cardinality(U) + 1
    BY <1>2, <1>5, FS_AddElement
  <2> HIDE DEF old, new, n, U
  <2>6. Total(Under(m, p))' = Total(U) + sale.amount
    BY <1>2, <1>4, <2>1, <2>2, <2>3, <2>4
  <2>7. Cardinality(Under(m, p)') = Cardinality(U) + 1 /\ Under(m, p)' # {}
    BY <2>1, <2>5
  <2> QED
    BY <1>6, <2>6, <2>7 DEF U
<1>7. CASE ~(sale.merchant = m /\ sale.payment = p)
  <2>1. Under(m, p)' = U
    BY <1>1, <1>7 DEF Under
  <2>2. Total(U) = SumFunctionOnSet(old, U) /\ Total(Under(m, p))' = SumFunctionOnSet(new, Under(m, p)')
    BY DEF Total
  <2> HIDE DEF old, new, n, U
  <2>3. Total(Under(m, p))' = Total(U)
    BY <1>4, <2>1, <2>2
  <2> QED
    BY <1>7, <2>1, <2>3 DEF U
<1> QED
  BY <1>6, <1>7

\* The state that a step leaves what the invariant says of it alone.
LEMMA SalesStand ==
  ASSUME PurchasesInv, UNCHANGED <<ledger, bought, raced>>
  PROVE  LedgerTrue' /\ SoldAsSigned' /\ \A m, id : Recorded(m, id)' = Recorded(m, id)
<1>1. \A m, p : Under(m, p)' = Under(m, p) /\ Total(Under(m, p))' = Total(Under(m, p))
  BY DEF Under, Total
<1>2. \A m, id : Recorded(m, id)' = Recorded(m, id)
  BY DEF Recorded
<1> QED
  BY <1>1, <1>2 DEF PurchasesInv, LedgerTrue, SoldAsSigned

\* The steps that leave the sales and the verifications alone.
LEMMA QuietKeeps ==
  ASSUME PurchasesInv, PurchasesTypes', UNCHANGED <<verifying, ledger, bought, raced>>,
         \A i \in DOMAIN quotes : quotes'[i] = quotes[i]
  PROVE  PurchasesInv'
<1>1. \A call \in verifying' : AsSigned(call)'
  BY DEF PurchasesInv, PurchasesTypes, AsSigned
<1>2. StillFits'
  <2>1. \A m, id : Recorded(m, id)' = Recorded(m, id)
    BY SalesStand
  <2> QED
    BY <2>1 DEF PurchasesInv, StillFits
<1> QED
  BY <1>1, <1>2, SalesStand DEF PurchasesInv

\* A quote adds a cart: those that were quoted stay where they are.
LEMMA QuoteKeeps ==
  ASSUME PurchasesInv, NEW m \in Merchants, NEW goods \in Goods, Quote(m, goods)
  PROVE  PurchasesInv'
<1> DEFINE quoted == [merchant |-> m, goods |-> goods, total |-> price[m][goods]]
<1>1. price[m][goods] \in Nat
  BY PurchasesAssumption DEF PurchasesInv, PurchasesTypes
<1>2. quotes \in Seq([merchant : Merchants, goods : Goods, total : Nat]) /\ quotes' = Append(quotes, quoted)
      /\ quoted \in [merchant : Merchants, goods : Goods, total : Nat]
  BY <1>1 DEF PurchasesInv, PurchasesTypes, Quote
<1> HIDE DEF quoted
<1>3. /\ quotes' \in Seq([merchant : Merchants, goods : Goods, total : Nat])
      /\ DOMAIN quotes \subseteq DOMAIN quotes'
      /\ \A i \in DOMAIN quotes : quotes'[i] = quotes[i]
  BY <1>2
<1>4. PurchasesTypes'
  BY <1>3 DEF PurchasesInv, PurchasesTypes, Quote
<1> QED
  BY <1>3, <1>4, QuietKeeps DEF Quote

\* What was quoted.
LEMMA QuoteIsTyped ==
  ASSUME PurchasesTypes, NEW q \in DOMAIN quotes
  PROVE  quotes[q].merchant \in Merchants /\ quotes[q].goods \in Goods /\ quotes[q].total \in Nat /\ q \in Nat
<1> DEFINE Quoted == [merchant : Merchants, goods : Goods, total : Nat]
<1>1. quotes \in Seq(Quoted)
  BY DEF PurchasesTypes
<1>2. quotes[q] \in Quoted /\ q \in Nat
  <2> HIDE DEF Quoted
  <2> QED
    BY <1>1
<1> QED
  BY <1>2

\* What an agent signs for a quote is a hop.
LEMMA SignatureIsHop ==
  ASSUME PurchasesTypes, NEW agent \in Agents, NEW p \in Permissions, NEW quote \in DOMAIN quotes
  PROVE  Signature(agent, p, quote) \in Hops /\ Signature(agent, p, quote).quote \in DOMAIN quotes
<1>1. quotes[quote].merchant \in Merchants /\ quotes[quote].total \in Nat /\ quote \in Nat
  BY QuoteIsTyped
<1>2. [permission |-> p, spelling |-> 1] \in Links
  BY DEF Links
<1>3. NoDate \in Int
  BY DEF NoDate
<1> QED
  BY <1>1, <1>2, <1>3 DEF Signature, Hops

\* Whatever an agent signs, nothing is sold by it.
LEMMA SignKeeps ==
  ASSUME PurchasesInv, NEW hop \in Hops, hop.quote \in DOMAIN quotes, Sign(hop)
  PROVE  PurchasesInv'
<1>1. PurchasesTypes'
  BY DEF PurchasesInv, PurchasesTypes, Sign
<1> QED
  BY <1>1, QuietKeeps DEF Sign

\* An agent's library, or any other software of its, only signs.
LEMMA SpendKeeps ==
  ASSUME PurchasesInv, NEW p \in Permissions, NEW quote \in DOMAIN quotes,
         Spend(p, quote) \/ SpendOtherwise(p, quote)
  PROVE  PurchasesInv'
<1> DEFINE spend == Signature(Signed[p].agent, p, quote)
<1>1. Signed[p].agent \in Agents
  BY DEF Agents
<1>2. PurchasesTypes
  BY DEF PurchasesInv
<1>3. spend \in Hops /\ spend.quote \in DOMAIN quotes
  BY <1>1, <1>2, SignatureIsHop
<1>4. \A q \in DOMAIN quotes : quotes[q].total \in Nat /\ q \in Nat
  BY <1>2, QuoteIsTyped
<1>5. CASE Spend(p, quote)
  BY <1>3, <1>5, SignKeeps DEF Spend
<1>6. ASSUME NEW agent \in Agents, Sign(Signature(agent, p, quote)) PROVE PurchasesInv'
  BY <1>2, <1>6, SignatureIsHop, SignKeeps
<1> HIDE DEF spend
<1>7. CASE Sign([spend EXCEPT !.over.spelling = 2])
  <2>1. [spend EXCEPT !.over.spelling = 2] \in Hops /\ [spend EXCEPT !.over.spelling = 2].quote \in DOMAIN quotes
    BY <1>3 DEF Hops, Links
  <2> QED
    BY <1>7, <2>1, SignKeeps
<1>8. ASSUME NEW n \in DOMAIN quotes, Sign([spend EXCEPT !.nonce = n]) PROVE PurchasesInv'
  <2>1. [spend EXCEPT !.nonce = n] \in Hops /\ [spend EXCEPT !.nonce = n].quote \in DOMAIN quotes
    BY <1>3, <1>4 DEF Hops
  <2> QED
    BY <1>8, <2>1, SignKeeps
<1>9. ASSUME NEW m \in Merchants, Sign([spend EXCEPT !.payee = m]) PROVE PurchasesInv'
  <2>1. [spend EXCEPT !.payee = m] \in Hops /\ [spend EXCEPT !.payee = m].quote \in DOMAIN quotes
    BY <1>3 DEF Hops
  <2> QED
    BY <1>9, <2>1, SignKeeps
<1>10. ASSUME NEW q \in DOMAIN quotes, Sign([spend EXCEPT !.amount = quotes[q].total]) PROVE PurchasesInv'
  <2>1. /\ [spend EXCEPT !.amount = quotes[q].total] \in Hops
        /\ [spend EXCEPT !.amount = quotes[q].total].quote \in DOMAIN quotes
    BY <1>3, <1>4 DEF Hops
  <2> QED
    BY <1>10, <2>1, SignKeeps
<1>11. ASSUME NEW t \in 0..MaxTime, Sign([spend EXCEPT !.date = t]) PROVE PurchasesInv'
  <2>1. [spend EXCEPT !.date = t] \in Hops /\ [spend EXCEPT !.date = t].quote \in DOMAIN quotes
    BY <1>3, PurchasesAssumption DEF Hops
  <2> QED
    BY <1>11, <2>1, SignKeeps
<1> QED
  BY <1>5, <1>6, <1>7, <1>8, <1>9, <1>10, <1>11 DEF SpendOtherwise, spend

\* What two verified chains on one wallet signature open is a verification of one permission.
LEMMA PresentKeeps ==
  ASSUME PurchasesInv, NEW nonce \in DOMAIN quotes, Present(nonce)
  PROVE  PurchasesInv'
<1> DEFINE m == quotes[nonce].merchant
<1>1. PICK checkout \in Presented(nonce), payment \in Presented(nonce) :
        /\ OnePermission(checkout.link, payment.link)
        /\ verifying' = verifying \cup {
             [stage |-> "ledger", nonce |-> nonce, merchant |-> m, id |-> PermissionIdOf(checkout.link),
              at |-> now, checkout |-> checkout.link.permission, payment |-> payment.link.permission,
              agent |-> payment.hop.agent, quote |-> payment.hop.quote, amount |-> payment.hop.amount,
              date |-> payment.hop.date]}
  BY DEF Present
<1> DEFINE new == [stage |-> "ledger", nonce |-> nonce, merchant |-> m, id |-> PermissionIdOf(checkout.link),
                   at |-> now, checkout |-> checkout.link.permission, payment |-> payment.link.permission,
                   agent |-> payment.hop.agent, quote |-> payment.hop.quote, amount |-> payment.hop.amount,
                   date |-> payment.hop.date]
<1>2. PurchasesTypes /\ LedgerTrue /\ StillFits /\ SoldAsSigned /\ \A call \in verifying : AsSigned(call)
  BY DEF PurchasesInv
<1>3. UNCHANGED <<now, price, quotes, spends, ledger, bought, raced>>
  BY DEF Present
<1>4. m \in Merchants /\ nonce \in Nat
  BY <1>2, QuoteIsTyped
<1>5. /\ payment.hop \in Hops /\ payment.hop.quote \in DOMAIN quotes
      /\ checkout.link.permission \in Permissions /\ payment.link.permission \in Permissions
      /\ checkout.link.permission = payment.link.permission
      /\ payment.hop.agent = Signed[payment.link.permission].agent
      /\ now < Signed[payment.link.permission].exp
  BY <1>1, <1>2 DEF Presented, ChainVerified, OnePermission, PurchasesTypes, Links
<1>6. new \in Calls
  BY <1>2, <1>4, <1>5 DEF Calls, Hops, PermissionIdOf, PurchasesTypes
<1>7. new.quote \in DOMAIN quotes /\ AsSigned(new) /\ new.stage = "ledger"
  BY <1>5 DEF AsSigned, PermissionIdOf
<1>8. verifying' = verifying \cup {new}
  BY <1>1
<1> HIDE DEF new
<1>9. PurchasesTypes'
  BY <1>2, <1>3, <1>6, <1>7, <1>8 DEF PurchasesTypes
<1>10. \A call \in verifying' : AsSigned(call)'
  BY <1>2, <1>3, <1>7, <1>8 DEF AsSigned
<1>11. LedgerTrue' /\ SoldAsSigned' /\ \A w, id : Recorded(w, id)' = Recorded(w, id)
  BY <1>3, SalesStand
<1>12. StillFits'
  BY <1>2, <1>3, <1>7, <1>8, <1>11 DEF StillFits
<1> QED
  BY <1>9, <1>10, <1>11, <1>12 DEF PurchasesInv

\* A call that passes the limits fits what the ledger holds, and is alone there or marked as raced.
LEMMA JudgeKeeps ==
  ASSUME PurchasesInv, NEW call \in verifying, Judge(call)
  PROVE  PurchasesInv'
<1> DEFINE terms == Signed[call.payment].payment
           spent == Recorded(call.merchant, <<call.payment>>)
           goods == quotes[call.quote].goods
           overlapped == \E other \in verifying :
             other.stage = "pricing" /\ other.merchant = call.merchant /\ other.payment = call.payment
           onward == [call EXCEPT !.stage = "pricing"]
<1>1. PurchasesTypes /\ LedgerTrue /\ StillFits /\ SoldAsSigned /\ \A c \in verifying : AsSigned(c)
  BY DEF PurchasesInv
<1>2. call \in Calls /\ call.stage = "ledger" /\ AsSigned(call) /\ call.quote \in DOMAIN quotes
  BY <1>1 DEF Judge, PurchasesTypes
<1>3. UNCHANGED <<now, price, quotes, taken, spends, ledger, bought>>
  BY DEF Judge
<1>4. /\ onward \in Calls /\ onward.stage = "pricing" /\ onward.merchant = call.merchant
      /\ onward.payment = call.payment /\ onward.checkout = call.checkout /\ onward.id = call.id
      /\ onward.agent = call.agent /\ onward.at = call.at /\ onward.quote = call.quote
      /\ onward.amount = call.amount
  BY <1>2 DEF Calls
<1>5. LedgerTrue' /\ \A w, id : Recorded(w, id)' = Recorded(w, id)
  <2>1. \A w, p : Under(w, p)' = Under(w, p) /\ Total(Under(w, p))' = Total(Under(w, p))
    BY <1>3 DEF Under, Total
  <2>2. \A w, id : Recorded(w, id)' = Recorded(w, id)
    BY <1>3 DEF Recorded
  <2> QED
    BY <1>1, <2>1, <2>2 DEF LedgerTrue
<1>6. \A c : AsSigned(c)' = AsSigned(c)
  BY <1>3 DEF AsSigned
<1>7. CASE verifying' = verifying \ {call} /\ raced' = raced
  <2>1. PurchasesTypes'
    BY <1>1, <1>3, <1>7 DEF PurchasesTypes
  <2>2. StillFits'
    BY <1>1, <1>3, <1>5, <1>7 DEF StillFits
  <2>3. SoldAsSigned'
    BY <1>1, <1>3, <1>7, SalesStand
  <2> QED
    BY <1>1, <1>5, <1>6, <1>7, <2>1, <2>2, <2>3 DEF PurchasesInv
<1>8. ASSUME verifying' = (verifying \ {call}) \cup {onward},
             raced' = IF overlapped THEN raced \cup {<<call.merchant, call.payment>>} ELSE raced,
             CheckoutAllowed(Signed[call.checkout].checkout, call.merchant, goods),
             PaymentAllowed(terms, Signed[call.payment].exp, call, Recorded(call.merchant, call.id))
      PROVE  PurchasesInv'
  <2>1. call.id = <<call.payment>> /\ call.checkout = call.payment
    BY <1>2 DEF AsSigned
  <2>2. /\ call.merchant \in Signed[call.payment].checkout.merchants
        /\ goods \in Signed[call.payment].checkout.goods
        /\ call.amount <= terms.max
        /\ spent.amount + call.amount <= terms.budget
        /\ terms.uses # NoLimit => spent.uses < terms.uses
    BY <1>8, <2>1 DEF CheckoutAllowed, PaymentAllowed
  <2>3. raced \subseteq raced' /\ raced' \subseteq Merchants \X Permissions
    <3>1. raced \subseteq Merchants \X Permissions
      BY <1>1 DEF PurchasesTypes
    <3>2. call.merchant \in Merchants /\ call.payment \in Permissions
      BY <1>2 DEF Calls
    <3>3. raced' = raced \/ raced' = raced \cup {<<call.merchant, call.payment>>}
      BY <1>8
    <3> QED
      BY <3>1, <3>2, <3>3
  <2> HIDE DEF onward
  <2>4. PurchasesTypes'
    BY <1>1, <1>2, <1>3, <1>4, <1>8, <2>3 DEF PurchasesTypes
  <2>5. AsSigned(onward)
    BY <1>2, <1>4, <2>2 DEF AsSigned
  <2>6. \A c \in verifying' : AsSigned(c)'
    BY <1>1, <1>6, <1>8, <2>5
  <2>7. StillFits'
    <3> SUFFICES ASSUME NEW c \in verifying', c.stage = "pricing", <<c.merchant, c.payment>> \notin raced'
                 PROVE  /\ Recorded(c.merchant, <<c.payment>>).amount + c.amount <= Signed[c.payment].payment.budget
                        /\ Signed[c.payment].payment.uses # NoLimit =>
                             Recorded(c.merchant, <<c.payment>>).uses < Signed[c.payment].payment.uses
                        /\ \A other \in verifying' :
                             other.stage = "pricing" /\ other.merchant = c.merchant /\ other.payment = c.payment =>
                               other = c
      BY <1>5 DEF StillFits
    <3>1. CASE c.merchant = call.merchant /\ c.payment = call.payment
      <4>1. ~overlapped
        BY <1>8, <3>1
      <4>2. \A other \in verifying' :
              other.stage = "pricing" /\ other.merchant = call.merchant /\ other.payment = call.payment =>
                other = onward
        BY <1>8, <4>1
      <4> QED
        BY <1>4, <2>2, <3>1, <4>2
    <3>2. CASE ~(c.merchant = call.merchant /\ c.payment = call.payment)
      <4>1. c \in verifying /\ <<c.merchant, c.payment>> \notin raced
        BY <1>4, <1>8, <2>3, <3>2
      <4>2. \A other \in verifying' : other.merchant = c.merchant /\ other.payment = c.payment => other \in verifying
        BY <1>4, <1>8, <3>2
      <4> QED
        BY <1>1, <4>1, <4>2 DEF StillFits
    <3> QED
      BY <3>1, <3>2
  <2>8. SoldAsSigned'
    <3>1. \A w, p : Under(w, p)' = Under(w, p) /\ Total(Under(w, p))' = Total(Under(w, p))
      BY <1>3 DEF Under, Total
    <3> QED
      BY <1>1, <1>3, <2>3, <3>1 DEF SoldAsSigned
  <2> QED
    BY <1>5, <2>4, <2>6, <2>7, <2>8 DEF PurchasesInv
<1> QED
  <2> DEFINE passes ==
        /\ CheckoutAllowed(Signed[call.checkout].checkout, call.merchant, goods)
        /\ Signed[call.payment].checkout = Signed[call.checkout].checkout
        /\ PaymentAllowed(terms, Signed[call.payment].exp, call, Recorded(call.merchant, call.id))
        /\ call.amount = quotes[call.quote].total
  <2>1. /\ verifying' = (verifying \ {call}) \cup (IF passes THEN {onward} ELSE {})
        /\ raced' = IF passes /\ overlapped THEN raced \cup {<<call.merchant, call.payment>>} ELSE raced
    BY DEF Judge
  <2>2. CASE passes
    BY <1>8, <2>1, <2>2
  <2>3. CASE ~passes
    BY <1>7, <2>1, <2>3
  <2> QED
    BY <2>2, <2>3

\* What is recorded was signed, and its permission is charged in the ledger for exactly that.
LEMMA SettleKeeps ==
  ASSUME PurchasesInv, NEW call \in verifying, Settle(call)
  PROVE  PurchasesInv'
<1> DEFINE m == call.merchant
           p == call.payment
           spent == Recorded(m, call.id)
           entry == [amount |-> spent.amount + call.amount, uses |-> spent.uses + 1]
           sale == [merchant |-> m, checkout |-> call.checkout, payment |-> p, agent |-> call.agent,
                    goods |-> quotes[call.quote].goods, amount |-> call.amount, at |-> call.at]
<1>1. PurchasesTypes /\ LedgerTrue /\ StillFits /\ SoldAsSigned /\ \A c \in verifying : AsSigned(c)
  BY DEF PurchasesInv
<1>2. call \in Calls /\ call.stage = "pricing" /\ AsSigned(call) /\ call.quote \in DOMAIN quotes
  BY <1>1 DEF Settle, PurchasesTypes
<1>3. UNCHANGED <<now, price, quotes, taken, spends, raced>> /\ verifying' = verifying \ {call}
  BY DEF Settle
<1>4. \A c \in verifying' : AsSigned(c)'
  BY <1>1, <1>3 DEF AsSigned
<1>5. m \in Merchants /\ p \in Permissions /\ call.id = <<p>> /\ call.amount \in Nat
  BY <1>2 DEF Calls, AsSigned
<1>6. CASE UNCHANGED <<ledger, bought>>
  <2>1. PurchasesTypes'
    BY <1>1, <1>3, <1>6 DEF PurchasesTypes
  <2>2. LedgerTrue' /\ SoldAsSigned' /\ \A w, id : Recorded(w, id)' = Recorded(w, id)
    BY <1>3, <1>6, SalesStand
  <2>3. StillFits'
    BY <1>1, <1>3, <2>2 DEF StillFits
  <2> QED
    BY <1>4, <2>1, <2>2, <2>3 DEF PurchasesInv
<1>7. ASSUME ledger' = [x \in DOMAIN ledger \cup {<<m, call.id>>} |-> IF x = <<m, call.id>> THEN entry ELSE ledger[x]],
             bought' = Append(bought, sale)
      PROVE  PurchasesInv'
  <2>1. sale \in Sales
    <3>1. quotes[call.quote].goods \in Goods
      BY <1>1, <1>2, QuoteIsTyped
    <3> QED
      BY <1>2, <3>1 DEF Calls, Sales
  <2>2. bought \in Seq(Sales)
    BY <1>1 DEF PurchasesTypes
  <2> HIDE DEF sale
  <2>3. PurchasesTypes'
    BY <1>1, <1>3, <1>7, <2>1, <2>2 DEF PurchasesTypes
  <2>4. \A w, q : Recorded(w, <<q>>)' = IF w = m /\ q = p THEN entry ELSE Recorded(w, <<q>>)
    BY <1>5, <1>7 DEF Recorded
  <2>5. /\ entry = [amount |-> Total(Under(m, p)) + call.amount, uses |-> Cardinality(Under(m, p)) + 1]
        /\ spent.amount = Total(Under(m, p)) /\ spent.uses = Cardinality(Under(m, p))
    <3>1. spent = [amount |-> Total(Under(m, p)), uses |-> Cardinality(Under(m, p))]
      BY <1>1, <1>5 DEF LedgerTrue
    <3> HIDE DEF spent
    <3> QED
      BY <3>1
  <2>6. sale.merchant = m /\ sale.payment = p /\ sale.amount = call.amount
    BY DEF sale
  <2>7. ASSUME NEW w \in Merchants, NEW q \in Permissions, ~(w = m /\ q = p)
        PROVE  Total(Under(w, q))' = Total(Under(w, q)) /\ Under(w, q)' = Under(w, q)
    BY <1>7, <2>1, <2>2, <2>6, <2>7, SoldWithOneMore
  <2>8. /\ Total(Under(m, p))' = Total(Under(m, p)) + call.amount
        /\ Cardinality(Under(m, p)') = Cardinality(Under(m, p)) + 1
    BY <1>5, <1>7, <2>1, <2>2, <2>6, SoldWithOneMore
  <2>9. LedgerTrue'
    <3> SUFFICES ASSUME NEW w \in Merchants, NEW q \in Permissions
                 PROVE  Recorded(w, <<q>>)' = [amount |-> Total(Under(w, q))', uses |-> Cardinality(Under(w, q)')]
      BY DEF LedgerTrue
    <3>1. CASE w = m /\ q = p
      BY <2>4, <2>5, <2>8, <3>1
    <3>2. CASE ~(w = m /\ q = p)
      BY <1>1, <2>4, <2>7, <3>2 DEF LedgerTrue
    <3> QED
      BY <3>1, <3>2
  <2>10. StillFits'
    <3> SUFFICES ASSUME NEW c \in verifying', c.stage = "pricing", <<c.merchant, c.payment>> \notin raced
                 PROVE  /\ Recorded(c.merchant, <<c.payment>>)' = Recorded(c.merchant, <<c.payment>>)
                        /\ c \in verifying
      BY <1>1, <1>3 DEF StillFits
    <3>1. c \in verifying /\ c # call
      BY <1>3
    <3>2. ~(c.merchant = m /\ c.payment = p)
      BY <1>1, <1>2, <3>1 DEF StillFits
    <3> QED
      BY <2>4, <3>1, <3>2
  <2>11. SoldAsSigned'
    <3>1. ASSUME NEW i \in DOMAIN bought'
          PROVE  LET b == bought'[i]
                     signed == Signed[b.payment]
                 IN
                 /\ b.checkout = b.payment
                 /\ b.agent = signed.agent /\ b.at < signed.exp
                 /\ b.merchant \in signed.checkout.merchants /\ b.goods \in signed.checkout.goods
                 /\ b.amount <= signed.payment.max
      <4>1. (i \in DOMAIN bought /\ bought'[i] = bought[i]) \/ bought'[i] = sale
        BY <1>7, <2>1, <2>2
      <4>2. CASE i \in DOMAIN bought /\ bought'[i] = bought[i]
        BY <1>1, <4>2 DEF SoldAsSigned
      <4>3. CASE bought'[i] = sale
        BY <1>2, <4>3 DEF AsSigned, sale
      <4> QED
        BY <4>1, <4>2, <4>3
    <3>2. ASSUME NEW w \in Merchants, NEW q \in Permissions, Under(w, q)' # {}, <<w, q>> \notin raced
          PROVE  /\ Total(Under(w, q))' <= Signed[q].payment.budget
                 /\ Signed[q].payment.uses # NoLimit => Cardinality(Under(w, q)') <= Signed[q].payment.uses
      <4>1. CASE w = m /\ q = p
        <5>1. /\ spent.amount + call.amount <= Signed[p].payment.budget
              /\ Signed[p].payment.uses # NoLimit => spent.uses < Signed[p].payment.uses
          BY <1>1, <1>2, <1>5, <3>2, <4>1 DEF StillFits
        <5>2. Cardinality(Under(m, p)) \in Nat /\ Signed[p].payment.uses \in Int
          BY <1>5, <2>2, PurchasesAssumption, SoldIsFinite
        <5> QED
          BY <2>5, <2>8, <4>1, <5>1, <5>2
      <4>2. CASE ~(w = m /\ q = p)
        BY <1>1, <2>7, <3>2, <4>2 DEF SoldAsSigned
      <4> QED
        BY <4>1, <4>2
    <3> QED
      BY <1>3, <3>1, <3>2 DEF SoldAsSigned
  <2> QED
    BY <1>4, <2>3, <2>9, <2>10, <2>11 DEF PurchasesInv
<1> QED
  BY <1>6, <1>7 DEF Settle

\* Every step keeps the inductive invariant.
LEMMA PurchasesInductive == PurchasesInv /\ [PurchasesNext]_purchaseVars => PurchasesInv'
<1> SUFFICES ASSUME PurchasesInv, [PurchasesNext]_purchaseVars PROVE PurchasesInv'
  OBVIOUS
<1>1. ASSUME NEW m \in Merchants, NEW goods \in Goods, Quote(m, goods) PROVE PurchasesInv'
  BY <1>1, QuoteKeeps
<1>2. ASSUME NEW p \in Permissions, NEW q \in DOMAIN quotes, Spend(p, q) \/ SpendOtherwise(p, q)
      PROVE  PurchasesInv'
  BY <1>2, SpendKeeps
<1>3. ASSUME NEW nonce \in DOMAIN quotes, Present(nonce) PROVE PurchasesInv'
  BY <1>3, PresentKeeps
<1>4. ASSUME NEW call \in verifying, Judge(call) \/ Settle(call) PROVE PurchasesInv'
  BY <1>4, JudgeKeeps, SettleKeeps
<1>5. CASE Tick
  <2>1. PurchasesTypes'
    BY <1>5 DEF Tick, PurchasesInv, PurchasesTypes
  <2> QED
    BY <1>5, <2>1, QuietKeeps DEF Tick
<1>6. ASSUME NEW m \in Merchants, NEW catalog \in Prices, Reprice(m, catalog) PROVE PurchasesInv'
  <2>1. PurchasesTypes'
    BY <1>6 DEF Reprice, PurchasesInv, PurchasesTypes
  <2> QED
    BY <1>6, <2>1, QuietKeeps DEF Reprice
<1>7. CASE UNCHANGED purchaseVars
  <2>1. PurchasesTypes'
    BY <1>7 DEF purchaseVars, PurchasesInv, PurchasesTypes
  <2> QED
    BY <1>7, <2>1, QuietKeeps DEF purchaseVars
<1> QED
  BY <1>1, <1>2, <1>3, <1>4, <1>5, <1>6, <1>7 DEF PurchasesNext

\* The inductive invariant of delegated purchases: of every verification under way, of the ledger, and of
\* what was sold.
THEOREM PurchasesInvariant == PurchasesSpec => []PurchasesInv
  BY PurchasesStart, PurchasesInductive, PTL DEF PurchasesSpec

\* What merchants sold is what one person signed, for this agent, and of one permission each store sold no
\* more than its budget and uses, however often its signature is spelled anew or its hops are used again
\* (verifyDelegatedPurchase, evaluatePayment, permissionIdOf).
THEOREM AlwaysSoldAsSigned == PurchasesSpec => []SoldAsSigned
<1>1. PurchasesInv => SoldAsSigned
  BY DEF PurchasesInv
<1> QED
  BY <1>1, PurchasesInvariant, PTL

-----------------------------------------------------------------------------
(* The line_items limit *)

\* The nodes are finitely many, and the items, the requirements and the two ends are apart.
LEMMA NodesApart ==
  /\ IsFiniteSet(Nodes) /\ Source \in Nodes /\ Sink \in Nodes /\ Source # Sink
  /\ Items \subseteq Nodes /\ Requirements \subseteq Nodes
  /\ \A i \in Items : i # Source /\ i # Sink /\ i \notin Requirements
  /\ \A r \in Requirements : r # Source /\ r # Sink /\ r \notin Items
<1>1. IsFiniteSet({Source, Sink})
  <2>1. IsFiniteSet({Source})
    BY FS_Singleton
  <2>2. IsFiniteSet({Source} \cup {Sink})
    BY <2>1, FS_AddElement
  <2>3. {Source, Sink} = {Source} \cup {Sink}
    OBVIOUS
  <2> QED
    BY <2>2, <2>3
<1>2. IsFiniteSet({Source, Sink} \cup Items)
  BY <1>1, LineItemsAssumption, FS_Union
<1>3. IsFiniteSet(Nodes)
  BY <1>2, LineItemsAssumption, FS_Union DEF Nodes
<1> QED
  BY <1>3, LineItemsAssumption DEF Nodes, Source, Sink

\* What an arc and its reverse take together never changes, and what a node takes in goes on.  What is
\* placed of an item with a requirement can be pushed back from the one to the other.
Placed(i) == [r \in Requirements |-> cap[r][i]]

Balanced ==
  /\ cap \in [Nodes -> [Nodes -> Nat]]
  /\ \A u, v \in Nodes : cap[u][v] + cap[v][u] = Capacity(u, v) + Capacity(v, u)
  /\ \A i \in Items : cap[i][Source] = TotalOf(Placed(i), Requirements)
  /\ \A r \in Requirements : cap[Sink][r] = TotalOf(cap[r], Items)

\* The trail goes from the source along arcs with room, a level at a time.
OnTrail ==
  /\ trail \in Seq(Nodes) /\ Len(trail) > 0 /\ trail[1] = Source
  /\ level \in [Nodes -> Int]
  /\ \A n \in 1..Len(trail) : level[trail[n]] = n - 1
  /\ \A n \in 1..(Len(trail) - 1) : cap[trail[n]][trail[n + 1]] > 0 /\ trail[n] # Sink

BasketTyped ==
  /\ basket \in [Items -> 0..MaxQuantity]
  /\ limit \in [Requirements -> [items : SUBSET Items, quantity : 0..MaxQuantity]]

LineItemsInv ==
  /\ BasketTyped
  /\ fit \in {"asked", "levels", "pushing", "fits", "refused"}
  /\ fit \in {"levels", "pushing"} => Balanced /\ \E i \in Items : basket[i] > 0
  /\ fit = "pushing" => OnTrail
  /\ FitsIfAssignable

\* Which arcs there are.
LEMMA ArcsOf ==
  ASSUME BasketTyped
  PROVE  /\ \A u, v \in Nodes : Capacity(u, v) \in Nat
         /\ \A i \in Items : Capacity(Source, i) = basket[i] /\ Capacity(i, Source) = 0
         /\ \A r \in Requirements : Capacity(r, Sink) = limit[r].quantity /\ Capacity(Sink, r) = 0
         /\ \A i \in Items, r \in Requirements :
              /\ Capacity(i, r) = IF basket[i] > 0 /\ Accepts(r, i) THEN Unlimited ELSE 0
              /\ Capacity(r, i) = 0
         /\ \A u, v \in Nodes :
              Capacity(u, v) + Capacity(v, u) > 0 =>
                \/ (u = Source /\ v \in Items) \/ (v = Source /\ u \in Items)
                \/ (u \in Items /\ v \in Requirements) \/ (v \in Items /\ u \in Requirements)
                \/ (u \in Requirements /\ v = Sink) \/ (v \in Requirements /\ u = Sink)
<1>1. Unlimited \in Nat
  BY LineItemsAssumption DEF Unlimited
<1>2. \A i \in Items : basket[i] \in Nat
  BY LineItemsAssumption DEF BasketTyped
<1>3. \A r \in Requirements : limit[r].quantity \in Nat
  BY LineItemsAssumption DEF BasketTyped
<1>4. ASSUME NEW u \in Nodes, NEW v \in Nodes PROVE Capacity(u, v) \in Nat
  BY <1>1, <1>2, <1>3 DEF Capacity
<1>5. ASSUME NEW u \in Nodes, NEW v \in Nodes, Capacity(u, v) # 0
      PROVE  (u = Source /\ v \in Items) \/ (u \in Items /\ v \in Requirements)
             \/ (u \in Requirements /\ v = Sink)
  BY <1>5 DEF Capacity
<1>6. \A i \in Items : Capacity(Source, i) = basket[i] /\ Capacity(i, Source) = 0
  BY NodesApart DEF Capacity
<1>7. \A r \in Requirements : Capacity(r, Sink) = limit[r].quantity /\ Capacity(Sink, r) = 0
  BY NodesApart DEF Capacity
<1>8. \A i \in Items, r \in Requirements :
              /\ Capacity(i, r) = IF basket[i] > 0 /\ Accepts(r, i) THEN Unlimited ELSE 0
              /\ Capacity(r, i) = 0
  BY NodesApart DEF Capacity
<1> QED
  BY <1>4, <1>5, <1>6, <1>7, <1>8

\* When nothing is left of any item at the source, what was placed is an assignment.
LEMMA PlacedAssigns ==
  ASSUME BasketTyped, Balanced, \A i \in Items : cap[Source][i] = 0
  PROVE  Assignable(basket)
<1> DEFINE put == [i \in Items |-> Placed(i)]
<1>1. \A u, v \in Nodes : cap[u][v] \in Nat
  BY DEF Balanced
<1>2. ASSUME NEW i \in Items, NEW r \in Requirements
      PROVE  put[i][r] = cap[r][i] /\ cap[r][i] \in 0..MaxQuantity /\ (cap[r][i] > 0 => Accepts(r, i))
  <2>1. cap[r][i] + cap[i][r] = Capacity(i, r) /\ cap[r][i] \in Nat /\ cap[i][r] \in Nat
    BY <1>1, ArcsOf, NodesApart DEF Balanced
  <2>2. cap[r][i] > 0 => Accepts(r, i)
    BY <2>1, ArcsOf
  <2>3. cap[r][i] <= TotalOf(cap[r], Items)
    <3>1. \A x \in Items : cap[r][x] \in Nat
      BY <1>1, NodesApart
    <3>2. IsFiniteSet(Items) /\ IsFiniteSet(Items \ {i}) /\ \A x \in Items : cap[r][x] \in Int
      BY <3>1, LineItemsAssumption, FS_RemoveElement
    <3>3. SumFunctionOnSet(cap[r], Items) = cap[r][i] + SumFunctionOnSet(cap[r], Items \ {i})
      BY <3>2, SumWithout
    <3>4. SumFunctionOnSet(cap[r], Items \ {i}) \in Nat
      BY <3>1, <3>2, SumIsNumber
    <3> QED
      BY <2>1, <3>3, <3>4 DEF TotalOf
  <2>4. cap[Sink][r] + cap[r][Sink] = limit[r].quantity /\ cap[Sink][r] \in Nat /\ cap[r][Sink] \in Nat
    BY <1>1, ArcsOf, NodesApart DEF Balanced
  <2>5. limit[r].quantity \in 0..MaxQuantity
    BY DEF BasketTyped
  <2> QED
    BY <2>1, <2>2, <2>3, <2>4, <2>5, LineItemsAssumption DEF Balanced, Placed
<1>3. put \in [Items -> [Requirements -> 0..MaxQuantity]]
  BY <1>2 DEF Placed
<1>4. \A i \in Items : basket[i] = TotalOf(put[i], Requirements)
  <2>1. \A i \in Items : cap[Source][i] + cap[i][Source] = basket[i]
    BY ArcsOf, NodesApart, <1>1 DEF Balanced
  <2>2. \A i \in Items : cap[i][Source] = basket[i]
    BY <1>1, <2>1, NodesApart
  <2> QED
    BY <2>2 DEF Balanced
<1>5. ASSUME NEW r \in Requirements PROVE TotalOf([i \in Items |-> put[i][r]], Items) <= limit[r].quantity
  <2>1. TotalOf([i \in Items |-> put[i][r]], Items) = TotalOf(cap[r], Items)
    <3> DEFINE column == [i \in Items |-> put[i][r]]
    <3>1. \A i \in Items : column[i] = cap[r][i]
      BY <1>2
    <3>2. TotalOf(column, Items) = TotalOf(cap[r], Items)
      <4> HIDE DEF column
      <4> QED
        BY <3>1, LineItemsAssumption, SumOfSame DEF TotalOf
    <3> QED
      BY <3>2
  <2>2. cap[Sink][r] + cap[r][Sink] = limit[r].quantity /\ cap[Sink][r] \in Nat /\ cap[r][Sink] \in Nat
    BY <1>1, ArcsOf, NodesApart DEF Balanced
  <2> QED
    BY <2>1, <2>2 DEF Balanced
<1> HIDE DEF put
<1> QED
  BY <1>2, <1>3, <1>4, <1>5 DEF Assignable

-----------------------------------------------------------------------------
(* The nodes near the source *)

\* Where one more arc leads.
Onward(s) == s \cup {v \in Nodes : \E u \in s : cap[u][v] > 0}

\* The recursive function behind Near.
Layers(g, m) == g = [n \in 0..m |-> IF n = 0 THEN {Source} ELSE Onward(g[n - 1])]

\* The breadth-first layers are a function: there is one of every depth.
LEMMA LayersExist == \A m \in Nat : \E g : Layers(g, m)
<1> DEFINE Good == {m \in Nat : \E g : Layers(g, m)}
<1>1. 0 \in Good
  <2> DEFINE g == [n \in 0..0 |-> {Source}]
  <2>1. Layers(g, 0)
    BY DEF Layers
  <2> HIDE DEF g
  <2> QED
    BY <2>1
<1>2. ASSUME NEW m \in Nat, m \in Good PROVE m + 1 \in Good
  <2>1. PICK g : Layers(g, m)
    BY <1>2
  <2> DEFINE h == [n \in 0..(m + 1) |-> IF n = m + 1 THEN Onward(g[m]) ELSE g[n]]
  <2>2. \A n \in 0..m : g[n] = IF n = 0 THEN {Source} ELSE Onward(g[n - 1])
    BY <2>1 DEF Layers
  <2>3. ASSUME NEW n \in 0..(m + 1) PROVE h[n] = IF n = 0 THEN {Source} ELSE Onward(h[n - 1])
    <3>1. CASE n = m + 1
      <4>1. h[n] = Onward(g[m]) /\ n - 1 = m /\ h[m] = g[m] /\ n # 0
        BY <3>1
      <4> QED
        BY <4>1
    <3>2. CASE n # m + 1
      <4>1. n \in 0..m /\ h[n] = g[n]
        BY <3>2
      <4>2. n # 0 => h[n - 1] = g[n - 1]
        BY <4>1
      <4> HIDE DEF h
      <4> QED
        BY <2>2, <4>1, <4>2
    <3> QED
      BY <3>1, <3>2
  <2>4. h = [n \in 0..(m + 1) |-> IF n = 0 THEN {Source} ELSE Onward(h[n - 1])]
    <3>1. h = [n \in 0..(m + 1) |-> h[n]]
      OBVIOUS
    <3> HIDE DEF h
    <3> QED
      BY <2>3, <3>1
  <2>5. Layers(h, m + 1)
    BY <2>4 DEF Layers
  <2> HIDE DEF h
  <2> QED
    BY <2>5
<1>3. Nat \subseteq Good
  <2> HIDE DEF Good
  <2> QED
    BY <1>1, <1>2, NumberInduction
<1> QED
  BY <1>3

\* Near, by its recursion.
LEMMA NearSteps ==
  /\ Cardinality(Nodes) \in Nat
  /\ Near[0] = {Source}
  /\ \A n \in 1..Cardinality(Nodes) : Near[n] = Onward(Near[n - 1])
<1>1. Cardinality(Nodes) \in Nat
  BY NodesApart, FS_CardinalityType
<1>2. \E g : Layers(g, Cardinality(Nodes))
  BY <1>1, LayersExist
<1>3. Near = CHOOSE g : Layers(g, Cardinality(Nodes))
  BY Zenon DEF Near, Layers, Onward
<1>4. Layers(Near, Cardinality(Nodes))
  BY <1>2, <1>3
<1>5. \A n \in 0..Cardinality(Nodes) : Near[n] = IF n = 0 THEN {Source} ELSE Onward(Near[n - 1])
  <2> DEFINE g == Near
  <2>1. g = [n \in 0..Cardinality(Nodes) |-> IF n = 0 THEN {Source} ELSE Onward(g[n - 1])]
    BY <1>4 DEF Layers
  <2> HIDE DEF g
  <2>2. \A n \in 0..Cardinality(Nodes) : g[n] = IF n = 0 THEN {Source} ELSE Onward(g[n - 1])
    BY <2>1
  <2> QED
    BY <2>2 DEF g
<1>6. 0 \in 0..Cardinality(Nodes) /\ \A n \in 1..Cardinality(Nodes) : n \in 0..Cardinality(Nodes) /\ n # 0
  BY <1>1
<1> QED
  BY <1>1, <1>5, <1>6

\* A layer holds the layers before it.
LEMMA NearGrows ==
  \A n \in 0..Cardinality(Nodes) :
    /\ Source \in Near[n] /\ Near[n] \subseteq Nodes
    /\ \A m \in 0..n : Near[m] \subseteq Near[n]
<1> DEFINE Good ==
      {n \in Nat : n \in 0..Cardinality(Nodes) =>
         /\ Source \in Near[n] /\ Near[n] \subseteq Nodes
         /\ \A m \in 0..n : Near[m] \subseteq Near[n]}
<1>1. 0 \in Good
  BY NearSteps, NodesApart
<1>2. ASSUME NEW n \in Nat, n \in Good PROVE n + 1 \in Good
  <2> SUFFICES ASSUME n + 1 \in 0..Cardinality(Nodes)
               PROVE  /\ Source \in Near[n + 1] /\ Near[n + 1] \subseteq Nodes
                      /\ \A m \in 0..(n + 1) : Near[m] \subseteq Near[n + 1]
    OBVIOUS
  <2>1. n \in 0..Cardinality(Nodes) /\ n + 1 \in 1..Cardinality(Nodes) /\ (n + 1) - 1 = n
    BY NearSteps
  <2>2. Near[n + 1] = Onward(Near[n])
    BY <2>1, NearSteps
  <2>3. Near[n] \subseteq Near[n + 1] /\ (Near[n] \subseteq Nodes => Near[n + 1] \subseteq Nodes)
    BY <2>2 DEF Onward
  <2>4. /\ Source \in Near[n] /\ Near[n] \subseteq Nodes
        /\ \A m \in 0..n : Near[m] \subseteq Near[n]
    BY <1>2, <2>1
  <2> QED
    BY <2>3, <2>4
<1>3. Nat \subseteq Good
  <2> HIDE DEF Good
  <2> QED
    BY <1>1, <1>2, NumberInduction
<1> QED
  BY <1>3

\* There are not enough nodes for every layer to bring a new one: the last holds all that can be reached.
LEMMA NearCloses ==
  ASSUME NEW u \in Near[Cardinality(Nodes)], NEW v \in Nodes, cap[u][v] > 0
  PROVE  v \in Near[Cardinality(Nodes)]
<1> DEFINE N == Cardinality(Nodes)
<1>1. N \in Nat
  BY NearSteps
<1>2. CASE \E n \in 0..(N - 1) : Near[n + 1] = Near[n]
  <2>1. PICK n \in 0..(N - 1) : Near[n + 1] = Near[n]
    BY <1>2
  <2>2. Onward(Near[n]) = Near[n]
    <3>1. n + 1 \in 1..N /\ (n + 1) - 1 = n
      BY <1>1
    <3> QED
      BY <2>1, <3>1, NearSteps
  <2> DEFINE Good == {m \in Nat : n + m \in 0..N => Near[n + m] = Near[n]}
  <2>3. 0 \in Good
    OBVIOUS
  <2>4. ASSUME NEW m \in Nat, m \in Good PROVE m + 1 \in Good
    <3> SUFFICES ASSUME n + (m + 1) \in 0..N PROVE Near[n + (m + 1)] = Near[n]
      OBVIOUS
    <3>1. n + m \in 0..N /\ n + (m + 1) \in 1..N /\ (n + (m + 1)) - 1 = n + m
      BY <1>1
    <3>2. Near[n + (m + 1)] = Onward(Near[n + m])
      BY <3>1, NearSteps
    <3>3. Near[n + m] = Near[n]
      BY <2>4, <3>1
    <3> QED
      BY <2>2, <3>2, <3>3
  <2>5. Nat \subseteq Good
    <3> HIDE DEF Good
    <3> QED
      BY <2>3, <2>4, NumberInduction
  <2>6. N - n \in Nat /\ n + (N - n) = N /\ N \in 0..N
    BY <1>1
  <2>7. Near[N] = Near[n]
    BY <2>5, <2>6
  <2> QED
    BY <2>2, <2>7 DEF Onward
<1>3. CASE \A n \in 0..(N - 1) : Near[n + 1] # Near[n]
  <2> DEFINE Good == {n \in Nat : n \in 0..N => Cardinality(Near[n]) > n}
  <2>1. ASSUME NEW n \in 0..N PROVE IsFiniteSet(Near[n]) /\ Cardinality(Near[n]) \in Nat /\ Cardinality(Near[n]) <= N
    BY NearGrows, NodesApart, FS_Subset, FS_CardinalityType
  <2>2. 0 \in Good
    <3>1. Cardinality(Near[0]) = 1
      BY NearSteps, FS_Singleton
    <3> QED
      BY <3>1
  <2>3. ASSUME NEW n \in Nat, n \in Good PROVE n + 1 \in Good
    <3> SUFFICES ASSUME n + 1 \in 0..N PROVE Cardinality(Near[n + 1]) > n + 1
      OBVIOUS
    <3>1. n \in 0..N /\ n \in 0..(N - 1) /\ n \in 0..(n + 1)
      BY <1>1
    <3>2. Near[n] \subseteq Near[n + 1] /\ Near[n] # Near[n + 1]
      BY <1>3, <3>1, NearGrows
    <3>3. Cardinality(Near[n]) < Cardinality(Near[n + 1])
      <4> DEFINE near == Near[n]
                 nearer == Near[n + 1]
      <4>1. near \in SUBSET nearer /\ near # nearer /\ IsFiniteSet(nearer)
        BY <2>1, <3>2
      <4> HIDE DEF near, nearer
      <4>2. Cardinality(near) < Cardinality(nearer)
        BY <4>1, FS_Subset, FS_CardinalityType
      <4> QED
        BY <4>2 DEF near, nearer
    <3>4. Cardinality(Near[n]) > n
      BY <2>3, <3>1
    <3> QED
      BY <2>1, <3>1, <3>3, <3>4
  <2>4. Nat \subseteq Good
    <3> HIDE DEF Good
    <3> QED
      BY <2>2, <2>3, NumberInduction
  <2>5. Cardinality(Near[N]) > N
    BY <1>1, <2>4
  <2>6. Cardinality(Near[N]) \in Nat /\ Cardinality(Near[N]) <= N
    BY <1>1, <2>1
  <2> HIDE DEF N
  <2> QED
    BY <1>1, <2>5, <2>6
<1> QED
  BY <1>2, <1>3

\* What a phase of the search finds of the levels.
LEMMA LevelsOf ==
  ASSUME Levels
  PROVE  /\ level' \in [Nodes -> Int] /\ level'[Source] = 0
         /\ \A v \in Nodes : level'[v] = Unreached <=> v \notin Near[Cardinality(Nodes)]
<1> DEFINE N == Cardinality(Nodes)
           layers == [n \in 0..N |-> Near[n]]
           at(v) == {n \in DOMAIN layers : v \in layers[n]}
<1>1. level' = [v \in Nodes |-> IF at(v) = {} THEN Unreached ELSE Min(at(v))]
  BY DEF Levels
<1>2. N \in Nat
  BY NearSteps
<1>3. \A v : at(v) = {n \in 0..N : v \in Near[n]}
  OBVIOUS
<1>4. \A v : at(v) \subseteq Nat
  BY <1>2, <1>3
<1>5. \A v : at(v) # {} => Min(at(v)) \in Nat
  <2> SUFFICES ASSUME NEW v, at(v) # {} PROVE Min(at(v)) \in Nat
    OBVIOUS
  <2> DEFINE S == at(v)
  <2>1. S \subseteq Nat /\ S # {}
    BY <1>4
  <2> HIDE DEF S
  <2>2. Min(S) \in S
    BY <2>1, LeastIsMin
  <2>3. Min(S) \in Nat
    BY <2>1, <2>2
  <2> QED
    BY <2>3 DEF S
<1>6. at(Source) # {} /\ Min(at(Source)) = 0
  <2> DEFINE S == at(Source)
  <2>1. S \subseteq Nat /\ 0 \in S
    BY <1>2, <1>3, <1>4, NearSteps
  <2> HIDE DEF S
  <2>2. Min(S) \in S /\ Min(S) <= 0
    BY <2>1, LeastIsMin
  <2>3. Min(S) = 0
    <3> DEFINE least == Min(S)
    <3>1. least \in S /\ least <= 0
      BY <2>2
    <3> HIDE DEF least
    <3>2. least \in Nat
      BY <2>1, <3>1
    <3>3. least = 0
      BY <3>1, <3>2
    <3> QED
      BY <3>3 DEF least
  <2> QED
    BY <2>1, <2>3 DEF S
<1>7. \A v : at(v) = {} <=> v \notin Near[N]
  <2>1. \A v, n : n \in at(v) => v \in Near[N]
    BY <1>2, <1>3, NearGrows
  <2>2. \A v : v \in Near[N] => N \in at(v)
    BY <1>2, <1>3
  <2> HIDE DEF at
  <2> QED
    BY <2>1, <2>2
<1> HIDE DEF at, N
<1>8. \A v \in Nodes : level'[v] = IF at(v) = {} THEN Unreached ELSE Min(at(v))
  BY <1>1
<1>9. level' \in [Nodes -> Int]
  BY <1>1, <1>5 DEF Unreached
<1>10. \A v \in Nodes : level'[v] = Unreached <=> v \notin Near[N]
  BY <1>5, <1>7, <1>8 DEF Unreached
<1>11. level'[Source] = 0
  BY <1>6, <1>8, NodesApart
<1> QED
  BY <1>9, <1>10, <1>11 DEF N

-----------------------------------------------------------------------------
(* A cut: what cannot be reached has no room for what is left *)

\* A table whose columns are bounded adds up, by its rows, to no more than the bounds do.
LEMMA RowsWithinColumns ==
  ASSUME NEW S, IsFiniteSet(S), NEW T, IsFiniteSet(T),
         NEW f, NEW g, Turned(f, g, S, T),
         NEW rows, SumsOfRows(rows, f, S, T),
         NEW bound, SumsWithin(bound, g, T, S)
  PROVE  SumFunctionOnSet(rows, S) <= SumFunctionOnSet(bound, T)
<1> DEFINE columns == [y \in T |-> SumFunctionOnSet(g[y], S)]
<1>1. \A y \in T : columns[y] = SumFunctionOnSet(g[y], S)
  OBVIOUS
<1> HIDE DEF columns
<1>2. \A x \in S, y \in T : f[x][y] \in Int /\ g[y][x] = f[x][y]
  BY DEF Turned
<1>3. SumFunctionOnSet(rows, S) = SumFunctionOnSet(columns, T)
  <2>1. SumsOfRows(columns, g, T, S)
    BY <1>1 DEF SumsOfRows
  <2> QED
    BY <2>1, SumByColumns
<1>4. \A y \in T : SumFunctionOnSet(g[y], S) \in Int
  BY <1>2, SumIsNumber
<1>5. \A y \in T : columns[y] \in Int /\ bound[y] \in Int /\ columns[y] <= bound[y]
  BY <1>1, <1>4 DEF SumsWithin
<1>6. SumFunctionOnSet(columns, T) <= SumFunctionOnSet(bound, T)
  BY <1>5, SumGrows
<1> QED
  BY <1>3, <1>6

\* A term of a sum of numbers is at most the sum.
LEMMA TermWithin ==
  ASSUME NEW q, NEW S, IsFiniteSet(S), \A x \in S : q[x] \in Nat, NEW e \in S
  PROVE  q[e] <= SumFunctionOnSet(q, S)
<1>1. IsFiniteSet(S \ {e}) /\ \A x \in S : q[x] \in Int
  BY FS_RemoveElement
<1>2. SumFunctionOnSet(q, S) = q[e] + SumFunctionOnSet(q, S \ {e})
  BY <1>1, SumWithout
<1>3. SumFunctionOnSet(q, S \ {e}) \in Nat
  BY <1>1, SumIsNumber
<1>4. q[e] \in Nat
  OBVIOUS
<1> QED
  BY <1>2, <1>3, <1>4

\* What an item has been given goes back to it; it is no more than the cart holds of it.
LEMMA GivenWithin ==
  ASSUME BasketTyped, Balanced, NEW i \in Items
  PROVE  /\ cap[Source][i] \in Nat /\ cap[i][Source] \in Nat
         /\ cap[Source][i] + cap[i][Source] = basket[i] /\ basket[i] \in 0..MaxQuantity
         /\ \A r \in Requirements : cap[r][i] \in Nat /\ cap[r][i] <= cap[i][Source]
<1>1. \A u, v \in Nodes : cap[u][v] \in Nat
  BY DEF Balanced
<1>2. cap[Source][i] + cap[i][Source] = basket[i]
  BY ArcsOf, NodesApart DEF Balanced
<1>3. \A r \in Requirements : Placed(i)[r] = cap[r][i] /\ Placed(i)[r] \in Nat
  BY <1>1, NodesApart DEF Placed
<1>4. ASSUME NEW r \in Requirements PROVE cap[r][i] <= cap[i][Source]
  <2> DEFINE placed == Placed(i)
  <2>1. \A x \in Requirements : placed[x] \in Nat
    BY <1>3
  <2> HIDE DEF placed
  <2>2. placed[r] <= SumFunctionOnSet(placed, Requirements)
    BY <2>1, LineItemsAssumption, TermWithin
  <2> QED
    BY <1>3, <2>2 DEF Balanced, TotalOf, placed
<1>5. basket[i] \in 0..MaxQuantity
  BY DEF BasketTyped
<1> QED
  BY <1>1, <1>2, <1>3, <1>4, <1>5, NodesApart

\* Where the nodes that are reached leave out the sink, and an item has units left at its source, the units
\* cannot be assigned: the reached requirements are full, and reached items have nowhere else to go.
LEMMA CutRefuses ==
  ASSUME BasketTyped, Balanced, NEW W \in SUBSET Nodes, Source \in W, Sink \notin W,
         \A u \in W, v \in Nodes : cap[u][v] > 0 => v \in W,
         NEW j \in Items, cap[Source][j] > 0
  PROVE  ~Assignable(basket)
<1> SUFFICES ASSUME Assignable(basket) PROVE FALSE
  OBVIOUS
<1>1. PICK put \in [Items -> [Requirements -> 0..MaxQuantity]] :
        /\ \A i \in Items, r \in Requirements : put[i][r] > 0 => Accepts(r, i)
        /\ \A i \in Items : basket[i] = TotalOf(put[i], Requirements)
        /\ \A r \in Requirements : TotalOf([i \in Items |-> put[i][r]], Items) <= limit[r].quantity
  BY DEF Assignable
<1> DEFINE IW == Items \cap W
           RW == Requirements \cap W
           quantity == [r \in Requirements |-> limit[r].quantity]
           given == [i \in Items |-> cap[i][Source]]
           toItem == [i \in Items |-> [r \in Requirements |-> cap[r][i]]]
           putIn == [r \in Requirements |-> [i \in Items |-> put[i][r]]]
<1>2. \A u, v \in Nodes : cap[u][v] \in Nat
  BY DEF Balanced
<1>3. IsFiniteSet(IW) /\ IsFiniteSet(RW) /\ IsFiniteSet(Items) /\ IsFiniteSet(Requirements)
  BY LineItemsAssumption, FS_Subset
<1>4. \A i \in Items, r \in Requirements : put[i][r] \in Nat
  BY <1>1, LineItemsAssumption
<1>5. \A r \in Requirements : limit[r].quantity \in Nat
  BY LineItemsAssumption DEF BasketTyped
<1>6. ASSUME NEW i \in IW, NEW r \in Requirements \ RW PROVE put[i][r] = 0
  <2>1. cap[i][r] = 0
    BY <1>2, NodesApart
  <2>2. cap[i][r] + cap[r][i] = Capacity(i, r)
    BY ArcsOf, <1>2, NodesApart DEF Balanced
  <2>3. cap[r][i] <= MaxQuantity /\ cap[r][i] \in Nat
    BY GivenWithin, LineItemsAssumption
  <2>4. Capacity(i, r) # Unlimited
    BY <2>1, <2>2, <2>3, LineItemsAssumption DEF Unlimited
  <2>5. ~(basket[i] > 0 /\ Accepts(r, i))
    BY <2>4, ArcsOf
  <2>6. put[i][r] <= basket[i]
    <3> DEFINE puts == put[i]
    <3>1. \A x \in Requirements : puts[x] \in Nat
      BY <1>4
    <3> HIDE DEF puts
    <3>2. puts[r] <= SumFunctionOnSet(puts, Requirements)
      BY <1>3, <3>1, TermWithin
    <3> QED
      BY <1>1, <3>2 DEF TotalOf, puts
  <2>7. put[i][r] \in Nat /\ basket[i] \in Nat
    BY <1>4, LineItemsAssumption DEF BasketTyped
  <2> QED
    BY <1>1, <2>5, <2>6, <2>7
<1>7. SumFunctionOnSet(basket, IW) <= SumFunctionOnSet(quantity, RW)
  <2>1. ASSUME NEW i \in IW PROVE basket[i] = SumFunctionOnSet(put[i], RW)
    <3> DEFINE puts == put[i]
    <3>1. (\A x \in Requirements : puts[x] \in Nat) /\ RW \in SUBSET Requirements
      BY <1>4
    <3>2. \A x \in Requirements \ RW : puts[x] = 0
      BY <1>6
    <3> HIDE DEF puts, RW
    <3>3. SumFunctionOnSet(puts, RW) = SumFunctionOnSet(puts, Requirements)
      BY <1>3, <3>1, <3>2, SumOfPart
    <3> QED
      BY <1>1, <3>3 DEF TotalOf, puts
  <2>2. ASSUME NEW r \in RW PROVE quantity[r] \in Int /\ SumFunctionOnSet(putIn[r], IW) <= quantity[r]
    <3> DEFINE puts == putIn[r]
    <3>1. (\A x \in Items : puts[x] \in Nat) /\ IW \in SUBSET Items
      BY <1>4
    <3>2. puts = [i \in Items |-> put[i][r]] /\ quantity[r] = limit[r].quantity
      OBVIOUS
    <3>3. SumFunctionOnSet(puts, Items) <= limit[r].quantity
      BY <1>1, <3>2 DEF TotalOf
    <3>4. quantity[r] \in Nat
      BY <1>5
    <3> HIDE DEF puts, IW
    <3>5. SumFunctionOnSet(puts, IW) <= SumFunctionOnSet(puts, Items)
      BY <1>3, <3>1, SumOfPart
    <3>6. SumFunctionOnSet(puts, IW) \in Int /\ SumFunctionOnSet(puts, Items) \in Int
      <4>1. (\A x \in IW : puts[x] \in Int) /\ \A x \in Items : puts[x] \in Int
        BY <3>1
      <4> QED
        BY <1>3, <4>1, SumIsNumber
    <3>7. SumFunctionOnSet(puts, IW) <= quantity[r]
      <4> HIDE DEF quantity
      <4> QED
        BY <3>2, <3>3, <3>4, <3>5, <3>6
    <3> QED
      BY <3>4, <3>7 DEF puts
  <2>3. \A i \in IW, r \in RW : put[i][r] \in Nat /\ putIn[r][i] = put[i][r]
    BY <1>4
  <2>4. IsFiniteSet(IW) /\ IsFiniteSet(RW)
    BY <1>3
  <2> HIDE DEF IW, RW, quantity, putIn
  <2>5. Turned(put, putIn, IW, RW)
    BY <2>3 DEF Turned
  <2>6. SumsOfRows(basket, put, IW, RW) /\ SumsWithin(quantity, putIn, RW, IW)
    BY <2>1, <2>2 DEF SumsOfRows, SumsWithin
  <2> QED
    BY <2>4, <2>5, <2>6, RowsWithinColumns
<1>8. SumFunctionOnSet(quantity, RW) <= SumFunctionOnSet(given, IW)
  <2>1. ASSUME NEW r \in RW PROVE quantity[r] = SumFunctionOnSet(cap[r], IW)
    <3> DEFINE placed == cap[r]
    <3>1. (\A x \in Items : placed[x] \in Nat) /\ IW \in SUBSET Items
      BY <1>2, NodesApart
    <3>2. \A x \in Items \ IW : placed[x] = 0
      BY <1>2, NodesApart
    <3>3. cap[r][Sink] = 0
      BY <1>2, NodesApart
    <3>4. cap[r][Sink] + cap[Sink][r] = limit[r].quantity /\ cap[Sink][r] \in Nat
      BY <1>2, ArcsOf, NodesApart DEF Balanced
    <3>5. cap[Sink][r] = SumFunctionOnSet(placed, Items)
      BY DEF Balanced, TotalOf
    <3>6. quantity[r] = limit[r].quantity
      OBVIOUS
    <3> HIDE DEF placed, IW, quantity
    <3>7. SumFunctionOnSet(placed, IW) = SumFunctionOnSet(placed, Items)
      BY <1>3, <3>1, <3>2, SumOfPart
    <3>8. quantity[r] = SumFunctionOnSet(placed, IW)
      BY <3>3, <3>4, <3>5, <3>6, <3>7
    <3> QED
      BY <3>8 DEF placed
  <2>2. ASSUME NEW i \in IW PROVE given[i] \in Int /\ SumFunctionOnSet(toItem[i], RW) <= given[i]
    <3> DEFINE placed == toItem[i]
    <3>1. (\A x \in Requirements : placed[x] \in Nat) /\ RW \in SUBSET Requirements
      BY <1>2, NodesApart
    <3>2. placed = Placed(i) /\ given[i] = cap[i][Source]
      BY DEF Placed
    <3>0. cap[i][Source] = TotalOf(Placed(i), Requirements) /\ cap[i][Source] \in Nat
      BY <1>2, NodesApart DEF Balanced
    <3>3. SumFunctionOnSet(placed, Requirements) = given[i] /\ given[i] \in Int
      BY <3>2, <3>0 DEF TotalOf
    <3> HIDE DEF placed, RW, given
    <3>4. SumFunctionOnSet(placed, RW) <= SumFunctionOnSet(placed, Requirements)
      BY <1>3, <3>1, SumOfPart
    <3>5. SumFunctionOnSet(placed, RW) <= given[i]
      BY <3>3, <3>4
    <3> QED
      BY <3>3, <3>5 DEF placed
  <2>3. \A r \in RW, i \in IW : cap[r][i] \in Nat /\ toItem[i][r] = cap[r][i]
    BY <1>2, NodesApart
  <2> HIDE DEF IW, RW, quantity, given, toItem
  <2>4. Turned(cap, toItem, RW, IW)
    BY <2>3 DEF Turned
  <2>5. SumsOfRows(quantity, cap, RW, IW) /\ SumsWithin(given, toItem, IW, RW)
    BY <2>1, <2>2 DEF SumsOfRows, SumsWithin
  <2> QED
    BY <1>3, <2>4, <2>5, RowsWithinColumns
<1>9. SumFunctionOnSet(given, IW) < SumFunctionOnSet(basket, IW)
  <2>1. \A i \in IW : given[i] \in Int /\ basket[i] \in Int /\ given[i] <= basket[i]
    BY GivenWithin
  <2>2. j \in IW /\ given[j] < basket[j]
    BY GivenWithin, NodesApart
  <2> HIDE DEF IW, given
  <2> QED
    BY <1>3, <2>1, <2>2, SumGrows
<1>10. /\ SumFunctionOnSet(given, IW) \in Int /\ SumFunctionOnSet(basket, IW) \in Int
       /\ SumFunctionOnSet(quantity, RW) \in Int
  <2>1. \A i \in IW : given[i] \in Int /\ basket[i] \in Int
    BY GivenWithin
  <2>2. \A r \in RW : quantity[r] \in Int
    BY <1>5
  <2> HIDE DEF IW, RW, given, quantity
  <2> QED
    BY <1>3, <2>1, <2>2, SumIsNumber
<1> HIDE DEF IW, RW, quantity, given, toItem, putIn
<1> QED
  BY <1>7, <1>8, <1>9, <1>10

-----------------------------------------------------------------------------
(* The steps of the search *)

\* What was placed, as the search changes it along a path.
Shifted(q, r, S, U, V, p) ==
  /\ p \in Int /\ U \subseteq S /\ V \subseteq S
  /\ \A x \in S : q[x] \in Int /\ r[x] = q[x] + (IF x \in U THEN p ELSE 0) - (IF x \in V THEN p ELSE 0)

\* A sum whose terms change by one amount, up at one element, down at another.
LEMMA SumShifted ==
  ASSUME NEW S, IsFiniteSet(S), NEW p, NEW q, NEW r, NEW U, NEW V, Shifted(q, r, S, U, V, p)
  PROVE  /\ U = {} /\ V = {} => SumFunctionOnSet(r, S) = SumFunctionOnSet(q, S)
         /\ \A a : U = {a} /\ V = {} => SumFunctionOnSet(r, S) = SumFunctionOnSet(q, S) + p
         /\ \A a, b : U = {a} /\ V = {b} /\ a # b => SumFunctionOnSet(r, S) = SumFunctionOnSet(q, S)
<1>1. p \in Int /\ \A x \in S : q[x] \in Int /\ r[x] \in Int
  BY DEF Shifted
<1>2. ASSUME U = {}, V = {} PROVE SumFunctionOnSet(r, S) = SumFunctionOnSet(q, S)
  <2>1. \A x \in S : r[x] = q[x]
    BY <1>2 DEF Shifted
  <2> QED
    BY <2>1, SumOfSame
<1>3. ASSUME NEW a, U = {a}, V = {} PROVE SumFunctionOnSet(r, S) = SumFunctionOnSet(q, S) + p
  <2>1. a \in S /\ r[a] = q[a] + p /\ \A x \in S \ {a} : q[x] = r[x]
    BY <1>3 DEF Shifted
  <2>2. SumFunctionOnSet(r, S) = SumFunctionOnSet(q, S) + (r[a] - q[a])
    BY <1>1, <2>1, SumChangedAt
  <2>3. SumFunctionOnSet(q, S) \in Int
    BY <1>1, SumIsNumber
  <2> QED
    BY <1>1, <2>1, <2>2, <2>3
<1>4. ASSUME NEW a, NEW b, U = {a}, V = {b}, a # b
      PROVE  SumFunctionOnSet(r, S) = SumFunctionOnSet(q, S)
  <2>1. /\ a \in S /\ b \in S /\ r[a] = q[a] + p /\ r[b] = q[b] - p
        /\ \A x \in S \ {a, b} : q[x] = r[x]
    BY <1>4 DEF Shifted
  <2> QED
    BY <1>1, <1>4, <2>1, SumMoved
<1> QED
  BY <1>2, <1>3, <1>4

TrailArcs == {<<trail[n], trail[n + 1]>> : n \in 1..(Len(trail) - 1)}

\* A path from the source to the sink that visits a node once.
Path(arcs) ==
  /\ \A u, v : <<u, v>> \in arcs =>
       /\ u \in Nodes /\ v \in Nodes /\ u # Sink /\ v # Source
       /\ cap[u][v] > 0 /\ <<v, u>> \notin arcs
       /\ v # Sink => \E w : <<v, w>> \in arcs
       /\ u # Source => \E w : <<w, u>> \in arcs
  /\ \A u, v, w : <<u, v>> \in arcs /\ <<u, w>> \in arcs => v = w
  /\ \A u, v, w : <<v, u>> \in arcs /\ <<w, u>> \in arcs => v = w

\* A trail that has reached the sink is a path: it enters and leaves each node once.
LEMMA TrailIsPath ==
  ASSUME OnTrail, Last(trail) = Sink
  PROVE  Path(TrailArcs) /\ TrailArcs # {}
<1>1. trail \in Seq(Nodes) /\ Len(trail) \in Nat /\ Len(trail) > 1
  BY NodesApart DEF OnTrail, Last
<1> DEFINE On(n, u, v) == n \in 1..(Len(trail) - 1) /\ u = trail[n] /\ v = trail[n + 1]
<1>2. \A u, v : <<u, v>> \in TrailArcs <=> \E n : On(n, u, v)
  BY DEF TrailArcs
<1>3. \A n \in 1..(Len(trail) - 1) : n \in 1..Len(trail) /\ n + 1 \in 1..Len(trail)
  BY <1>1
<1>4. \A n \in 1..Len(trail) : trail[n] \in Nodes /\ level[trail[n]] = n - 1
  BY <1>1 DEF OnTrail
<1>5. \A n, u, v : On(n, u, v) => level[u] = n - 1 /\ level[v] = n /\ u \in Nodes /\ v \in Nodes /\ n \in Int
  BY <1>1, <1>3, <1>4
<1>6. ASSUME NEW n, NEW u, NEW v, On(n, u, v)
      PROVE  /\ u \in Nodes /\ v \in Nodes /\ u # Sink /\ v # Source /\ cap[u][v] > 0
             /\ \A m : ~On(m, v, u)
             /\ v # Sink => \E w : On(n + 1, v, w)
             /\ u # Source => \E w : On(n - 1, w, u)
  <2>1. u # Sink /\ cap[u][v] > 0
    BY <1>6 DEF OnTrail
  <2>2. v # Source
    <3>1. level[Source] = 0
      BY <1>1, <1>4 DEF OnTrail
    <3> QED
      BY <1>5, <1>6, <3>1
  <2>3. \A m : ~On(m, v, u)
    <3> HIDE DEF On
    <3>1. level[v] = n /\ level[u] = n - 1 /\ n \in Int
      BY <1>5, <1>6
    <3>2. \A m : On(m, v, u) => level[v] = m - 1 /\ level[u] = m /\ m \in Int
      BY <1>5
    <3> QED
      BY <3>1, <3>2
  <2>4. v # Sink => \E w : On(n + 1, v, w)
    <3>1. v # Sink => n + 1 # Len(trail)
      BY <1>6 DEF Last
    <3>2. v # Sink => n + 1 \in 1..(Len(trail) - 1)
      BY <1>1, <1>6, <3>1
    <3> QED
      BY <1>6, <3>2
  <2>5. u # Source => \E w : On(n - 1, w, u)
    <3>1. u # Source => n # 1
      BY <1>6 DEF OnTrail
    <3>2. u # Source => n - 1 \in 1..(Len(trail) - 1) /\ (n - 1) + 1 = n
      BY <1>1, <1>6, <3>1
    <3> QED
      BY <1>6, <3>2
  <2> QED
    BY <1>5, <1>6, <2>1, <2>2, <2>3, <2>4, <2>5
<1>7. \A n, m, u, v, w : On(n, u, v) /\ On(m, u, w) => v = w
  <2>1. ASSUME NEW n, NEW m, NEW u, NEW v, NEW w, On(n, u, v), On(m, u, w) PROVE n = m
    <3> HIDE DEF On
    <3>1. n \in Int /\ m \in Int /\ level[u] = n - 1 /\ level[u] = m - 1
      BY <1>5, <2>1
    <3> QED
      BY <3>1
  <2> QED
    BY <2>1
<1>8. \A n, m, u, v, w : On(n, v, u) /\ On(m, w, u) => v = w
  <2>1. ASSUME NEW n, NEW m, NEW u, NEW v, NEW w, On(n, v, u), On(m, w, u) PROVE n = m
    <3> HIDE DEF On
    <3>1. level[u] = n /\ level[u] = m
      BY <1>5, <2>1
    <3> QED
      BY <3>1
  <2> QED
    BY <2>1
<1>9. On(1, trail[1], trail[2])
  BY <1>1
<1> HIDE DEF On
<1>10. TrailArcs # {}
  BY <1>2, <1>9
<1>11. ASSUME NEW u, NEW v, <<u, v>> \in TrailArcs
       PROVE  /\ u \in Nodes /\ v \in Nodes /\ u # Sink /\ v # Source
              /\ cap[u][v] > 0 /\ <<v, u>> \notin TrailArcs
              /\ v # Sink => \E w : <<v, w>> \in TrailArcs
              /\ u # Source => \E w : <<w, u>> \in TrailArcs
  <2>1. PICK n : On(n, u, v)
    BY <1>2, <1>11
  <2>2. /\ u \in Nodes /\ v \in Nodes /\ u # Sink /\ v # Source /\ cap[u][v] > 0
        /\ \A m : ~On(m, v, u)
        /\ v # Sink => \E w : On(n + 1, v, w)
        /\ u # Source => \E w : On(n - 1, w, u)
    BY <1>6, <2>1
  <2> QED
    BY <1>2, <2>2
<1>12. \A u, v, w : <<u, v>> \in TrailArcs /\ <<u, w>> \in TrailArcs => v = w
  BY <1>2, <1>7
<1>13. \A u, v, w : <<v, u>> \in TrailArcs /\ <<w, u>> \in TrailArcs => v = w
  BY <1>2, <1>8
<1> QED
  BY <1>10, <1>11, <1>12, <1>13 DEF Path

\* A path goes on until it ends.
LEMMA PathGoesOn ==
  ASSUME NEW arcs, Path(arcs), NEW u, NEW v, <<u, v>> \in arcs
  PROVE  /\ v # Sink => \E w : <<v, w>> \in arcs
         /\ u # Source => \E w : <<w, u>> \in arcs
<1>1. \A x, y : <<x, y>> \in arcs =>
        /\ x \in Nodes /\ y \in Nodes /\ x # Sink /\ y # Source
        /\ cap[x][y] > 0 /\ <<y, x>> \notin arcs
        /\ y # Sink => \E w : <<y, w>> \in arcs
        /\ x # Source => \E w : <<w, x>> \in arcs
  BY Zenon DEF Path
<1> QED
  BY <1>1

\* Pushing along a path keeps the balance: what enters a node on the way leaves it, to be placed elsewhere
\* or with one requirement more.
LEMMA PathBalances ==
  ASSUME BasketTyped, Balanced, NEW arcs, Path(arcs), NEW p \in Nat,
         \A u, v : <<u, v>> \in arcs => p <= cap[u][v],
         cap' = After(arcs, p), UNCHANGED <<basket, limit>>
  PROVE  Balanced'
<1>1. \A u, v \in Nodes :
        /\ cap[u][v] \in Nat
        /\ cap'[u][v] =
             cap[u][v] + (IF <<v, u>> \in arcs THEN p ELSE 0) - (IF <<u, v>> \in arcs THEN p ELSE 0)
  BY DEF After, Balanced
<1>2. ASSUME NEW u \in Nodes, NEW v \in Nodes PROVE cap'[u][v] \in Nat
  <2>1. <<u, v>> \in arcs => <<v, u>> \notin arcs /\ p <= cap[u][v]
    BY DEF Path
  <2> QED
    BY <1>1, <2>1
<1>3. cap' \in [Nodes -> [Nodes -> Nat]]
  <2>1. cap' = [u \in Nodes |-> [v \in Nodes |-> cap'[u][v]]]
    BY DEF After
  <2> QED
    BY <1>2, <2>1
<1>4. \A u, v \in Nodes : Capacity(u, v)' = Capacity(u, v)
  BY DEF Capacity, Accepts
<1>5. ASSUME NEW u \in Nodes, NEW v \in Nodes
      PROVE  cap'[u][v] + cap'[v][u] = Capacity(u, v) + Capacity(v, u)
  <2>1. cap[u][v] + cap[v][u] = Capacity(u, v) + Capacity(v, u)
    BY DEF Balanced
  <2>2. cap'[u][v] + cap'[v][u] = cap[u][v] + cap[v][u]
    <3> DEFINE there == IF <<u, v>> \in arcs THEN p ELSE 0
               back == IF <<v, u>> \in arcs THEN p ELSE 0
    <3>1. there \in Int /\ back \in Int
      OBVIOUS
    <3>2. /\ cap[u][v] \in Nat /\ cap[v][u] \in Nat
          /\ cap'[u][v] = cap[u][v] + back - there /\ cap'[v][u] = cap[v][u] + there - back
      BY <1>1
    <3> HIDE DEF there, back
    <3> QED
      BY <3>1, <3>2
  <2> QED
    BY <2>1, <2>2
<1>6. ASSUME NEW u, NEW v, <<u, v>> \in arcs
      PROVE  /\ u \in Nodes /\ v \in Nodes
             /\ \/ (u = Source /\ v \in Items) \/ (u \in Items /\ v \in Requirements)
                \/ (u \in Requirements /\ v \in Items) \/ (u \in Requirements /\ v = Sink)
  <2>1. u \in Nodes /\ v \in Nodes /\ u # Sink /\ v # Source /\ cap[u][v] > 0
    BY <1>6 DEF Path
  <2>2. Capacity(u, v) + Capacity(v, u) > 0
    <3>1. cap[u][v] + cap[v][u] = Capacity(u, v) + Capacity(v, u) /\ cap[u][v] \in Nat /\ cap[v][u] \in Nat
      BY <1>1, <2>1 DEF Balanced
    <3> QED
      BY <2>1, <3>1
  <2> QED
    BY <2>1, <2>2, ArcsOf
<1>7. ASSUME NEW i \in Items PROVE cap'[i][Source] = TotalOf(Placed(i), Requirements)'
  <2> DEFINE placed == [r \in Requirements |-> cap[r][i]]
             moved == [r \in Requirements |-> cap'[r][i]]
             U == {r \in Requirements : <<i, r>> \in arcs}
             V == {r \in Requirements : <<r, i>> \in arcs}
  <2>1. Shifted(placed, moved, Requirements, U, V, p)
    BY <1>1, NodesApart DEF Shifted
  <2>2. cap[i][Source] = SumFunctionOnSet(placed, Requirements)
    BY DEF Balanced, TotalOf, Placed
  <2>3. cap'[i][Source] = cap[i][Source] + (IF <<Source, i>> \in arcs THEN p ELSE 0)
    <3>1. <<i, Source>> \notin arcs
      BY DEF Path
    <3> QED
      BY <1>1, <3>1, NodesApart
  <2>4. \/ (U = {} /\ V = {} /\ <<Source, i>> \notin arcs)
        \/ (<<Source, i>> \in arcs /\ \E a : U = {a} /\ V = {})
        \/ (<<Source, i>> \notin arcs /\ \E a, b : U = {a} /\ V = {b} /\ a # b)
    <3>1. CASE \A x : <<x, i>> \notin arcs
      <4>1. \A y : <<i, y>> \notin arcs
        BY <3>1, NodesApart DEF Path
      <4> QED
        BY <3>1, <4>1
    <3>2. CASE \E x : <<x, i>> \in arcs
      <4>1. PICK x : <<x, i>> \in arcs
        BY <3>2
      <4>0. i # Sink
        BY NodesApart
      <4>2. PICK y : <<i, y>> \in arcs
        BY <4>1, <4>0, PathGoesOn
      <4>3. (\A z : <<z, i>> \in arcs => z = x) /\ (\A z : <<i, z>> \in arcs => z = y) /\ x # y
        BY <4>1, <4>2 DEF Path
      <4>4. y \in Requirements /\ (x = Source \/ x \in Requirements)
        BY <1>6, <4>1, <4>2, NodesApart
      <4>5. U = {y}
        BY <4>2, <4>3, <4>4
      <4>6. CASE x = Source
        <5>1. V = {}
          BY <4>3, <4>6, NodesApart
        <5> QED
          BY <4>1, <4>5, <4>6, <5>1
      <4>7. CASE x \in Requirements
        <5>1. V = {x} /\ <<Source, i>> \notin arcs
          BY <4>1, <4>3, <4>7, NodesApart
        <5> QED
          BY <4>3, <4>5, <5>1
      <4> QED
        BY <4>4, <4>6, <4>7
    <3> QED
      BY <3>1, <3>2
  <2>5. cap[i][Source] \in Nat
    BY <1>1, NodesApart
  <2>6. TotalOf(Placed(i), Requirements)' = SumFunctionOnSet(moved, Requirements)
    BY DEF TotalOf, Placed
  <2> HIDE DEF placed, moved, U, V
  <2>7. IsFiniteSet(Requirements)
    BY LineItemsAssumption
  <2> DEFINE before == SumFunctionOnSet(placed, Requirements)
             after == SumFunctionOnSet(moved, Requirements)
  <2>8. /\ U = {} /\ V = {} => after = before
        /\ \A a : U = {a} /\ V = {} => after = before + p
        /\ \A a, b : U = {a} /\ V = {b} /\ a # b => after = before
    BY <2>1, <2>7, SumShifted
  <2>9. cap'[i][Source] = after
    <3> HIDE DEF before, after
    <3>1. before = cap[i][Source] /\ before \in Nat
      BY <2>2, <2>5 DEF before
    <3>2. CASE U = {} /\ V = {} /\ <<Source, i>> \notin arcs
      BY <2>3, <2>8, <3>1, <3>2
    <3>3. CASE <<Source, i>> \in arcs /\ \E a : U = {a} /\ V = {}
      <4>1. after = before + p
        BY <2>8, <3>3
      <4> QED
        BY <2>3, <3>1, <3>3, <4>1
    <3>4. CASE <<Source, i>> \notin arcs /\ \E a, b : U = {a} /\ V = {b} /\ a # b
      <4>1. after = before
        BY <2>8, <3>4
      <4> QED
        BY <2>3, <3>1, <3>4, <4>1
    <3> QED
      BY <2>4, <3>2, <3>3, <3>4
  <2> QED
    BY <2>6, <2>9
<1>8. ASSUME NEW r \in Requirements PROVE cap'[Sink][r] = TotalOf(cap[r], Items)'
  <2> DEFINE placed == cap[r]
             moved == cap'[r]
             U == {i \in Items : <<i, r>> \in arcs}
             V == {i \in Items : <<r, i>> \in arcs}
  <2>1. Shifted(placed, moved, Items, U, V, p)
    BY <1>1, NodesApart DEF Shifted
  <2>2. cap[Sink][r] = SumFunctionOnSet(placed, Items)
    BY DEF Balanced, TotalOf
  <2>3. cap'[Sink][r] = cap[Sink][r] + (IF <<r, Sink>> \in arcs THEN p ELSE 0)
    <3>1. <<Sink, r>> \notin arcs
      BY DEF Path
    <3> QED
      BY <1>1, <3>1, NodesApart
  <2>4. \/ (U = {} /\ V = {} /\ <<r, Sink>> \notin arcs)
        \/ (<<r, Sink>> \in arcs /\ \E a : U = {a} /\ V = {})
        \/ (<<r, Sink>> \notin arcs /\ \E a, b : U = {a} /\ V = {b} /\ a # b)
    <3>1. CASE \A x : <<x, r>> \notin arcs
      <4>1. \A y : <<r, y>> \notin arcs
        BY <3>1, NodesApart DEF Path
      <4> QED
        BY <3>1, <4>1
    <3>2. CASE \E x : <<x, r>> \in arcs
      <4>1. PICK x : <<x, r>> \in arcs
        BY <3>2
      <4>0. r # Sink
        BY NodesApart
      <4>2. PICK y : <<r, y>> \in arcs
        BY <4>1, <4>0, PathGoesOn
      <4>3. (\A z : <<z, r>> \in arcs => z = x) /\ (\A z : <<r, z>> \in arcs => z = y) /\ x # y
        BY <4>1, <4>2 DEF Path
      <4>4. x \in Items /\ (y = Sink \/ y \in Items)
        BY <1>6, <4>1, <4>2, NodesApart
      <4>5. U = {x}
        BY <4>1, <4>3, <4>4
      <4>6. CASE y = Sink
        <5>1. V = {}
          BY <4>3, <4>6, NodesApart
        <5> QED
          BY <4>2, <4>5, <4>6, <5>1
      <4>7. CASE y \in Items
        <5>1. V = {y} /\ <<r, Sink>> \notin arcs
          BY <4>2, <4>3, <4>7, NodesApart
        <5> QED
          BY <4>3, <4>5, <5>1
      <4> QED
        BY <4>4, <4>6, <4>7
    <3> QED
      BY <3>1, <3>2
  <2>5. cap[Sink][r] \in Nat
    BY <1>1, NodesApart
  <2>6. TotalOf(cap[r], Items)' = SumFunctionOnSet(moved, Items)
    BY DEF TotalOf
  <2> HIDE DEF placed, moved, U, V
  <2>7. IsFiniteSet(Items)
    BY LineItemsAssumption
  <2> DEFINE before == SumFunctionOnSet(placed, Items)
             after == SumFunctionOnSet(moved, Items)
  <2>8. /\ U = {} /\ V = {} => after = before
        /\ \A a : U = {a} /\ V = {} => after = before + p
        /\ \A a, b : U = {a} /\ V = {b} /\ a # b => after = before
    BY <2>1, <2>7, SumShifted
  <2>9. cap'[Sink][r] = after
    <3> HIDE DEF before, after
    <3>1. before = cap[Sink][r] /\ before \in Nat
      BY <2>2, <2>5 DEF before
    <3>2. CASE U = {} /\ V = {} /\ <<r, Sink>> \notin arcs
      BY <2>3, <2>8, <3>1, <3>2
    <3>3. CASE <<r, Sink>> \in arcs /\ \E a : U = {a} /\ V = {}
      <4>1. after = before + p
        BY <2>8, <3>3
      <4> QED
        BY <2>3, <3>1, <3>3, <4>1
    <3>4. CASE <<r, Sink>> \notin arcs /\ \E a, b : U = {a} /\ V = {b} /\ a # b
      <4>1. after = before
        BY <2>8, <3>4
      <4> QED
        BY <2>3, <3>1, <3>4, <4>1
    <3> QED
      BY <2>4, <3>2, <3>3, <3>4
  <2> QED
    BY <2>6, <2>9
<1> QED
  BY <1>3, <1>4, <1>5, <1>7, <1>8 DEF Balanced

\* While the cart and the limit stay, so does all that depends on them.
LEMMA BasketStaysTyped ==
  ASSUME BasketTyped, UNCHANGED <<basket, limit>>
  PROVE  BasketTyped' /\ (Balanced /\ UNCHANGED cap => Balanced') /\ (Assignable(basket)' <=> Assignable(basket))
<1>1. BasketTyped'
  BY DEF BasketTyped
<1>2. \A u, v : Capacity(u, v)' = Capacity(u, v)
  BY DEF Capacity, Accepts
<1>3. ASSUME Balanced, UNCHANGED cap PROVE Balanced'
  BY <1>2, <1>3 DEF Balanced, Placed, TotalOf
<1>4. Assignable(basket)' <=> Assignable(basket)
  BY DEF Assignable, Accepts, TotalOf
<1> QED
  BY <1>1, <1>3, <1>4

\* The arcs start in balance, with nothing placed; a cart refused at once has an item that nothing accepts.
LEMMA BuildArcsKeeps == ASSUME LineItemsInv, BuildArcs PROVE LineItemsInv'
<1> DEFINE inCart == {i \in Items : basket[i] > 0}
<1>1. BasketTyped /\ UNCHANGED <<basket, limit, level, passed, trail>>
  BY DEF LineItemsInv, BuildArcs
<1>2. BasketTyped' /\ (Assignable(basket)' <=> Assignable(basket))
  BY <1>1, BasketStaysTyped
<1>3. CASE (inCart = {} \/ \E i \in inCart : \A r \in Requirements : ~Accepts(r, i)) /\ fit' = "refused"
  <2>1. ~(Assignable(basket) /\ \E i \in Items : basket[i] > 0)
    <3> SUFFICES ASSUME NEW i \in Items, basket[i] > 0, \A r \in Requirements : ~Accepts(r, i), Assignable(basket)
                 PROVE  FALSE
      BY <1>3
    <3>1. PICK put \in [Items -> [Requirements -> 0..MaxQuantity]] :
            /\ \A r \in Requirements : put[i][r] > 0 => Accepts(r, i)
            /\ basket[i] = TotalOf(put[i], Requirements)
      BY DEF Assignable
    <3> DEFINE puts == put[i]
    <3>2. \A r \in Requirements : puts[r] = 0
      <4>1. \A r \in Requirements : put[i][r] \in Nat /\ ~(put[i][r] > 0)
        BY <3>1, LineItemsAssumption
      <4> QED
        BY <4>1
    <3> HIDE DEF puts
    <3>3. SumFunctionOnSet(puts, Requirements) = 0
      BY <3>2, LineItemsAssumption, SumOfZeros
    <3> QED
      BY <3>1, <3>3 DEF TotalOf, puts
  <2> QED
    BY <1>1, <1>2, <1>3, <2>1 DEF LineItemsInv, FitsIfAssignable
<1>4. CASE /\ inCart # {} /\ fit' = "levels"
           /\ cap' = [u \in Nodes |-> [v \in Nodes |-> Capacity(u, v)]]
  <2>1. \A u, v \in Nodes : Capacity(u, v)' = Capacity(u, v) /\ cap'[u][v] = Capacity(u, v)
    BY <1>1, <1>4 DEF Capacity, Accepts
  <2>2. cap' \in [Nodes -> [Nodes -> Nat]]
    BY <1>1, <1>4, ArcsOf
  <2>3. ASSUME NEW i \in Items PROVE cap'[i][Source] = TotalOf(Placed(i), Requirements)'
    <3> DEFINE placed == [r \in Requirements |-> cap'[r][i]]
    <3>1. \A r \in Requirements : placed[r] = 0
      BY <1>1, <2>1, ArcsOf, NodesApart
    <3>2. cap'[i][Source] = 0
      BY <1>1, <2>1, ArcsOf, NodesApart
    <3>3. TotalOf(Placed(i), Requirements)' = SumFunctionOnSet(placed, Requirements)
      BY DEF TotalOf, Placed
    <3> HIDE DEF placed
    <3>4. SumFunctionOnSet(placed, Requirements) = 0
      BY <3>1, LineItemsAssumption, SumOfZeros
    <3> QED
      BY <3>2, <3>3, <3>4
  <2>4. ASSUME NEW r \in Requirements PROVE cap'[Sink][r] = TotalOf(cap[r], Items)'
    <3> DEFINE placed == cap'[r]
    <3>1. \A i \in Items : placed[i] = 0
      BY <1>1, <2>1, ArcsOf, NodesApart
    <3>2. cap'[Sink][r] = 0
      BY <1>1, <2>1, ArcsOf, NodesApart
    <3>3. TotalOf(cap[r], Items)' = SumFunctionOnSet(placed, Items)
      BY DEF TotalOf
    <3> HIDE DEF placed
    <3>4. SumFunctionOnSet(placed, Items) = 0
      BY <3>1, LineItemsAssumption, SumOfZeros
    <3> QED
      BY <3>2, <3>3, <3>4
  <2>5. Balanced'
    BY <2>1, <2>2, <2>3, <2>4 DEF Balanced
  <2>6. \E i \in Items : basket'[i] > 0
    BY <1>1, <1>4
  <2> QED
    BY <1>2, <1>4, <2>5, <2>6 DEF LineItemsInv, FitsIfAssignable
<1> QED
  BY <1>3, <1>4 DEF BuildArcs

\* The answer is right when the search no longer reaches the sink; else the search starts at the source.
LEMMA LevelsKeeps == ASSUME LineItemsInv, Levels PROVE LineItemsInv'
<1>1. BasketTyped /\ Balanced /\ (\E i \in Items : basket[i] > 0) /\ UNCHANGED <<basket, limit, cap, passed>>
  BY DEF LineItemsInv, Levels
<1>2. BasketTyped' /\ Balanced' /\ (Assignable(basket)' <=> Assignable(basket))
  BY <1>1, BasketStaysTyped
<1>3. \E i \in Items : basket'[i] > 0
  BY <1>1
<1>4. CASE level'[Sink] # Unreached /\ fit' = "pushing" /\ trail' = <<Source>>
  <2>1. OnTrail'
    BY <1>4, LevelsOf, NodesApart DEF OnTrail
  <2> QED
    BY <1>2, <1>3, <1>4, <2>1 DEF LineItemsInv, FitsIfAssignable
<1>5. CASE /\ level'[Sink] = Unreached
           /\ fit' = IF \E i \in Items : cap[Source][i] > 0 THEN "refused" ELSE "fits"
  <2>1. (\A i \in Items : ~(cap[Source][i] > 0)) => Assignable(basket)
    <3>1. \A i \in Items : cap[Source][i] \in Nat
      BY <1>1, NodesApart DEF Balanced
    <3>2. (\A i \in Items : ~(cap[Source][i] > 0)) => \A i \in Items : cap[Source][i] = 0
      BY <3>1
    <3> QED
      BY <1>1, <3>2, PlacedAssigns
  <2>2. ASSUME NEW j \in Items, cap[Source][j] > 0 PROVE ~Assignable(basket)
    <3> DEFINE reached == Near[Cardinality(Nodes)]
    <3>1. reached \in SUBSET Nodes /\ Source \in reached
      <4>1. Cardinality(Nodes) \in 0..Cardinality(Nodes)
        BY NearSteps
      <4> QED
        BY <4>1, NearGrows
    <3>2. Sink \notin reached
      BY <1>5, LevelsOf, NodesApart
    <3>3. \A u \in reached, v \in Nodes : cap[u][v] > 0 => v \in reached
      BY NearCloses
    <3> HIDE DEF reached
    <3> QED
      BY <1>1, <2>2, <3>1, <3>2, <3>3, CutRefuses
  <2>3. FitsIfAssignable'
    BY <1>1, <1>2, <1>5, <2>1, <2>2 DEF FitsIfAssignable
  <2> QED
    BY <1>2, <1>5, <2>3 DEF LineItemsInv
<1> QED
  BY <1>4, <1>5 DEF Levels

\* The search goes on along an arc with room.
LEMMA AdvanceKeeps == ASSUME LineItemsInv, Advance PROVE LineItemsInv'
<1>1. /\ BasketTyped /\ Balanced /\ OnTrail /\ (\E i \in Items : basket[i] > 0)
      /\ UNCHANGED <<basket, limit, cap, level, passed, fit>> /\ fit = "pushing" /\ trail[Len(trail)] # Sink
  BY DEF LineItemsInv, Advance, Last
<1>2. BasketTyped' /\ Balanced'
  BY <1>1, BasketStaysTyped
<1>3. PICK v \in Nodes : Open(trail[Len(trail)], v) /\ trail' = Append(trail, v)
  BY DEF Advance, Last
<1>4. trail \in Seq(Nodes) /\ Len(trail) \in Nat /\ Len(trail) > 0 /\ trail[1] = Source
  BY <1>1 DEF OnTrail
<1>5. /\ trail' \in Seq(Nodes) /\ Len(trail') = Len(trail) + 1 /\ trail'[Len(trail) + 1] = v
      /\ \A n \in 1..Len(trail) : trail'[n] = trail[n]
  BY <1>3, <1>4
<1>6. level[v] = Len(trail) /\ cap[trail[Len(trail)]][v] > 0
  <2>1. level[trail[Len(trail)]] = Len(trail) - 1
    BY <1>1, <1>4 DEF OnTrail
  <2> QED
    BY <1>3, <1>4, <2>1 DEF Open
<1>7. ASSUME NEW n \in 1..Len(trail') PROVE level'[trail'[n]] = n - 1
  <2>1. CASE n = Len(trail) + 1
    BY <1>1, <1>4, <1>5, <1>6, <2>1
  <2>2. CASE n \in 1..Len(trail)
    BY <1>1, <1>5, <2>2 DEF OnTrail
  <2> QED
    BY <1>4, <1>5, <2>1, <2>2
<1>8. ASSUME NEW n \in 1..(Len(trail') - 1) PROVE cap'[trail'[n]][trail'[n + 1]] > 0 /\ trail'[n] # Sink
  <2>1. n \in 1..Len(trail) /\ trail'[n] = trail[n]
    BY <1>4, <1>5
  <2>2. CASE n = Len(trail)
    BY <1>1, <1>5, <1>6, <2>1, <2>2
  <2>3. CASE n # Len(trail)
    <3>1. n \in 1..(Len(trail) - 1) /\ n + 1 \in 1..Len(trail)
      BY <1>4, <2>1, <2>3
    <3>2. trail'[n + 1] = trail[n + 1]
      BY <1>5, <3>1
    <3> QED
      BY <1>1, <2>1, <3>1, <3>2 DEF OnTrail
  <2> QED
    BY <2>2, <2>3
<1>9. OnTrail'
  <2>1. Len(trail') > 0 /\ trail'[1] = Source
    BY <1>4, <1>5
  <2>2. level' \in [Nodes -> Int]
    BY <1>1 DEF OnTrail
  <2> QED
    BY <1>5, <1>7, <1>8, <2>1, <2>2 DEF OnTrail
<1> QED
  BY <1>1, <1>2, <1>9 DEF LineItemsInv, FitsIfAssignable

\* Giving up an arc changes no arc's room.
LEMMA RetreatKeeps == ASSUME LineItemsInv, Retreat PROVE LineItemsInv'
<1>1. /\ BasketTyped /\ Balanced /\ OnTrail /\ (\E i \in Items : basket[i] > 0)
      /\ UNCHANGED <<basket, limit, cap>> /\ fit = "pushing"
  BY DEF LineItemsInv, Retreat
<1>2. BasketTyped' /\ Balanced'
  BY <1>1, BasketStaysTyped
<1>3. CASE fit' = "levels"
  BY <1>1, <1>2, <1>3 DEF LineItemsInv, FitsIfAssignable
<1>4. CASE Len(trail) > 1 /\ trail' = SubSeq(trail, 1, Len(trail) - 1) /\ UNCHANGED <<level, fit>>
  <2>1. trail \in Seq(Nodes) /\ Len(trail) \in Nat
    BY <1>1 DEF OnTrail
  <2>2. /\ trail' \in Seq(Nodes) /\ Len(trail') = Len(trail) - 1
        /\ \A n \in 1..(Len(trail) - 1) : trail'[n] = trail[n]
    BY <1>4, <2>1
  <2>3. OnTrail'
    <3>1. Len(trail') > 0 /\ trail'[1] = Source /\ level' \in [Nodes -> Int]
      BY <1>1, <1>4, <2>1, <2>2 DEF OnTrail
    <3>2. ASSUME NEW n \in 1..Len(trail') PROVE level'[trail'[n]] = n - 1
      <4>1. n \in 1..Len(trail) /\ trail'[n] = trail[n]
        BY <2>1, <2>2
      <4>2. level[trail[n]] = n - 1
        BY <1>1, <4>1 DEF OnTrail
      <4> QED
        BY <1>4, <4>1, <4>2
    <3>3. ASSUME NEW n \in 1..(Len(trail') - 1) PROVE cap'[trail'[n]][trail'[n + 1]] > 0 /\ trail'[n] # Sink
      <4>1. n \in 1..(Len(trail) - 1) /\ n + 1 \in 1..(Len(trail) - 1)
        BY <2>1, <2>2
      <4>2. trail'[n] = trail[n] /\ trail'[n + 1] = trail[n + 1]
        BY <2>2, <4>1
      <4>3. cap[trail[n]][trail[n + 1]] > 0 /\ trail[n] # Sink
        BY <1>1, <4>1 DEF OnTrail
      <4> QED
        BY <1>1, <4>2, <4>3
    <3> QED
      BY <2>2, <3>1, <3>2, <3>3 DEF OnTrail
  <2> QED
    BY <1>1, <1>2, <1>4, <2>3 DEF LineItemsInv, FitsIfAssignable
<1> QED
  BY <1>3, <1>4 DEF Retreat

\* Pushing along a path keeps every arc and every node in balance.
LEMMA AugmentKeeps == ASSUME LineItemsInv, Augment PROVE LineItemsInv'
<1> DEFINE room == {cap[a[1]][a[2]] : a \in TrailArcs}
           pushed == Min(room)
<1>1. /\ BasketTyped /\ Balanced /\ OnTrail /\ (\E i \in Items : basket[i] > 0)
      /\ UNCHANGED <<basket, limit, level, fit>> /\ fit = "pushing" /\ Last(trail) = Sink
      /\ trail' = <<Source>>
  BY DEF LineItemsInv, Augment
<1>2. Path(TrailArcs) /\ TrailArcs # {}
  BY <1>1, TrailIsPath
<1>3. cap' = After(TrailArcs, pushed)
  BY DEF Augment, TrailArcs
<1>4. room \subseteq Nat /\ room # {} /\ \A u, v : <<u, v>> \in TrailArcs => cap[u][v] \in room
  <2>1. \A a \in TrailArcs : a = <<a[1], a[2]>>
    BY DEF TrailArcs
  <2>2. \A a \in TrailArcs : cap[a[1]][a[2]] \in Nat
    <3>1. ASSUME NEW a \in TrailArcs PROVE a[1] \in Nodes /\ a[2] \in Nodes
      <4> DEFINE u == a[1]
                 v == a[2]
      <4>1. <<u, v>> \in TrailArcs
        BY <2>1
      <4> HIDE DEF u, v
      <4>2. u \in Nodes /\ v \in Nodes
        BY <1>2, <4>1 DEF Path
      <4> QED
        BY <4>2 DEF u, v
    <3> QED
      BY <1>1, <3>1 DEF Balanced
  <2>3. \A u, v : <<u, v>> \in TrailArcs => cap[u][v] \in room
    <3> SUFFICES ASSUME NEW u, NEW v, <<u, v>> \in TrailArcs PROVE cap[u][v] \in room
      OBVIOUS
    <3>1. <<u, v>>[1] = u /\ <<u, v>>[2] = v
      OBVIOUS
    <3> QED
      BY <3>1
  <2> QED
    BY <1>2, <2>2, <2>3
<1>5. pushed \in Nat /\ \A u, v : <<u, v>> \in TrailArcs => pushed <= cap[u][v]
  <2> HIDE DEF room
  <2>1. pushed \in room /\ \A k \in room : pushed <= k
    BY <1>4, LeastIsMin
  <2> HIDE DEF pushed
  <2> QED
    BY <1>4, <2>1
<1> HIDE DEF pushed
<1>6. Balanced'
  BY <1>1, <1>2, <1>3, <1>5, PathBalances
<1>7. BasketTyped'
  BY <1>1, BasketStaysTyped
<1>8. OnTrail'
  <2>1. level[Source] = 0 /\ level \in [Nodes -> Int]
    <3>1. 1 \in 1..Len(trail) /\ trail[1] = Source
      BY <1>1 DEF OnTrail
    <3>2. level[trail[1]] = 0
      BY <1>1, <3>1 DEF OnTrail
    <3> QED
      BY <1>1, <3>1, <3>2 DEF OnTrail
  <2> QED
    BY <1>1, <2>1, NodesApart DEF OnTrail
<1> QED
  BY <1>1, <1>6, <1>7, <1>8 DEF LineItemsInv, FitsIfAssignable

\* It holds when the limit is first asked about.
LEMMA LineItemsStart == LineItemsInit => LineItemsInv
BY DEF LineItemsInit, LineItemsInv, BasketTyped, FitsIfAssignable

\* Every step of the search keeps it.
LEMMA LineItemsInductive == LineItemsInv /\ [LineItemsNext]_flowVars => LineItemsInv'
<1> SUFFICES ASSUME LineItemsInv, [LineItemsNext]_flowVars PROVE LineItemsInv'
  OBVIOUS
<1>1. CASE BuildArcs
  BY <1>1, BuildArcsKeeps
<1>2. CASE Levels
  BY <1>2, LevelsKeeps
<1>3. CASE Advance
  BY <1>3, AdvanceKeeps
<1>4. CASE Retreat
  BY <1>4, RetreatKeeps
<1>5. CASE Augment
  BY <1>5, AugmentKeeps
<1>6. CASE UNCHANGED flowVars
  <2>1. BasketTyped /\ UNCHANGED <<basket, limit, cap, level, trail, fit>>
    BY <1>6 DEF flowVars, LineItemsInv
  <2>2. BasketTyped' /\ (Balanced => Balanced') /\ (Assignable(basket)' <=> Assignable(basket))
    BY <2>1, BasketStaysTyped
  <2>3. OnTrail => OnTrail'
    BY <2>1 DEF OnTrail
  <2>4. FitsIfAssignable'
    BY <2>1, <2>2 DEF LineItemsInv, FitsIfAssignable
  <2> QED
    BY <2>1, <2>2, <2>3, <2>4 DEF LineItemsInv
<1> QED
  BY <1>1, <1>2, <1>3, <1>4, <1>5, <1>6 DEF LineItemsNext

\* lineItemsFit (constraints.ts): whatever order the search takes, the arcs keep a balance, and what is
\* placed can always be moved elsewhere.
THEOREM LineItemsInvariant == LineItemsSpec => []LineItemsInv
<1>1. LineItemsInv /\ [LineItemsNext]_flowVars => LineItemsInv'
  BY LineItemsInductive
<1> QED
  BY <1>1, LineItemsStart, PTL DEF LineItemsSpec

\* lineItemsFit lets a cart through exactly when its units can be assigned to requirements that accept
\* them and have room for them: for every catalog, every limit and every quantity.
THEOREM AlwaysFitsIfAssignable == LineItemsSpec => []FitsIfAssignable
<1>1. LineItemsInv => FitsIfAssignable
  BY DEF LineItemsInv
<1> QED
  BY <1>1, LineItemsInvariant, PTL
=============================================================================
