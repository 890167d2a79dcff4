------------------------------ MODULE Allowance ------------------------------
(***************************************************************************)
(* What a spending grant promises the person who approved it, without any  *)
(* of the machinery that keeps the promise: nothing is charged before the  *)
(* approval or after the stop; a purchase key is charged at most once, for *)
(* an amount within the per-purchase cap; and the charges never add up to  *)
(* more than the budget.  DelegatedGrant and Grants implement it.          *)
(***************************************************************************)
EXTENDS Integers

CONSTANTS Keys,        \* idempotency keys of purchases
          Budget,      \* the most the charges may add up to
          PerSpend     \* the most one purchase may cost

VARIABLES phase,       \* "closed" (not approved yet), "open" or "stopped"
          charged,     \* amount charged under each key, 0 when none was
          spent        \* the sum of the charges

vars == <<phase, charged, spent>>

Init == /\ phase = "closed"
        /\ charged = [k \in Keys |-> 0]
        /\ spent = 0

Approve == /\ phase = "closed"
           /\ phase' = "open"
           /\ UNCHANGED <<charged, spent>>

Charge(k, amount) ==
  /\ phase = "open"
  /\ charged[k] = 0
  /\ 0 < amount
  /\ amount <= PerSpend
  /\ spent + amount <= Budget
  /\ charged' = [charged EXCEPT ![k] = amount]
  /\ spent' = spent + amount
  /\ UNCHANGED phase

\* The kill switch is final: there is no step out of "stopped".
Stop == /\ phase = "open"
        /\ phase' = "stopped"
        /\ UNCHANGED <<charged, spent>>

Next == \/ Approve
        \/ \E k \in Keys, amount \in 1 .. PerSpend : Charge(k, amount)
        \/ Stop

Spec == Init /\ [][Next]_vars
=============================================================================
