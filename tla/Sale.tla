-------------------------------- MODULE Sale --------------------------------
(***************************************************************************)
(* What the sale of one gated order promises the shopper and the shop,     *)
(* without the stores, the mutex and the requests that keep the promise:   *)
(* money is taken at most once, before the sale, and only an amount some   *)
(* shopper agreed to; the order is sold once, on the terms of one          *)
(* agreement, and for the money that was taken if any was; the shop is     *)
(* told at most once, of an order that is sold.  Checkout implements it.   *)
(***************************************************************************)
EXTENDS Integers, Sequences

VARIABLES agreed,   \* what shoppers agreed to: the rail and the amount of each accepted payment
          taken,    \* the amounts the processor took, in order
          sold,     \* the agreement the order was sold on, once it is
          told      \* how many times the shop was told of the sale

vars == <<agreed, taken, sold, told>>

Init == /\ agreed = {}
        /\ taken = << >>
        /\ sold = << >>
        /\ told = 0

\* Shoppers agree, before or after the sale; an agreement is never forgotten.
Agree == /\ agreed \subseteq agreed'
         /\ UNCHANGED <<taken, sold, told>>

Take(a) == /\ taken = << >>
           /\ sold = << >>
           /\ taken' = <<a.amount>>
           /\ UNCHANGED <<agreed, sold, told>>

Sell(a) == /\ sold = << >>
           /\ taken \in {<< >>, <<a.amount>>}
           /\ sold' = <<a>>
           /\ UNCHANGED <<agreed, taken, told>>

Tell == /\ sold # << >>
        /\ told = 0
        /\ told' = 1
        /\ UNCHANGED <<agreed, taken, sold>>

Next == \/ Agree
        \/ \E a \in agreed : Take(a) \/ Sell(a)
        \/ Tell

Spec == Init /\ [][Next]_vars
=============================================================================
