---------------------------- MODULE MCCeremonies ----------------------------
(***************************************************************************)
(* The age page of one order, in a wallet whose holder is old enough for   *)
(* whatever the order asks: 18, 21, or the 25 of a car hire.               *)
(***************************************************************************)
EXTENDS Ceremonies

MCRailsOf == [proof |-> Proofs]
MCQuotes == [total : {10}, limit : {18, 21, 25}]
MCTtl == [k \in Wallets \cup Prompts |-> 0]
MCMaxBuilt == [proof |-> 1]
=============================================================================
