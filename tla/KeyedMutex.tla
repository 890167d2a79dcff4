----------------------------- MODULE KeyedMutex -----------------------------
(***************************************************************************)
(* The per-key promise chain of keyed-mutex.ts.  A `run' joins the tail of *)
(* its key's chain, executes when every earlier run of that key has        *)
(* settled (resolved or rejected, alike), and settles exactly once.  Keys  *)
(* do not contend.  A chain is the sequence of runs that have joined and   *)
(* not settled, oldest first; the oldest one is executing.                 *)
(*                                                                         *)
(* The mutex lives in one process: two instances of a server hold two      *)
(* unrelated `tails'.                                                      *)
(***************************************************************************)
EXTENDS Sequences

\* run(key, fn): chain fn behind the current tail of the key.
Join(tails, key, run) == [tails EXCEPT ![key] = Append(@, run)]

\* Mutant: fn is called at once, whoever is ahead.
ExecutingAtOnce(tails, key, run) == \E i \in DOMAIN tails[key] : tails[key][i] = run

\* The predecessor settled, so `prev.then(fn, fn)' has called this run's fn.
Executing(tails, key, run) == tails[key] # << >> /\ Head(tails[key]) = run

\* fn settled, by a value or by a throw: the next run of the key may start.
Settle(tails, key) == [tails EXCEPT ![key] = Tail(@)]

NoTails(keys) == [k \in keys |-> << >>]
=============================================================================
