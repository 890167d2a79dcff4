------------------------ MODULE DelegatedGrant_proofs ------------------------
(***************************************************************************)
(* What TLAPS proves of the spending engine, for every set of calls, every *)
(* catalog and every cap.                                                  *)
(*                                                                         *)
(* The inductive invariant has three layers.  Control says which calls are *)
(* inside the per-order mutex, and that those are the heads of their       *)
(* queues; Accounts says what each step has established about the ledger   *)
(* and the records; DrawsAreRecorded says that no draw is orphaned, but    *)
(* by a call the store failed.                                             *)
(***************************************************************************)
EXTENDS DelegatedGrant, TLAPS

Control ==
  \A c \in Calls :
    /\ step[c] # "idle" => purchase[c] \in Purchases /\ intent # NoIntent
    /\ step[c] \in InsideMutex => Executing(tails, purchase[c].key, c)

CallAccounts(c) ==
  LET k == purchase[c].key IN
  /\ step[c] = "committing" => 0 < total[c] /\ total[c] <= PerSpend
  /\ step[c] \notin {"settled", "done", "threw"} => verdict[c] = "none"
  /\ step[c] \in InsideMutex => completed[k] = 0
  /\ step[c] = "recording" => 0 < total[c] /\ draws[k] = total[c]
  /\ step[c] \in {"settled", "done"} /\ verdict[c] = "ok" => completed[k] > 0
  /\ result[c].ok => step[c] = "done" /\ verdict[c] = "ok"

Accounts ==
  /\ WithinCaps
  /\ \A k \in Keys : completed[k] > 0 => draws[k] = completed[k]
  /\ \A c \in Calls : CallAccounts(c)

Framed == EngineTypeOK /\ Control

EngineInv == Framed /\ Accounts

-----------------------------------------------------------------------------
(* The mutex: at most one call per key is inside it *)

\* One call of a key executes.
LEMMA MutexExcludes ==
  ASSUME NEW k, NEW c, NEW d, Executing(tails, k, c), Executing(tails, k, d)
  PROVE  c = d
BY DEF Executing

\* Joining a queue does not change who is at its head.
LEMMA JoinKeepsHead ==
  ASSUME NEW S, NEW q \in Seq(S), q # << >>, NEW x \in S
  PROVE  Append(q, x) # << >> /\ Head(Append(q, x)) = Head(q)
OBVIOUS

\* A call that has begun has a key and a product.
LEMMA KeyOf ==
  ASSUME Framed, NEW c \in Calls, step[c] # "idle"
  PROVE  purchase[c].key \in Keys /\ purchase[c].sku \in Skus
BY PurchasesAssumption DEF Framed, Control

\* A call that answers leaves the mutex; whoever else is inside stays the head of its queue.
LEMMA LeavesMutex ==
  ASSUME Framed, NEW c \in Calls, step[c] # "idle", Executing(tails, purchase[c].key, c),
         NEW s \in Steps \ (InsideMutex \cup {"idle"}),
         tails' = Settle(tails, purchase[c].key), Goto(c, s), UNCHANGED <<purchase, intent>>
  PROVE  tails' \in [Keys -> Seq(Calls)] /\ step' \in [Calls -> Steps] /\ Control'
<1> DEFINE k == purchase[c].key
<1>1. k \in Keys
  BY KeyOf
<1>2. tails[k] \in Seq(Calls) /\ tails[k] # << >>
  BY <1>1 DEF Framed, EngineTypeOK, Executing
<1>3. Tail(tails[k]) \in Seq(Calls)
  BY <1>2
<1>4. tails' \in [Keys -> Seq(Calls)]
  BY <1>1, <1>3 DEF Framed, EngineTypeOK, Settle
<1>5. step' \in [Calls -> Steps] /\ step'[c] = s /\ \A d \in Calls : d # c => step'[d] = step[d]
  BY DEF Framed, EngineTypeOK, Goto
<1>6. ASSUME NEW d \in Calls, step'[d] # "idle" PROVE purchase'[d] \in Purchases /\ intent' # NoIntent
  BY <1>5, <1>6 DEF Framed, Control
<1>7. ASSUME NEW d \in Calls, step'[d] \in InsideMutex PROVE Executing(tails', purchase'[d].key, d)
  <2>1. d # c /\ step[d] \in InsideMutex
    BY <1>5, <1>7
  <2>2. Executing(tails, purchase[d].key, d)
    BY <2>1 DEF Framed, Control
  <2>3. purchase[d].key # k
    BY <2>1, <2>2, MutexExcludes
  <2>4. purchase[d].key \in Keys
    BY <2>1, KeyOf DEF InsideMutex
  <2>5. tails'[purchase[d].key] = tails[purchase[d].key]
    BY <2>3, <2>4, <1>1 DEF Framed, EngineTypeOK, Settle
  <2> QED
    BY <2>2, <2>5 DEF Executing
<1> QED
  BY <1>4, <1>5, <1>6, <1>7 DEF Control

\* A call that is answered leaves the mutex and lets nobody else out.
LEMMA Answers ==
  ASSUME Framed, NEW c \in Calls, step[c] # "idle", Executing(tails, purchase[c].key, c),
         NEW v \in Verdicts, Answer(c, v), UNCHANGED <<purchase, intent>>
  PROVE  /\ tails' \in [Keys -> Seq(Calls)] /\ step' \in [Calls -> Steps]
         /\ verdict' \in [Calls -> Verdicts] /\ Control'
<1>1. "settled" \in Steps \ (InsideMutex \cup {"idle"})
  BY DEF Steps, InsideMutex
<1>2. tails' \in [Keys -> Seq(Calls)] /\ step' \in [Calls -> Steps] /\ Control'
  BY <1>1, LeavesMutex DEF Answer
<1> QED
  BY <1>2 DEF Answer, Framed, EngineTypeOK

\* A call that moves on without touching the queues, into the mutex only as the head of its queue.
LEMMA Moves ==
  ASSUME Framed, NEW c \in Calls, step[c] # "idle",
         NEW s \in Steps, s \in InsideMutex => Executing(tails, purchase[c].key, c),
         Goto(c, s), UNCHANGED <<tails, purchase, intent>>
  PROVE  step' \in [Calls -> Steps] /\ Control'
<1>1. step' \in [Calls -> Steps] /\ step'[c] = s /\ \A d \in Calls : d # c => step'[d] = step[d]
  BY DEF Framed, EngineTypeOK, Goto
<1> QED
  BY <1>1 DEF Framed, Control

\* Who stands inside the mutex executes.
LEMMA InMutex ==
  ASSUME Framed, NEW c \in Calls, step[c] \in InsideMutex
  PROVE  step[c] # "idle" /\ Executing(tails, purchase[c].key, c)
BY DEF Framed, Control, InsideMutex

-----------------------------------------------------------------------------
(* Types and control are inductive *)

\* An order of a whole quantity of priced products has a total.
LEMMA TotalIsInt ==
  ASSUME EngineTypeOK, intent # NoIntent, NEW p \in Purchases, IsWholeQuantity(p.qty), Priced(p)
  PROVE  OrderTotal(p) \in Int
<1>1. p.sku \in Skus /\ p.qty \in Int
  BY PurchasesAssumption DEF IsWholeQuantity
<1>2. catalog[p.sku].price \in Nat
  BY <1>1 DEF EngineTypeOK, Priced, Entries
<1>3. intent.pct \in Nat
  BY TermsAssumption DEF EngineTypeOK
<1> QED
  BY <1>1, <1>2, <1>3 DEF OrderTotal, LoyaltyDiscount

\* What checkDraw says is a verdict.
LEMMA CheckedVerdict ==
  ASSUME NEW c \in Calls
  PROVE  CheckDraw(c) \in Verdicts
BY DEF CheckDraw, Verdicts, Refusals

\* What commitDraw says.
LEMMA CommitVerdict ==
  ASSUME NEW k, NEW a
  PROVE  CommitDraw(k, a) \in {"revoked", "consumed", "over-total", "ok"}
BY DEF CommitDraw

\* Starting a call: no other call is affected.
LEMMA SpendFramed ==
  ASSUME Framed, NEW c \in Calls, NEW p \in Purchases, Spend(c, p)
  PROVE  Framed'
<1> USE DEF Framed
<1>1. \E s \in {"settled", "threw", "signing"} : Goto(c, s)
  BY DEF Spend, RefuseQuantity, UnknownItem, SignDraw
<1>2. step' \in [Calls -> Steps] /\ step'[c] \notin InsideMutex /\ \A d \in Calls : d # c => step'[d] = step[d]
  BY <1>1 DEF EngineTypeOK, Goto, Steps, InsideMutex
<1>3. purchase' \in [Calls -> Purchases \cup {NoPurchase}] /\ purchase'[c] = p
      /\ \A d \in Calls : d # c => purchase'[d] = purchase[d]
  BY DEF Spend, EngineTypeOK
<1>4. verdict' \in [Calls -> Verdicts]
  BY DEF Spend, RefuseQuantity, UnknownItem, SignDraw, EngineTypeOK, Verdicts, Refusals
<1>5. total' \in [Calls -> Int]
  BY TotalIsInt DEF Spend, RefuseQuantity, UnknownItem, SignDraw, EngineTypeOK
<1>6. Control'
  BY <1>2, <1>3 DEF Spend, Control
<1> QED
  BY <1>2, <1>3, <1>4, <1>5, <1>6 DEF Spend, EngineTypeOK, ledger, reads
\* Every step keeps the types, and the mutex with those inside it.
LEMMA FramedStep ==
  ASSUME EngineInv, [EngineNext]_engineVars
  PROVE  Framed'
<1> USE DEF Framed, EngineInv
<1>1. ASSUME NEW t \in Terms, PreApprove(t) PROVE Framed'
  BY <1>1, TermsAssumption DEF PreApprove, ledger, reads, EngineTypeOK, Control
<1>2. ASSUME NEW new \in Catalogs, ChangeCatalog(new) PROVE Framed'
  BY <1>2, CatalogsAssumption DEF ChangeCatalog, ledger, reads, EngineTypeOK, Control
<1>3. CASE Revoke
  BY <1>3 DEF Revoke, reads, EngineTypeOK, Control
<1>4. ASSUME NEW c \in Calls, NEW p \in Purchases, Spend(c, p) PROVE Framed'
  BY <1>4, SpendFramed
<1>5. ASSUME NEW c \in Calls, CompleteOrder(c) PROVE Framed'
  <2>1. purchase[c].key \in Keys /\ step[c] # "idle"
    BY <1>5, KeyOf DEF CompleteOrder
  <2>2. tails' \in [Keys -> Seq(Calls)]
    BY <1>5, <2>1 DEF CompleteOrder, Join, EngineTypeOK
  <2>3. step' \in [Calls -> Steps] /\ step'[c] = "queued" /\ \A d \in Calls : d # c => step'[d] = step[d]
    BY <1>5 DEF CompleteOrder, Goto, EngineTypeOK, Steps
  <2>4. ASSUME NEW d \in Calls, step'[d] \in InsideMutex PROVE Executing(tails', purchase'[d].key, d)
    <3>1. d # c /\ step[d] \in InsideMutex /\ purchase' = purchase
      BY <2>3, <2>4, <1>5 DEF InsideMutex, CompleteOrder
    <3>2. purchase[d].key \in Keys /\ Executing(tails, purchase[d].key, d)
      BY <3>1, KeyOf, InMutex
    <3>3. tails[purchase[d].key] \in Seq(Calls)
      BY <3>2 DEF EngineTypeOK
    <3>4. Append(tails[purchase[d].key], c) # << >> /\ Head(Append(tails[purchase[d].key], c)) = d
      BY <3>2, <3>3, JoinKeepsHead DEF Executing
    <3>5. tails'[purchase[d].key] \in {tails[purchase[d].key], Append(tails[purchase[d].key], c)}
      BY <1>5, <2>1, <3>2 DEF CompleteOrder, Join, EngineTypeOK
    <3> QED
      BY <3>1, <3>2, <3>4, <3>5 DEF Executing
  <2> QED
    BY <1>5, <2>1, <2>2, <2>3, <2>4 DEF CompleteOrder, EngineTypeOK, Control, ledger, reads
<1>6. ASSUME NEW c \in Calls, Lookup(c) PROVE Framed'
  <2>1. step[c] # "idle" /\ Executing(tails, purchase[c].key, c)
    BY <1>6 DEF Lookup
  <2>2. "ok" \in Verdicts /\ "repricing" \in Steps
    BY DEF Verdicts, Steps
  <2>3. CASE Answer(c, "ok")
    BY <1>6, <2>1, <2>2, <2>3, Answers DEF Lookup, EngineTypeOK, ledger, reads
  <2>4. CASE Proceed(c, "repricing")
    BY <1>6, <2>1, <2>2, <2>4, Moves DEF Lookup, Proceed, EngineTypeOK, ledger, reads
  <2> QED
    BY <1>6, <2>3, <2>4 DEF Lookup
<1>7. ASSUME NEW c \in Calls, Reprice(c) PROVE Framed'
  <2>1. step[c] \in InsideMutex
    BY <1>7 DEF Reprice, InsideMutex
  <2>2. {"reprice", "step-up"} \subseteq Verdicts /\ "reading" \in Steps
    BY DEF Verdicts, Refusals, Steps
  <2>3. sawRevoked' \in [Calls -> BOOLEAN]
    BY <1>7 DEF Reprice, EngineTypeOK
  <2>4. ASSUME NEW v \in {"reprice", "step-up"}, Answer(c, v) PROVE Framed'
    BY <1>7, <2>1, <2>2, <2>3, <2>4, InMutex, Answers DEF Reprice, EngineTypeOK, ledger, reads
  <2>5. CASE Proceed(c, "reading")
    BY <1>7, <2>1, <2>2, <2>3, <2>5, InMutex, Moves DEF Reprice, Proceed, EngineTypeOK, ledger, reads
  <2> QED
    BY <1>7, <2>4, <2>5 DEF Reprice
<1>8. ASSUME NEW c \in Calls, RepriceThrows(c) PROVE Framed'
  <2>1. step[c] \in InsideMutex /\ "threw" \in Steps \ (InsideMutex \cup {"idle"})
    BY <1>8 DEF RepriceThrows, InsideMutex, Steps
  <2> QED
    BY <1>8, <2>1, InMutex, LeavesMutex DEF RepriceThrows, EngineTypeOK, ledger, reads
<1>9. ASSUME NEW c \in Calls, ReadPrior(c) PROVE Framed'
  <2>1. step[c] \in InsideMutex /\ "checking" \in Steps
    BY <1>9 DEF ReadPrior, InsideMutex, Steps
  <2>2. sawLedger' \in [Calls -> BOOLEAN]
    BY <1>9 DEF ReadPrior, EngineTypeOK
  <2> QED
    BY <1>9, <2>1, <2>2, InMutex, Moves DEF ReadPrior, Proceed, EngineTypeOK, ledger
<1>10. ASSUME NEW c \in Calls, StoreFails(c) PROVE Framed'
  <2>1. step[c] \in InsideMutex /\ "revocation-unavailable" \in Verdicts
    BY <1>10 DEF StoreFails, InsideMutex, Verdicts, Refusals
  <2> QED
    BY <1>10, <2>1, InMutex, Answers DEF StoreFails, EngineTypeOK, ledger, reads
<1>11. ASSUME NEW c \in Calls, Check(c) PROVE Framed'
  <2>1. step[c] \in InsideMutex /\ "revoked" \in Verdicts /\ "committing" \in Steps
    BY <1>11 DEF Check, InsideMutex, Verdicts, Refusals, Steps
  <2>2. ASSUME NEW v \in Verdicts, Answer(c, v) PROVE Framed'
    BY <1>11, <2>1, <2>2, InMutex, Answers DEF Check, EngineTypeOK, ledger, reads
  <2>3. CASE Proceed(c, "committing")
    BY <1>11, <2>1, <2>3, InMutex, Moves DEF Check, Proceed, EngineTypeOK, ledger, reads
  <2> QED
    BY <1>11, <2>1, <2>2, <2>3, CheckedVerdict DEF Check
<1>12. ASSUME NEW c \in Calls, CommitRefused(c) PROVE Framed'
  <2>1. step[c] \in InsideMutex
    BY <1>12 DEF CommitRefused, InsideMutex
  <2>2. PICK v \in Verdicts : Answer(c, v)
    BY <1>12, CommitVerdict DEF CommitRefused, Verdicts, Refusals
  <2> QED
    BY <1>12, <2>1, <2>2, InMutex, Answers DEF CommitRefused, EngineTypeOK, ledger, reads
<1>13. ASSUME NEW c \in Calls, Commit(c) PROVE Framed'
  <2>1. step[c] \in InsideMutex /\ "recording" \in Steps
    BY <1>13 DEF Commit, InsideMutex, Steps
  <2>2. purchase[c].key \in Keys /\ total[c] \in Nat
    BY <1>13, KeyOf DEF Commit, Accounts, CallAccounts, EngineTypeOK
  <2>3. draws' \in [Keys -> Nat] /\ spent' \in Nat
    BY <1>13, <2>2 DEF Commit, AppendDraw, EngineTypeOK
  <2> QED
    BY <1>13, <2>1, <2>3, InMutex, Moves DEF Commit, Proceed, EngineTypeOK, reads
<1>14. ASSUME NEW c \in Calls, CommitFails(c) PROVE Framed'
  <2>1. step[c] \in InsideMutex /\ "revocation-unavailable" \in Verdicts
    BY <1>14 DEF CommitFails, InsideMutex, Verdicts, Refusals
  <2>2. purchase[c].key \in Keys /\ total[c] \in Nat
    BY <1>14, KeyOf DEF CommitFails, Accounts, CallAccounts, EngineTypeOK
  <2>3. draws' \in [Keys -> Nat] /\ spent' \in Nat
    BY <1>14, <2>2, SMTT(30) DEF CommitFails, AppendDraw, EngineTypeOK
  <2> QED
    BY <1>14, <2>1, <2>3, InMutex, Answers DEF CommitFails, EngineTypeOK, reads
<1>15. ASSUME NEW c \in Calls, Record(c) PROVE Framed'
  <2>1. step[c] \in InsideMutex /\ "ok" \in Verdicts
    BY <1>15 DEF Record, InsideMutex, Verdicts
  <2>2. purchase[c].key \in Keys /\ total[c] \in Nat
    BY <1>15, KeyOf DEF Record, Accounts, CallAccounts, EngineTypeOK
  <2>3. completed' \in [Keys -> Nat]
    BY <1>15, <2>2 DEF Record, EngineTypeOK
  <2> QED
    BY <1>15, <2>1, <2>3, InMutex, Answers DEF Record, EngineTypeOK, ledger, reads
<1>16. ASSUME NEW c \in Calls, Return(c) PROVE Framed'
  <2>1. step[c] # "idle" /\ "done" \in Steps /\ "done" \notin InsideMutex
    BY <1>16 DEF Return, Steps, InsideMutex
  <2>2. result' \in [Calls -> [ok : BOOLEAN, amount : Int, remaining : Int, reason : Verdicts]]
    BY <1>16, CapsAssumption DEF Return, EngineTypeOK
  <2> QED
    BY <1>16, <2>1, <2>2, Moves DEF Return, EngineTypeOK, ledger, reads
<1>17. ASSUME NEW c \in Calls, ReturnThrows(c) PROVE Framed'
  <2>1. step[c] # "idle" /\ "threw" \in Steps /\ "threw" \notin InsideMutex
    BY <1>17 DEF ReturnThrows, Steps, InsideMutex
  <2> QED
    BY <1>17, <2>1, Moves DEF ReturnThrows, EngineTypeOK, ledger, reads
<1>18. CASE UNCHANGED engineVars
  BY <1>18 DEF engineVars, EngineTypeOK, Control
<1> QED
  BY <1>1, <1>2, <1>3, <1>4, <1>5, <1>6, <1>7, <1>8, <1>9, <1>10, <1>11, <1>12, <1>13, <1>14,
     <1>15, <1>16, <1>17, <1>18 DEF EngineNext, Environment, CallStep

-----------------------------------------------------------------------------
(* The accounts are inductive *)

\* A step of c that leaves ledger and records alone changes nothing of the other calls' accounts.
LEMMA OthersKeepAccounts ==
  ASSUME EngineInv, NEW c \in Calls,
         UNCHANGED <<draws, completed>>,
         \A d \in Calls : d # c =>
           /\ step'[d] = step[d] /\ purchase'[d] = purchase[d] /\ total'[d] = total[d]
           /\ verdict'[d] = verdict[d] /\ result'[d] = result[d]
  PROVE  \A d \in Calls : d # c => CallAccounts(d)'
BY DEF EngineInv, Accounts, CallAccounts

\* A call that goes on leaves the others where they are.
LEMMA OthersUntouched ==
  ASSUME Framed, NEW c \in Calls, NEW s, Goto(c, s)
  PROVE  step'[c] = s /\ \A d \in Calls : d # c => step'[d] = step[d]
BY DEF Framed, EngineTypeOK, Goto

\* A refusal changes nothing that is accounted for.
LEMMA RefusalAccounts ==
  ASSUME EngineInv, NEW c \in Calls, step[c] # "done", NEW v \in Refusals, Answer(c, v),
         UNCHANGED <<draws, spent, completed, purchase, total, result>>
  PROVE  Accounts'
<1>1. step'[c] = "settled" /\ verdict'[c] = v /\ v # "ok"
  BY DEF EngineInv, Framed, EngineTypeOK, Answer, Goto, Refusals
<1>2. \A d \in Calls : d # c => step'[d] = step[d] /\ verdict'[d] = verdict[d]
  BY DEF EngineInv, Framed, EngineTypeOK, Answer, Goto
<1>3. CallAccounts(c)'
  BY <1>1 DEF CallAccounts, EngineInv, Accounts, InsideMutex
<1>4. \A d \in Calls : d # c => CallAccounts(d)'
  BY <1>2, OthersKeepAccounts
<1> QED
  BY <1>3, <1>4 DEF EngineInv, Accounts, WithinCaps

\* From one step to the next without a verdict: what the new step claims must hold already.
LEMMA ProceedAccounts ==
  ASSUME EngineInv, NEW c \in Calls, step[c] # "done",
         NEW s \in Steps \ {"recording", "settled", "done"}, Goto(c, s), UNCHANGED verdict,
         s # "threw" => step[c] \notin {"settled", "done", "threw"},
         s \in InsideMutex => completed[purchase[c].key] = 0,
         s = "committing" => 0 < total[c] /\ total[c] <= PerSpend,
         UNCHANGED <<draws, spent, completed, purchase, total, result>>
  PROVE  Accounts'
<1>1. step'[c] = s /\ \A d \in Calls : d # c => step'[d] = step[d]
  BY OthersUntouched DEF EngineInv
<1>2. CallAccounts(c)'
  BY <1>1 DEF CallAccounts, EngineInv, Accounts
<1>3. \A d \in Calls : d # c => CallAccounts(d)'
  BY <1>1, OthersKeepAccounts
<1> QED
  BY <1>2, <1>3 DEF EngineInv, Accounts, WithinCaps

\* A draw that passes checkDraw is positive and within the cap.
LEMMA PassedCheck ==
  ASSUME EngineInv, NEW c \in Calls, CheckDraw(c) = "ok"
  PROVE  0 < total[c] /\ total[c] <= PerSpend
<1>1. total[c] \in Int /\ PerSpend \in Nat
  BY CapsAssumption DEF EngineInv, Framed, EngineTypeOK
<1> QED
  BY <1>1 DEF CheckDraw

\* A draw that does not is refused.
LEMMA RefusedCheck ==
  ASSUME NEW c \in Calls, CheckDraw(c) # "ok"
  PROVE  CheckDraw(c) \in Refusals
BY DEF CheckDraw, Refusals

\* Whoever else is inside the mutex is there for another key.
LEMMA OtherKeys ==
  ASSUME Framed, NEW c \in Calls, NEW d \in Calls, d # c,
         step[c] \in InsideMutex, step[d] \in InsideMutex
  PROVE  purchase[d].key # purchase[c].key
BY InMutex, MutexExcludes

\* Every step keeps the ledger, its sum, the records and the answers in agreement.
LEMMA AccountsStep ==
  ASSUME EngineInv, [EngineNext]_engineVars
  PROVE  Accounts'
<1> USE DEF EngineInv
<1>1. ASSUME NEW t \in Terms, PreApprove(t) PROVE Accounts'
  BY <1>1 DEF PreApprove, ledger, Accounts, WithinCaps, CallAccounts
<1>2. ASSUME NEW new \in Catalogs, ChangeCatalog(new) PROVE Accounts'
  BY <1>2 DEF ChangeCatalog, ledger, Accounts, WithinCaps, CallAccounts
<1>3. CASE Revoke
  BY <1>3 DEF Revoke, Accounts, WithinCaps, CallAccounts
<1>4. ASSUME NEW c \in Calls, NEW p \in Purchases, Spend(c, p) PROVE Accounts'
  <2>1. step[c] = "idle" /\ UNCHANGED <<draws, spent, completed, result>>
    BY <1>4 DEF Spend, ledger
  <2>2. /\ step'[c] \in {"settled", "threw", "signing"}
        /\ step'[c] = "settled" => verdict'[c] = "invalid-amount"
        /\ step'[c] = "signing" => verdict'[c] = verdict[c]
        /\ \A d \in Calls : d # c =>
             /\ step'[d] = step[d] /\ purchase'[d] = purchase[d] /\ total'[d] = total[d]
             /\ verdict'[d] = verdict[d] /\ result'[d] = result[d]
    BY <1>4, <2>1 DEF Spend, RefuseQuantity, UnknownItem, SignDraw, Goto, Framed, EngineTypeOK
  <2>3. CallAccounts(c)'
    BY <2>1, <2>2 DEF CallAccounts, Accounts, InsideMutex
  <2>4. \A d \in Calls : d # c => CallAccounts(d)'
    BY <2>1, <2>2, OthersKeepAccounts
  <2> QED
    BY <2>1, <2>3, <2>4 DEF Accounts, WithinCaps
<1>5. ASSUME NEW c \in Calls, CompleteOrder(c) PROVE Accounts'
  BY <1>5, ProceedAccounts DEF CompleteOrder, ledger, Steps, InsideMutex
<1>6. ASSUME NEW c \in Calls, Lookup(c) PROVE Accounts'
  <2>1. CASE completed[purchase[c].key] > 0 /\ Answer(c, "ok")
    <3>1. step'[c] = "settled" /\ \A d \in Calls : d # c => step'[d] = step[d] /\ verdict'[d] = verdict[d]
      BY <2>1 DEF Framed, EngineTypeOK, Answer, Goto
    <3>2. CallAccounts(c)'
      BY <1>6, <2>1, <3>1 DEF Lookup, CallAccounts, Accounts, InsideMutex
    <3>3. \A d \in Calls : d # c => CallAccounts(d)'
      BY <1>6, <3>1, OthersKeepAccounts DEF Lookup, ledger
    <3> QED
      BY <1>6, <3>2, <3>3 DEF Lookup, ledger, Accounts, WithinCaps
  <2>2. CASE completed[purchase[c].key] = 0 /\ Proceed(c, "repricing")
    BY <1>6, <2>2, ProceedAccounts DEF Lookup, Proceed, ledger, Steps
  <2> QED
    BY <1>6, <2>1, <2>2 DEF Lookup
<1>7. ASSUME NEW c \in Calls, Reprice(c) PROVE Accounts'
  <2>1. completed[purchase[c].key] = 0
    BY <1>7 DEF Reprice, Accounts, CallAccounts, InsideMutex
  <2>2. ASSUME NEW v \in {"reprice", "step-up"}, Answer(c, v) PROVE Accounts'
    BY <1>7, <2>2, RefusalAccounts DEF Reprice, ledger, Refusals
  <2>3. CASE Proceed(c, "reading")
    BY <1>7, <2>1, <2>3, ProceedAccounts DEF Reprice, Proceed, ledger, Steps
  <2> QED
    BY <1>7, <2>2, <2>3 DEF Reprice
<1>8. ASSUME NEW c \in Calls, RepriceThrows(c) PROVE Accounts'
  BY <1>8, ProceedAccounts DEF RepriceThrows, ledger, Steps, InsideMutex
<1>9. ASSUME NEW c \in Calls, ReadPrior(c) PROVE Accounts'
  <2>1. completed[purchase[c].key] = 0
    BY <1>9 DEF ReadPrior, Accounts, CallAccounts, InsideMutex
  <2> QED
    BY <1>9, <2>1, ProceedAccounts DEF ReadPrior, Proceed, ledger, Steps
<1>10. ASSUME NEW c \in Calls, StoreFails(c) PROVE Accounts'
  BY <1>10, RefusalAccounts DEF StoreFails, ledger, Refusals
<1>11. ASSUME NEW c \in Calls, Check(c) PROVE Accounts'
  <2>1. completed[purchase[c].key] = 0
    BY <1>11 DEF Check, Accounts, CallAccounts, InsideMutex
  <2>2. ASSUME NEW v \in Refusals, Answer(c, v) PROVE Accounts'
    BY <1>11, <2>2, RefusalAccounts DEF Check, ledger
  <2>3. CASE CheckDraw(c) = "ok" /\ Proceed(c, "committing")
    BY <1>11, <2>1, <2>3, PassedCheck, ProceedAccounts DEF Check, Proceed, ledger, Steps
  <2> QED
    BY <1>11, <2>2, <2>3, RefusedCheck DEF Check, Refusals
<1>12. ASSUME NEW c \in Calls, CommitRefused(c) PROVE Accounts'
  <2>1. PICK v \in Refusals : Answer(c, v)
    BY <1>12, CommitVerdict DEF CommitRefused, Refusals
  <2> QED
    BY <1>12, <2>1, RefusalAccounts DEF CommitRefused, ledger
<1>13. ASSUME NEW c \in Calls, Commit(c) PROVE Accounts'
  <2> DEFINE k == purchase[c].key
  <2>1. /\ step[c] \in InsideMutex /\ k \in Keys /\ completed[k] = 0
        /\ 0 < total[c] /\ total[c] <= PerSpend /\ total[c] \in Int
    BY <1>13, KeyOf DEF Commit, InsideMutex, Accounts, CallAccounts, Framed, EngineTypeOK
  <2>2. draws[k] = 0 /\ spent + total[c] <= Budget
    BY <1>13, <2>1, CapsAssumption DEF Commit, CommitDraw, Framed, EngineTypeOK
  <2>3. draws' = [draws EXCEPT ![k] = total[c]] /\ spent' = spent + total[c]
        /\ UNCHANGED <<completed, purchase, total, verdict, result>>
    BY <1>13 DEF Commit, AppendDraw, Proceed
  <2>4. step'[c] = "recording" /\ \A d \in Calls : d # c => step'[d] = step[d]
    BY <1>13, OthersUntouched DEF Commit, Proceed
  <2>5. WithinCaps'
    BY <2>1, <2>2, <2>3 DEF Accounts, WithinCaps, Framed, EngineTypeOK
  <2>6. \A j \in Keys : completed'[j] > 0 => draws'[j] = completed'[j]
    BY <2>1, <2>3 DEF Accounts, Framed, EngineTypeOK
  <2>7. CallAccounts(c)'
    <3>1. draws'[k] = total[c] /\ completed'[k] = 0
      BY <2>1, <2>3 DEF Framed, EngineTypeOK
    <3> QED
      BY <2>1, <2>3, <2>4, <3>1 DEF CallAccounts, Accounts, InsideMutex
  <2>8. ASSUME NEW d \in Calls, d # c PROVE CallAccounts(d)'
    <3>1. step[d] = "recording" => purchase[d].key # k /\ purchase[d].key \in Keys
      BY <2>1, <2>8, OtherKeys, KeyOf DEF InsideMutex
    <3>2. step[d] = "recording" => draws'[purchase[d].key] = draws[purchase[d].key]
      BY <2>3, <3>1 DEF Framed, EngineTypeOK
    <3> QED
      BY <2>3, <2>4, <2>8, <3>2 DEF CallAccounts, Accounts
  <2> QED
    BY <2>5, <2>6, <2>7, <2>8 DEF Accounts
<1>14. ASSUME NEW c \in Calls, CommitFails(c) PROVE Accounts'
  <2> DEFINE k == purchase[c].key
  <2>1. /\ step[c] \in InsideMutex /\ k \in Keys /\ completed[k] = 0
        /\ 0 < total[c] /\ total[c] <= PerSpend /\ total[c] \in Int
    BY <1>14, KeyOf DEF CommitFails, InsideMutex, Accounts, CallAccounts, Framed, EngineTypeOK
  <2>2. CASE UNCHANGED <<draws, spent>>
    BY <1>14, <2>2, RefusalAccounts DEF CommitFails, Refusals
  <2>3. CASE CommitDraw(k, total[c]) = "ok" /\ AppendDraw(k, total[c])
    <3>1. spent + total[c] <= Budget
      BY <2>1, <2>3, CapsAssumption DEF CommitDraw, Framed, EngineTypeOK
    <3>2. draws' = [draws EXCEPT ![k] = total[c]] /\ spent' = spent + total[c]
          /\ UNCHANGED <<completed, purchase, total, result>>
      BY <1>14, <2>3 DEF CommitFails, AppendDraw
    <3>3. step'[c] = "settled" /\ verdict'[c] = "revocation-unavailable"
          /\ \A d \in Calls : d # c => step'[d] = step[d] /\ verdict'[d] = verdict[d]
      BY <1>14 DEF CommitFails, Answer, Goto, Framed, EngineTypeOK
    <3>4. WithinCaps'
      BY <2>1, <3>1, <3>2 DEF Accounts, WithinCaps, Framed, EngineTypeOK
    <3>5. \A j \in Keys : completed'[j] > 0 => draws'[j] = completed'[j]
      BY <2>1, <3>2 DEF Accounts, Framed, EngineTypeOK
    <3>6. CallAccounts(c)'
      BY <2>1, <3>2, <3>3 DEF CallAccounts, Accounts, InsideMutex
    <3>7. ASSUME NEW d \in Calls, d # c PROVE CallAccounts(d)'
      <4>1. step[d] = "recording" => purchase[d].key # k /\ purchase[d].key \in Keys
        BY <2>1, <3>7, OtherKeys, KeyOf DEF InsideMutex
      <4>2. step[d] = "recording" => draws'[purchase[d].key] = draws[purchase[d].key]
        BY <3>2, <4>1 DEF Framed, EngineTypeOK
      <4> QED
        BY <3>2, <3>3, <3>7, <4>2 DEF CallAccounts, Accounts
    <3> QED
      BY <3>4, <3>5, <3>6, <3>7 DEF Accounts
  <2> QED
    BY <1>14, <2>2, <2>3 DEF CommitFails
<1>15. ASSUME NEW c \in Calls, Record(c) PROVE Accounts'
  <2> DEFINE k == purchase[c].key
  <2>1. /\ step[c] \in InsideMutex /\ k \in Keys
        /\ 0 < total[c] /\ draws[k] = total[c] /\ total[c] \in Int
    BY <1>15, KeyOf DEF Record, InsideMutex, Accounts, CallAccounts, Framed, EngineTypeOK
  <2>2. completed' = [completed EXCEPT ![k] = total[c]]
        /\ UNCHANGED <<draws, spent, purchase, total, result>>
    BY <1>15 DEF Record, ledger
  <2>3. step'[c] = "settled" /\ \A d \in Calls : d # c => step'[d] = step[d] /\ verdict'[d] = verdict[d]
    BY <1>15 DEF Record, Answer, Goto, Framed, EngineTypeOK
  <2>4. WithinCaps'
    BY <2>2 DEF Accounts, WithinCaps
  <2>5. \A j \in Keys : completed'[j] > 0 => draws'[j] = completed'[j]
    BY <2>1, <2>2 DEF Accounts, Framed, EngineTypeOK
  <2>6. CallAccounts(c)'
    BY <1>15, <2>1, <2>2, <2>3 DEF CallAccounts, Accounts, Framed, EngineTypeOK, InsideMutex, Record
  <2>7. ASSUME NEW d \in Calls, d # c PROVE CallAccounts(d)'
    <3>1. step[d] \in InsideMutex => purchase[d].key # k
      BY <2>1, <2>7, OtherKeys
    <3>2. completed[purchase[d].key] > 0 => completed'[purchase[d].key] > 0
      BY <2>1, <2>2 DEF Framed, EngineTypeOK
    <3>3. purchase[d].key # k => completed'[purchase[d].key] = completed[purchase[d].key]
      BY <2>2 DEF Framed, EngineTypeOK
    <3> QED
      BY <2>2, <2>3, <2>7, <3>1, <3>2, <3>3 DEF CallAccounts, Accounts, InsideMutex
  <2> QED
    BY <2>4, <2>5, <2>6, <2>7 DEF Accounts
<1>16. ASSUME NEW c \in Calls, Return(c) PROVE Accounts'
  <2>1. step[c] = "settled" /\ UNCHANGED <<draws, spent, completed, purchase, total, verdict>>
    BY <1>16 DEF Return, ledger
  <2>2. step'[c] = "done" /\ \A d \in Calls : d # c => step'[d] = step[d]
    BY <1>16, OthersUntouched DEF Return
  <2>3. result'[c].ok => verdict[c] = "ok"
    BY <1>16 DEF Return, Framed, EngineTypeOK
  <2>4. \A d \in Calls : d # c => result'[d] = result[d]
    BY <1>16 DEF Return, Framed, EngineTypeOK
  <2>5. CallAccounts(c)'
    BY <2>1, <2>2, <2>3 DEF CallAccounts, Accounts, InsideMutex
  <2>6. \A d \in Calls : d # c => CallAccounts(d)'
    BY <2>1, <2>2, <2>4, OthersKeepAccounts
  <2>7. WithinCaps'
    BY <2>1 DEF Accounts, WithinCaps
  <2> QED
    BY <2>1, <2>5, <2>6, <2>7 DEF Accounts
<1>17. ASSUME NEW c \in Calls, ReturnThrows(c) PROVE Accounts'
  BY <1>17, ProceedAccounts DEF ReturnThrows, ledger, Steps, InsideMutex
<1>18. CASE UNCHANGED engineVars
  BY <1>18 DEF engineVars, Accounts, WithinCaps, CallAccounts
<1> QED
  BY <1>1, <1>2, <1>3, <1>4, <1>5, <1>6, <1>7, <1>8, <1>9, <1>10, <1>11, <1>12, <1>13, <1>14,
     <1>15, <1>16, <1>17, <1>18 DEF EngineNext, Environment, CallStep

-----------------------------------------------------------------------------
(* Invariance *)

\* It holds before the first call.
LEMMA EngineInitInv ==
  ASSUME EngineInit
  PROVE  EngineInv
<1>1. EngineTypeOK
  <2>1. catalog \in [Skus -> Entries \cup {Absent}]
    BY CatalogsAssumption DEF EngineInit
  <2>2. tails \in [Keys -> Seq(Calls)]
    BY DEF EngineInit, NoTails
  <2>3. step \in [Calls -> Steps] /\ verdict \in [Calls -> Verdicts]
    BY DEF EngineInit, Steps, Verdicts
  <2>4. result \in [Calls -> [ok : BOOLEAN, amount : Int, remaining : Int, reason : Verdicts]]
    BY DEF EngineInit, NoResult, Verdicts
  <2>5. draws \in [Keys -> Nat] /\ completed \in [Keys -> Nat] /\ total \in [Calls -> Int]
    BY DEF EngineInit
  <2>6. sawRevoked \in [Calls -> BOOLEAN] /\ sawLedger \in [Calls -> BOOLEAN]
    BY DEF EngineInit
  <2>7. purchase \in [Calls -> Purchases \cup {NoPurchase}]
    BY DEF EngineInit
  <2>8. intent \in Terms \cup {NoIntent} /\ revoked \in BOOLEAN /\ spent \in Nat
    BY DEF EngineInit
  <2> QED
    BY <2>1, <2>2, <2>3, <2>4, <2>5, <2>6, <2>7, <2>8 DEF EngineTypeOK
<1>2. Control
  BY DEF EngineInit, Control, InsideMutex
<1>3. Accounts
  BY CapsAssumption DEF EngineInit, Accounts, WithinCaps, CallAccounts, InsideMutex, NoResult
<1> QED
  BY <1>1, <1>2, <1>3 DEF EngineInv, Framed

\* The inductive invariant of the engine: types, the mutex, and what each step has established.
THEOREM EngineInvariant == EngineSpec => []EngineInv
<1>1. EngineInit => EngineInv
  BY EngineInitInv
<1>2. EngineInv /\ [EngineNext]_engineVars => EngineInv'
  BY FramedStep, AccountsStep DEF EngineInv
<1> QED
  BY <1>1, <1>2, PTL DEF EngineSpec

\* Every variable of the engine keeps its type: in particular the ledger's sum and every
\* drawn amount stay natural numbers.
THEOREM EngineTypeCorrect == EngineSpec => []EngineTypeOK
<1>1. EngineInv => EngineTypeOK
  BY DEF EngineInv, Framed
<1> QED
  BY <1>1, EngineInvariant, PTL

\* revocation.ts, commitDraw: however many draws passed checkDraw against the same prior draws,
\* the committed ones stay within the budget, and each within the per-purchase cap.
THEOREM CapsHold == EngineSpec => []WithinCaps
<1>1. EngineInv => WithinCaps
  BY DEF EngineInv, Accounts
<1> QED
  BY <1>1, EngineInvariant, PTL

\* delegated.ts, spend: ok:true is answered only for a key that was charged and is on record.
THEOREM SuccessIsCharged == EngineSpec => []OkMeansCharged
<1>1. EngineInv => OkMeansCharged
  <2> SUFFICES ASSUME EngineInv, NEW c \in Calls, result[c].ok
               PROVE  draws[purchase[c].key] > 0 /\ completed[purchase[c].key] = draws[purchase[c].key]
    BY DEF OkMeansCharged
  <2>1. step[c] = "done" /\ completed[purchase[c].key] > 0
    BY DEF EngineInv, Accounts, CallAccounts
  <2>2. purchase[c].key \in Keys
    BY <2>1, KeyOf DEF EngineInv
  <2> QED
    BY <2>1, <2>2 DEF EngineInv, Accounts
<1> QED
  BY <1>1, EngineInvariant, PTL

-----------------------------------------------------------------------------
(* The engine implements Allowance *)

\* Every step of the engine is a step of Allowance or leaves it alone.
LEMMA PromiseStep ==
  ASSUME EngineInv, [EngineNext]_engineVars
  PROVE  [Promise!Next]_Promise!vars
<1> USE DEF Promise!vars, Phase
<1>1. ASSUME NEW t \in Terms, PreApprove(t) PROVE Promise!Approve \/ UNCHANGED Promise!vars
  BY <1>1, TermsAssumption DEF PreApprove, ledger, Promise!Approve
<1>2. ASSUME NEW new \in Catalogs, ChangeCatalog(new) PROVE UNCHANGED Promise!vars
  BY <1>2 DEF ChangeCatalog, ledger
<1>3. ASSUME Revoke PROVE Promise!Stop \/ UNCHANGED Promise!vars
  BY <1>3 DEF Revoke, Promise!Stop, EngineInv, Framed, EngineTypeOK
<1>4. ASSUME NEW c \in Calls, NEW p \in Purchases, Spend(c, p) PROVE UNCHANGED Promise!vars
  BY <1>4 DEF Spend, ledger
<1>5. ASSUME NEW c \in Calls, step[c] = "committing",
             CommitDraw(purchase[c].key, total[c]) = "ok",
             AppendDraw(purchase[c].key, total[c]), UNCHANGED <<intent, revoked>>
      PROVE  Promise!Next
  <2> DEFINE k == purchase[c].key
  <2>1. k \in Keys /\ intent # NoIntent
    BY <1>5, KeyOf DEF EngineInv, Framed, Control
  <2>2. total[c] \in 1 .. PerSpend
    BY <1>5, CapsAssumption DEF EngineInv, Framed, EngineTypeOK, Accounts, CallAccounts
  <2>3. revoked = FALSE /\ draws[k] = 0 /\ spent + total[c] <= Budget
    BY <1>5, <2>1, <2>2, CapsAssumption DEF CommitDraw, EngineInv, Framed, EngineTypeOK
  <2>4. Promise!Charge(k, total[c])
    BY <1>5, <2>1, <2>2, <2>3, CapsAssumption DEF AppendDraw, Promise!Charge
  <2> QED
    BY <2>1, <2>2, <2>4 DEF Promise!Next
<1>6. ASSUME NEW c \in Calls, CallStep(c) PROVE Promise!Next \/ UNCHANGED Promise!vars
  <2>1. CASE Commit(c)
    BY <1>5, <2>1 DEF Commit
  <2>2. CASE CommitFails(c)
    <3>1. CASE UNCHANGED <<draws, spent>>
      BY <2>2, <3>1 DEF CommitFails
    <3> QED
      BY <1>5, <2>2, <3>1 DEF CommitFails
  <2>3. CASE ~Commit(c) /\ ~CommitFails(c)
    <3>1. UNCHANGED <<intent, ledger>>
      BY <1>6, <2>3 DEF CallStep, CompleteOrder, Lookup, Reprice, RepriceThrows, ReadPrior, StoreFails,
                        Check, CommitRefused, Record, Return, ReturnThrows
    <3> QED
      BY <3>1 DEF ledger
  <2> QED
    BY <2>1, <2>2, <2>3
<1>7. CASE UNCHANGED engineVars
  BY <1>7 DEF engineVars
<1> QED
  BY <1>1, <1>2, <1>3, <1>4, <1>6, <1>7 DEF EngineNext, Environment, Promise!Next

\* The engine keeps Allowance's promise: no charge before approval or after the kill switch, one
\* charge per key, each within the cap, all within the budget, and the switch is never undone.
THEOREM EngineKeepsPromise == EngineSpec => PromiseKept
<1>1. EngineInit => Promise!Init
  BY DEF EngineInit, Promise!Init, Phase
<1>2. EngineInv /\ [EngineNext]_engineVars => [Promise!Next]_Promise!vars
  BY PromiseStep
<1> QED
  BY <1>1, <1>2, EngineInvariant, PTL DEF EngineSpec, PromiseKept, Promise!Spec

-----------------------------------------------------------------------------
(* No orphaned draw, and no refusal of a charged key, but for a call in doubt *)

\* A call in doubt has been answered: nothing it holds changes any more.
LEMMA DoubtStays ==
  ASSUME EngineInv, [EngineNext]_engineVars, NEW k, NEW d \in Calls, InDoubt(k, d)
  PROVE  InDoubt(k, d)' /\ total'[d] = total[d]
<1>1. step[d] \in {"settled", "done", "threw"}
  BY DEF InDoubt, EngineInv, Accounts, CallAccounts
<1>2. ASSUME NEW c \in Calls, NEW p \in Purchases, Spend(c, p)
      PROVE  verdict'[d] = verdict[d] /\ purchase'[d] = purchase[d] /\ total'[d] = total[d]
  <2>1. c # d
    BY <1>1, <1>2 DEF Spend
  <2> QED
    BY <1>2, <2>1 DEF Spend, RefuseQuantity, UnknownItem, SignDraw, EngineInv, Framed, EngineTypeOK
<1>3. ASSUME NEW c \in Calls, CallStep(c)
      PROVE  verdict'[d] = verdict[d] /\ purchase'[d] = purchase[d] /\ total'[d] = total[d]
  <2>1. UNCHANGED <<purchase, total>>
    BY <1>3 DEF CallStep, CompleteOrder, Lookup, Reprice, RepriceThrows, ReadPrior, StoreFails, Check,
                CommitRefused, Commit, CommitFails, Record, Return, ReturnThrows
  <2>2. CASE c # d
    <3>1. UNCHANGED verdict \/ \E v \in Verdicts : Answer(c, v)
      BY <1>3, CommitVerdict, RefusedCheck
         DEF CallStep, CompleteOrder, Lookup, Reprice, RepriceThrows, ReadPrior, StoreFails, Check, Proceed,
             CommitRefused, Commit, CommitFails, Record, Return, ReturnThrows, Verdicts, Refusals
    <3> QED
      BY <2>1, <2>2, <3>1 DEF Answer, EngineInv, Framed, EngineTypeOK
  <2>3. CASE c = d
    <3>1. Return(d) \/ ReturnThrows(d)
      BY <1>1, <1>3, <2>3 DEF CallStep, CompleteOrder, Lookup, Reprice, RepriceThrows, ReadPrior, StoreFails,
                              Check, CommitRefused, Commit, CommitFails, Record
    <3> QED
      BY <3>1 DEF Return, ReturnThrows
  <2> QED
    BY <2>2, <2>3
<1>4. CASE UNCHANGED <<verdict, purchase, total>>
  BY <1>4 DEF InDoubt
<1>5. verdict'[d] = verdict[d] /\ purchase'[d] = purchase[d] /\ total'[d] = total[d]
  BY <1>2, <1>3, <1>4 DEF EngineNext, Environment, PreApprove, ChangeCatalog, Revoke, engineVars
<1> QED
  BY <1>5 DEF InDoubt

\* Under the mutex and before the record, the call's key is not charged yet but by a call in doubt.
LEMMA Uncharged ==
  ASSUME EngineInv, DrawsAreRecorded, NEW c \in Calls, step[c] \in InsideMutex \ {"recording"}
  PROVE  draws[purchase[c].key] = 0 \/ \E d \in Calls : InDoubt(purchase[c].key, d)
<1>1. purchase[c].key \in Keys /\ completed[purchase[c].key] = 0
  BY KeyOf DEF InsideMutex, EngineInv, Accounts, CallAccounts
<1>2. SUFFICES ASSUME draws[purchase[c].key] # 0, \A d \in Calls : ~InDoubt(purchase[c].key, d)
               PROVE  FALSE
  OBVIOUS
<1>3. PICK d \in Calls : step[d] = "recording" /\ purchase[d].key = purchase[c].key
  BY <1>1, <1>2 DEF DrawsAreRecorded
<1>4. d = c
  BY <1>3, OtherKeys DEF EngineInv, InsideMutex
<1> QED
  BY <1>3, <1>4

\* The account DrawsAreRecorded gives of a charged key without its record.
Accounted(k, c) ==
  /\ total[c] = draws[k]
  /\ InDoubt(k, c) \/ (step[c] = "recording" /\ purchase[c].key = k)

\* A draw appended by a call of k that is now recording, or in doubt, is accounted for by that call.
LEMMA AppendedStep ==
  ASSUME EngineInv, DrawsAreRecorded, [EngineNext]_engineVars, NEW c \in Calls, step[c] = "committing",
         AppendDraw(purchase[c].key, total[c]), UNCHANGED <<completed, purchase, total>>,
         step'[c] = "recording" \/ verdict'[c] = "revocation-unavailable",
         \A d \in Calls : d # c => step'[d] = step[d]
  PROVE  DrawsAreRecorded'
<1>1. purchase[c].key \in Keys /\ completed[purchase[c].key] = 0
  BY KeyOf DEF EngineInv, Accounts, CallAccounts, InsideMutex
<1>2. SUFFICES ASSUME NEW k \in Keys, completed'[k] # draws'[k]
               PROVE  completed'[k] = 0 /\ \E d \in Calls : Accounted(k, d)'
  BY DEF DrawsAreRecorded, Accounted, InDoubt
<1>3. CASE k = purchase[c].key
  <2>1. draws'[k] = total[c]
    BY <1>1, <1>3 DEF AppendDraw, EngineInv, Framed, EngineTypeOK
  <2>2. Accounted(k, c)'
    BY <1>3, <2>1 DEF Accounted, InDoubt
  <2> QED
    BY <1>1, <1>3, <2>2
<1>4. CASE k # purchase[c].key
  <2>1. draws'[k] = draws[k]
    BY <1>4 DEF AppendDraw, EngineInv, Framed, EngineTypeOK
  <2>2. PICK d \in Calls : completed[k] = 0 /\ Accounted(k, d)
    BY <1>2, <2>1 DEF DrawsAreRecorded, Accounted
  <2>3. Accounted(k, d)'
    <3>1. CASE InDoubt(k, d)
      BY <2>1, <2>2, <3>1, DoubtStays DEF Accounted
    <3>2. CASE step[d] = "recording" /\ purchase[d].key = k
      BY <2>1, <2>2, <3>2 DEF Accounted
    <3> QED
      BY <2>2, <3>1, <3>2 DEF Accounted
  <2> QED
    BY <2>2, <2>3
<1> QED
  BY <1>3, <1>4

\* Every step keeps a record, or who is about to write it, behind each charge.
LEMMA RecordedStep ==
  ASSUME EngineInv, DrawsAreRecorded, [EngineNext]_engineVars
  PROVE  DrawsAreRecorded'
<1>1. ASSUME UNCHANGED <<draws, completed>>,
             \A d \in Calls : step[d] = "recording" =>
               step'[d] = "recording" /\ purchase'[d] = purchase[d] /\ total'[d] = total[d]
      PROVE  DrawsAreRecorded'
  <2>1. SUFFICES ASSUME NEW k \in Keys, completed[k] # draws[k]
                 PROVE  completed[k] = 0 /\ \E d \in Calls : Accounted(k, d)'
    BY <1>1 DEF DrawsAreRecorded, Accounted, InDoubt
  <2>2. PICK d \in Calls : completed[k] = 0 /\ Accounted(k, d)
    BY <2>1 DEF DrawsAreRecorded, Accounted
  <2>3. CASE InDoubt(k, d)
    BY <1>1, <2>2, <2>3, DoubtStays DEF Accounted
  <2>4. CASE step[d] = "recording" /\ purchase[d].key = k
    BY <1>1, <2>2, <2>4 DEF Accounted
  <2> QED
    BY <2>2, <2>3, <2>4 DEF Accounted
<1>2. ASSUME NEW c \in Calls, NEW p \in Purchases, Spend(c, p) PROVE DrawsAreRecorded'
  <2>1. step[c] = "idle" /\ UNCHANGED <<draws, completed>>
    BY <1>2 DEF Spend, ledger
  <2>2. \A d \in Calls : d # c => step'[d] = step[d] /\ purchase'[d] = purchase[d] /\ total'[d] = total[d]
    BY <1>2 DEF Spend, RefuseQuantity, UnknownItem, SignDraw, Goto, EngineInv, Framed, EngineTypeOK
  <2> QED
    BY <1>1, <2>1, <2>2
<1>3. ASSUME NEW c \in Calls, Commit(c) PROVE DrawsAreRecorded'
  BY <1>3, AppendedStep, OthersUntouched DEF Commit, Proceed, EngineInv
<1>4. ASSUME NEW c \in Calls, CommitFails(c) PROVE DrawsAreRecorded'
  <2>1. verdict'[c] = "revocation-unavailable" /\ \A d \in Calls : d # c => step'[d] = step[d]
    BY <1>4, OthersUntouched DEF CommitFails, Answer, EngineInv, Framed, EngineTypeOK
  <2>2. CASE UNCHANGED <<draws, spent>>
    BY <1>1, <1>4, <2>1, <2>2 DEF CommitFails
  <2>3. CASE AppendDraw(purchase[c].key, total[c])
    BY <1>4, <2>1, <2>3, AppendedStep DEF CommitFails
  <2> QED
    BY <1>4, <2>2, <2>3 DEF CommitFails
<1>5. ASSUME NEW c \in Calls, Record(c) PROVE DrawsAreRecorded'
  <2>1. /\ step[c] = "recording" /\ purchase[c].key \in Keys
        /\ draws[purchase[c].key] = total[c] /\ UNCHANGED <<draws, purchase, total>>
    BY <1>5, KeyOf DEF Record, EngineInv, Accounts, CallAccounts, ledger
  <2>2. \A d \in Calls : d # c => step'[d] = step[d]
    BY <1>5, OthersUntouched DEF Record, Answer, EngineInv
  <2>3. completed' = [completed EXCEPT ![purchase[c].key] = total[c]]
    BY <1>5 DEF Record
  <2>4. SUFFICES ASSUME NEW k \in Keys, completed'[k] # draws'[k]
                 PROVE  completed'[k] = 0 /\ \E d \in Calls : Accounted(k, d)'
    BY DEF DrawsAreRecorded, Accounted, InDoubt
  <2>5. k # purchase[c].key /\ completed'[k] = completed[k]
    BY <2>1, <2>3, <2>4 DEF EngineInv, Framed, EngineTypeOK
  <2>6. PICK d \in Calls : completed[k] = 0 /\ Accounted(k, d)
    BY <2>1, <2>4, <2>5 DEF DrawsAreRecorded, Accounted
  <2>7. CASE InDoubt(k, d)
    BY <2>1, <2>5, <2>6, <2>7, DoubtStays DEF Accounted
  <2>8. CASE step[d] = "recording" /\ purchase[d].key = k
    BY <2>1, <2>2, <2>5, <2>6, <2>8 DEF Accounted
  <2> QED
    BY <2>6, <2>7, <2>8 DEF Accounted
<1>6. ASSUME NEW c \in Calls, step[c] # "recording", NEW s, Goto(c, s),
             UNCHANGED <<draws, completed, total, purchase>>
      PROVE  DrawsAreRecorded'
  BY <1>1, <1>6, OthersUntouched DEF EngineInv
<1>7. ASSUME NEW c \in Calls, CallStep(c) PROVE DrawsAreRecorded'
  <2>1. CASE Commit(c) \/ CommitFails(c) \/ Record(c)
    BY <1>3, <1>4, <1>5, <2>1
  <2>2. CASE ~Commit(c) /\ ~CommitFails(c) /\ ~Record(c)
    <3>1. step[c] # "recording" /\ UNCHANGED <<ledger, completed, total, purchase>>
      BY <1>7, <2>2 DEF CallStep, CompleteOrder, Lookup, Reprice, RepriceThrows, ReadPrior, StoreFails,
                        Check, CommitRefused, Return, ReturnThrows
    <3>2. \E s \in Steps : Goto(c, s)
      BY <1>7, <2>2 DEF CallStep, CompleteOrder, Lookup, Reprice, RepriceThrows, ReadPrior, StoreFails,
                        Check, CommitRefused, Return, ReturnThrows, Proceed, Answer, Steps
    <3> QED
      BY <1>6, <3>1, <3>2 DEF ledger
  <2> QED
    BY <2>1, <2>2
<1>8. ASSUME NEW t \in Terms, PreApprove(t) PROVE DrawsAreRecorded'
  BY <1>1, <1>8 DEF PreApprove, ledger
<1>9. ASSUME NEW new \in Catalogs, ChangeCatalog(new) PROVE DrawsAreRecorded'
  BY <1>1, <1>9 DEF ChangeCatalog, ledger
<1>10. ASSUME Revoke PROVE DrawsAreRecorded'
  BY <1>1, <1>10 DEF Revoke
<1>11. CASE UNCHANGED engineVars
  BY <1>1, <1>11 DEF engineVars
<1> QED
  BY <1>2, <1>7, <1>8, <1>9, <1>10, <1>11 DEF EngineNext, Environment

\* completion.ts: a committed draw is never without its record, except between the two writes of the
\* call that is inside the order's mutex, and where the store failed a call of that key.
THEOREM NoOrphanedDraw == EngineSpec => []DrawsAreRecorded
<1>1. EngineInit => DrawsAreRecorded
  BY DEF EngineInit, DrawsAreRecorded
<1>2. EngineInv /\ DrawsAreRecorded /\ [EngineNext]_engineVars => DrawsAreRecorded'
  BY RecordedStep
<1> QED
  BY <1>1, <1>2, EngineInvariant, PTL DEF EngineSpec

\* A step that gives a call a refusal, from inside the mutex, leaves the call's key uncharged.
LEMMA RefusalStep ==
  ASSUME EngineInv, DrawsAreRecorded, [EngineNext]_engineVars,
         NEW c \in Calls, step[c] \in InsideMutex, verdict'[c] \in Refusals
  PROVE  draws'[purchase[c].key] = 0 \/ \E d \in Calls : InDoubt(purchase[c].key, d)'
<1>1. verdict[c] = "none" /\ step[c] # "idle"
  BY DEF EngineInv, Accounts, CallAccounts, InsideMutex
<1>2. verdict'[c] # verdict[c]
  BY <1>1 DEF Refusals
<1>3. \/ \E d \in Calls : CallStep(d)
      \/ \E d \in Calls, p \in Purchases : Spend(d, p)
  BY <1>2 DEF EngineNext, Environment, PreApprove, ChangeCatalog, Revoke, engineVars
<1>4. \A d \in Calls, p \in Purchases : ~Spend(d, p)
  BY <1>1, <1>2 DEF Spend, RefuseQuantity, UnknownItem, SignDraw, EngineInv, Framed, EngineTypeOK
<1>5. PICK d \in Calls : CallStep(d)
  BY <1>3, <1>4
<1>6. \E v \in Verdicts : Answer(d, v) /\ (v = "ok" => Lookup(d) \/ Record(d))
  <2>1. ~CompleteOrder(d) /\ ~RepriceThrows(d) /\ ~ReadPrior(d) /\ ~Commit(d)
        /\ ~Return(d) /\ ~ReturnThrows(d)
    BY <1>2 DEF CompleteOrder, RepriceThrows, ReadPrior, Commit, Return, ReturnThrows, Proceed
  <2> QED
    BY <1>2, <1>5, <2>1, CommitVerdict, RefusedCheck
       DEF CallStep, Lookup, Reprice, StoreFails, Check, CommitRefused, CommitFails, Record, Proceed,
           Verdicts, Refusals
<1>7. d = c
  BY <1>2, <1>6 DEF Answer, EngineInv, Framed, EngineTypeOK
<1>8. UNCHANGED purchase
  BY <1>5 DEF CallStep, CompleteOrder, Lookup, Reprice, RepriceThrows, ReadPrior, StoreFails, Check,
              CommitRefused, Commit, CommitFails, Record, Return, ReturnThrows
<1>9. CASE CommitFails(c)
  <2>1. verdict'[c] = "revocation-unavailable"
    BY <1>9 DEF CommitFails, Answer, EngineInv, Framed, EngineTypeOK
  <2>2. InDoubt(purchase[c].key, c)'
    BY <1>8, <2>1 DEF InDoubt
  <2> QED
    BY <2>2
<1>10. CASE ~CommitFails(c)
  <2>1. ~Record(c) /\ ~Commit(c)
    <3>1. Record(c) => verdict'[c] = "ok"
      BY DEF Record, Answer, EngineInv, Framed, EngineTypeOK
    <3> QED
      BY <1>2, <3>1 DEF Refusals, Commit, Proceed
  <2>2. UNCHANGED draws /\ step[c] # "recording"
    BY <1>2, <1>5, <1>7, <1>10, <2>1
       DEF CallStep, CompleteOrder, Lookup, Reprice, RepriceThrows, ReadPrior, StoreFails,
           Check, CommitRefused, Return, ReturnThrows, ledger
  <2>3. CASE draws[purchase[c].key] = 0
    BY <2>2, <2>3
  <2>4. ASSUME NEW e \in Calls, InDoubt(purchase[c].key, e)
        PROVE  InDoubt(purchase[c].key, e)'
    BY <1>8, <2>4, DoubtStays DEF InDoubt
  <2> QED
    BY <2>2, <2>3, <2>4, Uncharged
<1> QED
  BY <1>9, <1>10

\* completion.ts: no call is refused for a key that was charged; a retry, or a second call under the
\* same key, is echoed; only after the store failed a call of that key can it be told otherwise.
THEOREM RefusedIsUncharged == EngineSpec => RefusalMeansUncharged
<1>1. EngineInv /\ DrawsAreRecorded /\ [EngineNext]_engineVars =>
        [\A c \in Calls :
          step[c] \in InsideMutex /\ verdict'[c] \in Refusals =>
            draws'[purchase[c].key] = 0 \/ \E d \in Calls : InDoubt(purchase[c].key, d)']_engineVars
  BY RefusalStep
<1> QED
  BY <1>1, EngineInvariant, NoOrphanedDraw, PTL DEF EngineSpec, RefusalMeansUncharged

\* delegated.ts, completion.ts: what a call is answered agrees with the ledger: a success was charged,
\* a refusal was not.
THEOREM AnswersAreTrue == EngineSpec => AnswersMatchLedger
  BY SuccessIsCharged, RefusedIsUncharged DEF AnswersMatchLedger
=============================================================================
