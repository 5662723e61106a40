----------------------------- MODULE LedgerRows -----------------------------
(***************************************************************************)
(* One user's row of ledger_balances together with the sums of the user's  *)
(* rows in ledger_entries, and what each method of LedgerService does to   *)
(* the two.  The entries are append-only and only ever read back summed    *)
(* per side, so the two sums stand for them.                               *)
(*                                                                         *)
(* A definition called Mutant<Name> is a bug <Name> could have; a mutation *)
(* run puts it in the place of <Name> and must then find a property false. *)
(***************************************************************************)
EXTENDS Integers, Sequences

CONSTANTS Users,      \* the owners of balances
          Amounts,    \* the amounts callers pass, in kobo
          Overdrafts  \* the values callers pass for allow_overdraft

ASSUME LedgerAssumption == /\ Amounts \subseteq Int
                           /\ Overdrafts \subseteq BOOLEAN

\* No caller in the repository passes allow_overdraft = True.
NoOverdrafts == TRUE \notin Overdrafts

\* What get_or_create_balance inserts for a user without a row: no entries yet.
EmptyAccount == [available |-> 0, locked |-> 0, credits |-> 0, debits |-> 0]

Account == [available : Int, locked : Int, credits : Nat, debits : Nat]

\* Add to the two columns of the row, and post to the two sides of the entries.
Moved(a, available, locked, credit, debit) ==
  [available |-> a.available + available, locked |-> a.locked + locked,
   credits |-> a.credits + credit, debits |-> a.debits + debit]

\* The balance update and the entry of each LedgerService method.  lock writes
\* a debit entry and unlock a credit entry, although the money only moves
\* between the two columns of the same row.
MutantDebited(a, n)  == Moved(a, -n, 0, -n, 0)

Credited(a, n) == Moved(a, n, 0, n, 0)
Debited(a, n)  == Moved(a, -n, 0, 0, n)
LockedUp(a, n) == Moved(a, -n, n, 0, n)

RefundAmount(a, n) == IF n <= a.locked THEN n ELSE a.locked
MutantRefunded(a, n) == Moved(a, RefundAmount(a, n), -RefundAmount(a, n), n, 0)
Refunded(a, n) == Moved(a, RefundAmount(a, n), -RefundAmount(a, n), RefundAmount(a, n), 0)

\* Funds check of debit (unless allow_overdraft) and lock_for_offline_token.
MutantCovers(a, n) == a.available + a.locked >= n
Covers(a, n) == a.available >= n

-----------------------------------------------------------------------------
(* A call as the list of row updates it performs, in order.                *)

Ops == {"credit", "debit", "overdraft", "lock", "refund"}

Leg(op, u, n) == [op |-> op, user |-> u, amount |-> n]

Legs == [op : Ops, user : Users, amount : {n \in Int : n > 0}]

NeedsFunds(leg) == leg.op \in {"debit", "lock"}

ApplyLeg(leg, a) ==
  CASE leg.op = "credit" -> Credited(a, leg.amount)
    [] leg.op \in {"debit", "overdraft"} -> Debited(a, leg.amount)
    [] leg.op = "lock"   -> LockedUp(a, leg.amount)
    [] leg.op = "refund" -> Refunded(a, leg.amount)

\* transfer debits the payer, then credits the payee, in one DB transaction.
MutantTransferLegs(payer, payee, n) ==
  << Leg("credit", payee, n), Leg("debit", payer, n) >>
TransferLegs(payer, payee, n) ==
  << Leg("debit", payer, n), Leg("credit", payee, n) >>

-----------------------------------------------------------------------------
(* What the entries promise about the row.                                 *)

\* "Balance should always be re-derivable by summing entries."
DerivableAccount(a) == a.available = a.credits - a.debits

\* The comparison verify_balance_integrity makes.
VerifyBalanceIntegrity(a) == a.credits - a.debits = a.available + a.locked
=============================================================================
