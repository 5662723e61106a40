------------------------------- MODULE Ledger -------------------------------
(***************************************************************************)
(* What LedgerService promises: every call is one atomic step on the       *)
(* balances and their entries ("All operations are atomic - nothing        *)
(* partial happens").  A call that raises leaves no trace, because the     *)
(* session is rolled back, and is therefore no step here.                  *)
(***************************************************************************)
EXTENDS LedgerRows

VARIABLE account  \* committed balance row and entry sums of every user

TypeOK == account \in [Users -> Account]

Init == account = [u \in Users |-> EmptyAccount]

Credit(u, n) ==
  /\ n > 0
  /\ account' = [account EXCEPT ![u] = Credited(@, n)]

Debit(u, n, allow_overdraft) ==
  /\ n > 0
  /\ allow_overdraft \/ Covers(account[u], n)
  /\ account' = [account EXCEPT ![u] = Debited(@, n)]

Transfer(from, to, n) ==
  /\ n > 0
  /\ Covers(account[from], n)
  /\ LET debited == [account EXCEPT ![from] = Debited(@, n)]
     IN  account' = [debited EXCEPT ![to] = Credited(@, n)]

LockForOfflineToken(u, n) ==
  /\ n > 0
  /\ Covers(account[u], n)
  /\ account' = [account EXCEPT ![u] = LockedUp(@, n)]

\* Nothing stops the refund of more than one token ever locked: the method only
\* caps it by what the row still holds locked.
UnlockAndRefund(u, n) ==
  /\ n > 0
  /\ account' = [account EXCEPT ![u] = Refunded(@, n)]

Next ==
  \E u \in Users, n \in Amounts :
    \/ Credit(u, n)
    \/ \E o \in Overdrafts : Debit(u, n, o)
    \/ \E to \in Users : Transfer(u, to, n)
    \/ LockForOfflineToken(u, n)
    \/ UnlockAndRefund(u, n)

Spec == Init /\ [][Next]_account

-----------------------------------------------------------------------------
\* The available balance of every user is the sum of the user's entries.
Derivable == \A u \in Users : DerivableAccount(account[u])

\* Nothing is locked below zero; without overdrafts no balance goes negative.
NonNegative ==
  \A u \in Users :
    /\ account[u].locked >= 0
    /\ NoOverdrafts => account[u].available >= 0
=============================================================================
