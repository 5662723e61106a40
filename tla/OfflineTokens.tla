---------------------------- MODULE OfflineTokens ----------------------------
(***************************************************************************)
(* The life of offline tokens: provisioning locks money of the user, spends*)
(* are synced against the token, and revocation or the hourly worker closes*)
(* the token and refunds what is unused.  Each API call or task is one     *)
(* database transaction, here taken one after another; the hourly worker   *)
(* handles the tokens it selected one by one inside its transaction.       *)
(*                                                                         *)
(* A token's row is a value of each function below.  The entries of        *)
(* ledger_entries that reference a token are read back summed.             *)
(***************************************************************************)
EXTENDS LedgerRows, FiniteSets, Functions

CONSTANTS Tokens,         \* token identifiers, each used for one provisioning
          Owner,          \* the user each token is provisioned for
          Limits,         \* DEVICE_LIMITS: [max_token, ttl] per device class
          Spends,         \* amounts of synced payments: a client's, of any sign
          SpendWindow,    \* customer_spend_cutoff - issue time
          MaxCredit,      \* bound on what is credited to a user
          LeastUsed,      \* bound: payments take no token's usage below this
          LastIssue,      \* bound: no token is provisioned after this time
          Horizon,        \* bound on time
          AssignsTokenId, \* whether provision_token fills the column token_id
          AwareClock      \* whether is_expired compares with an aware datetime

ASSUME TokensAssumption ==
  /\ IsFiniteSet(Tokens) /\ Owner \in [Tokens -> Users]
  /\ \A class \in DOMAIN Limits : Limits[class].max_token \in Nat /\ Limits[class].ttl \in Nat
  /\ {SpendWindow, MaxCredit, LastIssue, Horizon} \subseteq Nat
  /\ Spends \subseteq Int /\ LeastUsed \in Int
  /\ {AssignsTokenId, AwareClock} \subseteq BOOLEAN

VARIABLES
  account,   \* ledger row and entry sums of each user
  status,    \* "none" before the token's row exists
  amount,    \* amount_kobo
  used,      \* amount_used_kobo
  cutoff,    \* customer_spend_cutoff
  expires,   \* expires_at
  refunded,  \* sum of the refund entries that reference the token
  now,
  expiring   \* tokens the running expire_tokens task has still to handle

vars == <<account, status, amount, used, cutoff, expires, refunded, now, expiring>>

Closed == {"revoked", "expired"}
Statuses == {"none", "active", "spend_locked", "exhausted"} \cup Closed

RowTypes == /\ account \in [Users -> Account]
            /\ status \in [Tokens -> Statuses]
            /\ amount \in [Tokens -> Nat]
            /\ used \in [Tokens -> Int]
            /\ cutoff \in [Tokens -> Nat]
            /\ expires \in [Tokens -> Nat]
            /\ refunded \in [Tokens -> Int]
            /\ now \in Nat
            /\ expiring \in SUBSET Tokens

\* Types of the columns; remaining_kobo is never negative, whatever was synced.  The
\* usage itself may be: a synced amount below zero is taken off it.
TypeOK == RowTypes /\ \A t \in Tokens : used[t] <= amount[t]

Zero == [t \in Tokens |-> 0]

Init == /\ account = [u \in Users |-> EmptyAccount]
        /\ status = [t \in Tokens |-> "none"]
        /\ amount = Zero /\ used = Zero /\ cutoff = Zero /\ expires = Zero
        /\ refunded = Zero
        /\ now = 0
        /\ expiring = {}

\* No transaction runs while the hourly task is inside its own.
Idle == expiring = {}

-----------------------------------------------------------------------------
\* LedgerService.credit, the only way money enters the ledger.
Credit(u, n) ==
  /\ Idle /\ n > 0
  /\ account[u].credits + n <= MaxCredit
  /\ account' = [account EXCEPT ![u] = Credited(@, n)]
  /\ UNCHANGED <<status, amount, used, cutoff, expires, refunded, now, expiring>>

Granted(requested, class) ==
  IF requested <= Limits[class].max_token THEN requested ELSE Limits[class].max_token

\* What provisioning locks: the granted limit, not the requested one.
MutantLockFor(requested, class) == requested
LockFor(requested, class) == Granted(requested, class)

\* provision_token once the identity, trust and fraud checks have let it pass.
\* Without a token_id the INSERT fails and the lock is rolled back with it.
Provision(t, requested, class) ==
  LET a == account[Owner[t]]
      n == LockFor(requested, class)
  IN  /\ Idle /\ status[t] = "none" /\ now <= LastIssue
      /\ requested > 0 /\ Limits[class].max_token > 0
      /\ AssignsTokenId
      /\ Covers(a, n)
      /\ account' = [account EXCEPT ![Owner[t]] = LockedUp(a, n)]
      /\ status' = [status EXCEPT ![t] = "active"]
      /\ amount' = [amount EXCEPT ![t] = Granted(requested, class)]
      /\ cutoff' = [cutoff EXCEPT ![t] = now + SpendWindow]
      /\ expires' = [expires EXCEPT ![t] = now + Limits[class].ttl]
      /\ UNCHANGED <<used, refunded, now, expiring>>

Unused(t) == amount[t] - used[t]

\* The spending limit: against what remains, not against the whole amount.
MutantHasRoom(t, n) == n <= amount[t]
HasRoom(t, n) == n <= Unused(t)

\* What _process_single_transaction asks of a token: nothing about the cutoff.
\* The comparison with a naive datetime raises, and the batch is rolled back.
MutantSpendable(t) == status[t] # "none" /\ AwareClock /\ now < expires[t]
Spendable(t) == status[t] = "active" /\ AwareClock /\ now < expires[t]

\* A synced transaction of n is added to the usage, and the status is left alone.
\* The batch holds unvalidated dicts: 0 counts as a missing amount, and what is
\* below zero passes the comparison with what remains.
SyncSpend(t, n) ==
  /\ Idle /\ n # 0 /\ Spendable(t) /\ HasRoom(t, n)
  /\ used[t] + n >= LeastUsed
  /\ used' = [used EXCEPT ![t] = @ + n]
  /\ UNCHANGED <<account, status, amount, cutoff, expires, refunded, now, expiring>>

\* record_spend: past the cutoff it raises, and the status it set is rolled back.
\* It asks nothing of the amount but that it fits.
RecordSpend(t, n) ==
  /\ Idle /\ status[t] = "active" /\ now <= cutoff[t] /\ HasRoom(t, n)
  /\ used[t] + n >= LeastUsed
  /\ used' = [used EXCEPT ![t] = @ + n]
  /\ status' = [status EXCEPT ![t] = IF n = Unused(t) THEN "exhausted" ELSE @]
  /\ UNCHANGED <<account, amount, cutoff, expires, refunded, now, expiring>>

\* unlock_and_refund of what is unused, called only if that is positive.
RefundUnused(t) ==
  LET a == account[Owner[t]]
  IN  IF Unused(t) > 0
      THEN /\ account' = [account EXCEPT ![Owner[t]] = Refunded(a, Unused(t))]
           /\ refunded' = [refunded EXCEPT ![t] = @ + RefundAmount(a, Unused(t))]
      ELSE UNCHANGED <<account, refunded>>

\* revoke_token returns early on a token that is closed.
MutantRevocable(t) == status[t] \notin {"none", "revoked"}
Revocable(t) == status[t] \notin {"none"} \cup Closed

Revoke(t) ==
  /\ Idle /\ Revocable(t)
  /\ RefundUnused(t)
  /\ status' = [status EXCEPT ![t] = "revoked"]
  /\ UNCHANGED <<amount, used, cutoff, expires, now, expiring>>

\* The task apply_spend_cutoffs.
PastCutoff(t) == status[t] = "active" /\ cutoff[t] < now

ApplySpendCutoffs ==
  /\ Idle /\ \E t \in Tokens : PastCutoff(t)
  /\ status' = [t \in Tokens |-> IF PastCutoff(t) THEN "spend_locked" ELSE status[t]]
  /\ UNCHANGED <<account, amount, used, cutoff, expires, refunded, now, expiring>>

\* The task expire_tokens selects once and then handles each selected token.
MutantDue(t) == status[t] = "active" /\ expires[t] < now
Due(t) == status[t] \in {"active", "spend_locked"} /\ expires[t] < now

ExpireStart ==
  /\ Idle /\ \E t \in Tokens : Due(t)
  /\ expiring' = {t \in Tokens : Due(t)}
  /\ UNCHANGED <<account, status, amount, used, cutoff, expires, refunded, now>>

ExpireOne(t) ==
  /\ t \in expiring
  /\ RefundUnused(t)
  /\ status' = [status EXCEPT ![t] = "expired"]
  /\ expiring' = expiring \ {t}
  /\ UNCHANGED <<amount, used, cutoff, expires, now>>

Tick == /\ Idle /\ now < Horizon
        /\ now' = now + 1
        /\ UNCHANGED <<account, status, amount, used, cutoff, expires, refunded, expiring>>

-----------------------------------------------------------------------------
Next == \/ \E u \in Users, n \in Amounts : Credit(u, n)
        \/ \E t \in Tokens, n \in Amounts, class \in DOMAIN Limits : Provision(t, n, class)
        \/ \E t \in Tokens, n \in Spends : SyncSpend(t, n) \/ RecordSpend(t, n)
        \/ \E t \in Tokens : Revoke(t) \/ ExpireOne(t)
        \/ ApplySpendCutoffs \/ ExpireStart \/ Tick

\* Time passes, celery beat starts the hourly task, and the task goes on.
Fairness == WF_vars(Tick) /\ WF_vars(ExpireStart) /\ \A t \in Tokens : WF_vars(ExpireOne(t))

Spec == Init /\ [][Next]_vars /\ Fairness

-----------------------------------------------------------------------------
\* A token never gives out more than was locked for it, counting what was spent
\* and what was refunded, whichever of revocation and expiry comes first
\* ("Unused balance returned when tokens expire").
WithinAmount ==
  \A t \in Tokens : used[t] + refunded[t] <= amount[t]

OwnedBy(u) == {t \in Tokens : Owner[t] = u}

StillLocked == [t \in Tokens |-> IF status[t] \in Closed THEN used[t] ELSE amount[t]]

\* A token was closed while the amounts synced for it summed below zero: its refund
\* was more than the token had locked.
ClosedBelowZero(u) == \E t \in OwnedBy(u) : status[t] \in Closed /\ used[t] < 0

\* The locked column of a user is what open tokens were granted plus what closed
\* ones had spent: every refund is complete and no token is refunded from the
\* money of another, until one is closed with a usage below zero.
LockedAccountsForTokens ==
  \A u \in Users :
    \/ ClosedBelowZero(u)
    \/ account[u].locked = SumFunctionOnSet(StillLocked, OwnedBy(u))

\* Once a token is closed, its spent and refunded sums are final: a late sync, a
\* second revocation or the hourly task changes nothing of it.
ClosedIsFinal ==
  [][\A t \in Tokens :
       status[t] \in Closed => used'[t] = used[t] /\ refunded'[t] = refunded[t]]_vars

\* Money locked for a token does not stay locked: it is spent, or refunded by the
\* user's revocation or the hourly task, also when the cutoff task came first.  Only
\* a token closed with a usage below zero can have taken it.
FundsReturn ==
  \A t \in Tokens :
    status[t] = "active" ~> used[t] + refunded[t] = amount[t] \/ ClosedBelowZero(Owner[t])
=============================================================================
