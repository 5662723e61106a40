---------------------------- MODULE TokenClosing ----------------------------
(***************************************************************************)
(* The sessions that close the offline tokens of one user: revocations and *)
(* runs of the hourly task, at the same time.  OfflineTokens takes them    *)
(* one after another; here each reads the tokens it is to close, refunds   *)
(* them one by one and commits, under READ COMMITTED and without a lock on *)
(* what it has read.  A token that record_spend has exhausted has nothing  *)
(* to refund and is left out; no usage is synced meanwhile.                *)
(***************************************************************************)
EXTENDS LedgerRows, FiniteSets, Functions

CONSTANTS Tokens,  \* tokens of the user
          Amount,  \* amount_kobo of each
          Used,    \* amount_used_kobo of each, below 0 after a negative sync
          Closers  \* sessions that close tokens

ASSUME ClosingAssumption ==
  /\ IsFiniteSet(Tokens)
  /\ Amount \in [Tokens -> Nat] /\ Used \in [Tokens -> Int]
  /\ \A t \in Tokens : Used[t] <= Amount[t]

VARIABLES
  tokenIs,  \* committed status: "open" for active and spend_locked
  overdue,  \* tokens past their expires_at
  row,      \* the user's ledger row and entry sums, as committed
  paidBack, \* sum of the committed refund entries that reference a token
  shared    \* tokens that two sessions had read as open at once

VARIABLES
  closing,  \* "revoke", "expire" or "none": what each session does
  toClose,  \* tokens it has read and not yet handled
  done,     \* tokens it has handled
  rowRead,  \* whether it has loaded the row
  rowHeld,  \* the row in its memory; credits and debits are what it adds
  paying    \* what it refunds for each token

books == <<tokenIs, overdue, row, paidBack, shared>>
closers == <<closing, toClose, done, rowRead, rowHeld, paying>>
closingVars == <<books, closers>>

Nothing == [t \in Tokens |-> 0]

ClosingTypeOK ==
  /\ tokenIs \in [Tokens -> {"open", "revoked", "expired"}]
  /\ overdue \in SUBSET Tokens /\ shared \in SUBSET Tokens
  /\ row \in Account /\ paidBack \in [Tokens -> Nat]
  /\ closing \in [Closers -> {"none", "revoke", "expire"}]
  /\ toClose \in [Closers -> SUBSET Tokens] /\ done \in [Closers -> SUBSET Tokens]
  /\ rowRead \in [Closers -> BOOLEAN] /\ rowHeld \in [Closers -> Account]
  /\ paying \in [Closers -> [Tokens -> Nat]]

\* What was locked when the tokens were issued.
Total == SumFunctionOnSet(Amount, Tokens)

\* The tokens' amounts are locked, and nothing else has been posted.
ClosingInit ==
  /\ tokenIs = [t \in Tokens |-> "open"] /\ overdue = {} /\ shared = {}
  /\ row = [available |-> 0, locked |-> Total, credits |-> Total, debits |-> Total]
  /\ paidBack = Nothing
  /\ closing = [s \in Closers |-> "none"]
  /\ toClose = [s \in Closers |-> {}] /\ done = [s \in Closers |-> {}]
  /\ rowRead = [s \in Closers |-> FALSE] /\ rowHeld = [s \in Closers |-> EmptyAccount]
  /\ paying = [s \in Closers |-> Nothing]

-----------------------------------------------------------------------------
Unused(t) == Amount[t] - Used[t]

BecomesOverdue(t) ==
  /\ t \notin overdue
  /\ overdue' = overdue \cup {t}
  /\ UNCHANGED <<tokenIs, row, paidBack, shared, closers>>

BeginClosing(s, how, tokens) ==
  /\ closing[s] = "none" /\ tokens # {}
  /\ closing' = [closing EXCEPT ![s] = how]
  /\ toClose' = [toClose EXCEPT ![s] = tokens]
  /\ shared' = shared \cup (tokens \cap UNION {toClose[q] \cup done[q] : q \in Closers \ {s}})
  /\ UNCHANGED <<tokenIs, overdue, row, paidBack, done, rowRead, rowHeld, paying>>

\* revoke_token returns early on a token that is closed.
Revoke(s, t) == tokenIs[t] = "open" /\ BeginClosing(s, "revoke", {t})

\* expire_tokens selects all of them in the beginning.
MutantDue == {t \in overdue : tokenIs[t] # "expired"}
Due == {t \in overdue : tokenIs[t] = "open"}
ExpireAll(s) == BeginClosing(s, "expire", Due)

\* The columns of one row with the entry sums of another.
Merged(a, sums) == [available |-> a.available, locked |-> a.locked,
                    credits |-> sums.credits, debits |-> sums.debits]

\* get_or_create_balance: the first SELECT loads the committed row.
ReadRow(s) ==
  /\ ~rowRead[s] /\ \E t \in toClose[s] : Unused(t) > 0
  /\ rowRead' = [rowRead EXCEPT ![s] = TRUE]
  /\ rowHeld' = [rowHeld EXCEPT ![s] = Merged(row, EmptyAccount)]
  /\ UNCHANGED <<books, closing, toClose, done, paying>>

\* The UPDATEs of the ledger row and of the token wait for whom has made one.
RowFree(s) == \A q \in Closers \ {s} : \A t \in done[q] : Unused(t) = 0
TokenFree(s, t) == \A q \in Closers \ {s} : t \notin done[q]

CloseToken(s, t) ==
  /\ t \in toClose[s] /\ TokenFree(s, t)
  /\ IF Unused(t) > 0
     THEN /\ rowRead[s] /\ RowFree(s)
          /\ rowHeld' = [rowHeld EXCEPT ![s] = Refunded(@, Unused(t))]
          /\ paying' = [paying EXCEPT ![s][t] = RefundAmount(rowHeld[s], Unused(t))]
     ELSE UNCHANGED <<rowHeld, paying>>
  /\ toClose' = [toClose EXCEPT ![s] = @ \ {t}]
  /\ done' = [done EXCEPT ![s] = @ \cup {t}]
  /\ UNCHANGED <<books, closing, rowRead>>

EndClosing(s) ==
  /\ closing' = [closing EXCEPT ![s] = "none"]
  /\ toClose' = [toClose EXCEPT ![s] = {}] /\ done' = [done EXCEPT ![s] = {}]
  /\ rowRead' = [rowRead EXCEPT ![s] = FALSE]
  /\ rowHeld' = [rowHeld EXCEPT ![s] = EmptyAccount]
  /\ paying' = [paying EXCEPT ![s] = Nothing]

\* Absolute values of the columns that changed, and the entries.
Pays(s) == \E t \in Tokens : paying[s][t] > 0

CommittedRow(s) ==
  IF Pays(s)
  THEN Merged(rowHeld[s], [credits |-> row.credits + rowHeld[s].credits,
                           debits |-> row.debits + rowHeld[s].debits])
  ELSE row

CommitClosing(s) ==
  /\ closing[s] # "none" /\ toClose[s] = {}
  /\ tokenIs' = [t \in Tokens |-> IF t \notin done[s] THEN tokenIs[t]
                                  ELSE IF closing[s] = "revoke" THEN "revoked" ELSE "expired"]
  /\ row' = CommittedRow(s)
  /\ paidBack' = [t \in Tokens |-> paidBack[t] + paying[s][t]]
  /\ EndClosing(s) /\ UNCHANGED <<overdue, shared>>

\* The process is lost, the database refuses, or it ends a deadlock.
ClosingLost(s) == closing[s] # "none" /\ EndClosing(s) /\ UNCHANGED books

ClosingNext ==
  \/ \E t \in Tokens : BecomesOverdue(t)
  \/ \E s \in Closers : \/ ExpireAll(s) \/ ReadRow(s) \/ CommitClosing(s) \/ ClosingLost(s)
                        \/ \E t \in Tokens : Revoke(s, t) \/ CloseToken(s, t)

ClosingSpec == ClosingInit /\ [][ClosingNext]_closingVars

-----------------------------------------------------------------------------
\* A token is refunded once, and no more than is unused, unless two sessions had read
\* it as open at once: the hourly task and a revocation then both pay it back, out of
\* what is locked for the user's other tokens.
TwiceRefundedOnlyByOverlap ==
  \A t \in Tokens \ shared :
    paidBack[t] <= (IF tokenIs[t] = "open" THEN 0 ELSE Unused(t))
=============================================================================
