------------------------------- MODULE Wallet -------------------------------
(***************************************************************************)
(* Virtual accounts, and the workers that turn stored events into credits  *)
(* of users.balance_kobo.  A worker loads what is unprocessed, handles one *)
(* event after the other in one session, and commits at the end.  Nothing  *)
(* in the repository starts these tasks, the call in the route is a        *)
(* comment, and nothing calls expire_accounts, which is left out.          *)
(***************************************************************************)
EXTENDS Inbox, Integers, Functions

CONSTANTS Payees,   \* users with virtual accounts
          Accounts, \* virtual accounts, by their accountRef
          Payee,    \* the user of each account
          Primary,  \* accounts that are a user's permanent one
          Expected, \* the amount an account was made for, 0 if none
          Into,     \* the account each deposit among the events was paid into
          Received, \* its amount
          Workers,  \* worker processes
          StoresAccounts, \* the service does not begin a transaction inside one
          FundingMatches  \* process_funding has the parameter account_ref

ASSUME WalletAssumption ==
  /\ Payee \in [Accounts -> Payees] /\ Primary \in SUBSET Accounts
  /\ Expected \in [Accounts -> Nat]
  /\ DOMAIN Into \subseteq Events /\ \A d \in DOMAIN Into : Into[d] \in Accounts
  /\ Received \in [DOMAIN Into -> Nat]
  /\ StoresAccounts \in BOOLEAN /\ FundingMatches \in BOOLEAN

VARIABLES
  opened,    \* accounts Nomba has opened
  opening,   \* those the request for which is still under way
  accountIs, \* status of the account's row
  balance,   \* users.balance_kobo
  processed, \* events with processed = TRUE
  failures,  \* events with a processing_error
  unknown,   \* deposits handled when their account was in no row
  overlapped \* users whose deposits two sessions had loaded at once

VARIABLES
  workAt,    \* where each worker is with its first event
  bulk,      \* whether it runs process_pending_webhooks
  taken,     \* the events it has loaded
  marks,     \* those it has marked processed
  errors,    \* those of them it has marked failed
  credits,   \* deposits it has credited
  skipped,   \* deposits it has ignored, their account being in no row
  held,      \* users.balance_kobo in its memory, NotRead before it is read
  accountTo  \* status its UPDATE has given an account, "same" if none

store == <<opened, opening, accountIs, balance, processed, failures, unknown, overlapped>>
work == <<workAt, bulk, taken, marks, errors, credits, skipped, held, accountTo>>
walletVars == <<arrived, store, work>>

Deposits == DOMAIN Into
NotRead == -1
Verdicts == {"funded", "underpaid", "overpaid"}

WalletTypeOK ==
  /\ opened \in SUBSET Accounts /\ opening \in SUBSET Accounts
  /\ accountIs \in [Accounts -> {"absent", "active", "pending"} \cup Verdicts]
  /\ balance \in [Payees -> Nat]
  /\ processed \in SUBSET Stored /\ failures \in SUBSET processed
  /\ unknown \in SUBSET (Deposits \cap processed) /\ overlapped \in SUBSET Payees
  /\ workAt \in [Workers -> {"idle", "next", "found", "marked", "handled"}]
  /\ bulk \in [Workers -> BOOLEAN]
  /\ taken \in [Workers -> SUBSET Events] /\ marks \in [Workers -> SUBSET Events]
  /\ errors \in [Workers -> SUBSET Events] /\ credits \in [Workers -> SUBSET Deposits]
  /\ skipped \in [Workers -> SUBSET Deposits]
  /\ held \in [Workers -> [Payees -> Nat \cup {NotRead}]]
  /\ accountTo \in [Workers -> [Accounts -> {"same"} \cup Verdicts]]

WalletInit ==
  /\ opened = {} /\ opening = {}
  /\ accountIs = [a \in Accounts |-> "absent"]
  /\ balance = [p \in Payees |-> 0]
  /\ processed = {} /\ failures = {} /\ unknown = {} /\ overlapped = {}
  /\ workAt = [w \in Workers |-> "idle"] /\ bulk = [w \in Workers |-> FALSE]
  /\ taken = [w \in Workers |-> {}] /\ marks = [w \in Workers |-> {}]
  /\ errors = [w \in Workers |-> {}] /\ credits = [w \in Workers |-> {}]
  /\ skipped = [w \in Workers |-> {}]
  /\ held = [w \in Workers |-> [p \in Payees |-> NotRead]]
  /\ accountTo = [w \in Workers |-> [a \in Accounts |-> "same"]]

-----------------------------------------------------------------------------
Asks(a) ==
  /\ accountIs[a] = "absent" /\ a \notin opening
  /\ opened' = opened \cup {a} /\ opening' = opening \cup {a}
  /\ UNCHANGED <<arrived, accountIs, balance, processed, failures, unknown,
                 overlapped, work>>

\* The permanent account has one accountRef per user and is asked for again as
\* long as it is not stored; a funding account has a new one every time.
CreateUserVirtualAccount(a) == a \in Primary /\ Asks(a)
CreateFundingAccount(a) == a \notin Primary \cup opened /\ Asks(a)

FirstStatus(a) == IF a \in Primary THEN "active" ELSE "pending"

StoreAccount(a) ==
  /\ a \in opening /\ StoresAccounts
  /\ accountIs' = [accountIs EXCEPT ![a] = FirstStatus(a)]
  /\ opening' = opening \ {a}
  /\ UNCHANGED <<arrived, opened, balance, processed, failures, unknown,
                 overlapped, work>>

\* Nomba keeps an account whose request failed here: it can be paid into.
AccountLost(a) ==
  /\ a \in opening
  /\ opening' = opening \ {a}
  /\ UNCHANGED <<arrived, opened, accountIs, balance, processed, failures, unknown,
                 overlapped, work>>

-----------------------------------------------------------------------------
Todo(w) == taken[w] \ marks[w]
Event(w) == CHOOSE e \in Todo(w) : \A f \in Todo(w) : arrived[e] <= arrived[f]
Facing(w, p) == workAt[w] = p /\ Todo(w) # {}
TargetOf(w) == Into[Event(w)]
User(w) == Payee[TargetOf(w)]
Moving(w, p) == workAt' = [workAt EXCEPT ![w] = p]

EndsWork(w) ==
  /\ Moving(w, "idle") /\ bulk' = [bulk EXCEPT ![w] = FALSE]
  /\ taken' = [taken EXCEPT ![w] = {}] /\ marks' = [marks EXCEPT ![w] = {}]
  /\ errors' = [errors EXCEPT ![w] = {}] /\ credits' = [credits EXCEPT ![w] = {}]
  /\ skipped' = [skipped EXCEPT ![w] = {}]
  /\ held' = [held EXCEPT ![w] = [p \in Payees |-> NotRead]]
  /\ accountTo' = [accountTo EXCEPT ![w] = [a \in Accounts |-> "same"]]

RollsBackWork(w) == EndsWork(w) /\ UNCHANGED <<arrived, store>>

UsersOf(events) == {Payee[Into[d]] : d \in events \cap Deposits}

Load(w, events, pending) ==
  /\ workAt[w] = "idle" /\ events # {}
  /\ Moving(w, "next")
  /\ bulk' = [bulk EXCEPT ![w] = pending]
  /\ taken' = [taken EXCEPT ![w] = events]
  /\ overlapped' = overlapped \cup
       (UsersOf(events) \cap UNION {UsersOf(taken[q]) : q \in Workers \ {w}})
  /\ UNCHANGED <<arrived, opened, opening, accountIs, balance, processed, failures,
                 unknown, marks, errors, credits, skipped, held, accountTo>>

\* process_webhook_event, delivered any number of times (acks_late, retries): it
\* returns at once for an event that is processed.
MutantUnprocessed == Stored \ failures
Unprocessed == Stored \ processed
ProcessEvent(w, e) == e \in Unprocessed /\ Load(w, {e}, FALSE)

\* process_pending_webhooks: the oldest unprocessed events.
ProcessPending(w) == Load(w, Unprocessed, TRUE)

\* process_funding reads the account and the user; a session keeps what it read.
FindAccount(w) ==
  /\ Facing(w, "next") /\ Event(w) \in Deposits /\ FundingMatches
  /\ accountIs[TargetOf(w)] # "absent"
  /\ held' = [held EXCEPT ![w][User(w)] = IF @ = NotRead THEN balance[User(w)] ELSE @]
  /\ Moving(w, "found")
  /\ UNCHANGED <<arrived, store, bulk, taken, marks, errors, credits, skipped, accountTo>>

\* "ignored" is no failure, and transfers are the settlement service's.
NothingToCredit(w) ==
  Event(w) \in Deposits => FundingMatches /\ accountIs[TargetOf(w)] = "absent"

HandleOther(w) ==
  /\ Facing(w, "next") /\ NothingToCredit(w)
  /\ skipped' = [skipped EXCEPT ![w] = @ \cup ({Event(w)} \cap Deposits)]
  /\ Moving(w, "handled")
  /\ UNCHANGED <<arrived, store, bulk, taken, marks, errors, credits, held, accountTo>>

FundingStatus(d) ==
  LET expected == Expected[Into[d]]
  IN  CASE expected # 0 /\ Received[d] < expected -> "underpaid"
        [] expected # 0 /\ Received[d] > expected -> "overpaid"
        [] OTHER -> "funded"

MarkFunded(w) ==
  /\ Facing(w, "found")
  /\ \A q \in Workers \ {w} : accountTo[q][TargetOf(w)] = "same"
  /\ accountTo' = [accountTo EXCEPT ![w][TargetOf(w)] = FundingStatus(Event(w))]
  /\ Moving(w, "marked")
  /\ UNCHANGED <<arrived, store, bulk, taken, marks, errors, credits, skipped, held>>

\* The UPDATE of the user waits for the row and writes the sum made in memory.
CreditUser(w) ==
  /\ Facing(w, "marked")
  /\ \A q \in Workers \ {w} : User(w) \notin UsersOf(credits[q])
  /\ held' = [held EXCEPT ![w][User(w)] = @ + Received[Event(w)]]
  /\ credits' = [credits EXCEPT ![w] = @ \cup {Event(w)}]
  /\ Moving(w, "handled")
  /\ UNCHANGED <<arrived, store, bulk, taken, marks, errors, skipped, accountTo>>

\* The UPDATE of the event waits for its row, whatever the row says by then.
EventFree(w) == \A q \in Workers \ {w} : Event(w) \notin marks[q]

MarkProcessed(w) ==
  /\ Facing(w, "handled") /\ EventFree(w)
  /\ marks' = [marks EXCEPT ![w] = @ \cup {Event(w)}]
  /\ Moving(w, "next")
  /\ UNCHANGED <<arrived, store, bulk, taken, errors, credits, skipped, held, accountTo>>

\* Handling raises before it has changed anything.  One event's task rolls back,
\* mark_failed included; the task of all events goes on and keeps it.
FailsOne(w) == Facing(w, "next") /\ ~bulk[w] /\ RollsBackWork(w)

MarkFailed(w) ==
  /\ Facing(w, "next") /\ bulk[w] /\ EventFree(w)
  /\ marks' = [marks EXCEPT ![w] = @ \cup {Event(w)}]
  /\ errors' = [errors EXCEPT ![w] = @ \cup {Event(w)}]
  /\ UNCHANGED <<arrived, store, workAt, bulk, taken, credits, skipped, held,
                 accountTo>>

MutantMarkedBy(w) == marks[w] \ credits[w]
MarkedBy(w) == marks[w]

CommitWork(w) ==
  /\ workAt[w] = "next" /\ Todo(w) = {}
  /\ processed' = processed \cup MarkedBy(w)
  /\ failures' = failures \cup errors[w]
  /\ unknown' = unknown \cup skipped[w]
  /\ balance' = [p \in Payees |-> IF p \in UsersOf(credits[w]) THEN held[w][p] ELSE balance[p]]
  /\ accountIs' = [a \in Accounts |-> IF accountTo[w][a] = "same" THEN accountIs[a]
                                                                ELSE accountTo[w][a]]
  /\ EndsWork(w)
  /\ UNCHANGED <<arrived, opened, opening, overlapped>>

\* The process or the connection is lost, or the database ends a deadlock.
WorkerLost(w) == workAt[w] # "idle" /\ RollsBackWork(w)

WorkerStep(w) ==
  \/ \E e \in Events : ProcessEvent(w, e)
  \/ ProcessPending(w) \/ FindAccount(w) \/ HandleOther(w) \/ MarkFunded(w)
  \/ CreditUser(w) \/ MarkProcessed(w) \/ FailsOne(w) \/ MarkFailed(w)
  \/ CommitWork(w) \/ WorkerLost(w)

AccountStep(a) ==
  \/ CreateUserVirtualAccount(a) \/ CreateFundingAccount(a)
  \/ StoreAccount(a) \/ AccountLost(a)

\* Nomba tells of a deposit only when the account is open.
EventArrives(e) ==
  /\ e \in Deposits => Into[e] \in opened
  /\ Arrive(e)
  /\ UNCHANGED <<store, work>>

WalletNext == \/ \E e \in Events : EventArrives(e)
              \/ \E a \in Accounts : AccountStep(a)
              \/ \E w \in Workers : WorkerStep(w)

WalletSpec == InboxInit /\ WalletInit /\ [][WalletNext]_walletVars

-----------------------------------------------------------------------------
\* The deposits whose handling is committed, not as a failure and not as one into an
\* account in no row: those are never credited, and are not handled again.
Creditable == (Deposits \cap processed) \ (failures \cup unknown)

\* A user's balance is the sum of the user's deposits that are done with, each once,
\* however often events and tasks are repeated, unless two sessions had deposits of the
\* user loaded at once: then one may be counted twice, or its credit overwritten.
\* Deposits that failed, or came before their account was stored, are lost to the user.
CreditsLostOnlyToOverlap ==
  \A p \in Payees \ overlapped :
    balance[p] = SumFunctionOnSet(Received, {d \in Creditable : Payee[Into[d]] = p})
=============================================================================
