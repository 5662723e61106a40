# OffiMesh: TLA+ models, checks and proofs

OffiMesh is a FastAPI backend for payments made without connectivity: a user locks money for an *offline token*, spends it from the phone, the merchant later syncs signed transactions, and the backend settles them through the Nomba payment API.
This directory models its core in TLA+, checks the models with TLC and proves their main invariants with TLAPS.
All paths below are relative to the repository's root; line numbers are given in `PROJECT.json` under `map`.

## 1. Inventory

| Component | State it keeps | Operations | What is hard about it | What makes it correct |
|---|---|---|---|---|
| Ledger (`app/services/ledger_service.py`) | `ledger_balances` (available, locked), append-only `ledger_entries` | credit, debit, transfer, lock, unlock, integrity check | sessions overlap without row locks on reads; opposite transfers deadlock | balances never negative, derivable from the entries |
| Database sessions (`app/core/database.py`) | identity map, pending UPDATEs | begin, flush, commit, rollback | READ COMMITTED, absolute values written back, crash between steps | a call takes effect as a whole or not at all, and ends |
| Offline tokens (`token_service.py`, `token_repository.py`) | `offline_tokens`: status, amount, used, two clocks | provision, record spend, sync spend, revoke | revocation, cutoff, expiry and sync of one token in any order | no token gives out more than was locked; locked money comes back |
| Token workers (`workers/token_*_worker.py`) | none of their own | cutoff (15 min), expiry and refund (hourly), manual refund | read a list, then work on it; retries; redelivery | each token is refunded exactly once |
| Transaction sync (`transaction_service.py`, `core/redis.py`) | `transactions`, nonces and sequences in Redis | batch sync | Redis is written before the database commits | a transaction is accepted at most once, and a lost one can be retried |
| Settlement (`settlement_service.py`, `settlement_worker.py`) | `settlements`, transaction status | settle, retry, webhooks | advisory lock after the checks, external transfer, retry after rollback | at most one payout per transaction, statuses that match it |
| Webhooks (`webhook_service.py`, `workers/webhook_worker.py`) | `webhook_events` | receive, deduplicate, process, retry | Nomba repeats and reorders deliveries; the answer precedes the commit | what was acknowledged is stored, once |
| Wallet and virtual accounts (`wallet_service.py`) | `virtual_accounts`, `users.balance_kobo` | open accounts, fund | several processing paths over one event, absolute balances | a deposit is credited once |
| Nomba client (`integrations/nomba`) | circuit breaker, cached access token | request, retry, refresh | breaker state shared by concurrent requests, half-open probes, the age of a cached token | the breaker recovers; retries stay within bounds; a cached token is alive |
| Fraud and device trust (`fraud_service.py`, `device_trust_service.py`, `workers/blacklist_worker.py`, `workers/device_trust_recalc_worker.py`) | signals, trust levels, blacklist, activity log | two checkpoints, evaluation, blacklist scan, recalculation | a listing between check and issue, refusals that are rolled back | a blacklisted device gets no more tokens, an offender is listed |
| Identity verification (`identity_verification_service.py`) | `identity_verifications`, flags of `users` | verify NIN and BVN, verify face, gate tokens | several verifications of one user, results lost or denied | no token without both verifications |
| Authentication (`auth_service.py`) | OTPs in Redis, users, devices | register, verify, login, refresh | a response sent before its commit, one code used twice | who was told "verified" is; a code is good for one login |
| Rate limits, nonces, token cache (`core/redis.py`) | counters and keys with a TTL | count, set, expire | increments and expiries in two commands | counters and keys expire |
| Notifications, SMS, snapshots, audit, shell | rows that are only written or read | I/O | none | not modelled |

How they interact: the API handlers and the celery tasks run in separate processes and meet only in PostgreSQL and Redis.
The token service and the expiry worker are the only callers of the ledger; sync touches the token; settlement reads what sync accepted and calls Nomba; Nomba answers by webhook, which is stored first and processed later.
Identity verification, device trust and the fraud checkpoint stand before a token is issued; authentication and rate limits stand before every request.

### The state of the code at this commit

The models describe the bodies of the services, as each would run when called.
Some paths cannot run end to end at this commit, which the models keep visible where it changes behaviour:

* FastAPI, at the version of `uv.lock`, runs what follows the `yield` of a dependency, and so the commit of `get_session` (`core/database.py:47`), after the response has been sent. The models of request handlers therefore answer first and commit later.
* `app/services/wallet_service.py:127` is a syntax error, and `app/services/__init__.py` imports every service.
* `provision_token` (`token_service.py:167-180`) never sets the NOT NULL column `token_id`, so the INSERT fails and the lock is rolled back. The constant `AssignsTokenId` of `OfflineTokens` is FALSE for the code as written, and then no token ever exists; the runs use TRUE.
* `OfflineToken.is_expired` (`models/offline_token.py:146`) compares a naive with an aware datetime, which raises for every active token and aborts the batch. The constant `AwareClock` is FALSE for the code as written, and then no spend is ever synced; the runs use TRUE.
* The route of `provision_token` (`routers/tokens.py:27`) does not pass a Play Integrity payload on, and neither place that inserts a device (`routers/devices.py:39`, `auth_service.py:236`) gives it its NOT NULL fingerprint hash: `SendsPayload` and `SetsPrintHash` of `DeviceTrust` and `SetsDeviceHash` of `Authentication` are FALSE for the code as written, and then no device exists, no token is issued and no login is answered.
* `hash_phone` salts every call anew, so that the same phone never has the same hash: `StablePhoneHash` of `Authentication` is FALSE for the code as written, and then no one can log in. `AccountsOpen` is FALSE as well, because registration opens a virtual account through the wallet service, and then no one can register.
* The webhook route does not pass the header `nomba-timestamp` on, which Nomba signs: `PassesTimestamp` of `Webhooks` is FALSE for the code as written, and then no event is ever stored.
* The wallet service begins a transaction inside one that has begun (`StoresAccounts`), and the webhook service calls `process_funding` with parameters it does not have (`FundingMatches`): FALSE for the code as written, and then no account is stored and no deposit credited. All these constants are TRUE in the runs, which ask what the code does once these are repaired; the theorems hold for either value.
* `WebhookDuplicateError` is raised with a parameter it does not have; the text of the `TypeError` that results contains "Duplicate", so the route still answers 200.
* With the default `SMS_PROVIDER=mock` (`core/config.py:101-104`, `.env.example:85`) every one-time code is "000000" (`auth_service.py:139-148`). The models leave the set of codes to a constant (`Codes` of `Authentication`), and codes may repeat.
* A batch of offline transactions is a list of raw dictionaries (`schemas/transaction.py:18`) that nothing validates as `SingleTransactionData` (`:32`, at least 100 kobo): a zero amount counts as missing, and one below zero is accepted (`transaction_service.py:143-165`) and lowers the usage of the token, possibly below zero. The models of tokens and of sync have such amounts.
* The webhook route answers 200 to any failure whose text contains "duplicate" or "already" (`routers/webhooks.py:55`), whether or not the event is stored. `Webhooks` has such failures.
* `models/ledger_balance.py:41` gives `updated_at` the string `"now()"` as its `onupdate`, a value no timestamp column takes; the ledger's methods all set the column themselves, so that it is not used.
* The daily recalculation selects devices by `Device.last_used_at` (`workers/device_trust_recalc_worker.py:37`), a column the model does not have, and so raises; `RecalculatedScore` of `DeviceTrust` is what it would compute.
* Nothing starts the webhook tasks, and nothing calls `expire_accounts`, `evaluate_checkpoint_2`, `record_spend` or the device middleware's checks.
* `LedgerService.credit`, `debit` and `transfer` have no caller: funding credits `users.balance_kobo`. The models include them as the operations they are.

## 2. Modules

| Module | Models | Extends |
|---|---|---|
| `LedgerRows` | a balance row with its entry sums, and what each ledger method does to them | |
| `Ledger` | the abstract ledger: every method one atomic step | `LedgerRows` |
| `LedgerSessions` | the ledger as database sessions run it; `Ledger` is its abstraction (`Atomic == INSTANCE Ledger`) | `LedgerRows` |
| `LedgerProofs` | theorems about `LedgerSessions` | `LedgerSessions` |
| `MCLedger` | `LedgerSessions` with concurrent sessions, and once more with one session at a time (`Alone`) | `LedgerSessions` |
| `OfflineTokens` | the life of tokens over the ledger rows and the clock | `LedgerRows` |
| `OperatorTasks` | `OfflineTokens` with the two tasks nothing starts by itself | `OfflineTokens` |
| `OfflineTokensProofs` | theorems about `OfflineTokens` and `OperatorTasks` | `OperatorTasks` |
| `MCOfflineTokens`, `MCOperatorTasks` | constants for TLC | |
| `Settlement` | concurrent settlement of one transaction, Nomba's transfer and its webhooks | |
| `SettlementProofs` | theorems about `Settlement` | `Settlement` |
| `CircuitBreaker` | concurrent requests of the Nomba client and the breaker they share | |
| `CircuitBreakerProofs` | theorems about `CircuitBreaker` | `CircuitBreaker` |
| `MCNomba` | `Settlement` and `CircuitBreaker` side by side, constants for TLC | both |
| `TransactionSync` | concurrent batches of offline transactions over Redis and the database | |
| `TransactionSyncProofs` | theorems about `TransactionSync` | `TransactionSync` |
| `MCTransactionSync` | constants for TLC | `TransactionSync` |
| `IdentityVerification` | NIN, BVN and face verification of one user | |
| `DeviceTrust` | device trust, fraud signals, blacklist: what stands before a token | |
| `MCTrust` | the two side by side, constants for TLC | `IdentityVerification`, `DeviceTrust` |
| `MCFailedChecks` | `DeviceTrust` with a count of failed Play Integrity checks | `DeviceTrust` |
| `AdmissionProofs` | theorems about the two, each alone and side by side | `MCTrust` |
| `Inbox` | the abstract table of events: each enters once | |
| `Webhooks` | the handlers of Nomba's deliveries, which implement `Inbox` | `Inbox` |
| `Wallet` | virtual accounts and the workers that credit deposits | `Inbox` |
| `Authentication` | registration, verification and login over Redis and the database | |
| `RedisKeys` | the cached token of Nomba and the rate-limit counter | |
| `TokenClosing` | revocation and the hourly expiry at the same time | `LedgerRows` |
| `MCEdge` | `Authentication`, `Webhooks`, `Wallet`, `RedisKeys` and `TokenClosing` side by side, constants for TLC | all five |
| `EdgeProofs` | theorems about these five, each alone and side by side, and the refinement of `Inbox` | `MCEdge` |
| `SumTheorems` | theorems about sums over finite sets, for all the modules that state one | |

Definitions called `Mutant...` are the bugs used to test the properties: each is a plausible wrong version of the definition that follows it.

### LedgerRows, Ledger, LedgerSessions

`account[u]` is the row of `ledger_balances` of `u` with the sums of the user's credit and debit entries; entries are append-only and read back only summed.
`Ledger` applies each method atomically.
`LedgerSessions` splits a call the way the code does: `Begin` (a session opens with a call, which is a list of row updates, two for `transfer`), `Read` (`get_or_create_balance`), `Flush` (check, in-memory change, UPDATE that takes the row lock), `Refuse` (insufficient funds, rollback), `Commit`, and, from outside, `Crash` and `DeadlockVictim`.
An UPDATE writes only changed columns, as SQLAlchemy does, and writes absolute values; entries are INSERTed and so add up.
There is no row lock on the reads, so two sessions may compute from the same row.
Creating a missing row is modelled as loading a row of zeros; the unique-key clash of two sessions that both insert it is left out (one of them is refused, as in a crash).

### OfflineTokens, OperatorTasks

One action per database transaction, run one after another; the hourly `expire_tokens` is `ExpireStart` (the SELECT) followed by one `ExpireOne` per selected token, with no other transaction in between.
The owner of a token is a constant function, because an identifier is used for one provisioning only.
`refunded[t]` is the sum of the refund entries that reference `t`.
The lock entry references the literal "pending" (`token_service.py:143`, `_update_token_ledger_reference` does nothing), so it cannot be attributed to a token and is not.
Identity, trust and fraud checks stand before provisioning and only decide whether it happens.
`RecordSpend` models `record_spend`, which no code calls; synced spends go through `SyncSpend`, which neither looks at the spend cutoff nor marks a token exhausted.
What is spent at a time is a member of `Spends`, a set of integers: neither way of spending asks that an amount be positive, and `used[t]` may be below zero (not below the bound `LeastUsed`).
`ClosedBelowZero` names the consequence: such a token is refunded more than it locked, as far as the user's other tokens have money locked.
`OperatorTasks` adds `refund_specific_token` and the reconciliation worker's `expire_tokens` (an UPDATE without refund); neither is in the beat schedule.

### Settlement

One transaction that sync has verified, any number of concurrent calls of `process_settlement`, one database session each.
`status` is the committed `transactions.status`, `rows` the committed `settlements` of the transaction, `transfer` what Nomba has made of its `merchantTxRef`, and `pc[s]` the step a session has reached: status check, look-up of an existing settlement, advisory lock, INSERT and UPDATE, request, and the commit of its outcome.
"settling" and "processing" are written in the session that overwrites them before it commits, so no other session ever reads them; `check_stale_settlements`, which looks for them, therefore has nothing to find and is not an action.
The API route and the single celery task roll back when the service raises (`ForgetFailure`); the batch task and the retry task catch the exception and commit what the session holds (`RecordFailure`).
A batch of several transactions shares one session; what the others can do to this one is to abort or discard it, which is `Crash`.
The advisory lock is keyed by Python's `hash` of a string, which differs between processes with different hash seeds: `HashSeed`.
It is also taken after the checks it should protect.
The properties hold all the same, and without that lock too: the UPDATE of the transaction's row locks it until the session ends, and `nomba_transfer_id` is unique.
External: that Nomba keeps one transfer per `merchantTxRef`, that a repeated request is answered with it or refused, and that the id in its webhooks is the one in its answer.

### CircuitBreaker

`BaseNombaClient._request` and the breaker object that all requests of one client share.
Coroutines interleave only at an await, so checking the breaker and sending is one step (`Send`, `Refuse`), and recording an answer with its consequence for the request is another (`Succeed`, `Fail`, `EndUnrecorded`, `Retry`, `GiveUp`).
Times are kept as ages, which stop growing at the length of the failure window: beyond it ages are not told apart.
`Retry` follows the code and not the comment at `base_client.py:368`: a request that is not idempotent is repeated once after a timeout.
How long a request or a back-off takes is not bounded.
Left out: a failure of the token endpoint before the first attempt, which raises without touching the breaker.
To a settlement a request that the breaker refuses is one that failed, which can happen to it at any time; so `MCNomba` explores the two side by side and not on top of each other.

### TransactionSync

`sync_batch` and `_process_single_transaction`, one step per query or Redis command, in concurrent sessions.
`place[s]` is how far a session is with the first transaction of `batch[s]`: duplicate check, checks of the token, `SETNX` of the nonce, its `EXPIRE`, sequence check, INSERT, sequence update, charge.
The token object lives as long as one transaction is processed, so its usage (`loaded`) is read anew for every transaction, but not again between the check and `increment_usage`, which writes a value computed from it.
Redis commands take effect at once, and a rollback (`Abort`) does not undo them: a payment whose batch was rolled back, or that was refused as stale, is a replay until its nonce expires, and for ever if the process died between `SETNX` and `EXPIRE`.
`Unusable` transactions make the code raise, which rolls back the whole batch: a malformed identifier, or `payer_device_id` missing, which `docs/API.md` does not list and whose default is not accepted by `uuid.UUID` (`transaction_service.py:178`).
Other refusals (missing fields, unknown users or devices) change nothing and are left out.
Amounts and sequence numbers are integers of either sign, but 0, which counts as a missing field (`Complete`).
Assumed: `is_expired` can be evaluated (section 1), and no batch takes the two days after which its keys expire.
`CloseToken` stands for revocation, exhaustion and expiry, as one step; what they refund is in `OfflineTokens`.

### IdentityVerification, DeviceTrust

`IdentityVerification` has any number of requests of one user under way.
`verifiedRows`, `failedRows` and `flags` are what is committed; a pending row is inserted and updated in one session, so no other ever sees it.
`confirmed` and `matched` are history: what the provider has said, and what a face was recorded to match.
`VerifyFace` is refused unless there is exactly one verified row, because the query is a `scalar_one_or_none`: a second verified NIN makes face verification impossible.
External: the provider's answer, which may be any.

`DeviceTrust` runs `provision_token` up to the issue of the token, one step per query: blacklist check, trust evaluation (which locks the row of the device), signals, automatic blacklisting, decision.
`evaluate_checkpoint_2` is the same with other signals and no device; nothing calls it, and it is modelled as the operation it is.
`scanning` is the task that lists offenders every 30 minutes, in one session for all of them: a candidate that a request lists meanwhile makes the whole scan fail.
The fingerprint a phone sends is not compared with the device it names, so that `print` and `row` are independent.
A refusal raises, and the session is rolled back with the failure count, the signals and the listing it had written.
`MCFailedChecks` adds `failed`, a count of the refused Play Integrity checks of each fingerprint that the program itself loses in these rollbacks.
Scores and limits are the numbers of the code.
`device_trust_score`, which the daily recalculation writes, is read by no code; what it would be is `RecalculatedScore`.

### Inbox, Webhooks, Wallet

`arrived[e]` is the place of an event in the order in which `webhook_events` received them, 0 without a row.
`Webhooks` splits a delivery into the look-up by `requestId`, the INSERT (which waits for another of the same key), the answer and the commit.
Nomba may deliver any event at any time, also again, and `acked` are the events it knows to be answered 200.
A request that fails is answered 200 if the text of its error reads like a duplicate's (`FailsAsDuplicate`, of which `misread` keeps the history) and 500 otherwise (`HandlerLost`).
`Wallet` lets events arrive as `Inbox` does; that the handlers are such an inbox is the theorem `WebhooksImplementInbox`, so the two are explored apart.
Its workers are both ways to process events: one event (`ProcessEvent`) and all that is pending (`ProcessPending`), each in one session, which reads a user's balance once and writes the sum it has made in memory.
Accounts are opened at Nomba before they are stored, so that an account may exist at Nomba only (`AccountLost`).
A deposit whose account is in no row is ignored and marked processed like one that was credited; `unknown` is the history of these, and `failures` the events whose handling raised. Neither is ever credited.
Left out: transfer events, which `Settlement` models; the withdrawal of a balance, which does not exist.

### Authentication

One phone, whose registrations may create any number of users, since only `phone_hash` is unique.
`_generate_otp` may return any of `Codes`, the same one any number of times; with the default mock provider there is only one.
`code[r]` is the code a request was sent, any of `Codes`, and `otp[u]` the one in Redis, which any later code replaces and any request blanks; a wrong guess is the refusal `WrongCode`.
With the code `otp` keeps which sending it came with (`nth`), and `matched` that of the code a request was compared with: history, since the code alone does not tell two sendings apart.
`told`, `excused`, `holders` and `logins` are history.
Tokens are not stored: `MayAct` is what `get_current_user` and `refresh_tokens` look at, the holder and the status.
`set_pin` changes nothing these steps look at, and `verify_pin` imports functions that do not exist (`auth_service.py:336`).

### RedisKeys

Time is discrete and passes between commands.
An answer states an expiry if it has one that can be read: without one the lifetime is taken to be an hour (`Unstated`; `integrations/nomba/types.py:30-40`, also for a text that is no date), whatever it is.
`left` is how long Nomba still accepts the cached token, `ttl` how long the key lives, 0 for ever: a TTL of 0 makes `cache_set` use `SET` instead of `SETEX`.
The counter is incremented by one command and given its expiry by another, by whoever saw 1.

### TokenClosing

The transactions that `OfflineTokens` runs one after another, as sessions at the same time: what each has read (`toClose`), handled (`done`) and will write (`rowHeld`, `paying`).
The usage of each token is a constant: a sync that overlaps a revocation is outside this model (`TransactionSync` closes tokens between the checks and the charge of a batch, `OfflineTokens` runs the two in any order).
`shared` is history: the tokens two sessions had read as open at once.
The UPDATE of a token has no condition on its status, so both sessions close it and both post a refund.

## 3. Runs

| Run | Instance | Checks |
|---|---|---|
| `ledger` | together: 2 users, 2 sessions, amounts 0 and 1, calls begin while at most 2 is posted; alone: 2 users, 1 session, amounts 0 to 2, with overdrafts, 5 posted; 193,898 states | `TypeOK`, `NonNegative`, `DerivableAlone`, `OnlyStaleWritesDrift`, `CallsEnd`, refinement `LedgerAlone` |
| `ledger_integrity` | as `ledger` | finds `MatchesEntriesAlone` violated |
| `tokens` | 2 users, 3 tokens, amounts 1 and 2, spends -1, 1 and 2, 5 points in time; 293,304 states | `TypeOK`, `WithinAmount`, `LockedAccountsForTokens`, `ClosedIsFinal`, `FundsReturn` |
| `tokens_operated` | as `tokens`, with the manual tasks and one more credit | finds `WithinAmount` violated |
| `nomba` | settlement: 3 sessions, 3 attempts; client: 2 requests, one of them idempotent, default settings but a threshold of 3; 67,138 states | `NombaTypeOK`, `RecordedOnce`, `LatestRowDecides`, `SettledWasAccepted`, `ClosedIsHealthy`, `OnlyStaleFailuresUnsettle`, `CallsEnd`, `OpensOnRecent`, `AdmitsUnlessSpent`, `RequestsEnd` |
| `settlement_retry` | as `nomba` | finds `FailedRetried` violated |
| `breaker_recovers` | as `nomba` | finds `Recovers` violated |
| `sync` | 2 sessions, 1 token, 5 transactions, one of them below zero, in 4 batches; 236,183 states | `TypeOK`, `RecordedOnce`, `RowWithinLimit`, `ChargedIsRecorded`, `BatchesEnd` |
| `sync_overspending` | as `sync` | finds `NoOverSpending` violated |
| `trust` | 2 identity requests; 1 device, 1 fingerprint, 2 checkpoints, 2 tokens; 239,159 states | `GateTypeOK`, `EligibleWasConfirmed`, `AtMostOneLateToken`, `EvidenceComesWithTokens`, `OffendersAreListed` |
| `failed_checks` | as the second half of `trust` | finds `FailuresAreListed` violated |
| `edge` | 2 users, 2 codes and 2 requests; 2 events and 2 handlers; 2 accounts and 2 workers; 2 callers and 2 visitors; 3 tokens and 2 sessions; 1,085,292 states | `EdgeTypeOK`, `VerifiedUnlessRaced`, `OneLoginPerRequest`, `AckedIsStored`, `CreditsLostOnlyToOverlap`, `KeysExpire`, `TwiceRefundedOnlyByOverlap` |

*What they show.* The ledger never shows a negative balance however sessions overlap, but its balance comes apart from its entries exactly when a session commits over a row that changed since it was read (the lost update); one session at a time, the code is the atomic ledger.
`ledger_integrity` refutes "Verify that balance matches sum of entries" (`ledger_service.py:317-321`): a credit and a lock, one after the other, are enough for `verify_balance_integrity`, "the reconciliation safety net", to report a mismatch, because locking posts a debit entry although the total does not change. What holds of the entries is `DerivableAlone`: their sum is the available balance alone.
With one transaction at a time tokens are sound: whichever of revocation, cutoff, expiry and late syncs comes first, no token pays out more than was locked for it, although synced amounts may be negative.
Money locked for one token stays out of the refunds of another, and comes back whole, except when a token is closed with a usage that negative amounts have brought below zero: `LockedAccountsForTokens` and `FundsReturn` make an exception for those users and for no others.
`tokens_operated` shows that `refund_specific_token` refunds a revoked token again, out of the money locked for another token of the user.

`nomba` shows that however calls, failures, crashes and webhooks interleave, only one settlement records the transfer, and the transaction's status agrees with its latest settlement.
A settled transaction can go back to "settlement_failed" although its transfer succeeded, but only through a batch or retry task that had read "verified" before the settlement (`OnlyStaleFailuresUnsettle` names exactly that case).
`settlement_retry` shows that the documented automatic retry does not happen: the first failure leaves the transaction "settlement_failed", which `process_settlement` refuses, so no retry of it gets past the first check.
`nomba` also shows that late answers of requests sent before a state change never leave the breaker closed with its threshold reached, and that failures older than the window do not open it.
`breaker_recovers` shows that a half-open breaker can stop admitting requests for good: its trial request and three probes may end in answers that are not recorded (4xx, 429), or fail without reaching the threshold of failures within the window, and nothing but a recorded answer changes its state. `AdmitsUnlessSpent` shows that spent probes are the only way to get stuck.
`sync` shows that a payment is recorded once whatever is sent again, also after Redis has forgotten it, and that no retry, rollback or crash charges a token for what is not on record, or twice for what is: its usage is always the sum of some of its recorded payments.
`sync_overspending` shows that two batches at once can both be accepted against one limit; the token's row then shows less than was promised to merchants, and never more than the limit (`RowWithinLimit`), so that the row does not give the overspending away. Its trace has positive amounts only; promises are counted net of negative ones, which makes the violation the harder to reach.

`trust` shows that whoever may hold tokens had a NIN confirmed and a face matched with a confirmed identity, whatever is denied or lost on the way.
A fingerprint that is listed while checks are under way gets at most one more token from each of them (`AtMostOneLateToken`): the listing is looked at once, at the beginning.
`EvidenceComesWithTokens` shows that the evidence of a check, its signals, the log and what the recalculation reads, is committed with the token the check has led to, all of it or none, in every order of sessions, failures and scans.
`failed_checks` shows the other side: a device that fails Play Integrity is refused by an exception before the fraud checkpoint (`token_service.py:110-118`), the failure is forgotten with the session, and the listing of devices with "3+ Play Integrity fails" (`fraud_service.py:300-301`; README.md:42 of the repository) does not come about.
`OffendersAreListed` shows that a fingerprint that stays an offender is listed in the end, although a scan can fail any number of times over a listing by a request.

`edge` explores five components in one run: `explored` names the one that moves, the others rest in their initial state, since they share no state but the order of events.
`VerifiedUnlessRaced` shows that "verified" can be said of a user who is not active only if the request came before the registration had committed, or its own commit was lost after the response.
`OneLoginPerRequest` shows that a code that has been sent works twice only for requests under way at once. It is about one sending: when the next one brings the same code, as the mock provider's always does, that code works again.
`AckedIsStored` shows that Nomba is told to forget an event that is not stored only by a commit that fails after its response or by an error that reads like a duplicate's, never by a duplicate of a request that is then rolled back.
`CreditsLostOnlyToOverlap` compares a balance with the deposits whose handling is committed, each once: only two sessions that had loaded deposits of one user at once can make them differ. It says nothing for deposits that failed or came before their account was stored, which are marked processed and never credited, nor for credits that no repaired code path reaches (`FundingMatches`, `StoresAccounts`).
`TwiceRefundedOnlyByOverlap` names the same for refunds: two sessions that had read one open token at once.
`KeysExpire` shows that neither concurrent callers nor the time from the answer to the cache leave a dead token in it, but for a lifetime of exactly the margin, and that a counter stays for ever only if a process is lost between two commands.

*Bounds.* Two sessions and two rows are what a lost update, an opposite-transfer deadlock and a wait need; amounts 0 and 1 cover the positive check and a balance that suffices for one call of two.
Alone, a session has larger amounts so that partial refunds and overdrafts occur.
For tokens, a unit of time is 24 hours and a unit of money the limit of a software-only device: hardware tokens live 3 units and are spend-locked after 2, software tokens live 1, so tokens expire both with and without having been spend-locked.
`Horizon` lets every token expire; a credit of 2 covers the two tokens of one user at once or a larger one alone, and `tokens_operated` has 3, so that a revoked token's refund can be locked again and more. A spend of -1 brings a usage below zero, where `LeastUsed` stops it, and that is where a refund exceeds what its token locked.
For settlement, three sessions are one that settles, one that shares its hash seed (and so meets the advisory lock) and one of another host that does not; three attempts are the default of the retry task.
For the breaker, a unit of time is 15 seconds: reset after 2, window of 4, three probes and three retries are the defaults of the code; the threshold is 3 for the code's 5, which two requests at a time reach both by failures of one and by failures of both, and which the proofs leave open; two requests at a time give late answers in every state.
For sync, two payments that together use up a token, one of them sent again under a new nonce for more and under a new id for less than nothing, give clashes in each unique column; each session has its own batches and both have the full one, so it is also sent twice at once.
For trust, one device and one fingerprint are enough, since sessions meet only over the same ones; two checks give a listing by one while the other has passed, and a conflict with the scan; two tokens and one earlier settlement signal give histories that count and an offender by two double spends.
For the edge, two of everything that acts give each race once; two codes, sent at most four times in all, so that an old code, a new one, one sent again and those of two users meet.
The second account expects another amount than it receives, both belong to one user, and one is permanent.
The margin of the cached token is 5, its cap 55 and its lifetimes lie below, at and above the margin and above the cap: a unit of time is a minute of the code's 300, 3300 and 3600 seconds.
Of the three tokens one is unused, one used in part and one used below zero.
Deadlock checking is off in the ledger's, the tokens' and the edge's runs because the bounds (`MaxPosted`, `Horizon`, one provisioning per token, events that are all processed, tokens that are all closed) let every model come to rest.

*Fairness.* In `ledger` and in `nomba` the half that is explored has the fairness of its module, and the other half rests, with nothing enabled that its fairness would ask for.
`LedgerSessions`: a session that can go on does (the server runs its coroutines) and the queue of a row lock is served in order, hence strong fairness of `Flush`; no fairness of `Begin` and `Crash`.
`OfflineTokens`: time passes, beat starts the hourly task while some token is due, and the task goes on; no fairness of any user action, nor of the cutoff task, which refunds do not need.
`Settlement`: a session goes on (requests to Nomba have timeouts), the queue of the row lock is served in order (strong fairness of `MarkSettling`), and beat starts the retry task every five minutes; no fairness of new calls, crashes or webhooks.
`TransactionSync`: a session goes on, and the queues of row locks and unique keys are served in order (strong fairness of `Wait`); no fairness of devices, crashes and expiring keys.
`CircuitBreaker`: time passes, coroutines are scheduled, every request has a timeout, and callers keep coming, without which a breaker could not be expected to admit anyone.
`DeviceTrust`: sessions go on, beat starts the scan every 30 minutes, and a waiting INSERT is next in line when the row it waits for is settled (strong fairness of the scan's steps); no fairness of new requests, of signals growing old or of manual listings. `MCTrust` asks for it only where `DeviceTrust` is what is explored.
The components of `edge` are checked for safety only.

## 4. Proofs

Assumptions: those named `...Assumption` in the modules.
They type the constants, keep some sets from being empty and others from being infinite (tokens, devices, fingerprints, requests of `Authentication`, events: a sum or a cardinality is taken of each, and the tables they stand for are finite).
Three say more.
`BreakerAssumption` asks for a positive threshold and window and a reset timeout within the window, as the defaults have it; `RedisKeysAssumption` for a margin (300 seconds) that covers the shortest `expires_in` (60 seconds) and the time from the answer to the cache; `ClosingAssumption` for amounts of which no more than the whole is used (less than nothing may be).

* `LedgerProofs`: `NonNegative` is not inductive, because what is committed next is what sessions hold in memory. `IInv` adds that rows in memory are sound and that pending calls use no overdraft unless callers pass one. `ApplyLegFacts` says what any row update does to any row, `MergedFacts` what a commit does; from these follow `Invariance`, `TypeCorrect`, `BalancesNonNegative` and `DriftOnlyFromStaleWrites`. `SerialImplementsLedger` proves the refinement for one session, by an invariant that relates the session's memory to the committed rows; `SerialDerivable` and `SerialIntegrityIffUnlocked` follow for one session; the latter is the finding of `ledger_integrity` for every amount and every sequence of calls. The three theorems are about any single session and so about `Alone` in `MCLedger`, whose `LedgerAlone` and `DerivableAlone` are the same statements of it.
* `OfflineTokensProofs`: a refund pays what is unused, which is within the amount only if nothing was refunded before. `IInv` therefore says that an open token has had nothing refunded and that what the hourly task has selected is open. `CloseFacts` covers revocation and expiry, `SpendFacts` the two ways of spending. `LockedAccountsForTokens` is inductive on top of `IInv`: `CoveredFacts` shows that the locked column covers what is unused of any open token, being a sum of which that token is one summand, so that the refund the code cuts off at what is locked is complete (`CloseBooksFacts`), as long as no token of the user was closed with a usage below zero; a step changes the sum by what it changes of one token (`OneTokenFacts`). Results: `TokensInvariance`, `TokensTypeCorrect`, `TokensWithinAmount`, `TokensLockedAccounts`, `TokensClosedIsFinal`. `WithinAmount` fails once an operator starts the tasks of `OperatorTasks` (the run `tokens_operated` shows it); `OpInv` is what still holds then, from the rows alone: a refund is cut off at what is locked, so a second refund of a token takes what is locked for the user's other tokens, and nothing is created. `OperatedTypeCorrect`, `OperatedSolvent` and `OperatedOnlyCreditsAdd` state it.
* `SettlementProofs`: the committed rows change only when the one session that holds the row lock commits, or by a webhook when none does. `IInv` adds to the stated invariants that a session which holds Nomba's answer has had its request accepted. Results: `SettlementInvariance`, its parts for `TypeOK`, `RecordedOnce`, `LatestRowDecides` and `SettledWasAccepted`, and the action property `OnlyStaleFailuresUnsettle`.
* `CircuitBreakerProofs`: that a failure list sorted by age stays sorted is what makes dropping the expired ones from its front (`InWindow`) right; `IInv` adds it. Results: `BreakerInvariance`, `BreakerTypeCorrect`, `BreakerClosedIsHealthy`, `BreakerOpensOnRecent`. `SpentProbesAreFinal` proves the finding of `breaker_recovers` for every setting: once the probes are spent with no answer outstanding, no step leads out.
* `TransactionSyncProofs`: `RecordedOnce` says nothing of what sessions have inserted and will commit, nor `RowWithinLimit` of what they will write. `IInv` adds that an inserted row clashes with no committed row and with no other inserted one, in any session, and that what a session has written or loaded for its current transaction is within the limit. `ChargedIsRecorded` compares the token's column with sums over the table, so `BooksInv` says of each session that what it has loaded or written for a token is the sum of some of the rows on record and of those it has inserted and charged: other sessions only add rows, and a commit turns the second kind into the first. No sign of an amount is needed. For a session that runs alone "some" is "all" (`SerialBooks`): `SerialUsageExact` concludes that the usage is the net of all recorded payments and so within the limit, and the overspending of `sync_overspending` needs two sessions. Results: `SyncInvariance`, `SyncTypeCorrect`, `SyncRecordedOnce`, `SyncRowWithinLimit`, `SyncChargedIsRecorded`, `SerialUsageExact`.
* `AdmissionProofs`: eligibility rests on rows and flags, which rest on answers that requests still hold; `IdIInv` says so for each of them. For the blacklist, a session that has passed the check has issued nothing late yet, and late tokens are of listed fingerprints only (`LateIInv`). `EvidenceComesWithTokens` is strengthened twice: a session past the evaluation is of a device with a score of 40 or more and has found at most that the key is in software (`CheckSound`), and the scores a device has logged sum to 40 or more for each log (`OnRecord`); `RecalculatedFacts` bounds the recalculated score from that. `GateIInv` is all of this in the composition of `MCTrust`, whose components leave each other alone. Results: `IdentityInvariance`, `IdentityEligibleWasConfirmed`, `TrustInvariance`, `TrustAtMostOneLateToken`, `TrustEvidenceInvariance`, `TrustTypeCorrect`, `TrustEvidenceComesWithTokens`, `GateInvariance`, `GateTypeCorrect`, `GatePromisesKept`.
* `EdgeProofs`, component by component:
  * `TokenClosing`: a token outside `shared` belongs to one session, which pays at most what is unused (`ClosingIInv`). With one session at a time, and usages not below zero, every refund is complete and the locked column is the sum `OfflineTokens` states (`SerialRefundsExact`): what `OfflineTokens` takes as one step after the other is what the sessions do when they do not overlap.
  * `RedisKeys`: what is left of an answered token covers the margin (`KeysIInv`).
  * `Authentication`: the codes of different users are of different sendings, a sending that was blanked or used is gone for good, and a registration is alone with its user (`AuthIInv`); that codes differ is not assumed. The sendings stay within the type because a code is only asked for below `CodeLimit` and each request has at most one to send (`AuthBounds`).
  * `Webhooks`: an event is inserted by one request at a time, and only while no committed row has its key, so the handlers implement `Inbox` (`WebhooksImplementInbox`).
  * `Wallet`: for users outside `overlapped` what a worker has read is the balance with its own credits, no deposit it has loaded is processed, and no other worker has loaded one of the same user (`WalletIInv`). With one worker nobody is in `overlapped` (`SerialCreditsExact`).
  * The composition: `EdgeIInv` is the conjunction, and only the arrival of events, which `Webhooks` and `Wallet` share, needs an argument (`HookArrivesFacts`, `EventArrivesFacts`, `AckedMeanwhileFacts`). Results: `EdgeInvariance`, `EdgeTypeCorrect`, `EdgePromisesKept`, next to the invariance, types and promise of each component alone.
* `SumTheorems`: what `SumFunctionOnSet` of the community modules returns. It folds over the set in an order that `CHOOSE` picks; `SumUnfold` relates it to a recursive function on the subsets of a finite set, and `SumRemove`, `SumAdd`, `SumChange` and `SumSubset` follow by looking at a smallest subset for which they fail (`SmallestSubset`, from the well-founded order of the natural numbers, by cardinality), which needs no induction theorem with an operator for its parameter.

Every invariant that a run checks is stated by a theorem, and every action property.
Only model-checked: `CallsEnd`, `FundsReturn`, `RequestsEnd`, `BatchesEnd`, `AdmitsUnlessSpent` and `OffendersAreListed`, which are liveness properties and rest on fairness, for which the prover has no rules.
The six runs that expect a violation refute what the documentation says; `SpentProbesAreFinal`, `SerialUsageExact` and `SerialIntegrityIffUnlocked` prove how three of these come about.

## 5. Plan

1. `LedgerRows`, `Ledger`, `LedgerSessions`, proofs. Done.
2. `OfflineTokens`, `OperatorTasks`, proofs. Done.
3. `Settlement`, proofs. Done.
4. `CircuitBreaker`, proofs. Done.
5. `TransactionSync`, proofs. Done.
6. `IdentityVerification`, `DeviceTrust`, proofs. Done.
7. `Inbox`, `Webhooks`, the refinement, `Wallet`. Done.
8. `Authentication`, `RedisKeys`, `TokenClosing`, proofs. Done.
9. Sums: every stated sum proved, the compositions, and the serial cases of `TransactionSync`, `Wallet` and `TokenClosing`. Done.
10. Theorems to follow: the converse of overspending (how much one token can be overspent by a given number of sessions) and a refinement from `TokenClosing` with one session to the closing steps of `OfflineTokens`.

## 6. Not modelled

Cryptography, formatting, schemas, logging and the read-only queries, the risk profile among them: they keep no state another part decides on.
Notifications and SMS, the sub-account snapshot worker, the audit log and the Supabase client: rows or messages that are only written.
`process_wallet_funding`, which no code sends, repeats what `ProcessEvent` does.
The device middleware and `check_impossible_travel` have no caller; `update_user` and `set_pin` write columns that no modelled step reads.
Three hazards of the list have no property: a query that always raises (`is_expired`, `models/offline_token.py:146`), an INSERT that always fails (`token_service.py:167`) and the process that dies between `SETNX` and `EXPIRE` (`core/redis.py:97`), whose effect, a nonce taken for ever, the model of `TransactionSync` has and the documentation does not exclude.
