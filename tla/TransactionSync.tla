--------------------------- MODULE TransactionSync ---------------------------
(***************************************************************************)
(* TransactionService.sync_batch: batches of offline transactions, each in *)
(* one database session under READ COMMITTED, with nonces and sequence     *)
(* numbers in Redis, where every command takes effect at once and is never *)
(* undone.  A token is read when a transaction is checked; the object is   *)
(* used again to charge it, when its column is written as a value.         *)
(***************************************************************************)
EXTENDS Integers, Sequences, FiniteSets, Functions

CONSTANTS Sessions,  \* batches under way at once
          Txs,       \* the transactions devices hold, as signed
          TxId,      \* tx_id: another signature of a payment may keep its id
          Nonce,     \* nonce
          Token,     \* token_id; each token is spent from one device
          Amount,    \* amount_kobo, which nothing keeps from being negative
          SeqNo,     \* sequence_number
          Limit,     \* amount_kobo of each token
          Unusable,  \* transactions on which processing raises an exception
          Batches    \* bound: the batches each session may be sent

Tokens == DOMAIN Limit
Nonces == {Nonce[x] : x \in Txs}
SeqNos == {0} \cup {SeqNo[x] : x \in Txs}

ASSUME SyncAssumption ==
  /\ Txs = DOMAIN TxId /\ Txs = DOMAIN Nonce
  /\ Token \in [Txs -> Tokens]
  /\ Amount \in [Txs -> Int] /\ SeqNo \in [Txs -> Int]
  /\ Limit \in [Tokens -> Nat]
  /\ Batches \in [Sessions -> SUBSET Seq(Txs)]

VARIABLES
  recorded,  \* committed transactions, all with status "verified"
  used,      \* committed amount_used_kobo
  closed,    \* tokens that are no longer active, or past their expiry
  nonces,    \* nonce keys in Redis, without or with a time to live
  lastSeq,   \* sequence keys in Redis, 0 for none
  place,     \* where each session is
  batch,     \* transactions it has still to process, the current one first
  loaded,    \* amount_used_kobo of the token object it holds
  inserted,  \* transactions it has inserted
  usage,     \* amount_used_kobo it has written
  locks      \* tokens it has written, whose rows it locks until it ends

shared == <<recorded, used, closed, nonces, lastSeq>>
session == <<place, batch, loaded, inserted, usage, locks>>
vars == <<shared, session>>

Places == {"idle", "processing", "checking", "admitted", "stored", "ordering",
           "inserting", "sequencing", "charging"}
NoUsage == [t \in Tokens |-> 0]

TypeOK == /\ recorded \in SUBSET Txs
          /\ used \in [Tokens -> Int]
          /\ closed \in SUBSET Tokens
          /\ nonces \in [Nonces -> {"none", "kept", "expiring"}]
          /\ lastSeq \in [Tokens -> SeqNos]
          /\ place \in [Sessions -> Places]
          /\ batch \in [Sessions -> Seq(Txs)]
          /\ loaded \in [Sessions -> Int]
          /\ inserted \in [Sessions -> SUBSET Txs]
          /\ usage \in [Sessions -> [Tokens -> Int]]
          /\ locks \in [Sessions -> SUBSET Tokens]

Init == /\ recorded = {} /\ closed = {}
        /\ used = NoUsage
        /\ nonces = [n \in Nonces |-> "none"]
        /\ lastSeq = NoUsage
        /\ place = [s \in Sessions |-> "idle"]
        /\ batch = [s \in Sessions |-> <<>>]
        /\ loaded = [s \in Sessions |-> 0]
        /\ inserted = [s \in Sessions |-> {}]
        /\ usage = [s \in Sessions |-> NoUsage]
        /\ locks = [s \in Sessions |-> {}]

-----------------------------------------------------------------------------
\* A device sends a batch, for the first time or again.
SyncBatch(s) ==
  /\ place[s] = "idle"
  /\ place' = [place EXCEPT ![s] = "processing"]
  /\ batch' \in {[batch EXCEPT ![s] = b] : b \in Batches[s]}
  /\ UNCHANGED <<shared, loaded, inserted, usage, locks>>

\* The session is about to do something with the first transaction left.
At(s, p) == place[s] = p /\ batch[s] # <<>>
Tx(s) == Head(batch[s])

Goto(s, p) == place' = [place EXCEPT ![s] = p]

\* The current transaction is answered; the next one is processed.
MutantRest(b) == b
Rest(b) == Tail(b)

Answer(s) == /\ Goto(s, "processing")
             /\ batch' = [batch EXCEPT ![s] = Rest(@)]

Refuse(s) == Answer(s) /\ UNCHANGED <<shared, loaded, inserted, usage, locks>>

\* exists_by_tx_id sees what is committed and what the session has inserted.
Visible(s) == recorded \cup inserted[s]
IsDuplicate(s) == \E x \in Visible(s) : TxId[x] = TxId[Tx(s)]

CheckDuplicate(s) ==
  /\ At(s, "processing") /\ ~IsDuplicate(s)
  /\ Goto(s, "checking")
  /\ UNCHANGED <<shared, batch, loaded, inserted, usage, locks>>

AnswerDuplicate(s) == At(s, "processing") /\ IsDuplicate(s) /\ Refuse(s)

\* The token as the session's SELECT finds it: its own UPDATE or the committed row.
UsageSeen(s, t) == IF t \in locks[s] THEN usage[s][t] ELSE used[t]

MutantHasRoom(x, n) == Amount[x] <= Limit[Token[x]]
HasRoom(x, n) == Amount[x] <= Limit[Token[x]] - n

\* A zero is taken for a missing field.
Complete(x) == Amount[x] # 0 /\ SeqNo[x] # 0

Admissible(s) ==
  /\ Complete(Tx(s))
  /\ Token[Tx(s)] \notin closed /\ HasRoom(Tx(s), UsageSeen(s, Token[Tx(s)]))

CheckToken(s) ==
  /\ At(s, "checking") /\ Admissible(s)
  /\ loaded' = [loaded EXCEPT ![s] = UsageSeen(s, Token[Tx(s)])]
  /\ Goto(s, "admitted")
  /\ UNCHANGED <<shared, batch, inserted, usage, locks>>

RefuseToken(s) == At(s, "checking") /\ ~Admissible(s) /\ Refuse(s)

\* check_and_store_nonce: SETNX, and then EXPIRE as a command of its own.
IsReplay(s) == nonces[Nonce[Tx(s)]] # "none"

StoreNonce(s) ==
  /\ At(s, "admitted") /\ ~IsReplay(s)
  /\ nonces' = [nonces EXCEPT ![Nonce[Tx(s)]] = "kept"]
  /\ Goto(s, "stored")
  /\ UNCHANGED <<recorded, used, closed, lastSeq, batch, loaded, inserted, usage, locks>>

RefuseReplay(s) == At(s, "admitted") /\ IsReplay(s) /\ Refuse(s)

ExpireNonce(s) ==
  /\ At(s, "stored")
  /\ nonces' = [nonces EXCEPT ![Nonce[Tx(s)]] = "expiring"]
  /\ Goto(s, "ordering")
  /\ UNCHANGED <<recorded, used, closed, lastSeq, batch, loaded, inserted, usage, locks>>

\* The refused transaction leaves its nonce behind.
InOrder(s) == LET last == lastSeq[Token[Tx(s)]]
              IN  last = 0 \/ last < SeqNo[Tx(s)]

CheckSequence(s) ==
  /\ At(s, "ordering") /\ InOrder(s)
  /\ Goto(s, "inserting")
  /\ UNCHANGED <<shared, batch, loaded, inserted, usage, locks>>

RefuseSequence(s) == At(s, "ordering") /\ ~InOrder(s) /\ Refuse(s)

\* tx_id is the primary key and nonce is unique.
MutantClash(x, y) == TxId[x] = TxId[y]
Clash(x, y) == TxId[x] = TxId[y] \/ Nonce[x] = Nonce[y]

\* An INSERT waits for a session that has inserted a clashing row.
InsertWaits(s, r) == \E x \in inserted[r] : Clash(x, Tx(s))
InsertFree(s) == \A r \in Sessions \ {s} : ~InsertWaits(s, r)
Violates(s) == \E x \in Visible(s) : Clash(x, Tx(s))

Insert(s) ==
  /\ At(s, "inserting") /\ Tx(s) \notin Unusable
  /\ InsertFree(s) /\ ~Violates(s)
  /\ inserted' = [inserted EXCEPT ![s] = @ \cup {Tx(s)}]
  /\ Goto(s, "sequencing")
  /\ UNCHANGED <<shared, batch, loaded, usage, locks>>

\* set_last_sequence: the number of the transaction, not the one expected next.
MutantSequenceOf(x) == SeqNo[x] + 1
SequenceOf(x) == SeqNo[x]

SetSequence(s) ==
  /\ At(s, "sequencing")
  /\ lastSeq' = [lastSeq EXCEPT ![Token[Tx(s)]] = SequenceOf(Tx(s))]
  /\ Goto(s, "charging")
  /\ UNCHANGED <<recorded, used, closed, nonces, batch, loaded, inserted, usage, locks>>

\* increment_usage: the loaded object again, and an UPDATE that waits for the row.
RowFree(s, t) == \A r \in Sessions \ {s} : t \notin locks[r]

Charge(s) ==
  LET t == Token[Tx(s)]
  IN  /\ At(s, "charging") /\ RowFree(s, t)
      /\ usage' = [usage EXCEPT ![s][t] = loaded[s] + Amount[Tx(s)]]
      /\ locks' = [locks EXCEPT ![s] = @ \cup {t}]
      /\ Answer(s)
      /\ UNCHANGED <<shared, loaded, inserted>>

-----------------------------------------------------------------------------
End(s) == /\ place' = [place EXCEPT ![s] = "idle"]
          /\ batch' = [batch EXCEPT ![s] = <<>>]
          /\ loaded' = [loaded EXCEPT ![s] = 0]
          /\ inserted' = [inserted EXCEPT ![s] = {}]
          /\ usage' = [usage EXCEPT ![s] = NoUsage]
          /\ locks' = [locks EXCEPT ![s] = {}]

Written(s) == [t \in Tokens |-> UsageSeen(s, t)]

\* The request handler returns and get_session commits.
Commit(s) ==
  /\ place[s] = "processing" /\ batch[s] = <<>>
  /\ recorded' = recorded \cup inserted[s]
  /\ used' = Written(s)
  /\ End(s)
  /\ UNCHANGED <<closed, nonces, lastSeq>>

\* The database forgets the whole batch, Redis keeps what it was told.
MutantChargesKept(s) == Written(s)
UsedAfterAbort(s) == used

Abort(s) == /\ used' = UsedAfterAbort(s)
            /\ End(s)
            /\ UNCHANGED <<recorded, closed, nonces, lastSeq>>

\* An exception no one catches: a field of the wrong form, found out by a
\* conversion before the nonce is stored or by the INSERT after it.
Raise(s) ==
  /\ At(s, "admitted") \/ At(s, "inserting")
  /\ Tx(s) \in Unusable
  /\ Abort(s)

\* The INSERT violates a unique constraint.
Conflict(s) == At(s, "inserting") /\ InsertFree(s) /\ Violates(s) /\ Abort(s)

\* The process dies or loses Redis or the database.
Crash(s) == place[s] # "idle" /\ Abort(s)

WaitsFor(s, r) ==
  /\ s # r
  /\ \/ At(s, "inserting") /\ InsertWaits(s, r)
     \/ At(s, "charging") /\ Token[Tx(s)] \in locks[r]

\* Postgres aborts a member of a cycle of waiting transactions.
DeadlockVictim(s) ==
  /\ \E S \in SUBSET Sessions :
       /\ s \in S
       /\ \A t \in S : (\E r \in S : WaitsFor(t, r)) /\ (\E r \in S : WaitsFor(r, t))
  /\ Abort(s)

-----------------------------------------------------------------------------
\* Revocation or expiry, whose UPDATE waits for the row.
CloseToken(t) ==
  /\ t \notin closed /\ \A s \in Sessions : t \notin locks[s]
  /\ closed' = closed \cup {t}
  /\ UNCHANGED <<recorded, used, nonces, lastSeq, session>>

\* Two days pass; no batch takes that long.
Quiet == \A s \in Sessions : place[s] = "idle"

NonceExpires(n) ==
  /\ Quiet /\ nonces[n] = "expiring"
  /\ nonces' = [nonces EXCEPT ![n] = "none"]
  /\ UNCHANGED <<recorded, used, closed, lastSeq, session>>

SequenceExpires(t) ==
  /\ Quiet /\ lastSeq[t] # 0
  /\ lastSeq' = [lastSeq EXCEPT ![t] = 0]
  /\ UNCHANGED <<recorded, used, closed, nonces, session>>

-----------------------------------------------------------------------------
Wait(s) == Insert(s) \/ Conflict(s) \/ Charge(s)

Step(s) ==
  \/ CheckDuplicate(s) \/ AnswerDuplicate(s)
  \/ CheckToken(s) \/ RefuseToken(s)
  \/ StoreNonce(s) \/ RefuseReplay(s) \/ ExpireNonce(s)
  \/ CheckSequence(s) \/ RefuseSequence(s) \/ SetSequence(s)
  \/ Raise(s) \/ DeadlockVictim(s) \/ Commit(s)

Next ==
  \/ \E s \in Sessions : SyncBatch(s) \/ Step(s) \/ Wait(s) \/ Crash(s)
  \/ \E t \in Tokens : CloseToken(t) \/ SequenceExpires(t)
  \/ \E n \in Nonces : NonceExpires(n)

\* A session that can go on does, and lock queues are served in order.
Fairness == \A s \in Sessions : WF_vars(Step(s)) /\ SF_vars(Wait(s))

Spec == Init /\ [][Next]_vars /\ Fairness

-----------------------------------------------------------------------------
\* A payment is recorded at most once, whatever is sent again: by an older
\* session that is still under way, after its keys have expired in Redis, under
\* a new id or with a new nonce.
RecordedOnce ==
  \A x, y \in recorded : x # y => TxId[x] # TxId[y] /\ Nonce[x] # Nonce[y]

\* The row of a token never shows more spent than was granted.
RowWithinLimit == \A t \in Tokens : used[t] <= Limit[t]

OnRecord(t) == {x \in recorded : Token[x] = t}

\* A token is not charged for anything that is not on record, nor twice for what is:
\* its usage is the sum of some of its recorded payments, of any sign.  No retry, crash
\* or rolled back batch costs the payer, or gives the payer anything.
ChargedIsRecorded ==
  \A t \in Tokens : \E S \in SUBSET OnRecord(t) : used[t] = SumFunctionOnSet(Amount, S)

\* Every batch is answered or fails: rows are locked in the order of the batch,
\* and an insert waits for another batch's insert of the same id or nonce.
BatchesEnd == \A s \in Sessions : place[s] # "idle" ~> place[s] = "idle"

Accepted(t) == SumFunctionOnSet(Amount, OnRecord(t))

\* "Row-level locking prevents over-spending": even net of what negative amounts take
\* back, merchants are never promised more of a token than it holds.
NoOverSpending == \A t \in Tokens : Accepted(t) <= Limit[t]
=============================================================================
