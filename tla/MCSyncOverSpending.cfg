\* The same batches against the documented locking.
SPECIFICATION Spec
CONSTANTS
  payer = payer
  merchant = merchant
  token = token
  second = second
  first = first
  resigned = resigned
  renamed = renamed
  malformed = malformed
  Sessions = {payer, merchant}
  Txs <- MCTxs
  TxId <- MCTxId
  Nonce <- MCNonce
  Token <- MCToken
  Amount <- MCAmount
  SeqNo <- MCSeqNo
  Limit <- MCLimit
  Unusable = {malformed}
  Batches <- MCBatches
INVARIANTS
  NoOverSpending
