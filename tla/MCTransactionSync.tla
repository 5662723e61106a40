-------------------------- MODULE MCTransactionSync --------------------------
(* Two payments with one token, a repetition of the first under a new nonce  *)
(* and for more, one under a new id and for less than nothing, and the second*)
(* in a form that cannot be processed.                                       *)
EXTENDS TransactionSync, TLC

CONSTANTS payer, merchant,  \* whose phones send batches
          token, second, first, resigned, renamed, malformed

MCTxs == {second, first, resigned, renamed, malformed}

MCTxId == second :> 1 @@ malformed :> 1 @@ first :> 2 @@ resigned :> 2 @@ renamed :> 3
MCNonce == second :> 1 @@ malformed :> 1 @@ first :> 2 @@ resigned :> 3 @@ renamed :> 2
MCToken == [x \in MCTxs |-> token]
MCAmount == second :> 1 @@ malformed :> 1 @@ first :> 1 @@ resigned :> 2 @@ renamed :> -1
MCSeqNo == [x \in MCTxs |-> IF x \in {second, malformed} THEN 1 ELSE 2]
MCLimit == token :> 2

MCBatches == payer :> {<<second, first>>, <<renamed>>}
               @@ merchant :> {<<second, first>>, <<resigned>>, <<malformed>>}
=============================================================================
