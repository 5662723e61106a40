------------------------------ MODULE MCLedger ------------------------------
(***************************************************************************)
(* LedgerSessions twice: with concurrent sessions over few calls, and with *)
(* one session at a time over more of them, with overdrafts and larger     *)
(* amounts.  Each is explored with the other at rest.                      *)
(***************************************************************************)
EXTENDS LedgerSessions

CONSTANTS Loner,       \* the session that is alone, as a set
          MorePosted   \* its MaxPosted

MCAmounts == {0, 1, 2}

VARIABLES
  accountAlone, legsAlone, openAlone, loadedAlone, seenAlone, rowAlone, writtenAlone

VARIABLE explored \* which of the two

varsAlone == <<accountAlone, legsAlone, openAlone, loadedAlone, seenAlone, rowAlone,
               writtenAlone>>

Alone == INSTANCE LedgerSessions
           WITH Sessions <- Loner, Amounts <- MCAmounts, Overdrafts <- BOOLEAN,
                MaxPosted <- MorePosted,
                account <- accountAlone, legs <- legsAlone, open <- openAlone,
                loaded <- loadedAlone, seen <- seenAlone, row <- rowAlone,
                written <- writtenAlone

LedgersInit == explored \in {"together", "alone"} /\ Init /\ Alone!Init

Together == explored = "together" /\ Next /\ UNCHANGED <<varsAlone, explored>>
OneAtATime == explored = "alone" /\ Alone!Next /\ UNCHANGED <<vars, explored>>

LedgersNext == Together \/ OneAtATime

\* At rest, nothing of the other's Fairness is due.
LedgersSpec ==
  LedgersInit /\ [][LedgersNext]_<<vars, varsAlone, explored>> /\ Fairness

\* Called one at a time, the service keeps every available balance at the sum of the
\* user's entries, whatever is transferred, locked, refunded or overdrawn.
DerivableAlone == Alone!Derivable

\* Called one at a time, the service is the atomic ledger of Ledger: what is refused,
\* aborted or lost in a crash leaves no trace, and a transfer is made as a whole.
LedgerAlone == Alone!LedgerSpec

\* "Verify that balance matches sum of entries": called one at a time, the service
\* never has its own reconciliation safety net report a mismatch.
MatchesEntriesAlone == Alone!BalanceMatchesEntries
=============================================================================
