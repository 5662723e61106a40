------------------------------ MODULE Webhooks ------------------------------
(***************************************************************************)
(* The inbox of Nomba's events: deliveries of the webhook, each handled in *)
(* a request with a database session of its own.  Nomba repeats a delivery *)
(* until it is answered 200, and sends events in any order.  A session     *)
(* commits only after its response has been sent.                          *)
(***************************************************************************)
EXTENDS Inbox

CONSTANTS Handlers,        \* webhook requests under way at once
          PassesTimestamp  \* the route hands the header nomba-timestamp on

ASSUME WebhooksAssumption == PassesTimestamp \in BOOLEAN

VARIABLES
  acked,   \* events that Nomba was answered 200
  dropped, \* events whose session was lost after it had answered
  misread, \* events with a request that failed with an error taken for a duplicate
  hookAt,  \* where each request is
  hookFor  \* the event it was sent

hookVars == <<arrived, acked, dropped, misread, hookAt, hookFor>>

WebhooksTypeOK ==
  /\ arrived \in [Events -> 0..Cardinality(Events)]
  /\ acked \in SUBSET Events /\ dropped \in SUBSET Events /\ misread \in SUBSET Events
  /\ hookAt \in [Handlers -> {"idle", "received", "forged", "new", "inserted", "answered"}]
  /\ hookFor \in [Handlers -> Events]

WebhooksInit ==
  /\ InboxInit
  /\ acked = {} /\ dropped = {} /\ misread = {}
  /\ hookAt = [h \in Handlers |-> "idle"]
  /\ hookFor = [h \in Handlers |-> CHOOSE e \in Events : TRUE]

-----------------------------------------------------------------------------
Moves(h, p) ==
  /\ hookAt' = [hookAt EXCEPT ![h] = p]
  /\ UNCHANGED hookFor

EndsHook(h) ==
  /\ hookAt' = [hookAt EXCEPT ![h] = "idle"]
  /\ hookFor' = [hookFor EXCEPT ![h] = CHOOSE e \in Events : TRUE]

\* The answer 200, which may not reach Nomba.
Acks(h) == acked' \in {acked, acked \cup {hookFor[h]}}

\* A first or repeated delivery, also of what was answered before; or one in the
\* name of Nomba, with a wrong signature or a body that cannot be parsed.
Deliver(h, e, p) ==
  /\ hookAt[h] = "idle"
  /\ hookAt' = [hookAt EXCEPT ![h] = p]
  /\ hookFor' = [hookFor EXCEPT ![h] = e]
  /\ UNCHANGED <<arrived, acked, dropped, misread>>

\* Nomba signs the timestamp, too: without it no signature of Nomba's matches.
Verified(h) == hookAt[h] = "received" /\ PassesTimestamp

\* 401 for the signature, 500 for a body that cannot be used.
RefuseDelivery(h) ==
  /\ hookAt[h] \in {"received", "forged"} /\ ~Verified(h)
  /\ EndsHook(h) /\ UNCHANGED <<arrived, acked, dropped, misread>>

\* get_by_request_id: a duplicate is answered 200.
FindDuplicate(h) ==
  /\ Verified(h) /\ hookFor[h] \in Stored
  /\ Acks(h) /\ EndsHook(h) /\ UNCHANGED <<arrived, dropped, misread>>

FindNew(h) ==
  /\ Verified(h) /\ hookFor[h] \notin Stored
  /\ Moves(h, "new") /\ UNCHANGED <<arrived, acked, dropped, misread>>

\* request_id is unique: the INSERT waits for another that has not committed.
Inserting(h) == hookAt[h] \in {"inserted", "answered"}
RequestIdFree(h) ==
  \A g \in Handlers \ {h} : ~(Inserting(g) /\ hookFor[g] = hookFor[h])

StoreEvent(h) ==
  /\ hookAt[h] = "new" /\ RequestIdFree(h) /\ hookFor[h] \notin Stored
  /\ Moves(h, "inserted") /\ UNCHANGED <<arrived, acked, dropped, misread>>

\* The text of the database's error says "duplicate", which is answered 200.
MutantClashes(h) == ~RequestIdFree(h) \/ hookFor[h] \in Stored
Clashes(h) == hookFor[h] \in Stored

StoreConflict(h) ==
  /\ hookAt[h] = "new" /\ Clashes(h)
  /\ Acks(h) /\ EndsHook(h) /\ UNCHANGED <<arrived, dropped, misread>>

AnswerReceived(h) ==
  /\ hookAt[h] = "inserted"
  /\ Acks(h) /\ Moves(h, "answered") /\ UNCHANGED <<arrived, dropped, misread>>

CommitEvent(h) ==
  /\ hookAt[h] = "answered"
  /\ Arrive(hookFor[h])
  /\ EndsHook(h) /\ UNCHANGED <<acked, dropped, misread>>

\* Any exception with "duplicate" or "already" in its text is answered 200, such as the
\* database's "sorry, too many clients already", although nothing is stored.
FailsAsDuplicate(h) ==
  /\ Verified(h) \/ hookAt[h] \in {"new", "inserted"}
  /\ misread' = misread \cup {hookFor[h]}
  /\ Acks(h) /\ EndsHook(h) /\ UNCHANGED <<arrived, dropped>>

\* Any other exception, answered 500; the process is lost; or the commit fails.
HandlerLost(h) ==
  /\ hookAt[h] # "idle"
  /\ dropped' = IF hookAt[h] = "answered" THEN dropped \cup {hookFor[h]} ELSE dropped
  /\ EndsHook(h) /\ UNCHANGED <<arrived, acked, misread>>

HandlerStep(h) ==
  \/ \E e \in Events, p \in {"received", "forged"} : Deliver(h, e, p)
  \/ RefuseDelivery(h) \/ FindDuplicate(h) \/ FindNew(h) \/ StoreEvent(h)
  \/ StoreConflict(h) \/ AnswerReceived(h) \/ CommitEvent(h)
  \/ FailsAsDuplicate(h) \/ HandlerLost(h)

WebhooksNext == \E h \in Handlers : HandlerStep(h)

WebhooksSpec == WebhooksInit /\ [][WebhooksNext]_hookVars

-----------------------------------------------------------------------------
\* Nomba stops repeating an event only if it is stored, is about to be, was lost with
\* a session that had answered before it could commit, or met an error that was taken
\* for a duplicate by its text: no duplicate is acknowledged on the strength of a row
\* that is then rolled back.
AckedIsStored ==
  \A e \in acked : \/ e \in Stored \cup dropped \cup misread
                   \/ \E h \in Handlers : hookAt[h] = "answered" /\ hookFor[h] = e
=============================================================================
