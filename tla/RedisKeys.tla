------------------------------ MODULE RedisKeys ------------------------------
(***************************************************************************)
(* Two keys of Redis whose expiry matters: the access token of Nomba that  *)
(* all processes share, and the counter of one client's requests.  A       *)
(* command takes effect at once; between two commands anything can happen. *)
(***************************************************************************)
EXTENDS Integers

CONSTANTS Callers,     \* requests to Nomba that need a token
          Lifetimes,   \* how long Nomba lets a token live
          Margin,      \* the 300 seconds taken off
          Cap,         \* the 3300 seconds a token is cached at most
          Unstated,    \* the 3600 seconds assumed without a readable expiresAt
          Least,       \* the 60 seconds expires_in never falls short of
          AnswerTime,  \* bound on the time from the answer to the cached token
          Visitors,    \* requests of one client under way at once
          RequestLimit, \* requests_per_minute
          Window       \* window_seconds

ASSUME RedisKeysAssumption ==
  /\ Lifetimes \subseteq Nat
  /\ {Margin, Cap, Unstated, Least, AnswerTime, RequestLimit, Window} \subseteq Nat
  /\ AnswerTime <= Margin /\ Least <= Margin /\ Window > 0

VARIABLES
  cached,   \* whether nomba:access_token is there
  ttl,      \* time until it expires, 0 if it never does
  left,     \* how long Nomba still accepts it
  stated,   \* whether its answer had an expiresAt in a form that can be read
  callerAt, \* where each caller is
  waited,   \* time since its answer
  answer,   \* [left, stated, remaining] of the token it was given
  hits,     \* ratelimit:<client>, counted as far as one above the limit
  window,   \* time until the counter expires, 0 if it never does
  visitorAt, \* whether a visitor has still to set the expiry
  diedHere  \* a process was lost between INCR and EXPIRE

tokenVars == <<cached, ttl, left, stated, callerAt, waited, answer>>
limitVars == <<hits, window, visitorAt, diedHere>>
keyVars == <<tokenVars, limitVars>>

NoAnswer == [left |-> 0, stated |-> FALSE, remaining |-> 0]

KeysTypeOK ==
  /\ cached \in BOOLEAN /\ ttl \in 0..Cap /\ left \in Nat
  /\ stated \in BOOLEAN
  /\ callerAt \in [Callers -> {"idle", "asking", "answered"}]
  /\ waited \in [Callers -> 0..AnswerTime]
  /\ answer \in [Callers -> [left : Nat, stated : BOOLEAN, remaining : Nat]]
  /\ hits \in 0..(RequestLimit + 1) /\ window \in 0..Window
  /\ visitorAt \in [Visitors -> {"idle", "first"}] /\ diedHere \in BOOLEAN

KeysInit ==
  /\ cached = FALSE /\ ttl = 0 /\ left = 0 /\ stated = FALSE
  /\ callerAt = [c \in Callers |-> "idle"]
  /\ waited = [c \in Callers |-> 0] /\ answer = [c \in Callers |-> NoAnswer]
  /\ hits = 0 /\ window = 0
  /\ visitorAt = [v \in Visitors |-> "idle"] /\ diedHere = FALSE

-----------------------------------------------------------------------------
Ends(c) == /\ callerAt' = [callerAt EXCEPT ![c] = "idle"]
           /\ waited' = [waited EXCEPT ![c] = 0]
           /\ answer' = [answer EXCEPT ![c] = NoAnswer]

NoToken == cached' = FALSE /\ ttl' = 0 /\ left' = 0 /\ stated' = FALSE

\* get_access_token without a cached one; callers do not wait for each other.
AskToken(c) ==
  /\ callerAt[c] = "idle" /\ ~cached
  /\ callerAt' = [callerAt EXCEPT ![c] = "asking"]
  /\ UNCHANGED <<cached, ttl, left, stated, waited, answer, limitVars>>

\* refresh_token deletes the key first.
RefreshToken(c) ==
  /\ callerAt[c] = "idle"
  /\ callerAt' = [callerAt EXCEPT ![c] = "asking"]
  /\ NoToken /\ UNCHANGED <<waited, answer, limitVars>>

\* expires_in of the answer, read when it arrives.
ExpiresIn(life, said) ==
  IF ~said THEN Unstated ELSE IF life < Least THEN Least ELSE life

IssueToken(c, life, said) ==
  /\ callerAt[c] = "asking"
  /\ callerAt' = [callerAt EXCEPT ![c] = "answered"]
  /\ answer' = [answer EXCEPT ![c] =
       [left |-> life, stated |-> said, remaining |-> ExpiresIn(life, said)]]
  /\ UNCHANGED <<cached, ttl, left, stated, waited, limitVars>>

MutantUncapped(remaining) == remaining - Margin
MutantSafeTtl(remaining) == IF remaining < Cap THEN remaining ELSE Cap
SafeTtl(remaining) == IF remaining - Margin < Cap THEN remaining - Margin ELSE Cap

\* cache_nomba_token: a TTL of 0 is none (SET instead of SETEX).
CacheToken(c) ==
  LET a == answer[c]
  IN  /\ callerAt[c] = "answered" /\ SafeTtl(a.remaining) >= 0
      /\ cached' = TRUE /\ ttl' = SafeTtl(a.remaining)
      /\ left' = a.left /\ stated' = a.stated
      /\ Ends(c) /\ UNCHANGED limitVars

\* Redis refuses a negative TTL, and the request fails with a token in its hands.
TtlRefused(c) ==
  /\ callerAt[c] = "answered" /\ SafeTtl(answer[c].remaining) < 0
  /\ Ends(c) /\ UNCHANGED <<cached, ttl, left, stated, limitVars>>

\* An error of Nomba, a timeout, or the end of the process.
NoTokenFor(c) ==
  /\ callerAt[c] # "idle"
  /\ Ends(c) /\ UNCHANGED <<cached, ttl, left, stated, limitVars>>

-----------------------------------------------------------------------------
\* increment_rate_limit: INCR, and EXPIRE by whom INCR answered 1.
Counted == IF hits > RequestLimit THEN hits ELSE hits + 1

CountRequest(v) ==
  /\ visitorAt[v] = "idle"
  /\ hits' = Counted
  /\ visitorAt' = [visitorAt EXCEPT ![v] = IF Counted = 1 THEN "first" ELSE "idle"]
  /\ UNCHANGED <<tokenVars, window, diedHere>>

MutantSetsWindow(v) == hits = 1
SetsWindow(v) == TRUE

StartWindow(v) ==
  /\ visitorAt[v] = "first"
  /\ window' = IF SetsWindow(v) THEN Window ELSE window
  /\ visitorAt' = [visitorAt EXCEPT ![v] = "idle"]
  /\ UNCHANGED <<tokenVars, hits, diedHere>>

VisitorLost(v) ==
  /\ visitorAt[v] = "first"
  /\ visitorAt' = [visitorAt EXCEPT ![v] = "idle"]
  /\ diedHere' = TRUE
  /\ UNCHANGED <<tokenVars, hits, window>>

-----------------------------------------------------------------------------
Less(n) == IF n = 0 THEN 0 ELSE n - 1

\* Answers are cached within AnswerTime: the client has timeouts.
TokenTick ==
  /\ \A c \in Callers : callerAt[c] = "answered" => waited[c] < AnswerTime
  /\ waited' = [c \in Callers |-> IF callerAt[c] = "answered" THEN waited[c] + 1 ELSE 0]
  /\ answer' = [c \in Callers |-> [answer[c] EXCEPT !.left = Less(@)]]
  /\ IF ttl = 1 THEN NoToken
                ELSE /\ ttl' = Less(ttl) /\ left' = Less(left)
                     /\ UNCHANGED <<cached, stated>>
  /\ UNCHANGED <<callerAt, limitVars>>

LimitTick ==
  /\ window > 0
  /\ window' = window - 1
  /\ hits' = IF window = 1 THEN 0 ELSE hits
  /\ UNCHANGED <<tokenVars, visitorAt, diedHere>>

KeysNext ==
  \/ \E c \in Callers : \/ AskToken(c) \/ RefreshToken(c) \/ CacheToken(c)
                        \/ TtlRefused(c) \/ NoTokenFor(c)
                        \/ \E life \in Lifetimes, said \in BOOLEAN : IssueToken(c, life, said)
  \/ \E v \in Visitors : CountRequest(v) \/ StartWindow(v) \/ VisitorLost(v)
  \/ TokenTick \/ LimitTick

KeysSpec == KeysInit /\ [][KeysNext]_keyVars

-----------------------------------------------------------------------------
\* A cached token that Nomba no longer accepts had no readable expiry, or is cached for
\* ever because it came with exactly the margin left: neither the time from the answer
\* to the cache nor concurrent callers make it stale.
CachedTokenAlive == cached /\ stated /\ ttl > 0 => left > 0

\* A client's counter expires, now or when the request that made it goes on, unless
\* the process was lost between INCR and EXPIRE: then the client stays counted.
CounterExpires ==
  hits > 0 => window > 0 \/ diedHere \/ \E v \in Visitors : visitorAt[v] = "first"

\* Both keys are gone in time.
KeysExpire == CachedTokenAlive /\ CounterExpires
==============================================================================
