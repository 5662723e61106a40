--------------------------- MODULE Authentication ---------------------------
(***************************************************************************)
(* Registration, verification and login of the owner of one phone, as      *)
(* requests in database sessions of their own.  One-time codes are in      *)
(* Redis, where a command takes effect at once and is never undone; a      *)
(* session commits only after its response has been sent.                  *)
(***************************************************************************)
EXTENDS Naturals, FiniteSets

CONSTANTS Registrants, \* users that registrations of the phone create
          Requests,    \* requests under way at once
          Codes,       \* codes _generate_otp may return: "000000" alone with the
                       \* default SMS_PROVIDER=mock, else any of six digits
          NoCode,      \* the empty string, or no key
          StablePhoneHash, \* hash_phone gives a phone the same hash every time
          AccountsOpen,    \* create_user_virtual_account can succeed
          SetsDeviceHash,  \* a web device is given its device_fingerprint_hash
          CodeLimit    \* bound: codes sent before no new one is asked for

ASSUME AuthAssumption ==
  /\ Registrants # {} /\ IsFiniteSet(Requests)
  /\ StablePhoneHash \in BOOLEAN /\ AccountsOpen \in BOOLEAN
  /\ SetsDeviceHash \in BOOLEAN
  /\ NoCode \notin Codes /\ CodeLimit \in Nat

\* The times a code is sent; the same code may be sent time after time.
Sendings == 0..(CodeLimit + Cardinality(Requests))

VARIABLES
  status,   \* committed users.status, "absent" without a row
  otp,      \* otp:<user> in Redis: the code, and the sending it came with
  lastSent, \* the last sending
  web,      \* users with a committed web device
  told,     \* users answered "verified"
  excused,  \* those whose row was not there yet, or whose session was lost
  holders,  \* users who were given access and refresh tokens
  logins    \* logins each request slot has answered by each sending

VARIABLES
  step,     \* where each request is
  task,     \* what it does
  who,      \* the user it is about
  code,     \* the code it was sent
  matched,  \* the sending whose code that was when it was compared
  wrote     \* whether its UPDATE or INSERT has met a row

authStore == <<status, otp, lastSent, web, told, excused, holders, logins>>
authRequest == <<step, task, who, code, matched, wrote>>
authVars == <<authStore, authRequest>>

Tasks == {"register", "verify", "login"}
Steps == {"idle", "begun", "inserted", "opened", "matched", "active", "blanked",
          "updated", "answered"}

AuthTypeOK ==
  /\ status \in [Registrants -> {"absent", "pending_verification", "active"}]
  /\ otp \in [Registrants -> [code : Codes \cup {NoCode}, nth : Sendings]]
  /\ lastSent \in Sendings
  /\ web \in SUBSET Registrants /\ told \in SUBSET Registrants /\ excused \in SUBSET Registrants
  /\ holders \in SUBSET Registrants
  /\ logins \in [Sendings -> [Requests -> Nat]]
  /\ step \in [Requests -> Steps] /\ task \in [Requests -> Tasks]
  /\ who \in [Requests -> Registrants] /\ code \in [Requests -> Codes \cup {NoCode}]
  /\ matched \in [Requests -> Sendings] /\ wrote \in [Requests -> BOOLEAN]

Blank == [code |-> NoCode, nth |-> 0]
AnyUser == CHOOSE u \in Registrants : TRUE

AuthInit ==
  /\ status = [u \in Registrants |-> "absent"]
  /\ otp = [u \in Registrants |-> Blank] /\ lastSent = 0
  /\ web = {} /\ told = {} /\ excused = {} /\ holders = {}
  /\ logins = [n \in Sendings |-> [r \in Requests |-> 0]]
  /\ step = [r \in Requests |-> "idle"] /\ task = [r \in Requests |-> "register"]
  /\ who = [r \in Requests |-> AnyUser] /\ code = [r \in Requests |-> NoCode]
  /\ matched = [r \in Requests |-> 0] /\ wrote = [r \in Requests |-> FALSE]

-----------------------------------------------------------------------------
Closes(r) ==
  /\ step' = [step EXCEPT ![r] = "idle"] /\ task' = [task EXCEPT ![r] = "register"]
  /\ who' = [who EXCEPT ![r] = AnyUser] /\ code' = [code EXCEPT ![r] = NoCode]
  /\ matched' = [matched EXCEPT ![r] = 0] /\ wrote' = [wrote EXCEPT ![r] = FALSE]

Raises(r) == Closes(r) /\ UNCHANGED authStore

To(r, p) == step' = [step EXCEPT ![r] = p]
At(r, what, p) == task[r] = what /\ step[r] = p
Same == UNCHANGED <<task, who, code, matched, wrote>>

\* What is sent replaces the code in Redis; it is on its way by SMS at once.
SendCode(u) ==
  /\ lastSent' = lastSent + 1
  /\ \E c \in Codes : otp' = [otp EXCEPT ![u] = [code |-> c, nth |-> lastSent + 1]]

Arrives(r, what, p, u, c) ==
  /\ step[r] = "idle" /\ To(r, p)
  /\ task' = [task EXCEPT ![r] = what]
  /\ who' = [who EXCEPT ![r] = u]
  /\ code' = [code EXCEPT ![r] = c]
  /\ UNCHANGED <<authStore, matched, wrote>>

-----------------------------------------------------------------------------
\* register: the phone is looked up by its hash, which a new salt makes anew.
Registered == \E u \in Registrants : status[u] # "absent"

Register(r, u) ==
  /\ status[u] = "absent" /\ \A q \in Requests : step[q] = "idle" \/ who[q] # u
  /\ otp[u] = Blank /\ lastSent < CodeLimit
  /\ ~(StablePhoneHash /\ Registered)
  /\ Arrives(r, "register", "begun", u, NoCode)

\* phone_hash is unique: the INSERT waits for another of the same phone.
InsertUser(r) ==
  /\ At(r, "register", "begun")
  /\ StablePhoneHash =>
       /\ ~Registered
       /\ \A q \in Requests \ {r} : ~(task[q] = "register" /\ wrote[q])
  /\ To(r, "inserted")
  /\ wrote' = [wrote EXCEPT ![r] = TRUE]
  /\ UNCHANGED <<authStore, task, who, code, matched>>

DuplicatePhone(r) ==
  At(r, "register", "begun") /\ StablePhoneHash /\ Registered /\ Raises(r)

OpenAccount(r) ==
  /\ At(r, "register", "inserted") /\ AccountsOpen
  /\ To(r, "opened") /\ Same /\ UNCHANGED authStore

\* The failure of Nomba or of the wallet service is raised again.
AccountFails(r) == At(r, "register", "inserted") /\ Raises(r)

SendFirstCode(r) ==
  /\ At(r, "register", "opened") /\ SendCode(who[r])
  /\ To(r, "answered") /\ Same
  /\ UNCHANGED <<status, web, told, excused, holders, logins>>

CommitUser(r) ==
  /\ At(r, "register", "answered")
  /\ status' = [status EXCEPT ![who[r]] = "pending_verification"]
  /\ Closes(r)
  /\ UNCHANGED <<otp, lastSent, web, told, excused, holders, logins>>

-----------------------------------------------------------------------------
\* verify_otp: the answer to the registration tells the client who the user is, before
\* the row is committed.
Known(u) == status[u] # "absent" \/ otp[u] # Blank

MutantMatches(r) == TRUE
Matches(r) == otp[who[r]].code # NoCode /\ otp[who[r]].code = code[r]

VerifyOtp(r, u, c) == Known(u) /\ Arrives(r, "verify", "begun", u, c)

Match(r) ==
  /\ task[r] \in {"verify", "login"} /\ step[r] = "begun" /\ Matches(r)
  /\ matched' = [matched EXCEPT ![r] = otp[who[r]].nth]
  /\ To(r, "matched") /\ UNCHANGED <<authStore, task, who, code, wrote>>

WrongCode(r) ==
  /\ task[r] \in {"verify", "login"} /\ step[r] = "begun" /\ ~Matches(r) /\ Raises(r)

\* UPDATE users SET status: it waits for the row, and may meet none.
StatusFree(r) == \A q \in Requests \ {r} :
                   ~(task[q] = "verify" /\ who[q] = who[r] /\ wrote[q])

UpdateStatus(r) ==
  /\ At(r, "verify", "matched") /\ StatusFree(r)
  /\ wrote' = [wrote EXCEPT ![r] = status[who[r]] # "absent"]
  /\ excused' = IF status[who[r]] = "absent" THEN excused \cup {who[r]} ELSE excused
  /\ To(r, "updated")
  /\ UNCHANGED <<status, otp, lastSent, web, told, holders, logins,
                 task, who, code, matched>>

\* The code is overwritten with "", whichever code it is by now.
MutantBlanked(r) == otp
Blanked(r) == [otp EXCEPT ![who[r]] = Blank]

MutantMayAnswer(r) == step[r] \in {"matched", "updated"}
MayAnswer(r) == step[r] = "updated"

AnswerVerified(r) ==
  /\ task[r] = "verify" /\ MayAnswer(r)
  /\ otp' = Blanked(r)
  /\ told' = told \cup {who[r]}
  /\ To(r, "answered") /\ Same
  /\ UNCHANGED <<status, lastSent, web, excused, holders, logins>>

CommitVerified(r) ==
  /\ At(r, "verify", "answered")
  /\ status' = IF wrote[r] THEN [status EXCEPT ![who[r]] = "active"] ELSE status
  /\ Closes(r)
  /\ UNCHANGED <<otp, lastSent, web, told, excused, holders, logins>>

-----------------------------------------------------------------------------
\* login finds a user, of whatever status, by the hash of the phone.
Login(u) ==
  /\ StablePhoneHash /\ status[u] # "absent" /\ lastSent < CodeLimit
  /\ SendCode(u)
  /\ UNCHANGED <<status, web, told, excused, holders, logins, authRequest>>

VerifyLogin(r, u, c) == Known(u) /\ Arrives(r, "login", "begun", u, c)

FindActive(r) ==
  /\ At(r, "login", "matched") /\ status[who[r]] = "active"
  /\ To(r, "active") /\ Same /\ UNCHANGED authStore

NotActive(r) ==
  At(r, "login", "matched") /\ status[who[r]] # "active" /\ Raises(r)

BlankCode(r) ==
  /\ At(r, "login", "active")
  /\ otp' = Blanked(r)
  /\ To(r, "blanked") /\ Same
  /\ UNCHANGED <<status, lastSent, web, told, excused, holders, logins>>

\* A user without an active device gets a web device, whose fingerprint is unique.
WebFree(r) == \A q \in Requests \ {r} :
                ~(task[q] = "login" /\ who[q] = who[r] /\ wrote[q])

AnswerTokens(r) ==
  /\ At(r, "login", "blanked") /\ (who[r] \in web \/ (SetsDeviceHash /\ WebFree(r)))
  /\ wrote' = [wrote EXCEPT ![r] = who[r] \notin web]
  /\ holders' = holders \cup {who[r]}
  /\ logins' = [logins EXCEPT ![matched[r]][r] = @ + 1]
  /\ To(r, "answered")
  /\ UNCHANGED <<status, otp, lastSent, web, told, excused, task, who, code,
                 matched>>

CommitLogin(r) ==
  /\ At(r, "login", "answered")
  /\ web' = IF wrote[r] THEN web \cup {who[r]} ELSE web
  /\ Closes(r)
  /\ UNCHANGED <<status, otp, lastSent, told, excused, holders, logins>>

-----------------------------------------------------------------------------
\* get_current_user and refresh_tokens look at the token and at the user's status.
MayAct(u) == u \in holders /\ status[u] = "active"

RefreshTokens(u) == MayAct(u) /\ UNCHANGED authVars

\* A code lives 600 seconds.
CodeExpires(u) ==
  /\ otp[u] # Blank
  /\ otp' = [otp EXCEPT ![u] = Blank]
  /\ UNCHANGED <<status, lastSent, web, told, excused, holders, logins, authRequest>>

\* The process is lost, an INSERT is refused, or the commit fails, possibly after
\* the response.
RequestLost(r) ==
  /\ step[r] # "idle"
  /\ excused' = IF At(r, "verify", "answered") THEN excused \cup {who[r]} ELSE excused
  /\ Closes(r)
  /\ UNCHANGED <<status, otp, lastSent, web, told, holders, logins>>

RequestStep(r) ==
  \/ InsertUser(r) \/ DuplicatePhone(r) \/ OpenAccount(r) \/ AccountFails(r)
  \/ SendFirstCode(r) \/ CommitUser(r)
  \/ Match(r) \/ WrongCode(r) \/ UpdateStatus(r) \/ AnswerVerified(r) \/ CommitVerified(r)
  \/ FindActive(r) \/ NotActive(r) \/ BlankCode(r) \/ AnswerTokens(r) \/ CommitLogin(r)
  \/ RequestLost(r)

AuthNext ==
  \/ \E r \in Requests : RequestStep(r)
  \/ \E u \in Registrants :
       \/ Login(u) \/ RefreshTokens(u) \/ CodeExpires(u)
       \/ \E r \in Requests : Register(r, u)
       \/ \E r \in Requests, c \in Codes : VerifyOtp(r, u, c) \/ VerifyLogin(r, u, c)

AuthSpec == AuthInit /\ [][AuthNext]_authVars

-----------------------------------------------------------------------------
\* A user who was told "verified" is active or about to be, unless the request came
\* before the registration had committed or was lost after its response.
VerifiedUnlessRaced ==
  \A u \in told : \/ status[u] = "active" \/ u \in excused
                  \/ \E r \in Requests : At(r, "verify", "answered") /\ who[r] = u

\* A code that was sent is good for more than one login only while the first is under
\* way: no request slot answers two logins by one sending.  Sent again, as the mock
\* provider's only code always is, it is good again.
OneLoginPerRequest == \A n \in Sendings, r \in Requests : logins[n][r] <= 1
=============================================================================
