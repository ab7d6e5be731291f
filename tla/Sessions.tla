------------------------------ MODULE Sessions ------------------------------
(***************************************************************************)
(* auth-service: who is signed in.                                         *)
(*                                                                         *)
(* A sign-in by password, by Google, by a second factor or by a code for a *)
(* new device ends in a root refresh token; refreshing rotates a token into*)
(* a successor of the same family, and presenting a rotated token again    *)
(* revokes the family.  Redis counts failed passwords per account and per  *)
(* address.  The rows of users and refresh_tokens and the Redis keys are   *)
(* shared by the goroutines that serve requests: every statement on one of *)
(* them is a step.                                                         *)
(***************************************************************************)
EXTENDS Integers, Sequences, FiniteSets

CONSTANTS
    User,        \* accounts, by email
    Device,      \* browsers, each with a cookie jar
    Proc,        \* goroutines serving requests
    Ip,          \* the address all devices share
    Tries,       \* [User \cup {Ip} -> Nat]: failures that lock a key
    Situation,   \* what clients do, what may fail, the devices; and, as a bound,
                 \* how many tokens and challenges there are
    MaxPass,     \* bound: passwords an account has had
    MaxWrong,    \* bound: wrong passwords that were compared
    MaxRestarts  \* bound: restarts

ASSUME TriesAssumption == Ip \notin User /\ Tries \in [User \cup {Ip} -> Nat \ {0}]
ASSUME BoundAssumption == MaxPass \in Nat \ {0} /\ MaxRestarts \in Nat
ASSUME SomeAssumption ==
    /\ User # {} /\ Device # {} /\ IsFiniteSet(Proc)
    /\ \A s \in Situation : s.devices \subseteq Device

VARIABLES
    acct,      \* users rows
    token,     \* refresh_tokens rows, in order of creation
    cookie,    \* [Device -> refresh token of the cookie jar, 0 if none]
    temp,      \* 2FA_PENDING tokens that devices hold
    fails,     \* Redis failed_login:<email>, failed_login_ip:<ip>
    lockout,   \* Redis login_locked:<email>, login_locked_ip:<ip>
    challenge, \* Redis stepup:<token> keys, in order of creation
    known,     \* audit_logs: devices that have a row of the user
    audits,    \* audit goroutines that have not written their row yet
    job,       \* [Proc -> what the goroutine is doing]
    here,      \* the member of Situation this behaviour is in
    wrong,     \* history: wrong passwords compared since the counter was last gone
    restarts

rows  == <<acct, token>>
jars  == <<cookie, temp>>
redis == <<fails, lockout, challenge>>
trail == <<known, audits>>
past  == <<here, wrong, restarts>>
vars  == <<rows, jars, redis, trail, job, past>>

Key == User \cup {Ip}
TokenId == 1..Len(token)

NoRow == [made |-> FALSE, pass |-> 0, legacy |-> FALSE, is2fa |-> FALSE,
          secret |-> FALSE, locked |-> FALSE]
Idle == [pc |-> "idle", op |-> "none", user |-> CHOOSE u \in User : TRUE,
         dev |-> CHOOSE d \in Device : TRUE, pass |-> 0, tok |-> 0, via |-> 0,
         due |-> {}, row |-> NoRow]

-----------------------------------------------------------------------------
(* Requests *)

Allowed(op) == op \in here.ops
MayFail(f) == f \in here.faults
Start(p, r) == job[p].pc = "idle" /\ Allowed(r.op) /\ job' = [job EXCEPT ![p] = r]
Request(o, u, d) == [Idle EXCEPT !.op = o, !.user = u, !.dev = d]
At(p, label) == job[p].pc = label
Goto(p, label) == job' = [job EXCEPT ![p].pc = label]
Done(p) == job' = [job EXCEPT ![p] = Idle]

(* FindByEmail, FindByID *)
Found(u) == acct[u].made

-----------------------------------------------------------------------------
(* Login throttle *)

CheckLocked(u) == lockout[u] \/ lockout[Ip]

(* mutant: the lock is set one failure too late *)
RecordFailureLate(p) ==
    /\ At(p, "fail")
    /\ LET n == [k \in Key |-> IF k \in {job[p].user, Ip} THEN fails[k] + 1 ELSE fails[k]]
       IN /\ fails' = n
          /\ job' = [job EXCEPT ![p].due = {k \in {job[p].user, Ip} : n[k] > Tries[k]},
                                ![p].pc = "lock"]
    /\ UNCHANGED <<rows, jars, lockout, challenge, trail, past>>

(* TxPipeline: both counters; the SETs of the locks follow. *)
RecordFailure(p) ==
    /\ At(p, "fail")
    /\ LET u == job[p].user
           n == [k \in Key |-> IF k \in {u, Ip} THEN fails[k] + 1 ELSE fails[k]]
       IN /\ fails' = n
          /\ job' = [job EXCEPT ![p].due = {k \in {u, Ip} : n[k] >= Tries[k]},
                                ![p].pc = "lock"]
    /\ UNCHANGED <<rows, jars, lockout, challenge, trail, past>>

(* One SET after the other, the account's first. *)
SetLock(p) ==
    /\ At(p, "lock")
    /\ LET due == job[p].due
           next == IF job[p].user \in due THEN job[p].user ELSE Ip
       IN IF due = {} THEN Done(p) /\ UNCHANGED lockout
          ELSE /\ lockout' = [lockout EXCEPT ![next] = TRUE]
               /\ job' = [job EXCEPT ![p].due = @ \ {next}]
    /\ UNCHANGED <<rows, jars, fails, challenge, trail, past>>

(* DEL of an account's counter and lock: RecordSuccess, AdminUnlock. *)
ClearKey(k) ==
    /\ fails' = [fails EXCEPT ![k] = 0]
    /\ lockout' = [lockout EXCEPT ![k] = FALSE]
    /\ wrong' = [wrong EXCEPT ![k] = 0]

AdminUnlock(k) ==
    /\ Allowed("adminUnlock") /\ lockout[k] /\ ClearKey(k)
    /\ UNCHANGED <<rows, jars, challenge, trail, job, here, restarts>>

(* Both keys live for fifteen minutes; the counter's time starts first.    *)
ThrottleExpires(k) ==
    /\ Allowed("expire")
    /\ fails[k] > 0 \/ lockout[k]
    /\ \A p \in Proc : ~At(p, "lock")
    /\ ClearKey(k)
    /\ UNCHANGED <<rows, jars, challenge, trail, job, here, restarts>>

-----------------------------------------------------------------------------
(* Tokens *)

Live(t) == ~token[t].revoked /\ ~token[t].expired /\ ~token[t].used
Family(f) == {t \in TokenId : token[t].family = f}
Successors(t) == {s \in TokenId : token[s].parent = t}

(* lockedAt and pass are history: the account when the row was created. *)
NewToken(u, family, parent, via) ==
    Append(token, [user |-> u, family |-> family, parent |-> parent, via |-> via, used |-> FALSE,
                   revoked |-> FALSE, expired |-> FALSE,
                   lockedAt |-> acct[u].locked,
                   pass |-> IF parent = 0 THEN acct[u].pass ELSE token[parent].pass])

Revoked(S) == [t \in TokenId |-> IF t \in S THEN [token[t] EXCEPT !.revoked = TRUE] ELSE token[t]]
RevokeFamily(f) == token' = Revoked(Family(f))
RevokeByUser(u) == token' = Revoked({t \in TokenId : token[t].user = u})

(* issueTokenPair with IssueRoot: a family of its own. *)
IssueRoot(p) ==
    /\ At(p, "issue") /\ Len(token) < here.tokens
    /\ token' = NewToken(job[p].user, Len(token) + 1, 0, job[p].via)
    /\ job' = [job EXCEPT ![p].tok = Len(token) + 1,
                          ![p].pc = IF job[p].op = "login" THEN "clear" ELSE "reply"]
    /\ UNCHANGED <<acct, jars, redis, trail, past>>

RecordSuccess(p) ==
    /\ At(p, "clear") /\ ClearKey(job[p].user) /\ Goto(p, "reply")
    /\ UNCHANGED <<rows, jars, challenge, trail, here, restarts>>

(* SuccessDevice spawns a goroutine that writes the row; only the gate of  *)
(* the step-up reads rows.                                                 *)
Audit(p) == IF Allowed("code") THEN audits \cup {<<job[p].user, job[p].dev>>} ELSE audits

(* The end of a sign-in: the audit goroutine is spawned and the handler    *)
(* sets the cookies; the response may be lost.                             *)
SetAuthCookies(p) ==
    /\ \/ cookie' = [cookie EXCEPT ![job[p].dev] = job[p].tok]
       \/ MayFail("reply") /\ UNCHANGED cookie
    /\ Done(p)
SignedIn(p) ==
    /\ At(p, "reply") /\ SetAuthCookies(p)
    /\ audits' = IF job[p].op \in {"login", "google", "code"} THEN Audit(p) ELSE audits
    /\ UNCHANGED <<rows, temp, redis, known, past>>

RecordWithDevice(a) ==
    /\ audits' = audits \ {a}
    /\ known' = [known EXCEPT ![a[1]] = @ \cup {a[2]}]
    /\ UNCHANGED <<rows, jars, redis, job, past>>

-----------------------------------------------------------------------------
(* Signing in *)

Register(p, u, d) ==
    /\ Start(p, [Request("register", u, d) EXCEPT !.pc = "create"]) /\ ~Found(u)
    /\ UNCHANGED <<rows, jars, redis, trail, past>>

(* FindByGoogleSub, then FindByEmail; a locked account is refused after    *)
(* the columns from Google were filled in.                                 *)
LoginWithGoogle(p, u, d) ==
    /\ Found(u) => ~acct[u].locked
    /\ Start(p, [Request("google", u, d) EXCEPT !.pc = IF Found(u) THEN "issue" ELSE "create"])
    /\ UNCHANGED <<rows, jars, redis, trail, past>>

(* Create fails on the unique email when another request was faster. *)
CreateUser(p) ==
    /\ At(p, "create")
    /\ LET r == job[p] IN
       IF Found(r.user) THEN Done(p) /\ UNCHANGED <<acct, audits>>
       ELSE /\ acct' = [acct EXCEPT ![r.user] =
                  [NoRow EXCEPT !.made = TRUE, !.pass = IF r.op = "google" THEN 0 ELSE 1]]
            /\ audits' = Audit(p)
            /\ Goto(p, "issue")
    /\ UNCHANGED <<token, jars, redis, known, past>>

(* Login: the lockout is checked before the row is read. *)
Login(p, u, d, pass) ==
    /\ ~CheckLocked(u) /\ (pass = 0 => Allowed("guess"))
    /\ Start(p, [Request("login", u, d) EXCEPT !.pc = "password", !.pass = pass])
    /\ UNCHANGED <<rows, jars, redis, trail, past>>

(* A hash, bcrypt or Argon2, matches the password it was made from; the    *)
(* empty one of an account from Google matches none.                       *)
Matches(pass, r) == r.pass # 0 /\ pass = r.pass

(* FindByEmail, CheckPassword, the lock, as the row was when it was read. *)
CheckPassword(p) ==
    /\ At(p, "password")
    /\ LET u == job[p].user
           row == acct[u]
       IN IF ~row.made \/ ~Matches(job[p].pass, row)
          THEN /\ wrong[u] < MaxWrong
               /\ wrong' = [k \in Key |-> IF k \in {u, Ip} THEN wrong[k] + 1 ELSE wrong[k]]
               /\ Goto(p, "fail")
          ELSE /\ UNCHANGED wrong
               /\ IF row.locked THEN Done(p)
                  ELSE job' = [job EXCEPT ![p].row = row,
                                          ![p].pc = IF row.legacy THEN "migrate" ELSE "gate"]
    /\ UNCHANGED <<rows, jars, redis, trail, here, restarts>>

(* A bcrypt hash is replaced by a hash of the password just checked. *)
MigrateHash(p) ==
    /\ At(p, "migrate")
    /\ acct' = [acct EXCEPT ![job[p].user] = [@ EXCEPT !.pass = job[p].pass, !.legacy = FALSE]]
    /\ Goto(p, "gate")
    /\ UNCHANGED <<token, jars, redis, trail, past>>

(* The token that waits for the second factor; nothing spends it. *)
GenerateTempToken(u, d) == temp \cup {<<u, d>>}
ValidateTempToken(u, d) == <<u, d>> \in temp

(* requiresStepUp: enabled, some row of the user, none with this device. *)
RequiresStepUp(u, d) == Allowed("code") /\ known[u] # {} /\ d \notin known[u]
Gate(p) ==
    /\ At(p, "gate")
    /\ LET u == job[p].user
           d == job[p].dev
       IN IF job[p].row.is2fa THEN Done(p) /\ temp' = GenerateTempToken(u, d)
          ELSE /\ Goto(p, IF RequiresStepUp(u, d) THEN "challenge" ELSE "issue")
               /\ UNCHANGED temp
    /\ UNCHANGED <<rows, cookie, redis, trail, past>>

(* Challenge: HSET, EXPIRE; the code is sent by another goroutine. *)
Challenge(p) ==
    /\ \/ /\ At(p, "challenge") /\ Len(challenge) < here.tokens
          /\ challenge' = Append(challenge, [user |-> job[p].user, live |-> TRUE, ttl |-> FALSE])
          /\ job' = [job EXCEPT ![p].pc = "ttl", ![p].via = Len(challenge) + 1]
       \/ /\ At(p, "ttl")
          /\ challenge' = [challenge EXCEPT ![job[p].via].ttl = TRUE]
          /\ Done(p)
    /\ UNCHANGED <<rows, jars, fails, lockout, trail, past>>

ChallengeExpires(c) ==
    /\ challenge[c].live /\ challenge[c].ttl
    /\ challenge' = [challenge EXCEPT ![c].live = FALSE]
    /\ UNCHANGED <<rows, jars, fails, lockout, trail, job, past>>

(* ConfirmStepUp with the right code: HGETALL, then DEL. *)
ConfirmStepUp(p, c, d) ==
    /\ challenge[c].live
    /\ Start(p, [Request("code", challenge[c].user, d) EXCEPT !.pc = "oneShot", !.via = c])
    /\ UNCHANGED <<rows, jars, redis, trail, past>>
DeleteChallenge(p) ==
    /\ At(p, "oneShot")
    /\ challenge' = [challenge EXCEPT ![job[p].via].live = FALSE]
    /\ Goto(p, "issue")
    /\ UNCHANGED <<rows, jars, fails, lockout, trail, past>>

(* Login2FA: the temporary token is not consumed. *)
Login2FA(p, u, d) ==
    /\ ValidateTempToken(u, d) /\ acct[u].is2fa /\ acct[u].secret
    /\ Start(p, [Request("totp", u, d) EXCEPT !.pc = "issue"])
    /\ UNCHANGED <<rows, jars, redis, trail, past>>

-----------------------------------------------------------------------------
(* Refreshing *)

(* Rotate up to the first write: the row as FindByHash returned it decides.*)
Rotate(p, d) ==
    /\ cookie[d] # 0
    /\ LET t == cookie[d]
           r == [Request("refresh", token[t].user, d) EXCEPT !.tok = t]
       IN IF token[t].revoked
          THEN /\ Allowed("refresh") /\ At(p, "idle")
               /\ cookie' = [cookie EXCEPT ![d] = 0] /\ UNCHANGED job
          ELSE /\ Start(p, [r EXCEPT !.pc = IF token[t].expired THEN "expired"
                                            ELSE IF token[t].used THEN "replay" ELSE "mark"])
               /\ UNCHANGED cookie
    /\ UNCHANGED <<rows, temp, redis, trail, past>>

(* RefreshAccessToken clears the cookies when the service returns an error. *)
ClearAuthCookies(p) ==
    /\ \/ cookie' = [cookie EXCEPT ![job[p].dev] = 0]
       \/ MayFail("reply") /\ UNCHANGED cookie
    /\ Done(p)

(* RevokeByID of an expired token, RevokeFamily of a token used before. *)
Refuse(p) ==
    /\ \/ At(p, "expired") /\ token' = Revoked({job[p].tok})
       \/ At(p, "replay") /\ RevokeFamily(token[job[p].tok].family)
    /\ ClearAuthCookies(p)
    /\ UNCHANGED <<acct, temp, redis, trail, past>>

(* mutant: the rotated token is not marked *)
MarkNothing(p) ==
    /\ At(p, "mark") /\ Goto(p, "successor")
    /\ UNCHANGED <<rows, jars, redis, trail, past>>

MarkUsed(p) ==
    /\ At(p, "mark")
    /\ token' = [token EXCEPT ![job[p].tok].used = TRUE]
    /\ Goto(p, "successor")
    /\ UNCHANGED <<acct, jars, redis, trail, past>>

CreateSuccessor(p) ==
    /\ At(p, "successor") /\ Len(token) < here.tokens
    /\ LET t == job[p].tok IN token' = NewToken(token[t].user, token[t].family, t, 0)
    /\ job' = [job EXCEPT ![p].tok = Len(token) + 1, ![p].pc = "owner"]
    /\ UNCHANGED <<acct, jars, redis, trail, past>>

(* mutant: a locked account's refresh is refused, its tokens stay *)
CheckOwnerOnly(p) ==
    /\ At(p, "owner")
    /\ Done(p)
    /\ cookie' = [cookie EXCEPT ![job[p].dev] = IF acct[job[p].user].locked THEN 0 ELSE job[p].tok]
    /\ UNCHANGED <<rows, temp, redis, trail, past>>

(* RefreshToken: the account is looked at after the rotation; a locked one *)
(* loses its tokens.                                                       *)
CheckOwner(p) ==
    /\ At(p, "owner")
    /\ IF acct[job[p].user].locked
       THEN Goto(p, "endAll") /\ UNCHANGED cookie
       ELSE SetAuthCookies(p)
    /\ UNCHANGED <<rows, temp, redis, trail, past>>
EndSessions(p) ==
    /\ At(p, "endAll")
    /\ RevokeByUser(job[p].user)
    /\ ClearAuthCookies(p)
    /\ UNCHANGED <<acct, temp, redis, trail, past>>

TokenExpires(t) ==
    /\ Allowed("expire") /\ ~token[t].expired
    /\ token' = [token EXCEPT ![t].expired = TRUE]
    /\ UNCHANGED <<acct, jars, redis, trail, job, past>>

(* Logout: Revoke finds the row, then updates it by id unless revoked. *)
Logout(p, d) ==
    /\ cookie[d] # 0
    /\ Start(p, [Request("logout", token[cookie[d]].user, d) EXCEPT
                   !.pc = "revoke", !.tok = cookie[d]])
    /\ UNCHANGED <<rows, jars, redis, trail, past>>
Revoke(p) ==
    /\ At(p, "revoke")
    /\ token' = Revoked({job[p].tok})
    /\ ClearAuthCookies(p)
    /\ UNCHANGED <<acct, temp, redis, trail, past>>

-----------------------------------------------------------------------------
(* The account; the caller is signed in: its cookie once had a token       *)

SignedInAs(u, d) == cookie[d] # 0 /\ token[cookie[d]].user = u

LogoutAll(p, u, d) ==
    /\ SignedInAs(u, d)
    /\ Start(p, [Request("logoutAll", u, d) EXCEPT !.pc = "endAll"])
    /\ UNCHANGED <<rows, jars, redis, trail, past>>

(* ChangePassword checked the old password and hashes the new one, which   *)
(* UpdateField writes before RevokeAllForUser; SetInitialPassword found no *)
(* password.  The new password is the next number.                         *)
ChangePassword(p, u, d) ==
    /\ SignedInAs(u, d) /\ acct[u].pass \in 1..(MaxPass - 1)
    /\ Start(p, [Request("change", u, d) EXCEPT !.pc = "newHash", !.pass = acct[u].pass + 1])
    /\ UNCHANGED <<rows, jars, redis, trail, past>>
SetInitialPassword(p, u, d) ==
    /\ SignedInAs(u, d) /\ acct[u].pass = 0
    /\ Start(p, [Request("set", u, d) EXCEPT !.pc = "newHash", !.pass = 1])
    /\ UNCHANGED <<rows, jars, redis, trail, past>>
NewHash(p) ==
    /\ At(p, "newHash")
    /\ acct' = [acct EXCEPT ![job[p].user] = [@ EXCEPT !.pass = job[p].pass, !.legacy = FALSE]]
    /\ IF job[p].op = "change" THEN Goto(p, "endAll") ELSE Done(p)
    /\ UNCHANGED <<token, jars, redis, trail, past>>

(* Verify2FA and Disable2FA read the row, then update their columns; the   *)
(* code is right.  Enable2FA writes a new secret whatever the row says.    *)
Enable2FA(u, d) ==
    /\ Allowed("2fa") /\ SignedInAs(u, d) /\ ~acct[u].secret
    /\ acct' = [acct EXCEPT ![u].secret = TRUE]
    /\ UNCHANGED <<token, jars, redis, trail, job, past>>
Switch2FA(p, u, d) ==
    /\ SignedInAs(u, d) /\ acct[u].secret
    /\ Start(p, [Request("2fa", u, d) EXCEPT
                   !.pc = "columns",
                   !.row = IF acct[u].is2fa THEN NoRow ELSE [NoRow EXCEPT !.is2fa = TRUE, !.secret = TRUE]])
    /\ UNCHANGED <<rows, jars, redis, trail, past>>
UpdateColumns(p) ==
    /\ At(p, "columns")
    /\ LET u == job[p].user
           on == job[p].row.is2fa
       IN acct' = [acct EXCEPT ![u] = [@ EXCEPT !.is2fa = on, !.secret = on /\ acct[u].secret]]
    /\ Done(p)
    /\ UNCHANGED <<token, jars, redis, trail, past>>

(* UpdateProfile, LockAccount, UnlockAccount: FindByID, then Save of every *)
(* column as it was read.                                                  *)
ReadRow(p, op, u) ==
    /\ Found(u) /\ (op = "lock" => ~acct[u].locked) /\ (op = "unlock" => acct[u].locked)
    /\ Start(p, [Request(op, u, Idle.dev) EXCEPT
          !.pc = "save",
          !.row = [acct[u] EXCEPT !.locked = IF op = "profile" THEN @ ELSE op = "lock"]])
    /\ UNCHANGED <<rows, jars, redis, trail, past>>
SaveRow(p) ==
    /\ At(p, "save")
    /\ acct' = [acct EXCEPT ![job[p].user] = job[p].row]
    /\ Done(p)
    /\ UNCHANGED <<token, jars, redis, trail, past>>

-----------------------------------------------------------------------------
(* Faults *)

(* A write that returns an error: the handler answers with it. *)
WriteFails(p) ==
    /\ MayFail("db")
    /\ \/ At(p, "mark") \/ At(p, "successor") \/ At(p, "issue")
       \/ At(p, "newHash") \/ At(p, "save") \/ At(p, "columns")
    /\ IF job[p].op = "refresh" THEN ClearAuthCookies(p) ELSE Done(p) /\ UNCHANGED cookie
    /\ UNCHANGED <<rows, temp, redis, trail, past>>

(* The service restarts: requests and audit goroutines end where they are. *)
Restart ==
    /\ MayFail("crash") /\ restarts < MaxRestarts
    /\ restarts' = restarts + 1
    /\ job' = [p \in Proc |-> Idle]
    /\ audits' = {}
    /\ UNCHANGED <<rows, jars, redis, known, here, wrong>>

-----------------------------------------------------------------------------
Init ==
    /\ here \in Situation
    /\ \E made \in BOOLEAN, legacy \in {FALSE, Allowed("login")}, twofa \in {FALSE, Allowed("totp")} :
          acct = [u \in User |-> IF ~made THEN NoRow
                     ELSE [NoRow EXCEPT !.made = TRUE, !.pass = 1, !.legacy = legacy,
                                        !.is2fa = twofa, !.secret = twofa]]
    /\ token = <<>> /\ cookie = [d \in Device |-> 0] /\ temp = {}
    /\ fails = [k \in Key |-> 0] /\ lockout = [k \in Key |-> FALSE] /\ challenge = <<>>
    /\ known = [u \in User |-> {}] /\ audits = {}
    /\ job = [p \in Proc |-> Idle]
    /\ wrong = [k \in Key |-> 0] /\ restarts = 0

(* The handlers of the requests, with what a client can send. *)
SignIn(p, u, d) ==
    \/ Register(p, u, d) \/ LoginWithGoogle(p, u, d) \/ Login2FA(p, u, d)
    \/ \E pass \in {0, acct[u].pass} : Login(p, u, d, pass)
    \/ \E c \in DOMAIN challenge : ConfirmStepUp(p, c, d)
Session(p, u, d) == Rotate(p, d) \/ Logout(p, d) \/ LogoutAll(p, u, d)
Account(p, u, d) ==
    \/ ChangePassword(p, u, d) \/ SetInitialPassword(p, u, d) \/ Switch2FA(p, u, d)
    \/ \E op \in {"profile", "lock", "unlock"} : ReadRow(p, op, u)
Receive(p) ==
    \E u \in User, d \in here.devices : SignIn(p, u, d) \/ Session(p, u, d) \/ Account(p, u, d)

Serve(p) ==
    \/ CreateUser(p) \/ IssueRoot(p) \/ SignedIn(p)
    \/ CheckPassword(p) \/ RecordFailure(p) \/ SetLock(p) \/ RecordSuccess(p)
    \/ MigrateHash(p) \/ Gate(p) \/ Challenge(p) \/ DeleteChallenge(p)
    \/ Refuse(p) \/ MarkUsed(p) \/ CreateSuccessor(p) \/ CheckOwner(p) \/ EndSessions(p)
    \/ Revoke(p) \/ NewHash(p) \/ UpdateColumns(p) \/ SaveRow(p) \/ WriteFails(p)

Environment ==
    \/ \E k \in Key : AdminUnlock(k) \/ ThrottleExpires(k)
    \/ \E c \in DOMAIN challenge : ChallengeExpires(c)
    \/ \E t \in TokenId : TokenExpires(t)
    \/ \E a \in audits : RecordWithDevice(a)
    \/ \E u \in User, d \in here.devices : Enable2FA(u, d)

Work == Environment \/ \E p \in Proc : Receive(p) \/ Serve(p)
Next == Work \/ Restart
Spec == Init /\ [][Next]_vars
=============================================================================
