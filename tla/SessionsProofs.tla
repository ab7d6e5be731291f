--------------------------- MODULE SessionsProofs ---------------------------
(***************************************************************************)
(* Proofs about Sessions and Anomaly, for any number of accounts, browsers,*)
(* addresses tried, goroutines and tokens: what a rotation leaves behind,  *)
(* how often a password can be guessed, what ends with a locked account,   *)
(* and which sign-ins the anomaly detector finds.                          *)
(***************************************************************************)
EXTENDS AnomalyProps, SequenceTheorems, FiniteSetTheorems, TLAPS

-----------------------------------------------------------------------------
(* Types                                                                   *)

Row == [made : BOOLEAN, pass : Nat, legacy : BOOLEAN, is2fa : BOOLEAN,
        secret : BOOLEAN, locked : BOOLEAN]
Token == [user : User, family : Nat, parent : Nat, via : Nat, used : BOOLEAN,
          revoked : BOOLEAN, expired : BOOLEAN, lockedAt : BOOLEAN, pass : Nat]
StepUp == [user : User, live : BOOLEAN, ttl : BOOLEAN]
Place == {"idle", "fail", "lock", "issue", "clear", "reply", "create", "password", "migrate", "gate",
          "challenge", "ttl", "oneShot", "expired", "replay", "mark", "successor", "owner", "endAll",
          "revoke", "newHash", "columns", "save"}
Doings == {"none", "login", "google", "register", "code", "totp", "refresh", "logout", "logoutAll",
           "change", "set", "2fa", "profile", "lock", "unlock"}
Job == [pc : Place, op : Doings, user : User, dev : Device, pass : Nat, tok : Nat, via : Nat,
        due : SUBSET Key, row : Row]

(* What a job has in hand where it needs it; only a step-up's job carries  *)
(* a challenge to the end of a sign-in.                                    *)
OfToken == {"expired", "replay", "mark", "successor", "revoke"}
BeforeIssue == {"create", "password", "migrate", "gate", "challenge"}
InHand(j, tokens, challenges) ==
    /\ j.tok <= tokens /\ j.via <= challenges
    /\ j.pc \in OfToken => j.tok # 0
    /\ j.pc \in {"oneShot", "ttl"} => j.via # 0
    /\ j.pc \in BeforeIssue => j.via = 0

StoreTypes ==
    /\ acct \in [User -> Row] /\ token \in Seq(Token) /\ challenge \in Seq(StepUp)
    /\ cookie \in [Device -> 0..Len(token)]
    /\ \A t \in TokenId : token[t].parent < t /\ token[t].via <= Len(challenge)
ThrottleTypes ==
    /\ fails \in [Key -> Nat] /\ lockout \in [Key -> BOOLEAN] /\ wrong \in [Key -> Nat]
    /\ here \in Situation /\ restarts \in Nat
JobTypes ==
    /\ job \in [Proc -> Job]
    /\ \A p \in Proc : InHand(job[p], Len(token), Len(challenge))
Types == StoreTypes /\ ThrottleTypes /\ JobTypes

LEMMA IdleJob ==
  /\ Idle \in Job /\ NoRow \in Row
  /\ Idle.pc = "idle" /\ Idle.tok = 0 /\ Idle.via = 0 /\ Idle.pass = 0 /\ Idle.row = NoRow
  /\ \A n, m \in Nat : InHand(Idle, n, m)
<1>1. NoRow \in Row
  BY DEF NoRow, Row
<1>2. (CHOOSE u \in User : TRUE) \in User /\ (CHOOSE d \in Device : TRUE) \in Device
  BY SomeAssumption
<1>3. PICK u, d : u = (CHOOSE x \in User : TRUE) /\ d = (CHOOSE x \in Device : TRUE)
  OBVIOUS
<1>4. Idle = [pc |-> "idle", op |-> "none", user |-> u, dev |-> d, pass |-> 0, tok |-> 0, via |-> 0,
              due |-> {}, row |-> NoRow]
  BY <1>3 DEF Idle
<1>5. Idle \in Job
  BY <1>1, <1>2, <1>3, <1>4 DEF Job, Place, Doings
<1> QED
  BY <1>1, <1>4, <1>5 DEF InHand, OfToken, BeforeIssue

(* The job with which a request begins. *)
LEMMA RequestJob ==
  ASSUME NEW o \in Doings, NEW u \in User, NEW d \in Device, NEW r, r = Request(o, u, d)
  PROVE  /\ r \in Job /\ r.pc = "idle" /\ r.op = o /\ r.user = u /\ r.dev = d
         /\ r.pass = 0 /\ r.tok = 0 /\ r.via = 0 /\ r.due = {} /\ r.row = NoRow
<1>1. PICK w, e : Idle = [pc |-> "idle", op |-> "none", user |-> w, dev |-> e, pass |-> 0, tok |-> 0,
                          via |-> 0, due |-> {}, row |-> NoRow]
  BY DEF Idle
<1>2. Idle \in Job
  BY IdleJob
<1>3. r = [Idle EXCEPT !.op = o, !.user = u, !.dev = d]
  BY DEF Request
<1>4. r \in Job
  BY <1>2, <1>3 DEF Job
<1> QED
  BY <1>1, <1>3, <1>4

LEMMA InitTypes == ASSUME Init PROVE Types
<1>1. Len(token) = 0 /\ token \in Seq(Token) /\ Len(challenge) = 0 /\ challenge \in Seq(StepUp)
  BY EmptySeq DEF Init
<1>2. TokenId = {}
  BY <1>1 DEF TokenId
<1>3. acct \in [User -> Row]
  <2>1. PICK made \in BOOLEAN, legacy \in {FALSE, Allowed("login")}, twofa \in {FALSE, Allowed("totp")} :
           acct = [u \in User |-> IF ~made THEN NoRow
                     ELSE [NoRow EXCEPT !.made = TRUE, !.pass = 1, !.legacy = legacy,
                                        !.is2fa = twofa, !.secret = twofa]]
    BY DEF Init
  <2>2. legacy \in BOOLEAN /\ twofa \in BOOLEAN
    <3>1. ASSUME NEW l, NEW o, l = (o \in here.ops) PROVE l \in BOOLEAN
      BY <3>1
    <3>2. Allowed("login") \in BOOLEAN /\ Allowed("totp") \in BOOLEAN
      BY <3>1 DEF Allowed
    <3> QED
      BY <3>2
  <2>3. [NoRow EXCEPT !.made = TRUE, !.pass = 1, !.legacy = legacy,
                      !.is2fa = twofa, !.secret = twofa] \in Row
    BY <2>2 DEF NoRow, Row
  <2> QED
    BY <2>1, <2>3, IdleJob
<1>4. ThrottleTypes
  BY DEF Init, ThrottleTypes
<1>5. JobTypes
  BY <1>1, IdleJob DEF Init, JobTypes
<1>6. StoreTypes
  BY <1>1, <1>2, <1>3 DEF Init, StoreTypes
<1> QED
  BY <1>4, <1>5, <1>6 DEF Types

-----------------------------------------------------------------------------
(* Tokens: what a step does to the rows                                    *)

(* Rows stay, with what they were created with; and nothing brings back a  *)
(* token that was used, revoked or has expired.                            *)
Same(s, t) ==
    /\ s.user = t.user /\ s.family = t.family /\ s.parent = t.parent /\ s.via = t.via
    /\ s.lockedAt = t.lockedAt
    /\ (t.used => s.used) /\ (t.revoked => s.revoked) /\ (t.expired => s.expired)
RowsStay == Len(token') >= Len(token) /\ \A t \in TokenId : Same(token'[t], token[t])

LEMMA SameInterval == ASSUME NEW n \in Nat, NEW m \in Nat, 1..n = 1..m PROVE n = m
<1>1. n >= 1 => n \in 1..m
  OBVIOUS
<1>2. m >= 1 => m \in 1..n
  OBVIOUS
<1> QED
  BY <1>1, <1>2

LEMMA RevokedRows ==
  ASSUME token \in Seq(Token), NEW S, token' = Revoked(S)
  PROVE  /\ token' \in Seq(Token) /\ Len(token') = Len(token) /\ RowsStay
         /\ \A t \in TokenId : /\ token'[t].used = token[t].used
                               /\ t \in S => token'[t].revoked
<1>1. Len(token) \in Nat /\ DOMAIN token = 1..Len(token) /\ \A t \in 1..Len(token) : token[t] \in Token
  BY LenProperties, ElementOfSeq
<1>2. \A t \in 1..Len(token) : token'[t] = IF t \in S THEN [token[t] EXCEPT !.revoked = TRUE] ELSE token[t]
  BY <1>1 DEF Revoked, TokenId
<1>3. \A t \in 1..Len(token) : token'[t] \in Token
  BY <1>1, <1>2 DEF Token
<1>4. token' \in [1..Len(token) -> Token]
  BY <1>1, <1>3 DEF Revoked, TokenId
<1>5. token' \in Seq(Token)
  BY <1>1, <1>4, SeqDef
<1>6. DOMAIN token' = 1..Len(token') /\ Len(token') \in Nat /\ DOMAIN token' = 1..Len(token)
  BY <1>4, <1>5, LenProperties
<1>7. Len(token') = Len(token)
  BY <1>1, <1>6, SameInterval
<1>8. \A t \in TokenId : /\ Same(token'[t], token[t]) /\ token'[t].used = token[t].used
                         /\ t \in S => token'[t].revoked
  BY <1>1, <1>2 DEF Same, Token, TokenId
<1> QED
  BY <1>1, <1>5, <1>7, <1>8 DEF RowsStay

(* A flag of one row is set. *)
LEMMA FlagRow ==
  ASSUME token \in Seq(Token), NEW t \in TokenId, NEW r \in Token, token' = [token EXCEPT ![t] = r],
         r = [token[t] EXCEPT !.used = TRUE] \/ r = [token[t] EXCEPT !.expired = TRUE]
  PROVE  /\ token' \in Seq(Token) /\ Len(token') = Len(token) /\ RowsStay
         /\ \A s \in TokenId : s # t => token'[s] = token[s]
<1>1. Len(token) \in Nat /\ \A s \in 1..Len(token) : token[s] \in Token
  BY LenProperties, ElementOfSeq
<1>2. /\ token' \in Seq(Token) /\ Len(token') = Len(token)
      /\ \A s \in 1..Len(token) : token'[s] = IF s = t THEN r ELSE token[s]
  BY ExceptSeq DEF TokenId
<1>3. ASSUME NEW s \in TokenId PROVE Same(token'[s], token[s])
  <2>1. token[s] \in Token /\ s \in 1..Len(token)
    BY <1>1, <1>3 DEF TokenId
  <2>2. CASE s # t
    BY <1>2, <2>1, <2>2 DEF Same
  <2>3. CASE s = t
    <3>1. token'[s] = r
      BY <1>2, <2>1, <2>3
    <3> QED
      BY <2>1, <2>3, <3>1 DEF Same, Token
  <2> QED
    BY <2>2, <2>3
<1> QED
  BY <1>1, <1>2, <1>3 DEF RowsStay, TokenId

(* A row is added. *)
LEMMA AddRow ==
  ASSUME token \in Seq(Token), NEW r \in Token, token' = Append(token, r)
  PROVE  /\ token' \in Seq(Token) /\ Len(token') = Len(token) + 1 /\ RowsStay
         /\ token'[Len(token) + 1] = r /\ \A t \in TokenId : token'[t] = token[t]
<1>1. Len(token) \in Nat /\ \A s \in 1..Len(token) : token[s] \in Token
  BY LenProperties, ElementOfSeq
<1>2. /\ token' \in Seq(Token) /\ Len(token') = Len(token) + 1 /\ token'[Len(token) + 1] = r
      /\ \A t \in 1..Len(token) : token'[t] = token[t]
  BY AppendProperties
<1>3. \A s \in TokenId : Same(token'[s], token[s])
  BY <1>1, <1>2 DEF Same, TokenId
<1> QED
  BY <1>1, <1>2, <1>3 DEF RowsStay, TokenId

-----------------------------------------------------------------------------
(* Turns: what a goroutine's step does to its job                          *)

Turn(p, r) ==
    job' = [job EXCEPT ![p] = r] /\ r \in Job /\ InHand(r, Len(token'), Len(challenge'))

LEMMA Sizes == ASSUME Types PROVE /\ Len(token) \in Nat /\ Len(challenge) \in Nat
                                  /\ \A t \in TokenId : token[t] \in Token
                                  /\ \A c \in DOMAIN challenge : challenge[c] \in StepUp
                                  /\ DOMAIN challenge = 1..Len(challenge)
BY LenProperties, ElementOfSeq DEF Types, StoreTypes, TokenId

LEMMA Turned ==
  ASSUME Types, NEW p \in Proc, NEW r, Turn(p, r),
         Len(token') \in Nat, Len(token') >= Len(token),
         Len(challenge') \in Nat, Len(challenge') >= Len(challenge)
  PROVE  JobTypes' /\ \A q \in Proc : job'[q] = IF q = p THEN r ELSE job[q]
<1>1. Len(token) \in Nat /\ Len(challenge) \in Nat /\ job \in [Proc -> Job]
      /\ \A q \in Proc : InHand(job[q], Len(token), Len(challenge))
  BY Sizes DEF Types, JobTypes
<1>2. \A q \in Proc : job'[q] = IF q = p THEN r ELSE job[q]
  BY <1>1 DEF Turn
<1>3. job' \in [Proc -> Job]
  BY <1>1 DEF Turn
<1>4. ASSUME NEW q \in Proc PROVE InHand(job'[q], Len(token'), Len(challenge'))
  <2>1. CASE q = p
    BY <1>2, <2>1 DEF Turn
  <2>2. CASE q # p
    <3>1. InHand(job[q], Len(token), Len(challenge)) /\ job[q] \in Job
      BY <1>1
    <3>2. job[q].tok \in Nat /\ job[q].via \in Nat
      BY <3>1 DEF Job
    <3> QED
      BY <1>1, <1>2, <2>2, <3>1, <3>2 DEF InHand
  <2> QED
    BY <2>1, <2>2
<1> QED
  BY <1>2, <1>3, <1>4 DEF JobTypes

LEMMA Ends ==
  ASSUME Types, NEW p \in Proc, Done(p), Len(token') \in Nat, Len(challenge') \in Nat
  PROVE  Turn(p, Idle)
BY IdleJob DEF Done, Turn

LEMMA StoresKept ==
  ASSUME Types, acct' \in [User -> Row], token' \in Seq(Token), RowsStay, Len(token') = Len(token),
         challenge' \in Seq(StepUp), Len(challenge') >= Len(challenge),
         cookie' \in [Device -> 0..Len(token)]
  PROVE  StoreTypes'
<1>1. TokenId' = TokenId
  BY DEF TokenId
<1>2. Len(challenge') \in Nat
  BY LenProperties
<1>3. ASSUME NEW t \in TokenId PROVE token'[t].parent < t /\ token'[t].via <= Len(challenge')
  <2>1. token[t].parent < t /\ token[t].via <= Len(challenge) /\ token[t].via \in Nat
    BY Sizes DEF Types, StoreTypes, Token
  <2>2. Same(token'[t], token[t])
    BY DEF RowsStay
  <2> QED
    BY <1>2, <2>1, <2>2, Sizes DEF Same
<1> QED
  BY <1>1, <1>3 DEF StoreTypes

(* What a request begins with.                                             *)
Entered(p, r) ==
    /\ job[p].pc = "idle" /\ r.op \in here.ops
    /\ r.pc \in {"create", "issue", "password", "oneShot", "expired", "replay", "mark", "revoke",
                 "endAll", "newHash", "columns", "save"}
    /\ r.pc = "issue" => r.via = 0
    /\ r.pc = "mark" => /\ r.tok \in TokenId /\ ~token[r.tok].used
                        /\ r.user = token[r.tok].user
    /\ r.pc = "oneShot" => r.via \in DOMAIN challenge /\ challenge[r.via].live
    /\ r.pc = "password" => ~lockout[r.user] /\ ~lockout[Ip]
    /\ r.pc = "save" => /\ r.op \in {"profile", "lock", "unlock"} /\ r.row.made
                        /\ (r.op = "lock" => r.row.locked)

LEMMA Starts ==
  ASSUME Types, NEW p \in Proc, NEW o \in Doings, NEW u \in User, NEW d \in Device,
         NEW b, b = Request(o, u, d), NEW r, Start(p, r), r.op = o, r \in Job,
         InHand(r, Len(token), Len(challenge)), UNCHANGED <<token, challenge>>
  PROVE  Turn(p, r) /\ job[p].pc = "idle" /\ r.op \in here.ops
BY DEF Start, Allowed, Turn

LEMMA Received ==
  ASSUME Types, NEW p \in Proc, Receive(p)
  PROVE  /\ StoreTypes' /\ ThrottleTypes' /\ UNCHANGED <<rows, redis, past>>
         /\ UNCHANGED job \/ \E r : Turn(p, r) /\ Entered(p, r)
<1> USE DEF rows, redis, past, jars, trail
<1>0. /\ Len(token) \in Nat /\ Len(challenge) \in Nat /\ DOMAIN challenge = 1..Len(challenge)
      /\ \A t \in TokenId : token[t] \in Token
      /\ \A c \in DOMAIN challenge : challenge[c] \in StepUp
      /\ cookie \in [Device -> 0..Len(token)] /\ acct \in [User -> Row] /\ NoRow \in Row
      /\ lockout \in [Key -> BOOLEAN]
  BY Sizes, IdleJob DEF Types, StoreTypes, ThrottleTypes
<1>1. PICK u \in User, d \in Device :
         d \in here.devices /\ (SignIn(p, u, d) \/ Session(p, u, d) \/ Account(p, u, d))
  BY SomeAssumption DEF Receive, Types, ThrottleTypes
<1>2. ASSUME UNCHANGED <<acct, token, cookie, redis, past>> PROVE StoreTypes' /\ ThrottleTypes'
  BY <1>2 DEF Types, StoreTypes, ThrottleTypes, TokenId
<1>4. CASE Register(p, u, d)
  <2>1. PICK b, r : b = Request("register", u, d) /\ r = [b EXCEPT !.pc = "create"]
    OBVIOUS
  <2>2. r \in Job /\ r.pc = "create" /\ r.op = "register" /\ r.tok = 0 /\ r.via = 0
    BY <2>1, RequestJob DEF Job, Place, Doings
  <2>3. Start(p, r) /\ UNCHANGED <<rows, jars, redis, trail, past>>
    BY <1>4, <2>1 DEF Register
  <2>4. InHand(r, Len(token), Len(challenge))
    BY <1>0, <2>2 DEF InHand, OfToken, BeforeIssue
  <2>5. Turn(p, r) /\ job[p].pc = "idle" /\ r.op \in here.ops
    BY <2>1, <2>2, <2>3, <2>4, Starts DEF Doings
  <2> QED
    BY <1>2, <2>2, <2>3, <2>5 DEF Entered
<1>5. CASE LoginWithGoogle(p, u, d)
  <2>0. PICK l : l = IF Found(u) THEN "issue" ELSE "create"
    OBVIOUS
  <2>1. PICK b, r : b = Request("google", u, d) /\ r = [b EXCEPT !.pc = l]
    OBVIOUS
  <2>2. r \in Job /\ r.pc \in {"issue", "create"} /\ r.op = "google" /\ r.tok = 0 /\ r.via = 0
    BY <2>0, <2>1, RequestJob DEF Job, Place, Doings
  <2>3. Start(p, r) /\ UNCHANGED <<rows, jars, redis, trail, past>>
    BY <1>5, <2>0, <2>1 DEF LoginWithGoogle
  <2>4. InHand(r, Len(token), Len(challenge))
    BY <1>0, <2>2 DEF InHand, OfToken, BeforeIssue
  <2>5. Turn(p, r) /\ job[p].pc = "idle" /\ r.op \in here.ops
    BY <2>1, <2>2, <2>3, <2>4, Starts DEF Doings
  <2> QED
    BY <1>2, <2>2, <2>3, <2>5 DEF Entered
<1>6. CASE Login2FA(p, u, d)
  <2>1. PICK b, r : b = Request("totp", u, d) /\ r = [b EXCEPT !.pc = "issue"]
    OBVIOUS
  <2>2. r \in Job /\ r.pc = "issue" /\ r.op = "totp" /\ r.tok = 0 /\ r.via = 0
    BY <2>1, RequestJob DEF Job, Place, Doings
  <2>3. Start(p, r) /\ UNCHANGED <<rows, jars, redis, trail, past>>
    BY <1>6, <2>1 DEF Login2FA
  <2>4. InHand(r, Len(token), Len(challenge))
    BY <1>0, <2>2 DEF InHand, OfToken, BeforeIssue
  <2>5. Turn(p, r) /\ job[p].pc = "idle" /\ r.op \in here.ops
    BY <2>1, <2>2, <2>3, <2>4, Starts DEF Doings
  <2> QED
    BY <1>2, <2>2, <2>3, <2>5 DEF Entered
<1>7. CASE \E pass \in {0, acct[u].pass} : Login(p, u, d, pass)
  <2>0. PICK pass \in {0, acct[u].pass} : Login(p, u, d, pass)
    BY <1>7
  <2>7. pass \in Nat
    BY <1>0 DEF Row
  <2>1. PICK b, r : b = Request("login", u, d) /\ r = [b EXCEPT !.pc = "password", !.pass = pass]
    OBVIOUS
  <2>11. b \in Job /\ b.tok = 0 /\ b.via = 0
    BY <2>1, <2>7, RequestJob DEF Doings
  <2>12. b.op = "login" /\ b.user = u /\ "password" \in Place
    BY <2>1, <2>7, RequestJob DEF Doings, Place
  <2>2. /\ r \in Job /\ r.pc = "password" /\ r.op = "login" /\ r.tok = 0 /\ r.via = 0 /\ r.user = u
    BY <2>11, <2>12, <2>1, <2>7 DEF Job
  <2>3. Start(p, r) /\ UNCHANGED <<rows, jars, redis, trail, past>> /\ ~CheckLocked(u)
    BY <2>0, <2>1 DEF Login
  <2>4. InHand(r, Len(token), Len(challenge))
    BY <1>0, <2>2 DEF InHand, OfToken, BeforeIssue
  <2>5. Turn(p, r) /\ job[p].pc = "idle" /\ r.op \in here.ops
    BY <2>1, <2>2, <2>3, <2>4, Starts DEF Doings
  <2> QED
    BY <1>2, <2>2, <2>3, <2>5 DEF Entered, CheckLocked
<1>8. CASE \E c \in DOMAIN challenge : ConfirmStepUp(p, c, d)
  <2>0. PICK c \in DOMAIN challenge : ConfirmStepUp(p, c, d)
    BY <1>8
  <2>6. PICK w : w = challenge[c].user /\ w \in User
    BY <1>0 DEF StepUp
  <2>1. PICK b, r : b = Request("code", w, d) /\ r = [b EXCEPT !.pc = "oneShot", !.via = c]
    OBVIOUS
  <2>11. b \in Job /\ b.tok = 0 /\ b.via = 0
    BY <1>0, <2>1, <2>6, RequestJob DEF Doings
  <2>12. b.op = "code" /\ b.user = w /\ "oneShot" \in Place
    BY <1>0, <2>1, <2>6, RequestJob DEF Doings, Place
  <2>2. /\ r \in Job /\ r.pc = "oneShot" /\ r.op = "code" /\ r.tok = 0 /\ r.via = c
    <3>1. c \in Nat
      BY <1>0
    <3> QED
      BY <2>11, <2>12, <2>1, <3>1 DEF Job
  <2>3. Start(p, r) /\ UNCHANGED <<rows, jars, redis, trail, past>> /\ challenge[c].live
    BY <2>0, <2>1, <2>6 DEF ConfirmStepUp
  <2>4. InHand(r, Len(token), Len(challenge))
    BY <1>0, <2>2 DEF InHand, OfToken, BeforeIssue
  <2>5. Turn(p, r) /\ job[p].pc = "idle" /\ r.op \in here.ops
    BY <2>1, <2>2, <2>3, <2>4, <2>6, Starts DEF Doings
  <2> QED
    BY <1>2, <2>2, <2>3, <2>5 DEF Entered
<1>9. CASE Rotate(p, d)
  <2>0. PICK t : t = cookie[d] /\ t \in TokenId /\ t # 0
    BY <1>0, <1>9 DEF Rotate, TokenId
  <2>00. PICK w : w = token[t].user /\ w \in User
    BY <1>0, <2>0 DEF Token
  <2>1. PICK b, a, l : /\ b = Request("refresh", w, d) /\ a = [b EXCEPT !.tok = t]
                       /\ l = IF token[t].expired THEN "expired"
                                            ELSE IF token[t].used THEN "replay" ELSE "mark"
    OBVIOUS
  <2>6. PICK r : r = [a EXCEPT !.pc = l]
    OBVIOUS
  <2>2. /\ r \in Job /\ r.pc = l /\ l \in {"expired", "replay", "mark"} /\ r.op = "refresh" /\ r.tok = t
        /\ r.via = 0 /\ r.user = w
    <3>1. b \in Job /\ b.via = 0 /\ b.op = "refresh" /\ b.user = w
      BY <2>00, <2>1, RequestJob DEF Doings
    <3>2. t \in Nat /\ l \in {"expired", "replay", "mark"} /\ l \in Place
      BY <1>0, <2>0, <2>1 DEF TokenId, Place
    <3>3. a \in Job /\ a.tok = t /\ a.via = 0 /\ a.op = "refresh" /\ a.user = w
      BY <2>1, <3>1, <3>2 DEF Job
    <3> QED
      BY <2>6, <3>2, <3>3 DEF Job
  <2>3. UNCHANGED <<rows, redis, past>>
    BY <1>9 DEF Rotate
  <2>4. CASE token[t].revoked
    <3>1. cookie' = [cookie EXCEPT ![d] = 0] /\ UNCHANGED job
      BY <1>9, <2>0, <2>4 DEF Rotate
    <3>2. cookie' \in [Device -> 0..Len(token)]
      BY <1>0, <3>1
    <3> QED
      BY <2>3, <3>1, <3>2 DEF Types, StoreTypes, ThrottleTypes, TokenId
  <2>5. CASE ~token[t].revoked
    <3>1. Start(p, r) /\ UNCHANGED cookie
      BY <1>9, <2>0, <2>00, <2>1, <2>5, <2>6 DEF Rotate
    <3>2. InHand(r, Len(token), Len(challenge))
      BY <1>0, <2>0, <2>2 DEF InHand, OfToken, BeforeIssue, TokenId
    <3>3. Turn(p, r) /\ job[p].pc = "idle" /\ r.op \in here.ops
      BY <2>00, <2>1, <2>2, <2>3, <3>1, <3>2, Starts DEF Doings
    <3>4. l = "mark" => ~token[t].used
      BY <1>0, <2>0, <2>1 DEF Token
    <3> QED
      BY <1>2, <2>0, <2>00, <2>2, <2>3, <3>1, <3>3, <3>4 DEF Entered
  <2> QED
    BY <2>4, <2>5
<1>10. CASE Logout(p, d)
  <2>0. PICK t : t = cookie[d] /\ t \in TokenId /\ t # 0
    BY <1>0, <1>10 DEF Logout, TokenId
  <2>00. PICK w : w = token[t].user /\ w \in User
    BY <1>0, <2>0 DEF Token
  <2>1. PICK b, r : b = Request("logout", w, d) /\ r = [b EXCEPT !.pc = "revoke", !.tok = t]
    OBVIOUS
  <2>11. b \in Job /\ b.tok = 0 /\ b.via = 0
    BY <1>0, <2>0, <2>00, <2>1, RequestJob DEF Doings
  <2>12. b.op = "logout" /\ b.user = w /\ "revoke" \in Place
    BY <1>0, <2>0, <2>00, <2>1, RequestJob DEF Doings, Place
  <2>2. r \in Job /\ r.pc = "revoke" /\ r.op = "logout" /\ r.tok = t /\ r.via = 0
    <3>1. t \in Nat
      BY <1>0, <2>0 DEF TokenId
    <3> QED
      BY <2>11, <2>12, <2>1, <3>1 DEF Job
  <2>3. Start(p, r) /\ UNCHANGED <<rows, jars, redis, trail, past>>
    BY <1>10, <2>0, <2>00, <2>1 DEF Logout
  <2>4. InHand(r, Len(token), Len(challenge))
    BY <1>0, <2>0, <2>2 DEF InHand, OfToken, BeforeIssue, TokenId
  <2>5. Turn(p, r) /\ job[p].pc = "idle" /\ r.op \in here.ops
    BY <2>00, <2>1, <2>2, <2>3, <2>4, Starts DEF Doings
  <2> QED
    BY <1>2, <2>2, <2>3, <2>5 DEF Entered
<1>11. CASE LogoutAll(p, u, d)
  <2>1. PICK b, r : b = Request("logoutAll", u, d) /\ r = [b EXCEPT !.pc = "endAll"]
    OBVIOUS
  <2>2. r \in Job /\ r.pc = "endAll" /\ r.op = "logoutAll" /\ r.tok = 0 /\ r.via = 0
    BY <2>1, RequestJob DEF Job, Place, Doings
  <2>3. Start(p, r) /\ UNCHANGED <<rows, jars, redis, trail, past>>
    BY <1>11, <2>1 DEF LogoutAll
  <2>4. InHand(r, Len(token), Len(challenge))
    BY <1>0, <2>2 DEF InHand, OfToken, BeforeIssue
  <2>5. Turn(p, r) /\ job[p].pc = "idle" /\ r.op \in here.ops
    BY <2>1, <2>2, <2>3, <2>4, Starts DEF Doings
  <2> QED
    BY <1>2, <2>2, <2>3, <2>5 DEF Entered
<1>12. CASE ChangePassword(p, u, d) \/ SetInitialPassword(p, u, d)
  <2>0. PICK o \in {"change", "set"}, n \in Nat :
           /\ Start(p, [Request(o, u, d) EXCEPT !.pc = "newHash", !.pass = n])
           /\ UNCHANGED <<rows, jars, redis, trail, past>>
    <3>1. acct[u] \in Row /\ acct[u].pass \in Nat
      BY <1>0 DEF Row
    <3>2. CASE ChangePassword(p, u, d)
      <4>1. PICK n : n = acct[u].pass + 1
        OBVIOUS
      <4>2. n \in Nat
        BY <3>1, <4>1
      <4>3. /\ Start(p, [Request("change", u, d) EXCEPT !.pc = "newHash", !.pass = n])
            /\ UNCHANGED <<rows, jars, redis, trail, past>>
        BY <3>2, <4>1 DEF ChangePassword
      <4> QED
        BY <4>2, <4>3
    <3>3. CASE SetInitialPassword(p, u, d)
      BY <3>3 DEF SetInitialPassword
    <3> QED
      BY <1>12, <3>2, <3>3
  <2>1. PICK b, r : b = Request(o, u, d) /\ r = [b EXCEPT !.pc = "newHash", !.pass = n]
    OBVIOUS
  <2>11. b \in Job /\ b.tok = 0 /\ b.via = 0
    BY <2>1, RequestJob DEF Doings
  <2>12. b.op = o /\ b.user = u /\ "newHash" \in Place
    BY <2>1, RequestJob DEF Doings, Place
  <2>2. r \in Job /\ r.pc = "newHash" /\ r.op = o /\ r.tok = 0 /\ r.via = 0
    BY <2>11, <2>12, <2>1 DEF Job
  <2>3. Start(p, r)
    BY <2>0, <2>1
  <2>4. InHand(r, Len(token), Len(challenge))
    BY <1>0, <2>2 DEF InHand, OfToken, BeforeIssue
  <2>5. Turn(p, r) /\ job[p].pc = "idle" /\ r.op \in here.ops
    BY <2>0, <2>1, <2>2, <2>3, <2>4, Starts DEF Doings
  <2> QED
    BY <1>2, <2>0, <2>2, <2>5 DEF Entered
<1>13. CASE Switch2FA(p, u, d)
  <2>0. PICK row : row = IF acct[u].is2fa THEN NoRow ELSE [NoRow EXCEPT !.is2fa = TRUE, !.secret = TRUE]
    OBVIOUS
  <2>00. row \in Row
    BY <1>0, <2>0 DEF Row
  <2>1. PICK b, r : b = Request("2fa", u, d) /\ r = [b EXCEPT !.pc = "columns", !.row = row]
    OBVIOUS
  <2>11. b \in Job /\ b.tok = 0 /\ b.via = 0
    BY <2>00, <2>1, RequestJob DEF Doings
  <2>12. b.op = "2fa" /\ b.user = u /\ "columns" \in Place
    BY <2>00, <2>1, RequestJob DEF Doings, Place
  <2>2. r \in Job /\ r.pc = "columns" /\ r.op = "2fa" /\ r.tok = 0 /\ r.via = 0
    BY <2>11, <2>12, <2>00, <2>1 DEF Job
  <2>3. Start(p, r) /\ UNCHANGED <<rows, jars, redis, trail, past>>
    BY <1>13, <2>0, <2>1 DEF Switch2FA
  <2>4. InHand(r, Len(token), Len(challenge))
    BY <1>0, <2>2 DEF InHand, OfToken, BeforeIssue
  <2>5. Turn(p, r) /\ job[p].pc = "idle" /\ r.op \in here.ops
    BY <2>1, <2>2, <2>3, <2>4, Starts DEF Doings
  <2> QED
    BY <1>2, <2>2, <2>3, <2>5 DEF Entered
<1>14. CASE \E op \in {"profile", "lock", "unlock"} : ReadRow(p, op, u)
  <2>0. PICK op \in {"profile", "lock", "unlock"} : ReadRow(p, op, u)
    BY <1>14
  <2>6. PICK row, e : row = [acct[u] EXCEPT !.locked = IF op = "profile" THEN @ ELSE op = "lock"] /\ e = Idle.dev
    OBVIOUS
  <2>00. row \in Row /\ row.made /\ (op = "lock" => row.locked) /\ e \in Device
    <3>1. acct[u] \in Row /\ acct[u].made
      BY <1>0, <2>0 DEF ReadRow, Found
    <3>2. Idle \in Job
      BY IdleJob
    <3>3. (IF op = "profile" THEN acct[u].locked ELSE op = "lock") \in BOOLEAN
      BY <3>1 DEF Row
    <3> QED
      BY <2>6, <3>1, <3>2, <3>3 DEF Row, Job
  <2>1. PICK b, r : b = Request(op, u, e) /\ r = [b EXCEPT !.pc = "save", !.row = row]
    OBVIOUS
  <2>11. b \in Job /\ b.tok = 0 /\ b.via = 0
    BY <2>00, <2>1, RequestJob DEF Doings
  <2>12. b.op = op /\ b.user = u /\ "save" \in Place
    BY <2>00, <2>1, RequestJob DEF Doings, Place
  <2>2. r \in Job /\ r.pc = "save" /\ r.op = op /\ r.tok = 0 /\ r.via = 0 /\ r.row = row
    BY <2>11, <2>12, <2>00, <2>1 DEF Job
  <2>3. Start(p, r) /\ UNCHANGED <<rows, jars, redis, trail, past>>
    BY <2>0, <2>1, <2>6 DEF ReadRow
  <2>4. InHand(r, Len(token), Len(challenge))
    BY <1>0, <2>2 DEF InHand, OfToken, BeforeIssue
  <2>5. Turn(p, r) /\ job[p].pc = "idle" /\ r.op \in here.ops
    BY <2>00, <2>1, <2>2, <2>3, <2>4, Starts DEF Doings
  <2> QED
    BY <1>2, <2>00, <2>2, <2>3, <2>5 DEF Entered
<1> QED
  BY <1>1, <1>4, <1>5, <1>6, <1>7, <1>8, <1>9, <1>10, <1>11, <1>12, <1>13, <1>14
  DEF SignIn, Session, Account

(* How a request goes on.                                                  *)
Follows(p, r) ==
    /\ r.pc \in {"idle", "fail", "lock", "issue", "clear", "reply", "migrate", "gate", "challenge",
                 "ttl", "successor", "owner", "endAll"}
    /\ r.pc # "idle" => r.user = job[p].user
    /\ r.pc = "successor" => MarkUsed(p) /\ r.tok = job[p].tok
    /\ r.pc = "fail" => CheckPassword(p)
    /\ r.pc = "lock" => RecordFailure(p) \/ SetLock(p)
    /\ r.pc = "issue" => r.via = 0 \/ (DeleteChallenge(p) /\ r.via = job[p].via)
    /\ r.pc = "owner" => CreateSuccessor(p)
Stored ==
    /\ StoreTypes' /\ RowsStay /\ Len(token') \in Nat
    /\ Len(challenge') \in Nat /\ Len(challenge') >= Len(challenge)
Turns(p) ==
    /\ Stored /\ ThrottleTypes' /\ UNCHANGED <<here, restarts>>
    /\ \E r : Turn(p, r) /\ Follows(p, r)

LEMMA Settled ==
  ASSUME Types, acct' \in [User -> Row], token' \in Seq(Token), RowsStay, Len(token') = Len(token),
         challenge' \in Seq(StepUp), Len(challenge') >= Len(challenge),
         cookie' = cookie \/ \E d : \E x \in 0..Len(token) : cookie' = [cookie EXCEPT ![d] = x]
  PROVE  Stored
<1>1. cookie \in [Device -> 0..Len(token)]
  BY DEF Types, StoreTypes
<1>2. cookie' \in [Device -> 0..Len(token)]
  BY <1>1
<1> QED
  BY <1>2, StoresKept, LenProperties DEF Stored

LEMMA Unchanged ==
  ASSUME Types PROVE /\ UNCHANGED token => token' \in Seq(Token) /\ RowsStay /\ Len(token') = Len(token)
                     /\ UNCHANGED challenge => /\ challenge' \in Seq(StepUp)
                                               /\ Len(challenge') = Len(challenge)
                     /\ UNCHANGED acct => acct' \in [User -> Row]
BY Sizes DEF Types, StoreTypes, RowsStay, Same, TokenId

LEMMA Handed ==
  ASSUME Types, NEW p \in Proc
  PROVE  /\ job[p] \in Job /\ InHand(job[p], Len(token), Len(challenge))
         /\ job[p].tok \in 0..Len(token) /\ job[p].via \in 0..Len(challenge)
<1>1. job[p] \in Job /\ InHand(job[p], Len(token), Len(challenge))
  BY DEF Types, JobTypes
<1> QED
  BY <1>1, Sizes DEF Job, InHand

LEMMA Finishes ==
  ASSUME Types, NEW p \in Proc, Done(p), Stored, ThrottleTypes', UNCHANGED <<here, restarts>>
  PROVE  Turns(p)
<1>1. Turn(p, Idle)
  BY Ends DEF Stored
<1>2. Follows(p, Idle)
  BY IdleJob DEF Follows
<1> QED
  BY <1>1, <1>2 DEF Turns

LEMMA GoesOn ==
  ASSUME Types, NEW p \in Proc, NEW label, Goto(p, label),
         label \in {"fail", "lock", "issue", "clear", "reply", "migrate", "gate", "challenge", "endAll"},
         label \in {"gate", "migrate", "challenge"} => job[p].via = 0,
         label = "fail" => CheckPassword(p), label = "lock" => RecordFailure(p),
         label = "issue" => job[p].via = 0 \/ DeleteChallenge(p),
         Stored, ThrottleTypes', UNCHANGED <<here, restarts>>
  PROVE  Turns(p)
<1>1. PICK r : r = [job[p] EXCEPT !.pc = label]
  OBVIOUS
<1>2. job' = [job EXCEPT ![p] = r]
  <2>1. job \in [Proc -> Job]
    BY DEF Types, JobTypes
  <2> QED
    BY <1>1, <2>1 DEF Goto
<1>3. label \in Place
  BY DEF Place
<1>4. /\ Turn(p, r) /\ r.pc = label /\ r.user = job[p].user /\ r.via = job[p].via
  <2>1. job[p] \in Job /\ InHand(job[p], Len(token), Len(challenge))
    BY Handed
  <2>2. /\ r.pc = label /\ r.user = job[p].user /\ r.via = job[p].via /\ r.tok = job[p].tok /\ r \in Job
    BY <1>1, <1>3, <2>1 DEF Job
  <2>3. r.tok \in Nat /\ r.via \in Nat
    BY <2>2 DEF Job
  <2>4. InHand(r, Len(token'), Len(challenge'))
    BY <2>1, <2>2, <2>3, Sizes DEF InHand, Stored, RowsStay, OfToken, BeforeIssue
  <2> QED
    BY <1>2, <2>2, <2>4 DEF Turn
<1>5. Follows(p, r)
  BY <1>4 DEF Follows
<1> QED
  BY <1>4, <1>5 DEF Turns

LEMMA TokenTurns ==
  ASSUME Types, NEW p \in Proc,
         \/ Refuse(p) \/ MarkUsed(p) \/ CreateSuccessor(p) \/ CheckOwner(p) \/ EndSessions(p)
         \/ Revoke(p) \/ IssueRoot(p)
  PROVE  Turns(p)
<1> USE DEF rows, redis, past, jars, trail, At
<1> DEFINE j == job[p]
<1>1. /\ Len(token) \in Nat /\ Len(challenge) \in Nat
      /\ \A t \in TokenId : token[t] \in Token
      /\ token \in Seq(Token) /\ acct \in [User -> Row] /\ job \in [Proc -> Job] /\ cookie \in [Device -> 0..Len(token)]
      /\ j \in Job /\ InHand(j, Len(token), Len(challenge)) /\ j.tok \in 0..Len(token)
      /\ j.via \in 0..Len(challenge) /\ j.user \in User
  BY Sizes, Handed DEF Types, StoreTypes, JobTypes, Job
<1>2. j.pc \in OfToken => j.tok \in TokenId
  BY <1>1 DEF InHand, TokenId
<1>3. ASSUME UNCHANGED <<fails, lockout, past>> PROVE ThrottleTypes' /\ UNCHANGED <<here, restarts>>
  BY <1>3 DEF Types, ThrottleTypes
<1>4. ASSUME UNCHANGED <<acct, challenge>>, token' \in Seq(Token), RowsStay, Len(token') = Len(token),
             ClearAuthCookies(p) \/ SetAuthCookies(p) \/ UNCHANGED cookie
      PROVE  Stored
  <2>1. cookie' = cookie \/ \E d : \E x \in 0..Len(token) : cookie' = [cookie EXCEPT ![d] = x]
    <3>1. \/ UNCHANGED cookie \/ cookie' = [cookie EXCEPT ![j.dev] = 0]
          \/ cookie' = [cookie EXCEPT ![j.dev] = j.tok]
      BY <1>4 DEF ClearAuthCookies, SetAuthCookies
    <3>2. 0 \in 0..Len(token) /\ j.tok \in 0..Len(token)
      BY <1>1
    <3>3. PICK d, x : d = j.dev /\ x = j.tok
      OBVIOUS
    <3>4. UNCHANGED cookie \/ cookie' = [cookie EXCEPT ![d] = 0] \/ cookie' = [cookie EXCEPT ![d] = x]
      BY <3>1, <3>3
    <3>5. x \in 0..Len(token)
      BY <3>2, <3>3
    <3> QED
      BY ONLY <3>2, <3>4, <3>5
  <2> QED
    <3>1. /\ acct' \in [User -> Row] /\ challenge' \in Seq(StepUp)
          /\ Len(challenge') >= Len(challenge)
      BY <1>1, <1>4, Unchanged
    <3> QED
      BY <1>4, <2>1, <3>1, Settled
<1>5. CASE Refuse(p)
  <2>1. PICK S : token' = Revoked(S)
    BY <1>5 DEF Refuse, RevokeFamily
  <2>2. token' \in Seq(Token) /\ Len(token') = Len(token) /\ RowsStay
    BY <1>1, <2>1, RevokedRows
  <2>3. Done(p) /\ ClearAuthCookies(p) /\ UNCHANGED <<acct, temp, redis, trail, past>>
    BY <1>5 DEF Refuse, ClearAuthCookies
  <2> QED
    BY <1>3, <1>4, <2>2, <2>3, Finishes
<1>6. CASE Revoke(p) \/ EndSessions(p)
  <2>1. PICK S : token' = Revoked(S)
    BY <1>6 DEF Revoke, EndSessions, RevokeByUser
  <2>2. token' \in Seq(Token) /\ Len(token') = Len(token) /\ RowsStay
    BY <1>1, <2>1, RevokedRows
  <2>3. Done(p) /\ ClearAuthCookies(p) /\ UNCHANGED <<acct, temp, redis, trail, past>>
    BY <1>6 DEF Revoke, EndSessions, ClearAuthCookies
  <2> QED
    BY <1>3, <1>4, <2>2, <2>3, Finishes
<1>7. CASE MarkUsed(p)
  <2>1. PICK t, row : t = j.tok /\ t \in TokenId /\ row = [token[t] EXCEPT !.used = TRUE]
    BY <1>2, <1>7 DEF MarkUsed, OfToken
  <2>2. token' = [token EXCEPT ![t] = row] /\ row \in Token
    BY <1>1, <1>7, <2>1 DEF MarkUsed, Token
  <2>3. token' \in Seq(Token) /\ Len(token') = Len(token) /\ RowsStay
    BY <1>1, <2>1, <2>2, FlagRow
  <2>4. PICK r : r = [j EXCEPT !.pc = "successor"]
    OBVIOUS
  <2>5. job' = [job EXCEPT ![p] = r] /\ UNCHANGED <<acct, jars, redis, trail, past>> /\ j.pc = "mark"
    BY <1>1, <1>7, <2>4 DEF MarkUsed, Goto
  <2>6. r \in Job /\ r.pc = "successor" /\ r.tok = t /\ r.via = j.via /\ r.user = j.user
    BY <1>1, <2>1, <2>4 DEF Job, Place
  <2>7. Stored
    BY <1>4, <2>3, <2>5
  <2>8. InHand(r, Len(token'), Len(challenge'))
    BY <1>1, <2>1, <2>3, <2>5, <2>6 DEF InHand, OfToken, BeforeIssue
  <2>9. Follows(p, r)
    BY <1>7, <2>1, <2>6 DEF Follows
  <2> QED
    BY <1>3, <2>5, <2>6, <2>7, <2>8, <2>9 DEF Turn, Turns
<1>8. CASE CheckOwner(p)
  <2>1. UNCHANGED <<rows, temp, redis, trail, past>> /\ ((Goto(p, "endAll") /\ UNCHANGED cookie) \/ SetAuthCookies(p))
    BY <1>8 DEF CheckOwner
  <2>2. token' \in Seq(Token) /\ Len(token') = Len(token) /\ RowsStay
    BY <2>1, Unchanged
  <2>3. Stored
    BY <1>4, <2>1, <2>2
  <2>4. CASE Goto(p, "endAll")
    BY <1>3, <2>1, <2>3, <2>4, GoesOn
  <2>5. CASE SetAuthCookies(p)
    BY <1>3, <2>1, <2>3, <2>5, Finishes DEF SetAuthCookies
  <2> QED
    BY <2>1, <2>4, <2>5
<1>9. ASSUME NEW row \in Token, token' = Append(token, row), UNCHANGED <<acct, jars, redis, trail, past>>,
             row.parent \in 0..Len(token), row.via <= Len(challenge)
      PROVE  Stored /\ Len(token') = Len(token) + 1
  <2>1. /\ token' \in Seq(Token) /\ Len(token') = Len(token) + 1 /\ RowsStay
        /\ token'[Len(token) + 1] = row /\ \A t \in TokenId : token'[t] = token[t]
    BY <1>1, <1>9, AddRow
  <2>2. \A t \in TokenId : token[t].parent < t /\ token[t].via <= Len(challenge)
    BY DEF Types, StoreTypes
  <2>3. TokenId' = TokenId \cup {Len(token) + 1} /\ Len(token) + 1 \in Nat
    BY <1>1, <2>1 DEF TokenId
  <2>4. \A t \in TokenId' : token'[t].parent < t /\ token'[t].via <= Len(challenge)
    <3>1. ASSUME NEW t \in TokenId PROVE token'[t].parent < t /\ token'[t].via <= Len(challenge)
      BY <2>1, <2>2, <3>1
    <3>2. PICK n : n = Len(token) + 1
      OBVIOUS
    <3>3. token'[n] = row /\ row.parent < n
      BY <1>1, <1>9, <2>1, <3>2
    <3> QED
      BY <1>9, <2>3, <3>1, <3>2, <3>3
  <2>5. cookie' \in [Device -> 0..Len(token')]
    <3>1. 0..Len(token) \subseteq 0..Len(token')
      BY <1>1, <2>1
    <3> QED
      BY <1>1, <1>9, <3>1
  <2>6. challenge' \in Seq(StepUp) /\ Len(challenge') = Len(challenge)
    BY <1>9 DEF Types, StoreTypes
  <2>7. StoreTypes'
    BY <1>1, <1>9, <2>1, <2>4, <2>5, <2>6 DEF StoreTypes
  <2> QED
    BY <1>1, <2>1, <2>6, <2>7 DEF Stored
<1>10. CASE CreateSuccessor(p)
  <2>1. PICK t : t = j.tok /\ t \in TokenId /\ j.pc = "successor"
    BY <1>2, <1>10 DEF CreateSuccessor, OfToken
  <2>2. PICK row : row = [user |-> token[t].user, family |-> token[t].family, parent |-> t, via |-> 0,
                          used |-> FALSE, revoked |-> FALSE, expired |-> FALSE,
                          lockedAt |-> acct[token[t].user].locked, pass |-> token[t].pass]
    OBVIOUS
  <2>3. row \in Token /\ row.parent = t /\ row.via = 0
    BY <1>1, <2>1, <2>2 DEF Token, Row, TokenId
  <2>4. t # 0 /\ t \in 0..Len(token)
    BY <1>1, <2>1 DEF TokenId
  <2>5. token' = Append(token, row) /\ UNCHANGED <<acct, jars, redis, trail, past>>
    BY <1>10, <2>1, <2>2, <2>4 DEF CreateSuccessor, NewToken
  <2>6. Stored /\ Len(token') = Len(token) + 1
    BY <1>1, <1>9, <2>3, <2>4, <2>5
  <2>7. PICK n, r : n = Len(token) + 1 /\ r = [j EXCEPT !.tok = n, !.pc = "owner"]
    OBVIOUS
  <2>8. job' = [job EXCEPT ![p] = r]
    BY <1>1, <1>10, <2>7 DEF CreateSuccessor
  <2>9. n \in Nat
    BY <1>1, <2>7
  <2>10. r \in Job /\ r.pc = "owner" /\ r.tok = n /\ r.via = j.via /\ r.user = j.user
    BY <1>1, <2>7, <2>9 DEF Job, Place
  <2>11. InHand(r, Len(token'), Len(challenge'))
    BY <1>1, <2>5, <2>6, <2>7, <2>10 DEF InHand, OfToken, BeforeIssue
  <2>12. Follows(p, r)
    BY <1>10, <2>10 DEF Follows
  <2> QED
    BY <1>3, <2>5, <2>6, <2>8, <2>10, <2>11, <2>12 DEF Turn, Turns
<1>11. CASE IssueRoot(p)
  <2>1. PICK u, v : u = j.user /\ v = j.via
    OBVIOUS
  <2>2. PICK row : row = [user |-> u, family |-> Len(token) + 1, parent |-> 0, via |-> v,
                          used |-> FALSE, revoked |-> FALSE, expired |-> FALSE,
                          lockedAt |-> acct[u].locked, pass |-> acct[u].pass]
    OBVIOUS
  <2>3. row \in Token /\ row.parent = 0 /\ row.via = v /\ v <= Len(challenge)
    <3>1. acct[u] \in Row /\ u \in User /\ v \in Nat /\ Len(token) + 1 \in Nat /\ v <= Len(challenge)
      BY <1>1, <2>1
    <3> QED
      BY <2>2, <3>1 DEF Token, Row
  <2>5. token' = Append(token, row) /\ UNCHANGED <<acct, jars, redis, trail, past>>
    BY <1>11, <2>1, <2>2 DEF IssueRoot, NewToken
  <2>6. Stored /\ Len(token') = Len(token) + 1
    BY <1>1, <1>9, <2>3, <2>5
  <2>7. PICK n, l, r : /\ n = Len(token) + 1 /\ l = IF j.op = "login" THEN "clear" ELSE "reply"
                       /\ r = [j EXCEPT !.tok = n, !.pc = l]
    OBVIOUS
  <2>8. job' = [job EXCEPT ![p] = r]
    BY <1>1, <1>11, <2>7 DEF IssueRoot
  <2>9. n \in Nat /\ l \in {"clear", "reply"} /\ l \in Place
    BY <1>1, <2>7 DEF Place
  <2>10. r \in Job /\ r.pc = l /\ r.tok = n /\ r.via = j.via /\ r.user = j.user
    BY <1>1, <2>7, <2>9 DEF Job
  <2>11. InHand(r, Len(token'), Len(challenge'))
    BY <1>1, <2>5, <2>6, <2>7, <2>9, <2>10 DEF InHand, OfToken, BeforeIssue
  <2>12. Follows(p, r)
    BY <2>9, <2>10 DEF Follows
  <2> QED
    BY <1>3, <2>5, <2>6, <2>8, <2>10, <2>11, <2>12 DEF Turn, Turns
<1> QED
  BY <1>5, <1>6, <1>7, <1>8, <1>10, <1>11

LEMMA SignTurns ==
  ASSUME Types, NEW p \in Proc,
         \/ CreateUser(p) \/ SignedIn(p) \/ CheckPassword(p) \/ RecordFailure(p) \/ SetLock(p)
         \/ RecordSuccess(p) \/ MigrateHash(p) \/ Gate(p) \/ Challenge(p) \/ DeleteChallenge(p)
         \/ NewHash(p) \/ UpdateColumns(p) \/ SaveRow(p) \/ WriteFails(p)
  PROVE  Turns(p)
<1> USE DEF rows, redis, past, jars, trail, At
<1> DEFINE j == job[p]
<1>1. /\ Len(token) \in Nat /\ Len(challenge) \in Nat
      /\ acct \in [User -> Row] /\ job \in [Proc -> Job] /\ cookie \in [Device -> 0..Len(token)]
      /\ challenge \in Seq(StepUp) /\ \A c \in 1..Len(challenge) : challenge[c] \in StepUp
      /\ j \in Job /\ InHand(j, Len(token), Len(challenge)) /\ j.tok \in 0..Len(token)
      /\ j.via \in 0..Len(challenge) /\ j.user \in User /\ j.row \in Row /\ j.pass \in Nat
      /\ j.due \subseteq Key /\ j.tok \in Nat
  BY Sizes, Handed DEF Types, StoreTypes, JobTypes, Job
<1>2. /\ fails \in [Key -> Nat] /\ lockout \in [Key -> BOOLEAN] /\ wrong \in [Key -> Nat]
      /\ here \in Situation /\ restarts \in Nat /\ NoRow \in Row
  BY IdleJob DEF Types, ThrottleTypes
<1>3. ASSUME UNCHANGED <<fails, lockout, past>> PROVE ThrottleTypes' /\ UNCHANGED <<here, restarts>>
  BY <1>3 DEF Types, ThrottleTypes
<1>4. ASSUME UNCHANGED <<token, challenge>>, acct' \in [User -> Row], ClearAuthCookies(p) \/ SetAuthCookies(p) \/ UNCHANGED cookie
      PROVE  Stored
  <2>1. cookie' = cookie \/ \E d : \E x \in 0..Len(token) : cookie' = [cookie EXCEPT ![d] = x]
    <3>1. \/ UNCHANGED cookie \/ cookie' = [cookie EXCEPT ![j.dev] = 0]
          \/ cookie' = [cookie EXCEPT ![j.dev] = j.tok]
      BY <1>4 DEF ClearAuthCookies, SetAuthCookies
    <3>2. 0 \in 0..Len(token) /\ j.tok \in 0..Len(token)
      BY <1>1
    <3>3. PICK d, x : d = j.dev /\ x = j.tok
      OBVIOUS
    <3>4. UNCHANGED cookie \/ cookie' = [cookie EXCEPT ![d] = 0] \/ cookie' = [cookie EXCEPT ![d] = x]
      BY <3>1, <3>3
    <3>5. x \in 0..Len(token)
      BY <3>2, <3>3
    <3> QED
      BY ONLY <3>2, <3>4, <3>5
  <2>2. /\ token' \in Seq(Token) /\ Len(token') = Len(token) /\ RowsStay
        /\ challenge' \in Seq(StepUp) /\ Len(challenge') >= Len(challenge)
    BY <1>1, <1>4, Unchanged
  <2> QED
    BY <1>4, <2>1, <2>2, Settled
<1>5. ASSUME UNCHANGED <<token, acct, cookie>>, challenge' \in Seq(StepUp), Len(challenge') >= Len(challenge)
      PROVE  Stored
  <2>1. token' \in Seq(Token) /\ Len(token') = Len(token) /\ RowsStay /\ acct' \in [User -> Row]
    BY <1>5, Unchanged
  <2> QED
    BY <1>5, <2>1, Settled
<1>6. CASE CreateUser(p)
  <2>1. /\ UNCHANGED <<token, jars, redis, past>>
        /\ \/ Done(p) /\ UNCHANGED acct
           \/ /\ acct' = [acct EXCEPT ![j.user] =
                    [NoRow EXCEPT !.made = TRUE, !.pass = IF j.op = "google" THEN 0 ELSE 1]]
              /\ Goto(p, "issue")
    BY <1>6 DEF CreateUser
  <2>2. [NoRow EXCEPT !.made = TRUE, !.pass = IF j.op = "google" THEN 0 ELSE 1] \in Row
    BY <1>2 DEF Row
  <2>3. acct' \in [User -> Row]
    BY <1>1, <2>1, <2>2
  <2>4. Stored /\ ThrottleTypes' /\ UNCHANGED <<here, restarts>>
    BY <1>3, <1>4, <2>1, <2>3
  <2>5. j.via = 0
    BY <1>1, <1>6 DEF CreateUser, InHand, BeforeIssue
  <2>6. CASE Goto(p, "issue")
    BY <2>4, <2>5, <2>6, GoesOn
  <2> QED
    BY <2>1, <2>4, <2>6, Finishes
<1>7. CASE SignedIn(p)
  <2>1. UNCHANGED <<rows, temp, redis, known, past>> /\ SetAuthCookies(p) /\ Done(p)
    BY <1>7 DEF SignedIn, SetAuthCookies
  <2>2. Stored /\ ThrottleTypes' /\ UNCHANGED <<here, restarts>>
    BY <1>1, <1>3, <1>4, <2>1
  <2> QED
    BY <2>1, <2>2, Finishes
<1>8. CASE CheckPassword(p)
  <2>1. UNCHANGED <<rows, jars, redis, trail, here, restarts>> /\ j.pc = "password"
    BY <1>8 DEF CheckPassword
  <2>2. wrong' \in [Key -> Nat]
    <3>1. UNCHANGED wrong \/ wrong' = [k \in Key |-> IF k \in {j.user, Ip} THEN wrong[k] + 1 ELSE wrong[k]]
      BY <1>8 DEF CheckPassword
    <3> QED
      BY <1>2, <3>1
  <2>3. Stored /\ ThrottleTypes' /\ UNCHANGED <<here, restarts>>
    BY <1>1, <1>2, <1>4, <2>1, <2>2 DEF ThrottleTypes
  <2>4. j.via = 0
    BY <1>1, <2>1 DEF InHand, BeforeIssue
  <2>5. CASE Goto(p, "fail")
    BY <1>8, <2>3, <2>5, GoesOn
  <2>6. CASE Done(p)
    BY <2>3, <2>6, Finishes
  <2>7. ASSUME NEW row, row = acct[j.user],
               job' = [job EXCEPT ![p].row = row, ![p].pc = IF row.legacy THEN "migrate" ELSE "gate"]
        PROVE  Turns(p)
    <3>1. row \in Row
      BY <1>1, <2>7
    <3>2. PICK l, r : l = (IF row.legacy THEN "migrate" ELSE "gate") /\ r = [j EXCEPT !.row = row, !.pc = l]
      OBVIOUS
    <3>3. job' = [job EXCEPT ![p] = r]
      BY <1>1, <2>7, <3>2
    <3>4. l \in {"migrate", "gate"} /\ l \in Place
      BY <3>2 DEF Place
    <3>5. r \in Job /\ r.pc = l /\ r.tok = j.tok /\ r.via = j.via /\ r.user = j.user
      BY <1>1, <3>1, <3>2, <3>4 DEF Job
    <3>6. InHand(r, Len(token'), Len(challenge'))
      BY <1>1, <2>1, <2>4, <3>4, <3>5 DEF InHand, OfToken, BeforeIssue
    <3>7. Follows(p, r)
      BY <3>4, <3>5 DEF Follows
    <3> QED
      BY <2>3, <3>3, <3>5, <3>6, <3>7 DEF Turn, Turns
  <2>8. PICK row : row = acct[j.user]
    OBVIOUS
  <2>9. \/ Goto(p, "fail") \/ Done(p)
        \/ job' = [job EXCEPT ![p].row = row, ![p].pc = IF row.legacy THEN "migrate" ELSE "gate"]
    BY <1>8, <2>8 DEF CheckPassword
  <2> QED
    BY <2>5, <2>6, <2>7, <2>8, <2>9
<1>9. CASE RecordFailure(p)
  <2>1. PICK n : n = [k \in Key |-> IF k \in {j.user, Ip} THEN fails[k] + 1 ELSE fails[k]]
    OBVIOUS
  <2>2. /\ fails' = n /\ UNCHANGED <<rows, jars, lockout, challenge, trail, past>>
        /\ job' = [job EXCEPT ![p].due = {k \in {j.user, Ip} : n[k] >= Tries[k]}, ![p].pc = "lock"]
    BY <1>9, <2>1 DEF RecordFailure
  <2>3. n \in [Key -> Nat]
    BY <1>2, <2>1
  <2>4. ThrottleTypes' /\ Stored /\ UNCHANGED <<here, restarts>>
    BY <1>1, <1>2, <1>4, <2>2, <2>3 DEF ThrottleTypes
  <2>5. PICK ks, r : ks = {k \in {j.user, Ip} : n[k] >= Tries[k]} /\ r = [j EXCEPT !.due = ks, !.pc = "lock"]
    OBVIOUS
  <2>6. ks \subseteq Key
    BY <1>1, <2>5 DEF Key
  <2>7. job' = [job EXCEPT ![p] = r]
    BY <1>1, <2>2, <2>5
  <2>8. r \in Job /\ r.pc = "lock" /\ r.tok = j.tok /\ r.via = j.via /\ r.user = j.user
    BY <1>1, <2>5, <2>6 DEF Job, Place
  <2>9. InHand(r, Len(token'), Len(challenge'))
    BY <1>1, <2>2, <2>8 DEF InHand, OfToken, BeforeIssue
  <2>10. Follows(p, r)
    BY <1>9, <2>8 DEF Follows
  <2> QED
    BY <2>4, <2>7, <2>8, <2>9, <2>10 DEF Turn, Turns
<1>10. CASE SetLock(p)
  <2>1. PICK due, next : due = j.due /\ next = IF j.user \in due THEN j.user ELSE Ip
    OBVIOUS
  <2>2. /\ UNCHANGED <<rows, jars, fails, challenge, trail, past>> /\ j.pc = "lock"
        /\ \/ Done(p) /\ UNCHANGED lockout
           \/ /\ lockout' = [lockout EXCEPT ![next] = TRUE]
              /\ job' = [job EXCEPT ![p].due = @ \ {next}]
    BY <1>10, <2>1 DEF SetLock
  <2>3. ThrottleTypes' /\ Stored /\ UNCHANGED <<here, restarts>>
    BY <1>1, <1>2, <1>4, <2>2 DEF ThrottleTypes
  <2>4. CASE job' = [job EXCEPT ![p].due = @ \ {next}]
    <3>1. PICK ks, r : ks = due \ {next} /\ r = [j EXCEPT !.due = ks]
      OBVIOUS
    <3>2. job' = [job EXCEPT ![p] = r]
      BY <1>1, <2>1, <2>4, <3>1
    <3>3. r \in Job /\ r.pc = "lock" /\ r.tok = j.tok /\ r.via = j.via /\ r.user = j.user
      BY <1>1, <2>1, <2>2, <3>1 DEF Job
    <3>4. InHand(r, Len(token'), Len(challenge'))
      BY <1>1, <2>2, <3>3 DEF InHand, OfToken, BeforeIssue
    <3>5. Follows(p, r)
      BY <1>10, <3>3 DEF Follows
    <3> QED
      BY <2>3, <3>2, <3>3, <3>4, <3>5 DEF Turn, Turns
  <2> QED
    BY <2>2, <2>3, <2>4, Finishes
<1>11. CASE RecordSuccess(p)
  <2>1. /\ UNCHANGED <<rows, jars, challenge, trail, here, restarts>> /\ ClearKey(j.user) /\ Goto(p, "reply")
    BY <1>11 DEF RecordSuccess
  <2>2. ThrottleTypes' /\ Stored /\ UNCHANGED <<here, restarts>>
    BY <1>1, <1>2, <1>4, <2>1 DEF ThrottleTypes, ClearKey
  <2> QED
    BY <2>1, <2>2, GoesOn
<1>12. CASE MigrateHash(p)
  <2>1. /\ UNCHANGED <<token, jars, redis, trail, past>> /\ Goto(p, "gate") /\ j.via = 0
        /\ acct' = [acct EXCEPT ![j.user] = [@ EXCEPT !.pass = j.pass, !.legacy = FALSE]]
    BY <1>1, <1>12 DEF MigrateHash, InHand, BeforeIssue
  <2>2. [acct[j.user] EXCEPT !.pass = j.pass, !.legacy = FALSE] \in Row
    BY <1>1 DEF Row
  <2>3. acct' \in [User -> Row]
    BY <1>1, <2>1, <2>2
  <2>4. Stored /\ ThrottleTypes' /\ UNCHANGED <<here, restarts>>
    BY <1>3, <1>4, <2>1, <2>3
  <2> QED
    BY <2>1, <2>4, GoesOn
<1>13. CASE Gate(p)
  <2>1. /\ UNCHANGED <<rows, cookie, redis, trail, past>> /\ j.via = 0
        /\ Done(p) \/ Goto(p, "challenge") \/ Goto(p, "issue")
    BY <1>1, <1>13 DEF Gate, InHand, BeforeIssue
  <2>2. Stored /\ ThrottleTypes' /\ UNCHANGED <<here, restarts>>
    BY <1>1, <1>3, <1>4, <2>1
  <2>3. CASE Done(p)
    BY <2>2, <2>3, Finishes
  <2>4. CASE Goto(p, "challenge")
    BY <2>1, <2>2, <2>4, GoesOn
  <2>5. CASE Goto(p, "issue")
    BY <2>1, <2>2, <2>5, GoesOn
  <2> QED
    BY <2>1, <2>3, <2>4, <2>5
<1>14. CASE Challenge(p)
  <2>1. UNCHANGED <<rows, jars, fails, lockout, trail, past>>
    BY <1>14 DEF Challenge
  <2>2. CASE j.pc = "challenge"
    <3>1. PICK row, n, r : /\ row = [user |-> j.user, live |-> TRUE, ttl |-> FALSE]
                           /\ n = Len(challenge) + 1 /\ r = [j EXCEPT !.pc = "ttl", !.via = n]
      OBVIOUS
    <3>2. /\ challenge' = Append(challenge, row) /\ row \in StepUp /\ n \in Nat
          /\ job' = [job EXCEPT ![p] = r]
      <4>1. challenge' = Append(challenge, row)
        BY <1>14, <2>2, <3>1 DEF Challenge
      <4>2. row \in StepUp /\ n \in Nat
        BY <1>1, <3>1 DEF StepUp
      <4>3. job' = [job EXCEPT ![p].pc = "ttl", ![p].via = n]
        BY <1>14, <2>2, <3>1 DEF Challenge
      <4>4. job' = [job EXCEPT ![p] = r]
        BY <1>1, <3>1, <4>3
      <4> QED
        BY <4>1, <4>2, <4>4
    <3>3. challenge' \in Seq(StepUp) /\ Len(challenge') = n
      BY <1>1, <3>1, <3>2, AppendProperties
    <3>4. r \in Job /\ r.pc = "ttl" /\ r.tok = j.tok /\ r.via = n /\ r.user = j.user
      BY <1>1, <3>1, <3>2 DEF Job, Place
    <3>5. Stored
      BY <1>1, <1>5, <2>1, <3>1, <3>3
    <3>6. InHand(r, Len(token'), Len(challenge'))
      BY <1>1, <2>1, <3>1, <3>3, <3>4 DEF InHand, OfToken, BeforeIssue
    <3>7. Follows(p, r)
      BY <3>4 DEF Follows
    <3> QED
      BY <1>3, <2>1, <3>2, <3>4, <3>5, <3>6, <3>7 DEF Turn, Turns
  <2>3. CASE j.pc # "challenge"
    <3>1. PICK c, row : c = j.via /\ row = [challenge[c] EXCEPT !.ttl = TRUE]
      OBVIOUS
    <3>2. c \in 1..Len(challenge)
      BY <1>1, <1>14, <2>3, <3>1 DEF Challenge, InHand
    <3>3. challenge' = [challenge EXCEPT ![c] = row] /\ row \in StepUp /\ Done(p)
      BY <1>1, <1>14, <2>3, <3>1, <3>2 DEF Challenge, StepUp
    <3>4. challenge' \in Seq(StepUp) /\ Len(challenge') = Len(challenge)
      BY <1>1, <3>2, <3>3, ExceptSeq
    <3>5. Stored
      BY <1>1, <1>5, <2>1, <3>4
    <3> QED
      BY <1>3, <2>1, <3>3, <3>5, Finishes
  <2> QED
    BY <2>2, <2>3
<1>15. CASE DeleteChallenge(p)
  <2>1. PICK c, row : c = j.via /\ row = [challenge[c] EXCEPT !.live = FALSE]
    OBVIOUS
  <2>2. c \in 1..Len(challenge)
    BY <1>1, <1>15, <2>1 DEF DeleteChallenge, InHand
  <2>3. /\ challenge' = [challenge EXCEPT ![c] = row] /\ row \in StepUp /\ Goto(p, "issue")
        /\ UNCHANGED <<rows, jars, fails, lockout, trail, past>>
    BY <1>1, <1>15, <2>1, <2>2 DEF DeleteChallenge, StepUp
  <2>4. challenge' \in Seq(StepUp) /\ Len(challenge') = Len(challenge)
    BY <1>1, <2>2, <2>3, ExceptSeq
  <2>5. Stored
    BY <1>1, <1>5, <2>3, <2>4
  <2> QED
    BY <1>3, <1>15, <2>3, <2>5, GoesOn
<1>16. CASE NewHash(p) \/ UpdateColumns(p) \/ SaveRow(p)
  <2>1. UNCHANGED <<token, jars, redis, trail, past>> /\ (Goto(p, "endAll") \/ Done(p))
    BY <1>16 DEF NewHash, UpdateColumns, SaveRow
  <2>2. acct' \in [User -> Row]
    <3>1. acct[j.user] \in Row
      BY <1>1
    <3>2. CASE NewHash(p)
      <4>1. [acct[j.user] EXCEPT !.pass = j.pass, !.legacy = FALSE] \in Row
        BY <1>1, <3>1 DEF Row
      <4> QED
        BY <1>1, <3>2, <4>1 DEF NewHash
    <3>3. CASE UpdateColumns(p)
      <4>1. PICK a, b, row : /\ a = j.row.is2fa /\ b = (a /\ acct[j.user].secret)
                             /\ row = [acct[j.user] EXCEPT !.is2fa = a, !.secret = b]
        OBVIOUS
      <4>2. a \in BOOLEAN /\ b \in BOOLEAN
        BY <1>1, <3>1, <4>1 DEF Row
      <4>3. row \in Row
        BY <3>1, <4>1, <4>2 DEF Row
      <4>4. acct' = [acct EXCEPT ![j.user] = row]
        BY <1>1, <3>3, <4>1 DEF UpdateColumns
      <4> QED
        BY <1>1, <4>3, <4>4
    <3>4. CASE SaveRow(p)
      BY <1>1, <3>4 DEF SaveRow
    <3> QED
      BY <1>16, <3>2, <3>3, <3>4
  <2>3. Stored /\ ThrottleTypes' /\ UNCHANGED <<here, restarts>>
    BY <1>3, <1>4, <2>1, <2>2
  <2>4. CASE Goto(p, "endAll")
    BY <2>3, <2>4, GoesOn
  <2> QED
    BY <2>1, <2>3, <2>4, Finishes
<1>17. CASE WriteFails(p)
  <2>1. /\ UNCHANGED <<rows, temp, redis, trail, past>> /\ Done(p)
        /\ ClearAuthCookies(p) \/ UNCHANGED cookie
    BY <1>17 DEF WriteFails, ClearAuthCookies
  <2>2. Stored /\ ThrottleTypes' /\ UNCHANGED <<here, restarts>>
    BY <1>1, <1>3, <1>4, <2>1
  <2> QED
    BY <2>1, <2>2, Finishes
<1> QED
  BY <1>6, <1>7, <1>8, <1>9, <1>10, <1>11, <1>12, <1>13, <1>14, <1>15, <1>16, <1>17

LEMMA ServeTurns == ASSUME Types, NEW p \in Proc, Serve(p) PROVE Turns(p)
BY TokenTurns, SignTurns DEF Serve

(* Where a request is, its step is that of the place. *)
LEMMA Places ==
  ASSUME NEW p \in Proc, Serve(p)
  PROVE  /\ job[p].pc # "idle"
         /\ job[p].pc = "password" => CheckPassword(p)
         /\ job[p].pc = "fail" => RecordFailure(p)
         /\ job[p].pc = "lock" => SetLock(p)
         /\ job[p].pc = "owner" => CheckOwner(p)
         /\ job[p].pc = "endAll" => EndSessions(p)
BY DEF Serve, At, CreateUser, IssueRoot, SignedIn, CheckPassword, RecordFailure, SetLock,
       RecordSuccess, MigrateHash, Gate, Challenge, DeleteChallenge, Refuse, MarkUsed,
       CreateSuccessor, CheckOwner, EndSessions, Revoke, NewHash, UpdateColumns, SaveRow, WriteFails

-----------------------------------------------------------------------------
(* The other steps                                                         *)

Aside ==
    /\ UNCHANGED <<job, here, restarts>> /\ Len(token') = Len(token)
    /\ Len(challenge') = Len(challenge)
    /\ \A t \in TokenId : token'[t].used = token[t].used
    /\ \A c \in DOMAIN challenge : challenge'[c].live => challenge[c].live
    /\ \A u \in User : acct'[u].locked = acct[u].locked /\ acct'[u].made = acct[u].made
    /\ UNCHANGED <<fails, lockout, wrong>> \/ \E k \in Key : ClearKey(k)

LEMMA Around ==
  ASSUME Types, Environment PROVE Stored /\ ThrottleTypes' /\ Aside
<1> USE DEF rows, redis, past, jars, trail
<1>1. /\ Len(token) \in Nat /\ Len(challenge) \in Nat
      /\ acct \in [User -> Row] /\ token \in Seq(Token) /\ \A t \in TokenId : token[t] \in Token
      /\ challenge \in Seq(StepUp) /\ \A c \in 1..Len(challenge) : challenge[c] \in StepUp
      /\ DOMAIN challenge = 1..Len(challenge)
  BY Sizes DEF Types, StoreTypes
<1>2. /\ fails \in [Key -> Nat] /\ lockout \in [Key -> BOOLEAN] /\ wrong \in [Key -> Nat]
      /\ here \in Situation /\ restarts \in Nat
  BY DEF Types, ThrottleTypes
<1>3. ASSUME UNCHANGED <<token, acct, cookie>>, challenge' \in Seq(StepUp), Len(challenge') = Len(challenge)
      PROVE  Stored
  BY <1>1, <1>3, Unchanged, Settled
<1>4. CASE \E k \in Key : AdminUnlock(k) \/ ThrottleExpires(k)
  <2>1. PICK k \in Key : AdminUnlock(k) \/ ThrottleExpires(k)
    BY <1>4
  <2>2. UNCHANGED <<rows, jars, challenge, trail, job, here, restarts>> /\ ClearKey(k)
    BY <2>1 DEF AdminUnlock, ThrottleExpires
  <2>3. Stored
    BY <1>1, <1>3, <2>2
  <2>4. ThrottleTypes'
    BY <1>2, <2>2 DEF ThrottleTypes, ClearKey
  <2> QED
    BY <2>2, <2>3, <2>4 DEF Aside
<1>5. CASE \E c \in DOMAIN challenge : ChallengeExpires(c)
  <2>1. PICK c \in DOMAIN challenge : ChallengeExpires(c)
    BY <1>5
  <2>2. PICK row : row = [challenge[c] EXCEPT !.live = FALSE]
    OBVIOUS
  <2>3. /\ challenge' = [challenge EXCEPT ![c] = row] /\ row \in StepUp /\ ~row.live
        /\ UNCHANGED <<rows, jars, fails, lockout, trail, job, past>>
    BY <1>1, <2>1, <2>2 DEF ChallengeExpires, StepUp
  <2>4. /\ challenge' \in Seq(StepUp) /\ Len(challenge') = Len(challenge)
        /\ \A b \in DOMAIN challenge : challenge'[b] = IF b = c THEN row ELSE challenge[b]
    BY <1>1, <2>1, <2>3, ExceptSeq
  <2>5. Stored
    BY <1>3, <2>3, <2>4
  <2>6. ThrottleTypes'
    BY <1>2, <2>3 DEF ThrottleTypes
  <2> QED
    BY <2>3, <2>4, <2>5, <2>6 DEF Aside
<1>6. CASE \E t \in TokenId : TokenExpires(t)
  <2>1. PICK t \in TokenId : TokenExpires(t)
    BY <1>6
  <2>2. PICK row : row = [token[t] EXCEPT !.expired = TRUE]
    OBVIOUS
  <2>3. /\ token' = [token EXCEPT ![t] = row] /\ row \in Token
        /\ UNCHANGED <<acct, jars, redis, trail, job, past>>
    BY <1>1, <2>1, <2>2 DEF TokenExpires, Token
  <2>4. /\ token' \in Seq(Token) /\ Len(token') = Len(token) /\ RowsStay
        /\ \A s \in TokenId : s # t => token'[s] = token[s]
    BY <1>1, <2>1, <2>2, <2>3, FlagRow
  <2>5. token'[t].used = token[t].used
    BY <1>1, <2>1, <2>2, <2>3 DEF Token, TokenId
  <2>6. Stored
    BY <1>1, <2>3, <2>4, Settled
  <2>7. ThrottleTypes'
    BY <1>2, <2>3 DEF ThrottleTypes
  <2> QED
    BY <2>3, <2>4, <2>5, <2>6, <2>7 DEF Aside
<1>7. CASE \E a \in audits : RecordWithDevice(a)
  <2>1. UNCHANGED <<rows, jars, redis, job, past>>
    BY <1>7 DEF RecordWithDevice
  <2> QED
    BY <1>1, <1>2, <1>3, <2>1 DEF Aside, ThrottleTypes
<1>8. CASE \E u \in User, d \in here.devices : Enable2FA(u, d)
  <2>1. PICK u \in User, d \in here.devices : Enable2FA(u, d)
    BY <1>8
  <2>2. PICK row : row = [acct[u] EXCEPT !.secret = TRUE]
    OBVIOUS
  <2>3. /\ acct' = [acct EXCEPT ![u] = row] /\ row \in Row /\ row.locked = acct[u].locked
        /\ row.made = acct[u].made /\ UNCHANGED <<token, jars, redis, trail, job, past>>
    BY <1>1, <2>1, <2>2 DEF Enable2FA, Row
  <2>4. acct' \in [User -> Row] /\ \A w \in User : acct'[w] = IF w = u THEN row ELSE acct[w]
    BY <1>1, <2>3
  <2>5. Stored
    BY <1>1, <2>3, <2>4, Unchanged, Settled
  <2>6. ThrottleTypes'
    BY <1>2, <2>3 DEF ThrottleTypes
  <2> QED
    BY <2>3, <2>4, <2>5, <2>6 DEF Aside
<1> QED
  BY <1>4, <1>5, <1>6, <1>7, <1>8 DEF Environment

LEMMA Restarted ==
  ASSUME Types, Restart
  PROVE  /\ Types' /\ UNCHANGED <<acct, token, challenge, fails, lockout, wrong, here>>
         /\ restarts' = restarts + 1 /\ \A p \in Proc : job'[p] = Idle
<1>1. /\ UNCHANGED <<rows, jars, redis, here, wrong>> /\ restarts' = restarts + 1
      /\ job' = [p \in Proc |-> Idle]
  BY DEF Restart
<1>2. StoreTypes'
  BY <1>1 DEF Types, StoreTypes, TokenId, rows, jars, redis
<1>3. ThrottleTypes'
  BY <1>1 DEF Types, ThrottleTypes, redis
<1>4. JobTypes'
  BY <1>1, IdleJob, Sizes DEF JobTypes, rows, redis
<1> QED
  BY <1>1, <1>2, <1>3, <1>4 DEF Types, rows, redis

(* Every step is one of these. *)
LEMMA StepTypes == ASSUME Types, [Next]_vars PROVE Types'
<1>1. ASSUME NEW p \in Proc, Receive(p) PROVE Types'
  <2>1. StoreTypes' /\ ThrottleTypes' /\ UNCHANGED <<rows, redis, past>>
        /\ (UNCHANGED job \/ \E r : Turn(p, r) /\ Entered(p, r))
    BY <1>1, Received
  <2>2. Len(token') = Len(token) /\ Len(challenge') = Len(challenge)
    BY <2>1 DEF rows, redis
  <2>3. CASE UNCHANGED job
    BY <2>1, <2>2, <2>3 DEF Types, JobTypes
  <2>4. CASE \E r : Turn(p, r) /\ Entered(p, r)
    <3>1. JobTypes'
      BY <2>2, <2>4, Turned, Sizes
    <3> QED
      BY <2>1, <3>1 DEF Types
  <2> QED
    BY <2>1, <2>3, <2>4
<1>2. ASSUME NEW p \in Proc, Serve(p) PROVE Types'
  <2>1. Turns(p)
    BY <1>2, ServeTurns
  <2>2. JobTypes'
    BY <2>1, Turned DEF Turns, Stored, RowsStay
  <2> QED
    BY <2>1, <2>2 DEF Turns, Stored, Types
<1>3. CASE Environment
  <2>1. Stored /\ ThrottleTypes' /\ Aside
    BY <1>3, Around
  <2> QED
    BY <2>1 DEF Stored, Aside, Types, JobTypes
<1>4. CASE Restart
  BY <1>4, Restarted
<1>5. CASE UNCHANGED vars
  BY <1>5 DEF Types, StoreTypes, ThrottleTypes, JobTypes, TokenId, vars, rows, jars, redis, trail, past
<1> QED
  BY <1>1, <1>2, <1>3, <1>4, <1>5 DEF Next, Work

-----------------------------------------------------------------------------
(* Counting *)

LEMMA SomeProcs ==
  ASSUME NEW S, S \subseteq Proc
  PROVE  /\ IsFiniteSet(S) /\ Cardinality(S) \in Nat /\ Cardinality(Proc) \in Nat
         /\ Cardinality(S) <= Cardinality(Proc)
<1>1. IsFiniteSet(Proc)
  BY SomeAssumption
<1>2. IsFiniteSet(S) /\ Cardinality(S) <= Cardinality(Proc)
  BY <1>1, FS_Subset
<1> QED
  BY <1>1, <1>2, FS_CardinalityType

LEMMA Fewer ==
  ASSUME NEW S, IsFiniteSet(S), NEW T, T \subseteq S
  PROVE  IsFiniteSet(T) /\ Cardinality(T) <= Cardinality(S)
         /\ Cardinality(T) \in Nat /\ Cardinality(S) \in Nat
<1>1. IsFiniteSet(T) /\ Cardinality(T) <= Cardinality(S)
  BY FS_Subset
<1> QED
  BY <1>1, FS_CardinalityType

(* One more here is one less there. *)
LEMMA Traded ==
  ASSUME NEW S, IsFiniteSet(S), NEW n, NEW A, A \subseteq S \cup {n},
         NEW T, IsFiniteSet(T), NEW p \in T, NEW B, B \subseteq T \ {p},
         NEW most \in Nat, Cardinality(S) + Cardinality(T) <= most
  PROVE  Cardinality(A) + Cardinality(B) <= most
<1>1. IsFiniteSet(S \cup {n}) /\ Cardinality(S \cup {n}) <= Cardinality(S) + 1 /\ Cardinality(S) \in Nat
  <2>1. Cardinality(S) \in Nat
    BY FS_CardinalityType
  <2>2. /\ IsFiniteSet(S \cup {n})
        /\ Cardinality(S \cup {n}) = IF n \in S THEN Cardinality(S) ELSE Cardinality(S) + 1
    BY FS_AddElement
  <2> QED
    BY <2>1, <2>2
<1>2. IsFiniteSet(T \ {p}) /\ Cardinality(T \ {p}) = Cardinality(T) - 1 /\ Cardinality(T) \in Nat
  BY FS_RemoveElement, FS_CardinalityType
<1>3. Cardinality(A) \in Nat /\ Cardinality(A) <= Cardinality(S \cup {n}) /\ Cardinality(S \cup {n}) \in Nat
  BY <1>1, Fewer
<1>4. Cardinality(B) \in Nat /\ Cardinality(B) <= Cardinality(T \ {p})
  BY <1>2, Fewer
<1> QED
  BY <1>1, <1>2, <1>3, <1>4

(* A set of three parts. *)
LEMMA Apart ==
  ASSUME NEW A, A \subseteq Proc, NEW B, B \subseteq Proc, NEW C, C \subseteq Proc,
         A \cap B = {}, A \cap C = {}, B \cap C = {}
  PROVE  Cardinality(A) + Cardinality(B) + Cardinality(C) <= Cardinality(Proc)
<1>1. /\ IsFiniteSet(A) /\ IsFiniteSet(B) /\ IsFiniteSet(C)
      /\ Cardinality(A) \in Nat /\ Cardinality(B) \in Nat /\ Cardinality(C) \in Nat
  BY SomeProcs
<1>2. IsFiniteSet(A \cup B) /\ Cardinality(A \cup B) = Cardinality(A) + Cardinality(B)
  <2>1. Cardinality(A \cap B) = 0
    BY FS_EmptySet
  <2>2. Cardinality(A \cup B) = Cardinality(A) + Cardinality(B) - Cardinality(A \cap B) /\ IsFiniteSet(A \cup B)
    BY <1>1, FS_Union
  <2> QED
    BY <1>1, <2>1, <2>2
<1>3. Cardinality((A \cup B) \cup C) = Cardinality(A \cup B) + Cardinality(C)
  <2>1. (A \cup B) \cap C = {}
    OBVIOUS
  <2>2. Cardinality((A \cup B) \cap C) = 0
    BY <2>1, FS_EmptySet
  <2>3. Cardinality((A \cup B) \cup C) = Cardinality(A \cup B) + Cardinality(C) - Cardinality((A \cup B) \cap C)
    BY <1>1, <1>2, FS_Union
  <2> QED
    BY <1>1, <1>2, <2>2, <2>3
<1>4. Cardinality((A \cup B) \cup C) <= Cardinality(Proc)
  BY SomeProcs
<1> QED
  BY <1>2, <1>3, <1>4

-----------------------------------------------------------------------------
(* Rotation                                                                *)

(* A token with a successor was marked before; and the requests that were  *)
(* rotating it when it was are all that can still add one.                 *)
Rotating(t) == {p \in Proc : job[p].pc \in {"mark", "successor"} /\ job[p].tok = t}
RotatingToken(j) ==
    /\ j.pc \in {"mark", "successor"} => token[j.tok].user = j.user
    /\ j.pc = "successor" => token[j.tok].used
Rotations ==
    /\ \A s \in TokenId : token[s].parent # 0 => token[token[s].parent].used
    /\ \A p \in Proc : RotatingToken(job[p])
    /\ \A t \in TokenId : token[t].used =>
          Cardinality(Successors(t)) + Cardinality(Rotating(t)) <= Cardinality(Proc)
RotationInv == Types /\ Rotations

LEMMA Parents ==
  ASSUME Types
  PROVE  /\ Len(token) \in Nat /\ TokenId = 1..Len(token) /\ IsFiniteSet(TokenId)
         /\ \A t \in TokenId : /\ token[t] \in Token /\ token[t].parent \in Nat
                               /\ token[t].parent # 0 => token[t].parent \in TokenId
         /\ \A p \in Proc : job[p].pc \in OfToken => job[p].tok \in TokenId
         /\ \A t : Successors(t) \subseteq TokenId /\ IsFiniteSet(Successors(t))
         /\ \A t : Rotating(t) \subseteq Proc
<1>1. Len(token) \in Nat /\ TokenId = 1..Len(token) /\ \A t \in TokenId : token[t] \in Token
  BY Sizes DEF TokenId
<1>2. IsFiniteSet(TokenId)
  BY <1>1, FS_Interval
<1>3. \A t \in TokenId : /\ token[t].parent \in Nat
                         /\ token[t].parent # 0 => token[t].parent \in TokenId
  BY <1>1 DEF Types, StoreTypes, Token
<1>4. \A p \in Proc : job[p].pc \in OfToken => job[p].tok \in TokenId
  BY <1>1, Handed DEF InHand
<1>5. \A t : Successors(t) \subseteq TokenId /\ IsFiniteSet(Successors(t))
  BY <1>2, Fewer DEF Successors
<1> QED
  BY <1>1, <1>2, <1>3, <1>4, <1>5 DEF Rotating

LEMMA RotatedStays ==
  ASSUME RotationInv, Types', RowsStay, Len(token') = Len(token),
         \A q \in Proc : RotatingToken(job[q])',
         \A t \in TokenId : token[t].used => Rotating(t)' \subseteq Rotating(t)
  PROVE  RotationInv'
<1>1. TokenId' = TokenId
  BY DEF TokenId
<1>2. \A t \in TokenId : Same(token'[t], token[t])
  BY DEF RowsStay
<1>3. ASSUME NEW s \in TokenId', token'[s].parent # 0 PROVE token'[token'[s].parent].used
  <2>1. token'[s].parent = token[s].parent
    BY <1>1, <1>2, <1>3 DEF Same
  <2>2. PICK t : t = token[s].parent /\ t \in TokenId /\ token[t].used
    BY <1>1, <1>3, <2>1, Parents DEF RotationInv, Rotations
  <2> QED
    BY <1>2, <2>1, <2>2 DEF Same
<1>4. ASSUME NEW t \in TokenId', token'[t].used
      PROVE  Cardinality(Successors(t)') + Cardinality(Rotating(t)') <= Cardinality(Proc)
  <2>1. Successors(t)' = Successors(t)
    BY <1>1, <1>2 DEF Successors, Same
  <2>2. CASE token[t].used
    <3>1. /\ Cardinality(Successors(t)) + Cardinality(Rotating(t)) <= Cardinality(Proc)
          /\ Rotating(t)' \subseteq Rotating(t) /\ Rotating(t) \subseteq Proc /\ IsFiniteSet(Successors(t))
      BY <1>1, <1>4, <2>2, Parents DEF RotationInv, Rotations
    <3>2. PICK S, R, T : S = Successors(t) /\ R = Rotating(t) /\ T = Rotating(t)'
      OBVIOUS
    <3>3. /\ Cardinality(T) <= Cardinality(R) /\ Cardinality(T) \in Nat /\ Cardinality(R) \in Nat
      BY <3>1, <3>2, SomeProcs, Fewer
    <3>4. Cardinality(S) \in Nat /\ Cardinality(Proc) \in Nat
      BY <3>1, <3>2, FS_CardinalityType, SomeProcs
    <3> QED
      BY <2>1, <3>1, <3>2, <3>3, <3>4
  <2>3. CASE ~token[t].used
    <3>1. Successors(t) = {}
      BY <1>1, <1>4, <2>3, Parents DEF RotationInv, Rotations, Successors
    <3>2. Rotating(t)' \subseteq Proc
      BY DEF Rotating
    <3>3. PICK T : T = Rotating(t)'
      OBVIOUS
    <3>4. Cardinality(T) <= Cardinality(Proc) /\ Cardinality(T) \in Nat
      BY <3>2, <3>3, SomeProcs
    <3> QED
      BY <2>1, <3>1, <3>3, <3>4, FS_EmptySet
  <2> QED
    BY <2>2, <2>3
<1> QED
  BY <1>3, <1>4 DEF RotationInv, Rotations

LEMMA RowsSame ==
  ASSUME Types, NEW p \in Proc, Serve(p), ~CreateSuccessor(p), ~IssueRoot(p)
  PROVE  Len(token') = Len(token)
<1>1. token \in Seq(Token)
  BY DEF Types, StoreTypes
<1>2. \/ UNCHANGED token \/ \E S : token' = Revoked(S)
      \/ \E t, r : token' = [token EXCEPT ![t] = r] /\ t \in TokenId /\ r \in Token
  <2>1. CASE MarkUsed(p)
    <3>1. PICK t, r : t = job[p].tok /\ r = [token[t] EXCEPT !.used = TRUE]
      OBVIOUS
    <3>2. t \in TokenId
      BY <2>1, <3>1, Parents DEF MarkUsed, At, OfToken
    <3>3. r \in Token
      <4>1. token[t] \in Token
        BY <3>2, Parents
      <4> QED
        BY <3>1, <4>1 DEF Token
    <3>4. token' = [token EXCEPT ![t] = r]
      BY <1>1, <2>1, <3>1 DEF MarkUsed
    <3> QED
      BY <3>2, <3>3, <3>4
  <2>2. CASE ~MarkUsed(p)
    BY <2>2 DEF Serve, CreateUser, SignedIn, CheckPassword, RecordFailure, SetLock, RecordSuccess,
                MigrateHash, Gate, Challenge, DeleteChallenge, Refuse, RevokeFamily, CheckOwner,
                EndSessions, RevokeByUser, Revoke, NewHash, UpdateColumns, SaveRow, WriteFails, rows
  <2> QED
    BY <2>1, <2>2
<1>3. CASE \E S : token' = Revoked(S)
  BY <1>1, <1>3, RevokedRows
<1>4. ASSUME NEW t \in TokenId, NEW r \in Token, token' = [token EXCEPT ![t] = r]
      PROVE  Len(token') = Len(token)
  BY <1>1, <1>4, ExceptSeq DEF TokenId
<1> QED
  BY <1>2, <1>3, <1>4

(* What goroutines hold is still so. *)
LEMMA StillRotating ==
  ASSUME RotationInv, RowsStay, NEW q \in Proc PROVE RotatingToken(job[q])' \/ job'[q] # job[q]
<1>1. CASE job'[q] = job[q] /\ job[q].pc \in {"mark", "successor"}
  <2>1. PICK j, t : j = job[q] /\ t = j.tok /\ t \in TokenId
    BY <1>1, Parents DEF RotationInv, OfToken
  <2>2. Same(token'[t], token[t]) /\ RotatingToken(j)
    BY <2>1 DEF RowsStay, RotationInv, Rotations
  <2> QED
    BY <1>1, <2>1, <2>2 DEF RotatingToken, Same
<1>2. CASE job'[q] = job[q] /\ job[q].pc \notin {"mark", "successor"}
  BY <1>2 DEF RotatingToken
<1> QED
  BY <1>1, <1>2

LEMMA RotationTurn ==
  ASSUME RotationInv, Types', RowsStay, Len(token') = Len(token), NEW p \in Proc, NEW r, Turn(p, r),
         r.pc \in {"mark", "successor"} => token'[r.tok].user = r.user,
         r.pc = "successor" => token'[r.tok].used,
         r.pc = "mark" => r.tok \in TokenId /\ ~token[r.tok].used,
         r.pc = "successor" => job[p].pc = "mark" /\ r.tok = job[p].tok
  PROVE  RotationInv'
<1>1. \A q \in Proc : job'[q] = IF q = p THEN r ELSE job[q]
  BY DEF Turn, RotationInv, Types, JobTypes
<1>2. ASSUME NEW q \in Proc PROVE RotatingToken(job[q])'
  <2>1. CASE q = p
    BY <1>1, <2>1 DEF RotatingToken
  <2>2. CASE q # p
    BY <1>1, <2>2, StillRotating
  <2> QED
    BY <2>1, <2>2
<1>3. ASSUME NEW t \in TokenId, token[t].used PROVE Rotating(t)' \subseteq Rotating(t)
  BY <1>1, <1>3 DEF Rotating
<1> QED
  BY <1>2, <1>3, RotatedStays

LEMMA RotationAdds ==
  ASSUME RotationInv, Types', NEW p \in Proc, NEW r, Turn(p, r), r.pc \in {"owner", "clear", "reply"},
         NEW row \in Token, token' = Append(token, row), ~row.used,
         row.parent # 0 => job[p].pc = "successor" /\ row.parent = job[p].tok
  PROVE  RotationInv'
<1>1. PICK n : n = Len(token) + 1
  OBVIOUS
<1>2. /\ token \in Seq(Token) /\ Len(token) \in Nat /\ TokenId = 1..Len(token)
      /\ \A t \in TokenId : token[t] \in Token
  BY Parents DEF RotationInv, Types, StoreTypes
<1>3. /\ Len(token') = n /\ RowsStay /\ token'[n] = row /\ \A t \in TokenId : token'[t] = token[t]
  BY <1>1, <1>2, AddRow
<1>4. TokenId' = TokenId \cup {n} /\ n \notin TokenId /\ n # 0
  BY <1>1, <1>2, <1>3 DEF TokenId
<1>5. \A q \in Proc : job'[q] = IF q = p THEN r ELSE job[q]
  BY DEF Turn, RotationInv, Types, JobTypes
<1>6. ASSUME NEW q \in Proc PROVE RotatingToken(job[q])'
  <2>1. CASE q = p
    BY <1>5, <2>1 DEF RotatingToken
  <2>2. CASE q # p
    BY <1>3, <1>5, <2>2, StillRotating
  <2> QED
    BY <2>1, <2>2
<1>7. row.parent # 0 => row.parent \in TokenId /\ token[row.parent].used
  BY Parents DEF RotationInv, Rotations, RotatingToken, OfToken
<1>8. ASSUME NEW s \in TokenId', token'[s].parent # 0 PROVE token'[token'[s].parent].used
  <2>1. CASE s = n
    BY <1>3, <1>7, <1>8, <2>1
  <2>2. CASE s # n
    <3>1. s \in TokenId /\ token'[s] = token[s]
      BY <1>3, <1>4, <2>2
    <3>2. token[s].parent \in TokenId /\ token[token[s].parent].used
      BY <1>8, <3>1, Parents DEF RotationInv, Rotations
    <3> QED
      BY <1>3, <3>1, <3>2
  <2> QED
    BY <2>1, <2>2
<1>9. ASSUME NEW t \in TokenId', token'[t].used
      PROVE  Cardinality(Successors(t)') + Cardinality(Rotating(t)') <= Cardinality(Proc)
  <2>1. t \in TokenId /\ token[t].used
    BY <1>3, <1>4, <1>9
  <2>2. /\ Cardinality(Successors(t)) + Cardinality(Rotating(t)) <= Cardinality(Proc)
        /\ Rotating(t) \subseteq Proc /\ IsFiniteSet(Successors(t))
    BY <2>1, Parents DEF RotationInv, Rotations
  <2>3. Rotating(t)' \subseteq Rotating(t) \ {p}
    BY <1>5 DEF Rotating
  <2>4. PICK S, R, A, B : S = Successors(t) /\ R = Rotating(t) /\ A = Successors(t)' /\ B = Rotating(t)'
    OBVIOUS
  <2>5. IsFiniteSet(S) /\ IsFiniteSet(R) /\ Cardinality(S) + Cardinality(R) <= Cardinality(Proc)
        /\ Cardinality(Proc) \in Nat /\ B \subseteq R \ {p}
    BY <2>2, <2>3, <2>4, SomeProcs
  <2>6. CASE row.parent = t
    <3>1. p \in R
      BY <1>4, <2>1, <2>4, <2>6, <1>2 DEF Rotating
    <3>2. A \subseteq S \cup {n}
      BY <1>3, <1>4, <2>4 DEF Successors
    <3> QED
      BY <2>4, <2>5, <3>1, <3>2, Traded
  <2>7. CASE row.parent # t
    <3>1. A \subseteq S
      BY <1>3, <1>4, <2>4, <2>7 DEF Successors
    <3>2. /\ Cardinality(A) <= Cardinality(S) /\ Cardinality(A) \in Nat /\ Cardinality(S) \in Nat
          /\ Cardinality(B) <= Cardinality(R) /\ Cardinality(B) \in Nat /\ Cardinality(R) \in Nat
      BY <2>5, <3>1, Fewer
    <3> QED
      BY <2>4, <2>5, <3>2
  <2> QED
    BY <2>6, <2>7
<1> QED
  BY <1>6, <1>8, <1>9 DEF RotationInv, Rotations

(* The rows that CreateSuccessor and IssueRoot add. *)
LEMMA SuccessorRow ==
  ASSUME Types, NEW p \in Proc, CreateSuccessor(p)
  PROVE  \E row \in Token : /\ token' = Append(token, row) /\ ~row.used
                            /\ row.parent = job[p].tok /\ row.via = 0 /\ job[p].pc = "successor"
                            /\ row.user = token[job[p].tok].user
                            /\ row.lockedAt = acct[row.user].locked
<1>1. PICK t : t = job[p].tok /\ t \in TokenId /\ job[p].pc = "successor"
  BY Parents DEF CreateSuccessor, At, OfToken
<1>2. token[t] \in Token /\ t # 0 /\ t \in Nat
  BY <1>1, Parents
<1>3. token[t].user \in User /\ acct \in [User -> Row]
  BY <1>2 DEF Token, Types, StoreTypes
<1>4. PICK row : row = [user |-> token[t].user, family |-> token[t].family, parent |-> t, via |-> 0,
                        used |-> FALSE, revoked |-> FALSE, expired |-> FALSE,
                        lockedAt |-> acct[token[t].user].locked, pass |-> token[t].pass]
  OBVIOUS
<1>5. row \in Token
  BY <1>2, <1>3, <1>4 DEF Token, Row
<1>6. token' = Append(token, row)
  BY <1>1, <1>2, <1>4 DEF CreateSuccessor, NewToken
<1> QED
  BY <1>1, <1>4, <1>5, <1>6

LEMMA RootRow ==
  ASSUME Types, NEW p \in Proc, IssueRoot(p)
  PROVE  \E row \in Token : /\ token' = Append(token, row) /\ ~row.used
                            /\ row.parent = 0 /\ row.via = job[p].via /\ job[p].pc = "issue"
                            /\ row.lockedAt = acct[row.user].locked
<1>1. PICK u, v : u = job[p].user /\ v = job[p].via /\ u \in User /\ v \in Nat
  BY Handed DEF Job
<1>2. acct[u] \in Row /\ Len(token) \in Nat
  BY <1>1, Parents DEF Types, StoreTypes
<1>4. PICK row : row = [user |-> u, family |-> Len(token) + 1, parent |-> 0, via |-> v,
                        used |-> FALSE, revoked |-> FALSE, expired |-> FALSE,
                        lockedAt |-> acct[u].locked, pass |-> acct[u].pass]
  OBVIOUS
<1>5. row \in Token
  BY <1>1, <1>2, <1>4 DEF Token, Row
<1>6. token' = Append(token, row) /\ job[p].pc = "issue"
  BY <1>1, <1>4 DEF IssueRoot, NewToken, At
<1> QED
  BY <1>1, <1>4, <1>5, <1>6

LEMMA Placed ==
  ASSUME Types, NEW p \in Proc, NEW n, NEW l, job' = [job EXCEPT ![p].tok = n, ![p].pc = l]
  PROVE  job'[p].pc = l /\ job'[p].user = job[p].user
<1>1. job \in [Proc -> Job] /\ job[p] \in Job
  BY DEF Types, JobTypes
<1>2. job'[p] = [job[p] EXCEPT !.tok = n, !.pc = l]
  BY <1>1
<1> QED
  BY <1>1, <1>2 DEF Job

LEMMA Added ==
  ASSUME Types, NEW p \in Proc
  PROVE  /\ CreateSuccessor(p) => job'[p].pc = "owner" /\ job'[p].user = job[p].user
         /\ IssueRoot(p) => job'[p].pc \in {"clear", "reply"}
<1>1. ASSUME CreateSuccessor(p) PROVE job'[p].pc = "owner" /\ job'[p].user = job[p].user
  <2>1. PICK n : n = Len(token) + 1
    OBVIOUS
  <2>2. job' = [job EXCEPT ![p].tok = n, ![p].pc = "owner"]
    BY <1>1, <2>1 DEF CreateSuccessor
  <2> QED
    BY <2>2, Placed
<1>2. ASSUME IssueRoot(p) PROVE job'[p].pc \in {"clear", "reply"}
  <2>1. PICK n, l : n = Len(token) + 1 /\ l = (IF job[p].op = "login" THEN "clear" ELSE "reply")
    OBVIOUS
  <2>2. job' = [job EXCEPT ![p].tok = n, ![p].pc = l]
    BY <1>2, <2>1 DEF IssueRoot
  <2>3. job'[p].pc = l
    BY <2>2, Placed
  <2> QED
    BY <2>1, <2>3
<1> QED
  BY <1>1, <1>2

LEMMA RotationStep == ASSUME RotationInv, [Next]_vars PROVE RotationInv'
<1>1. Types /\ Types'
  BY StepTypes DEF RotationInv
<1>2. ASSUME UNCHANGED <<token, job>> PROVE RotationInv'
  <2>1. /\ TokenId' = TokenId /\ \A t : Successors(t)' = Successors(t) /\ Rotating(t)' = Rotating(t)
    BY <1>2 DEF TokenId, Successors, Rotating
  <2> QED
    BY <1>1, <1>2, <2>1 DEF RotationInv, Rotations, RotatingToken
<1>3. ASSUME NEW p \in Proc, Receive(p) PROVE RotationInv'
  <2>1. UNCHANGED token /\ (UNCHANGED job \/ \E r : Turn(p, r) /\ Entered(p, r))
    BY <1>1, <1>3, Received DEF rows
  <2>2. ASSUME NEW r, Turn(p, r), Entered(p, r) PROVE RotationInv'
    <3>1. token' \in Seq(Token) /\ RowsStay /\ Len(token') = Len(token)
      BY <1>1, <2>1, Unchanged
    <3>2. r.pc # "successor"
          /\ (r.pc = "mark" => r.tok \in TokenId /\ ~token[r.tok].used /\ r.user = token[r.tok].user)
      BY <2>2 DEF Entered
    <3> QED
      BY <1>1, <2>1, <2>2, <3>1, <3>2, RotationTurn
  <2> QED
    BY <1>2, <2>1, <2>2
<1>4. ASSUME NEW p \in Proc, Serve(p) PROVE RotationInv'
  <2>1. Turns(p) /\ RowsStay
    BY <1>1, <1>4, ServeTurns DEF Turns, Stored
  <2>2. PICK r : Turn(p, r) /\ Follows(p, r)
    BY <2>1 DEF Turns
  <2>3. CASE CreateSuccessor(p)
    <3>1. PICK row \in Token : /\ token' = Append(token, row) /\ ~row.used
                               /\ row.parent = job[p].tok /\ job[p].pc = "successor"
      BY <1>1, <2>3, SuccessorRow
    <3>2. r.pc = "owner"
      <4>1. job'[p] = r /\ job \in [Proc -> Job]
        BY <2>2 DEF Turn, RotationInv, Types, JobTypes
      <4> QED
        BY <1>1, <2>3, <4>1, Added
    <3> QED
      BY <1>1, <2>2, <3>1, <3>2, RotationAdds
  <2>4. CASE IssueRoot(p)
    <3>1. PICK row \in Token : token' = Append(token, row) /\ ~row.used /\ row.parent = 0
      BY <1>1, <2>4, RootRow
    <3>2. r.pc \in {"clear", "reply"}
      <4>1. job'[p] = r /\ job \in [Proc -> Job]
        BY <2>2 DEF Turn, RotationInv, Types, JobTypes
      <4> QED
        BY <1>1, <2>4, <4>1, Added
    <3> QED
      BY <1>1, <2>2, <3>1, <3>2, RotationAdds
  <2>5. CASE ~CreateSuccessor(p) /\ ~IssueRoot(p)
    <3>1. Len(token') = Len(token)
      BY <1>1, <1>4, <2>5, RowsSame
    <3>2. r.pc # "mark"
      BY <2>2 DEF Follows
    <3>3. ASSUME r.pc = "successor"
          PROVE  /\ job[p].pc = "mark" /\ r.tok = job[p].tok
                 /\ token'[r.tok].used /\ token'[r.tok].user = r.user
      <4>1. MarkUsed(p) /\ r.tok = job[p].tok /\ r.user = job[p].user /\ job[p].pc = "mark"
        BY <2>2, <3>3 DEF Follows, MarkUsed, At
      <4>2. PICK t : t = job[p].tok /\ t \in TokenId /\ token[t].user = job[p].user
        BY <4>1, Parents DEF RotationInv, Rotations, RotatingToken, OfToken
      <4>3. token'[t].used
        <5>1. token \in Seq(Token) /\ token[t] \in Token
          BY <1>1, <4>2, Parents DEF Types, StoreTypes
        <5>2. PICK row : row = [token[t] EXCEPT !.used = TRUE]
          OBVIOUS
        <5>3. token' = [token EXCEPT ![t] = row] /\ row \in Token /\ row.used
          BY <4>1, <4>2, <5>1, <5>2 DEF MarkUsed, Token
        <5>4. token'[t] = row
          BY <4>2, <5>1, <5>3, ExceptSeq DEF TokenId
        <5> QED
          BY <5>3, <5>4
      <4>4. token'[t].user = token[t].user
        BY <2>1, <4>2 DEF RowsStay, Same
      <4> QED
        BY <4>1, <4>2, <4>3, <4>4
    <3> QED
      BY <1>1, <2>1, <2>2, <3>1, <3>2, <3>3, RotationTurn
  <2> QED
    BY <2>3, <2>4, <2>5
<1>5. CASE Environment
  <2>1. RowsStay /\ Len(token') = Len(token) /\ UNCHANGED job
    BY <1>1, <1>5, Around DEF Stored, Aside
  <2>2. \A q \in Proc : RotatingToken(job[q])'
    BY <2>1, StillRotating
  <2>3. \A t \in TokenId : Rotating(t)' = Rotating(t)
    BY <2>1 DEF Rotating
  <2> QED
    BY <1>1, <2>1, <2>2, <2>3, RotatedStays
<1>6. CASE Restart
  <2>1. UNCHANGED token /\ \A q \in Proc : job'[q] = Idle
    BY <1>1, <1>6, Restarted
  <2>2. token' \in Seq(Token) /\ RowsStay /\ Len(token') = Len(token)
    BY <1>1, <2>1, Unchanged
  <2>3. \A q \in Proc : RotatingToken(job[q])'
    BY <2>1, IdleJob DEF RotatingToken
  <2>4. \A t \in TokenId : Rotating(t)' = {}
    BY <2>1, IdleJob DEF Rotating
  <2> QED
    BY <1>1, <2>2, <2>3, <2>4, RotatedStays
<1>7. CASE UNCHANGED vars
  BY <1>2, <1>7 DEF vars, rows
<1> QED
  BY <1>3, <1>4, <1>5, <1>6, <1>7 DEF Next, Work

LEMMA InitRotation == ASSUME Init PROVE RotationInv
<1>1. Types /\ TokenId = {} /\ \A p \in Proc : job[p].pc = "idle"
  <2>1. Len(token) = 0 /\ \A p \in Proc : job[p] = Idle
    BY EmptySeq DEF Init
  <2> QED
    BY <2>1, InitTypes, IdleJob DEF TokenId
<1> QED
  BY <1>1 DEF RotationInv, Rotations, RotatingToken

LEMMA Rotated ==
  ASSUME RotationInv
  PROVE  /\ \A s \in TokenId : token[s].parent # 0 => ~Live(token[s].parent)
         /\ \A t \in TokenId : Cardinality(Successors(t)) <= Cardinality(Proc)
<1>1. ASSUME NEW s \in TokenId, token[s].parent # 0 PROVE ~Live(token[s].parent)
  BY <1>1 DEF RotationInv, Rotations, Live
<1>2. ASSUME NEW t \in TokenId PROVE Cardinality(Successors(t)) <= Cardinality(Proc)
  <2>1. CASE token[t].used
    <3>1. /\ Cardinality(Successors(t)) + Cardinality(Rotating(t)) <= Cardinality(Proc)
          /\ Rotating(t) \subseteq Proc /\ IsFiniteSet(Successors(t))
      BY <2>1, Parents DEF RotationInv, Rotations
    <3>2. PICK S, R : S = Successors(t) /\ R = Rotating(t)
      OBVIOUS
    <3>3. Cardinality(S) \in Nat /\ Cardinality(R) \in Nat /\ Cardinality(Proc) \in Nat
      BY <3>1, <3>2, FS_CardinalityType, SomeProcs
    <3> QED
      BY <3>1, <3>2, <3>3
  <2>2. CASE ~token[t].used
    <3>1. Successors(t) = {}
      BY <2>2, Parents DEF RotationInv, Rotations, Successors
    <3>2. Cardinality(Proc) \in Nat
      BY SomeProcs
    <3> QED
      BY <3>1, <3>2, FS_EmptySet
  <2> QED
    BY <2>1, <2>2
<1> QED
  BY <1>1, <1>2

-----------------------------------------------------------------------------
(* Step-ups                                                                *)

(* As long as a challenge is there, no session came of it and none is on   *)
(* its way; once it is gone, only the requests that had read it open one.  *)
Issued(c) == {t \in TokenId : token[t].via = c}
Opening(c) == {p \in Proc : job[p].pc \in {"oneShot", "issue"} /\ job[p].via = c}
Openings ==
    /\ \A p \in Proc : job[p].pc = "issue" /\ job[p].via # 0 => ~challenge[job[p].via].live
    /\ \A c \in DOMAIN challenge :
          IF challenge[c].live THEN Issued(c) = {}
          ELSE Cardinality(Issued(c)) + Cardinality(Opening(c)) <= Cardinality(Proc)
OpenInv == Types /\ Openings

Spent ==
    /\ Len(challenge') \in Nat /\ Len(challenge') >= Len(challenge)
    /\ \A c \in DOMAIN challenge : challenge'[c].live => challenge[c].live

LEMMA Opened ==
  ASSUME Types
  PROVE  \A c : Issued(c) \subseteq TokenId /\ IsFiniteSet(Issued(c)) /\ Opening(c) \subseteq Proc
BY Parents, Fewer DEF Issued, Opening

LEMMA FewOpenings == ASSUME NEW c PROVE Cardinality(Opening(c)) <= Cardinality(Proc)
                                        /\ Cardinality(Opening(c)) \in Nat
BY SomeProcs DEF Opening

LEMMA OpenStays ==
  ASSUME OpenInv, Types', RowsStay, Len(token') = Len(token), Spent,
         \A q \in Proc : job'[q].pc = "issue" /\ job'[q].via # 0 => ~challenge'[job'[q].via].live,
         \A c \in DOMAIN challenge : ~challenge'[c].live /\ ~challenge[c].live
                                        => Opening(c)' \subseteq Opening(c)
  PROVE  OpenInv'
<1>1. TokenId' = TokenId /\ \A t \in TokenId : token'[t].via = token[t].via
  BY DEF TokenId, RowsStay, Same
<1>2. \A c : Issued(c)' = Issued(c)
  BY <1>1 DEF Issued
<1>3. ASSUME NEW c \in DOMAIN challenge'
      PROVE  IF challenge'[c].live THEN Issued(c)' = {}
             ELSE Cardinality(Issued(c)') + Cardinality(Opening(c)') <= Cardinality(Proc)
  <2>0. DOMAIN challenge' = 1..Len(challenge') /\ DOMAIN challenge = 1..Len(challenge)
        /\ Len(challenge) \in Nat /\ Len(challenge') \in Nat
    BY LenProperties DEF OpenInv, Types, StoreTypes
  <2>1. Opening(c)' \subseteq Proc /\ Cardinality(Proc) \in Nat
    BY SomeProcs DEF Opening
  <2>2. PICK R, T : R = Opening(c) /\ T = Opening(c)'
    OBVIOUS
  <2>3. T \subseteq Proc /\ Cardinality(T) <= Cardinality(Proc) /\ Cardinality(T) \in Nat
    BY <2>1, <2>2, SomeProcs
  <2>4. ASSUME Issued(c) = {}
        PROVE  IF challenge'[c].live THEN Issued(c)' = {}
               ELSE Cardinality(Issued(c)') + Cardinality(Opening(c)') <= Cardinality(Proc)
    <3>1. Issued(c)' = {}
      BY <1>2, <2>4
    <3>2. Cardinality(Issued(c)') = 0
      BY <3>1, FS_EmptySet
    <3> QED
      BY <2>1, <2>2, <2>3, <3>1, <3>2
  <2>5. CASE c \notin DOMAIN challenge
    <3>1. c > Len(challenge)
      BY <2>0, <2>5
    <3>2. \A t \in TokenId : token[t].via <= Len(challenge) /\ token[t].via \in Nat
      BY Parents DEF OpenInv, Types, StoreTypes, Token
    <3>3. Issued(c) = {}
      BY <2>0, <3>1, <3>2 DEF Issued
    <3> QED
      BY <2>4, <3>3
  <2>6. CASE c \in DOMAIN challenge /\ challenge[c].live
    BY <2>4, <2>6 DEF OpenInv, Openings
  <2>7. CASE c \in DOMAIN challenge /\ ~challenge[c].live
    <3>1. ~challenge'[c].live
      BY <2>7 DEF Spent
    <3>2. T \subseteq R /\ R \subseteq Proc /\ Cardinality(Issued(c)) + Cardinality(R) <= Cardinality(Proc)
          /\ IsFiniteSet(Issued(c))
      BY <2>2, <2>7, <3>1, Opened DEF OpenInv, Openings
    <3>3. PICK S : S = Issued(c)
      OBVIOUS
    <3>4. Cardinality(T) <= Cardinality(R) /\ Cardinality(R) \in Nat /\ Cardinality(S) \in Nat
      BY <3>2, <3>3, SomeProcs, Fewer, FS_CardinalityType
    <3> QED
      BY <1>2, <2>1, <2>2, <2>3, <3>1, <3>2, <3>3, <3>4
  <2> QED
    BY <2>5, <2>6, <2>7
<1> QED
  BY <1>3 DEF OpenInv, Openings

(* A session is opened. *)
LEMMA OpenAdds ==
  ASSUME OpenInv, Types', NEW p \in Proc, NEW r, Turn(p, r), r.pc \in {"owner", "clear", "reply"},
         NEW row \in Token, token' = Append(token, row), UNCHANGED challenge,
         row.via # 0 => job[p].pc = "issue" /\ row.via = job[p].via
  PROVE  OpenInv'
<1>1. PICK n : n = Len(token) + 1
  OBVIOUS
<1>2. /\ token \in Seq(Token) /\ Len(token) \in Nat /\ TokenId = 1..Len(token)
      /\ DOMAIN challenge = 1..Len(challenge) /\ Len(challenge) \in Nat
  BY Sizes DEF OpenInv, Types, StoreTypes, TokenId
<1>3. /\ Len(token') = n /\ token'[n] = row /\ \A t \in TokenId : token'[t] = token[t]
  BY <1>1, <1>2, AddRow
<1>4. TokenId' = TokenId \cup {n}
  BY <1>1, <1>2, <1>3 DEF TokenId
<1>5. \A q \in Proc : job'[q] = IF q = p THEN r ELSE job[q]
  BY DEF Turn, OpenInv, Types, JobTypes
<1>6. \A q \in Proc : job'[q].pc = "issue" /\ job'[q].via # 0 => ~challenge'[job'[q].via].live
  BY <1>5 DEF OpenInv, Openings
<1>7. ASSUME NEW c \in DOMAIN challenge
      PROVE  IF challenge[c].live THEN Issued(c)' = {}
             ELSE Cardinality(Issued(c)') + Cardinality(Opening(c)') <= Cardinality(Proc)
  <2>1. c # 0
    BY <1>2
  <2>2. Issued(c)' \subseteq Issued(c) \cup (IF row.via = c THEN {n} ELSE {})
    BY <1>3, <1>4 DEF Issued
  <2>3. Opening(c)' \subseteq Opening(c) \ {p}
    BY <1>5 DEF Opening
  <2>4. row.via = c => p \in Opening(c) /\ ~challenge[c].live
    BY <2>1 DEF Opening, OpenInv, Openings
  <2>5. CASE challenge[c].live
    BY <2>2, <2>4, <2>5 DEF OpenInv, Openings
  <2>6. CASE ~challenge[c].live
    <3>1. PICK S, R, A, B : S = Issued(c) /\ R = Opening(c) /\ A = Issued(c)' /\ B = Opening(c)'
      OBVIOUS
    <3>2. IsFiniteSet(S) /\ IsFiniteSet(R) /\ Cardinality(S) + Cardinality(R) <= Cardinality(Proc)
          /\ Cardinality(Proc) \in Nat /\ B \subseteq R \ {p}
      <4>1. IsFiniteSet(S) /\ R \subseteq Proc
        BY <3>1, Opened DEF OpenInv
      <4> QED
        BY <2>3, <2>6, <3>1, <4>1, SomeProcs DEF OpenInv, Openings
    <3>3. CASE row.via = c
      <4>1. p \in R /\ A \subseteq S \cup {n}
        BY <2>2, <2>4, <3>1, <3>3
      <4> QED
        BY <2>6, <3>1, <3>2, <4>1, Traded
    <3>4. CASE row.via # c
      <4>1. A \subseteq S
        BY <2>2, <3>1, <3>4
      <4>2. /\ Cardinality(A) <= Cardinality(S) /\ Cardinality(A) \in Nat /\ Cardinality(S) \in Nat
            /\ Cardinality(B) <= Cardinality(R) /\ Cardinality(B) \in Nat /\ Cardinality(R) \in Nat
        BY <3>2, <4>1, Fewer
      <4> QED
        BY <2>6, <3>1, <3>2, <4>2
    <3> QED
      BY <3>3, <3>4
  <2> QED
    BY <2>5, <2>6
<1> QED
  BY <1>6, <1>7 DEF OpenInv, Openings

(* A challenge is never there again. *)
LEMMA ChallengesEnd ==
  ASSUME Types, NEW p \in Proc, Serve(p)
  PROVE  /\ Spent
         /\ DeleteChallenge(p) => /\ job[p].pc = "oneShot" /\ job[p].via \in DOMAIN challenge
                                  /\ ~challenge'[job[p].via].live
<1>1. /\ challenge \in Seq(StepUp) /\ Len(challenge) \in Nat /\ DOMAIN challenge = 1..Len(challenge)
      /\ \A c \in 1..Len(challenge) : challenge[c] \in StepUp
      /\ job[p].user \in User /\ job[p].via \in 0..Len(challenge)
  BY Sizes, Handed DEF Types, StoreTypes, Job
<1>2. Len(challenge') \in Nat /\ Len(challenge') >= Len(challenge)
  BY ServeTurns DEF Turns, Stored
<1>3. CASE UNCHANGED challenge /\ ~DeleteChallenge(p)
  BY <1>2, <1>3 DEF Spent
<1>4. CASE Challenge(p) /\ job[p].pc = "challenge"
  <2>1. PICK row : row = [user |-> job[p].user, live |-> TRUE, ttl |-> FALSE]
    OBVIOUS
  <2>2. challenge' = Append(challenge, row) /\ row \in StepUp
    BY <1>1, <1>4, <2>1 DEF Challenge, At, StepUp
  <2>3. \A c \in 1..Len(challenge) : challenge'[c] = challenge[c]
    BY <1>1, <2>2, AppendProperties
  <2>4. Spent
    BY <1>1, <1>2, <2>3 DEF Spent
  <2> QED
    BY <1>4, <2>4 DEF DeleteChallenge, At
<1>5. ASSUME NEW c \in DOMAIN challenge, NEW row \in StepUp, challenge' = [challenge EXCEPT ![c] = row],
             row.live => challenge[c].live
      PROVE  Spent /\ challenge'[c] = row
  <2>1. \A b \in 1..Len(challenge) : challenge'[b] = IF b = c THEN row ELSE challenge[b]
    BY <1>1, <1>5, ExceptSeq
  <2> QED
    BY <1>1, <1>2, <1>5, <2>1 DEF Spent
<1>6. CASE Challenge(p) /\ job[p].pc # "challenge"
  <2>1. PICK c, row : c = job[p].via /\ row = [challenge[c] EXCEPT !.ttl = TRUE]
    OBVIOUS
  <2>2. job[p].pc = "ttl" /\ challenge' = [challenge EXCEPT ![c] = row]
    BY <1>1, <1>6, <2>1 DEF Challenge, At
  <2>3. c \in DOMAIN challenge
    BY <1>1, <2>1, <2>2, Handed DEF InHand
  <2>4. row \in StepUp /\ row.live = challenge[c].live
    BY <1>1, <2>1, <2>3 DEF StepUp
  <2>5. Spent
    BY <1>5, <2>2, <2>3, <2>4
  <2> QED
    BY <2>2, <2>5 DEF DeleteChallenge, At
<1>7. CASE DeleteChallenge(p)
  <2>1. PICK c, row : c = job[p].via /\ row = [challenge[c] EXCEPT !.live = FALSE]
    OBVIOUS
  <2>2. job[p].pc = "oneShot" /\ challenge' = [challenge EXCEPT ![c] = row]
    BY <1>1, <1>7, <2>1 DEF DeleteChallenge, At
  <2>3. c \in DOMAIN challenge
    BY <1>1, <2>1, <2>2, Handed DEF InHand
  <2>4. row \in StepUp /\ ~row.live
    BY <1>1, <2>1, <2>3 DEF StepUp
  <2>5. Spent /\ challenge'[c] = row
    BY <1>5, <2>2, <2>3, <2>4
  <2> QED
    BY <2>1, <2>2, <2>3, <2>4, <2>5
<1>8. UNCHANGED challenge \/ Challenge(p) \/ DeleteChallenge(p)
  BY DEF Serve, CreateUser, IssueRoot, SignedIn, CheckPassword, RecordFailure, SetLock,
         RecordSuccess, MigrateHash, Gate, Refuse, MarkUsed, CreateSuccessor, CheckOwner,
         EndSessions, Revoke, NewHash, UpdateColumns, SaveRow, WriteFails, redis
<1> QED
  BY <1>3, <1>4, <1>6, <1>7, <1>8

LEMMA OpenTurn ==
  ASSUME OpenInv, Types', RowsStay, Len(token') = Len(token), Spent, NEW p \in Proc, NEW r, Turn(p, r),
         r.pc = "oneShot" => r.via \in DOMAIN challenge /\ challenge'[r.via].live,
         r.pc = "issue" => \/ r.via = 0
                           \/ job[p].pc = "oneShot" /\ r.via = job[p].via /\ ~challenge'[r.via].live
  PROVE  OpenInv'
<1>1. \A q \in Proc : job'[q] = IF q = p THEN r ELSE job[q]
  BY DEF Turn, OpenInv, Types, JobTypes
<1>2. DOMAIN challenge = 1..Len(challenge) /\ \A q \in Proc : job[q].via \in 0..Len(challenge)
  BY Sizes, Handed DEF OpenInv
<1>3. ASSUME NEW q \in Proc, job'[q].pc = "issue", job'[q].via # 0 PROVE ~challenge'[job'[q].via].live
  <2>1. CASE q = p
    BY <1>1, <1>3, <2>1
  <2>2. CASE q # p
    <3>1. PICK c : c = job[q].via /\ c \in DOMAIN challenge /\ ~challenge[c].live
      BY <1>1, <1>2, <1>3, <2>2 DEF OpenInv, Openings
    <3> QED
      BY <1>1, <2>2, <3>1 DEF Spent
  <2> QED
    BY <2>1, <2>2
<1>4. ASSUME NEW c \in DOMAIN challenge, ~challenge'[c].live PROVE Opening(c)' \subseteq Opening(c)
  <2>1. c # 0
    BY <1>2
  <2> QED
    BY <1>1, <1>4, <2>1 DEF Opening
<1> QED
  BY <1>3, <1>4, OpenStays

LEMMA OpenStep == ASSUME OpenInv, [Next]_vars PROVE OpenInv'
<1>1. Types /\ Types' /\ Len(challenge) \in Nat /\ Len(challenge') \in Nat
      /\ \A q \in Proc : job[q].via \in 0..Len(challenge)
      /\ DOMAIN challenge = 1..Len(challenge)
  <2>1. Types /\ Types'
    BY StepTypes DEF OpenInv
  <2> QED
    BY <2>1, Sizes, Handed, LenProperties DEF Types, StoreTypes
<1>2. UNCHANGED challenge => Spent
  BY <1>1 DEF Spent
<1>3. ASSUME UNCHANGED job, RowsStay, Len(token') = Len(token), Spent PROVE OpenInv'
  <2>1. ASSUME NEW q \in Proc, job'[q].pc = "issue", job'[q].via # 0
        PROVE  ~challenge'[job'[q].via].live
    <3>1. PICK c : c = job[q].via /\ c \in DOMAIN challenge /\ ~challenge[c].live
      BY <1>1, <1>3, <2>1 DEF OpenInv, Openings
    <3> QED
      BY <1>3, <3>1 DEF Spent
  <2>2. \A c \in DOMAIN challenge : Opening(c)' = Opening(c)
    BY <1>3 DEF Opening
  <2> QED
    BY <1>1, <1>3, <2>1, <2>2, OpenStays
<1>4. UNCHANGED token => RowsStay /\ Len(token') = Len(token)
  BY <1>1, Unchanged
<1>5. ASSUME NEW p \in Proc, Receive(p) PROVE OpenInv'
  <2>1. UNCHANGED <<token, challenge>> /\ (UNCHANGED job \/ \E r : Turn(p, r) /\ Entered(p, r))
    BY <1>1, <1>5, Received DEF rows, redis
  <2>2. ASSUME NEW r, Turn(p, r), Entered(p, r) PROVE OpenInv'
    BY <1>1, <1>2, <1>4, <2>1, <2>2, OpenTurn DEF Entered
  <2> QED
    BY <1>2, <1>3, <1>4, <2>1, <2>2
<1>6. ASSUME NEW p \in Proc, Serve(p) PROVE OpenInv'
  <2>1. Turns(p) /\ RowsStay
    BY <1>1, <1>6, ServeTurns DEF Turns, Stored
  <2>2. PICK r : Turn(p, r) /\ Follows(p, r) /\ r = job'[p]
    <3>1. PICK r : Turn(p, r) /\ Follows(p, r)
      BY <2>1 DEF Turns
    <3>2. job'[p] = r
      BY <1>1, <3>1 DEF Turn, Types, JobTypes
    <3> QED
      BY <3>1, <3>2
  <2>3. CASE CreateSuccessor(p)
    <3>1. PICK row \in Token : token' = Append(token, row) /\ row.via = 0
      BY <1>1, <2>3, SuccessorRow
    <3>2. r.pc = "owner" /\ UNCHANGED challenge
      BY <1>1, <2>2, <2>3, Added DEF CreateSuccessor, redis
    <3> QED
      BY <1>1, <2>2, <3>1, <3>2, OpenAdds
  <2>4. CASE IssueRoot(p)
    <3>1. PICK row \in Token : token' = Append(token, row) /\ row.via = job[p].via /\ job[p].pc = "issue"
      BY <1>1, <2>4, RootRow
    <3>2. r.pc \in {"clear", "reply"} /\ UNCHANGED challenge
      BY <1>1, <2>2, <2>4, Added DEF IssueRoot, redis
    <3> QED
      BY <1>1, <2>2, <3>1, <3>2, OpenAdds
  <2>5. CASE ~CreateSuccessor(p) /\ ~IssueRoot(p)
    <3>1. Len(token') = Len(token)
      BY <1>1, <1>6, <2>5, RowsSame
    <3>2. r.pc # "oneShot"
      BY <2>2 DEF Follows
    <3>3. r.pc = "issue" => \/ r.via = 0
                            \/ job[p].pc = "oneShot" /\ r.via = job[p].via /\ ~challenge'[r.via].live
      BY <1>1, <1>6, <2>2, ChallengesEnd DEF Follows
    <3>4. Spent
      BY <1>1, <1>6, ChallengesEnd
    <3> QED
      BY <1>1, <2>1, <2>2, <3>1, <3>2, <3>3, <3>4, OpenTurn
  <2> QED
    BY <2>3, <2>4, <2>5
<1>7. CASE Environment
  <2>1. RowsStay /\ Len(token') = Len(token) /\ UNCHANGED job /\ Spent
    BY <1>1, <1>7, Around DEF Stored, Aside, Spent
  <2> QED
    BY <1>3, <2>1
<1>8. CASE Restart
  <2>1. UNCHANGED <<token, challenge>> /\ \A q \in Proc : job'[q] = Idle
    BY <1>1, <1>8, Restarted
  <2>2. \A q \in Proc : job'[q].pc = "idle"
    BY <2>1, IdleJob
  <2>3. \A c \in DOMAIN challenge : Opening(c)' = {}
    BY <2>2 DEF Opening
  <2> QED
    BY <1>1, <1>2, <1>4, <2>1, <2>2, <2>3, OpenStays
<1>9. CASE UNCHANGED vars
  BY <1>2, <1>3, <1>4, <1>9 DEF vars, rows, redis
<1> QED
  BY <1>5, <1>6, <1>7, <1>8, <1>9 DEF Next, Work

LEMMA InitOpen == ASSUME Init PROVE OpenInv
<1>1. Types /\ Len(challenge) = 0 /\ DOMAIN challenge = 1..Len(challenge)
      /\ \A p \in Proc : job[p].pc = "idle"
  <2>1. Types /\ Len(challenge) = 0 /\ \A p \in Proc : job[p] = Idle
    BY InitTypes, EmptySeq DEF Init
  <2> QED
    BY <2>1, Sizes, IdleJob
<1> QED
  BY <1>1 DEF OpenInv, Openings

LEMMA FewOpened ==
  ASSUME OpenInv
  PROVE  \A c \in DOMAIN challenge :
            Cardinality({t \in TokenId : token[t].via = c}) <= Cardinality(Proc)
<1>1. ASSUME NEW c \in DOMAIN challenge PROVE Cardinality(Issued(c)) <= Cardinality(Proc)
  <2>1. PICK S, R : S = Issued(c) /\ R = Opening(c)
    OBVIOUS
  <2>2. Cardinality(S) \in Nat /\ Cardinality(R) \in Nat /\ Cardinality(Proc) \in Nat
    BY <2>1, Opened, FS_CardinalityType, SomeProcs DEF OpenInv
  <2>3. CASE challenge[c].live
    <3>1. Issued(c) = {}
      BY <2>3 DEF OpenInv, Openings
    <3> QED
      BY <2>2, <3>1, FS_EmptySet
  <2>4. CASE ~challenge[c].live
    BY <2>1, <2>2, <2>4 DEF OpenInv, Openings
  <2> QED
    BY <2>3, <2>4
<1> QED
  BY <1>1 DEF Issued

-----------------------------------------------------------------------------
(* The detector watches and does nothing to what it watches. *)
LEMMA WatchSteps == ASSUME [WatchNext]_<<vars, watch>> PROVE [Next]_vars
BY DEF WatchNext, Next

(* A rotated token is dead, and a token, or a step-up, opens no more       *)
(* sessions than there are requests at a time.                             *)
THEOREM RotationKeeps == WatchSpec => []RotatedIsDead
<1>1. WatchInit => RotationInv /\ OpenInv
  BY InitRotation, InitOpen DEF WatchInit
<1>2. RotationInv /\ OpenInv /\ [WatchNext]_<<vars, watch>> => (RotationInv /\ OpenInv)'
  BY WatchSteps, RotationStep, OpenStep
<1>3. RotationInv /\ OpenInv => RotatedIsDead
  BY Rotated, FewOpened DEF RotatedIsDead
<1> QED
  BY <1>1, <1>2, <1>3, PTL DEF WatchSpec

-----------------------------------------------------------------------------
(* Guesses                                                                 *)

(* A wrong password is in the counter, or with a request that has still to *)
(* count it, or was with one that a restart ended.  The account is locked, *)
(* or the counter is below the limit, or a request is about to lock it;    *)
(* and a request that is to compare a password began while it was not.     *)
Guesses(j, k) == j.pc = "password" /\ k \in {j.user, Ip}
Fails(j, k) == j.pc = "fail" /\ k \in {j.user, Ip}
Locks(j, k) == j.pc = "lock" /\ k \in j.due
Guessing(k) == {p \in Proc : Guesses(job[p], k)}
Failing(k) == {p \in Proc : Fails(job[p], k)}
Locking(k) == {p \in Proc : Locks(job[p], k)}
Lost == Cardinality(Proc) * restarts
Throttled(k) ==
    /\ wrong[k] <= fails[k] + Lost + Cardinality(Failing(k))
    /\ ~lockout[k] => wrong[k] <= Tries[k] - 1 + Lost + Cardinality(Failing(k)) + Cardinality(Locking(k))
    /\ wrong[k] + Cardinality(Guessing(k)) <= Tries[k] - 1 + Lost + Cardinality(Proc)
ThrottleInv == Types /\ \A k \in Key : Throttled(k)

LEMMA Losses ==
  ASSUME Types
  PROVE  /\ Cardinality(Proc) \in Nat /\ restarts \in Nat /\ Lost \in Nat
         /\ Cardinality(Proc) * (restarts + 1) = Lost + Cardinality(Proc)
<1>1. PICK n, m : n = Cardinality(Proc) /\ m = restarts
  OBVIOUS
<1>2. n \in Nat /\ m \in Nat
  BY <1>1, SomeProcs DEF Types, ThrottleTypes
<1>3. n * m \in Nat /\ n * (m + 1) = n * m + n
  BY ONLY <1>2
<1> QED
  BY <1>1, <1>2, <1>3 DEF Lost

LEMMA Crowd ==
  ASSUME NEW jobs, NEW k, NEW G, NEW F, NEW L, G = {p \in Proc : Guesses(jobs[p], k)},
         F = {p \in Proc : Fails(jobs[p], k)}, L = {p \in Proc : Locks(jobs[p], k)}
  PROVE  /\ Cardinality(G) \in Nat /\ Cardinality(F) \in Nat /\ Cardinality(L) \in Nat
         /\ Cardinality(G) + Cardinality(F) + Cardinality(L) <= Cardinality(Proc)
<1>1. G \subseteq Proc /\ F \subseteq Proc /\ L \subseteq Proc
  OBVIOUS
<1>2. G \cap F = {} /\ G \cap L = {} /\ F \cap L = {}
  BY DEF Guesses, Fails, Locks
<1> QED
  BY <1>1, <1>2, SomeProcs, Apart

(* One of them may come or go. *)
LEMMA OneMoves ==
  ASSUME NEW S, S \subseteq Proc, NEW T, T \subseteq Proc, NEW p \in Proc, S \ {p} = T \ {p}
  PROVE  /\ p \in S /\ p \notin T => Cardinality(S) = Cardinality(T) + 1
         /\ p \notin S /\ p \in T => Cardinality(T) = Cardinality(S) + 1
         /\ (p \in S <=> p \in T) => T = S
<1>1. /\ IsFiniteSet(S) /\ IsFiniteSet(T) /\ Cardinality(S) \in Nat /\ Cardinality(T) \in Nat
  BY SomeProcs
<1>2. ASSUME p \in S, p \notin T PROVE Cardinality(S) = Cardinality(T) + 1
  <2>1. T = S \ {p}
    BY <1>2
  <2> QED
    BY <1>1, <1>2, <2>1, FS_RemoveElement
<1>3. ASSUME p \in T, p \notin S PROVE Cardinality(T) = Cardinality(S) + 1
  <2>1. S = T \ {p}
    BY <1>3
  <2> QED
    BY <1>1, <1>3, <2>1, FS_RemoveElement
<1> QED
  BY <1>2, <1>3

(* What a step may do to the numbers of one key: it is cleared, it stays,  *)
(* a wrong password is compared, a failure is counted, the key is locked,  *)
(* or a request begins, with the key unlocked.                             *)
ThrottledStep(w, f, l, b, R, F, L, G, ww, ff, ll, FF, LL, GG, try) ==
    \/ ww = 0 /\ ff = 0
    \/ ww = w /\ ff = f /\ ll = l /\ FF = F /\ LL = L /\ GG <= G
    \/ ww = w + 1 /\ ff = f /\ ll = l /\ FF = F + 1 /\ LL = L /\ GG = G - 1
    \/ /\ ww = w /\ ff = f + 1 /\ ll = l /\ FF = F - 1 /\ GG = G
       /\ LL = IF ff >= try THEN L + 1 ELSE L
    \/ ww = w /\ ff = f /\ ll /\ FF = F /\ GG = G
    \/ ww = w /\ ff = f /\ ll = l /\ ~l /\ FF = F /\ LL = L /\ GG = G + 1

LEMMA ThrottledKey ==
  ASSUME Types, Types', NEW k \in Key, Throttled(k), UNCHANGED restarts,
         ThrottledStep(wrong[k], fails[k], lockout[k], Lost, Cardinality(Proc), Cardinality(Failing(k)),
                       Cardinality(Locking(k)), Cardinality(Guessing(k)),
                       wrong'[k], fails'[k], lockout'[k], Cardinality(Failing(k)'),
                       Cardinality(Locking(k)'), Cardinality(Guessing(k)'), Tries[k])
  PROVE  Throttled(k)'
<1>1. PICK F, L, G, FF, LL, GG :
        /\ F = Failing(k) /\ L = Locking(k) /\ G = Guessing(k)
        /\ FF = Failing(k)' /\ LL = Locking(k)' /\ GG = Guessing(k)'
  OBVIOUS
<1>2. /\ Cardinality(F) \in Nat /\ Cardinality(L) \in Nat /\ Cardinality(G) \in Nat
  BY <1>1, Crowd DEF Failing, Locking, Guessing
<1>3. /\ Cardinality(FF) \in Nat /\ Cardinality(LL) \in Nat /\ Cardinality(GG) \in Nat
      /\ Cardinality(GG) + Cardinality(FF) + Cardinality(LL) <= Cardinality(Proc)
  <2>1. /\ GG = {p \in Proc : Guesses(job'[p], k)} /\ FF = {p \in Proc : Fails(job'[p], k)}
        /\ LL = {p \in Proc : Locks(job'[p], k)}
    BY <1>1 DEF Failing, Locking, Guessing, Guesses, Fails, Locks
  <2>2. PICK jobs : jobs = job'
    OBVIOUS
  <2>3. /\ GG = {p \in Proc : Guesses(jobs[p], k)} /\ FF = {p \in Proc : Fails(jobs[p], k)}
        /\ LL = {p \in Proc : Locks(jobs[p], k)}
    BY <2>1, <2>2
  <2> QED
    BY <2>3, Crowd
<1>4. /\ wrong[k] \in Nat /\ fails[k] \in Nat /\ lockout[k] \in BOOLEAN /\ Lost \in Nat
      /\ wrong'[k] \in Nat /\ fails'[k] \in Nat /\ lockout'[k] \in BOOLEAN
      /\ Cardinality(Proc) \in Nat /\ Tries[k] \in Nat \ {0} /\ Lost' = Lost
  BY Losses, TriesAssumption DEF Types, ThrottleTypes, Key, Lost
<1>5. PICK w, f, l, b, R, try, ww, ff, ll, nF, nL, nG, mF, mL, mG :
        /\ w = wrong[k] /\ f = fails[k] /\ l = lockout[k] /\ b = Lost /\ R = Cardinality(Proc)
        /\ try = Tries[k] /\ ww = wrong'[k] /\ ff = fails'[k] /\ ll = lockout'[k]
        /\ nF = Cardinality(F) /\ nL = Cardinality(L) /\ nG = Cardinality(G)
        /\ mF = Cardinality(FF) /\ mL = Cardinality(LL) /\ mG = Cardinality(GG)
  OBVIOUS
<1>6. /\ w \in Nat /\ f \in Nat /\ l \in BOOLEAN /\ b \in Nat /\ R \in Nat /\ try \in Nat \ {0}
      /\ ww \in Nat /\ ff \in Nat /\ ll \in BOOLEAN
      /\ nF \in Nat /\ nL \in Nat /\ nG \in Nat /\ mF \in Nat /\ mL \in Nat /\ mG \in Nat
      /\ mG + mF + mL <= R
  BY <1>2, <1>3, <1>4, <1>5
<1>7. /\ w <= f + b + nF /\ (~l => w <= try - 1 + b + nF + nL) /\ w + nG <= try - 1 + b + R
      /\ ThrottledStep(w, f, l, b, R, nF, nL, nG, ww, ff, ll, mF, mL, mG, try)
  BY <1>1, <1>5 DEF Throttled
<1>8. ww <= ff + b + mF /\ (~ll => ww <= try - 1 + b + mF + mL) /\ ww + mG <= try - 1 + b + R
  BY ONLY <1>6, <1>7 DEF ThrottledStep
<1> QED
  BY <1>1, <1>4, <1>5, <1>8 DEF Throttled

(* A turn of one goroutine, as far as the three sets of a key go.          *)
LEMMA Moved ==
  ASSUME NEW p \in Proc, NEW r, \A q \in Proc : job'[q] = IF q = p THEN r ELSE job[q], NEW k
  PROVE  /\ (Fails(r, k) <=> Fails(job[p], k)) => Failing(k)' = Failing(k)
         /\ Fails(r, k) /\ ~Fails(job[p], k) => Cardinality(Failing(k)') = Cardinality(Failing(k)) + 1
         /\ ~Fails(r, k) /\ Fails(job[p], k) => Cardinality(Failing(k)') = Cardinality(Failing(k)) - 1
         /\ (Locks(r, k) <=> Locks(job[p], k)) => Locking(k)' = Locking(k)
         /\ Locks(r, k) /\ ~Locks(job[p], k) => Cardinality(Locking(k)') = Cardinality(Locking(k)) + 1
         /\ (Guesses(r, k) <=> Guesses(job[p], k)) => Guessing(k)' = Guessing(k)
         /\ Guesses(r, k) /\ ~Guesses(job[p], k) => Cardinality(Guessing(k)') = Cardinality(Guessing(k)) + 1
         /\ ~Guesses(r, k) /\ Guesses(job[p], k) => Cardinality(Guessing(k)') = Cardinality(Guessing(k)) - 1
<1>1. PICK F, L, G, FF, LL, GG :
        /\ F = Failing(k) /\ L = Locking(k) /\ G = Guessing(k)
        /\ FF = Failing(k)' /\ LL = Locking(k)' /\ GG = Guessing(k)'
  OBVIOUS
<1>2. F \subseteq Proc /\ FF \subseteq Proc /\ F \ {p} = FF \ {p}
      /\ (p \in F <=> Fails(job[p], k)) /\ (p \in FF <=> Fails(r, k))
  BY <1>1 DEF Failing, Fails
<1>3. L \subseteq Proc /\ LL \subseteq Proc /\ L \ {p} = LL \ {p}
      /\ (p \in L <=> Locks(job[p], k)) /\ (p \in LL <=> Locks(r, k))
  BY <1>1 DEF Locking, Locks
<1>4. G \subseteq Proc /\ GG \subseteq Proc /\ G \ {p} = GG \ {p}
      /\ (p \in G <=> Guesses(job[p], k)) /\ (p \in GG <=> Guesses(r, k))
  BY <1>1 DEF Guessing, Guesses
<1>5. Cardinality(F) \in Nat /\ Cardinality(FF) \in Nat /\ Cardinality(L) \in Nat
      /\ Cardinality(G) \in Nat /\ Cardinality(GG) \in Nat
  BY <1>2, <1>3, <1>4, SomeProcs
<1>6. /\ (p \in F <=> p \in FF) => FF = F
      /\ p \in FF /\ p \notin F => Cardinality(FF) = Cardinality(F) + 1
      /\ p \notin FF /\ p \in F => Cardinality(FF) = Cardinality(F) - 1
  BY <1>2, <1>5, OneMoves
<1>7. /\ (p \in L <=> p \in LL) => LL = L
      /\ p \in LL /\ p \notin L => Cardinality(LL) = Cardinality(L) + 1
  BY <1>3, <1>5, OneMoves
<1>8. /\ (p \in G <=> p \in GG) => GG = G
      /\ p \in GG /\ p \notin G => Cardinality(GG) = Cardinality(G) + 1
      /\ p \notin GG /\ p \in G => Cardinality(GG) = Cardinality(G) - 1
  BY <1>4, <1>5, OneMoves
<1>9. /\ (Fails(r, k) <=> Fails(job[p], k)) => FF = F
      /\ Fails(r, k) /\ ~Fails(job[p], k) => Cardinality(FF) = Cardinality(F) + 1
      /\ ~Fails(r, k) /\ Fails(job[p], k) => Cardinality(FF) = Cardinality(F) - 1
  BY <1>2, <1>6
<1>10. /\ (Locks(r, k) <=> Locks(job[p], k)) => LL = L
       /\ Locks(r, k) /\ ~Locks(job[p], k) => Cardinality(LL) = Cardinality(L) + 1
  BY <1>3, <1>7
<1>11. /\ (Guesses(r, k) <=> Guesses(job[p], k)) => GG = G
       /\ Guesses(r, k) /\ ~Guesses(job[p], k) => Cardinality(GG) = Cardinality(G) + 1
       /\ ~Guesses(r, k) /\ Guesses(job[p], k) => Cardinality(GG) = Cardinality(G) - 1
  BY <1>4, <1>8
<1> QED
  BY <1>1, <1>9, <1>10, <1>11

LEMMA Cleared ==
  ASSUME Types, NEW c \in Key, ClearKey(c), NEW k \in Key
  PROVE  IF k = c THEN wrong'[k] = 0 /\ fails'[k] = 0
         ELSE wrong'[k] = wrong[k] /\ fails'[k] = fails[k] /\ lockout'[k] = lockout[k]
BY DEF Types, ThrottleTypes, ClearKey

LEMMA Gone ==
  ASSUME Types, NEW p \in Proc, NEW label, Goto(p, label)
  PROVE  /\ job'[p].pc = label /\ job'[p].user = job[p].user
         /\ job'[p].row = job[p].row /\ job'[p].op = job[p].op
<1>1. job \in [Proc -> Job] /\ job[p] \in Job
  BY DEF Types, JobTypes
<1>2. job'[p] = [job[p] EXCEPT !.pc = label]
  BY <1>1 DEF Goto
<1> QED
  BY <1>1, <1>2 DEF Job

LEMMA Dropped ==
  ASSUME Types, NEW p \in Proc, Done(p) PROVE job'[p] = Idle /\ job'[p].pc = "idle"
BY IdleJob DEF Types, JobTypes, Done

LEMMA ThrottleServes ==
  ASSUME Types, Types', NEW p \in Proc, Serve(p), NEW k \in Key, Throttled(k)
  PROVE  Throttled(k)'
<1>1. PICK r : /\ Turn(p, r) /\ Follows(p, r) /\ r = job'[p]
               /\ \A q \in Proc : job'[q] = IF q = p THEN r ELSE job[q]
  <2>1. PICK r : Turn(p, r) /\ Follows(p, r)
    BY ServeTurns DEF Turns
  <2>2. \A q \in Proc : job'[q] = IF q = p THEN r ELSE job[q]
    BY <2>1 DEF Turn, Types, JobTypes
  <2> QED
    BY <2>1, <2>2
<1>2. UNCHANGED restarts
  BY ServeTurns DEF Turns
<1>3. PICK j : j = job[p] /\ j \in Job
  BY DEF Types, JobTypes
<1>4. /\ fails \in [Key -> Nat] /\ lockout \in [Key -> BOOLEAN] /\ wrong \in [Key -> Nat]
      /\ j.user \in Key /\ j.user # Ip /\ Ip \in Key
  BY <1>3, TriesAssumption DEF Types, ThrottleTypes, Job, Key
<1>5. r.pc # "password" /\ (r.pc = "fail" => CheckPassword(p)) /\ (r.pc = "lock" => RecordFailure(p) \/ SetLock(p))
  BY <1>1 DEF Follows
<1>6. CASE CheckPassword(p)
  <2>1. j.pc = "password" /\ UNCHANGED <<fails, lockout>>
    BY <1>3, <1>6 DEF CheckPassword, At, redis
  <2>2. r.pc # "lock"
    BY <1>3, <1>5, <2>1 DEF RecordFailure, SetLock, At
  <2>3. ~Locks(r, k) /\ ~Locks(j, k) /\ ~Guesses(r, k) /\ ~Fails(j, k)
    BY <1>5, <2>1, <2>2 DEF Locks, Guesses, Fails
  <2>4. CASE Goto(p, "fail") /\ wrong' = [x \in Key |-> IF x \in {j.user, Ip} THEN wrong[x] + 1 ELSE wrong[x]]
    <3>1. r.pc = "fail" /\ r.user = j.user
      BY <1>1, <1>3, <2>4, Gone
    <3>2. CASE k \in {j.user, Ip}
      <4>1. Fails(r, k) /\ Guesses(j, k)
        BY <2>1, <3>1, <3>2 DEF Fails, Guesses
      <4>2. wrong'[k] = wrong[k] + 1
        BY <2>4, <3>2
      <4>3. /\ Cardinality(Failing(k)') = Cardinality(Failing(k)) + 1 /\ Locking(k)' = Locking(k)
            /\ Cardinality(Guessing(k)') = Cardinality(Guessing(k)) - 1
        BY <1>1, <1>3, <2>3, <4>1, Moved
      <4> QED
        BY <1>2, <2>1, <4>2, <4>3, ThrottledKey DEF ThrottledStep
    <3>3. CASE k \notin {j.user, Ip}
      <4>1. ~Fails(r, k) /\ ~Guesses(j, k)
        BY <3>1, <3>3 DEF Fails, Guesses
      <4>2. wrong'[k] = wrong[k]
        BY <2>4, <3>3
      <4>3. Failing(k)' = Failing(k) /\ Locking(k)' = Locking(k) /\ Guessing(k)' = Guessing(k)
        BY <1>1, <1>3, <2>3, <4>1, Moved
      <4>4. Cardinality(Guessing(k)) \in Nat
        BY Crowd DEF Guessing
      <4> QED
        BY <1>2, <2>1, <4>2, <4>3, <4>4, ThrottledKey DEF ThrottledStep
    <3> QED
      BY <3>2, <3>3
  <2>5. CASE UNCHANGED wrong /\ r.pc # "fail"
    <3>1. ~Fails(r, k)
      BY <2>5 DEF Fails
    <3>2. Failing(k)' = Failing(k) /\ Locking(k)' = Locking(k)
      BY <1>1, <1>3, <2>3, <3>1, Moved
    <3>3. Cardinality(Guessing(k)') <= Cardinality(Guessing(k))
      <4>1. Cardinality(Guessing(k)) \in Nat
        BY Crowd DEF Guessing
      <4>2. Guessing(k)' = Guessing(k) \/ Cardinality(Guessing(k)') = Cardinality(Guessing(k)) - 1
        BY <1>1, <1>3, <2>3, Moved
      <4> QED
        BY <4>1, <4>2
    <3> QED
      BY <1>2, <2>1, <2>5, <3>2, <3>3, ThrottledKey DEF ThrottledStep
  <2>6. \/ Goto(p, "fail") /\ wrong' = [x \in Key |-> IF x \in {j.user, Ip} THEN wrong[x] + 1 ELSE wrong[x]]
        \/ UNCHANGED wrong /\ r.pc # "fail"
    <3>1. CASE Done(p) /\ UNCHANGED wrong
      BY <1>1, <3>1, Dropped
    <3>2. ASSUME NEW row, UNCHANGED wrong,
                 job' = [job EXCEPT ![p].row = row, ![p].pc = IF row.legacy THEN "migrate" ELSE "gate"]
          PROVE  UNCHANGED wrong /\ r.pc # "fail"
      <4>1. PICK l : l = IF row.legacy THEN "migrate" ELSE "gate"
        OBVIOUS
      <4>2. r = [j EXCEPT !.row = row, !.pc = l]
        BY <1>1, <1>3, <3>2, <4>1 DEF Types, JobTypes
      <4>3. r.pc = l
        BY <1>3, <4>2 DEF Job
      <4> QED
        BY <3>2, <4>1, <4>3
    <3>3. PICK row : row = acct[j.user]
      OBVIOUS
    <3>4. \/ Goto(p, "fail") /\ wrong' = [x \in Key |-> IF x \in {j.user, Ip} THEN wrong[x] + 1 ELSE wrong[x]]
          \/ UNCHANGED wrong /\ Done(p)
          \/ /\ UNCHANGED wrong
             /\ job' = [job EXCEPT ![p].row = row, ![p].pc = IF row.legacy THEN "migrate" ELSE "gate"]
      BY <1>3, <1>6, <3>3 DEF CheckPassword
    <3> QED
      BY <3>1, <3>2, <3>4
  <2> QED
    BY <2>4, <2>5, <2>6
<1>7. CASE RecordFailure(p)
  <2>1. PICK n, ks : /\ n = [x \in Key |-> IF x \in {j.user, Ip} THEN fails[x] + 1 ELSE fails[x]]
                     /\ ks = {x \in {j.user, Ip} : n[x] >= Tries[x]}
    OBVIOUS
  <2>2. /\ j.pc = "fail" /\ fails' = n /\ UNCHANGED <<lockout, wrong>>
        /\ job' = [job EXCEPT ![p].due = ks, ![p].pc = "lock"]
    BY <1>3, <1>7, <2>1 DEF RecordFailure, At, past
  <2>3. r.pc = "lock" /\ r.due = ks
    <3>1. r = [j EXCEPT !.due = ks, !.pc = "lock"]
      BY <1>1, <1>3, <2>2 DEF Types, JobTypes
    <3> QED
      BY <1>3, <3>1 DEF Job
  <2>4. ~Fails(r, k) /\ ~Guesses(r, k) /\ ~Guesses(j, k) /\ ~Locks(j, k)
    BY <2>2, <2>3 DEF Fails, Guesses, Locks
  <2>5. CASE k \in {j.user, Ip}
    <3>1. fails'[k] = fails[k] + 1 /\ Fails(j, k) /\ (Locks(r, k) <=> fails'[k] >= Tries[k])
      BY <2>1, <2>2, <2>3, <2>5 DEF Fails, Locks
    <3>2. /\ Cardinality(Failing(k)') = Cardinality(Failing(k)) - 1 /\ Guessing(k)' = Guessing(k)
          /\ Cardinality(Locking(k)') = IF fails'[k] >= Tries[k] THEN Cardinality(Locking(k)) + 1
                                        ELSE Cardinality(Locking(k))
      BY <1>1, <1>3, <2>4, <3>1, Moved
    <3> QED
      BY <1>2, <2>2, <3>1, <3>2, ThrottledKey DEF ThrottledStep
  <2>6. CASE k \notin {j.user, Ip}
    <3>1. fails'[k] = fails[k] /\ ~Fails(j, k) /\ ~Locks(r, k)
      BY <2>1, <2>2, <2>3, <2>6 DEF Fails, Locks
    <3>2. Failing(k)' = Failing(k) /\ Guessing(k)' = Guessing(k) /\ Locking(k)' = Locking(k)
      BY <1>1, <1>3, <2>4, <3>1, Moved
    <3>3. Cardinality(Guessing(k)) \in Nat
      BY Crowd DEF Guessing
    <3> QED
      BY <1>2, <2>2, <3>1, <3>2, <3>3, ThrottledKey DEF ThrottledStep
  <2> QED
    BY <2>5, <2>6
<1>8. CASE SetLock(p)
  <2>1. PICK due, next : due = j.due /\ next = IF j.user \in due THEN j.user ELSE Ip
    OBVIOUS
  <2>2. /\ j.pc = "lock" /\ UNCHANGED <<fails, wrong>>
        /\ \/ due = {} /\ Done(p) /\ UNCHANGED lockout
           \/ /\ lockout' = [lockout EXCEPT ![next] = TRUE]
              /\ job' = [job EXCEPT ![p].due = @ \ {next}]
    BY <1>3, <1>8, <2>1 DEF SetLock, At, past
  <2>3. r.pc # "fail" /\ r.pc # "password"
    BY <1>3, <1>5, <2>2 DEF CheckPassword, At
  <2>4. ~Fails(r, k) /\ ~Guesses(r, k) /\ ~Guesses(j, k) /\ ~Fails(j, k)
    BY <2>2, <2>3 DEF Fails, Guesses
  <2>5. Failing(k)' = Failing(k) /\ Guessing(k)' = Guessing(k)
    BY <1>1, <1>3, <2>4, Moved
  <2>6. lockout'[k] \/ (lockout'[k] = lockout[k] /\ (Locks(r, k) <=> Locks(j, k)))
    <3>1. CASE due = {} /\ Done(p) /\ UNCHANGED lockout
      <4>1. r.pc = "idle"
        BY <1>1, <3>1, Dropped
      <4> QED
        BY <2>1, <3>1, <4>1 DEF Locks
    <3>2. CASE lockout' = [lockout EXCEPT ![next] = TRUE] /\ job' = [job EXCEPT ![p].due = @ \ {next}]
      <4>1. PICK ks : ks = due \ {next}
        OBVIOUS
      <4>2. r = [j EXCEPT !.due = ks]
        BY <1>1, <1>3, <2>1, <3>2, <4>1 DEF Types, JobTypes
      <4>3. r.due = ks /\ r.pc = "lock"
        BY <1>3, <2>2, <4>2 DEF Job
      <4>4. CASE k = next
        BY <1>4, <3>2, <4>4
      <4>5. CASE k # next
        BY <1>4, <2>1, <2>2, <3>2, <4>1, <4>3, <4>5 DEF Locks
      <4> QED
        BY <4>4, <4>5
    <3> QED
      BY <2>2, <3>1, <3>2
  <2>7. lockout'[k] \/ (lockout'[k] = lockout[k] /\ Locking(k)' = Locking(k))
    BY <1>1, <1>3, <2>6, Moved
  <2>8. Cardinality(Guessing(k)) \in Nat
    BY Crowd DEF Guessing
  <2> QED
    BY <1>2, <2>2, <2>5, <2>7, <2>8, ThrottledKey DEF ThrottledStep
<1>9. CASE ~CheckPassword(p) /\ ~RecordFailure(p) /\ ~SetLock(p)
  <2>1. j.pc \notin {"password", "fail", "lock"} /\ r.pc \notin {"password", "fail", "lock"}
    BY <1>3, <1>5, <1>9, Places
  <2>2. /\ ~Fails(r, k) /\ ~Guesses(r, k) /\ ~Locks(r, k)
        /\ ~Fails(j, k) /\ ~Guesses(j, k) /\ ~Locks(j, k)
    BY <2>1 DEF Fails, Guesses, Locks
  <2>3. Failing(k)' = Failing(k) /\ Guessing(k)' = Guessing(k) /\ Locking(k)' = Locking(k)
    BY <1>1, <1>3, <2>2, Moved
  <2>4. \/ wrong'[k] = 0 /\ fails'[k] = 0
        \/ wrong'[k] = wrong[k] /\ fails'[k] = fails[k] /\ lockout'[k] = lockout[k]
    <3>1. CASE RecordSuccess(p)
      <4>1. ClearKey(j.user)
        BY <1>3, <3>1 DEF RecordSuccess
      <4> QED
        BY <1>4, <4>1, Cleared
    <3>2. CASE ~RecordSuccess(p)
      BY <1>9, <3>2 DEF Serve, CreateUser, IssueRoot, SignedIn, MigrateHash, Gate, Challenge,
           DeleteChallenge, Refuse, MarkUsed, CreateSuccessor, CheckOwner, EndSessions, Revoke,
           NewHash, UpdateColumns, SaveRow, WriteFails, redis, past
    <3> QED
      BY <3>1, <3>2
  <2>5. Cardinality(Guessing(k)) \in Nat
    BY Crowd DEF Guessing
  <2> QED
    BY <1>2, <2>3, <2>4, <2>5, ThrottledKey DEF ThrottledStep
<1> QED
  BY <1>6, <1>7, <1>8, <1>9

LEMMA ThrottleStep == ASSUME ThrottleInv, [Next]_vars PROVE ThrottleInv'
<1>1. Types /\ Types'
  BY StepTypes DEF ThrottleInv
<1>2. ASSUME NEW k \in Key PROVE Throttled(k) /\ Cardinality(Guessing(k)) \in Nat
  BY Crowd DEF ThrottleInv, Guessing
<1>3. ASSUME NEW k \in Key, UNCHANGED <<job, restarts>>,
             \/ wrong'[k] = 0 /\ fails'[k] = 0
             \/ wrong'[k] = wrong[k] /\ fails'[k] = fails[k] /\ lockout'[k] = lockout[k]
      PROVE  Throttled(k)'
  <2>1. Failing(k)' = Failing(k) /\ Guessing(k)' = Guessing(k) /\ Locking(k)' = Locking(k)
    BY <1>3 DEF Failing, Guessing, Locking, Fails, Guesses, Locks
  <2> QED
    BY <1>1, <1>2, <1>3, <2>1, ThrottledKey DEF ThrottledStep
<1>4. ASSUME UNCHANGED <<job, restarts, fails, lockout, wrong>> PROVE ThrottleInv'
  BY <1>1, <1>3, <1>4 DEF ThrottleInv
<1>5. ASSUME NEW p \in Proc, Receive(p) PROVE ThrottleInv'
  <2>1. UNCHANGED <<restarts, fails, lockout, wrong>> /\ (UNCHANGED job \/ \E r : Turn(p, r) /\ Entered(p, r))
    BY <1>1, <1>5, Received DEF redis, past
  <2>2. ASSUME NEW r, Turn(p, r), Entered(p, r), NEW k \in Key PROVE Throttled(k)'
    <3>1. \A q \in Proc : job'[q] = IF q = p THEN r ELSE job[q]
      BY <1>1, <2>2 DEF Turn, Types, JobTypes
    <3>2. /\ ~Fails(r, k) /\ ~Locks(r, k) /\ (Guesses(r, k) => ~lockout[k])
          /\ ~Fails(job[p], k) /\ ~Locks(job[p], k) /\ ~Guesses(job[p], k)
      BY <2>2 DEF Entered, Fails, Locks, Guesses
    <3>3. Failing(k)' = Failing(k) /\ Locking(k)' = Locking(k)
      BY <3>1, <3>2, Moved
    <3>4. CASE Guesses(r, k)
      <4>1. Cardinality(Guessing(k)') = Cardinality(Guessing(k)) + 1
        BY <3>1, <3>2, <3>4, Moved
      <4> QED
        BY <1>1, <1>2, <2>1, <3>2, <3>3, <3>4, <4>1, ThrottledKey DEF ThrottledStep
    <3>5. CASE ~Guesses(r, k)
      <4>1. Guessing(k)' = Guessing(k)
        BY <3>1, <3>2, <3>5, Moved
      <4> QED
        BY <1>1, <1>2, <2>1, <3>3, <4>1, ThrottledKey DEF ThrottledStep
    <3> QED
      BY <3>4, <3>5
  <2> QED
    BY <1>1, <1>4, <2>1, <2>2 DEF ThrottleInv
<1>6. ASSUME NEW p \in Proc, Serve(p) PROVE ThrottleInv'
  BY <1>1, <1>2, <1>6, ThrottleServes DEF ThrottleInv
<1>7. CASE Environment
  <2>1. UNCHANGED <<job, restarts>> /\ (UNCHANGED <<fails, lockout, wrong>> \/ \E c \in Key : ClearKey(c))
    BY <1>1, <1>7, Around DEF Aside
  <2>2. ASSUME NEW c \in Key, ClearKey(c), NEW k \in Key PROVE Throttled(k)'
    BY <1>1, <1>3, <2>1, <2>2, Cleared
  <2> QED
    BY <1>1, <1>4, <2>1, <2>2 DEF ThrottleInv
<1>8. CASE Restart
  <2>1. UNCHANGED <<fails, lockout, wrong>> /\ restarts' = restarts + 1 /\ \A q \in Proc : job'[q].pc = "idle"
    BY <1>1, <1>8, Restarted, IdleJob
  <2>2. ASSUME NEW k \in Key PROVE Throttled(k)'
    <3>1. Failing(k)' = {} /\ Guessing(k)' = {} /\ Locking(k)' = {}
      BY <2>1 DEF Failing, Guessing, Locking, Fails, Guesses, Locks
    <3>2. /\ Cardinality(Failing(k)') = 0 /\ Cardinality(Guessing(k)') = 0
          /\ Cardinality(Locking(k)') = 0
      BY <3>1, FS_EmptySet
    <3>3. PICK F, L, G : F = Cardinality(Failing(k)) /\ L = Cardinality(Locking(k)) /\ G = Cardinality(Guessing(k))
      OBVIOUS
    <3>4. F \in Nat /\ L \in Nat /\ G \in Nat /\ G + F + L <= Cardinality(Proc)
      BY <3>3, Crowd DEF Failing, Locking, Guessing
    <3>5. Lost' = Lost + Cardinality(Proc) /\ Lost \in Nat /\ Cardinality(Proc) \in Nat
      BY <1>1, <2>1, Losses DEF Lost
    <3>6. wrong[k] \in Nat /\ fails[k] \in Nat /\ lockout[k] \in BOOLEAN /\ Tries[k] \in Nat
      BY <1>1, TriesAssumption DEF Types, ThrottleTypes, Key
    <3>7. /\ wrong[k] <= fails[k] + Lost + F
          /\ ~lockout[k] => wrong[k] <= Tries[k] - 1 + Lost + F + L
          /\ wrong[k] + G <= Tries[k] - 1 + Lost + Cardinality(Proc)
      BY <1>2, <3>3 DEF Throttled
    <3> QED
      BY <2>1, <3>2, <3>4, <3>5, <3>6, <3>7 DEF Throttled
  <2> QED
    BY <1>1, <2>2 DEF ThrottleInv
<1>9. CASE UNCHANGED vars
  BY <1>4, <1>9 DEF vars, redis, past
<1> QED
  BY <1>5, <1>6, <1>7, <1>8, <1>9 DEF Next, Work

LEMMA InitThrottle == ASSUME Init PROVE ThrottleInv
<1>1. /\ Types /\ \A p \in Proc : job[p].pc = "idle"
  BY InitTypes, IdleJob DEF Init
<1>2. ASSUME NEW k \in Key PROVE Throttled(k)
  <2>1. Failing(k) = {} /\ Guessing(k) = {} /\ Locking(k) = {}
    BY <1>1 DEF Failing, Guessing, Locking, Fails, Guesses, Locks
  <2>2. /\ Cardinality(Failing(k)) = 0 /\ Cardinality(Guessing(k)) = 0 /\ Cardinality(Locking(k)) = 0
    BY <2>1, FS_EmptySet
  <2>3. wrong[k] = 0 /\ fails[k] = 0 /\ Tries[k] \in Nat \ {0} /\ Lost \in Nat /\ Cardinality(Proc) \in Nat
    BY <1>1, Losses, TriesAssumption DEF Init, Key
  <2> QED
    BY <2>2, <2>3 DEF Throttled
<1> QED
  BY <1>1, <1>2 DEF ThrottleInv

(* An account, or an address, gets no more guesses than its limit and one  *)
(* for every request there can be at a time, and as many for each restart. *)
THEOREM GuessesStayBounded == WatchSpec => []GuessesBounded
<1>1. WatchInit => ThrottleInv
  BY InitThrottle DEF WatchInit
<1>2. ThrottleInv /\ [WatchNext]_<<vars, watch>> => ThrottleInv'
  BY WatchSteps, ThrottleStep
<1>3. ThrottleInv => GuessesBounded
  <2>1. ASSUME ThrottleInv, NEW k \in Key
        PROVE  wrong[k] <= Tries[k] - 1 + Cardinality(Proc) * (restarts + 1)
    <3>1. PICK G : G = Cardinality(Guessing(k)) /\ G \in Nat
      BY Crowd DEF Guessing
    <3>2. wrong[k] \in Nat /\ Tries[k] \in Nat
      BY <2>1, TriesAssumption DEF ThrottleInv, Types, ThrottleTypes, Key
    <3>3. /\ Lost \in Nat /\ Cardinality(Proc) \in Nat
          /\ Cardinality(Proc) * (restarts + 1) = Lost + Cardinality(Proc)
      BY <2>1, Losses DEF ThrottleInv
    <3>4. wrong[k] + G <= Tries[k] - 1 + Lost + Cardinality(Proc)
      BY <2>1, <3>1 DEF ThrottleInv, Throttled
    <3> QED
      BY <3>1, <3>2, <3>3, <3>4
  <2> QED
    BY <2>1 DEF GuessesBounded
<1> QED
  BY <1>1, <1>2, <1>3, PTL DEF WatchSpec

-----------------------------------------------------------------------------
(* Locked accounts                                                         *)

(* Where nobody unlocks an account and nobody saves a name, an account     *)
(* that is locked stays so: what a request is about to save has the lock,  *)
(* and a row that was created under it belongs to a locked account.        *)
NoUnlock == here.ops \cap {"unlock", "profile"} = {}
Marked ==
    /\ \A u \in User : acct[u].locked => acct[u].made
    /\ \A p \in Proc : job[p].pc = "save" => job[p].row.made /\ (NoUnlock => job[p].row.locked)
    /\ NoUnlock => \A t \in TokenId : token[t].lockedAt => acct[token[t].user].locked
LockInv == RotationInv /\ Marked /\ LockEndsSessions

(* What Serve does to the locks. *)
LEMMA StaysLocked ==
  ASSUME Types, Marked, NEW p \in Proc, Serve(p), NEW u \in User
  PROVE  /\ acct'[u].locked => acct'[u].made
         /\ NoUnlock /\ acct[u].locked => acct'[u].locked
<1>1. acct \in [User -> Row] /\ acct[u] \in Row
  BY DEF Types, StoreTypes
<1>2. PICK j, v : j = job[p] /\ v = j.user /\ j \in Job /\ v \in User /\ j.row \in Row /\ j.pass \in Nat
  BY Handed DEF Job
<1>3. acct[v] \in Row /\ (acct[u].locked => acct[u].made)
  BY <1>1, <1>2 DEF Marked
<1>4. ASSUME NEW row, acct' = [acct EXCEPT ![v] = row],
             row.locked => row.made, NoUnlock /\ acct[v].locked => row.locked
      PROVE  /\ acct'[u].locked => acct'[u].made
             /\ NoUnlock /\ acct[u].locked => acct'[u].locked
  BY <1>1, <1>2, <1>3, <1>4
<1>5. CASE SaveRow(p)
  <2>1. acct' = [acct EXCEPT ![v] = j.row] /\ j.pc = "save"
    BY <1>2, <1>5 DEF SaveRow, At
  <2> QED
    BY <1>2, <1>4, <2>1 DEF Marked
<1>6. CASE CreateUser(p) /\ acct' # acct
  <2>1. PICK n, row : n = (IF j.op = "google" THEN 0 ELSE 1) /\ row = [NoRow EXCEPT !.made = TRUE, !.pass = n]
    OBVIOUS
  <2>2. ~acct[v].made /\ acct' = [acct EXCEPT ![v] = row]
    BY <1>2, <1>6, <2>1 DEF CreateUser, Found
  <2>3. row.made
    BY <2>1 DEF NoRow
  <2> QED
    BY <1>2, <1>4, <2>2, <2>3 DEF Marked
<1>7. CASE MigrateHash(p) \/ NewHash(p)
  <2>1. PICK row : row = [acct[v] EXCEPT !.pass = j.pass, !.legacy = FALSE]
    OBVIOUS
  <2>2. acct' = [acct EXCEPT ![v] = row]
    BY <1>1, <1>2, <1>7, <2>1 DEF MigrateHash, NewHash
  <2>3. row.locked = acct[v].locked /\ row.made = acct[v].made
    BY <1>3, <2>1 DEF Row
  <2> QED
    BY <1>2, <1>4, <2>2, <2>3 DEF Marked
<1>8. CASE UpdateColumns(p)
  <2>1. PICK on, row : /\ on = j.row.is2fa
                       /\ row = [acct[v] EXCEPT !.is2fa = on, !.secret = on /\ acct[v].secret]
    OBVIOUS
  <2>2. acct' = [acct EXCEPT ![v] = row]
    BY <1>1, <1>2, <1>8, <2>1 DEF UpdateColumns
  <2>3. row.locked = acct[v].locked /\ row.made = acct[v].made
    BY <1>3, <2>1 DEF Row
  <2> QED
    BY <1>2, <1>4, <2>2, <2>3 DEF Marked
<1>9. CASE UNCHANGED acct
  BY <1>3, <1>9
<1>10. UNCHANGED acct \/ SaveRow(p) \/ CreateUser(p) \/ MigrateHash(p) \/ NewHash(p) \/ UpdateColumns(p)
  BY DEF Serve, IssueRoot, SignedIn, CheckPassword, RecordFailure, SetLock, RecordSuccess, Gate,
         Challenge, DeleteChallenge, Refuse, MarkUsed, CreateSuccessor, CheckOwner, EndSessions,
         Revoke, WriteFails, rows
<1> QED
  BY <1>5, <1>6, <1>7, <1>8, <1>9, <1>10

(* A live successor of a locked account's token has a request behind it.   *)
Behind(u) == \E p \in Proc : job[p].pc \in {"owner", "endAll"} /\ job[p].user = u

LEMMA StillBehind ==
  ASSUME Types, NEW p \in Proc, Serve(p), NEW t \in TokenId, Live(t)',
         acct[token[t].user].locked, Behind(token[t].user)
  PROVE  Behind(token[t].user)'
<1>1. PICK u : u = token[t].user /\ acct[u].locked
  OBVIOUS
<1>2. PICK q \in Proc : job[q].pc \in {"owner", "endAll"} /\ job[q].user = u
  BY <1>1 DEF Behind
<1>3. PICK r : \A s \in Proc : job'[s] = IF s = p THEN r ELSE job[s]
  <2>1. PICK r : Turn(p, r)
    BY ServeTurns DEF Turns
  <2> QED
    BY <2>1 DEF Turn, Types, JobTypes
<1>4. UNCHANGED token => token'[t].user = u
  BY <1>1
<1>5. CASE q # p
  <2>1. job'[q] = job[q]
    BY <1>3, <1>5
  <2> QED
    BY <1>1, <1>2, <2>1, ServeTurns DEF Behind, Turns, Stored, RowsStay, Same
<1>6. CASE q = p /\ job[p].pc = "owner"
  <2>1. CheckOwner(p)
    BY <1>6, Places
  <2>2. Goto(p, "endAll") /\ UNCHANGED token
    BY <1>1, <1>2, <1>6, <2>1 DEF CheckOwner, rows
  <2>3. job'[p].pc = "endAll" /\ job'[p].user = u
    BY <1>2, <1>6, <2>2, Gone
  <2> QED
    BY <1>1, <1>4, <2>2, <2>3 DEF Behind
<1>7. CASE q = p /\ job[p].pc = "endAll"
  <2>1. token' = Revoked({s \in TokenId : token[s].user = u})
    BY <1>2, <1>7, Places DEF EndSessions, RevokeByUser
  <2>2. token'[t].revoked
    <3>1. t \in {s \in TokenId : token[s].user = u}
      BY <1>1
    <3>2. token \in Seq(Token)
      BY DEF Types, StoreTypes
    <3> QED
      BY <2>1, <3>1, <3>2, RevokedRows
  <2> QED
    BY <2>2 DEF Live
<1> QED
  BY <1>2, <1>5, <1>6, <1>7

(* The rows that were there before the step. *)
LEMMA OldRows ==
  ASSUME Types, Marked, RowsStay, UNCHANGED here,
         \A u \in User : NoUnlock /\ acct[u].locked => acct'[u].locked
  PROVE  /\ NoUnlock => \A t \in TokenId : token'[t].lockedAt => acct'[token'[t].user].locked
         /\ \A t \in TokenId : /\ Live(t)' => Live(t)
                               /\ token'[t].user = token[t].user /\ token'[t].parent = token[t].parent
                               /\ token'[t].lockedAt = token[t].lockedAt /\ token[t].user \in User
         /\ NoUnlock' = NoUnlock
<1>1. ASSUME NEW t \in TokenId
      PROVE  /\ Live(t)' => Live(t)
             /\ token'[t].user = token[t].user /\ token'[t].parent = token[t].parent
             /\ token'[t].lockedAt = token[t].lockedAt /\ token[t].user \in User
  <2>1. Same(token'[t], token[t]) /\ token[t] \in Token
    BY Parents DEF RowsStay
  <2> QED
    BY <2>1 DEF Same, Live, Token
<1>2. NoUnlock' = NoUnlock
  BY DEF NoUnlock
<1>3. ASSUME NoUnlock, NEW t \in TokenId, token'[t].lockedAt PROVE acct'[token'[t].user].locked
  BY <1>1, <1>3 DEF Marked
<1> QED
  BY <1>1, <1>2, <1>3

LEMMA LockStep == ASSUME LockInv, [Next]_vars PROVE LockInv'
<1>1. Types /\ Types' /\ RotationInv /\ RotationInv' /\ Marked /\ LockEndsSessions
      /\ \A p \in Proc : job[p] \in Job
  BY StepTypes, RotationStep DEF LockInv, RotationInv, Types, JobTypes
<1>2. ASSUME UNCHANGED <<job, here, restarts>>, RowsStay, Len(token') = Len(token),
             \A u \in User : acct'[u].locked = acct[u].locked /\ acct'[u].made = acct[u].made
      PROVE  LockInv'
  <2>1. TokenId' = TokenId
    BY <1>2 DEF TokenId
  <2>2. /\ NoUnlock => \A t \in TokenId : token'[t].lockedAt => acct'[token'[t].user].locked
        /\ \A t \in TokenId : /\ Live(t)' => Live(t)
                              /\ token'[t].user = token[t].user /\ token'[t].parent = token[t].parent
                              /\ token'[t].lockedAt = token[t].lockedAt
        /\ NoUnlock' = NoUnlock
    BY <1>1, <1>2, OldRows
  <2>3. Marked'
    BY <1>1, <1>2, <2>1, <2>2 DEF Marked
  <2>4. LockEndsSessions'
    BY <1>1, <1>2, <2>1, <2>2 DEF LockEndsSessions
  <2> QED
    BY <1>1, <2>3, <2>4 DEF LockInv
<1>3. ASSUME NEW p \in Proc, Receive(p) PROVE LockInv'
  <2>1. UNCHANGED <<acct, token, here, restarts>> /\ (UNCHANGED job \/ \E r : Turn(p, r) /\ Entered(p, r))
    BY <1>1, <1>3, Received DEF rows, past
  <2>2. RowsStay /\ Len(token') = Len(token)
    BY <1>1, <2>1, Unchanged
  <2>3. ASSUME NEW r, Turn(p, r), Entered(p, r) PROVE LockInv'
    <3>1. \A q \in Proc : job'[q] = IF q = p THEN r ELSE job[q]
      BY <1>1, <2>3 DEF Turn, Types, JobTypes
    <3>2. r.pc = "save" => r.row.made /\ (NoUnlock => r.row.locked)
      BY <2>3 DEF Entered, NoUnlock
    <3>3. Marked'
      BY <1>1, <2>1, <3>1, <3>2 DEF Marked, NoUnlock, TokenId
    <3>4. \A q \in Proc : job[q].pc \in {"owner", "endAll"} => job'[q] = job[q]
      BY <2>3, <3>1 DEF Entered
    <3>5. LockEndsSessions'
      BY <1>1, <2>1, <3>4 DEF LockEndsSessions, TokenId, Live
    <3> QED
      BY <1>1, <3>3, <3>5 DEF LockInv
  <2> QED
    BY <1>2, <2>1, <2>2, <2>3
<1>4. ASSUME NEW p \in Proc, Serve(p) PROVE LockInv'
  <2>1. RowsStay /\ UNCHANGED <<here, restarts>>
    BY <1>1, <1>4, ServeTurns DEF Turns, Stored
  <2>2. PICK r : /\ Turn(p, r) /\ Follows(p, r) /\ r = job'[p]
                 /\ \A q \in Proc : job'[q] = IF q = p THEN r ELSE job[q]
    <3>1. PICK r : Turn(p, r) /\ Follows(p, r)
      BY <1>1, <1>4, ServeTurns DEF Turns
    <3>2. \A q \in Proc : job'[q] = IF q = p THEN r ELSE job[q]
      BY <1>1, <3>1 DEF Turn, Types, JobTypes
    <3> QED
      BY <3>1, <3>2
  <2>3. \A u \in User : /\ acct'[u].locked => acct'[u].made
                        /\ NoUnlock /\ acct[u].locked => acct'[u].locked
    BY <1>1, <1>4, StaysLocked
  <2>4. /\ NoUnlock => \A t \in TokenId : token'[t].lockedAt => acct'[token'[t].user].locked
        /\ \A t \in TokenId : /\ Live(t)' => Live(t)
                              /\ token'[t].user = token[t].user /\ token'[t].parent = token[t].parent
                              /\ token'[t].lockedAt = token[t].lockedAt /\ token[t].user \in User
        /\ NoUnlock' = NoUnlock
    BY <1>1, <2>1, <2>3, OldRows
  <2>5. r.pc # "save"
    BY <2>2 DEF Follows
  <2>6. ASSUME NoUnlock, NEW t \in TokenId PROVE token'[t].lockedAt => acct'[token'[t].user].locked
    BY <2>4, <2>6
  <2>7. ASSUME NoUnlock, restarts' = 0, NEW t \in TokenId, Live(t)', token'[t].parent # 0, token'[t].lockedAt
        PROVE  Behind(token[t].user)'
    <3>1. Live(t) /\ token[t].parent # 0 /\ token[t].lockedAt /\ restarts = 0
      BY <2>1, <2>4, <2>7
    <3>2. acct[token[t].user].locked /\ Behind(token[t].user)
      BY <1>1, <2>7, <3>1 DEF Marked, LockEndsSessions, NoUnlock, Behind
    <3> QED
      BY <1>1, <1>4, <2>7, <3>2, StillBehind
  <2>8. CASE CreateSuccessor(p) \/ IssueRoot(p)
    <3>1. PICK row \in Token : /\ token' = Append(token, row) /\ row.lockedAt = acct[row.user].locked
                               /\ CreateSuccessor(p) => /\ row.parent = job[p].tok /\ job[p].pc = "successor"
                                                        /\ row.user = token[job[p].tok].user
                               /\ ~CreateSuccessor(p) => row.parent = 0
      <4>1. CASE CreateSuccessor(p)
        BY <1>1, <4>1, SuccessorRow
      <4>2. CASE ~CreateSuccessor(p)
        BY <1>1, <2>8, <4>2, RootRow
      <4> QED
        BY <4>1, <4>2
    <3>2. PICK n : n = Len(token) + 1
      OBVIOUS
    <3>3. Len(token') = n /\ token'[n] = row /\ TokenId' = TokenId \cup {n} /\ n \notin TokenId
      BY <1>1, <3>1, <3>2, AddRow, Parents DEF Types, StoreTypes, TokenId
    <3>4. row.user \in User
      BY DEF Token
    <3>5. ASSUME NoUnlock, row.lockedAt PROVE acct'[row.user].locked
      BY <2>3, <3>1, <3>4, <3>5
    <3>6. ASSUME row.parent # 0 PROVE job'[p].pc = "owner" /\ job'[p].user = row.user
      <4>1. CreateSuccessor(p) /\ job[p].pc = "successor" /\ row.user = token[job[p].tok].user
        BY <3>1, <3>6
      <4>2. token[job[p].tok].user = job[p].user
        BY <1>1, <4>1 DEF RotationInv, Rotations, RotatingToken
      <4> QED
        BY <1>1, <4>1, <4>2, Added
    <3>7. Marked'
      BY <1>1, <2>2, <2>3, <2>4, <2>5, <2>6, <3>3, <3>5 DEF Marked
    <3>8. ASSUME NoUnlock, restarts' = 0, NEW t \in TokenId', Live(t)', token'[t].parent # 0, token'[t].lockedAt
          PROVE  \E q \in Proc : job'[q].pc \in {"owner", "endAll"} /\ job'[q].user = token'[t].user
      <4>1. CASE t = n
        BY <3>3, <3>6, <3>8, <4>1
      <4>2. CASE t \in TokenId
        BY <2>7, <3>8, <4>2 DEF Behind
      <4> QED
        BY <3>3, <4>1, <4>2
    <3>9. LockEndsSessions'
      BY <2>4, <3>8 DEF LockEndsSessions, NoUnlock
    <3> QED
      BY <1>1, <3>7, <3>9 DEF LockInv
  <2>9. CASE ~CreateSuccessor(p) /\ ~IssueRoot(p)
    <3>1. TokenId' = TokenId
      BY <1>1, <1>4, <2>9, RowsSame DEF TokenId
    <3>2. Marked'
      BY <1>1, <2>2, <2>3, <2>4, <2>5, <2>6, <3>1 DEF Marked
    <3>3. ASSUME NoUnlock, restarts' = 0, NEW t \in TokenId', Live(t)', token'[t].parent # 0, token'[t].lockedAt
          PROVE  \E q \in Proc : job'[q].pc \in {"owner", "endAll"} /\ job'[q].user = token'[t].user
      BY <2>7, <3>1, <3>3 DEF Behind
    <3>4. LockEndsSessions'
      BY <2>4, <3>3 DEF LockEndsSessions, NoUnlock
    <3> QED
      BY <1>1, <3>2, <3>4 DEF LockInv
  <2> QED
    BY <2>8, <2>9
<1>5. CASE Environment
  <2>1. RowsStay /\ Aside
    BY <1>1, <1>5, Around DEF Stored
  <2> QED
    BY <1>2, <2>1 DEF Aside
<1>6. CASE Restart
  <2>1. UNCHANGED <<acct, token, here>> /\ restarts' = restarts + 1 /\ \A q \in Proc : job'[q].pc = "idle"
    BY <1>1, <1>6, Restarted, IdleJob
  <2>2. restarts' # 0
    BY <1>1, <2>1 DEF Types, ThrottleTypes
  <2>3. Marked'
    BY <1>1, <2>1 DEF Marked, NoUnlock, TokenId
  <2> QED
    BY <1>1, <2>2, <2>3 DEF LockInv, LockEndsSessions
<1>7. CASE UNCHANGED vars
  <2>1. UNCHANGED <<acct, token, job, here, restarts>>
    BY <1>7 DEF vars, rows, past
  <2>2. RowsStay /\ Len(token') = Len(token)
    BY <1>1, <2>1, Unchanged
  <2> QED
    BY <1>2, <2>1, <2>2
<1> QED
  BY <1>3, <1>4, <1>5, <1>6, <1>7 DEF Next, Work

LEMMA InitLock == ASSUME Init PROVE LockInv
<1>1. TokenId = {} /\ \A p \in Proc : job[p].pc = "idle"
  <2>1. Len(token) = 0 /\ \A p \in Proc : job[p] = Idle
    BY EmptySeq DEF Init
  <2> QED
    BY <2>1, IdleJob DEF TokenId
<1>2. ASSUME NEW u \in User PROVE ~acct[u].locked
  <2>1. PICK made \in BOOLEAN, legacy \in {FALSE, Allowed("login")}, twofa \in {FALSE, Allowed("totp")} :
           acct = [x \in User |-> IF ~made THEN NoRow
                     ELSE [NoRow EXCEPT !.made = TRUE, !.pass = 1, !.legacy = legacy,
                                        !.is2fa = twofa, !.secret = twofa]]
    BY DEF Init
  <2> QED
    BY <2>1 DEF NoRow
<1> QED
  BY <1>1, <1>2, InitRotation DEF LockInv, Marked, LockEndsSessions

(* While an account stays locked, a live successor created since then      *)
(* belongs to a request that has still to look at the account.             *)
THEOREM LocksEndSessions == WatchSpec => []LockEndsSessions
<1>1. WatchInit => LockInv
  BY InitLock DEF WatchInit
<1>2. LockInv /\ [WatchNext]_<<vars, watch>> => LockInv'
  BY WatchSteps, LockStep
<1>3. LockInv => LockEndsSessions
  BY DEF LockInv
<1> QED
  BY <1>1, <1>2, <1>3, PTL DEF WatchSpec

-----------------------------------------------------------------------------
(* Anomalies                                                               *)

Action == {login, "anomaly.velocity", "anomaly.geo", "anomaly.cross_ip"}
Signed == [user : User, dev : Device, quiet : BOOLEAN]
Entry == [of : Nat, action : Action, at : Nat]
Check == [of : Nat, at : Nat]
WatchTypes ==
    /\ here \in Situation /\ now \in Nat /\ signed \in Seq(Signed)
    /\ journal \in Seq(Entry) /\ \A n \in DOMAIN journal : journal[n].of \in DOMAIN signed
    /\ writing \subseteq (DOMAIN signed) \X Action
    /\ checking \in Seq({"velocity", "geo", "addresses", "done"}) /\ Len(checking) = Len(signed)
    /\ vel \in [User -> [count : Nat, left : Nat]]
    /\ counted \in Seq(Check)
    /\ \A n \in DOMAIN counted : counted[n].of \in DOMAIN signed

(* The counter of an account is at least the number of its sign-ins within *)
(* the window that ends now, because it lasts as long as each of them.     *)
Counted(u) == {n \in DOMAIN counted : /\ signed[counted[n].of].user = u
                                      /\ counted[n].at > now - VelWindow}
BurstInv ==
    /\ \A n \in DOMAIN counted :
          /\ counted[n].at <= now
          /\ counted[n].at + VelWindow <= now + vel[signed[counted[n].of].user].left
    /\ \A u \in User : Cardinality(Counted(u)) <= vel[u].count
    /\ BurstsAreFound

(* A sign-in makes a row of each action at most, that of a check not       *)
(* before the check.                                                       *)
RowOf(i, a) == \E n \in DOMAIN journal : journal[n].of = i /\ journal[n].action = a
Noted(i, a) == <<i, a>> \in writing \/ RowOf(i, a)
NotYet(stage) ==
    IF stage = "velocity" THEN {"anomaly.velocity", "anomaly.geo", "anomaly.cross_ip"}
    ELSE IF stage = "geo" THEN {"anomaly.geo", "anomaly.cross_ip"}
    ELSE IF stage = "addresses" THEN {"anomaly.cross_ip"} ELSE {}
RowsOnce ==
    /\ \A m, n \in DOMAIN journal :
          journal[m].of = journal[n].of /\ journal[m].action = journal[n].action => m = n
    /\ \A i \in DOMAIN signed, a \in Action : <<i, a>> \in writing => ~RowOf(i, a)
    /\ \A i \in DOMAIN signed : \A a \in NotYet(checking[i]) : ~Noted(i, a)
LoginsNoted == here.faults = {} => \A i \in DOMAIN signed : Noted(i, login)

(* What was under way when a quiet sign-in came is none of an earlier one; *)
(* so the rows of earlier ones precede its own.                            *)
Ended(j) ==
    /\ \A i \in DOMAIN signed : i < j => checking[i] = "done"
    /\ \A i \in DOMAIN signed, a \in Action : <<i, a>> \in writing => i >= j
    /\ \A m, n \in DOMAIN journal : journal[m].of < j /\ journal[n].of >= j => m < n
InTurn == \A j \in DOMAIN signed : signed[j].quiet => Ended(j)

(* What TravelIsFound says, from the comparison on. *)
Compared(j) == checking[j] \in {"addresses", "done"}
Followed(i) == /\ i + 1 \in DOMAIN signed /\ Compared(i + 1)
               /\ CameAlone(i) /\ CameAlone(i + 1) /\ CameAlone(i + 2)
               /\ Suspicious(i, i + 1) /\ WrittenInTime(i)
Travelled == here.faults = {} =>
    \A i \in DOMAIN signed : Followed(i) => <<i + 1, "anomaly.geo">> \in found


LEMMA SignsStay ==
    ASSUME WatchTypes, UNCHANGED signed \/ \E x \in Signed : signed' = Append(signed, x)
    PROVE  /\ Len(signed') \in Nat /\ Len(signed) \in Nat /\ Len(signed) <= Len(signed')
           /\ DOMAIN signed = 1..Len(signed) /\ DOMAIN signed' = 1..Len(signed')
           /\ \A i \in DOMAIN signed : i \in DOMAIN signed' /\ signed'[i] = signed[i]
<1>1. CASE UNCHANGED signed
  BY <1>1 DEF WatchTypes
<1>2. CASE \E x \in Signed : signed' = Append(signed, x)
  BY <1>2 DEF WatchTypes
<1> QED
  BY <1>1, <1>2

LEMMA SignedTypes ==
    ASSUME WatchTypes, NEW i \in DOMAIN signed
    PROVE  /\ signed[i] \in Signed /\ signed[i].user \in User
           /\ i \in Nat /\ i \in 1..Len(signed) /\ Len(signed) \in Nat
           /\ i \in DOMAIN checking /\ checking[i] \in {"velocity", "geo", "addresses", "done"}
<1>1. signed \in Seq(Signed) /\ Len(checking) = Len(signed)
      /\ checking \in Seq({"velocity", "geo", "addresses", "done"})
  BY DEF WatchTypes
<1>2. signed[i] \in Signed /\ i \in 1..Len(signed) /\ Len(signed) \in Nat /\ i \in DOMAIN checking
  BY ONLY <1>1, i \in DOMAIN signed
<1> QED
  BY ONLY <1>1, <1>2 DEF Signed

LEMMA CountedTypes ==
    ASSUME WatchTypes, NEW n \in DOMAIN counted
    PROVE  /\ counted[n].of \in DOMAIN signed /\ counted[n].at \in Nat
           /\ signed[counted[n].of].user \in User
           /\ n \in 1..Len(counted) /\ Len(counted) \in Nat
<1>1. counted \in Seq(Check) /\ counted[n].of \in DOMAIN signed
  BY DEF WatchTypes
<1>2. counted[n] \in Check /\ n \in 1..Len(counted) /\ Len(counted) \in Nat
  BY ONLY <1>1, n \in DOMAIN counted
<1>3. signed[counted[n].of].user \in User
  BY <1>1, SignedTypes
<1> QED
  BY <1>1, <1>2, <1>3 DEF Check

(* Types *)

LEMMA LoggedInTypes ==
    ASSUME WatchTypes, here' = here, NEW u \in User, NEW d \in here.devices, LoggedIn(u, d)
    PROVE  WatchTypes' /\ \E x \in Signed : signed' = Append(signed, x)
<1>1. d \in Device
  BY SomeAssumption DEF WatchTypes
<1>2. PICK q \in BOOLEAN : q = (writing = {} /\ \A i \in DOMAIN checking : checking[i] = "done")
  OBVIOUS
<1>3. signed' = Append(signed, [user |-> u, dev |-> d, quiet |-> q])
  BY <1>2 DEF LoggedIn
<1>4. [user |-> u, dev |-> d, quiet |-> q] \in Signed
  BY <1>1 DEF Signed
<1>5. /\ signed' \in Seq(Signed) /\ Len(signed') = Len(signed) + 1 /\ DOMAIN signed' = 1..(Len(signed) + 1)
      /\ DOMAIN signed = 1..Len(signed) /\ Len(signed) \in Nat
  BY <1>3, <1>4 DEF WatchTypes
<1>6. writing' \subseteq (DOMAIN signed') \X Action
  <2>1. writing' = writing \cup {<<Len(signed) + 1, login>>}
    BY DEF LoggedIn
  <2> QED
    BY <1>5, <2>1 DEF WatchTypes, Action
<1>7. checking' \in Seq({"velocity", "geo", "addresses", "done"}) /\ Len(checking') = Len(signed')
  BY <1>5 DEF WatchTypes, LoggedIn
<1>8. UNCHANGED <<now, journal, vel, counted>>
  BY DEF LoggedIn
<1> QED
  BY <1>3, <1>4, <1>5, <1>6, <1>7, <1>8 DEF WatchTypes

LEMMA RaisedTypes ==
    ASSUME WatchTypes, NEW i \in DOMAIN signed, NEW a \in Action,
           RaiseIf(TRUE, <<i, a>>) \/ RaiseIf(FALSE, <<i, a>>)
    PROVE  writing' \subseteq (DOMAIN signed) \X Action
BY DEF WatchTypes, RaiseIf, Raise

LEMMA CheckedTypes ==
    ASSUME WatchTypes, UNCHANGED signed, NEW i \in DOMAIN checking, NEW label,
           NEW next \in {"geo", "addresses", "done"}, CheckAt(i, label, next)
    PROVE  /\ checking' \in Seq({"velocity", "geo", "addresses", "done"})
           /\ Len(checking') = Len(signed') /\ i \in DOMAIN signed
BY DEF WatchTypes, CheckAt

LEMMA TickTypes == ASSUME WatchTypes, here' = here, Tick PROVE WatchTypes'
<1>1. vel' \in [User -> [count : Nat, left : Nat]]
  <2>1. ASSUME NEW u \in User
        PROVE  (IF vel[u].left <= 1 THEN [count |-> 0, left |-> 0] ELSE [vel[u] EXCEPT !.left = @ - 1])
                  \in [count : Nat, left : Nat]
    <3>1. PICK v \in [count : Nat, left : Nat] : v = vel[u]
      BY DEF WatchTypes
    <3>2. v.left > 1 => v.left - 1 \in Nat
      OBVIOUS
    <3> QED
      BY <3>1, <3>2
  <2> QED
    BY <2>1 DEF Tick
<1> QED
  BY <1>1 DEF Tick, WatchTypes

LEMMA WriteRowTypes ==
    ASSUME WatchTypes, here' = here, NEW w \in writing, WriteRow(w)
    PROVE  WatchTypes'
<1>1. w[1] \in DOMAIN signed /\ w[2] \in Action /\ w[1] \in Nat
  BY DEF WatchTypes
<1>2. journal' \in Seq(Entry) /\ \A n \in DOMAIN journal' : journal'[n].of \in DOMAIN signed
  <2>1. CASE UNCHANGED journal
    BY <2>1 DEF WatchTypes
  <2>2. CASE journal' = Append(journal, [of |-> w[1], action |-> w[2], at |-> now])
    <3>1. [of |-> w[1], action |-> w[2], at |-> now] \in Entry
      BY <1>1 DEF WatchTypes, Entry
    <3> QED
      BY <1>1, <2>2, <3>1 DEF WatchTypes
  <2> QED
    BY <2>1, <2>2 DEF WriteRow
<1> QED
  BY <1>2 DEF WriteRow, WatchTypes

LEMMA CountTypes ==
    ASSUME WatchTypes, here' = here, NEW i \in DOMAIN checking, CountLogin(i)
    PROVE  WatchTypes' /\ i \in DOMAIN signed
<1>1. UNCHANGED <<now, journal, signed>> /\ CheckAt(i, "velocity", "geo")
  BY DEF CountLogin
<1>2. /\ i \in DOMAIN signed /\ checking' \in Seq({"velocity", "geo", "addresses", "done"})
      /\ Len(checking') = Len(signed')
  BY <1>1, CheckedTypes
<1>3. signed[i].user \in User /\ i \in Nat
  BY <1>2, SignedTypes
<1>4. vel' \in [User -> [count : Nat, left : Nat]]
  BY <1>3, AnomalyAssumption DEF CountLogin, Incr, WatchTypes
<1>5. writing' \subseteq (DOMAIN signed) \X Action
  BY <1>2, RaisedTypes DEF CountLogin, RaiseIf, Action
<1>6. /\ counted' \in Seq(Check)
      /\ \A n \in DOMAIN counted' : counted'[n].of \in DOMAIN signed
  <2>1. counted' = Append(counted, [of |-> i, at |-> now])
    BY DEF CountLogin
  <2> QED
    BY <1>2, <1>3, <2>1 DEF WatchTypes, Check
<1> QED
  BY <1>1, <1>2, <1>4, <1>5, <1>6 DEF WatchTypes

LEMMA CompareTypes ==
    ASSUME WatchTypes, here' = here, NEW i \in DOMAIN checking, CompareIP(i)
    PROVE  WatchTypes' /\ i \in DOMAIN signed
<1>1. /\ UNCHANGED <<now, journal, vel, signed, counted>>
      /\ \E next \in {"addresses", "done"} : CheckAt(i, "geo", next)
  BY DEF CompareIP
<1>2. /\ i \in DOMAIN signed /\ checking' \in Seq({"velocity", "geo", "addresses", "done"})
      /\ Len(checking') = Len(signed')
  BY <1>1, CheckedTypes
<1>3. writing' \subseteq (DOMAIN signed) \X Action
  BY <1>2, RaisedTypes DEF CompareIP, RaiseIf, Action
<1> QED
  BY <1>1, <1>2, <1>3 DEF WatchTypes

LEMMA AddressesTypes ==
    ASSUME WatchTypes, here' = here, NEW i \in DOMAIN checking, CountAddresses(i)
    PROVE  WatchTypes' /\ i \in DOMAIN signed
<1>1. /\ UNCHANGED <<now, journal, vel, signed, counted>>
      /\ CheckAt(i, "addresses", "done")
  BY DEF CountAddresses
<1>2. /\ i \in DOMAIN signed /\ checking' \in Seq({"velocity", "geo", "addresses", "done"})
      /\ Len(checking') = Len(signed')
  BY <1>1, CheckedTypes
<1>3. writing' \subseteq (DOMAIN signed) \X Action
  BY <1>2, RaisedTypes DEF CountAddresses, RaiseIf, Action
<1> QED
  BY <1>1, <1>2, <1>3 DEF WatchTypes

LEMMA EndTypes ==
    ASSUME WatchTypes, here' = here, EndGoroutines PROVE WatchTypes'
BY DEF WatchTypes, EndGoroutines

(* Bursts *)

LEMMA CountedFinite ==
    ASSUME WatchTypes, NEW u \in User
    PROVE  /\ IsFiniteSet(Counted(u)) /\ Cardinality(Counted(u)) \in Nat
           /\ DOMAIN counted = 1..Len(counted) /\ Len(counted) \in Nat
<1>1. DOMAIN counted = 1..Len(counted) /\ Len(counted) \in Nat
  BY DEF WatchTypes
<1>2. IsFiniteSet(1..Len(counted)) /\ Counted(u) \in SUBSET (1..Len(counted))
  BY <1>1, FS_Interval DEF Counted
<1> QED
  BY <1>1, <1>2, FS_Subset, FS_CardinalityType

LEMMA BurstsStay ==
    ASSUME WatchTypes, BurstInv, UNCHANGED <<now, vel, counted>>, found \subseteq found',
           UNCHANGED signed \/ \E x \in Signed : signed' = Append(signed, x)
    PROVE  BurstInv'
<1>1. \A n \in DOMAIN counted : signed'[counted[n].of].user = signed[counted[n].of].user
  BY SignsStay DEF WatchTypes
<1>2. ASSUME NEW u \in User PROVE Counted(u)' = Counted(u)
  BY <1>1 DEF Counted
<1>3. ASSUME NEW k \in DOMAIN counted PROVE Burst(k)' = Burst(k)
  <2>1. \A n \in 1..k : n \in DOMAIN counted
    BY DEF WatchTypes
  <2> QED
    BY <1>1, <2>1 DEF Burst
<1>4. BurstsAreFound'
  BY <1>3 DEF BurstInv, BurstsAreFound
<1> QED
  BY <1>1, <1>2, <1>4 DEF BurstInv

LEMMA TickBursts ==
    ASSUME WatchTypes, BurstInv, Tick PROVE BurstInv'
<1>1. /\ UNCHANGED <<signed, counted, found>> /\ now' = now + 1 /\ now \in Nat
      /\ VelWindow \in Nat /\ VelWindow > 0
  BY AnomalyAssumption DEF Tick, WatchTypes
<1>2. ASSUME NEW u \in User
      PROVE  vel[u].left \in Nat /\ (\/ vel[u].left <= 1 /\ vel'[u].left = 0
                                     \/ /\ vel[u].left > 1 /\ vel'[u].left = vel[u].left - 1
                                        /\ vel'[u].count = vel[u].count)
                  /\ vel'[u].count \in Nat
  <2>1. PICK v \in [count : Nat, left : Nat] : v = vel[u]
    BY DEF WatchTypes
  <2>2. vel'[u] = IF v.left <= 1 THEN [count |-> 0, left |-> 0] ELSE [v EXCEPT !.left = @ - 1]
    BY <2>1 DEF Tick
  <2> QED
    BY <2>1, <2>2
<1>3. ASSUME NEW n \in DOMAIN counted
      PROVE  /\ counted[n].at \in Nat /\ signed[counted[n].of].user \in User
             /\ counted[n].at <= now' /\ counted[n].at <= now
             /\ counted[n].at + VelWindow <= now + vel[signed[counted[n].of].user].left
             /\ counted[n].at + VelWindow <= now' + vel'[signed[counted[n].of].user].left
  <2>3. PICK t \in Nat, u \in User : t = counted[n].at /\ u = signed[counted[n].of].user
    BY CountedTypes
  <2>4. t <= now /\ t + VelWindow <= now + vel[u].left
    BY <2>3 DEF BurstInv
  <2>5. t + VelWindow <= now' + vel'[u].left
    BY <1>1, <1>2, <2>3, <2>4
  <2> QED
    BY <1>1, <2>3, <2>4, <2>5
<1>4. ASSUME NEW u \in User PROVE Cardinality(Counted(u))' <= vel'[u].count
  <2>1. Counted(u)' \subseteq Counted(u)
    BY <1>1, <1>3 DEF Counted
  <2>2. Cardinality(Counted(u)') <= Cardinality(Counted(u)) /\ Cardinality(Counted(u)') \in Nat
    BY <2>1, CountedFinite, FS_Subset, FS_CardinalityType
  <2>3. CASE vel[u].left <= 1
    <3>1. Counted(u)' = {}
      BY <1>1, <1>2, <1>3, <2>3 DEF Counted
    <3> QED
      BY <1>2, <3>1, FS_EmptySet
  <2>4. CASE ~(vel[u].left <= 1)
    <3>1. vel'[u].count = vel[u].count /\ vel[u].count \in Nat
      BY <1>2, <2>4
    <3>2. Cardinality(Counted(u)) <= vel[u].count /\ Cardinality(Counted(u)) \in Nat
      BY CountedFinite DEF BurstInv
    <3> QED
      BY <2>2, <3>1, <3>2
  <2> QED
    BY <2>3, <2>4
<1>5. BurstsAreFound'
  BY <1>1 DEF BurstInv, BurstsAreFound, Burst
<1> QED
  BY <1>1, <1>3, <1>4, <1>5 DEF BurstInv

LEMMA CountBursts ==
    ASSUME WatchTypes, BurstInv, NEW i \in DOMAIN checking, CountLogin(i), i \in DOMAIN signed
    PROVE  BurstInv'
<1>1. /\ UNCHANGED <<signed, now>> /\ now \in Nat /\ VelWindow \in Nat /\ VelWindow > 0 /\ VelThresh \in Nat
      /\ counted' = Append(counted, [of |-> i, at |-> now]) /\ found \subseteq found'
  BY AnomalyAssumption DEF CountLogin, RaiseIf, Raise, WatchTypes
<1>2. PICK u \in User : u = signed[i].user
  BY SignedTypes
<1>3. PICK k : k = Len(counted) + 1
  OBVIOUS
<1>4. /\ DOMAIN counted = 1..Len(counted) /\ Len(counted) \in Nat /\ DOMAIN counted' = 1..k /\ k \in Nat
      /\ k \notin DOMAIN counted /\ DOMAIN counted' = DOMAIN counted \cup {k}
      /\ counted'[k].of = i /\ counted'[k].at = now
      /\ \A n \in DOMAIN counted : counted'[n] = counted[n]
  <2>1. /\ counted \in Seq(Check) /\ [of |-> i, at |-> now] \in Check
        /\ counted' = Append(counted, [of |-> i, at |-> now])
    BY <1>1, SignedTypes DEF WatchTypes, Check
  <2> QED
    BY ONLY <2>1, <1>3
<1>5. /\ vel[u] \in [count : Nat, left : Nat] /\ vel'[u].count = vel[u].count + 1 /\ vel'[u].left = VelWindow
      /\ \A v \in User : v # u => vel'[v] = vel[v]
  BY <1>2 DEF CountLogin, Incr, WatchTypes
<1>6. ASSUME NEW n \in DOMAIN counted
      PROVE  /\ counted[n].at \in Nat /\ counted[n].at <= now /\ signed[counted[n].of].user \in User
             /\ counted[n].at + VelWindow <= now + vel'[signed[counted[n].of].user].left
  <2>3. PICK t \in Nat, v \in User : t = counted[n].at /\ v = signed[counted[n].of].user
    BY CountedTypes
  <2>4. t <= now /\ t + VelWindow <= now + vel[v].left
    BY <2>3 DEF BurstInv
  <2>5. t + VelWindow <= now + vel'[v].left
    BY <1>1, <1>5, <2>3, <2>4
  <2> QED
    BY <2>3, <2>4, <2>5
<1>7. Counted(u)' = Counted(u) \cup {k}
  BY <1>1, <1>2, <1>4 DEF Counted
<1>8. ASSUME NEW v \in User, v # u PROVE Counted(v)' = Counted(v)
  BY <1>1, <1>2, <1>4, <1>8 DEF Counted
<1>9. Cardinality(Counted(u)') = Cardinality(Counted(u)) + 1 /\ Cardinality(Counted(u)) \in Nat
  <2>1. k \notin Counted(u)
    BY <1>4 DEF Counted
  <2> QED
    BY <1>7, <2>1, CountedFinite, FS_AddElement
<1>10. \A v \in User : Cardinality(Counted(v)') <= vel'[v].count
  BY <1>5, <1>8, <1>9 DEF BurstInv
<1>11. \A n \in DOMAIN counted' : /\ counted'[n].at <= now
                                  /\ counted'[n].at + VelWindow <= now + vel'[signed[counted'[n].of].user].left
  <2>1. k \in DOMAIN counted' => /\ counted'[k].at <= now
                                 /\ counted'[k].at + VelWindow <= now + vel'[signed[counted'[k].of].user].left
    BY <1>1, <1>2, <1>4, <1>5
  <2> QED
    BY <1>4, <1>6, <2>1
<1>12. BurstsAreFound'
  <2>1. ASSUME NEW n \in DOMAIN counted, Cardinality(Burst(n))' > VelThresh
        PROVE  <<counted'[n].of, "anomaly.velocity">> \in found'
    <3>1. \A m \in 1..n : m \in DOMAIN counted
      BY <1>4
    <3>2. Burst(n)' = Burst(n)
      BY <1>1, <1>4, <3>1 DEF Burst
    <3> QED
      BY <1>1, <1>4, <2>1, <3>2 DEF BurstInv, BurstsAreFound
  <2>2. ASSUME Cardinality(Burst(k))' > VelThresh
        PROVE  <<counted'[k].of, "anomaly.velocity">> \in found'
    <3>1. Burst(k)' = Counted(u)'
      BY <1>1, <1>2, <1>4 DEF Burst, Counted
    <3>2. vel'[u].count > VelThresh
      BY <1>1, <1>5, <1>9, <1>10, <2>2, <3>1
    <3>3. RaiseIf(TRUE, <<i, "anomaly.velocity">>)
      BY <1>2, <3>2 DEF CountLogin, RaiseIf
    <3> QED
      BY <1>4, <3>3 DEF RaiseIf, Raise
  <2> QED
    BY <1>1, <1>4, <2>1, <2>2 DEF BurstsAreFound
<1> QED
  BY <1>1, <1>10, <1>11, <1>12 DEF BurstInv

(* Rows *)

RowInv == RowsOnce /\ LoginsNoted /\ InTurn /\ Travelled

LEMMA JournalTypes ==
    ASSUME WatchTypes, NEW n \in DOMAIN journal
    PROVE  /\ journal[n].of \in DOMAIN signed /\ journal[n].of \in Nat /\ journal[n].action \in Action
           /\ journal[n].at \in Nat /\ n \in Nat /\ n \in 1..Len(journal) /\ Len(journal) \in Nat
<1>1. journal \in Seq(Entry) /\ journal[n].of \in DOMAIN signed
  BY DEF WatchTypes
<1>2. journal[n] \in Entry /\ n \in 1..Len(journal) /\ Len(journal) \in Nat
  BY ONLY <1>1, n \in DOMAIN journal
<1> QED
  BY ONLY <1>1, <1>2 DEF Entry

LEMMA WritingTypes ==
    ASSUME WatchTypes, NEW w \in writing
    PROVE  w[1] \in DOMAIN signed /\ w[1] \in Nat /\ w[2] \in Action /\ w = <<w[1], w[2]>>
<1>1. w \in (DOMAIN signed) \X Action
  BY DEF WatchTypes
<1>2. w[1] \in DOMAIN signed /\ w[2] \in Action /\ w = <<w[1], w[2]>>
  BY <1>1
<1> QED
  BY <1>2, SignedTypes

LEMMA NotedTypes ==
    ASSUME WatchTypes, NEW i, NEW a, Noted(i, a)
    PROVE  i \in DOMAIN signed /\ a \in Action
BY JournalTypes DEF Noted, RowOf, WatchTypes

(* A sign-in comes. *)
LEMMA LoggedInRows ==
    ASSUME WatchTypes, RowInv, UNCHANGED here, NEW u \in User, NEW d \in here.devices, LoggedIn(u, d)
    PROVE  RowInv'
<1>1. PICK x \in Signed : signed' = Append(signed, x)
  BY LoggedInTypes
<1>2. PICK s : s = Len(signed) + 1
  OBVIOUS
<1>3. /\ DOMAIN signed = 1..Len(signed) /\ Len(signed) \in Nat /\ DOMAIN signed' = 1..s
      /\ s \notin DOMAIN signed /\ s \in Nat /\ DOMAIN signed' = DOMAIN signed \cup {s}
      /\ \A i \in DOMAIN signed : signed'[i] = signed[i] /\ i < s /\ i \in Nat
  <2>1. signed \in Seq(Signed)
    BY DEF WatchTypes
  <2> QED
    BY ONLY <1>1, <1>2, <2>1
<1>4. /\ UNCHANGED <<now, journal, found>> /\ writing' = writing \cup {<<s, login>>}
      /\ checking' = Append(checking, "velocity")
  BY <1>2 DEF LoggedIn
<1>5. checking'[s] = "velocity" /\ \A i \in DOMAIN signed : checking'[i] = checking[i]
  <2>1. checking \in Seq({"velocity", "geo", "addresses", "done"}) /\ Len(checking) = Len(signed)
    BY DEF WatchTypes
  <2> QED
    BY ONLY <1>2, <1>3, <1>4, <2>1
<1>6. \A a : ~Noted(s, a)
  BY <1>3, NotedTypes
<1>7. \A i, a : RowOf(i, a)' = RowOf(i, a)
  BY <1>4 DEF RowOf
<1>8. \A i, a : Noted(i, a)' <=> Noted(i, a) \/ (i = s /\ a = login)
  BY <1>4, <1>7 DEF Noted
<1>9. RowsOnce'
  <2>1. \A i \in DOMAIN signed', a \in Action : <<i, a>> \in writing' => ~RowOf(i, a)'
    BY <1>3, <1>4, <1>6, <1>7 DEF RowInv, RowsOnce, Noted
  <2>2. \A i \in DOMAIN signed : \A a \in NotYet(checking'[i]) : ~Noted(i, a)'
    BY <1>3, <1>5, <1>8 DEF RowInv, RowsOnce
  <2>3. \A a \in NotYet(checking'[s]) : ~Noted(s, a)'
    BY <1>5, <1>6, <1>8 DEF NotYet, login
  <2>4. \A i \in DOMAIN signed' : \A a \in NotYet(checking'[i]) : ~Noted(i, a)'
    BY <1>3, <2>2, <2>3
  <2> QED
    BY <1>4, <2>1, <2>4 DEF RowInv, RowsOnce
<1>10. LoginsNoted'
  BY <1>3, <1>8 DEF RowInv, LoginsNoted
<1>11. InTurn'
  <2>1. ASSUME NEW j \in DOMAIN signed, signed'[j].quiet PROVE Ended(j)'
    <3>1. Ended(j)
      BY <1>3, <2>1 DEF RowInv, InTurn
    <3>2. \A i \in DOMAIN signed' : i < j => checking'[i] = "done"
      BY <1>3, <1>5, <3>1 DEF Ended
    <3>3. \A i \in DOMAIN signed', a \in Action : <<i, a>> \in writing' => i >= j
      BY <1>3, <1>4, <3>1 DEF Ended
    <3> QED
      BY <1>4, <3>1, <3>2, <3>3 DEF Ended
  <2>2. ASSUME signed'[s].quiet PROVE Ended(s)'
    <3>1. writing = {} /\ \A i \in DOMAIN checking : checking[i] = "done"
      <4>1. signed' = Append(signed, [user |-> u, dev |-> d,
                quiet |-> writing = {} /\ \A i \in DOMAIN checking : checking[i] = "done"])
        BY DEF LoggedIn
      <4>2. signed'[s].quiet = (writing = {} /\ \A i \in DOMAIN checking : checking[i] = "done")
        <5>1. signed'[s] = [user |-> u, dev |-> d,
                quiet |-> writing = {} /\ \A i \in DOMAIN checking : checking[i] = "done"]
          BY <1>2, <4>1 DEF WatchTypes
        <5> QED
          BY <5>1
      <4> QED
        BY <2>2, <4>2
    <3>2. \A i \in DOMAIN signed' : i < s => checking'[i] = "done"
      <4>1. \A i \in DOMAIN signed : i \in DOMAIN checking
        BY SignedTypes
      <4>2. \A i \in DOMAIN signed : checking'[i] = "done"
        BY <1>5, <3>1, <4>1
      <4>3. \A i \in DOMAIN signed' : i < s => i \in DOMAIN signed
        BY ONLY <1>3
      <4> QED
        BY ONLY <4>2, <4>3
    <3>3. \A i \in DOMAIN signed', a \in Action : <<i, a>> \in writing' => i >= s
      BY <1>3, <1>4, <3>1
    <3>4. \A n \in DOMAIN journal : ~(journal[n].of >= s)
      BY <1>3, JournalTypes
    <3> QED
      BY <1>4, <3>2, <3>3, <3>4 DEF Ended
  <2> QED
    BY <1>3, <2>1, <2>2 DEF InTurn
<1>12. Travelled'
  <2>1. ASSUME NEW i \in DOMAIN signed', Followed(i)' PROVE i \in DOMAIN signed /\ Followed(i)
    <3>1. i \in DOMAIN signed /\ i + 1 \in DOMAIN signed
      <4>1. i + 1 \in DOMAIN signed' /\ checking'[i + 1] # "velocity" /\ i \in 1..s
        BY <1>3, <2>1 DEF Followed, Compared
      <4>2. i + 1 \in 1..s /\ i + 1 # s
        BY <1>3, <1>5, <4>1
      <4> QED
        BY <1>2, <1>3, <4>1, <4>2
    <3>2. checking'[i + 1] = checking[i + 1] /\ signed'[i] = signed[i] /\ signed'[i + 1] = signed[i + 1]
      BY <1>3, <1>5, <3>1
    <3>3. CameAlone(i) /\ CameAlone(i + 1) /\ CameAlone(i + 2)
      BY <1>3, <2>1, <3>1, <3>2 DEF Followed, CameAlone
    <3>4. Suspicious(i, i + 1) /\ WrittenInTime(i) /\ Compared(i + 1)
      BY <1>4, <2>1, <3>2 DEF Followed, Suspicious, WrittenInTime, Compared
    <3> QED
      BY <3>1, <3>3, <3>4 DEF Followed
  <2> QED
    BY <1>4, <2>1 DEF RowInv, Travelled
<1> QED
  BY <1>9, <1>10, <1>11, <1>12 DEF RowInv

(* A row is written, or is lost. *)
LEMMA WriteRowRows ==
    ASSUME WatchTypes, RowInv, UNCHANGED here, NEW w \in writing, WriteRow(w)
    PROVE  RowInv'
<1>1. /\ UNCHANGED <<now, checking, signed, found>> /\ writing' = writing \ {w}
      /\ \/ journal' = Append(journal, [of |-> w[1], action |-> w[2], at |-> now])
         \/ here.faults # {} /\ UNCHANGED journal
  BY DEF WriteRow, MayFail
<1>2. /\ w[1] \in DOMAIN signed /\ w[1] \in Nat /\ w[2] \in Action /\ w = <<w[1], w[2]>>
  BY WritingTypes
<1>3. PICK i, b : i = w[1] /\ b = w[2]
  OBVIOUS
<1>4. i \in DOMAIN signed /\ i \in Nat /\ b \in Action /\ w = <<i, b>> /\ ~RowOf(i, b)
  BY <1>2, <1>3 DEF RowInv, RowsOnce
<1>5. PICK k : k = Len(journal) + 1
  OBVIOUS
<1>6. /\ DOMAIN journal = 1..Len(journal) /\ Len(journal) \in Nat /\ k \notin DOMAIN journal
      /\ \A n \in DOMAIN journal : n \in DOMAIN journal' /\ journal'[n] = journal[n] /\ n < k /\ n \in Nat
      /\ \A n \in DOMAIN journal' :
            n \in DOMAIN journal \/ (n = k /\ journal'[n].of = i /\ journal'[n].action = b)
      /\ here.faults = {} => k \in DOMAIN journal' /\ journal'[k].of = i /\ journal'[k].action = b
  <2>1. journal \in Seq(Entry) /\ [of |-> i, action |-> b, at |-> now] \in Entry
    BY <1>4 DEF WatchTypes, Entry
  <2>2. CASE journal' = Append(journal, [of |-> i, action |-> b, at |-> now])
    BY ONLY <1>5, <2>1, <2>2
  <2>3. CASE here.faults # {} /\ UNCHANGED journal
    BY ONLY <1>5, <2>1, <2>3
  <2> QED
    BY <1>1, <1>3, <2>2, <2>3
<1>7. ASSUME NEW x, NEW a
      PROVE  /\ RowOf(x, a)' <=> RowOf(x, a) \/ (x = i /\ a = b /\ k \in DOMAIN journal')
             /\ Noted(x, a)' => Noted(x, a)
             /\ here.faults = {} /\ Noted(x, a) => Noted(x, a)'
  <2>1. RowOf(x, a)' <=> RowOf(x, a) \/ (x = i /\ a = b /\ k \in DOMAIN journal')
    BY <1>6 DEF RowOf
  <2>2. <<x, a>> = w <=> x = i /\ a = b
    BY <1>4
  <2> QED
    BY <1>1, <1>3, <1>4, <1>6, <2>1, <2>2 DEF Noted
<1>8. RowsOnce'
  <2>1. ASSUME NEW m \in DOMAIN journal', NEW n \in DOMAIN journal', m # n,
               journal'[m].of = journal'[n].of, journal'[m].action = journal'[n].action
        PROVE  FALSE
    BY <1>4, <1>6, <2>1 DEF RowInv, RowsOnce, RowOf
  <2>2. \A x \in DOMAIN signed, a \in Action : <<x, a>> \in writing' => ~RowOf(x, a)'
    <3>1. ASSUME NEW x \in DOMAIN signed, NEW a \in Action, <<x, a>> \in writing' PROVE ~RowOf(x, a)'
      <4>1. <<x, a>> \in writing /\ ~(x = i /\ a = b)
        BY <1>1, <1>4, <3>1
      <4> QED
        BY <1>7, <4>1 DEF RowInv, RowsOnce
    <3> QED
      BY <3>1
  <2>3. \A x \in DOMAIN signed : \A a \in NotYet(checking[x]) : ~Noted(x, a)'
    BY <1>7 DEF RowInv, RowsOnce
  <2> QED
    BY <1>1, <2>1, <2>2, <2>3 DEF RowsOnce
<1>9. LoginsNoted'
  BY <1>1, <1>7 DEF RowInv, LoginsNoted
<1>10. ASSUME NEW j \in DOMAIN signed, Ended(j) PROVE Ended(j)' /\ i >= j
  <2>1. i >= j
    BY <1>3, <1>4, <1>10 DEF Ended
  <2>2. \A m, n \in DOMAIN journal' : journal'[m].of < j /\ journal'[n].of >= j => m < n
    <3>1. ASSUME NEW m \in DOMAIN journal', NEW n \in DOMAIN journal',
                 journal'[m].of < j, journal'[n].of >= j
          PROVE  m < n
      <4>1. j \in Nat
        BY SignedTypes
      <4>2. m \in DOMAIN journal
        BY <1>4, <1>6, <2>1, <3>1, <4>1
      <4> QED
        BY <1>6, <1>10, <3>1, <4>2 DEF Ended
    <3> QED
      BY <3>1
  <2> QED
    BY <1>1, <1>10, <2>1, <2>2 DEF Ended
<1>11. InTurn'
  BY <1>1, <1>10 DEF RowInv, InTurn
<1>12. Travelled'
  <2>1. ASSUME NEW x \in DOMAIN signed, Followed(x)' PROVE Followed(x)
    <3>1. x + 1 \in DOMAIN signed /\ signed[x + 1].quiet /\ x \in Nat
      BY <1>1, <2>1, SignedTypes DEF Followed, CameAlone
    <3>2. i >= x + 1
      BY <1>10, <3>1 DEF RowInv, InTurn
    <3>3. WrittenInTime(x)
      <4>1. PICK n \in DOMAIN journal' : /\ journal'[n].of = x /\ journal'[n].action = login
                                         /\ now - journal'[n].at <= GeoWindow
        BY <1>1, <2>1 DEF Followed, WrittenInTime
      <4>2. n \in DOMAIN journal
        BY <1>4, <1>6, <3>1, <3>2, <4>1
      <4> QED
        BY <1>6, <4>1, <4>2 DEF WrittenInTime
    <3> QED
      BY <1>1, <2>1, <3>3 DEF Followed, CameAlone, Compared, Suspicious
  <2> QED
    BY <1>1, <2>1 DEF RowInv, Travelled
<1> QED
  BY <1>8, <1>9, <1>11, <1>12 DEF RowInv

(* A check goes on: it raises what it had not yet, or nothing. *)
LEMMA CheckRows ==
    ASSUME WatchTypes, RowInv, UNCHANGED <<here, now, journal, signed>>, NEW i \in DOMAIN signed,
           NEW next, NEW a \in NotYet(checking[i]), a \notin NotYet(next), a \in Action, checking[i] # "done",
           NotYet(next) \subseteq NotYet(checking[i]), CheckAt(i, checking[i], next),
           RaiseIf(TRUE, <<i, a>>) \/ RaiseIf(FALSE, <<i, a>>),
           here.faults = {} => \A x \in DOMAIN signed :
              x + 1 = i /\ Followed(x)' /\ ~Compared(i) => <<x + 1, "anomaly.geo">> \in found'
    PROVE  RowInv'
<1>1. \/ UNCHANGED <<writing, found>>
      \/ writing' = writing \cup {<<i, a>>} /\ found' = found \cup {<<i, a>>}
  BY DEF RaiseIf, Raise
<1>2. \A x, b : RowOf(x, b)' = RowOf(x, b)
  BY DEF RowOf
<1>3. \A x, b : (Noted(x, b) => Noted(x, b)') /\ (Noted(x, b)' => Noted(x, b) \/ (x = i /\ b = a))
  BY <1>1, <1>2 DEF Noted
<1>4. /\ checking'[i] = next
      /\ \A x \in DOMAIN signed : x # i => checking'[x] = checking[x]
  BY SignedTypes DEF CheckAt
<1>5. RowsOnce'
  <2>1. \A x \in DOMAIN signed, b \in Action : <<x, b>> \in writing' => ~RowOf(x, b)'
    <3>1. ~RowOf(i, a)
      BY DEF RowInv, RowsOnce, Noted
    <3> QED
      BY <1>1, <1>2, <3>1 DEF RowInv, RowsOnce
  <2>2. ASSUME NEW x \in DOMAIN signed, NEW b \in NotYet(checking'[x]) PROVE ~Noted(x, b)'
    BY <1>3, <1>4 DEF RowInv, RowsOnce
  <2> QED
    BY <2>1, <2>2 DEF RowInv, RowsOnce
<1>6. LoginsNoted'
  BY <1>3 DEF RowInv, LoginsNoted
<1>7. InTurn'
  <2>1. ASSUME NEW j \in DOMAIN signed, Ended(j) PROVE Ended(j)'
    <3>1. ~(i < j) /\ i \in Nat /\ j \in Nat
      BY <2>1, SignedTypes DEF Ended
    <3>2. \A x \in DOMAIN signed : x < j => checking'[x] = "done"
      BY <1>4, <2>1, <3>1 DEF Ended
    <3>3. \A x \in DOMAIN signed, b \in Action : <<x, b>> \in writing' => x >= j
      BY <1>1, <2>1, <3>1 DEF Ended
    <3> QED
      BY <2>1, <3>2, <3>3 DEF Ended
  <2> QED
    BY <2>1 DEF RowInv, InTurn
<1>8. Travelled'
  <2>1. ASSUME here.faults = {}, NEW x \in DOMAIN signed, Followed(x)'
        PROVE  <<x + 1, "anomaly.geo">> \in found'
    <3>1. CASE Compared(x + 1)
      <4>1. Followed(x)
        BY <2>1, <3>1 DEF Followed, CameAlone, Suspicious, WrittenInTime
      <4> QED
        BY <1>1, <2>1, <4>1 DEF RowInv, Travelled
    <3>2. CASE ~Compared(x + 1)
      <4>1. x + 1 \in DOMAIN signed /\ Compared(x + 1)'
        BY <2>1 DEF Followed
      <4>2. x + 1 = i
        BY <1>4, <3>2, <4>1 DEF Compared
      <4> QED
        BY <2>1, <3>2, <4>2
    <3> QED
      BY <3>1, <3>2
  <2> QED
    BY <2>1 DEF Travelled
<1> QED
  BY <1>5, <1>6, <1>7, <1>8 DEF RowInv

LEMMA CountRows ==
    ASSUME WatchTypes, RowInv, UNCHANGED here, NEW i \in DOMAIN signed, CountLogin(i)
    PROVE  RowInv'
<1> DEFINE a == "anomaly.velocity"
<1>1. UNCHANGED <<now, journal, signed>> /\ checking[i] = "velocity" /\ CheckAt(i, checking[i], "geo")
  BY DEF CountLogin, CheckAt
<1>2. a \in NotYet(checking[i]) /\ a \notin NotYet("geo") /\ a \in Action /\ checking[i] # "done"
      /\ NotYet("geo") \subseteq NotYet(checking[i])
  BY <1>1 DEF NotYet, Action
<1>3. RaiseIf(TRUE, <<i, a>>) \/ RaiseIf(FALSE, <<i, a>>)
  BY DEF CountLogin, RaiseIf
<1>4. ~Compared(i)'
  BY <1>1, SignedTypes DEF Compared, CheckAt
<1>5. \A x \in DOMAIN signed : ~(x + 1 = i /\ Followed(x)')
  BY <1>4 DEF Followed
<1> QED
  BY <1>1, <1>2, <1>3, <1>5, CheckRows

LEMMA AddressesRows ==
    ASSUME WatchTypes, RowInv, UNCHANGED here, NEW i \in DOMAIN signed, CountAddresses(i)
    PROVE  RowInv'
<1> DEFINE a == "anomaly.cross_ip"
<1>1. UNCHANGED <<now, journal, signed>> /\ checking[i] = "addresses" /\ CheckAt(i, checking[i], "done")
  BY DEF CountAddresses, CheckAt
<1>2. a \in NotYet(checking[i]) /\ a \notin NotYet("done") /\ a \in Action /\ checking[i] # "done"
      /\ NotYet("done") \subseteq NotYet(checking[i])
  BY <1>1 DEF NotYet, Action
<1>3. RaiseIf(TRUE, <<i, a>>) \/ RaiseIf(FALSE, <<i, a>>)
  BY DEF CountAddresses, RaiseIf
<1>4. Compared(i)
  BY <1>1 DEF Compared
<1> QED
  BY <1>1, <1>2, <1>3, <1>4, CheckRows

(* The comparison finds the sign-in before, because what was written since *)
(* is less than what is read.                                              *)
LEMMA FoundByCompare ==
    ASSUME WatchTypes, RowInv, NEW i \in DOMAIN signed, NEW j, j = i + 1, j \in DOMAIN signed,
           checking[j] = "geo", CameAlone(i), CameAlone(j), CameAlone(i + 2),
           Suspicious(i, j), WrittenInTime(i)
    PROVE  /\ Others(j) # {} /\ now - journal[Max(Others(j))].at <= GeoWindow
           /\ ~SameRegion(signed[journal[Max(Others(j))].of].dev, signed[j].dev)
<1>1. PICK n \in DOMAIN journal :
         journal[n].of = i /\ journal[n].action = login /\ now - journal[n].at <= GeoWindow
  BY DEF WrittenInTime
<1>2. PICK u \in User : u = signed[i].user /\ u = signed[j].user
  BY SignedTypes DEF Suspicious
<1>3. i \in Nat /\ j \in Nat /\ n \in Nat /\ DOMAIN signed = 1..Len(signed) /\ Len(signed) \in Nat
  BY <1>1, SignedTypes, JournalTypes DEF WatchTypes
<1>4. i + 2 \notin DOMAIN signed
  <2>1. ASSUME i + 2 \in DOMAIN signed PROVE FALSE
    <3>1. Ended(i + 2)
      BY <2>1 DEF CameAlone, RowInv, InTurn
    <3>2. j < i + 2
      BY <1>3
    <3> QED
      BY <3>1, <3>2 DEF Ended
  <2> QED
    BY <2>1
<1>5. ASSUME NEW m \in DOMAIN journal, m >= n
      PROVE  /\ journal[m].of = i \/ journal[m].of = j
             /\ journal[m].of = j => journal[m].action \in {login, "anomaly.velocity"}
  <2>1. Ended(i)
    BY DEF CameAlone, RowInv, InTurn
  <2>2. journal[m].of \in DOMAIN signed /\ journal[m].of \in Nat /\ journal[m].action \in Action /\ m \in Nat
    BY JournalTypes
  <2>3. ~(journal[m].of < i)
    <3>1. journal[n].of >= i /\ ~(m < n)
      BY <1>1, <1>3, <1>5, <2>2
    <3> QED
      BY <2>1, <3>1 DEF Ended
  <2>4. journal[m].of = i \/ journal[m].of = j
    BY <1>3, <1>4, <2>2, <2>3
  <2>5. ASSUME journal[m].of = j PROVE journal[m].action \in {login, "anomaly.velocity"}
    <3>1. Noted(j, journal[m].action)
      BY <2>5 DEF Noted, RowOf
    <3>2. journal[m].action \notin {"anomaly.geo", "anomaly.cross_ip"}
      BY <3>1 DEF RowInv, RowsOnce, NotYet
    <3> QED
      BY <2>2, <3>2 DEF Action
  <2> QED
    BY <2>4, <2>5
<1> DEFINE T == {m \in Rows(u) : m >= n}
<1>6. IsFiniteSet(T) /\ Cardinality(T) \in Nat /\ Cardinality(T) <= 6
  <2> DEFINE Rank(a) == IF a = login THEN 1 ELSE IF a = "anomaly.velocity" THEN 2
                        ELSE IF a = "anomaly.geo" THEN 3 ELSE 4
             f == [m \in T |-> IF journal[m].of = i THEN Rank(journal[m].action)
                               ELSE Rank(journal[m].action) + 4]
  <2>1. ASSUME NEW m \in T PROVE f[m] \in 1..6
    <3>1. m \in DOMAIN journal /\ m >= n
      BY DEF Rows
    <3>2. journal[m].of = i \/ journal[m].action \in {login, "anomaly.velocity"}
      BY <1>5, <3>1
    <3> QED
      BY <3>2 DEF login
  <2>2. ASSUME NEW l \in T, NEW m \in T, f[l] = f[m] PROVE l = m
    <3>1. l \in DOMAIN journal /\ m \in DOMAIN journal /\ l >= n /\ m >= n
      BY DEF Rows
    <3>2. journal[l].action \in Action /\ journal[m].action \in Action
      BY <3>1, JournalTypes
    <3>3. /\ journal[l].of = i \/ (journal[l].of = j /\ journal[l].action \in {login, "anomaly.velocity"})
          /\ journal[m].of = i \/ (journal[m].of = j /\ journal[m].action \in {login, "anomaly.velocity"})
      BY <1>5, <3>1
    <3>4. journal[l].of = journal[m].of /\ journal[l].action = journal[m].action
      BY <1>3, <2>2, <3>2, <3>3 DEF login, Action
    <3> QED
      BY <3>1, <3>4 DEF RowInv, RowsOnce
  <2> HIDE DEF T
  <2>3. f \in Injection(T, 1..6)
    <3>1. f \in [T -> 1..6]
      BY <2>1
    <3> HIDE DEF f
    <3> QED
      BY <2>2, <3>1 DEF Injection, IsInjective
  <2>4. PICK k \in Nat : k = 6
    OBVIOUS
  <2>5. IsFiniteSet(T) /\ Cardinality(T) <= Cardinality(1..k) /\ IsFiniteSet(1..k) /\ Cardinality(1..k) = k
    <3>1. IsFiniteSet(1..k) /\ Cardinality(1..k) = IF 1 > k THEN 0 ELSE k - 1 + 1
      BY FS_Interval
    <3>2. f \in Injection(T, 1..k)
      BY <2>3, <2>4
    <3>3. IsFiniteSet(T) /\ Cardinality(T) <= Cardinality(1..k)
      BY ONLY <3>1, <3>2, FS_Injection
    <3>4. Cardinality(1..k) = k
      BY <2>4, <3>1
    <3> QED
      BY <3>1, <3>3, <3>4
  <2>6. Cardinality(T) \in Nat
    BY <2>5, FS_CardinalityType
  <2> QED
    BY <2>4, <2>5, <2>6
<1>7. n \in Others(j)
  <2>1. n \in Rows(u)
    BY <1>1, <1>2 DEF Rows
  <2>2. Cardinality(T) <= Recent
    BY <1>6, AnomalyAssumption
  <2>3. signed[i].dev # signed[j].dev
    BY DEF Suspicious, SameRegion
  <2> QED
    BY <1>1, <1>2, <2>1, <2>2, <2>3 DEF Others, Latest
<1>8. ASSUME NEW m \in Others(j) PROVE m \in Nat /\ m <= n
  <2>1. m \in DOMAIN journal /\ journal[m].action = login /\ signed[journal[m].of].dev # signed[j].dev
    BY DEF Others, Latest, Rows
  <2>2. m \in Nat
    BY <2>1, JournalTypes
  <2>3. ASSUME m >= n PROVE m = n
    BY <1>1, <1>5, <2>1, <2>3 DEF RowInv, RowsOnce
  <2> QED
    BY <1>3, <2>2, <2>3
<1>9. Max(Others(j)) = n
  <2>1. \A m \in Others(j) : n >= m
    BY <1>3, <1>8
  <2>2. \A x \in Others(j) : (\A m \in Others(j) : x >= m) => x = n
    BY <1>3, <1>7, <1>8
  <2> QED
    BY <1>7, <2>1, <2>2 DEF Max
<1> QED
  BY <1>1, <1>7, <1>9 DEF Suspicious

LEMMA CompareRows ==
    ASSUME WatchTypes, RowInv, UNCHANGED here, NEW i \in DOMAIN signed, CompareIP(i)
    PROVE  RowInv'
<1> DEFINE a == "anomaly.geo"
<1>1. PICK next \in {"addresses", "done"} : CheckAt(i, checking[i], next)
  BY DEF CompareIP, CheckAt
<1>2. UNCHANGED <<now, journal, signed>> /\ checking[i] = "geo"
  BY DEF CompareIP, CheckAt
<1>3. a \in NotYet(checking[i]) /\ a \notin NotYet(next) /\ a \in Action /\ checking[i] # "done"
      /\ NotYet(next) \subseteq NotYet(checking[i])
  BY <1>2 DEF NotYet, Action
<1>4. RaiseIf(TRUE, <<i, a>>) \/ RaiseIf(FALSE, <<i, a>>)
  BY DEF CompareIP, RaiseIf
<1>5. ASSUME NEW x \in DOMAIN signed, x + 1 = i, Followed(x)' PROVE <<x + 1, a>> \in found'
  <2>1. CameAlone(x) /\ CameAlone(i) /\ CameAlone(x + 2) /\ Suspicious(x, i) /\ WrittenInTime(x)
    BY <1>2, <1>5 DEF Followed, CameAlone, Suspicious, WrittenInTime
  <2>2. /\ Others(i) # {} /\ now - journal[Max(Others(i))].at <= GeoWindow
        /\ ~SameRegion(signed[journal[Max(Others(i))].of].dev, signed[i].dev)
    BY <1>2, <1>5, <2>1, FoundByCompare
  <2>3. found' = found \cup {<<i, a>>}
    BY <2>2 DEF CompareIP, RaiseIf, Raise
  <2> QED
    BY <1>5, <2>3
<1> QED
  BY <1>1, <1>2, <1>3, <1>4, <1>5, CheckRows

LEMMA TickRows == ASSUME WatchTypes, RowInv, UNCHANGED here, Tick PROVE RowInv'
<1>1. UNCHANGED <<journal, writing, checking, signed, found>> /\ now' = now + 1 /\ now \in Nat
  BY DEF Tick, WatchTypes
<1>2. RowsOnce' /\ LoginsNoted' /\ InTurn'
  BY <1>1 DEF RowInv, RowsOnce, LoginsNoted, InTurn, Noted, RowOf, Ended
<1>3. ASSUME NEW i \in DOMAIN signed, Followed(i)' PROVE Followed(i)
  <2>1. WrittenInTime(i)
    <3>1. PICK n \in DOMAIN journal :
             journal[n].of = i /\ journal[n].action = login /\ now' - journal[n].at <= GeoWindow
      BY <1>1, <1>3 DEF Followed, WrittenInTime
    <3>2. now - journal[n].at <= GeoWindow
      BY <1>1, <3>1, JournalTypes, AnomalyAssumption
    <3> QED
      BY <3>1, <3>2 DEF WrittenInTime
  <2> QED
    BY <1>1, <1>3, <2>1 DEF Followed, CameAlone, Compared, Suspicious
<1> QED
  BY <1>1, <1>2, <1>3 DEF RowInv, Travelled

(* A restart needs a fault. *)
LEMMA EndRows ==
    ASSUME WatchTypes, RowInv, UNCHANGED here, here.faults # {}, EndGoroutines PROVE RowInv'
<1>1. /\ UNCHANGED <<journal, signed>> /\ writing' = {}
      /\ \A i \in DOMAIN signed : checking'[i] = "done"
  BY SignedTypes DEF EndGoroutines
<1>2. RowsOnce'
  BY <1>1 DEF RowInv, RowsOnce, Noted, RowOf, NotYet
<1>3. InTurn'
  BY <1>1 DEF RowInv, InTurn, Ended
<1> QED
  BY <1>2, <1>3 DEF RowInv, LoginsNoted, Travelled

LEMMA SameRows ==
    ASSUME RowInv, UNCHANGED <<here, now, journal, writing, checking, signed, found>> PROVE RowInv'
BY DEF RowInv, RowsOnce, LoginsNoted, InTurn, Travelled, Noted, RowOf, Ended, Followed, CameAlone,
       Compared, Suspicious, WrittenInTime

(* The invariant *)

AnomalyInv == WatchTypes /\ BurstInv /\ RowInv

LEMMA AnomalyInit == ASSUME WatchInit PROVE AnomalyInv
<1>1. /\ here \in Situation /\ now = 0 /\ journal = <<>> /\ writing = {} /\ checking = <<>>
      /\ vel = [u \in User |-> [count |-> 0, left |-> 0]]
      /\ signed = <<>> /\ counted = <<>> /\ found = {}
  BY DEF WatchInit, Init
<1>2. DOMAIN journal = {} /\ DOMAIN signed = {} /\ DOMAIN counted = {} /\ Len(checking) = Len(signed)
  BY <1>1
<1>3. WatchTypes
  <2>1. journal \in Seq(Entry) /\ signed \in Seq(Signed) /\ counted \in Seq(Check)
        /\ checking \in Seq({"velocity", "geo", "addresses", "done"})
    BY <1>1
  <2> QED
    BY <1>1, <1>2, <2>1 DEF WatchTypes
<1>4. BurstInv
  <2>1. ASSUME NEW u \in User PROVE Cardinality(Counted(u)) <= vel[u].count
    <3>1. Counted(u) = {} /\ vel[u].count = 0
      BY <1>1, <1>2 DEF Counted
    <3>2. Cardinality(Counted(u)) = 0
      BY <3>1, FS_EmptySet
    <3> QED
      BY <3>1, <3>2
  <2>2. BurstsAreFound
    BY <1>2 DEF BurstsAreFound
  <2> QED
    BY <1>2, <2>1, <2>2 DEF BurstInv
<1>5. RowInv
  BY <1>1, <1>2 DEF RowInv, RowsOnce, LoginsNoted, InTurn, Travelled
<1> QED
  BY <1>3, <1>4, <1>5 DEF AnomalyInv

LEMMA HereStays == ASSUME Types, [Next]_vars PROVE UNCHANGED here
<1>1. CASE UNCHANGED vars
  BY <1>1 DEF vars, past
<1>2. ASSUME NEW p \in Proc, Receive(p) PROVE UNCHANGED here
  BY <1>2, Received DEF past
<1>3. ASSUME NEW p \in Proc, Serve(p) PROVE UNCHANGED here
  BY <1>3, ServeTurns DEF Turns
<1>4. CASE Environment
  BY <1>4, Around DEF Aside
<1>5. CASE Restart
  BY <1>5 DEF Restart
<1> QED
  BY <1>1, <1>2, <1>3, <1>4, <1>5 DEF Next, Work

LEMMA AnomalyStep ==
    ASSUME AnomalyInv, UNCHANGED here, [WatchNext]_<<vars, watch>> PROVE AnomalyInv'
<1>1. WatchTypes /\ BurstInv /\ RowInv
  BY DEF AnomalyInv
<1>2. CASE UNCHANGED <<now, journal, writing, checking, vel, signed, counted, found>>
  <2>1. WatchTypes'
    BY <1>1, <1>2 DEF WatchTypes
  <2> QED
    BY <1>1, <1>2, <2>1, BurstsStay, SameRows DEF AnomalyInv
<1>3. CASE Restart /\ EndGoroutines
  <2>1. WatchTypes' /\ UNCHANGED <<now, vel, signed, counted, found>> /\ here.faults # {}
    BY <1>1, <1>3, EndTypes DEF EndGoroutines, Restart, MayFail
  <2> QED
    BY <1>1, <1>3, <2>1, BurstsStay, EndRows DEF AnomalyInv
<1>4. CASE Tick
  BY <1>1, <1>4, TickTypes, TickBursts, TickRows DEF AnomalyInv
<1>5. ASSUME NEW u \in User, NEW d \in here.devices, LoggedIn(u, d) PROVE AnomalyInv'
  <2>1. WatchTypes' /\ \E x \in Signed : signed' = Append(signed, x)
    BY <1>1, <1>5, LoggedInTypes
  <2>2. UNCHANGED <<now, vel, counted, found>>
    BY <1>5 DEF LoggedIn
  <2> QED
    BY <1>1, <1>5, <2>1, <2>2, BurstsStay, LoggedInRows DEF AnomalyInv
<1>6. ASSUME NEW w \in writing, WriteRow(w) PROVE AnomalyInv'
  <2>1. UNCHANGED <<now, vel, signed, counted, found>>
    BY <1>6 DEF WriteRow
  <2> QED
    BY <1>1, <1>6, <2>1, WriteRowTypes, BurstsStay, WriteRowRows DEF AnomalyInv
<1>7. ASSUME NEW i \in DOMAIN checking, CheckLogin(i) PROVE AnomalyInv'
  <2>1. CASE CountLogin(i)
    BY <1>1, <2>1, CountTypes, CountBursts, CountRows DEF AnomalyInv
  <2>2. CASE CompareIP(i)
    <3>1. UNCHANGED <<now, vel, signed, counted>> /\ found \subseteq found'
      BY <2>2 DEF CompareIP, RaiseIf, Raise
    <3> QED
      BY <1>1, <2>2, <3>1, CompareTypes, BurstsStay, CompareRows DEF AnomalyInv
  <2>3. CASE CountAddresses(i)
    <3>1. UNCHANGED <<now, vel, signed, counted>> /\ found \subseteq found'
      BY <2>3 DEF CountAddresses, RaiseIf, Raise
    <3> QED
      BY <1>1, <2>3, <3>1, AddressesTypes, BurstsStay, AddressesRows DEF AnomalyInv
  <2> QED
    BY <1>7, <2>1, <2>2, <2>3 DEF CheckLogin
<1>8. ASSUME NEW w, IndexAudit(w) PROVE AnomalyInv'
  BY <1>2, <1>8 DEF IndexAudit
<1>9. UNCHANGED watch => AnomalyInv'
  BY <1>2 DEF watch
<1> QED
  BY <1>3, <1>4, <1>5, <1>6, <1>7, <1>8, <1>9 DEF WatchNext

(* No burst of sign-ins goes unnoticed, and none from another region that  *)
(* follows the last one in time, when the two do not overlap.              *)
THEOREM SuspicionsAreRaised == WatchSpec => []AnomaliesAreFound
<1>1. WatchInit => Types /\ AnomalyInv
  BY InitTypes, AnomalyInit DEF WatchInit
<1>2. Types /\ AnomalyInv /\ [WatchNext]_<<vars, watch>> => (Types /\ AnomalyInv)'
  BY WatchSteps, StepTypes, HereStays, AnomalyStep
<1>3. AnomalyInv => AnomaliesAreFound
  <2>1. ASSUME RowInv PROVE TravelIsFound
    BY <2>1 DEF RowInv, Travelled, Followed, Compared, TravelIsFound
  <2> QED
    BY <2>1 DEF AnomalyInv, BurstInv, AnomaliesAreFound
<1> QED
  BY <1>1, <1>2, <1>3, PTL DEF WatchSpec
=============================================================================
