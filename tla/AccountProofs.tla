--------------------------- MODULE AccountProofs ----------------------------
(***************************************************************************)
(* Proofs about what auth-service keeps of an account, for any number of   *)
(* users, goroutines, requests, documents, keys and events, whatever fails.*)
(* First Access and Kyc: the gate opens to nobody who was never approved,  *)
(* keys open what they may, what is cached agrees with the rows when       *)
(* requests come one after another, and a client is let in as often as its *)
(* window allows.  Then Onboarding and Rewards, which it extends: a user   *)
(* is announced once and his wallets are whole, a trade is counted and a   *)
(* referrer paid as the topic's mode permits.                              *)
(***************************************************************************)
EXTENDS AccessProps, OnboardingProps, TotalsProofs, SequenceTheorems

Stepped(r) == {"step", "locked"} \subseteq DOMAIN r /\ r.step \in 0..4
Plain == {"idle", "setCode", "save", "cacheStep", "cacheLock"}
Writers == {"verify", "profile", "upload", "approve", "reject", "status"}
Shaped(j) ==
    /\ {"pc", "op", "type", "row", "found"} \subseteq DOMAIN j /\ Stepped(j.row)
    /\ j.pc \notin Plain => j.op \in Writers
    /\ j.pc = "cache" => j.op \in Cached
Types ==
    /\ Stepped(row) /\ approvals \in Nat /\ kycKey \in {Absent} \cup 0..4
    /\ job = [p \in Proc |-> job[p]] /\ \A p \in Proc : Shaped(job[p])

(* The fourth step is nowhere before the first approval: not in the row,   *)
(* not in a copy of it that a request holds, not in the cache, and no      *)
(* request is on its way to put it there.                                  *)
Low(j) == j.row.step < 4 /\ (j.pc = "cache" => j.op \in {"verify", "profile", "upload"})
Reviewed ==
    approvals = 0 => /\ row.step < 4 /\ kycKey \in {Absent} \cup 0..3
                     /\ \A p \in Proc : Low(job[p])
Inv == Types /\ Reviewed

LEMMA IdleJob == Shaped(Idle) /\ Idle.row.step = 0 /\ Idle.pc = "idle"
BY DEF Idle, NewUser, Shaped, Stepped, Plain

LEMMA InitInv == ASSUME Init PROVE Inv
<1>1. row \in Row
  BY KycAssumption DEF Init
<1>2. Stepped(row)
  BY <1>1 DEF Row, Stepped
<1> QED
  BY <1>2, IdleJob DEF Init, Inv, Types, Reviewed, Low, Stepped

(* What a step does to the job of the goroutine p that takes it.           *)
Becomes(p, j) == job' = [job EXCEPT ![p] = j]

LEMMA Keeps ==
  ASSUME Inv, NEW p \in Proc, NEW j, Shaped(j), Becomes(p, j),
         Stepped(row'), kycKey' \in {Absent} \cup 0..4, approvals' \in {approvals, approvals + 1},
         approvals' = 0 => row'.step < 4 /\ kycKey' \in {Absent} \cup 0..3 /\ Low(j)
  PROVE  Inv'
<1>1. \A q \in Proc : job'[q] = IF q = p THEN j ELSE job[q]
  BY DEF Inv, Types, Becomes
<1>2. job' = [q \in Proc |-> job'[q]]
  BY DEF Inv, Types, Becomes
<1>3. approvals' \in Nat /\ (approvals' = 0 => approvals = 0)
  BY DEF Inv, Types
<1> QED
  BY <1>1, <1>2, <1>3 DEF Inv, Types, Reviewed

(* A step that leaves the row, the key and the approvals alone. *)
LEMMA Quiet ==
  ASSUME Inv, NEW p \in Proc, NEW j, Shaped(j), Becomes(p, j), approvals = 0 => Low(j),
         UNCHANGED <<row, kycKey, approvals>>
  PROVE  Inv'
BY Keeps DEF Inv, Types, Reviewed

(* A request begins with a job of this kind. *)
Opens(p, op, j) ==
    /\ Start(p, op, j) /\ {"pc", "op", "type", "row", "found"} \subseteq DOMAIN j
    /\ Stepped(j.row) /\ j.row.step \in {0, row.step}
    /\ j.pc # "cache" /\ (j.pc \in Plain \/ op \in Writers)
    /\ j.pc = "save" => op = "unlock" \/ j.row.locked
    /\ j.pc \in {"save", "cacheStep"} => j.row.step = row.step

LEMMA Openings ==
  ASSUME Inv, NEW p \in Proc, Request(p) \/ Decide(p) PROVE \E op, r : Opens(p, op, r)
<1> DEFINE Like(j, l) == /\ {"pc", "op", "type", "row", "found"} \subseteq DOMAIN j
                         /\ Stepped(j.row) /\ j.row.step \in {0, row.step} /\ j.pc = l
<1>1. \A l : /\ Like(Step(l), l)
             /\ \A f : Like([Step(l) EXCEPT !.found = f], l)
             /\ \A t, f : Like([Step(l) EXCEPT !.type = t, !.found = f], l)
  BY DEF Step, Idle, NewUser, Stepped
<1>2. \A l, u : Stepped(u) /\ u.step = row.step => Like([Step(l) EXCEPT !.row = u], l)
  BY DEF Step, Idle
<1>3. Stepped(row)
  BY DEF Inv, Types
<1>4. ASSUME NEW l, NEW op, NEW j, Start(p, op, j), Like(j, l), l # "cache",
             l \in Plain \/ op \in Writers, l = "save" => op = "unlock" \/ j.row.locked,
             l \in {"save", "cacheStep"} => j.row.step = row.step
      PROVE  Opens(p, op, j)
  BY <1>4 DEF Opens
<1> HIDE DEF Like
<1>5. CASE SendVerifyEmail(p) \/ VerifyEmail(p) \/ ApproveKYC(p) \/ RejectKYC(p) \/ UpdateKYC(p)
  BY <1>1, <1>4, <1>5
  DEF SendVerifyEmail, VerifyEmail, ApproveKYC, RejectKYC, UpdateKYC, Plain, Writers
<1>6. CASE SubmitProfile(p)
  BY <1>1, <1>4, <1>6 DEF SubmitProfile, Plain, Writers
<1>7. ASSUME NEW t \in DocType, UploadDocument(p, t) PROVE \E op, r : Opens(p, op, r)
  <2> DEFINE d == [Step("document") EXCEPT !.type = t, !.found = doc[t] # "none"]
  <2>1. Like(d, "document")
    BY DEF Like, Step, Idle, NewUser, Stepped
  <2>2. Start(p, "upload", d)
    BY <1>7 DEF UploadDocument
  <2> HIDE DEF d
  <2> QED
    BY <1>4, <2>1, <2>2 DEF Writers
<1>8. CASE Login(p)
  <2> DEFINE d == [Step("cacheStep") EXCEPT !.row = row]
  <2>1. Like(d, "cacheStep") /\ d.row = row
    BY <1>2, <1>3 DEF Step, Idle
  <2>2. Start(p, "login", d)
    BY <1>8 DEF Login
  <2> HIDE DEF d
  <2> QED
    BY <1>4, <2>1, <2>2 DEF Plain
<1>9. ASSUME NEW locked \in BOOLEAN, SetLocked(p, locked) PROVE \E op, r : Opens(p, op, r)
  <2> DEFINE u == [row EXCEPT !.locked = locked]
             d == [Step("save") EXCEPT !.row = u]
             op == IF locked THEN "lock" ELSE "unlock"
  <2>1. Stepped(u) /\ u.step = row.step
    BY <1>3 DEF Stepped
  <2>2. Like(d, "save")
    BY <1>2, <2>1
  <2>3. Start(p, op, d)
    BY <1>9 DEF SetLocked
  <2>4. locked => u.locked
    BY <1>3 DEF Stepped, Inv, Types
  <2>5. d.row = u
    BY DEF Step, Idle
  <2> HIDE DEF d, u
  <2> QED
    BY <1>4, <2>1, <2>2, <2>3, <2>4, <2>5 DEF Plain
<1> QED
  BY <1>5, <1>6, <1>7, <1>8, <1>9 DEF Request, Decide

LEMMA StartSteps == ASSUME Inv, NEW p \in Proc, Request(p) \/ Decide(p) PROVE Inv'
<1>1. PICK op, r : Opens(p, op, r)
  BY Openings
<1> DEFINE j == [r EXCEPT !.op = op]
<1>2. Becomes(p, j) /\ UNCHANGED <<row, kycKey, approvals>>
  BY <1>1 DEF Opens, Start, Becomes, tables, redis
<1>3. Shaped(j) /\ j.row.step \in {0, row.step} /\ j.pc # "cache"
  BY <1>1 DEF Opens, Shaped
<1> HIDE DEF j
<1>4. approvals = 0 => Low(j)
  BY <1>3 DEF Inv, Reviewed, Low
<1> QED
  BY <1>2, <1>3, <1>4, Quiet

LEMMA JobSteps ==
  ASSUME Inv, NEW p \in Proc
  PROVE  /\ Done(p) => Becomes(p, Idle)
         /\ \A l : /\ Goto(p, l) /\ (l \in Plain \/ job[p].pc \notin Plain)
                   /\ l = "cache" => job[p].op \in Cached
                   => \E j : /\ Becomes(p, j) /\ Shaped(j) /\ j.pc = l
                             /\ j.op = job[p].op /\ j.row = job[p].row
<1>1. Shaped(job[p])
  BY DEF Inv, Types
<1>2. ASSUME NEW l, Goto(p, l), l \in Plain \/ job[p].pc \notin Plain,
             l = "cache" => job[p].op \in Cached
      PROVE  \E j : /\ Becomes(p, j) /\ Shaped(j) /\ j.pc = l
                    /\ j.op = job[p].op /\ j.row = job[p].row
  <2> DEFINE j == [job[p] EXCEPT !.pc = l]
  <2>1. Becomes(p, j)
    BY <1>2 DEF Goto, Becomes
  <2>2. Shaped(j) /\ j.pc = l /\ j.op = job[p].op /\ j.row = job[p].row
    BY <1>1, <1>2 DEF Shaped
  <2> QED
    BY <2>1, <2>2
<1> QED
  BY <1>2 DEF Done, Becomes

(* A step that moves on, or ends, and leaves the row and the key alone. *)
LEMMA Moves ==
  ASSUME Inv, NEW p \in Proc, UNCHANGED <<row, kycKey, approvals>>,
         NEW l, \/ Done(p)
                \/ l # "cache" /\ Goto(p, l) /\ (l \in Plain \/ job[p].pc \notin Plain)
  PROVE  Inv'
<1>1. CASE Done(p)
  BY <1>1, JobSteps, IdleJob, Quiet DEF Low
<1>2. CASE l # "cache" /\ Goto(p, l) /\ (l \in Plain \/ job[p].pc \notin Plain)
  BY <1>2, JobSteps, Quiet DEF Low, Inv, Reviewed
<1> QED
  BY <1>1, <1>2

LEMMA UpdateSteps == ASSUME Inv, NEW p \in Proc, UpdateRow(p) PROVE Inv'
<1> DEFINE op == job[p].op
<1>1. /\ Stepped(row) /\ Shaped(job[p]) /\ UNCHANGED kycKey /\ job[p].pc = "columns"
      /\ op \in Writers
  BY DEF Inv, Types, UpdateRow, redis, Shaped, At, Plain
<1>2. Stepped(row') /\ (row'.step >= 4 => op = "approve" \/ row.step >= 4)
  <2>1. CASE row' = [row EXCEPT !.step = 1, !.email = TRUE]
    BY <1>1, <2>1 DEF Stepped
  <2>2. ASSUME NEW n \in 0..4, NEW v, Columns(n, v), n = 4 => op = "approve" \/ row.step >= 4
        PROVE  Stepped(row') /\ (row'.step >= 4 => op = "approve" \/ row.step >= 4)
    <3>1. Stepped(row') /\ row'.step = n
      BY <1>1, <2>2 DEF Columns, Stepped
    <3> QED
      BY <2>2, <3>1
  <2>3. CASE \E v : Columns(2, v) \/ Columns(3, v) \/ (op = "approve" /\ Columns(4, v))
    BY <2>2, <2>3
  <2>4. CASE \E v : Columns(row.step, v)
    BY <1>1, <2>2, <2>4 DEF Stepped
  <2> QED
    BY <2>1, <2>3, <2>4 DEF UpdateRow
<1>3. approvals' = IF op = "approve" THEN approvals + 1 ELSE approvals
  BY DEF UpdateRow
<1>4. PICK j : /\ Becomes(p, j) /\ Shaped(j) /\ j.row.step \in {0, job[p].row.step}
               /\ j.pc = "cache" => j.op = op /\ op \in Cached
  BY <1>1, JobSteps, IdleJob DEF UpdateRow, Plain
<1>5. approvals' = 0 => row'.step < 4 /\ kycKey' \in {Absent} \cup 0..3 /\ Low(j)
  BY <1>1, <1>2, <1>3, <1>4 DEF Inv, Types, Reviewed, Low, Cached, Stepped
<1> QED
  BY <1>1, <1>2, <1>3, <1>4, <1>5, Keeps DEF Inv, Types

(* The writes to the cache, and the save of a whole row. *)
LEMMA WriteSteps ==
  ASSUME Inv, NEW p \in Proc, SetKycKey(p) \/ CacheLogin(p) \/ SaveUser(p) PROVE Inv'
<1>1. /\ Shaped(job[p]) /\ Stepped(job[p].row) /\ UNCHANGED approvals
      /\ Stepped(row) /\ kycKey \in {Absent} \cup 0..4
      /\ approvals = 0 => Low(job[p]) /\ row.step < 4 /\ kycKey \in {Absent} \cup 0..3
  BY DEF Inv, Types, Reviewed, Shaped, SetKycKey, CacheLogin, SaveUser
<1>2. /\ Stepped(row') /\ kycKey' \in {Absent} \cup 0..4
      /\ approvals = 0 => row'.step < 4 /\ kycKey' \in {Absent} \cup 0..3
  <2>1. CASE SetKycKey(p)
    <3>1. job[p].op \in Cached /\ UNCHANGED row /\ kycKey' = StepOf[job[p].op]
      BY <1>1, <2>1 DEF SetKycKey, At, Shaped, tables
    <3>2. /\ StepOf[job[p].op] \in 0..4
          /\ job[p].op \in {"verify", "profile", "upload"} => StepOf[job[p].op] \in 0..3
      BY <3>1 DEF StepOf, Cached
    <3>3. approvals = 0 => job[p].op \in {"verify", "profile", "upload"}
      BY <1>1, <2>1 DEF Low, SetKycKey, At
    <3> QED
      BY <1>1, <3>1, <3>2, <3>3
  <2>2. CASE CacheLogin(p)
    BY <1>1, <2>2 DEF CacheLogin, tables, Low, Stepped
  <2>3. CASE SaveUser(p)
    BY <1>1, <2>3 DEF SaveUser, redis, Low, Stepped
  <2> QED
    BY <2>1, <2>2, <2>3
<1>3. \E j : Becomes(p, j) /\ Shaped(j) /\ (approvals = 0 => Low(j))
  <2>1. CASE Done(p)
    BY <2>1, JobSteps, IdleJob DEF Low
  <2>2. CASE Goto(p, "cacheLock")
    BY <1>1, <2>2, JobSteps DEF Low, Plain
  <2> QED
    BY <2>1, <2>2 DEF SetKycKey, CacheLogin, SaveUser
<1> QED
  BY <1>1, <1>2, <1>3, Keeps

LEMMA StepInv == ASSUME Inv, [Next]_vars PROVE Inv'
<1> USE DEF tables, redis
<1>1. CASE UNCHANGED vars \/ CodeExpires
  BY <1>1 DEF vars, CodeExpires, Inv, Types, Reviewed
<1>2. ASSUME NEW p \in Proc, Serve(p) PROVE Inv'
  <2>1. CASE SetCode(p) \/ Stops(p)
    BY <2>1, Moves DEF SetCode, Stops
  <2>2. CASE DelCode(p) \/ UpsertProfile(p) \/ CountDocuments(p) \/ UpdateAllDocumentsStatus(p)
    <3>1. /\ job[p].pc \notin Plain /\ UNCHANGED <<row, kycKey, approvals>>
          /\ Done(p) \/ Goto(p, "columns")
      BY <2>2 DEF DelCode, UpsertProfile, CountDocuments, UpdateAllDocumentsStatus, At, Plain
    <3> QED
      BY <3>1, Moves
  <2>3. CASE SaveDocument(p)
    <3>1. /\ job[p].pc \notin Plain /\ UNCHANGED <<row, kycKey, approvals>>
          /\ Done(p) \/ Goto(p, "all")
      BY <2>3 DEF SaveDocument, At, Plain
    <3> QED
      BY <3>1, Moves
  <2> QED
    BY <1>2, <2>1, <2>2, <2>3, UpdateSteps, WriteSteps DEF Serve
<1> QED
  BY <1>1, <1>2, StartSteps DEF Next

(* The requests at the gateway, and a restart, leave all this alone. *)
LEMMA AccessInv == ASSUME Inv, [NextAccess]_<<vars, access>> PROVE Inv'
<1>1. CASE UNCHANGED <<row, kycKey, approvals, job>>
  BY <1>1 DEF Inv, Types, Reviewed
<1>2. CASE [Next]_vars
  BY <1>2, StepInv
<1>3. ASSUME NEW c \in Caller, WarmCache(c) PROVE Inv'
  <2>1. job' = [p \in Proc |-> Idle] /\ UNCHANGED <<row, kycKey, approvals>>
    BY <1>3 DEF WarmCache, tables, redis
  <2> QED
    BY <2>1, IdleJob DEF Inv, Types, Reviewed, Low
<1>4. ASSUME NEW c \in Caller, Gateway(c) \/ AuthService(c) \/ Service(c) PROVE Inv'
  BY <1>1, <1>4
  DEF Gateway, AuthService, Service, Ask, Allow, FindByKeyID, Authenticate, ValidateAPIKey,
      ValidateToken, JWTAuth, KYCGate, RequireAPIPermission, Handle, Auth, Kept, vars, tables, redis
<1>5. ASSUME NEW c \in Caller,
             GetSettings(c) \/ GetFromDB(c) \/ UpdateSettings(c) \/ WriteCache(c)
      PROVE  Inv'
  BY <1>1, <1>5
  DEF GetSettings, GetFromDB, UpdateSettings, WriteCache, Auth, vars, tables, redis
<1>6. CASE Tick \/ CacheExpires \/ ManageKeys
  BY <1>1, <1>6 DEF Tick, CacheExpires, ManageKeys, CreateKey, Revoke, Auth, vars, tables, redis
<1> QED
  BY <1>2, <1>3, <1>4, <1>5, <1>6 DEF NextAccess, SettingsService

(* The gate never opens for a user whom no administrator has approved.     *)
THEOREM GateKept == AccessSpec => []GateNeedsApproval
<1>1. InitAccess => Inv
  BY InitInv DEF InitAccess
<1>2. Inv => GateNeedsApproval
  BY KycAssumption DEF Inv, Types, Reviewed, GateNeedsApproval, GateOpen
<1> QED
  BY <1>1, <1>2, AccessInv, PTL DEF AccessSpec

-----------------------------------------------------------------------------
(* Keys. A request with a key that was dead when it was made is stopped by *)
(* the first look-up that sees why, since nothing revives a key or a row   *)
(* nobody unlocks; a live one carries what its owner asked for.            *)
MayUnlock == "unlock" \in here.ops
LockStays == ~MayUnlock => \A p \in Proc : job[p].pc = "save" => job[p].row.locked

KeyTypes ==
    /\ here.by \subseteq {"key", "token"} /\ clock \in Nat /\ key = [k \in ApiKey |-> key[k]]
    /\ \A k \in ApiKey : /\ {"state", "perms", "until", "asked"} \subseteq DOMAIN key[k]
                         /\ key[k].until \in Nat /\ key[k].state \in {"none", "live", "revoked"}
                         /\ key[k].state # "none" => key[k].perms = Normalized(key[k].asked)
Fields == {"pc", "by", "key", "route", "now", "until", "perms", "value", "fresh"}
CallShaped(r) == Fields \subseteq DOMAIN r /\ r.key \in ApiKey /\ r.route \in DOMAIN First

Early == {"allow", "find", "check", "user"}
Signed(r) ==
    LET k == key[r.key]
    IN  /\ r.pc # "idle" /\ k.state # "none"
        /\ r.pc \notin {"allow", "find"} => r.perms = k.perms
        /\ r.pc = "handler" /\ r.route \in {"trade", "withdraw"} => r.route \in r.perms
        /\ ~r.fresh /\ ~MayUnlock =>
              /\ r.pc \in Early
              /\ r.pc \in {"allow", "find"} => k.state = "revoked" \/ Expired(k) \/ row.locked
              /\ r.pc = "check" => Expired(k) \/ row.locked
              /\ r.pc = "user" => row.locked
Held(r) == (r.by = "key" => Signed(r)) /\ (r.by # "key" => r.fresh)
CallsHeld ==
    /\ call = [c \in Caller |-> call[c]]
    /\ \A c \in Caller : CallShaped(call[c]) /\ Held(call[c])
KeyInv == Inv /\ LockStays /\ KeyTypes /\ CallsHeld

LEMMA NobodyHeld == CallShaped(Nobody) /\ Held(Nobody) /\ Nobody.by = "token"
<1>1. (CHOOSE k \in ApiKey : TRUE) \in ApiKey
  BY AccessAssumption
<1>2. /\ Fields \subseteq DOMAIN Nobody /\ Nobody.key \in ApiKey /\ Nobody.route = "read"
      /\ Nobody.by = "token" /\ Nobody.fresh
  BY <1>1 DEF Nobody, Fields
<1>3. "read" \in DOMAIN First
  BY DEF First
<1> QED
  BY <1>2, <1>3 DEF CallShaped, Held

LEMMA InitKeys == ASSUME InitAccess PROVE KeyInv
<1>1. Inv /\ LockStays
  BY InitInv DEF InitAccess, Init, LockStays, Idle
<1>2. KeyTypes
  BY AccessAssumption DEF InitAccess, Init, KeyTypes
<1> QED
  BY <1>1, <1>2, NobodyHeld DEF InitAccess, KeyInv, CallsHeld

(* A step of one call; the keys, the clock and the row stay. *)
Turns(c, r) == call' = [call EXCEPT ![c] = r] /\ UNCHANGED <<here, row, key, clock>>

LEMMA CallKeeps ==
  ASSUME KeyInv, Inv', LockStays', NEW c \in Caller, NEW r, Turns(c, r), CallShaped(r), Held(r)
  PROVE  KeyInv'
<1>1. KeyTypes'
  BY DEF KeyInv, KeyTypes, Turns, Normalized, Known
<1>2. \A d \in Caller : call'[d] = IF d = c THEN r ELSE call[d]
  BY DEF KeyInv, CallsHeld, Turns
<1>3. \A d \in Caller : CallShaped(call'[d]) /\ Held(call'[d])
  BY <1>2 DEF KeyInv, CallsHeld
<1>4. ASSUME NEW d \in Caller PROVE Held(call[d])'
  BY <1>3 DEF Held, Signed, Turns, Expired, MayUnlock
<1>5. ASSUME NEW d \in Caller PROVE CallShaped(call[d])'
  BY <1>3 DEF CallShaped
<1>6. call' = [d \in Caller |-> call'[d]]
  BY DEF KeyInv, CallsHeld, Turns
<1> QED
  BY <1>1, <1>4, <1>5, <1>6 DEF KeyInv, CallsHeld

Same(r, q) == /\ r.by = q.by /\ r.key = q.key /\ r.route = q.route /\ r.perms = q.perms
              /\ r.fresh = q.fresh
LEMMA CallSteps ==
  ASSUME KeyInv, NEW c \in Caller, UNCHANGED <<here, row, key, clock>>
  PROVE  /\ Answer(c) => Turns(c, Nobody)
         /\ \A l : Pass(c, l) =>
               \E r : Turns(c, r) /\ CallShaped(r) /\ r.pc = l /\ Same(r, call[c])
<1>1. CallShaped(call[c])
  BY DEF KeyInv, CallsHeld
<1>2. ASSUME NEW l, Pass(c, l)
      PROVE  \E r : Turns(c, r) /\ CallShaped(r) /\ r.pc = l /\ Same(r, call[c])
  <2> DEFINE r == [call[c] EXCEPT !.pc = l]
  <2>1. Turns(c, r)
    BY <1>2 DEF Pass, Turns
  <2>2. CallShaped(r) /\ r.pc = l /\ Same(r, call[c])
    BY <1>1 DEF CallShaped, Fields, Same
  <2> QED
    BY <2>1, <2>2
<1> QED
  BY <1>2 DEF Answer, Turns

(* A call ends, or passes on to where what is known of it holds. *)
LEMMA CallMoves ==
  ASSUME KeyInv, Inv', LockStays', NEW c \in Caller, UNCHANGED <<here, row, key, clock>>, NEW l,
         Answer(c) \/ Pass(c, l),
         \A r : r.pc = l /\ Same(r, call[c]) /\ Pass(c, l) => Held(r)
  PROVE  KeyInv'
BY CallSteps, CallKeeps, NobodyHeld

LEMMA GatewayKeys ==
  ASSUME KeyInv, Inv', LockStays', NEW c \in Caller, Gateway(c) PROVE KeyInv'
<1> USE DEF Kept, Auth, vars, tables, redis
<1>1. UNCHANGED <<here, row, key, clock>>
  BY DEF Gateway, Ask, Allow
<1>2. CallShaped(call[c]) /\ Held(call[c]) /\ KeyTypes
  BY DEF KeyInv, CallsHeld
<1>3. ASSUME NEW by \in here.by, NEW route \in here.calls \cap DOMAIN First, Ask(c, by, route)
      PROVE  KeyInv'
  <2>1. PICK k \in ApiKey, left \in {0, Life}, v \in Value :
          /\ by = "key" => key[k].state # "none"
          /\ call' = [call EXCEPT ![c] = Arrival(by, route, k, left, v)]
    BY <1>3 DEF Ask
  <2> DEFINE f == by = "token" \/ (key[k].state = "live" /\ ~Expired(key[k]) /\ ~row.locked)
             r == Arrival(by, route, k, left, v)
  <2>2. Fields \subseteq DOMAIN Nobody
    BY NobodyHeld DEF CallShaped
  <2>3. /\ Fields \subseteq DOMAIN r /\ r.pc = "allow" /\ r.by = by /\ r.key = k /\ r.route = route
        /\ r.fresh = f
    BY <2>2 DEF Fields, Arrival
  <2>4. Turns(c, r)
    BY <1>1, <2>1 DEF Turns
  <2> HIDE DEF r
  <2>5. CallShaped(r)
    BY <2>3 DEF CallShaped
  <2>6. Held(r)
    <3>1. by \in {"key", "token"} /\ key[k].state \in {"live", "revoked"} \cup {"none"}
      BY <1>2 DEF KeyTypes
    <3>2. by = "token" => r.fresh
      BY <2>3
    <3>3. ~r.fresh => key[k].state # "live" \/ Expired(key[k]) \/ row.locked
      BY <2>3
    <3> QED
      BY <2>1, <2>3, <3>1, <3>2, <3>3 DEF Held, Signed, Early
  <2> QED
    BY <2>4, <2>5, <2>6, CallKeeps
<1>4. CASE Allow(c)
  <2>1. In(c, "allow") /\ (Answer(c) \/ Pass(c, IF call[c].by = "key" THEN "find" ELSE "token"))
    BY <1>4 DEF Allow
  <2>2. ASSUME NEW r, r.pc = (IF call[c].by = "key" THEN "find" ELSE "token"), Same(r, call[c])
        PROVE  Held(r)
    BY <1>2, <2>1, <2>2 DEF Held, Signed, Same, In, Early
  <2> QED
    BY <1>1, <2>1, <2>2, CallMoves
<1> QED
  BY <1>3, <1>4 DEF Gateway

LEMMA AuthKeys ==
  ASSUME KeyInv, Inv', LockStays', NEW c \in Caller, AuthService(c) PROVE KeyInv'
<1> USE DEF Auth, vars, tables, redis, In
<1>1. UNCHANGED <<here, row, key, clock>>
  BY DEF AuthService, FindByKeyID, Authenticate, ValidateAPIKey, ValidateToken
<1>2. CallShaped(call[c]) /\ Held(call[c]) /\ KeyTypes /\ call[c].key \in ApiKey
  BY DEF KeyInv, CallsHeld, CallShaped
<1> DEFINE k == key[call[c].key]
<1>3. CASE FindByKeyID(c)
  <2>1. CASE Answer(c)
    BY <1>1, <2>1, CallSteps, CallKeeps, NobodyHeld
  <2>2. CASE k.state = "live" /\ call' = [call EXCEPT ![c].pc = "check", ![c].perms = k.perms]
    <3> DEFINE r == [call[c] EXCEPT !.pc = "check", !.perms = k.perms]
    <3>1. Turns(c, r)
      BY <1>1, <1>3, <2>2 DEF FindByKeyID, Turns
    <3>2. /\ CallShaped(r) /\ r.pc = "check" /\ r.perms = k.perms /\ r.key = call[c].key
          /\ r.by = call[c].by /\ r.fresh = call[c].fresh
      BY <1>2 DEF CallShaped, Fields
    <3> HIDE DEF r
    <3>3. Held(r)
      BY <1>2, <1>3, <2>2, <3>2 DEF FindByKeyID, Held, Signed, Early
    <3> QED
      BY <3>1, <3>2, <3>3, CallKeeps
  <2> QED
    BY <1>3, <2>1, <2>2 DEF FindByKeyID
<1>4. CASE Authenticate(c)
  <2>1. Answer(c) \/ (~Expired(k) /\ Pass(c, "user"))
    BY <1>4 DEF Authenticate, PassIf
  <2>2. ASSUME NEW r, r.pc = "user", Same(r, call[c]), Pass(c, "user"), ~Expired(k) PROVE Held(r)
    BY <1>2, <1>4, <2>2 DEF Authenticate, Held, Signed, Same, Early
  <2>3. CASE Answer(c)
    BY <1>1, <2>3, CallSteps, CallKeeps, NobodyHeld
  <2> QED
    BY <1>1, <2>1, <2>2, <2>3, CallMoves
<1>5. CASE ValidateAPIKey(c)
  <2>1. CASE Answer(c)
    BY <1>1, <2>1, CallSteps, CallKeeps, NobodyHeld
  <2>2. CASE ~row.locked /\ call' = [call EXCEPT ![c].pc = "service", ![c].until = Minted]
    <3> DEFINE r == [call[c] EXCEPT !.pc = "service", !.until = Minted]
    <3>1. Turns(c, r)
      BY <1>1, <1>5, <2>2 DEF ValidateAPIKey, Turns
    <3>2. CallShaped(r) /\ r.pc = "service" /\ Same(r, call[c])
      BY <1>2 DEF CallShaped, Fields, Same
    <3> HIDE DEF r
    <3>3. Held(r)
      BY <1>2, <1>5, <2>2, <3>2 DEF ValidateAPIKey, Held, Signed, Same, Early
    <3> QED
      BY <3>1, <3>2, <3>3, CallKeeps
  <2> QED
    BY <1>5, <2>1, <2>2 DEF ValidateAPIKey
<1>6. CASE ValidateToken(c)
  <2>1. Answer(c) \/ Pass(c, "service")
    BY <1>6 DEF ValidateToken, PassIf
  <2>2. ASSUME NEW r, r.pc = "service", Same(r, call[c]) PROVE Held(r)
    BY <1>2, <1>6, <2>2 DEF ValidateToken, Held, Signed, Same, Early
  <2> QED
    BY <1>1, <2>1, <2>2, CallMoves
<1> QED
  BY <1>3, <1>4, <1>5, <1>6 DEF AuthService

(* Behind auth-service: a dead key did not get there.                      *)
Behind == {"service", "gate", "step", "permission", "handler", "get", "read", "fill", "put", "refresh"}
LEMMA Onward ==
  ASSUME KeyInv, NEW c \in Caller, call[c].pc \in Behind, NEW r, Same(r, call[c]),
         r.pc \in Behind,
         r.pc = "handler" /\ r.by = "key" /\ r.route \in {"trade", "withdraw"}
            => r.route \in r.perms
  PROVE  Held(r)
BY DEF KeyInv, CallsHeld, Held, Signed, Same, Early, Behind

LEMMA ServiceKeys ==
  ASSUME KeyInv, Inv', LockStays', NEW c \in Caller, Service(c) PROVE KeyInv'
<1> USE DEF Auth, vars, tables, redis, In
<1>1. UNCHANGED <<here, row, key, clock>> /\ call[c].pc \in Behind
  BY DEF Service, JWTAuth, KYCGate, RequireAPIPermission, Handle, Behind
<1>2. CallShaped(call[c]) /\ Held(call[c]) /\ KeyTypes /\ call[c].key \in ApiKey
  BY DEF KeyInv, CallsHeld, CallShaped
<1>3. CASE JWTAuth(c)
  <2> DEFINE l == First[call[c].route]
  <2>1. l \in Behind /\ (l = "handler" => call[c].route = "read")
    BY <1>2 DEF First, CallShaped, Behind
  <2>2. Answer(c) \/ Pass(c, l)
    BY <1>3 DEF JWTAuth, PassIf
  <2>3. \A r : r.pc = l /\ Same(r, call[c]) => Held(r)
    BY <1>1, <2>1, Onward DEF Same
  <2> QED
    BY <1>1, <2>2, <2>3, CallMoves
<1>4. CASE KYCGate(c) \/ Handle(c)
  <2>1. PICK l \in {"step", "permission"} : Answer(c) \/ Pass(c, l)
    BY <1>4 DEF KYCGate, PassIf, Handle
  <2>2. \A r : r.pc = l /\ Same(r, call[c]) => Held(r)
    BY <1>1, <2>1, Onward DEF Behind
  <2> QED
    BY <1>1, <2>1, <2>2, CallMoves
<1>5. CASE RequireAPIPermission(c)
  <2>1. CASE Answer(c)
    BY <1>1, <2>1, CallSteps, CallKeeps, NobodyHeld
  <2>2. CASE Pass(c, "handler") /\ (call[c].perms = {} \/ call[c].route \in call[c].perms)
    <3>1. call[c].by = "key" => call[c].perms # {}
      BY <1>2, <1>5 DEF RequireAPIPermission, Held, Signed, KeyTypes, Normalized
    <3>2. \A r : r.pc = "handler" /\ Same(r, call[c]) => Held(r)
      BY <1>1, <2>2, <3>1, Onward DEF Behind, Same
    <3> QED
      BY <1>1, <2>2, <3>2, CallMoves
  <2> QED
    BY <1>5, <2>1, <2>2 DEF RequireAPIPermission, PassIf
<1> QED
  BY <1>3, <1>4, <1>5 DEF Service

LEMMA SettingsKeys ==
  ASSUME KeyInv, Inv', LockStays', NEW c \in Caller,
         GetSettings(c) \/ GetFromDB(c) \/ UpdateSettings(c) \/ WriteCache(c)
  PROVE  KeyInv'
<1> USE DEF Auth, vars, tables, redis, In
<1>1. UNCHANGED <<here, row, key, clock>> /\ call[c].pc \in Behind
  BY DEF GetSettings, GetFromDB, UpdateSettings, WriteCache, Behind
<1>2. CallShaped(call[c])
  BY DEF KeyInv, CallsHeld
<1>3. CASE GetFromDB(c)
  <2> DEFINE r == [call[c] EXCEPT !.pc = "fill", !.value = settings]
  <2>1. Turns(c, r)
    BY <1>1, <1>3 DEF GetFromDB, Turns
  <2>2. CallShaped(r) /\ r.pc = "fill" /\ Same(r, call[c])
    BY <1>2 DEF CallShaped, Fields, Same
  <2> HIDE DEF r
  <2>3. Held(r)
    BY <1>1, <2>2, Onward DEF Behind
  <2> QED
    BY <2>1, <2>2, <2>3, CallKeeps
<1>4. CASE GetSettings(c) \/ UpdateSettings(c) \/ WriteCache(c)
  <2>1. PICK l \in {"read", "refresh", "get"} : Answer(c) \/ Pass(c, l)
    BY <1>4 DEF GetSettings, UpdateSettings, WriteCache, PassIf
  <2>2. \A r : r.pc = l /\ Same(r, call[c]) => Held(r)
    BY <1>1, <2>1, Onward DEF Behind
  <2> QED
    BY <1>1, <2>1, <2>2, CallMoves
<1> QED
  BY <1>3, <1>4

(* Time, expiry, and what the owner does with keys: nothing revives one.   *)
LEMMA KeyKeeps ==
  ASSUME KeyInv, Inv', LockStays', UNCHANGED <<here, row, call>>, KeyTypes',
         \A k \in ApiKey : key[k].state # "none" =>
            /\ key'[k].state # "none" /\ key'[k].perms = key[k].perms
            /\ key[k].state = "revoked" => key'[k].state = "revoked"
            /\ key'[k].until = key[k].until,
         clock' \in {clock, clock + 1}
  PROVE  KeyInv'
<1>1. clock \in Nat /\ \A k \in ApiKey : key[k].until \in Nat
  BY DEF KeyInv, KeyTypes
<1>2. \A k \in ApiKey : key[k].state # "none" /\ Expired(key[k]) => Expired(key[k])'
  BY <1>1 DEF Expired
<1>3. ASSUME NEW c \in Caller PROVE CallShaped(call[c])' /\ Held(call[c])'
  <2>1. CallShaped(call[c]) /\ Held(call[c]) /\ call[c].key \in ApiKey
    BY DEF KeyInv, CallsHeld, CallShaped
  <2>2. CallShaped(call[c])'
    BY <2>1 DEF CallShaped
  <2>3. call[c].by = "key" => Signed(call[c])'
    BY <1>2, <2>1 DEF Held, Signed, MayUnlock
  <2> QED
    BY <2>1, <2>2, <2>3 DEF Held
<1> QED
  BY <1>3 DEF KeyInv, CallsHeld

LEMMA ManageSteps ==
  ASSUME KeyInv, Inv', LockStays', Tick \/ CacheExpires \/ ManageKeys PROVE KeyInv'
<1> USE DEF Auth, vars, tables, redis
<1>1. UNCHANGED <<here, row>>
  BY DEF Tick, CacheExpires, ManageKeys, CreateKey, Revoke
<1>2. KeyTypes
  BY DEF KeyInv
<1>3. CASE Tick \/ CacheExpires
  <2>1. UNCHANGED key /\ clock' \in {clock, clock + 1}
    BY <1>3 DEF Tick, CacheExpires
  <2>2. UNCHANGED call
    BY <1>3 DEF Tick, CacheExpires
  <2>3. KeyTypes'
    BY <1>1, <1>2, <2>1 DEF KeyTypes, Normalized, Known
  <2> QED
    BY <1>1, <2>1, <2>2, <2>3, KeyKeeps
<1>4. ASSUME NEW k \in ApiKey, Revoke(k) PROVE KeyInv'
  <2> DEFINE r == [key[k] EXCEPT !.state = "revoked"]
  <2>1. key' = [key EXCEPT ![k] = r] /\ UNCHANGED <<call, clock>> /\ key[k].state = "live"
    BY <1>4 DEF Revoke
  <2>2. /\ {"state", "perms", "until", "asked"} \subseteq DOMAIN r /\ r.state = "revoked"
        /\ r.perms = key[k].perms /\ r.until = key[k].until /\ r.asked = key[k].asked
    BY <1>2 DEF KeyTypes
  <2> HIDE DEF r
  <2>3. \A l \in ApiKey : key'[l] = IF l = k THEN r ELSE key[l]
    BY <1>2, <2>1 DEF KeyTypes
  <2>4. key' = [l \in ApiKey |-> key'[l]]
    BY <1>2, <2>1 DEF KeyTypes
  <2>5. KeyTypes'
    BY <1>1, <1>2, <2>1, <2>2, <2>3, <2>4 DEF KeyTypes, Normalized, Known
  <2> QED
    BY <1>1, <2>1, <2>2, <2>3, <2>5, KeyKeeps
<1>5. ASSUME NEW k \in ApiKey, NEW asked, NEW until \in {0, clock + 1}, CreateKey(k, asked, until)
      PROVE  KeyInv'
  <2> DEFINE r == [state |-> "live", perms |-> Normalized(asked), until |-> until, asked |-> asked]
  <2>1. key' = [key EXCEPT ![k] = r] /\ UNCHANGED <<call, clock>> /\ key[k].state = "none"
    BY <1>5 DEF CreateKey
  <2>2. /\ {"state", "perms", "until", "asked"} \subseteq DOMAIN r /\ r.state = "live"
        /\ r.perms = Normalized(asked) /\ r.until = until /\ r.asked = asked /\ until \in Nat
    BY <1>2 DEF KeyTypes
  <2> HIDE DEF r
  <2>3. \A l \in ApiKey : key'[l] = IF l = k THEN r ELSE key[l]
    BY <1>2, <2>1 DEF KeyTypes
  <2>4. key' = [l \in ApiKey |-> key'[l]]
    BY <1>2, <2>1 DEF KeyTypes
  <2>5. KeyTypes'
    BY <1>1, <1>2, <2>1, <2>2, <2>3, <2>4 DEF KeyTypes, Normalized, Known
  <2> QED
    BY <1>1, <2>1, <2>3, <2>5, KeyKeeps
<1> QED
  BY <1>3, <1>4, <1>5 DEF ManageKeys

(* What auth-service does with the row: only an unlock unlocks it.         *)
LEMMA LockSteps ==
  ASSUME Inv, LockStays, [Next]_vars
  PROVE  here' = here /\ LockStays' /\ (~MayUnlock /\ row.locked => row'.locked)
<1> USE DEF tables, redis
<1>1. CASE UNCHANGED vars \/ CodeExpires
  BY <1>1 DEF vars, CodeExpires, LockStays, MayUnlock
<1>2. ASSUME NEW p \in Proc, NEW j, Becomes(p, j), here' = here,
             j.pc = "save" /\ ~MayUnlock => j.row.locked
      PROVE  LockStays'
  <2>1. \A q \in Proc : job'[q] = IF q = p THEN j ELSE job[q]
    BY <1>2 DEF Inv, Types, Becomes
  <2> QED
    BY <1>2, <2>1 DEF LockStays, MayUnlock
<1>3. ASSUME NEW p \in Proc, Request(p) \/ Decide(p)
      PROVE  UNCHANGED <<here, row>> /\ LockStays'
  <2>1. PICK op, r : Opens(p, op, r)
    BY <1>3, Openings
  <2> DEFINE j == [r EXCEPT !.op = op]
  <2>2. Becomes(p, j) /\ UNCHANGED <<here, row>> /\ op \in here.ops
    BY <2>1 DEF Opens, Start, Becomes
  <2>3. j.pc = r.pc /\ j.row = r.row
    BY <2>1 DEF Opens
  <2> HIDE DEF j
  <2>4. j.pc = "save" /\ ~MayUnlock => j.row.locked
    BY <2>1, <2>2, <2>3 DEF Opens, MayUnlock
  <2> QED
    BY <1>2, <2>2, <2>4
<1>4. ASSUME NEW p \in Proc, Serve(p) PROVE here' = here /\ LockStays'
  <2>1. here' = here
    BY <1>4 DEF Serve, SetCode, DelCode, UpsertProfile, SaveDocument, CountDocuments,
                UpdateAllDocumentsStatus, UpdateRow, SetKycKey, CacheLogin, SaveUser, Stops
  <2>2. \E l \in {"columns", "all", "cache", "cacheLock"} : Done(p) \/ Goto(p, l)
    BY <1>4 DEF Serve, SetCode, DelCode, UpsertProfile, SaveDocument, CountDocuments,
                UpdateAllDocumentsStatus, UpdateRow, SetKycKey, CacheLogin, SaveUser, Stops
  <2>3. CASE Done(p)
    BY <1>2, <2>1, <2>3, IdleJob DEF Done, Becomes
  <2>4. ASSUME NEW l \in {"columns", "all", "cache", "cacheLock"}, Goto(p, l) PROVE LockStays'
    <3> DEFINE j == [job[p] EXCEPT !.pc = l]
    <3>1. Becomes(p, j)
      BY <2>4 DEF Goto, Becomes
    <3>2. j.pc = l
      BY DEF Inv, Types, Shaped
    <3> HIDE DEF j
    <3> QED
      BY <1>2, <2>1, <2>4, <3>1, <3>2
  <2> QED
    BY <2>1, <2>2, <2>3, <2>4
<1>5. ASSUME NEW p \in Proc, Serve(p), ~MayUnlock, row.locked PROVE row'.locked
  <2>1. CASE UpdateRow(p)
    <3>1. CASE row' = [row EXCEPT !.step = 1, !.email = TRUE]
      BY <1>5, <3>1
    <3>2. ASSUME NEW n, NEW v, Columns(n, v) PROVE row'.locked
      BY <1>5, <3>2 DEF Columns
    <3> QED
      BY <2>1, <3>1, <3>2 DEF UpdateRow
  <2>2. CASE SaveUser(p)
    BY <1>5, <2>2 DEF SaveUser, LockStays, At
  <2>3. CASE UNCHANGED row
    BY <1>5, <2>3
  <2> QED
    BY <1>5, <2>1, <2>2, <2>3
    DEF Serve, SetCode, DelCode, UpsertProfile, SaveDocument, CountDocuments,
        UpdateAllDocumentsStatus, SetKycKey, CacheLogin, Stops
<1> QED
  BY <1>1, <1>3, <1>4, <1>5 DEF Next

(* The row as a whole, while no call moves. *)
LEMMA RowKeys ==
  ASSUME KeyInv, [Next]_vars, UNCHANGED access PROVE KeyInv'
<1>1. Inv' /\ here' = here /\ LockStays' /\ (~MayUnlock /\ row.locked => row'.locked)
  BY StepInv, LockSteps DEF KeyInv
<1>2. UNCHANGED <<clock, key, call>>
  BY DEF access
<1>3. KeyTypes'
  BY <1>1, <1>2 DEF KeyInv, KeyTypes, Normalized, Known
<1>4. ASSUME NEW c \in Caller PROVE CallShaped(call[c])' /\ Held(call[c])'
  <2>1. CallShaped(call[c]) /\ Held(call[c])
    BY DEF KeyInv, CallsHeld
  <2>2. CallShaped(call[c])'
    BY <1>2, <2>1 DEF CallShaped
  <2>3. call[c].by = "key" => Signed(call[c])'
    BY <1>1, <1>2, <2>1 DEF Held, Signed, MayUnlock, Expired
  <2> QED
    BY <1>2, <2>1, <2>2, <2>3 DEF Held
<1> QED
  BY <1>1, <1>2, <1>3, <1>4 DEF KeyInv, CallsHeld

LEMMA RestartKeys ==
  ASSUME KeyInv, Inv', NEW c \in Caller, WarmCache(c) PROVE KeyInv'
<1>1. /\ job' = [p \in Proc |-> Idle] /\ UNCHANGED <<here, row, key, clock>>
      /\ call' = [d \in Caller |-> IF d = c THEN [Nobody EXCEPT !.pc = "read"]
                                   ELSE IF call[d].pc \in InAuthService THEN Nobody ELSE call[d]]
  BY DEF WarmCache, tables
<1>2. LockStays'
  BY <1>1, IdleJob DEF LockStays
<1>3. KeyTypes'
  BY <1>1 DEF KeyInv, KeyTypes, Normalized, Known
<1> DEFINE r == [Nobody EXCEPT !.pc = "read"]
<1>4. CallShaped(r) /\ Held(r)
  BY NobodyHeld DEF CallShaped, Fields, Held
<1> HIDE DEF r
<1>5. ASSUME NEW d \in Caller PROVE CallShaped(call[d])' /\ Held(call[d])'
  <2>1. call'[d] \in {r, Nobody, call[d]}
    BY <1>1 DEF r
  <2>2. CallShaped(call'[d]) /\ Held(call'[d])
    BY <1>4, <2>1, NobodyHeld DEF KeyInv, CallsHeld
  <2>3. CallShaped(call[d])'
    BY <2>2 DEF CallShaped
  <2> QED
    BY <1>1, <2>2, <2>3 DEF Held, Signed, MayUnlock, Expired
<1> QED
  BY <1>1, <1>2, <1>3, <1>5 DEF KeyInv, CallsHeld

LEMMA StepKeys == ASSUME KeyInv, [NextAccess]_<<vars, access>> PROVE KeyInv'
<1>1. Inv'
  BY AccessInv DEF KeyInv
<1>2. CASE [Next]_vars /\ UNCHANGED access
  BY <1>2, RowKeys
<1>3. ASSUME NEW c \in Caller, WarmCache(c) PROVE KeyInv'
  BY <1>1, <1>3, RestartKeys
<1>4. ASSUME UNCHANGED <<here, job>> PROVE LockStays'
  BY <1>4 DEF KeyInv, LockStays, MayUnlock
<1>5. ASSUME NEW c \in Caller, Gateway(c) \/ AuthService(c) \/ Service(c) PROVE KeyInv'
  <2>1. UNCHANGED <<here, job>>
    BY <1>5
    DEF Gateway, AuthService, Service, Ask, Allow, FindByKeyID, Authenticate, ValidateAPIKey,
        ValidateToken, JWTAuth, KYCGate, RequireAPIPermission, Handle, Auth, Kept, vars
  <2> QED
    BY <1>1, <1>4, <1>5, <2>1, GatewayKeys, AuthKeys, ServiceKeys
<1>6. ASSUME NEW c \in Caller,
             GetSettings(c) \/ GetFromDB(c) \/ UpdateSettings(c) \/ WriteCache(c)
      PROVE  KeyInv'
  <2>1. UNCHANGED <<here, job>>
    BY <1>6 DEF GetSettings, GetFromDB, UpdateSettings, WriteCache, Auth, vars
  <2> QED
    BY <1>1, <1>4, <1>6, <2>1, SettingsKeys
<1>7. CASE Tick \/ CacheExpires \/ ManageKeys
  <2>1. UNCHANGED <<here, job>>
    BY <1>7 DEF Tick, CacheExpires, ManageKeys, CreateKey, Revoke, Auth, vars
  <2> QED
    BY <1>1, <1>4, <1>7, <2>1, ManageSteps
<1> QED
  BY <1>2, <1>3, <1>5, <1>6, <1>7 DEF NextAccess, SettingsService

(* A key opens what its owner asked for and no more, and a request that was *)
(* made with a dead one, or by a locked owner, reaches no service, for any *)
(* number of requests, keys and goroutines and whatever fails or restarts. *)
THEOREM KeysAreHeld == AccessSpec => []KeysHold
<1>1. InitAccess => KeyInv
  BY InitKeys
<1>2. KeyInv /\ [NextAccess]_<<vars, access>> => KeyInv'
  BY StepKeys
<1>3. ASSUME KeyInv PROVE KeysHold
  <2>1. ASSUME NEW c \in Caller, ~MayUnlock, Reached(c) PROVE call[c].fresh
    BY <1>3, <2>1 DEF KeyInv, CallsHeld, Held, Signed, Reached, Early
  <2>2. ASSUME NEW c \in Caller, In(c, "handler"), call[c].by = "key",
               call[c].route \in {"trade", "withdraw"}
        PROVE  call[c].route \in key[call[c].key].asked
    <3>1. /\ call[c].route \in Normalized(key[call[c].key].asked)
      BY <1>3, <2>2 DEF KeyInv, CallsHeld, CallShaped, KeyTypes, Held, Signed, In
    <3> QED
      BY <2>2, <3>1 DEF Normalized, Known
  <2> QED
    BY <2>1, <2>2 DEF KeysHold, DeadKeysStayOut, GrantedOnly, MayUnlock
<1> QED
  BY <1>1, <1>2, <1>3, PTL DEF AccessSpec

-----------------------------------------------------------------------------
(* What is cached                                                          *)

(* Requests one after another: a job that has read or written the step     *)
(* agrees with the row, and the key does except where the job is about to  *)
(* write it.                                                               *)
Lone == Approving /\ Cardinality(here.procs) = 1
Following(j) ==
    /\ j.pc # "idle" => j.op \in here.ops
    /\ j.pc = "cache" => StepOf[j.op] = row.step
    /\ j.pc \in {"save", "cacheStep"} => j.row.step = row.step
    /\ j.pc # "cache" => kycKey \in {Absent, row.step}
StepFollows ==
    Lone => \A p \in Proc : IF p \in here.procs THEN Following(job[p]) ELSE job[p].pc = "idle"

LEMMA OneProc ==
  ASSUME Lone, here \in Situation PROVE \E s \in Proc : here.procs = {s}
<1>1. IsFiniteSet(here.procs) /\ here.procs \subseteq Proc
  BY KycAssumption
<1>2. \E s : here.procs = {s}
  BY <1>1, FS_Singleton DEF Lone
<1> QED
  BY <1>1, <1>2

LEMMA InitFollows == ASSUME Init PROVE StepFollows
BY IdleJob DEF Init, StepFollows, Following

LEMMA FollowerKeeps ==
  ASSUME Inv, StepFollows, Lone, here' = here, NEW s \in Proc, here.procs = {s},
         NEW j, Becomes(s, j), Following(j)'
  PROVE  StepFollows'
<1>1. \A q \in Proc : job'[q] = IF q = s THEN j ELSE job[q]
  BY DEF Inv, Types, Becomes
<1>2. \A q \in Proc : q # s => job'[q].pc = "idle"
  BY <1>1 DEF StepFollows
<1>3. Following(job[s])'
  BY <1>1 DEF Following
<1> QED
  BY <1>2, <1>3 DEF StepFollows

(* The goroutine ends, or moves on, and the row's step and the key stay.   *)
LEMMA FollowerMoves ==
  ASSUME Inv, StepFollows, Lone, here' = here, NEW s \in Proc, here.procs = {s},
         row'.step = row.step, kycKey' = kycKey, job[s].pc # "cache", job[s].pc # "idle",
         NEW l \in {"columns", "all"}, Done(s) \/ (job[s].pc \notin Plain /\ Goto(s, l))
  PROVE  StepFollows'
<1>1. Following(job[s])
  BY DEF StepFollows
<1>2. CASE Done(s)
  <2>1. PICK j : j = Idle
    OBVIOUS
  <2>2. Following(j)'
    BY <1>1, <2>1, IdleJob DEF Following
  <2> QED
    BY <1>2, <2>1, <2>2, FollowerKeeps DEF Done, Becomes
<1>3. CASE job[s].pc \notin Plain /\ Goto(s, l)
  <2>1. PICK j : Becomes(s, j) /\ j.pc = l /\ j.op = job[s].op /\ j.row = job[s].row
    BY <1>3, JobSteps
  <2>2. Following(j)'
    BY <1>1, <2>1 DEF Following
  <2> QED
    BY <2>1, <2>2, FollowerKeeps
<1> QED
  BY <1>2, <1>3

LEMMA FollowerStarts ==
  ASSUME Inv, StepFollows, Lone, NEW s \in Proc, here.procs = {s}, Request(s) \/ Decide(s)
  PROVE  StepFollows' /\ here' = here
<1>1. PICK op, r : Opens(s, op, r)
  BY Openings
<1>2. PICK j : j = [r EXCEPT !.op = op]
  OBVIOUS
<1>3. /\ Becomes(s, j) /\ UNCHANGED <<row, kycKey, here>> /\ job[s].pc = "idle" /\ op \in here.ops
      /\ j.op = op /\ j.pc = r.pc /\ j.row = r.row /\ j.pc # "cache"
  BY <1>1, <1>2 DEF Opens, Start, Becomes, tables, redis
<1>4. j.pc \in {"save", "cacheStep"} => j.row.step = row.step
  BY <1>1, <1>3 DEF Opens
<1>5. kycKey \in {Absent, row.step}
  BY <1>3 DEF StepFollows, Following
<1>6. Following(j)'
  BY <1>3, <1>4, <1>5 DEF Following
<1> QED
  BY <1>3, <1>6, FollowerKeeps

LEMMA FollowerUpdates ==
  ASSUME Inv, StepFollows, Lone, NEW s \in Proc, here.procs = {s}, UpdateRow(s)
  PROVE  StepFollows'
<1>1. Following(job[s]) /\ Stepped(row) /\ job[s].pc = "columns" /\ UNCHANGED <<kycKey, here>>
  BY DEF StepFollows, UpdateRow, At, redis, Inv, Types
<1>2. job[s].op \in here.ops /\ job[s].op # "reject" /\ kycKey \in {Absent, row.step}
  BY <1>1 DEF Following, Lone, Approving
<1>3. ASSUME NEW n, NEW v, Columns(n, v) PROVE row'.step = n
  BY <1>1, <1>3 DEF Columns, Stepped
<1>4. CASE job[s].op = "status"
  <2>1. row'.step = row.step /\ Done(s)
    BY <1>3, <1>4 DEF UpdateRow, Cached
  <2> QED
    BY <1>1, <2>1, FollowerMoves
<1>5. CASE job[s].op # "status"
  <2>1. job[s].op \in Cached /\ row'.step = StepOf[job[s].op]
    <3>1. CASE job[s].op = "verify" /\ row' = [row EXCEPT !.step = 1, !.email = TRUE]
      BY <1>1, <3>1 DEF Cached, StepOf, Stepped
    <3>2. CASE \E v : \/ job[s].op = "profile" /\ Columns(2, v)
                      \/ job[s].op = "upload" /\ Columns(3, v)
                      \/ job[s].op = "approve" /\ Columns(4, v)
      BY <1>3, <3>2 DEF Cached, StepOf
    <3> QED
      BY <1>2, <1>5, <3>1, <3>2 DEF UpdateRow
  <2>2. Goto(s, "cache")
    BY <2>1 DEF UpdateRow
  <2>3. PICK j : Becomes(s, j) /\ j.pc = "cache" /\ j.op = job[s].op /\ j.row = job[s].row
    BY <1>1, <2>1, <2>2, JobSteps DEF Plain
  <2>4. Following(j)'
    BY <1>1, <1>2, <2>1, <2>3 DEF Following
  <2> QED
    BY <1>1, <2>3, <2>4, FollowerKeeps
<1> QED
  BY <1>4, <1>5

LEMMA FollowerWrites ==
  ASSUME Inv, StepFollows, Lone, NEW s \in Proc, here.procs = {s},
         SetKycKey(s) \/ CacheLogin(s) \/ SaveUser(s)
  PROVE  StepFollows'
<1>1. Following(job[s]) /\ here' = here
  BY DEF StepFollows, SetKycKey, CacheLogin, SaveUser
<1>2. ASSUME Done(s), kycKey' \in {Absent, row'.step} PROVE StepFollows'
  <2>1. PICK j : j = Idle
    OBVIOUS
  <2>2. Following(j)'
    BY <1>2, <2>1, IdleJob DEF Following
  <2> QED
    BY <1>1, <1>2, <2>1, <2>2, FollowerKeeps DEF Done, Becomes
<1>3. CASE SetKycKey(s)
  BY <1>1, <1>2, <1>3 DEF SetKycKey, At, tables, Following
<1>4. CASE SaveUser(s)
  BY <1>1, <1>2, <1>4 DEF SaveUser, At, redis, Following
<1>5. CASE At(s, "cacheLock") /\ CacheLogin(s)
  BY <1>1, <1>2, <1>5 DEF CacheLogin, At, tables, Following
<1>6. CASE At(s, "cacheStep") /\ CacheLogin(s)
  <2>1. kycKey' = row.step /\ UNCHANGED row /\ Goto(s, "cacheLock")
    BY <1>1, <1>6 DEF CacheLogin, At, tables, Following
  <2>2. PICK j : Becomes(s, j) /\ j.pc = "cacheLock" /\ j.op = job[s].op /\ j.row = job[s].row
    BY <2>1, JobSteps DEF Plain
  <2>3. Following(j)'
    BY <1>1, <1>6, <2>1, <2>2 DEF Following, At
  <2> QED
    BY <1>1, <2>2, <2>3, FollowerKeeps
<1> QED
  BY <1>3, <1>4, <1>5, <1>6 DEF CacheLogin

LEMMA KycFollows ==
  ASSUME Inv, StepFollows, here \in Situation, [Next]_vars
  PROVE  StepFollows' /\ here' = here
<1> USE DEF tables, redis
<1>1. CASE UNCHANGED vars \/ CodeExpires
  BY <1>1 DEF vars, CodeExpires, StepFollows, Following, Lone, Approving
<1>2. ASSUME NEW p \in Proc, Request(p) \/ Decide(p) \/ Serve(p) PROVE here' = here
  <2>1. ASSUME NEW op, NEW j, Start(p, op, j) PROVE here' = here
    BY <2>1 DEF Start
  <2>2. CASE Request(p) \/ Decide(p)
    BY <2>1, <2>2, Openings DEF Opens
  <2> QED
    BY <1>2, <2>2 DEF Serve, SetCode, DelCode, UpsertProfile, SaveDocument, CountDocuments,
                UpdateAllDocumentsStatus, UpdateRow, SetKycKey, CacheLogin, SaveUser, Stops
<1>3. ASSUME NEW p \in Proc, Request(p) \/ Decide(p) \/ Serve(p), ~Lone PROVE StepFollows'
  BY <1>2, <1>3 DEF StepFollows, Lone, Approving
<1>4. ASSUME NEW p \in Proc, Request(p) \/ Decide(p) \/ Serve(p), Lone PROVE StepFollows'
  <2>1. PICK s \in Proc : here.procs = {s}
    BY <1>4, OneProc
  <2>2. p = s
    <3>1. CASE Serve(p)
      <4>1. job[p].pc # "idle"
        BY <3>1 DEF Serve, SetCode, DelCode, UpsertProfile, SaveDocument, CountDocuments,
                UpdateAllDocumentsStatus, UpdateRow, SetKycKey, CacheLogin, SaveUser, Stops, At
      <4> QED
        BY <1>4, <2>1, <4>1 DEF StepFollows
    <3>2. CASE Request(p) \/ Decide(p)
      <4>1. PICK op, r : Opens(p, op, r)
        BY <3>2, Openings
      <4> QED
        BY <2>1, <4>1 DEF Opens, Start
    <3> QED
      BY <1>4, <3>1, <3>2
  <2>3. CASE Request(s) \/ Decide(s)
    BY <1>4, <2>1, <2>3, FollowerStarts
  <2>4. CASE UpdateRow(s) \/ SetKycKey(s) \/ CacheLogin(s) \/ SaveUser(s)
    BY <1>4, <2>1, <2>4, FollowerUpdates, FollowerWrites
  <2>5. CASE SetCode(s) \/ DelCode(s) \/ UpsertProfile(s) \/ SaveDocument(s) \/ CountDocuments(s)
             \/ UpdateAllDocumentsStatus(s)
    <3>1. /\ UNCHANGED <<row, kycKey, here>> /\ job[s].pc \notin {"cache", "idle"}
          /\ \/ Done(s)
             \/ job[s].pc \notin Plain /\ (Goto(s, "columns") \/ Goto(s, "all"))
      BY <2>5 DEF SetCode, DelCode, UpsertProfile, SaveDocument, CountDocuments,
                  UpdateAllDocumentsStatus, At, Plain
    <3> QED
      BY <1>4, <2>1, <3>1, FollowerMoves
  <2>6. ~Stops(s)
    BY <1>4 DEF Stops, Lone, Approving
  <2> QED
    BY <1>4, <2>2, <2>3, <2>4, <2>5, <2>6 DEF Serve
<1> QED
  BY <1>1, <1>2, <1>3, <1>4 DEF Next

(* One caller: what it read from the row or wrote there is what the row    *)
(* says, and so is the copy, except where the caller is about to write it. *)
Sole == Cardinality(here.callers) = 1 /\ "redis" \notin here.faults
Copied(r) ==
    /\ r.pc \in {"fill", "refresh"} => r.value = settings
    /\ r.pc # "refresh" => cached \in {Absent, settings}
CopyFollows ==
    Sole => \A c \in Caller : IF c \in here.callers THEN Copied(call[c]) ELSE call[c].pc = "idle"
CacheInv == KeyInv /\ here \in Situation /\ StepFollows /\ CopyFollows

LEMMA OneCaller ==
  ASSUME Sole, here \in Situation PROVE \E c \in Caller : here.callers = {c}
<1>1. IsFiniteSet(here.callers) /\ here.callers \subseteq Caller
  BY AccessAssumption
<1>2. \E c : here.callers = {c}
  BY <1>1, FS_Singleton DEF Sole
<1> QED
  BY <1>1, <1>2

(* A step of the caller. *)
LEMMA CopyKeeps ==
  ASSUME KeyInv, CopyFollows, here' = here, NEW c \in Caller, c \in here.callers \/ ~Sole,
         here \in Situation, NEW r, call' = [call EXCEPT ![c] = r], Sole => Copied(r)'
  PROVE  CopyFollows'
<1>1. \A d \in Caller : call'[d] = IF d = c THEN r ELSE call[d]
  BY DEF KeyInv, CallsHeld
<1>2. CASE Sole
  <2>1. here.callers = {c}
    BY <1>2, OneCaller
  <2>2. \A d \in Caller : d # c => call'[d].pc = "idle"
    BY <1>1, <1>2, <2>1 DEF CopyFollows
  <2>3. Copied(call[c])'
    BY <1>1, <1>2 DEF Copied
  <2> QED
    BY <2>1, <2>2, <2>3 DEF CopyFollows
<1>3. CASE ~Sole
  BY <1>3 DEF CopyFollows, Sole
<1> QED
  BY <1>2, <1>3

LEMMA SoleTurn ==
  ASSUME KeyInv, CopyFollows, NEW c \in Caller, call[c].pc # "idle"
  PROVE  (c \in here.callers \/ ~Sole) /\ (Sole => Copied(call[c]))
BY DEF CopyFollows

(* A step that neither writes the row or its copy nor reads the row.       *)
LEMMA CopyMoves ==
  ASSUME KeyInv, CopyFollows, here \in Situation, NEW c \in Caller, call[c].pc # "idle",
         UNCHANGED <<here, settings, cached>>, call[c].pc # "refresh",
         NEW r, call' = [call EXCEPT ![c] = r], r.pc \notin {"fill", "refresh"}
  PROVE  CopyFollows'
<1>1. Sole => Copied(r)'
  BY SoleTurn DEF Copied
<1> QED
  BY <1>1, SoleTurn, CopyKeeps

LEMMA PassTo ==
  ASSUME NEW c \in Caller, CallShaped(call[c]), NEW l, Pass(c, l)
  PROVE  \E r : call' = [call EXCEPT ![c] = r] /\ r.pc = l
<1>1. PICK r : r = [call[c] EXCEPT !.pc = l]
  OBVIOUS
<1>2. r.pc = l
  BY <1>1 DEF CallShaped, Fields
<1> QED
  BY <1>1, <1>2 DEF Pass

LEMMA AnswerTo ==
  ASSUME NEW c \in Caller, Answer(c)
  PROVE  \E r : call' = [call EXCEPT ![c] = r] /\ r.pc = "idle"
<1>1. Nobody.pc = "idle"
  BY DEF Nobody
<1> QED
  BY <1>1 DEF Answer

LEMMA AuthTurns ==
  ASSUME NEW c \in Caller, CallShaped(call[c]), AuthService(c)
  PROVE  \E r : call' = [call EXCEPT ![c] = r] /\ r.pc \in {"check", "user", "service", "idle"}
<1> DEFINE Goes(r) == call' = [call EXCEPT ![c] = r] /\ r.pc \in {"check", "user", "service", "idle"}
<1>1. ASSUME NEW l \in {"check", "user", "service"}, Pass(c, l) PROVE \E r : Goes(r)
  BY <1>1, PassTo
<1>2. ASSUME Answer(c) PROVE \E r : Goes(r)
  BY <1>2, AnswerTo
<1>3. ASSUME NEW n, call' = [call EXCEPT ![c].pc = "check", ![c].perms = n] PROVE \E r : Goes(r)
  <2>1. PICK r : r = [call[c] EXCEPT !.pc = "check", !.perms = n]
    OBVIOUS
  <2>2. r.pc = "check" /\ call' = [call EXCEPT ![c] = r]
    BY <1>3, <2>1 DEF CallShaped, Fields
  <2> QED
    BY <2>2
<1>4. ASSUME NEW n, call' = [call EXCEPT ![c].pc = "service", ![c].until = n] PROVE \E r : Goes(r)
  <2>1. PICK r : r = [call[c] EXCEPT !.pc = "service", !.until = n]
    OBVIOUS
  <2>2. r.pc = "service" /\ call' = [call EXCEPT ![c] = r]
    BY <1>4, <2>1 DEF CallShaped, Fields
  <2> QED
    BY <2>2
<1> HIDE DEF Goes
<1>5. \E r : Goes(r)
  BY <1>1, <1>2, <1>3, <1>4
  DEF AuthService, FindByKeyID, Authenticate, ValidateAPIKey, ValidateToken, PassIf
<1> QED
  BY <1>5 DEF Goes

LEMMA CopyPasses ==
  ASSUME KeyInv, CopyFollows, here \in Situation, NEW c \in Caller, call[c].pc # "idle",
         UNCHANGED <<here, settings, cached>>, call[c].pc # "refresh",
         NEW l, Answer(c) \/ (Pass(c, l) /\ l \notin {"fill", "refresh"})
  PROVE  CopyFollows'
<1>1. CASE Answer(c)
  <2>1. PICK r : r = Nobody
    OBVIOUS
  <2>2. r.pc = "idle"
    BY <2>1 DEF Nobody
  <2> QED
    BY <1>1, <2>1, <2>2, CopyMoves DEF Answer
<1>2. CASE Pass(c, l) /\ l \notin {"fill", "refresh"}
  <2>1. PICK r : r = [call[c] EXCEPT !.pc = l]
    OBVIOUS
  <2>2. r.pc = l
    BY <2>1 DEF KeyInv, CallsHeld, CallShaped, Fields
  <2> QED
    BY <1>2, <2>1, <2>2, CopyMoves DEF Pass
<1> QED
  BY <1>1, <1>2

LEMMA CopyGateway ==
  ASSUME KeyInv, CopyFollows, here \in Situation, NEW c \in Caller,
         Gateway(c) \/ AuthService(c) \/ Service(c)
  PROVE  CopyFollows'
<1> USE DEF Kept, Auth, vars, tables, redis, In
<1>1. UNCHANGED <<here, settings, cached>>
  BY DEF Gateway, AuthService, Service, Ask, Allow, FindByKeyID, Authenticate, ValidateAPIKey,
         ValidateToken, JWTAuth, KYCGate, RequireAPIPermission, Handle
<1>2. CallShaped(call[c])
  BY DEF KeyInv, CallsHeld
<1>3. ASSUME NEW by, NEW route, Ask(c, by, route) PROVE CopyFollows'
  <2> DEFINE A(k, left, v) == Arrival(by, route, k, left, v)
  <2>0. PICK k \in ApiKey, left \in {0, Life}, v \in Value : call' = [call EXCEPT ![c] = A(k, left, v)]
    BY <1>3 DEF Ask
  <2>1. PICK r : r = A(k, left, v) /\ call' = [call EXCEPT ![c] = r]
    BY <2>0
  <2>2. r.pc = "allow"
    BY <2>1, NobodyHeld DEF Arrival, CallShaped, Fields
  <2>3. c \in here.callers /\ call[c].pc = "idle"
    BY <1>3 DEF Ask
  <2>4. Sole => Copied(r)'
    BY <1>1, <2>2, <2>3 DEF CopyFollows, Copied
  <2> QED
    BY <1>1, <2>1, <2>3, <2>4, CopyKeeps
<1>4. CASE AuthService(c)
  <2>1. call[c].pc \notin {"idle", "refresh"}
    BY <1>4 DEF AuthService, FindByKeyID, Authenticate, ValidateAPIKey, ValidateToken
  <2>2. PICK r : call' = [call EXCEPT ![c] = r] /\ r.pc \in {"check", "user", "service", "idle"}
    BY <1>2, <1>4, AuthTurns
  <2>3. r.pc \notin {"fill", "refresh"}
    BY <2>2
  <2> QED
    BY <1>1, <2>1, <2>2, <2>3, CopyMoves
<1>5. CASE Allow(c)
  <2>1. /\ call[c].pc \notin {"idle", "refresh"}
        /\ Answer(c) \/ Pass(c, IF call[c].by = "key" THEN "find" ELSE "token")
    BY <1>5 DEF Allow
  <2> QED
    BY <1>1, <2>1, CopyPasses
<1>6. CASE Service(c)
  <2>1. /\ call[c].pc \notin {"idle", "refresh"}
        /\ \E l \in {"handler", "gate", "permission", "get", "put", "step"} : Answer(c) \/ Pass(c, l)
    <3>1. First[call[c].route] \in {"handler", "gate", "permission", "get", "put", "step"}
      BY <1>2 DEF CallShaped, First
    <3> QED
      BY <1>6, <3>1 DEF Service, JWTAuth, KYCGate, RequireAPIPermission, Handle, PassIf
  <2> QED
    BY <1>1, <2>1, CopyPasses
<1> QED
  BY <1>3, <1>4, <1>5, <1>6 DEF Gateway

LEMMA CopySettings ==
  ASSUME KeyInv, CopyFollows, here \in Situation, NEW c \in Caller,
         GetSettings(c) \/ GetFromDB(c) \/ UpdateSettings(c) \/ WriteCache(c)
  PROVE  CopyFollows'
<1> USE DEF Auth, vars, tables, redis, In
<1>1. here' = here /\ call[c].pc # "idle"
  BY DEF GetSettings, GetFromDB, UpdateSettings, WriteCache
<1>2. /\ CallShaped(call[c])
      /\ c \in here.callers \/ ~Sole
      /\ Sole => Copied(call[c])
  BY <1>1, SoleTurn DEF KeyInv, CallsHeld
<1>3. CASE GetSettings(c)
  BY <1>1, <1>3, CopyPasses DEF GetSettings, PassIf
<1>4. CASE GetFromDB(c)
  <2>1. PICK r : r = [call[c] EXCEPT !.pc = "fill", !.value = settings]
    OBVIOUS
  <2>2. r.pc = "fill" /\ r.value = settings
    BY <1>2, <2>1 DEF CallShaped, Fields
  <2>3. Sole => Copied(r)'
    BY <1>2, <1>4, <2>2 DEF GetFromDB, Copied
  <2>4. call' = [call EXCEPT ![c] = r]
    BY <1>2, <1>4, <2>1 DEF GetFromDB
  <2> QED
    BY <1>1, <1>2, <2>3, <2>4, CopyKeeps
<1>5. CASE UpdateSettings(c)
  <2>1. CASE Answer(c) /\ UNCHANGED settings
    BY <1>1, <1>5, <2>1, CopyPasses DEF UpdateSettings
  <2>2. CASE settings' = call[c].value /\ Pass(c, "refresh")
    <3>1. PICK r : r = [call[c] EXCEPT !.pc = "refresh"]
      OBVIOUS
    <3>2. r.pc = "refresh" /\ r.value = call[c].value
      BY <1>2, <3>1 DEF CallShaped, Fields
    <3>3. Sole => Copied(r)'
      BY <2>2, <3>2 DEF Copied
    <3>4. call' = [call EXCEPT ![c] = r]
      BY <2>2, <3>1 DEF Pass
    <3> QED
      BY <1>1, <1>2, <3>3, <3>4, CopyKeeps
  <2> QED
    BY <1>5, <2>1, <2>2 DEF UpdateSettings
<1>6. CASE WriteCache(c)
  <2>1. PICK r : call' = [call EXCEPT ![c] = r] /\ r.pc \in {"get", "idle"}
    <3>1. CASE Pass(c, "get")
      <4>1. PICK r : call' = [call EXCEPT ![c] = r] /\ r.pc = "get"
        BY <1>2, <3>1, PassTo
      <4> QED
        BY <4>1
    <3>2. CASE Answer(c)
      BY <3>2, AnswerTo
    <3> QED
      BY <1>6, <3>1, <3>2 DEF WriteCache, PassIf
  <2>2. Sole => cached' = settings
    BY <1>2, <1>6 DEF WriteCache, Copied, Sole
  <2>3. UNCHANGED settings
    BY <1>6 DEF WriteCache
  <2>4. Sole => Copied(r)'
    BY <2>1, <2>2, <2>3 DEF Copied
  <2> QED
    BY <1>1, <1>2, <2>1, <2>4, CopyKeeps
<1> QED
  BY <1>3, <1>4, <1>5, <1>6

LEMMA CopyRestart ==
  ASSUME KeyInv, CopyFollows, here \in Situation, NEW c \in Caller, WarmCache(c)
  PROVE  CopyFollows'
<1>1. /\ c \in here.callers /\ UNCHANGED <<here, settings, cached>> /\ call[c].pc = "idle"
      /\ call' = [d \in Caller |-> IF d = c THEN [Nobody EXCEPT !.pc = "read"]
                                   ELSE IF call[d].pc \in InAuthService THEN Nobody ELSE call[d]]
  BY DEF WarmCache, In
<1>2. ASSUME Sole, NEW d \in Caller
      PROVE  /\ d = c => call'[d].pc = "read" /\ cached' \in {Absent, settings'}
             /\ d # c => call'[d].pc = "idle"
  <2>1. here.callers = {c}
    BY <1>1, <1>2, OneCaller
  <2>2. cached \in {Absent, settings}
    BY <1>1, <1>2 DEF CopyFollows, Copied
  <2>3. d # c => call[d].pc = "idle"
    BY <1>2, <2>1 DEF CopyFollows
  <2>4. Nobody.pc = "idle" /\ [Nobody EXCEPT !.pc = "read"].pc = "read"
    BY DEF Nobody
  <2> QED
    BY <1>1, <2>2, <2>3, <2>4
<1>3. CASE Sole
  <2>1. here.callers = {c}
    BY <1>1, <1>3, OneCaller
  <2> QED
    BY <1>1, <1>2, <1>3, <2>1 DEF CopyFollows, Copied
<1>4. CASE ~Sole
  BY <1>1, <1>4 DEF CopyFollows, Sole
<1> QED
  BY <1>3, <1>4

LEMMA CacheStep ==
  ASSUME CacheInv, [NextAccess]_<<vars, access>> PROVE CacheInv'
<1> USE DEF CacheInv
<1>1. KeyInv' /\ Inv
  BY StepKeys DEF KeyInv
<1>2. CASE [Next]_vars /\ UNCHANGED access
  <2>1. StepFollows' /\ here' = here
    BY <1>1, <1>2, KycFollows
  <2>2. CopyFollows'
    BY <1>2, <2>1 DEF access, CopyFollows, Copied, Sole
  <2> QED
    BY <1>1, <2>1, <2>2
<1>3. ASSUME UNCHANGED <<here, row, kycKey, job>> PROVE StepFollows'
  BY <1>3 DEF StepFollows, Following, Lone, Approving
<1>4. ASSUME NEW c \in Caller, Gateway(c) \/ AuthService(c) \/ Service(c) PROVE CacheInv'
  <2>1. UNCHANGED <<here, row, kycKey, job>>
    BY <1>4
    DEF Gateway, AuthService, Service, Ask, Allow, FindByKeyID, Authenticate, ValidateAPIKey,
        ValidateToken, JWTAuth, KYCGate, RequireAPIPermission, Handle, Auth, Kept, vars, tables, redis
  <2> QED
    BY <1>1, <1>3, <1>4, <2>1, CopyGateway
<1>5. ASSUME NEW c \in Caller,
             GetSettings(c) \/ GetFromDB(c) \/ UpdateSettings(c) \/ WriteCache(c)
      PROVE  CacheInv'
  <2>1. UNCHANGED <<here, row, kycKey, job>>
    BY <1>5 DEF GetSettings, GetFromDB, UpdateSettings, WriteCache, Auth, vars, tables, redis
  <2> QED
    BY <1>1, <1>3, <1>5, <2>1, CopySettings
<1>6. ASSUME NEW c \in Caller, WarmCache(c) PROVE CacheInv'
  <2>1. here' = here /\ ~Lone
    BY <1>6 DEF WarmCache, Lone, Approving
  <2>2. StepFollows'
    BY <2>1 DEF StepFollows, Lone, Approving
  <2> QED
    BY <1>1, <1>6, <2>1, <2>2, CopyRestart
<1>7. CASE Tick \/ CacheExpires \/ ManageKeys
  <2>1. UNCHANGED <<here, row, kycKey, job, settings, call>> /\ cached' \in {cached, Absent}
    BY <1>7 DEF Tick, CacheExpires, ManageKeys, CreateKey, Revoke, Auth, vars, tables, redis
  <2>2. CopyFollows'
    BY <2>1 DEF CopyFollows, Copied, Sole
  <2> QED
    BY <1>1, <1>3, <2>1, <2>2
<1> QED
  BY <1>2, <1>4, <1>5, <1>6, <1>7 DEF NextAccess, SettingsService

(* Where requests come one after another, what the gate and the services   *)
(* read from Redis is what the rows say, if it is there; neither a failed  *)
(* update nor an expiry or a restart parts them.                           *)
THEOREM CachesAgree == AccessSpec => []CachesFollowRows
<1>1. ASSUME InitAccess PROVE CacheInv
  <2>1. StepFollows /\ here \in Situation
    BY <1>1, InitFollows DEF InitAccess, Init
  <2>2. CopyFollows
    BY <1>1 DEF InitAccess, CopyFollows, Copied, Nobody
  <2> QED
    BY <1>1, <2>1, <2>2, InitKeys DEF CacheInv
<1>2. ASSUME CacheInv PROVE CachesFollowRows
  <2>1. CacheFollowsRow
    <3> SUFFICES ASSUME Lone, NoRequest PROVE kycKey \in {Absent, row.step}
      BY DEF CacheFollowsRow, Lone
    <3>1. PICK s \in Proc : here.procs = {s}
      BY <1>2, OneProc DEF CacheInv
    <3> QED
      BY <1>2, <3>1 DEF CacheInv, StepFollows, Following, NoRequest, At
  <2>2. ASSUME Sole, \A c \in Caller : In(c, "idle") PROVE cached \in {Absent, settings}
    <3>1. PICK c \in Caller : here.callers = {c}
      BY <1>2, <2>2, OneCaller DEF CacheInv
    <3> QED
      BY <1>2, <2>2, <3>1 DEF CacheInv, CopyFollows, Copied, In
  <2> QED
    BY <2>1, <2>2 DEF CachesFollowRows, Sole
<1> QED
  BY <1>1, <1>2, CacheStep, PTL DEF AccessSpec

-----------------------------------------------------------------------------
(* The limiter                                                             *)

(* Where scripts run in the millisecond their caller read, the set still   *)
(* has a member for each time of the current window at which it let        *)
(* somebody through.                                                       *)
Timely == "late" \notin here.faults
Remembered(t) ==
    admitted[t] > 0 => t <= clock /\ (t > clock - Window => \E e \in limiter : e.at = t)
Counted ==
    /\ admitted \in [1..here.end -> Nat]
    /\ IsFiniteSet(limiter) /\ \A e \in limiter : e.at \in Nat
    /\ \A t \in 1..here.end : Remembered(t)
    /\ \A t \in 1..here.end : Cardinality(Through(t)) <= MaxReq
Prompt == \A c \in Caller : In(c, "allow") => call[c].now = clock
LimiterInv == KeyInv /\ here \in Situation /\ (Timely => Counted /\ Prompt)

LEMMA InitLimiter == ASSUME InitAccess PROVE LimiterInv
<1>1. here \in Situation /\ here.end \in Nat /\ clock = 1 /\ limiter = {}
      /\ admitted = [t \in 1..here.end |-> 0]
  BY AccessAssumption DEF InitAccess, Init
<1>2. \A t \in 1..here.end : Through(t) = {}
  BY <1>1 DEF Through
<1>3. \A t \in 1..here.end : Cardinality(Through(t)) <= MaxReq
  <2>1. MaxReq \in Nat /\ Cardinality({}) = 0
    BY FS_EmptySet, AccessAssumption
  <2> QED
    BY <1>2, <2>1
<1>4. Counted
  BY <1>1, <1>3, FS_EmptySet DEF Counted, Remembered
<1>5. Prompt
  BY DEF InitAccess, Prompt, In, Nobody
<1> QED
  BY <1>1, <1>4, <1>5, InitKeys DEF LimiterInv

(* No more times are let through in a window than the set has members.     *)
LEMMA WindowCount ==
  ASSUME NEW R, IsFiniteSet(R), NEW T, NEW now, NEW n \in Nat \ {0}, Cardinality(R) < n,
         \A u \in T : u = now \/ \E e \in R : e.at = u
  PROVE  Cardinality(T) <= n
<1> DEFINE A == {e.at : e \in R}
           f == [e \in R |-> e.at]
<1>1. f \in Surjection(R, A)
  BY DEF Surjection
<1>2. IsFiniteSet(A) /\ Cardinality(A) <= Cardinality(R)
  BY <1>1, FS_Surjection
<1>3. T \subseteq A \cup {now}
  OBVIOUS
<1> HIDE DEF A
<1>4. IsFiniteSet(A \cup {now}) /\ Cardinality(A \cup {now}) <= Cardinality(A) + 1
  <2>1. Cardinality(A) \in Nat
    BY <1>2, FS_CardinalityType
  <2>2. /\ IsFiniteSet(A \cup {now})
        /\ Cardinality(A \cup {now}) = IF now \in A THEN Cardinality(A) ELSE Cardinality(A) + 1
    BY <1>2, FS_AddElement
  <2> QED
    BY <2>1, <2>2
<1>5. IsFiniteSet(T) /\ Cardinality(T) <= Cardinality(A \cup {now})
  BY <1>3, <1>4, FS_Subset
<1>6. /\ Cardinality(T) \in Nat /\ Cardinality(A) \in Nat /\ Cardinality(R) \in Nat
      /\ Cardinality(A \cup {now}) \in Nat
  BY <1>2, <1>4, <1>5, FS_CardinalityType
<1> QED
  BY <1>2, <1>4, <1>5, <1>6

LEMMA Admits ==
  ASSUME LimiterInv, Timely, NEW c \in Caller, Allow(c) PROVE Counted'
<1> DEFINE now == call[c].now
<1>1. /\ now = clock /\ clock \in Nat /\ here.end \in Nat /\ Counted /\ UNCHANGED <<here, clock>>
      /\ Window \in Nat \ {0} /\ MaxReq \in Nat \ {0}
  BY AccessAssumption
  DEF LimiterInv, Prompt, Allow, KeyInv, KeyTypes, Auth, vars
<1> HIDE DEF now
<1>2. Recent(now) \subseteq limiter /\ IsFiniteSet(Recent(now))
  BY <1>1, FS_Subset DEF Recent, Counted
<1>3. ASSUME NEW t \in 1..here.end, admitted[t] > 0, t > clock - Window
      PROVE  \E e \in Recent(now) : e.at = t
  BY <1>1, <1>3 DEF Counted, Remembered, Recent
<1>4. CASE UNCHANGED admitted /\ limiter' = Recent(now)
  <2>1. \A t \in 1..here.end : Remembered(t)'
    BY <1>1, <1>3, <1>4 DEF Counted, Remembered
  <2>2. \A t \in 1..here.end : Through(t)' = Through(t)
    BY <1>4 DEF Through
  <2> QED
    BY <1>1, <1>2, <1>4, <2>1, <2>2 DEF Counted
<1>5. CASE UNCHANGED <<admitted, limiter>>
  <2>1. \A t \in 1..here.end : Remembered(t)' /\ Through(t)' = Through(t)
    BY <1>1, <1>5 DEF Counted, Remembered, Through
  <2> QED
    BY <1>1, <1>5, <2>1 DEF Counted
<1>6. ASSUME NEW r, limiter' = Recent(now) \cup {[at |-> now, random |-> r]},
             admitted' = [admitted EXCEPT ![now] = @ + 1], Cardinality(Recent(now)) < MaxReq
      PROVE  Counted'
  <2>0. /\ DOMAIN admitted = 1..here.end /\ \A t \in 1..here.end : admitted[t] \in Nat
        /\ \A e \in limiter : e.at \in Nat
    BY <1>1 DEF Counted
  <2>1. admitted' \in [1..here.end -> Nat]
    <3>1. admitted' = [t \in 1..here.end |-> IF t = now THEN admitted[now] + 1 ELSE admitted[t]]
      BY <1>6, <2>0
    <3>2. \A t \in 1..here.end : (IF t = now THEN admitted[now] + 1 ELSE admitted[t]) \in Nat
      BY <2>0
    <3> QED
      BY <3>1, <3>2
  <2>2. \A t \in 1..here.end : t # now => admitted'[t] = admitted[t]
    BY <1>6, <2>0
  <2>9. PICK m : m = [at |-> now, random |-> r]
    OBVIOUS
  <2>10. m.at = now /\ m \in limiter' /\ limiter' = Recent(now) \cup {m}
    BY <1>6, <2>9
  <2>3. IsFiniteSet(limiter') /\ \A d \in limiter' : d.at \in Nat
    <3>1. IsFiniteSet(limiter')
      BY <1>2, <2>10, FS_AddElement
    <3> QED
      BY <1>1, <1>2, <2>0, <2>10, <3>1
  <2>4. ASSUME NEW t \in 1..here.end PROVE Remembered(t)'
    <3>1. CASE t = now
      BY <1>1, <2>10, <3>1 DEF Remembered
    <3>2. CASE t # now
      <4>1. Remembered(t) /\ admitted'[t] = admitted[t]
        BY <1>1, <2>2, <3>2 DEF Counted
      <4>2. Recent(now) \subseteq limiter'
        BY <1>6
      <4>3. admitted[t] > 0 /\ t > clock - Window => \E d \in limiter' : d.at = t
        BY <1>3, <4>2
      <4> QED
        BY <1>1, <4>1, <4>3 DEF Remembered
    <3> QED
      BY <3>1, <3>2
  <2>5. ASSUME NEW t \in 1..here.end PROVE Cardinality(Through(t)') <= MaxReq
    <3>1. CASE t < clock
      <4>1. Through(t)' = Through(t)
        BY <1>1, <2>2, <3>1 DEF Through
      <4> QED
        BY <1>1, <4>1 DEF Counted
    <3>2. CASE t >= clock
      <4>1. ASSUME NEW u \in Through(t)' PROVE u = now \/ \E e \in Recent(now) : e.at = u
        <5>1. u \in 1..t /\ u > t - Window /\ admitted'[u] > 0 /\ u \in 1..here.end
          BY <1>1 DEF Through
        <5>2. CASE u # now
          BY <1>1, <1>3, <2>2, <3>2, <5>1, <5>2
        <5> QED
          BY <5>2
      <4>2. PICK T, R, n : T = Through(t)' /\ R = Recent(now) /\ n = now
        OBVIOUS
      <4>3. Cardinality(T) <= MaxReq
        BY <1>1, <1>2, <1>6, <4>1, <4>2, WindowCount
      <4> QED
        BY <4>2, <4>3
    <3> QED
      BY <1>1, <3>1, <3>2
  <2> QED
    BY <1>1, <2>1, <2>3, <2>4, <2>5 DEF Counted
<1> QED
  BY <1>4, <1>5, <1>6 DEF Allow, now

(* Nothing else touches what was let through. *)
LEMMA CountStays ==
  ASSUME LimiterInv, UNCHANGED <<here, limiter, admitted>>, clock' \in {clock, clock + 1}
  PROVE  Timely => Counted'
<1>1. clock \in Nat /\ Window \in Nat /\ here.end \in Nat
  BY AccessAssumption DEF LimiterInv, KeyInv, KeyTypes
<1>2. ASSUME Timely PROVE Counted'
  <2>1. Counted
    BY <1>2 DEF LimiterInv
  <2>2. ASSUME NEW t \in 1..here.end PROVE Remembered(t)'
    <3>1. Remembered(t) /\ t \in Int
      BY <1>1, <2>1 DEF Counted
    <3>2. PICK now, then, w : now = clock /\ then = clock' /\ w = Window
      OBVIOUS
    <3>3. now \in Int /\ w \in Int /\ t \in Int /\ (then = now \/ then = now + 1)
      BY <1>1, <3>1, <3>2
    <3>4. (t <= now => t <= then) /\ (t > then - w => t > now - w)
      BY ONLY <3>3
    <3>5. (t <= clock => t <= clock') /\ (t > clock' - Window => t > clock - Window)
      BY <3>2, <3>4
    <3>6. admitted'[t] = admitted[t] /\ limiter' = limiter
      OBVIOUS
    <3>7. ASSUME admitted'[t] > 0 PROVE t <= clock' /\ (t > clock' - Window => \E e \in limiter' : e.at = t)
      BY <3>1, <3>5, <3>6, <3>7 DEF Remembered
    <3> QED
      BY <3>7 DEF Remembered
  <2>3. \A t \in 1..here.end : Through(t)' = Through(t)
    BY DEF Through
  <2> QED
    BY <2>1, <2>2, <2>3 DEF Counted
<1> QED
  BY <1>2

LEMMA PromptKeeps ==
  ASSUME LimiterInv, UNCHANGED <<here, clock>>, NEW c \in Caller, NEW r,
         call' = [call EXCEPT ![c] = r], r.pc = "allow" => r.now = clock
  PROVE  Timely => Prompt'
<1>1. \A d \in Caller : call'[d] = IF d = c THEN r ELSE call[d]
  BY DEF LimiterInv, KeyInv, CallsHeld
<1> QED
  BY <1>1 DEF LimiterInv, Prompt, In

LEMMA CallsPrompt ==
  ASSUME LimiterInv, NEW c \in Caller,
         \/ Gateway(c) \/ AuthService(c) \/ Service(c)
         \/ GetSettings(c) \/ GetFromDB(c) \/ UpdateSettings(c) \/ WriteCache(c)
  PROVE  UNCHANGED <<here, clock>> /\ (Timely => Prompt')
<1> USE DEF Kept, Auth, vars, In
<1>1. UNCHANGED <<here, clock>>
  BY DEF Gateway, AuthService, Service, Ask, Allow, FindByKeyID, Authenticate, ValidateAPIKey,
         ValidateToken, JWTAuth, KYCGate, RequireAPIPermission, Handle,
         GetSettings, GetFromDB, UpdateSettings, WriteCache
<1>2. CallShaped(call[c])
  BY DEF LimiterInv, KeyInv, CallsHeld
<1>3. ASSUME NEW by, NEW route, Ask(c, by, route) PROVE Timely => Prompt'
  <2> DEFINE A(k, left, v) == Arrival(by, route, k, left, v)
  <2>1. PICK k \in ApiKey, left \in {0, Life}, v \in Value : call' = [call EXCEPT ![c] = A(k, left, v)]
    BY <1>3 DEF Ask
  <2>2. PICK r : r = A(k, left, v) /\ call' = [call EXCEPT ![c] = r]
    BY <2>1
  <2>3. r.now = clock
    BY <2>2, NobodyHeld DEF Arrival, CallShaped, Fields
  <2> QED
    BY <1>1, <2>2, <2>3, PromptKeeps
<1>4. ASSUME NEW l, l # "allow", Answer(c) \/ Pass(c, l) PROVE Timely => Prompt'
  <2>1. PICK r : call' = [call EXCEPT ![c] = r] /\ r.pc # "allow"
    BY <1>2, <1>4, PassTo, AnswerTo
  <2> QED
    BY <1>1, <2>1, PromptKeeps
<1>5. CASE AuthService(c)
  <2>1. PICK r : call' = [call EXCEPT ![c] = r] /\ r.pc # "allow"
    BY <1>2, <1>5, AuthTurns
  <2> QED
    BY <1>1, <2>1, PromptKeeps
<1>6. CASE GetFromDB(c)
  <2>1. PICK r : r = [call[c] EXCEPT !.pc = "fill", !.value = settings]
    OBVIOUS
  <2>2. r.pc = "fill" /\ call' = [call EXCEPT ![c] = r]
    BY <1>2, <1>6, <2>1 DEF GetFromDB, CallShaped, Fields
  <2> QED
    BY <1>1, <2>2, PromptKeeps
<1>7. CASE JWTAuth(c)
  <2>1. First[call[c].route] # "allow"
    BY <1>2 DEF CallShaped, First
  <2> QED
    BY <1>4, <1>7, <2>1 DEF JWTAuth, PassIf
<1>8. CASE \/ Allow(c) \/ KYCGate(c) \/ RequireAPIPermission(c) \/ Handle(c)
           \/ GetSettings(c) \/ UpdateSettings(c) \/ WriteCache(c)
  <2>1. \E l \in {"find", "token", "step", "permission", "handler", "read", "refresh", "get"} :
           Answer(c) \/ Pass(c, l)
    BY <1>8 DEF Allow, KYCGate, RequireAPIPermission, Handle, GetSettings, UpdateSettings,
                WriteCache, PassIf
  <2>2. PICK l \in {"find", "token", "step", "permission", "handler", "read", "refresh", "get"} :
           Answer(c) \/ Pass(c, l)
    BY <2>1
  <2>3. l # "allow"
    OBVIOUS
  <2> QED
    BY <1>1, <1>4, <2>2, <2>3
<1> QED
  BY <1>1, <1>3, <1>5, <1>6, <1>7, <1>8 DEF Gateway, Service

LEMMA LimiterStep ==
  ASSUME LimiterInv, [NextAccess]_<<vars, access>> PROVE LimiterInv'
<1>1. KeyInv'
  BY StepKeys DEF LimiterInv
<1>2. ASSUME here' = here, Timely => Counted' /\ Prompt' PROVE LimiterInv'
  BY <1>1, <1>2 DEF LimiterInv, Timely
<1>3. CASE [Next]_vars /\ UNCHANGED access
  <2>1. here' = here
    BY <1>3, LockSteps DEF LimiterInv, KeyInv
  <2>2. UNCHANGED <<clock, limiter, call, admitted>>
    BY <1>3 DEF access
  <2>3. Timely => Prompt'
    BY <2>2 DEF LimiterInv, Prompt, In
  <2> QED
    BY <1>2, <2>1, <2>2, <2>3, CountStays
<1>4. ASSUME NEW c \in Caller,
             \/ Gateway(c) \/ AuthService(c) \/ Service(c)
             \/ GetSettings(c) \/ GetFromDB(c) \/ UpdateSettings(c) \/ WriteCache(c)
      PROVE  LimiterInv'
  <2>1. UNCHANGED <<here, clock>> /\ (Timely => Prompt')
    BY <1>4, CallsPrompt
  <2>2. CASE Allow(c)
    BY <1>2, <2>1, <2>2, Admits
  <2>3. CASE ~Allow(c)
    <3>1. UNCHANGED <<limiter, admitted>>
      BY <1>4, <2>3
      DEF Gateway, AuthService, Service, Ask, FindByKeyID, Authenticate, ValidateAPIKey,
         ValidateToken, JWTAuth, KYCGate, RequireAPIPermission, Handle,
         GetSettings, GetFromDB, UpdateSettings, WriteCache
    <3> QED
      BY <1>2, <2>1, <3>1, CountStays
  <2> QED
    BY <2>2, <2>3
<1>5. ASSUME NEW c \in Caller, WarmCache(c) PROVE LimiterInv'
  <2>1. /\ UNCHANGED <<here, clock, limiter, admitted>>
        /\ call' = [d \in Caller |-> IF d = c THEN [Nobody EXCEPT !.pc = "read"]
                                     ELSE IF call[d].pc \in InAuthService THEN Nobody ELSE call[d]]
    BY <1>5 DEF WarmCache
  <2>2. Nobody.pc = "idle" /\ [Nobody EXCEPT !.pc = "read"].pc = "read"
    BY DEF Nobody
  <2>3. \A d \in Caller : call'[d].pc = "allow" => call'[d] = call[d]
    BY <2>1, <2>2
  <2>4. Timely => Prompt'
    BY <2>1, <2>3 DEF LimiterInv, Prompt, In
  <2> QED
    BY <1>2, <2>1, <2>4, CountStays
<1>6. CASE Tick
  <2>1. UNCHANGED <<here, limiter, admitted, call>> /\ clock' = clock + 1
        /\ (Timely => \A c \in Caller : ~In(c, "allow"))
    BY <1>6 DEF Tick, Auth, vars, Timely
  <2>2. Timely => Prompt'
    BY <2>1 DEF Prompt, In
  <2> QED
    BY <1>2, <2>1, <2>2, CountStays
<1>7. CASE CacheExpires \/ ManageKeys
  <2>1. UNCHANGED <<here, limiter, admitted, call, clock>>
    BY <1>7 DEF CacheExpires, ManageKeys, CreateKey, Revoke, Auth, vars
  <2>2. Timely => Prompt'
    BY <2>1 DEF LimiterInv, Prompt, In
  <2> QED
    BY <1>2, <2>1, <2>2, CountStays
<1> QED
  BY <1>3, <1>4, <1>5, <1>6, <1>7 DEF NextAccess, SettingsService

(* As long as a script runs in the millisecond its caller read, an address *)
(* gets no more requests through in a window of time than the limit, those *)
(* of one millisecond counted once.                                        *)
THEOREM WindowKept == AccessSpec => []WindowBounded
<1>1. LimiterInv => WindowBounded
  BY DEF LimiterInv, Counted, WindowBounded, Timely
<1> QED
  BY <1>1, InitLimiter, LimiterStep, PTL DEF AccessSpec

-----------------------------------------------------------------------------
(* Types of Rewards and Onboarding                                         *)

Labels == {"idle", "look", "count", "address", "flag", "volume", "find", "create", "pay", "announce"}
Task == [pc : Labels, at : Nat, found : BOOLEAN]
Refreshing == [id : Nat, user : User, pc : {"tier", "maker", "taker"}, tier : Nat]
Credit == [order : Nat, fee : Nat]
RewardsTypes ==
    /\ scene \in Scene /\ mode = scene.mode
    /\ sent \in Nat /\ sent <= Len(scene.trades)
    /\ next \in Nat /\ 1 <= next /\ next <= sent + 1
    /\ given \in [{Detector} -> SUBSET (1..sent)] /\ calls \in [{Detector} -> Nat]
    /\ task \in [Worker -> Task]
    /\ \A w \in Worker : task[w].pc # "idle" => 1 <= task[w].at /\ task[w].at < next
    /\ volume \in [User -> Nat] /\ refreshing \subseteq Refreshing
    /\ cache \in [User -> [maker : Int, taker : Int]]
    /\ commission \in [Orders -> Nat \cup {None}] /\ credits \in Seq(Credit)

Place == [pc : {"start", "key", "seed", "serve", "create", "announce"}, todo : Seq(User)]
Loop == [pc : {"idle", "count", "create"}, at : Nat, next : Nat]
OnboardingTypes ==
    /\ boot \in [Instance -> Place]
    /\ \A p \in Instance : boot[p].pc \in {"create", "announce"} => boot[p].todo # <<>>
    /\ registered \in Seq(User)
    /\ prov \in Loop /\ (prov.pc # "idle" => prov.at \in DOMAIN registered)
    /\ prov.next >= 1
    /\ usdt \in [User -> Nat \cup {None}] /\ coins \subseteq User
    /\ deposit \in [User -> {"none", "pending", "insert", "credit", "done"}]
    /\ projected \in Nat

-----------------------------------------------------------------------------
(* Who is paid: while an order has no row, no one was paid for it, and a   *)
(* handler that is about to pay has just made the row.                     *)
Unpaid(o) == \A i \in DOMAIN credits : credits[i].order # o
PaidOnce ==
    /\ \A i \in DOMAIN credits : /\ credits[i].order \in Orders
                                 /\ commission[credits[i].order] = credits[i].fee
    /\ \A i, j \in DOMAIN credits : i # j => credits[i].order # credits[j].order
    /\ \A w \in scene.workers :
          /\ task[w].pc = "create" => commission[Trade(w).order] = None
          /\ task[w].pc = "pay" => commission[Trade(w).order] = Trade(w).fee /\ Unpaid(Trade(w).order)

(* What is counted: events that handlers have still to add are left out,   *)
(* over Redis no two have the same.                                        *)
Before == {"look", "count", "address", "flag", "volume"}
Adding == {w \in scene.workers : task[w].pc \in Before}
Pending == {task[w].at : w \in Adding}
Counting ==
    /\ mode = "once" =>
          /\ Pending \subseteq Given
          /\ \A x, y \in Adding : x # y => task[x].at # task[y].at
          /\ \A x \in User : volume[x] <= TotalOf(x, Given \ Pending)
    /\ mode = "gapless" /\ "error" \notin scene.faults =>
          \A x \in User : volume[x] >= TotalOf(x, (1..(next - 1)) \ Pending)
Tiered ==
    /\ \A r \in refreshing : r.tier <= TierOf(volume[r.user])
    /\ \A x \in User : cache[x].maker <= TierOf(volume[x]) /\ cache[x].taker <= TierOf(volume[x])

(* Who is announced: a user has a row first, and the instance that is      *)
(* about to announce it is the one that made the row.                      *)
Announcer(p) == p \in scene.instances /\ boot[p].pc = "announce"
Announced ==
    /\ \A j \in DOMAIN registered : registered[j] \in rows
    /\ \A p \in Instance : Announcer(p) => Head(boot[p].todo) \in rows
    /\ "answer" \notin scene.faults =>
          /\ \A j, k \in DOMAIN registered : j # k => registered[j] # registered[k]
          /\ \A p \in Instance : Announcer(p) =>
                \A j \in DOMAIN registered : registered[j] # Head(boot[p].todo)
          /\ \A p, q \in Instance : Announcer(p) /\ Announcer(q) /\ p # q =>
                Head(boot[p].todo) # Head(boot[q].todo)

(* What a wallet holds: without a row nothing is deposited or projected.   *)
Whole ==
    /\ \A x \in User : IF usdt[x] = None THEN x \notin coins /\ Deposited(x) = 0 /\ ProjectedFor(x) = 0
                       ELSE usdt[x] = (IF x \in coins THEN Gift[x] ELSE 0) + Deposited(x) + ProjectedFor(x)

(* Steps that leave trades, handlers and commissions alone, and the others. *)
AtRest == UNCHANGED <<scene, bus, next, task, tiers, payout>>
LEMMA RewardsCases ==
    ASSUME [OnboardingNext]_all
    PROVE  \/ Publish \/ (\E r \in refreshing : MyTier(r) \/ SetMaker(r) \/ SetTaker(r))
           \/ (\E w \in Worker : Receive(w) \/ HandleTrade(w)) \/ (\E x \in User : Expire(x))
           \/ Stop \/ AtRest
<1>1. CASE UNCHANGED all
  BY <1>1 DEF all, rewardsVars, AtRest
<1>2. CASE Work
  <2>1. FindDefaultCode \/ CreateCode => AtRest
    BY DEF FindDefaultCode, CreateCode, AtRest, bus, tiers, payout
  <2>2. ASSUME NEW x \in User, Register(x) PROVE AtRest
    BY <2>2 DEF Register, Bind, IncrementUsage, AtRest, bus, tiers, payout
  <2> QED
    BY <1>2, <2>1, <2>2 DEF Work, Refresh
<1>3. CASE AuthStops
  BY <1>3 DEF AuthStops
<1>4. CASE Provision
  BY <1>4 DEF Provision, Deliver, CountWallets, CreateInBatches, rewardsVars, AtRest, bus, tiers, payout
<1>5. CASE WalletStops \/ Poll \/ ChargeFee \/ ProjectFee \/ TradingStops
  BY <1>5 DEF WalletStops, Poll, ChargeFee, ProjectFee, TradingStops, rewardsVars, AtRest, bus, tiers, payout
<1>6. ASSUME NEW p \in Instance,
             EnsureFeeWallet(p) \/ SeedAdmin(p) \/ CreateUser(p) \/ AnnounceUser(p) \/ SetKey(p)
             \/ \E x \in User : SignUp(p, x)
      PROVE  AtRest
  BY <1>6 DEF EnsureFeeWallet, SeedAdmin, CreateUser, AnnounceUser, SetKey, SignUp, rewardsVars, AtRest,
              bus, tiers, payout
<1>7. ASSUME NEW x \in User, SepayCallback(x) \/ EnsureBalanceCached(x) PROVE AtRest
  BY <1>7 DEF SepayCallback, UpsertUpdate, UpsertInsert, CreditDeposit, EnsureBalanceCached, rewardsVars,
              AtRest, bus, tiers, payout
<1> QED
  BY <1>1, <1>2, <1>3, <1>4, <1>5, <1>6, <1>7 DEF OnboardingNext

LEMMA SceneTypes ==
    ASSUME RewardsTypes
    PROVE  /\ scene.mode \in {"once", "gapless"} /\ scene.workers \subseteq Worker
           /\ Len(scene.trades) \in Nat /\ DOMAIN scene.trades = 1..Len(scene.trades)
           /\ \A k \in DOMAIN scene.trades :
                 /\ scene.trades[k].order \in Nat /\ scene.trades[k].order \in Orders
                 /\ scene.trades[k].taker \in User
                 /\ scene.trades[k].fee \in Nat /\ scene.trades[k].total \in Nat
<1>1. scene \in Scene
  BY DEF RewardsTypes
<1>2. scene.trades \in Seq(TradeEvent) /\ scene.mode \in {"once", "gapless"} /\ scene.workers \subseteq Worker
  BY <1>1, RewardsAssumption
<1>3. Len(scene.trades) \in Nat /\ DOMAIN scene.trades = 1..Len(scene.trades)
      /\ \A k \in DOMAIN scene.trades : scene.trades[k] \in TradeEvent
  BY ONLY <1>2
<1> QED
  BY <1>2, <1>3 DEF TradeEvent, Orders

LEMMA TradeTypes ==
    ASSUME RewardsTypes, NEW w \in Worker, task[w].pc # "idle"
    PROVE  /\ task[w].at \in DOMAIN scene.trades /\ task[w].at \in Nat /\ task[w].at < next
           /\ task[w] \in Task
           /\ Trade(w).order \in Nat /\ Trade(w).order \in Orders /\ Trade(w).taker \in User
           /\ Trade(w).fee \in Nat /\ Trade(w).total \in Nat
<1>1. task[w] \in Task /\ 1 <= task[w].at /\ task[w].at < next /\ sent \in Nat /\ next \in Nat
      /\ sent <= Len(scene.trades) /\ next <= sent + 1
  BY DEF RewardsTypes
<1>2. task[w].at \in Nat
  BY <1>1 DEF Task
<1>3. task[w].at \in 1..Len(scene.trades)
  BY ONLY <1>1, <1>2, SceneTypes
<1> QED
  BY <1>1, <1>2, <1>3, SceneTypes DEF Trade

(* A step of a handler leaves its event alone, or ends. *)
LEMMA HandlerSteps ==
    ASSUME RewardsTypes, NEW w \in Worker, HandleTrade(w)
    PROVE  /\ w \in scene.workers /\ task[w].pc # "idle"
           /\ \E t \in Task : task' = [task EXCEPT ![w] = t] /\ (t.pc # "idle" => t.at = task[w].at)
           /\ UNCHANGED <<scene, bus, next, cache>>
<1> DEFINE Onto(t) == task' = [task EXCEPT ![w] = t]
<1>1. task \in [Worker -> Task] /\ task[w] \in Task
  BY DEF RewardsTypes
<1>2. ASSUME NEW l \in Labels, Move(w, l)
      PROVE  \E t \in Task : Onto(t) /\ (t.pc # "idle" => t.at = task[w].at)
  <2>1. [task[w] EXCEPT !.pc = l] \in Task /\ [task[w] EXCEPT !.pc = l].at = task[w].at
    BY <1>1 DEF Task
  <2>2. Onto([task[w] EXCEPT !.pc = l])
    BY <1>2 DEF Move
  <2> QED
    BY <2>1, <2>2
<1>3. ASSUME NEW l \in Labels, NEW b \in BOOLEAN, Finding(w, l, b)
      PROVE  \E t \in Task : Onto(t) /\ (t.pc # "idle" => t.at = task[w].at)
  <2>1. [task[w] EXCEPT !.pc = l, !.found = b] \in Task
        /\ [task[w] EXCEPT !.pc = l, !.found = b].at = task[w].at
    BY <1>1 DEF Task
  <2>2. Onto([task[w] EXCEPT !.pc = l, !.found = b])
    BY <1>1, <1>3 DEF Finding
  <2> QED
    BY <2>1, <2>2
<1>4. CASE FindPair(w)
  BY <1>3, <1>4 DEF FindPair, Stands, Labels, bus, tiers
<1>5. CASE CountTrade(w) \/ Flag(w) \/ Announce(w)
  BY <1>2, <1>5 DEF CountTrade, Flag, Announce, Stands, Labels, bus, tiers
<1>6. CASE FindFlag(w) \/ AddVolume(w)
  BY <1>2, <1>6 DEF FindFlag, AddVolume, Stands, Labels, bus, tiers
<1>7. CASE FindCommission(w) \/ CreateCommission(w) \/ Pay(w)
  BY <1>2, <1>7 DEF FindCommission, CreateCommission, Pay, Stands, Labels, bus, tiers
<1> QED
  BY <1>4, <1>5, <1>6, <1>7 DEF HandleTrade

(* A larger volume has no lower tier. *)
LEMMA TierNat ==
    ASSUME NEW n \in Nat
    PROVE  TierOf(n) \in Nat
<1>1. {t \in Thresholds : t <= n} \in SUBSET Thresholds
  OBVIOUS
<1> QED
  BY <1>1, RewardsAssumption, FS_Subset, FS_CardinalityType DEF TierOf

LEMMA TierMonotone ==
    ASSUME NEW m \in Nat, NEW n \in Nat, m <= n
    PROVE  TierOf(m) <= TierOf(n) /\ TierOf(m) \in Nat /\ TierOf(n) \in Nat
<1>1. \A t \in Thresholds : t \in Int
  BY RewardsAssumption
<1>2. {t \in Thresholds : t <= m} \in SUBSET {t \in Thresholds : t <= n}
  BY <1>1
<1>3. IsFiniteSet({t \in Thresholds : t <= n})
  BY RewardsAssumption, FS_Subset
<1>4. Cardinality({t \in Thresholds : t <= m}) <= Cardinality({t \in Thresholds : t <= n})
  BY <1>2, <1>3, FS_Subset
<1> QED
  BY <1>4, TierNat DEF TierOf

LEMMA VolumeStep ==
    ASSUME RewardsTypes, NEW w \in Worker, HandleTrade(w)
    PROVE  \/ /\ AddVolume(w) /\ task[w].pc = "volume"
              /\ volume' = [volume EXCEPT ![Trade(w).taker] = @ + Trade(w).total]
              /\ \E r \in Refreshing : refreshing' = refreshing \cup {r} /\ r.tier = 0
           \/ AddVolume(w) /\ task[w].pc = "volume" /\ "error" \in scene.faults
              /\ UNCHANGED <<volume, refreshing>>
           \/ ~AddVolume(w) /\ task[w].pc # "volume" /\ UNCHANGED <<volume, refreshing>>
<1>1. CASE AddVolume(w)
  <2>1. [id |-> calls[Detector], user |-> Trade(w).taker, pc |-> "tier", tier |-> 0] \in Refreshing
    <3>1. task[w].pc # "idle"
      BY <1>1 DEF AddVolume, Stands
    <3> QED
      BY <3>1, TradeTypes DEF Refreshing, RewardsTypes, Detector
  <2> QED
    BY <1>1, <2>1 DEF AddVolume, StartRefresh, Stands, May
<1>2. CASE FindPair(w) \/ CountTrade(w) \/ FindFlag(w) \/ Flag(w)
  BY <1>2 DEF FindPair, CountTrade, FindFlag, Flag, AddVolume, Stands, tiers
<1>3. CASE FindCommission(w) \/ CreateCommission(w) \/ Pay(w) \/ Announce(w)
  BY <1>3 DEF FindCommission, CreateCommission, Pay, Announce, AddVolume, Stands, tiers
<1> QED
  BY <1>1, <1>2, <1>3 DEF HandleTrade

LEMMA PayoutStep ==
    ASSUME RewardsTypes, NEW w \in Worker, HandleTrade(w)
    PROVE  \/ /\ task[w].pc = "create" /\ UNCHANGED credits /\ task' = [task EXCEPT ![w].pc = "pay"]
              /\ commission' = [commission EXCEPT ![Trade(w).order] =
                                   IF @ = None THEN Trade(w).fee ELSE @]
           \/ /\ task[w].pc = "pay" /\ UNCHANGED commission
              /\ credits' = Append(credits, [order |-> Trade(w).order, fee |-> Trade(w).fee])
              /\ task'[w].pc \in {"announce", "idle"}
           \/ UNCHANGED <<commission, credits>> /\ task'[w].pc \notin {"create", "pay"}
           \/ /\ UNCHANGED <<commission, credits>> /\ task' = [task EXCEPT ![w].pc = "create"]
              /\ commission[Trade(w).order] = None
<1>1. \A l : Move(w, l) => task' = [task EXCEPT ![w].pc = l] /\ task'[w].pc = l
  <2>1. task \in [Worker -> Task]
    BY DEF RewardsTypes
  <2> QED
    BY <2>1 DEF Move, Task
<1>2. \A l, b : Finding(w, l, b) => task'[w].pc = l
  <2>1. task \in [Worker -> Task]
    BY DEF RewardsTypes
  <2> QED
    BY <2>1 DEF Finding, Task
<1>3. CASE FindPair(w) \/ CountTrade(w)
  BY <1>1, <1>2, <1>3 DEF FindPair, CountTrade, payout
<1>4. CASE FindFlag(w) \/ Flag(w) \/ AddVolume(w)
  BY <1>1, <1>4 DEF FindFlag, Flag, AddVolume, payout
<1>5. CASE FindCommission(w) \/ Announce(w)
  BY <1>1, <1>5 DEF FindCommission, Announce, payout
<1>6. CASE CreateCommission(w)
  BY <1>1, <1>6 DEF CreateCommission, Stands
<1>7. CASE Pay(w)
  BY <1>1, <1>7 DEF Pay, Credited, Stands
<1> QED
  BY <1>3, <1>4, <1>5, <1>6, <1>7 DEF HandleTrade

LEMMA ReceiveStep ==
    ASSUME RewardsTypes, NEW w \in Worker, Receive(w)
    PROVE  /\ w \in scene.workers /\ task[w].pc = "idle" /\ next \in 1..sent /\ next' = next + 1
           /\ (mode = "once" => next \notin Given)
           /\ given' = [given EXCEPT ![Detector] = @ \cup {next}]
           /\ calls' = [calls EXCEPT ![Detector] = @ + 1]
           /\ \E t \in Task : /\ task' = [task EXCEPT ![w] = t] /\ t.at = next
                              /\ t.pc \in {"look", "volume"}
           /\ UNCHANGED <<scene, mode, sent, tiers, payout>>
<1>1. /\ w \in scene.workers /\ task[w].pc = "idle" /\ next \in 1..sent /\ next' = next + 1
      /\ (mode = "once" => next \notin Given)
      /\ given' = [given EXCEPT ![Detector] = @ \cup {next}]
      /\ calls' = [calls EXCEPT ![Detector] = @ + 1]
      /\ UNCHANGED <<scene, mode, sent, tiers, payout>>
  BY DEF Receive, Bus!Give, Stands, Given, RewardsTypes
<1>2. next \in Nat
  BY DEF RewardsTypes
<1> DEFINE t == [pc |-> IF scene.trades[next].maker = None THEN "volume" ELSE "look",
                 at |-> next, found |-> FALSE]
<1>3. t \in Task /\ t.at = next /\ t.pc \in {"look", "volume"} /\ task' = [task EXCEPT ![w] = t]
  BY <1>2 DEF Receive, Task, Labels
<1> QED
  BY <1>1, <1>3

LEMMA StopStep ==
    ASSUME RewardsTypes, Stop
    PROVE  /\ task' = [w \in Worker |-> NoJob] /\ refreshing' = {}
           /\ IF mode = "once" THEN UNCHANGED next
              ELSE /\ next' \in 1..next
                   /\ \A w \in scene.workers : task[w].pc # "idle" => next' <= task[w].at
           /\ UNCHANGED <<scene, bus, volume, cache, payout>>
BY DEF Stop, Stands

LEMMA RefreshStep ==
    ASSUME RewardsTypes, NEW r \in refreshing, MyTier(r) \/ SetMaker(r) \/ SetTaker(r)
    PROVE  /\ r \in Refreshing /\ UNCHANGED <<scene, bus, next, task, volume, payout>>
           /\ \/ /\ UNCHANGED cache
                 /\ \E q \in Refreshing : /\ refreshing' = (refreshing \ {r}) \cup {q}
                                          /\ q.user = r.user /\ q.tier = TierOf(volume[r.user])
              \/ \E q \in Refreshing : /\ refreshing' = (refreshing \ {r}) \cup {q}
                                       /\ q.user = r.user /\ q.tier = r.tier
                                       /\ cache' = [cache EXCEPT ![r.user].maker = r.tier]
              \/ /\ refreshing' = refreshing \ {r}
                 /\ cache' = [cache EXCEPT ![r.user].taker = r.tier]
<1>1. r \in Refreshing
  BY DEF RewardsTypes
<1>2. volume[r.user] \in Nat
  BY <1>1 DEF Refreshing, RewardsTypes
<1>3. TierOf(volume[r.user]) \in Nat
  BY <1>2, TierNat
<1>4. CASE MyTier(r)
  <2>1. [r EXCEPT !.pc = "maker", !.tier = TierOf(volume[r.user])] \in Refreshing
    BY <1>1, <1>3 DEF Refreshing
  <2>2. refreshing' = (refreshing \ {r}) \cup {[r EXCEPT !.pc = "maker", !.tier = TierOf(volume[r.user])]}
        /\ UNCHANGED <<scene, bus, next, task, volume, cache, payout>>
    BY <1>4 DEF MyTier, Instead
  <2>3. [r EXCEPT !.pc = "maker", !.tier = TierOf(volume[r.user])].user = r.user
        /\ [r EXCEPT !.pc = "maker", !.tier = TierOf(volume[r.user])].tier = TierOf(volume[r.user])
    BY <1>1 DEF Refreshing
  <2> QED
    BY <1>1, <2>1, <2>2, <2>3
<1>5. CASE SetMaker(r)
  <2>1. [r EXCEPT !.pc = "taker"] \in Refreshing /\ [r EXCEPT !.pc = "taker"].user = r.user
        /\ [r EXCEPT !.pc = "taker"].tier = r.tier
    BY <1>1 DEF Refreshing
  <2>2. refreshing' = (refreshing \ {r}) \cup {[r EXCEPT !.pc = "taker"]}
        /\ cache' = [cache EXCEPT ![r.user].maker = r.tier]
        /\ UNCHANGED <<scene, bus, next, task, volume, payout>>
    BY <1>5 DEF SetMaker, Instead
  <2> QED
    BY <1>1, <2>1, <2>2
<1>6. CASE SetTaker(r)
  BY <1>1, <1>6 DEF SetTaker, Instead
<1> QED
  BY <1>4, <1>5, <1>6

LEMMA RewardsTyped ==
    ASSUME RewardsTypes, [OnboardingNext]_all
    PROVE  RewardsTypes'
<1>1. CASE Publish
  <2>1. sent' = sent + 1 /\ sent < Len(scene.trades)
        /\ UNCHANGED <<scene, mode, given, calls, next, task, tiers, payout>>
    BY <1>1 DEF Publish
  <2>2. Len(scene.trades) \in Nat /\ sent \in Nat
    BY SceneTypes DEF RewardsTypes
  <2>3. given \in [{Detector} -> SUBSET (1..sent')]
    <3>1. given \in [{Detector} -> SUBSET (1..sent)] /\ 1..sent \subseteq 1..sent'
      BY <2>1, <2>2 DEF RewardsTypes
    <3> QED
      BY <3>1
  <2> QED
    BY <2>1, <2>2, <2>3 DEF RewardsTypes, tiers, payout, Orders
<1>2. ASSUME NEW r \in refreshing, MyTier(r) \/ SetMaker(r) \/ SetTaker(r) PROVE RewardsTypes'
  <2>1. UNCHANGED <<scene, bus, next, task, volume, payout>> /\ r \in Refreshing
    BY <1>2, RefreshStep
  <2>2. refreshing' \subseteq Refreshing
    BY <1>2, RefreshStep DEF RewardsTypes
  <2>3. cache' \in [User -> [maker : Int, taker : Int]]
    <3>1. cache \in [User -> [maker : Int, taker : Int]] /\ r.user \in User /\ r.tier \in Int
      BY <2>1 DEF RewardsTypes, Refreshing
    <3>2. \/ UNCHANGED cache \/ cache' = [cache EXCEPT ![r.user].maker = r.tier]
          \/ cache' = [cache EXCEPT ![r.user].taker = r.tier]
      BY <1>2, RefreshStep
    <3> QED
      BY ONLY <3>1, <3>2
  <2> QED
    BY <2>1, <2>2, <2>3 DEF RewardsTypes, bus, payout, Orders
<1>3. ASSUME NEW w \in Worker, Receive(w) PROVE RewardsTypes'
  <2>1. /\ next \in 1..sent /\ next' = next + 1 /\ UNCHANGED <<scene, mode, sent, tiers, payout>>
        /\ given' = [given EXCEPT ![Detector] = @ \cup {next}]
        /\ calls' = [calls EXCEPT ![Detector] = @ + 1]
    BY <1>3, ReceiveStep
  <2>2. PICK t \in Task : task' = [task EXCEPT ![w] = t] /\ t.at = next
    BY <1>3, ReceiveStep
  <2>3. given' \in [{Detector} -> SUBSET (1..sent)] /\ calls' \in [{Detector} -> Nat]
    BY <2>1 DEF RewardsTypes
  <2>4. task' \in [Worker -> Task]
        /\ \A x \in Worker : task'[x].pc # "idle" => 1 <= task'[x].at /\ task'[x].at < next'
    <3>1. task \in [Worker -> Task] /\ next \in Nat /\ 1 <= next
          /\ \A x \in Worker : task[x].pc # "idle" => 1 <= task[x].at /\ task[x].at < next
      BY DEF RewardsTypes
    <3> QED
      BY <2>1, <2>2, <3>1 DEF Task
  <2> QED
    BY <2>1, <2>3, <2>4 DEF RewardsTypes, tiers, payout, Orders
<1>4. ASSUME NEW w \in Worker, HandleTrade(w) PROVE RewardsTypes'
  <2>1. UNCHANGED <<scene, bus, next, cache>> /\ task[w].pc # "idle"
    BY <1>4, HandlerSteps
  <2>2. PICK t \in Task : task' = [task EXCEPT ![w] = t] /\ (t.pc # "idle" => t.at = task[w].at)
    BY <1>4, HandlerSteps
  <2>3. task' \in [Worker -> Task]
        /\ \A x \in Worker : task'[x].pc # "idle" => 1 <= task'[x].at /\ task'[x].at < next
    BY <2>1, <2>2 DEF RewardsTypes
  <2>4. volume' \in [User -> Nat] /\ refreshing' \subseteq Refreshing
    <3>1. Trade(w).taker \in User /\ Trade(w).total \in Nat
      BY <1>4, <2>1, TradeTypes
    <3>2. volume \in [User -> Nat] /\ refreshing \subseteq Refreshing
      BY DEF RewardsTypes
    <3>3. \/ UNCHANGED <<volume, refreshing>>
          \/ /\ volume' = [volume EXCEPT ![Trade(w).taker] = @ + Trade(w).total]
             /\ \E r \in Refreshing : refreshing' = refreshing \cup {r}
      BY <1>4, VolumeStep
    <3> QED
      BY <3>1, <3>2, <3>3
  <2>5. commission' \in [Orders -> Nat \cup {None}]
    BY <1>4, <2>1, PayoutStep, TradeTypes DEF RewardsTypes
  <2>6. credits' \in Seq(Credit)
    <3>1. [order |-> Trade(w).order, fee |-> Trade(w).fee] \in Credit
      BY <2>1, TradeTypes DEF Credit
    <3> QED
      <4>1. credits \in Seq(Credit)
        BY DEF RewardsTypes
      <4>2. \/ UNCHANGED credits
            \/ credits' = Append(credits, [order |-> Trade(w).order, fee |-> Trade(w).fee])
        BY <1>4, PayoutStep
      <4> QED
        BY <3>1, <4>1, <4>2
  <2> QED
    BY <2>1, <2>3, <2>4, <2>5, <2>6 DEF RewardsTypes, bus, Orders
<1>5. ASSUME NEW x \in User, Expire(x) PROVE RewardsTypes'
  <2>1. cache' \in [User -> [maker : Int, taker : Int]]
    <3>1. cache \in [User -> [maker : Int, taker : Int]] /\ None \in Int
      BY DEF RewardsTypes, None
    <3>2. cache' = [cache EXCEPT ![x].maker = None] \/ cache' = [cache EXCEPT ![x].taker = None]
      BY <1>5 DEF Expire
    <3> QED
      BY ONLY <3>1, <3>2
  <2> QED
    BY <1>5, <2>1 DEF RewardsTypes, Expire, bus, payout, Orders
<1>6. CASE Stop
  <2>1. NoJob \in Task /\ NoJob.pc = "idle"
    BY DEF NoJob, Task, Labels
  <2>2. next' \in Nat /\ 1 <= next' /\ next' <= next
    BY <1>6, StopStep DEF RewardsTypes
  <2>3. /\ task' = [w \in Worker |-> NoJob] /\ refreshing' = {}
        /\ UNCHANGED <<scene, bus, volume, cache, payout>>
    BY <1>6, StopStep
  <2>4. next' <= sent + 1
    BY <2>2 DEF RewardsTypes
  <2> QED
    BY <2>1, <2>2, <2>3, <2>4 DEF RewardsTypes, bus, payout, Orders
<1>7. CASE AtRest
  BY <1>7 DEF AtRest, RewardsTypes, bus, tiers, payout, Orders
<1> QED
  BY <1>1, <1>2, <1>3, <1>4, <1>5, <1>6, <1>7, RewardsCases

LEMMA OtherSteps ==
    ASSUME RewardsTypes, [OnboardingNext]_all
    PROVE  \/ UNCHANGED <<scene, task, payout>>
           \/ (\E w \in Worker : Receive(w) \/ HandleTrade(w)) \/ Stop
<1>1. Publish => UNCHANGED <<scene, task, payout>>
  BY DEF Publish
<1>2. ASSUME NEW r \in refreshing, MyTier(r) \/ SetMaker(r) \/ SetTaker(r)
      PROVE  UNCHANGED <<scene, task, payout>>
  BY <1>2, RefreshStep
<1>3. ASSUME NEW x \in User, Expire(x) PROVE UNCHANGED <<scene, task, payout>>
  BY <1>3 DEF Expire
<1>4. AtRest => UNCHANGED <<scene, task, payout>>
  BY DEF AtRest
<1> QED
  BY <1>1, <1>2, <1>3, <1>4, RewardsCases

LEMMA PaidKept ==
    ASSUME RewardsTypes, OneLoop, PaidOnce, [OnboardingNext]_all
    PROVE  PaidOnce'
<1>1. PICK v \in Worker : scene.workers = {v}
  <2>1. IsFiniteSet(scene.workers) /\ scene.workers \subseteq Worker
    BY SceneTypes, RewardsAssumption, FS_Subset
  <2>2. \E v : scene.workers = {v}
    BY <2>1, FS_Singleton DEF OneLoop
  <2> QED
    BY <2>1, <2>2
<1>2. CASE UNCHANGED <<scene, task, payout>>
  BY <1>2 DEF payout, PaidOnce, Unpaid, Trade, Orders
<1>3. ASSUME NEW w \in Worker, Receive(w) PROVE PaidOnce'
  <2>1. UNCHANGED <<scene, commission, credits>> /\ w = v /\ task'[v].pc \notin {"create", "pay"}
    BY <1>1, <1>3, ReceiveStep DEF payout, RewardsTypes
  <2> QED
    BY <1>1, <2>1 DEF PaidOnce, Orders
<1>4. CASE Stop
  <2>1. UNCHANGED <<scene, commission, credits>> /\ task'[v].pc \notin {"create", "pay"}
    BY <1>4, StopStep DEF payout, NoJob
  <2> QED
    BY <1>1, <2>1 DEF PaidOnce, Orders
<1>5. ASSUME NEW w \in Worker, HandleTrade(w) PROVE PaidOnce'
  <2>1. /\ w = v /\ scene' = scene /\ Orders' = Orders /\ task[v] \in Task /\ task[v].pc # "idle"
        /\ task \in [Worker -> Task]
    BY <1>1, <1>5, HandlerSteps DEF RewardsTypes, Orders
  <2>2. Trade(v).order \in Orders /\ Trade(v).fee \in Nat /\ Trade(v).order \in Nat
    BY <2>1, TradeTypes
  <2>3. task'[v].at = task[v].at => Trade(v)' = Trade(v)
    BY <2>1 DEF Trade
  <2>4. credits \in Seq(Credit) /\ DOMAIN credits = 1..Len(credits) /\ Len(credits) \in Nat
        /\ \A i \in DOMAIN credits : credits[i] \in Credit
    BY DEF RewardsTypes
  <2>5. commission \in [Orders -> Nat \cup {None}]
    BY DEF RewardsTypes
  <2> DEFINE o == Trade(v).order
             f == Trade(v).fee
  <2>6. CASE /\ task[v].pc = "create" /\ UNCHANGED credits /\ task' = [task EXCEPT ![v].pc = "pay"]
             /\ commission' = [commission EXCEPT ![Trade(v).order] =
                                   IF @ = None THEN Trade(v).fee ELSE @]
    <3>1. commission[o] = None
      BY <1>1, <2>6 DEF PaidOnce
    <3>2. commission' = [commission EXCEPT ![o] = f]
      BY <2>2, <2>5, <2>6, <3>1
    <3>3. Unpaid(o)
      <4>1. \A i \in DOMAIN credits : commission[credits[i].order] = credits[i].fee /\ credits[i].fee # None
        BY <2>4 DEF PaidOnce, Credit, None
      <4> QED
        BY <3>1, <4>1 DEF Unpaid
    <3>4. task'[v].pc = "pay" /\ Trade(v)' = Trade(v)
      BY <2>1, <2>3, <2>6 DEF Task
    <3>5. \A i \in DOMAIN credits : commission'[credits[i].order] = credits[i].fee
      BY <2>5, <3>2, <3>3 DEF PaidOnce, Unpaid
    <3>6. commission'[o] = f
      BY <2>2, <2>5, <3>2
    <3>7. Unpaid(Trade(v).order)'
      BY <2>6, <3>3, <3>4 DEF Unpaid
    <3> QED
      BY <1>1, <2>1, <2>6, <3>4, <3>5, <3>6, <3>7 DEF PaidOnce
  <2>7. CASE /\ task[v].pc = "pay" /\ UNCHANGED commission
             /\ credits' = Append(credits, [order |-> Trade(v).order, fee |-> Trade(v).fee])
             /\ task'[v].pc \in {"announce", "idle"}
    <3>1. commission[o] = f /\ Unpaid(o)
      BY <1>1, <2>7 DEF PaidOnce
    <3>2. PICK c \in Credit : c = [order |-> o, fee |-> f]
      BY <2>2 DEF Credit
    <3>3. c.order = o /\ c.fee = f /\ credits' = Append(credits, c)
      BY <2>7, <3>2
    <3> HIDE DEF o, f
    <3>4. PICK n : n = Len(credits) + 1
      OBVIOUS
    <3>5. /\ DOMAIN credits' = DOMAIN credits \cup {n} /\ n \notin DOMAIN credits
          /\ credits'[n] = c /\ \A i \in DOMAIN credits : credits'[i] = credits[i]
      BY <2>4, <3>3, <3>4
    <3>6. \A i \in DOMAIN credits' : /\ credits'[i].order \in Orders
                                     /\ commission[credits'[i].order] = credits'[i].fee
      BY <2>2, <3>1, <3>3, <3>5 DEF PaidOnce, o
    <3>7. \A i, j \in DOMAIN credits' : i # j => credits'[i].order # credits'[j].order
      BY <3>1, <3>3, <3>5 DEF PaidOnce, Unpaid
    <3> QED
      BY <1>1, <2>1, <2>7, <3>6, <3>7 DEF PaidOnce
  <2>8. CASE UNCHANGED <<commission, credits>> /\ task'[v].pc \notin {"create", "pay"}
    BY <1>1, <2>1, <2>8 DEF PaidOnce
  <2>9. CASE /\ UNCHANGED <<commission, credits>> /\ task' = [task EXCEPT ![v].pc = "create"]
             /\ commission[Trade(v).order] = None
    <3>1. task'[v].pc = "create" /\ Trade(v)' = Trade(v)
      BY <2>1, <2>3, <2>9 DEF Task
    <3> QED
      BY <1>1, <2>1, <2>9, <3>1 DEF PaidOnce
  <2> QED
    BY <1>5, <2>1, <2>6, <2>7, <2>8, <2>9, PayoutStep
<1> QED
  BY <1>2, <1>3, <1>4, <1>5, OtherSteps

(* A tier is never ahead of the volume. *)
LEMMA TieredKept ==
    ASSUME RewardsTypes, Tiered, [OnboardingNext]_all
    PROVE  Tiered'
<1>1. CASE Publish \/ AtRest
  BY <1>1 DEF Publish, AtRest, tiers, Tiered
<1>2. ASSUME NEW r \in refreshing, MyTier(r) \/ SetMaker(r) \/ SetTaker(r) PROVE Tiered'
  <2>1. volume' = volume /\ r \in Refreshing
    BY <1>2, RefreshStep
  <2>2. r.user \in User /\ volume[r.user] \in Nat /\ r.tier <= TierOf(volume[r.user])
    BY <2>1 DEF Refreshing, RewardsTypes, Tiered
  <2>3. TierOf(volume[r.user]) \in Nat
    BY <2>2, TierNat
  <2>4. \A q \in refreshing' : q.tier <= TierOf(volume[q.user])
    <3>1. \A q \in refreshing' : q \in refreshing \/ (q.user = r.user /\ q.tier \in {r.tier, TierOf(volume[r.user])})
      BY <1>2, RefreshStep
    <3> QED
      BY <2>2, <2>3, <3>1 DEF Tiered
  <2>5. cache \in [User -> [maker : Int, taker : Int]]
    BY DEF RewardsTypes
  <2>6. \A x \in User : cache'[x].maker <= TierOf(volume[x]) /\ cache'[x].taker <= TierOf(volume[x])
    <3>1. \/ UNCHANGED cache
          \/ cache' = [cache EXCEPT ![r.user].maker = r.tier]
          \/ cache' = [cache EXCEPT ![r.user].taker = r.tier]
      BY <1>2, RefreshStep
    <3>2. \A x \in User : cache[x].maker <= TierOf(volume[x]) /\ cache[x].taker <= TierOf(volume[x])
      BY DEF Tiered
    <3> QED
      BY <2>2, <2>5, <3>1, <3>2
  <2> QED
    BY <2>1, <2>4, <2>6 DEF Tiered
<1>3. ASSUME NEW w \in Worker, Receive(w) PROVE Tiered'
  BY <1>3, ReceiveStep DEF tiers, Tiered
<1>4. ASSUME NEW w \in Worker, HandleTrade(w) PROVE Tiered'
  <2>1. cache' = cache /\ task[w].pc # "idle"
    BY <1>4, HandlerSteps
  <2>2. Trade(w).taker \in User /\ Trade(w).total \in Nat /\ volume \in [User -> Nat]
    BY <2>1, TradeTypes DEF RewardsTypes
  <2>3. \/ UNCHANGED volume
        \/ volume' = [volume EXCEPT ![Trade(w).taker] = @ + Trade(w).total]
    BY <1>4, VolumeStep
  <2>4. \A x \in User : volume[x] \in Nat /\ volume'[x] \in Nat /\ volume[x] <= volume'[x]
    BY ONLY <2>2, <2>3
  <2>5. \A x \in User : /\ TierOf(volume[x]) <= TierOf(volume'[x])
                        /\ TierOf(volume[x]) \in Nat /\ TierOf(volume'[x]) \in Nat
    BY <2>4, TierMonotone
  <2>6. \A r \in refreshing' : r \in Refreshing /\ (r \in refreshing \/ r.tier = 0)
    BY <1>4, VolumeStep DEF RewardsTypes
  <2>7. \A r \in refreshing' : r.tier <= TierOf(volume'[r.user])
    BY <2>5, <2>6 DEF Tiered, Refreshing
  <2>8. \A x \in User : cache[x].maker <= TierOf(volume'[x]) /\ cache[x].taker <= TierOf(volume'[x])
    <3>1. \A x \in User : cache[x].maker \in Int /\ cache[x].taker \in Int
      BY DEF RewardsTypes
    <3> QED
      BY <2>5, <3>1 DEF Tiered
  <2>9. \A n : TierOf(n)' = TierOf(n')
    BY DEF TierOf
  <2> QED
    BY <2>1, <2>7, <2>8 DEF Tiered
<1>5. ASSUME NEW x \in User, Expire(x) PROVE Tiered'
  <2>1. volume' = volume /\ refreshing' = refreshing
    BY <1>5 DEF Expire
  <2>2. \A y \in User : TierOf(volume[y]) \in Nat
    BY TierNat DEF RewardsTypes
  <2>3. cache \in [User -> [maker : Int, taker : Int]]
    BY DEF RewardsTypes
  <2>4. cache' = [cache EXCEPT ![x].maker = -1] \/ cache' = [cache EXCEPT ![x].taker = -1]
    BY <1>5 DEF Expire, None
  <2>5. \A y \in User : cache'[y].maker <= TierOf(volume[y]) /\ cache'[y].taker <= TierOf(volume[y])
    BY <2>2, <2>3, <2>4 DEF Tiered
  <2> QED
    BY <2>1, <2>5 DEF Tiered
<1>6. CASE Stop
  BY <1>6, StopStep DEF Tiered
<1> QED
  BY <1>1, <1>2, <1>3, <1>4, <1>5, <1>6, RewardsCases

(* Sums of trades. *)
LEMMA TotalNat ==
    ASSUME RewardsTypes, NEW x \in User, NEW K \in SUBSET (DOMAIN scene.trades)
    PROVE  /\ TotalOf(x, K) \in Nat
           /\ \A k \in DOMAIN scene.trades : Amounts[k] \in Nat /\ Amounts[k] = scene.trades[k].total
           /\ IsFiniteSet({k \in K : scene.trades[k].taker = x})
<1>1. \A k \in DOMAIN scene.trades : Amounts[k] \in Nat /\ Amounts[k] = scene.trades[k].total
  BY SceneTypes DEF Amounts
<1>2. IsFiniteSet(1..Len(scene.trades)) /\ DOMAIN scene.trades = 1..Len(scene.trades)
  <2>1. 1 \in Int /\ Len(scene.trades) \in Int /\ DOMAIN scene.trades = 1..Len(scene.trades)
    BY SceneTypes
  <2> QED
    BY <2>1, FS_Interval
<1>3. {k \in K : scene.trades[k].taker = x} \in SUBSET (1..Len(scene.trades))
  BY <1>2
<1>4. IsFiniteSet({k \in K : scene.trades[k].taker = x})
  BY <1>2, <1>3, FS_Subset
<1> QED
  BY <1>1, <1>4, SumNat DEF TotalOf

LEMMA TotalGrows ==
    ASSUME RewardsTypes, NEW x \in User, NEW L \in SUBSET (DOMAIN scene.trades), NEW K \in SUBSET L
    PROVE  TotalOf(x, K) <= TotalOf(x, L)
<1> DEFINE S == {k \in K : scene.trades[k].taker = x}
           T == {k \in L : scene.trades[k].taker = x}
           g == [k \in T |-> IF k \in S THEN Amounts[k] ELSE 0]
<1>1. S \in SUBSET T /\ IsFiniteSet(T) /\ \A k \in T : Amounts[k] \in Nat
  BY TotalNat
<1>2. Sum(Amounts, S) = Sum(g, T)
  <2>1. \A k \in S : Amounts[k] \in Int
    BY <1>1
  <2>2. \A k \in T : g[k] = IF k \in S THEN Amounts[k] ELSE 0
    OBVIOUS
  <2> HIDE DEF g, S, T
  <2> QED
    BY <1>1, <2>1, <2>2, SumFilter
<1>3. \A k \in T : g[k] \in Int /\ Amounts[k] \in Int /\ g[k] <= Amounts[k]
  BY <1>1
<1> HIDE DEF g
<1>4. Sum(g, T) <= Sum(Amounts, T)
  BY <1>1, <1>3, SumMonotone
<1> QED
  BY <1>2, <1>4 DEF TotalOf

LEMMA TotalAdds ==
    ASSUME RewardsTypes, NEW x \in User, NEW K \in SUBSET (DOMAIN scene.trades),
           NEW k \in DOMAIN scene.trades, k \notin K
    PROVE  TotalOf(x, K \cup {k}) =
              TotalOf(x, K) + (IF scene.trades[k].taker = x THEN scene.trades[k].total ELSE 0)
<1> DEFINE S == {n \in K : scene.trades[n].taker = x}
<1>1. IsFiniteSet(S) /\ (\A n \in S : Amounts[n] \in Int) /\ k \notin S
      /\ Amounts[k] \in Int /\ Amounts[k] = scene.trades[k].total
  <2>1. IsFiniteSet(S)
    BY TotalNat
  <2>2. \A n \in DOMAIN scene.trades : Amounts[n] \in Nat /\ Amounts[n] = scene.trades[n].total
    BY TotalNat
  <2> QED
    BY <2>1, <2>2
<1>2. {n \in K \cup {k} : scene.trades[n].taker = x} =
         IF scene.trades[k].taker = x THEN S \cup {k} ELSE S
  BY DEF S
<1>3. Sum(Amounts, S) \in Int
  BY <1>1, SumType
<1> HIDE DEF S
<1>4. Sum(Amounts, S \cup {k}) = Sum(Amounts, S) + Amounts[k]
  BY <1>1, SumAdd
<1>5. TotalOf(x, K) = Sum(Amounts, S)
  BY DEF TotalOf, S
<1>6. TotalOf(x, K \cup {k}) = IF scene.trades[k].taker = x THEN Sum(Amounts, S \cup {k}) ELSE Sum(Amounts, S)
  BY <1>2 DEF TotalOf, S
<1> QED
  BY <1>1, <1>3, <1>4, <1>5, <1>6

(* A handler has its trade to add until it is at "volume" and steps on. *)
LEMMA AddingStep ==
    ASSUME RewardsTypes, NEW w \in Worker, HandleTrade(w)
    PROVE  /\ w \in scene.workers /\ scene' = scene
           /\ \A x \in Worker \ {w} : task'[x] = task[x]
           /\ task'[w].pc # "idle" => task'[w].at = task[w].at
           /\ task[w].pc = "volume" => task'[w].pc \notin Before
           /\ task[w].pc # "volume" => (task'[w].pc \in Before <=> task[w].pc \in Before)
<1>1. /\ w \in scene.workers /\ scene' = scene /\ task \in [Worker -> Task]
  BY HandlerSteps DEF RewardsTypes
<1>2. \A l : Move(w, l) => task' = [task EXCEPT ![w].pc = l] /\ task'[w].pc = l
  BY <1>1 DEF Move, Task
<1>3. \A l, b : Finding(w, l, b) => task'[w].pc = l
  BY <1>1 DEF Finding, Task
<1>4. (\A x \in Worker \ {w} : task'[x] = task[x]) /\ (task'[w].pc # "idle" => task'[w].at = task[w].at)
  BY <1>1, HandlerSteps
<1>5. CASE FindPair(w) \/ CountTrade(w)
  BY <1>1, <1>2, <1>3, <1>4, <1>5 DEF FindPair, CountTrade, Stands, Before
<1>6. CASE FindFlag(w) \/ Flag(w) \/ AddVolume(w)
  BY <1>1, <1>2, <1>4, <1>6 DEF FindFlag, Flag, AddVolume, Stands, Before
<1>7. CASE FindCommission(w) \/ CreateCommission(w) \/ Announce(w)
  BY <1>1, <1>2, <1>4, <1>7 DEF FindCommission, CreateCommission, Announce, Stands, Before
<1>8. CASE Pay(w)
  BY <1>1, <1>2, <1>4, <1>8 DEF Pay, Stands, Before
<1> QED
  BY <1>5, <1>6, <1>7, <1>8 DEF HandleTrade

LEMMA PendingTypes ==
    ASSUME RewardsTypes
    PROVE  /\ Given \subseteq DOMAIN scene.trades /\ 1..(next - 1) \subseteq DOMAIN scene.trades
           /\ Pending \subseteq DOMAIN scene.trades /\ Adding \subseteq Worker
           /\ next \in Nat /\ Given \subseteq Nat
           /\ \A w \in Adding : task[w].at \in 1..(next - 1) /\ task[w].pc # "idle" /\ w \in Worker
<1>1. /\ sent \in Nat /\ sent <= Len(scene.trades) /\ next \in Nat /\ 1 <= next /\ next <= sent + 1
      /\ given \in [{Detector} -> SUBSET (1..sent)]
      /\ \A w \in Worker : task[w].pc # "idle" => 1 <= task[w].at /\ task[w].at < next
  BY DEF RewardsTypes
<1>2. Given \subseteq 1..sent
  BY <1>1 DEF Given
<1>3. Len(scene.trades) \in Nat /\ DOMAIN scene.trades = 1..Len(scene.trades) /\ scene.workers \subseteq Worker
  BY SceneTypes
<1>4. \A w \in Adding : w \in Worker /\ task[w].pc # "idle"
  BY <1>3 DEF Adding, Before
<1>5. \A w \in Adding : task[w].at \in DOMAIN scene.trades /\ task[w].at \in Nat
  BY <1>4, TradeTypes
<1>6. \A w \in Adding : task[w].at \in 1..(next - 1)
  BY <1>1, <1>4, <1>5
<1> QED
  BY <1>1, <1>2, <1>3, <1>4, <1>5, <1>6 DEF Pending

(* Nothing that counts changes. *)
LEMMA CountingSame ==
    ASSUME RewardsTypes, Counting, UNCHANGED <<scene, mode, given, next, volume>>, Pending' = Pending,
           Adding' = Adding, \A w \in Adding : task'[w].at = task[w].at
    PROVE  Counting'
BY DEF Counting, TotalOf, Amounts, Given

LEMMA CountingReceive ==
    ASSUME RewardsTypes, Counting, NEW w \in Worker, Receive(w)
    PROVE  Counting'
<1>1. /\ w \in scene.workers /\ task[w].pc = "idle" /\ next \in 1..sent /\ next' = next + 1
      /\ (mode = "once" => next \notin Given)
      /\ given' = [given EXCEPT ![Detector] = @ \cup {next}]
      /\ UNCHANGED <<scene, mode, volume>>
  BY ReceiveStep DEF tiers
<1>2. PICK t \in Task : /\ task' = [task EXCEPT ![w] = t] /\ t.at = next /\ t.pc \in {"look", "volume"}
  BY ReceiveStep
<1>3. task \in [Worker -> Task] /\ given \in [{Detector} -> SUBSET (1..sent)]
  BY DEF RewardsTypes
<1>4. scene.workers \subseteq Worker /\ next \in Nat
  BY PendingTypes, SceneTypes
<1>5. Given' = Given \cup {next}
  BY <1>1, <1>3 DEF Given
<1>6. w \notin Adding /\ Adding' = Adding \cup {w} /\ task'[w].at = next
      /\ \A x \in Adding : task'[x].at = task[x].at
  BY <1>1, <1>2, <1>3, <1>4 DEF Adding, Before
<1>7. Pending' = Pending \cup {next}
  BY <1>6 DEF Pending
<1>8. \A x, K : TotalOf(x, K)' = TotalOf(x, K')
  BY <1>1 DEF TotalOf, Amounts
<1>9. CASE mode = "once"
  <2>1. /\ Pending \subseteq Given /\ next \notin Given
        /\ \A x, y \in Adding : x # y => task[x].at # task[y].at
        /\ \A x \in User : volume[x] <= TotalOf(x, Given \ Pending)
    BY <1>1, <1>9 DEF Counting
  <2>2. Given' \ Pending' = Given \ Pending
    BY <1>5, <1>7, <2>1
  <2>3. \A x, y \in Adding' : x # y => task'[x].at # task'[y].at
    <3>1. \A x \in Adding : task[x].at \in Given
      BY <2>1 DEF Pending
    <3> QED
      BY <1>6, <2>1, <3>1
  <2>4. \A x \in User : volume'[x] <= TotalOf(x, Given \ Pending)'
    BY <1>1, <2>1, <2>2 DEF TotalOf, Amounts
  <2> QED
    BY <1>1, <1>5, <1>7, <1>9, <2>1, <2>3, <2>4 DEF Counting
<1>10. CASE mode = "gapless"
  <2>1. ASSUME "error" \notin scene.faults, NEW x \in User
        PROVE  volume'[x] >= TotalOf(x, (1..(next - 1)) \ Pending)'
    <3>1. (1..(next' - 1)) \ Pending' = (1..(next - 1)) \ Pending
      <4>1. 1..(next' - 1) = 1..(next - 1) \cup {next}
        BY <1>1, <1>4
      <4>2. next \notin 1..(next - 1)
        BY <1>4
      <4> QED
        BY <1>7, <4>1, <4>2
    <3>2. volume[x] >= TotalOf(x, (1..(next - 1)) \ Pending)
      BY <1>10, <2>1 DEF Counting
    <3> QED
      BY <1>1, <3>1, <3>2 DEF TotalOf, Amounts
  <2> QED
    BY <1>1, <1>10, <2>1 DEF Counting
<1> QED
  BY <1>1, <1>9, <1>10 DEF Counting

LEMMA CountingStop ==
    ASSUME RewardsTypes, Counting, Stop
    PROVE  Counting'
<1>1. /\ task' = [w \in Worker |-> NoJob] /\ UNCHANGED <<scene, mode, given, volume>>
      /\ IF mode = "once" THEN UNCHANGED next
         ELSE /\ next' \in 1..next
              /\ \A w \in scene.workers : task[w].pc # "idle" => next' <= task[w].at
  BY StopStep DEF bus
<1>2. scene.workers \subseteq Worker /\ volume \in [User -> Nat] /\ scene.mode \in {"once", "gapless"} /\ mode = scene.mode
  BY SceneTypes DEF RewardsTypes
<1>3. Adding' = {} /\ Pending' = {}
  BY <1>1, <1>2 DEF Adding, Pending, NoJob, Before
<1>4. CASE mode = "once"
  <2>1. ASSUME NEW x \in User PROVE volume[x] <= TotalOf(x, Given)
    <3>1. Given \in SUBSET (DOMAIN scene.trades) /\ Given \ Pending \in SUBSET Given
      BY PendingTypes
    <3>2. TotalOf(x, Given \ Pending) <= TotalOf(x, Given)
      BY <3>1, TotalGrows
    <3>3. TotalOf(x, Given \ Pending) \in Nat /\ TotalOf(x, Given) \in Nat
      BY <3>1, TotalNat
    <3>4. volume[x] <= TotalOf(x, Given \ Pending) /\ volume[x] \in Nat
      BY <1>2, <1>4 DEF Counting
    <3> QED
      BY ONLY <3>2, <3>3, <3>4
  <2>2. \A x \in User : volume'[x] <= TotalOf(x, Given \ Pending)'
    BY <1>1, <1>3, <2>1 DEF TotalOf, Amounts, Given
  <2> QED
    BY <1>1, <1>3, <1>4, <2>2 DEF Counting
<1>5. CASE mode = "gapless"
  <2>1. ASSUME "error" \notin scene.faults, NEW x \in User
        PROVE  volume[x] >= TotalOf(x, 1..(next' - 1))
    <3>1. next' \in 1..next /\ \A w \in scene.workers : task[w].pc # "idle" => next' <= task[w].at
      BY <1>1, <1>5
    <3>2. \A k \in Pending : k \in 1..(next - 1) /\ next' <= k
      <4>1. \A w \in Adding : task[w].at \in 1..(next - 1) /\ task[w].pc # "idle" /\ w \in scene.workers
        BY PendingTypes DEF Adding
      <4> QED
        BY <3>1, <4>1 DEF Pending
    <3>3. next \in Nat
      BY PendingTypes
    <3>4. 1..(next' - 1) \subseteq (1..(next - 1)) \ Pending
      <4>1. PICK n : n = next'
        OBVIOUS
      <4>2. n \in 1..next /\ \A k \in Pending : n <= k
        BY <3>1, <3>2, <4>1
      <4>3. 1..(n - 1) \subseteq 1..(next - 1)
        BY ONLY <3>3, <4>2
      <4>4. \A k \in 1..(n - 1) : k \notin Pending
        BY ONLY <3>3, <4>2
      <4> QED
        BY <4>1, <4>3, <4>4
    <3>5. (1..(next - 1)) \ Pending \in SUBSET (DOMAIN scene.trades)
      BY PendingTypes
    <3>6. TotalOf(x, 1..(next' - 1)) <= TotalOf(x, (1..(next - 1)) \ Pending)
      BY <3>4, <3>5, TotalGrows
    <3>7. TotalOf(x, (1..(next - 1)) \ Pending) \in Nat
      BY <3>5, TotalNat
    <3>8. 1..(next' - 1) \in SUBSET (DOMAIN scene.trades)
      BY <3>4, <3>5
    <3>9. TotalOf(x, 1..(next' - 1)) \in Nat
      BY <3>8, TotalNat
    <3>10. volume[x] >= TotalOf(x, (1..(next - 1)) \ Pending) /\ volume[x] \in Nat
      BY <1>2, <1>5, <2>1 DEF Counting
    <3> QED
      BY ONLY <3>6, <3>7, <3>9, <3>10
  <2>2. "error" \notin scene.faults => \A x \in User : volume'[x] >= TotalOf(x, (1..(next - 1)) \ Pending)'
    BY <1>1, <1>3, <2>1 DEF TotalOf, Amounts
  <2> QED
    BY <1>1, <1>5, <2>2 DEF Counting
<1> QED
  BY <1>2, <1>4, <1>5

LEMMA CountingAdds ==
    ASSUME RewardsTypes, Counting, NEW w \in Worker, HandleTrade(w), task[w].pc = "volume"
    PROVE  Counting'
<1>1. w \in scene.workers /\ UNCHANGED <<scene, mode, given, next>>
  BY HandlerSteps DEF bus
<1>2. /\ task'[w].pc \notin Before /\ \A x \in Worker \ {w} : task'[x] = task[x]
  BY AddingStep
<1>3. w \in Adding /\ scene.workers \subseteq Worker
  BY <1>1, SceneTypes DEF Adding, Before
<1>4. Adding' = Adding \ {w} /\ \A x \in Adding' : task'[x] = task[x]
  BY <1>1, <1>2, <1>3 DEF Adding
<1>5. PICK e : e = task[w].at
  OBVIOUS
<1>6. e \in Pending /\ e \in DOMAIN scene.trades /\ e \in 1..(next - 1)
  BY <1>3, <1>5, PendingTypes DEF Pending
<1>7. Pending' \subseteq Pending /\ Pending \subseteq Pending' \cup {e}
  BY <1>3, <1>4, <1>5 DEF Pending
<1>8. Trade(w) = scene.trades[e] /\ Trade(w).total \in Nat /\ Trade(w).taker \in User
  BY <1>5, TradeTypes DEF Trade
<1>9. volume \in [User -> Nat] /\ scene.mode \in {"once", "gapless"} /\ mode = scene.mode
  BY SceneTypes DEF RewardsTypes
<1> DEFINE own(x) == IF scene.trades[e].taker = x THEN scene.trades[e].total ELSE 0
<1>10. \/ \A x \in User : volume'[x] = volume[x] + own(x)
       \/ "error" \in scene.faults /\ volume' = volume
  BY <1>8, <1>9, VolumeStep
<1>11. \A x \in User : volume[x] \in Nat /\ own(x) \in Nat
  BY <1>8, <1>9
<1> HIDE DEF own
<1>12. CASE mode = "once"
  <2>1. /\ Pending \subseteq Given
        /\ \A x, y \in Adding : x # y => task[x].at # task[y].at
        /\ \A x \in User : volume[x] <= TotalOf(x, Given \ Pending)
    BY <1>12 DEF Counting
  <2>2. e \notin Pending'
    BY <1>3, <1>4, <1>5, <2>1 DEF Pending
  <2>3. Given \ Pending' = (Given \ Pending) \cup {e} /\ e \notin Given \ Pending
    BY <1>6, <1>7, <2>1, <2>2
  <2>4. ASSUME NEW x \in User PROVE volume'[x] <= TotalOf(x, Given \ Pending')
    <3>1. Given \ Pending \in SUBSET (DOMAIN scene.trades)
      BY PendingTypes
    <3>2. TotalOf(x, Given \ Pending') = TotalOf(x, Given \ Pending) + own(x)
      BY <1>6, <2>3, <3>1, TotalAdds DEF own
    <3>3. TotalOf(x, Given \ Pending) \in Nat
      BY <3>1, TotalNat
    <3>4. volume'[x] \in {volume[x], volume[x] + own(x)} /\ volume[x] <= TotalOf(x, Given \ Pending)
          /\ volume[x] \in Nat /\ own(x) \in Nat
      BY <1>10, <1>11, <2>1
    <3> QED
      BY ONLY <3>2, <3>3, <3>4
  <2>5. \A x \in User : volume'[x] <= TotalOf(x, Given \ Pending)'
    BY <1>1, <2>4 DEF TotalOf, Amounts, Given
  <2>6. Pending' \subseteq Given' /\ \A x, y \in Adding' : x # y => task'[x].at # task'[y].at
    BY <1>1, <1>4, <1>7, <2>1 DEF Given
  <2> QED
    BY <1>1, <1>12, <2>5, <2>6 DEF Counting
<1>13. CASE mode = "gapless"
  <2>1. ASSUME "error" \notin scene.faults, NEW x \in User
        PROVE  volume'[x] >= TotalOf(x, (1..(next - 1)) \ Pending')
    <3> DEFINE K == (1..(next - 1)) \ Pending
    <3>1. K \in SUBSET (DOMAIN scene.trades) /\ e \notin K
      BY <1>6, PendingTypes
    <3>2. K \cup {e} \in SUBSET (DOMAIN scene.trades) /\ (1..(next - 1)) \ Pending' \in SUBSET (K \cup {e})
      BY <1>6, <1>7, <3>1
    <3>3. volume[x] >= TotalOf(x, K) /\ volume[x] \in Nat /\ own(x) \in Nat /\ volume'[x] = volume[x] + own(x)
      BY <1>10, <1>11, <1>13, <2>1 DEF Counting
    <3> HIDE DEF K
    <3>4. TotalOf(x, K \cup {e}) = TotalOf(x, K) + own(x)
      BY <1>6, <3>1, TotalAdds DEF own
    <3>5. TotalOf(x, (1..(next - 1)) \ Pending') <= TotalOf(x, K \cup {e})
      BY <3>2, TotalGrows
    <3>6. TotalOf(x, K) \in Nat
      BY <3>1, TotalNat
    <3>7. (1..(next - 1)) \ Pending' \in SUBSET (DOMAIN scene.trades)
      BY <3>2
    <3>8. TotalOf(x, (1..(next - 1)) \ Pending') \in Nat
      BY <3>7, TotalNat
    <3> QED
      BY ONLY <3>3, <3>4, <3>5, <3>6, <3>8
  <2>2. "error" \notin scene.faults => \A x \in User : volume'[x] >= TotalOf(x, (1..(next - 1)) \ Pending)'
    BY <1>1, <2>1 DEF TotalOf, Amounts
  <2> QED
    BY <1>1, <1>13, <2>2 DEF Counting
<1> QED
  BY <1>9, <1>12, <1>13

LEMMA CountingKept ==
    ASSUME RewardsTypes, Counting, [OnboardingNext]_all
    PROVE  Counting'
<1>1. CASE UNCHANGED <<scene, mode, given, next, task, volume>>
  <2>1. Adding' = Adding /\ Pending' = Pending
    BY <1>1 DEF Adding, Pending
  <2> QED
    BY <1>1, <2>1, CountingSame
<1>2. CASE Publish \/ AtRest
  BY <1>1, <1>2 DEF Publish, AtRest, bus, tiers
<1>3. ASSUME NEW r \in refreshing, MyTier(r) \/ SetMaker(r) \/ SetTaker(r) PROVE Counting'
  BY <1>1, <1>3, RefreshStep DEF bus
<1>4. ASSUME NEW w \in Worker, HandleTrade(w), task[w].pc # "volume" PROVE Counting'
  <2>1. UNCHANGED <<scene, mode, given, next, volume>> /\ scene.workers \subseteq Worker
    BY <1>4, HandlerSteps, VolumeStep, SceneTypes DEF bus
  <2>2. /\ \A x \in Worker \ {w} : task'[x] = task[x]
        /\ task'[w].pc # "idle" => task'[w].at = task[w].at
        /\ task'[w].pc \in Before <=> task[w].pc \in Before
    BY <1>4, AddingStep
  <2>3. Adding' = Adding
    BY <2>1, <2>2 DEF Adding
  <2>4. \A x \in Adding : task'[x].at = task[x].at
    BY <2>1, <2>2 DEF Adding, Before
  <2>5. Pending' = Pending
    BY <2>3, <2>4 DEF Pending
  <2> QED
    BY <2>1, <2>3, <2>4, <2>5, CountingSame
<1>5. ASSUME NEW x \in User, Expire(x) PROVE Counting'
  BY <1>1, <1>5 DEF Expire, bus
<1> QED
  BY <1>2, <1>3, <1>4, <1>5, CountingReceive, CountingAdds, CountingStop, RewardsCases

-----------------------------------------------------------------------------
(* What instances of auth-service do to users and the topic                *)

LEMMA SceneStays == ASSUME RewardsTypes, [OnboardingNext]_all PROVE scene' = scene
BY OtherSteps, ReceiveStep, HandlerSteps, StopStep

(* Any step of an instance. *)
Instances(p) ==
    \/ EnsureFeeWallet(p) \/ SeedAdmin(p) \/ CreateUser(p) \/ AnnounceUser(p) \/ SetKey(p)
    \/ \E x \in User : SignUp(p, x)

LEMMA AfterStep ==
    ASSUME NEW p \in Instance, boot[p].todo \in Seq(User), boot[p].todo # <<>>, After(p)
    PROVE  \E b \in Place : /\ boot' = [boot EXCEPT ![p] = b] /\ b.pc # "announce"
                            /\ b.pc = "create" => b.todo # <<>>
<1>1. PICK s \in Seq(User) : s = boot[p].todo /\ s # <<>>
  OBVIOUS
<1>2. CASE Len(s) > 1
  <2>1. PICK t : t = Tail(s)
    OBVIOUS
  <2>2. t \in Seq(User) /\ Len(t) = Len(s) - 1 /\ Len(s) \in Nat
    BY <1>1, <2>1
  <2>3. ASSUME t = <<>> PROVE FALSE
    <3>1. Len(t) = 0
      BY <2>3
    <3>2. PICK n : n = Len(s)
      OBVIOUS
    <3>3. n \in Nat /\ 0 = n - 1 /\ n > 1
      BY <1>2, <2>2, <3>1, <3>2
    <3> QED
      BY ONLY <3>3
  <2>4. t # <<>>
    BY <2>3
  <2>5. boot' = [boot EXCEPT ![p] = [pc |-> "create", todo |-> t]]
    BY <1>1, <1>2, <2>1 DEF After, Go
  <2>6. [pc |-> "create", todo |-> t] \in Place
    BY <2>2 DEF Place
  <2> QED
    BY <2>4, <2>5, <2>6
<1>3. CASE ~(Len(s) > 1)
  <2>1. boot' = [boot EXCEPT ![p] = [pc |-> "serve", todo |-> <<>>]]
    BY <1>1, <1>3 DEF After, Go
  <2>2. [pc |-> "serve", todo |-> <<>>] \in Place
    BY DEF Place
  <2> QED
    BY <2>1, <2>2
<1> QED
  BY <1>2, <1>3

LEMMA BootStep ==
    ASSUME OnboardingTypes, NEW p \in Instance, Instances(p)
    PROVE  /\ UNCHANGED <<wallets, fees>>
           /\ \E b \in Place :
                 /\ boot' = [boot EXCEPT ![p] = b]
                 /\ b.pc \in {"create", "announce"} => b.todo # <<>>
                 /\ \/ UNCHANGED <<rows, registered>> /\ b.pc # "announce"
                    \/ /\ b.pc = "announce" /\ b.todo = boot[p].todo /\ boot[p].pc = "create"
                       /\ Head(boot[p].todo) \notin rows /\ rows' = rows \cup {Head(boot[p].todo)}
                       /\ UNCHANGED registered
                    \/ /\ Announcer(p) /\ b.pc # "announce" /\ UNCHANGED rows
                       /\ \/ UNCHANGED registered
                          \/ registered' = Append(registered, Head(boot[p].todo))
                          \/ /\ "answer" \in scene.faults
                             /\ registered' = registered \o <<Head(boot[p].todo), Head(boot[p].todo)>>
<1> DEFINE Onto(b) == /\ boot' = [boot EXCEPT ![p] = b]
                      /\ b.pc \in {"create", "announce"} => b.todo # <<>>
<1>1. boot[p] \in Place /\ (boot[p].pc \in {"create", "announce"} => boot[p].todo # <<>>)
      /\ boot[p].todo \in Seq(User)
  BY DEF OnboardingTypes, Place
<1>2. \A l \in {"start", "key", "seed", "serve"} : Go(p, l, <<>>) =>
         \E b \in Place : Onto(b) /\ b.pc # "announce"
  <2> SUFFICES ASSUME NEW l \in {"start", "key", "seed", "serve"}, Go(p, l, <<>>)
               PROVE  \E b \in Place : Onto(b) /\ b.pc # "announce"
    OBVIOUS
  <2>1. [pc |-> l, todo |-> <<>>] \in Place
    BY DEF Place
  <2> QED
    BY <2>1 DEF Go
<1>3. \A s \in Seq(User) : Go(p, "create", s) /\ s # <<>> =>
         \E b \in Place : Onto(b) /\ b.pc # "announce"
  <2> SUFFICES ASSUME NEW s \in Seq(User), Go(p, "create", s), s # <<>>
               PROVE  \E b \in Place : Onto(b) /\ b.pc # "announce"
    OBVIOUS
  <2>1. [pc |-> "create", todo |-> s] \in Place
    BY DEF Place
  <2> QED
    BY <2>1 DEF Go
<1>4. boot[p].pc \in {"create", "announce"} /\ After(p) => \E b \in Place : Onto(b) /\ b.pc # "announce"
  BY <1>1, AfterStep
<1>5. CASE EnsureFeeWallet(p)
  <2>1. <<System>> \in Seq(User) /\ <<System>> # <<>>
    BY OnboardingAssumption
  <2>2. (\E b \in Place : Onto(b) /\ b.pc # "announce") /\ UNCHANGED <<rows, registered, wallets, fees>>
    BY <1>2, <1>3, <1>5, <2>1 DEF EnsureFeeWallet
  <2> QED
    BY <2>2
<1>6. CASE SeedAdmin(p)
  <2>1. Seeds \in Seq(User) /\ Seeds # <<>>
    BY OnboardingAssumption
  <2>2. (\E b \in Place : Onto(b) /\ b.pc # "announce") /\ UNCHANGED <<rows, registered, wallets, fees>>
    BY <1>2, <1>3, <1>6, <2>1 DEF SeedAdmin
  <2> QED
    BY <2>2
<1>7. ASSUME NEW x \in User, SignUp(p, x)
      PROVE  (\E b \in Place : Onto(b) /\ b.pc # "announce") /\ UNCHANGED <<rows, registered, wallets, fees>>
  <2>1. <<x>> \in Seq(User) /\ <<x>> # <<>>
    OBVIOUS
  <2> QED
    BY <1>3, <1>7, <2>1 DEF SignUp
<1>8. CASE SetKey(p)
  <2>1. (\E b \in Place : Onto(b) /\ b.pc # "announce") /\ UNCHANGED <<rows, registered, wallets, fees>>
    BY <1>2, <1>8 DEF SetKey
  <2> QED
    BY <2>1
<1>9. CASE CreateUser(p)
  <2>1. boot[p].pc = "create" /\ UNCHANGED <<registered, wallets, fees>>
    BY <1>9 DEF CreateUser, Is
  <2>2. CASE Head(boot[p].todo) \notin rows
    <3>1. rows' = rows \cup {Head(boot[p].todo)} /\ Go(p, "announce", boot[p].todo)
      BY <1>9, <2>2 DEF CreateUser
    <3>2. PICK b : b = [pc |-> "announce", todo |-> boot[p].todo]
      OBVIOUS
    <3>3. b \in Place /\ b.pc = "announce" /\ b.todo = boot[p].todo /\ Onto(b)
      BY <1>1, <2>1, <3>1, <3>2 DEF Place, Go
    <3> QED
      BY <2>1, <2>2, <3>1, <3>3
  <2>3. CASE Head(boot[p].todo) \in rows
    <3>1. (\E b \in Place : Onto(b) /\ b.pc # "announce") /\ UNCHANGED rows
      BY <1>2, <1>4, <1>9, <2>1, <2>3 DEF CreateUser
    <3> QED
      BY <2>1, <3>1
  <2> QED
    BY <2>2, <2>3
<1>10. CASE AnnounceUser(p)
  <2>1. Announcer(p) /\ boot[p].pc = "announce" /\ UNCHANGED <<rows, wallets, fees>>
    BY <1>10 DEF AnnounceUser, Is, Announcer
  <2>2. \E b \in Place : Onto(b) /\ b.pc # "announce"
    BY <1>2, <1>4, <1>10, <2>1 DEF AnnounceUser
  <2>3. \/ UNCHANGED registered
        \/ registered' = Append(registered, Head(boot[p].todo))
        \/ /\ "answer" \in scene.faults
           /\ registered' = registered \o <<Head(boot[p].todo), Head(boot[p].todo)>>
    BY <1>10 DEF AnnounceUser, May
  <2> QED
    BY <2>1, <2>2, <2>3
<1> QED
  BY <1>5, <1>6, <1>7, <1>8, <1>9, <1>10 DEF Instances

LEMMA OnboardingCases ==
    ASSUME [OnboardingNext]_all
    PROVE  \/ UNCHANGED <<auth, wallets, fees>>
           \/ AuthStops \/ Provision \/ WalletStops \/ Poll \/ ChargeFee \/ ProjectFee \/ TradingStops
           \/ (\E p \in Instance : Instances(p))
           \/ (\E x \in User : SepayCallback(x) \/ EnsureBalanceCached(x))
BY DEF OnboardingNext, all, Instances

(* An instance that starts again has nothing to announce. *)
LEMMA RebootStep ==
    ASSUME AuthStops
    PROVE  /\ boot' = [p \in Instance |-> [pc |-> "start", todo |-> <<>>]]
           /\ UNCHANGED <<rows, registered, wallets, fees>>
BY DEF AuthStops

(* A step of wallet-service or of the engine leaves users and topic alone. *)
LEMMA WalletSteps ==
    ASSUME \/ Provision \/ WalletStops \/ Poll \/ ChargeFee \/ ProjectFee \/ TradingStops
           \/ (\E x \in User : SepayCallback(x) \/ EnsureBalanceCached(x))
    PROVE  UNCHANGED auth
<1>1. ASSUME NEW x \in User, SepayCallback(x) \/ EnsureBalanceCached(x) PROVE UNCHANGED auth
  BY <1>1 DEF SepayCallback, UpsertUpdate, UpsertInsert, CreditDeposit, EnsureBalanceCached
<1>2. Provision \/ WalletStops \/ Poll \/ ChargeFee \/ ProjectFee \/ TradingStops => UNCHANGED auth
  BY DEF Provision, Deliver, CountWallets, CreateInBatches, WalletStops, Poll, ChargeFee, ProjectFee,
         TradingStops
<1> QED
  BY <1>1, <1>2

LEMMA TopicTypes ==
    ASSUME OnboardingTypes
    PROVE  /\ registered \in Seq(User) /\ DOMAIN registered = 1..Len(registered) /\ Len(registered) \in Nat
           /\ \A j \in DOMAIN registered : registered[j] \in User
<1>1. registered \in Seq(User)
  BY DEF OnboardingTypes
<1> QED
  BY ONLY <1>1

(* The topic of a step of an instance: it is longer or as it was. *)
LEMMA TopicGrows ==
    ASSUME OnboardingTypes, NEW p \in Instance, Instances(p)
    PROVE  registered' \in Seq(User) /\ DOMAIN registered \subseteq DOMAIN registered'
<1>1. UNCHANGED registered => registered' \in Seq(User) /\ DOMAIN registered \subseteq DOMAIN registered'
  BY TopicTypes
<1>2. ASSUME Announcer(p) PROVE Head(boot[p].todo) \in User
  <2>1. boot[p].todo \in Seq(User) /\ boot[p].todo # <<>>
    BY <1>2 DEF OnboardingTypes, Place, Announcer
  <2> QED
    BY ONLY <2>1
<1>3. ASSUME NEW x \in User, registered' = Append(registered, x)
      PROVE  registered' \in Seq(User) /\ DOMAIN registered \subseteq DOMAIN registered'
  <2>1. registered \in Seq(User)
    BY TopicTypes
  <2> QED
    BY ONLY <1>3, <2>1
<1>4. ASSUME NEW x \in User, registered' = registered \o <<x, x>>
      PROVE  registered' \in Seq(User) /\ DOMAIN registered \subseteq DOMAIN registered'
  <2>1. registered \in Seq(User) /\ <<x, x>> \in Seq(User) /\ Len(<<x, x>>) = 2
    BY TopicTypes
  <2> QED
    BY ONLY <1>4, <2>1
<1> QED
  BY <1>1, <1>2, <1>3, <1>4, BootStep

LEMMA OnboardingTyped ==
    ASSUME OnboardingTypes, [OnboardingNext]_all
    PROVE  OnboardingTypes'
<1>1. CASE UNCHANGED <<auth, wallets, fees>>
  BY <1>1 DEF auth, wallets, fees, OnboardingTypes
<1>2. CASE AuthStops
  <2>1. [pc |-> "start", todo |-> <<>>] \in Place
    BY DEF Place
  <2> QED
    BY <1>2, <2>1, RebootStep DEF OnboardingTypes, wallets, fees
<1>3. CASE Provision
  <2>1. UNCHANGED <<boot, registered>>
    BY <1>3, WalletSteps DEF auth
  <2>2. CASE Deliver
    <3>1. [pc |-> "count", at |-> prov.next, next |-> prov.next + 1] \in Loop
          /\ prov.next \in DOMAIN registered
      BY <2>2, TopicTypes DEF Deliver, OnboardingTypes, Loop
    <3>2. UNCHANGED <<usdt, coins, deposit, projected>>
          /\ prov' = [pc |-> "count", at |-> prov.next, next |-> prov.next + 1]
      BY <2>2 DEF Deliver, fees
    <3>3. prov.next \in Nat /\ prov.next >= 1
      BY DEF OnboardingTypes, Loop
    <3> QED
      BY <2>1, <3>1, <3>2, <3>3 DEF OnboardingTypes
  <2>3. CASE CountWallets
    <3>1. prov' \in Loop /\ prov'.at = prov.at /\ prov'.next = prov.next /\ prov.pc # "idle"
      BY <2>3 DEF CountWallets, OnboardingTypes, Loop
    <3>2. UNCHANGED <<usdt, coins, deposit, projected>>
      BY <2>3 DEF CountWallets, fees
    <3> QED
      BY <2>1, <3>1, <3>2 DEF OnboardingTypes
  <2>4. CASE CreateInBatches
    <3>1. prov' \in Loop /\ prov'.pc = "idle" /\ prov'.next = prov.next
      BY <2>4 DEF CreateInBatches, OnboardingTypes, Loop
    <3>2. UNCHANGED <<deposit, projected>>
      BY <2>4 DEF CreateInBatches, fees
    <3>3. Newcomer \in User /\ Gift[Newcomer] \in Nat
      BY <2>4, TopicTypes, OnboardingAssumption DEF CreateInBatches, Newcomer, OnboardingTypes
    <3>4. \/ UNCHANGED <<usdt, coins>>
          \/ usdt' = [usdt EXCEPT ![Newcomer] = Gift[Newcomer]] /\ coins' = coins \cup {Newcomer}
      BY <2>4 DEF CreateInBatches
    <3>5. usdt' \in [User -> Nat \cup {None}] /\ coins' \subseteq User
      BY <3>3, <3>4 DEF OnboardingTypes
    <3> QED
      BY <2>1, <3>1, <3>2, <3>5 DEF OnboardingTypes
  <2> QED
    BY <1>3, <2>2, <2>3, <2>4 DEF Provision
<1>4. CASE WalletStops
  <2>1. UNCHANGED <<boot, registered, usdt, coins, projected>>
    BY <1>4, WalletSteps DEF auth, WalletStops, fees
  <2>2. prov.next \in Nat
    BY DEF OnboardingTypes, Loop
  <2>3. prov' \in Loop /\ prov'.pc = "idle" /\ prov'.next >= 1
    BY <1>4, <2>2 DEF WalletStops, Loop
  <2>4. deposit' \in [User -> {"none", "pending", "insert", "credit", "done"}]
    BY <1>4 DEF WalletStops, OnboardingTypes
  <2> QED
    BY <2>1, <2>3, <2>4 DEF OnboardingTypes
<1>5. CASE Poll \/ ChargeFee \/ TradingStops
  BY <1>5, WalletSteps DEF Poll, ChargeFee, TradingStops, auth, wallets, OnboardingTypes
<1>6. CASE ProjectFee
  <2>1. UNCHANGED <<boot, registered, prov, coins, deposit>>
    BY <1>6, WalletSteps DEF auth, ProjectFee
  <2>2. usdt' \in [User -> Nat \cup {None}] /\ projected' \in Nat
    <3>1. usdt \in [User -> Nat \cup {None}] /\ projected \in Nat /\ System \in User
      BY OnboardingAssumption DEF OnboardingTypes
    <3>2. \/ UNCHANGED <<usdt, projected>>
          \/ usdt[System] # None /\ usdt' = [usdt EXCEPT ![System] = @ + 1] /\ projected' = projected + 1
      BY <1>6 DEF ProjectFee
    <3> QED
      BY ONLY <3>1, <3>2
  <2> QED
    BY <2>1, <2>2 DEF OnboardingTypes
<1>7. ASSUME NEW p \in Instance, Instances(p) PROVE OnboardingTypes'
  <2>1. UNCHANGED <<wallets, fees>>
    BY <1>7, BootStep
  <2>2. PICK b \in Place : /\ boot' = [boot EXCEPT ![p] = b]
                           /\ b.pc \in {"create", "announce"} => b.todo # <<>>
    BY <1>7, BootStep
  <2>3. registered' \in Seq(User) /\ DOMAIN registered \subseteq DOMAIN registered'
    BY <1>7, TopicGrows
  <2> QED
    BY <2>1, <2>2, <2>3 DEF wallets, fees, OnboardingTypes
<1>8. ASSUME NEW x \in User, SepayCallback(x) PROVE OnboardingTypes'
  <2>1. UNCHANGED <<boot, registered, prov, coins, projected>>
    BY <1>8, WalletSteps DEF auth, SepayCallback, UpsertUpdate, UpsertInsert, CreditDeposit, fees
  <2>2. usdt' \in [User -> Nat \cup {None}]
        /\ deposit' \in [User -> {"none", "pending", "insert", "credit", "done"}]
    BY <1>8 DEF SepayCallback, UpsertUpdate, UpsertInsert, CreditDeposit, OnboardingTypes
  <2> QED
    BY <2>1, <2>2 DEF OnboardingTypes
<1>9. ASSUME NEW x \in User, EnsureBalanceCached(x) PROVE OnboardingTypes'
  BY <1>9 DEF EnsureBalanceCached, auth, fees, OnboardingTypes
<1> QED
  BY <1>1, <1>2, <1>3, <1>4, <1>5, <1>6, <1>7, <1>8, <1>9, OnboardingCases

LEMMA AnnouncedKept ==
    ASSUME OnboardingTypes, Announced, scene' = scene, [OnboardingNext]_all
    PROVE  Announced'
<1>1. CASE UNCHANGED auth
  BY <1>1 DEF auth, Announced, Announcer
<1>2. CASE AuthStops
  <2>1. UNCHANGED <<rows, registered>> /\ \A p \in Instance : boot'[p].pc # "announce"
    BY <1>2, RebootStep
  <2> QED
    BY <2>1 DEF Announced, Announcer
<1>3. ASSUME NEW p \in Instance, Instances(p) PROVE Announced'
  <2>1. PICK b \in Place :
           /\ boot' = [boot EXCEPT ![p] = b]
           /\ \/ UNCHANGED <<rows, registered>> /\ b.pc # "announce"
              \/ /\ b.pc = "announce" /\ b.todo = boot[p].todo /\ boot[p].pc = "create"
                 /\ Head(boot[p].todo) \notin rows /\ rows' = rows \cup {Head(boot[p].todo)}
                 /\ UNCHANGED registered
              \/ /\ Announcer(p) /\ b.pc # "announce" /\ UNCHANGED rows
                 /\ \/ UNCHANGED registered
                    \/ registered' = Append(registered, Head(boot[p].todo))
                    \/ /\ "answer" \in scene.faults
                       /\ registered' = registered \o <<Head(boot[p].todo), Head(boot[p].todo)>>
    BY <1>3, BootStep
  <2>2. boot \in [Instance -> Place]
    BY DEF OnboardingTypes
  <2>3. boot'[p] = b /\ \A q \in Instance \ {p} : boot'[q] = boot[q]
    BY <2>1, <2>2
  <2>4. CASE UNCHANGED <<rows, registered>> /\ b.pc # "announce"
    BY <2>3, <2>4 DEF Announced, Announcer
  <2>5. CASE /\ b.pc = "announce" /\ b.todo = boot[p].todo /\ boot[p].pc = "create"
             /\ Head(boot[p].todo) \notin rows /\ rows' = rows \cup {Head(boot[p].todo)}
             /\ UNCHANGED registered
    <3>1. PICK h : h = Head(boot[p].todo)
      OBVIOUS
    <3>2. Head(boot'[p].todo) = h /\ h \notin rows /\ rows' = rows \cup {h} /\ registered' = registered
      BY <2>3, <2>5, <3>1
    <3>3. \A j \in DOMAIN registered : registered[j] # h
      BY <3>2 DEF Announced
    <3>4. \A q \in Instance : Announcer(q)' => q = p \/ Announcer(q)
      BY <2>3 DEF Announcer
    <3>5. \A q \in Instance \ {p} : Announcer(q) => Head(boot[q].todo) # h /\ Head(boot[q].todo) \in rows
      BY <3>2 DEF Announced
    <3>6. \A q \in Instance : Announcer(q)' => Head(boot'[q].todo) \in rows'
      BY <2>3, <3>2, <3>4, <3>5
    <3>7. ASSUME "answer" \notin scene.faults
          PROVE  /\ \A q \in Instance : Announcer(q)' =>
                       \A j \in DOMAIN registered : registered[j] # Head(boot'[q].todo)
                 /\ \A q, r \in Instance : Announcer(q)' /\ Announcer(r)' /\ q # r =>
                       Head(boot'[q].todo) # Head(boot'[r].todo)
      <4>1. \A q \in Instance \ {p} : Announcer(q)' => Announcer(q) /\ boot'[q] = boot[q]
        BY <2>3, <3>4
      <4> QED
        BY <3>2, <3>3, <3>5, <3>7, <4>1 DEF Announced
    <3> QED
      BY <3>2, <3>6, <3>7 DEF Announced
  <2>6. CASE /\ Announcer(p) /\ b.pc # "announce" /\ UNCHANGED rows
             /\ \/ UNCHANGED registered
                \/ registered' = Append(registered, Head(boot[p].todo))
                \/ /\ "answer" \in scene.faults
                   /\ registered' = registered \o <<Head(boot[p].todo), Head(boot[p].todo)>>
    <3>1. PICK h : h = Head(boot[p].todo)
      OBVIOUS
    <3>2. h \in rows /\ rows' = rows /\ ~Announcer(p)'
      BY <2>3, <2>6, <3>1 DEF Announced, Announcer
    <3>3. \A q \in Instance : Announcer(q)' => q # p /\ Announcer(q) /\ boot'[q] = boot[q]
      BY <2>3, <3>2 DEF Announcer
    <3>4. \A q \in Instance : Announcer(q)' => Head(boot'[q].todo) \in rows'
      BY <3>2, <3>3 DEF Announced
    <3>5. registered \in Seq(User) /\ Len(registered) \in Nat /\ DOMAIN registered = 1..Len(registered)
      BY TopicTypes
    <3>6. \A j \in DOMAIN registered' : (j \in DOMAIN registered /\ registered'[j] = registered[j]) \/ registered'[j] = h
      <4>1. UNCHANGED registered => \A j \in DOMAIN registered' : j \in DOMAIN registered /\ registered'[j] = registered[j]
        OBVIOUS
      <4>2. ASSUME registered' = Append(registered, h)
            PROVE  \A j \in DOMAIN registered' :
                      (j \in DOMAIN registered /\ registered'[j] = registered[j]) \/ registered'[j] = h
        BY ONLY <3>5, <4>2
      <4>3. ASSUME registered' = registered \o <<h, h>>
            PROVE  \A j \in DOMAIN registered' :
                      (j \in DOMAIN registered /\ registered'[j] = registered[j]) \/ registered'[j] = h
        <5>1. PICK s : s = <<h, h>>
          OBVIOUS
        <5>2. s \in Seq({h}) /\ Len(s) = 2 /\ s[1] = h /\ s[2] = h
          BY <5>1
        <5>3. registered' = registered \o s
          BY <4>3, <5>1
        <5>4. PICK n : n = Len(registered)
          OBVIOUS
        <5>5. n \in Nat /\ DOMAIN registered = 1..n
          BY <3>5, <5>4
        <5>6. DOMAIN registered' = 1..(n + 2)
              /\ \A j \in 1..(n + 2) : registered'[j] = IF j <= n THEN registered[j] ELSE s[j - n]
          <6>1. PICK U : U = User \cup {h}
            OBVIOUS
          <6>2. registered \in Seq(U)
            <7>1. User \subseteq U
              BY <6>1
            <7> QED
              BY ONLY <3>5, <7>1
          <6>3. s \in Seq(U)
            <7>1. {h} \subseteq U
              BY <6>1
            <7> QED
              BY ONLY <5>2, <7>1
          <6>4. registered \o s \in Seq(U) /\ Len(registered \o s) = n + 2
                /\ \A j \in 1..(n + 2) : (registered \o s)[j] = IF j <= n THEN registered[j] ELSE s[j - n]
            <7>1. /\ registered \o s \in Seq(U)
                  /\ Len(registered \o s) = Len(registered) + Len(s)
                  /\ \A j \in 1..Len(registered) + Len(s) :
                        (registered \o s)[j] = IF j <= Len(registered) THEN registered[j] ELSE s[j - Len(registered)]
              BY ONLY <6>2, <6>3, ConcatProperties, Zenon
            <7> QED
              BY <5>2, <5>4, <7>1, Zenon
          <6>5. DOMAIN (registered \o s) = 1..Len(registered \o s)
            BY ONLY <6>4
          <6> QED
            BY ONLY <5>3, <6>4, <6>5
        <5>7. \A j \in 1..(n + 2) : j <= n => j \in 1..n
          BY ONLY <5>5
        <5>8. \A j \in 1..(n + 2) : ~(j <= n) => j - n = 1 \/ j - n = 2
          BY ONLY <5>5
        <5> QED
          BY ONLY <5>2, <5>5, <5>6, <5>7, <5>8
      <4> QED
        BY <2>6, <3>1, <4>1, <4>2, <4>3
    <3>7. \A j \in DOMAIN registered' : registered'[j] \in rows'
      BY <3>2, <3>6 DEF Announced
    <3>8. ASSUME "answer" \notin scene.faults
          PROVE  /\ \A j, k \in DOMAIN registered' : j # k => registered'[j] # registered'[k]
                 /\ \A q \in Instance : Announcer(q)' =>
                       \A j \in DOMAIN registered' : registered'[j] # Head(boot'[q].todo)
                 /\ \A q, r \in Instance : Announcer(q)' /\ Announcer(r)' /\ q # r =>
                       Head(boot'[q].todo) # Head(boot'[r].todo)
      <4>1. /\ \A j, k \in DOMAIN registered : j # k => registered[j] # registered[k]
            /\ \A j \in DOMAIN registered : registered[j] # h
            /\ \A q \in Instance : Announcer(q) =>
                  \A j \in DOMAIN registered : registered[j] # Head(boot[q].todo)
            /\ \A q \in Instance : Announcer(q) /\ q # p => Head(boot[q].todo) # h
            /\ \A q, r \in Instance : Announcer(q) /\ Announcer(r) /\ q # r =>
                  Head(boot[q].todo) # Head(boot[r].todo)
        BY <2>6, <3>1, <3>8 DEF Announced
      <4>2. \A q \in Instance : Announcer(q)' =>
               \A j \in DOMAIN registered' : registered'[j] # Head(boot'[q].todo)
        BY <3>3, <3>6, <4>1
      <4>3. \A q, r \in Instance : Announcer(q)' /\ Announcer(r)' /\ q # r =>
               Head(boot'[q].todo) # Head(boot'[r].todo)
        BY <3>3, <4>1
      <4>4. CASE UNCHANGED registered
        BY <4>1, <4>2, <4>3, <4>4
      <4>5. CASE registered' = Append(registered, h)
        <5>1. PICK n : n = Len(registered) + 1
          OBVIOUS
        <5>2. DOMAIN registered' = DOMAIN registered \cup {n} /\ registered'[n] = h
              /\ \A j \in DOMAIN registered : registered'[j] = registered[j]
          BY ONLY <3>5, <4>5, <5>1
        <5> QED
          BY <4>1, <4>2, <4>3, <5>2
      <4> QED
        BY <2>6, <3>1, <3>8, <4>4, <4>5
    <3> QED
      BY <3>4, <3>7, <3>8 DEF Announced
  <2> QED
    BY <2>1, <2>4, <2>5, <2>6
<1> QED
  BY <1>1, <1>2, <1>3, WalletSteps, OnboardingCases

(* What a wallet holds follows its gift, its deposit and the fees. *)
LEMMA WholeSame ==
    ASSUME Whole, UNCHANGED <<usdt, coins, deposit, projected>>
    PROVE  Whole'
BY DEF Whole, Deposited, ProjectedFor

LEMMA WholeKept ==
    ASSUME OnboardingTypes, Whole, [OnboardingNext]_all
    PROVE  Whole'
<1>1. usdt \in [User -> Nat \cup {None}] /\ System \in User /\ Gift \in [User -> Nat] /\ projected \in Nat
      /\ deposit \in [User -> {"none", "pending", "insert", "credit", "done"}] /\ None = -1
  BY OnboardingAssumption DEF OnboardingTypes, None
<1>2. CASE UNCHANGED <<usdt, coins, deposit, projected>>
  BY <1>2, WholeSame
<1>3. CASE CreateInBatches
  <2>1. UNCHANGED <<deposit, projected>>
    BY <1>3 DEF CreateInBatches, fees
  <2>2. Newcomer \in User
    BY <1>3, TopicTypes DEF CreateInBatches, Newcomer, OnboardingTypes
  <2>3. PICK n \in User : n = Newcomer
    BY <2>2
  <2>4. \/ UNCHANGED <<usdt, coins>>
        \/ usdt[n] = None /\ usdt' = [usdt EXCEPT ![n] = Gift[n]] /\ coins' = coins \cup {n}
    BY <1>3, <2>3 DEF CreateInBatches
  <2>5. CASE usdt[n] = None /\ usdt' = [usdt EXCEPT ![n] = Gift[n]] /\ coins' = coins \cup {n}
    <3>1. Deposited(n) = 0 /\ ProjectedFor(n) = 0
      BY <2>5 DEF Whole
    <3>2. \A x : Deposited(x)' = Deposited(x) /\ ProjectedFor(x)' = ProjectedFor(x)
      BY <2>1 DEF Deposited, ProjectedFor
    <3>3. usdt'[n] = Gift[n] /\ Gift[n] \in Nat /\ \A x \in User \ {n} : usdt'[x] = usdt[x]
      BY <1>1, <2>5
    <3>4. \A x \in User \ {n} : IF usdt'[x] = None THEN x \notin coins' /\ Deposited(x)' = 0 /\ ProjectedFor(x)' = 0
             ELSE usdt'[x] = (IF x \in coins' THEN Gift[x] ELSE 0) + Deposited(x)' + ProjectedFor(x)'
      BY <2>5, <3>2, <3>3 DEF Whole
    <3>5. usdt'[n] # None /\ usdt'[n] = (IF n \in coins' THEN Gift[n] ELSE 0) + Deposited(n)' + ProjectedFor(n)'
      BY <1>1, <2>5, <3>1, <3>2, <3>3
    <3> QED
      BY <3>4, <3>5 DEF Whole
  <2> QED
    BY <1>2, <2>1, <2>4, <2>5
<1>4. CASE WalletStops
  <2>1. UNCHANGED <<usdt, coins, projected>>
    BY <1>4 DEF WalletStops, fees
  <2>2. \A x \in User : deposit'[x] \in {"credit", "done"} <=> deposit[x] \in {"credit", "done"}
    BY <1>1, <1>4 DEF WalletStops
  <2> QED
    BY <2>1, <2>2 DEF Whole, Deposited, ProjectedFor
<1>5. CASE ProjectFee
  <2>1. UNCHANGED <<coins, deposit>>
    BY <1>5 DEF ProjectFee
  <2>2. CASE usdt[System] # None /\ usdt' = [usdt EXCEPT ![System] = @ + 1] /\ projected' = projected + 1
    <3>1. \A x : Deposited(x)' = Deposited(x)
      BY <2>1 DEF Deposited
    <3>2. \A x \in User \ {System} : usdt'[x] = usdt[x] /\ ProjectedFor(x)' = 0 /\ ProjectedFor(x) = 0
      BY <1>1, <2>2 DEF ProjectedFor
    <3>3. /\ usdt'[System] = usdt[System] + 1 /\ usdt[System] \in Nat
          /\ ProjectedFor(System)' = ProjectedFor(System) + 1 /\ ProjectedFor(System) \in Nat
          /\ Deposited(System) \in Nat /\ Gift[System] \in Nat
      BY <1>1, <2>2 DEF ProjectedFor, Deposited
    <3>4. usdt[System] = (IF System \in coins THEN Gift[System] ELSE 0) + Deposited(System) + ProjectedFor(System)
      BY <1>1, <2>2 DEF Whole
    <3>5. usdt'[System] # None /\ usdt'[System] = (IF System \in coins THEN Gift[System] ELSE 0)
                                     + Deposited(System) + ProjectedFor(System)'
      BY <1>1, <3>3, <3>4
    <3> QED
      BY <2>1, <3>1, <3>2, <3>5 DEF Whole
  <2> QED
    BY <1>2, <1>5, <2>1, <2>2 DEF ProjectFee
<1>6. ASSUME NEW y \in User, SepayCallback(y) PROVE Whole'
  <2>1. UNCHANGED <<coins, projected>>
    BY <1>6 DEF SepayCallback, UpsertUpdate, UpsertInsert, CreditDeposit, fees
  <2>2. \A x : ProjectedFor(x)' = ProjectedFor(x) /\ ProjectedFor(x) \in Nat
    BY <1>1, <2>1 DEF ProjectedFor
  <2>3. ASSUME UNCHANGED usdt, \A x \in User : Deposited(x)' = Deposited(x) PROVE Whole'
    BY <2>1, <2>2, <2>3 DEF Whole
  <2>4. ASSUME deposit[y] \in {"pending", "insert"}, deposit' = [deposit EXCEPT ![y] = "credit"],
               usdt' = [usdt EXCEPT ![y] = IF @ = None THEN 1 ELSE @ + 1]
        PROVE  Whole'
    <3>1. \A x \in User \ {y} : usdt'[x] = usdt[x] /\ Deposited(x)' = Deposited(x)
      BY <1>1, <2>4 DEF Deposited
    <3>2. Deposited(y) = 0 /\ Deposited(y)' = 1
      BY <1>1, <2>4 DEF Deposited
    <3>3. usdt'[y] = IF usdt[y] = None THEN 1 ELSE usdt[y] + 1
      BY <1>1, <2>4
    <3>4. Gift[y] \in Nat /\ usdt[y] \in Nat \cup {None}
      BY <1>1
    <3>5. usdt'[y] # None /\ usdt'[y] = (IF y \in coins THEN Gift[y] ELSE 0) + Deposited(y)' + ProjectedFor(y)
      <4>1. CASE usdt[y] = None
        BY <3>2, <3>3, <4>1, <1>1 DEF Whole
      <4>2. CASE usdt[y] # None
        <5>1. usdt[y] = (IF y \in coins THEN Gift[y] ELSE 0) + Deposited(y) + ProjectedFor(y)
          BY <4>2 DEF Whole
        <5> QED
          BY <1>1, <2>2, <3>2, <3>3, <3>4, <4>2, <5>1
      <4> QED
        BY <4>1, <4>2
    <3> QED
      BY <2>1, <2>2, <3>1, <3>5 DEF Whole
  <2>5. CASE UpsertUpdate(y)
    <3>1. CASE usdt[y] = None
      <4>1. UNCHANGED usdt /\ \A x \in User : Deposited(x)' = Deposited(x)
        BY <1>1, <2>5, <3>1 DEF UpsertUpdate, Deposited
      <4> QED
        BY <2>3, <4>1
    <3>2. CASE usdt[y] # None
      <4>1. deposit[y] = "pending" /\ deposit' = [deposit EXCEPT ![y] = "credit"]
            /\ usdt' = [usdt EXCEPT ![y] = @ + 1]
        BY <2>5, <3>2 DEF UpsertUpdate
      <4> QED
        BY <2>4, <3>2, <4>1
    <3> QED
      BY <3>1, <3>2
  <2>6. CASE UpsertInsert(y)
    <3>1. CASE usdt[y] = None
      <4>1. deposit[y] = "insert" /\ deposit' = [deposit EXCEPT ![y] = "credit"]
            /\ usdt' = [usdt EXCEPT ![y] = 1]
        BY <2>6, <3>1 DEF UpsertInsert
      <4> QED
        BY <2>4, <3>1, <4>1
    <3>2. CASE usdt[y] # None
      <4>1. UNCHANGED usdt /\ \A x \in User : Deposited(x)' = Deposited(x)
        BY <1>1, <2>6, <3>2 DEF UpsertInsert, Deposited
      <4> QED
        BY <2>3, <4>1
    <3> QED
      BY <3>1, <3>2
  <2>7. CASE CreditDeposit(y)
    <3>1. UNCHANGED usdt /\ \A x \in User : Deposited(x)' = Deposited(x)
      BY <1>1, <2>7 DEF CreditDeposit, Deposited
    <3> QED
      BY <2>3, <3>1
  <2> QED
    BY <1>6, <2>5, <2>6, <2>7 DEF SepayCallback
<1>7. CASE UNCHANGED <<wallets, fees>>
  BY <1>2, <1>7 DEF wallets, fees
<1>8. CASE AuthStops
  BY <1>7, <1>8, RebootStep
<1>9. ASSUME NEW p \in Instance, Instances(p) PROVE UNCHANGED <<usdt, coins, deposit, projected>>
  <2>1. UNCHANGED <<wallets, fees>>
    BY <1>9, BootStep
  <2> QED
    BY <2>1 DEF wallets, fees
<1>10. CASE Deliver \/ CountWallets \/ Poll \/ ChargeFee \/ TradingStops
  BY <1>2, <1>10 DEF Deliver, CountWallets, Poll, ChargeFee, TradingStops, wallets, fees
<1>11. ASSUME NEW x \in User, EnsureBalanceCached(x) PROVE Whole'
  BY <1>2, <1>11 DEF EnsureBalanceCached, fees
<1> QED
  BY <1>2, <1>3, <1>4, <1>5, <1>6, <1>7, <1>8, <1>9, <1>10, <1>11, OnboardingCases DEF Provision

-----------------------------------------------------------------------------
(* All of it together                                                      *)

OnboardingInv ==
    /\ RewardsTypes /\ OnboardingTypes /\ (OneLoop => PaidOnce)
    /\ Counting /\ Tiered /\ Announced /\ Whole

LEMMA OnboardingStarts == OnboardingInit => OnboardingInv
<1> SUFFICES ASSUME OnboardingInit PROVE OnboardingInv
  OBVIOUS
<1>1. /\ scene \in Scene /\ mode = scene.mode /\ sent = 0 /\ next = 1
      /\ given = [g \in {Detector} |-> {}] /\ calls = [g \in {Detector} |-> 0]
      /\ task = [w \in Worker |-> NoJob] /\ volume = [u \in User |-> 0] /\ refreshing = {}
      /\ cache = [u \in User |-> [maker |-> None, taker |-> None]]
      /\ commission = [o \in Orders |-> None] /\ credits = <<>>
  BY DEF OnboardingInit, RewardsInit
<1>2. \A w \in Worker : task[w].pc = "idle"
  BY <1>1 DEF NoJob
<1>3. RewardsTypes
  <2>1. Len(scene.trades) \in Nat
    <3>1. scene.trades \in Seq(TradeEvent)
      BY <1>1, RewardsAssumption
    <3> QED
      BY ONLY <3>1
  <2>2. task \in [Worker -> Task]
    BY <1>1 DEF NoJob, Task, Labels
  <2>3. credits \in Seq(Credit)
    BY <1>1
  <2>4. None \in Int
    BY DEF None
  <2>5. volume \in [User -> Nat] /\ refreshing \subseteq Refreshing
        /\ commission \in [Orders -> Nat \cup {None}]
    BY <1>1
  <2>6. cache \in [User -> [maker : Int, taker : Int]]
    BY <1>1, <2>4
  <2>7. given \in [{Detector} -> SUBSET (1..sent)] /\ calls \in [{Detector} -> Nat]
    BY <1>1
  <2>8. sent \in Nat /\ sent <= Len(scene.trades) /\ next \in Nat /\ 1 <= next /\ next <= sent + 1
    BY <1>1, <2>1
  <2> QED
    BY <1>1, <1>2, <2>2, <2>3, <2>5, <2>6, <2>7, <2>8 DEF RewardsTypes
<1>4. scene.workers \subseteq Worker
  BY <1>3, SceneTypes
<1>5. OnboardingTypes
  <2>1. /\ boot = [p \in Instance |-> [pc |-> "start", todo |-> <<>>]] /\ registered = <<>>
        /\ prov = [pc |-> "idle", at |-> 0, next |-> 1]
        /\ usdt = [u \in User |-> None] /\ coins = {}
        /\ deposit = [u \in User |-> IF u \in scene.depositing THEN "pending" ELSE "none"]
        /\ projected = 0
    BY DEF OnboardingInit
  <2>2. <<>> \in Seq(User)
    OBVIOUS
  <2>3. boot \in [Instance -> Place] /\ registered \in Seq(User)
    BY <2>1, <2>2 DEF Place
  <2>4. prov \in Loop /\ prov.pc = "idle" /\ prov.next >= 1
    BY <2>1 DEF Loop
  <2>5. \A p \in Instance : boot[p].pc = "start"
    BY <2>1
  <2>6. deposit \in [User -> {"none", "pending", "insert", "credit", "done"}]
    BY <2>1
  <2>7. usdt \in [User -> Nat \cup {None}] /\ coins \subseteq User /\ projected \in Nat
    BY <2>1
  <2> QED
    BY <2>3, <2>4, <2>5, <2>6, <2>7 DEF OnboardingTypes
<1>6. PaidOnce
  <2>1. \A i \in DOMAIN credits : FALSE
    BY <1>1
  <2> QED
    BY <1>2, <1>4, <2>1 DEF PaidOnce
<1>7. Counting
  <2>1. Adding = {} /\ Pending = {}
    BY <1>2, <1>4 DEF Adding, Pending, Before
  <2>2. Given = {}
    BY <1>1 DEF Given
  <2>3. 1..(next - 1) = {}
    BY <1>1
  <2>4. \A x \in User : volume[x] = 0 /\ TotalOf(x, {}) = 0
    <3>1. ASSUME NEW x \in User PROVE {k \in {} : scene.trades[k].taker = x} = {}
      OBVIOUS
    <3> QED
      BY <1>1, <3>1, SumEmpty DEF TotalOf
  <2>5. Given \ Pending = {} /\ (1..(next - 1)) \ Pending = {}
    BY <2>1, <2>2, <2>3
  <2>6. \A x \in User : volume[x] <= TotalOf(x, Given \ Pending)
                        /\ volume[x] >= TotalOf(x, (1..(next - 1)) \ Pending)
    BY <2>4, <2>5
  <2> QED
    BY <2>1, <2>6 DEF Counting
<1>8. Tiered
  <2>1. TierOf(0) \in Nat
    BY TierNat
  <2>2. \A x \in User : cache[x].maker = -1 /\ cache[x].taker = -1 /\ volume[x] = 0
    BY <1>1 DEF None
  <2> QED
    BY <1>1, <2>1, <2>2 DEF Tiered
<1>9. Announced
  <2>1. \A p \in Instance : boot[p].pc = "start"
    BY DEF OnboardingInit
  <2>2. \A p \in Instance : ~Announcer(p)
    BY <2>1 DEF Announcer
  <2>3. \A j \in DOMAIN registered : FALSE
    BY DEF OnboardingInit
  <2> QED
    BY <2>2, <2>3 DEF Announced
<1>10. Whole
  <2>1. \A x \in User : usdt[x] = None /\ x \notin coins /\ deposit[x] \in {"none", "pending"}
    BY DEF OnboardingInit
  <2>2. projected = 0
    BY DEF OnboardingInit
  <2> QED
    BY <2>1, <2>2 DEF Whole, Deposited, ProjectedFor
<1> QED
  BY <1>3, <1>5, <1>6, <1>7, <1>8, <1>9, <1>10 DEF OnboardingInv

LEMMA OnboardingKept == OnboardingInv /\ [OnboardingNext]_all => OnboardingInv'
<1> SUFFICES ASSUME OnboardingInv, [OnboardingNext]_all PROVE OnboardingInv'
  OBVIOUS
<1>1. RewardsTypes /\ OnboardingTypes /\ (OneLoop => PaidOnce) /\ Counting /\ Tiered /\ Announced /\ Whole
  BY DEF OnboardingInv
<1>2. scene' = scene
  BY <1>1, SceneStays
<1>3. OneLoop' = OneLoop
  BY <1>2 DEF OneLoop
<1>4. RewardsTypes' /\ OnboardingTypes'
  BY <1>1, RewardsTyped, OnboardingTyped
<1>5. (OneLoop => PaidOnce)'
  BY <1>1, <1>3, PaidKept
<1>6. Counting' /\ Tiered'
  BY <1>1, CountingKept, TieredKept
<1>7. Announced' /\ Whole'
  BY <1>1, <1>2, AnnouncedKept, WholeKept
<1> QED
  BY <1>4, <1>5, <1>6, <1>7 DEF OnboardingInv

LEMMA OnboardingHolds == OnboardingSpec => []OnboardingInv
<1> QED
  BY OnboardingStarts, OnboardingKept, PTL DEF OnboardingSpec

(* With one instance of auth-service a referrer is paid at most once for   *)
(* an order, however often OnTradeFee is given the trade or is cut short:  *)
(* the row of the commission is made before the payment and never twice.   *)
THEOREM CommissionPaidOnce == OnboardingSpec => []CommissionOnce
<1>1. OnboardingInv => CommissionOnce
  BY DEF OnboardingInv, PaidOnce, CommissionOnce
<1> QED
  BY <1>1, OnboardingHolds, PTL

(* A taker's volume neither holds a trade twice over Redis nor, over Kafka *)
(* while AddVolume's statement succeeds, lacks one that OnTradeExecuted    *)
(* has handled; refreshUserCache never leaves a tier ahead of the volume.  *)
THEOREM VolumesCount == OnboardingSpec => []VolumeCounted
<1>1. OnboardingInv => VolumeCounted
  <2> SUFFICES ASSUME OnboardingInv PROVE VolumeCounted
    OBVIOUS
  <2>1. RewardsTypes /\ Counting /\ Tiered
    BY DEF OnboardingInv
  <2>2. ASSUME mode = "once", NEW x \in User PROVE volume[x] <= TotalOf(x, Given)
    <3>1. Given \in SUBSET (DOMAIN scene.trades)
      <4>1. Given \in SUBSET (1..sent) /\ sent \in Nat /\ sent <= Len(scene.trades)
        BY <2>1 DEF RewardsTypes, Given
      <4>2. Len(scene.trades) \in Nat /\ DOMAIN scene.trades = 1..Len(scene.trades)
        BY <2>1, SceneTypes
      <4>3. 1..sent \subseteq 1..Len(scene.trades)
        BY ONLY <4>1, <4>2
      <4> QED
        BY <4>1, <4>2, <4>3
    <3>2. Given \ Pending \in SUBSET Given /\ Given \ Pending \in SUBSET (DOMAIN scene.trades)
      BY <3>1
    <3>3. TotalOf(x, Given \ Pending) <= TotalOf(x, Given)
          /\ TotalOf(x, Given \ Pending) \in Nat /\ TotalOf(x, Given) \in Nat
      BY <2>1, <3>1, <3>2, TotalGrows, TotalNat
    <3>4. volume[x] <= TotalOf(x, Given \ Pending) /\ volume[x] \in Nat
      BY <2>1, <2>2 DEF Counting, RewardsTypes
    <3> QED
      BY ONLY <3>3, <3>4
  <2>3. ASSUME mode = "gapless", Waiting, "error" \notin scene.faults, NEW x \in User
        PROVE  volume[x] >= TotalOf(x, 1..(next - 1))
    <3>1. Pending = {}
      BY <2>3 DEF Waiting, Stands, Adding, Pending, Before
    <3>2. (1..(next - 1)) \ Pending = 1..(next - 1)
      BY <3>1
    <3>3. volume[x] >= TotalOf(x, (1..(next - 1)) \ Pending)
      BY <2>1, <2>3 DEF Counting
    <3> QED
      BY <3>2, <3>3
  <2> QED
    BY <2>1, <2>2, <2>3 DEF VolumeCounted, Tiered
<1> QED
  BY <1>1, OnboardingHolds, PTL

(* A user is announced by the instance that made the row, once: starts and *)
(* registrations that overtake one another, and stops, included.           *)
THEOREM AnnouncedByCreator == OnboardingSpec => []UsersAnnouncedOnce
<1>1. OnboardingInv => UsersAnnouncedOnce
  BY DEF OnboardingInv, Announced, UsersAnnouncedOnce
<1> QED
  BY <1>1, OnboardingHolds, PTL

(* A row of wallets holds the gift, if CreateInBatches made it, the deposit*)
(* and the projected fees, and there is no other wallet without that row.  *)
THEOREM WalletsAreWhole == OnboardingSpec => []WalletsWhole
<1>1. OnboardingInv => WalletsWhole
  BY DEF OnboardingInv, Whole, WalletsWhole
<1> QED
  BY <1>1, OnboardingHolds, PTL
=============================================================================
