-------------------------------- MODULE Kyc --------------------------------
(***************************************************************************)
(* auth-service: identity verification of one user, and the gate that the  *)
(* trading services put before their handlers (shared/middleware).         *)
(*                                                                         *)
(* The users row has the step (0 none, 1 email verified, 2 profile, 3 all  *)
(* documents, 4 approved); the Redis keys kyc:<id> and user_locked:<id>,   *)
(* which the gate reads, are written beside it.  Every statement on the    *)
(* row, the documents or Redis is a step.                                  *)
(***************************************************************************)
EXTENDS Integers, FiniteSets

CONSTANTS
    Proc,       \* goroutines serving requests
    DocType,    \* CCCD_FRONT, CCCD_BACK, SELFIE
    Situation,  \* what clients do, what fails, goroutines, the row at first
    MaxOps,     \* bound: requests in a behaviour
    Absent      \* a Redis key that does not exist

Row == [step : 0..4, status : {"NONE", "PENDING", "VERIFIED", "REJECTED"},
        email : BOOLEAN, locked : BOOLEAN]

ASSUME KycAssumption ==
    /\ Absent \notin 0..4 /\ DocType # {} /\ MaxOps \in Nat
    /\ \A s \in Situation : s.row \in Row /\ IsFiniteSet(s.procs) /\ s.procs \subseteq Proc

VARIABLES
    row,        \* the users row: step, status, email, locked
    profile,    \* a kyc_profiles row exists
    doc,        \* [DocType -> status of the kyc_documents row, "none"]
    code,       \* Redis email_verify:<id> exists
    kycKey,     \* Redis kyc:<id>
    lockKey,    \* Redis user_locked:<id>
    job,        \* [Proc -> what the goroutine is doing]
    here,       \* the member of Situation this behaviour is in
    approvals,  \* history: approvals written to the row
    begun       \* requests so far (counter for MaxOps)

tables == <<row, profile, doc>>
redis  == <<code, kycKey, lockKey>>
vars   == <<tables, redis, job, here, approvals, begun>>

NewUser == [step |-> 0, status |-> "NONE", email |-> FALSE, locked |-> FALSE]
Idle == [pc |-> "idle", op |-> "none", type |-> CHOOSE t \in DocType : TRUE,
         row |-> NewUser, found |-> FALSE]

Start(p, op, r) ==
    /\ job[p].pc = "idle" /\ p \in here.procs /\ op \in here.ops /\ begun < MaxOps
    /\ begun' = begun + 1
    /\ job' = [job EXCEPT ![p] = [r EXCEPT !.op = op]]
    /\ UNCHANGED <<tables, redis, here, approvals>>
At(p, label) == job[p].pc = label
Goto(p, label) == job' = [job EXCEPT ![p].pc = label]
Done(p) == job' = [job EXCEPT ![p] = Idle]
Step(label) == [Idle EXCEPT !.pc = label]

(* UpdateFields: the columns of one row in one statement. *)
Columns(step, status) == row' = [row EXCEPT !.step = step, !.status = status]

-----------------------------------------------------------------------------
(* Email and profile *)

SendVerifyEmail(p) == Start(p, "send", Step("setCode"))
SetCode(p) ==
    /\ At(p, "setCode") /\ code' = TRUE /\ Done(p)
    /\ UNCHANGED <<tables, kycKey, lockKey, here, approvals, begun>>
CodeExpires ==
    /\ code /\ "expire" \in here.faults /\ code' = FALSE
    /\ UNCHANGED <<tables, kycKey, lockKey, job, here, approvals, begun>>

(* GET, compare (the code is right), DEL; then the row, then the cache. *)
VerifyEmail(p) == code /\ Start(p, "verify", Step("delCode"))
DelCode(p) ==
    /\ At(p, "delCode") /\ code' = FALSE /\ Goto(p, "columns")
    /\ UNCHANGED <<tables, kycKey, lockKey, here, approvals, begun>>

(* The row that was found is saved; a second one of a user is refused by   *)
(* the unique index.                                                       *)
SubmitProfile(p) ==
    row.email /\ Start(p, "profile", [Step("upsert") EXCEPT !.found = profile])
UpsertProfile(p) ==
    /\ At(p, "upsert") /\ profile' = TRUE
    /\ IF profile /\ ~job[p].found THEN Done(p) ELSE Goto(p, "columns")
    /\ UNCHANGED <<row, doc, redis, here, approvals, begun>>

-----------------------------------------------------------------------------
(* Documents *)

(* FindDocumentByUserAndType: a row that was found is set PENDING, and     *)
(* creating it again with its id then fails on the primary key.            *)
UploadDocument(p, t) ==
    row.step >= 2 /\ Start(p, "upload", [Step("document") EXCEPT !.type = t,
                                                                 !.found = doc[t] # "none"])
SaveDocument(p) ==
    /\ At(p, "document")
    /\ doc' = [doc EXCEPT ![job[p].type] = "PENDING"]
    /\ IF job[p].found THEN Done(p) ELSE Goto(p, "all")
    /\ UNCHANGED <<row, profile, redis, here, approvals, begun>>

(* Any row of a type counts, whatever its status. *)
AllUploaded == \A t \in DocType : doc[t] # "none"
CountDocuments(p) ==
    /\ At(p, "all")
    /\ IF AllUploaded THEN Goto(p, "columns") ELSE Done(p)
    /\ UNCHANGED <<tables, redis, here, approvals, begun>>

-----------------------------------------------------------------------------
(* Decisions of administrators, on any user *)

ApproveKYC(p) == Start(p, "approve", Step("documents"))
RejectKYC(p) == Start(p, "reject", Step("documents"))
UpdateAllDocumentsStatus(p) ==
    /\ At(p, "documents")
    /\ doc' = [t \in DocType |-> IF doc[t] = "none" THEN "none"
                                 ELSE IF job[p].op = "approve" THEN "APPROVED" ELSE "REJECTED"]
    /\ Goto(p, "columns")
    /\ UNCHANGED <<row, profile, redis, here, approvals, begun>>

(* UpdateKYC of the user list: the status alone. *)
UpdateKYC(p) == Start(p, "status", Step("columns"))

-----------------------------------------------------------------------------
(* The writes all of these end in *)

(* What the requests of users and an approval cache; a rejection and the   *)
(* status of the user list do not.                                         *)
Cached == {"verify", "profile", "upload", "approve"}

(* mutant: a request that completes the documents is taken for an approval *)
StepOnUpload == [verify |-> 1, profile |-> 2, upload |-> 4, approve |-> 4]
StepOf == [verify |-> 1, profile |-> 2, upload |-> 3, approve |-> 4]

UpdateRow(p) ==
    /\ At(p, "columns")
    /\ \/ job[p].op = "verify" /\ row' = [row EXCEPT !.step = 1, !.email = TRUE]
       \/ job[p].op = "profile" /\ Columns(2, row.status)
       \/ job[p].op = "upload" /\ Columns(3, "PENDING")
       \/ job[p].op = "approve" /\ Columns(4, "VERIFIED")
       \/ job[p].op = "reject" /\ Columns(2, "REJECTED")
       \/ job[p].op = "status" /\ \E s \in {"NONE", "VERIFIED"} : Columns(row.step, s)
    /\ approvals' = IF job[p].op = "approve" THEN approvals + 1 ELSE approvals
    /\ IF job[p].op \in Cached THEN Goto(p, "cache") ELSE Done(p)
    /\ UNCHANGED <<profile, doc, redis, here, begun>>

SetKycKey(p) ==
    /\ At(p, "cache") /\ kycKey' = StepOf[job[p].op] /\ Done(p)
    /\ UNCHANGED <<tables, code, lockKey, here, approvals, begun>>

(* Login (by password, by Google) of a user that is not locked: both keys  *)
(* from the row as it was read when the request began.                     *)
Login(p) ==
    ~row.locked /\ Start(p, "login", [Step("cacheStep") EXCEPT !.row = row])
CacheLogin(p) ==
    /\ \/ At(p, "cacheStep") /\ kycKey' = job[p].row.step /\ Goto(p, "cacheLock") /\ UNCHANGED lockKey
       \/ At(p, "cacheLock") /\ lockKey' = job[p].row.locked /\ Done(p) /\ UNCHANGED kycKey
    /\ UNCHANGED <<tables, code, here, approvals, begun>>

(* LockAccount, UnlockAccount: FindByID, then Save of the whole row. *)
SetLocked(p, locked) ==
    Start(p, IF locked THEN "lock" ELSE "unlock",
          [Step("save") EXCEPT !.row = [row EXCEPT !.locked = locked]])
SaveUser(p) ==
    /\ At(p, "save") /\ row' = job[p].row /\ Done(p)
    /\ UNCHANGED <<profile, doc, redis, here, approvals, begun>>

-----------------------------------------------------------------------------
(* A statement fails, or the service stops before it: what came before it  *)
(* stays.                                                                  *)
Stops(p) ==
    /\ "stop" \in here.faults /\ job[p].pc # "idle" /\ Done(p)
    /\ UNCHANGED <<tables, redis, here, approvals, begun>>

(* KYCGate *)
GateOpen == /\ lockKey # TRUE
            /\ kycKey # Absent /\ kycKey >= 4

Init ==
    /\ here \in Situation
    /\ row = here.row /\ profile = (row.step >= 2)
    /\ doc = [t \in DocType |-> "none"]
    /\ code = FALSE /\ kycKey = Absent /\ lockKey = FALSE
    /\ job = [p \in Proc |-> Idle] /\ begun = 0
    /\ approvals = IF row.step = 4 THEN 1 ELSE 0

Request(p) ==
    \/ SendVerifyEmail(p) \/ VerifyEmail(p) \/ SubmitProfile(p) \/ Login(p)
    \/ \E t \in DocType : UploadDocument(p, t)
Decide(p) ==
    \/ ApproveKYC(p) \/ RejectKYC(p) \/ UpdateKYC(p)
    \/ \E locked \in BOOLEAN : SetLocked(p, locked)
Serve(p) ==
    \/ SetCode(p) \/ DelCode(p) \/ UpsertProfile(p) \/ SaveDocument(p) \/ CountDocuments(p)
    \/ UpdateAllDocumentsStatus(p) \/ UpdateRow(p) \/ SetKycKey(p)
    \/ CacheLogin(p) \/ SaveUser(p) \/ Stops(p)
Next == CodeExpires \/ \E p \in Proc : Request(p) \/ Decide(p) \/ Serve(p)
Spec == Init /\ [][Next]_vars
=============================================================================
