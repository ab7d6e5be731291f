---------------------------- MODULE AccessProps ----------------------------
(***************************************************************************)
(* What the gateway, auth-service and the middleware promise about the     *)
(* requests of clients, and auth-service about identity verification:      *)
(* properties of Access and of Kyc, and their instance for TLC.            *)
(***************************************************************************)
EXTENDS Access, TLC

LOCAL INSTANCE Functions

CONSTANTS c1, c2, p1, p2, front, back, selfie
Symmetry == Permutations(DocType)

Profiled == [NewUser EXCEPT !.step = 2, !.email = TRUE]
Approved == [Profiled EXCEPT !.step = 4, !.status = "VERIFIED"]
Doing(ops, faults, procs, r) == [ops |-> ops, faults |-> faults, procs |-> procs, row |-> r]
KycSituations ==
    {Doing({"send", "verify", "profile", "login"}, {"expire", "stop"}, {p1, p2}, NewUser),
     Doing({"send", "verify", "profile", "upload", "approve", "login", "lock", "unlock"}, {},
           {p1}, NewUser),
     Doing({"upload", "approve"}, {}, {p1, p2}, Profiled),
     Doing({"upload", "approve", "reject", "login", "status"}, {"stop"}, {p1, p2}, Profiled),
     Doing({"login", "lock", "unlock", "send", "verify", "profile", "reject"}, {}, {p1, p2},
           Approved)}

Using(by, calls, callers, end) == [by |-> by, calls |-> calls, callers |-> callers, end |-> end]
Situations ==
    {s @@ Using({}, {}, {}, 1) : s \in KycSituations} \cup
    {Doing({}, {"redis"}, {}, Approved) @@ Using({"token"}, {"read"}, {c1, c2}, 5),
     Doing({"login", "lock"}, {}, {p1}, Approved)
        @@ Using({"key"}, {"keys", "trade", "withdraw"}, {c1}, 3),
     Doing({}, {"db", "ttl", "restart"}, {}, Approved)
        @@ Using({"token"}, {"get", "put", "withdraw"}, {c1}, 1)}

-----------------------------------------------------------------------------
(* Identity verification *)

(* The gate opens only for a user whom an administrator has approved at    *)
(* some time, whatever requests overlap and wherever one stops.            *)
GateNeedsApproval == GateOpen => approvals > 0

NoRequest == \A p \in Proc : At(p, "idle")
Approving == here.ops \cap {"reject"} = {} /\ here.faults = {}

(* Requests served one after another: the step that the gate reads is the  *)
(* step of the row, once it has been cached at all.                        *)
CacheFollowsRow ==
    Approving /\ Cardinality(here.procs) = 1 /\ NoRequest => kycKey \in {Absent, row.step}

-----------------------------------------------------------------------------
(* Requests *)

(* In no window of time does an address get more requests through than the *)
(* limiter allows, those of one millisecond counted once.                  *)
Through(t) == {u \in 1..t : u > t - Window /\ admitted[u] > 0}
WindowBounded ==
    "late" \notin here.faults => \A t \in 1..here.end : Cardinality(Through(t)) <= MaxReq

Reached(c) == call[c].pc \in {"gate", "step", "permission", "handler"}

(* A request that was made when its key was revoked or expired, or the     *)
(* owner locked, reaches no service, whatever happens on its way.          *)
DeadKeysStayOut ==
    \A c \in Caller : "unlock" \notin here.ops /\ Reached(c) => call[c].fresh

(* A handler that needs a permission is reached with a key only if its     *)
(* owner asked for that permission when it was created.                    *)
GrantedOnly ==
    \A c \in Caller :
        In(c, "handler") /\ call[c].by = "key" /\ call[c].route \in {"trade", "withdraw"} =>
            call[c].route \in key[call[c].key].asked

(* A key opens what its owner asked for and no more, while it is valid. *)
KeysHold == DeadKeysStayOut /\ GrantedOnly

(* Requests one after another: what the gate and the services read from    *)
(* Redis instead of the rows is what the rows say, if it is there; a failed *)
(* update, an expiry or a restart does not part them.                      *)
CachesFollowRows ==
    /\ CacheFollowsRow
    /\ Cardinality(here.callers) = 1 /\ (\A c \in Caller : In(c, "idle")) /\ "redis" \notin here.faults
          => cached \in {Absent, settings}

-----------------------------------------------------------------------------
(* Refuted: see the README *)

(* "blocks trading for users who are locked or have not completed KYC".    *)
GateBlocks == NoRequest /\ (row.locked \/ row.step < 4) => ~GateOpen

(* "resets user to step 2 so they can re-upload": when all documents have  *)
(* been uploaded again, they are up for review.                            *)
ReuploadCounts ==
    NoRequest /\ here.faults = {} /\ (\A t \in DocType : doc[t] = "PENDING") => row.step >= 3

(* "advancing KYCStep": what users do themselves never lowers their step.  *)
StepAdvances ==
    [][\A p \in Proc : /\ At(p, "columns") /\ job'[p].pc # "columns"
                     /\ job[p].op \in {"verify", "profile", "upload"}
                     => row'.step >= row.step]_vars

(* "max requests allowed" in "window size": every request counts.          *)
RequestsBounded ==
    \A t \in 1..here.end : FoldFunctionOnSet(+, 0, admitted, Through(t)) <= MaxReq

(* "other services read it from Redis": the limits are the administrator's. *)
LimitsAreSet ==
    \A c \in Caller : In(c, "handler") /\ call[c].route = "withdraw" => PlatformSettings = settings

(* "writes update both DB and cache": also when requests overlap.          *)
CacheIsRow ==
    (\A c \in Caller : In(c, "idle")) /\ "redis" \notin here.faults => cached \in {Absent, settings}
=============================================================================
