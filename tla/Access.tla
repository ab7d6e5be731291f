------------------------------- MODULE Access -------------------------------
(***************************************************************************)
(* A request of a client on its way through the gateway to a service: the  *)
(* rate limiter, the API key or token, the gates before the handler, and   *)
(* the platform settings that handlers read.  It is composed with Kyc: the *)
(* user's row is what auth-service looks up, the keys kyc:<id> and         *)
(* user_locked:<id> are what the gates read.                               *)
(*                                                                         *)
(* Every query, gRPC call and Redis command is a step.  A request carries a *)
(* key and a right signature from an allowed address, or an access token.  *)
(***************************************************************************)
EXTENDS Kyc

CONSTANTS
    Caller,     \* goroutines of gateway and services, one per request
    ApiKey,     \* rows of api_keys
    MaxReq,     \* requests the limiter allows one address
    Window,     \* in this time
    Skew,       \* how far a signed timestamp may be off
    Life,       \* life of an access token
    MaxCalls,   \* bound: requests in a behaviour; here.end bounds the clock
    Draw,       \* what math.random may return: always the same, or not
    Value,      \* platform settings an administrator saves
    Default     \* DefaultPlatformSettings()

ASSUME AccessAssumption ==
    /\ MaxReq \in Nat \ {0} /\ Window \in Nat \ {0} /\ Skew \in Nat /\ Life \in Nat
    /\ Draw # {} /\ ApiKey # {}
    /\ \A s \in Situation : /\ s.by \subseteq {"key", "token"} /\ s.end \in Nat
                           /\ IsFiniteSet(s.callers) /\ s.callers \subseteq Caller

VARIABLES
    clock,
    key,        \* [ApiKey -> [state, perms, until, asked]]; until 0: never expires
    limiter,    \* Redis rl:global:<address>, a sorted set
    settings,   \* the platform_settings row
    cached,     \* Redis platform_settings
    call,       \* [Caller -> what the request is about and how far it got]
    admitted    \* history: [time -> requests the limiter let through]

access == <<clock, key, limiter, settings, cached, call, admitted>>
Auth == vars   \* what belongs to Kyc
Kept == <<tables, redis, job, here, approvals>>

Nobody == [pc |-> "idle", by |-> "token", key |-> CHOOSE k \in ApiKey : TRUE, route |-> "read",
           now |-> 0, until |-> 0, perms |-> {}, value |-> Default, fresh |-> TRUE]
In(c, label) == call[c].pc = label
Answer(c) == call' = [call EXCEPT ![c] = Nobody]
Pass(c, label) == call' = [call EXCEPT ![c].pc = label]
PassIf(c, test, label) == IF test THEN Pass(c, label) ELSE Answer(c)

(* The routes, and what their services do first once a token was accepted. *)
First == [read |-> "handler", trade |-> "gate", withdraw |-> "permission",
          get |-> "get", put |-> "put"]

-----------------------------------------------------------------------------
(* API keys of the user *)

(* normalizePermissions: what is not known is left out, and a key that     *)
(* would have none may read.                                               *)
Known(asked) == asked \cap {"read", "trade", "withdraw"}
NormalizedBare(asked) == Known(asked)   \* mutant: it may have none
Normalized(asked) == IF Known(asked) = {} THEN {"read"} ELSE Known(asked)

CreateKey(k, asked, until) ==
    /\ "keys" \in here.calls /\ key[k].state = "none"
    /\ key' = [key EXCEPT ![k] = [state |-> "live", perms |-> Normalized(asked),
                                  until |-> until, asked |-> asked]]
    /\ UNCHANGED <<Auth, clock, limiter, settings, cached, call, admitted>>
Revoke(k) ==
    /\ "keys" \in here.calls /\ key[k].state = "live"
    /\ key' = [key EXCEPT ![k].state = "revoked"]
    /\ UNCHANGED <<Auth, clock, limiter, settings, cached, call, admitted>>

Expired(k) == k.until # 0 /\ clock > k.until

-----------------------------------------------------------------------------
(* The gateway *)

(* A request arrives, signed just now with a key, or with a token that is  *)
(* valid for a while; Allow reads the time.                                *)
Arrival(by, route, k, left, v) ==
    [Nobody EXCEPT !.pc = "allow", !.by = by, !.key = k, !.route = route,
                   !.now = clock, !.until = clock + left, !.value = v,
                   !.fresh = by = "token" \/ (key[k].state = "live" /\ ~Expired(key[k])
                                              /\ ~row.locked)]
Ask(c, by, route) ==
    /\ In(c, "idle") /\ c \in here.callers /\ by \in here.by /\ route \in here.calls
    /\ begun < MaxCalls /\ begun' = begun + 1
    /\ \E k \in ApiKey, left \in {0, Life}, v \in Value :
          /\ IF by = "key" THEN key[k].state # "none" /\ left = 0 ELSE k = Nobody.key
          /\ route # "put" => v = CHOOSE w \in Value : TRUE
          /\ call' = [call EXCEPT ![c] = Arrival(by, route, k, left, v)]
    /\ UNCHANGED <<Kept, clock, key, limiter, settings, cached, admitted>>

(* The script of the limiter.  Two members of one millisecond are one when *)
(* their random parts agree.  The expiry of the whole set adds nothing.    *)
RecentTooShort(now) == {e \in limiter : e.at > now - Window + 1}   \* mutant
Recent(now) == {e \in limiter : e.at > now - Window}
Allow(c) ==
    /\ In(c, "allow")
    /\ LET now == call[c].now
       IN \/ /\ Cardinality(Recent(now)) < MaxReq
             /\ \E r \in Draw : limiter' = Recent(now) \cup {[at |-> now, random |-> r]}
             /\ admitted' = [admitted EXCEPT ![now] = @ + 1]
             /\ Pass(c, IF call[c].by = "key" THEN "find" ELSE "token")
          \/ /\ Cardinality(Recent(now)) >= MaxReq
             /\ limiter' = Recent(now) /\ Answer(c) /\ UNCHANGED admitted
          \/ /\ "redis" \in here.faults /\ Answer(c) /\ UNCHANGED <<limiter, admitted>>
    /\ UNCHANGED <<Auth, clock, key, settings, cached>>

-----------------------------------------------------------------------------
(* auth-service: ValidateAPIKey and ValidateToken *)

FindByKeyID(c) ==
    /\ In(c, "find")
    /\ LET k == key[call[c].key]
       IN IF k.state = "live" THEN call' = [call EXCEPT ![c].pc = "check", ![c].perms = k.perms]
                              ELSE Answer(c)
    /\ UNCHANGED <<Auth, clock, key, limiter, settings, cached, admitted>>

(* The expiry of the row and the window around the timestamp; last_used_at *)
(* is updated, which nothing reads.                                        *)
Authenticate(c) ==
    /\ In(c, "check")
    /\ PassIf(c, ~Expired(key[call[c].key]) /\ clock - call[c].now <= Skew, "user")
    /\ UNCHANGED <<Auth, clock, key, limiter, settings, cached, admitted>>

(* A token, and what its reader asks of it: its time has not passed. *)
Minted == clock + Life
Unexpired(c) == clock <= call[c].until

(* The user of the key; the gateway makes a token for the services.        *)
ValidateAPIKey(c) ==
    /\ In(c, "user")
    /\ IF row.locked THEN Answer(c)
       ELSE call' = [call EXCEPT ![c].pc = "service", ![c].until = Minted]
    /\ UNCHANGED <<Auth, clock, key, limiter, settings, cached, admitted>>

ValidateToken(c) ==
    /\ In(c, "token") /\ PassIf(c, Unexpired(c), "service")
    /\ UNCHANGED <<Auth, clock, key, limiter, settings, cached, admitted>>

-----------------------------------------------------------------------------
(* The services' middleware and handlers *)

JWTAuth(c) ==
    /\ In(c, "service") /\ PassIf(c, Unexpired(c), First[call[c].route])
    /\ UNCHANGED <<Auth, clock, key, limiter, settings, cached, admitted>>

(* KYCGate, a GET of each key. *)
KYCGate(c) ==
    /\ \/ In(c, "gate") /\ PassIf(c, lockKey # TRUE, "step")
       \/ In(c, "step") /\ PassIf(c, kycKey # Absent /\ kycKey >= 4, "permission")
    /\ UNCHANGED <<Auth, clock, key, limiter, settings, cached, admitted>>

(* No permissions in the header: the request came with a token. *)
RequireAPIPermission(c) ==
    /\ In(c, "permission")
    /\ PassIf(c, call[c].perms = {} \/ call[c].route \in call[c].perms, "handler")
    /\ UNCHANGED <<Auth, clock, key, limiter, settings, cached, admitted>>

(* What wallet-service takes the limits of deposits and withdrawals from. *)
PlatformSettings == IF cached = Absent THEN Default ELSE cached
Handle(c) ==
    /\ In(c, "handler") /\ Answer(c)
    /\ UNCHANGED <<Auth, clock, key, limiter, settings, cached, admitted>>

-----------------------------------------------------------------------------
(* Platform settings: the row, and Redis in front of it *)

GetSettings(c) ==
    /\ In(c, "get") /\ PassIf(c, cached = Absent, "read")
    /\ UNCHANGED <<Auth, clock, key, limiter, settings, cached, admitted>>
GetFromDB(c) ==
    /\ In(c, "read")
    /\ call' = [call EXCEPT ![c].pc = "fill", ![c].value = settings]
    /\ UNCHANGED <<Auth, clock, key, limiter, settings, cached, admitted>>

(* mutant: the cache is written before the row *)
CacheFirst(c) ==
    /\ In(c, "put") /\ cached' = call[c].value
    /\ \/ settings' = call[c].value /\ Pass(c, "get")
       \/ "db" \in here.faults /\ Answer(c) /\ UNCHANGED settings
    /\ UNCHANGED <<Auth, clock, key, limiter, admitted>>
UpdateSettings(c) ==
    /\ In(c, "put")
    /\ \/ settings' = call[c].value /\ Pass(c, "refresh")
       \/ "db" \in here.faults /\ Answer(c) /\ UNCHANGED settings
    /\ UNCHANGED <<Auth, clock, key, limiter, cached, admitted>>

(* An error of Redis is ignored.  An update is answered with Get. *)
WriteCache(c) ==
    /\ In(c, "fill") \/ In(c, "refresh")
    /\ cached' = call[c].value \/ ("redis" \in here.faults /\ UNCHANGED cached)
    /\ PassIf(c, In(c, "refresh"), "get")
    /\ UNCHANGED <<Auth, clock, key, limiter, settings, admitted>>
CacheExpires ==
    /\ "ttl" \in here.faults /\ cached # Absent /\ cached' = Absent
    /\ UNCHANGED <<Auth, clock, key, limiter, settings, call, admitted>>

(* auth-service starts again: what it was doing is gone, and it fills the  *)
(* cache from the row.                                                     *)
InAuthService == {"find", "check", "user", "token", "get", "read", "fill", "put", "refresh"}
WarmCache(c) ==
    /\ "restart" \in here.faults /\ c \in here.callers /\ In(c, "idle")
    /\ begun < MaxCalls /\ begun' = begun + 1
    /\ job' = [p \in Proc |-> Idle]
    /\ call' = [d \in Caller |-> IF d = c THEN [Nobody EXCEPT !.pc = "read"]
                                 ELSE IF call[d].pc \in InAuthService THEN Nobody ELSE call[d]]
    /\ UNCHANGED <<tables, redis, here, approvals, clock, key, limiter, settings, cached, admitted>>

-----------------------------------------------------------------------------
(* A script runs in the millisecond its caller read, unless it may be late. *)
Tick ==
    /\ clock < here.end /\ clock' = clock + 1
    /\ "late" \in here.faults \/ \A c \in Caller : ~In(c, "allow")
    /\ UNCHANGED <<Auth, key, limiter, settings, cached, call, admitted>>

InitAccess ==
    /\ Init /\ clock = 1
    /\ key = [k \in ApiKey |-> [state |-> "none", perms |-> {}, until |-> 0, asked |-> {}]]
    /\ limiter = {} /\ admitted = [t \in 1..here.end |-> 0]
    /\ settings = Default /\ cached = Default
    /\ call = [c \in Caller |-> Nobody]

ManageKeys ==
    \E k \in ApiKey : \/ Revoke(k)
                      \/ \E asked \in SUBSET {"trade", "withdraw", "other"}, until \in {0, clock + 1} :
                            CreateKey(k, asked, until)
Gateway(c) == (\E by \in here.by, route \in here.calls \cap DOMAIN First : Ask(c, by, route)) \/ Allow(c)
AuthService(c) == FindByKeyID(c) \/ Authenticate(c) \/ ValidateAPIKey(c) \/ ValidateToken(c)
Service(c) == JWTAuth(c) \/ KYCGate(c) \/ RequireAPIPermission(c) \/ Handle(c)
SettingsService(c) == GetSettings(c) \/ GetFromDB(c) \/ UpdateSettings(c) \/ WriteCache(c) \/ WarmCache(c)
NextAccess ==
    \/ Next /\ UNCHANGED access
    \/ Tick \/ CacheExpires \/ ManageKeys
    \/ \E c \in Caller : Gateway(c) \/ AuthService(c) \/ Service(c) \/ SettingsService(c)
AccessSpec == InitAccess /\ [][NextAccess]_<<vars, access>>
=============================================================================
