--------------------------- MODULE SessionsProps ---------------------------
(***************************************************************************)
(* What auth-service promises about sessions: properties of Sessions, and  *)
(* its instance for TLC.                                                   *)
(***************************************************************************)
EXTENDS Sessions, TLC

CONSTANTS u1, ip, d1, d2
Symmetry == Permutations(Proc)
FewTries == (u1 :> 2) @@ (ip :> 3)

Doing(ops, faults, devices, tokens) ==
    [ops |-> ops, faults |-> faults, devices |-> devices, tokens |-> tokens]
SessionSituations ==
    {Doing({"login", "guess", "expire", "adminUnlock"}, {"crash"}, {d1}, 1),
     Doing({"login", "code"}, {}, {d1, d2}, 3),
     Doing({"register", "google", "totp", "login", "2fa"}, {"db"}, {d1}, 3),
     Doing({"google", "refresh", "lock", "logout"}, {"reply"}, {d1}, 4),
     Doing({"google", "refresh", "expire"}, {"crash", "db", "reply"}, {d1}, 3),
     Doing({"google", "refresh", "set", "change", "logoutAll"}, {}, {d1}, 3),
     Doing({"google", "set", "2fa", "profile", "lock", "unlock"}, {}, {d1}, 2)}

-----------------------------------------------------------------------------
(* The lockout is checked before a password is compared and written after: *)
(* between two clearings of its counter an account, or an address, gets no *)
(* more guesses than its limit and what was in flight when it was reached, *)
(* whatever successes, administrators and restarts come between.           *)
GuessesBounded ==
    \A k \in Key : wrong[k] <= Tries[k] - 1 + Cardinality(Proc) * (restarts + 1)

(* The old token stops working before its successor exists, so neither a   *)
(* restart nor a failing write leaves two tokens of one rotation alive.    *)
(* Spending is not atomic: a refresh token, and a step-up challenge, opens *)
(* at most one session for each request that overlapped.                   *)
RotatedIsDead ==
    /\ \A s \in TokenId : token[s].parent # 0 => ~Live(token[s].parent)
    /\ \A t \in TokenId : Cardinality(Successors(t)) <= Cardinality(Proc)
    /\ \A c \in DOMAIN challenge :
          Cardinality({t \in TokenId : token[t].via = c}) <= Cardinality(Proc)

(* A refresh that began before an account was locked ends with it: while   *)
(* the account stays locked, a live successor created since then belongs   *)
(* to a request that has still to look at the account.                     *)
LockEndsSessions ==
    here.ops \cap {"unlock", "profile"} = {} /\ restarts = 0 =>
       \A t \in TokenId :
          (Live(t) /\ token[t].parent # 0 /\ token[t].lockedAt) =>
             \E p \in Proc : job[p].pc \in {"owner", "endAll"} /\ job[p].user = token[t].user

-----------------------------------------------------------------------------
(* Refuted: see the README *)

NoRequest == \A p \in Proc : At(p, "idle")

(* "revokes all active refresh-token families (force re-login on every     *)
(* device)": after a password change no session of the old one is alive.   *)
PasswordEndsSessions ==
    NoRequest => \A t \in TokenId :
        Live(t) /\ acct[token[t].user].pass > 1 => token[t].pass = acct[token[t].user].pass

(* "On replay ..., revokes the entire family": a family with a used token *)
(* that was revoked has no live token once nothing is in flight.           *)
ReplayEndsFamily ==
    NoRequest => \A s, t \in TokenId :
        token[s].family = token[t].family /\ token[s].used /\ token[s].revoked => ~Live(t)

(* "One-shot: delete on success". *)
OneShot == \A c \in DOMAIN challenge : Cardinality({t \in TokenId : token[t].via = c}) <= 1

(* "never use Save() ...": saving a name or a lock changes nothing else.   *)
SaveKeepsColumns ==
    [][\A p \in Proc : At(p, "save") /\ job'[p].pc # "save" =>
          \A u \in User : /\ acct'[u].pass = acct[u].pass
                          /\ acct'[u].is2fa = acct[u].is2fa]_vars
=============================================================================
