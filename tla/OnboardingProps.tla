-------------------------- MODULE OnboardingProps ---------------------------
(***************************************************************************)
(* What new users are owed, and the instance of Onboarding and Rewards for *)
(* TLC: nobody joins in the situations of Rewards, nobody trades in these. *)
(***************************************************************************)
EXTENDS Onboarding, RewardsProps, TLC

CONSTANTS sys, i1, i2

NoNewcomers == [instances |-> {}, demo |-> FALSE, present |-> {sys}, joining |-> {},
           invited |-> {}, depositing |-> {}, active |-> {}, fees |-> 0]
NoTrades(m, fs) == [Playing(m, {}, fs, <<>>, {}, {}) EXCEPT !.limit = 2]
Joining(S) == [NoNewcomers EXCEPT !.instances = {i1}, !.joining = S, !.invited = S, !.active = S]
Booting == [NoNewcomers EXCEPT !.present = {}, !.demo = TRUE]
Scenes ==
    {s @@ NoNewcomers : s \in RewardScenes} \cup
    {NoTrades("gapless", {"stop", "answer"}) @@ [Joining({ann}) EXCEPT !.depositing = {ann}],
     NoTrades("once", {"publish"}) @@ [Joining({ann, ben}) EXCEPT !.instances = {i1, i2}],
     NoTrades("once", {"error"}) @@ [Joining({ann, ben}) EXCEPT !.depositing = {ben}],
     NoTrades("gapless", {"stop", "answer"}) @@ [Booting EXCEPT !.instances = {i1}],
     NoTrades("once", {}) @@ [Booting EXCEPT !.instances = {i1, i2}],
     NoTrades("once", {"stop"}) @@ [Booting EXCEPT !.instances = {i1}, !.fees = 2,
                                                !.active = {sys}]}

SystemUser == sys
DemoUsers == <<ann, ben>>
Gifts == (sys :> 0) @@ (ann :> 3) @@ (ben :> 2)

(* Wherever instances of auth-service overtake one another at the start or *)
(* in a registration, or stop, a user is announced once, by the one that   *)
(* created the row; Kafka's repeated writes excepted.                      *)
UsersAnnouncedOnce ==
    /\ \A j \in DOMAIN registered : registered[j] \in rows
    /\ "answer" \notin scene.faults =>
          \A j, k \in DOMAIN registered : j # k => registered[j] # registered[k]

(* A user's wallets come to be all together and with one gift, however     *)
(* often the event is given, whatever fails, and with a deposit at any     *)
(* time; the row holds that gift, the deposit and the projected fees.      *)
Deposited(x) == IF deposit[x] \in {"credit", "done"} THEN 1 ELSE 0
ProjectedFor(x) == IF x = System THEN projected ELSE 0
WalletsWhole == \A x \in User :
    /\ x \in coins => usdt[x] # None
    /\ usdt[x] # None =>
          usdt[x] = (IF x \in coins THEN Gift[x] ELSE 0) + Deposited(x) + ProjectedFor(x)

(* All who were announced come to have all wallets, unless a deposit was   *)
(* faster than the event: with Kafka wherever wallet-service stops, with   *)
(* Redis if it does not.                                                   *)
Reliable == "error" \notin scene.faults /\ (mode = "once" => "stop" \notin scene.faults)
Faster(x) == usdt[x] # None /\ x \notin coins
AnnouncedGetWallets ==
    <>[](Reliable => \A x \in Range(registered) : x \in coins \/ Faster(x))

-----------------------------------------------------------------------------
(* Refuted: see the README *)

(* "Provisions wallets for every new user": whoever has a row has been     *)
(* announced when no registration and no start is under way.               *)
Serving == scene.instances # {} /\ \A p \in scene.instances : Is(p, "serve")
NoOneForgotten == Serving /\ "publish" \notin scene.faults => rows \subseteq Range(registered)

(* The demo accounts exist once the service has started. *)
SeedsComplete == Serving /\ scene.demo => User \subseteq rows

(* A user whose deposit came first still gets the other wallets. *)
FasterGetsRest == \A x \in User : ~(Faster(x) /\ registered # <<>> /\ prov.pc = "idle"
                                   /\ prov.next > Len(registered) /\ x \in Range(registered))

(* Redis shows what the row has, the gift included. *)
GiftIsCached == \A x \in User \ {sys} :
    bal[x] # None /\ deposit[x] # "credit" /\ deposit[x] # "insert" => bal[x] = usdt[x]

(* "Preserves balance invariant": fees credited reach the fee wallet's row.*)
FeesAreInTable == owed = 0 => bal[sys] \in {None, usdt[sys]}

(* "Read it with retry": the engine comes to know the account. *)
FeeWalletFound == polls = MaxPolls => feeID # None
=============================================================================
