------------------------------ MODULE MCWallet ------------------------------
(***************************************************************************)
(* Instances of Wallet for TLC.  One wallet is enough: no operation of     *)
(* wallet-service reads or writes two.                                     *)
(***************************************************************************)
EXTENDS WalletProps, TLC

CONSTANTS a1, h1, p1, p2

MCHoldAcct == [h \in Hold |-> a1]
MCSymmetry == Permutations(Proc)

Quiet == [warm |-> TRUE, procs |-> {p1}, deposits |-> {}, amounts |-> {1}, rates |-> {1},
          faults |-> {}, bonus |-> 0, requests |-> 0, restarts |-> 0, uncommitted |-> 0]
Cold == [Quiet EXCEPT !.warm = FALSE, !.deposits = Deposit, !.requests = 2, !.restarts = 1]

(* Requests that fail and overlap, from warm keys that stay. *)
Storm == {[Quiet EXCEPT !.procs = Proc, !.amounts = Amount, !.requests = 3, !.restarts = 1,
                        !.faults = {"script", "publish", "projector", "db", "crash"}]}

(* A restart of the consumer with a commit behind it. *)
Redelivered == [Quiet EXCEPT !.requests = 3, !.restarts = 1, !.uncommitted = 2,
                             !.faults = {"crash", "db"}]

(* One request after another; events that overtake one another; missing    *)
(* keys, failing commands, a flush and a restart; events given again.      *)
Stores == {[Quiet EXCEPT !.deposits = Deposit, !.amounts = Amount, !.rates = Rate, !.bonus = 1,
                         !.requests = 2],
           [Quiet EXCEPT !.procs = Proc, !.requests = 3],
           [Cold EXCEPT !.deposits = {}, !.amounts = Amount, !.bonus = 1, !.requests = 3],
           [Cold EXCEPT !.bonus = 1, !.faults = {"get", "script", "db", "crash", "flush"}],
           Redelivered}

(* What the properties that are refuted need. *)
Overlapping == {[Quiet EXCEPT !.procs = Proc, !.deposits = Deposit, !.bonus = 1]}
OneAtATime == {Quiet}
Repeated == {Redelivered}
Unpublished == {[Quiet EXCEPT !.requests = 1, !.restarts = 1, !.faults = {"publish", "crash"}]}
WarmingUp == {[Cold EXCEPT !.requests = 1, !.faults = {"crash"}]}
Missing == {[Cold EXCEPT !.procs = Proc, !.requests = 3], [Cold EXCEPT !.requests = 1]}
=============================================================================
