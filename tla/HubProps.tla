------------------------------ MODULE HubProps ------------------------------
(* What the hub owes its clients and its process, and its instance for TLC.*)
EXTENDS Hub

Through(path, faults) == [path |-> path, faults |-> faults]
Settings == {Through("redis", {"lost", "failed"}), Through("home", {"failed", "unsure"}),
               Through("local", {})}

(* No goroutine sends to a client whose channel has been closed, or closes *)
(* it again, which would end the process: fanOut visits the clients while  *)
(* others leave, are dropped by two goroutines at once, or break down.     *)
NeverPanics ==
    /\ ~panicked
    /\ \A f \in Fan : fan[f].todo \cap closed = {}

(* What a client receives is in the order of the broadcasts, and nothing   *)
(* twice, as long as a broadcast that Redis has not refused is not repeated*)
(* locally.                                                                *)
InOrder ==
    setting.path # "home" => \A c \in Client :
        \A i, j \in DOMAIN received[c] : i < j => received[c][i] < received[c][j]

(* When a connection ends, both its pumps end and the client is forgotten, *)
(* whatever the goroutines are waiting for at that moment.                 *)
NothingLeaks == \A c \in Client :
    conn[c] = "closed" ~> (reading[c] = "gone" /\ writing[c] = "gone" /\ c \notin clients)

-----------------------------------------------------------------------------
(* Refuted: see the README *)

(* "Client buffer full - disconnect slow client." *)
SlowIsDropped == \A c \in Client : \A f \in Fan :
    Full(f, c) ~> (c \notin clients \/ Len(buffer[c]) < BufferSize)

(* "Fallback to local if Redis fails": what Redis refused reaches the      *)
(* clients in order, and once.                                             *)
InOrderAtHome == \A c \in Client :
    \A i, j \in DOMAIN received[c] : i < j => received[c][i] < received[c][j]
=============================================================================
