------------------------------ MODULE Anomaly -------------------------------
(***************************************************************************)
(* auth-service: which sign-ins by password look suspicious.               *)
(*                                                                         *)
(* A successful Login spawns two goroutines: one writes its row to         *)
(* audit_logs and announces it, from which es-indexer keeps a copy in      *)
(* Elasticsearch; the other, CheckLogin, counts the sign-ins of the        *)
(* account in Redis, compares the address with that of the latest rows and *)
(* counts addresses in the copy.  What it finds is a row of the same table.*)
(***************************************************************************)
EXTENDS Sessions, FiniteSetsExt

CONSTANTS
    Region,     \* [Device -> the region of its address], each device has one of its own
    Private,    \* the region of loopback and private addresses
    VelThresh,  \* sign-ins of a window that are not suspicious
    VelWindow, GeoWindow,
    Spread,     \* addresses of an hour that are
    Recent,     \* rows lastSuccessIP reads
    MaxTime     \* bound: the time at which a behaviour ends, within an hour

ASSUME AnomalyAssumption ==
    /\ DOMAIN Region = Device
    /\ {VelThresh, VelWindow, GeoWindow, Spread, Recent, MaxTime} \subseteq Nat \ {0}
    /\ Recent >= 6   \* it is 10; a sign-in and its checks make up to four rows

VARIABLES
    now,       \* the clock
    journal,   \* rows of audit_logs in order of created_at
    writing,   \* audit goroutines: <<sign-in, action>>
    checking,  \* place of each sign-in's CheckLogin
    vel,       \* Redis anomaly:vel:<user>
    copied,    \* sign-ins in the index audit_logs of Elasticsearch
    toCopy,    \* audit.logged, as far as es-indexer has not read it
    signed,    \* history: the sign-ins
    counted,   \* history: what CheckLogin counted, in order
    found      \* history: what it found, <<sign-in, action>>

watch == <<now, journal, writing, checking, vel, copied, toCopy, signed, counted, found>>
login == "login.success"

-----------------------------------------------------------------------------
(* The end of a Login: what comes before it is in Sessions, and nothing    *)
(* here depends on it.  quiet: all goroutines of earlier ones had ended.   *)
LoggedIn(u, d) ==
    /\ Allowed("watch") /\ Found(u) /\ Len(signed) < here.tokens
    /\ signed' = Append(signed, [user |-> u, dev |-> d,
          quiet |-> writing = {} /\ \A i \in DOMAIN checking : checking[i] = "done"])
    /\ writing' = writing \cup {<<Len(signed) + 1, login>>}
    /\ checking' = Append(checking, "velocity")
    /\ UNCHANGED <<now, journal, vel, copied, toCopy, counted, found>>

(* Create of the row, then Publish, whatever Create returned.  Of the copy *)
(* only the sign-ins are read, and nothing without Elasticsearch.          *)
Logins == {<<i, login>> : i \in DOMAIN signed}
WriteRow(w) ==
    /\ writing' = writing \ {w}
    /\ \/ journal' = Append(journal, [of |-> w[1], action |-> w[2], at |-> now])
       \/ MayFail("db") /\ UNCHANGED journal
    /\ \/ toCopy' = toCopy \cup (IF Allowed("search") THEN {w} \cap Logins ELSE {})
       \/ MayFail("bus") /\ UNCHANGED toCopy
    /\ UNCHANGED <<now, checking, vel, copied, signed, counted, found>>
IndexAudit(w) ==
    /\ toCopy' = toCopy \ {w} /\ copied' = copied \cup {w}
    /\ UNCHANGED <<now, journal, writing, checking, vel, signed, counted, found>>

-----------------------------------------------------------------------------
(* CheckLogin *)

CheckAt(i, label, next) == checking[i] = label /\ checking' = [checking EXCEPT ![i] = next]

(* audit.Failure: a goroutine writes the row. *)
Raise(w) == found' = found \cup {w} /\ writing' = writing \cup {w}
RaiseIf(p, w) == IF p THEN Raise(w) ELSE UNCHANGED <<found, writing>>

(* TxPipeline of INCR and EXPIRE: each sign-in prolongs the window. *)
IncrFixed(u) ==   \* mutant: only the first sign-in sets the time
    vel' = [vel EXCEPT ![u] = [count |-> @.count + 1, left |-> IF @.count = 0 THEN VelWindow ELSE @.left]]
Incr(u) == vel' = [vel EXCEPT ![u] = [count |-> @.count + 1, left |-> VelWindow]]
CountLogin(i) ==
    /\ CheckAt(i, "velocity", "geo") /\ Incr(signed[i].user)
    /\ counted' = Append(counted, [of |-> i, at |-> now])
    /\ RaiseIf(vel'[signed[i].user].count > VelThresh, <<i, "anomaly.velocity">>)
    /\ UNCHANGED <<now, journal, copied, toCopy, signed>>

(* lastSuccessIP: the latest sign-in from another address among the        *)
(* account's latest rows.  Each sign-in is checked against it alone.       *)
Rows(u) == {n \in DOMAIN journal : signed[journal[n].of].user = u}
Latest(u) == {n \in Rows(u) : Cardinality({m \in Rows(u) : m >= n}) <= Recent}
Others(i) == {n \in Latest(signed[i].user) : /\ journal[n].action = login
                                             /\ signed[journal[n].of].dev # signed[i].dev}
SameRegion(d, e) == Region[d] = Region[e] \/ Private \in {Region[d], Region[e]}
CompareIP(i) ==
    /\ CheckAt(i, "geo", IF Allowed("search") THEN "addresses" ELSE "done")
    /\ LET last == journal[Max(Others(i))]
       IN RaiseIf(/\ Others(i) # {} /\ now - last.at <= GeoWindow
                  /\ ~SameRegion(signed[last.of].dev, signed[i].dev), <<i, "anomaly.geo">>)
    /\ UNCHANGED <<now, journal, vel, copied, toCopy, signed, counted>>

(* DistinctIPCountForUser, of the copy as it is; -1 on an error. *)
CountAddresses(i) ==
    /\ CheckAt(i, "addresses", "done")
    /\ LET devs == {signed[w[1]].dev : w \in {v \in copied : signed[v[1]].user = signed[i].user}}
       IN \/ RaiseIf(Cardinality(devs) >= Spread, <<i, "anomaly.cross_ip">>)
          \/ MayFail("bus") /\ UNCHANGED <<found, writing>>
    /\ UNCHANGED <<now, journal, vel, copied, toCopy, signed, counted>>

-----------------------------------------------------------------------------
(* A unit of time; the counter's key expires. *)
Tick ==
    /\ Allowed("watch") /\ now < MaxTime /\ now' = now + 1
    /\ vel' = [u \in User |-> IF vel[u].left <= 1 THEN [count |-> 0, left |-> 0]
                              ELSE [vel[u] EXCEPT !.left = @ - 1]]
    /\ UNCHANGED <<journal, writing, checking, copied, toCopy, signed, counted, found>>

(* The goroutines end with the service. *)
EndGoroutines ==
    /\ writing' = {} /\ checking' = [i \in DOMAIN checking |-> "done"]
    /\ UNCHANGED <<now, journal, vel, copied, toCopy, signed, counted, found>>

WatchInit ==
    /\ Init /\ now = 0 /\ journal = <<>> /\ writing = {} /\ checking = <<>>
    /\ vel = [u \in User |-> [count |-> 0, left |-> 0]]
    /\ copied = {} /\ toCopy = {} /\ signed = <<>> /\ counted = <<>> /\ found = {}
CheckLogin(i) == CountLogin(i) \/ CompareIP(i) \/ CountAddresses(i)
WatchNext ==
    \/ Work /\ UNCHANGED watch
    \/ Restart /\ EndGoroutines
    \/ /\ \/ Tick
          \/ \E u \in User, d \in here.devices : LoggedIn(u, d)
          \/ \E w \in writing : WriteRow(w)
          \/ \E w \in toCopy : IndexAudit(w)
          \/ \E i \in DOMAIN checking : CheckLogin(i)
       /\ UNCHANGED vars
WatchSpec == WatchInit /\ [][WatchNext]_<<vars, watch>>
=============================================================================
