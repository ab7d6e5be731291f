--------------------------------- MODULE Hub ---------------------------------
(***************************************************************************)
(* shared/ws/hub.go: the WebSocket hub of one process (the gateway), with  *)
(* its goroutines: Run, redisSubscriber, and two pumps per client.  They   *)
(* meet over unbuffered channels, a lock and the clients' send buffers.    *)
(***************************************************************************)
EXTENDS Integers, Sequences, FiniteSets

CONSTANTS
    Client, Nobody,
    Setting,      \* [path, faults]: whether broadcasts come through Redis from elsewhere
                  \* ("redis"), from this process ("home"), or without Redis ("local")
    BufferSize,   \* of a client's send channel (256)
    MaxMessages,  \* bound: broadcasts
    MaxChanges    \* bound: changes of a subscription, failures of Redis

ASSUME HubAssumption ==
    /\ BufferSize \in Nat \ {0} /\ MaxMessages \in Nat /\ Nobody \notin Client
    /\ \A s \in Setting : s.path \in {"redis", "home", "local"}

Fan == {"run", "sub"}   \* who fans out: Run and redisSubscriber

VARIABLES
    setting, changes,
    sent,       \* messages broadcast so far
    redis,      \* on the way from Redis to redisSubscriber
    local,      \* localBcast
    run,        \* Run: [pc, client]: "select", "add", "remove", "fan"
    fan,        \* [Fan -> message being fanned out (0: none) and clients still to visit]
    clients,    \* the map of clients
    buffer,     \* [Client -> its send channel]
    closed,     \* clients whose send channel is closed
    conn,       \* [Client -> "none", "asking", "open", "closed"]
    subs,       \* clients subscribed to the channel
    reading,    \* [Client -> readPump: "off", "read", "leave", "gone"]
    writing,    \* [Client -> writePump: "off", "write", "gone"]
    received,   \* history: [Client -> messages written to the connection]
    panicked    \* history: a send on a closed channel, or a second close

queues == <<redis, local>>
pumps == <<reading, writing, conn>>
chans == <<buffer, closed>>
hubVars == <<setting, changes, sent, queues, run, fan, clients, chans, pumps, subs, received,
             panicked>>

HubMayFail(f) == f \in setting.faults /\ changes < MaxChanges
Counted == changes' = changes + 1
Selecting == run.pc = "select"
ReadLocked == \E f \in Fan : fan[f].msg # 0
WriterWaits == run.pc \in {"add", "remove"}
RunAs(label, c) == run' = [pc |-> label, client |-> c]

-----------------------------------------------------------------------------
(* Broadcast: through Redis, which may lose the message before it reaches  *)
(* the subscriber; when PUBLISH fails, or seems to, to the local channel of*)
(* the process that broadcasts.                                            *)
Locally(m) == IF setting.path = "redis" THEN UNCHANGED local ELSE local' = Append(local, m)
BroadcastTwice ==   \* mutant: to the local clients at once, and through Redis
    /\ sent < MaxMessages /\ sent' = sent + 1
    /\ redis' = Append(redis, sent') /\ local' = Append(local, sent')
    /\ UNCHANGED <<setting, changes, run, fan, clients, chans, pumps, subs, received, panicked>>
Broadcast ==
    /\ sent < MaxMessages /\ sent' = sent + 1
    /\ \/ setting.path # "local" /\ redis' = Append(redis, sent') /\ UNCHANGED <<local, changes>>
       \/ setting.path # "local" /\ HubMayFail("lost") /\ Counted /\ UNCHANGED queues
       \/ setting.path # "local" /\ HubMayFail("failed") /\ Counted /\ Locally(sent') /\ UNCHANGED redis
       \/ setting.path # "local" /\ HubMayFail("unsure") /\ Counted /\ Locally(sent')
             /\ redis' = Append(redis, sent')
       \/ setting.path = "local" /\ local' = Append(local, sent') /\ UNCHANGED <<redis, changes>>
    /\ UNCHANGED <<setting, run, fan, clients, chans, pumps, subs, received, panicked>>

-----------------------------------------------------------------------------
(* Run *)

(* HandleWS hands a client over, and starts its pumps. *)
Connect(c) ==
    /\ conn[c] = "none" /\ conn' = [conn EXCEPT ![c] = "asking"]
    /\ UNCHANGED <<setting, changes, sent, queues, run, fan, clients, chans, reading, writing,
                   subs, received, panicked>>
Register(c) ==
    /\ conn[c] = "asking" /\ Selecting /\ RunAs("add", c)
    /\ conn' = [conn EXCEPT ![c] = "open"]
    /\ reading' = [reading EXCEPT ![c] = "read"] /\ writing' = [writing EXCEPT ![c] = "write"]
    /\ UNCHANGED <<setting, changes, sent, queues, fan, clients, chans, subs, received, panicked>>
AddClient ==
    /\ run.pc = "add" /\ ~ReadLocked
    /\ clients' = clients \cup {run.client} /\ RunAs("select", Nobody)
    /\ UNCHANGED <<setting, changes, sent, queues, fan, chans, pumps, subs, received, panicked>>

(* Under the lock: a client is removed, and its channel closed, once. *)
RemoveUnlocked ==   \* mutant: without the lock
    /\ run.pc = "remove" /\ RunAs("select", Nobody)
    /\ IF run.client \in clients
       THEN clients' = clients \ {run.client} /\ closed' = closed \cup {run.client}
       ELSE UNCHANGED <<clients, closed>>
    /\ UNCHANGED <<setting, changes, sent, queues, fan, buffer, pumps, subs, received, panicked>>
RemoveClient ==
    /\ run.pc = "remove" /\ ~ReadLocked /\ RunAs("select", Nobody)
    /\ IF run.client \in clients
       THEN clients' = clients \ {run.client} /\ closed' = closed \cup {run.client}
       ELSE UNCHANGED <<clients, closed>>
    /\ panicked' = (panicked \/ run.client \in clients \cap closed)
    /\ UNCHANGED <<setting, changes, sent, queues, fan, buffer, pumps, subs, received>>

-----------------------------------------------------------------------------
(* fanOut, by Run for the local channel and by redisSubscriber: under the  *)
(* read lock, which waits for a writer.                                    *)
TakeLocal ==
    /\ Selecting /\ local # <<>> /\ local' = Tail(local) /\ RunAs("fan", Nobody)
    /\ fan' = [fan EXCEPT !["run"] = [msg |-> Head(local), todo |-> clients]]
    /\ UNCHANGED <<setting, changes, sent, redis, clients, chans, pumps, subs, received, panicked>>
TakeRedis ==
    /\ redis # <<>> /\ fan["sub"].msg = 0 /\ ~WriterWaits /\ redis' = Tail(redis)
    /\ fan' = [fan EXCEPT !["sub"] = [msg |-> Head(redis), todo |-> clients]]
    /\ UNCHANGED <<setting, changes, sent, local, run, clients, chans, pumps, subs, received, panicked>>

Visited(f, c) == fan' = [fan EXCEPT ![f] = [msg |-> @.msg, todo |-> @.todo \ {c}]]

(* A client that is subscribed gets the message if its buffer has room. *)
Send(f, c) ==
    /\ c \in fan[f].todo /\ Visited(f, c)
    /\ \/ c \notin subs /\ UNCHANGED <<buffer, panicked>>
       \/ c \in subs /\ c \in closed /\ panicked' = TRUE /\ UNCHANGED buffer
       \/ /\ c \in subs \ closed /\ Len(buffer[c]) < BufferSize
          /\ buffer' = [buffer EXCEPT ![c] = Append(@, fan[f].msg)] /\ UNCHANGED panicked
    /\ UNCHANGED <<setting, changes, sent, queues, run, clients, closed, pumps, subs, received>>

Full(f, c) == c \in fan[f].todo /\ c \in subs \ closed /\ Len(buffer[c]) = BufferSize

(* If not, Run is asked to remove the client, unless it is not listening at*)
(* this moment, as when it fans out itself.                                *)
WaitForRun(f, c) ==   \* mutant: the request waits until Run listens
    /\ Full(f, c) /\ Selecting /\ RunAs("remove", c) /\ Visited(f, c)
    /\ UNCHANGED <<setting, changes, sent, queues, clients, chans, pumps, subs, received, panicked>>
DropSlow(f, c) ==
    /\ Full(f, c) /\ Visited(f, c)
    /\ (Selecting /\ RunAs("remove", c)) \/ UNCHANGED run
    /\ UNCHANGED <<setting, changes, sent, queues, clients, chans, pumps, subs, received, panicked>>

FannedOut(f) ==
    /\ fan[f].msg # 0 /\ fan[f].todo = {}
    /\ fan' = [fan EXCEPT ![f] = [msg |-> 0, todo |-> {}]]
    /\ IF f = "run" THEN RunAs("select", Nobody) ELSE UNCHANGED run
    /\ UNCHANGED <<setting, changes, sent, queues, clients, chans, pumps, subs, received, panicked>>

-----------------------------------------------------------------------------
(* The pumps *)

(* readPump: the client subscribes, or stops to. *)
Subscribe(c) ==
    /\ reading[c] = "read" /\ conn[c] = "open" /\ changes < MaxChanges /\ Counted
    /\ subs' = IF c \in subs THEN subs \ {c} ELSE subs \cup {c}
    /\ UNCHANGED <<setting, sent, queues, run, fan, clients, chans, pumps, received, panicked>>
Disconnect(c) ==
    /\ conn[c] = "open" /\ conn' = [conn EXCEPT ![c] = "closed"]
    /\ UNCHANGED <<setting, changes, sent, queues, run, fan, clients, chans, reading, writing,
                   subs, received, panicked>>
ReadFails(c) ==
    /\ reading[c] = "read" /\ conn[c] = "closed" /\ reading' = [reading EXCEPT ![c] = "leave"]
    /\ UNCHANGED <<setting, changes, sent, queues, run, fan, clients, chans, writing, conn,
                   subs, received, panicked>>
Unregister(c) ==
    /\ reading[c] = "leave" /\ Selecting /\ RunAs("remove", c)
    /\ reading' = [reading EXCEPT ![c] = "gone"]
    /\ UNCHANGED <<setting, changes, sent, queues, fan, clients, chans, writing, conn, subs,
                   received, panicked>>

(* writePump: until the channel is closed and empty, or a write fails; it  *)
(* closes the connection.                                                  *)
Write(c) ==
    /\ writing[c] = "write" /\ buffer[c] # <<>> /\ conn[c] = "open"
    /\ buffer' = [buffer EXCEPT ![c] = Tail(@)]
    /\ received' = [received EXCEPT ![c] = Append(@, Head(buffer[c]))]
    /\ UNCHANGED <<setting, changes, sent, queues, run, fan, clients, closed, pumps, subs, panicked>>
WriteEnds(c) ==
    /\ writing[c] = "write"
    /\ \/ buffer[c] # <<>> /\ conn[c] = "closed" /\ buffer' = [buffer EXCEPT ![c] = Tail(@)]
       \/ buffer[c] = <<>> /\ c \in closed /\ UNCHANGED buffer
    /\ writing' = [writing EXCEPT ![c] = "gone"] /\ conn' = [conn EXCEPT ![c] = "closed"]
    /\ UNCHANGED <<setting, changes, sent, queues, run, fan, clients, closed, reading, subs,
                   received, panicked>>

HubInit ==
    /\ setting \in Setting /\ changes = 0 /\ sent = 0 /\ redis = <<>> /\ local = <<>>
    /\ run = [pc |-> "select", client |-> Nobody]
    /\ fan = [f \in Fan |-> [msg |-> 0, todo |-> {}]]
    /\ clients = {} /\ buffer = [c \in Client |-> <<>>] /\ closed = {}
    /\ conn = [c \in Client |-> "none"] /\ subs = {}
    /\ reading = [c \in Client |-> "off"] /\ writing = [c \in Client |-> "off"]
    /\ received = [c \in Client |-> <<>>] /\ panicked = FALSE

Visit(f) == FannedOut(f) \/ \E c \in Client : Send(f, c) \/ DropSlow(f, c)
RunStep == AddClient \/ RemoveClient \/ TakeLocal \/ Visit("run")
SubscriberStep == TakeRedis \/ Visit("sub")
ReadStep(c) == ReadFails(c) \/ Unregister(c)
WriteStep(c) == conn[c] = "closed" /\ WriteEnds(c)
HubNext ==
    \/ Broadcast \/ RunStep \/ SubscriberStep
    \/ \E c \in Client : \/ Connect(c) \/ Register(c) \/ Subscribe(c) \/ Disconnect(c)
                         \/ ReadStep(c) \/ Write(c) \/ WriteEnds(c)

(* The scheduler lets every goroutine go on, and select does not pass over *)
(* one that offers to meet for ever.  A peer may stop reading for ever.    *)
HubSpec == /\ HubInit /\ [][HubNext]_hubVars /\ WF_hubVars(RunStep) /\ WF_hubVars(SubscriberStep)
        /\ \A c \in Client : /\ SF_hubVars(Register(c)) /\ SF_hubVars(Unregister(c))
                             /\ WF_hubVars(ReadFails(c)) /\ WF_hubVars(WriteStep(c))
=============================================================================
