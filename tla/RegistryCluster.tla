---------------------------- MODULE RegistryCluster ----------------------------
(***************************************************************************)
(* The registry server and its workers (AiDist/5. Registry_Server.cpp,     *)
(* AiDist/8. WorkerNode.cpp), over TCP, around the registry manager.       *)
(*                                                                         *)
(* The server handles each connection on one of its I/O threads and scans  *)
(* on its main loop.  The manager's methods are atomic, what a handler     *)
(* does between two of them is not.  A worker is one thread: its timers    *)
(* and the packets it reads are handled one at a time.                     *)
(*                                                                         *)
(* What a worker sends sits in the output buffer of its connection until   *)
(* the loop flushes it; a connection that is closed first loses it (see    *)
(* TcpServer).  Time jumps from one timer to the next.  EventLoop::RunAfter*)
(* takes seconds, so the code's 30 * 1000 is 30000 seconds.                *)
(***************************************************************************)
EXTENDS RegistryManager

CONSTANTS
    Models0, Memory0,    \* what every worker supports, its GPU memory
    FirstHeartbeat,      \* 1 * 1000 in the code
    HeartbeatPeriod,     \* 30 * 1000
    ReconnectDelay,      \* 3 * 1000
    ScanPeriod,          \* 10 * 1000
    MaxSessions,         \* bound: connections a worker makes
    Prompt,              \* is every message handled before the next timer fires
    Crashes,             \* may worker processes be killed and started again
    Breaks,              \* may a connection break while both its ends live
    MaxRestarts,         \* bound: how often the server is killed and restarted
    Destructs,           \* may workers be destroyed in order
    DestroyInLoop,       \* is a worker destroyed by the thread of its loop
    Moments,             \* instants that matter besides those of the timers
    NoId

Sessions == Addrs \X (1..MaxSessions)

ASSUME ClusterAssumption ==
    /\ Models0 \in SupportLists /\ Memory0 \in Memories
    /\ {FirstHeartbeat, HeartbeatPeriod, ReconnectDelay, ScanPeriod} \subseteq Nat \ {0}
    /\ MaxSessions \in Nat /\ MaxRestarts \in Nat /\ Moments \subseteq Nat
    /\ {Prompt, Crashes, Breaks, Destructs, DestroyInLoop} \subseteq BOOLEAN
    /\ NoId \notin Ids

VARIABLES
    worker,     \* worker address -> the worker's state
    toServer,   \* session -> packets on their way to the server
    toWorker,   \* session -> packets on their way to the worker
    link,       \* session -> "none", "open", "cut" (broken, nobody has seen it),
                \* "eof" (closed by the worker), "closed"
    handler,    \* session -> what its I/O thread is in the middle of
    scanDue,    \* when the scan timer fires
    scanned,    \* ids the scan removed and has not broadcast yet
    restarts    \* of the server, so far

serverVars == <<handler, scanDue, scanned, restarts>>
clusterVars == <<worker, toServer, toWorker, link, serverVars>>
vars == <<registryVars, clusterVars>>

Register == [type |-> "REGISTER_WORKER"]
RegisterResp(id) == [type |-> "REGISTER_RESP", node_id |-> id]
Heartbeat(id) == [type |-> "HEARTBEAT", node_id |-> id]
HeartbeatResp(ack) == [type |-> "HEARTBEAT_RESP", ack |-> ack]
Farewell(id) == [type |-> "WORKER_REMOVE", node_id |-> id]
Offline(id) == [type |-> "WORKER_OFFLINE", node_id |-> id]

Off == [alive |-> "off", id |-> NoId, started |-> FALSE, conn |-> "none",
        chains |-> <<>>, reconnects |-> {}, out |-> <<>>, inbox |-> <<>>,
        lost |-> FALSE,     \* has a process or a connection of this worker died before
        failed |-> FALSE]   \* has it tried to connect in vain

Idle == [step |-> "idle", id |-> NoId]

ClusterInit ==
    /\ Init
    /\ worker = [w \in Addrs |-> [Off EXCEPT !.alive = "unborn"]]
    /\ toServer = [s \in Sessions |-> <<>>]
    /\ toWorker = [s \in Sessions |-> <<>>]
    /\ link = [s \in Sessions |-> "none"]
    /\ handler = [s \in Sessions |-> Idle]
    /\ scanDue = ScanPeriod
    /\ scanned = {}
    /\ restarts = 0

\* A step that calls no method of the manager.
NoCall == ret' = NoReturn /\ UNCHANGED <<m_nodes, m_model_to_nodes, stamp, now>>

-----------------------------------------------------------------------------
(***************************************************************************)
(* The worker's side of its connection.                                    *)
(***************************************************************************)
Used(w) == {s \in Sessions : s[1] = w /\ link[s] # "none"}
Current(w) == <<w, Cardinality(Used(w))>>

IsConnected(w) == worker[w].conn = "Connected"
\* A connection that waits for its output to be sent goes on reading.
IsReading(w) == worker[w].conn \in {"Connected", "Disconnecting"}

\* Faulty: m_started is not set.
ConnectedNotStarted(w, me) ==
    [me EXCEPT !.conn = "Connected", !.out = <<Register>>,
               !.chains = Append(@, now + FirstHeartbeat)]

\* TcpClient::Connect, then OnRegistryConnected: register, and start another
\* chain of heartbeats; what chains there are go on.
Connected(w, me) ==
    [me EXCEPT !.started = TRUE, !.conn = "Connected", !.out = <<Register>>,
               !.chains = Append(@, now + FirstHeartbeat)]

\* Whatever session the worker had is closed by its destruction.
Hang(w) ==
    [s \in Sessions |->
       IF s[1] = w /\ link[s] \in {"open", "cut"} THEN "eof" ELSE link[s]]

OpenSession(w, me) ==
    LET n == Cardinality(Used(w)) + 1 IN
    /\ n <= MaxSessions
    /\ worker' = [worker EXCEPT ![w] = Connected(w, me)]
    /\ link' = [Hang(w) EXCEPT ![<<w, n>>] = "open"]

\* It does nothing when started, and nothing is left of an attempt that fails.
NotOpened(w, me) ==
    /\ worker' = [worker EXCEPT ![w] = [me EXCEPT !.failed = @ \/ ~me.started]]
    /\ UNCHANGED link

Connect(w, me) == NotOpened(w, me) \/ (~me.started /\ OpenSession(w, me))

\* Faulty: m_started is not reset.
DisconnectedStarted(me) ==
    [me EXCEPT !.conn = IF @ = "Connected" THEN "Disconnected" ELSE @]

\* TcpClient::Disconnect: a connection with unsent output never gets closed.
Disconnected(me) ==
    [me EXCEPT !.started = FALSE,
               !.conn = CASE @ = "Connected" /\ me.out = <<>> -> "Disconnected"
                          [] @ = "Connected" /\ me.out # <<>> -> "Disconnecting"
                          [] OTHER -> @]

LinkAfterDisconnect(w) ==
    IF IsConnected(w) /\ worker[w].out = <<>>
      THEN [link EXCEPT ![Current(w)] = "eof"] ELSE link

Free(w) == worker[w].alive = "on" /\ worker[w].inbox = <<>>

\* WorkerNode::Start; a process that was killed is started again.
Start(w) ==
    /\ worker[w].alive \in {"unborn", "off"}
    /\ Connect(w, [worker[w] EXCEPT !.alive = "on"])
    /\ NoCall /\ UNCHANGED <<toServer, toWorker, serverVars>>

\* The loop writes out what is buffered.
Flush(w) ==
    /\ worker[w].alive \in (IF DestroyInLoop THEN {"on"} ELSE {"on", "dying"})
    /\ IsConnected(w) /\ worker[w].out # <<>>
    /\ toServer' = IF link[Current(w)] = "open"
                     THEN [toServer EXCEPT ![Current(w)] = @ \o worker[w].out]
                     ELSE toServer
    /\ worker' = [worker EXCEPT ![w].out = <<>>]
    /\ NoCall /\ UNCHANGED <<toWorker, link, serverVars>>

\* The heartbeat timer of chain i: SendHeartbeat, and the next RunAfter.
HeartbeatTimer(w, i) ==
    /\ Free(w)
    /\ worker[w].chains[i] = now
    /\ worker' = [worker EXCEPT
                    ![w].chains[i] = now + HeartbeatPeriod,
                    ![w].out = IF worker[w].id # NoId /\ IsConnected(w)
                                 THEN Append(@, Heartbeat(worker[w].id)) ELSE @]
    /\ NoCall /\ UNCHANGED <<toServer, toWorker, link, serverVars>>

\* The timer that follows a refused heartbeat.
ReconnectTimer(w) ==
    /\ Free(w)
    /\ now \in worker[w].reconnects
    /\ Connect(w, [worker[w] EXCEPT !.reconnects = @ \ {now}])
    /\ NoCall /\ UNCHANGED <<toServer, toWorker, serverVars>>

\* WorkerNode::OnMessage reads what has arrived, and parses all of it ...
Read(w) ==
    /\ Free(w) /\ IsReading(w)
    /\ \E n \in 1..Len(toWorker[Current(w)]) :
         /\ worker' = [worker EXCEPT ![w].inbox = SubSeq(toWorker[Current(w)], 1, n)]
         /\ toWorker' = [toWorker EXCEPT ![Current(w)] = SubSeq(@, n + 1, Len(@))]
    /\ NoCall /\ UNCHANGED <<toServer, link, serverVars>>

\* Faulty: an id, once there, is kept.
AdoptedOnce(me, id) == IF me.id = NoId THEN [me EXCEPT !.id = id] ELSE me

\* What the worker makes of the answer to its registration.
Adopted(me, id) == [me EXCEPT !.id = id]

\* ... then handles packet after packet, also after one of them disconnected it.
HandlePacket(w) ==
    LET me   == [worker[w] EXCEPT !.inbox = Tail(@)]
        p    == Head(worker[w].inbox)
        nack == p.type = "HEARTBEAT_RESP" /\ ~p.ack
    IN
    /\ worker[w].alive = "on" /\ worker[w].inbox # <<>>
    /\ worker' = [worker EXCEPT ![w] =
          CASE p.type = "REGISTER_RESP" -> Adopted(me, p.node_id)
            [] nack  -> [Disconnected(me) EXCEPT !.reconnects = @ \cup {now + ReconnectDelay}]
            [] OTHER -> me]
    /\ link' = IF nack THEN LinkAfterDisconnect(w) ELSE link
    /\ NoCall /\ UNCHANGED <<toServer, toWorker, serverVars>>

\* The connection breaks, and takes what is sent on it from now on.
Lose(w) ==
    /\ Breaks
    /\ worker[w].alive = "on" /\ IsReading(w) /\ link[Current(w)] = "open"
    /\ link' = [link EXCEPT ![Current(w)] = "cut"]
    /\ worker' = [worker EXCEPT ![w].lost = TRUE]
    /\ NoCall /\ UNCHANGED <<toServer, toWorker, serverVars>>

\* End of file from a dead server, or a broken connection, which takes what was
\* not read: TcpClient::HandleRemoveConnection.  Automatic reconnection is off,
\* and the connection callback is not called.
ReadEof(w) ==
    LET s == Current(w) IN
    /\ Free(w) /\ IsReading(w)
    /\ link[s] = "cut" \/ (link[s] = "closed" /\ toWorker[s] = <<>>)
    /\ worker' = [worker EXCEPT ![w].conn = "none", ![w].started = FALSE, ![w].out = <<>>]
    /\ link' = Hang(w)
    /\ toWorker' = [toWorker EXCEPT ![s] = <<>>]
    /\ NoCall /\ UNCHANGED <<toServer, serverVars>>

\* The process dies; the kernel closes its sockets, what was flushed still arrives.
Crash(w) ==
    /\ Crashes
    /\ worker[w].alive = "on"
    /\ worker' = [worker EXCEPT ![w] = [Off EXCEPT !.lost = TRUE, !.failed = worker[w].failed]]
    /\ link' = Hang(w)
    /\ toWorker' = [s \in Sessions |-> IF s[1] = w THEN <<>> ELSE toWorker[s]]
    /\ NoCall /\ UNCHANGED <<toServer, serverVars>>

\* ~WorkerNode: say goodbye ...
BeginDestroy(w) ==
    /\ Destructs
    /\ Free(w)
    /\ worker' = [worker EXCEPT
                    ![w].alive = "dying",
                    ![w].out = IF worker[w].id # NoId /\ IsConnected(w)
                                 THEN Append(@, Farewell(worker[w].id)) ELSE @]
    /\ NoCall /\ UNCHANGED <<toServer, toWorker, link, serverVars>>

\* ... and ~TcpClient forces the connection closed, flushed or not.  (The timers
\* it leaves in the loop, which keep a pointer to it, are not modelled.)
EndDestroy(w) ==
    /\ worker[w].alive = "dying"
    /\ worker' = [worker EXCEPT ![w] =
                    [Off EXCEPT !.alive = "gone",
                                !.id = IF IsConnected(w) THEN worker[w].id ELSE NoId]]
    /\ link' = Hang(w)
    /\ toWorker' = [s \in Sessions |-> IF s[1] = w THEN <<>> ELSE toWorker[s]]
    /\ NoCall /\ UNCHANGED <<toServer, serverVars>>

-----------------------------------------------------------------------------
(***************************************************************************)
(* The server's side: the handlers of a session run on its I/O thread.     *)
(***************************************************************************)
\* SendResponse: whoever has closed its end reads nothing any more.
To(s, packets) ==
    IF link[s] = "open" THEN toWorker[s] \o packets ELSE toWorker[s]
Reply(s, packet) == [toWorker EXCEPT ![s] = To(s, <<packet>>)]
Broadcast(packets) == [s \in Sessions |-> To(s, packets)]

Receives(s, type) ==
    /\ link[s] \in {"open", "cut", "eof"} /\ handler[s] = Idle
    /\ toServer[s] # <<>> /\ Head(toServer[s]).type = type
    /\ toServer' = [toServer EXCEPT ![s] = Tail(@)]

Step(s, step, id) == handler' = [handler EXCEPT ![s] = [step |-> step, id |-> id]]

HandleRegister(s) ==
    /\ Receives(s, "REGISTER_WORKER")
    /\ RegisterWorker(s[1], Models0, Memory0, now)
    /\ toWorker' = Reply(s, RegisterResp(ret'.node_id))
    /\ UNCHANGED <<worker, link, serverVars>>

\* HandleHeartbeat asks the manager whether it knows the node ...
HandleHeartbeat(s) ==
    LET id == Head(toServer[s]).node_id IN
    /\ Receives(s, "HEARTBEAT")
    /\ HasNode(id)
    /\ IF ret'.known
         THEN Step(s, "update", id) /\ UNCHANGED toWorker
         ELSE toWorker' = Reply(s, HeartbeatResp(FALSE)) /\ UNCHANGED handler
    /\ UNCHANGED <<worker, link, scanDue, scanned, restarts>>

\* ... and then, with the manager's lock released in between, updates it.
AcceptHeartbeat(s) ==
    /\ handler[s].step = "update"
    /\ UpdateHeartbeat(handler[s].id, Memory0, Models0)
    /\ toWorker' = Reply(s, HeartbeatResp(TRUE))
    /\ Step(s, "idle", NoId)
    /\ UNCHANGED <<worker, toServer, link, scanDue, scanned, restarts>>

HandleRemove(s) ==
    /\ Receives(s, "WORKER_REMOVE")
    /\ RemoveWorker(Head(toServer[s]).node_id)
    /\ Step(s, "broadcast", Head(toServer[s]).node_id)
    /\ UNCHANGED <<worker, toWorker, link, scanDue, scanned, restarts>>

\* The rest of HandleRemove, under m_conn_mtx.
BroadcastRemoval(s) ==
    /\ handler[s].step = "broadcast"
    /\ toWorker' = Broadcast(<<Offline(handler[s].id)>>)
    /\ Step(s, "idle", NoId)
    /\ NoCall /\ UNCHANGED <<worker, toServer, link, scanDue, scanned, restarts>>

\* The server sees that the worker closed the session, or that it broke.  A reset
\* discards what was not read, and error and hang-up come before the rest is read.
CloseSession(s) ==
    /\ link[s] \in {"cut", "eof"} /\ handler[s] = Idle
    /\ link' = [link EXCEPT ![s] = "closed"]
    /\ toServer' = [toServer EXCEPT ![s] = <<>>]
    /\ NoCall /\ UNCHANGED <<worker, toWorker, serverVars>>

\* The scan timer, on the main loop: ScanTimeoutNodes, and the next RunAfter ...
Scan ==
    /\ scanDue = now /\ scanned = {}
    /\ ScanTimeoutNodes
    /\ scanned' = ret'.removed
    /\ scanDue' = now + ScanPeriod
    /\ UNCHANGED <<worker, toServer, toWorker, link, handler, restarts>>

\* ... in between the broadcast, under m_conn_mtx.
BroadcastTimeouts ==
    /\ scanned # {}
    /\ \E order \in [1..Cardinality(scanned) -> scanned] :
         /\ \A i, j \in DOMAIN order : order[i] = order[j] => i = j
         /\ toWorker' = Broadcast([i \in DOMAIN order |-> Offline(order[i])])
    /\ scanned' = {}
    /\ NoCall /\ UNCHANGED <<worker, toServer, link, handler, scanDue, restarts>>

\* The server process dies and is started again: its registry was in memory.
RestartServer ==
    /\ restarts < MaxRestarts
    /\ restarts' = restarts + 1
    /\ m_nodes' = [id \in {} |-> NoReturn]
    /\ m_model_to_nodes' = [m \in Models |-> {}]
    /\ ret' = NoReturn
    /\ link' = [s \in Sessions |-> IF link[s] = "none" THEN "none" ELSE "closed"]
    /\ toServer' = [s \in Sessions |-> <<>>]
    /\ handler' = [s \in Sessions |-> Idle]
    /\ scanDue' = now + ScanPeriod
    /\ scanned' = {}
    /\ UNCHANGED <<stamp, now, worker, toWorker>>

-----------------------------------------------------------------------------
(***************************************************************************)
(* Time passes up to the next timer, or to a moment before it.  Timers     *)
(* fire on time; if Prompt, messages take no time either.                  *)
(***************************************************************************)
Range0(f) == {f[i] : i \in DOMAIN f}
Timers ==
    {scanDue} \cup
    UNION {Range0(worker[w].chains) \cup worker[w].reconnects : w \in Addrs}

Settled ==
    /\ \A w \in Addrs :
         /\ worker[w].alive # "dying" /\ worker[w].inbox = <<>>
         /\ IsConnected(w) => worker[w].out = <<>>
         /\ IsReading(w) => link[Current(w)] = "open" /\ toWorker[Current(w)] = <<>>
    /\ \A s \in Sessions :
         toServer[s] = <<>> /\ handler[s] = Idle /\ link[s] \notin {"cut", "eof"}

Advance ==
    /\ scanned = {}
    /\ Prompt => Settled
    /\ \E t \in Timers \cup Moments :
         /\ now < t /\ t <= MaxClock
         /\ \A u \in Timers : t <= u
         /\ now' = t
    /\ ret' = NoReturn
    /\ UNCHANGED <<m_nodes, m_model_to_nodes, stamp, clusterVars>>

Next ==
    \/ \E w \in Addrs :
         \/ Start(w) \/ Flush(w) \/ ReconnectTimer(w) \/ HandlePacket(w)
         \/ Read(w) \/ Lose(w) \/ ReadEof(w) \/ Crash(w) \/ BeginDestroy(w) \/ EndDestroy(w)
         \/ \E i \in DOMAIN worker[w].chains : HeartbeatTimer(w, i)
    \/ \E s \in Sessions :
         \/ HandleRegister(s) \/ HandleHeartbeat(s) \/ AcceptHeartbeat(s)
         \/ HandleRemove(s) \/ BroadcastRemoval(s) \/ CloseSession(s)
    \/ Scan
    \/ BroadcastTimeouts
    \/ RestartServer
    \/ Advance

Spec == ClusterInit /\ [][Next]_vars

-----------------------------------------------------------------------------
(***************************************************************************)
(* The state is of its type.                                               *)
(***************************************************************************)
TypeOK ==
    /\ \A id \in DOMAIN m_nodes : id \in Ids /\ m_nodes[id] \in RegistryNodeInfo
    /\ \A w \in Addrs :
         /\ worker[w].alive \in {"unborn", "on", "off", "dying", "gone"}
         /\ worker[w].conn \in {"none", "Connected", "Disconnecting", "Disconnected"}
         /\ worker[w].id \in Ids \cup {NoId}
         /\ worker[w].conn = "Connected" => worker[w].started
    /\ link \in [Sessions -> {"none", "open", "cut", "eof", "closed"}]
    /\ \A s \in Sessions : handler[s].id \in Ids \cup {NoId}
    /\ scanned \subseteq Ids

(***************************************************************************)
(* Once WORKER_OFFLINE is sent for a node, on any connection and in any    *)
(* interleaving with heartbeats of that node, the node is not registered:  *)
(* nobody learns of the loss of a worker that is listed later.             *)
(***************************************************************************)
OfflineSent(id) ==
    \/ id \in scanned
    \/ \E s \in Sessions :
         \/ handler[s] = [step |-> "broadcast", id |-> id]
         \/ Offline(id) \in Range0(toWorker[s])
OfflineIsFinal == \A id \in DOMAIN m_nodes : ~OfflineSent(id)

(***************************************************************************)
(* A dead worker is forgotten: no registration is older, since the last    *)
(* heartbeat, than the timeout and one scan period together.               *)
(***************************************************************************)
DeadForgotten == \A id \in DOMAIN m_nodes : Age(id) <= HeartbeatTimeout + ScanPeriod

(***************************************************************************)
(* A worker gives its connection up after a refused heartbeat only with a  *)
(* timer left that connects it again (WorkerNode.cpp:187), however many    *)
(* refusals, heartbeat chains and unsent packets cross.  The worker never  *)
(* replaces a connection that broke or that the server's process took with *)
(* it, and never repeats an attempt that failed: those it leaves out.      *)
(***************************************************************************)
WillReconnect ==
    \A w \in Addrs :
        /\ worker[w].alive = "on" /\ ~IsConnected(w)
        /\ restarts = 0 /\ ~worker[w].lost /\ ~worker[w].failed
        => worker[w].reconnects # {}

(***************************************************************************)
(* When nothing of a connected worker is on its way, the worker holds an   *)
(* id, and the registry has no registration of it newer than that one.     *)
(* (What a process that was killed, or that lost its connection, had sent  *)
(* may be registered later.)                                               *)
(***************************************************************************)
Quiet(w) ==
    /\ worker[w].alive = "on" /\ IsConnected(w)
    /\ worker[w].out = <<>> /\ worker[w].inbox = <<>>
    /\ link[Current(w)] = "open"
    /\ \A s \in Used(w) :
         toServer[s] = <<>> /\ toWorker[s] = <<>> /\ handler[s] = Idle
UsesNewest ==
    \A w \in Addrs : Quiet(w) =>
        /\ worker[w].id # NoId
        /\ ~worker[w].lost =>
             \A id \in DOMAIN m_nodes : id[1] = w => id[2] <= worker[w].id[2]

(***************************************************************************)
(* The registry keeps a live worker: while it is connected and has an id,  *)
(* that id is registered (WorkerNode.cpp:104: a heartbeat is sent every 30 *)
(* seconds, which is what the registry waits for).                         *)
(***************************************************************************)
LiveRegistered ==
    \A w \in Addrs :
        worker[w].alive = "on" /\ IsConnected(w) /\ worker[w].id # NoId
            => worker[w].id \in DOMAIN m_nodes

=============================================================================
