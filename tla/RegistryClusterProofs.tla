------------------------ MODULE RegistryClusterProofs ------------------------
(***************************************************************************)
(* Proofs about the registry server and its workers, for any number of     *)
(* workers, any periods and timeouts, any bounds, with or without crashes, *)
(* destructions, broken connections and restarts of the server.            *)
(***************************************************************************)
EXTENDS RegistryCluster, FiniteSetTheorems, SequenceTheorems, TLAPS

(***************************************************************************)
(* The strengthening.  An announcement is final because every id that is   *)
(* anywhere in the system, in a packet, a handler or a worker, was issued  *)
(* before, so that the next registration gets an id nobody has announced:  *)
(* the types of all that is on its way belong to the invariant.            *)
(***************************************************************************)
Members == DOMAIN m_nodes
Issued == Addrs \X (1..stamp)

ToServer ==
    {Register} \cup {Heartbeat(id) : id \in Issued} \cup {Farewell(id) : id \in Issued}
ToWorker ==
    {RegisterResp(id) : id \in Issued} \cup {HeartbeatResp(ack) : ack \in BOOLEAN}
      \cup {Offline(id) : id \in Issued}

Worker ==
    [alive      : {"unborn", "on", "off", "dying", "gone"},
     id         : Issued \cup {NoId},
     started    : BOOLEAN,
     conn       : {"none", "Connected", "Disconnecting", "Disconnected"},
     chains     : Seq(Nat),
     reconnects : SUBSET Nat,
     out        : Seq(ToServer),
     inbox      : Seq(ToWorker),
     lost       : BOOLEAN,
     failed     : BOOLEAN]

Handler == {Idle} \cup [step : {"update", "broadcast"}, id : Issued]

RegistryTyped ==
    /\ stamp \in 0..MaxStamp
    /\ now \in Nat
    /\ Members \subseteq Issued /\ IsFiniteSet(Members)
    /\ m_nodes \in [Members -> RegistryNodeInfo]

ServerTyped ==
    /\ handler \in [Sessions -> Handler]
    /\ scanned \subseteq Issued /\ IsFiniteSet(scanned)
    /\ scanDue \in Nat
    /\ restarts \in Nat

WiresTyped ==
    /\ toServer \in [Sessions -> Seq(ToServer)]
    /\ toWorker \in [Sessions -> Seq(ToWorker)]
    /\ link \in [Sessions -> {"none", "open", "cut", "eof", "closed"}]

\* The scan timer is never late, and the last scan left nobody it should have
\* removed.
ScannedOnTime ==
    /\ now <= scanDue /\ scanDue <= now + ScanPeriod
    /\ \A id \in Members :
         /\ m_nodes[id].last_heartbeat <= now
         /\ scanDue - ScanPeriod - HeartbeatTimeout <= m_nodes[id].last_heartbeat

\* A worker uses its sessions one after the other.
SessionsInOrder ==
    \A w \in Addrs : \E c \in 0..MaxSessions : Used(w) = {w} \X (1..c)

\* m_started and the connection of a worker agree, and a worker without one has
\* a timer as long as nothing but a refusal takes a connection away.
Coherent(w) ==
    /\ worker[w].alive \in {"unborn", "off", "gone"} =>
         ~worker[w].started /\ worker[w].conn = "none"
    /\ IsConnected(w) => worker[w].started
    /\ IsReading(w) => Used(w) # {}
    /\ worker[w].started => IsConnected(w)
    /\ IsReading(w) /\ link[Current(w)] = "cut" => worker[w].lost
    /\ restarts = 0 /\ ~worker[w].lost =>
         /\ IsReading(w) => link[Current(w)] = "open"
         /\ worker[w].alive = "on" /\ ~IsConnected(w) /\ ~worker[w].failed =>
              worker[w].reconnects # {}

IInv ==
    /\ RegistryTyped
    /\ ServerTyped
    /\ WiresTyped
    /\ worker \in [Addrs -> Worker]
    /\ ScannedOnTime
    /\ SessionsInOrder
    /\ \A w \in Addrs : Coherent(w)
    /\ OfflineIsFinal

-----------------------------------------------------------------------------
(***************************************************************************)
(* Facts about sets and sequences.                                         *)
(***************************************************************************)
LEMMA SessionCount ==
    ASSUME NEW w, NEW c \in Nat
    PROVE  Cardinality({w} \X (1..c)) = c
<1>1. IsFiniteSet({w}) /\ Cardinality({w}) = 1
  BY FS_Singleton
<1>2. IsFiniteSet(1..c) /\ Cardinality(1..c) = c
  BY FS_Interval
<1>3. Cardinality({w} \X (1..c)) = Cardinality({w}) * Cardinality(1..c)
  BY <1>1, <1>2, FS_Product
<1> QED
  BY <1>1, <1>2, <1>3

\* What is written behind a sequence adds its elements, and no others.
LEMMA ConcatElements ==
    ASSUME NEW S, NEW s \in Seq(S), NEW t \in Seq(S)
    PROVE  s \o t \in Seq(S) /\ Range0(s \o t) \subseteq Range0(s) \cup Range0(t)
<1>1. s \o t \in Seq(S)
  BY ConcatProperties
<1>2. ASSUME NEW i \in DOMAIN (s \o t)
      PROVE  (s \o t)[i] \in Range0(s) \cup Range0(t)
  <2>1. i \in 1 .. Len(s) + Len(t) /\ Len(s) \in Nat /\ Len(t) \in Nat
    BY ConcatProperties, <1>1
  <2>2. CASE i <= Len(s)
    BY <2>1, <2>2, ConcatProperties DEF Range0
  <2>3. CASE i > Len(s)
    <3>1. i - Len(s) \in DOMAIN t /\ (s \o t)[i] = t[i - Len(s)]
      BY <2>1, <2>3, ConcatProperties
    <3> QED
      BY <3>1 DEF Range0
  <2> QED
    BY <2>1, <2>2, <2>3
<1> QED
  BY <1>1, <1>2 DEF Range0

\* Reading the first n packets of a stream leaves a part of it.
LEMMA SplitElements ==
    ASSUME NEW S, NEW s \in Seq(S), NEW n \in 1..Len(s)
    PROVE  /\ SubSeq(s, 1, n) \in Seq(S)
           /\ SubSeq(s, n + 1, Len(s)) \in Seq(S)
           /\ Range0(SubSeq(s, n + 1, Len(s))) \subseteq Range0(s)
<1>1. SubSeq(s, 1, n) \in Seq(S)
  BY SubSeqProperties, ElementOfSeq
<1>2. \A i \in (n + 1)..Len(s) : s[i] \in S
  BY ElementOfSeq
<1>3. Len(s) \in Nat /\ n \in Nat
  OBVIOUS
<1> DEFINE r == SubSeq(s, n + 1, Len(s))
<1>4. /\ r \in Seq(S)
      /\ Len(r) = IF n + 1 <= Len(s) THEN Len(s) - (n + 1) + 1 ELSE 0
      /\ \A i \in 1 .. Len(s) - (n + 1) + 1 : r[i] = s[n + 1 + i - 1]
  BY <1>2, <1>3, SubSeqProperties
<1>5. ASSUME NEW i \in DOMAIN r PROVE r[i] \in Range0(s)
  <2>1. i \in 1 .. Len(s) - (n + 1) + 1
    BY <1>3, <1>4
  <2>2. r[i] = s[n + 1 + i - 1] /\ n + 1 + i - 1 \in DOMAIN s
    BY <1>3, <1>4, <2>1
  <2> QED
    BY <2>2 DEF Range0
<1> QED
  BY <1>1, <1>4, <1>5 DEF Range0

\* The types only grow with the stamp.
LEMMA TypesGrow ==
    ASSUME stamp \in Nat, stamp' \in Nat, stamp <= stamp'
    PROVE  /\ Issued \subseteq Issued'
           /\ ToServer \subseteq ToServer'
           /\ ToWorker \subseteq ToWorker'
           /\ \A q \in Seq(ToServer) : q \in Seq(ToServer')
           /\ \A q \in Seq(ToWorker) : q \in Seq(ToWorker')
           /\ Worker \subseteq Worker'
           /\ Handler \subseteq Handler'
<1>1. Issued \subseteq Issued'
  BY DEF Issued
<1>2. ToServer \subseteq ToServer' /\ ToWorker \subseteq ToWorker'
  BY <1>1 DEF ToServer, ToWorker, Register, Heartbeat, Farewell, RegisterResp,
              HeartbeatResp, Offline
<1>3. /\ \A q \in Seq(ToServer) : q \in Seq(ToServer')
      /\ \A q \in Seq(ToWorker) : q \in Seq(ToWorker')
  BY <1>2, SeqMonotonic
<1>4. Worker \subseteq Worker'
  BY <1>1, <1>3 DEF Worker
<1>5. Handler \subseteq Handler'
  BY <1>1 DEF Handler, Idle
<1> QED
  BY <1>1, <1>2, <1>3, <1>4, <1>5

\* While nobody registers, the types stay what they are.
LEMMA TypesKept ==
    ASSUME stamp' = stamp
    PROVE  /\ Issued' = Issued
           /\ ToServer' = ToServer
           /\ ToWorker' = ToWorker
           /\ Worker' = Worker
           /\ Handler' = Handler
BY DEF Issued, ToServer, ToWorker, Worker, Handler, Register, Heartbeat, Farewell,
       RegisterResp, HeartbeatResp, Offline, Idle

\* What a packet of each type carries.
LEMMA PacketIds ==
    /\ \A p \in ToServer :
         p.type \in {"HEARTBEAT", "WORKER_REMOVE"} => p.node_id \in Issued
    /\ \A p \in ToWorker : p.type = "REGISTER_RESP" => p.node_id \in Issued
BY DEF ToServer, ToWorker, Register, Heartbeat, Farewell, RegisterResp, HeartbeatResp,
       Offline

\* The session of a worker that has one is the newest it used.
LEMMA CurrentSession ==
    ASSUME SessionsInOrder, NEW w \in Addrs, Used(w) # {}
    PROVE  /\ Current(w) \in Sessions /\ Current(w)[1] = w
           /\ link[Current(w)] # "none"
<1>1. PICK c \in 0..MaxSessions : Used(w) = {w} \X (1..c)
  BY DEF SessionsInOrder
<1>2. c >= 1
  BY <1>1
<1>3. Current(w) = <<w, c>>
  <2>1. c \in Nat
    OBVIOUS
  <2>2. Cardinality(Used(w)) = c
    BY <1>1, <2>1, SessionCount
  <2> QED
    BY <2>2 DEF Current
<1>4. <<w, c>> \in Used(w)
  BY <1>1, <1>2
<1> QED
  BY <1>3, <1>4 DEF Used

\* Only packets that were sent are announcements that were sent.
LEMMA StaysFinal ==
    ASSUME OfflineIsFinal, Members' \subseteq Members,
           \A id \in Members' : OfflineSent(id)' => OfflineSent(id)
    PROVE  OfflineIsFinal'
BY DEF OfflineIsFinal, Members

-----------------------------------------------------------------------------
(***************************************************************************)
(* What the steps of one side leave alone.                                 *)
(***************************************************************************)
\* The server only ever closes sessions, and opens none.
LEMMA ServerLeavesWorkers ==
    ASSUME IInv, worker' = worker, restarts' = 0 => restarts = 0,
           \A s \in Sessions : link'[s] = "none" <=> link[s] = "none",
           \A s \in Sessions : link'[s] = "cut" => link[s] = "cut",
           restarts' = 0 => \A s \in Sessions : link[s] = "open" => link'[s] = "open"
    PROVE  SessionsInOrder' /\ \A w \in Addrs : Coherent(w)'
<1>1. \A w \in Addrs : Used(w)' = Used(w) /\ Current(w)' = Current(w)
  BY DEF Used, Current
<1>2. SessionsInOrder'
  BY <1>1 DEF IInv, SessionsInOrder
<1>3. ASSUME NEW w \in Addrs PROVE Coherent(w)'
  <2>1. Coherent(w) /\ SessionsInOrder
    BY DEF IInv
  <2>2. ASSUME restarts' = 0, ~worker[w].lost, IsReading(w) PROVE link'[Current(w)] = "open"
    <3>1. Current(w) \in Sessions
      BY <2>1, <2>2, CurrentSession DEF Coherent
    <3> QED
      BY <2>1, <2>2, <3>1 DEF Coherent
  <2>3. IsReading(w)' = IsReading(w) /\ IsConnected(w)' = IsConnected(w)
    BY DEF IsReading, IsConnected
  <2>4. ASSUME IsReading(w), link'[Current(w)] = "cut" PROVE worker[w].lost
    <3>1. Current(w) \in Sessions
      BY <2>1, <2>4, CurrentSession DEF Coherent
    <3> QED
      BY <2>1, <2>4, <3>1 DEF Coherent
  <2> QED
    BY <1>1, <2>1, <2>2, <2>3, <2>4 DEF Coherent
<1> QED
  BY <1>2, <1>3

\* A worker touches its own sessions only, and announces nothing.
LEMMA WorkerLeavesOthers ==
    ASSUME IInv, NEW w \in Addrs, NoCall, UNCHANGED serverVars,
           worker' \in [Addrs -> Worker],
           \A v \in Addrs \ {w} : worker'[v] = worker[v],
           toServer' \in [Sessions -> Seq(ToServer)],
           toWorker' \in [Sessions -> Seq(ToWorker)],
           link' \in [Sessions -> {"none", "open", "cut", "eof", "closed"}],
           \A s \in Sessions : Range0(toWorker'[s]) \subseteq Range0(toWorker[s]),
           \A s \in Sessions : s[1] # w => link'[s] = link[s],
           \E c \in 0..MaxSessions : Used(w)' = {w} \X (1..c),
           Coherent(w)'
    PROVE  IInv'
<1>1. UNCHANGED <<m_nodes, stamp, now, handler, scanDue, scanned, restarts>>
  BY DEF NoCall, serverVars
<1>2. UNCHANGED <<Issued, ToServer, ToWorker, Worker, Handler>>
  BY <1>1, TypesKept
<1>3. RegistryTyped' /\ ServerTyped' /\ WiresTyped' /\ worker' \in [Addrs -> Worker']
  BY <1>1, <1>2 DEF IInv, RegistryTyped, ServerTyped, WiresTyped, Members
<1>4. ScannedOnTime'
  BY <1>1 DEF IInv, ScannedOnTime, Members
<1>5. ASSUME NEW v \in Addrs \ {w} PROVE Used(v)' = Used(v) /\ Current(v)' = Current(v)
  BY DEF Used, Current
<1>6. SessionsInOrder'
  BY <1>5 DEF IInv, SessionsInOrder
<1>7. ASSUME NEW v \in Addrs \ {w} PROVE Coherent(v)'
  <2>1. Coherent(v) /\ SessionsInOrder
    BY DEF IInv
  <2>2. ASSUME IsReading(v) PROVE link'[Current(v)] = link[Current(v)]
    <3>1. Current(v) \in Sessions /\ Current(v)[1] = v
      BY <2>1, <2>2, CurrentSession DEF Coherent
    <3> QED
      BY <3>1
  <2>3. IsReading(v)' = IsReading(v) /\ IsConnected(v)' = IsConnected(v)
    BY DEF IsReading, IsConnected
  <2> QED
    BY <1>1, <1>5, <2>1, <2>2, <2>3 DEF Coherent
<1>8. OfflineIsFinal'
  <2>1. \A id \in Members' : OfflineSent(id)' => OfflineSent(id)
    BY <1>1 DEF OfflineSent, Offline
  <2> QED
    BY <1>1, <2>1, StaysFinal DEF IInv, Members
<1> QED
  BY <1>3, <1>4, <1>6, <1>7, <1>8 DEF IInv

\* Closing a worker's session, or not, changes nothing about which it used.
LEMMA HangKeepsSessions ==
    ASSUME IInv, NEW w \in Addrs, link' = Hang(w)
    PROVE  /\ link' \in [Sessions -> {"none", "open", "cut", "eof", "closed"}]
           /\ \A s \in Sessions : s[1] # w => link'[s] = link[s]
           /\ \E c \in 0..MaxSessions : Used(w)' = {w} \X (1..c)
<1>1. \A s \in Sessions : link'[s] = IF s[1] = w /\ link[s] \in {"open", "cut"} THEN "eof" ELSE link[s]
  BY DEF Hang
<1>2. Used(w)' = Used(w)
  BY <1>1 DEF Used
<1>3. link' \in [Sessions -> {"none", "open", "cut", "eof", "closed"}]
  BY DEF Hang, IInv, WiresTyped
<1> QED
  BY <1>1, <1>2, <1>3 DEF IInv, SessionsInOrder

\* TcpClient::Connect opens the worker's next session, if it does anything.
LEMMA ConnectOpensNext ==
    ASSUME IInv, NEW w \in Addrs, NEW me \in Worker, Connect(w, me),
           me.alive = "on", me.started = worker[w].started, me.conn = worker[w].conn,
           me.lost = worker[w].lost, restarts' = restarts
    PROVE  /\ worker' \in [Addrs -> Worker]
           /\ \A v \in Addrs \ {w} : worker'[v] = worker[v]
           /\ link' \in [Sessions -> {"none", "open", "cut", "eof", "closed"}]
           /\ \A s \in Sessions : s[1] # w => link'[s] = link[s]
           /\ \E c \in 0..MaxSessions : Used(w)' = {w} \X (1..c)
           /\ Coherent(w)'
<1>0. worker \in [Addrs -> Worker] /\ Coherent(w) /\ SessionsInOrder /\ WiresTyped
  BY DEF IInv
<1> DEFINE alone == [me EXCEPT !.failed = @ \/ ~me.started]
<1>1. CASE NotOpened(w, me)
  <2>1. worker' = [worker EXCEPT ![w] = alone] /\ link' = link
    BY <1>1 DEF NotOpened
  <2>2. /\ worker'[w] = alone /\ alone \in Worker /\ alone.alive = "on"
        /\ alone.started = me.started /\ alone.conn = me.conn /\ alone.lost = me.lost
        /\ ~alone.failed => me.started
    BY <1>0, <2>1 DEF Worker
  <2> HIDE DEF alone
  <2>3. Used(w)' = Used(w) /\ Current(w)' = Current(w)
    BY <2>1 DEF Used, Current
  <2>4. Coherent(w)'
    BY <1>0, <2>1, <2>2, <2>3 DEF Coherent, IsReading, IsConnected
  <2>5. \E c \in 0..MaxSessions : Used(w)' = {w} \X (1..c)
    BY <1>0, <2>3 DEF SessionsInOrder
  <2> QED
    BY <1>0, <2>1, <2>2, <2>4, <2>5 DEF WiresTyped
<1>2. CASE OpenSession(w, me)
  <2> DEFINE n == Cardinality(Used(w)) + 1
             you == Connected(w, me)
  <2>1. /\ n <= MaxSessions
        /\ worker' = [worker EXCEPT ![w] = you]
        /\ link' = [Hang(w) EXCEPT ![<<w, n>>] = "open"]
    BY <1>2 DEF OpenSession
  <2>2. PICK c \in 0..MaxSessions : Used(w) = {w} \X (1..c)
    BY <1>0 DEF SessionsInOrder
  <2>3. n = c + 1 /\ c \in Nat /\ c + 1 \in Nat
    <3>1. c \in Nat
      OBVIOUS
    <3>2. Cardinality(Used(w)) = c
      BY <2>2, <3>1, SessionCount
    <3> QED
      BY <3>1, <3>2
  <2>4. you \in Worker
    <3>1. <<Register>> \in Seq(ToServer)
      BY DEF ToServer
    <3>2. now + FirstHeartbeat \in Nat
      BY ClusterAssumption DEF IInv, RegistryTyped
    <3>3. Append(me.chains, now + FirstHeartbeat) \in Seq(Nat)
      BY <3>2, AppendProperties DEF Worker
    <3> QED
      BY <3>1, <3>3 DEF Connected, Worker
  <2>5. /\ worker'[w] = you /\ you.conn = "Connected" /\ you.started
        /\ you.alive = "on"
    BY <1>0, <2>1 DEF Connected, Worker
  <2>6. <<w, n>> \in Sessions
    BY <2>1, <2>2, <2>3 DEF Sessions
  <2>7. \A s \in Sessions :
          link'[s] = IF s = <<w, n>> THEN "open"
                     ELSE IF s[1] = w /\ link[s] \in {"open", "cut"} THEN "eof" ELSE link[s]
    BY <2>1 DEF Hang
  <2>8. Used(w)' = {w} \X (1..(c + 1))
    <3>1. \A s \in Sessions : s \in Used(w)' <=> s \in Used(w) \/ s = <<w, n>>
      BY <2>6, <2>7 DEF Used
    <3>2. Used(w)' \subseteq Sessions /\ {w} \X (1..(c + 1)) \subseteq Sessions
      <4>1. 1..(c + 1) \subseteq 1..MaxSessions
        BY <2>1, <2>3, ClusterAssumption
      <4>2. Used(w)' \subseteq Sessions
        BY DEF Used, Sessions
      <4> QED
        BY <4>1, <4>2 DEF Sessions
    <3>3. \A s \in {w} \X (1..(c + 1)) : s \in {w} \X (1..c) \/ s = <<w, n>>
      BY <2>3
    <3>4. \A s \in {w} \X (1..c) : s \in {w} \X (1..(c + 1))
      BY <2>3
    <3>5. <<w, n>> \in {w} \X (1..(c + 1))
      BY <2>3
    <3> QED
      BY <2>2, <3>1, <3>2, <3>3, <3>4, <3>5
  <2>9. Current(w)' = <<w, n>>
    <3>1. Cardinality({w} \X (1..(c + 1))) = c + 1
      BY <2>3, SessionCount
    <3> QED
      BY <2>3, <2>8, <3>1 DEF Current
  <2>10. Coherent(w)'
    BY <2>5, <2>6, <2>7, <2>8, <2>9, <2>3 DEF Coherent, IsReading, IsConnected
  <2>11. link' \in [Sessions -> {"none", "open", "cut", "eof", "closed"}]
    BY <1>0, <2>1 DEF Hang, WiresTyped
  <2>12. \E d \in 0..MaxSessions : Used(w)' = {w} \X (1..d)
    <3>1. c + 1 \in 0..MaxSessions
      BY <2>1, <2>3, ClusterAssumption
    <3> QED
      BY <2>8, <3>1
  <2>13. \A s \in Sessions : s[1] # w => link'[s] = link[s]
    BY <2>7
  <2>14. worker' \in [Addrs -> Worker] /\ \A v \in Addrs \ {w} : worker'[v] = worker[v]
    BY <1>0, <2>1, <2>4
  <2> QED
    BY <2>10, <2>11, <2>12, <2>13, <2>14
<1> QED
  BY <1>1, <1>2 DEF Connect

-----------------------------------------------------------------------------
(***************************************************************************)
(* The steps of a worker.                                                  *)
(***************************************************************************)
\* A step that leaves the links alone leaves the sessions where they are.
LEMMA LinksKept ==
    ASSUME IInv, NEW w \in Addrs, link' = link
    PROVE  /\ link' \in [Sessions -> {"none", "open", "cut", "eof", "closed"}]
           /\ \E c \in 0..MaxSessions : Used(w)' = {w} \X (1..c)
           /\ Used(w)' = Used(w) /\ Current(w)' = Current(w)
<1>1. Used(w)' = Used(w) /\ Current(w)' = Current(w)
  BY DEF Used, Current
<1> QED
  BY <1>1 DEF IInv, WiresTyped, SessionsInOrder

LEMMA StartKeepsIInv ==
    ASSUME IInv, NEW w \in Addrs, Start(w)
    PROVE  IInv'
<1> DEFINE me == [worker[w] EXCEPT !.alive = "on"]
<1>1. worker[w] \in Worker
  BY DEF IInv
<1>2. me \in Worker /\ me.alive = "on" /\ me.started = worker[w].started
                    /\ me.conn = worker[w].conn /\ me.lost = worker[w].lost
  BY <1>1 DEF Worker
<1>3. Connect(w, me) /\ restarts' = restarts
  BY DEF Start, serverVars
<1> HIDE DEF me
<1>4. /\ worker' \in [Addrs -> Worker]
      /\ \A v \in Addrs \ {w} : worker'[v] = worker[v]
      /\ link' \in [Sessions -> {"none", "open", "cut", "eof", "closed"}]
      /\ \A s \in Sessions : s[1] # w => link'[s] = link[s]
      /\ \E c \in 0..MaxSessions : Used(w)' = {w} \X (1..c)
      /\ Coherent(w)'
  BY <1>2, <1>3, ConnectOpensNext
<1>5. NoCall /\ UNCHANGED <<toServer, toWorker, serverVars>>
  BY DEF Start
<1> QED
  BY <1>4, <1>5, WorkerLeavesOthers DEF IInv, WiresTyped

LEMMA ReconnectTimerKeepsIInv ==
    ASSUME IInv, NEW w \in Addrs, ReconnectTimer(w)
    PROVE  IInv'
<1> DEFINE me == [worker[w] EXCEPT !.reconnects = @ \ {now}]
<1>1. worker[w] \in Worker /\ worker[w].alive = "on"
  BY DEF IInv, ReconnectTimer, Free
<1>2. me \in Worker /\ me.alive = "on" /\ me.started = worker[w].started
                    /\ me.conn = worker[w].conn /\ me.lost = worker[w].lost
  BY <1>1 DEF Worker
<1>3. Connect(w, me) /\ restarts' = restarts
  BY DEF ReconnectTimer, serverVars
<1> HIDE DEF me
<1>4. /\ worker' \in [Addrs -> Worker]
      /\ \A v \in Addrs \ {w} : worker'[v] = worker[v]
      /\ link' \in [Sessions -> {"none", "open", "cut", "eof", "closed"}]
      /\ \A s \in Sessions : s[1] # w => link'[s] = link[s]
      /\ \E c \in 0..MaxSessions : Used(w)' = {w} \X (1..c)
      /\ Coherent(w)'
  BY <1>2, <1>3, ConnectOpensNext
<1>5. NoCall /\ UNCHANGED <<toServer, toWorker, serverVars>>
  BY DEF ReconnectTimer
<1> QED
  BY <1>4, <1>5, WorkerLeavesOthers DEF IInv, WiresTyped

\* A step that changes neither m_started nor the connection of the worker.
LEMMA SameConnection ==
    ASSUME IInv, NEW w \in Addrs, UNCHANGED <<link, restarts>>,
           worker'[w].conn = worker[w].conn,
           worker'[w].started = worker[w].started,
           \/ worker'[w].alive = worker[w].alive
           \/ worker'[w].alive = "dying",
           worker'[w].reconnects = worker[w].reconnects,
           worker'[w].lost = worker[w].lost,
           worker'[w].failed = worker[w].failed
    PROVE  Coherent(w)'
<1>1. Used(w)' = Used(w) /\ Current(w)' = Current(w)
  BY LinksKept
<1>2. IsReading(w)' = IsReading(w) /\ IsConnected(w)' = IsConnected(w)
  BY DEF IsReading, IsConnected
<1> QED
  BY <1>1, <1>2 DEF IInv, Coherent

LEMMA FlushKeepsIInv ==
    ASSUME IInv, NEW w \in Addrs, Flush(w)
    PROVE  IInv'
<1>1. worker \in [Addrs -> Worker] /\ Coherent(w) /\ SessionsInOrder /\ WiresTyped
  BY DEF IInv
<1>2. /\ worker' = [worker EXCEPT ![w].out = <<>>]
      /\ NoCall /\ UNCHANGED <<toWorker, link, serverVars>>
  BY DEF Flush
<1>3. Current(w) \in Sessions
  BY <1>1, CurrentSession DEF Flush, Coherent, IsConnected, IsReading
<1>4. toServer' \in [Sessions -> Seq(ToServer)]
  <2>1. toServer[Current(w)] \in Seq(ToServer) /\ worker[w].out \in Seq(ToServer)
    BY <1>1, <1>3 DEF WiresTyped, Worker
  <2>2. toServer[Current(w)] \o worker[w].out \in Seq(ToServer)
    BY <2>1, ConcatElements
  <2> QED
    BY <1>1, <2>2 DEF Flush, WiresTyped
<1>5. worker'[w] = [worker[w] EXCEPT !.out = <<>>] /\ worker[w] \in Worker
  BY <1>1, <1>2
<1>6. worker' \in [Addrs -> Worker] /\ \A v \in Addrs \ {w} : worker'[v] = worker[v]
  <2>1. <<>> \in Seq(ToServer)
    BY EmptySeq
  <2>2. worker'[w] \in Worker
    BY <1>5, <2>1 DEF Worker
  <2> QED
    BY <1>1, <1>2, <2>2
<1>7. Coherent(w)'
  <2>1. /\ worker'[w].conn = worker[w].conn /\ worker'[w].started = worker[w].started
        /\ worker'[w].alive = worker[w].alive
        /\ worker'[w].reconnects = worker[w].reconnects
        /\ worker'[w].lost = worker[w].lost /\ worker'[w].failed = worker[w].failed
    BY <1>5 DEF Worker
  <2> QED
    BY <1>2, <2>1, SameConnection DEF serverVars
<1> QED
  BY <1>1, <1>2, <1>4, <1>6, <1>7, LinksKept, WorkerLeavesOthers DEF WiresTyped

LEMMA HeartbeatTimerKeepsIInv ==
    ASSUME IInv, NEW w \in Addrs, NEW i \in DOMAIN worker[w].chains, HeartbeatTimer(w, i)
    PROVE  IInv'
<1>1. worker \in [Addrs -> Worker] /\ worker[w] \in Worker /\ WiresTyped
  BY DEF IInv
<1>2. NoCall /\ UNCHANGED <<toServer, toWorker, link, serverVars>>
  BY DEF HeartbeatTimer
<1> DEFINE beats == [worker[w].chains EXCEPT ![i] = now + HeartbeatPeriod]
           sent  == IF worker[w].id # NoId /\ IsConnected(w)
                      THEN Append(worker[w].out, Heartbeat(worker[w].id)) ELSE worker[w].out
<1>3. beats \in Seq(Nat)
  <2>1. now + HeartbeatPeriod \in Nat
    BY ClusterAssumption DEF IInv, RegistryTyped
  <2>2. worker[w].chains \in Seq(Nat) /\ i \in 1..Len(worker[w].chains)
    BY <1>1 DEF Worker
  <2> QED
    BY <2>1, <2>2, ExceptSeq
<1>4. sent \in Seq(ToServer)
  <2>1. worker[w].out \in Seq(ToServer)
    BY <1>1 DEF Worker
  <2>2. ASSUME worker[w].id # NoId PROVE Heartbeat(worker[w].id) \in ToServer
    BY <1>1, <2>2 DEF Worker, ToServer
  <2> QED
    BY <2>1, <2>2, AppendProperties
<1>5. worker'[w] = [worker[w] EXCEPT !.chains = beats, !.out = sent]
  BY <1>1 DEF HeartbeatTimer, Worker
<1>6. worker' \in [Addrs -> Worker] /\ \A v \in Addrs \ {w} : worker'[v] = worker[v]
  <2>1. worker'[w] \in Worker
    <3> HIDE DEF beats, sent
    <3> QED
      BY <1>1, <1>3, <1>4, <1>5 DEF Worker
  <2>2. worker' = [v \in Addrs |-> worker'[v]] /\ \A v \in Addrs \ {w} : worker'[v] = worker[v]
    BY <1>1 DEF HeartbeatTimer
  <2> QED
    BY <1>1, <2>1, <2>2
<1>7. Coherent(w)'
  BY <1>1, <1>2, <1>5, SameConnection DEF Worker, serverVars
<1> QED
  BY <1>1, <1>2, <1>6, <1>7, LinksKept, WorkerLeavesOthers DEF WiresTyped

LEMMA ReadKeepsIInv ==
    ASSUME IInv, NEW w \in Addrs, Read(w)
    PROVE  IInv'
<1>1. worker \in [Addrs -> Worker] /\ worker[w] \in Worker /\ WiresTyped
  BY DEF IInv
<1>2. NoCall /\ UNCHANGED <<toServer, link, serverVars>>
  BY DEF Read
<1> DEFINE q == toWorker[Current(w)]
<1>3. PICK n \in 1..Len(q) :
        /\ worker' = [worker EXCEPT ![w].inbox = SubSeq(q, 1, n)]
        /\ toWorker' = [toWorker EXCEPT ![Current(w)] = SubSeq(@, n + 1, Len(@))]
  BY DEF Read
<1>4. Current(w) \in Sessions
  BY CurrentSession DEF IInv, Read, Coherent
<1>5. q \in Seq(ToWorker)
  BY <1>1, <1>4 DEF WiresTyped
<1>6. /\ SubSeq(q, 1, n) \in Seq(ToWorker)
      /\ SubSeq(q, n + 1, Len(q)) \in Seq(ToWorker)
      /\ Range0(SubSeq(q, n + 1, Len(q))) \subseteq Range0(q)
  <2> HIDE DEF q
  <2> QED
    BY <1>5, SplitElements
<1>7. /\ toWorker' \in [Sessions -> Seq(ToWorker)]
      /\ \A s \in Sessions : Range0(toWorker'[s]) \subseteq Range0(toWorker[s])
  <2>1. /\ toWorker'[Current(w)] = SubSeq(q, n + 1, Len(q))
        /\ \A s \in Sessions \ {Current(w)} : toWorker'[s] = toWorker[s]
        /\ toWorker' = [s \in Sessions |-> toWorker'[s]]
    BY <1>1, <1>3, <1>4 DEF WiresTyped
  <2>2. \A s \in Sessions : toWorker'[s] \in Seq(ToWorker)
    BY <1>1, <1>6, <2>1 DEF WiresTyped
  <2> QED
    BY <1>6, <2>1, <2>2
<1>8. worker'[w] = [worker[w] EXCEPT !.inbox = SubSeq(q, 1, n)]
  BY <1>1, <1>3
<1>9. worker' \in [Addrs -> Worker] /\ \A v \in Addrs \ {w} : worker'[v] = worker[v]
  <2>1. worker'[w] \in Worker
    BY <1>1, <1>6, <1>8 DEF Worker
  <2> QED
    BY <1>1, <1>3, <2>1
<1>10. Coherent(w)'
  BY <1>1, <1>2, <1>8, SameConnection DEF Worker, serverVars
<1> QED
  BY <1>1, <1>2, <1>7, <1>9, <1>10, LinksKept, WorkerLeavesOthers DEF WiresTyped

\* A refused heartbeat gives the connection up, and leaves a timer behind.
LEMMA RefusalKeepsCoherent ==
    ASSUME IInv, NEW w \in Addrs, NEW me \in Worker,
           me.alive = "on", me.out = worker[w].out, me.conn = worker[w].conn,
           me.lost = worker[w].lost, worker[w].alive = "on", restarts' = restarts,
           worker'[w] = [Disconnected(me) EXCEPT !.reconnects = @ \cup {now + ReconnectDelay}],
           link' = LinkAfterDisconnect(w)
    PROVE  /\ worker'[w] \in Worker
           /\ link' \in [Sessions -> {"none", "open", "cut", "eof", "closed"}]
           /\ \A s \in Sessions : s[1] # w => link'[s] = link[s]
           /\ \E c \in 0..MaxSessions : Used(w)' = {w} \X (1..c)
           /\ Coherent(w)'
<1>1. WiresTyped /\ SessionsInOrder /\ Coherent(w) /\ now + ReconnectDelay \in Nat
  BY ClusterAssumption DEF IInv, RegistryTyped
<1> DEFINE left == CASE me.conn = "Connected" /\ me.out = <<>> -> "Disconnected"
                     [] me.conn = "Connected" /\ me.out # <<>> -> "Disconnecting"
                     [] OTHER -> me.conn
<1>2. worker'[w] = [me EXCEPT !.started = FALSE, !.conn = left,
                              !.reconnects = @ \cup {now + ReconnectDelay}]
  BY DEF Disconnected, Worker
<1>3. /\ left \in {"none", "Disconnecting", "Disconnected"}
      /\ left = "Disconnecting" => IsReading(w) /\ ~(IsConnected(w) /\ worker[w].out = <<>>)
  BY DEF Worker, IsReading, IsConnected
<1> HIDE DEF left
<1>4. /\ worker'[w] \in Worker /\ worker'[w].conn = left /\ worker'[w].alive = "on"
      /\ worker'[w].reconnects # {} /\ ~worker'[w].started
      /\ worker'[w].lost = worker[w].lost
  <2> DEFINE timers == me.reconnects \cup {now + ReconnectDelay}
  <2>1. timers \in SUBSET Nat /\ timers # {}
    BY <1>1 DEF Worker
  <2>2. worker'[w] = [me EXCEPT !.started = FALSE, !.conn = left, !.reconnects = timers]
    BY <1>2 DEF Worker
  <2> HIDE DEF timers
  <2> QED
    BY <1>3, <2>1, <2>2 DEF Worker
<1>5. CASE IsConnected(w) /\ worker[w].out = <<>>
  <2>1. link' = [link EXCEPT ![Current(w)] = "eof"]
    BY <1>5 DEF LinkAfterDisconnect
  <2>2. Current(w) \in Sessions /\ Current(w)[1] = w /\ link[Current(w)] # "none"
    BY <1>1, <1>5, CurrentSession DEF Coherent, IsConnected, IsReading
  <2>3. /\ link' \in [Sessions -> {"none", "open", "cut", "eof", "closed"}]
        /\ \A s \in Sessions : s[1] # w => link'[s] = link[s]
    BY <1>1, <2>1, <2>2 DEF WiresTyped
  <2>4. Used(w)' = Used(w)
    BY <1>1, <2>1, <2>2 DEF Used, WiresTyped
  <2>5. \E c \in 0..MaxSessions : Used(w)' = {w} \X (1..c)
    BY <1>1, <2>4 DEF SessionsInOrder
  <2>6. Coherent(w)'
    BY <1>3, <1>4, <1>5 DEF Coherent, IsConnected, IsReading
  <2> QED
    BY <1>4, <2>3, <2>5, <2>6
<1>6. CASE ~(IsConnected(w) /\ worker[w].out = <<>>)
  <2>1. link' = link
    BY <1>6 DEF LinkAfterDisconnect
  <2>2. /\ link' \in [Sessions -> {"none", "open", "cut", "eof", "closed"}]
        /\ \E c \in 0..MaxSessions : Used(w)' = {w} \X (1..c)
        /\ Used(w)' = Used(w) /\ Current(w)' = Current(w)
    BY <2>1, LinksKept
  <2>3. Coherent(w)'
    BY <1>1, <1>3, <1>4, <2>1, <2>2 DEF Coherent, IsConnected, IsReading
  <2> QED
    BY <1>4, <2>1, <2>2, <2>3
<1> QED
  BY <1>5, <1>6

LEMMA HandlePacketKeepsIInv ==
    ASSUME IInv, NEW w \in Addrs, HandlePacket(w)
    PROVE  IInv'
<1>1. worker \in [Addrs -> Worker] /\ worker[w] \in Worker /\ WiresTyped
  BY DEF IInv
<1> DEFINE me   == [worker[w] EXCEPT !.inbox = Tail(@)]
           p    == Head(worker[w].inbox)
           nack == p.type = "HEARTBEAT_RESP" /\ ~p.ack
<1>2. p \in ToWorker /\ Tail(worker[w].inbox) \in Seq(ToWorker)
  BY <1>1, HeadTailProperties DEF HandlePacket, Worker
<1>3. /\ me \in Worker /\ me.alive = "on" /\ me.out = worker[w].out
      /\ me.conn = worker[w].conn /\ me.started = worker[w].started
      /\ me.reconnects = worker[w].reconnects /\ worker[w].alive = "on"
      /\ me.lost = worker[w].lost /\ me.failed = worker[w].failed
  BY <1>1, <1>2 DEF HandlePacket, Worker
<1>4. NoCall /\ UNCHANGED <<toServer, toWorker, serverVars>>
  BY DEF HandlePacket
<1>5. worker' = [v \in Addrs |-> worker'[v]] /\ \A v \in Addrs \ {w} : worker'[v] = worker[v]
  BY <1>1 DEF HandlePacket
<1>6. /\ worker'[w] \in Worker
      /\ link' \in [Sessions -> {"none", "open", "cut", "eof", "closed"}]
      /\ \A s \in Sessions : s[1] # w => link'[s] = link[s]
      /\ \E c \in 0..MaxSessions : Used(w)' = {w} \X (1..c)
      /\ Coherent(w)'
  <2>1. CASE p.type = "REGISTER_RESP"
    <3>1. worker'[w] = Adopted(me, p.node_id) /\ link' = link
      BY <1>1, <2>1 DEF HandlePacket
    <3>2. p.node_id \in Issued
      BY <1>2, <2>1, PacketIds
    <3> HIDE DEF me, p
    <3>3. worker'[w] \in Worker /\ worker'[w].conn = me.conn /\ worker'[w].alive = me.alive
           /\ worker'[w].started = me.started /\ worker'[w].reconnects = me.reconnects
           /\ worker'[w].lost = me.lost /\ worker'[w].failed = me.failed
      BY <1>3, <3>1, <3>2 DEF Adopted, Worker
    <3>4. Coherent(w)'
      BY <1>3, <1>4, <3>1, <3>3, SameConnection DEF serverVars
    <3> QED
      BY <3>1, <3>3, <3>4, LinksKept
  <2>2. CASE nack
    <3>1. /\ worker'[w] = [Disconnected(me) EXCEPT !.reconnects = @ \cup {now + ReconnectDelay}]
          /\ link' = LinkAfterDisconnect(w)
      BY <1>1, <2>2 DEF HandlePacket
    <3> HIDE DEF me, p, nack
    <3> QED
      BY <1>3, <1>4, <3>1, RefusalKeepsCoherent DEF serverVars
  <2>3. CASE p.type # "REGISTER_RESP" /\ ~nack
    <3>1. worker'[w] = me /\ link' = link
      BY <1>1, <2>3 DEF HandlePacket
    <3> HIDE DEF me, p, nack
    <3>2. Coherent(w)'
      BY <1>3, <1>4, <3>1, SameConnection DEF serverVars
    <3> QED
      BY <1>3, <3>1, <3>2, LinksKept
  <2> QED
    BY <2>1, <2>2, <2>3
<1>7. worker' \in [Addrs -> Worker]
  BY <1>1, <1>5, <1>6
<1> HIDE DEF me, p, nack
<1> QED
  BY <1>1, <1>4, <1>5, <1>6, <1>7, WorkerLeavesOthers DEF WiresTyped

\* A connection that breaks is one that was lost.
LEMMA LoseKeepsIInv ==
    ASSUME IInv, NEW w \in Addrs, Lose(w)
    PROVE  IInv'
<1>1. /\ worker \in [Addrs -> Worker] /\ worker[w] \in Worker /\ WiresTyped
      /\ SessionsInOrder /\ Coherent(w)
  BY DEF IInv
<1>2. NoCall /\ UNCHANGED <<toServer, toWorker, serverVars>>
  BY DEF Lose
<1>3. worker' = [worker EXCEPT ![w].lost = TRUE] /\ link' = [link EXCEPT ![Current(w)] = "cut"]
  BY DEF Lose
<1>4. worker'[w] = [worker[w] EXCEPT !.lost = TRUE]
  BY <1>1, <1>3
<1>5. worker'[w] \in Worker
  BY <1>1, <1>4 DEF Worker
<1>6. worker' \in [Addrs -> Worker] /\ \A v \in Addrs \ {w} : worker'[v] = worker[v]
  BY <1>1, <1>3, <1>5
<1>7. Current(w) \in Sessions /\ Current(w)[1] = w /\ link[Current(w)] # "none"
  BY <1>1, CurrentSession DEF Lose, Coherent
<1>8. /\ link' \in [Sessions -> {"none", "open", "cut", "eof", "closed"}]
      /\ \A s \in Sessions : s[1] # w => link'[s] = link[s]
  BY <1>1, <1>3, <1>7 DEF WiresTyped
<1>9. Used(w)' = Used(w)
  BY <1>1, <1>3, <1>7 DEF Used, WiresTyped
<1>10. \E c \in 0..MaxSessions : Used(w)' = {w} \X (1..c)
  BY <1>1, <1>9 DEF SessionsInOrder
<1>11. Coherent(w)'
  BY <1>1, <1>4, <1>9 DEF Coherent, IsConnected, IsReading, Worker
<1> QED
  BY <1>1, <1>2, <1>6, <1>8, <1>10, <1>11, WorkerLeavesOthers DEF WiresTyped

\* End of file comes only after the server was restarted or the connection broke.
LEMMA ReadEofKeepsIInv ==
    ASSUME IInv, NEW w \in Addrs, ReadEof(w)
    PROVE  IInv'
<1>1. worker \in [Addrs -> Worker] /\ worker[w] \in Worker /\ WiresTyped /\ Coherent(w)
  BY DEF IInv
<1>2. /\ NoCall /\ UNCHANGED <<toServer, serverVars>>
      /\ link' = Hang(w) /\ toWorker' = [toWorker EXCEPT ![Current(w)] = <<>>]
  BY DEF ReadEof
<1>3. <<>> \in Seq(ToServer) /\ <<>> \in Seq(ToWorker) /\ Range0(<<>>) = {}
  BY EmptySeq DEF Range0
<1>4. /\ worker' = [worker EXCEPT ![w] = worker'[w]]
      /\ worker'[w] = [worker[w] EXCEPT !.conn = "none", !.started = FALSE, !.out = <<>>]
  BY <1>1 DEF ReadEof
<1>5. worker'[w] \in Worker
  BY <1>1, <1>3, <1>4 DEF Worker
<1>6. worker' \in [Addrs -> Worker] /\ \A v \in Addrs \ {w} : worker'[v] = worker[v]
  BY <1>1, <1>4, <1>5
<1>7. restarts' # 0 \/ worker'[w].lost
  BY <1>1, <1>2, <1>4 DEF ReadEof, Coherent, serverVars, Worker
<1>8. Coherent(w)'
  BY <1>1, <1>4, <1>7 DEF Coherent, IsConnected, IsReading, Worker
<1>9. /\ toWorker' \in [Sessions -> Seq(ToWorker)]
      /\ \A s \in Sessions : Range0(toWorker'[s]) \subseteq Range0(toWorker[s])
  BY <1>1, <1>2, <1>3 DEF WiresTyped
<1> QED
  BY <1>1, <1>2, <1>6, <1>8, <1>9, HangKeepsSessions, WorkerLeavesOthers DEF WiresTyped

\* A process that dies takes its end of the connection with it.
LEMMA DeathKeepsIInv ==
    ASSUME IInv, NEW w \in Addrs, NoCall, UNCHANGED <<toServer, serverVars>>,
           NEW me \in Worker, worker' = [worker EXCEPT ![w] = me], me.conn = "none",
           me.alive \in {"off", "gone"}, ~me.started,
           link' = Hang(w),
           toWorker' = [s \in Sessions |-> IF s[1] = w THEN <<>> ELSE toWorker[s]]
    PROVE  IInv'
<1>1. worker \in [Addrs -> Worker] /\ WiresTyped
  BY DEF IInv
<1>2. /\ link' \in [Sessions -> {"none", "open", "cut", "eof", "closed"}]
      /\ \A s \in Sessions : s[1] # w => link'[s] = link[s]
      /\ \E c \in 0..MaxSessions : Used(w)' = {w} \X (1..c)
  BY HangKeepsSessions
<1>3. /\ worker' \in [Addrs -> Worker] /\ worker'[w] = me
      /\ \A v \in Addrs \ {w} : worker'[v] = worker[v]
  BY <1>1
<1>4. /\ toWorker' \in [Sessions -> Seq(ToWorker)]
      /\ \A s \in Sessions : Range0(toWorker'[s]) \subseteq Range0(toWorker[s])
  <2>1. <<>> \in Seq(ToWorker) /\ Range0(<<>>) = {}
    BY EmptySeq DEF Range0
  <2> QED
    BY <1>1, <2>1 DEF WiresTyped
<1>5. Coherent(w)'
  BY <1>3 DEF Coherent, IsConnected, IsReading
<1> QED
  BY <1>1, <1>2, <1>3, <1>4, <1>5, WorkerLeavesOthers DEF WiresTyped

LEMMA CrashKeepsIInv ==
    ASSUME IInv, NEW w \in Addrs, Crash(w)
    PROVE  IInv'
<1> DEFINE me == [Off EXCEPT !.lost = TRUE, !.failed = worker[w].failed]
<1>1. me \in Worker /\ me.conn = "none" /\ me.alive = "off" /\ ~me.started
  BY EmptySeq DEF Off, Worker, IInv
<1>2. /\ NoCall /\ UNCHANGED <<toServer, serverVars>>
      /\ worker' = [worker EXCEPT ![w] = me]
      /\ link' = Hang(w)
      /\ toWorker' = [s \in Sessions |-> IF s[1] = w THEN <<>> ELSE toWorker[s]]
  BY DEF Crash
<1> HIDE DEF me
<1> QED
  BY <1>1, <1>2, DeathKeepsIInv

LEMMA BeginDestroyKeepsIInv ==
    ASSUME IInv, NEW w \in Addrs, BeginDestroy(w)
    PROVE  IInv'
<1>1. worker \in [Addrs -> Worker] /\ worker[w] \in Worker /\ WiresTyped
  BY DEF IInv
<1>2. NoCall /\ UNCHANGED <<toServer, toWorker, link, serverVars>>
  BY DEF BeginDestroy
<1> DEFINE sent == IF worker[w].id # NoId /\ IsConnected(w)
                     THEN Append(worker[w].out, Farewell(worker[w].id)) ELSE worker[w].out
<1>3. sent \in Seq(ToServer)
  <2>1. worker[w].out \in Seq(ToServer)
    BY <1>1 DEF Worker
  <2>2. ASSUME worker[w].id # NoId PROVE Farewell(worker[w].id) \in ToServer
    BY <1>1, <2>2 DEF Worker, ToServer
  <2> QED
    BY <2>1, <2>2, AppendProperties
<1>4. worker'[w] = [worker[w] EXCEPT !.alive = "dying", !.out = sent]
  BY <1>1 DEF BeginDestroy, Worker
<1>5. worker' \in [Addrs -> Worker] /\ \A v \in Addrs \ {w} : worker'[v] = worker[v]
  <2>1. worker'[w] \in Worker
    <3> HIDE DEF sent
    <3> QED
      BY <1>1, <1>3, <1>4 DEF Worker
  <2>2. worker' = [v \in Addrs |-> worker'[v]] /\ \A v \in Addrs \ {w} : worker'[v] = worker[v]
    BY <1>1 DEF BeginDestroy
  <2> QED
    BY <1>1, <2>1, <2>2
<1>6. Coherent(w)'
  BY <1>1, <1>2, <1>4, SameConnection DEF Worker, serverVars
<1> QED
  BY <1>1, <1>2, <1>5, <1>6, LinksKept, WorkerLeavesOthers DEF WiresTyped

LEMMA EndDestroyKeepsIInv ==
    ASSUME IInv, NEW w \in Addrs, EndDestroy(w)
    PROVE  IInv'
<1> DEFINE last == IF IsConnected(w) THEN worker[w].id ELSE NoId
           me   == [Off EXCEPT !.alive = "gone", !.id = last]
<1>1. last \in Issued \cup {NoId}
  BY DEF IInv, Worker
<1>2. me \in Worker /\ me.conn = "none" /\ me.alive = "gone" /\ ~me.started
  <2> HIDE DEF last
  <2> QED
    BY <1>1, EmptySeq DEF Off, Worker
<1>3. /\ NoCall /\ UNCHANGED <<toServer, serverVars>>
      /\ worker' = [worker EXCEPT ![w] = me]
      /\ link' = Hang(w)
      /\ toWorker' = [s \in Sessions |-> IF s[1] = w THEN <<>> ELSE toWorker[s]]
  BY DEF EndDestroy
<1> HIDE DEF me
<1> QED
  BY <1>2, <1>3, DeathKeepsIInv

-----------------------------------------------------------------------------
(***************************************************************************)
(* The steps of the server.                                                *)
(***************************************************************************)
LEMMA ServerKeepsIInv ==
    ASSUME IInv, UNCHANGED <<worker, link, restarts>>,
           stamp <= stamp', RegistryTyped', ServerTyped',
           toServer' \in [Sessions -> Seq(ToServer')],
           toWorker' \in [Sessions -> Seq(ToWorker')],
           ScannedOnTime', OfflineIsFinal'
    PROVE  IInv'
<1>1. stamp \in Nat /\ stamp' \in Nat
  BY RegistryAssumption DEF IInv, RegistryTyped
<1>2. worker' \in [Addrs -> Worker']
  BY <1>1, TypesGrow DEF IInv
<1>3. SessionsInOrder' /\ \A w \in Addrs : Coherent(w)'
  BY ServerLeavesWorkers
<1> QED
  BY <1>2, <1>3 DEF IInv, WiresTyped

\* What the server takes from a connection is a packet some worker sent.
LEMMA ReceivedPacket ==
    ASSUME WiresTyped, NEW s \in Sessions, NEW type, Receives(s, type)
    PROVE  /\ Head(toServer[s]) \in ToServer /\ Head(toServer[s]).type = type
           /\ toServer' \in [Sessions -> Seq(ToServer)]
<1>1. toServer[s] \in Seq(ToServer) /\ toServer[s] # <<>>
  BY DEF WiresTyped, Receives
<1>2. Head(toServer[s]) \in ToServer /\ Tail(toServer[s]) \in Seq(ToServer)
  BY <1>1, HeadTailProperties
<1> QED
  BY <1>2 DEF WiresTyped, Receives

\* A connection delivers what was on it before and what was sent now.
LEMMA SentPackets ==
    ASSUME NEW S, NEW packets \in Seq(S), NEW s, toWorker[s] \in Seq(S)
    PROVE  /\ To(s, packets) \in Seq(S)
           /\ Range0(To(s, packets)) \subseteq Range0(toWorker[s]) \cup Range0(packets)
BY ConcatElements DEF To

LEMMA OnePacket ==
    ASSUME NEW S, NEW p \in S
    PROVE  <<p>> \in Seq(S) /\ Range0(<<p>>) = {p}
BY DEF Range0

\* Only ids that were issued are ever announced.
LEMMA AnnouncedIssued ==
    ASSUME ServerTyped, WiresTyped, NEW id, OfflineSent(id)
    PROVE  id \in Issued
<1>1. CASE id \in scanned
  BY <1>1 DEF ServerTyped
<1>2. ASSUME NEW s \in Sessions, handler[s] = [step |-> "broadcast", id |-> id]
      PROVE  id \in Issued
  BY <1>2 DEF ServerTyped, Handler, Idle
<1>3. ASSUME NEW s \in Sessions, Offline(id) \in Range0(toWorker[s])
      PROVE  id \in Issued
  <2>1. Offline(id) \in ToWorker
    BY <1>3 DEF WiresTyped, Range0
  <2> QED
    BY <2>1 DEF ToWorker, Offline, RegisterResp, HeartbeatResp
<1> QED
  BY <1>1, <1>2, <1>3 DEF OfflineSent

\* A registration gets an id that nobody can have announced.
LEMMA HandleRegisterKeepsIInv ==
    ASSUME IInv, NEW s \in Sessions, HandleRegister(s)
    PROVE  IInv'
<1> DEFINE id == <<s[1], stamp + 1>>
<1>1. RegistryTyped /\ ServerTyped /\ WiresTyped /\ ScannedOnTime /\ OfflineIsFinal
  BY DEF IInv
<1>2. /\ stamp < MaxStamp /\ stamp' = stamp + 1 /\ now' = now
      /\ ret'.node_id = id
      /\ Members' = Members \cup {id}
      /\ m_nodes' = [i \in Members' |-> m_nodes'[i]]
      /\ m_nodes'[id] = [support_models |-> Models0, available_memory_mb |-> Memory0,
                         status |-> "ONLINE", last_heartbeat |-> now]
      /\ \A i \in Members \ {id} : m_nodes'[i] = m_nodes[i]
  BY DEF HandleRegister, RegisterWorker, Members
<1>3. stamp \in Nat /\ stamp' \in Nat /\ stamp <= stamp' /\ stamp' \in 0..MaxStamp
  BY <1>1, <1>2, RegistryAssumption DEF RegistryTyped
<1>4. id \in Issued' /\ id \notin Issued
  <2>1. s[1] \in Addrs
    BY DEF Sessions
  <2> QED
    BY <1>2, <1>3, <2>1 DEF Issued
<1>5. /\ Issued \subseteq Issued'
      /\ \A q \in Seq(ToServer) : q \in Seq(ToServer')
      /\ \A q \in Seq(ToWorker) : q \in Seq(ToWorker')
      /\ Handler \subseteq Handler'
  BY <1>3, TypesGrow
<1>6. RegistryTyped'
  <2>1. m_nodes'[id] \in RegistryNodeInfo
    BY <1>1, <1>2, RegistryAssumption, ClusterAssumption DEF RegistryNodeInfo, RegistryTyped
  <2>2. \A i \in Members' : m_nodes'[i] \in RegistryNodeInfo
    BY <1>1, <1>2, <2>1 DEF RegistryTyped
  <2>3. Members' \subseteq Issued'
    BY <1>1, <1>2, <1>4, <1>5 DEF RegistryTyped
  <2>4. IsFiniteSet(Members')
    BY <1>1, <1>2, FS_AddElement DEF RegistryTyped
  <2> QED
    BY <1>1, <1>2, <1>3, <2>2, <2>3, <2>4 DEF RegistryTyped
<1>7. ServerTyped'
  BY <1>1, <1>5 DEF ServerTyped, HandleRegister, serverVars
<1>8. toServer' \in [Sessions -> Seq(ToServer')]
  <2>1. toServer' \in [Sessions -> Seq(ToServer)]
    BY <1>1, ReceivedPacket DEF HandleRegister
  <2> QED
    BY <1>5, <2>1
<1>9. /\ toWorker' \in [Sessions -> Seq(ToWorker')]
      /\ \A r \in Sessions :
           Range0(toWorker'[r]) \subseteq Range0(toWorker[r]) \cup {RegisterResp(id)}
  <2>1. toWorker' = [toWorker EXCEPT ![s] = To(s, <<RegisterResp(id)>>)]
    BY <1>2 DEF HandleRegister, Reply
  <2>2. RegisterResp(id) \in ToWorker'
    BY <1>4 DEF ToWorker
  <2>3. <<RegisterResp(id)>> \in Seq(ToWorker') /\ Range0(<<RegisterResp(id)>>) = {RegisterResp(id)}
    BY <2>2, OnePacket
  <2>4. toWorker \in [Sessions -> Seq(ToWorker')]
    BY <1>1, <1>5 DEF WiresTyped
  <2>5. /\ To(s, <<RegisterResp(id)>>) \in Seq(ToWorker')
        /\ Range0(To(s, <<RegisterResp(id)>>)) \subseteq Range0(toWorker[s]) \cup {RegisterResp(id)}
    BY <2>3, <2>4, SentPackets
  <2> HIDE DEF id
  <2> QED
    BY <2>1, <2>4, <2>5
<1>10. ScannedOnTime'
  <2>1. scanDue' = scanDue
    BY DEF HandleRegister, serverVars
  <2>2. now \in Nat /\ scanDue \in Nat /\ HeartbeatTimeout \in Nat /\ ScanPeriod \in Nat
    BY <1>1, RegistryAssumption, ClusterAssumption DEF RegistryTyped, ServerTyped
  <2>3. /\ m_nodes'[id].last_heartbeat <= now
        /\ scanDue - ScanPeriod - HeartbeatTimeout <= m_nodes'[id].last_heartbeat
    BY <1>1, <1>2, <2>2 DEF ScannedOnTime
  <2> QED
    BY <1>1, <1>2, <2>1, <2>3 DEF ScannedOnTime
<1>11. OfflineIsFinal'
  <2> SUFFICES ASSUME NEW i \in Members', OfflineSent(i)' PROVE FALSE
    BY DEF OfflineIsFinal, Members
  <2>1. \A r \in Sessions : Offline(i) \in Range0(toWorker'[r]) => Offline(i) \in Range0(toWorker[r])
    BY <1>9 DEF Offline, RegisterResp
  <2>2. OfflineSent(i)
    BY <2>1 DEF OfflineSent, HandleRegister, serverVars, Offline
  <2>3. i \in Issued
    BY <1>1, <2>2, AnnouncedIssued
  <2> QED
    BY <1>1, <1>2, <1>4, <2>2, <2>3 DEF OfflineIsFinal, Members
<1> QED
  BY <1>3, <1>6, <1>7, <1>8, <1>9, <1>10, <1>11, ServerKeepsIInv DEF HandleRegister, serverVars

\* Steps of the server during which no node joins: what is left to show is that
\* the packets and the handlers are of their types and that nobody listed is
\* announced.
LEMMA NobodyJoinsKeepsIInv ==
    ASSUME IInv, UNCHANGED <<worker, link, restarts, stamp, now>>,
           Members' \subseteq Members, m_nodes' \in [Members' -> RegistryNodeInfo],
           handler' \in [Sessions -> Handler], scanned' \subseteq Issued, IsFiniteSet(scanned'),
           scanDue' \in Nat,
           toServer' \in [Sessions -> Seq(ToServer)],
           toWorker' \in [Sessions -> Seq(ToWorker)],
           ScannedOnTime', OfflineIsFinal'
    PROVE  IInv'
<1>1. UNCHANGED <<Issued, ToServer, ToWorker, Handler>>
  BY TypesKept
<1>2. RegistryTyped' /\ ServerTyped'
  <2>1. IsFiniteSet(Members')
    BY FS_Subset DEF IInv, RegistryTyped
  <2> QED
    BY <1>1, <2>1 DEF IInv, RegistryTyped, ServerTyped, Members
<1>3. stamp <= stamp'
  BY DEF IInv, RegistryTyped
<1> QED
  BY <1>1, <1>2, <1>3, ServerKeepsIInv

\* An answer to a heartbeat announces nothing.
LEMMA AnswerIsNoAnnouncement ==
    ASSUME IInv, NEW s \in Sessions, NEW ack \in BOOLEAN,
           toWorker' = Reply(s, HeartbeatResp(ack))
    PROVE  /\ toWorker' \in [Sessions -> Seq(ToWorker)]
           /\ \A r \in Sessions : \A id : Offline(id) \in Range0(toWorker'[r])
                                        => Offline(id) \in Range0(toWorker[r])
<1> DEFINE p == HeartbeatResp(ack)
<1>1. p \in ToWorker
  BY DEF ToWorker
<1>2. <<p>> \in Seq(ToWorker) /\ Range0(<<p>>) = {p}
  BY <1>1, OnePacket
<1>3. toWorker \in [Sessions -> Seq(ToWorker)]
  BY DEF IInv, WiresTyped
<1>4. To(s, <<p>>) \in Seq(ToWorker) /\ Range0(To(s, <<p>>)) \subseteq Range0(toWorker[s]) \cup {p}
  <2> HIDE DEF p
  <2> QED
    BY <1>2, <1>3, SentPackets
<1>5. \A id : Offline(id) # p
  BY DEF Offline, HeartbeatResp
<1> HIDE DEF p
<1>6. toWorker' = [toWorker EXCEPT ![s] = To(s, <<p>>)]
  BY DEF Reply, p
<1> QED
  BY <1>3, <1>4, <1>5, <1>6

\* Handling a heartbeat only asks.
LEMMA HandleHeartbeatKeepsIInv ==
    ASSUME IInv, NEW s \in Sessions, HandleHeartbeat(s)
    PROVE  IInv'
<1> DEFINE id == Head(toServer[s]).node_id
<1>1. WiresTyped /\ ServerTyped /\ RegistryTyped /\ ScannedOnTime /\ OfflineIsFinal
  BY DEF IInv
<1>2. /\ UNCHANGED <<worker, link, restarts, stamp, now, m_nodes, scanned, scanDue>>
      /\ Receives(s, "HEARTBEAT")
  BY DEF HandleHeartbeat, HasNode
<1>3. toServer' \in [Sessions -> Seq(ToServer)] /\ id \in Issued
  BY <1>1, <1>2, ReceivedPacket, PacketIds
<1>4. \/ Step(s, "update", id) /\ UNCHANGED toWorker
      \/ toWorker' = Reply(s, HeartbeatResp(FALSE)) /\ UNCHANGED handler
  BY DEF HandleHeartbeat
<1> HIDE DEF id
<1>5. /\ handler' \in [Sessions -> Handler]
      /\ \A r \in Sessions : \A i : handler'[r] = [step |-> "broadcast", id |-> i]
                                  => handler[r] = [step |-> "broadcast", id |-> i]
  <2>1. CASE Step(s, "update", id)
    <3>1. [step |-> "update", id |-> id] \in Handler
      BY <1>3 DEF Handler
    <3>2. \A i : [step |-> "update", id |-> id] # [step |-> "broadcast", id |-> i]
      <4> SUFFICES ASSUME NEW i, [step |-> "update", id |-> id] = [step |-> "broadcast", id |-> i]
                   PROVE  FALSE
        OBVIOUS
      <4>1. [step |-> "update", id |-> id].step = [step |-> "broadcast", id |-> i].step
        OBVIOUS
      <4> QED
        BY <4>1
    <3> QED
      BY <1>1, <2>1, <3>1, <3>2 DEF Step, ServerTyped
  <2>2. CASE UNCHANGED handler
    BY <1>1, <2>2 DEF ServerTyped
  <2> QED
    BY <1>4, <2>1, <2>2
<1>6. /\ toWorker' \in [Sessions -> Seq(ToWorker)]
      /\ \A r \in Sessions : \A i : Offline(i) \in Range0(toWorker'[r])
                                  => Offline(i) \in Range0(toWorker[r])
  BY <1>1, <1>4, AnswerIsNoAnnouncement DEF WiresTyped
<1>7. OfflineIsFinal'
  <2>1. \A i \in Members' : OfflineSent(i)' => OfflineSent(i)
    BY <1>2, <1>5, <1>6 DEF OfflineSent, Offline
  <2> QED
    BY <1>1, <1>2, <2>1, StaysFinal DEF Members
<1>8. ScannedOnTime'
  BY <1>1, <1>2 DEF ScannedOnTime, Members
<1> QED
  BY <1>1, <1>2, <1>3, <1>5, <1>6, <1>7, <1>8, NobodyJoinsKeepsIInv
     DEF RegistryTyped, ServerTyped, Members

\* The update only touches nodes that are still listed.
LEMMA AcceptHeartbeatKeepsIInv ==
    ASSUME IInv, NEW s \in Sessions, AcceptHeartbeat(s)
    PROVE  IInv'
<1> DEFINE id == handler[s].id
<1>1. WiresTyped /\ ServerTyped /\ RegistryTyped /\ ScannedOnTime /\ OfflineIsFinal
  BY DEF IInv
<1>2. /\ UNCHANGED <<worker, link, restarts, stamp, now, toServer, scanned, scanDue>>
      /\ toWorker' = Reply(s, HeartbeatResp(TRUE))
      /\ handler' = [handler EXCEPT ![s] = [step |-> "idle", id |-> NoId]]
  BY DEF AcceptHeartbeat, UpdateHeartbeat, Step
<1>3. /\ Members' = Members
      /\ m_nodes' \in [Members' -> RegistryNodeInfo]
      /\ \A i \in Members : m_nodes'[i].last_heartbeat \in {m_nodes[i].last_heartbeat, now}
  <2> DEFINE new == [support_models |-> Models0, available_memory_mb |-> Memory0,
                     status |-> "ONLINE", last_heartbeat |-> now]
  <2>1. new \in RegistryNodeInfo /\ new.last_heartbeat = now
    BY <1>1, RegistryAssumption, ClusterAssumption DEF RegistryNodeInfo, RegistryTyped
  <2>2. \/ m_nodes' = m_nodes
        \/ id \in Members /\ m_nodes' = [m_nodes EXCEPT ![id] = new]
    BY DEF AcceptHeartbeat, UpdateHeartbeat, HasNodeInfo, Members
  <2> HIDE DEF new, id
  <2> QED
    BY <1>1, <2>1, <2>2 DEF RegistryTyped, Members
<1>4. /\ handler' \in [Sessions -> Handler]
      /\ \A r \in Sessions : \A i : handler'[r] = [step |-> "broadcast", id |-> i]
                                  => handler[r] = [step |-> "broadcast", id |-> i]
  <2>1. [step |-> "idle", id |-> NoId] \in Handler
    BY DEF Handler, Idle
  <2>2. \A i : [step |-> "idle", id |-> NoId] # [step |-> "broadcast", id |-> i]
    <3> SUFFICES ASSUME NEW i, [step |-> "idle", id |-> NoId] = [step |-> "broadcast", id |-> i]
                 PROVE  FALSE
      OBVIOUS
    <3>1. [step |-> "idle", id |-> NoId].step = [step |-> "broadcast", id |-> i].step
      OBVIOUS
    <3> QED
      BY <3>1
  <2> QED
    BY <1>1, <1>2, <2>1, <2>2 DEF ServerTyped
<1>5. /\ toWorker' \in [Sessions -> Seq(ToWorker)]
      /\ \A r \in Sessions : \A i : Offline(i) \in Range0(toWorker'[r])
                                  => Offline(i) \in Range0(toWorker[r])
  BY <1>2, AnswerIsNoAnnouncement
<1>6. OfflineIsFinal'
  <2>1. \A i \in Members' : OfflineSent(i)' => OfflineSent(i)
    BY <1>2, <1>4, <1>5 DEF OfflineSent, Offline
  <2> QED
    BY <1>1, <1>3, <2>1, StaysFinal
<1>7. ScannedOnTime'
  <2>1. /\ now \in Nat /\ scanDue \in Nat /\ HeartbeatTimeout \in Nat /\ ScanPeriod \in Nat
        /\ scanDue - ScanPeriod - HeartbeatTimeout <= now
    BY <1>1, RegistryAssumption, ClusterAssumption DEF RegistryTyped, ServerTyped, ScannedOnTime
  <2> QED
    BY <1>1, <1>2, <1>3, <2>1 DEF ScannedOnTime
<1> QED
  BY <1>1, <1>2, <1>3, <1>4, <1>5, <1>6, <1>7, NobodyJoinsKeepsIInv
     DEF WiresTyped, ServerTyped

\* The node leaves before anybody is told.
LEMMA HandleRemoveKeepsIInv ==
    ASSUME IInv, NEW s \in Sessions, HandleRemove(s)
    PROVE  IInv'
<1> DEFINE id == Head(toServer[s]).node_id
           busy == [step |-> "broadcast", id |-> id]
<1>1. WiresTyped /\ ServerTyped /\ RegistryTyped /\ ScannedOnTime /\ OfflineIsFinal
  BY DEF IInv
<1>2. /\ UNCHANGED <<worker, link, restarts, stamp, now, toWorker, scanned, scanDue>>
      /\ Receives(s, "WORKER_REMOVE")
      /\ handler' = [handler EXCEPT ![s] = busy]
  BY DEF HandleRemove, RemoveWorker, Step
<1>3. toServer' \in [Sessions -> Seq(ToServer)] /\ id \in Issued
  BY <1>1, <1>2, ReceivedPacket, PacketIds
<1>4. /\ Members' = Members \ {id}
      /\ m_nodes' \in [Members' -> RegistryNodeInfo]
      /\ \A i \in Members' : m_nodes'[i] = m_nodes[i]
  <2>1. \/ id \in Members /\ m_nodes' = [i \in Members \ {id} |-> m_nodes[i]]
        \/ id \notin Members /\ m_nodes' = m_nodes
    BY DEF HandleRemove, RemoveWorker, HasNodeInfo, Members
  <2> HIDE DEF id
  <2> QED
    BY <1>1, <2>1 DEF RegistryTyped, Members
<1>5. busy \in Handler /\ \A i : busy = [step |-> "broadcast", id |-> i] => i = id
  <2>1. busy \in Handler
    BY <1>3 DEF Handler
  <2>2. ASSUME NEW i, busy = [step |-> "broadcast", id |-> i] PROVE i = id
    <3>1. busy.id = [step |-> "broadcast", id |-> i].id
      BY <2>2
    <3> QED
      BY <3>1
  <2> QED
    BY <2>1, <2>2
<1> HIDE DEF id, busy
<1>6. OfflineIsFinal'
  <2>1. \A i \in Members' : OfflineSent(i)' => OfflineSent(i)
    BY <1>1, <1>2, <1>4, <1>5 DEF OfflineSent, Offline, ServerTyped
  <2> QED
    BY <1>1, <1>4, <2>1, StaysFinal
<1>7. ScannedOnTime'
  BY <1>1, <1>2, <1>4 DEF ScannedOnTime
<1>8. handler' \in [Sessions -> Handler]
  BY <1>1, <1>2, <1>5 DEF ServerTyped
<1> QED
  BY <1>1, <1>2, <1>3, <1>4, <1>6, <1>7, <1>8, NobodyJoinsKeepsIInv
     DEF WiresTyped, ServerTyped

\* What is told was already decided.
LEMMA BroadcastRemovalKeepsIInv ==
    ASSUME IInv, NEW s \in Sessions, BroadcastRemoval(s)
    PROVE  IInv'
<1> DEFINE id == handler[s].id
           p  == Offline(id)
<1>1. WiresTyped /\ ServerTyped /\ RegistryTyped /\ ScannedOnTime /\ OfflineIsFinal
  BY DEF IInv
<1>2. /\ UNCHANGED <<worker, link, restarts, stamp, now, m_nodes, toServer, scanned, scanDue>>
      /\ toWorker' = [r \in Sessions |-> To(r, <<p>>)]
      /\ handler' = [handler EXCEPT ![s] = Idle]
  BY DEF BroadcastRemoval, Broadcast, NoCall, Step, Idle
<1>3. id \in Issued /\ handler[s] = [step |-> "broadcast", id |-> id]
  BY <1>1 DEF BroadcastRemoval, ServerTyped, Handler, Idle
<1>4. /\ p \in ToWorker
      /\ \A i : Offline(i) = p => i = id
  <2>1. p \in ToWorker
    BY <1>3 DEF ToWorker
  <2>2. ASSUME NEW i, Offline(i) = p PROVE i = id
    <3>1. Offline(i).node_id = p.node_id
      BY <2>2
    <3> QED
      BY <3>1 DEF Offline
  <2> QED
    BY <2>1, <2>2
<1> HIDE DEF id, p
<1>5. /\ toWorker' \in [Sessions -> Seq(ToWorker)]
      /\ \A r \in Sessions : Range0(toWorker'[r]) \subseteq Range0(toWorker[r]) \cup {p}
  <2>1. <<p>> \in Seq(ToWorker) /\ Range0(<<p>>) = {p}
    BY <1>4, OnePacket
  <2>2. ASSUME NEW r \in Sessions
        PROVE  /\ To(r, <<p>>) \in Seq(ToWorker)
               /\ Range0(To(r, <<p>>)) \subseteq Range0(toWorker[r]) \cup {p}
    <3>1. toWorker[r] \in Seq(ToWorker)
      BY <1>1 DEF WiresTyped
    <3> QED
      BY <2>1, <3>1, SentPackets
  <2> QED
    BY <1>2, <2>2
<1>6. handler' \in [Sessions -> Handler]
  BY <1>1, <1>2 DEF ServerTyped, Handler
<1>7. OfflineIsFinal'
  <2> SUFFICES ASSUME NEW i \in Members, OfflineSent(i)' PROVE OfflineSent(i)
    BY <1>1, <1>2, StaysFinal DEF Members
  <2>1. CASE i = id
    BY <1>3, <2>1 DEF OfflineSent
  <2>2. CASE i # id
    <3>1. ASSUME NEW r \in Sessions, handler'[r] = [step |-> "broadcast", id |-> i]
          PROVE  handler[r] = [step |-> "broadcast", id |-> i]
      <4>1. Idle # [step |-> "broadcast", id |-> i]
        <5> SUFFICES ASSUME Idle = [step |-> "broadcast", id |-> i] PROVE FALSE
          OBVIOUS
        <5>1. Idle.step = [step |-> "broadcast", id |-> i].step
          OBVIOUS
        <5> QED
          BY <5>1 DEF Idle
      <4> QED
        BY <1>1, <1>2, <3>1, <4>1 DEF ServerTyped
    <3>2. ASSUME NEW r \in Sessions, Offline(i) \in Range0(toWorker'[r])
          PROVE  Offline(i) \in Range0(toWorker[r])
      BY <1>4, <1>5, <2>2, <3>2
    <3> QED
      BY <1>2, <3>1, <3>2 DEF OfflineSent, Offline
  <2> QED
    BY <2>1, <2>2
<1>8. ScannedOnTime'
  BY <1>1, <1>2 DEF ScannedOnTime, Members
<1> QED
  BY <1>1, <1>2, <1>5, <1>6, <1>7, <1>8, NobodyJoinsKeepsIInv
     DEF RegistryTyped, WiresTyped, ServerTyped, Members

\* The server closes only what the worker has closed, or what broke.
LEMMA CloseSessionKeepsIInv ==
    ASSUME IInv, NEW s \in Sessions, CloseSession(s)
    PROVE  IInv'
<1>1. WiresTyped /\ ServerTyped /\ RegistryTyped /\ ScannedOnTime /\ OfflineIsFinal
       /\ worker \in [Addrs -> Worker]
  BY DEF IInv
<1>2. /\ UNCHANGED <<worker, toWorker, handler, scanDue, scanned, restarts, m_nodes, stamp, now>>
      /\ link[s] \in {"cut", "eof"}
      /\ link' = [link EXCEPT ![s] = "closed"]
      /\ toServer' = [toServer EXCEPT ![s] = <<>>]
  BY DEF CloseSession, NoCall, serverVars
<1>3. UNCHANGED <<Issued, ToServer, ToWorker, Worker, Handler>>
  BY <1>2, TypesKept
<1>4. WiresTyped'
  <2>1. <<>> \in Seq(ToServer)
    BY EmptySeq
  <2> QED
    BY <1>1, <1>2, <1>3, <2>1 DEF WiresTyped
<1>5. RegistryTyped' /\ ServerTyped' /\ ScannedOnTime'
  BY <1>1, <1>2, <1>3 DEF RegistryTyped, ServerTyped, ScannedOnTime, Members
<1>6. SessionsInOrder' /\ \A w \in Addrs : Coherent(w)'
  <2>1. \A r \in Sessions : /\ link'[r] = "none" <=> link[r] = "none"
                            /\ link[r] = "open" => link'[r] = "open"
                            /\ link'[r] = "cut" => link[r] = "cut"
    BY <1>1, <1>2 DEF WiresTyped
  <2> QED
    BY <1>2, <2>1, ServerLeavesWorkers
<1>7. OfflineIsFinal'
  BY <1>1, <1>2 DEF OfflineIsFinal, OfflineSent, Offline
<1> QED
  BY <1>1, <1>2, <1>3, <1>4, <1>5, <1>6, <1>7 DEF IInv

\* The scan removes what is too old, and fires again one period later.
LEMMA ScanKeepsIInv ==
    ASSUME IInv, Scan
    PROVE  IInv'
<1>1. WiresTyped /\ ServerTyped /\ RegistryTyped /\ ScannedOnTime /\ OfflineIsFinal
  BY DEF IInv
<1>2. /\ UNCHANGED <<worker, toServer, toWorker, link, handler, restarts, stamp, now>>
      /\ scanDue = now /\ scanned = {} /\ scanDue' = now + ScanPeriod
      /\ scanned' = TimedOut
      /\ m_nodes' = [i \in Members \ TimedOut |-> m_nodes[i]]
  BY DEF Scan, ScanTimeoutNodes, Members
<1>3. /\ Members' = Members \ TimedOut
      /\ m_nodes' \in [Members' -> RegistryNodeInfo]
      /\ \A i \in Members' : m_nodes'[i] = m_nodes[i]
  BY <1>1, <1>2 DEF RegistryTyped, Members
<1>4. TimedOut \subseteq Members
  BY DEF TimedOut, Members
<1>5. scanned' \subseteq Issued /\ IsFiniteSet(scanned')
  BY <1>1, <1>2, <1>4, FS_Subset DEF RegistryTyped
<1>6. OfflineIsFinal'
  <2> SUFFICES ASSUME NEW i \in Members', OfflineSent(i)' PROVE FALSE
    BY DEF OfflineIsFinal, Members
  <2>1. OfflineSent(i)
    BY <1>2, <1>3 DEF OfflineSent, Offline
  <2> QED
    BY <1>1, <1>3, <2>1 DEF OfflineIsFinal, Members
<1>7. ScannedOnTime'
  <2>1. now \in Nat /\ ScanPeriod \in Nat /\ HeartbeatTimeout \in Nat /\ scanDue' \in Nat
    BY <1>1, <1>2, RegistryAssumption, ClusterAssumption DEF RegistryTyped
  <2>2. ASSUME NEW i \in Members'
        PROVE  /\ m_nodes'[i].last_heartbeat <= now
               /\ now - HeartbeatTimeout <= m_nodes'[i].last_heartbeat
    <3>1. m_nodes[i] \in RegistryNodeInfo /\ i \in Members /\ i \notin TimedOut
      BY <1>1, <1>3 DEF RegistryTyped
    <3>2. m_nodes[i].last_heartbeat \in Nat
      BY <3>1 DEF RegistryNodeInfo
    <3>3. ~(now - m_nodes[i].last_heartbeat > HeartbeatTimeout)
      BY <3>1 DEF TimedOut, Age, Members
    <3> QED
      BY <1>1, <1>3, <2>1, <3>1, <3>2, <3>3 DEF ScannedOnTime
  <2>3. ASSUME NEW i \in Members'
        PROVE  scanDue' - ScanPeriod - HeartbeatTimeout <= m_nodes'[i].last_heartbeat
    <3>1. scanDue' - ScanPeriod - HeartbeatTimeout = now - HeartbeatTimeout
      BY <1>2, <2>1
    <3> QED
      BY <2>2, <3>1
  <2> QED
    BY <1>2, <2>1, <2>2, <2>3 DEF ScannedOnTime
<1>8. scanDue' \in Nat
  BY <1>1, <1>2, ClusterAssumption DEF RegistryTyped
<1> QED
  BY <1>1, <1>2, <1>3, <1>5, <1>6, <1>7, <1>8, NobodyJoinsKeepsIInv
     DEF WiresTyped, ServerTyped

\* The timed out nodes are announced, each of them, in some order.
LEMMA BroadcastTimeoutsKeepsIInv ==
    ASSUME IInv, BroadcastTimeouts
    PROVE  IInv'
<1>1. WiresTyped /\ ServerTyped /\ RegistryTyped /\ ScannedOnTime /\ OfflineIsFinal
  BY DEF IInv
<1>2. /\ UNCHANGED <<worker, link, restarts, stamp, now, m_nodes, toServer, handler, scanDue>>
      /\ scanned' = {}
  BY DEF BroadcastTimeouts, NoCall
<1>3. PICK order \in [1..Cardinality(scanned) -> scanned] :
        toWorker' = Broadcast([i \in DOMAIN order |-> Offline(order[i])])
  BY DEF BroadcastTimeouts
<1> DEFINE news == [i \in DOMAIN order |-> Offline(order[i])]
<1>4. news \in Seq(ToWorker) /\ \A p \in Range0(news) : \E id \in scanned : p = Offline(id)
  <2>1. Cardinality(scanned) \in Nat
    BY <1>1, FS_CardinalityType DEF ServerTyped
  <2>2. \A i \in 1..Cardinality(scanned) : order[i] \in scanned
    BY <1>3
  <2>3. \A i \in 1..Cardinality(scanned) : Offline(order[i]) \in ToWorker
    BY <1>1, <2>2 DEF ServerTyped, ToWorker
  <2>4. news \in [1..Cardinality(scanned) -> ToWorker]
    BY <2>3
  <2>5. news \in Seq(ToWorker)
    BY <2>1, <2>4, SeqDef
  <2>6. \A p \in Range0(news) : \E id \in scanned : p = Offline(id)
    BY <2>2 DEF Range0
  <2> QED
    BY <2>5, <2>6
<1> HIDE DEF news
<1>5. /\ toWorker' \in [Sessions -> Seq(ToWorker)]
      /\ \A r \in Sessions : Range0(toWorker'[r]) \subseteq Range0(toWorker[r]) \cup Range0(news)
  <2>1. ASSUME NEW r \in Sessions
        PROVE  /\ To(r, news) \in Seq(ToWorker)
               /\ Range0(To(r, news)) \subseteq Range0(toWorker[r]) \cup Range0(news)
    <3>1. toWorker[r] \in Seq(ToWorker)
      BY <1>1 DEF WiresTyped
    <3> QED
      BY <1>4, <3>1, SentPackets
  <2>2. toWorker' = [r \in Sessions |-> To(r, news)]
    BY <1>3 DEF Broadcast, news
  <2> QED
    BY <2>1, <2>2
<1>6. OfflineIsFinal'
  <2> SUFFICES ASSUME NEW i \in Members, OfflineSent(i)' PROVE OfflineSent(i)
    BY <1>1, <1>2, StaysFinal DEF Members
  <2>1. ASSUME NEW id, Offline(i) = Offline(id) PROVE i = id
    <3>1. Offline(i).node_id = Offline(id).node_id
      BY <2>1
    <3> QED
      BY <3>1 DEF Offline
  <2>2. ASSUME NEW r \in Sessions, Offline(i) \in Range0(toWorker'[r]) PROVE OfflineSent(i)
    <3>1. CASE Offline(i) \in Range0(toWorker[r])
      BY <3>1 DEF OfflineSent
    <3>2. CASE Offline(i) \in Range0(news)
      BY <1>4, <2>1, <3>2 DEF OfflineSent
    <3> QED
      BY <1>5, <2>2, <3>1, <3>2
  <2>3. i \notin scanned'
    BY <1>2
  <2> QED
    BY <1>2, <2>2, <2>3 DEF OfflineSent, Offline
<1>7. ScannedOnTime'
  BY <1>1, <1>2 DEF ScannedOnTime, Members
<1>8. scanned' \subseteq Issued /\ IsFiniteSet(scanned')
  BY <1>2, FS_EmptySet
<1> QED
  BY <1>1, <1>2, <1>5, <1>6, <1>7, <1>8, NobodyJoinsKeepsIInv
     DEF RegistryTyped, WiresTyped, ServerTyped, Members

\* A server that starts again knows nobody, and the workers are connected to
\* nothing.
LEMMA RestartServerKeepsIInv ==
    ASSUME IInv, RestartServer
    PROVE  IInv'
<1>1. /\ WiresTyped /\ ServerTyped /\ RegistryTyped /\ ScannedOnTime
      /\ worker \in [Addrs -> Worker]
  BY DEF IInv
<1>2. /\ UNCHANGED <<stamp, now, worker, toWorker>>
      /\ restarts' = restarts + 1
      /\ link' = [s \in Sessions |-> IF link[s] = "none" THEN "none" ELSE "closed"]
      /\ toServer' = [s \in Sessions |-> <<>>]
      /\ handler' = [s \in Sessions |-> Idle]
      /\ scanDue' = now + ScanPeriod
      /\ scanned' = {}
  BY DEF RestartServer
<1>3. m_nodes' = [id \in {} |-> NoReturn] /\ Members' = {}
  BY DEF RestartServer, Members
<1>4. UNCHANGED <<Issued, ToServer, ToWorker, Worker, Handler>>
  BY <1>2, TypesKept
<1>5. RegistryTyped'
  <2>1. m_nodes' \in [{} -> RegistryNodeInfo]
    BY <1>3
  <2> QED
    BY <1>1, <1>2, <1>3, <2>1, FS_EmptySet DEF RegistryTyped
<1>6. ServerTyped'
  <2>1. scanDue' \in Nat /\ restarts' \in Nat /\ restarts' # 0
    BY <1>1, <1>2, ClusterAssumption DEF RegistryTyped, ServerTyped
  <2> QED
    BY <1>2, <1>4, <2>1, FS_EmptySet DEF ServerTyped, Handler
<1>7. WiresTyped'
  <2>1. <<>> \in Seq(ToServer)
    BY EmptySeq
  <2> QED
    BY <1>1, <1>2, <1>4, <2>1 DEF WiresTyped
<1>8. SessionsInOrder' /\ \A w \in Addrs : Coherent(w)'
  <2>1. restarts' # 0
    BY <1>1, <1>2 DEF ServerTyped
  <2>2. \A s \in Sessions : link'[s] = "none" <=> link[s] = "none"
    BY <1>2
  <2> QED
    BY <1>2, <2>1, <2>2, ServerLeavesWorkers
<1>9. ScannedOnTime'
  BY <1>1, <1>2, <1>3, ClusterAssumption DEF ScannedOnTime, RegistryTyped
<1>10. OfflineIsFinal'
  BY <1>3 DEF OfflineIsFinal, Members
<1> QED
  BY <1>1, <1>2, <1>4, <1>5, <1>6, <1>7, <1>8, <1>9, <1>10 DEF IInv

\* Time stops at the scan timer.
LEMMA AdvanceKeepsIInv ==
    ASSUME IInv, Advance
    PROVE  IInv'
<1>1. WiresTyped /\ ServerTyped /\ RegistryTyped /\ ScannedOnTime /\ OfflineIsFinal
       /\ worker \in [Addrs -> Worker]
  BY DEF IInv
<1>2. /\ UNCHANGED <<m_nodes, stamp, worker, toServer, toWorker, link, handler, scanDue,
                     scanned, restarts>>
      /\ \E t \in Timers \cup Moments : now < t /\ (\A u \in Timers : t <= u) /\ now' = t
  BY DEF Advance, clusterVars, serverVars
<1>3. UNCHANGED <<Issued, ToServer, ToWorker, Worker, Handler>>
  BY <1>2, TypesKept
<1>4. scanDue \in Timers /\ Timers \cup Moments \subseteq Nat
  <2>1. ASSUME NEW w \in Addrs
        PROVE  Range0(worker[w].chains) \cup worker[w].reconnects \subseteq Nat
    <3>1. worker[w].chains \in Seq(Nat) /\ worker[w].reconnects \subseteq Nat
      BY <1>1 DEF Worker
    <3> QED
      BY <3>1, ElementOfSeq DEF Range0
  <2> QED
    BY <1>1, <2>1, ClusterAssumption DEF Timers, ServerTyped
<1>5. now' \in Nat /\ now < now' /\ now' <= scanDue
  BY <1>2, <1>4
<1>6. RegistryTyped' /\ ServerTyped' /\ WiresTyped'
  BY <1>1, <1>2, <1>3, <1>5 DEF RegistryTyped, ServerTyped, WiresTyped, Members
<1>7. ScannedOnTime'
  <2>1. now \in Nat /\ scanDue \in Nat /\ ScanPeriod \in Nat
    BY <1>1, ClusterAssumption DEF RegistryTyped, ServerTyped
  <2>2. \A i \in Members : m_nodes[i].last_heartbeat \in Nat
    BY <1>1 DEF RegistryTyped, RegistryNodeInfo
  <2> QED
    BY <1>1, <1>2, <1>5, <2>1, <2>2 DEF ScannedOnTime, Members
<1>8. SessionsInOrder' /\ \A w \in Addrs : Coherent(w)'
  BY <1>2, ServerLeavesWorkers
<1>9. OfflineIsFinal'
  BY <1>1, <1>2 DEF OfflineIsFinal, OfflineSent, Offline
<1> QED
  BY <1>1, <1>2, <1>3, <1>6, <1>7, <1>8, <1>9 DEF IInv

LEMMA StutterKeepsIInv ==
    ASSUME IInv, UNCHANGED vars
    PROVE  IInv'
<1>1. UNCHANGED <<m_nodes, stamp, now, worker, toServer, toWorker, link, handler, scanDue,
                  scanned, restarts>>
  BY DEF vars, registryVars, clusterVars, serverVars
<1>2. SessionsInOrder' /\ \A w \in Addrs : Coherent(w)'
  BY <1>1, ServerLeavesWorkers
<1>3. UNCHANGED <<Issued, ToServer, ToWorker, Worker, Handler>>
  BY <1>1, TypesKept
<1> QED
  BY <1>1, <1>2, <1>3
     DEF IInv, RegistryTyped, ServerTyped, WiresTyped, ScannedOnTime, Members,
         OfflineIsFinal, OfflineSent, Offline

-----------------------------------------------------------------------------
(***************************************************************************)
(* Nobody is registered, connected or announced at the start.              *)
(***************************************************************************)
LEMMA InitIInv == ClusterInit => IInv
<1> SUFFICES ASSUME ClusterInit PROVE IInv
  OBVIOUS
<1>1. stamp = 0 /\ now = 0 /\ Members = {} /\ m_nodes = [id \in {} |-> NoReturn]
  BY DEF ClusterInit, Init, Members
<1>2. RegistryTyped
  <2>1. m_nodes \in [{} -> RegistryNodeInfo]
    BY <1>1
  <2> QED
    BY <1>1, <2>1, RegistryAssumption, FS_EmptySet DEF RegistryTyped
<1>3. ServerTyped
  BY ClusterAssumption, FS_EmptySet DEF ClusterInit, ServerTyped, Handler
<1>4. WiresTyped
  <2>1. <<>> \in Seq(ToServer) /\ <<>> \in Seq(ToWorker)
    BY EmptySeq
  <2> QED
    BY <2>1 DEF ClusterInit, WiresTyped
<1> DEFINE unborn == [Off EXCEPT !.alive = "unborn"]
<1>5. unborn \in Worker /\ ~unborn.started /\ unborn.conn = "none" /\ unborn.alive = "unborn"
  BY EmptySeq DEF Off, Worker
<1>6. worker = [w \in Addrs |-> unborn]
  BY DEF ClusterInit
<1> HIDE DEF unborn
<1>7. worker \in [Addrs -> Worker] /\ \A w \in Addrs : Coherent(w)
  BY <1>5, <1>6 DEF Coherent, IsConnected, IsReading
<1>8. ScannedOnTime
  BY <1>1, ClusterAssumption DEF ClusterInit, ScannedOnTime
<1>9. SessionsInOrder
  <2>1. \A w \in Addrs : Used(w) = {w} \X (1..0)
    BY DEF ClusterInit, Used
  <2> QED
    BY <2>1, ClusterAssumption DEF SessionsInOrder
<1>10. OfflineIsFinal
  BY <1>1 DEF OfflineIsFinal, Members
<1> QED
  BY <1>2, <1>3, <1>4, <1>7, <1>8, <1>9, <1>10 DEF IInv

(***************************************************************************)
(* No step of a worker, of the server or of the clock breaks any of it.    *)
(***************************************************************************)
THEOREM ClusterInvariant == Spec => []IInv
<1>1. IInv /\ [Next]_vars => IInv'
  <2> SUFFICES ASSUME IInv, [Next]_vars PROVE IInv'
    OBVIOUS
  <2>1. ASSUME NEW w \in Addrs, Start(w) PROVE IInv'
    BY <2>1, StartKeepsIInv
  <2>2. ASSUME NEW w \in Addrs, Flush(w) PROVE IInv'
    BY <2>2, FlushKeepsIInv
  <2>3. ASSUME NEW w \in Addrs, ReconnectTimer(w) PROVE IInv'
    BY <2>3, ReconnectTimerKeepsIInv
  <2>4. ASSUME NEW w \in Addrs, HandlePacket(w) PROVE IInv'
    BY <2>4, HandlePacketKeepsIInv
  <2>5. ASSUME NEW w \in Addrs, Read(w) PROVE IInv'
    BY <2>5, ReadKeepsIInv
  <2>6. ASSUME NEW w \in Addrs, ReadEof(w) PROVE IInv'
    BY <2>6, ReadEofKeepsIInv
  <2>22. ASSUME NEW w \in Addrs, Lose(w) PROVE IInv'
    BY <2>22, LoseKeepsIInv
  <2>7. ASSUME NEW w \in Addrs, Crash(w) PROVE IInv'
    BY <2>7, CrashKeepsIInv
  <2>8. ASSUME NEW w \in Addrs, BeginDestroy(w) PROVE IInv'
    BY <2>8, BeginDestroyKeepsIInv
  <2>9. ASSUME NEW w \in Addrs, EndDestroy(w) PROVE IInv'
    BY <2>9, EndDestroyKeepsIInv
  <2>10. ASSUME NEW w \in Addrs, NEW i \in DOMAIN worker[w].chains, HeartbeatTimer(w, i)
         PROVE  IInv'
    BY <2>10, HeartbeatTimerKeepsIInv
  <2>11. ASSUME NEW s \in Sessions, HandleRegister(s) PROVE IInv'
    BY <2>11, HandleRegisterKeepsIInv
  <2>12. ASSUME NEW s \in Sessions, HandleHeartbeat(s) PROVE IInv'
    BY <2>12, HandleHeartbeatKeepsIInv
  <2>13. ASSUME NEW s \in Sessions, AcceptHeartbeat(s) PROVE IInv'
    BY <2>13, AcceptHeartbeatKeepsIInv
  <2>14. ASSUME NEW s \in Sessions, HandleRemove(s) PROVE IInv'
    BY <2>14, HandleRemoveKeepsIInv
  <2>15. ASSUME NEW s \in Sessions, BroadcastRemoval(s) PROVE IInv'
    BY <2>15, BroadcastRemovalKeepsIInv
  <2>16. ASSUME NEW s \in Sessions, CloseSession(s) PROVE IInv'
    BY <2>16, CloseSessionKeepsIInv
  <2>17. ASSUME Scan PROVE IInv'
    BY <2>17, ScanKeepsIInv
  <2>18. ASSUME BroadcastTimeouts PROVE IInv'
    BY <2>18, BroadcastTimeoutsKeepsIInv
  <2>19. ASSUME RestartServer PROVE IInv'
    BY <2>19, RestartServerKeepsIInv
  <2>20. ASSUME Advance PROVE IInv'
    BY <2>20, AdvanceKeepsIInv
  <2>21. ASSUME UNCHANGED vars PROVE IInv'
    BY <2>21, StutterKeepsIInv
  <2> QED
    BY <2>1, <2>2, <2>3, <2>4, <2>5, <2>6, <2>7, <2>8, <2>9, <2>10, <2>11, <2>12, <2>13,
       <2>14, <2>15, <2>16, <2>17, <2>18, <2>19, <2>20, <2>21, <2>22 DEF Next
<1> QED
  BY <1>1, InitIInv, PTL DEF Spec

(***************************************************************************)
(* The state is of its type.                                               *)
(***************************************************************************)
THEOREM ClusterTypes == Spec => []TypeOK
<1>1. IInv => TypeOK
  <2> SUFFICES ASSUME IInv PROVE TypeOK
    OBVIOUS
  <2>1. Issued \subseteq Ids
    BY RegistryAssumption DEF IInv, RegistryTyped, Issued, Ids
  <2>2. \A id \in DOMAIN m_nodes : id \in Ids /\ m_nodes[id] \in RegistryNodeInfo
    BY <2>1 DEF IInv, RegistryTyped, Members
  <2>3. ASSUME NEW w \in Addrs
        PROVE  /\ worker[w].alive \in {"unborn", "on", "off", "dying", "gone"}
               /\ worker[w].conn \in {"none", "Connected", "Disconnecting", "Disconnected"}
               /\ worker[w].id \in Ids \cup {NoId}
               /\ worker[w].conn = "Connected" => worker[w].started
    <3>1. worker[w] \in Worker /\ Coherent(w)
      BY DEF IInv
    <3> QED
      BY <2>1, <3>1 DEF Worker, Coherent, IsConnected
  <2>4. link \in [Sessions -> {"none", "open", "cut", "eof", "closed"}]
    BY DEF IInv, WiresTyped
  <2>5. \A s \in Sessions : handler[s].id \in Ids \cup {NoId}
    BY <2>1 DEF IInv, ServerTyped, Handler, Idle
  <2>6. scanned \subseteq Ids
    BY <2>1 DEF IInv, ServerTyped
  <2> QED
    BY <2>2, <2>3, <2>4, <2>5, <2>6 DEF TypeOK
<1> QED
  BY <1>1, ClusterInvariant, PTL

(***************************************************************************)
(* A node whose loss was announced, on any connection and in any           *)
(* interleaving, is never listed again.                                    *)
(***************************************************************************)
THEOREM AnnouncedLossIsFinal == Spec => []OfflineIsFinal
BY ClusterInvariant, PTL DEF IInv

(***************************************************************************)
(* A registration outlives its last heartbeat by the timeout and one scan  *)
(* period at most.                                                         *)
(***************************************************************************)
THEOREM DeadWorkersForgotten == Spec => []DeadForgotten
<1>1. IInv => DeadForgotten
  <2> SUFFICES ASSUME IInv, NEW id \in DOMAIN m_nodes
               PROVE  Age(id) <= HeartbeatTimeout + ScanPeriod
    BY DEF DeadForgotten
  <2>1. now \in Nat /\ scanDue \in Nat /\ HeartbeatTimeout \in Nat /\ ScanPeriod \in Nat
    BY RegistryAssumption, ClusterAssumption DEF IInv, RegistryTyped, ServerTyped
  <2>2. m_nodes[id].last_heartbeat \in Nat
    BY DEF IInv, RegistryTyped, Members, RegistryNodeInfo
  <2>3. now <= scanDue /\ scanDue - ScanPeriod - HeartbeatTimeout <= m_nodes[id].last_heartbeat
    BY DEF IInv, ScannedOnTime, Members
  <2> QED
    BY <2>1, <2>2, <2>3 DEF Age
<1> QED
  BY <1>1, ClusterInvariant, PTL

(***************************************************************************)
(* Refusals alone never leave a worker without both a connection and a     *)
(* timer that connects it again.                                           *)
(***************************************************************************)
THEOREM WorkersReconnect == Spec => []WillReconnect
<1>1. IInv => WillReconnect
  BY DEF IInv, Coherent, WillReconnect
<1> QED
  BY <1>1, ClusterInvariant, PTL

-----------------------------------------------------------------------------
(***************************************************************************)
(* Which registration a worker uses.  A REGISTER_WORKER is the first       *)
(* packet of its session; until it is answered nothing refuses the worker, *)
(* and no older session brings one later.  So an answer on its way, and    *)
(* then the id the worker adopts, is the newest.                           *)
(***************************************************************************)
OnlyFirst(q) == \A i \in DOMAIN q : q[i] = Register => i = 1

Serves(w) == worker[w].alive = "on" /\ IsConnected(w)
Asks(w) == Register \in Range0(toServer[Current(w)]) \cup Range0(worker[w].out)
Coming(w) == Range0(worker[w].inbox) \cup Range0(toWorker[Current(w)])
Answers(w) == {p \in Coming(w) : p.type = "REGISTER_RESP"}
Refused(w) == HeartbeatResp(FALSE) \in Coming(w)
Newest(w, id) == \A m \in Members : m[1] = w => m[2] <= id[2]

RegistersFirst(w) ==
    /\ OnlyFirst(toServer[Current(w)]) /\ OnlyFirst(worker[w].out)
    /\ Register \in Range0(worker[w].out) => toServer[Current(w)] = <<>>

Registering(w) ==
    Serves(w) =>
        /\ RegistersFirst(w)
        /\ Asks(w) => Answers(w) = {} /\ ~Refused(w)
        /\ link[Current(w)] = "open" /\ ~Asks(w) /\ Answers(w) = {}
             => worker[w].id # NoId

Superseding(w) ==
    worker[w].alive = "on" /\ ~worker[w].lost =>
        /\ \A s \in Used(w) :
             s # Current(w) \/ ~IsConnected(w) => Register \notin Range0(toServer[s])
        /\ IsConnected(w) => \A p \in Answers(w) : Newest(w, p.node_id)
        /\ IsConnected(w) /\ link[Current(w)] = "open" /\ ~Asks(w) /\ Answers(w) = {}
             => Newest(w, worker[w].id)

Clean ==
    /\ \A s \in Sessions :
         /\ link[s] = "none" => toServer[s] = <<>> /\ toWorker[s] = <<>>
         /\ link[s] = "closed" => toServer[s] = <<>>
    /\ \A w \in Addrs :
         /\ worker[w].alive = "unborn" => Used(w) = {}
         /\ worker[w].alive = "off" => worker[w].lost
         /\ worker[w].alive \in {"unborn", "off"} => worker[w].inbox = <<>>

Registrations == Clean /\ \A w \in Addrs : Registering(w) /\ Superseding(w)

-----------------------------------------------------------------------------
\* The elements of what is joined, lengthened, shortened and cut.
LEMMA JoinElements ==
    ASSUME NEW S, NEW s \in Seq(S), NEW t \in Seq(S)
    PROVE  Range0(s \o t) = Range0(s) \cup Range0(t)
<1>1. s \o t \in Seq(S) /\ Range0(s \o t) \subseteq Range0(s) \cup Range0(t)
  BY ConcatElements
<1>2. /\ Len(s \o t) = Len(s) + Len(t) /\ Len(s) \in Nat /\ Len(t) \in Nat
      /\ DOMAIN (s \o t) = 1..Len(s \o t)
      /\ DOMAIN s = 1..Len(s) /\ DOMAIN t = 1..Len(t)
  BY <1>1, ConcatProperties
<1>3. ASSUME NEW i \in DOMAIN s PROVE s[i] \in Range0(s \o t)
  <2>1. i \in DOMAIN (s \o t) /\ (s \o t)[i] = s[i]
    BY <1>2, ConcatProperties
  <2> QED
    BY <2>1 DEF Range0
<1>4. ASSUME NEW i \in DOMAIN t PROVE t[i] \in Range0(s \o t)
  <2>1. Len(s) + i \in DOMAIN (s \o t) /\ (s \o t)[Len(s) + i] = t[i]
    BY <1>2, ConcatProperties
  <2> QED
    BY <2>1 DEF Range0
<1> QED
  BY <1>1, <1>3, <1>4 DEF Range0

LEMMA AppendElements ==
    ASSUME NEW S, NEW s \in Seq(S), NEW e \in S
    PROVE  Range0(Append(s, e)) = Range0(s) \cup {e}
BY AppendProperties DEF Range0

LEMMA TailElements ==
    ASSUME NEW S, NEW s \in Seq(S), s # <<>>
    PROVE  /\ Range0(s) = {Head(s)} \cup Range0(Tail(s))
           /\ OnlyFirst(s) => Register \notin Range0(Tail(s)) /\ OnlyFirst(Tail(s))
<1>1. /\ Tail(s) \in Seq(S) /\ Len(Tail(s)) = Len(s) - 1 /\ Len(s) \in Nat /\ Len(s) >= 1
      /\ \A i \in 1..Len(Tail(s)) : Tail(s)[i] = s[i + 1]
      /\ Head(s) = s[1]
  BY HeadTailProperties
<1>2. DOMAIN s = 1..Len(s) /\ DOMAIN Tail(s) = 1..Len(Tail(s))
  BY <1>1
<1>3. ASSUME NEW i \in DOMAIN s, i # 1 PROVE s[i] \in Range0(Tail(s))
  <2>1. i - 1 \in DOMAIN Tail(s) /\ Tail(s)[i - 1] = s[i]
    BY <1>1, <1>2, <1>3
  <2> QED
    BY <2>1 DEF Range0
<1>4. ASSUME NEW i \in DOMAIN Tail(s) PROVE i + 1 \in DOMAIN s /\ i + 1 # 1 /\ Tail(s)[i] = s[i + 1]
  BY <1>1, <1>2
<1>5. Range0(s) = {Head(s)} \cup Range0(Tail(s))
  <2>1. Head(s) \in Range0(s)
    BY <1>1, <1>2 DEF Range0
  <2>2. Range0(Tail(s)) \subseteq Range0(s)
    BY <1>4 DEF Range0
  <2>3. \A i \in DOMAIN s : s[i] = Head(s) \/ s[i] \in Range0(Tail(s))
    BY <1>1, <1>3
  <2>4. Range0(s) \subseteq {Head(s)} \cup Range0(Tail(s))
    BY <2>3 DEF Range0
  <2> QED
    BY <2>1, <2>2, <2>4
<1>6. OnlyFirst(s) => Register \notin Range0(Tail(s)) /\ OnlyFirst(Tail(s))
  BY <1>4 DEF Range0, OnlyFirst
<1> QED
  BY <1>5, <1>6

LEMMA CutElements ==
    ASSUME NEW S, NEW s \in Seq(S), NEW n \in 1..Len(s)
    PROVE  Range0(SubSeq(s, 1, n)) \cup Range0(SubSeq(s, n + 1, Len(s))) = Range0(s)
<1> DEFINE a == SubSeq(s, 1, n)
           b == SubSeq(s, n + 1, Len(s))
<1>1. Len(s) \in Nat /\ n \in Nat /\ DOMAIN s = 1..Len(s) /\ n <= Len(s)
  OBVIOUS
<1>2. /\ a \in Seq(S) /\ b \in Seq(S) /\ Range0(b) \subseteq Range0(s)
  BY SplitElements
<1>3. \A i \in 1..n : s[i] \in S
  BY <1>1, ElementOfSeq
<1>4. Len(a) = n /\ \A i \in 1..n : a[i] = s[i]
  BY <1>1, <1>3, SubSeqProperties
<1>5. \A i \in (n + 1)..Len(s) : s[i] \in S
  BY <1>1, ElementOfSeq
<1>6. Len(b) = Len(s) - n /\ \A i \in 1..(Len(s) - n) : b[i] = s[n + i]
  <2>1. /\ Len(b) = IF n + 1 <= Len(s) THEN Len(s) - (n + 1) + 1 ELSE 0
        /\ \A i \in 1 .. Len(s) - (n + 1) + 1 : b[i] = s[n + 1 + i - 1]
    BY <1>1, <1>5, SubSeqProperties
  <2>2. \A i \in 1..(Len(s) - n) : i \in 1 .. Len(s) - (n + 1) + 1 /\ n + 1 + i - 1 = n + i
    BY <1>1
  <2>3. \A i \in 1..(Len(s) - n) : b[i] = s[n + i]
    BY <2>1, <2>2
  <2>4. Len(b) = IF n + 1 <= Len(s) THEN Len(s) - (n + 1) + 1 ELSE 0
    BY <2>1
  <2>5. (IF n + 1 <= Len(s) THEN Len(s) - (n + 1) + 1 ELSE 0) = Len(s) - n
    <3> DEFINE l == Len(s)
    <3>1. l \in Nat /\ n \in Nat /\ n <= l
      BY <1>1
    <3> HIDE DEF l
    <3>2. (IF n + 1 <= l THEN l - (n + 1) + 1 ELSE 0) = l - n
      <4>1. CASE n + 1 <= l
        BY <3>1, <4>1
      <4>2. CASE ~(n + 1 <= l)
        BY <3>1, <4>2
      <4> QED
        BY <4>1, <4>2
    <3> QED
      BY <3>2 DEF l
  <2> HIDE DEF b
  <2> QED
    BY <2>3, <2>4, <2>5
<1>7. DOMAIN a = 1..n /\ DOMAIN b = 1..(Len(s) - n)
  BY <1>2, <1>4, <1>6
<1> HIDE DEF a, b
<1>8. ASSUME NEW i \in DOMAIN s PROVE s[i] \in Range0(a) \cup Range0(b)
  <2>1. CASE i <= n
    BY <1>1, <1>4, <1>7, <2>1 DEF Range0
  <2>2. CASE i > n
    <3>1. i - n \in DOMAIN b /\ b[i - n] = s[i]
      BY <1>1, <1>6, <1>7, <2>2
    <3> QED
      BY <3>1 DEF Range0
  <2> QED
    BY <1>1, <2>1, <2>2
<1>9. Range0(a) \subseteq Range0(s)
  BY <1>1, <1>4, <1>7 DEF Range0
<1> QED
  BY <1>2, <1>8, <1>9 DEF Range0, a, b

LEMMA JoinedOnlyFirst ==
    ASSUME NEW S, NEW s \in Seq(S), NEW t \in Seq(S), OnlyFirst(s), Register \notin Range0(t)
    PROVE  OnlyFirst(s \o t)
<1> DEFINE n == Len(s)
           k == Len(t)
<1>1. s \o t \in Seq(S) /\ Len(s \o t) = n + k /\ n \in Nat /\ k \in Nat
  BY ConcatProperties
<1>2. DOMAIN (s \o t) = 1..(n + k) /\ DOMAIN s = 1..n /\ DOMAIN t = 1..k
  BY <1>1
<1>3. \A i \in 1..(n + k) : (s \o t)[i] = IF i <= n THEN s[i] ELSE t[i - n]
  BY ConcatProperties
<1> HIDE DEF n, k
<1>4. ASSUME NEW i \in 1..(n + k), (s \o t)[i] = Register PROVE i = 1
  <2>1. CASE i <= n
    <3>1. i \in DOMAIN s /\ s[i] = Register
      BY <1>1, <1>2, <1>3, <1>4, <2>1
    <3> QED
      BY <3>1 DEF OnlyFirst
  <2>2. CASE ~(i <= n)
    <3>1. i - n \in 1..k
      BY <1>1, <2>2
    <3>2. t[i - n] = Register
      BY <1>3, <1>4, <2>2
    <3> QED
      BY <1>2, <3>1, <3>2 DEF Range0
  <2> QED
    BY <2>1, <2>2
<1> QED
  BY <1>2, <1>4 DEF OnlyFirst

LEMMA EmptyElements == Range0(<<>>) = {} /\ OnlyFirst(<<>>)
BY DEF Range0, OnlyFirst

-----------------------------------------------------------------------------
(***************************************************************************)
(* A step after which what a worker asks, and what answers it, is what it  *)
(* was before.                                                             *)
(***************************************************************************)
LEMMA Steady ==
    ASSUME NEW w \in Addrs, Registering(w), Superseding(w),
           Used(w)' = Used(w),
           /\ worker'[w].alive = worker[w].alive /\ worker'[w].conn = worker[w].conn
           /\ worker'[w].id = worker[w].id /\ worker'[w].lost = worker[w].lost,
           Serves(w) =>
             /\ RegistersFirst(w)'
             /\ Asks(w)' => Asks(w) /\ ~Refused(w)'
             /\ Answers(w)' = Answers(w)
             /\ link'[Current(w)] = "open" =>
                  link[Current(w)] = "open" /\ (Asks(w) => Asks(w)'),
           \A s \in Used(w) : s # Current(w) \/ ~IsConnected(w) =>
             (Register \in Range0(toServer'[s]) => Register \in Range0(toServer[s])),
           \A m \in Members' : m[1] = w => m \in Members
    PROVE  Registering(w)' /\ Superseding(w)'
<1>1. Current(w)' = Current(w)
  BY DEF Current
<1>2. (Serves(w)' <=> Serves(w)) /\ (IsConnected(w)' <=> IsConnected(w))
  BY DEF Serves, IsConnected
<1>3. \A id : Newest(w, id) => Newest(w, id)'
  BY DEF Newest
<1>4. Registering(w)'
  BY <1>1, <1>2 DEF Registering
<1>5. ASSUME worker[w].alive = "on", ~worker[w].lost PROVE Superseding(w)'
  <2>1. IsConnected(w) => Serves(w)
    BY <1>5 DEF Serves
  <2>2. \A s \in Used(w)' : s # Current(w)' \/ ~IsConnected(w)' =>
          Register \notin Range0(toServer'[s])
    BY <1>1, <1>2, <1>5 DEF Superseding
  <2>3. IsConnected(w)' => \A p \in Answers(w)' : Newest(w, p.node_id)'
    BY <1>2, <1>3, <1>5, <2>1 DEF Superseding
  <2>4. IsConnected(w)' /\ link'[Current(w)'] = "open" /\ ~Asks(w)' /\ Answers(w)' = {}
          => Newest(w, worker[w].id)'
    BY <1>1, <1>2, <1>3, <1>5, <2>1 DEF Superseding
  <2> QED
    BY <2>2, <2>3, <2>4 DEF Superseding
<1>6. ASSUME ~(worker[w].alive = "on" /\ ~worker[w].lost) PROVE Superseding(w)'
  <2>1. ~(worker'[w].alive = "on" /\ ~worker'[w].lost)
    BY <1>6
  <2> QED
    BY <2>1 DEF Superseding
<1> QED
  BY <1>4, <1>5, <1>6

\* A step of one worker changes nothing for the others.
LEMMA OthersSteady ==
    ASSUME IInv, Registrations, NEW w \in Addrs,
           \A v \in Addrs \ {w} : worker'[v] = worker[v],
           \A s \in Sessions : s[1] # w =>
             link'[s] = link[s] /\ toServer'[s] = toServer[s] /\ toWorker'[s] = toWorker[s],
           \A m \in Members' : m[1] # w => m \in Members,
           NEW v \in Addrs, v # w
    PROVE  Registering(v)' /\ Superseding(v)' /\ Used(v)' = Used(v)
<1>1. Used(v)' = Used(v) /\ Current(v)' = Current(v)
  BY DEF Used, Current
<1>2. \A s \in Used(v) : s \in Sessions /\ s[1] # w
  BY DEF Used
<1>3. ASSUME Serves(v) PROVE Current(v) \in Sessions /\ Current(v)[1] # w
  BY <1>3, CurrentSession DEF IInv, Coherent, Serves, IsConnected, IsReading
<1>4. ASSUME Serves(v)
      PROVE  /\ RegistersFirst(v)' <=> RegistersFirst(v)
             /\ Asks(v)' <=> Asks(v)
             /\ Refused(v)' <=> Refused(v)
             /\ Answers(v)' = Answers(v)
             /\ link'[Current(v)] = link[Current(v)]
  BY <1>1, <1>3, <1>4 DEF RegistersFirst, Asks, Refused, Answers, Coming
<1>5. Registering(v) /\ Superseding(v)
  BY DEF Registrations
<1>6. Serves(v) =>
             /\ RegistersFirst(v)'
             /\ Asks(v)' => Asks(v) /\ ~Refused(v)'
             /\ Answers(v)' = Answers(v)
             /\ link'[Current(v)] = "open" =>
                  link[Current(v)] = "open" /\ (Asks(v) => Asks(v)')
  BY <1>4, <1>5 DEF Registering
<1>7. \A s \in Used(v) : toServer'[s] = toServer[s]
  BY <1>2
<1> QED
  BY <1>1, <1>5, <1>6, <1>7, Steady

-----------------------------------------------------------------------------
(***************************************************************************)
(* A step of the server that takes no registration.                        *)
(***************************************************************************)
ServerSteady ==
    /\ worker' = worker
    /\ \A s \in Sessions :
         /\ link'[s] = "none" <=> link[s] = "none"
         /\ link'[s] = "open" =>
              /\ link[s] = "open"
              /\ Register \in Range0(toServer[s]) => Register \in Range0(toServer'[s])
         /\ link'[s] = "closed" => toServer'[s] = <<>>
         /\ link'[s] = "none" => toWorker'[s] = toWorker[s]
         /\ OnlyFirst(toServer[s]) => OnlyFirst(toServer'[s])
         /\ toServer[s] = <<>> => toServer'[s] = <<>>
         /\ Range0(toServer'[s]) \subseteq Range0(toServer[s])
         /\ Range0(toWorker[s]) \subseteq Range0(toWorker'[s])
         /\ \A p \in Range0(toWorker'[s]) \ Range0(toWorker[s]) :
              /\ p.type # "REGISTER_RESP"
              /\ p = HeartbeatResp(FALSE) =>
                   /\ toServer[s] # <<>>
                   /\ OnlyFirst(toServer[s]) => Register \notin Range0(toServer'[s])
    /\ Members' \subseteq Members

LEMMA ServerKeepsRegistrations ==
    ASSUME IInv, Registrations, ServerSteady
    PROVE  Registrations'
<1> USE DEF ServerSteady
<1>1. \A w \in Addrs : Used(w)' = Used(w)
  BY DEF Used
<1>2. Clean'
  BY <1>1 DEF Registrations, Clean
<1>3. ASSUME NEW w \in Addrs PROVE Registering(w)' /\ Superseding(w)'
  <2>1. Registering(w) /\ Superseding(w) /\ Current(w)' = Current(w)
    BY <1>1 DEF Registrations, Current
  <2>2. \A s \in Used(w) : s \in Sessions
    BY DEF Used
  <2>3. ASSUME Serves(w)
        PROVE  /\ RegistersFirst(w)'
               /\ Asks(w)' => Asks(w) /\ ~Refused(w)'
               /\ Answers(w)' = Answers(w)
               /\ link'[Current(w)] = "open" =>
                    link[Current(w)] = "open" /\ (Asks(w) => Asks(w)')
    <3>1. Current(w) \in Sessions
      BY <2>3, CurrentSession DEF IInv, Coherent, Serves, IsConnected, IsReading
    <3>2. RegistersFirst(w)
      BY <2>1, <2>3 DEF Registering
    <3>3. RegistersFirst(w)'
      BY <2>1, <3>1, <3>2 DEF RegistersFirst
    <3>4. Asks(w)' => Asks(w)
      BY <2>1, <3>1 DEF Asks
    <3>5. Answers(w)' = Answers(w)
      BY <2>1, <3>1 DEF Answers, Coming
    <3>6. Asks(w)' => ~Refused(w)'
      <4> SUFFICES ASSUME Asks(w)', Refused(w)' PROVE FALSE
        OBVIOUS
      <4>1. ~Refused(w)
        BY <2>1, <2>3, <3>4 DEF Registering
      <4>2. HeartbeatResp(FALSE) \in Range0(toWorker'[Current(w)]) \ Range0(toWorker[Current(w)])
        BY <2>1, <4>1 DEF Refused, Coming
      <4>3. toServer[Current(w)] # <<>> /\ Register \notin Range0(toServer'[Current(w)])
        BY <3>1, <3>2, <4>2 DEF RegistersFirst
      <4>4. Register \notin Range0(worker[w].out)
        BY <3>2, <4>3 DEF RegistersFirst
      <4> QED
        BY <2>1, <4>3, <4>4 DEF Asks
    <3>7. link'[Current(w)] = "open" =>
            link[Current(w)] = "open" /\ (Asks(w) => Asks(w)')
      BY <2>1, <3>1 DEF Asks
    <3> QED
      BY <3>3, <3>4, <3>5, <3>6, <3>7
  <2> QED
    BY <1>1, <2>1, <2>2, <2>3, Steady
<1> QED
  BY <1>2, <1>3 DEF Registrations

\* What a connection takes.
LEMMA DeliveredElements ==
    ASSUME NEW S, NEW packets \in Seq(S), NEW s, toWorker[s] \in Seq(S)
    PROVE  /\ link[s] = "open" => Range0(To(s, packets)) = Range0(toWorker[s]) \cup Range0(packets)
           /\ link[s] # "open" => To(s, packets) = toWorker[s]
           /\ Range0(toWorker[s]) \subseteq Range0(To(s, packets))
           /\ Range0(To(s, packets)) \subseteq Range0(toWorker[s]) \cup Range0(packets)
BY JoinElements DEF To

\* What a handler leaves of the packets on their way.
LEMMA ReceivesElements ==
    ASSUME WiresTyped, NEW s \in Sessions, NEW type, Receives(s, type)
    PROVE  /\ toServer[s] # <<>>
           /\ OnlyFirst(toServer[s]) => Register \notin Range0(toServer'[s])
           /\ \A r \in Sessions :
                /\ OnlyFirst(toServer[r]) => OnlyFirst(toServer'[r])
                /\ toServer[r] = <<>> => toServer'[r] = <<>>
                /\ Range0(toServer'[r]) \subseteq Range0(toServer[r])
                /\ type # "REGISTER_WORKER" =>
                     (Register \in Range0(toServer[r]) => Register \in Range0(toServer'[r]))
<1>1. toServer[s] \in Seq(ToServer) /\ toServer[s] # <<>> /\ Head(toServer[s]).type = type
  BY DEF WiresTyped, Receives
<1>2. \A r \in Sessions : toServer'[r] = IF r = s THEN Tail(toServer[s]) ELSE toServer[r]
  BY DEF Receives, WiresTyped
<1>3. /\ Range0(toServer[s]) = {Head(toServer[s])} \cup Range0(Tail(toServer[s]))
      /\ OnlyFirst(toServer[s]) =>
           Register \notin Range0(Tail(toServer[s])) /\ OnlyFirst(Tail(toServer[s]))
  BY <1>1, TailElements
<1>4. type # "REGISTER_WORKER" => Head(toServer[s]) # Register
  BY <1>1 DEF Register
<1> QED
  BY <1>1, <1>2, <1>3, <1>4

\* A handler or timer that takes no registration and answers none.
LEMMA RepliesSteady ==
    ASSUME IInv, Clean, UNCHANGED <<worker, link>>, Members' \subseteq Members,
           \/ toServer' = toServer
           \/ \E s \in Sessions : \E type : type # "REGISTER_WORKER" /\ Receives(s, type),
           NEW packets \in [Sessions -> Seq(ToWorker)],
           \A r \in Sessions : toWorker'[r] \in {toWorker[r], To(r, packets[r])},
           \A r \in Sessions : \A p \in Range0(packets[r]) :
              /\ p.type # "REGISTER_RESP"
              /\ p = HeartbeatResp(FALSE) =>
                   /\ toServer[r] # <<>>
                   /\ OnlyFirst(toServer[r]) => Register \notin Range0(toServer'[r])
    PROVE  ServerSteady
<1>1. ASSUME NEW r \in Sessions
      PROVE  /\ OnlyFirst(toServer[r]) => OnlyFirst(toServer'[r])
             /\ toServer[r] = <<>> => toServer'[r] = <<>>
             /\ Range0(toServer'[r]) \subseteq Range0(toServer[r])
             /\ Register \in Range0(toServer[r]) => Register \in Range0(toServer'[r])
  <2>1. CASE toServer' = toServer
    BY <2>1
  <2>2. ASSUME NEW s \in Sessions, NEW type, type # "REGISTER_WORKER", Receives(s, type)
        PROVE  /\ OnlyFirst(toServer[r]) => OnlyFirst(toServer'[r])
               /\ toServer[r] = <<>> => toServer'[r] = <<>>
               /\ Range0(toServer'[r]) \subseteq Range0(toServer[r])
               /\ Register \in Range0(toServer[r]) => Register \in Range0(toServer'[r])
    <3>1. WiresTyped
      BY DEF IInv
    <3> QED
      BY <2>2, <3>1, ReceivesElements
  <2> QED
    BY <2>1, <2>2
<1>2. ASSUME NEW r \in Sessions
      PROVE  /\ link[r] # "open" => toWorker'[r] = toWorker[r]
             /\ Range0(toWorker[r]) \subseteq Range0(toWorker'[r])
             /\ Range0(toWorker'[r]) \subseteq Range0(toWorker[r]) \cup Range0(packets[r])
  <2>1. toWorker[r] \in Seq(ToWorker) /\ packets[r] \in Seq(ToWorker)
    BY DEF IInv, WiresTyped
  <2>2. /\ link[r] # "open" => To(r, packets[r]) = toWorker[r]
        /\ Range0(toWorker[r]) \subseteq Range0(To(r, packets[r]))
        /\ Range0(To(r, packets[r])) \subseteq Range0(toWorker[r]) \cup Range0(packets[r])
    BY <2>1, DeliveredElements
  <2>3. CASE toWorker'[r] = toWorker[r]
    BY <2>3
  <2>4. CASE toWorker'[r] = To(r, packets[r])
    BY <2>2, <2>4
  <2> QED
    BY <2>3, <2>4
<1>3. \A r \in Sessions :
        /\ link'[r] = link[r]
        /\ link'[r] = "closed" => toServer'[r] = <<>>
  BY <1>1 DEF Clean
<1>4. \A r \in Sessions : \A p \in Range0(toWorker'[r]) \ Range0(toWorker[r]) :
         /\ p.type # "REGISTER_RESP"
         /\ p = HeartbeatResp(FALSE) =>
              /\ toServer[r] # <<>>
              /\ OnlyFirst(toServer[r]) => Register \notin Range0(toServer'[r])
  BY <1>2
<1> QED
  BY <1>1, <1>2, <1>3, <1>4 DEF ServerSteady

LEMMA HandleHeartbeatSteady ==
    ASSUME IInv, Clean, NEW s \in Sessions, HandleHeartbeat(s)
    PROVE  ServerSteady
<1> DEFINE packets == [r \in Sessions |-> IF r = s THEN <<HeartbeatResp(FALSE)>> ELSE <<>>]
<1>1. WiresTyped /\ Receives(s, "HEARTBEAT") /\ UNCHANGED <<worker, link, m_nodes>>
  BY DEF IInv, HandleHeartbeat, HasNode
<1>2. toServer[s] # <<>> /\ (OnlyFirst(toServer[s]) => Register \notin Range0(toServer'[s]))
  BY <1>1, ReceivesElements
<1>3. <<HeartbeatResp(FALSE)>> \in Seq(ToWorker)
      /\ Range0(<<HeartbeatResp(FALSE)>>) = {HeartbeatResp(FALSE)}
  BY OnePacket DEF ToWorker
<1>4. packets \in [Sessions -> Seq(ToWorker)]
  <2>1. ASSUME NEW r \in Sessions PROVE packets[r] \in Seq(ToWorker)
    <3>1. CASE r = s
      BY <1>3, <3>1
    <3>2. CASE r # s
      <4>1. packets[r] = <<>>
        BY <3>2
      <4> HIDE DEF packets
      <4> QED
        BY <4>1
    <3> QED
      BY <3>1, <3>2
  <2> QED
    BY <2>1
<1>5. \A r \in Sessions : toWorker'[r] \in {toWorker[r], To(r, packets[r])}
  <2>1. CASE toWorker' = toWorker
    BY <2>1
  <2>2. CASE toWorker' = [toWorker EXCEPT ![s] = To(s, <<HeartbeatResp(FALSE)>>)]
    BY <1>1, <2>2 DEF WiresTyped
  <2> QED
    BY <2>1, <2>2 DEF HandleHeartbeat, Reply
<1>6. \A r \in Sessions : \A p \in Range0(packets[r]) : r = s /\ p = HeartbeatResp(FALSE)
  BY <1>3, EmptyElements
<1>7. HeartbeatResp(FALSE).type # "REGISTER_RESP"
  BY DEF HeartbeatResp
<1>8. Members' \subseteq Members
  BY <1>1 DEF Members
<1> HIDE DEF packets
<1> QED
  BY <1>1, <1>2, <1>4, <1>5, <1>6, <1>7, <1>8, RepliesSteady

LEMMA AcceptHeartbeatSteady ==
    ASSUME IInv, Clean, NEW s \in Sessions, AcceptHeartbeat(s)
    PROVE  ServerSteady
<1> DEFINE packets == [r \in Sessions |-> IF r = s THEN <<HeartbeatResp(TRUE)>> ELSE <<>>]
<1>1. UNCHANGED <<worker, link, toServer>> /\ Members' = Members
  BY DEF AcceptHeartbeat, UpdateHeartbeat, Members
<1>2. <<HeartbeatResp(TRUE)>> \in Seq(ToWorker)
      /\ Range0(<<HeartbeatResp(TRUE)>>) = {HeartbeatResp(TRUE)}
  BY OnePacket DEF ToWorker
<1>3. packets \in [Sessions -> Seq(ToWorker)]
  <2>1. ASSUME NEW r \in Sessions PROVE packets[r] \in Seq(ToWorker)
    <3>1. CASE r = s
      BY <1>2, <3>1
    <3>2. CASE r # s
      <4>1. packets[r] = <<>>
        BY <3>2
      <4> HIDE DEF packets
      <4> QED
        BY <4>1
    <3> QED
      BY <3>1, <3>2
  <2> QED
    BY <2>1
<1>4. \A r \in Sessions : toWorker'[r] \in {toWorker[r], To(r, packets[r])}
  BY DEF AcceptHeartbeat, Reply, IInv, WiresTyped
<1>5. \A r \in Sessions : \A p \in Range0(packets[r]) : p = HeartbeatResp(TRUE)
  BY <1>2, EmptyElements
<1>6. HeartbeatResp(TRUE).type # "REGISTER_RESP" /\ HeartbeatResp(TRUE) # HeartbeatResp(FALSE)
  <2>1. HeartbeatResp(TRUE).ack # HeartbeatResp(FALSE).ack
    BY DEF HeartbeatResp
  <2> QED
    BY <2>1 DEF HeartbeatResp
<1> HIDE DEF packets
<1> QED
  BY <1>1, <1>3, <1>4, <1>5, <1>6, RepliesSteady

\* Announcements answer nothing.
LEMMA AnnouncementsSteady ==
    ASSUME IInv, Clean, UNCHANGED <<worker, link, toServer>>, Members' \subseteq Members,
           NEW q \in Seq({Offline(id) : id \in Issued}),
           toWorker' = Broadcast(q)
    PROVE  ServerSteady
<1> DEFINE packets == [r \in Sessions |-> q]
<1>1. q \in Seq(ToWorker)
  BY SeqMonotonic DEF ToWorker
<1>2. packets \in [Sessions -> Seq(ToWorker)]
  BY <1>1
<1>3. \A r \in Sessions : toWorker'[r] \in {toWorker[r], To(r, packets[r])}
  BY DEF Broadcast
<1>4. \A p \in Range0(q) : p.type = "WORKER_OFFLINE"
  BY DEF Range0, Offline
<1>5. HeartbeatResp(FALSE).type # "WORKER_OFFLINE"
  BY DEF HeartbeatResp
<1>6. \A r \in Sessions : \A p \in Range0(packets[r]) :
         p.type # "REGISTER_RESP" /\ p # HeartbeatResp(FALSE)
  BY <1>4, <1>5
<1> HIDE DEF packets
<1> QED
  BY <1>2, <1>3, <1>6, RepliesSteady

\* A server that says nothing.
LEMMA SilentSteady ==
    ASSUME IInv, Clean, UNCHANGED <<worker, link, toWorker>>, Members' \subseteq Members,
           \/ toServer' = toServer
           \/ \E s \in Sessions : \E type : type # "REGISTER_WORKER" /\ Receives(s, type)
    PROVE  ServerSteady
<1> DEFINE packets == [r \in Sessions |-> <<>>]
<1>1. packets \in [Sessions -> Seq(ToWorker)]
  OBVIOUS
<1>2. \A r \in Sessions : Range0(packets[r]) = {}
  BY EmptyElements
<1>3. \A r \in Sessions : toWorker'[r] \in {toWorker[r], To(r, packets[r])}
  OBVIOUS
<1> HIDE DEF packets
<1> QED
  BY <1>1, <1>2, <1>3, RepliesSteady

LEMMA OtherServerSteps ==
    ASSUME IInv, Clean,
           \/ \E s \in Sessions : HandleRemove(s) \/ BroadcastRemoval(s)
           \/ Scan \/ BroadcastTimeouts \/ Advance \/ UNCHANGED vars
    PROVE  ServerSteady
<1>1. ASSUME NEW s \in Sessions, HandleRemove(s) PROVE ServerSteady
  <2>1. Members' \subseteq Members /\ UNCHANGED <<worker, link, toWorker>>
    BY <1>1 DEF HandleRemove, RemoveWorker, Members
  <2>2. Receives(s, "WORKER_REMOVE")
    BY <1>1 DEF HandleRemove
  <2> QED
    BY <2>1, <2>2, SilentSteady
<1>2. ASSUME NEW s \in Sessions, BroadcastRemoval(s) PROVE ServerSteady
  <2>1. handler[s].id \in Issued
    <3>1. handler[s] \in Handler /\ handler[s].step = "broadcast"
      BY <1>2 DEF BroadcastRemoval, IInv, ServerTyped
    <3> QED
      BY <3>1 DEF Handler, Idle
  <2>2. <<Offline(handler[s].id)>> \in Seq({Offline(id) : id \in Issued})
    BY <2>1
  <2>3. /\ UNCHANGED <<worker, link, toServer, m_nodes>>
        /\ toWorker' = Broadcast(<<Offline(handler[s].id)>>)
    BY <1>2 DEF BroadcastRemoval, NoCall
  <2> QED
    BY <2>2, <2>3, AnnouncementsSteady DEF Members
<1>3. CASE Scan
  <2>1. Members' \subseteq Members /\ UNCHANGED <<worker, link, toWorker, toServer>>
    BY <1>3 DEF Scan, ScanTimeoutNodes, Members
  <2> QED
    BY <2>1, SilentSteady
<1>4. CASE BroadcastTimeouts
  <2>1. PICK order \in [1..Cardinality(scanned) -> scanned] :
          toWorker' = Broadcast([i \in DOMAIN order |-> Offline(order[i])])
    BY <1>4 DEF BroadcastTimeouts
  <2>2. [i \in DOMAIN order |-> Offline(order[i])] \in Seq({Offline(id) : id \in Issued})
    <3>1. Cardinality(scanned) \in Nat /\ scanned \subseteq Issued
      BY FS_CardinalityType DEF IInv, ServerTyped
    <3>2. [i \in DOMAIN order |-> Offline(order[i])]
            \in [1..Cardinality(scanned) -> {Offline(id) : id \in Issued}]
      BY <3>1
    <3> QED
      BY <3>1, <3>2, SeqDef
  <2>3. UNCHANGED <<worker, link, toServer, m_nodes>>
    BY <1>4 DEF BroadcastTimeouts, NoCall
  <2> QED
    BY <2>1, <2>2, <2>3, AnnouncementsSteady DEF Members
<1>5. CASE Advance \/ UNCHANGED vars
  <2>1. UNCHANGED <<worker, link, toWorker, toServer, m_nodes>>
    BY <1>5 DEF Advance, vars, clusterVars, registryVars
  <2> QED
    BY <2>1, SilentSteady DEF Members
<1> QED
  BY <1>1, <1>2, <1>3, <1>4, <1>5

LEMMA CloseSessionSteady ==
    ASSUME IInv, Clean, NEW s \in Sessions, CloseSession(s)
    PROVE  ServerSteady
<1>1. /\ UNCHANGED <<worker, toWorker, m_nodes>> /\ link[s] \in {"cut", "eof"}
      /\ \A r \in Sessions :
           IF r = s THEN link'[r] = "closed" /\ toServer'[r] = <<>>
                    ELSE link'[r] = link[r] /\ toServer'[r] = toServer[r]
  BY DEF CloseSession, NoCall, IInv, WiresTyped
<1> QED
  BY <1>1, EmptyElements DEF ServerSteady, Clean, Members

LEMMA RestartServerSteady ==
    ASSUME IInv, Clean, RestartServer
    PROVE  ServerSteady
<1>1. /\ UNCHANGED <<worker, toWorker>> /\ Members' = {}
      /\ \A r \in Sessions :
           /\ link'[r] = IF link[r] = "none" THEN "none" ELSE "closed"
           /\ toServer'[r] = <<>>
  BY DEF RestartServer, Members
<1> QED
  BY <1>1, EmptyElements DEF ServerSteady

(***************************************************************************)
(* A registration is taken from the newest session, and is the newest.     *)
(***************************************************************************)
LEMMA HandleRegisterKeepsRegistrations ==
    ASSUME IInv, Registrations, NEW s \in Sessions, HandleRegister(s)
    PROVE  Registrations'
<1> DEFINE w == s[1]
           id == <<w, stamp + 1>>
<1>1. WiresTyped /\ RegistryTyped /\ Clean /\ w \in Addrs
  BY DEF IInv, Registrations, Sessions
<1>2. Receives(s, "REGISTER_WORKER") /\ UNCHANGED <<worker, link>>
  BY DEF HandleRegister
<1>3. /\ Members' = Members \cup {id}
      /\ toWorker' = [toWorker EXCEPT ![s] = To(s, <<RegisterResp(id)>>)]
  BY DEF HandleRegister, RegisterWorker, Reply, Members
<1>4. /\ toServer[s] # <<>> /\ Head(toServer[s]) \in ToServer
      /\ Head(toServer[s]).type = "REGISTER_WORKER"
      /\ link[s] # "none" /\ link[s] # "closed"
  BY <1>1, <1>2, ReceivedPacket DEF Receives
<1>5. Register \in Range0(toServer[s])
  <2>1. Head(toServer[s]) = Register
    BY <1>4 DEF ToServer, Register, Heartbeat, Farewell
  <2>2. toServer[s] \in Seq(ToServer)
    BY <1>1 DEF WiresTyped
  <2> QED
    BY <1>4, <2>1, <2>2, TailElements
<1>6. \A r \in Sessions : r # s => toServer'[r] = toServer[r] /\ toWorker'[r] = toWorker[r]
  BY <1>1, <1>2, <1>3 DEF Receives, WiresTyped
<1>7. /\ OnlyFirst(toServer[s]) => Register \notin Range0(toServer'[s])
      /\ OnlyFirst(toServer[s]) => OnlyFirst(toServer'[s])
  BY <1>1, <1>2, ReceivesElements
<1>8. /\ link[s] = "open" =>
           Range0(toWorker'[s]) = Range0(toWorker[s]) \cup {RegisterResp(id)}
      /\ Range0(toWorker'[s]) \subseteq Range0(toWorker[s]) \cup {RegisterResp(id)}
  <2> DEFINE S == ToWorker \cup {RegisterResp(id)}
             x == <<RegisterResp(id)>>
  <2>1. x \in Seq(S) /\ Range0(x) = {RegisterResp(id)}
    BY OnePacket
  <2>2. toWorker[s] \in Seq(S)
    BY <1>1, SeqMonotonic DEF WiresTyped
  <2>3. toWorker'[s] = To(s, x)
    BY <1>1, <1>3 DEF WiresTyped
  <2> HIDE DEF S, x
  <2> QED
    BY <2>1, <2>2, <2>3, DeliveredElements
<1>9. Used(w)' = Used(w) /\ Current(w)' = Current(w)
  BY <1>2 DEF Used, Current
<1>10. s \in Used(w)
  BY <1>4 DEF Used
<1>11. Registering(w) /\ Superseding(w)
  BY <1>1 DEF Registrations
<1>12. ASSUME worker[w].alive = "on", ~worker[w].lost
       PROVE  IsConnected(w) /\ s = Current(w)
  BY <1>5, <1>10, <1>11, <1>12 DEF Superseding
<1>13. stamp \in Nat /\ \A m \in Members : m[2] \in Nat /\ m[2] <= stamp
  BY <1>1, RegistryAssumption DEF RegistryTyped, Issued
<1>14. \A m \in Members' : m[1] = w => m[2] <= id[2]
  <2>1. id[2] = stamp + 1
    OBVIOUS
  <2>2. \A m \in Members' : m \in Members \/ m = id
    BY <1>3
  <2> HIDE DEF id
  <2> QED
    BY <1>13, <2>1, <2>2
<1>15. RegisterResp(id).type = "REGISTER_RESP" /\ RegisterResp(id).node_id = id
  BY DEF RegisterResp
<1>16. Serves(w)' = Serves(w) /\ IsConnected(w)' = IsConnected(w)
  BY <1>2 DEF Serves, IsConnected
<1> HIDE DEF id
<1>17. ASSUME Serves(w), s = Current(w)
       PROVE  /\ RegistersFirst(w)' /\ ~Asks(w)'
              /\ link[Current(w)] = "open" => Answers(w)' # {}
              /\ \A p \in Answers(w)' : p = RegisterResp(id)
  <2>1. RegistersFirst(w) /\ Answers(w) = {}
    BY <1>5, <1>11, <1>17 DEF Registering, Asks
  <2>2. Register \notin Range0(worker[w].out)
    BY <1>4, <1>17, <2>1 DEF RegistersFirst
  <2>3. RegistersFirst(w)' /\ ~Asks(w)'
    BY <1>2, <1>7, <1>9, <1>17, <2>1, <2>2 DEF RegistersFirst, Asks
  <2>4. Coming(w)' \subseteq Coming(w) \cup {RegisterResp(id)}
    BY <1>2, <1>8, <1>9, <1>17 DEF Coming
  <2>5. link[s] = "open" => RegisterResp(id) \in Coming(w)'
    BY <1>8, <1>9, <1>17 DEF Coming
  <2> QED
    BY <1>15, <1>17, <2>1, <2>3, <2>4, <2>5 DEF Answers
<1>18. Registering(w)'
  <2>1. CASE Serves(w) /\ s = Current(w)
    BY <1>2, <1>9, <1>17, <2>1 DEF Registering
  <2>2. CASE Serves(w) /\ s # Current(w)
    <3>1. Current(w) \in Sessions
      BY <2>2, <1>1, CurrentSession DEF IInv, Coherent, Serves, IsConnected, IsReading
    <3>2. /\ RegistersFirst(w)' <=> RegistersFirst(w)
          /\ Asks(w)' <=> Asks(w)
          /\ Refused(w)' <=> Refused(w)
          /\ Answers(w)' = Answers(w)
      BY <1>2, <1>6, <1>9, <2>2, <3>1 DEF RegistersFirst, Asks, Refused, Answers, Coming
    <3> QED
      BY <1>2, <1>9, <1>11, <1>16, <2>2, <3>2 DEF Registering
  <2>3. CASE ~Serves(w)
    BY <1>16, <2>3 DEF Registering
  <2> QED
    BY <2>1, <2>2, <2>3
<1>19. Superseding(w)'
  <2>1. ASSUME worker[w].alive = "on", ~worker[w].lost PROVE Superseding(w)'
    <3>1. Serves(w) /\ s = Current(w) /\ IsConnected(w)
      BY <1>12, <2>1 DEF Serves
    <3>2. \A r \in Used(w) : r # Current(w) => Register \notin Range0(toServer'[r])
      <4>1. \A r \in Used(w) : r \in Sessions
        BY DEF Used
      <4> QED
        BY <1>6, <1>11, <2>1, <3>1, <4>1 DEF Superseding
    <3>3. \A p \in Answers(w)' : Newest(w, p.node_id)'
      <4> SUFFICES ASSUME NEW p \in Answers(w)' PROVE Newest(w, p.node_id)'
        OBVIOUS
      <4>1. p.node_id = id
        BY <1>15, <1>17, <3>1
      <4> QED
        BY <1>14, <4>1 DEF Newest
    <3> QED
      BY <1>2, <1>9, <1>16, <1>17, <3>1, <3>2, <3>3 DEF Superseding
  <2>2. ASSUME ~(worker[w].alive = "on" /\ ~worker[w].lost) PROVE Superseding(w)'
    <3>1. ~(worker'[w].alive = "on" /\ ~worker'[w].lost)
      BY <1>2, <2>2
    <3> QED
      BY <3>1 DEF Superseding
  <2> QED
    BY <2>1, <2>2
<1>20. ASSUME NEW v \in Addrs, v # w PROVE Registering(v)' /\ Superseding(v)'
  <2>1. \A r \in Sessions : r[1] # w =>
          link'[r] = link[r] /\ toServer'[r] = toServer[r] /\ toWorker'[r] = toWorker[r]
    BY <1>2, <1>6
  <2>2. \A m \in Members' : m[1] # w => m \in Members
    BY <1>3 DEF id
  <2> HIDE DEF w
  <2> QED
    BY <1>1, <1>2, <1>20, <2>1, <2>2, OthersSteady
<1>21. Clean'
  <2>1. \A v \in Addrs : Used(v)' = Used(v)
    BY <1>2 DEF Used
  <2> QED
    BY <1>1, <1>2, <1>4, <1>6, <2>1 DEF Clean
<1> QED
  BY <1>18, <1>19, <1>20, <1>21 DEF Registrations

-----------------------------------------------------------------------------
(***************************************************************************)
(* The steps of a worker.                                                  *)
(***************************************************************************)
LEMMA WorkerKeepsRegistrations ==
    ASSUME IInv, Registrations, NEW w \in Addrs,
           \A v \in Addrs \ {w} : worker'[v] = worker[v],
           \A s \in Sessions : s[1] # w =>
             link'[s] = link[s] /\ toServer'[s] = toServer[s] /\ toWorker'[s] = toWorker[s],
           \A s \in Sessions : s[1] = w =>
             /\ link'[s] = "none" =>
                  /\ link[s] = "none" /\ toServer'[s] = toServer[s]
                  /\ toWorker'[s] \in {toWorker[s], <<>>}
             /\ link'[s] = "closed" => link[s] = "closed" /\ toServer'[s] = toServer[s],
           m_nodes' = m_nodes,
           worker'[w].alive # "unborn",
           worker'[w].alive = "off" => worker'[w].lost /\ worker'[w].inbox = <<>>,
           Registering(w)' /\ Superseding(w)'
    PROVE  Registrations'
<1>1. ASSUME NEW v \in Addrs, v # w
      PROVE  Registering(v)' /\ Superseding(v)' /\ Used(v)' = Used(v)
  <2>1. \A m \in Members' : m[1] # w => m \in Members
    BY DEF Members
  <2> QED
    BY <1>1, <2>1, OthersSteady
<1>2. Clean'
  <2>1. ASSUME NEW s \in Sessions
        PROVE  /\ link'[s] = "none" => toServer'[s] = <<>> /\ toWorker'[s] = <<>>
               /\ link'[s] = "closed" => toServer'[s] = <<>>
    <3>1. /\ link[s] = "none" => toServer[s] = <<>> /\ toWorker[s] = <<>>
          /\ link[s] = "closed" => toServer[s] = <<>>
      BY DEF Registrations, Clean
    <3>2. CASE s[1] = w
      BY <3>1, <3>2
    <3>3. CASE s[1] # w
      BY <3>1, <3>3
    <3> QED
      BY <3>2, <3>3
  <2>2. ASSUME NEW v \in Addrs
        PROVE  /\ worker'[v].alive = "unborn" => Used(v)' = {}
               /\ worker'[v].alive = "off" => worker'[v].lost
               /\ worker'[v].alive \in {"unborn", "off"} => worker'[v].inbox = <<>>
    <3>1. CASE v = w
      BY <3>1
    <3>2. CASE v # w
      <4>1. worker'[v] = worker[v] /\ Used(v)' = Used(v)
        BY <1>1, <3>2
      <4> QED
        BY <4>1 DEF Registrations, Clean
    <3> QED
      BY <3>1, <3>2
  <2> QED
    BY <2>1, <2>2 DEF Clean
<1> QED
  BY <1>1, <1>2 DEF Registrations

\* TcpClient::Connect takes the next session.
LEMMA NextSession ==
    ASSUME IInv, NEW w \in Addrs, NEW me, OpenSession(w, me)
    PROVE  \E t \in Sessions :
             /\ t[1] = w /\ link[t] = "none"
             /\ Used(w)' = Used(w) \cup {t} /\ Current(w)' = t
             /\ worker' = [worker EXCEPT ![w] = Connected(w, me)]
             /\ link'[t] = "open"
             /\ \A s \in Sessions \ {t} :
                  link'[s] = IF s[1] = w /\ link[s] \in {"open", "cut"} THEN "eof" ELSE link[s]
<1> DEFINE n == Cardinality(Used(w)) + 1
           t == <<w, n>>
<1>1. /\ n <= MaxSessions
      /\ worker' = [worker EXCEPT ![w] = Connected(w, me)]
      /\ link' = [Hang(w) EXCEPT ![t] = "open"]
  BY DEF OpenSession
<1>2. PICK c \in 0..MaxSessions : Used(w) = {w} \X (1..c)
  BY DEF IInv, SessionsInOrder
<1>3. c \in Nat
  OBVIOUS
<1>4. n = c + 1
  BY <1>2, <1>3, SessionCount
<1>5. t \in Sessions /\ t \notin Used(w) /\ t[1] = w
  BY <1>1, <1>2, <1>3, <1>4 DEF Sessions
<1>6. link[t] = "none"
  BY <1>5 DEF Used
<1>7. /\ link'[t] = "open"
      /\ \A s \in Sessions \ {t} :
           link'[s] = IF s[1] = w /\ link[s] \in {"open", "cut"} THEN "eof" ELSE link[s]
  BY <1>1, <1>5 DEF Hang
<1> HIDE DEF n
<1>8. Used(w)' = Used(w) \cup {t}
  BY <1>5, <1>7 DEF Used
<1>9. Current(w)' = t
  <2>1. Used(w)' = {w} \X (1..(c + 1))
    <3>1. 1..(c + 1) = (1..c) \cup {c + 1}
      BY <1>3
    <3> QED
      BY <1>2, <1>4, <1>8, <3>1
  <2>2. Cardinality({w} \X (1..(c + 1))) = c + 1
    <3>1. c + 1 \in Nat
      BY <1>3
    <3> QED
      BY <3>1, SessionCount
  <2> QED
    BY <1>4, <2>1, <2>2 DEF Current
<1> QED
  BY <1>1, <1>5, <1>6, <1>7, <1>8, <1>9

\* With a new session a worker asks anew, and has asked for nothing else.
LEMMA ConnectKeepsRegistrations ==
    ASSUME IInv, Registrations, NEW w \in Addrs, NEW me \in Worker, OpenSession(w, me),
           me.alive = "on", me.inbox = <<>>, me.lost = worker[w].lost,
           worker[w].alive \in {"unborn", "off"} \/ (worker[w].alive = "on" /\ ~IsConnected(w)),
           UNCHANGED <<toServer, toWorker, m_nodes>>
    PROVE  Registrations'
<1>1. PICK t \in Sessions :
             /\ t[1] = w /\ link[t] = "none"
             /\ Used(w)' = Used(w) \cup {t} /\ Current(w)' = t
             /\ worker' = [worker EXCEPT ![w] = Connected(w, me)]
             /\ link'[t] = "open"
             /\ \A s \in Sessions \ {t} :
                  link'[s] = IF s[1] = w /\ link[s] \in {"open", "cut"} THEN "eof" ELSE link[s]
  BY NextSession
<1>2. /\ worker'[w].alive = "on" /\ worker'[w].conn = "Connected"
      /\ worker'[w].out = <<Register>> /\ worker'[w].inbox = <<>>
      /\ worker'[w].lost = worker[w].lost
  <2>1. worker'[w] = Connected(w, me)
    BY <1>1 DEF IInv
  <2> QED
    BY <2>1 DEF Connected, Worker
<1>3. toServer[t] = <<>> /\ toWorker[t] = <<>>
  BY <1>1 DEF Registrations, Clean
<1>4. Range0(<<Register>>) = {Register} /\ OnlyFirst(<<Register>>)
  BY DEF Range0, OnlyFirst
<1>5. Coming(w)' = {} /\ Asks(w)' /\ RegistersFirst(w)'
  BY <1>1, <1>2, <1>3, <1>4, EmptyElements DEF Coming, Asks, RegistersFirst
<1>6. Registering(w)'
  BY <1>5 DEF Registering, Answers, Refused
<1>7. Superseding(w)'
  <2>1. ASSUME ~worker[w].lost, NEW s \in Used(w) PROVE Register \notin Range0(toServer[s])
    <3>1. worker[w].alive = "on" /\ ~IsConnected(w)
      BY <2>1 DEF Registrations, Clean
    <3> QED
      BY <2>1, <3>1 DEF Registrations, Superseding
  <2>2. IsConnected(w)'
    BY <1>2 DEF IsConnected
  <2> QED
    BY <1>1, <1>2, <1>5, <2>1, <2>2 DEF Superseding, Answers
<1>8. \A v \in Addrs \ {w} : worker'[v] = worker[v]
  BY <1>1 DEF IInv
<1>9. \A s \in Sessions : s[1] # w =>
             link'[s] = link[s] /\ toServer'[s] = toServer[s] /\ toWorker'[s] = toWorker[s]
  BY <1>1
<1>10. \A s \in Sessions : s[1] = w =>
             /\ link'[s] = "none" =>
                  /\ link[s] = "none" /\ toServer'[s] = toServer[s]
                  /\ toWorker'[s] \in {toWorker[s], <<>>}
             /\ link'[s] = "closed" => link[s] = "closed" /\ toServer'[s] = toServer[s]
  BY <1>1
<1> QED
  BY <1>2, <1>6, <1>7, <1>8, <1>9, <1>10, WorkerKeepsRegistrations

LEMMA StartKeepsRegistrations ==
    ASSUME IInv, Registrations, NEW w \in Addrs, Start(w)
    PROVE  Registrations'
<1> DEFINE me == [worker[w] EXCEPT !.alive = "on"]
<1>1. worker[w] \in Worker /\ worker[w].alive \in {"unborn", "off"} /\ Coherent(w)
  BY DEF IInv, Start
<1>2. me \in Worker /\ me.alive = "on" /\ me.started = worker[w].started
                    /\ me.inbox = worker[w].inbox /\ me.lost = worker[w].lost
                    /\ me.conn = worker[w].conn
  BY <1>1 DEF Worker
<1>3. ~worker[w].started /\ worker[w].inbox = <<>>
  BY <1>1 DEF Coherent, Registrations, Clean
<1>4. Connect(w, me) /\ UNCHANGED <<toServer, toWorker, m_nodes>>
  BY DEF Start, NoCall
<1> HIDE DEF me
<1>5. CASE OpenSession(w, me)
  BY <1>1, <1>2, <1>3, <1>4, <1>5, ConnectKeepsRegistrations
<1>6. CASE NotOpened(w, me)
  <2>1. /\ worker' = [worker EXCEPT ![w] = [me EXCEPT !.failed = @ \/ ~me.started]]
        /\ link' = link
    BY <1>6 DEF NotOpened
  <2>2. /\ worker'[w].alive = "on" /\ worker'[w].conn = worker[w].conn
        /\ worker'[w].lost = worker[w].lost
        /\ \A v \in Addrs \ {w} : worker'[v] = worker[v]
    BY <1>2, <2>1 DEF IInv, Worker
  <2>3. ~IsConnected(w)' /\ Used(w)' = Used(w)
    BY <1>1, <2>1, <2>2 DEF Coherent, IsConnected, Used
  <2>4. Registering(w)' /\ Superseding(w)'
    <3>1. Registering(w)'
      BY <2>3 DEF Registering, Serves
    <3>2. worker'[w].lost \/ Used(w)' = {}
      BY <1>1, <2>2, <2>3 DEF Registrations, Clean
    <3> QED
      BY <2>3, <3>1, <3>2 DEF Superseding
  <2> QED
    BY <1>4, <2>1, <2>2, <2>4, WorkerKeepsRegistrations
<1> QED
  BY <1>4, <1>5, <1>6 DEF Connect

\* A step of a worker that changes its timers, its packets or nothing.
LEMMA SteadyWorker ==
    ASSUME IInv, Registrations, NEW w \in Addrs, worker[w].alive = "on",
           \A v \in Addrs \ {w} : worker'[v] = worker[v],
           /\ worker'[w].alive = worker[w].alive /\ worker'[w].conn = worker[w].conn
           /\ worker'[w].id = worker[w].id /\ worker'[w].lost = worker[w].lost,
           link' = link, m_nodes' = m_nodes,
           \A s \in Sessions : toServer'[s] # toServer[s] \/ toWorker'[s] # toWorker[s] =>
             s = Current(w) /\ link[s] # "none",
           \A s \in Sessions : toServer'[s] # toServer[s] => link[s] = "open" /\ IsConnected(w),
           Serves(w) =>
             /\ RegistersFirst(w)'
             /\ link[Current(w)] = "open" => (Asks(w)' <=> Asks(w))
             /\ Asks(w)' => Asks(w)
             /\ Coming(w)' \subseteq Coming(w) /\ Answers(w)' = Answers(w)
    PROVE  Registrations'
<1>1. Used(w)' = Used(w) /\ Current(w)' = Current(w)
  BY DEF Used, Current
<1>2. Registering(w) /\ Superseding(w)
  BY DEF Registrations
<1>3. Serves(w) =>
             /\ RegistersFirst(w)'
             /\ Asks(w)' => Asks(w) /\ ~Refused(w)'
             /\ Answers(w)' = Answers(w)
             /\ link'[Current(w)] = "open" =>
                  link[Current(w)] = "open" /\ (Asks(w) => Asks(w)')
  BY <1>2 DEF Registering, Refused
<1>4. \A s \in Used(w) : s # Current(w) \/ ~IsConnected(w) => toServer'[s] = toServer[s]
  BY DEF Used
<1>5. \A m \in Members' : m \in Members
  BY DEF Members
<1>6. Registering(w)' /\ Superseding(w)'
  BY <1>1, <1>2, <1>3, <1>4, <1>5, Steady
<1>7. \A s \in Sessions : s[1] # w => s # Current(w)
  BY DEF Current
<1>8. \A s \in Sessions : s[1] # w =>
             link'[s] = link[s] /\ toServer'[s] = toServer[s] /\ toWorker'[s] = toWorker[s]
  BY <1>7
<1>9. \A s \in Sessions : s[1] = w =>
             /\ link'[s] = "none" =>
                  /\ link[s] = "none" /\ toServer'[s] = toServer[s]
                  /\ toWorker'[s] \in {toWorker[s], <<>>}
             /\ link'[s] = "closed" => link[s] = "closed" /\ toServer'[s] = toServer[s]
  OBVIOUS
<1> QED
  BY <1>6, <1>8, <1>9, WorkerKeepsRegistrations

LEMMA ReconnectTimerKeepsRegistrations ==
    ASSUME IInv, Registrations, NEW w \in Addrs, ReconnectTimer(w)
    PROVE  Registrations'
<1> DEFINE me == [worker[w] EXCEPT !.reconnects = @ \ {now}]
<1>1. worker[w] \in Worker /\ worker[w].alive = "on" /\ worker[w].inbox = <<>> /\ Coherent(w)
  BY DEF IInv, ReconnectTimer, Free
<1>2. /\ me \in Worker /\ me.alive = "on" /\ me.started = worker[w].started
      /\ me.inbox = worker[w].inbox /\ me.lost = worker[w].lost
      /\ me.conn = worker[w].conn /\ me.id = worker[w].id /\ me.out = worker[w].out
  BY <1>1 DEF Worker
<1>3. Connect(w, me) /\ UNCHANGED <<toServer, toWorker, m_nodes>>
  BY DEF ReconnectTimer, NoCall
<1> HIDE DEF me
<1>4. CASE ~me.started /\ OpenSession(w, me)
  <2>1. ~IsConnected(w)
    BY <1>1, <1>2, <1>4 DEF Coherent
  <2> QED
    BY <1>1, <1>2, <1>3, <1>4, <2>1, ConnectKeepsRegistrations
<1>5. CASE NotOpened(w, me)
  <2>1. /\ worker' = [worker EXCEPT ![w] = [me EXCEPT !.failed = @ \/ ~me.started]]
        /\ link' = link
    BY <1>5 DEF NotOpened
  <2>2. /\ worker'[w] = [me EXCEPT !.failed = @ \/ ~me.started]
        /\ worker'[w].alive = me.alive /\ worker'[w].inbox = me.inbox
        /\ worker'[w].lost = me.lost /\ worker'[w].conn = me.conn
        /\ worker'[w].id = me.id /\ worker'[w].out = me.out
        /\ \A v \in Addrs \ {w} : worker'[v] = worker[v]
    BY <1>2, <2>1 DEF IInv, Worker
  <2>3. Current(w)' = Current(w)
    BY <2>1 DEF Current, Used
  <2>4. /\ RegistersFirst(w)' <=> RegistersFirst(w)
        /\ Asks(w)' <=> Asks(w)
        /\ Coming(w)' = Coming(w) /\ Answers(w)' = Answers(w)
    BY <1>2, <1>3, <2>2, <2>3 DEF RegistersFirst, Asks, Coming, Answers
  <2>5. Serves(w) => RegistersFirst(w)
    BY DEF Registrations, Registering
  <2> QED
    BY <1>1, <1>2, <1>3, <2>1, <2>2, <2>4, <2>5, SteadyWorker
<1> QED
  BY <1>3, <1>4, <1>5 DEF Connect

LEMMA HeartbeatTimerKeepsRegistrations ==
    ASSUME IInv, Registrations, NEW w \in Addrs, NEW i \in DOMAIN worker[w].chains,
           HeartbeatTimer(w, i)
    PROVE  Registrations'
<1>1. worker[w] \in Worker /\ worker[w].alive = "on"
  BY DEF IInv, HeartbeatTimer, Free
<1>2. /\ UNCHANGED <<link, toServer, toWorker, m_nodes>>
      /\ \A v \in Addrs \ {w} : worker'[v] = worker[v]
  BY DEF HeartbeatTimer, NoCall, IInv
<1>3. /\ worker'[w].alive = worker[w].alive /\ worker'[w].conn = worker[w].conn
      /\ worker'[w].id = worker[w].id /\ worker'[w].lost = worker[w].lost
      /\ worker'[w].inbox = worker[w].inbox
      /\ worker'[w].out = IF worker[w].id # NoId /\ IsConnected(w)
                            THEN Append(worker[w].out, Heartbeat(worker[w].id))
                            ELSE worker[w].out
  BY <1>1 DEF HeartbeatTimer, IInv, Worker
<1>4. Current(w)' = Current(w)
  BY <1>2 DEF Current, Used
<1>5. /\ Register \in Range0(worker'[w].out) <=> Register \in Range0(worker[w].out)
      /\ OnlyFirst(worker[w].out) => OnlyFirst(worker'[w].out)
  <2> DEFINE h == Heartbeat(worker[w].id)
             q == worker[w].out
  <2>1. CASE worker'[w].out = Append(q, h) /\ worker[w].id # NoId
    <3>1. h \in ToServer /\ h # Register /\ q \in Seq(ToServer)
      BY <1>1, <2>1 DEF ToServer, Worker, Heartbeat, Register
    <3> HIDE DEF h, q
    <3>2. Range0(Append(q, h)) = Range0(q) \cup {h}
      BY <3>1, AppendElements
    <3>3. \A j \in DOMAIN Append(q, h) : Append(q, h)[j] = h \/
                                        (j \in DOMAIN q /\ Append(q, h)[j] = q[j])
      BY <3>1, AppendProperties
    <3>4. OnlyFirst(q) => OnlyFirst(Append(q, h))
      BY <3>1, <3>3 DEF OnlyFirst
    <3> QED
      BY <2>1, <3>1, <3>2, <3>4 DEF q
  <2>2. CASE worker'[w].out = q
    BY <2>2
  <2> QED
    BY <1>3, <2>1, <2>2
<1>6. /\ RegistersFirst(w) => RegistersFirst(w)'
      /\ Asks(w)' <=> Asks(w)
      /\ Coming(w)' = Coming(w) /\ Answers(w)' = Answers(w)
  BY <1>2, <1>3, <1>4, <1>5 DEF RegistersFirst, Asks, Coming, Answers
<1>7. Serves(w) => RegistersFirst(w)
  BY DEF Registrations, Registering
<1> QED
  BY <1>1, <1>2, <1>3, <1>6, <1>7, SteadyWorker

LEMMA ReadKeepsRegistrations ==
    ASSUME IInv, Registrations, NEW w \in Addrs, Read(w)
    PROVE  Registrations'
<1> DEFINE s == Current(w)
<1>1. worker[w] \in Worker /\ worker[w].alive = "on" /\ worker[w].inbox = <<>>
      /\ Coherent(w) /\ IsReading(w) /\ SessionsInOrder /\ WiresTyped
  BY DEF IInv, Read, Free
<1>2. s \in Sessions /\ link[s] # "none"
  BY <1>1, CurrentSession DEF Coherent
<1>3. PICK n \in 1..Len(toWorker[s]) :
         /\ worker' = [worker EXCEPT ![w].inbox = SubSeq(toWorker[s], 1, n)]
         /\ toWorker' = [toWorker EXCEPT ![s] = SubSeq(@, n + 1, Len(@))]
  BY DEF Read
<1>4. /\ UNCHANGED <<link, toServer, m_nodes>>
      /\ \A v \in Addrs \ {w} : worker'[v] = worker[v]
  BY <1>3 DEF Read, NoCall, IInv
<1>5. /\ worker'[w].alive = worker[w].alive /\ worker'[w].conn = worker[w].conn
      /\ worker'[w].id = worker[w].id /\ worker'[w].lost = worker[w].lost
      /\ worker'[w].out = worker[w].out
      /\ worker'[w].inbox = SubSeq(toWorker[s], 1, n)
  BY <1>1, <1>3 DEF IInv, Worker
<1>6. /\ toWorker'[s] = SubSeq(toWorker[s], n + 1, Len(toWorker[s]))
      /\ \A r \in Sessions : r # s => toWorker'[r] = toWorker[r]
  BY <1>1, <1>2, <1>3 DEF WiresTyped
<1>7. Current(w)' = s
  BY <1>4 DEF Current, Used
<1> HIDE DEF s
<1>8. Range0(SubSeq(toWorker[s], 1, n)) \cup Range0(SubSeq(toWorker[s], n + 1, Len(toWorker[s])))
        = Range0(toWorker[s])
  <2>1. toWorker[s] \in Seq(ToWorker)
    BY <1>1, <1>2 DEF WiresTyped
  <2> QED
    BY <2>1, CutElements
<1>9. Coming(w)' = Coming(w)
  BY <1>1, <1>5, <1>6, <1>7, <1>8, EmptyElements DEF Coming, s
<1>10. /\ RegistersFirst(w) => RegistersFirst(w)'
       /\ Asks(w)' <=> Asks(w)
       /\ Answers(w)' = Answers(w)
  BY <1>4, <1>5, <1>7, <1>9 DEF RegistersFirst, Asks, Answers, s
<1>11. Serves(w) => RegistersFirst(w)
  BY DEF Registrations, Registering
<1> QED
  BY <1>1, <1>2, <1>4, <1>5, <1>6, <1>9, <1>10, <1>11, SteadyWorker DEF s

\* What is written goes from the buffer onto the wire, in order.
LEMMA FlushKeepsRegistrations ==
    ASSUME IInv, Registrations, NEW w \in Addrs, Flush(w), worker[w].alive = "on"
    PROVE  Registrations'
<1> DEFINE s == Current(w)
           q == toServer[s]
           o == worker[w].out
<1>1. worker[w] \in Worker /\ Coherent(w) /\ IsConnected(w) /\ SessionsInOrder /\ WiresTyped
  BY DEF IInv, Flush
<1>2. s \in Sessions /\ link[s] # "none"
  BY <1>1, CurrentSession DEF Coherent, IsReading, IsConnected
<1>3. q \in Seq(ToServer) /\ o \in Seq(ToServer)
  BY <1>1, <1>2 DEF WiresTyped, Worker
<1>4. /\ UNCHANGED <<link, toWorker, m_nodes>>
      /\ \A v \in Addrs \ {w} : worker'[v] = worker[v]
      /\ worker'[w].alive = worker[w].alive /\ worker'[w].conn = worker[w].conn
      /\ worker'[w].id = worker[w].id /\ worker'[w].lost = worker[w].lost
      /\ worker'[w].inbox = worker[w].inbox /\ worker'[w].out = <<>>
  BY <1>1 DEF Flush, NoCall, IInv, Worker
<1>5. /\ toServer'[s] = IF link[s] = "open" THEN q \o o ELSE q
      /\ \A r \in Sessions : r # s => toServer'[r] = toServer[r]
  BY <1>1, <1>2 DEF Flush, WiresTyped
<1>6. Current(w)' = s
  BY <1>4 DEF Current, Used
<1>7. RegistersFirst(w)
  BY <1>1 DEF Registrations, Registering, Serves
<1>8. OnlyFirst(q) /\ OnlyFirst(o) /\ (Register \in Range0(o) => q = <<>>)
  BY <1>7 DEF RegistersFirst
<1>9. Range0(q \o o) = Range0(q) \cup Range0(o)
  BY <1>3, JoinElements
<1>10. OnlyFirst(q \o o)
  <2>1. CASE q = <<>>
    <3>1. q \o o = o
      BY <1>3, <2>1, ConcatEmptySeq
    <3> QED
      BY <1>8, <3>1
  <2>2. CASE Register \notin Range0(o)
    <3>1. OnlyFirst(q) /\ Register \notin Range0(o)
      BY <1>8, <2>2
    <3> QED
      BY <1>3, <3>1, JoinedOnlyFirst
  <2> QED
    BY <1>8, <2>1, <2>2
<1>11. RegistersFirst(w)'
  BY <1>4, <1>5, <1>6, <1>8, <1>10, EmptyElements DEF RegistersFirst
<1>12. /\ link[s] = "open" => (Asks(w)' <=> Asks(w))
       /\ Asks(w)' => Asks(w)
  BY <1>4, <1>5, <1>6, <1>9, EmptyElements DEF Asks
<1>13. Coming(w)' = Coming(w) /\ Answers(w)' = Answers(w)
  BY <1>4, <1>6 DEF Coming, Answers
<1>14. \A r \in Sessions : toServer'[r] # toServer[r] => r = s /\ link[r] = "open"
  BY <1>5
<1> QED
  BY <1>1, <1>2, <1>4, <1>11, <1>12, <1>13, <1>14, SteadyWorker

\* The id a worker adopts is the newest; a refused worker asks for nothing.
LEMMA HandlePacketKeepsRegistrations ==
    ASSUME IInv, Registrations, NEW w \in Addrs, HandlePacket(w)
    PROVE  Registrations'
<1> DEFINE me   == [worker[w] EXCEPT !.inbox = Tail(@)]
           p    == Head(worker[w].inbox)
           rest == Tail(worker[w].inbox)
           nack == p.type = "HEARTBEAT_RESP" /\ ~p.ack
<1>1. /\ worker[w] \in Worker /\ worker[w].alive = "on" /\ worker[w].inbox # <<>>
      /\ Coherent(w) /\ SessionsInOrder /\ WiresTyped
  BY DEF IInv, HandlePacket
<1>2. worker[w].inbox \in Seq(ToWorker)
  BY <1>1 DEF Worker
<1>3. p \in ToWorker /\ rest \in Seq(ToWorker) /\ Range0(worker[w].inbox) = {p} \cup Range0(rest)
  BY <1>1, <1>2, HeadTailProperties, TailElements
<1>4. /\ me \in Worker /\ me.alive = "on" /\ me.out = worker[w].out /\ me.inbox = rest
      /\ me.conn = worker[w].conn /\ me.id = worker[w].id
      /\ me.lost = worker[w].lost
  BY <1>1, <1>3 DEF Worker
<1>5. /\ UNCHANGED <<toServer, toWorker, m_nodes>>
      /\ \A v \in Addrs \ {w} : worker'[v] = worker[v]
  BY DEF HandlePacket, NoCall, IInv
<1>6. Registering(w) /\ Superseding(w) /\ Members' = Members
  BY <1>5 DEF Registrations, Members
<1>7. CASE p.type = "REGISTER_RESP"
  <2>1. worker'[w] = Adopted(me, p.node_id) /\ link' = link
    BY <1>7 DEF HandlePacket, IInv
  <2>2. p.node_id \in Issued /\ p.node_id # NoId
    <3>1. Issued \subseteq Ids
      BY RegistryAssumption DEF IInv, RegistryTyped, Issued, Ids
    <3> QED
      BY <1>3, <1>7, <3>1, PacketIds, ClusterAssumption
  <2> HIDE DEF me, p, rest, nack
  <2>3. /\ worker'[w].alive = "on" /\ worker'[w].out = worker[w].out
        /\ worker'[w].inbox = rest /\ worker'[w].conn = worker[w].conn
        /\ worker'[w].id = p.node_id /\ worker'[w].lost = worker[w].lost
    BY <1>4, <2>1, <2>2 DEF Adopted, Worker
  <2>4. Used(w)' = Used(w) /\ Current(w)' = Current(w)
        /\ (IsConnected(w)' <=> IsConnected(w)) /\ (Serves(w)' <=> Serves(w))
    BY <1>1, <2>1, <2>3 DEF Used, Current, IsConnected, Serves
  <2>5. Coming(w) = {p} \cup Coming(w)'
    BY <1>3, <1>5, <2>3, <2>4 DEF Coming
  <2>6. p \in Answers(w) /\ Answers(w)' \subseteq Answers(w)
    BY <1>7, <2>5 DEF Answers
  <2>7. /\ RegistersFirst(w)' <=> RegistersFirst(w)
        /\ Asks(w)' <=> Asks(w)
    BY <1>5, <2>3, <2>4 DEF RegistersFirst, Asks
  <2>8. Serves(w) => RegistersFirst(w) /\ ~Asks(w)
    BY <1>6, <2>6 DEF Registering
  <2>9. Registering(w)'
    BY <2>2, <2>3, <2>4, <2>7, <2>8 DEF Registering
  <2>10. \A id : Newest(w, id) => Newest(w, id)'
    BY <1>6 DEF Newest
  <2>11. Superseding(w)'
    <3>1. ASSUME ~worker[w].lost PROVE Superseding(w)'
      <4>1. \A s \in Used(w)' : s # Current(w)' \/ ~IsConnected(w)' =>
              Register \notin Range0(toServer'[s])
        BY <1>1, <1>5, <1>6, <2>4, <3>1 DEF Superseding
      <4>2. IsConnected(w)' => \A a \in Answers(w)' : Newest(w, a.node_id)'
        BY <1>1, <1>6, <2>4, <2>6, <2>10, <3>1 DEF Superseding
      <4>3. IsConnected(w)' => Newest(w, worker[w].id)'
        <5>1. PICK id : id = p.node_id
          OBVIOUS
        <5>2. IsConnected(w)' => Newest(w, id)'
          BY <1>1, <1>6, <2>4, <2>6, <2>10, <3>1, <5>1 DEF Superseding
        <5> QED
          BY <2>3, <5>1, <5>2 DEF Newest
      <4> QED
        BY <4>1, <4>2, <4>3 DEF Superseding
    <3>2. ASSUME worker[w].lost PROVE Superseding(w)'
      <4>1. worker'[w].lost
        BY <2>3, <3>2
      <4> QED
        BY <4>1 DEF Superseding
    <3> QED
      BY <3>1, <3>2
  <2>12. worker'[w].alive # "unborn" /\ worker'[w].alive # "off"
    BY <2>3
  <2> QED
    BY <1>5, <2>1, <2>9, <2>11, <2>12, WorkerKeepsRegistrations
<1>8. CASE nack
  <2>1. /\ worker'[w] = [Disconnected(me) EXCEPT !.reconnects = @ \cup {now + ReconnectDelay}]
        /\ link' = LinkAfterDisconnect(w)
    BY <1>8 DEF HandlePacket, IInv
  <2>2. p = HeartbeatResp(FALSE)
    <3>1. PICK q : q = p
      OBVIOUS
    <3>2. q \in ToWorker /\ q.type = "HEARTBEAT_RESP" /\ ~q.ack
      BY <1>3, <1>8, <3>1
    <3>3. q \in {HeartbeatResp(ack) : ack \in BOOLEAN}
      BY <3>2 DEF ToWorker, RegisterResp, Offline
    <3>4. q = HeartbeatResp(TRUE) \/ q = HeartbeatResp(FALSE)
      BY <3>3
    <3>5. HeartbeatResp(TRUE).ack
      BY DEF HeartbeatResp
    <3> QED
      BY <3>1, <3>2, <3>4, <3>5
  <2> HIDE DEF me, p, rest, nack
  <2>3. worker'[w].alive = "on" /\ worker'[w].lost = worker[w].lost /\ ~IsConnected(w)'
    BY <1>4, <2>1 DEF Disconnected, Worker, IsConnected
  <2>4. /\ \A s \in Sessions : link'[s] # link[s] =>
             s = Current(w) /\ s[1] = w /\ link[s] # "none" /\ link'[s] = "eof"
        /\ Used(w)' = Used(w)
    <3>1. CASE IsConnected(w) /\ worker[w].out = <<>>
      <4>1. Current(w) \in Sessions /\ Current(w)[1] = w /\ link[Current(w)] # "none"
        BY <1>1, <3>1, CurrentSession DEF Coherent, IsConnected, IsReading
      <4>2. \A s \in Sessions : link'[s] = IF s = Current(w) THEN "eof" ELSE link[s]
        BY <1>1, <2>1, <3>1 DEF LinkAfterDisconnect, WiresTyped
      <4> QED
        BY <4>1, <4>2 DEF Used
    <3>2. CASE ~(IsConnected(w) /\ worker[w].out = <<>>)
      <4>1. link' = link
        BY <2>1, <3>2 DEF LinkAfterDisconnect
      <4> QED
        BY <4>1 DEF Used
    <3> QED
      BY <3>1, <3>2
  <2>5. Refused(w)
    BY <1>3, <2>2 DEF Refused, Coming
  <2>6. IsConnected(w) => Register \notin Range0(toServer[Current(w)])
    BY <1>1, <1>6, <2>5 DEF Registering, Serves, Asks
  <2>7. Registering(w)'
    BY <2>3 DEF Registering, Serves
  <2>8. Superseding(w)'
    <3>1. ASSUME ~worker[w].lost, NEW s \in Used(w)
          PROVE  Register \notin Range0(toServer'[s])
      BY <1>1, <1>5, <1>6, <2>6, <3>1 DEF Superseding
    <3> QED
      BY <2>3, <2>4, <3>1 DEF Superseding
  <2>9. \A s \in Sessions : s[1] # w =>
             link'[s] = link[s] /\ toServer'[s] = toServer[s] /\ toWorker'[s] = toWorker[s]
    BY <1>5, <2>4
  <2>10. \A s \in Sessions : s[1] = w =>
             /\ link'[s] = "none" =>
                  /\ link[s] = "none" /\ toServer'[s] = toServer[s]
                  /\ toWorker'[s] \in {toWorker[s], <<>>}
             /\ link'[s] = "closed" => link[s] = "closed" /\ toServer'[s] = toServer[s]
    BY <1>5, <2>4
  <2>11. worker'[w].alive # "unborn" /\ worker'[w].alive # "off"
    BY <2>3
  <2> QED
    BY <1>5, <2>7, <2>8, <2>9, <2>10, <2>11, WorkerKeepsRegistrations
<1>9. CASE p.type # "REGISTER_RESP" /\ ~nack
  <2>1. worker'[w] = me /\ link' = link
    BY <1>9 DEF HandlePacket, IInv
  <2> HIDE DEF me, p, rest, nack
  <2>2. Current(w)' = Current(w)
    BY <2>1 DEF Current, Used
  <2>3. Coming(w) = {p} \cup Coming(w)'
    BY <1>3, <1>4, <1>5, <2>1, <2>2 DEF Coming
  <2>4. Answers(w)' = Answers(w)
    BY <1>9, <2>3 DEF Answers
  <2>5. /\ RegistersFirst(w)' <=> RegistersFirst(w)
        /\ Asks(w)' <=> Asks(w)
    BY <1>4, <1>5, <2>1, <2>2 DEF RegistersFirst, Asks
  <2>6. Serves(w) => RegistersFirst(w)
    BY <1>6 DEF Registering
  <2> QED
    BY <1>1, <1>4, <1>5, <2>1, <2>3, <2>4, <2>5, <2>6, SteadyWorker
<1> QED
  BY <1>7, <1>8, <1>9

\* A worker that lost its connection asks for nothing it could be told apart by.
LEMMA LoseKeepsRegistrations ==
    ASSUME IInv, Registrations, NEW w \in Addrs, Lose(w)
    PROVE  Registrations'
<1>1. /\ worker[w] \in Worker /\ worker[w].alive = "on" /\ IsReading(w)
      /\ link[Current(w)] = "open" /\ WiresTyped /\ Coherent(w) /\ SessionsInOrder
  BY DEF IInv, Lose
<1>2. UNCHANGED <<toServer, toWorker, m_nodes>> /\ link' = [link EXCEPT ![Current(w)] = "cut"]
  BY DEF Lose, NoCall
<1>3. /\ worker'[w] = [worker[w] EXCEPT !.lost = TRUE]
      /\ \A v \in Addrs \ {w} : worker'[v] = worker[v]
  BY DEF Lose, IInv
<1>4. Current(w) \in Sessions /\ Current(w)[1] = w
  BY <1>1, CurrentSession DEF Coherent
<1>5. \A s \in Sessions : link'[s] = IF s = Current(w) THEN "cut" ELSE link[s]
  BY <1>1, <1>2, <1>4 DEF WiresTyped
<1>6. Used(w)' = Used(w) /\ Current(w)' = Current(w)
  BY <1>1, <1>5 DEF Used, Current
<1>7. /\ worker'[w].alive = "on" /\ worker'[w].lost /\ worker'[w].conn = worker[w].conn
      /\ worker'[w].out = worker[w].out /\ worker'[w].inbox = worker[w].inbox
  BY <1>1, <1>3 DEF Worker
<1>8. Registering(w)'
  <2>1. Serves(w)' => Serves(w)
    BY <1>1, <1>7 DEF Serves, IsConnected
  <2>2. /\ RegistersFirst(w)' <=> RegistersFirst(w)
        /\ Asks(w)' <=> Asks(w)
        /\ Refused(w)' <=> Refused(w)
        /\ Answers(w)' = Answers(w)
    BY <1>2, <1>6, <1>7 DEF RegistersFirst, Asks, Refused, Answers, Coming
  <2>3. link'[Current(w)'] # "open"
    BY <1>4, <1>5, <1>6
  <2> QED
    BY <2>1, <2>2, <2>3 DEF Registrations, Registering
<1>9. Superseding(w)'
  BY <1>7 DEF Superseding
<1>10. \A s \in Sessions : s[1] # w => link'[s] = link[s]
  BY <1>4, <1>5
<1>11. \A s \in Sessions : link'[s] \in {"none", "closed"} => link'[s] = link[s]
  BY <1>5
<1>12. worker'[w].alive # "unborn" /\ worker'[w].alive # "off"
  BY <1>7
<1> QED
  BY <1>2, <1>3, <1>8, <1>9, <1>10, <1>11, <1>12, WorkerKeepsRegistrations

\* A session the server has closed has nothing on its way.
LEMMA ReadEofKeepsRegistrations ==
    ASSUME IInv, Registrations, NEW w \in Addrs, ReadEof(w)
    PROVE  Registrations'
<1>1. worker[w] \in Worker /\ worker[w].alive = "on" /\ link[Current(w)] \in {"cut", "closed"}
      /\ Coherent(w) /\ IsReading(w) /\ SessionsInOrder /\ WiresTyped
  BY DEF IInv, ReadEof, Free
<1>2. /\ UNCHANGED <<toServer, m_nodes>> /\ link' = Hang(w)
      /\ toWorker' = [toWorker EXCEPT ![Current(w)] = <<>>]
      /\ \A v \in Addrs \ {w} : worker'[v] = worker[v]
  BY DEF ReadEof, NoCall, IInv
<1>3. /\ worker'[w].alive = "on" /\ worker'[w].conn = "none"
      /\ worker'[w].lost = worker[w].lost
  BY <1>1 DEF ReadEof, IInv, Worker
<1>4. Current(w) \in Sessions /\ Current(w)[1] = w
  BY <1>1, CurrentSession DEF Coherent
<1>5. ~worker[w].lost => toServer[Current(w)] = <<>>
  BY <1>1, <1>4 DEF Registrations, Clean, Coherent
<1>6. \A s \in Sessions :
        link'[s] = IF s[1] = w /\ link[s] \in {"open", "cut"} THEN "eof" ELSE link[s]
  BY <1>2 DEF Hang
<1>7. Registering(w)'
  BY <1>3 DEF Registering, Serves, IsConnected
<1>8. Superseding(w)'
  <2>1. ASSUME ~worker[w].lost, NEW s \in Used(w)
        PROVE  Register \notin Range0(toServer'[s])
    BY <1>1, <1>2, <1>5, <2>1, EmptyElements DEF Registrations, Superseding
  <2>2. Used(w)' = Used(w) /\ ~IsConnected(w)'
    BY <1>3, <1>6 DEF Used, IsConnected
  <2> QED
    BY <1>3, <2>1, <2>2 DEF Superseding
<1>9. \A s \in Sessions :
        toWorker'[s] = IF s = Current(w) THEN <<>> ELSE toWorker[s]
  BY <1>1, <1>2, <1>4 DEF WiresTyped
<1>10. worker'[w].alive # "unborn" /\ worker'[w].alive # "off"
  BY <1>3
<1> QED
  BY <1>2, <1>4, <1>6, <1>7, <1>8, <1>9, <1>10, WorkerKeepsRegistrations

\* Of a process that is not running nothing is asked.
LEMMA StoppedKeepsRegistrations ==
    ASSUME IInv, Registrations, NEW w \in Addrs,
           \A v \in Addrs \ {w} : worker'[v] = worker[v],
           worker'[w].alive \notin {"on", "unborn"},
           worker'[w].alive = "off" => worker'[w].lost /\ worker'[w].inbox = <<>>,
           m_nodes' = m_nodes,
           link' \in {link, Hang(w)},
           \A s \in Sessions :
             /\ s[1] # w => toServer'[s] = toServer[s] /\ toWorker'[s] = toWorker[s]
             /\ toServer'[s] # toServer[s] => link[s] = "open"
             /\ toWorker'[s] \in {toWorker[s], <<>>}
    PROVE  Registrations'
<1>1. Registering(w)' /\ Superseding(w)'
  BY DEF Registering, Superseding, Serves
<1>2. \A s \in Sessions :
        link'[s] = link[s] \/ (s[1] = w /\ link[s] \in {"open", "cut"} /\ link'[s] = "eof")
  BY DEF Hang
<1>3. \A s \in Sessions : s[1] # w =>
             link'[s] = link[s] /\ toServer'[s] = toServer[s] /\ toWorker'[s] = toWorker[s]
  BY <1>2
<1>4. \A s \in Sessions : s[1] = w =>
             /\ link'[s] = "none" =>
                  /\ link[s] = "none" /\ toServer'[s] = toServer[s]
                  /\ toWorker'[s] \in {toWorker[s], <<>>}
             /\ link'[s] = "closed" => link[s] = "closed" /\ toServer'[s] = toServer[s]
  BY <1>2
<1>5. worker'[w].alive # "unborn"
  OBVIOUS
<1> QED
  BY <1>1, <1>3, <1>4, <1>5, WorkerKeepsRegistrations

LEMMA LastStepsKeepRegistrations ==
    ASSUME IInv, Registrations, NEW w \in Addrs,
           \/ Crash(w) \/ BeginDestroy(w) \/ EndDestroy(w)
           \/ Flush(w) /\ worker[w].alive # "on"
    PROVE  Registrations'
<1>1. worker[w] \in Worker /\ WiresTyped
  BY DEF IInv
<1>2. m_nodes' = m_nodes /\ \A v \in Addrs \ {w} : worker'[v] = worker[v]
  BY DEF Crash, BeginDestroy, EndDestroy, Flush, NoCall, IInv
<1>3. CASE Crash(w) \/ EndDestroy(w)
  <2>1. /\ worker'[w].alive \notin {"on", "unborn"}
        /\ worker'[w].alive = "off" => worker'[w].lost /\ worker'[w].inbox = <<>>
    BY <1>3, ZenonT(40) DEF Crash, EndDestroy, IInv, Off
  <2>2. /\ link' = Hang(w) /\ toServer' = toServer
        /\ \A s \in Sessions : toWorker'[s] = IF s[1] = w THEN <<>> ELSE toWorker[s]
    BY <1>3 DEF Crash, EndDestroy
  <2> QED
    BY <1>2, <2>1, <2>2, StoppedKeepsRegistrations
<1>4. CASE BeginDestroy(w)
  <2>1. worker'[w].alive = "dying"
    BY <1>1, <1>4 DEF BeginDestroy, IInv, Worker
  <2>2. UNCHANGED <<link, toServer, toWorker>>
    BY <1>4 DEF BeginDestroy
  <2>3. worker'[w].alive \notin {"on", "unborn"} /\ worker'[w].alive # "off"
    BY <2>1
  <2> QED
    BY <1>2, <2>2, <2>3, StoppedKeepsRegistrations
<1>5. CASE Flush(w) /\ worker[w].alive # "on"
  <2>1. worker'[w].alive = "dying"
    BY <1>1, <1>5 DEF Flush, IInv, Worker
  <2>2. UNCHANGED <<link, toWorker>>
    BY <1>5 DEF Flush
  <2>3. Current(w) \in Sessions /\ Current(w)[1] = w
    <3>1. IsReading(w) /\ Coherent(w) /\ SessionsInOrder
      BY <1>5 DEF Flush, IsConnected, IsReading, IInv
    <3> QED
      BY <3>1, CurrentSession DEF Coherent
  <2>4. \A s \in Sessions : toServer'[s] # toServer[s] => s = Current(w) /\ link[s] = "open"
    <3>1. CASE link[Current(w)] = "open"
      <4>1. toServer' = [toServer EXCEPT ![Current(w)] = @ \o worker[w].out]
        BY <1>5, <3>1 DEF Flush
      <4> QED
        BY <1>1, <2>3, <3>1, <4>1 DEF WiresTyped
    <3>2. CASE link[Current(w)] # "open"
      BY <1>5, <3>2 DEF Flush
    <3> QED
      BY <3>1, <3>2
  <2>5. \A s \in Sessions :
             /\ s[1] # w => toServer'[s] = toServer[s] /\ toWorker'[s] = toWorker[s]
             /\ toServer'[s] # toServer[s] => link[s] = "open"
             /\ toWorker'[s] \in {toWorker[s], <<>>}
    BY <2>2, <2>3, <2>4
  <2>6. worker'[w].alive \notin {"on", "unborn"} /\ worker'[w].alive # "off"
    BY <2>1
  <2> QED
    BY <1>2, <2>2, <2>5, <2>6, StoppedKeepsRegistrations
<1> QED
  BY <1>3, <1>4, <1>5

LEMMA InitRegistrations == ClusterInit => Registrations
<1> SUFFICES ASSUME ClusterInit PROVE Registrations
  OBVIOUS
<1>1. \A s \in Sessions : link[s] = "none" /\ toServer[s] = <<>> /\ toWorker[s] = <<>>
  BY DEF ClusterInit
<1>2. \A w \in Addrs : worker[w].alive = "unborn" /\ worker[w].inbox = <<>>
  BY DEF ClusterInit, Off
<1>3. Clean
  BY <1>1, <1>2 DEF Clean, Used
<1>4. \A w \in Addrs : Registering(w) /\ Superseding(w)
  BY <1>2 DEF Registering, Superseding, Serves
<1> QED
  BY <1>3, <1>4 DEF Registrations

(***************************************************************************)
(* Of what a worker asks and is answered: a registration comes first in    *)
(* its session, from the newest session only, and its answer is the newest *)
(* one.                                                                    *)
(***************************************************************************)
THEOREM RegistrationsInvariant == Spec => []Registrations
<1>1. ASSUME IInv, Registrations, [Next]_vars PROVE Registrations'
  <2>1. Clean
    BY <1>1 DEF Registrations
  <2>2. ASSUME NEW w \in Addrs,
               \/ Start(w) \/ Flush(w) \/ ReconnectTimer(w) \/ HandlePacket(w)
               \/ Read(w) \/ Lose(w) \/ ReadEof(w) \/ Crash(w) \/ BeginDestroy(w) \/ EndDestroy(w)
        PROVE  Registrations'
    BY <1>1, <2>2, StartKeepsRegistrations, FlushKeepsRegistrations,
       ReconnectTimerKeepsRegistrations, HandlePacketKeepsRegistrations,
       ReadKeepsRegistrations, LoseKeepsRegistrations, ReadEofKeepsRegistrations,
        LastStepsKeepRegistrations
  <2>3. ASSUME NEW w \in Addrs, NEW i \in DOMAIN worker[w].chains, HeartbeatTimer(w, i)
        PROVE  Registrations'
    BY <1>1, <2>3, HeartbeatTimerKeepsRegistrations
  <2>4. ASSUME NEW s \in Sessions, HandleRegister(s) PROVE Registrations'
    BY <1>1, <2>4, HandleRegisterKeepsRegistrations
  <2>5. ASSUME NEW s \in Sessions,
               \/ HandleHeartbeat(s) \/ AcceptHeartbeat(s) \/ HandleRemove(s)
               \/ BroadcastRemoval(s) \/ CloseSession(s)
        PROVE  Registrations'
    <3>1. ServerSteady
      BY <1>1, <2>1, <2>5, HandleHeartbeatSteady, AcceptHeartbeatSteady, OtherServerSteps,
         CloseSessionSteady
    <3> QED
      BY <1>1, <3>1, ServerKeepsRegistrations
  <2>6. CASE Scan \/ BroadcastTimeouts \/ Advance \/ RestartServer \/ UNCHANGED vars
    <3>1. ServerSteady
      BY <1>1, <2>1, <2>6, OtherServerSteps, RestartServerSteady
    <3> QED
      BY <1>1, <3>1, ServerKeepsRegistrations
  <2> QED
    BY <1>1, <2>2, <2>3, <2>4, <2>5, <2>6 DEF Next
<1> QED
  BY <1>1, InitRegistrations, ClusterInvariant, PTL DEF Spec

(***************************************************************************)
(* A connected worker with nothing on its way holds an id, and, unless a   *)
(* process or a connection of it died before, the registry has no newer:   *)
(* through reconnections, restarts of the server and late answers, a       *)
(* worker that answers for a registration answers for its newest.          *)
(***************************************************************************)
THEOREM NewestUsed == Spec => []UsesNewest
<1>1. IInv /\ Registrations => UsesNewest
  <2> SUFFICES ASSUME IInv, Registrations, NEW w \in Addrs, Quiet(w)
               PROVE  /\ worker[w].id # NoId
                      /\ ~worker[w].lost =>
                           \A id \in DOMAIN m_nodes : id[1] = w => id[2] <= worker[w].id[2]
    BY DEF UsesNewest
  <2>1. Serves(w) /\ Registering(w) /\ Superseding(w)
    BY DEF Quiet, Serves, Registrations
  <2>2. Current(w) \in Sessions /\ link[Current(w)] # "none" /\ Current(w) \in Used(w)
    <3>1. Coherent(w) /\ SessionsInOrder /\ IsReading(w)
      BY <2>1 DEF IInv, Serves, IsConnected, IsReading
    <3> QED
      BY <3>1, CurrentSession DEF Coherent, Used
  <2>3. toServer[Current(w)] = <<>> /\ toWorker[Current(w)] = <<>>
    BY <2>2 DEF Quiet
  <2>4. ~Asks(w) /\ Answers(w) = {}
    BY <2>3, EmptyElements DEF Quiet, Asks, Answers, Coming
  <2>5. worker[w].id # NoId
    BY <2>1, <2>4 DEF Quiet, Registering
  <2>6. ~worker[w].lost => Newest(w, worker[w].id)
    BY <2>1, <2>4 DEF Quiet, Superseding
  <2> QED
    BY <2>5, <2>6 DEF Newest, Members
<1> QED
  BY <1>1, ClusterInvariant, RegistrationsInvariant, PTL

=============================================================================
