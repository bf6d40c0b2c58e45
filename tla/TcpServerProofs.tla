---------------------------- MODULE TcpServerProofs ----------------------------
(***************************************************************************)
(* Proofs about TcpServer: its types and, for every number of sub loops,   *)
(* connections and descriptors and every application of                    *)
(* TcpServerAssumption, who owns a descriptor, what m_connections and the  *)
(* pollers' tables lead to, and, for the applications that do not outrun   *)
(* the library (Careful), that no code runs on a destroyed connection.     *)
(***************************************************************************)
EXTENDS TcpServer, FiniteSetTheorems, SequenceTheorems, TLAPS

(***************************************************************************)
(* Which functors wait at a loop: in its queue, or in the rest of the      *)
(* batch it runs.                                                          *)
(***************************************************************************)
Pends(l, x) == \E i \in 1..Len(pending[l]) : pending[l][i] = x
Remains(l, x) == \E i \in at[l]..Len(batch[l]) : batch[l][i] = x
Waits(l, x) == Pends(l, x) \/ Remains(l, x)

Ops == {"Established", "Remove", "Destroyed", "Send", "Shutdown", "ForceClose"}
Functors == [op : Ops, conn : Conns]
ForeignCalls == [op : {"Send", "Shutdown", "ForceClose", "Visit"}, conn : Conns]

MyLoops == IF setup.subLoops = <<>> THEN {Main} ELSE SubLoops(setup)

(***************************************************************************)
(* The types, those TypeOK leaves out included.                            *)
(***************************************************************************)
Typed ==
    /\ TypeOK
    /\ pending \in [Loops -> Seq(Functors)]
    /\ batch \in [Loops -> Seq(Functors)]
    /\ at \in [Loops -> Nat]
    /\ foreign \in SUBSET ForeignCalls
    /\ setup \in Setups

(***************************************************************************)
(* Only born connections are led to, each under its descriptor and in its  *)
(* loop; the removal alone waits in the main loop.                         *)
(***************************************************************************)
Lead ==
    /\ \A c \in Conns :
         /\ ~Born(c) => conn[c] = Blank
         /\ Born(c) => conn[c].fd \in Fds /\ conn[c].loop \in MyLoops
    /\ \A l \in Loops : \A x \in Functors : Waits(l, x) =>
         Born(x.conn) /\ (IF x.op = "Remove" THEN l = Main ELSE conn[x.conn].loop = l)
    /\ \A x \in foreign : Born(x.conn)
    /\ \A c \in Conns :
         /\ \A l \in Loops : closing[l] = c => Born(c) /\ conn[c].loop = l
         /\ \A f \in Fds : m_connections[f] = c => Born(c) /\ conn[c].fd = f
         /\ \A l \in Loops : \A f \in Fds :
              poller[l][f] = c => Born(c) /\ conn[c].fd = f /\ conn[c].loop = l

(***************************************************************************)
(* The phases of a loop: batches are run and handlers are inside           *)
(* HandleClose at different times.                                         *)
(***************************************************************************)
Phases ==
    \A l \in Loops :
        /\ phase[l] # "run" => batch[l] = <<>>
        /\ closing[l] # None => phase[l] = "poll"

Sound == Typed /\ Lead /\ Phases

(***************************************************************************)
(* What a step that bears no connection keeps, in three parts: what the    *)
(* connections and the descriptor tables are, the queues, the rest.        *)
(***************************************************************************)
ConnRecords == [state : {"Unborn", "Connecting", "Connected", "Disconnecting",
                         "Disconnected"},
                loop : Loops \cup {None}, fd : Fds \cup {None},
                open : BOOLEAN, events : SUBSET {"read", "write"},
                out : 0..MaxOut]

Placed(l, x) ==
    Born(x.conn) /\ (IF x.op = "Remove" THEN l = Main ELSE conn[x.conn].loop = l)

Keeps ==
    \A c \in Conns :
        /\ conn'[c].fd = conn[c].fd /\ conn'[c].loop = conn[c].loop
        /\ Born(c)' <=> Born(c)
        /\ ~Born(c) => conn'[c] = conn[c]

TablesKept ==
    /\ conn' \in [Conns -> ConnRecords] /\ Keeps
    /\ kernel' \in [Fds -> {"free", "open", "full", "hup"}]
    /\ epoll' \in [Loops -> SUBSET Fds]
    /\ poller' \in [Loops -> [Fds -> Conns \cup {None}]]
    /\ \A l \in Loops : \A f \in Fds : \A c \in Conns : poller'[l][f] = c =>
         poller[l][f] = c \/ (Born(c) /\ conn[c].fd = f /\ conn[c].loop = l)

QueuesKept ==
    /\ pending' \in [Loops -> Seq(Functors)]
    /\ batch' \in [Loops -> Seq(Functors)]
    /\ at' \in [Loops -> Nat]
    /\ \A l \in Loops : at'[l] \in 1..(Len(batch'[l]) + 1)
    /\ \A l \in Loops : \A x \in Functors : Waits(l, x)' => Waits(l, x) \/ Placed(l, x)

RestKept ==
    /\ m_connections' \in [Fds -> Conns \cup {None}]
    /\ \A f \in Fds : \A c \in Conns : m_connections'[f] = c => m_connections[f] = c
    /\ foreign' \in SUBSET ForeignCalls
    /\ \A x \in foreign' : x \in foreign \/ Born(x.conn)
    /\ closing' \in [Loops -> Conns \cup {None}]
    /\ \A l \in Loops : \A c \in Conns : closing'[l] = c =>
         closing[l] = c \/ (Born(c) /\ conn[c].loop = l)
    /\ phase' \in [Loops -> {"poll", "run", "exited"}]
    /\ userRefs' \in SUBSET Conns
    /\ missed' \in SUBSET Conns
    /\ server' \in {"up", "closing", "quitting", "cleared", "aborted"}
    /\ nextLoop' = nextLoop /\ setup' = setup

\* What a step that bears connection c on descriptor f does, but for the poller.
Bears(c, f) ==
    /\ server = "up" /\ ~Born(c) /\ kernel[f] = "free"
    /\ phase[Main] = "poll" /\ closing[Main] = None
    /\ conn' \in [Conns -> ConnRecords]
    /\ \A d \in Conns : d # c => conn'[d] = conn[d]
    /\ Born(c)' /\ conn'[c].fd = f /\ conn'[c].loop = NextLoop /\ conn'[c].open
    /\ NextLoop \in MyLoops /\ NextLoop \in Loops
    /\ kernel' = [kernel EXCEPT ![f] = "open"]
    /\ m_connections' = [m_connections EXCEPT ![f] = c]
    /\ IF setup.subLoops # <<>>
         THEN /\ NextLoop # Main /\ conn'[c].state = "Connecting" /\ conn'[c].events = {}
              /\ pending' = Post(NextLoop, Functor("Established", c))
              /\ UNCHANGED <<poller, epoll, userRefs>>
         ELSE /\ NextLoop = Main /\ conn'[c].state = "Connected"
              /\ conn'[c].events = {"read"}
              /\ pending' = pending
    /\ UNCHANGED <<batch, at, phase, closing, foreign, missed, setup>>
    /\ server' = "up" \/ server' = "aborted"

(***************************************************************************)
(* What a step does to one connection, its socket and the tables.          *)
(***************************************************************************)
Becomes(c, s, o, e) ==
    /\ \A d \in Conns : d # c => conn'[d] = conn[d]
    /\ conn'[c].fd = conn[c].fd /\ conn'[c].loop = conn[c].loop
    /\ conn'[c].state = s /\ conn'[c].open = o /\ conn'[c].events = e

Watches(c) ==
    LET none == poller[conn[c].loop][conn[c].fd] = None IN
    /\ \A l \in Loops : \A f \in Fds : poller'[l][f] =
         IF none /\ l = conn[c].loop /\ f = conn[c].fd THEN c ELSE poller[l][f]
    /\ \A l \in Loops : \A f \in Fds : f \in epoll'[l] <=>
         \/ f \in epoll[l]
         \/ none /\ l = conn[c].loop /\ f = conn[c].fd /\ kernel[f] # "free"

PollerForgets(c) ==
    \A l \in Loops : \A f \in Fds : poller'[l][f] =
        IF l = conn[c].loop /\ f = conn[c].fd THEN None ELSE poller[l][f]

\* The entry l of the poller was c's: epoll no longer reports the descriptor.
EpollDrops(c, everywhere) ==
    \A l \in Loops : \A f \in Fds : f \in epoll'[l] <=>
        /\ f \in epoll[l]
        /\ ~(f = conn[c].fd /\ (everywhere \/ (l = conn[c].loop /\ poller[l][f] # None)))

SocketCloses(c) ==
    \A f \in Fds : kernel'[f] =
        IF conn[c].open /\ f = conn[c].fd THEN "free" ELSE kernel[f]

(***************************************************************************)
(* A descriptor in use is the open socket of one connection.               *)
(***************************************************************************)
Owned ==
    /\ \A c \in Conns : conn[c].open => kernel[conn[c].fd] # "free"
    /\ \A c, d \in Conns :
         conn[c].open /\ conn[d].open /\ conn[c].fd = conn[d].fd => c = d
    /\ \A f \in Fds : kernel[f] # "free" => \E c \in Conns : conn[c].open /\ conn[c].fd = f

(***************************************************************************)
(* A connection is established once.                                       *)
(***************************************************************************)
PendsOnce(l, x) ==
    \A i, j \in 1..Len(pending[l]) : pending[l][i] = x /\ pending[l][j] = x => i = j
RemainsOnce(l, x) ==
    \A i, j \in at[l]..Len(batch[l]) : batch[l][i] = x /\ batch[l][j] = x => i = j

Once ==
    \A l \in Loops : \A c \in Conns :
        LET x == Functor("Established", c) IN
        PendsOnce(l, x) /\ RemainsOnce(l, x) /\ ~(Pends(l, x) /\ Remains(l, x))

NoForeignShutdown == "foreignShutdown" \notin setup.calls

(***************************************************************************)
(* What a functor that waits says of its connection.                       *)
(***************************************************************************)
Fits(x) ==
    /\ x.op = "Established" <=> conn[x.conn].state = "Connecting"
    /\ x.op \in {"Established", "Remove", "Destroyed", "ForceClose"} => setup.subLoops # <<>>
    /\ x.op = "Send" => "foreignSend" \in setup.calls
    /\ x.op = "Shutdown" => ~NoForeignShutdown
    /\ x.op = "ForceClose" => "destroy" \in setup.calls
    /\ x.op \in {"Remove", "Destroyed"} /\ server = "up" /\ NoForeignShutdown
         => conn[x.conn].state = "Disconnected"

CallFits(x) ==
    /\ x.op # "Visit" => conn[x.conn].state # "Connecting"
    /\ x.op = "Send" => "foreignSend" \in setup.calls
    /\ x.op = "Shutdown" => ~NoForeignShutdown
    /\ x.op \in {"Visit", "ForceClose"} =>
         "destroy" \in setup.calls /\ setup.subLoops # <<>> /\ server = "closing"

(***************************************************************************)
(* The states of the connections: what they say of the channel, and what   *)
(* waits, is called, is in HandleClose or is polled in which state.        *)
(***************************************************************************)
StatesFit ==
    /\ \A c \in Conns :
         /\ conn[c].state = "Connecting" => conn[c].open /\ conn[c].events = {}
         /\ conn[c].state = "Connected" => conn[c].open /\ "read" \in conn[c].events
    /\ \A l \in Loops : \A x \in Functors : Waits(l, x) => Fits(x)
    /\ \A x \in foreign : CallFits(x)
    /\ \A l \in Loops : \A c \in Conns : closing[l] = c =>
         /\ conn[c].state \in {"Disconnecting", "Disconnected"}
         /\ server = "up" /\ NoForeignShutdown => conn[c].state = "Disconnected"
    /\ \A l \in Loops : \A f \in Fds : \A c \in Conns :
         poller[l][f] = c => conn[c].state # "Connecting"
    /\ server \in {"closing", "quitting", "cleared"} =>
         "destroy" \in setup.calls /\ setup.subLoops # <<>>

(***************************************************************************)
(* Without Shutdown of other threads a live connection is in m_connections *)
(* and, unless the server is destroyed, its socket is open; one that the   *)
(* destruction visits or closes is still in m_connections.                 *)
(***************************************************************************)
Live(c) == conn[c].state \in {"Connecting", "Connected", "Disconnecting"}

InMap ==
    /\ NoForeignShutdown =>
         /\ server = "up" => \A c \in Conns : Live(c) => conn[c].open
         /\ server \in {"up", "closing", "quitting"} =>
              \A c \in Conns : Live(c) => m_connections[conn[c].fd] = c
    /\ \A x \in foreign :
         x.op \in {"Visit", "ForceClose"} => m_connections[conn[x.conn].fd] = x.conn

Closed == Sound /\ Owned /\ Once /\ StatesFit /\ InMap

(***************************************************************************)
(* What epoll can report leads to an open connection.  With sub loops this *)
(* needs that no other thread shuts connections down; a single loop leads  *)
(* every open connection's descriptor somewhere, and keeps the connection  *)
(* in m_connections, until it is in HandleClose.                           *)
(***************************************************************************)
EpollLeads ==
    NoForeignShutdown \/ setup.subLoops = <<>> =>
        \A l \in Loops : \A f \in epoll[l] :
            \E c \in Conns : poller[l][f] = c /\ conn[c].open

Single ==
    setup.subLoops = <<>> =>
        /\ missed = {}
        /\ \A c \in Conns : conn[c].open /\ closing[Main] # c =>
             poller[Main][conn[c].fd] # None /\ m_connections[conn[c].fd] = c

Polled == EpollLeads /\ Single

(***************************************************************************)
(* Where no one shuts connections down, and the server is not destroyed:   *)
(* the established connections, and no others, are in their loop's tables. *)
(***************************************************************************)
Quiet == setup.calls \subseteq {"send", "foreignSend"}

Listens(c) == conn[c].fd \in epoll[conn[c].loop] /\ poller[conn[c].loop][conn[c].fd] = c

WatchedOnly ==
    Quiet =>
        \A c \in Conns :
            /\ conn[c].state = "Connected" => Listens(c)
            /\ \A l \in Loops : \A f \in Fds :
                 poller[l][f] = c => conn[c].state = "Connected"

(***************************************************************************)
(* Applications that do not outrun the library.  One that keeps its        *)
(* connections may do as it likes on one loop, and with sub loops anything *)
(* but shut a connection down from another thread; one that drops them     *)
(* must have sub loops and only answer messages.                           *)
(***************************************************************************)
Careful(x) ==
    /\ x.keepsRefs \/ (x.subLoops # <<>> /\ x.calls \subseteq {"send"})
    /\ "foreignShutdown" \in x.calls => x.subLoops = <<>>

Kept ==
    setup.keepsRefs =>
        \A c \in Conns : Born(c) =>
            c \in userRefs \/ \E l \in Loops : Waits(l, Functor("Established", c))

Echoes == setup.subLoops # <<>> /\ setup.calls \subseteq {"send"}

\* Between the two halves of HandleClose a functor holds the connection.
Removal(l, c) ==
    Waits(Main, Functor("Remove", c)) \/ Waits(l, Functor("Destroyed", c))

Echo ==
    Echoes =>
        /\ foreign = {}
        /\ \A c \in Conns :
             /\ conn[c].state # "Disconnecting"
             /\ conn[c].state = "Disconnected" =>
                  /\ conn[c].events = {}
                  /\ conn[c].open => closing[conn[c].loop] = c
        /\ \A l \in Loops : \A c \in Conns : closing[l] = c => Removal(l, c)

NotAborted == Careful(setup) /\ "destroy" \notin setup.calls => server # "aborted"

IInv == Sound /\ Owned /\ Once /\ StatesFit /\ InMap /\ Polled /\ WatchedOnly
        /\ Kept /\ Echo /\ NotAborted

-----------------------------------------------------------------------------
(***************************************************************************)
(* The constants and the queues.                                           *)
(***************************************************************************)
LEMMA SetupFacts ==
    ASSUME setup \in Setups
    PROVE  /\ setup.subLoops \in Seq(Loops)
           /\ Main \in Loops
           /\ MyLoops \subseteq Loops
           /\ Main \notin SubLoops(setup)
           /\ setup.subLoops # <<>> => Main \notin MyLoops
           /\ None \notin Loops /\ None \notin Conns /\ None \notin Fds
           /\ MaxOut \in Nat
<1>1. /\ setup.subLoops \in Seq(Loops) /\ Main \notin SubLoops(setup)
      /\ MaxOut \in Nat /\ None \notin Conns \cup Fds \cup Loops
  BY TcpServerAssumption
<1>2. Main \in Loops
  BY DEF Loops
<1>3. SubLoops(setup) \subseteq Loops
  BY DEF Loops
<1> QED
  BY <1>1, <1>2, <1>3 DEF MyLoops

LEMMA ModBound ==
    ASSUME NEW a \in Nat, NEW n \in Nat \ {0}
    PROVE  a % n \in 0..(n - 1)
OBVIOUS

LEMMA NextLoopMine ==
    ASSUME Typed
    PROVE  /\ NextLoop \in MyLoops
           /\ setup.subLoops # <<>> => (nextLoop + 1) % Len(setup.subLoops) \in 0..Len(setup.subLoops)
<1>1. CASE setup.subLoops = <<>>
  BY <1>1 DEF NextLoop, MyLoops
<1>2. CASE setup.subLoops # <<>>
  <2> DEFINE n == Len(setup.subLoops)
  <2>1. n \in Nat \ {0}
    BY <1>2, SetupFacts, EmptySeq, LenProperties DEF Typed
  <2>2. nextLoop \in Nat
    BY <2>1 DEF Typed, TypeOK
  <2>3. nextLoop % n \in 0..(n - 1) /\ (nextLoop + 1) % n \in 0..(n - 1)
    <3> HIDE DEF n
    <3>1. nextLoop + 1 \in Nat
      BY <2>2
    <3> QED
      BY <2>1, <2>2, <3>1, ModBound
  <2>4. (nextLoop % n) + 1 \in DOMAIN setup.subLoops
    BY <2>1, <2>3, SetupFacts, LenProperties DEF Typed
  <2> QED
    BY <1>2, <2>1, <2>3, <2>4 DEF NextLoop, MyLoops, SubLoops
<1> QED
  BY <1>1, <1>2

LEMMA FunctorType ==
    ASSUME NEW op \in Ops, NEW c \in Conns
    PROVE  Functor(op, c) \in Functors /\ Functor(op, c).op = op /\ Functor(op, c).conn = c
BY DEF Functor, Functors

LEMMA PostPends ==
    ASSUME Typed, NEW l \in Loops, NEW f \in Functors, pending' = Post(l, f)
    PROVE  /\ pending' \in [Loops -> Seq(Functors)]
           /\ \A k \in Loops : \A x \in Functors :
                Pends(k, x)' <=> Pends(k, x) \/ (k = l /\ x = f)
<1>1. pending[l] \in Seq(Functors)
  BY DEF Typed
<1>2. /\ Append(pending[l], f) \in Seq(Functors)
      /\ Len(Append(pending[l], f)) = Len(pending[l]) + 1
      /\ \A i \in 1..Len(pending[l]) : Append(pending[l], f)[i] = pending[l][i]
      /\ Append(pending[l], f)[Len(pending[l]) + 1] = f
  BY <1>1, AppendProperties
<1>3. \A k \in Loops : pending'[k] = IF k = l THEN Append(pending[l], f) ELSE pending[k]
  BY DEF Post, Typed
<1>4. pending' \in [Loops -> Seq(Functors)]
  BY <1>2 DEF Post, Typed
<1>5. Len(pending[l]) \in Nat
  BY <1>1, LenProperties
<1>6. ASSUME NEW x \in Functors
      PROVE  Pends(l, x)' <=> Pends(l, x) \/ x = f
  <2> DEFINE q == Append(pending[l], f)
             n == Len(pending[l])
  <2>1. Pends(l, x)' <=> \E i \in 1..(n + 1) : q[i] = x
    BY <1>2, <1>3 DEF Pends
  <2>2. \A i \in 1..(n + 1) : i \in 1..n \/ i = n + 1
    BY <1>5
  <2>3. 1..n \subseteq 1..(n + 1) /\ n + 1 \in 1..(n + 1)
    BY <1>5
  <2> QED
    BY <1>2, <2>1, <2>2, <2>3 DEF Pends
<1>7. \A k \in Loops : k # l => \A x \in Functors : Pends(k, x)' <=> Pends(k, x)
  BY <1>3 DEF Pends
<1> QED
  BY <1>4, <1>6, <1>7

LEMMA RunRemains ==
    ASSUME Typed, NEW l \in Loops, NEW op \in Ops, NEW c \in Conns, Runs(l, op, c)
    PROVE  /\ Remains(l, Functor(op, c)) /\ Functor(op, c) \in Functors
           /\ \A k \in Loops : \A x \in Functors : Remains(k, x)' => Remains(k, x)
           /\ \A k \in Loops : \A x \in Functors :
                Remains(k, x) /\ ~(k = l /\ x = Functor(op, c)) => Remains(k, x)'
           /\ at' \in [Loops -> Nat]
           /\ \A k \in Loops : at'[k] \in 1..(Len(batch'[k]) + 1)
<1>1. /\ at[l] \in Nat /\ at[l] >= 1 /\ Len(batch[l]) \in Nat
      /\ at[l] <= Len(batch[l]) /\ batch[l][at[l]] = Functor(op, c)
  BY LenProperties DEF Typed, TypeOK, Runs
<1>2. batch' = batch /\ \A k \in Loops : at'[k] = IF k = l THEN at[l] + 1 ELSE at[k]
  BY DEF Typed, Runs
<1>3. Remains(l, Functor(op, c))
  BY <1>1 DEF Remains
<1>4. \A x \in Functors : Remains(l, x)' => Remains(l, x)
  <2>1. \A i \in (at[l] + 1)..Len(batch[l]) : i \in at[l]..Len(batch[l])
    BY <1>1
  <2> QED
    BY <1>2, <2>1 DEF Remains
<1>5. \A x \in Functors : Remains(l, x) /\ x # Functor(op, c) => Remains(l, x)'
  <2>1. \A i \in at[l]..Len(batch[l]) : i = at[l] \/ i \in (at[l] + 1)..Len(batch[l])
    BY <1>1
  <2> QED
    BY <1>1, <1>2, <2>1 DEF Remains
<1>6. \A k \in Loops : k # l => \A x \in Functors : Remains(k, x)' <=> Remains(k, x)
  BY <1>2 DEF Remains
<1>7. at' \in [Loops -> Nat]
  BY <1>1 DEF Runs, Typed
<1>8. \A k \in Loops : at'[k] \in 1..(Len(batch'[k]) + 1)
  <2>1. \A k \in Loops : at[k] \in 1..(Len(batch[k]) + 1)
    BY DEF Typed, TypeOK
  <2>2. at[l] + 1 \in 1..(Len(batch[l]) + 1)
    BY <1>1
  <2> QED
    BY <1>2, <2>1, <2>2
<1> QED
  BY <1>3, <1>4, <1>5, <1>6, <1>7, <1>8, FunctorType

LEMMA StartBatchWaits ==
    ASSUME Typed, Phases, NEW l \in Loops, StartBatch(l)
    PROVE  /\ \A k \in Loops : \A x \in Functors : Waits(k, x)' <=> Waits(k, x)
           /\ pending' \in [Loops -> Seq(Functors)] /\ batch' \in [Loops -> Seq(Functors)]
           /\ at' \in [Loops -> Nat]
           /\ \A k \in Loops : at'[k] \in 1..(Len(batch'[k]) + 1)
<1>1. batch[l] = <<>>
  BY DEF StartBatch, Idle, Phases
<1>2. \A k \in Loops : /\ pending'[k] = IF k = l THEN <<>> ELSE pending[k]
                       /\ batch'[k] = IF k = l THEN pending[l] ELSE batch[k]
                       /\ at'[k] = IF k = l THEN 1 ELSE at[k]
  BY DEF StartBatch, Typed
<1>3. <<>> \in Seq(Functors) /\ Len(<<>>) = 0
  BY EmptySeq
<1>4. at[l] = 1
  BY <1>1, <1>3 DEF Typed, TypeOK
<1>5. ASSUME NEW x \in Functors PROVE Waits(l, x)' <=> Waits(l, x)
  <2>1. ~Remains(l, x)
    BY <1>1, <1>3, <1>4 DEF Remains
  <2>2. ~Pends(l, x)'
    BY <1>2, <1>3 DEF Pends
  <2>3. Remains(l, x)' <=> Pends(l, x)
    BY <1>2 DEF Remains, Pends
  <2> QED
    BY <2>1, <2>2, <2>3 DEF Waits
<1>6. \A k \in Loops : k # l => \A x \in Functors : Waits(k, x)' <=> Waits(k, x)
  BY <1>2 DEF Waits, Pends, Remains
<1>7. pending' \in [Loops -> Seq(Functors)] /\ batch' \in [Loops -> Seq(Functors)]
  BY <1>3 DEF StartBatch, Typed
<1>8. at' \in [Loops -> Nat]
  BY DEF StartBatch, Typed
<1>9. \A k \in Loops : at'[k] \in 1..(Len(batch'[k]) + 1)
  <2>1. Len(pending[l]) \in Nat
    BY LenProperties DEF Typed
  <2> QED
    BY <1>2, <2>1 DEF Typed, TypeOK
<1> QED
  BY <1>5, <1>6, <1>7, <1>8, <1>9

LEMMA EndBatchWaits ==
    ASSUME Typed, NEW l \in Loops, EndBatch(l)
    PROVE  /\ \A k \in Loops : \A x \in Functors : Waits(k, x)' <=> Waits(k, x)
           /\ batch' \in [Loops -> Seq(Functors)] /\ at' \in [Loops -> Nat]
           /\ \A k \in Loops : at'[k] \in 1..(Len(batch'[k]) + 1)
<1>1. \A k \in Loops : /\ batch'[k] = IF k = l THEN <<>> ELSE batch[k]
                       /\ at'[k] = IF k = l THEN 1 ELSE at[k]
  BY DEF EndBatch, Typed
<1>2. <<>> \in Seq(Functors) /\ Len(<<>>) = 0
  BY EmptySeq
<1>3. at[l] \in Nat /\ Len(batch[l]) \in Nat /\ at[l] > Len(batch[l])
  BY LenProperties DEF EndBatch, Typed
<1>4. \A x \in Functors : ~Remains(l, x) /\ ~Remains(l, x)'
  BY <1>1, <1>2, <1>3 DEF Remains
<1>5. \A k \in Loops : k # l => \A x \in Functors : Remains(k, x)' <=> Remains(k, x)
  BY <1>1 DEF Remains
<1>6. \A k \in Loops : \A x \in Functors : Pends(k, x)' <=> Pends(k, x)
  BY DEF Pends, EndBatch
<1>7. batch' \in [Loops -> Seq(Functors)] /\ at' \in [Loops -> Nat]
  BY <1>2 DEF EndBatch, Typed
<1>8. \A k \in Loops : at'[k] \in 1..(Len(batch'[k]) + 1)
  BY <1>1, <1>2 DEF Typed, TypeOK
<1> QED
  BY <1>4, <1>5, <1>6, <1>7, <1>8 DEF Waits

LEMMA SoundFrom ==
    ASSUME Sound, TablesKept, QueuesKept, RestKept, Phases'
    PROVE  Sound'
<1>1. Typed'
  BY DEF Sound, Typed, TypeOK, TablesKept, QueuesKept, RestKept, ConnRecords
<1>2. Lead'
  <2>1. ASSUME NEW c \in Conns
        PROVE  /\ ~Born(c)' => conn'[c] = Blank
               /\ Born(c)' => conn'[c].fd \in Fds /\ conn'[c].loop \in MyLoops
    <3>1. /\ conn'[c].fd = conn[c].fd /\ conn'[c].loop = conn[c].loop
          /\ Born(c)' <=> Born(c)
          /\ ~Born(c) => conn'[c] = conn[c]
      BY DEF TablesKept, Keeps
    <3>2. /\ ~Born(c) => conn[c] = Blank
          /\ Born(c) => conn[c].fd \in Fds /\ conn[c].loop \in MyLoops
      BY DEF Sound, Lead
    <3> QED
      BY <3>1, <3>2
  <2>5. MyLoops' = MyLoops
    BY DEF RestKept, MyLoops, SubLoops
  <2>2. \A l \in Loops : \A x \in Functors : Waits(l, x)' => Placed(l, x)'
    <3>1. \A x \in Functors : x.conn \in Conns
      BY DEF Functors
    <3>2. \A l \in Loops : \A x \in Functors : Waits(l, x)' => Placed(l, x)
      BY DEF Sound, Lead, QueuesKept, Placed
    <3> QED
      BY <3>1, <3>2 DEF TablesKept, Keeps, Placed
  <2>3. \A x \in foreign' : Born(x.conn)'
    <3>1. \A x \in foreign' : x.conn \in Conns /\ Born(x.conn)
      BY DEF Sound, Lead, RestKept, ForeignCalls
    <3> QED
      BY <3>1 DEF TablesKept, Keeps
  <2>4. ASSUME NEW c \in Conns
        PROVE  /\ \A l \in Loops : closing'[l] = c => Born(c)' /\ conn'[c].loop = l
               /\ \A f \in Fds : m_connections'[f] = c => Born(c)' /\ conn'[c].fd = f
               /\ \A l \in Loops : \A f \in Fds :
                    poller'[l][f] = c => Born(c)' /\ conn'[c].fd = f /\ conn'[c].loop = l
    <3>1. /\ Born(c) => Born(c)'
          /\ conn'[c].fd = conn[c].fd /\ conn'[c].loop = conn[c].loop
      BY DEF TablesKept, Keeps
    <3>2. \A l \in Loops : closing'[l] = c => Born(c) /\ conn[c].loop = l
      BY DEF Sound, Lead, RestKept
    <3>3. \A f \in Fds : m_connections'[f] = c => Born(c) /\ conn[c].fd = f
      BY DEF Sound, Lead, RestKept
    <3>4. \A l \in Loops : \A f \in Fds :
            poller'[l][f] = c => Born(c) /\ conn[c].fd = f /\ conn[c].loop = l
      BY DEF Sound, Lead, TablesKept
    <3> QED
      BY <3>1, <3>2, <3>3, <3>4
  <2> QED
    BY <2>1, <2>2, <2>3, <2>4, <2>5 DEF Lead, Placed
<1> QED
  BY <1>1, <1>2 DEF Sound

(***************************************************************************)
(* The parts of the tables that UpdateChannel and Close change.            *)
(***************************************************************************)
LEMMA PollerWithEffect ==
    ASSUME Sound, NEW c \in Conns, Born(c), NEW events,
           poller' = PollerWith(conn[c].loop, conn[c].fd, c, events)
    PROVE  /\ poller' \in [Loops -> [Fds -> Conns \cup {None}]]
           /\ \A l \in Loops : \A f \in Fds :
                \/ poller'[l][f] = poller[l][f]
                \/ /\ l = conn[c].loop /\ f = conn[c].fd
                   /\ poller'[l][f] = IF events = {} THEN None ELSE c
                   /\ events # {} => poller[l][f] = None
<1>1. conn[c].loop \in Loops /\ conn[c].fd \in Fds
  BY SetupFacts DEF Sound, Typed, Lead
<1> DEFINE k == conn[c].loop
           g == conn[c].fd
           e == CASE events = {} -> None
                  [] events # {} /\ poller[k][g] = None -> c
                  [] OTHER -> poller[k][g]
<1>2. poller \in [Loops -> [Fds -> Conns \cup {None}]]
  BY DEF Sound, Typed, TypeOK
<1>3. poller' = [poller EXCEPT ![k][g] = e]
  BY DEF PollerWith
<1>4. e \in Conns \cup {None}
  BY <1>1, <1>2
<1>5. e = poller[k][g] \/ (events = {} /\ e = None) \/ (events # {} /\ poller[k][g] = None /\ e = c)
  OBVIOUS
<1> HIDE DEF e, k, g
<1>6. k \in Loops /\ g \in Fds
  BY <1>1 DEF k, g
<1>7. \A l \in Loops : \A f \in Fds : poller'[l][f] = IF l = k /\ f = g THEN e ELSE poller[l][f]
  BY <1>2, <1>3, <1>6
<1>8. poller' \in [Loops -> [Fds -> Conns \cup {None}]]
  BY <1>2, <1>3, <1>4, <1>6
<1> QED
  BY <1>5, <1>7, <1>8 DEF k, g

LEMMA EpollWithType ==
    ASSUME Sound, NEW l \in Loops, NEW f \in Fds, NEW events
    PROVE  /\ EpollWith(l, f, events) \in [Loops -> SUBSET Fds]
           /\ \A k \in Loops : \A g \in Fds : g \in EpollWith(l, f, events)[k] <=>
                \/ g \in epoll[k] /\ ~(k = l /\ g = f /\ events = {} /\ poller[l][f] # None)
                \/ /\ k = l /\ g = f /\ events # {}
                   /\ poller[l][f] = None /\ kernel[f] # "free"
<1>1. epoll \in [Loops -> SUBSET Fds]
  BY DEF Sound, Typed, TypeOK
<1>2. CASE events = {} /\ poller[l][f] # None
  BY <1>1, <1>2 DEF EpollWith
<1>3. CASE events # {} /\ poller[l][f] = None /\ kernel[f] # "free"
  BY <1>1, <1>3 DEF EpollWith
<1>4. CASE ~(events = {} /\ poller[l][f] # None)
           /\ ~(events # {} /\ poller[l][f] = None /\ kernel[f] # "free")
  BY <1>1, <1>4 DEF EpollWith
<1> QED
  BY <1>2, <1>3, <1>4

LEMMA AfterCloseType ==
    ASSUME Sound, NEW c \in Conns, Born(c), NEW ep \in [Loops -> SUBSET Fds]
    PROVE  /\ KernelAfterClose(c) \in [Fds -> {"free", "open", "full", "hup"}]
           /\ \A f \in Fds : KernelAfterClose(c)[f] =
                IF conn[c].open /\ f = conn[c].fd THEN "free" ELSE kernel[f]
           /\ EpollAfterClose(ep, c) \in [Loops -> SUBSET Fds]
           /\ \A l \in Loops : EpollAfterClose(ep, c)[l] =
                IF conn[c].open THEN ep[l] \ {conn[c].fd} ELSE ep[l]
<1>1. kernel \in [Fds -> {"free", "open", "full", "hup"}] /\ conn[c].fd \in Fds
  BY DEF Sound, Typed, TypeOK, Lead
<1> QED
  BY <1>1 DEF KernelAfterClose, EpollAfterClose

LEMMA ConnKeeps ==
    ASSUME Sound, NEW c \in Conns, Born(c), NEW r \in ConnRecords,
           conn' = [conn EXCEPT ![c] = r],
           r.fd = conn[c].fd, r.loop = conn[c].loop, r.state # "Unborn"
    PROVE  conn' \in [Conns -> ConnRecords] /\ Keeps
<1>1. conn \in [Conns -> ConnRecords]
  BY DEF Sound, Typed, TypeOK, ConnRecords
<1>2. \A d \in Conns : conn'[d] = IF d = c THEN r ELSE conn[d]
  BY <1>1
<1>3. conn' \in [Conns -> ConnRecords]
  BY <1>1
<1> QED
  BY <1>2, <1>3 DEF Keeps, Born

LEMMA PollerLeads ==
    ASSUME Sound, NEW c \in Conns, Born(c), NEW events,
           poller' = poller \/ poller' = PollerWith(conn[c].loop, conn[c].fd, c, events)
    PROVE  /\ poller' \in [Loops -> [Fds -> Conns \cup {None}]]
           /\ \A l \in Loops : \A f \in Fds : \A d \in Conns : poller'[l][f] = d =>
                poller[l][f] = d \/ (Born(d) /\ conn[d].fd = f /\ conn[d].loop = l)
<1>1. CASE poller' = poller
  BY <1>1 DEF Sound, Typed, TypeOK
<1>2. CASE poller' = PollerWith(conn[c].loop, conn[c].fd, c, events)
  <2>1. \A d \in Conns : d # None
    BY SetupFacts DEF Sound, Typed
  <2>2. conn[c].loop \in Loops /\ conn[c].fd \in Fds
    BY SetupFacts DEF Sound, Typed, Lead
  <2> QED
    BY <1>2, <2>1, <2>2, PollerWithEffect
<1> QED
  BY <1>1, <1>2

LEMMA ConnRecordOf ==
    ASSUME Typed, NEW c \in Conns
    PROVE  /\ conn \in [Conns -> ConnRecords]
           /\ \A s \in {"Connecting", "Connected", "Disconnecting", "Disconnected"} :
              \A o \in BOOLEAN : \A e \in SUBSET {"read", "write"} : \A n \in 0..MaxOut :
                [state |-> s, loop |-> conn[c].loop, fd |-> conn[c].fd, open |-> o,
                 events |-> e, out |-> n] \in ConnRecords
<1>1. conn \in [Conns -> ConnRecords]
  BY DEF Typed, TypeOK, ConnRecords
<1>2. conn[c].loop \in Loops \cup {None} /\ conn[c].fd \in Fds \cup {None}
  BY <1>1 DEF ConnRecords
<1> QED
  BY <1>1, <1>2 DEF ConnRecords

LEMMA ConnKeepsFields ==
    ASSUME Sound, NEW c \in Conns, Born(c),
           \A d \in Conns : d # c => conn'[d] = conn[d],
           conn'[c].fd = conn[c].fd, conn'[c].loop = conn[c].loop, conn'[c].state # "Unborn"
    PROVE  Keeps
BY DEF Keeps, Born

LEMMA ConnSame ==
    ASSUME conn' = conn
    PROVE  Keeps
BY DEF Keeps, Born

(***************************************************************************)
(* The queues: nothing posted, something posted, a functor run, or both.   *)
(***************************************************************************)
LEMMA QueuesSame ==
    ASSUME Typed, UNCHANGED <<pending, batch, at>>
    PROVE  QueuesKept /\ \A l \in Loops : \A x \in Functors : Waits(l, x)' <=> Waits(l, x)
<1>1. \A l \in Loops : \A x \in Functors : Waits(l, x)' <=> Waits(l, x)
  BY DEF Waits, Pends, Remains
<1> QED
  BY <1>1 DEF QueuesKept, Typed, TypeOK

LEMMA QueuesPost ==
    ASSUME Typed, NEW l \in Loops, NEW f \in Functors, Placed(l, f),
           pending' = Post(l, f), UNCHANGED <<batch, at>>
    PROVE  /\ QueuesKept
           /\ \A k \in Loops : \A x \in Functors :
                Waits(k, x)' <=> Waits(k, x) \/ (k = l /\ x = f)
<1>1. \A k \in Loops : \A x \in Functors : Remains(k, x)' <=> Remains(k, x)
  BY DEF Remains
<1> QED
  BY <1>1, PostPends DEF QueuesKept, Waits, Typed, TypeOK

LEMMA QueuesRun ==
    ASSUME Typed, NEW l \in Loops, NEW op \in Ops, NEW c \in Conns, Runs(l, op, c),
           pending' = pending
    PROVE  /\ QueuesKept
           /\ Waits(l, Functor(op, c)) /\ Functor(op, c) \in Functors
           /\ \A k \in Loops : \A x \in Functors : Waits(k, x)' => Waits(k, x)
           /\ \A k \in Loops : \A x \in Functors :
                Waits(k, x) /\ ~(k = l /\ x = Functor(op, c)) => Waits(k, x)'
<1>1. \A k \in Loops : \A x \in Functors : Pends(k, x)' <=> Pends(k, x)
  BY DEF Pends
<1>2. batch' = batch
  BY DEF Runs
<1> QED
  BY <1>1, <1>2, RunRemains DEF QueuesKept, Waits, Typed

LEMMA QueuesRunPost ==
    ASSUME Typed, NEW l \in Loops, NEW op \in Ops, NEW c \in Conns, Runs(l, op, c),
           NEW m \in Loops, NEW f \in Functors, Placed(m, f), pending' = Post(m, f)
    PROVE  /\ QueuesKept
           /\ Waits(l, Functor(op, c)) /\ Functor(op, c) \in Functors
           /\ \A k \in Loops : \A x \in Functors :
                Waits(k, x)' => Waits(k, x) \/ (k = m /\ x = f)
           /\ \A k \in Loops : \A x \in Functors :
                Waits(k, x) /\ ~(k = l /\ x = Functor(op, c)) => Waits(k, x)'
           /\ Waits(m, f)'
<1>1. batch' = batch
  BY DEF Runs
<1> QED
  BY <1>1, RunRemains, PostPends DEF QueuesKept, Waits, Typed

LEMMA WaitsPlaced ==
    ASSUME Sound, NEW l \in Loops, NEW op \in Ops, NEW c \in Conns, Waits(l, Functor(op, c))
    PROVE  /\ Born(c)
           /\ IF op = "Remove" THEN l = Main ELSE conn[c].loop = l
BY FunctorType DEF Sound, Lead

LEMMA RunsPlaced ==
    ASSUME Sound, NEW l \in Loops, NEW op \in Ops, NEW c \in Conns, Runs(l, op, c)
    PROVE  /\ Born(c)
           /\ IF op = "Remove" THEN l = Main ELSE conn[c].loop = l
           /\ conn[c].fd \in Fds /\ conn[c].loop \in Loops
           /\ phase' = phase /\ closing' = closing /\ nextLoop' = nextLoop /\ foreign' = foreign
           /\ batch' = batch /\ phase[l] = "run" /\ Running(l)
<1>1. Waits(l, Functor(op, c))
  BY RunRemains DEF Sound, Waits
<1> QED
  BY <1>1, WaitsPlaced, SetupFacts DEF Sound, Typed, Lead, Runs

(***************************************************************************)
(* The operations on a connection and the tables.                          *)
(***************************************************************************)
LEMMA BufferedKept ==
    ASSUME Sound, NEW c \in Conns, Buffered(c), kernel' = kernel
    PROVE  TablesKept
<1>0. /\ conn \in [Conns -> ConnRecords] /\ MaxOut \in Nat
      /\ epoll \in [Loops -> SUBSET Fds]
  BY ConnRecordOf, SetupFacts DEF Sound, Typed, TypeOK
<1>1. CASE conn[c].state # "Connected"
  <2>1. UNCHANGED <<conn, poller, epoll>>
    BY <1>1 DEF Buffered
  <2> QED
    BY <1>0, <2>1, ConnSame DEF TablesKept, Sound, Typed, TypeOK
<1>2. CASE conn[c].state = "Connected"
  <2>1. Born(c)
    BY <1>2 DEF Born
  <2>2. conn[c].loop \in Loops /\ conn[c].fd \in Fds
    BY <2>1, SetupFacts DEF Sound, Typed, Lead
  <2>3. /\ conn' \in [Conns -> ConnRecords]
        /\ \A d \in Conns : d # c => conn'[d] = conn[d]
        /\ conn'[c].fd = conn[c].fd /\ conn'[c].loop = conn[c].loop
        /\ conn'[c].state = conn[c].state
    BY <1>0, <1>2 DEF Buffered, ConnRecords
  <2>4. Keeps
    BY <1>2, <2>1, <2>3, ConnKeepsFields
  <2>5. epoll' \in [Loops -> SUBSET Fds]
    <3> DEFINE ev == conn[c].events \cup {"write"}
    <3>1. epoll' = epoll \/ epoll' = EpollWith(conn[c].loop, conn[c].fd, ev)
      BY <1>2 DEF Buffered
    <3> HIDE DEF ev
    <3>2. EpollWith(conn[c].loop, conn[c].fd, ev) \in [Loops -> SUBSET Fds]
      BY <2>2, EpollWithType
    <3> QED
      BY <1>0, <3>1, <3>2
  <2>6. \/ poller' = poller
        \/ poller' = PollerWith(conn[c].loop, conn[c].fd, c, conn[c].events \cup {"write"})
    BY <1>2 DEF Buffered
  <2> QED
    BY <2>1, <2>3, <2>4, <2>5, <2>6, PollerLeads, ZenonT(40) DEF TablesKept, Sound, Typed, TypeOK
<1> QED
  BY <1>1, <1>2

LEMMA ShutdownKept ==
    ASSUME Sound, NEW c \in Conns, Born(c),
           NEW s \in {"Connecting", "Connected", "Disconnecting", "Disconnected"},
           ShutdownInLoop(c, s)
    PROVE  TablesKept
<1>0. conn \in [Conns -> ConnRecords] /\ epoll \in [Loops -> SUBSET Fds]
  BY ConnRecordOf DEF Sound, Typed, TypeOK
<1>1. conn[c].loop \in Loops /\ conn[c].fd \in Fds
  BY SetupFacts DEF Sound, Typed, Lead
<1>2. CASE conn[c].out > 0
  <2>3. /\ conn' \in [Conns -> ConnRecords]
        /\ \A d \in Conns : d # c => conn'[d] = conn[d]
        /\ conn'[c].fd = conn[c].fd /\ conn'[c].loop = conn[c].loop
        /\ conn'[c].state = s
    BY <1>0, <1>2 DEF ShutdownInLoop, ConnRecords
  <2>4. Keeps
    BY <2>3, ConnKeepsFields
  <2>5. epoll' \in [Loops -> SUBSET Fds]
    <3> DEFINE ev == conn[c].events \cup {"write"}
    <3>1. epoll' = epoll \/ epoll' = EpollWith(conn[c].loop, conn[c].fd, ev)
      BY <1>2 DEF ShutdownInLoop
    <3> HIDE DEF ev
    <3>2. EpollWith(conn[c].loop, conn[c].fd, ev) \in [Loops -> SUBSET Fds]
      BY <1>1, EpollWithType
    <3> QED
      BY <1>0, <3>1, <3>2
  <2>6. \/ poller' = poller
        \/ poller' = PollerWith(conn[c].loop, conn[c].fd, c, conn[c].events \cup {"write"})
    BY <1>2 DEF ShutdownInLoop
  <2>7. kernel' = kernel
    BY <1>2 DEF ShutdownInLoop
  <2> QED
    BY <2>3, <2>4, <2>5, <2>6, <2>7, PollerLeads, ZenonT(40) DEF TablesKept, Sound, Typed, TypeOK
<1>3. CASE ~(conn[c].out > 0)
  <2>3. /\ conn' \in [Conns -> ConnRecords]
        /\ \A d \in Conns : d # c => conn'[d] = conn[d]
        /\ conn'[c].fd = conn[c].fd /\ conn'[c].loop = conn[c].loop
        /\ conn'[c].state = "Disconnected"
    BY <1>0, <1>3 DEF ShutdownInLoop, ConnRecords
  <2>4. Keeps
    BY <2>3, ConnKeepsFields
  <2>5. /\ kernel' = KernelAfterClose(c) /\ epoll' = EpollAfterClose(epoll, c)
        /\ poller' = poller
    BY <1>3 DEF ShutdownInLoop
  <2> QED
    BY <1>0, <2>3, <2>4, <2>5, AfterCloseType DEF TablesKept, Sound, Typed, TypeOK
<1> QED
  BY <1>2, <1>3

\* HandleClose and ForceCloseInLoop when they do something, ConnectDestroyed.
LEMMA DisabledKept ==
    ASSUME Sound, NEW c \in Conns, Born(c), NEW o \in BOOLEAN,
           conn' = [conn EXCEPT ![c] = [Disabled(@) EXCEPT !.open = o]],
           poller' = PollerWith(conn[c].loop, conn[c].fd, c, {}),
           \/ kernel' = kernel /\ epoll' = EpollWith(conn[c].loop, conn[c].fd, {})
           \/ /\ kernel' = KernelAfterClose(c)
              /\ epoll' = EpollAfterClose(EpollWith(conn[c].loop, conn[c].fd, {}), c)
    PROVE  TablesKept
<1>0. conn \in [Conns -> ConnRecords]
  BY ConnRecordOf DEF Sound, Typed, TypeOK
<1>1. conn[c].loop \in Loops /\ conn[c].fd \in Fds
  BY SetupFacts DEF Sound, Typed, Lead
<1> DEFINE r == [Disabled(conn[c]) EXCEPT !.open = o]
<1>2. /\ r \in ConnRecords
      /\ r.fd = conn[c].fd /\ r.loop = conn[c].loop /\ r.state # "Unborn"
  <2>1. conn[c] \in ConnRecords
    BY <1>0
  <2> QED
    BY <2>1 DEF Disabled, ConnRecords
<1>3. conn' = [conn EXCEPT ![c] = r]
  OBVIOUS
<1> HIDE DEF r
<1>6. conn' \in [Conns -> ConnRecords] /\ Keeps
  BY <1>2, <1>3, ConnKeeps
<1>4. EpollWith(conn[c].loop, conn[c].fd, {}) \in [Loops -> SUBSET Fds]
  BY <1>1, EpollWithType
<1>5. epoll' \in [Loops -> SUBSET Fds] /\ kernel' \in [Fds -> {"free", "open", "full", "hup"}]
  <2>1. kernel \in [Fds -> {"free", "open", "full", "hup"}]
    BY DEF Sound, Typed, TypeOK
  <2> QED
    BY <1>4, <2>1, AfterCloseType
<1> QED
  BY <1>5, <1>6, PollerLeads DEF TablesKept

-----------------------------------------------------------------------------
(***************************************************************************)
(* Every action keeps the types and what is led to.                        *)
(***************************************************************************)
LEMMA TablesSame ==
    ASSUME Sound, UNCHANGED <<conn, kernel, epoll, poller>>
    PROVE  TablesKept
BY ConnRecordOf, ConnSame DEF TablesKept, Sound, Typed, TypeOK

LEMMA PhasesSame ==
    ASSUME Phases, UNCHANGED <<phase, batch, closing>>
    PROVE  Phases'
BY DEF Phases

LEMMA RestSame ==
    ASSUME Sound, UNCHANGED <<m_connections, nextLoop, phase, closing, foreign, userRefs,
                              missed, setup, server>>
    PROVE  RestKept
BY DEF RestKept, Sound, Typed, TypeOK

\* EraseNow, and nothing else of the rest but what the caller says.
LEMMA EraseKept ==
    ASSUME Sound, NEW c \in Conns, Born(c), NEW open \in BOOLEAN, EraseNow(c, open)
    PROVE  /\ m_connections' \in [Fds -> Conns \cup {None}]
           /\ \A f \in Fds : \A d \in Conns : m_connections'[f] = d => m_connections[f] = d
           /\ \A f \in Fds : m_connections'[f] =
                IF open /\ f = conn[c].fd THEN None ELSE m_connections[f]
           /\ missed' \in SUBSET Conns
           /\ setup' = setup
<1>1. /\ m_connections \in [Fds -> Conns \cup {None}] /\ conn[c].fd \in Fds
      /\ missed \in SUBSET Conns /\ None \notin Conns
  BY SetupFacts DEF Sound, Typed, TypeOK, Lead
<1> QED
  BY <1>1 DEF EraseNow

LEMMA FieldsFit ==
    ASSUME Sound
    PROVE  /\ \A l \in Loops : \A f \in Fds : \A c \in Conns :
                Ready(l, f, c) => /\ Born(c) /\ conn[c].fd = f /\ conn[c].loop = l
                                  /\ closing[l] = None /\ phase[l] = "poll" /\ Running(l)
           /\ \A c \in Conns : Born(c) => conn[c].fd \in Fds /\ conn[c].loop \in Loops
           /\ \A c \in Conns : c # None
BY SetupFacts DEF Sound, Typed, Lead, Ready, Idle

\* What the peer does, and a write that the kernel does not take.
KernelMoves(f) == \E after \in {"open", "full", "hup"} : Peer(f, {"open", "full"}, after)

LEMMA PeerMoves ==
    /\ \A f \in Fds : PeerClose(f) \/ PeerReads(f) => KernelMoves(f)
    /\ \A l \in Loops, f \in Fds, c \in Conns : WriteBlocks(l, f, c) => KernelMoves(f)
BY DEF PeerClose, PeerReads, WriteBlocks, Peer, KernelMoves

LEMMA KernelMovesSound ==
    ASSUME Sound, NEW f \in Fds, KernelMoves(f)
    PROVE  Sound'
<1>1. TablesKept
  BY ConnRecordOf, ConnSame DEF KernelMoves, Peer, TablesKept, Sound, Typed, TypeOK
<1>2. QueuesKept
  BY QueuesSame DEF KernelMoves, Peer, Sound
<1>3. RestKept
  BY RestSame DEF KernelMoves, Peer
<1>4. Phases'
  BY PhasesSame DEF KernelMoves, Peer, Sound
<1> QED
  BY <1>1, <1>2, <1>3, <1>4, SoundFrom

LEMMA HandleCloseSound ==
    ASSUME Sound, NEW l \in Loops, NEW c \in Conns, Born(c), conn[c].loop = l,
           closing[l] = None, phase[l] = "poll", HandleClose(l, c)
    PROVE  Sound'
<1>1. CASE conn[c].state = "Disconnected"
  <2>1. TablesKept
    BY <1>1, TablesSame DEF HandleClose
  <2>2. QueuesKept
    BY <1>1, QueuesSame DEF HandleClose, Sound
  <2>3. RestKept
    BY <1>1, RestSame DEF HandleClose
  <2>4. Phases'
    BY <1>1, PhasesSame DEF HandleClose, Sound
  <2> QED
    BY <2>1, <2>2, <2>3, <2>4, SoundFrom
<1>2. CASE conn[c].state # "Disconnected"
  <2>1. TablesKept
    <3>1. conn[c].open \in BOOLEAN /\ conn \in [Conns -> ConnRecords]
      BY DEF Sound, Typed, TypeOK, ConnRecords
    <3>2. conn' = [conn EXCEPT ![c] = [Disabled(@) EXCEPT !.open = conn[c].open]]
      <4>1. [Disabled(conn[c]) EXCEPT !.open = conn[c].open] = Disabled(conn[c])
        BY <3>1 DEF Disabled, ConnRecords
      <4> QED
        BY <1>2, <3>1, <4>1 DEF HandleClose
    <3> QED
      BY <1>2, <3>1, <3>2, DisabledKept DEF HandleClose
  <2>2. QueuesKept
    <3>1. CASE l = Main
      BY <1>2, <3>1, QueuesSame DEF HandleClose, Sound
    <3>2. CASE l # Main
      <4>1. /\ Functor("Remove", c) \in Functors /\ Functor("Remove", c).op = "Remove"
            /\ Functor("Remove", c).conn = c /\ Main \in Loops
        BY FunctorType, SetupFacts DEF Ops, Sound, Typed
      <4>2. Placed(Main, Functor("Remove", c))
        BY <4>1 DEF Placed
      <4> QED
        BY <1>2, <3>2, <4>1, <4>2, QueuesPost DEF HandleClose, Sound
    <3> QED
      BY <3>1, <3>2
  <2>3. RestKept
    <3>1. closing' = [closing EXCEPT ![l] = c]
      BY <1>2 DEF HandleClose
    <3>2. closing' \in [Loops -> Conns \cup {None}]
      BY <3>1 DEF Sound, Typed, TypeOK
    <3>3. \A k \in Loops : \A d \in Conns : closing'[k] = d =>
             closing[k] = d \/ (Born(d) /\ conn[d].loop = k)
      BY <3>1 DEF Sound, Typed, TypeOK
    <3>4. /\ m_connections' \in [Fds -> Conns \cup {None}]
          /\ \A f \in Fds : \A d \in Conns : m_connections'[f] = d => m_connections[f] = d
          /\ missed' \in SUBSET Conns /\ setup' = setup
      <4>1. conn[c].open \in BOOLEAN
        BY DEF Sound, Typed, TypeOK
      <4>2. CASE l = Main
        BY <1>2, <4>1, <4>2, EraseKept DEF HandleClose
      <4>3. CASE l # Main
        BY <1>2, <4>3 DEF HandleClose, Sound, Typed, TypeOK
      <4> QED
        BY <4>2, <4>3
    <3>5. UNCHANGED <<nextLoop, phase, foreign, userRefs, server>>
      BY DEF HandleClose
    <3> QED
      BY <3>2, <3>3, <3>4, <3>5 DEF RestKept, Sound, Typed, TypeOK
  <2>4. Phases'
    <3>1. closing' = [closing EXCEPT ![l] = c] /\ UNCHANGED <<phase, batch>>
      BY <1>2 DEF HandleClose
    <3>2. \A k \in Loops : closing'[k] # None => k = l \/ closing[k] # None
      BY <3>1 DEF Sound, Typed, TypeOK
    <3> QED
      BY <3>1, <3>2 DEF Phases, Sound
  <2> QED
    BY <2>1, <2>2, <2>3, <2>4, SoundFrom
<1> QED
  BY <1>1, <1>2

LEMMA HangUpSound ==
    ASSUME Sound, NEW l \in Loops, NEW f \in Fds, NEW c \in Conns, HangUp(l, f, c)
    PROVE  Sound'
BY HandleCloseSound, FieldsFit DEF HangUp

LEMMA FinishCloseSound ==
    ASSUME Sound, NEW l \in Loops, FinishClose(l)
    PROVE  Sound'
<1> DEFINE c == closing[l]
<1>1. c \in Conns /\ Born(c)
  BY DEF FinishClose, Sound, Typed, TypeOK, Lead
<1>2. TablesKept
  <2>1. conn \in [Conns -> ConnRecords] /\ epoll \in [Loops -> SUBSET Fds]
    BY DEF Sound, Typed, TypeOK, ConnRecords
  <2> HIDE DEF c
  <2>2. /\ conn' = [conn EXCEPT ![c].open = FALSE]
        /\ kernel' = KernelAfterClose(c) /\ epoll' = EpollAfterClose(epoll, c)
        /\ poller' = poller
    BY DEF FinishClose, c
  <2> DEFINE r == [conn[c] EXCEPT !.open = FALSE]
  <2>3. /\ r \in ConnRecords
        /\ r.fd = conn[c].fd /\ r.loop = conn[c].loop /\ r.state # "Unborn"
    <3>1. conn[c] \in ConnRecords
      BY <1>1, <2>1
    <3> QED
      BY <1>1, <3>1 DEF ConnRecords, Born
  <2>5. conn' = [conn EXCEPT ![c] = r]
    BY <1>1, <2>1, <2>2 DEF ConnRecords
  <2> HIDE DEF r
  <2>4. conn' \in [Conns -> ConnRecords] /\ Keeps
    BY <1>1, <2>3, <2>5, ConnKeeps
  <2> QED
    BY <1>1, <2>1, <2>2, <2>4, AfterCloseType DEF TablesKept, Sound, Typed, TypeOK
<1>3. QueuesKept
  BY QueuesSame DEF FinishClose, Sound
<1>4. closing' = [closing EXCEPT ![l] = None]
  BY DEF FinishClose
<1>5. closing \in [Loops -> Conns \cup {None}]
  BY DEF Sound, Typed, TypeOK
<1>6. /\ closing' \in [Loops -> Conns \cup {None}]
      /\ \A k \in Loops : closing'[k] = None \/ closing'[k] = closing[k]
  BY <1>4, <1>5
<1>7. RestKept
  <2>1. \A d \in Conns : d # None
    BY FieldsFit
  <2>2. UNCHANGED <<m_connections, nextLoop, phase, foreign, userRefs, missed, setup, server>>
    BY DEF FinishClose
  <2> QED
    BY <1>6, <2>1, <2>2 DEF RestKept, Sound, Typed, TypeOK
<1>8. Phases'
  <2>1. UNCHANGED <<phase, batch>>
    BY DEF FinishClose
  <2> QED
    BY <1>6, <2>1 DEF Sound, Phases
<1> QED
  BY <1>2, <1>3, <1>7, <1>8, SoundFrom

LEMMA ReadAndSendSound ==
    ASSUME Sound, NEW l \in Loops, NEW f \in Fds, NEW c \in Conns, ReadAndSend(l, f, c)
    PROVE  Sound'
<1>1. TablesKept
  BY BufferedKept DEF ReadAndSend
<1>2. QueuesKept
  BY QueuesSame DEF ReadAndSend, Sound
<1>3. RestKept
  BY RestSame DEF ReadAndSend
<1>4. Phases'
  BY PhasesSame DEF ReadAndSend, Sound
<1> QED
  BY <1>1, <1>2, <1>3, <1>4, SoundFrom

LEMMA ReadAndShutdownSound ==
    ASSUME Sound, NEW l \in Loops, NEW f \in Fds, NEW c \in Conns, ReadAndShutdown(l, f, c)
    PROVE  Sound'
<1>1. TablesKept
  BY FieldsFit, ShutdownKept DEF ReadAndShutdown
<1>2. QueuesKept
  BY QueuesSame DEF ReadAndShutdown, Sound
<1>3. RestKept
  BY RestSame DEF ReadAndShutdown
<1>4. Phases'
  BY PhasesSame DEF ReadAndShutdown, Sound
<1> QED
  BY <1>1, <1>2, <1>3, <1>4, SoundFrom

LEMMA HandleWriteSound ==
    ASSUME Sound, NEW l \in Loops, NEW f \in Fds, NEW c \in Conns, HandleWrite(l, f, c)
    PROVE  Sound'
<1> DEFINE ev == conn[c].events \ {"write"}
<1>1. TablesKept
  <2>1. /\ Born(c) /\ conn[c].fd = f /\ conn[c].loop = l
    BY FieldsFit DEF HandleWrite
  <2>2. /\ conn' = [conn EXCEPT ![c].out = 0, ![c].events = ev]
        /\ poller' = PollerWith(l, f, c, ev) /\ epoll' = EpollWith(l, f, ev)
        /\ kernel' = kernel
    BY DEF HandleWrite
  <2>3. conn \in [Conns -> ConnRecords] /\ MaxOut \in Nat
    BY SetupFacts DEF Sound, Typed, TypeOK, ConnRecords
  <2> DEFINE r == [conn[c] EXCEPT !.out = 0, !.events = ev]
  <2>4. /\ r \in ConnRecords
        /\ r.fd = conn[c].fd /\ r.loop = conn[c].loop /\ r.state # "Unborn"
    <3>1. conn[c] \in ConnRecords /\ ev \in SUBSET {"read", "write"} /\ 0 \in 0..MaxOut
      BY <2>3 DEF ConnRecords
    <3> QED
      BY <2>1, <3>1 DEF ConnRecords, Born
  <2>7. conn' = [conn EXCEPT ![c] = r]
    BY <2>2, <2>3 DEF ConnRecords
  <2> HIDE DEF r
  <2>5. conn' \in [Conns -> ConnRecords] /\ Keeps
    BY <2>1, <2>4, <2>7, ConnKeeps
  <2> HIDE DEF ev
  <2>6. EpollWith(l, f, ev) \in [Loops -> SUBSET Fds]
    BY EpollWithType
  <2> QED
    BY <2>1, <2>2, <2>5, <2>6, PollerLeads DEF TablesKept, Sound, Typed, TypeOK
<1>2. QueuesKept
  BY QueuesSame DEF HandleWrite, Sound
<1>3. RestKept
  BY RestSame DEF HandleWrite
<1>4. Phases'
  BY PhasesSame DEF HandleWrite, Sound
<1> QED
  BY <1>1, <1>2, <1>3, <1>4, SoundFrom

LEMMA StartBatchSound ==
    ASSUME Sound, NEW l \in Loops, StartBatch(l)
    PROVE  Sound'
<1>1. TablesKept
  BY TablesSame DEF StartBatch
<1>2. QueuesKept
  BY StartBatchWaits DEF QueuesKept, Sound
<1>3. /\ phase' = [phase EXCEPT ![l] = "run"] /\ closing' = closing /\ closing[l] = None
      /\ \A k \in Loops : k # l => batch'[k] = batch[k]
  BY DEF StartBatch, Idle, Sound, Typed
<1>4. phase \in [Loops -> {"poll", "run", "exited"}]
  BY DEF Sound, Typed, TypeOK
<1>5. RestKept
  <2>1. phase' \in [Loops -> {"poll", "run", "exited"}]
    BY <1>3, <1>4
  <2>2. UNCHANGED <<m_connections, nextLoop, closing, foreign, userRefs, missed, setup, server>>
    BY DEF StartBatch
  <2> QED
    BY <2>1, <2>2 DEF RestKept, Sound, Typed, TypeOK
<1>6. Phases'
  BY <1>3, <1>4 DEF Sound, Phases
<1> QED
  BY <1>1, <1>2, <1>5, <1>6, SoundFrom

LEMMA EndBatchSound ==
    ASSUME Sound, NEW l \in Loops, EndBatch(l)
    PROVE  Sound'
<1>1. TablesKept
  BY TablesSame DEF EndBatch
<1>2. QueuesKept
  BY EndBatchWaits DEF QueuesKept, Sound, EndBatch, Typed
<1>3. /\ phase' = [phase EXCEPT ![l] = IF Quitting(l) THEN "exited" ELSE "poll"]
      /\ closing' = closing /\ phase[l] = "run"
      /\ batch' = [batch EXCEPT ![l] = <<>>]
  BY DEF EndBatch
<1>4. phase \in [Loops -> {"poll", "run", "exited"}] /\ batch \in [Loops -> Seq(Functors)]
  BY DEF Sound, Typed, TypeOK
<1>5. RestKept
  <2>1. phase' \in [Loops -> {"poll", "run", "exited"}]
    BY <1>3, <1>4
  <2>2. UNCHANGED <<m_connections, nextLoop, closing, foreign, userRefs, missed, setup, server>>
    BY DEF EndBatch
  <2> QED
    BY <2>1, <2>2 DEF RestKept, Sound, Typed, TypeOK
<1>6. Phases'
  BY <1>3, <1>4 DEF Sound, Phases
<1> QED
  BY <1>1, <1>2, <1>5, <1>6, SoundFrom

\* What running a functor says, whichever it is, but for the queue it posts to.
LEMMA RunRest ==
    ASSUME Sound, NEW l \in Loops, NEW op \in Ops, NEW c \in Conns, Runs(l, op, c),
           m_connections' \in [Fds -> Conns \cup {None}],
           \A f \in Fds : \A d \in Conns : m_connections'[f] = d => m_connections[f] = d,
           missed' \in SUBSET Conns, setup' = setup, server' = server,
           userRefs' \in SUBSET Conns
    PROVE  RestKept /\ Phases'
<1>1. UNCHANGED <<phase, closing, nextLoop, foreign, batch>>
  BY RunsPlaced
<1>2. Phases'
  BY <1>1, PhasesSame DEF Sound
<1> QED
  BY <1>1, <1>2 DEF RestKept, Sound, Typed, TypeOK

LEMMA OpTypes ==
    /\ "Established" \in Ops /\ "Remove" \in Ops /\ "Destroyed" \in Ops
    /\ "Send" \in Ops /\ "Shutdown" \in Ops /\ "ForceClose" \in Ops
BY DEF Ops

LEMMA RunEstablishedSound ==
    ASSUME Sound, NEW l \in Loops, NEW c \in Conns, RunEstablished(l, c)
    PROVE  Sound'
<1> DEFINE ev == conn[c].events \cup {"read"}
<1>0. Runs(l, "Established", c) /\ "Established" \in Ops
  BY OpTypes DEF RunEstablished
<1>1. /\ Born(c) /\ conn[c].loop = l
      /\ conn[c].fd \in Fds
  BY <1>0, RunsPlaced
<1>2. TablesKept
  <2>1. conn \in [Conns -> ConnRecords] /\ epoll \in [Loops -> SUBSET Fds]
    BY DEF Sound, Typed, TypeOK, ConnRecords
  <2>2. /\ conn' = [conn EXCEPT ![c].state = "Connected", ![c].events = @ \cup {"read"}]
        /\ poller' = PollerWith(l, conn[c].fd, c, ev)
        /\ epoll' = EpollWith(l, conn[c].fd, ev)
        /\ kernel' = kernel
    BY DEF RunEstablished
  <2> DEFINE r == [conn[c] EXCEPT !.state = "Connected", !.events = ev]
  <2>3. /\ r \in ConnRecords
        /\ r.fd = conn[c].fd /\ r.loop = conn[c].loop /\ r.state # "Unborn"
    <3>1. conn[c] \in ConnRecords /\ ev \in SUBSET {"read", "write"}
      BY <2>1 DEF ConnRecords
    <3> QED
      BY <3>1 DEF ConnRecords
  <2>4. conn' = [conn EXCEPT ![c] = r]
    BY <2>1, <2>2 DEF ConnRecords
  <2> HIDE DEF r, ev
  <2>5. conn' \in [Conns -> ConnRecords] /\ Keeps
    BY <1>1, <2>3, <2>4, ConnKeeps
  <2>6. EpollWith(l, conn[c].fd, ev) \in [Loops -> SUBSET Fds]
    BY <1>1, EpollWithType
  <2> QED
    BY <1>1, <2>2, <2>5, <2>6, PollerLeads DEF TablesKept, Sound, Typed, TypeOK
<1>3. QueuesKept
  BY <1>0, QueuesRun DEF RunEstablished, Sound
<1>4. RestKept /\ Phases'
  <2>1. userRefs' \in SUBSET Conns
    BY DEF RunEstablished, Sound, Typed, TypeOK
  <2>2. UNCHANGED <<m_connections, missed, setup, server>>
    BY DEF RunEstablished
  <2>3. /\ m_connections' \in [Fds -> Conns \cup {None}] /\ missed' \in SUBSET Conns
        /\ \A f \in Fds : \A d \in Conns : m_connections'[f] = d => m_connections[f] = d
    BY <2>2 DEF Sound, Typed, TypeOK
  <2> QED
    BY <1>0, <2>1, <2>2, <2>3, RunRest
<1> QED
  BY <1>2, <1>3, <1>4, SoundFrom

LEMMA RunRemoveSound ==
    ASSUME Sound, NEW c \in Conns, RunRemove(c)
    PROVE  Sound'
<1>0. Runs(Main, "Remove", c) /\ "Remove" \in Ops /\ Main \in Loops
  BY OpTypes, SetupFacts DEF RunRemove, Sound, Typed
<1>1. Born(c) /\ conn[c].loop \in Loops
  BY <1>0, RunsPlaced
<1>2. TablesKept
  BY TablesSame DEF RunRemove
<1>3. QueuesKept
  <2>1. /\ Functor("Destroyed", c) \in Functors /\ Functor("Destroyed", c).op = "Destroyed"
        /\ Functor("Destroyed", c).conn = c
    BY FunctorType, OpTypes
  <2>2. Placed(conn[c].loop, Functor("Destroyed", c))
    BY <1>1, <2>1 DEF Placed
  <2>3. pending' = Post(conn[c].loop, Functor("Destroyed", c))
    BY DEF RunRemove
  <2> QED
    BY <1>0, <1>1, <2>1, <2>2, <2>3, QueuesRunPost DEF Sound
<1>4. RestKept /\ Phases'
  <2>1. EraseNow(c, conn[c].open) /\ conn[c].open \in BOOLEAN
    BY DEF RunRemove, Sound, Typed, TypeOK
  <2>2. userRefs' \in SUBSET Conns /\ server' = server
    BY DEF RunRemove, Sound, Typed, TypeOK
  <2> QED
    BY <1>0, <1>1, <2>1, <2>2, EraseKept, RunRest
<1> QED
  BY <1>2, <1>3, <1>4, SoundFrom

LEMMA RunDestroyedSound ==
    ASSUME Sound, NEW l \in Loops, NEW c \in Conns, RunDestroyed(l, c)
    PROVE  Sound'
<1>0. Runs(l, "Destroyed", c) /\ "Destroyed" \in Ops
  BY OpTypes DEF RunDestroyed
<1>1. Born(c) /\ conn[c].loop = l
  BY <1>0, RunsPlaced
<1>2. TablesKept
  <2>1. CASE conn[c].state \in {"Connected", "Disconnecting"}
    <3>1. FALSE \in BOOLEAN
      OBVIOUS
    <3> QED
      BY <1>1, <2>1, <3>1, DisabledKept DEF RunDestroyed
  <2>2. CASE conn[c].state \notin {"Connected", "Disconnecting"}
    BY <2>2, TablesSame DEF RunDestroyed
  <2> QED
    BY <2>1, <2>2
<1>3. QueuesKept
  BY <1>0, QueuesRun DEF RunDestroyed, Sound
<1>4. RestKept /\ Phases'
  <2>1. UNCHANGED <<m_connections, missed, setup, server, userRefs>>
    BY DEF RunDestroyed
  <2>2. /\ m_connections' \in [Fds -> Conns \cup {None}] /\ missed' \in SUBSET Conns
        /\ \A f \in Fds : \A d \in Conns : m_connections'[f] = d => m_connections[f] = d
        /\ userRefs' \in SUBSET Conns
    BY <2>1 DEF Sound, Typed, TypeOK
  <2> QED
    BY <1>0, <2>1, <2>2, RunRest
<1> QED
  BY <1>2, <1>3, <1>4, SoundFrom

LEMMA RunSendSound ==
    ASSUME Sound, NEW l \in Loops, NEW c \in Conns, RunSend(l, c)
    PROVE  Sound'
<1>0. Runs(l, "Send", c) /\ "Send" \in Ops
  BY OpTypes DEF RunSend
<1>2. TablesKept
  BY BufferedKept DEF RunSend
<1>3. QueuesKept
  BY <1>0, QueuesRun DEF RunSend, Sound
<1>4. RestKept /\ Phases'
  <2>1. UNCHANGED <<m_connections, missed, setup, server, userRefs>>
    BY DEF RunSend
  <2>2. /\ m_connections' \in [Fds -> Conns \cup {None}] /\ missed' \in SUBSET Conns
        /\ \A f \in Fds : \A d \in Conns : m_connections'[f] = d => m_connections[f] = d
        /\ userRefs' \in SUBSET Conns
    BY <2>1 DEF Sound, Typed, TypeOK
  <2> QED
    BY <1>0, <2>1, <2>2, RunRest
<1> QED
  BY <1>2, <1>3, <1>4, SoundFrom

LEMMA RunShutdownSound ==
    ASSUME Sound, NEW l \in Loops, NEW c \in Conns, RunShutdown(l, c)
    PROVE  Sound'
<1>0. Runs(l, "Shutdown", c) /\ "Shutdown" \in Ops
  BY OpTypes DEF RunShutdown
<1>1. Born(c)
  BY <1>0, RunsPlaced
<1>2. TablesKept
  <2>1. conn[c].state \in {"Connecting", "Connected", "Disconnecting", "Disconnected"}
    BY <1>1 DEF Sound, Typed, TypeOK, Born
  <2> QED
    BY <1>1, <2>1, ShutdownKept DEF RunShutdown
<1>3. QueuesKept
  BY <1>0, QueuesRun DEF RunShutdown, Sound
<1>4. RestKept /\ Phases'
  <2>1. UNCHANGED <<m_connections, missed, setup, server, userRefs>>
    BY DEF RunShutdown
  <2>2. /\ m_connections' \in [Fds -> Conns \cup {None}] /\ missed' \in SUBSET Conns
        /\ \A f \in Fds : \A d \in Conns : m_connections'[f] = d => m_connections[f] = d
        /\ userRefs' \in SUBSET Conns
    BY <2>1 DEF Sound, Typed, TypeOK
  <2> QED
    BY <1>0, <2>1, <2>2, RunRest
<1> QED
  BY <1>2, <1>3, <1>4, SoundFrom

LEMMA RunForceCloseSound ==
    ASSUME Sound, NEW l \in Loops, NEW c \in Conns, RunForceClose(l, c)
    PROVE  Sound'
<1>0. /\ Runs(l, "ForceClose", c) /\ "ForceClose" \in Ops /\ ForceCloseInLoop(l, c)
      /\ userRefs' = userRefs /\ server' = server
  BY OpTypes DEF RunForceClose
<1>1. Born(c) /\ conn[c].loop = l
  BY <1>0, RunsPlaced
<1>2. CASE conn[c].state \notin {"Connected", "Disconnecting"}
  <2>1. UNCHANGED <<conn, poller, epoll, kernel, pending, m_connections, missed, setup>>
    BY <1>0, <1>2 DEF ForceCloseInLoop
  <2>2. TablesKept
    BY <2>1, TablesSame
  <2>3. QueuesKept
    BY <1>0, <2>1, QueuesRun DEF Sound
  <2>4. /\ m_connections' \in [Fds -> Conns \cup {None}] /\ missed' \in SUBSET Conns
        /\ \A f \in Fds : \A d \in Conns : m_connections'[f] = d => m_connections[f] = d
        /\ userRefs' \in SUBSET Conns
    BY <1>0, <2>1 DEF Sound, Typed, TypeOK
  <2>5. RestKept /\ Phases'
    BY <1>0, <2>1, <2>4, RunRest
  <2> QED
    BY <2>2, <2>3, <2>5, SoundFrom
<1>3. CASE conn[c].state \in {"Connected", "Disconnecting"}
  <2>1. TablesKept
    <3>1. FALSE \in BOOLEAN
      OBVIOUS
    <3> QED
      BY <1>0, <1>1, <1>3, <3>1, DisabledKept DEF ForceCloseInLoop
  <2>2. QueuesKept
    <3>1. CASE l = Main
      BY <1>0, <1>3, <3>1, QueuesRun DEF ForceCloseInLoop, Sound
    <3>2. CASE l # Main
      <4>1. /\ Functor("Remove", c) \in Functors /\ Functor("Remove", c).op = "Remove"
            /\ Functor("Remove", c).conn = c /\ Main \in Loops
        BY FunctorType, SetupFacts DEF Ops, Sound, Typed
      <4>2. Placed(Main, Functor("Remove", c))
        BY <1>1, <4>1 DEF Placed
      <4>3. pending' = Post(Main, Functor("Remove", c))
        BY <1>0, <1>3, <3>2 DEF ForceCloseInLoop
      <4> QED
        BY <1>0, <4>1, <4>2, <4>3, QueuesRunPost DEF Sound
    <3> QED
      BY <3>1, <3>2
  <2>3. /\ m_connections' \in [Fds -> Conns \cup {None}] /\ missed' \in SUBSET Conns
        /\ \A f \in Fds : \A d \in Conns : m_connections'[f] = d => m_connections[f] = d
        /\ userRefs' \in SUBSET Conns /\ setup' = setup
    <3>1. CASE l = Main
      BY <1>0, <1>1, <1>3, <3>1, EraseKept DEF ForceCloseInLoop, Sound, Typed, TypeOK
    <3>2. CASE l # Main
      BY <1>0, <1>3, <3>2 DEF ForceCloseInLoop, Sound, Typed, TypeOK
    <3> QED
      BY <3>1, <3>2
  <2>4. RestKept /\ Phases'
    BY <1>0, <2>3, RunRest
  <2> QED
    BY <2>1, <2>2, <2>4, SoundFrom
<1> QED
  BY <1>2, <1>3

LEMMA BeginSound ==
    ASSUME Sound, NEW op \in {"Send", "Shutdown"}, NEW c \in Conns,
           conn[c].state = "Connected", Begin(op, c)
    PROVE  Sound'
<1>1. TablesKept
  BY TablesSame DEF Begin
<1>2. QueuesKept
  BY QueuesSame DEF Begin, Sound
<1>3. RestKept
  <2>1. ForeignCall(op, c) \in ForeignCalls /\ ForeignCall(op, c).conn = c /\ Born(c)
    BY DEF ForeignCall, ForeignCalls, Born
  <2>2. foreign' = foreign \cup {ForeignCall(op, c)}
    BY DEF Begin
  <2>3. UNCHANGED <<m_connections, nextLoop, phase, closing, userRefs, missed, setup, server>>
    BY DEF Begin
  <2> QED
    BY <2>1, <2>2, <2>3 DEF RestKept, Sound, Typed, TypeOK
<1>4. Phases'
  BY PhasesSame DEF Begin, Sound
<1> QED
  BY <1>1, <1>2, <1>3, <1>4, SoundFrom

LEMMA EndCallSound ==
    ASSUME Sound, NEW op \in {"Send", "Shutdown", "ForceClose"}, NEW c \in Conns, EndCall(op, c)
    PROVE  Sound'
<1>1. Born(c) /\ conn[c].loop \in Loops
  <2>1. ForeignCall(op, c) \in foreign /\ ForeignCall(op, c).conn = c
    BY DEF EndCall, ForeignCall
  <2>2. Born(c)
    BY <2>1 DEF Sound, Lead
  <2> QED
    BY <2>2, FieldsFit
<1>2. TablesKept
  <2>1. conn \in [Conns -> ConnRecords]
    BY DEF Sound, Typed, TypeOK, ConnRecords
  <2>2. CASE op = "Send"
    BY <2>2, TablesSame DEF EndCall
  <2>3. CASE op # "Send"
    <3> DEFINE r == [conn[c] EXCEPT !.state = "Disconnecting"]
    <3>1. /\ r \in ConnRecords
          /\ r.fd = conn[c].fd /\ r.loop = conn[c].loop /\ r.state # "Unborn"
      <4>1. conn[c] \in ConnRecords
        BY <2>1
      <4> QED
        BY <4>1 DEF ConnRecords
    <3>2. conn' = [conn EXCEPT ![c] = r]
      BY <2>1, <2>3 DEF EndCall, ConnRecords
    <3> HIDE DEF r
    <3>3. conn' \in [Conns -> ConnRecords] /\ Keeps
      BY <1>1, <3>1, <3>2, ConnKeeps
    <3>4. UNCHANGED <<kernel, epoll, poller>>
      BY DEF EndCall
    <3> QED
      BY <3>3, <3>4 DEF TablesKept, Sound, Typed, TypeOK
  <2> QED
    BY <2>2, <2>3
<1>3. QueuesKept
  <2>1. /\ Functor(op, c) \in Functors /\ Functor(op, c).op = op /\ Functor(op, c).conn = c
    BY FunctorType DEF Ops
  <2>2. Placed(conn[c].loop, Functor(op, c))
    BY <1>1, <2>1 DEF Placed
  <2> QED
    BY <1>1, <2>1, <2>2, QueuesPost DEF EndCall, Sound
<1>4. RestKept
  <2>1. UNCHANGED <<m_connections, nextLoop, phase, closing, userRefs, missed, setup, server>>
    BY DEF EndCall
  <2>2. foreign' \subseteq foreign
    BY DEF EndCall
  <2> QED
    BY <2>1, <2>2 DEF RestKept, Sound, Typed, TypeOK
<1>5. Phases'
  BY PhasesSame DEF EndCall, Sound
<1> QED
  BY <1>2, <1>3, <1>4, <1>5, SoundFrom

LEMMA BeginDestructionSound ==
    ASSUME Sound, BeginDestruction
    PROVE  Sound'
<1>1. TablesKept
  BY TablesSame DEF BeginDestruction
<1>2. QueuesKept
  BY QueuesSame DEF BeginDestruction, Sound
<1>3. RestKept
  <2>1. ASSUME NEW x \in foreign'
        PROVE  x \in ForeignCalls /\ (x \in foreign \/ Born(x.conn))
    <3>1. CASE x \in foreign
      BY <3>1 DEF Sound, Typed
    <3>2. ASSUME NEW f \in Fds, m_connections[f] # None,
                 x = ForeignCall("Visit", m_connections[f])
          PROVE  x \in ForeignCalls /\ (x \in foreign \/ Born(x.conn))
      <4>1. m_connections[f] \in Conns
        BY <3>2 DEF Sound, Typed, TypeOK
      <4>2. Born(m_connections[f])
        BY <4>1 DEF Sound, Lead
      <4> QED
        BY <3>2, <4>1, <4>2 DEF ForeignCall, ForeignCalls
    <3> QED
      BY <3>1, <3>2 DEF BeginDestruction
  <2>2. /\ UNCHANGED <<m_connections, nextLoop, phase, closing, userRefs, missed, setup>>
        /\ server' = "closing"
    BY DEF BeginDestruction
  <2> QED
    BY <2>1, <2>2 DEF RestKept, Sound, Typed, TypeOK
<1>4. Phases'
  BY PhasesSame DEF BeginDestruction, Sound
<1> QED
  BY <1>1, <1>2, <1>3, <1>4, SoundFrom

\* The destructor goes on to the next connection.
LEMMA VisitEffect ==
    ASSUME Sound, NEW c \in Conns, VisitConnection(c)
    PROVE  /\ UNCHANGED <<conn, kernel, epoll, poller, m_connections, nextLoop, pending,
                         batch, at, phase, closing, userRefs, missed, setup, server>>
           /\ server = "closing" /\ Born(c)
           /\ ForeignCall("Visit", c) \in foreign
           /\ \A x \in foreign' : \/ x \in foreign
                                 \/ /\ x \in ForeignCalls /\ x.op = "ForceClose" /\ x.conn = c
                                    /\ conn[c].state # "Connecting"
<1>1. /\ ForeignCall("Visit", c) \in foreign /\ ForeignCall("Visit", c).conn = c
      /\ server = "closing"
  BY DEF VisitConnection, ForeignCall
<1>2. Born(c)
  BY <1>1 DEF Sound, Lead
<1>3. ASSUME NEW x \in foreign', x \notin foreign
      PROVE  /\ x \in ForeignCalls /\ x.op = "ForceClose" /\ x.conn = c
             /\ conn[c].state # "Connecting"
  <2>1. x = ForeignCall("ForceClose", c) /\ conn[c].state \in {"Connected", "Disconnecting"}
    BY <1>3 DEF VisitConnection
  <2> QED
    BY <2>1 DEF ForeignCall, ForeignCalls
<1> QED
  BY <1>1, <1>2, <1>3 DEF VisitConnection

LEMMA VisitSound ==
    ASSUME Sound, NEW c \in Conns, VisitConnection(c)
    PROVE  Sound'
<1>1. TablesKept
  BY VisitEffect, TablesSame
<1>2. QueuesKept
  BY VisitEffect, QueuesSame DEF Sound
<1>3. RestKept
  <2>1. \A x \in foreign' : x \in ForeignCalls /\ (x \in foreign \/ Born(x.conn))
    BY VisitEffect DEF Sound, Typed
  <2> QED
    BY <2>1, VisitEffect DEF RestKept, Sound, Typed, TypeOK
<1>4. Phases'
  BY VisitEffect, PhasesSame DEF Sound
<1> QED
  BY <1>1, <1>2, <1>3, <1>4, SoundFrom

LEMMA DestructionSound ==
    ASSUME Sound, QuitLoops \/ ClearConnections \/ DestroySubLoops
    PROVE  Sound'
<1>1. UNCHANGED <<conn, kernel, epoll, poller, nextLoop, pending, batch, at, phase, closing,
                  foreign, userRefs, missed, setup>>
  BY DEF QuitLoops, ClearConnections, DestroySubLoops
<1>2. /\ m_connections' \in [Fds -> Conns \cup {None}]
      /\ \A f \in Fds : \A d \in Conns : m_connections'[f] = d => m_connections[f] = d
  <2>1. \A d \in Conns : d # None
    BY FieldsFit
  <2>2. m_connections' = m_connections \/ m_connections' = [f \in Fds |-> None]
    BY DEF QuitLoops, ClearConnections, DestroySubLoops
  <2> QED
    BY <2>1, <2>2 DEF Sound, Typed, TypeOK
<1>3. server' \in {"up", "closing", "quitting", "cleared", "aborted"}
  BY DEF QuitLoops, ClearConnections, DestroySubLoops
<1>4. RestKept
  BY <1>1, <1>2, <1>3 DEF RestKept, Sound, Typed, TypeOK
<1> QED
  BY <1>1, <1>4, TablesSame, QueuesSame, PhasesSame, SoundFrom DEF Sound

(***************************************************************************)
(* The one step that bears a connection.                                   *)
(***************************************************************************)
LEMMA NewConnection ==
    ASSUME Sound, NEW c \in Conns, NEW f \in Fds, HandleNewConnection(c, f)
    PROVE  Bears(c, f)
<1>1. /\ conn \in [Conns -> ConnRecords] /\ NextLoop \in MyLoops /\ NextLoop \in Loops
      /\ setup.subLoops # <<>> => NextLoop # Main
      /\ setup.subLoops = <<>> => NextLoop = Main
      /\ MaxOut \in Nat /\ Main \in Loops
  BY ConnRecordOf, NextLoopMine, SetupFacts DEF Sound, Typed, NextLoop
<1>2. server = "up" /\ phase[Main] = "poll" /\ closing[Main] = None
  BY DEF HandleNewConnection, Idle, Running
<1> DEFINE n == [Blank EXCEPT !.state = "Connecting", !.loop = NextLoop, !.fd = f, !.open = TRUE]
           e == [n EXCEPT !.state = "Connected", !.events = {"read"}]
<1>3. /\ n \in ConnRecords /\ n.fd = f /\ n.loop = NextLoop /\ n.open
      /\ n.state = "Connecting" /\ n.events = {}
      /\ e \in ConnRecords /\ e.fd = f /\ e.loop = NextLoop /\ e.open
      /\ e.state = "Connected" /\ e.events = {"read"}
  <2>1. Blank \in ConnRecords /\ Blank.events = {}
    BY <1>1 DEF Blank, ConnRecords
  <2>2. /\ n \in ConnRecords /\ n.fd = f /\ n.loop = NextLoop /\ n.open
        /\ n.state = "Connecting" /\ n.events = {}
    BY <1>1, <2>1 DEF ConnRecords
  <2> HIDE DEF n
  <2>3. /\ e \in ConnRecords /\ e.fd = n.fd /\ e.loop = n.loop /\ e.open = n.open
        /\ e.state = "Connected" /\ e.events = {"read"}
    BY <2>2 DEF ConnRecords
  <2> QED
    BY <2>2, <2>3
<1>4. conn' = [conn EXCEPT ![c] = IF NextLoop # Main THEN n ELSE e]
  BY DEF HandleNewConnection
<1> HIDE DEF n, e
<1>5. /\ conn' \in [Conns -> ConnRecords]
      /\ \A d \in Conns : d # c => conn'[d] = conn[d]
      /\ conn'[c] = IF NextLoop # Main THEN n ELSE e
  BY <1>1, <1>3, <1>4
<1>6. Born(c)' /\ conn'[c].fd = f /\ conn'[c].loop = NextLoop /\ conn'[c].open
  BY <1>3, <1>5 DEF Born
<1>7. CASE setup.subLoops # <<>>
  BY <1>1, <1>2, <1>3, <1>5, <1>6, <1>7 DEF HandleNewConnection, Bears
<1>8. CASE setup.subLoops = <<>>
  BY <1>1, <1>2, <1>3, <1>5, <1>6, <1>8 DEF HandleNewConnection, Bears
<1> QED
  BY <1>7, <1>8

LEMMA NewConnectionPoller ==
    ASSUME Sound, NEW c \in Conns, NEW f \in Fds, HandleNewConnection(c, f),
           setup.subLoops = <<>>
    PROVE  /\ poller' \in [Loops -> [Fds -> Conns \cup {None}]]
           /\ epoll' \in [Loops -> SUBSET Fds]
           /\ userRefs' = IF setup.keepsRefs THEN userRefs \cup {c} ELSE userRefs
           /\ \A l \in Loops : \A g \in Fds : poller'[l][g] =
                IF l = Main /\ g = f /\ (Replaced(f) # None \/ poller[Main][f] = None)
                  THEN c ELSE poller[l][g]
           /\ \A l \in Loops : epoll'[l] =
                IF l = Main /\ (Replaced(f) # None \/ poller[Main][f] = None)
                  THEN epoll[l] \cup {f} ELSE epoll[l]
<1>1. /\ poller \in [Loops -> [Fds -> Conns \cup {None}]] /\ epoll \in [Loops -> SUBSET Fds]
      /\ Main \in Loops /\ NextLoop = Main
  BY SetupFacts DEF Sound, Typed, TypeOK, NextLoop
<1> DEFINE b == Replaced(f) # None \/ poller[Main][f] = None
<1>2. /\ poller' = [poller EXCEPT ![Main][f] = IF b THEN c ELSE @]
      /\ epoll' = IF b THEN [epoll EXCEPT ![Main] = @ \cup {f}] ELSE epoll
      /\ userRefs' = IF setup.keepsRefs THEN userRefs \cup {c} ELSE userRefs
  BY <1>1 DEF HandleNewConnection
<1> HIDE DEF b
<1>3. b <=> (Replaced(f) # None \/ poller[Main][f] = None)
  BY DEF b
<1> QED
  BY <1>1, <1>2, <1>3

LEMMA NewConnectionSound ==
    ASSUME Sound, NEW c \in Conns, NEW f \in Fds, HandleNewConnection(c, f)
    PROVE  Sound'
<1>0. Bears(c, f)
  BY NewConnection
<1>1. /\ conn' \in [Conns -> ConnRecords] /\ kernel' \in [Fds -> {"free", "open", "full", "hup"}]
      /\ m_connections' \in [Fds -> Conns \cup {None}]
      /\ \A g \in Fds : m_connections'[g] = IF g = f THEN c ELSE m_connections[g]
  BY <1>0 DEF Bears, Sound, Typed, TypeOK
<1>2. /\ poller' \in [Loops -> [Fds -> Conns \cup {None}]] /\ epoll' \in [Loops -> SUBSET Fds]
      /\ userRefs' \in SUBSET Conns
      /\ \A l \in Loops : \A g \in Fds : \A d \in Conns : poller'[l][g] = d =>
           poller[l][g] = d \/ (d = c /\ g = f /\ l = NextLoop)
  <2>1. CASE setup.subLoops # <<>>
    BY <1>0, <2>1 DEF Bears, Sound, Typed, TypeOK
  <2>2. CASE setup.subLoops = <<>>
    <3>1. userRefs' \in SUBSET Conns
      <4>1. userRefs \in SUBSET Conns
        BY DEF Sound, Typed, TypeOK
      <4> QED
        BY <2>2, <4>1, NewConnectionPoller
    <3> QED
      BY <1>0, <2>2, <3>1, NewConnectionPoller DEF Bears
  <2> QED
    BY <2>1, <2>2
<1>3. /\ pending' \in [Loops -> Seq(Functors)]
      /\ \A l \in Loops : \A x \in Functors : Waits(l, x)' =>
           Waits(l, x) \/ (l = NextLoop /\ x = Functor("Established", c))
  <2>1. \A l \in Loops : \A x \in Functors : Remains(l, x)' <=> Remains(l, x)
    BY <1>0 DEF Bears, Remains
  <2>2. CASE setup.subLoops # <<>>
    <3>1. Functor("Established", c) \in Functors
      BY FunctorType, OpTypes
    <3> QED
      BY <1>0, <2>1, <2>2, <3>1, PostPends DEF Bears, Waits, Sound
  <2>3. CASE setup.subLoops = <<>>
    BY <1>0, <2>1, <2>3 DEF Bears, Waits, Pends, Sound, Typed
  <2> QED
    BY <2>2, <2>3
<1>4. Typed'
  <2>1. nextLoop' \in 0..Len(setup.subLoops)
    BY NextLoopMine DEF HandleNewConnection, Sound, Typed, TypeOK
  <2> QED
    BY <1>0, <1>1, <1>2, <1>3, <2>1 DEF Bears, Sound, Typed, TypeOK, ConnRecords
<1>5. Lead'
  <2>0. MyLoops' = MyLoops
    BY <1>0 DEF Bears, MyLoops, SubLoops
  <2>1. ASSUME NEW d \in Conns
        PROVE  /\ ~Born(d)' => conn'[d] = Blank
               /\ Born(d)' => conn'[d].fd \in Fds /\ conn'[d].loop \in MyLoops
               /\ \A l \in Loops : closing'[l] = d => Born(d)' /\ conn'[d].loop = l
               /\ \A g \in Fds : m_connections'[g] = d => Born(d)' /\ conn'[d].fd = g
               /\ \A l \in Loops : \A g \in Fds :
                    poller'[l][g] = d => Born(d)' /\ conn'[d].fd = g /\ conn'[d].loop = l
    <3>1. CASE d = c
      BY <1>0, <1>1, <1>2, <3>1 DEF Bears, Sound, Lead
    <3>2. CASE d # c
      <4>1. conn'[d] = conn[d] /\ (Born(d)' <=> Born(d)) /\ closing' = closing
        BY <1>0, <3>2 DEF Bears, Born
      <4>2. /\ ~Born(d) => conn[d] = Blank
            /\ Born(d) => conn[d].fd \in Fds /\ conn[d].loop \in MyLoops
            /\ \A l \in Loops : closing[l] = d => Born(d) /\ conn[d].loop = l
            /\ \A g \in Fds : m_connections[g] = d => Born(d) /\ conn[d].fd = g
            /\ \A l \in Loops : \A g \in Fds :
                 poller[l][g] = d => Born(d) /\ conn[d].fd = g /\ conn[d].loop = l
        BY DEF Sound, Lead
      <4>3. \A g \in Fds : m_connections'[g] = d => m_connections[g] = d
        BY <1>1, <3>2
      <4>4. \A l \in Loops : \A g \in Fds : poller'[l][g] = d => poller[l][g] = d
        BY <1>2, <3>2
      <4> HIDE <1>1, <1>2
      <4>5. /\ ~Born(d)' => conn'[d] = Blank
            /\ Born(d)' => conn'[d].fd \in Fds /\ conn'[d].loop \in MyLoops
            /\ \A l \in Loops : closing'[l] = d => Born(d)' /\ conn'[d].loop = l
        BY <4>1, <4>2
      <4>6. \A g \in Fds : m_connections'[g] = d => Born(d)' /\ conn'[d].fd = g
        BY <4>1, <4>2, <4>3
      <4>7. \A l \in Loops : \A g \in Fds :
              poller'[l][g] = d => Born(d)' /\ conn'[d].fd = g /\ conn'[d].loop = l
        BY <4>1, <4>2, <4>4
      <4> QED
        BY <4>5, <4>6, <4>7
    <3> QED
      BY <3>1, <3>2
  <2>2. ASSUME NEW l \in Loops, NEW x \in Functors, Waits(l, x)'
        PROVE  Born(x.conn)' /\ (IF x.op = "Remove" THEN l = Main ELSE conn'[x.conn].loop = l)
    <3>1. CASE Waits(l, x)
      <4>1. x.conn \in Conns /\ Born(x.conn)
        BY <3>1 DEF Sound, Lead, Functors
      <4> QED
        BY <1>0, <3>1, <4>1 DEF Bears, Sound, Lead, Born
    <3>2. CASE l = NextLoop /\ x = Functor("Established", c)
      BY <1>0, <3>2 DEF Bears, Functor
    <3> QED
      BY <1>3, <2>2, <3>1, <3>2
  <2>3. ASSUME NEW x \in foreign' PROVE Born(x.conn)'
    <3>1. x.conn \in Conns /\ Born(x.conn)
      BY <1>0 DEF Bears, Sound, Typed, Lead, ForeignCalls
    <3> QED
      BY <1>0, <3>1 DEF Bears, Born
  <2> QED
    BY <2>0, <2>1, <2>2, <2>3 DEF Lead
<1>6. Phases'
  BY <1>0, PhasesSame DEF Bears, Sound
<1> QED
  BY <1>4, <1>5, <1>6 DEF Sound

LEMMA InitSound ==
    ASSUME Init
    PROVE  Sound
<1>1. <<>> \in Seq(Functors) /\ Len(<<>>) = 0
  BY EmptySeq
<1>2. setup.subLoops \in Seq(Loops) /\ MaxOut \in Nat /\ Main \in Loops
      /\ None \notin Conns
  BY SetupFacts DEF Init
<1>3. Len(setup.subLoops) \in Nat
  BY <1>2, LenProperties
<1>4. Blank \in ConnRecords /\ ~(Blank.state # "Unborn")
  BY <1>2 DEF Blank, ConnRecords
<1>5. \A c \in Conns : conn[c] = Blank /\ ~Born(c)
  BY <1>4 DEF Init, Born
<1>6. Typed
  <2>1. conn \in [Conns -> ConnRecords]
    BY <1>4 DEF Init
  <2>2. \A l \in Loops : at[l] \in 1..(Len(batch[l]) + 1)
    BY <1>1 DEF Init
  <2>3. nextLoop \in 0..Len(setup.subLoops)
    BY <1>3 DEF Init
  <2>4. TypeOK
    BY <2>1, <2>2, <2>3 DEF Init, TypeOK, ConnRecords
  <2>5. pending \in [Loops -> Seq(Functors)] /\ batch \in [Loops -> Seq(Functors)]
    BY <1>1 DEF Init
  <2> QED
    BY <2>4, <2>5 DEF Init, Typed
<1>7. \A l \in Loops : \A x \in Functors : ~Waits(l, x)
  BY <1>1 DEF Init, Waits, Pends, Remains
<1>8. Lead
  BY <1>2, <1>5, <1>7 DEF Init, Lead
<1>9. Phases
  BY DEF Init, Phases
<1> QED
  BY <1>6, <1>8, <1>9 DEF Sound

LEMMA StutterSound ==
    ASSUME Sound, UNCHANGED vars
    PROVE  Sound'
<1>1. TablesKept
  BY TablesSame DEF vars
<1>2. QueuesKept
  BY QueuesSame DEF vars, Sound
<1>3. RestKept
  BY RestSame DEF vars
<1>4. Phases'
  BY PhasesSame DEF vars, Sound
<1> QED
  BY <1>1, <1>2, <1>3, <1>4, SoundFrom

LEMMA NextSound ==
    ASSUME Sound, [Next]_vars
    PROVE  Sound'
<1>1. ASSUME NEW c \in Conns, NEW f \in Fds, HandleNewConnection(c, f) PROVE Sound'
  BY <1>1, NewConnectionSound
<1>2. ASSUME NEW f \in Fds, KernelMoves(f) PROVE Sound'
  BY <1>2, KernelMovesSound
<1>3. ASSUME NEW l \in Loops, NEW f \in Fds, NEW c \in Conns,
             \/ HangUp(l, f, c) \/ ReadAndSend(l, f, c)
             \/ ReadAndShutdown(l, f, c) \/ HandleWrite(l, f, c)
      PROVE  Sound'
  BY <1>3, HangUpSound, ReadAndSendSound, ReadAndShutdownSound, HandleWriteSound
<1>4. ASSUME NEW l \in Loops, FinishClose(l) \/ StartBatch(l) \/ EndBatch(l) PROVE Sound'
  BY <1>4, FinishCloseSound, StartBatchSound, EndBatchSound
<1>5. ASSUME NEW l \in Loops, RunFunctor(l) PROVE Sound'
  BY <1>5, RunEstablishedSound, RunRemoveSound, RunDestroyedSound, RunSendSound,
     RunShutdownSound, RunForceCloseSound DEF RunFunctor
<1>6. ASSUME NEW c \in Conns, BeginSend(c) \/ BeginShutdown(c) PROVE Sound'
  BY <1>6, BeginSound DEF BeginSend, BeginShutdown
<1>7. ASSUME NEW c \in Conns, NEW op \in {"Send", "Shutdown", "ForceClose"}, EndCall(op, c)
      PROVE  Sound'
  BY <1>7, EndCallSound
<1>8. CASE BeginDestruction
  BY <1>8, BeginDestructionSound
<1>9. CASE QuitLoops \/ ClearConnections \/ DestroySubLoops
  BY <1>9, DestructionSound
<1>10. CASE UNCHANGED vars
  BY <1>10, StutterSound
<1>11. ASSUME NEW c \in Conns, VisitConnection(c) PROVE Sound'
  BY <1>11, VisitSound
<1> QED
  BY PeerMoves, <1>11, <1>1, <1>2, <1>3, <1>4, <1>5, <1>6, <1>7, <1>8, <1>9, <1>10 DEF Next

(***************************************************************************)
(* Every state of every server is of its type, and a loop's batch index is *)
(* within its batch.                                                       *)
(***************************************************************************)
THEOREM TypeCorrect == Spec => []TypeOK
<1>1. Init => Sound
  BY InitSound
<1>2. Sound /\ [Next]_vars => Sound'
  BY NextSound
<1>3. Sound => TypeOK
  BY DEF Sound, Typed
<1> QED
  BY <1>1, <1>2, <1>3, PTL DEF Spec

-----------------------------------------------------------------------------
(***************************************************************************)
(* The effect of each operation, field by field.                           *)
(***************************************************************************)
LEMMA WatchesFrom ==
    ASSUME Sound, NEW c \in Conns, Born(c), NEW ev, ev # {},
           \/ UNCHANGED <<poller, epoll>>
           \/ /\ poller' = PollerWith(conn[c].loop, conn[c].fd, c, ev)
              /\ epoll' = EpollWith(conn[c].loop, conn[c].fd, ev)
    PROVE  UNCHANGED <<poller, epoll>> \/ Watches(c)
<1>1. conn[c].loop \in Loops /\ conn[c].fd \in Fds /\ c # None
  BY FieldsFit
<1>2. CASE /\ poller' = PollerWith(conn[c].loop, conn[c].fd, c, ev)
           /\ epoll' = EpollWith(conn[c].loop, conn[c].fd, ev)
  <2>1. /\ poller \in [Loops -> [Fds -> Conns \cup {None}]]
        /\ epoll \in [Loops -> SUBSET Fds]
    BY DEF Sound, Typed, TypeOK
  <2>2. \A l \in Loops : \A f \in Fds : poller'[l][f] =
          IF /\ poller[conn[c].loop][conn[c].fd] = None
             /\ l = conn[c].loop /\ f = conn[c].fd
            THEN c ELSE poller[l][f]
    BY <1>1, <1>2, <2>1 DEF PollerWith
  <2>4. \A l \in Loops : \A f \in Fds : f \in epoll'[l] <=>
          \/ f \in epoll[l]
          \/ /\ poller[conn[c].loop][conn[c].fd] = None
             /\ l = conn[c].loop /\ f = conn[c].fd /\ kernel[f] # "free"
    <3> DEFINE k == conn[c].loop
               g == conn[c].fd
    <3>1. k \in Loops /\ g \in Fds /\ epoll' = EpollWith(k, g, ev)
      BY <1>1, <1>2
    <3> HIDE DEF k, g
    <3>2. \A l \in Loops : \A f \in Fds : f \in epoll'[l] <=>
            \/ f \in epoll[l]
            \/ poller[k][g] = None /\ l = k /\ f = g /\ kernel[f] # "free"
      BY <3>1, EpollWithType
    <3> QED
      BY <3>2 DEF k, g
  <2> QED
    BY <2>2, <2>4 DEF Watches
<1> QED
  BY <1>2

LEMMA ForgetsFrom ==
    ASSUME Sound, NEW c \in Conns, Born(c),
           poller' = PollerWith(conn[c].loop, conn[c].fd, c, {})
    PROVE  PollerForgets(c)
<1>1. conn[c].loop \in Loops /\ conn[c].fd \in Fds
  BY FieldsFit
<1>2. poller \in [Loops -> [Fds -> Conns \cup {None}]]
  BY DEF Sound, Typed, TypeOK
<1> QED
  BY <1>1, <1>2 DEF PollerWith, PollerForgets

LEMMA DropsFrom ==
    ASSUME Sound, NEW c \in Conns, Born(c),
           epoll' = EpollWith(conn[c].loop, conn[c].fd, {})
    PROVE  EpollDrops(c, FALSE)
<1>1. conn[c].loop \in Loops /\ conn[c].fd \in Fds
  BY FieldsFit
<1> DEFINE k == conn[c].loop
           g == conn[c].fd
<1>2. k \in Loops /\ g \in Fds /\ epoll' = EpollWith(k, g, {})
  BY <1>1
<1> HIDE DEF k, g
<1>3. \A l \in Loops : \A f \in Fds :
        f \in epoll'[l] <=> f \in epoll[l] /\ ~(f = g /\ l = k /\ poller[k][g] # None)
  BY <1>2, EpollWithType
<1> QED
  BY <1>3 DEF EpollDrops, k, g

LEMMA DropsAllFrom ==
    ASSUME Sound, NEW c \in Conns, Born(c),
           \/ epoll' = EpollAfterClose(epoll, c) /\ conn[c].open
           \/ epoll' = EpollAfterClose(EpollWith(conn[c].loop, conn[c].fd, {}), c)
    PROVE  EpollDrops(c, conn[c].open)
<1>1. /\ conn[c].loop \in Loops /\ conn[c].fd \in Fds
      /\ epoll \in [Loops -> SUBSET Fds] /\ conn[c].open \in BOOLEAN
  BY FieldsFit DEF Sound, Typed, TypeOK
<1>2. CASE epoll' = EpollAfterClose(epoll, c) /\ conn[c].open
  <2>1. \A l \in Loops : EpollAfterClose(epoll, c)[l] = epoll[l] \ {conn[c].fd}
    BY <1>2 DEF EpollAfterClose
  <2> QED
    BY <1>2, <2>1 DEF EpollDrops
<1>3. CASE epoll' = EpollAfterClose(EpollWith(conn[c].loop, conn[c].fd, {}), c)
  <2> DEFINE k == conn[c].loop
             g == conn[c].fd
             ep == EpollWith(k, g, {})
  <2>1. epoll' = EpollAfterClose(ep, c) /\ ep = EpollWith(k, g, {}) /\ g = conn[c].fd
    BY <1>3
  <2>2. k \in Loops /\ g \in Fds
    BY <1>1
  <2> HIDE DEF ep, k, g
  <2>3. /\ ep \in [Loops -> SUBSET Fds]
        /\ \A l \in Loops : \A f \in Fds :
             f \in ep[l] <=> f \in epoll[l] /\ ~(f = g /\ l = k /\ poller[k][g] # None)
    BY <2>1, <2>2, EpollWithType
  <2>4. \A l \in Loops : epoll'[l] = IF conn[c].open THEN ep[l] \ {g} ELSE ep[l]
    BY <2>1, <2>3 DEF EpollAfterClose
  <2> QED
    BY <1>1, <2>3, <2>4, ZenonT(40) DEF EpollDrops, k, g
<1> QED
  BY <1>2, <1>3

\* FinishClose of connection c is to come on loop l.
Closes(l, c) == \A k \in Loops : closing'[k] = IF k = l THEN c ELSE closing[k]

LEMMA HandleCloseEffect ==
    ASSUME Sound, NEW l \in Loops, NEW c \in Conns, Born(c), conn[c].loop = l,
           HandleClose(l, c), conn[c].state # "Disconnected"
    PROVE  /\ Becomes(c, "Disconnected", conn[c].open, {})
           /\ PollerForgets(c) /\ EpollDrops(c, FALSE)
           /\ Closes(l, c)
           /\ closing' = [closing EXCEPT ![l] = c] /\ kernel' = kernel
<1>1. conn \in [Conns -> ConnRecords] /\ closing \in [Loops -> Conns \cup {None}]
  BY DEF Sound, Typed, TypeOK, ConnRecords
<1>2. conn' = [conn EXCEPT ![c] = Disabled(@)] /\ closing' = [closing EXCEPT ![l] = c]
  BY DEF HandleClose
<1>3. Becomes(c, "Disconnected", conn[c].open, {})
  BY <1>1, <1>2 DEF Becomes, Disabled, ConnRecords
<1>4. Closes(l, c)
  BY <1>1, <1>2 DEF Closes
<1>5. PollerForgets(c) /\ EpollDrops(c, FALSE) /\ kernel' = kernel
  BY ForgetsFrom, DropsFrom DEF HandleClose
<1> QED
  BY <1>2, <1>3, <1>4, <1>5

LEMMA FinishCloseEffect ==
    ASSUME Sound, NEW l \in Loops, NEW c \in Conns, closing[l] = c, FinishClose(l)
    PROVE  /\ Born(c) /\ conn[c].loop = l
           /\ Becomes(c, conn[c].state, FALSE, conn[c].events)
           /\ SocketCloses(c)
           /\ conn[c].open => EpollDrops(c, TRUE)
           /\ ~conn[c].open => epoll' = epoll
           /\ \A k \in Loops : closing'[k] = IF k = l THEN None ELSE closing[k]
<1>1. /\ conn \in [Conns -> ConnRecords] /\ closing \in [Loops -> Conns \cup {None}]
      /\ epoll \in [Loops -> SUBSET Fds]
  BY DEF Sound, Typed, TypeOK, ConnRecords
<1>2. /\ conn' = [conn EXCEPT ![c].open = FALSE] /\ closing' = [closing EXCEPT ![l] = None]
      /\ kernel' = KernelAfterClose(c) /\ epoll' = EpollAfterClose(epoll, c)
  BY DEF FinishClose
<1>3. Born(c) /\ conn[c].loop = l
  BY DEF Sound, Lead
<1>4. Becomes(c, conn[c].state, FALSE, conn[c].events)
  BY <1>1, <1>2 DEF Becomes, ConnRecords
<1>5. SocketCloses(c)
  BY <1>1, <1>2, <1>3, AfterCloseType DEF SocketCloses
<1>6. CASE conn[c].open
  <2>1. EpollDrops(c, conn[c].open)
    BY <1>2, <1>3, <1>6, DropsAllFrom
  <2>2. EpollDrops(c, TRUE)
    BY <1>6, <2>1 DEF EpollDrops
  <2> QED
    BY <1>1, <1>2, <1>3, <1>4, <1>5, <1>6, <2>2
<1>7. CASE ~conn[c].open
  BY <1>1, <1>2, <1>3, <1>4, <1>5, <1>7 DEF EpollAfterClose
<1> QED
  BY <1>6, <1>7

LEMMA BufferedEffect ==
    ASSUME Sound, NEW c \in Conns, Buffered(c)
    PROVE  \/ UNCHANGED <<conn, poller, epoll>>
           \/ /\ conn[c].state = "Connected" /\ Born(c)
              /\ Becomes(c, "Connected", conn[c].open, conn[c].events \cup {"write"})
              /\ UNCHANGED <<poller, epoll>> \/ Watches(c)
<1>1. conn \in [Conns -> ConnRecords]
  BY DEF Sound, Typed, TypeOK, ConnRecords
<1>2. CASE conn[c].state = "Connected"
  <2>1. Born(c)
    BY <1>2 DEF Born
  <2>2. Becomes(c, "Connected", conn[c].open, conn[c].events \cup {"write"})
    BY <1>1, <1>2 DEF Becomes, Buffered, ConnRecords
  <2> DEFINE ev == conn[c].events \cup {"write"}
  <2>3. \/ UNCHANGED <<poller, epoll>>
        \/ /\ poller' = PollerWith(conn[c].loop, conn[c].fd, c, ev)
           /\ epoll' = EpollWith(conn[c].loop, conn[c].fd, ev)
    BY <1>2 DEF Buffered
  <2>4. ev # {}
    OBVIOUS
  <2> HIDE DEF ev
  <2>5. UNCHANGED <<poller, epoll>> \/ Watches(c)
    BY <2>1, <2>3, <2>4, WatchesFrom
  <2> QED
    BY <1>2, <2>1, <2>2, <2>5
<1>3. CASE conn[c].state # "Connected"
  BY <1>3 DEF Buffered
<1> QED
  BY <1>2, <1>3

LEMMA ShutdownEffect ==
    ASSUME Sound, NEW c \in Conns, Born(c), NEW s, ShutdownInLoop(c, s)
    PROVE  \/ /\ Becomes(c, s, conn[c].open, conn[c].events \cup {"write"})
              /\ UNCHANGED <<poller, epoll>> \/ Watches(c)
              /\ kernel' = kernel
           \/ /\ Becomes(c, "Disconnected", FALSE, conn[c].events)
              /\ SocketCloses(c) /\ poller' = poller
              /\ conn[c].open => EpollDrops(c, TRUE)
              /\ ~conn[c].open => epoll' = epoll
<1>1. conn \in [Conns -> ConnRecords] /\ epoll \in [Loops -> SUBSET Fds]
  BY DEF Sound, Typed, TypeOK, ConnRecords
<1>2. CASE conn[c].out > 0
  <2>2. Becomes(c, s, conn[c].open, conn[c].events \cup {"write"}) /\ kernel' = kernel
    BY <1>1, <1>2 DEF Becomes, ShutdownInLoop, ConnRecords
  <2> DEFINE ev == conn[c].events \cup {"write"}
  <2>3. \/ UNCHANGED <<poller, epoll>>
        \/ /\ poller' = PollerWith(conn[c].loop, conn[c].fd, c, ev)
           /\ epoll' = EpollWith(conn[c].loop, conn[c].fd, ev)
    BY <1>2 DEF ShutdownInLoop
  <2>4. ev # {}
    OBVIOUS
  <2> HIDE DEF ev
  <2>5. UNCHANGED <<poller, epoll>> \/ Watches(c)
    BY <2>3, <2>4, WatchesFrom
  <2> QED
    BY <2>2, <2>5
<1>3. CASE ~(conn[c].out > 0)
  <2>1. /\ Becomes(c, "Disconnected", FALSE, conn[c].events)
        /\ poller' = poller
    BY <1>1, <1>3 DEF Becomes, ShutdownInLoop, ConnRecords
  <2>2. kernel' = KernelAfterClose(c) /\ epoll' = EpollAfterClose(epoll, c)
    BY <1>3 DEF ShutdownInLoop
  <2>3. SocketCloses(c)
    BY <1>1, <2>2, AfterCloseType DEF SocketCloses
  <2>4. CASE conn[c].open
    <3>1. EpollDrops(c, conn[c].open)
      BY <2>2, <2>4, DropsAllFrom
    <3>2. EpollDrops(c, TRUE)
      BY <2>4, <3>1 DEF EpollDrops
    <3> QED
      BY <2>1, <2>3, <2>4, <3>2
  <2>5. CASE ~conn[c].open
    BY <2>1, <2>2, <2>3, <2>5 DEF EpollAfterClose
  <2> QED
    BY <2>4, <2>5
<1> QED
  BY <1>2, <1>3

\* HandleWrite leaves the tables alone: the read event is still there.
LEMMA HandleWriteEffect ==
    ASSUME Sound, NEW l \in Loops, NEW f \in Fds, NEW c \in Conns, HandleWrite(l, f, c),
           "read" \in conn[c].events
    PROVE  /\ conn[c].state = "Connected" /\ Born(c)
           /\ Becomes(c, "Connected", conn[c].open, conn[c].events \ {"write"})
           /\ UNCHANGED <<poller, epoll>>
<1> DEFINE ev == conn[c].events \ {"write"}
<1>1. /\ conn \in [Conns -> ConnRecords] /\ epoll \in [Loops -> SUBSET Fds]
      /\ poller \in [Loops -> [Fds -> Conns \cup {None}]]
  BY DEF Sound, Typed, TypeOK, ConnRecords
<1>2. conn[c].state = "Connected" /\ Born(c) /\ ev # {}
  BY DEF HandleWrite, Born
<1>3. Becomes(c, "Connected", conn[c].open, ev)
  BY <1>1 DEF HandleWrite, Becomes, ConnRecords
<1>4. /\ poller' = PollerWith(l, f, c, ev) /\ epoll' = EpollWith(l, f, ev)
      /\ poller[l][f] = c /\ c # None
  BY FieldsFit DEF HandleWrite, Ready
<1> HIDE DEF ev
<1>5. epoll' = epoll
  BY <1>2, <1>4 DEF EpollWith
<1>6. poller' = poller
  <2>1. poller' = [poller EXCEPT ![l][f] = poller[l][f]]
    BY <1>2, <1>4 DEF PollerWith
  <2> QED
    BY <1>1, <2>1
<1> QED
  BY <1>2, <1>3, <1>5, <1>6 DEF ev

LEMMA RunEstablishedEffect ==
    ASSUME Sound, NEW l \in Loops, NEW c \in Conns, RunEstablished(l, c)
    PROVE  /\ Born(c) /\ conn[c].loop = l
           /\ Becomes(c, "Connected", conn[c].open, conn[c].events \cup {"read"})
           /\ UNCHANGED <<poller, epoll>> \/ Watches(c)
<1>1. conn \in [Conns -> ConnRecords]
  BY DEF Sound, Typed, TypeOK, ConnRecords
<1>2. Born(c) /\ conn[c].loop = l
  BY RunsPlaced, OpTypes DEF RunEstablished
<1> DEFINE ev == conn[c].events \cup {"read"}
<1>3. Becomes(c, "Connected", conn[c].open, ev)
  BY <1>1 DEF RunEstablished, Becomes, ConnRecords
<1>4. /\ poller' = PollerWith(conn[c].loop, conn[c].fd, c, ev)
      /\ epoll' = EpollWith(conn[c].loop, conn[c].fd, ev)
  BY <1>2 DEF RunEstablished
<1>5. ev # {}
  OBVIOUS
<1> HIDE DEF ev
<1>6. UNCHANGED <<poller, epoll>> \/ Watches(c)
  BY <1>2, <1>4, <1>5, WatchesFrom
<1> QED
  BY <1>2, <1>3, <1>6 DEF ev

\* ConnectDestroyed and ForceCloseInLoop of a connection that is not yet closed.
LEMMA DisabledEffect ==
    ASSUME Sound, NEW c \in Conns, Born(c),
           conn' = [conn EXCEPT ![c] = [Disabled(@) EXCEPT !.open = FALSE]],
           poller' = PollerWith(conn[c].loop, conn[c].fd, c, {}),
           epoll' = EpollAfterClose(EpollWith(conn[c].loop, conn[c].fd, {}), c),
           kernel' = KernelAfterClose(c)
    PROVE  /\ Becomes(c, "Disconnected", FALSE, {})
           /\ PollerForgets(c) /\ EpollDrops(c, conn[c].open) /\ SocketCloses(c)
<1>1. conn \in [Conns -> ConnRecords]
  BY DEF Sound, Typed, TypeOK, ConnRecords
<1> DEFINE r == [Disabled(conn[c]) EXCEPT !.open = FALSE]
<1>2. /\ r.fd = conn[c].fd /\ r.loop = conn[c].loop /\ r.state = "Disconnected"
      /\ r.open = FALSE /\ r.events = {}
  <2>1. conn[c] \in ConnRecords
    BY <1>1
  <2> QED
    BY <2>1 DEF Disabled, ConnRecords
<1>3. conn' = [conn EXCEPT ![c] = r]
  OBVIOUS
<1> HIDE DEF r
<1>4. Becomes(c, "Disconnected", FALSE, {})
  BY <1>1, <1>2, <1>3 DEF Becomes
<1>5. SocketCloses(c)
  BY AfterCloseType DEF SocketCloses, Sound, Typed, TypeOK
<1> QED
  BY <1>4, <1>5, ForgetsFrom, DropsAllFrom

LEMMA EndCallEffect ==
    ASSUME Sound, NEW op \in {"Send", "Shutdown", "ForceClose"}, NEW c \in Conns, EndCall(op, c)
    PROVE  /\ Born(c) /\ ForeignCall(op, c) \in foreign /\ ForeignCall(op, c) \in ForeignCalls
           /\ conn[c].loop \in Loops
           /\ op = "Send" => conn' = conn
           /\ op # "Send" => Becomes(c, "Disconnecting", conn[c].open, conn[c].events)
           /\ foreign' \subseteq foreign
           /\ Functor(op, c) \in Functors
           /\ \A k \in Loops : \A x \in Functors :
                Waits(k, x)' <=> Waits(k, x) \/ (k = conn[c].loop /\ x = Functor(op, c))
<1>1. /\ ForeignCall(op, c) \in foreign /\ ForeignCall(op, c) \in ForeignCalls
      /\ foreign' \subseteq foreign
  BY DEF EndCall, ForeignCall, ForeignCalls
<1>2. Born(c) /\ conn[c].loop \in Loops
  BY <1>1, FieldsFit DEF Sound, Lead, ForeignCall
<1>3. Functor(op, c) \in Functors /\ Placed(conn[c].loop, Functor(op, c))
  BY <1>2, FunctorType DEF Ops, Placed, Functor
<1>4. \A k \in Loops : \A x \in Functors :
         Waits(k, x)' <=> Waits(k, x) \/ (k = conn[c].loop /\ x = Functor(op, c))
  BY <1>2, <1>3, QueuesPost DEF EndCall, Sound
<1>5. conn \in [Conns -> ConnRecords]
  BY DEF Sound, Typed, TypeOK, ConnRecords
<1>6. op = "Send" => conn' = conn
  BY DEF EndCall
<1>7. op # "Send" => Becomes(c, "Disconnecting", conn[c].open, conn[c].events)
  BY <1>5 DEF EndCall, Becomes, ConnRecords
<1> QED
  BY <1>1, <1>2, <1>3, <1>4, <1>6, <1>7

-----------------------------------------------------------------------------
(***************************************************************************)
(* Descriptors: a socket is opened for one connection, and closed once.    *)
(***************************************************************************)
LEMMA OpenBorn ==
    ASSUME Sound, NEW c \in Conns, conn[c].open
    PROVE  Born(c) /\ conn[c].fd \in Fds /\ conn[c].loop \in Loops
<1>1. ~Born(c) => conn[c] = Blank
  BY DEF Sound, Lead
<1>2. Born(c)
  BY <1>1 DEF Blank
<1> QED
  BY <1>2, FieldsFit

LEMMA OwnedCloses ==
    ASSUME Sound, Owned, NEW c \in Conns, NEW s, NEW e,
           Becomes(c, s, FALSE, e), SocketCloses(c)
    PROVE  Owned'
<1>1. \A d \in Conns : conn'[d].open => d # c /\ conn[d].open /\ conn'[d].fd = conn[d].fd
  BY DEF Becomes
<1>2. \A d \in Conns : d # c => conn'[d] = conn[d]
  BY DEF Becomes
<1>3. \A d \in Conns : conn'[d].open => kernel'[conn'[d].fd] # "free"
  <2>1. ASSUME NEW d \in Conns, conn'[d].open PROVE kernel'[conn'[d].fd] # "free"
    <3>1. /\ conn[d].open /\ conn'[d].fd = conn[d].fd /\ conn[d].fd \in Fds
          /\ kernel[conn[d].fd] # "free"
      BY <1>1, <2>1, OpenBorn DEF Owned
    <3>2. ~(conn[c].open /\ conn[d].fd = conn[c].fd)
      BY <1>1, <2>1 DEF Owned
    <3> QED
      BY <3>1, <3>2 DEF SocketCloses
  <2> QED
    BY <2>1
<1>4. \A d, b \in Conns : conn'[d].open /\ conn'[b].open /\ conn'[d].fd = conn'[b].fd => d = b
  BY <1>1 DEF Owned
<1>5. ASSUME NEW f \in Fds, kernel'[f] # "free"
      PROVE  \E d \in Conns : conn'[d].open /\ conn'[d].fd = f
  <2>1. kernel[f] # "free" /\ ~(conn[c].open /\ f = conn[c].fd)
    BY <1>5 DEF SocketCloses
  <2>2. PICK d \in Conns : conn[d].open /\ conn[d].fd = f
    BY <2>1 DEF Owned
  <2>3. d # c
    BY <2>1, <2>2
  <2> QED
    BY <1>2, <2>2, <2>3
<1> QED
  BY <1>3, <1>4, <1>5 DEF Owned

LEMMA OwnedSame ==
    ASSUME Owned, kernel' = kernel,
           \A d \in Conns : conn'[d].open = conn[d].open /\ conn'[d].fd = conn[d].fd
    PROVE  Owned'
BY DEF Owned

LEMMA OwnedBecomes ==
    ASSUME Owned, kernel' = kernel, NEW c \in Conns, NEW s, NEW e,
           Becomes(c, s, conn[c].open, e)
    PROVE  Owned'
<1>1. \A d \in Conns : conn'[d].open = conn[d].open /\ conn'[d].fd = conn[d].fd
  BY DEF Becomes
<1> QED
  BY <1>1, OwnedSame

LEMMA OwnedBears ==
    ASSUME Sound, Owned, NEW c \in Conns, NEW f \in Fds, Bears(c, f)
    PROVE  Owned'
<1>1. kernel \in [Fds -> {"free", "open", "full", "hup"}]
  BY DEF Sound, Typed, TypeOK
<1>2. \A g \in Fds : kernel'[g] = IF g = f THEN "open" ELSE kernel[g]
  BY <1>1 DEF Bears
<1>3. /\ \A d \in Conns : d # c => conn'[d] = conn[d]
      /\ conn'[c].fd = f /\ conn'[c].open /\ kernel[f] = "free" /\ ~Born(c)
  BY DEF Bears
<1>4. \A d \in Conns : conn[d].open => d # c /\ conn[d].fd \in Fds /\ conn[d].fd # f
  BY <1>3, OpenBorn DEF Owned
<1>5. \A d \in Conns : conn'[d].open => kernel'[conn'[d].fd] # "free"
  BY <1>2, <1>3, <1>4 DEF Owned
<1>6. \A d, b \in Conns : conn'[d].open /\ conn'[b].open /\ conn'[d].fd = conn'[b].fd => d = b
  BY <1>3, <1>4 DEF Owned
<1>7. ASSUME NEW g \in Fds, kernel'[g] # "free"
      PROVE  \E d \in Conns : conn'[d].open /\ conn'[d].fd = g
  <2>1. CASE g = f
    BY <1>3, <2>1
  <2>2. CASE g # f
    <3>1. PICK d \in Conns : conn[d].open /\ conn[d].fd = g
      BY <1>2, <1>7, <2>2 DEF Owned
    <3> QED
      BY <1>3, <1>4, <3>1
  <2> QED
    BY <2>1, <2>2
<1> QED
  BY <1>5, <1>6, <1>7 DEF Owned

LEMMA OwnedKernelMoves ==
    ASSUME Sound, Owned, NEW f \in Fds, KernelMoves(f)
    PROVE  Owned'
<1>1. kernel \in [Fds -> {"free", "open", "full", "hup"}]
  BY DEF Sound, Typed, TypeOK
<1>2. conn' = conn /\ \A g \in Fds : kernel'[g] = "free" <=> kernel[g] = "free"
  BY <1>1 DEF KernelMoves, Peer
<1>3. \A c \in Conns : conn[c].open => conn[c].fd \in Fds
  BY OpenBorn
<1> QED
  BY <1>2, <1>3 DEF Owned

LEMMA OwnedShutdown ==
    ASSUME Sound, Owned, NEW c \in Conns, Born(c), NEW s, ShutdownInLoop(c, s)
    PROVE  Owned'
<1>1. CASE /\ Becomes(c, s, conn[c].open, conn[c].events \cup {"write"})
           /\ kernel' = kernel
  BY <1>1, OwnedBecomes
<1>2. CASE Becomes(c, "Disconnected", FALSE, conn[c].events) /\ SocketCloses(c)
  BY <1>2, OwnedCloses
<1> QED
  BY <1>1, <1>2, ShutdownEffect

LEMMA OwnedHandleWrite ==
    ASSUME Sound, Owned, NEW l \in Loops, NEW f \in Fds, NEW c \in Conns, HandleWrite(l, f, c)
    PROVE  Owned'
<1>1. conn \in [Conns -> ConnRecords]
  BY DEF Sound, Typed, TypeOK, ConnRecords
<1>2. \A d \in Conns : conn'[d].open = conn[d].open /\ conn'[d].fd = conn[d].fd
  BY <1>1 DEF HandleWrite, ConnRecords
<1> QED
  BY <1>2, OwnedSame DEF HandleWrite

LEMMA OwnedRun ==
    ASSUME Sound, Owned, NEW l \in Loops, RunFunctor(l)
    PROVE  Owned'
<1>1. PICK c \in Conns : \/ RunEstablished(l, c) \/ (l = Main /\ RunRemove(c))
                         \/ RunDestroyed(l, c) \/ RunSend(l, c) \/ RunShutdown(l, c)
                         \/ RunForceClose(l, c)
  BY DEF RunFunctor
<1>2. CASE RunEstablished(l, c)
  BY <1>2, RunEstablishedEffect, OwnedBecomes DEF RunEstablished
<1>3. CASE RunRemove(c)
  BY <1>3, OwnedSame DEF RunRemove
<1>4. CASE RunDestroyed(l, c)
  <2>1. Born(c) /\ conn[c].loop = l
    BY <1>4, RunsPlaced, OpTypes DEF RunDestroyed
  <2>2. CASE conn[c].state \in {"Connected", "Disconnecting"}
    BY <1>4, <2>1, <2>2, DisabledEffect, OwnedCloses DEF RunDestroyed
  <2>3. CASE conn[c].state \notin {"Connected", "Disconnecting"}
    BY <1>4, <2>3, OwnedSame DEF RunDestroyed
  <2> QED
    BY <2>2, <2>3
<1>5. CASE RunSend(l, c)
  BY <1>5, BufferedEffect, OwnedBecomes, OwnedSame DEF RunSend
<1>6. CASE RunShutdown(l, c)
  <2>1. Born(c)
    BY <1>6, RunsPlaced, OpTypes DEF RunShutdown
  <2> QED
    BY <1>6, <2>1, OwnedShutdown DEF RunShutdown
<1>7. CASE RunForceClose(l, c)
  <2>1. Born(c) /\ conn[c].loop = l
    BY <1>7, RunsPlaced, OpTypes DEF RunForceClose
  <2>2. CASE conn[c].state \in {"Connected", "Disconnecting"}
    BY <1>7, <2>1, <2>2, DisabledEffect, OwnedCloses DEF RunForceClose, ForceCloseInLoop
  <2>3. CASE conn[c].state \notin {"Connected", "Disconnecting"}
    BY <1>7, <2>3, OwnedSame DEF RunForceClose, ForceCloseInLoop
  <2> QED
    BY <2>2, <2>3
<1> QED
  BY <1>1, <1>2, <1>3, <1>4, <1>5, <1>6, <1>7

LEMMA NextOwned ==
    ASSUME Sound, Owned, [Next]_vars
    PROVE  Owned'
<1>1. ASSUME NEW c \in Conns, NEW f \in Fds, HandleNewConnection(c, f) PROVE Owned'
  BY <1>1, NewConnection, OwnedBears
<1>2. ASSUME NEW f \in Fds, KernelMoves(f) PROVE Owned'
  BY <1>2, OwnedKernelMoves
<1>3. ASSUME NEW l \in Loops, NEW f \in Fds, NEW c \in Conns, HangUp(l, f, c) PROVE Owned'
  <2>1. Born(c) /\ conn[c].loop = l /\ HandleClose(l, c)
    BY <1>3, FieldsFit DEF HangUp
  <2>2. CASE conn[c].state = "Disconnected"
    BY <2>1, <2>2, OwnedSame DEF HandleClose
  <2>3. CASE conn[c].state # "Disconnected"
    BY <2>1, <2>3, HandleCloseEffect, OwnedBecomes
  <2> QED
    BY <2>2, <2>3
<1>4. ASSUME NEW l \in Loops, NEW f \in Fds, NEW c \in Conns, ReadAndSend(l, f, c)
      PROVE  Owned'
  BY <1>4, BufferedEffect, OwnedBecomes, OwnedSame DEF ReadAndSend
<1>5. ASSUME NEW l \in Loops, NEW f \in Fds, NEW c \in Conns, ReadAndShutdown(l, f, c)
      PROVE  Owned'
  BY <1>5, FieldsFit, OwnedShutdown DEF ReadAndShutdown
<1>6. ASSUME NEW l \in Loops, NEW f \in Fds, NEW c \in Conns, HandleWrite(l, f, c)
      PROVE  Owned'
  BY <1>6, OwnedHandleWrite
<1>7. ASSUME NEW l \in Loops, FinishClose(l) PROVE Owned'
  <2>1. PICK c \in Conns : closing[l] = c
    BY <1>7 DEF FinishClose, Sound, Typed, TypeOK
  <2>2. Becomes(c, conn[c].state, FALSE, conn[c].events) /\ SocketCloses(c)
    BY <1>7, <2>1, FinishCloseEffect
  <2> QED
    BY <2>2, OwnedCloses
<1>8. ASSUME NEW l \in Loops, StartBatch(l) \/ EndBatch(l) PROVE Owned'
  BY <1>8, OwnedSame DEF StartBatch, EndBatch
<1>9. ASSUME NEW l \in Loops, RunFunctor(l) PROVE Owned'
  BY <1>9, OwnedRun
<1>10. ASSUME NEW c \in Conns, BeginSend(c) \/ BeginShutdown(c) PROVE Owned'
  BY <1>10, OwnedSame DEF BeginSend, BeginShutdown, Begin
<1>11. ASSUME NEW c \in Conns, NEW op \in {"Send", "Shutdown", "ForceClose"}, EndCall(op, c)
       PROVE  Owned'
  <2>1. kernel' = kernel
    BY <1>11 DEF EndCall
  <2>2. CASE op = "Send"
    BY <1>11, <2>1, <2>2, EndCallEffect, OwnedSame
  <2>3. CASE op # "Send"
    BY <1>11, <2>1, <2>3, EndCallEffect, OwnedBecomes
  <2> QED
    BY <2>2, <2>3
<1>12. CASE BeginDestruction \/ QuitLoops \/ ClearConnections \/ DestroySubLoops
  BY <1>12, OwnedSame DEF BeginDestruction, QuitLoops, ClearConnections, DestroySubLoops
<1>13. CASE UNCHANGED vars
  BY <1>13, OwnedSame DEF vars
<1>14. ASSUME NEW c \in Conns, VisitConnection(c) PROVE Owned'
  BY <1>14, VisitEffect, OwnedSame
<1> QED
  BY PeerMoves, <1>14, <1>1, <1>2, <1>3, <1>4, <1>5, <1>6, <1>7, <1>8, <1>9, <1>10, <1>11, <1>12, <1>13 DEF Next

LEMMA InitOwned == Init => Owned
BY DEF Init, Owned, Blank

-----------------------------------------------------------------------------
(***************************************************************************)
(* A connection is established once: its functor is posted when it is      *)
(* born, and gone when it has run.                                         *)
(***************************************************************************)
LEMMA OnceSame ==
    ASSUME Once, UNCHANGED <<pending, batch, at>>
    PROVE  Once'
BY DEF Once, PendsOnce, RemainsOnce, Pends, Remains

LEMMA PendsOncePost ==
    ASSUME Typed, NEW l \in Loops, NEW f \in Functors, pending' = Post(l, f),
           NEW k \in Loops, NEW x \in Functors, PendsOnce(k, x),
           x = f => ~Pends(k, x)
    PROVE  PendsOnce(k, x)'
<1>1. pending[l] \in Seq(Functors)
  BY DEF Typed
<1>2. /\ Len(Append(pending[l], f)) = Len(pending[l]) + 1
      /\ \A i \in 1..Len(pending[l]) : Append(pending[l], f)[i] = pending[l][i]
      /\ Append(pending[l], f)[Len(pending[l]) + 1] = f
      /\ Len(pending[l]) \in Nat
  BY <1>1, AppendProperties, LenProperties
<1>3. \A m \in Loops : pending'[m] = IF m = l THEN Append(pending[l], f) ELSE pending[m]
  BY DEF Post, Typed
<1>4. CASE k # l
  BY <1>3, <1>4 DEF PendsOnce
<1>5. CASE k = l
  <2> DEFINE q == Append(pending[l], f)
             n == Len(pending[l])
  <2>1. pending'[k] = q /\ Len(q) = n + 1
    BY <1>2, <1>3, <1>5
  <2>2. ASSUME NEW i \in 1..(n + 1), NEW j \in 1..(n + 1), q[i] = x, q[j] = x
        PROVE  i = j
    <3>1. (i \in 1..n \/ i = n + 1) /\ (j \in 1..n \/ j = n + 1)
      BY <1>2
    <3>2. CASE i \in 1..n /\ j \in 1..n
      BY <1>2, <1>5, <2>2, <3>2 DEF PendsOnce
    <3>3. CASE i \in 1..n /\ j = n + 1
      BY <1>2, <1>5, <2>2, <3>3 DEF Pends
    <3>4. CASE j \in 1..n /\ i = n + 1
      BY <1>2, <1>5, <2>2, <3>4 DEF Pends
    <3> QED
      BY <3>1, <3>2, <3>3, <3>4
  <2> QED
    BY <2>1, <2>2 DEF PendsOnce
<1> QED
  BY <1>4, <1>5

LEMMA RemainsOnceRun ==
    ASSUME Typed, NEW l \in Loops, NEW op \in Ops, NEW c \in Conns, Runs(l, op, c),
           NEW k \in Loops, NEW x \in Functors, RemainsOnce(k, x)
    PROVE  /\ RemainsOnce(k, x)'
           /\ k = l /\ x = Functor(op, c) => ~Remains(k, x)'
<1>1. /\ at[l] \in Nat /\ Len(batch[l]) \in Nat
      /\ at[l] <= Len(batch[l]) /\ batch[l][at[l]] = Functor(op, c)
  BY LenProperties DEF Typed, Runs
<1>2. batch' = batch /\ \A m \in Loops : at'[m] = IF m = l THEN at[l] + 1 ELSE at[m]
  BY DEF Typed, Runs
<1>3. \A i \in (at[l] + 1)..Len(batch[l]) : i \in at[l]..Len(batch[l]) /\ i # at[l]
  BY <1>1
<1>4. at[l] \in at[l]..Len(batch[l])
  BY <1>1
<1>5. CASE k = l
  <2>1. RemainsOnce(k, x)'
    BY <1>2, <1>3, <1>5 DEF RemainsOnce
  <2>2. x = Functor(op, c) => ~Remains(k, x)'
    BY <1>1, <1>2, <1>3, <1>4, <1>5 DEF RemainsOnce, Remains
  <2> QED
    BY <2>1, <2>2
<1>6. CASE k # l
  BY <1>2, <1>6 DEF RemainsOnce
<1> QED
  BY <1>5, <1>6

LEMMA OncePost ==
    ASSUME Typed, Once, NEW l \in Loops, NEW f \in Functors, pending' = Post(l, f),
           UNCHANGED <<batch, at>>,
           \A k \in Loops : f.op = "Established" => ~Waits(k, f)
    PROVE  Once'
<1> SUFFICES ASSUME NEW k \in Loops, NEW c \in Conns
             PROVE  LET x == Functor("Established", c) IN
                    /\ PendsOnce(k, x)' /\ RemainsOnce(k, x)'
                    /\ ~(Pends(k, x)' /\ Remains(k, x)')
  BY DEF Once, Functor
<1> DEFINE x == Functor("Established", c)
<1>1. x \in Functors /\ x.op = "Established"
  BY FunctorType, OpTypes
<1>2. PendsOnce(k, x) /\ RemainsOnce(k, x) /\ ~(Pends(k, x) /\ Remains(k, x))
  BY DEF Once
<1> HIDE DEF x
<1>3. x = f => ~Pends(k, x) /\ ~Remains(k, x)
  BY <1>1 DEF Waits
<1>4. PendsOnce(k, x)'
  BY <1>1, <1>2, <1>3, PendsOncePost
<1>5. RemainsOnce(k, x)' /\ (Remains(k, x)' <=> Remains(k, x))
  BY <1>2 DEF RemainsOnce, Remains
<1>6. Pends(k, x)' <=> Pends(k, x) \/ (k = l /\ x = f)
  BY <1>1, PostPends
<1>7. ~(Pends(k, x)' /\ Remains(k, x)')
  BY <1>2, <1>3, <1>5, <1>6
<1> QED
  BY <1>4, <1>5, <1>7 DEF x

LEMMA OnceRun ==
    ASSUME Typed, Once, NEW l \in Loops, NEW op \in Ops, NEW c \in Conns, Runs(l, op, c),
           \/ pending' = pending
           \/ \E m \in Loops : \E f \in Functors :
                f.op # "Established" /\ pending' = Post(m, f)
    PROVE  Once'
<1> SUFFICES ASSUME NEW k \in Loops, NEW d \in Conns
             PROVE  LET x == Functor("Established", d) IN
                    /\ PendsOnce(k, x)' /\ RemainsOnce(k, x)'
                    /\ ~(Pends(k, x)' /\ Remains(k, x)')
  BY DEF Once, Functor
<1> DEFINE x == Functor("Established", d)
<1>1. x \in Functors /\ x.op = "Established"
  BY FunctorType, OpTypes
<1>2. PendsOnce(k, x) /\ RemainsOnce(k, x) /\ ~(Pends(k, x) /\ Remains(k, x))
  BY DEF Once
<1> HIDE DEF x
<1>3. RemainsOnce(k, x)' /\ (Remains(k, x)' => Remains(k, x))
  BY <1>1, <1>2, RemainsOnceRun, RunRemains
<1>4. PendsOnce(k, x)' /\ (Pends(k, x)' => Pends(k, x))
  <2>1. CASE pending' = pending
    BY <1>2, <2>1 DEF PendsOnce, Pends
  <2>2. ASSUME NEW m \in Loops, NEW f \in Functors, f.op # "Established", pending' = Post(m, f)
        PROVE  PendsOnce(k, x)' /\ (Pends(k, x)' => Pends(k, x))
    <3>1. x # f
      BY <1>1, <2>2
    <3> QED
      BY <1>1, <1>2, <2>2, <3>1, PendsOncePost, PostPends
  <2> QED
    BY <2>1, <2>2
<1> QED
  BY <1>2, <1>3, <1>4 DEF x

LEMMA OnceBatch ==
    ASSUME Typed, Phases, Once, NEW l \in Loops, StartBatch(l) \/ EndBatch(l)
    PROVE  Once'
<1>1. CASE StartBatch(l)
  <2>1. \A k \in Loops : /\ pending'[k] = IF k = l THEN <<>> ELSE pending[k]
                         /\ batch'[k] = IF k = l THEN pending[l] ELSE batch[k]
                         /\ at'[k] = IF k = l THEN 1 ELSE at[k]
    BY <1>1 DEF StartBatch, Typed
  <2>2. <<>> \in Seq(Functors) /\ Len(<<>>) = 0
    BY EmptySeq
  <2> SUFFICES ASSUME NEW k \in Loops, NEW d \in Conns
               PROVE  LET x == Functor("Established", d) IN
                      /\ PendsOnce(k, x)' /\ RemainsOnce(k, x)'
                      /\ ~(Pends(k, x)' /\ Remains(k, x)')
    BY DEF Once, Functor
  <2> DEFINE x == Functor("Established", d)
  <2>3. PendsOnce(k, x) /\ RemainsOnce(k, x) /\ ~(Pends(k, x) /\ Remains(k, x))
    BY DEF Once
  <2> HIDE DEF x
  <2>4. CASE k = l
    BY <2>1, <2>2, <2>3, <2>4 DEF PendsOnce, RemainsOnce, Pends, x
  <2>5. CASE k # l
    BY <2>1, <2>3, <2>5 DEF PendsOnce, RemainsOnce, Pends, Remains, x
  <2> QED
    BY <2>4, <2>5
<1>2. CASE EndBatch(l)
  <2>1. \A k \in Loops : /\ batch'[k] = IF k = l THEN <<>> ELSE batch[k]
                         /\ at'[k] = IF k = l THEN 1 ELSE at[k]
    BY <1>2 DEF EndBatch, Typed
  <2>2. <<>> \in Seq(Functors) /\ Len(<<>>) = 0 /\ pending' = pending
    BY <1>2, EmptySeq DEF EndBatch
  <2> SUFFICES ASSUME NEW k \in Loops, NEW d \in Conns
               PROVE  LET x == Functor("Established", d) IN
                      /\ PendsOnce(k, x)' /\ RemainsOnce(k, x)'
                      /\ ~(Pends(k, x)' /\ Remains(k, x)')
    BY DEF Once, Functor
  <2> DEFINE x == Functor("Established", d)
  <2>3. PendsOnce(k, x) /\ RemainsOnce(k, x) /\ ~(Pends(k, x) /\ Remains(k, x))
    BY DEF Once
  <2> HIDE DEF x
  <2>4. CASE k = l
    BY <2>1, <2>2, <2>3, <2>4 DEF PendsOnce, RemainsOnce, Pends, Remains, x
  <2>5. CASE k # l
    BY <2>1, <2>2, <2>3, <2>5 DEF PendsOnce, RemainsOnce, Pends, Remains, x
  <2> QED
    BY <2>4, <2>5
<1> QED
  BY <1>1, <1>2

LEMMA EstablishedGone ==
    ASSUME Sound, Once, NEW l \in Loops, NEW c \in Conns, Runs(l, "Established", c),
           pending' = pending
    PROVE  \A k \in Loops : ~Waits(k, Functor("Established", c))'
<1> DEFINE x == Functor("Established", c)
<1>1. x \in Functors /\ "Established" \in Ops /\ Remains(l, x)
  BY FunctorType, OpTypes, RunRemains DEF Sound
<1>2. PendsOnce(l, x) /\ RemainsOnce(l, x) /\ ~(Pends(l, x) /\ Remains(l, x))
  BY DEF Once
<1>3. \A k \in Loops : Waits(k, x) => k = l
  <2>1. \A k \in Loops : Waits(k, x) => conn[c].loop = k
    BY WaitsPlaced, OpTypes
  <2>2. conn[c].loop = l
    BY <1>1, RunsPlaced
  <2> QED
    BY <2>1, <2>2
<1>4. x = Functor("Established", c)
  OBVIOUS
<1> HIDE DEF x
<1>5. \A k \in Loops : Waits(k, x)' => Waits(k, x)
  BY <1>1, <1>4, QueuesRun DEF Sound
<1>6. ~Remains(l, x)'
  BY <1>1, <1>2, <1>4, RemainsOnceRun DEF Sound
<1>7. ~Pends(l, x)'
  BY <1>1, <1>2 DEF Pends
<1> QED
  BY <1>3, <1>5, <1>6, <1>7 DEF Waits, x

LEMMA NextOnce ==
    ASSUME Sound, Once, [Next]_vars
    PROVE  Once'
<1>0. Typed /\ Phases
  BY DEF Sound
<1>1. ASSUME NEW c \in Conns, NEW f \in Fds, HandleNewConnection(c, f) PROVE Once'
  <2>1. Bears(c, f)
    BY <1>1, NewConnection
  <2>2. CASE setup.subLoops = <<>>
    BY <2>1, <2>2, OnceSame DEF Bears
  <2>3. CASE setup.subLoops # <<>>
    <3> DEFINE x == Functor("Established", c)
    <3>1. x \in Functors /\ \A k \in Loops : ~Waits(k, x)
      BY <2>1, FunctorType, OpTypes, WaitsPlaced DEF Bears
    <3>2. pending' = Post(NextLoop, x) /\ NextLoop \in Loops /\ UNCHANGED <<batch, at>>
      BY <2>1, <2>3 DEF Bears
    <3> HIDE DEF x
    <3> QED
      BY <1>0, <3>1, <3>2, OncePost
  <2> QED
    BY <2>2, <2>3
<1>2. ASSUME NEW l \in Loops, NEW f \in Fds, NEW c \in Conns, HangUp(l, f, c) PROVE Once'
  <2>1. UNCHANGED <<batch, at>>
    BY <1>2 DEF HangUp, HandleClose
  <2>2. CASE pending' = pending
    BY <2>1, <2>2, OnceSame
  <2>3. CASE pending' = Post(Main, Functor("Remove", c))
    <3>1. Functor("Remove", c) \in Functors /\ Functor("Remove", c).op # "Established"
      BY FunctorType, OpTypes
    <3>2. Main \in Loops
      BY <1>0, SetupFacts DEF Typed
    <3> QED
      BY <1>0, <2>1, <2>3, <3>1, <3>2, OncePost
  <2> QED
    BY <1>2, <2>2, <2>3 DEF HangUp, HandleClose
<1>3. ASSUME NEW l \in Loops, StartBatch(l) \/ EndBatch(l) PROVE Once'
  BY <1>0, <1>3, OnceBatch
<1>4. ASSUME NEW l \in Loops, RunFunctor(l) PROVE Once'
  <2>1. PICK c \in Conns : \/ RunEstablished(l, c) \/ (l = Main /\ RunRemove(c))
                           \/ RunDestroyed(l, c) \/ RunSend(l, c) \/ RunShutdown(l, c)
                           \/ RunForceClose(l, c)
    BY <1>4 DEF RunFunctor
  <2>2. CASE \/ RunEstablished(l, c) \/ RunDestroyed(l, c) \/ RunSend(l, c)
             \/ RunShutdown(l, c)
    <3>1. (\E op \in Ops : Runs(l, op, c)) /\ pending' = pending
      BY <2>2, OpTypes DEF RunEstablished, RunDestroyed, RunSend, RunShutdown
    <3> QED
      BY <1>0, <3>1, OnceRun
  <2>3. CASE l = Main /\ RunRemove(c)
    <3>1. Functor("Destroyed", c) \in Functors /\ Functor("Destroyed", c).op # "Established"
      BY FunctorType, OpTypes
    <3>2. /\ Runs(l, "Remove", c) /\ "Remove" \in Ops
          /\ pending' = Post(conn[c].loop, Functor("Destroyed", c))
      BY <2>3, OpTypes DEF RunRemove
    <3>3. conn[c].loop \in Loops
      BY <3>2, RunsPlaced
    <3> QED
      BY <1>0, <3>1, <3>2, <3>3, OnceRun
  <2>4. CASE RunForceClose(l, c)
    <3>1. Functor("Remove", c) \in Functors /\ Functor("Remove", c).op # "Established"
      BY FunctorType, OpTypes
    <3>2. /\ Runs(l, "ForceClose", c) /\ "ForceClose" \in Ops
          /\ pending' = pending \/ pending' = Post(Main, Functor("Remove", c))
      BY <2>4, OpTypes DEF RunForceClose, ForceCloseInLoop
    <3>3. Main \in Loops
      BY <1>0, SetupFacts DEF Typed
    <3> QED
      BY <1>0, <3>1, <3>2, <3>3, OnceRun
  <2> QED
    BY <2>1, <2>2, <2>3, <2>4
<1>5. ASSUME NEW c \in Conns, NEW op \in {"Send", "Shutdown", "ForceClose"}, EndCall(op, c)
      PROVE  Once'
  <2>1. Functor(op, c) \in Functors /\ Functor(op, c).op # "Established"
    BY FunctorType DEF Ops
  <2>2. pending' = Post(conn[c].loop, Functor(op, c)) /\ UNCHANGED <<batch, at>>
    BY <1>5 DEF EndCall
  <2>3. conn[c].loop \in Loops
    BY <1>5, EndCallEffect
  <2> QED
    BY <1>0, <2>1, <2>2, <2>3, OncePost
<1>6. ASSUME UNCHANGED <<pending, batch, at>> PROVE Once'
  BY <1>6, OnceSame
<1>7. ASSUME NEW f \in Fds, KernelMoves(f) PROVE Once'
  BY <1>6, <1>7 DEF KernelMoves, Peer
<1>8. ASSUME NEW l \in Loops, NEW f \in Fds, NEW c \in Conns,
             ReadAndSend(l, f, c) \/ ReadAndShutdown(l, f, c) \/ HandleWrite(l, f, c)
      PROVE  Once'
  BY <1>6, <1>8 DEF ReadAndSend, ReadAndShutdown, HandleWrite
<1>9. ASSUME NEW l \in Loops, FinishClose(l) PROVE Once'
  BY <1>6, <1>9 DEF FinishClose
<1>10. ASSUME NEW c \in Conns, BeginSend(c) \/ BeginShutdown(c) PROVE Once'
  BY <1>6, <1>10 DEF BeginSend, BeginShutdown, Begin
<1>11. CASE BeginDestruction \/ QuitLoops \/ ClearConnections \/ DestroySubLoops
  BY <1>6, <1>11 DEF BeginDestruction, QuitLoops, ClearConnections, DestroySubLoops
<1>12. CASE UNCHANGED vars
  BY <1>6, <1>12 DEF vars
<1>13. ASSUME NEW c \in Conns, VisitConnection(c) PROVE Once'
  BY <1>0, <1>6, <1>13 DEF VisitConnection
<1> QED
  BY PeerMoves, <1>13, <1>1, <1>2, <1>3, <1>4, <1>5, <1>7, <1>8, <1>9, <1>10, <1>11, <1>12 DEF Next

LEMMA InitOnce == Init => Once
<1> SUFFICES ASSUME Init PROVE Once
  OBVIOUS
<1>1. Len(<<>>) = 0
  OBVIOUS
<1> QED
  BY <1>1 DEF Init, Once, PendsOnce, RemainsOnce, Pends, Remains

-----------------------------------------------------------------------------
(***************************************************************************)
(* The states of the connections.                                          *)
(***************************************************************************)
LEMMA StatesFitFrom ==
    ASSUME Sound, StatesFit, setup' = setup, server' = server,
           NEW c \in Conns, \A d \in Conns : d # c => conn'[d] = conn[d],
           conn[c].state # "Connecting", conn'[c].state # "Connecting",
           conn'[c].state = "Connected" => conn'[c].open /\ "read" \in conn'[c].events,
           server = "up" /\ NoForeignShutdown /\ conn[c].state = "Disconnected"
             => conn'[c].state = "Disconnected",
           \A l \in Loops : \A x \in Functors : Waits(l, x)' => Waits(l, x) \/ Fits(x)',
           foreign' \subseteq foreign,
           \A l \in Loops : \A d \in Conns : closing'[l] = d =>
             closing[l] = d \/ (d = c /\ conn'[c].state = "Disconnected"),
           \A l \in Loops : closing[l] = c =>
             conn'[c].state \in {"Disconnecting", "Disconnected"},
           \A l \in Loops : \A f \in Fds : \A d \in Conns :
             poller'[l][f] = d => poller[l][f] = d \/ d = c
    PROVE  StatesFit'
<1>0. NoForeignShutdown' <=> NoForeignShutdown
  BY DEF NoForeignShutdown
<1>1. \A d \in Conns :
        /\ conn'[d].state = "Connecting" => conn'[d].open /\ conn'[d].events = {}
        /\ conn'[d].state = "Connected" => conn'[d].open /\ "read" \in conn'[d].events
  BY DEF StatesFit
<1>2. ASSUME NEW l \in Loops, NEW x \in Functors, Waits(l, x)'
      PROVE  Fits(x)'
  <2>1. CASE Waits(l, x)
    <3>1. Fits(x) /\ x.conn \in Conns
      BY <2>1 DEF StatesFit, Functors
    <3>2. CASE x.conn = c
      BY <1>0, <3>1, <3>2 DEF Fits
    <3>3. CASE x.conn # c
      BY <1>0, <3>1, <3>3 DEF Fits
    <3> QED
      BY <3>2, <3>3
  <2> QED
    BY <1>2, <2>1
<1>3. ASSUME NEW x \in foreign'
      PROVE  CallFits(x)'
  <2>1. CallFits(x) /\ x.conn \in Conns
    BY DEF StatesFit, Sound, Typed, ForeignCalls
  <2> QED
    BY <1>0, <2>1 DEF CallFits
<1>4. \A l \in Loops : \A d \in Conns : closing'[l] = d =>
        /\ conn'[d].state \in {"Disconnecting", "Disconnected"}
        /\ server' = "up" /\ NoForeignShutdown' => conn'[d].state = "Disconnected"
  BY <1>0 DEF StatesFit
<1>5. \A l \in Loops : \A f \in Fds : \A d \in Conns :
        poller'[l][f] = d => conn'[d].state # "Connecting"
  BY DEF StatesFit
<1> QED
  BY <1>1, <1>2, <1>3, <1>4, <1>5 DEF StatesFit

\* Nothing of the connections, the poller and the handlers changes.
LEMMA StatesFitSame ==
    ASSUME Sound, StatesFit, UNCHANGED <<conn, poller, closing, setup>>,
           server' = "up" => server = "up",
           server' \in {"closing", "quitting", "cleared"} =>
             "destroy" \in setup.calls /\ setup.subLoops # <<>>,
           \A l \in Loops : \A x \in Functors : Waits(l, x)' => Waits(l, x) \/ Fits(x)',
           \A x \in foreign' :
             \/ x \in foreign /\ (x.op \in {"Visit", "ForceClose"} => server' = server)
             \/ CallFits(x)'
    PROVE  StatesFit'
<1>0. NoForeignShutdown' <=> NoForeignShutdown
  BY DEF NoForeignShutdown
<1>2. ASSUME NEW l \in Loops, NEW x \in Functors, Waits(l, x)'
      PROVE  Fits(x)'
  <2>1. CASE Waits(l, x)
    <3>1. Fits(x)
      BY <2>1 DEF StatesFit
    <3> QED
      BY <1>0, <3>1 DEF Fits
  <2> QED
    BY <1>2, <2>1
<1>3. ASSUME NEW x \in foreign'
      PROVE  CallFits(x)'
  <2>1. CASE x \in foreign /\ (x.op \in {"Visit", "ForceClose"} => server' = server)
    <3>1. CallFits(x)
      BY <2>1 DEF StatesFit
    <3> QED
      BY <1>0, <2>1, <3>1 DEF CallFits
  <2> QED
    BY <2>1
<1> QED
  BY <1>0, <1>2, <1>3 DEF StatesFit

LEMMA WaitingFits ==
    ASSUME Sound, StatesFit, NEW l \in Loops, NEW op \in Ops, NEW c \in Conns, Runs(l, op, c)
    PROVE  /\ Fits(Functor(op, c))
           /\ op = "Established" <=> conn[c].state = "Connecting"
           /\ op \in {"Established", "Remove", "Destroyed", "ForceClose"}
                => setup.subLoops # <<>>
           /\ \A k \in Loops : closing[k] # c \/ k # l
<1>1. Waits(l, Functor(op, c)) /\ Functor(op, c) \in Functors
  BY RunRemains DEF Sound, Waits
<1>2. Fits(Functor(op, c))
  BY <1>1 DEF StatesFit
<1>3. closing[l] = None /\ c # None
  BY FieldsFit DEF Runs, Sound, Phases
<1> QED
  BY <1>2, <1>3 DEF Fits, Functor

LEMMA StatesFitHangUp ==
    ASSUME Sound, StatesFit, NEW l \in Loops, NEW f \in Fds, NEW c \in Conns, HangUp(l, f, c)
    PROVE  StatesFit'
<1>1. /\ Born(c) /\ conn[c].loop = l /\ HandleClose(l, c) /\ poller[l][f] = c
      /\ closing[l] = None /\ c # None
  BY FieldsFit DEF HangUp, Ready
<1>2. conn[c].state # "Connecting"
  BY <1>1 DEF StatesFit
<1>3. CASE conn[c].state = "Disconnected"
  <2>1. /\ UNCHANGED <<conn, poller, closing, setup, server, pending, batch, at, foreign>>
    BY <1>1, <1>3 DEF HandleClose
  <2>2. \A k \in Loops : \A x \in Functors : Waits(k, x)' => Waits(k, x)
    BY <2>1, QueuesSame DEF Sound
  <2>3. server \in {"closing", "quitting", "cleared"} =>
             "destroy" \in setup.calls /\ setup.subLoops # <<>>
    BY DEF StatesFit
  <2> QED
    BY <2>1, <2>2, <2>3, StatesFitSame
<1>4. CASE conn[c].state # "Disconnected"
  <2>1. /\ Becomes(c, "Disconnected", conn[c].open, {}) /\ PollerForgets(c)
        /\ \A k \in Loops : closing'[k] = IF k = l THEN c ELSE closing[k]
    <3>1. /\ Becomes(c, "Disconnected", conn[c].open, {}) /\ PollerForgets(c)
          /\ Closes(l, c)
      BY <1>1, <1>4, HandleCloseEffect
    <3> QED
      BY <3>1 DEF Closes
  <2>2. setup' = setup /\ server' = server /\ foreign' = foreign /\ UNCHANGED <<batch, at>>
    BY <1>1, EraseKept DEF HandleClose, EraseNow
  <2>3. conn'[c].state = "Disconnected" /\ \A d \in Conns : d # c => conn'[d] = conn[d]
    BY <2>1 DEF Becomes
  <2>4. \A k \in Loops : \A x \in Functors : Waits(k, x)' => Waits(k, x) \/ Fits(x)'
    <3>1. CASE l = Main
      <4>1. pending' = pending
        BY <1>1, <1>4, <3>1 DEF HandleClose
      <4> QED
        BY <2>2, <4>1, QueuesSame DEF Sound
    <3>2. CASE l # Main
      <4> DEFINE x == Functor("Remove", c)
      <4>1. x \in Functors /\ x.op = "Remove" /\ x.conn = c /\ Main \in Loops
        BY FunctorType, OpTypes, SetupFacts DEF Sound, Typed
      <4>2. pending' = Post(Main, x)
        BY <1>1, <1>4, <3>2 DEF HandleClose
      <4>3. setup.subLoops # <<>>
        BY <1>1, <3>2 DEF Sound, Lead, MyLoops
      <4> HIDE DEF x
      <4>4. Placed(Main, x)
        BY <1>1, <4>1 DEF Placed
      <4>5. Fits(x)'
        BY <2>2, <2>3, <4>1, <4>3 DEF Fits
      <4> QED
        BY <2>2, <4>1, <4>2, <4>4, <4>5, QueuesPost DEF Sound
    <3> QED
      BY <3>1, <3>2
  <2>5. \A k \in Loops : \A g \in Fds : \A d \in Conns : poller'[k][g] = d => poller[k][g] = d
    BY <2>1, FieldsFit DEF PollerForgets
  <2>6. \A k \in Loops : \A d \in Conns : closing'[k] = d => closing[k] = d \/ d = c
    BY <2>1
  <2> QED
    BY <1>2, <2>2, <2>3, <2>4, <2>5, <2>6, StatesFitFrom
<1> QED
  BY <1>3, <1>4

LEMMA StatesFitFinishClose ==
    ASSUME Sound, StatesFit, NEW l \in Loops, FinishClose(l)
    PROVE  StatesFit'
<1>1. PICK c \in Conns : closing[l] = c
  BY DEF FinishClose, Sound, Typed, TypeOK
<1>2. /\ Becomes(c, conn[c].state, FALSE, conn[c].events)
      /\ \A k \in Loops : closing'[k] = IF k = l THEN None ELSE closing[k]
  BY <1>1, FinishCloseEffect
<1>3. UNCHANGED <<setup, server, foreign, poller, pending, batch, at>>
  BY DEF FinishClose
<1>4. \A k \in Loops : \A x \in Functors : Waits(k, x)' => Waits(k, x)
  BY <1>3, QueuesSame DEF Sound
<1>5. conn[c].state \in {"Disconnecting", "Disconnected"}
  BY <1>1 DEF StatesFit
<1>6. conn'[c].state = conn[c].state /\ \A d \in Conns : d # c => conn'[d] = conn[d]
  BY <1>2 DEF Becomes
<1>7. \A k \in Loops : \A d \in Conns : closing'[k] = d => closing[k] = d
  BY <1>2, FieldsFit
<1> QED
  BY <1>3, <1>4, <1>5, <1>6, <1>7, StatesFitFrom

LEMMA StatesFitBuffered ==
    ASSUME Sound, StatesFit, NEW c \in Conns, Buffered(c),
           UNCHANGED <<setup, server, foreign, closing>>,
           \A k \in Loops : \A x \in Functors : Waits(k, x)' => Waits(k, x)
    PROVE  StatesFit'
<1>1. CASE UNCHANGED <<conn, poller, epoll>>
  <2>1. server \in {"closing", "quitting", "cleared"} =>
             "destroy" \in setup.calls /\ setup.subLoops # <<>>
    BY DEF StatesFit
  <2> QED
    BY <1>1, <2>1, StatesFitSame
<1>2. CASE /\ conn[c].state = "Connected" /\ Born(c)
           /\ Becomes(c, "Connected", conn[c].open, conn[c].events \cup {"write"})
           /\ UNCHANGED <<poller, epoll>> \/ Watches(c)
  <2>1. conn[c].open /\ "read" \in conn[c].events
    BY <1>2 DEF StatesFit
  <2>2. /\ conn'[c].state = "Connected" /\ conn'[c].open /\ "read" \in conn'[c].events
        /\ \A d \in Conns : d # c => conn'[d] = conn[d]
    BY <1>2, <2>1 DEF Becomes
  <2>3. \A l \in Loops : \A f \in Fds : \A d \in Conns :
          poller'[l][f] = d => poller[l][f] = d \/ d = c
    BY <1>2 DEF Watches
  <2>4. \A l \in Loops : closing[l] # c
    BY <1>2 DEF StatesFit
  <2> QED
    BY <1>2, <2>2, <2>3, <2>4, StatesFitFrom
<1> QED
  BY <1>1, <1>2, BufferedEffect

LEMMA StatesFitShutdown ==
    ASSUME Sound, StatesFit, NEW c \in Conns, Born(c), conn[c].state # "Connecting",
           NEW s, ShutdownInLoop(c, s),
           s = conn[c].state \/ (s = "Disconnecting" /\ conn[c].state = "Connected"),
           UNCHANGED <<setup, server, foreign, closing>>,
           \A k \in Loops : \A x \in Functors : Waits(k, x)' => Waits(k, x)
    PROVE  StatesFit'
<1>1. \A l \in Loops : closing[l] = c => conn[c].state \in {"Disconnecting", "Disconnected"}
  BY DEF StatesFit
<1>2. CASE /\ Becomes(c, s, conn[c].open, conn[c].events \cup {"write"})
           /\ UNCHANGED <<poller, epoll>> \/ Watches(c)
  <2>1. conn[c].state = "Connected" => conn[c].open /\ "read" \in conn[c].events
    BY DEF StatesFit
  <2>2. /\ conn'[c].state = s
        /\ conn'[c].state = "Connected" => conn'[c].open /\ "read" \in conn'[c].events
        /\ \A d \in Conns : d # c => conn'[d] = conn[d]
    BY <1>2, <2>1 DEF Becomes
  <2>3. \A l \in Loops : \A f \in Fds : \A d \in Conns :
          poller'[l][f] = d => poller[l][f] = d \/ d = c
    BY <1>2 DEF Watches
  <2>4. /\ conn'[c].state # "Connecting"
        /\ conn[c].state = "Disconnected" => conn'[c].state = "Disconnected"
        /\ \A l \in Loops : closing[l] = c => conn'[c].state \in {"Disconnecting", "Disconnected"}
    BY <1>1, <2>2
  <2> QED
    BY <2>2, <2>3, <2>4, StatesFitFrom
<1>3. CASE Becomes(c, "Disconnected", FALSE, conn[c].events) /\ poller' = poller
  <2>1. conn'[c].state = "Disconnected" /\ \A d \in Conns : d # c => conn'[d] = conn[d]
    BY <1>3 DEF Becomes
  <2> QED
    BY <1>3, <2>1, StatesFitFrom
<1> QED
  BY <1>2, <1>3, ShutdownEffect

LEMMA StatesFitHandleWrite ==
    ASSUME Sound, StatesFit, NEW l \in Loops, NEW f \in Fds, NEW c \in Conns, HandleWrite(l, f, c)
    PROVE  StatesFit'
<1>1. conn[c].state = "Connected" /\ conn[c].open /\ "read" \in conn[c].events
  BY DEF HandleWrite, StatesFit
<1>2. /\ Becomes(c, "Connected", conn[c].open, conn[c].events \ {"write"})
      /\ poller' = poller
  BY <1>1, HandleWriteEffect
<1>3. /\ conn'[c].state = "Connected" /\ conn'[c].open /\ "read" \in conn'[c].events
      /\ \A d \in Conns : d # c => conn'[d] = conn[d]
  BY <1>1, <1>2 DEF Becomes
<1>4. UNCHANGED <<setup, server, foreign, closing, pending, batch, at>>
  BY DEF HandleWrite
<1>5. \A k \in Loops : \A x \in Functors : Waits(k, x)' => Waits(k, x)
  BY <1>4, QueuesSame DEF Sound
<1>6. \A k \in Loops : closing[k] # c
  BY <1>1 DEF StatesFit
<1> QED
  BY <1>1, <1>2, <1>3, <1>4, <1>5, <1>6, StatesFitFrom

LEMMA DestructionFacts ==
    ASSUME StatesFit
    PROVE  server \in {"closing", "quitting", "cleared"} =>
             "destroy" \in setup.calls /\ setup.subLoops # <<>>
BY DEF StatesFit

LEMMA StatesFitBears ==
    ASSUME Sound, StatesFit, NEW c \in Conns, NEW f \in Fds, HandleNewConnection(c, f)
    PROVE  StatesFit'
<1>1. Bears(c, f) /\ ~Born(c) /\ server = "up" /\ setup' = setup
  BY NewConnection DEF Bears
<1>0. NoForeignShutdown' <=> NoForeignShutdown
  BY <1>1 DEF NoForeignShutdown
<1>2. \A d \in Conns : d # c => conn'[d] = conn[d]
  BY <1>1 DEF Bears
<1>3. /\ conn'[c].open
      /\ setup.subLoops # <<>> => conn'[c].state = "Connecting" /\ conn'[c].events = {}
      /\ setup.subLoops = <<>> => conn'[c].state = "Connected" /\ conn'[c].events = {"read"}
  BY <1>1 DEF Bears
<1>4. \A d \in Conns :
        /\ conn'[d].state = "Connecting" => conn'[d].open /\ conn'[d].events = {}
        /\ conn'[d].state = "Connected" => conn'[d].open /\ "read" \in conn'[d].events
  BY <1>2, <1>3 DEF StatesFit
<1>5. \A l \in Loops : \A x \in Functors : Waits(l, x)' =>
        Waits(l, x) \/ (setup.subLoops # <<>> /\ x = Functor("Established", c))
  <2>1. CASE setup.subLoops = <<>>
    <3>1. UNCHANGED <<pending, batch, at>>
      BY <1>1, <2>1 DEF Bears
    <3> QED
      BY <3>1, QueuesSame DEF Sound
  <2>2. CASE setup.subLoops # <<>>
    <3> DEFINE y == Functor("Established", c)
    <3>1. /\ pending' = Post(NextLoop, y) /\ y \in Functors /\ NextLoop \in Loops
          /\ UNCHANGED <<batch, at>>
      BY <1>1, <2>2, FunctorType, OpTypes DEF Bears
    <3> HIDE DEF y
    <3>2. \A l \in Loops : \A x \in Functors : Pends(l, x)' => Pends(l, x) \/ x = y
      BY <3>1, PostPends DEF Sound
    <3>3. \A l \in Loops : \A x \in Functors : Remains(l, x)' <=> Remains(l, x)
      BY <3>1 DEF Remains
    <3> QED
      BY <2>2, <3>2, <3>3 DEF Waits, y
  <2> QED
    BY <2>1, <2>2
<1>6. ASSUME NEW l \in Loops, NEW x \in Functors, Waits(l, x)'
      PROVE  Fits(x)'
  <2>1. CASE Waits(l, x)
    <3>1. Fits(x) /\ x.conn # c /\ x.conn \in Conns
      BY <1>1, <2>1 DEF StatesFit, Sound, Lead, Functors
    <3> QED
      BY <1>0, <1>1, <1>2, <3>1 DEF Fits
  <2>2. CASE setup.subLoops # <<>> /\ x = Functor("Established", c)
    BY <1>1, <1>3, <2>2, FunctorType DEF Fits, Functor
  <2> QED
    BY <1>5, <1>6, <2>1, <2>2
<1>7. ASSUME NEW x \in foreign'
      PROVE  CallFits(x)'
  <2>1. x \in foreign
    BY <1>1 DEF Bears
  <2>2. CallFits(x) /\ x.conn # c /\ x.conn \in Conns
    BY <1>1, <2>1 DEF StatesFit, Sound, Lead, Typed, ForeignCalls
  <2> QED
    BY <1>0, <1>1, <1>2, <2>2 DEF CallFits
<1>8. \A l \in Loops : \A d \in Conns : closing'[l] = d =>
        /\ d # c /\ conn'[d].state \in {"Disconnecting", "Disconnected"}
        /\ server' = "up" /\ NoForeignShutdown' => conn'[d].state = "Disconnected"
  <2>1. closing' = closing
    BY <1>1 DEF Bears
  <2> QED
    BY <1>0, <1>1, <1>2, <2>1 DEF StatesFit, Sound, Lead
<1>9. \A l \in Loops : \A g \in Fds : \A d \in Conns :
        poller'[l][g] = d => conn'[d].state # "Connecting"
  <2>1. \A l \in Loops : \A g \in Fds : \A d \in Conns :
          poller'[l][g] = d => poller[l][g] = d \/ (d = c /\ setup.subLoops = <<>>)
    <3>1. CASE setup.subLoops = <<>>
      BY <3>1, NewConnectionPoller
    <3>2. CASE setup.subLoops # <<>>
      BY <1>1, <3>2 DEF Bears
    <3> QED
      BY <3>1, <3>2
  <2>2. \A l \in Loops : \A g \in Fds : poller[l][g] # c
    BY <1>1 DEF Sound, Lead
  <2> QED
    BY <1>2, <1>3, <2>1, <2>2 DEF StatesFit
<1>10. server' \in {"up", "aborted"}
  BY <1>1 DEF Bears
<1> QED
  BY <1>4, <1>6, <1>7, <1>8, <1>9, <1>10 DEF StatesFit

LEMMA StatesFitEstablished ==
    ASSUME Sound, StatesFit, Once, NEW l \in Loops, NEW c \in Conns, RunEstablished(l, c)
    PROVE  StatesFit'
<1>1. /\ Runs(l, "Established", c) /\ "Established" \in Ops
      /\ UNCHANGED <<pending, setup, server, foreign, closing>>
  BY OpTypes DEF RunEstablished, Runs
<1>0. NoForeignShutdown' <=> NoForeignShutdown
  BY <1>1 DEF NoForeignShutdown
<1>2. conn[c].state = "Connecting" /\ conn[c].loop = l
  BY <1>1, WaitingFits, RunsPlaced
<1>3. conn[c].open
  BY <1>2 DEF StatesFit
<1>4. /\ conn'[c].state = "Connected" /\ conn'[c].open /\ "read" \in conn'[c].events
      /\ \A d \in Conns : d # c => conn'[d] = conn[d]
  BY <1>3, RunEstablishedEffect DEF Becomes
<1>5. \A d \in Conns :
        /\ conn'[d].state = "Connecting" => conn'[d].open /\ conn'[d].events = {}
        /\ conn'[d].state = "Connected" => conn'[d].open /\ "read" \in conn'[d].events
  BY <1>4 DEF StatesFit
<1>6. ASSUME NEW k \in Loops, NEW x \in Functors, Waits(k, x)'
      PROVE  Fits(x)'
  <2>1. Waits(k, x)
    BY <1>1, <1>6, QueuesRun DEF Sound
  <2>2. Fits(x) /\ x.conn \in Conns
    BY <2>1 DEF StatesFit, Functors
  <2>3. x.conn # c
    <3> SUFFICES ASSUME x.conn = c PROVE FALSE
      OBVIOUS
    <3>1. x.op = "Established"
      BY <1>2, <2>2 DEF Fits
    <3>2. x = Functor("Established", c)
      BY <3>1 DEF Functors, Functor
    <3> QED
      BY <1>1, <1>6, <3>2, EstablishedGone
  <2> QED
    BY <1>0, <1>1, <1>4, <2>2, <2>3 DEF Fits
<1>7. ASSUME NEW x \in foreign'
      PROVE  CallFits(x)'
  <2>1. CallFits(x) /\ x.conn \in Conns
    BY <1>1 DEF StatesFit, Sound, Typed, ForeignCalls
  <2>2. conn'[x.conn].state = "Connecting" => conn[x.conn].state = "Connecting"
    BY <1>4, <2>1
  <2> QED
    BY <1>0, <1>1, <2>1, <2>2 DEF CallFits
<1>8. \A k \in Loops : \A d \in Conns : closing'[k] = d =>
        /\ conn'[d].state \in {"Disconnecting", "Disconnected"}
        /\ server' = "up" /\ NoForeignShutdown' => conn'[d].state = "Disconnected"
  BY <1>0, <1>1, <1>2, <1>4 DEF StatesFit
<1>9. \A k \in Loops : \A g \in Fds : \A d \in Conns :
        poller'[k][g] = d => conn'[d].state # "Connecting"
  <2>1. \A k \in Loops : \A g \in Fds : \A d \in Conns :
          poller'[k][g] = d => poller[k][g] = d \/ d = c
    <3>1. UNCHANGED <<poller, epoll>> \/ Watches(c)
      BY RunEstablishedEffect
    <3> QED
      BY <3>1 DEF Watches
  <2> QED
    BY <1>4, <2>1 DEF StatesFit
<1> QED
  BY <1>1, <1>5, <1>6, <1>7, <1>8, <1>9 DEF StatesFit

LEMMA StatesFitRemove ==
    ASSUME Sound, StatesFit, NEW c \in Conns, RunRemove(c)
    PROVE  StatesFit'
<1>1. /\ Runs(Main, "Remove", c) /\ "Remove" \in Ops /\ Main \in Loops
      /\ UNCHANGED <<conn, poller, server, foreign, closing>>
  BY OpTypes, SetupFacts DEF RunRemove, Runs, Sound, Typed
<1>2. Born(c) /\ conn[c].loop \in Loops /\ conn[c].open \in BOOLEAN
  BY <1>1, RunsPlaced DEF Sound, Typed, TypeOK
<1>3. setup' = setup
  BY <1>2, EraseKept DEF RunRemove
<1>4. Fits(Functor("Remove", c))
  BY <1>1, WaitingFits
<1> DEFINE y == Functor("Destroyed", c)
<1>5. /\ y \in Functors /\ y.op = "Destroyed" /\ y.conn = c
      /\ pending' = Post(conn[c].loop, y)
  BY FunctorType, OpTypes DEF RunRemove
<1> HIDE DEF y
<1>6. Placed(conn[c].loop, y)
  BY <1>2, <1>5 DEF Placed
<1>7. Fits(y)'
  BY <1>1, <1>3, <1>4, <1>5, FunctorType DEF Fits, Functor, NoForeignShutdown
<1>8. \A l \in Loops : \A x \in Functors : Waits(l, x)' => Waits(l, x) \/ Fits(x)'
  BY <1>1, <1>2, <1>5, <1>6, <1>7, QueuesRunPost DEF Sound
<1> QED
  BY <1>1, <1>3, <1>8, StatesFitSame, DestructionFacts

\* ConnectDestroyed and ForceCloseInLoop.
LEMMA StatesFitDisabled ==
    ASSUME Sound, StatesFit, NEW c \in Conns, conn[c].state # "Connecting",
           Becomes(c, "Disconnected", FALSE, {}), PollerForgets(c),
           UNCHANGED <<setup, server, foreign, closing>>,
           \A l \in Loops : \A x \in Functors : Waits(l, x)' => Waits(l, x) \/ Fits(x)'
    PROVE  StatesFit'
<1>1. conn'[c].state = "Disconnected" /\ \A d \in Conns : d # c => conn'[d] = conn[d]
  BY DEF Becomes
<1>2. \A l \in Loops : \A f \in Fds : \A d \in Conns : poller'[l][f] = d => poller[l][f] = d
  BY FieldsFit DEF PollerForgets
<1> QED
  BY <1>1, <1>2, StatesFitFrom

LEMMA StatesFitDestroyed ==
    ASSUME Sound, StatesFit, NEW l \in Loops, NEW c \in Conns, RunDestroyed(l, c)
    PROVE  StatesFit'
<1>1. /\ Runs(l, "Destroyed", c) /\ "Destroyed" \in Ops
      /\ UNCHANGED <<pending, setup, server, foreign, closing>>
  BY OpTypes DEF RunDestroyed, Runs
<1>2. Born(c) /\ conn[c].loop = l
  BY <1>1, RunsPlaced
<1>3. \A k \in Loops : \A x \in Functors : Waits(k, x)' => Waits(k, x)
  BY <1>1, QueuesRun DEF Sound
<1>4. CASE conn[c].state \in {"Connected", "Disconnecting"}
  <2>1. Becomes(c, "Disconnected", FALSE, {}) /\ PollerForgets(c)
    BY <1>2, <1>4, DisabledEffect DEF RunDestroyed
  <2> QED
    BY <1>1, <1>3, <1>4, <2>1, StatesFitDisabled
<1>5. CASE conn[c].state \notin {"Connected", "Disconnecting"}
  BY <1>1, <1>3, <1>5, StatesFitSame, DestructionFacts DEF RunDestroyed
<1> QED
  BY <1>4, <1>5

LEMMA StatesFitForceClose ==
    ASSUME Sound, StatesFit, NEW l \in Loops, NEW c \in Conns, RunForceClose(l, c)
    PROVE  StatesFit'
<1>1. /\ Runs(l, "ForceClose", c) /\ "ForceClose" \in Ops /\ ForceCloseInLoop(l, c)
      /\ UNCHANGED <<server, foreign, closing>>
  BY OpTypes DEF RunForceClose, Runs
<1>2. Born(c) /\ conn[c].loop = l /\ setup.subLoops # <<>>
  BY <1>1, RunsPlaced, WaitingFits
<1>3. setup' = setup
  BY <1>1, <1>2, EraseKept DEF ForceCloseInLoop
<1>4. CASE conn[c].state \in {"Connected", "Disconnecting"}
  <2>1. Becomes(c, "Disconnected", FALSE, {}) /\ PollerForgets(c)
    BY <1>1, <1>2, <1>4, DisabledEffect DEF ForceCloseInLoop
  <2>2. \A k \in Loops : \A x \in Functors : Waits(k, x)' => Waits(k, x) \/ Fits(x)'
    <3>1. CASE pending' = pending
      BY <1>1, <3>1, QueuesRun DEF Sound
    <3>2. CASE pending' = Post(Main, Functor("Remove", c))
      <4> DEFINE y == Functor("Remove", c)
      <4>1. y \in Functors /\ y.op = "Remove" /\ y.conn = c /\ Main \in Loops
        BY FunctorType, OpTypes, SetupFacts DEF Sound, Typed
      <4>2. pending' = Post(Main, y)
        BY <3>2
      <4> HIDE DEF y
      <4>3. Placed(Main, y) /\ Fits(y)'
        BY <1>2, <1>3, <2>1, <4>1 DEF Placed, Fits, Becomes
      <4> QED
        BY <1>1, <4>1, <4>2, <4>3, QueuesRunPost DEF Sound
    <3> QED
      BY <1>1, <1>4, <3>1, <3>2 DEF ForceCloseInLoop
  <2> QED
    BY <1>1, <1>3, <1>4, <2>1, <2>2, StatesFitDisabled
<1>5. CASE conn[c].state \notin {"Connected", "Disconnecting"}
  <2>1. UNCHANGED <<conn, poller, pending>>
    BY <1>1, <1>5 DEF ForceCloseInLoop
  <2>2. \A k \in Loops : \A x \in Functors : Waits(k, x)' => Waits(k, x)
    BY <1>1, <2>1, QueuesRun DEF Sound
  <2> QED
    BY <1>1, <1>3, <2>1, <2>2, StatesFitSame, DestructionFacts
<1> QED
  BY <1>4, <1>5

LEMMA StatesFitRun ==
    ASSUME Sound, StatesFit, Once, NEW l \in Loops, RunFunctor(l)
    PROVE  StatesFit'
<1>1. PICK c \in Conns : \/ RunEstablished(l, c) \/ (l = Main /\ RunRemove(c))
                         \/ RunDestroyed(l, c) \/ RunSend(l, c) \/ RunShutdown(l, c)
                         \/ RunForceClose(l, c)
  BY DEF RunFunctor
<1>2. CASE RunSend(l, c)
  <2>1. Runs(l, "Send", c) /\ UNCHANGED <<pending, setup, server, foreign, closing>> /\ Buffered(c)
    BY <1>2 DEF RunSend, Runs
  <2>2. \A k \in Loops : \A x \in Functors : Waits(k, x)' => Waits(k, x)
    BY <2>1, QueuesRun, OpTypes DEF Sound
  <2> QED
    BY <2>1, <2>2, StatesFitBuffered
<1>3. CASE RunShutdown(l, c)
  <2>1. /\ Runs(l, "Shutdown", c) /\ UNCHANGED <<pending, setup, server, foreign, closing>>
        /\ ShutdownInLoop(c, conn[c].state)
    BY <1>3 DEF RunShutdown, Runs
  <2>2. \A k \in Loops : \A x \in Functors : Waits(k, x)' => Waits(k, x)
    BY <2>1, QueuesRun, OpTypes DEF Sound
  <2>3. Born(c) /\ conn[c].state # "Connecting"
    BY <2>1, RunsPlaced, WaitingFits, OpTypes
  <2> QED
    BY <2>1, <2>2, <2>3, StatesFitShutdown
<1> QED
  BY <1>1, <1>2, <1>3, StatesFitEstablished, StatesFitRemove, StatesFitDestroyed,
     StatesFitForceClose
LEMMA StatesFitEndCall ==
    ASSUME Sound, StatesFit, NEW op \in {"Send", "Shutdown", "ForceClose"}, NEW c \in Conns,
           EndCall(op, c)
    PROVE  StatesFit'
<1>1. /\ ForeignCall(op, c) \in foreign /\ Functor(op, c) \in Functors
      /\ foreign' \subseteq foreign
      /\ op = "Send" => conn' = conn
      /\ op # "Send" => Becomes(c, "Disconnecting", conn[c].open, conn[c].events)
      /\ \A k \in Loops : \A x \in Functors :
           Waits(k, x)' => Waits(k, x) \/ x = Functor(op, c)
      /\ UNCHANGED <<poller, closing, setup, server>>
  BY EndCallEffect DEF EndCall
<1>0. NoForeignShutdown' <=> NoForeignShutdown
  BY <1>1 DEF NoForeignShutdown
<1>2. CallFits(ForeignCall(op, c))
  BY <1>1 DEF StatesFit
<1>3. /\ conn[c].state # "Connecting"
      /\ op = "Send" => "foreignSend" \in setup.calls
      /\ op = "Shutdown" => ~NoForeignShutdown
      /\ op = "ForceClose" => "destroy" \in setup.calls /\ setup.subLoops # <<>>
                              /\ server = "closing"
  BY <1>2 DEF CallFits, ForeignCall
<1>4. conn'[c].state # "Connecting"
  BY <1>1, <1>3 DEF Becomes
<1>5. Fits(Functor(op, c))'
  <2> DEFINE y == Functor(op, c)
  <2>1. y.op = op /\ y.conn = c
    BY DEF Functor
  <2> HIDE DEF y
  <2>2. Fits(y)'
    BY <1>0, <1>1, <1>3, <1>4, <2>1 DEF Fits
  <2> QED
    BY <2>2 DEF y
<1>6. \A k \in Loops : \A x \in Functors : Waits(k, x)' => Waits(k, x) \/ Fits(x)'
  BY <1>1, <1>5
<1>7. CASE op = "Send"
  BY <1>1, <1>6, <1>7, StatesFitSame, DestructionFacts
<1>8. CASE op # "Send"
  <2>1. /\ conn'[c].state = "Disconnecting" /\ \A d \in Conns : d # c => conn'[d] = conn[d]
        /\ ~(server = "up" /\ NoForeignShutdown)
    BY <1>1, <1>3, <1>8 DEF Becomes
  <2> QED
    BY <1>1, <1>3, <1>6, <2>1, StatesFitFrom
<1> QED
  BY <1>7, <1>8

LEMMA StatesFitBegin ==
    ASSUME Sound, StatesFit, NEW c \in Conns, BeginSend(c) \/ BeginShutdown(c)
    PROVE  StatesFit'
<1>1. /\ UNCHANGED <<conn, poller, closing, setup, pending, batch, at, server>>
      /\ conn[c].state = "Connected"
  BY DEF BeginSend, BeginShutdown, Begin
<1>0. NoForeignShutdown' <=> NoForeignShutdown
  BY <1>1 DEF NoForeignShutdown
<1>2. \A k \in Loops : \A x \in Functors : Waits(k, x)' => Waits(k, x)
  BY <1>1, QueuesSame DEF Sound
<1>3. ASSUME NEW x \in foreign', x \notin foreign
      PROVE  CallFits(x)'
  <2>1. CASE BeginSend(c)
    <3>1. x = ForeignCall("Send", c) /\ "foreignSend" \in setup.calls
      BY <1>3, <2>1 DEF BeginSend, Begin
    <3>2. x.op = "Send" /\ x.conn = c
      BY <3>1 DEF ForeignCall
    <3> QED
      BY <1>1, <3>1, <3>2 DEF CallFits
  <2>2. CASE BeginShutdown(c)
    <3>1. x = ForeignCall("Shutdown", c) /\ ~NoForeignShutdown
      BY <1>3, <2>2 DEF BeginShutdown, Begin, NoForeignShutdown
    <3>2. x.op = "Shutdown" /\ x.conn = c
      BY <3>1 DEF ForeignCall
    <3> QED
      BY <1>0, <1>1, <3>1, <3>2 DEF CallFits
  <2> QED
    BY <2>1, <2>2
<1> QED
  BY <1>1, <1>2, <1>3, StatesFitSame, DestructionFacts

LEMMA StatesFitDestruction ==
    ASSUME Sound, StatesFit, BeginDestruction \/ QuitLoops \/ ClearConnections \/ DestroySubLoops
    PROVE  StatesFit'
<1>1. UNCHANGED <<conn, poller, closing, setup, pending, batch, at>>
  BY DEF BeginDestruction, QuitLoops, ClearConnections, DestroySubLoops
<1>2. \A k \in Loops : \A x \in Functors : Waits(k, x)' => Waits(k, x)
  BY <1>1, QueuesSame DEF Sound
<1>3. CASE BeginDestruction
  <2>1. /\ "destroy" \in setup.calls /\ setup.subLoops # <<>>
        /\ server = "up" /\ server' = "closing"
    BY <1>3 DEF BeginDestruction
  <2>2. ASSUME NEW x \in foreign'
        PROVE  \/ x \in foreign /\ (x.op \in {"Visit", "ForceClose"} => server' = server)
               \/ CallFits(x)'
    <3>1. CASE x \in foreign
      <4>1. CallFits(x)
        BY <3>1 DEF StatesFit
      <4>2. x.op \notin {"Visit", "ForceClose"}
        BY <2>1, <4>1 DEF CallFits
      <4> QED
        BY <3>1, <4>2
    <3>2. CASE x \notin foreign
      <4>1. PICK f \in Fds : x = ForeignCall("Visit", m_connections[f])
        BY <1>3, <2>2, <3>2 DEF BeginDestruction
      <4>2. x.op = "Visit" /\ x.conn = m_connections[f]
        BY <4>1 DEF ForeignCall
      <4> QED
        BY <1>1, <2>1, <4>1, <4>2 DEF CallFits
    <3> QED
      BY <3>1, <3>2
  <2> QED
    BY <1>1, <1>2, <2>1, <2>2, StatesFitSame
<1>4. CASE QuitLoops
  <2>1. /\ server = "closing" /\ server' = "quitting" /\ foreign' = foreign
        /\ \A x \in foreign : x.op \notin {"Visit", "ForceClose"}
    BY <1>4 DEF QuitLoops
  <2> QED
    BY <1>1, <1>2, <2>1, StatesFitSame, DestructionFacts
<1>5. CASE ClearConnections \/ DestroySubLoops
  <2>1. /\ server \in {"quitting", "cleared"} /\ server' \in {"cleared", "aborted"}
        /\ foreign' = foreign
    BY <1>5 DEF ClearConnections, DestroySubLoops
  <2>2. \A x \in foreign : x.op \notin {"Visit", "ForceClose"}
    BY <2>1 DEF StatesFit, CallFits
  <2> QED
    BY <1>1, <1>2, <2>1, <2>2, StatesFitSame, DestructionFacts
<1> QED
  BY <1>3, <1>4, <1>5

LEMMA StatesFitVisit ==
    ASSUME Sound, StatesFit, NEW c \in Conns, VisitConnection(c)
    PROVE  StatesFit'
<1>1. UNCHANGED <<conn, poller, closing, setup, pending, batch, at, server>>
  BY VisitEffect
<1>2. \A k \in Loops : \A x \in Functors : Waits(k, x)' => Waits(k, x)
  BY <1>1, QueuesSame DEF Sound
<1>3. CallFits(ForeignCall("Visit", c))
  BY VisitEffect DEF StatesFit
<1>4. "destroy" \in setup.calls /\ setup.subLoops # <<>> /\ server = "closing"
  BY <1>3 DEF CallFits, ForeignCall
<1>5. ASSUME NEW x \in foreign', x \notin foreign PROVE CallFits(x)'
  <2>1. x.op = "ForceClose" /\ x.conn = c /\ conn[c].state # "Connecting"
    BY <1>5, VisitEffect
  <2> QED
    BY <1>1, <1>4, <2>1 DEF CallFits
<1> QED
  BY <1>1, <1>2, <1>5, StatesFitSame, DestructionFacts

LEMMA NextStatesFit ==
    ASSUME Sound, StatesFit, Once, [Next]_vars
    PROVE  StatesFit'
<1>1. ASSUME NEW c \in Conns, NEW f \in Fds, HandleNewConnection(c, f) PROVE StatesFit'
  BY <1>1, StatesFitBears
<1>2. ASSUME UNCHANGED <<conn, poller, closing, setup, pending, batch, at, foreign, server>>
      PROVE  StatesFit'
  <2>1. \A k \in Loops : \A x \in Functors : Waits(k, x)' => Waits(k, x)
    BY <1>2, QueuesSame DEF Sound
  <2> QED
    BY <1>2, <2>1, StatesFitSame, DestructionFacts
<1>3. ASSUME NEW f \in Fds, KernelMoves(f) PROVE StatesFit'
  BY <1>2, <1>3 DEF KernelMoves, Peer
<1>4. ASSUME NEW l \in Loops, NEW f \in Fds, NEW c \in Conns, HangUp(l, f, c) PROVE StatesFit'
  BY <1>4, StatesFitHangUp
<1>5. ASSUME NEW l \in Loops, NEW f \in Fds, NEW c \in Conns,
             ReadAndSend(l, f, c) \/ ReadAndShutdown(l, f, c)
      PROVE  StatesFit'
  <2>1. UNCHANGED <<setup, server, foreign, closing, pending, batch, at>>
    BY <1>5 DEF ReadAndSend, ReadAndShutdown
  <2>2. \A k \in Loops : \A x \in Functors : Waits(k, x)' => Waits(k, x)
    BY <2>1, QueuesSame DEF Sound
  <2>3. CASE ReadAndSend(l, f, c)
    BY <2>1, <2>2, <2>3, StatesFitBuffered DEF ReadAndSend
  <2>4. CASE ReadAndShutdown(l, f, c)
    <3>1. Born(c) /\ conn[c].state = "Connected" /\ ShutdownInLoop(c, "Disconnecting")
      BY <2>4, FieldsFit DEF ReadAndShutdown
    <3> QED
      BY <2>1, <2>2, <3>1, StatesFitShutdown
  <2> QED
    BY <1>5, <2>3, <2>4
<1>6. ASSUME NEW l \in Loops, NEW f \in Fds, NEW c \in Conns, HandleWrite(l, f, c)
      PROVE  StatesFit'
  BY <1>6, StatesFitHandleWrite
<1>7. ASSUME NEW l \in Loops, FinishClose(l) PROVE StatesFit'
  BY <1>7, StatesFitFinishClose
<1>8. ASSUME NEW l \in Loops, StartBatch(l) \/ EndBatch(l) PROVE StatesFit'
  <2>1. UNCHANGED <<conn, poller, closing, setup, foreign, server>>
    BY <1>8 DEF StartBatch, EndBatch
  <2>2. \A k \in Loops : \A x \in Functors : Waits(k, x)' => Waits(k, x)
    BY <1>8, StartBatchWaits, EndBatchWaits DEF Sound
  <2> QED
    BY <2>1, <2>2, StatesFitSame, DestructionFacts
<1>9. ASSUME NEW l \in Loops, RunFunctor(l) PROVE StatesFit'
  BY <1>9, StatesFitRun
<1>10. ASSUME NEW c \in Conns, BeginSend(c) \/ BeginShutdown(c) PROVE StatesFit'
  BY <1>10, StatesFitBegin
<1>11. ASSUME NEW c \in Conns, NEW op \in {"Send", "Shutdown", "ForceClose"}, EndCall(op, c)
       PROVE  StatesFit'
  BY <1>11, StatesFitEndCall
<1>12. CASE BeginDestruction \/ QuitLoops \/ ClearConnections \/ DestroySubLoops
  BY <1>12, StatesFitDestruction
<1>13. CASE UNCHANGED vars
  BY <1>2, <1>13 DEF vars
<1>14. ASSUME NEW c \in Conns, VisitConnection(c) PROVE StatesFit'
  BY <1>14, StatesFitVisit
<1> QED
  BY PeerMoves, <1>14, <1>1, <1>3, <1>4, <1>5, <1>6, <1>7, <1>8, <1>9, <1>10, <1>11, <1>12, <1>13 DEF Next

LEMMA InitStatesFit == Init => StatesFit
<1> SUFFICES ASSUME Init PROVE StatesFit
  OBVIOUS
<1>1. \A l \in Loops : \A x \in Functors : ~Waits(l, x)
  BY DEF Init, Waits, Pends, Remains
<1>2. \A c \in Conns : conn[c].state = "Unborn" /\ c # None
  BY SetupFacts DEF Init, Blank
<1>3. \A l \in Loops : closing[l] = None /\ \A f \in Fds : poller[l][f] = None
  BY DEF Init
<1>4. foreign = {} /\ server = "up"
  BY DEF Init
<1> QED
  BY <1>1, <1>2, <1>3, <1>4 DEF StatesFit

-----------------------------------------------------------------------------
(***************************************************************************)
(* m_connections.                                                          *)
(***************************************************************************)
\* A connection changes, the map does not.
LEMMA InMapFrom ==
    ASSUME Sound, InMap, setup' = setup, m_connections' = m_connections,
           server' \in {"up", "closing", "quitting"} => server \in {"up", "closing", "quitting"},
           server' = "up" => server = "up",
           NEW c \in Conns, \A d \in Conns : d # c => conn'[d] = conn[d],
           conn'[c].fd = conn[c].fd,
           NoForeignShutdown /\ Live(c)' => Live(c) \/ m_connections[conn[c].fd] = c,
           NoForeignShutdown /\ Live(c)' /\ server' = "up" => conn'[c].open,
           \A x \in foreign' : x \in foreign \/
             (/\ x.conn \in Conns
              /\ x.op \in {"Visit", "ForceClose"} => m_connections[conn[x.conn].fd] = x.conn)
    PROVE  InMap'
<1>0. NoForeignShutdown' <=> NoForeignShutdown
  BY DEF NoForeignShutdown
<1>1. \A d \in Conns : conn'[d].fd = conn[d].fd
  OBVIOUS
<1>2. \A x \in foreign' :
        x.op \in {"Visit", "ForceClose"} => m_connections'[conn'[x.conn].fd] = x.conn
  BY <1>1 DEF InMap, Sound, Typed, ForeignCalls
<1>3. ASSUME NoForeignShutdown', server' = "up", NEW d \in Conns, Live(d)'
      PROVE  conn'[d].open
  <2>1. CASE d = c
    BY <1>0, <1>3, <2>1
  <2>2. CASE d # c
    BY <1>0, <1>3, <2>2 DEF InMap, Live
  <2> QED
    BY <2>1, <2>2
<1>4. ASSUME NoForeignShutdown', server' \in {"up", "closing", "quitting"},
             NEW d \in Conns, Live(d)'
      PROVE  m_connections'[conn'[d].fd] = d
  <2>1. CASE d = c
    BY <1>0, <1>1, <1>4, <2>1 DEF InMap
  <2>2. CASE d # c
    BY <1>0, <1>4, <2>2 DEF InMap, Live
  <2> QED
    BY <2>1, <2>2
<1> QED
  BY <1>2, <1>3, <1>4 DEF InMap

LEMMA InMapSame ==
    ASSUME Sound, InMap, UNCHANGED <<setup, m_connections, conn>>,
           server' \in {"up", "closing", "quitting"} => server \in {"up", "closing", "quitting"},
           server' = "up" => server = "up",
           \A x \in foreign' : x \in foreign \/
             (/\ x.conn \in Conns
              /\ x.op \in {"Visit", "ForceClose"} => m_connections[conn[x.conn].fd] = x.conn)
    PROVE  InMap'
<1>0. NoForeignShutdown' <=> NoForeignShutdown
  BY DEF NoForeignShutdown
<1> QED
  BY <1>0 DEF InMap, Live

\* The main loop erases a connection that is disconnected by then.
LEMMA InMapErase ==
    ASSUME Sound, Owned, InMap, NEW c \in Conns, Born(c), EraseNow(c, conn[c].open),
           server = "up", server' = server, foreign' = foreign,
           \A x \in foreign : x.op \notin {"Visit", "ForceClose"},
           \A d \in Conns : d # c => conn'[d] = conn[d],
           NoForeignShutdown => conn'[c].state = "Disconnected"
    PROVE  InMap'
<1>1. /\ \A f \in Fds : m_connections'[f] =
           IF conn[c].open /\ f = conn[c].fd THEN None ELSE m_connections[f]
      /\ setup' = setup
  <2>1. conn[c].open \in BOOLEAN
    BY DEF Sound, Typed, TypeOK
  <2> QED
    BY <2>1, EraseKept
<1>0. NoForeignShutdown' <=> NoForeignShutdown
  BY <1>1 DEF NoForeignShutdown
<1>2. ASSUME NoForeignShutdown', NEW d \in Conns, Live(d)'
      PROVE  conn'[d].open /\ m_connections'[conn'[d].fd] = d
  <2>1. d # c /\ conn'[d] = conn[d]
    BY <1>0, <1>2 DEF Live
  <2>2. Live(d) /\ conn[d].open /\ m_connections[conn[d].fd] = d
    BY <1>0, <1>2, <2>1 DEF InMap, Live
  <2>3. ~(conn[c].open /\ conn[d].fd = conn[c].fd)
    BY <2>1, <2>2 DEF Owned
  <2>4. conn[d].fd \in Fds
    BY <2>2, OpenBorn
  <2> QED
    BY <1>1, <2>1, <2>2, <2>3, <2>4
<1> QED
  BY <1>2 DEF InMap

LEMMA InMapBears ==
    ASSUME Sound, Owned, StatesFit, InMap, NEW c \in Conns, NEW f \in Fds, Bears(c, f)
    PROVE  InMap'
<1>1. /\ server = "up" /\ kernel[f] = "free" /\ setup' = setup /\ foreign' = foreign
      /\ \A d \in Conns : d # c => conn'[d] = conn[d]
      /\ conn'[c].fd = f /\ conn'[c].open /\ m_connections' = [m_connections EXCEPT ![f] = c]
  BY DEF Bears
<1>0. NoForeignShutdown' <=> NoForeignShutdown
  BY <1>1 DEF NoForeignShutdown
<1>2. \A g \in Fds : m_connections'[g] = IF g = f THEN c ELSE m_connections[g]
  BY <1>1 DEF Sound, Typed, TypeOK
<1>3. \A x \in foreign' : x.op \notin {"Visit", "ForceClose"}
  BY <1>1 DEF StatesFit, CallFits
<1>4. ASSUME NoForeignShutdown', NEW d \in Conns, Live(d)'
      PROVE  conn'[d].open /\ m_connections'[conn'[d].fd] = d
  <2>1. CASE d = c
    BY <1>1, <1>2, <2>1
  <2>2. CASE d # c
    <3>1. Live(d) /\ conn[d].open /\ m_connections[conn[d].fd] = d
      BY <1>0, <1>1, <1>4, <2>2 DEF InMap, Live
    <3>2. conn[d].fd # f /\ conn[d].fd \in Fds
      BY <1>1, <3>1, OpenBorn DEF Owned
    <3> QED
      BY <1>1, <1>2, <2>2, <3>1, <3>2
  <2> QED
    BY <2>1, <2>2
<1> QED
  BY <1>3, <1>4 DEF InMap

LEMMA InMapHangUp ==
    ASSUME Sound, Owned, StatesFit, InMap, NEW l \in Loops, NEW f \in Fds, NEW c \in Conns,
           HangUp(l, f, c)
    PROVE  InMap'
<1>1. /\ Born(c) /\ conn[c].loop = l /\ HandleClose(l, c) /\ Running(l)
      /\ server' = server /\ foreign' = foreign
  BY FieldsFit DEF HangUp, HandleClose
<1>2. CASE conn[c].state = "Disconnected"
  BY <1>1, <1>2, InMapSame DEF HandleClose
<1>3. CASE conn[c].state # "Disconnected"
  <2>1. /\ \A d \in Conns : d # c => conn'[d] = conn[d]
        /\ conn'[c].state = "Disconnected" /\ conn'[c].fd = conn[c].fd
    <3>1. Becomes(c, "Disconnected", conn[c].open, {})
      BY <1>1, <1>3, HandleCloseEffect
    <3> QED
      BY <3>1 DEF Becomes
  <2>2. CASE l = Main
    <3>1. server = "up" /\ EraseNow(c, conn[c].open)
      BY <1>1, <1>3, <2>2 DEF Running, HandleClose
    <3>2. \A x \in foreign : x.op \notin {"Visit", "ForceClose"}
      BY <3>1 DEF StatesFit, CallFits
    <3> QED
      BY <1>1, <2>1, <3>1, <3>2, InMapErase
  <2>3. CASE l # Main
    <3>1. m_connections' = m_connections /\ setup' = setup
      BY <1>1, <1>3, <2>3 DEF HandleClose
    <3>2. ~Live(c)'
      BY <2>1 DEF Live
    <3> QED
      BY <1>1, <2>1, <3>1, <3>2, InMapFrom
  <2> QED
    BY <2>2, <2>3
<1> QED
  BY <1>2, <1>3

LEMMA InMapBuffered ==
    ASSUME Sound, StatesFit, InMap, NEW c \in Conns, Buffered(c),
           UNCHANGED <<setup, m_connections, server, foreign>>
    PROVE  InMap'
<1>1. CASE UNCHANGED <<conn, poller, epoll>>
  BY <1>1, InMapSame
<1>2. CASE /\ conn[c].state = "Connected"
           /\ Becomes(c, "Connected", conn[c].open, conn[c].events \cup {"write"})
  <2>1. /\ \A d \in Conns : d # c => conn'[d] = conn[d]
        /\ conn'[c].open /\ conn'[c].fd = conn[c].fd
    BY <1>2 DEF Becomes, StatesFit
  <2>2. Live(c)
    BY <1>2 DEF Live
  <2> QED
    BY <2>1, <2>2, InMapFrom
<1> QED
  BY <1>1, <1>2, BufferedEffect

LEMMA InMapShutdown ==
    ASSUME Sound, StatesFit, InMap, NEW c \in Conns, Born(c), NEW s, ShutdownInLoop(c, s),
           NoForeignShutdown => conn[c].state = "Connected",
           UNCHANGED <<setup, m_connections, server, foreign>>
    PROVE  InMap'
<1>1. NoForeignShutdown => Live(c) /\ conn[c].open
  BY DEF Live, StatesFit
<1>2. CASE Becomes(c, s, conn[c].open, conn[c].events \cup {"write"})
  <2>1. /\ \A d \in Conns : d # c => conn'[d] = conn[d]
        /\ conn'[c].open = conn[c].open /\ conn'[c].fd = conn[c].fd
    BY <1>2 DEF Becomes
  <2> QED
    BY <1>1, <2>1, InMapFrom
<1>3. CASE Becomes(c, "Disconnected", FALSE, conn[c].events)
  <2>1. /\ \A d \in Conns : d # c => conn'[d] = conn[d]
        /\ conn'[c].state = "Disconnected" /\ conn'[c].fd = conn[c].fd
    BY <1>3 DEF Becomes
  <2>2. ~Live(c)'
    BY <2>1 DEF Live
  <2> QED
    BY <2>1, <2>2, InMapFrom
<1> QED
  BY <1>2, <1>3, ShutdownEffect

LEMMA InMapRun ==
    ASSUME Sound, Owned, StatesFit, Once, InMap, NEW l \in Loops, RunFunctor(l)
    PROVE  InMap'
<1>1. PICK c \in Conns : \/ RunEstablished(l, c) \/ (l = Main /\ RunRemove(c))
                         \/ RunDestroyed(l, c) \/ RunSend(l, c) \/ RunShutdown(l, c)
                         \/ RunForceClose(l, c)
  BY DEF RunFunctor
<1>2. CASE RunEstablished(l, c)
  <2>1. /\ Runs(l, "Established", c) /\ "Established" \in Ops
        /\ UNCHANGED <<setup, m_connections, server, foreign>>
    BY <1>2, OpTypes DEF RunEstablished, Runs
  <2>2. conn[c].state = "Connecting"
    BY <2>1, WaitingFits
  <2>3. Live(c) /\ conn[c].open
    BY <2>2 DEF Live, StatesFit
  <2>4. /\ \A d \in Conns : d # c => conn'[d] = conn[d]
        /\ conn'[c].open /\ conn'[c].fd = conn[c].fd
    BY <1>2, <2>3, RunEstablishedEffect DEF Becomes
  <2> QED
    BY <2>1, <2>3, <2>4, InMapFrom
<1>3. CASE RunRemove(c)
  <2>1. /\ Runs(Main, "Remove", c) /\ "Remove" \in Ops /\ Main \in Loops
        /\ UNCHANGED <<conn, server, foreign>> /\ EraseNow(c, conn[c].open)
    BY <1>3, OpTypes, SetupFacts DEF RunRemove, Runs, Sound, Typed
  <2>2. server = "up" /\ Born(c)
    BY <2>1, RunsPlaced DEF Runs, Running
  <2>3. Fits(Functor("Remove", c))
    BY <2>1, WaitingFits
  <2>4. NoForeignShutdown => conn[c].state = "Disconnected"
    BY <2>2, <2>3, FunctorType DEF Fits, Functor
  <2>5. \A x \in foreign : x.op \notin {"Visit", "ForceClose"}
    BY <2>2 DEF StatesFit, CallFits
  <2> QED
    BY <2>1, <2>2, <2>4, <2>5, InMapErase
<1>4. ASSUME UNCHANGED <<setup, m_connections, server, foreign>>,
             Becomes(c, "Disconnected", FALSE, {})
      PROVE  InMap'
  <2>1. /\ \A d \in Conns : d # c => conn'[d] = conn[d]
        /\ conn'[c].state = "Disconnected" /\ conn'[c].fd = conn[c].fd
    BY <1>4 DEF Becomes
  <2>2. ~Live(c)'
    BY <2>1 DEF Live
  <2> QED
    BY <1>4, <2>1, <2>2, InMapFrom
<1>5. CASE RunDestroyed(l, c)
  <2>1. /\ Runs(l, "Destroyed", c) /\ "Destroyed" \in Ops
        /\ UNCHANGED <<setup, m_connections, server, foreign>>
    BY <1>5, OpTypes DEF RunDestroyed, Runs
  <2>2. Born(c) /\ conn[c].loop = l
    BY <2>1, RunsPlaced
  <2>3. CASE conn[c].state \in {"Connected", "Disconnecting"}
    BY <1>4, <1>5, <2>1, <2>2, <2>3, DisabledEffect DEF RunDestroyed
  <2>4. CASE conn[c].state \notin {"Connected", "Disconnecting"}
    BY <1>5, <2>1, <2>4, InMapSame DEF RunDestroyed
  <2> QED
    BY <2>3, <2>4
<1>6. CASE RunSend(l, c)
  BY <1>6, InMapBuffered DEF RunSend, Runs
<1>7. CASE RunShutdown(l, c)
  <2>1. /\ Runs(l, "Shutdown", c) /\ "Shutdown" \in Ops /\ ShutdownInLoop(c, conn[c].state)
        /\ UNCHANGED <<setup, m_connections, server, foreign>>
    BY <1>7, OpTypes DEF RunShutdown, Runs
  <2>2. Born(c) /\ Fits(Functor("Shutdown", c))
    BY <2>1, RunsPlaced, WaitingFits
  <2>3. ~NoForeignShutdown
    BY <2>2 DEF Fits, Functor
  <2> QED
    BY <2>1, <2>2, <2>3, InMapShutdown
<1>8. CASE RunForceClose(l, c)
  <2>1. /\ Runs(l, "ForceClose", c) /\ "ForceClose" \in Ops /\ ForceCloseInLoop(l, c)
        /\ UNCHANGED <<server, foreign>>
    BY <1>8, OpTypes DEF RunForceClose, Runs
  <2>2. Born(c) /\ conn[c].loop = l /\ setup.subLoops # <<>>
    BY <2>1, RunsPlaced, WaitingFits
  <2>3. l # Main
    BY <2>2, SetupFacts DEF Sound, Typed, Lead
  <2>4. setup' = setup /\ m_connections' = m_connections
    BY <2>1, <2>3 DEF ForceCloseInLoop
  <2>5. CASE conn[c].state \in {"Connected", "Disconnecting"}
    BY <1>4, <2>1, <2>2, <2>4, <2>5, DisabledEffect DEF ForceCloseInLoop
  <2>6. CASE conn[c].state \notin {"Connected", "Disconnecting"}
    BY <2>1, <2>4, <2>6, InMapSame DEF ForceCloseInLoop
  <2> QED
    BY <2>5, <2>6
<1> QED
  BY <1>1, <1>2, <1>3, <1>5, <1>6, <1>7, <1>8

LEMMA InMapEndCall ==
    ASSUME Sound, StatesFit, InMap, NEW op \in {"Send", "Shutdown", "ForceClose"},
           NEW c \in Conns, EndCall(op, c)
    PROVE  InMap'
<1>1. UNCHANGED <<setup, m_connections, server>> /\ foreign' \subseteq foreign
  BY DEF EndCall
<1>2. CASE op = "Send"
  BY <1>1, <1>2, EndCallEffect, InMapSame
<1>3. CASE op # "Send"
  <2>1. /\ \A d \in Conns : d # c => conn'[d] = conn[d]
        /\ conn'[c].fd = conn[c].fd /\ ForeignCall(op, c) \in foreign
    BY <1>3, EndCallEffect DEF Becomes
  <2>2. CallFits(ForeignCall(op, c))
    BY <2>1 DEF StatesFit
  <2>3. \/ ~NoForeignShutdown
        \/ op = "ForceClose" /\ server = "closing" /\ m_connections[conn[c].fd] = c
    BY <1>3, <2>1, <2>2 DEF CallFits, ForeignCall, InMap
  <2> QED
    BY <1>1, <2>1, <2>3, InMapFrom
<1> QED
  BY <1>2, <1>3

LEMMA InMapVisit ==
    ASSUME Sound, InMap, NEW c \in Conns, VisitConnection(c)
    PROVE  InMap'
<1>1. UNCHANGED <<setup, m_connections, conn, server>>
  BY VisitEffect
<1>2. m_connections[conn[c].fd] = c
  <2>1. /\ ForeignCall("Visit", c) \in foreign
        /\ ForeignCall("Visit", c).op = "Visit" /\ ForeignCall("Visit", c).conn = c
    BY VisitEffect DEF ForeignCall
  <2> QED
    BY <2>1 DEF InMap
<1>3. \A x \in foreign' : x \in foreign \/
        (x.conn \in Conns /\ m_connections[conn[x.conn].fd] = x.conn)
  BY <1>2, VisitEffect
<1> QED
  BY <1>1, <1>3, InMapSame

LEMMA NextInMap ==
    ASSUME Sound, Owned, StatesFit, Once, InMap, [Next]_vars
    PROVE  InMap'
<1>1. ASSUME NEW c \in Conns, NEW f \in Fds, HandleNewConnection(c, f) PROVE InMap'
  BY <1>1, NewConnection, InMapBears
<1>2. ASSUME UNCHANGED <<conn, m_connections, setup, foreign, server>> PROVE InMap'
  BY <1>2, InMapSame
<1>3. ASSUME NEW f \in Fds, KernelMoves(f) PROVE InMap'
  BY <1>2, <1>3 DEF KernelMoves, Peer
<1>4. ASSUME NEW l \in Loops, NEW f \in Fds, NEW c \in Conns, HangUp(l, f, c) PROVE InMap'
  BY <1>4, InMapHangUp
<1>5. ASSUME NEW l \in Loops, NEW f \in Fds, NEW c \in Conns, ReadAndSend(l, f, c)
      PROVE  InMap'
  BY <1>5, InMapBuffered DEF ReadAndSend
<1>6. ASSUME NEW l \in Loops, NEW f \in Fds, NEW c \in Conns, ReadAndShutdown(l, f, c)
      PROVE  InMap'
  BY <1>6, FieldsFit, InMapShutdown DEF ReadAndShutdown
<1>7. ASSUME NEW l \in Loops, NEW f \in Fds, NEW c \in Conns, HandleWrite(l, f, c)
      PROVE  InMap'
  <2>1. conn[c].state = "Connected" /\ conn[c].open /\ "read" \in conn[c].events
    BY <1>7 DEF HandleWrite, StatesFit
  <2>2. /\ \A d \in Conns : d # c => conn'[d] = conn[d]
        /\ conn'[c].open /\ conn'[c].fd = conn[c].fd
    BY <1>7, <2>1, HandleWriteEffect DEF Becomes
  <2>3. Live(c) /\ UNCHANGED <<setup, m_connections, server, foreign>>
    BY <1>7, <2>1 DEF Live, HandleWrite
  <2> QED
    BY <2>2, <2>3, InMapFrom
<1>8. ASSUME NEW l \in Loops, FinishClose(l) PROVE InMap'
  <2>1. PICK c \in Conns : closing[l] = c
    BY <1>8 DEF FinishClose, Sound, Typed, TypeOK
  <2>2. /\ \A d \in Conns : d # c => conn'[d] = conn[d]
        /\ conn'[c].fd = conn[c].fd /\ conn'[c].state = conn[c].state
    BY <1>8, <2>1, FinishCloseEffect DEF Becomes
  <2>3. UNCHANGED <<setup, m_connections, server, foreign>>
    BY <1>8 DEF FinishClose
  <2>4. server = "up" /\ NoForeignShutdown => conn[c].state = "Disconnected"
    BY <2>1 DEF StatesFit
  <2> QED
    BY <2>2, <2>3, <2>4, InMapFrom DEF Live
<1>9. ASSUME NEW l \in Loops, StartBatch(l) \/ EndBatch(l) PROVE InMap'
  BY <1>2, <1>9 DEF StartBatch, EndBatch
<1>10. ASSUME NEW l \in Loops, RunFunctor(l) PROVE InMap'
  BY <1>10, InMapRun
<1>11. ASSUME NEW c \in Conns, BeginSend(c) \/ BeginShutdown(c) PROVE InMap'
  <2>1. UNCHANGED <<conn, m_connections, setup, server>>
    BY <1>11 DEF BeginSend, BeginShutdown, Begin
  <2>2. \A x \in foreign' : x \in foreign \/ (x.conn = c /\ x.op \notin {"Visit", "ForceClose"})
    BY <1>11 DEF BeginSend, BeginShutdown, Begin, ForeignCall
  <2> QED
    BY <2>1, <2>2, InMapSame
<1>12. ASSUME NEW c \in Conns, NEW op \in {"Send", "Shutdown", "ForceClose"}, EndCall(op, c)
       PROVE  InMap'
  BY <1>12, InMapEndCall
<1>13. CASE BeginDestruction
  <2>1. UNCHANGED <<conn, m_connections, setup>> /\ server = "up" /\ server' = "closing"
    BY <1>13 DEF BeginDestruction
  <2>2. ASSUME NEW x \in foreign', x \notin foreign
        PROVE  x.conn \in Conns /\ m_connections[conn[x.conn].fd] = x.conn
    <3>1. PICK f \in Fds : /\ x = ForeignCall("Visit", m_connections[f])
                           /\ m_connections[f] # None
      BY <1>13, <2>2 DEF BeginDestruction
    <3>2. PICK c \in Conns : m_connections[f] = c
      BY <3>1 DEF Sound, Typed, TypeOK
    <3>3. conn[c].fd = f
      BY <3>2 DEF Sound, Lead
    <3> QED
      BY <3>1, <3>2, <3>3 DEF ForeignCall
  <2> QED
    BY <2>1, <2>2, InMapSame
<1>14. CASE QuitLoops
  BY <1>14, InMapSame DEF QuitLoops
<1>15. CASE ClearConnections \/ DestroySubLoops
  <2>1. /\ server \in {"quitting", "cleared"} /\ server' \in {"cleared", "aborted"}
        /\ foreign' = foreign
    BY <1>15 DEF ClearConnections, DestroySubLoops
  <2>2. \A x \in foreign' : x.op \notin {"Visit", "ForceClose"}
    BY <2>1 DEF StatesFit, CallFits
  <2> QED
    BY <2>1, <2>2 DEF InMap
<1>16. CASE UNCHANGED vars
  BY <1>2, <1>16 DEF vars
<1>17. ASSUME NEW c \in Conns, VisitConnection(c) PROVE InMap'
  BY <1>17, InMapVisit
<1> QED
  BY PeerMoves, <1>17, <1>1, <1>3, <1>4, <1>5, <1>6, <1>7, <1>8, <1>9, <1>10, <1>11, <1>12, <1>13, <1>14,
     <1>15, <1>16 DEF Next

LEMMA InitInMap == Init => InMap
BY DEF Init, InMap, Live, Blank

-----------------------------------------------------------------------------
(***************************************************************************)
(* The pollers.                                                            *)
(***************************************************************************)
LEMMA PolledSame ==
    ASSUME Polled,
           UNCHANGED <<setup, conn, poller, epoll, m_connections, missed, closing>>
    PROVE  Polled'
<1>1. NoForeignShutdown' <=> NoForeignShutdown
  BY DEF NoForeignShutdown
<1> QED
  BY <1>1 DEF Polled, EpollLeads, Single

\* The sockets stay as they are; a poller may learn of an open connection.
LEMMA PolledWatches ==
    ASSUME Sound, Sound', Polled, UNCHANGED <<setup, m_connections, missed, closing>>,
           NEW c \in Conns, Born(c),
           \A d \in Conns : conn'[d].open = conn[d].open /\ conn'[d].fd = conn[d].fd,
           UNCHANGED <<poller, epoll>> \/ Watches(c),
           NoForeignShutdown \/ setup.subLoops = <<>> =>
             conn[c].open \/ poller[conn[c].loop][conn[c].fd] # None
                          \/ kernel[conn[c].fd] = "free"
    PROVE  Polled'
<1>1. NoForeignShutdown' <=> NoForeignShutdown
  BY DEF NoForeignShutdown
<1>0. conn[c].loop \in Loops /\ conn[c].fd \in Fds /\ c # None
  BY FieldsFit
<1>3. \A l \in Loops : \A f \in Fds : poller[l][f] # None => poller'[l][f] = poller[l][f]
  BY DEF Watches
<1>4. ASSUME NoForeignShutdown' \/ setup'.subLoops = <<>>, NEW l \in Loops, NEW f \in Fds,
             f \in epoll'[l]
      PROVE  \E d \in Conns : poller'[l][f] = d /\ conn'[d].open
  <2>1. CASE f \in epoll[l]
    <3>1. PICK d \in Conns : poller[l][f] = d /\ conn[d].open
      BY <1>1, <1>4, <2>1 DEF Polled, EpollLeads
    <3>2. d # None
      BY FieldsFit
    <3> QED
      BY <1>3, <3>1, <3>2
  <2>2. CASE f \notin epoll[l]
    <3>1. Watches(c)
      BY <1>4, <2>2
    <3>2. /\ poller[conn[c].loop][conn[c].fd] = None
          /\ l = conn[c].loop /\ f = conn[c].fd /\ kernel[f] # "free"
      BY <1>4, <2>2, <3>1 DEF Watches
    <3>3. poller'[l][f] = c
      BY <3>1, <3>2 DEF Watches
    <3>4. conn[c].open
      BY <1>1, <1>4, <3>2
    <3> QED
      BY <3>3, <3>4
  <2> QED
    BY <2>1, <2>2
<1>5. epoll' \in [Loops -> SUBSET Fds] /\ Main \in Loops
  BY SetupFacts DEF Sound, Typed, TypeOK
<1>6. EpollLeads'
  BY <1>4, <1>5 DEF EpollLeads
<1>7. Single'
  <2> SUFFICES ASSUME setup'.subLoops = <<>>
               PROVE  /\ missed' = {}
                      /\ \A d \in Conns : conn'[d].open /\ closing'[Main] # d =>
                           /\ poller'[Main][conn'[d].fd] # None
                           /\ m_connections'[conn'[d].fd] = d
    BY DEF Single
  <2>1. setup.subLoops = <<>> /\ missed' = {}
    BY DEF Polled, Single
  <2>2. ASSUME NEW d \in Conns, conn'[d].open, closing'[Main] # d
        PROVE  poller'[Main][conn'[d].fd] # None /\ m_connections'[conn'[d].fd] = d
    <3>1. conn[d].open /\ conn[d].fd = conn'[d].fd /\ conn[d].fd \in Fds
      BY <2>2, OpenBorn
    <3>2. poller[Main][conn[d].fd] # None /\ m_connections[conn[d].fd] = d
      BY <2>1, <2>2, <3>1 DEF Polled, Single
    <3> QED
      BY <1>3, <1>5, <3>1, <3>2
  <2> QED
    BY <2>1, <2>2
<1> QED
  BY <1>6, <1>7 DEF Polled

\* The socket of c is closed and no poller leads to it.
LEMMA EpollLeadsCloses ==
    ASSUME Sound, Sound', EpollLeads, setup' = setup, NEW c \in Conns, Born(c),
           \A d \in Conns : d # c => conn'[d] = conn[d],
           \/ /\ poller' = poller
              /\ conn[c].open => EpollDrops(c, TRUE)
              /\ ~conn[c].open => epoll' = epoll
           \/ PollerForgets(c) /\ EpollDrops(c, conn[c].open)
           \/ /\ PollerForgets(c) /\ EpollDrops(c, FALSE) /\ conn'[c].open = conn[c].open
    PROVE  EpollLeads'
<1>1. NoForeignShutdown' <=> NoForeignShutdown
  BY DEF NoForeignShutdown
<1>2. epoll' \in [Loops -> SUBSET Fds] /\ conn[c].loop \in Loops /\ conn[c].fd \in Fds
  BY FieldsFit DEF Sound, Typed, TypeOK
<1> SUFFICES ASSUME NoForeignShutdown' \/ setup'.subLoops = <<>>, NEW l \in Loops,
                    NEW f \in Fds, f \in epoll'[l]
             PROVE  \E d \in Conns : poller'[l][f] = d /\ conn'[d].open
  BY <1>2 DEF EpollLeads
<1>3. f \in epoll[l]
  BY DEF EpollDrops
<1>4. PICK d \in Conns : poller[l][f] = d /\ conn[d].open
  BY <1>1, <1>3 DEF EpollLeads
<1>5. conn[d].fd = f /\ conn[d].loop = l /\ d # None
  BY <1>4, FieldsFit DEF Sound, Lead
<1>6. CASE /\ poller' = poller
           /\ conn[c].open => EpollDrops(c, TRUE)
           /\ ~conn[c].open => epoll' = epoll
  <2>1. d # c
    BY <1>4, <1>5, <1>6 DEF EpollDrops
  <2> QED
    BY <1>4, <1>6, <2>1
<1>7. CASE PollerForgets(c) /\ (EpollDrops(c, conn[c].open) \/ EpollDrops(c, FALSE))
  <2>1. ~(l = conn[c].loop /\ f = conn[c].fd)
    BY <1>4, <1>5, <1>7 DEF EpollDrops
  <2>2. d # c
    BY <1>5, <2>1
  <2>3. poller'[l][f] = d
    BY <1>4, <1>7, <2>1 DEF PollerForgets
  <2> QED
    BY <1>4, <2>2, <2>3
<1> QED
  BY <1>6, <1>7

\* In single thread mode another connection is not affected.
LEMMA SingleCloses ==
    ASSUME Sound, Sound', Owned, Single, setup' = setup, NEW c \in Conns, Born(c),
           \A d \in Conns : d # c => conn'[d] = conn[d],
           setup.subLoops = <<>> => missed' = {},
           poller' = poller \/ PollerForgets(c),
           \/ m_connections' = m_connections
           \/ conn[c].open /\ \A f \in Fds : f # conn[c].fd => m_connections'[f] = m_connections[f],
           ~conn'[c].open \/ closing'[Main] = c,
           closing[Main] = None \/ closing[Main] = c,
           conn[c].open \/ poller' = poller \/ setup.subLoops # <<>>
    PROVE  Single'
<1>0. Main \in Loops
  BY SetupFacts DEF Sound, Typed
<1> SUFFICES ASSUME setup.subLoops = <<>>, NEW d \in Conns, conn'[d].open, closing'[Main] # d
             PROVE  poller'[Main][conn'[d].fd] # None /\ m_connections'[conn'[d].fd] = d
  BY DEF Single
<1>1. d # c /\ conn'[d] = conn[d] /\ conn[d].open /\ conn[d].fd \in Fds /\ d # None
  BY OpenBorn, FieldsFit
<1>2. poller[Main][conn[d].fd] # None /\ m_connections[conn[d].fd] = d
  BY <1>1 DEF Single
<1>3. conn[c].open => conn[d].fd # conn[c].fd
  BY <1>1 DEF Owned
<1>4. poller'[Main][conn[d].fd] # None
  BY <1>0, <1>1, <1>2, <1>3 DEF PollerForgets
<1>5. m_connections'[conn[d].fd] = d
  BY <1>1, <1>2, <1>3
<1> QED
  BY <1>1, <1>4, <1>5

LEMMA PolledBears ==
    ASSUME Sound, Sound', Owned, Polled, NEW c \in Conns, NEW f \in Fds,
           HandleNewConnection(c, f)
    PROVE  Polled'
<1>1. Bears(c, f)
  BY NewConnection
<1>2. /\ server = "up" /\ ~Born(c) /\ kernel[f] = "free" /\ closing[Main] = None
      /\ UNCHANGED <<setup, closing, missed>>
      /\ \A d \in Conns : d # c => conn'[d] = conn[d]
      /\ conn'[c].fd = f /\ conn'[c].open /\ m_connections' = [m_connections EXCEPT ![f] = c]
  BY <1>1 DEF Bears
<1>0. NoForeignShutdown' <=> NoForeignShutdown
  BY <1>2 DEF NoForeignShutdown
<1>3. \A d \in Conns : conn[d].open => d # c /\ conn[d].fd \in Fds /\ conn[d].fd # f
  BY <1>2, OpenBorn DEF Owned
<1>4. /\ epoll' \in [Loops -> SUBSET Fds] /\ epoll \in [Loops -> SUBSET Fds] /\ Main \in Loops
      /\ m_connections \in [Fds -> Conns \cup {None}] /\ \A d \in Conns : d # None
  BY SetupFacts DEF Sound, Typed, TypeOK
<1>5. CASE setup.subLoops # <<>>
  <2>1. poller' = poller /\ epoll' = epoll
    BY <1>1, <1>5 DEF Bears
  <2>2. EpollLeads'
    <3> SUFFICES ASSUME NoForeignShutdown', NEW l \in Loops, NEW g \in Fds, g \in epoll'[l]
                 PROVE  \E d \in Conns : poller'[l][g] = d /\ conn'[d].open
      BY <1>2, <1>4, <1>5 DEF EpollLeads
    <3>1. PICK d \in Conns : poller[l][g] = d /\ conn[d].open
      BY <1>0, <2>1 DEF Polled, EpollLeads
    <3> QED
      BY <1>2, <1>3, <2>1, <3>1
  <2> QED
    BY <1>2, <1>5, <2>2 DEF Polled, Single
<1>6. CASE setup.subLoops = <<>>
  <2> DEFINE b == Replaced(f) # None \/ poller[Main][f] = None
  <2>1. /\ \A l \in Loops : \A g \in Fds : poller'[l][g] =
             IF l = Main /\ g = f /\ b THEN c ELSE poller[l][g]
        /\ \A l \in Loops : epoll'[l] =
             IF l = Main /\ b THEN epoll[l] \cup {f} ELSE epoll[l]
    BY <1>6, NewConnectionPoller
  <2>2. b \/ poller[Main][f] # None
    OBVIOUS
  <2> HIDE DEF b
  <2>3. EpollLeads'
    <3> SUFFICES ASSUME NEW l \in Loops, NEW g \in Fds, g \in epoll'[l]
                 PROVE  \E d \in Conns : poller'[l][g] = d /\ conn'[d].open
      BY <1>4 DEF EpollLeads
    <3>1. CASE g \in epoll[l]
      <4>1. PICK d \in Conns : poller[l][g] = d /\ conn[d].open
        BY <1>6, <3>1 DEF Polled, EpollLeads
      <4>2. conn[d].fd = g
        BY <4>1 DEF Sound, Lead
      <4>3. g # f /\ d # c
        BY <1>3, <4>1, <4>2
      <4> QED
        BY <1>2, <2>1, <4>1, <4>3
    <3>2. CASE g \notin epoll[l]
      <4>1. l = Main /\ b /\ g = f
        BY <2>1, <3>2
      <4>2. poller'[l][g] = c
        BY <2>1, <4>1
      <4> QED
        BY <1>2, <4>2
    <3> QED
      BY <3>1, <3>2
  <2>4. Single'
    <3> SUFFICES ASSUME NEW d \in Conns, conn'[d].open
                 PROVE  poller'[Main][conn'[d].fd] # None /\ m_connections'[conn'[d].fd] = d
      BY <1>2, <1>6 DEF Single, Polled
    <3>1. CASE d = c
      BY <1>2, <1>4, <2>1, <2>2, <3>1
    <3>2. CASE d # c
      <4>1. conn'[d] = conn[d] /\ conn[d].open /\ conn[d].fd \in Fds /\ conn[d].fd # f
        BY <1>2, <1>3, <3>2
      <4>2. poller[Main][conn[d].fd] # None /\ m_connections[conn[d].fd] = d
        BY <1>2, <1>4, <1>6, <4>1 DEF Polled, Single
      <4> QED
        BY <1>2, <1>4, <2>1, <4>1, <4>2
    <3> QED
      BY <3>1, <3>2
  <2> QED
    BY <2>3, <2>4 DEF Polled
<1> QED
  BY <1>5, <1>6

LEMMA PolledHangUp ==
    ASSUME Sound, Sound', Owned, StatesFit, Polled, NEW l \in Loops, NEW f \in Fds,
           NEW c \in Conns, HangUp(l, f, c)
    PROVE  Polled'
<1>1. /\ Born(c) /\ conn[c].loop = l /\ conn[c].fd = f /\ HandleClose(l, c)
      /\ closing[l] = None /\ f \in epoll[l] /\ poller[l][f] = c /\ c # None
  BY FieldsFit DEF HangUp, Ready
<1>2. CASE conn[c].state = "Disconnected"
  BY <1>1, <1>2, PolledSame DEF HandleClose
<1>3. CASE conn[c].state # "Disconnected"
  <2>1. /\ \A d \in Conns : d # c => conn'[d] = conn[d]
        /\ conn'[c].open = conn[c].open
        /\ PollerForgets(c) /\ EpollDrops(c, FALSE)
        /\ \A k \in Loops : closing'[k] = IF k = l THEN c ELSE closing[k]
    <3>1. /\ Becomes(c, "Disconnected", conn[c].open, {})
          /\ PollerForgets(c) /\ EpollDrops(c, FALSE) /\ Closes(l, c)
      BY <1>1, <1>3, HandleCloseEffect
    <3> QED
      BY <3>1 DEF Becomes, Closes
  <2>2. setup' = setup
    BY <1>1 DEF HandleClose, EraseNow
  <2>3. EpollLeads'
    BY <1>1, <2>1, <2>2, EpollLeadsCloses DEF Polled
  <2>4. Single'
    <3>1. CASE setup.subLoops # <<>>
      BY <2>2, <3>1 DEF Single
    <3>2. CASE setup.subLoops = <<>>
      <4>1. l = Main /\ Main \in Loops
        BY <1>1, <3>2, SetupFacts DEF Sound, Typed, Lead, MyLoops
      <4>2. conn[c].open
        BY <1>1, <3>2 DEF Polled, EpollLeads
      <4>3. m_connections[f] = c /\ missed = {}
        BY <1>1, <3>2, <4>1, <4>2 DEF Polled, Single
      <4>4. EraseNow(c, conn[c].open)
        BY <1>1, <1>3, <4>1 DEF HandleClose
      <4>5. missed' = {}
        BY <1>1, <4>2, <4>3, <4>4 DEF EraseNow
      <4>6. \A g \in Fds : g # conn[c].fd => m_connections'[g] = m_connections[g]
        BY <1>1, <4>2, <4>4, EraseKept
      <4>7. closing'[Main] = c /\ closing[Main] = None
        BY <1>1, <2>1, <4>1
      <4>8. Single
        BY DEF Polled
      <4> QED
        BY <1>1, <2>1, <2>2, <4>2, <4>5, <4>6, <4>7, <4>8, SingleCloses
    <3> QED
      BY <3>1, <3>2
  <2> QED
    BY <2>3, <2>4 DEF Polled
<1> QED
  BY <1>2, <1>3

LEMMA PolledFinishClose ==
    ASSUME Sound, Sound', Owned, StatesFit, Polled, NEW l \in Loops, FinishClose(l)
    PROVE  Polled'
<1>1. PICK c \in Conns : closing[l] = c
  BY DEF FinishClose, Sound, Typed, TypeOK
<1>2. /\ Born(c) /\ conn[c].loop = l
      /\ \A d \in Conns : d # c => conn'[d] = conn[d]
      /\ ~conn'[c].open
      /\ conn[c].open => EpollDrops(c, TRUE)
      /\ ~conn[c].open => epoll' = epoll
      /\ \A k \in Loops : closing'[k] = IF k = l THEN None ELSE closing[k]
  BY <1>1, FinishCloseEffect DEF Becomes
<1>3. UNCHANGED <<setup, poller, m_connections, missed>>
  BY DEF FinishClose
<1>4. EpollLeads'
  BY <1>2, <1>3, EpollLeadsCloses DEF Polled
<1>5. Single'
  <2>1. CASE setup.subLoops # <<>>
    BY <1>3, <2>1 DEF Single
  <2>2. CASE setup.subLoops = <<>>
    <3>1. l = Main /\ Single /\ missed = {}
      BY <1>2, <2>2 DEF Sound, Lead, MyLoops, Polled, Single
    <3> QED
      BY <1>1, <1>2, <1>3, <3>1, SingleCloses
  <2> QED
    BY <2>1, <2>2
<1> QED
  BY <1>4, <1>5 DEF Polled

LEMMA PolledShutdown ==
    ASSUME Sound, Sound', Owned, StatesFit, Polled, NEW c \in Conns, Born(c), NEW s,
           ShutdownInLoop(c, s), UNCHANGED <<setup, m_connections, missed, closing>>,
           NoForeignShutdown => conn[c].open,
           closing[conn[c].loop] = None
    PROVE  Polled'
<1>0. conn[c].loop \in Loops /\ conn[c].fd \in Fds /\ None \notin Conns
  BY FieldsFit DEF Sound
<1>1. CASE /\ Becomes(c, s, conn[c].open, conn[c].events \cup {"write"})
           /\ UNCHANGED <<poller, epoll>> \/ Watches(c)
  <2>1. \A d \in Conns : conn'[d].open = conn[d].open /\ conn'[d].fd = conn[d].fd
    BY <1>1 DEF Becomes
  <2>2. ASSUME setup.subLoops = <<>>, kernel[conn[c].fd] # "free"
        PROVE  poller[conn[c].loop][conn[c].fd] # None
    <3>1. PICK d \in Conns : conn[d].open /\ conn[d].fd = conn[c].fd
      BY <1>0, <2>2 DEF Owned
    <3>2. conn[c].loop = Main
      BY <2>2 DEF Sound, Lead, MyLoops
    <3> QED
      BY <1>0, <2>2, <3>1, <3>2 DEF Polled, Single
  <2>3. NoForeignShutdown \/ setup.subLoops = <<>> =>
          conn[c].open \/ poller[conn[c].loop][conn[c].fd] # None
                       \/ kernel[conn[c].fd] = "free"
    BY <2>2
  <2> QED
    BY <1>1, <2>1, <2>3, PolledWatches
<1>2. CASE /\ Becomes(c, "Disconnected", FALSE, conn[c].events) /\ poller' = poller
           /\ conn[c].open => EpollDrops(c, TRUE)
           /\ ~conn[c].open => epoll' = epoll
  <2>1. /\ \A d \in Conns : d # c => conn'[d] = conn[d]
        /\ ~conn'[c].open
    BY <1>2 DEF Becomes
  <2>2. EpollLeads'
    BY <1>2, <2>1, EpollLeadsCloses DEF Polled
  <2>3. Single'
    <3>1. CASE setup.subLoops # <<>>
      BY <3>1 DEF Single
    <3>2. CASE setup.subLoops = <<>>
      <4>1. conn[c].loop = Main /\ Single /\ missed = {}
        BY <3>2 DEF Sound, Lead, MyLoops, Polled, Single
      <4> QED
        BY <1>2, <2>1, <4>1, SingleCloses
    <3> QED
      BY <3>1, <3>2
  <2> QED
    BY <2>2, <2>3 DEF Polled
<1> QED
  BY <1>1, <1>2, ShutdownEffect

LEMMA PolledBuffered ==
    ASSUME Sound, Sound', StatesFit, Polled, NEW c \in Conns, Buffered(c),
           UNCHANGED <<setup, m_connections, missed, closing>>
    PROVE  Polled'
<1>1. CASE UNCHANGED <<conn, poller, epoll>>
  BY <1>1, PolledSame
<1>2. CASE /\ conn[c].state = "Connected" /\ Born(c)
           /\ Becomes(c, "Connected", conn[c].open, conn[c].events \cup {"write"})
           /\ UNCHANGED <<poller, epoll>> \/ Watches(c)
  <2>1. \A d \in Conns : conn'[d].open = conn[d].open /\ conn'[d].fd = conn[d].fd
    BY <1>2 DEF Becomes
  <2>2. conn[c].open
    BY <1>2 DEF StatesFit
  <2> QED
    BY <1>2, <2>1, <2>2, PolledWatches
<1> QED
  BY <1>1, <1>2, BufferedEffect

LEMMA PolledRun ==
    ASSUME Sound, Sound', Owned, StatesFit, Polled, NEW l \in Loops, RunFunctor(l)
    PROVE  Polled'
<1>1. PICK c \in Conns : \/ RunEstablished(l, c) \/ (l = Main /\ RunRemove(c))
                         \/ RunDestroyed(l, c) \/ RunSend(l, c) \/ RunShutdown(l, c)
                         \/ RunForceClose(l, c)
  BY DEF RunFunctor
<1>2. CASE RunEstablished(l, c)
  <2>1. /\ Runs(l, "Established", c) /\ "Established" \in Ops
        /\ UNCHANGED <<setup, m_connections, missed, closing>>
    BY <1>2, OpTypes DEF RunEstablished, Runs
  <2>2. conn[c].state = "Connecting"
    BY <2>1, WaitingFits
  <2>3. conn[c].open
    BY <2>2 DEF StatesFit
  <2>4. /\ Born(c)
        /\ UNCHANGED <<poller, epoll>> \/ Watches(c)
        /\ \A d \in Conns : conn'[d].open = conn[d].open /\ conn'[d].fd = conn[d].fd
    BY <1>2, RunEstablishedEffect DEF Becomes
  <2> QED
    BY <2>1, <2>3, <2>4, PolledWatches
<1>3. CASE RunRemove(c)
  <2>1. /\ Runs(Main, "Remove", c) /\ "Remove" \in Ops /\ Main \in Loops
        /\ UNCHANGED <<conn, poller, epoll>> /\ EraseNow(c, conn[c].open)
    BY <1>3, OpTypes, SetupFacts DEF RunRemove, Sound, Typed
  <2>2. setup.subLoops # <<>> /\ setup' = setup
    BY <2>1, WaitingFits DEF EraseNow
  <2>3. EpollLeads'
    BY <2>1, <2>2 DEF Polled, EpollLeads, NoForeignShutdown
  <2> QED
    BY <2>2, <2>3 DEF Polled, Single
<1>4. ASSUME UNCHANGED setup, setup.subLoops # <<>>, Born(c),
             Becomes(c, "Disconnected", FALSE, {}), PollerForgets(c),
             EpollDrops(c, conn[c].open)
      PROVE  Polled'
  <2>1. \A d \in Conns : d # c => conn'[d] = conn[d]
    BY <1>4 DEF Becomes
  <2>2. EpollLeads'
    BY <1>4, <2>1, EpollLeadsCloses DEF Polled
  <2> QED
    BY <1>4, <2>2 DEF Polled, Single
<1>5. ASSUME UNCHANGED <<setup, conn, poller, epoll>>, setup.subLoops # <<>>
      PROVE  Polled'
  BY <1>5 DEF Polled, EpollLeads, Single, NoForeignShutdown
<1>6. CASE RunDestroyed(l, c)
  <2>1. Runs(l, "Destroyed", c) /\ "Destroyed" \in Ops /\ setup' = setup
    BY <1>6, OpTypes DEF RunDestroyed
  <2>2. Born(c) /\ conn[c].loop = l /\ setup.subLoops # <<>>
    BY <2>1, RunsPlaced, WaitingFits
  <2>3. CASE conn[c].state \in {"Connected", "Disconnecting"}
    BY <1>4, <1>6, <2>1, <2>2, <2>3, DisabledEffect DEF RunDestroyed
  <2>4. CASE conn[c].state \notin {"Connected", "Disconnecting"}
    BY <1>5, <1>6, <2>1, <2>2, <2>4 DEF RunDestroyed
  <2> QED
    BY <2>3, <2>4
<1>7. CASE RunSend(l, c)
  BY <1>7, PolledBuffered DEF RunSend, Runs
<1>8. CASE RunShutdown(l, c)
  <2>1. /\ Runs(l, "Shutdown", c) /\ "Shutdown" \in Ops /\ ShutdownInLoop(c, conn[c].state)
        /\ UNCHANGED <<setup, m_connections, missed, closing>>
    BY <1>8, OpTypes DEF RunShutdown, Runs
  <2>2. Born(c) /\ conn[c].loop = l /\ Fits(Functor("Shutdown", c))
    BY <2>1, RunsPlaced, WaitingFits
  <2>3. ~NoForeignShutdown /\ closing[l] = None
    BY <2>1, <2>2 DEF Fits, Functor, Runs, Sound, Phases
  <2> QED
    BY <2>1, <2>2, <2>3, PolledShutdown
<1>9. CASE RunForceClose(l, c)
  <2>1. /\ Runs(l, "ForceClose", c) /\ "ForceClose" \in Ops /\ ForceCloseInLoop(l, c)
    BY <1>9, OpTypes DEF RunForceClose
  <2>2. Born(c) /\ conn[c].loop = l /\ setup.subLoops # <<>>
    BY <2>1, RunsPlaced, WaitingFits
  <2>3. setup' = setup
    BY <2>1, <2>2, EraseKept DEF ForceCloseInLoop
  <2>4. CASE conn[c].state \in {"Connected", "Disconnecting"}
    BY <1>4, <2>1, <2>2, <2>3, <2>4, DisabledEffect DEF ForceCloseInLoop
  <2>5. CASE conn[c].state \notin {"Connected", "Disconnecting"}
    BY <1>5, <2>1, <2>2, <2>3, <2>5 DEF ForceCloseInLoop
  <2> QED
    BY <2>4, <2>5
<1> QED
  BY <1>1, <1>2, <1>3, <1>6, <1>7, <1>8, <1>9

LEMMA NextPolled ==
    ASSUME Sound, Owned, StatesFit, Polled, [Next]_vars
    PROVE  Polled'
<1>0. Sound'
  BY NextSound
<1>1. ASSUME NEW c \in Conns, NEW f \in Fds, HandleNewConnection(c, f) PROVE Polled'
  BY <1>0, <1>1, PolledBears
<1>2. ASSUME UNCHANGED <<setup, conn, poller, epoll, m_connections, missed, closing>>
      PROVE  Polled'
  BY <1>2, PolledSame
<1>3. ASSUME NEW f \in Fds, KernelMoves(f) PROVE Polled'
  BY <1>2, <1>3 DEF KernelMoves, Peer
<1>4. ASSUME NEW l \in Loops, NEW f \in Fds, NEW c \in Conns, HangUp(l, f, c) PROVE Polled'
  BY <1>0, <1>4, PolledHangUp
<1>5. ASSUME NEW l \in Loops, NEW f \in Fds, NEW c \in Conns, ReadAndSend(l, f, c)
      PROVE  Polled'
  BY <1>0, <1>5, PolledBuffered DEF ReadAndSend
<1>6. ASSUME NEW l \in Loops, NEW f \in Fds, NEW c \in Conns, ReadAndShutdown(l, f, c)
      PROVE  Polled'
  <2>1. /\ Ready(l, f, c) /\ conn[c].open /\ ShutdownInLoop(c, "Disconnecting")
        /\ UNCHANGED <<setup, m_connections, missed, closing>>
    BY <1>6 DEF ReadAndShutdown
  <2>2. Born(c) /\ closing[conn[c].loop] = None
    BY <2>1, FieldsFit
  <2> QED
    BY <1>0, <2>1, <2>2, PolledShutdown
<1>7. ASSUME NEW l \in Loops, NEW f \in Fds, NEW c \in Conns, HandleWrite(l, f, c)
      PROVE  Polled'
  <2>1. Born(c) /\ "read" \in conn[c].events
    BY <1>7, FieldsFit DEF HandleWrite, StatesFit
  <2>2. /\ \A d \in Conns : conn'[d].open = conn[d].open /\ conn'[d].fd = conn[d].fd
        /\ UNCHANGED <<poller, epoll>>
    BY <1>7, <2>1, HandleWriteEffect DEF Becomes
  <2>3. UNCHANGED <<setup, m_connections, missed, closing>> /\ conn[c].open
    BY <1>7 DEF HandleWrite
  <2> QED
    BY <1>0, <2>1, <2>2, <2>3, PolledWatches
<1>8. ASSUME NEW l \in Loops, FinishClose(l) PROVE Polled'
  BY <1>0, <1>8, PolledFinishClose
<1>9. ASSUME NEW l \in Loops, StartBatch(l) \/ EndBatch(l) PROVE Polled'
  BY <1>2, <1>9 DEF StartBatch, EndBatch
<1>10. ASSUME NEW l \in Loops, RunFunctor(l) PROVE Polled'
  BY <1>0, <1>10, PolledRun
<1>11. ASSUME NEW c \in Conns, BeginSend(c) \/ BeginShutdown(c) PROVE Polled'
  BY <1>2, <1>11 DEF BeginSend, BeginShutdown, Begin
<1>12. ASSUME NEW c \in Conns, NEW op \in {"Send", "Shutdown", "ForceClose"}, EndCall(op, c)
       PROVE  Polled'
  <2>1. /\ Born(c)
        /\ \A d \in Conns : conn'[d].open = conn[d].open /\ conn'[d].fd = conn[d].fd
    BY <1>12, EndCallEffect DEF Becomes
  <2>2. UNCHANGED <<setup, m_connections, missed, closing, poller, epoll, kernel>>
    BY <1>12 DEF EndCall
  <2>3. NoForeignShutdown' <=> NoForeignShutdown
    BY <2>2 DEF NoForeignShutdown
  <2> QED
    BY <2>1, <2>2, <2>3 DEF Polled, EpollLeads, Single
<1>13. CASE BeginDestruction \/ QuitLoops \/ DestroySubLoops
  BY <1>2, <1>13 DEF BeginDestruction, QuitLoops, DestroySubLoops
<1>14. CASE ClearConnections
  <2>1. UNCHANGED <<setup, conn, poller, epoll>> /\ server = "quitting"
    BY <1>14 DEF ClearConnections
  <2>2. setup.subLoops # <<>>
    BY <2>1 DEF StatesFit
  <2> QED
    BY <2>1, <2>2 DEF Polled, EpollLeads, Single, NoForeignShutdown
<1>15. CASE UNCHANGED vars
  BY <1>2, <1>15 DEF vars
<1>16. ASSUME NEW c \in Conns, VisitConnection(c) PROVE Polled'
  BY <1>2, <1>16, VisitEffect
<1> QED
  BY PeerMoves, <1>16, <1>1, <1>3, <1>4, <1>5, <1>6, <1>7, <1>8, <1>9, <1>10, <1>11, <1>12, <1>13, <1>14,
     <1>15 DEF Next

LEMMA InitPolled == Init => Polled
BY DEF Init, Polled, EpollLeads, Single, Blank

-----------------------------------------------------------------------------
(***************************************************************************)
(* Established connections are watched.                                    *)
(***************************************************************************)
LEMMA QuietFacts ==
    ASSUME StatesFit, Quiet
    PROVE  /\ NoForeignShutdown /\ "shutdown" \notin setup.calls
           /\ server \in {"closing", "quitting", "cleared"} => FALSE
           /\ \A l \in Loops : \A x \in Functors : Waits(l, x) =>
                x.op \notin {"Shutdown", "ForceClose"}
           /\ \A x \in foreign : x.op \notin {"Shutdown", "ForceClose", "Visit"}
<1>1. NoForeignShutdown /\ "shutdown" \notin setup.calls /\ "destroy" \notin setup.calls
  BY DEF Quiet, NoForeignShutdown
<1> QED
  BY <1>1 DEF StatesFit, Fits, CallFits

LEMMA WatchedSame ==
    ASSUME Sound, WatchedOnly, setup' = setup,
           \A l \in Loops : \A f \in Fds : poller'[l][f] = poller[l][f],
           \A l \in Loops : \A f \in Fds : f \in epoll[l] => f \in epoll'[l],
           \A c \in Conns : /\ conn'[c].fd = conn[c].fd /\ conn'[c].loop = conn[c].loop
                            /\ conn'[c].state = conn[c].state
    PROVE  WatchedOnly'
<1>1. Quiet' <=> Quiet
  BY DEF Quiet
<1>2. \A c \in Conns : conn[c].state = "Connected" => conn[c].fd \in Fds /\ conn[c].loop \in Loops
  BY FieldsFit DEF Born
<1> QED
  BY <1>1, <1>2 DEF WatchedOnly, Listens

LEMMA WatchedBuffered ==
    ASSUME Sound, WatchedOnly, NEW c \in Conns, Buffered(c), setup' = setup
    PROVE  WatchedOnly'
<1>0. Quiet' <=> Quiet
  BY DEF Quiet
<1>1. CASE UNCHANGED <<conn, poller, epoll>>
  BY <1>1, WatchedSame
<1>2. CASE /\ conn[c].state = "Connected" /\ Born(c)
           /\ Becomes(c, "Connected", conn[c].open, conn[c].events \cup {"write"})
           /\ UNCHANGED <<poller, epoll>> \/ Watches(c)
  <2> SUFFICES ASSUME Quiet PROVE WatchedOnly'
    BY <1>0 DEF WatchedOnly
  <2>1. \A d \in Conns : /\ conn'[d].fd = conn[d].fd /\ conn'[d].loop = conn[d].loop
                         /\ conn'[d].state = conn[d].state
    BY <1>2 DEF Becomes
  <2>2. poller[conn[c].loop][conn[c].fd] # None
    BY <1>2, FieldsFit DEF WatchedOnly, Listens
  <2>3. /\ \A l \in Loops : \A f \in Fds : poller'[l][f] = poller[l][f]
        /\ \A l \in Loops : \A f \in Fds : f \in epoll[l] => f \in epoll'[l]
    BY <1>2, <2>2 DEF Watches
  <2> QED
    BY <2>1, <2>3, WatchedSame
<1> QED
  BY <1>1, <1>2, BufferedEffect

LEMMA WatchedHangUp ==
    ASSUME Sound, WatchedOnly, NEW l \in Loops, NEW f \in Fds, NEW c \in Conns, HangUp(l, f, c)
    PROVE  WatchedOnly'
<1>1. /\ Born(c) /\ conn[c].loop = l /\ conn[c].fd = f /\ HandleClose(l, c)
      /\ poller[l][f] = c /\ c # None
  BY FieldsFit DEF HangUp, Ready
<1>2. CASE conn[c].state = "Disconnected"
  BY <1>1, <1>2, WatchedSame DEF HandleClose
<1>3. CASE conn[c].state # "Disconnected"
  <2>1. /\ \A d \in Conns : d # c => conn'[d] = conn[d]
        /\ conn'[c].state = "Disconnected"
        /\ PollerForgets(c) /\ EpollDrops(c, FALSE)
    <3>1. /\ Becomes(c, "Disconnected", conn[c].open, {})
          /\ PollerForgets(c) /\ EpollDrops(c, FALSE)
      BY <1>1, <1>3, HandleCloseEffect
    <3> QED
      BY <3>1 DEF Becomes
  <2>2. setup' = setup
    BY <1>1 DEF HandleClose, EraseNow
  <2>3. Quiet' <=> Quiet
    BY <2>2 DEF Quiet
  <2>4. \A d \in Conns : Born(d) => conn[d].fd \in Fds /\ conn[d].loop \in Loops /\ d # None
    BY FieldsFit
  <2>5. ASSUME Quiet, NEW d \in Conns, conn'[d].state = "Connected"
        PROVE  Listens(d)'
    <3>1. d # c /\ conn'[d] = conn[d] /\ Born(d) /\ Listens(d)
      BY <2>1, <2>5 DEF WatchedOnly, Born
    <3>2. ~(conn[d].loop = l /\ conn[d].fd = f)
      BY <1>1, <3>1 DEF Listens
    <3> QED
      BY <1>1, <2>1, <2>4, <3>1, <3>2 DEF Listens, PollerForgets, EpollDrops
  <2>6. ASSUME Quiet, NEW d \in Conns, NEW k \in Loops, NEW g \in Fds, poller'[k][g] = d
        PROVE  conn'[d].state = "Connected"
    <3>1. poller[k][g] = d /\ ~(k = l /\ g = f)
      BY <1>1, <2>1, <2>6, FieldsFit DEF PollerForgets
    <3>2. d # c
      BY <1>1, <3>1 DEF Sound, Lead
    <3> QED
      BY <2>1, <2>6, <3>1, <3>2 DEF WatchedOnly
  <2> QED
    BY <2>3, <2>5, <2>6 DEF WatchedOnly
<1> QED
  BY <1>2, <1>3

LEMMA WatchedFinishClose ==
    ASSUME Sound, Owned, StatesFit, WatchedOnly, NEW l \in Loops, FinishClose(l)
    PROVE  WatchedOnly'
<1>1. PICK c \in Conns : closing[l] = c
  BY DEF FinishClose, Sound, Typed, TypeOK
<1>2. /\ Born(c) /\ conn[c].loop = l
      /\ \A d \in Conns : /\ conn'[d].fd = conn[d].fd /\ conn'[d].loop = conn[d].loop
                          /\ conn'[d].state = conn[d].state
      /\ conn[c].open => EpollDrops(c, TRUE)
      /\ ~conn[c].open => epoll' = epoll
  BY <1>1, FinishCloseEffect DEF Becomes
<1>3. UNCHANGED <<setup, poller>>
  BY DEF FinishClose
<1>4. conn[c].state # "Connected"
  BY <1>1 DEF StatesFit
<1>5. \A d \in Conns : conn[d].state = "Connected" =>
        conn[d].fd \in Fds /\ conn[d].loop \in Loops /\ conn[d].open
  BY FieldsFit DEF Born, StatesFit
<1>6. ASSUME Quiet, NEW d \in Conns, conn[d].state = "Connected"
      PROVE  Listens(d)'
  <2>1. Listens(d)
    BY <1>6 DEF WatchedOnly
  <2>2. conn[c].open => conn[d].fd # conn[c].fd
    BY <1>4, <1>5, <1>6 DEF Owned
  <2>3. conn[d].fd \in epoll'[conn[d].loop]
    <3>1. CASE conn[c].open
      BY <1>2, <1>5, <1>6, <2>1, <2>2, <3>1 DEF Listens, EpollDrops
    <3>2. CASE ~conn[c].open
      BY <1>2, <2>1, <3>2 DEF Listens
    <3> QED
      BY <3>1, <3>2
  <2> QED
    BY <1>2, <1>3, <2>1, <2>3 DEF Listens
<1>7. Quiet' <=> Quiet
  BY <1>3 DEF Quiet
<1> QED
  BY <1>2, <1>3, <1>6, <1>7 DEF WatchedOnly

LEMMA EstablishedWatches ==
    ASSUME Sound, NEW l \in Loops, NEW c \in Conns, RunEstablished(l, c)
    PROVE  Watches(c)
<1>1. Born(c) /\ conn[c].loop = l
  BY RunEstablishedEffect
<1>2. l \in Loops /\ conn[c].fd \in Fds /\ c # None
  BY <1>1, FieldsFit
<1>3. poller \in [Loops -> [Fds -> Conns \cup {None}]]
  BY DEF Sound, Typed, TypeOK
<1> DEFINE ev == conn[c].events \cup {"read"}
           f == conn[c].fd
<1>4. poller' = PollerWith(l, f, c, ev) /\ epoll' = EpollWith(l, f, ev) /\ ev # {}
  BY DEF RunEstablished
<1>5. f \in Fds /\ f = conn[c].fd
  BY <1>2
<1> HIDE DEF ev, f
<1>6. \A k \in Loops : \A g \in Fds : poller'[k][g] =
        IF poller[l][f] = None /\ k = l /\ g = f THEN c ELSE poller[k][g]
  BY <1>2, <1>3, <1>4, <1>5 DEF PollerWith
<1>7. \A k \in Loops : \A g \in Fds : g \in epoll'[k] <=>
        \/ g \in epoll[k]
        \/ poller[l][f] = None /\ k = l /\ g = f /\ kernel[g] # "free"
  BY <1>4, <1>5, EpollWithType
<1> QED
  BY <1>1, <1>5, <1>6, <1>7 DEF Watches

LEMMA WatchedEstablished ==
    ASSUME Sound, Owned, StatesFit, WatchedOnly, NEW l \in Loops, NEW c \in Conns,
           RunEstablished(l, c)
    PROVE  WatchedOnly'
<1>1. /\ Born(c) /\ conn[c].loop = l
      /\ \A d \in Conns : d # c => conn'[d] = conn[d]
      /\ conn'[c].fd = conn[c].fd /\ conn'[c].loop = conn[c].loop
      /\ conn'[c].state = "Connected"
  BY RunEstablishedEffect DEF Becomes
<1>2. Watches(c) /\ setup' = setup
  BY EstablishedWatches DEF RunEstablished
<1>3. conn[c].state = "Connecting" /\ conn[c].open /\ conn[c].fd \in Fds /\ c # None
  <2>1. Runs(l, "Established", c) /\ "Established" \in Ops
    BY OpTypes DEF RunEstablished
  <2> QED
    BY <1>1, <2>1, WaitingFits, FieldsFit DEF StatesFit
<1>4. kernel[conn[c].fd] # "free"
  BY <1>3 DEF Owned
<1>0. Quiet' <=> Quiet
  BY <1>2 DEF Quiet
<1>5. ASSUME Quiet
      PROVE  poller[l][conn[c].fd] = None
  <2> SUFFICES ASSUME poller[l][conn[c].fd] # None PROVE FALSE
    OBVIOUS
  <2>1. PICK d \in Conns : poller[l][conn[c].fd] = d
    BY <1>3 DEF Sound, Typed, TypeOK
  <2>2. conn[d].state = "Connected" /\ conn[d].fd = conn[c].fd
    BY <1>3, <1>5, <2>1 DEF WatchedOnly, Sound, Lead
  <2>3. conn[d].open
    BY <2>2 DEF StatesFit
  <2> QED
    BY <1>3, <2>2, <2>3 DEF Owned
<1>6. ASSUME Quiet, NEW d \in Conns, conn'[d].state = "Connected"
      PROVE  Listens(d)'
  <2>1. CASE d = c
    BY <1>1, <1>2, <1>3, <1>4, <1>5, <1>6, <2>1 DEF Listens, Watches
  <2>2. CASE d # c
    <3>1. /\ conn'[d] = conn[d] /\ Listens(d) /\ conn[d].fd \in Fds /\ conn[d].loop \in Loops
          /\ d # None
      BY <1>1, <1>6, <2>2, FieldsFit DEF WatchedOnly, Born
    <3>2. ~(conn[d].loop = l /\ conn[d].fd = conn[c].fd)
      BY <1>5, <1>6, <3>1 DEF Listens
    <3> QED
      BY <1>1, <1>2, <3>1, <3>2 DEF Listens, Watches
  <2> QED
    BY <2>1, <2>2
<1>7. ASSUME Quiet, NEW d \in Conns, NEW k \in Loops, NEW g \in Fds, poller'[k][g] = d
      PROVE  conn'[d].state = "Connected"
  <2>1. d = c \/ poller[k][g] = d
    BY <1>2, <1>7 DEF Watches
  <2> QED
    BY <1>1, <1>7, <2>1 DEF WatchedOnly
<1> QED
  BY <1>0, <1>6, <1>7 DEF WatchedOnly

LEMMA WatchedBears ==
    ASSUME Sound, Sound', Owned, StatesFit, WatchedOnly, NEW c \in Conns, NEW f \in Fds,
           HandleNewConnection(c, f)
    PROVE  WatchedOnly'
<1>1. Bears(c, f)
  BY NewConnection
<1>2. /\ ~Born(c) /\ kernel[f] = "free" /\ setup' = setup
      /\ \A d \in Conns : d # c => conn'[d] = conn[d]
      /\ conn'[c].fd = f /\ conn'[c].loop = NextLoop
  BY <1>1 DEF Bears
<1>0. Quiet' <=> Quiet
  BY <1>2 DEF Quiet
<1>3. \A d \in Conns : conn[d].state = "Connected" =>
        /\ d # c /\ d # None /\ conn[d].fd \in Fds /\ conn[d].loop \in Loops
        /\ conn[d].open /\ conn[d].fd # f
  BY <1>2, FieldsFit DEF Born, StatesFit, Owned
<1>4. \A k \in Loops : \A g \in Fds : poller[k][g] # c
  BY <1>2 DEF Sound, Lead
<1>5. CASE setup.subLoops # <<>>
  <2>1. poller' = poller /\ epoll' = epoll /\ conn'[c].state = "Connecting"
    BY <1>1, <1>5 DEF Bears
  <2> QED
    BY <1>0, <1>2, <1>3, <1>4, <2>1 DEF WatchedOnly, Listens
<1>6. CASE setup.subLoops = <<>>
  <2>1. conn'[c].state = "Connected" /\ conn'[c].loop = Main /\ Main \in Loops
    BY <1>1, <1>2, <1>6, SetupFacts DEF Bears, Sound, Typed
  <2>2. ASSUME Quiet PROVE poller[Main][f] = None
    <3> SUFFICES ASSUME poller[Main][f] # None PROVE FALSE
      OBVIOUS
    <3>1. PICK d \in Conns : poller[Main][f] = d
      BY <2>1 DEF Sound, Typed, TypeOK
    <3>2. conn[d].state = "Connected" /\ conn[d].fd = f
      BY <2>1, <2>2, <3>1 DEF WatchedOnly, Sound, Lead
    <3> QED
      BY <1>3, <3>2
  <2>3. ASSUME Quiet
        PROVE  /\ \A l \in Loops : \A g \in Fds : poller'[l][g] =
                    IF l = Main /\ g = f THEN c ELSE poller[l][g]
               /\ \A l \in Loops : epoll'[l] =
                    IF l = Main THEN epoll[l] \cup {f} ELSE epoll[l]
    <3> DEFINE b == Replaced(f) # None \/ poller[Main][f] = None
    <3>1. /\ \A l \in Loops : \A g \in Fds : poller'[l][g] =
               IF l = Main /\ g = f /\ b THEN c ELSE poller[l][g]
          /\ \A l \in Loops : epoll'[l] =
               IF l = Main /\ b THEN epoll[l] \cup {f} ELSE epoll[l]
      BY <1>6, NewConnectionPoller
    <3>2. b
      BY <2>2, <2>3
    <3> HIDE DEF b
    <3> QED
      BY <3>1, <3>2
  <2>4. ASSUME Quiet, NEW d \in Conns, conn'[d].state = "Connected"
        PROVE  Listens(d)'
    <3>1. CASE d = c
      BY <1>2, <2>1, <2>3, <2>4, <3>1 DEF Listens
    <3>2. CASE d # c
      <4>1. conn'[d] = conn[d] /\ Listens(d)
        BY <1>2, <2>4, <3>2 DEF WatchedOnly
      <4>2. /\ conn[d].fd \in Fds /\ conn[d].loop \in Loops /\ conn[d].fd # f
            /\ conn[d].fd \in epoll[conn[d].loop] /\ poller[conn[d].loop][conn[d].fd] = d
        BY <1>2, <1>3, <2>4, <3>2, <4>1 DEF Listens
      <4>3. poller'[conn[d].loop][conn[d].fd] = d /\ conn[d].fd \in epoll'[conn[d].loop]
        BY <2>3, <2>4, <4>2
      <4> QED
        BY <4>1, <4>3 DEF Listens
    <3> QED
      BY <3>1, <3>2
  <2>5. ASSUME Quiet, NEW d \in Conns, NEW k \in Loops, NEW g \in Fds, poller'[k][g] = d
        PROVE  conn'[d].state = "Connected"
    <3>1. d = c \/ (d # c /\ poller[k][g] = d)
      BY <1>4, <2>3, <2>5
    <3> QED
      BY <1>2, <2>1, <2>5, <3>1 DEF WatchedOnly
  <2> QED
    BY <1>0, <2>4, <2>5 DEF WatchedOnly
<1> QED
  BY <1>5, <1>6

LEMMA NextWatched ==
    ASSUME Sound, Owned, StatesFit, WatchedOnly, [Next]_vars
    PROVE  WatchedOnly'
<1>0. Sound'
  BY NextSound
<1>1. ASSUME NEW c \in Conns, NEW f \in Fds, HandleNewConnection(c, f) PROVE WatchedOnly'
  BY <1>0, <1>1, WatchedBears
<1>2. ASSUME UNCHANGED <<setup, conn, poller, epoll>>
      PROVE  WatchedOnly'
  BY <1>2, WatchedSame
<1>20. ASSUME setup' = setup, ~Quiet
       PROVE  WatchedOnly'
  BY <1>20 DEF WatchedOnly, Quiet
<1>3. ASSUME NEW f \in Fds, KernelMoves(f) PROVE WatchedOnly'
  BY <1>2, <1>3 DEF KernelMoves, Peer
<1>4. ASSUME NEW l \in Loops, NEW f \in Fds, NEW c \in Conns, HangUp(l, f, c)
      PROVE  WatchedOnly'
  BY <1>4, WatchedHangUp
<1>5. ASSUME NEW l \in Loops, NEW f \in Fds, NEW c \in Conns, ReadAndSend(l, f, c)
      PROVE  WatchedOnly'
  BY <1>5, WatchedBuffered DEF ReadAndSend
<1>6. ASSUME NEW l \in Loops, NEW f \in Fds, NEW c \in Conns, ReadAndShutdown(l, f, c)
      PROVE  WatchedOnly'
  BY <1>6, <1>20 DEF ReadAndShutdown, Quiet
<1>7. ASSUME NEW l \in Loops, NEW f \in Fds, NEW c \in Conns, HandleWrite(l, f, c)
      PROVE  WatchedOnly'
  <2>1. conn[c].state = "Connected" /\ "read" \in conn[c].events
    BY <1>7 DEF HandleWrite, StatesFit
  <2>2. /\ \A d \in Conns : /\ conn'[d].fd = conn[d].fd /\ conn'[d].loop = conn[d].loop
                            /\ conn'[d].state = conn[d].state
        /\ UNCHANGED <<poller, epoll>>
    BY <1>7, <2>1, HandleWriteEffect DEF Becomes
  <2>3. setup' = setup
    BY <1>7 DEF HandleWrite
  <2> QED
    BY <2>2, <2>3, WatchedSame
<1>8. ASSUME NEW l \in Loops, FinishClose(l) PROVE WatchedOnly'
  BY <1>8, WatchedFinishClose
<1>9. ASSUME NEW l \in Loops, StartBatch(l) \/ EndBatch(l) PROVE WatchedOnly'
  BY <1>2, <1>9 DEF StartBatch, EndBatch
<1>10. ASSUME NEW l \in Loops, RunFunctor(l) PROVE WatchedOnly'
  <2>1. PICK c \in Conns : \/ RunEstablished(l, c) \/ (l = Main /\ RunRemove(c))
                           \/ RunDestroyed(l, c) \/ RunSend(l, c) \/ RunShutdown(l, c)
                           \/ RunForceClose(l, c)
    BY <1>10 DEF RunFunctor
  <2>2. CASE RunEstablished(l, c)
    BY <2>2, WatchedEstablished
  <2>3. CASE RunRemove(c)
    BY <1>2, <2>3 DEF RunRemove, EraseNow
  <2>4. CASE RunSend(l, c)
    BY <2>4, WatchedBuffered DEF RunSend
  <2>5. CASE RunDestroyed(l, c)
    <3>1. Runs(l, "Destroyed", c) /\ "Destroyed" \in Ops /\ setup' = setup
      BY <2>5, OpTypes DEF RunDestroyed
    <3>2. CASE ~Quiet
      BY <1>20, <3>1, <3>2
    <3>3. CASE Quiet
      <4>1. server = "up" /\ NoForeignShutdown
        BY <3>1, <3>3, QuietFacts DEF Runs, Running, Sound, Typed, TypeOK
      <4>2. Fits(Functor("Destroyed", c))
        BY <3>1, WaitingFits
      <4>3. conn[c].state = "Disconnected"
        BY <4>1, <4>2 DEF Fits, Functor
      <4> QED
        BY <1>2, <2>5, <3>1, <4>3 DEF RunDestroyed
    <3> QED
      BY <3>2, <3>3
  <2>6. CASE RunShutdown(l, c)
    <3>1. Runs(l, "Shutdown", c) /\ "Shutdown" \in Ops /\ setup' = setup
      BY <2>6, OpTypes DEF RunShutdown
    <3>2. Fits(Functor("Shutdown", c))
      BY <3>1, WaitingFits
    <3>3. ~Quiet
      BY <3>2 DEF Fits, Functor, NoForeignShutdown, Quiet
    <3> QED
      BY <1>20, <3>1, <3>3
  <2>7. CASE RunForceClose(l, c)
    <3>1. Runs(l, "ForceClose", c) /\ "ForceClose" \in Ops /\ setup' = setup
      BY <2>7, OpTypes DEF RunForceClose, ForceCloseInLoop, EraseNow
    <3>2. Fits(Functor("ForceClose", c))
      BY <3>1, WaitingFits
    <3>3. ~Quiet
      BY <3>2 DEF Fits, Functor, Quiet
    <3> QED
      BY <1>20, <3>1, <3>3
  <2> QED
    BY <2>1, <2>2, <2>3, <2>4, <2>5, <2>6, <2>7
<1>11. ASSUME NEW c \in Conns, BeginSend(c) \/ BeginShutdown(c) PROVE WatchedOnly'
  BY <1>2, <1>11 DEF BeginSend, BeginShutdown, Begin
<1>12. ASSUME NEW c \in Conns, NEW op \in {"Send", "Shutdown", "ForceClose"}, EndCall(op, c)
       PROVE  WatchedOnly'
  <2>1. UNCHANGED <<setup, poller, epoll>> /\ ForeignCall(op, c) \in foreign
    BY <1>12 DEF EndCall
  <2>2. CASE op = "Send"
    BY <1>2, <1>12, <2>1, <2>2, EndCallEffect
  <2>3. CASE op # "Send"
    <3>1. CallFits(ForeignCall(op, c))
      BY <2>1 DEF StatesFit
    <3>2. ~Quiet
      BY <2>3, <3>1 DEF CallFits, ForeignCall, NoForeignShutdown, Quiet
    <3> QED
      BY <1>20, <2>1, <3>2
  <2> QED
    BY <2>2, <2>3
<1>13. CASE BeginDestruction \/ QuitLoops \/ DestroySubLoops \/ ClearConnections
  BY <1>2, <1>13 DEF BeginDestruction, QuitLoops, DestroySubLoops, ClearConnections
<1>14. CASE UNCHANGED vars
  BY <1>2, <1>14 DEF vars
<1>15. ASSUME NEW c \in Conns, VisitConnection(c) PROVE WatchedOnly'
  BY <1>2, <1>15, VisitEffect
<1> QED
  BY PeerMoves, <1>15, <1>1, <1>3, <1>4, <1>5, <1>6, <1>7, <1>8, <1>9, <1>10, <1>11, <1>12, <1>13, <1>14 DEF Next

LEMMA InitWatched == Init => WatchedOnly
<1> SUFFICES ASSUME Init PROVE WatchedOnly
  OBVIOUS
<1>1. \A c \in Conns : conn[c].state = "Unborn" /\ c # None
  BY SetupFacts DEF Init, Blank
<1>2. \A l \in Loops : \A f \in Fds : poller[l][f] = None
  BY DEF Init
<1> QED
  BY <1>1, <1>2 DEF WatchedOnly

-----------------------------------------------------------------------------
(***************************************************************************)
(* What keeps a connection alive.                                          *)
(***************************************************************************)
\* A functor waits until it is run.
Consumes(k, x) ==
    /\ phase[k] = "run"
    /\ \/ x.op = "Established" /\ RunEstablished(k, x.conn)
       \/ x.op = "Remove" /\ k = Main /\ RunRemove(x.conn)
       \/ x.op = "Destroyed" /\ RunDestroyed(k, x.conn)
       \/ x.op \in {"Send", "Shutdown", "ForceClose"}

LEMMA RunWaits ==
    ASSUME Sound, NEW l \in Loops, RunFunctor(l), NEW k \in Loops, NEW x \in Functors,
           Waits(k, x), ~Consumes(k, x)
    PROVE  Waits(k, x)'
<1>1. PICK c \in Conns : \/ RunEstablished(l, c) \/ (l = Main /\ RunRemove(c))
                         \/ RunDestroyed(l, c) \/ RunSend(l, c) \/ RunShutdown(l, c)
                         \/ RunForceClose(l, c)
  BY DEF RunFunctor
<1>2. ASSUME NEW op \in Ops, Runs(l, op, c), x # Functor(op, c) \/ k # l,
             \/ pending' = pending
             \/ \E m \in Loops : \E f \in Functors : Placed(m, f) /\ pending' = Post(m, f)
      PROVE  Waits(k, x)'
  BY <1>2, QueuesRun, QueuesRunPost DEF Sound
<1>3. \A op \in Ops : Functor(op, c).op = op /\ Functor(op, c).conn = c
  BY DEF Functor
<1>4. CASE RunEstablished(l, c)
  <2>1. Runs(l, "Established", c) /\ pending' = pending /\ phase[l] = "run"
    BY <1>4 DEF RunEstablished, Runs
  <2>2. x # Functor("Established", c) \/ k # l
    BY <1>3, <1>4, <2>1, OpTypes DEF Consumes
  <2> QED
    BY <1>2, <2>1, <2>2, OpTypes
<1>5. CASE l = Main /\ RunRemove(c)
  <2>1. /\ Runs(l, "Remove", c) /\ phase[l] = "run"
        /\ pending' = Post(conn[c].loop, Functor("Destroyed", c))
    BY <1>5 DEF RunRemove, Runs
  <2>2. x # Functor("Remove", c) \/ k # l
    BY <1>3, <1>5, <2>1, OpTypes DEF Consumes
  <2>3. /\ conn[c].loop \in Loops /\ Functor("Destroyed", c) \in Functors
        /\ Placed(conn[c].loop, Functor("Destroyed", c))
    BY <2>1, RunsPlaced, OpTypes, FunctorType DEF Placed
  <2> QED
    BY <1>2, <2>1, <2>2, <2>3, OpTypes
<1>6. CASE RunDestroyed(l, c)
  <2>1. Runs(l, "Destroyed", c) /\ pending' = pending /\ phase[l] = "run"
    BY <1>6 DEF RunDestroyed, Runs
  <2>2. x # Functor("Destroyed", c) \/ k # l
    BY <1>3, <1>6, <2>1, OpTypes DEF Consumes
  <2> QED
    BY <1>2, <2>1, <2>2, OpTypes
<1>7. CASE RunSend(l, c) \/ RunShutdown(l, c)
  <2>1. PICK op \in {"Send", "Shutdown"} : Runs(l, op, c)
    BY <1>7 DEF RunSend, RunShutdown
  <2>2. phase[l] = "run" /\ pending' = pending /\ op \in Ops
    BY <1>7, <2>1, OpTypes DEF RunSend, RunShutdown, Runs
  <2>3. x # Functor(op, c) \/ k # l
    BY <1>3, <2>1, <2>2 DEF Consumes
  <2> QED
    BY <1>2, <2>1, <2>2, <2>3
<1>8. CASE RunForceClose(l, c)
  <2>1. /\ Runs(l, "ForceClose", c) /\ phase[l] = "run"
        /\ pending' = pending \/ pending' = Post(Main, Functor("Remove", c))
    BY <1>8 DEF RunForceClose, ForceCloseInLoop, Runs
  <2>2. x # Functor("ForceClose", c) \/ k # l
    BY <1>3, <2>1, OpTypes DEF Consumes
  <2>3. /\ Main \in Loops /\ Functor("Remove", c) \in Functors
        /\ Placed(Main, Functor("Remove", c))
    BY <2>1, RunsPlaced, OpTypes, FunctorType, SetupFacts DEF Placed, Sound, Typed
  <2> QED
    BY <1>2, <2>1, <2>2, <2>3, OpTypes
<1> QED
  BY <1>1, <1>4, <1>5, <1>6, <1>7, <1>8

LEMMA NextWaits ==
    ASSUME Sound, [Next]_vars, NEW k \in Loops, NEW x \in Functors, Waits(k, x), ~Consumes(k, x)
    PROVE  Waits(k, x)'
<1>1. ASSUME UNCHANGED <<pending, batch, at>> PROVE Waits(k, x)'
  BY <1>1, QueuesSame DEF Sound
<1>2. ASSUME NEW l \in Loops, NEW f \in Functors, pending' = Post(l, f), UNCHANGED <<batch, at>>
      PROVE  Waits(k, x)'
  BY <1>2, PostPends DEF Sound, Waits, Remains
<1>3. ASSUME NEW c \in Conns, NEW f \in Fds, HandleNewConnection(c, f) PROVE Waits(k, x)'
  <2>1. Bears(c, f)
    BY <1>3, NewConnection
  <2>2. CASE setup.subLoops # <<>>
    BY <1>2, <2>1, <2>2, FunctorType, OpTypes DEF Bears
  <2>3. CASE setup.subLoops = <<>>
    BY <1>1, <2>1, <2>3 DEF Bears
  <2> QED
    BY <2>2, <2>3
<1>4. ASSUME NEW f \in Fds, KernelMoves(f) PROVE Waits(k, x)'
  BY <1>1, <1>4 DEF KernelMoves, Peer
<1>5. ASSUME NEW l \in Loops, NEW f \in Fds, NEW c \in Conns, HangUp(l, f, c)
      PROVE  Waits(k, x)'
  <2>1. /\ pending' = pending \/ pending' = Post(Main, Functor("Remove", c))
        /\ UNCHANGED <<batch, at>>
    BY <1>5 DEF HangUp, HandleClose
  <2>2. Main \in Loops /\ Functor("Remove", c) \in Functors
    BY FunctorType, OpTypes, SetupFacts DEF Sound, Typed
  <2> QED
    BY <1>1, <1>2, <2>1, <2>2
<1>6. ASSUME NEW l \in Loops, NEW f \in Fds, NEW c \in Conns,
             ReadAndSend(l, f, c) \/ ReadAndShutdown(l, f, c) \/ HandleWrite(l, f, c)
      PROVE  Waits(k, x)'
  BY <1>1, <1>6 DEF ReadAndSend, ReadAndShutdown, HandleWrite
<1>7. ASSUME NEW l \in Loops, FinishClose(l) PROVE Waits(k, x)'
  BY <1>1, <1>7 DEF FinishClose
<1>8. ASSUME NEW l \in Loops, StartBatch(l) \/ EndBatch(l) PROVE Waits(k, x)'
  BY <1>8, StartBatchWaits, EndBatchWaits DEF Sound
<1>9. ASSUME NEW l \in Loops, RunFunctor(l) PROVE Waits(k, x)'
  BY <1>9, RunWaits
<1>10. ASSUME NEW c \in Conns, BeginSend(c) \/ BeginShutdown(c) PROVE Waits(k, x)'
  BY <1>1, <1>10 DEF BeginSend, BeginShutdown, Begin
<1>11. ASSUME NEW c \in Conns, NEW op \in {"Send", "Shutdown", "ForceClose"}, EndCall(op, c)
       PROVE  Waits(k, x)'
  BY <1>11, EndCallEffect
<1>12. CASE BeginDestruction \/ QuitLoops \/ ClearConnections \/ DestroySubLoops
  BY <1>1, <1>12 DEF BeginDestruction, QuitLoops, ClearConnections, DestroySubLoops
<1>13. CASE UNCHANGED vars
  BY <1>1, <1>13 DEF vars
<1>14. ASSUME NEW c \in Conns, VisitConnection(c) PROVE Waits(k, x)'
  BY <1>1, <1>14, VisitEffect
<1> QED
  BY PeerMoves, <1>14, <1>3, <1>4, <1>5, <1>6, <1>7, <1>8, <1>9, <1>10, <1>11, <1>12, <1>13 DEF Next

LEMMA NextBorn ==
    ASSUME Sound, [Next]_vars, NEW d \in Conns, Born(d)', ~Born(d)
    PROVE  \E f \in Fds : HandleNewConnection(d, f)
<1>1. ASSUME conn' = conn PROVE FALSE
  BY <1>1 DEF Born
<1>2. ASSUME NEW c \in Conns, Born(c), \A b \in Conns : b # c => conn'[b] = conn[b]
      PROVE  FALSE
  BY <1>2 DEF Born
<1>3. ASSUME NEW c \in Conns, NEW f \in Fds, HandleNewConnection(c, f)
      PROVE  d = c
  BY <1>3, NewConnection DEF Bears, Born
<1>4. ASSUME NEW f \in Fds, KernelMoves(f) PROVE FALSE
  BY <1>1, <1>4 DEF KernelMoves, Peer
<1>5. ASSUME NEW l \in Loops, NEW f \in Fds, NEW c \in Conns,
             \/ HangUp(l, f, c) \/ ReadAndSend(l, f, c) \/ ReadAndShutdown(l, f, c)
             \/ HandleWrite(l, f, c)
      PROVE  FALSE
  <2>1. Born(c)
    BY <1>5, FieldsFit DEF HangUp, ReadAndSend, ReadAndShutdown, HandleWrite
  <2>2. \A b \in Conns : b # c => conn'[b] = conn[b]
    BY <1>5 DEF HangUp, HandleClose, ReadAndSend, Buffered, ReadAndShutdown, ShutdownInLoop,
                HandleWrite, Sound, Typed, TypeOK
  <2> QED
    BY <1>2, <2>1, <2>2
<1>6. ASSUME NEW l \in Loops, FinishClose(l) PROVE FALSE
  <2>1. PICK c \in Conns : closing[l] = c
    BY <1>6 DEF FinishClose, Sound, Typed, TypeOK
  <2> QED
    BY <1>2, <1>6, <2>1, FinishCloseEffect DEF Becomes
<1>7. ASSUME NEW l \in Loops, StartBatch(l) \/ EndBatch(l) PROVE FALSE
  BY <1>1, <1>7 DEF StartBatch, EndBatch
<1>8. ASSUME NEW l \in Loops, RunFunctor(l) PROVE FALSE
  <2>1. PICK c \in Conns : \/ RunEstablished(l, c) \/ (l = Main /\ RunRemove(c))
                           \/ RunDestroyed(l, c) \/ RunSend(l, c) \/ RunShutdown(l, c)
                           \/ RunForceClose(l, c)
    BY <1>8 DEF RunFunctor
  <2>2. PICK op \in Ops : Runs(l, op, c)
    BY <2>1, OpTypes DEF RunEstablished, RunRemove, RunDestroyed, RunSend, RunShutdown,
                         RunForceClose
  <2>3. Born(c)
    BY <2>2, RunsPlaced
  <2>4. \A b \in Conns : b # c => conn'[b] = conn[b]
    BY <2>1 DEF RunEstablished, RunRemove, RunDestroyed, RunSend, Buffered, RunShutdown,
                ShutdownInLoop, RunForceClose, ForceCloseInLoop, Sound, Typed, TypeOK
  <2> QED
    BY <1>2, <2>3, <2>4
<1>9. ASSUME NEW c \in Conns, BeginSend(c) \/ BeginShutdown(c) PROVE FALSE
  BY <1>1, <1>9 DEF BeginSend, BeginShutdown, Begin
<1>10. ASSUME NEW c \in Conns, NEW op \in {"Send", "Shutdown", "ForceClose"}, EndCall(op, c)
       PROVE  FALSE
  BY <1>1, <1>2, <1>10, EndCallEffect DEF Becomes
<1>11. CASE BeginDestruction \/ QuitLoops \/ ClearConnections \/ DestroySubLoops
  BY <1>1, <1>11 DEF BeginDestruction, QuitLoops, ClearConnections, DestroySubLoops
<1>12. CASE UNCHANGED vars
  BY <1>1, <1>12 DEF vars
<1>13. ASSUME NEW c \in Conns, VisitConnection(c) PROVE FALSE
  BY <1>1, <1>13, VisitEffect
<1> QED
  BY PeerMoves, <1>13, <1>3, <1>4, <1>5, <1>6, <1>7, <1>8, <1>9, <1>10, <1>11, <1>12 DEF Next

LEMMA SetupStays ==
    ASSUME Sound, [Next]_vars
    PROVE  setup' = setup /\ userRefs \subseteq userRefs'
<1>1. ASSUME NEW c \in Conns, NEW f \in Fds, HandleNewConnection(c, f)
      PROVE  setup' = setup /\ userRefs \subseteq userRefs'
  BY <1>1 DEF HandleNewConnection
<1>2. ASSUME NEW l \in Loops, RunFunctor(l)
      PROVE  setup' = setup /\ userRefs \subseteq userRefs'
  BY <1>2 DEF RunFunctor, RunEstablished, RunRemove, EraseNow, RunDestroyed, RunSend,
              RunShutdown, RunForceClose, ForceCloseInLoop
<1>3. ASSUME NEW f \in Fds, KernelMoves(f) PROVE UNCHANGED <<setup, userRefs>>
  BY <1>3 DEF KernelMoves, Peer
<1>4. ASSUME NEW l \in Loops, NEW f \in Fds, NEW c \in Conns,
             \/ HangUp(l, f, c) \/ ReadAndSend(l, f, c) \/ ReadAndShutdown(l, f, c)
             \/ HandleWrite(l, f, c)
      PROVE  UNCHANGED <<setup, userRefs>>
  BY <1>4 DEF HangUp, HandleClose, EraseNow, ReadAndSend, ReadAndShutdown, HandleWrite
<1>5. ASSUME NEW l \in Loops, FinishClose(l) \/ StartBatch(l) \/ EndBatch(l)
      PROVE  UNCHANGED <<setup, userRefs>>
  BY <1>5 DEF FinishClose, StartBatch, EndBatch
<1>6. ASSUME NEW c \in Conns, BeginSend(c) \/ BeginShutdown(c)
      PROVE  UNCHANGED <<setup, userRefs>>
  BY <1>6 DEF BeginSend, BeginShutdown, Begin
<1>7. ASSUME NEW c \in Conns, NEW op \in {"Send", "Shutdown", "ForceClose"}, EndCall(op, c)
      PROVE  UNCHANGED <<setup, userRefs>>
  BY <1>7 DEF EndCall
<1>8. CASE BeginDestruction \/ QuitLoops \/ ClearConnections \/ DestroySubLoops
  BY <1>8 DEF BeginDestruction, QuitLoops, ClearConnections, DestroySubLoops
<1>9. CASE UNCHANGED vars
  BY <1>9 DEF vars
<1>10. ASSUME NEW c \in Conns, VisitConnection(c) PROVE UNCHANGED <<setup, userRefs>>
  BY <1>10, VisitEffect
<1> QED
  BY PeerMoves, <1>10, <1>1, <1>2, <1>3, <1>4, <1>5, <1>6, <1>7, <1>8, <1>9 DEF Next

LEMMA NextKept ==
    ASSUME Sound, Kept, [Next]_vars
    PROVE  Kept'
<1>1. setup' = setup /\ userRefs \subseteq userRefs'
  BY SetupStays
<1> SUFFICES ASSUME setup.keepsRefs, NEW c \in Conns, Born(c)'
             PROVE  c \in userRefs' \/ \E l \in Loops : Waits(l, Functor("Established", c))'
  BY <1>1 DEF Kept
<1> DEFINE x == Functor("Established", c)
<1>2. x \in Functors /\ x.op = "Established" /\ x.conn = c
  BY FunctorType, OpTypes
<1>3. CASE Born(c)
  <2>1. CASE c \in userRefs
    BY <1>1, <2>1
  <2>2. CASE c \notin userRefs
    <3>1. PICK l \in Loops : Waits(l, x)
      BY <1>3, <2>2 DEF Kept
    <3>2. CASE Consumes(l, x)
      <4>1. RunEstablished(l, c)
        BY <1>2, <3>2 DEF Consumes
      <4> QED
        BY <4>1 DEF RunEstablished
    <3>3. CASE ~Consumes(l, x)
      BY <1>2, <3>1, <3>3, NextWaits
    <3> QED
      BY <3>2, <3>3
  <2> QED
    BY <2>1, <2>2
<1>4. CASE ~Born(c)
  <2>1. PICK f \in Fds : HandleNewConnection(c, f)
    BY <1>4, NextBorn
  <2>2. Bears(c, f)
    BY <2>1, NewConnection
  <2>3. CASE setup.subLoops = <<>>
    BY <2>1, <2>3, NewConnectionPoller
  <2>4. CASE setup.subLoops # <<>>
    <3>1. PICK k \in Loops : pending' = Post(k, x)
      BY <2>2, <2>4 DEF Bears
    <3>2. Pends(k, x)'
      BY <1>2, <3>1, PostPends DEF Sound
    <3> QED
      BY <3>1, <3>2 DEF Waits
  <2> QED
    BY <2>3, <2>4
<1> QED
  BY <1>3, <1>4

LEMMA EchoFacts ==
    ASSUME Sound, StatesFit, Echoes
    PROVE  /\ Quiet /\ NoForeignShutdown /\ server \in {"up", "aborted"}
           /\ \A l \in Loops : \A x \in Functors : Waits(l, x) => HoldsRef(x)
           /\ "foreignSend" \notin setup.calls
<1>1. Quiet /\ "foreignSend" \notin setup.calls
  BY DEF Echoes, Quiet
<1>2. /\ server \in {"up", "aborted"} /\ NoForeignShutdown
  BY <1>1, QuietFacts DEF Sound, Typed, TypeOK
<1>3. \A l \in Loops : \A x \in Functors : Waits(l, x) => HoldsRef(x)
  BY <1>1, QuietFacts DEF StatesFit, Fits, HoldsRef, Functors, Ops
<1> QED
  BY <1>1, <1>2, <1>3

LEMMA RemovalStays ==
    ASSUME Sound, [Next]_vars, NEW l \in Loops, NEW c \in Conns, closing[l] = c, Removal(l, c)
    PROVE  Removal(l, c)'
<1>1. /\ phase[l] = "poll" /\ conn[c].loop = l /\ c # None /\ Born(c) /\ Main \in Loops
  BY SetupFacts DEF Sound, Phases, Lead, Typed
<1>2. \A op \in Ops : /\ Functor(op, c) \in Functors
                      /\ Functor(op, c).op = op /\ Functor(op, c).conn = c
  BY FunctorType
<1>3. CASE Waits(l, Functor("Destroyed", c))
  <2>1. ~Consumes(l, Functor("Destroyed", c))
    BY <1>1 DEF Consumes
  <2> QED
    BY <1>2, <1>3, <2>1, OpTypes, NextWaits DEF Removal
<1>4. CASE Waits(Main, Functor("Remove", c))
  <2>1. CASE ~Consumes(Main, Functor("Remove", c))
    BY <1>1, <1>2, <1>4, <2>1, OpTypes, NextWaits DEF Removal
  <2>2. CASE Consumes(Main, Functor("Remove", c))
    <3>1. RunRemove(c)
      BY <1>2, <2>2, OpTypes DEF Consumes
    <3>2. pending' = Post(l, Functor("Destroyed", c))
      BY <1>1, <3>1 DEF RunRemove
    <3>3. Pends(l, Functor("Destroyed", c))'
      BY <1>2, <3>2, OpTypes, PostPends DEF Sound
    <3> QED
      BY <3>3 DEF Removal, Waits
  <2> QED
    BY <2>1, <2>2
<1> QED
  BY <1>3, <1>4 DEF Removal

\* A connection is being established or stays so; the handlers are where they were.
LEMMA EchoFrom ==
    ASSUME Sound, Echo, [Next]_vars, UNCHANGED <<closing, foreign>>,
           NEW c \in Conns, \A d \in Conns : d # c => conn'[d] = conn[d],
           conn'[c].state \in {"Unborn", "Connecting", "Connected"}
           \/ conn'[c] = conn[c]
    PROVE  Echo'
<1>1. Echoes' <=> Echoes
  BY SetupStays DEF Echoes
<1>2. \A d \in Conns : \/ conn'[d] = conn[d]
                       \/ conn'[d].state \in {"Unborn", "Connecting", "Connected"}
  OBVIOUS
<1> SUFFICES ASSUME Echoes PROVE Echo'
  BY <1>1 DEF Echo
<1>3. \A d \in Conns :
        /\ conn'[d].state # "Disconnecting"
        /\ conn'[d].state = "Disconnected" =>
             /\ conn'[d].events = {}
             /\ conn'[d].open => closing'[conn'[d].loop] = d
  BY <1>2 DEF Echo
<1>4. \A l \in Loops : \A d \in Conns : closing'[l] = d => Removal(l, d)'
  BY RemovalStays DEF Echo
<1> QED
  BY <1>1, <1>3, <1>4 DEF Echo

LEMMA EchoHangUp ==
    ASSUME Sound, StatesFit, Echo, [Next]_vars, NEW l \in Loops, NEW f \in Fds, NEW c \in Conns,
           HangUp(l, f, c)
    PROVE  Echo'
<1>1. Echoes' <=> Echoes
  BY SetupStays DEF Echoes
<1> SUFFICES ASSUME Echoes PROVE Echo'
  BY <1>1 DEF Echo
<1>2. /\ Born(c) /\ conn[c].loop = l /\ HandleClose(l, c) /\ closing[l] = None /\ c # None
      /\ foreign' = foreign
  BY FieldsFit DEF HangUp, Ready, HandleClose
<1>3. CASE conn[c].state = "Disconnected"
  BY <1>2, <1>3, EchoFrom DEF HandleClose
<1>4. CASE conn[c].state # "Disconnected"
  <2>1. /\ \A d \in Conns : d # c => conn'[d] = conn[d]
        /\ conn'[c].state = "Disconnected" /\ conn'[c].events = {} /\ conn'[c].loop = l
        /\ \A k \in Loops : closing'[k] = IF k = l THEN c ELSE closing[k]
    <3>1. Becomes(c, "Disconnected", conn[c].open, {}) /\ Closes(l, c)
      BY <1>2, <1>4, HandleCloseEffect
    <3> QED
      BY <1>2, <3>1 DEF Becomes, Closes
  <2>2. l # Main /\ Main \in Loops
    BY <1>2, SetupFacts DEF Echoes, Sound, Typed, Lead
  <2>3. pending' = Post(Main, Functor("Remove", c))
    BY <1>2, <1>4, <2>2 DEF HandleClose
  <2>4. Pends(Main, Functor("Remove", c))'
    BY <2>2, <2>3, FunctorType, OpTypes, PostPends DEF Sound
  <2>5. Removal(l, c)'
    BY <2>4 DEF Removal, Waits
  <2>6. \A k \in Loops : \A d \in Conns : closing'[k] = d => Removal(k, d)'
    <3>1. ASSUME NEW k \in Loops, NEW d \in Conns, closing'[k] = d PROVE Removal(k, d)'
      <4>1. CASE k = l
        BY <2>1, <2>5, <3>1, <4>1
      <4>2. CASE k # l
        BY <2>1, <3>1, <4>2, RemovalStays DEF Echo
      <4> QED
        BY <4>1, <4>2
    <3> QED
      BY <3>1
  <2>7. \A d \in Conns :
          /\ conn'[d].state # "Disconnecting"
          /\ conn'[d].state = "Disconnected" =>
               /\ conn'[d].events = {}
               /\ conn'[d].open => closing'[conn'[d].loop] = d
    <3>1. ASSUME NEW d \in Conns, d # c
          PROVE  /\ conn'[d].state # "Disconnecting"
                 /\ conn'[d].state = "Disconnected" =>
                      /\ conn'[d].events = {}
                      /\ conn'[d].open => closing'[conn'[d].loop] = d
      <4>1. conn'[d] = conn[d] /\ d # None
        BY <2>1, <3>1, FieldsFit
      <4>2. conn[d].state = "Disconnected" => conn[d].loop \in Loops
        BY FieldsFit DEF Born
      <4>3. conn[d].state = "Disconnected" /\ conn[d].open => closing'[conn[d].loop] = d
        BY <1>2, <2>1, <4>1, <4>2 DEF Echo
      <4> QED
        BY <4>1, <4>3 DEF Echo
    <3> QED
      BY <2>1, <3>1
  <2> QED
    BY <1>2, <2>6, <2>7 DEF Echo
<1> QED
  BY <1>3, <1>4

LEMMA EchoFinishClose ==
    ASSUME Sound, Echo, [Next]_vars, NEW l \in Loops, FinishClose(l)
    PROVE  Echo'
<1>1. Echoes' <=> Echoes
  BY SetupStays DEF Echoes
<1> SUFFICES ASSUME Echoes PROVE Echo'
  BY <1>1 DEF Echo
<1>2. PICK c \in Conns : closing[l] = c
  BY DEF FinishClose, Sound, Typed, TypeOK
<1>3. /\ \A d \in Conns : d # c => conn'[d] = conn[d]
      /\ conn'[c].state = conn[c].state /\ conn'[c].events = conn[c].events /\ ~conn'[c].open
      /\ \A k \in Loops : closing'[k] = IF k = l THEN None ELSE closing[k]
      /\ foreign' = foreign
  BY <1>2, FinishCloseEffect DEF Becomes, FinishClose
<1>4. \A k \in Loops : \A d \in Conns : closing'[k] = d => Removal(k, d)'
  BY <1>3, FieldsFit, RemovalStays DEF Echo
<1>5. ASSUME NEW d \in Conns, d # c, conn[d].state = "Disconnected", conn[d].open
      PROVE  closing'[conn[d].loop] = d
  <2>1. conn[d].loop \in Loops /\ closing[conn[d].loop] = d
    BY <1>5, FieldsFit DEF Echo, Born
  <2> QED
    BY <1>2, <1>3, <1>5, <2>1
<1>6. \A d \in Conns :
        /\ conn'[d].state # "Disconnecting"
        /\ conn'[d].state = "Disconnected" =>
             /\ conn'[d].events = {}
             /\ conn'[d].open => closing'[conn'[d].loop] = d
  BY <1>3, <1>5 DEF Echo
<1> QED
  BY <1>3, <1>4, <1>6 DEF Echo

LEMMA NextEcho ==
    ASSUME Sound, StatesFit, Echo, [Next]_vars
    PROVE  Echo'
<1>0. Echoes' <=> Echoes
  BY SetupStays DEF Echoes
<1> SUFFICES ASSUME Echoes PROVE Echo'
  BY <1>0 DEF Echo
<1>17. /\ NoForeignShutdown /\ server \in {"up", "aborted"} /\ "foreignSend" \notin setup.calls
       /\ "shutdown" \notin setup.calls /\ "destroy" \notin setup.calls
       /\ \A l \in Loops : \A x \in Functors : Waits(l, x) => HoldsRef(x)
  BY EchoFacts DEF Echoes
<1>1. ASSUME UNCHANGED <<conn, closing, foreign>> PROVE Echo'
  <2>1. Conns = {} => Echo'
    BY <1>1, RemovalStays DEF Echo
  <2> QED
    BY <1>1, <2>1, EchoFrom
<1>2. ASSUME NEW c \in Conns, NEW f \in Fds, HandleNewConnection(c, f) PROVE Echo'
  <2>1. Bears(c, f)
    BY <1>2, NewConnection
  <2>2. /\ \A d \in Conns : d # c => conn'[d] = conn[d]
        /\ conn'[c].state \in {"Connecting", "Connected"}
        /\ UNCHANGED <<closing, foreign>>
    BY <2>1 DEF Bears
  <2> QED
    BY <2>2, EchoFrom
<1>3. ASSUME NEW f \in Fds, KernelMoves(f) PROVE Echo'
  BY <1>1, <1>3 DEF KernelMoves, Peer
<1>4. ASSUME NEW l \in Loops, NEW f \in Fds, NEW c \in Conns, HangUp(l, f, c) PROVE Echo'
  BY <1>4, EchoHangUp
<1>5. ASSUME NEW l \in Loops, NEW f \in Fds, NEW c \in Conns, ReadAndSend(l, f, c)
      PROVE  Echo'
  <2>1. Buffered(c) /\ UNCHANGED <<closing, foreign>>
    BY <1>5 DEF ReadAndSend
  <2>2. CASE conn' = conn
    BY <1>1, <2>1, <2>2
  <2>3. CASE Becomes(c, "Connected", conn[c].open, conn[c].events \cup {"write"})
    <3>1. (\A d \in Conns : d # c => conn'[d] = conn[d]) /\ conn'[c].state = "Connected"
      BY <2>3 DEF Becomes
    <3> QED
      BY <2>1, <3>1, EchoFrom
  <2> QED
    BY <2>1, <2>2, <2>3, BufferedEffect
<1>6. ASSUME NEW l \in Loops, NEW f \in Fds, NEW c \in Conns, HandleWrite(l, f, c)
      PROVE  Echo'
  <2>1. "read" \in conn[c].events /\ UNCHANGED <<closing, foreign>>
    BY <1>6 DEF HandleWrite, StatesFit
  <2>2. (\A d \in Conns : d # c => conn'[d] = conn[d]) /\ conn'[c].state = "Connected"
    BY <1>6, <2>1, HandleWriteEffect DEF Becomes
  <2> QED
    BY <2>1, <2>2, EchoFrom
<1>7. ASSUME NEW l \in Loops, FinishClose(l) PROVE Echo'
  BY <1>7, EchoFinishClose
<1>8. ASSUME NEW l \in Loops, StartBatch(l) \/ EndBatch(l) PROVE Echo'
  BY <1>1, <1>8 DEF StartBatch, EndBatch
<1>9. ASSUME NEW l \in Loops, RunFunctor(l) PROVE Echo'
  <2>1. PICK c \in Conns : \/ RunEstablished(l, c) \/ (l = Main /\ RunRemove(c))
                           \/ RunDestroyed(l, c) \/ RunSend(l, c) \/ RunShutdown(l, c)
                           \/ RunForceClose(l, c)
    BY <1>9 DEF RunFunctor
  <2>2. CASE RunEstablished(l, c)
    <3>1. (\A d \in Conns : d # c => conn'[d] = conn[d]) /\ conn'[c].state = "Connected"
      BY <2>2, RunEstablishedEffect DEF Becomes
    <3> QED
      BY <2>2, <3>1, EchoFrom DEF RunEstablished, Runs
  <2>3. CASE RunRemove(c)
    BY <1>1, <2>3 DEF RunRemove, Runs
  <2>4. CASE RunDestroyed(l, c)
    <3>1. Runs(l, "Destroyed", c) /\ "Destroyed" \in Ops
      BY <2>4, OpTypes DEF RunDestroyed
    <3>2. Fits(Functor("Destroyed", c)) /\ server = "up"
      BY <1>17, <3>1, WaitingFits DEF Runs, Running
    <3>3. conn[c].state = "Disconnected"
      BY <1>17, <3>2 DEF Fits, Functor
    <3> QED
      BY <1>1, <2>4, <3>3 DEF RunDestroyed, Runs
  <2>5. CASE RunSend(l, c) \/ RunShutdown(l, c) \/ RunForceClose(l, c)
    <3>1. PICK op \in {"Send", "Shutdown", "ForceClose"} : Runs(l, op, c)
      BY <2>5 DEF RunSend, RunShutdown, RunForceClose
    <3>2. op \in Ops
      BY DEF Ops
    <3>3. Waits(l, Functor(op, c)) /\ Functor(op, c) \in Functors
      BY <3>1, <3>2, RunRemains DEF Sound, Waits
    <3>4. HoldsRef(Functor(op, c))
      BY <1>17, <3>3
    <3> QED
      BY <3>4 DEF HoldsRef, Functor
  <2> QED
    BY <2>1, <2>2, <2>3, <2>4, <2>5
<1>10. ASSUME NEW c \in Conns, NEW op \in {"Send", "Shutdown", "ForceClose"}, EndCall(op, c)
       PROVE  Echo'
  BY <1>10 DEF Echo, EndCall
<1>11. CASE UNCHANGED vars
  BY <1>1, <1>11 DEF vars
<1>12. CASE DestroySubLoops \/ QuitLoops \/ ClearConnections
  BY <1>17, <1>12 DEF DestroySubLoops, QuitLoops, ClearConnections
<1>13. ASSUME NEW c \in Conns, BeginShutdown(c) PROVE FALSE
  BY <1>17, <1>13 DEF BeginShutdown, NoForeignShutdown
<1>14. ASSUME NEW c \in Conns, BeginSend(c) PROVE FALSE
  BY <1>17, <1>14 DEF BeginSend
<1>15. ASSUME NEW l \in Loops, NEW f \in Fds, NEW c \in Conns, ReadAndShutdown(l, f, c)
       PROVE  FALSE
  BY <1>17, <1>15 DEF ReadAndShutdown
<1>16. CASE BeginDestruction
  BY <1>17, <1>16 DEF BeginDestruction
<1>18. ASSUME NEW c \in Conns, VisitConnection(c) PROVE FALSE
  BY <1>17, <1>18, VisitEffect
<1> QED
  BY PeerMoves, <1>18, <1>2, <1>3, <1>4, <1>5, <1>6, <1>7, <1>8, <1>9, <1>10, <1>11, <1>12, <1>13, <1>14,
     <1>15, <1>16 DEF Next

-----------------------------------------------------------------------------
(***************************************************************************)
(* The connections of a careful application.                               *)
(***************************************************************************)
LEMMA WaitsHeld ==
    ASSUME Sound, NEW l \in Loops, NEW x \in Functors, Waits(l, x), HoldsRef(x)
    PROVE  HeldElsewhere(x.conn)
<1>1. pending[l] \in Seq(Functors) /\ batch[l] \in Seq(Functors) /\ at[l] \in 1..(Len(batch[l]) + 1)
  BY DEF Sound, Typed, TypeOK
<1>2. CASE Pends(l, x)
  <2>1. PICK i \in 1..Len(pending[l]) : pending[l][i] = x
    BY <1>2 DEF Pends
  <2>2. i \in DOMAIN pending[l]
    BY <1>1, <2>1
  <2> QED
    BY <2>1, <2>2 DEF HeldElsewhere
<1>3. CASE Remains(l, x)
  <2>1. PICK i \in at[l]..Len(batch[l]) : batch[l][i] = x
    BY <1>3 DEF Remains
  <2>2. i \in DOMAIN batch[l]
    BY <1>1, <2>1
  <2> QED
    BY <2>1, <2>2 DEF HeldElsewhere
<1> QED
  BY <1>2, <1>3 DEF Waits

LEMMA KeptHeld ==
    ASSUME Sound, Kept, setup.keepsRefs, NEW c \in Conns, Born(c)
    PROVE  HeldElsewhere(c)
<1>1. CASE c \in userRefs
  BY <1>1 DEF HeldElsewhere
<1>2. CASE c \notin userRefs
  <2>1. PICK l \in Loops : Waits(l, Functor("Established", c))
    BY <1>2 DEF Kept
  <2>2. /\ Functor("Established", c) \in Functors /\ Functor("Established", c).conn = c
        /\ HoldsRef(Functor("Established", c))
    BY FunctorType, OpTypes DEF HoldsRef
  <2> QED
    BY <2>1, <2>2, WaitsHeld
<1> QED
  BY <1>1, <1>2

LEMMA RemovalHeld ==
    ASSUME Sound, NEW l \in Loops, NEW c \in Conns, Removal(l, c)
    PROVE  HeldElsewhere(c)
<1>1. /\ \A op \in {"Remove", "Destroyed"} :
           /\ Functor(op, c) \in Functors /\ Functor(op, c).conn = c
           /\ HoldsRef(Functor(op, c))
      /\ Main \in Loops
  BY FunctorType, OpTypes, SetupFacts DEF HoldsRef, Sound, Typed
<1> QED
  BY <1>1, WaitsHeld DEF Removal

LEMMA EchoLive ==
    ASSUME Sound, StatesFit, InMap, Echoes, server = "up", NEW c \in Conns, Live(c)
    PROVE  Listed(c)
<1>1. m_connections[conn[c].fd] = c
  BY EchoFacts DEF InMap
<1>2. conn[c].fd \in Fds
  BY FieldsFit DEF Live, Born
<1> QED
  BY <1>1, <1>2 DEF Listed

LEMMA OpenExists ==
    ASSUME Sound, StatesFit, InMap, Kept, Echo, Careful(setup), server = "up",
           NEW c \in Conns, conn[c].open
    PROVE  ~Destroyed(c)
<1>1. Born(c)
  BY OpenBorn
<1>2. CASE setup.keepsRefs
  BY <1>1, <1>2, KeptHeld DEF Destroyed
<1>3. CASE Echoes
  <2>1. CASE Live(c)
    BY <1>3, <2>1, EchoLive DEF Destroyed
  <2>2. CASE ~Live(c)
    <3>1. conn[c].state = "Disconnected" /\ conn[c].loop \in Loops
      BY <1>1, <2>2, FieldsFit DEF Live, Born, Sound, Typed, TypeOK
    <3>2. closing[conn[c].loop] = c
      BY <1>3, <3>1 DEF Echo
    <3>3. Removal(conn[c].loop, c)
      BY <1>3, <3>1, <3>2 DEF Echo
    <3> QED
      BY <3>1, <3>3, RemovalHeld DEF Destroyed
  <2> QED
    BY <2>1, <2>2
<1> QED
  BY <1>2, <1>3 DEF Careful, Echoes

LEMMA NextNotAborted ==
    ASSUME Sound, Owned, StatesFit, Kept, Echo, NotAborted, [Next]_vars
    PROVE  NotAborted'
<1>1. setup' = setup
  BY SetupStays
<1> SUFFICES ASSUME Careful(setup), "destroy" \notin setup.calls, server' = "aborted"
             PROVE  FALSE
  BY <1>1 DEF NotAborted, Careful
<1>2. server # "aborted"
  BY DEF NotAborted
<1>3. server = "up"
  BY <1>2 DEF StatesFit, Sound, Typed, TypeOK
<1>4. ASSUME NEW c \in Conns, NEW f \in Fds, HandleNewConnection(c, f) PROVE FALSE
  <2> DEFINE old == Replaced(f)
  <2>1. old # None /\ conn[old].loop # Main /\ kernel[f] = "free"
    BY <1>3, <1>4 DEF HandleNewConnection
  <2>2. PICK d \in Conns : m_connections[f] = d
    BY <2>1 DEF Replaced, Sound, Typed, TypeOK
  <2>3. old = d /\ ~HeldElsewhere(d) /\ conn[d].events # {}
    BY <2>1, <2>2 DEF Replaced
  <2>4. Born(d) /\ conn[d].fd = f
    BY <2>2 DEF Sound, Lead
  <2>5. ~conn[d].open
    BY <2>1, <2>4 DEF Owned
  <2>6. CASE setup.keepsRefs
    BY <2>3, <2>4, <2>6, KeptHeld
  <2>7. CASE Echoes
    <3>1. conn[d].state = "Disconnected"
      BY <2>4, <2>5, <2>7 DEF Echo, StatesFit, Born, Sound, Typed, TypeOK
    <3> QED
      BY <2>3, <2>7, <3>1 DEF Echo
  <2> QED
    BY <2>6, <2>7 DEF Careful, Echoes
<1>5. ASSUME NEW l \in Loops, RunFunctor(l) PROVE server' = server
  BY <1>5 DEF RunFunctor, RunEstablished, RunRemove, RunDestroyed, RunSend, RunShutdown,
              RunForceClose
<1>6. ASSUME NEW f \in Fds, KernelMoves(f) PROVE server' = server
  BY <1>6 DEF KernelMoves, Peer
<1>7. ASSUME NEW l \in Loops, NEW f \in Fds, NEW c \in Conns,
             \/ HangUp(l, f, c) \/ ReadAndSend(l, f, c) \/ ReadAndShutdown(l, f, c)
             \/ HandleWrite(l, f, c)
      PROVE  server' = server
  BY <1>7 DEF HangUp, HandleClose, ReadAndSend, ReadAndShutdown, HandleWrite
<1>8. ASSUME NEW l \in Loops, FinishClose(l) \/ StartBatch(l) \/ EndBatch(l)
      PROVE  server' = server
  BY <1>8 DEF FinishClose, StartBatch, EndBatch
<1>9. ASSUME NEW c \in Conns, BeginSend(c) \/ BeginShutdown(c) PROVE server' = server
  BY <1>9 DEF BeginSend, BeginShutdown, Begin
<1>10. ASSUME NEW c \in Conns, NEW op \in {"Send", "Shutdown", "ForceClose"}, EndCall(op, c)
       PROVE  server' = server
  BY <1>10 DEF EndCall
<1>11. CASE BeginDestruction \/ QuitLoops \/ ClearConnections \/ DestroySubLoops
  BY <1>3, <1>11 DEF BeginDestruction, QuitLoops, ClearConnections, DestroySubLoops
<1>12. CASE UNCHANGED vars
  BY <1>3, <1>12 DEF vars
<1>13. ASSUME NEW c \in Conns, VisitConnection(c) PROVE server' = server
  BY <1>13, VisitEffect
<1> QED
  BY PeerMoves, <1>13, <1>3, <1>4, <1>5, <1>6, <1>7, <1>8, <1>9, <1>10, <1>11, <1>12 DEF Next

-----------------------------------------------------------------------------
(***************************************************************************)
(* The theorems.  All of IInv holds of every server and every application. *)
(***************************************************************************)
LEMMA InitIInv == Init => IInv
<1> SUFFICES ASSUME Init PROVE IInv
  OBVIOUS
<1>1. Sound
  BY InitSound
<1>2. Kept /\ Echo /\ NotAborted
  <2>1. \A c \in Conns : conn[c].state = "Unborn" /\ c # None
    BY SetupFacts DEF Init, Blank
  <2>2. \A l \in Loops : closing[l] = None
    BY DEF Init
  <2>3. foreign = {} /\ server = "up"
    BY DEF Init
  <2> QED
    BY <2>1, <2>2, <2>3 DEF Kept, Echo, NotAborted, Born
<1> QED
  BY <1>1, <1>2, InitOwned, InitOnce, InitStatesFit, InitInMap, InitPolled, InitWatched DEF IInv

LEMMA NextIInv ==
    ASSUME IInv, [Next]_vars
    PROVE  IInv'
BY NextSound, NextOwned, NextOnce, NextStatesFit, NextInMap, NextPolled, NextWatched,
   NextKept, NextEcho, NextNotAborted DEF IInv

(***************************************************************************)
(* The inductive invariant holds throughout, for any number of sub loops,  *)
(* connections and descriptors and any application of TcpServerAssumption. *)
(***************************************************************************)
THEOREM Invariant == Spec => []IInv
<1>1. Init => IInv
  BY InitIInv
<1>2. IInv /\ [Next]_vars => IInv'
  BY NextIInv
<1> QED
  BY <1>1, <1>2, PTL DEF Spec

(***************************************************************************)
(* m_connections knows every connection the server may still have to close *)
(* (TcpServer::HandleNewConnection, HandleRemoveConnection), and a single  *)
(* loop's erases always find theirs.                                       *)
(***************************************************************************)
THEOREM ServerKnowsLive == Spec => []LiveInMap
<1>1. IInv => LiveInMap
  BY DEF IInv, Polled, Single, InMap, Live, NoForeignShutdown, LiveInMap
<1> QED
  BY <1>1, Invariant, PTL

(***************************************************************************)
(* An established connection is known to its loop's epoll instance and     *)
(* table (TcpConnection::ConnectEstablished).                              *)
(***************************************************************************)
THEOREM EstablishedWatched == Spec => []Watched
<1>1. IInv => Watched
  BY DEF IInv, WatchedOnly, Quiet, Listens, Watched
<1> QED
  BY <1>1, Invariant, PTL

\* Every descriptor in use is the open socket of exactly one connection.
OneOwner ==
    \A f \in Fds :
        Cardinality({c \in Conns : conn[c].open /\ conn[c].fd = f})
            = IF kernel[f] = "free" THEN 0 ELSE 1

LEMMA OwnedOne ==
    ASSUME Owned
    PROVE  OneOwner
<1> SUFFICES ASSUME NEW f \in Fds
             PROVE  Cardinality({c \in Conns : conn[c].open /\ conn[c].fd = f})
                       = IF kernel[f] = "free" THEN 0 ELSE 1
  BY DEF OneOwner
<1> DEFINE S == {c \in Conns : conn[c].open /\ conn[c].fd = f}
<1>1. CASE kernel[f] = "free"
  <2>1. S = {}
    BY <1>1 DEF Owned
  <2> QED
    BY <1>1, <2>1, FS_EmptySet
<1>2. CASE kernel[f] # "free"
  <2>1. PICK c \in Conns : conn[c].open /\ conn[c].fd = f
    BY <1>2 DEF Owned
  <2>2. S = {c}
    BY <2>1 DEF Owned
  <2> QED
    BY <1>2, <2>2, FS_Singleton
<1> QED
  BY <1>1, <1>2

(***************************************************************************)
(* Whoever closes and when, no descriptor leaks and none is closed on      *)
(* another's behalf (TcpConnection::HandleClose, ForceCloseInLoop,         *)
(* ShutdownInLoop and the destructor).                                     *)
(***************************************************************************)
THEOREM DescriptorHasOneOwner == Spec => []OneOwner
<1>1. IInv => OneOwner
  BY OwnedOne DEF IInv
<1> QED
  BY <1>1, Invariant, PTL

(***************************************************************************)
(* ... and, under a careful application, of a connection that still exists *)
(* (TcpConnection::HandleClose, ForceCloseInLoop, ConnectDestroyed).       *)
(***************************************************************************)
THEOREM CarefulDescriptors == Spec => [](Careful(setup) => DescriptorsOwned)
<1>1. IInv => (Careful(setup) => DescriptorsOwned)
  BY OwnedOne, OpenExists DEF IInv, OneOwner, DescriptorsOwned
<1> QED
  BY <1>1, Invariant, PTL

(***************************************************************************)
(* Under a careful application what epoll reports leads to an existing     *)
(* connection with that socket, still open (EpollPoller::Poll).            *)
(***************************************************************************)
THEOREM CarefulPolls == Spec => [](Careful(setup) => PollTargets)
<1>1. ASSUME IInv, Careful(setup) PROVE PollTargets
  <2> SUFFICES ASSUME server = "up", NEW l \in Loops, NEW f \in epoll[l]
               PROVE  LET c == poller[l][f] IN
                      c # None /\ conn[c].fd = f /\ conn[c].open /\ ~Destroyed(c)
    BY DEF PollTargets
  <2>1. NoForeignShutdown \/ setup.subLoops = <<>>
    BY <1>1 DEF Careful, NoForeignShutdown
  <2>2. PICK c \in Conns : poller[l][f] = c /\ conn[c].open
    BY <1>1, <2>1 DEF IInv, Polled, EpollLeads
  <2>3. f \in Fds
    BY <1>1 DEF IInv, Sound, Typed, TypeOK
  <2>4. conn[c].fd = f /\ c # None
    BY <1>1, <2>2, <2>3, FieldsFit DEF IInv, Sound, Lead
  <2>5. ~Destroyed(c)
    BY <1>1, <2>2, OpenExists DEF IInv
  <2> QED
    BY <2>2, <2>4, <2>5
<1> QED
  BY <1>1, Invariant, PTL

(***************************************************************************)
(* Under a careful application no code runs on a destroyed connection: not *)
(* the end of TcpConnection::HandleClose, not a functor of DoPendingFunc-  *)
(* tors, whatever it captured.                                             *)
(***************************************************************************)
THEOREM CarefulUse == Spec => [](Careful(setup) => NoUseAfterFree)
<1>1. ASSUME IInv, Careful(setup) PROVE NoUseAfterFree
  <2> SUFFICES ASSUME server = "up", NEW l \in Loops
               PROVE  /\ closing[l] # None => ~Destroyed(closing[l])
                      /\ at[l] <= Len(batch[l]) => ~Destroyed(batch[l][at[l]].conn)
    BY DEF NoUseAfterFree
  <2>0. Sound /\ StatesFit /\ Kept /\ Echo /\ (setup.keepsRefs \/ Echoes)
    BY <1>1 DEF IInv, Careful, Echoes
  <2>1. ASSUME closing[l] # None PROVE ~Destroyed(closing[l])
    <3>1. PICK c \in Conns : closing[l] = c
      BY <2>0, <2>1 DEF Sound, Typed, TypeOK
    <3>2. Born(c)
      BY <2>0, <3>1 DEF Sound, Lead
    <3>3. CASE setup.keepsRefs
      BY <2>0, <3>1, <3>2, <3>3, KeptHeld DEF Destroyed
    <3>4. CASE Echoes
      BY <2>0, <3>1, <3>4, RemovalHeld DEF Echo, Destroyed
    <3> QED
      BY <2>0, <3>3, <3>4
  <2>2. ASSUME at[l] <= Len(batch[l]) PROVE ~Destroyed(batch[l][at[l]].conn)
    <3> DEFINE x == batch[l][at[l]]
    <3>1. batch[l] \in Seq(Functors) /\ at[l] \in 1..Len(batch[l])
      BY <2>0, <2>2 DEF Sound, Typed, TypeOK
    <3>2. x \in Functors
      BY <3>1
    <3>3. Waits(l, x)
      BY <3>1 DEF Waits, Remains
    <3> HIDE DEF x
    <3>7. x.conn \in Conns
      BY <3>2 DEF Functors
    <3>4. Born(x.conn)
      BY <2>0, <3>2, <3>3 DEF Sound, Lead
    <3>5. CASE setup.keepsRefs
      BY <2>0, <3>4, <3>5, <3>7, KeptHeld DEF Destroyed, x
    <3>6. CASE Echoes
      <4>1. HoldsRef(x)
        BY <2>0, <3>2, <3>3, <3>6, EchoFacts
      <4>2. HeldElsewhere(x.conn)
        BY <2>0, <3>2, <3>3, <4>1, WaitsHeld
      <4> QED
        BY <4>2 DEF Destroyed, x
    <3> QED
      BY <2>0, <3>5, <3>6
  <2> QED
    BY <2>1, <2>2
<1> QED
  BY <1>1, Invariant, PTL

(***************************************************************************)
(* Under a careful application what is destroyed is finished with: what    *)
(* the main thread destroys has left nothing in its loop, and a connection *)
(* is disconnected by the time it is destroyed (TcpConnection.cpp:45, 46). *)
(***************************************************************************)
THEOREM CarefulRuns == Spec => [](Careful(setup) => CleanDestruction)
<1>1. ASSUME IInv, Careful(setup) PROVE CleanDestruction
  <2>1. "destroy" \notin setup.calls => server # "aborted"
    BY <1>1 DEF IInv, NotAborted
  <2>2. ASSUME NEW c \in Conns, Destroyed(c) PROVE conn[c].state = "Disconnected"
    <3>0. Sound /\ StatesFit /\ InMap /\ Kept /\ Echo /\ (setup.keepsRefs \/ Echoes)
      BY <1>1 DEF IInv, Careful, Echoes
    <3>1. Echoes /\ Born(c)
      BY <2>2, <3>0, KeptHeld DEF Destroyed
    <3>2. server = "up"
      BY <2>1, <3>0, <3>1, EchoFacts DEF Echoes
    <3>3. ~Live(c)
      BY <2>2, <3>0, <3>1, <3>2, EchoLive DEF Destroyed
    <3> QED
      BY <3>0, <3>1, <3>3 DEF Live, Born, Sound, Typed, TypeOK
  <2> QED
    BY <2>1, <2>2 DEF CleanDestruction
<1> QED
  BY <1>1, Invariant, PTL

=============================================================================
