------------------------------- MODULE TcpServer -------------------------------
(***************************************************************************)
(* The TCP layer on Linux: TcpServer and its connections (Net/TcpServer,   *)
(* Net/TcpConnection), the epoll poller and the channels they register     *)
(* (Net/EPollPoller, Net/Channel) and, of every event loop, the thread     *)
(* that handles events and then runs a batch of queued functors.           *)
(*                                                                         *)
(* The main loop accepts, and adds and erases m_connections; the loop a    *)
(* connection was given to does everything else with it.  The kernel hands *)
(* out any free descriptor, so a closed descriptor comes back.             *)
(*                                                                         *)
(* A handler is one step unless another thread can see it half done:       *)
(* HandleClose posts the removal before it closes the socket, and Send,    *)
(* Shutdown and ForceClose of another thread test the state first and act  *)
(* on the test later.  One poll reports one event; what a message says is  *)
(* left out, how many wait in the output buffer is kept.                   *)
(***************************************************************************)
EXTENDS Integers, Sequences, FiniteSets, Functions

CONSTANTS
    Conns,       \* the connection objects a behaviour can create
    Fds,         \* socket descriptors of the process
    Main,        \* the main loop
    Setups,      \* the servers and applications a behaviour can be of
    MaxOut,      \* bound: an output buffer counts its messages up to here
    None

AllCalls == {"send", "shutdown", "foreignSend", "foreignShutdown", "destroy"}

\* The sub loops of a server are in the order of m_sub_loops; without any it is
\* in single thread mode.
SubLoops(x) == {x.subLoops[i] : i \in DOMAIN x.subLoops}
Loops == (UNION {SubLoops(x) : x \in Setups}) \cup {Main}

\* What the application calls, whether its connection callback stores the
\* connection for ever, and, as a bound, how many connections there will be.
ASSUME TcpServerAssumption ==
    /\ \A x \in Setups :
         /\ x.subLoops \in Seq(Loops) /\ Main \notin SubLoops(x)
         /\ x.calls \subseteq AllCalls
         /\ x.keepsRefs \in BOOLEAN
         /\ x.maxConns \in Nat
    /\ MaxOut \in Nat
    /\ None \notin Conns \cup Fds \cup Loops

VARIABLES
    conn,           \* the connection objects
    kernel,         \* descriptor -> "free", "open", "full" (no room to write) or
                    \* "hup" (peer closed)
    epoll,          \* loop -> descriptors registered with its epoll instance
    poller,         \* loop -> m_fd_to_channel
    m_connections,  \* descriptor -> connection
    nextLoop,       \* m_next_loop_idx
    pending,        \* loop -> m_pendingFunctors
    batch,          \* loop -> the functors swapped out by DoPendingFunctors
    at,             \* loop -> the index of the next functor of the batch
    phase,          \* loop -> "poll", "run" or "exited"
    closing,        \* loop -> the connection whose HandleClose it is inside
    foreign,        \* calls of other threads that passed their state test
    userRefs,       \* connections the application keeps a pointer to
    missed,         \* connections whose erase from m_connections removed nothing
    setup,          \* the server's and the application's parameters
    server          \* "up", "closing", "quitting", "cleared", "aborted"

vars == <<conn, kernel, epoll, poller, m_connections, nextLoop, pending, batch,
          at, phase, closing, foreign, userRefs, missed, setup, server>>

Blank == [state |-> "Unborn", loop |-> None, fd |-> None, open |-> FALSE,
          events |-> {}, out |-> 0]

Functor(op, c) == [op |-> op, conn |-> c]

\* Faulty: the removal posted to the main loop captures a raw this.
HoldsRefNotRemove(f) == f.op \in {"Established", "Destroyed"}

\* These functors capture a shared_ptr, the others a raw this.
HoldsRef(f) == f.op \in {"Established", "Remove", "Destroyed"}

Init ==
    /\ conn = [c \in Conns |-> Blank]
    /\ kernel = [f \in Fds |-> "free"]
    /\ epoll = [l \in Loops |-> {}]
    /\ poller = [l \in Loops |-> [f \in Fds |-> None]]
    /\ m_connections = [f \in Fds |-> None]
    /\ nextLoop = 0
    /\ pending = [l \in Loops |-> <<>>]
    /\ batch = [l \in Loops |-> <<>>]
    /\ at = [l \in Loops |-> 1]
    /\ phase = [l \in Loops |-> "poll"]
    /\ closing = [l \in Loops |-> None]
    /\ foreign = {}
    /\ userRefs = {}
    /\ missed = {}
    /\ setup \in Setups
    /\ server = "up"

-----------------------------------------------------------------------------
(***************************************************************************)
(* Lifetime: a connection is destroyed when the last shared_ptr goes.      *)
(***************************************************************************)
HeldElsewhere(c) ==
    \/ c \in userRefs
    \/ \E x \in foreign : x.conn = c
    \/ \E l \in Loops :
         \/ \E i \in DOMAIN pending[l] : pending[l][i].conn = c /\ HoldsRef(pending[l][i])
         \/ \E i \in DOMAIN batch[l] : batch[l][i].conn = c /\ HoldsRef(batch[l][i])

Born(c) == conn[c].state # "Unborn"
Listed(c) == \E f \in Fds : m_connections[f] = c
Destroyed(c) == Born(c) /\ ~Listed(c) /\ ~HeldElsewhere(c)

(***************************************************************************)
(* Channel::Enable.../DisableAll, which end in EpollPoller::UpdateChannel: *)
(* the poller's table is keyed by descriptor, a descriptor already in it   *)
(* is only modified, and epoll refuses descriptors it does not know.       *)
(***************************************************************************)
\* Faulty: a channel without events stays in the table.
PollerWithKeeps(l, f, c, events) ==
    [poller EXCEPT ![l][f] = IF events # {} /\ @ = None THEN c ELSE @]

PollerWith(l, f, c, events) ==
    [poller EXCEPT ![l][f] =
        CASE events = {}               -> None
          [] events # {} /\ @ = None   -> c
          [] OTHER                     -> @]

\* Faulty: EPOLL_CTL_DEL is missing.
EpollWithNoDel(l, f, events) ==
    IF events # {} /\ poller[l][f] = None /\ kernel[f] # "free"
      THEN [epoll EXCEPT ![l] = @ \cup {f}] ELSE epoll

EpollWith(l, f, events) ==
    CASE events = {} /\ poller[l][f] # None -> [epoll EXCEPT ![l] = @ \ {f}]
      [] events # {} /\ poller[l][f] = None /\ kernel[f] # "free"
                                            -> [epoll EXCEPT ![l] = @ \cup {f}]
      [] OTHER                              -> epoll

\* Faulty: the socket is never closed.
KernelAfterCloseLeaks(c) == kernel

\* Socket::Close, which does nothing the second time; the kernel forgets every
\* registration of a descriptor that is closed.
KernelAfterClose(c) ==
    IF conn[c].open THEN [kernel EXCEPT ![conn[c].fd] = "free"] ELSE kernel
EpollAfterClose(ep, c) ==
    IF conn[c].open THEN [l \in Loops |-> ep[l] \ {conn[c].fd}] ELSE ep

\* Faulty: the channel keeps its events.
DisabledKeepsEvents(r) == [r EXCEPT !.state = "Disconnected"]

\* The connection record when HandleClose has disabled its channel.
Disabled(r) == [r EXCEPT !.state = "Disconnected", !.events = {}]

Post(l, f) == [pending EXCEPT ![l] = Append(@, f)]

\* The main thread runs its loop until it is in ~TcpServer.
Running(l) == IF l = Main THEN server = "up" ELSE server # "aborted"
Idle(l) == Running(l) /\ phase[l] = "poll" /\ closing[l] = None

-----------------------------------------------------------------------------
(***************************************************************************)
(* TcpServer::HandleNewConnection, on the main loop.  With sub loops the   *)
(* new connection is established later by its own loop; in single thread   *)
(* mode at once.  Storing it may overwrite the entry of a connection whose *)
(* descriptor was closed and handed out again; if that was the last        *)
(* pointer, the old connection is destroyed here, on the main thread, and  *)
(* a channel that still has events then aborts unless it is in its loop.   *)
(***************************************************************************)
NextLoop == IF setup.subLoops = <<>> THEN Main ELSE setup.subLoops[(nextLoop % Len(setup.subLoops)) + 1]

Replaced(f) ==
    LET old == m_connections[f] IN
    IF old # None /\ ~HeldElsewhere(old) /\ conn[old].events # {} THEN old ELSE None

HandleNewConnection(c, f) ==
    LET l    == NextLoop
        old  == Replaced(f)
        new  == [Blank EXCEPT !.state = "Connecting", !.loop = l, !.fd = f, !.open = TRUE]
    IN
    /\ Idle(Main)
    /\ ~Born(c) /\ Cardinality({d \in Conns : Born(d)}) < setup.maxConns
    /\ kernel[f] = "free"
    /\ kernel' = [kernel EXCEPT ![f] = "open"]
    /\ m_connections' = [m_connections EXCEPT ![f] = c]
    /\ nextLoop' = IF setup.subLoops = <<>> THEN nextLoop ELSE (nextLoop + 1) % Len(setup.subLoops)
    /\ server' = IF old # None /\ conn[old].loop # Main THEN "aborted" ELSE server
    /\ IF l # Main
         THEN /\ conn' = [conn EXCEPT ![c] = new]
              /\ pending' = Post(l, Functor("Established", c))
              /\ UNCHANGED <<poller, epoll, userRefs>>
         ELSE /\ conn' = [conn EXCEPT ![c] =
                            [new EXCEPT !.state = "Connected", !.events = {"read"}]]
              /\ poller' = [poller EXCEPT ![l][f] = IF old # None \/ @ = None THEN c ELSE @]
              /\ epoll' = IF old # None \/ poller[l][f] = None
                            THEN [epoll EXCEPT ![l] = @ \cup {f}] ELSE epoll
              /\ userRefs' = IF setup.keepsRefs THEN userRefs \cup {c} ELSE userRefs
              /\ UNCHANGED pending
    /\ UNCHANGED <<batch, at, phase, closing, foreign, missed, setup>>

Peer(f, before, after) ==
    /\ server # "aborted"
    /\ kernel[f] \in before
    /\ kernel' = [kernel EXCEPT ![f] = after]
    /\ UNCHANGED <<conn, epoll, poller, m_connections, nextLoop, pending, batch, at,
                   phase, closing, foreign, userRefs, missed, setup, server>>

\* The peer closes or resets the connection.
PeerClose(f) == Peer(f, {"open", "full"}, "hup")

\* The peer reads what the kernel had no more room for.
PeerReads(f) == Peer(f, {"full"}, "open")

-----------------------------------------------------------------------------
(***************************************************************************)
(* Events.  epoll reports a registered descriptor, the poller's table says *)
(* which connection hears of it.                                           *)
(***************************************************************************)
Ready(l, f, c) ==
    /\ Idle(l)
    /\ f \in epoll[l]
    /\ poller[l][f] = c

\* Faulty: erases under the descriptor the connection once had.
EraseNowByOldFd(c, open) ==
    LET f == conn[c].fd IN
    /\ m_connections' = [m_connections EXCEPT ![f] = None]
    /\ missed' = IF m_connections[f] # None THEN missed ELSE missed \cup {c}
    /\ UNCHANGED setup

\* TcpServer::HandleRemoveConnection run at once, as in single thread mode.
EraseNow(c, open) ==
    LET f == conn[c].fd IN
    /\ m_connections' = IF open THEN [m_connections EXCEPT ![f] = None] ELSE m_connections
    /\ missed' = IF open /\ m_connections[f] # None THEN missed ELSE missed \cup {c}
    /\ UNCHANGED setup

\* TcpConnection::HandleClose up to and including the close callback.
HandleClose(l, c) ==
    LET f == conn[c].fd IN
    /\ IF conn[c].state = "Disconnected"
         THEN UNCHANGED <<conn, poller, epoll, pending, m_connections, missed, setup, closing>>
         ELSE /\ conn' = [conn EXCEPT ![c] = Disabled(@)]
              /\ poller' = PollerWith(l, f, c, {})
              /\ epoll' = EpollWith(l, f, {})
              /\ closing' = [closing EXCEPT ![l] = c]
              /\ IF l = Main
                   THEN EraseNow(c, conn[c].open) /\ UNCHANGED pending
                   ELSE /\ pending' = Post(Main, Functor("Remove", c))
                        /\ UNCHANGED <<m_connections, missed, setup>>
    /\ UNCHANGED <<kernel, nextLoop, batch, at, phase, foreign, userRefs,
                   server>>

\* End of file, error or hang-up.
HangUp(l, f, c) ==
    /\ Ready(l, f, c)
    /\ kernel[f] = "hup"
    /\ HandleClose(l, c)

\* The m_socket.Close() that ends HandleClose.
FinishClose(l) ==
    LET c == closing[l] IN
    /\ server # "aborted"
    /\ c # None
    /\ conn' = [conn EXCEPT ![c].open = FALSE]
    /\ kernel' = KernelAfterClose(c)
    /\ epoll' = EpollAfterClose(epoll, c)
    /\ closing' = [closing EXCEPT ![l] = None]
    /\ UNCHANGED <<poller, m_connections, nextLoop, pending, batch, at, phase, foreign,
                   userRefs, missed, setup, server>>

\* Faulty: the write event is not enabled.
BufferedUnwatched(c) ==
    /\ conn' = [conn EXCEPT ![c].out = IF @ < MaxOut THEN @ + 1 ELSE @]
    /\ UNCHANGED <<poller, epoll>>

\* TcpConnection::SendInLoop.
Buffered(c) ==
    LET events == conn[c].events \cup {"write"} IN
    IF conn[c].state = "Connected"
      THEN /\ conn' = [conn EXCEPT ![c].out = IF @ < MaxOut THEN @ + 1 ELSE @,
                                   ![c].events = events]
           /\ IF "write" \in conn[c].events
                THEN UNCHANGED <<poller, epoll>>
                ELSE /\ poller' = PollerWith(conn[c].loop, conn[c].fd, c, events)
                     /\ epoll' = EpollWith(conn[c].loop, conn[c].fd, events)
      ELSE UNCHANGED <<conn, poller, epoll>>

\* TcpConnection::ShutdownInLoop, entered with the given state.
ShutdownInLoop(c, state) ==
    LET events == conn[c].events \cup {"write"}
        f      == conn[c].fd
    IN
    IF conn[c].out > 0
      THEN /\ conn' = [conn EXCEPT ![c].state = state, ![c].events = events]
           /\ IF "write" \in conn[c].events
                THEN UNCHANGED <<poller, epoll>>
                ELSE /\ poller' = PollerWith(conn[c].loop, f, c, events)
                     /\ epoll' = EpollWith(conn[c].loop, f, events)
           /\ UNCHANGED kernel
      ELSE /\ conn' = [conn EXCEPT ![c].state = "Disconnected", ![c].open = FALSE]
           /\ kernel' = KernelAfterClose(c)
           /\ epoll' = EpollAfterClose(epoll, c)
           /\ UNCHANGED poller

\* A message arrives and the message callback answers on the connection.
ReadAndSend(l, f, c) ==
    /\ Ready(l, f, c)
    /\ "send" \in setup.calls
    /\ "read" \in conn[c].events /\ conn[c].open /\ kernel[f] \in {"open", "full"}
    /\ conn[c].state = "Connected"
    /\ Buffered(c)
    /\ UNCHANGED <<kernel, m_connections, nextLoop, pending, batch, at, phase, closing,
                   foreign, userRefs, missed, setup, server>>

\* A message arrives and the message callback shuts the connection down.
ReadAndShutdown(l, f, c) ==
    /\ Ready(l, f, c)
    /\ "shutdown" \in setup.calls
    /\ "read" \in conn[c].events /\ conn[c].open /\ kernel[f] \in {"open", "full"}
    /\ conn[c].state = "Connected"
    /\ ShutdownInLoop(c, "Disconnecting")
    /\ UNCHANGED <<m_connections, nextLoop, pending, batch, at, phase, closing, foreign,
                   userRefs, missed, setup, server>>

\* TcpConnection::HandleWrite, when the kernel takes all that is buffered.
HandleWrite(l, f, c) ==
    LET events == conn[c].events \ {"write"} IN
    /\ Ready(l, f, c)
    /\ "write" \in conn[c].events
    /\ conn[c].state = "Connected" /\ conn[c].open /\ kernel[f] = "open"
    /\ conn' = [conn EXCEPT ![c].out = 0, ![c].events = events]
    /\ poller' = PollerWith(l, f, c, events)
    /\ epoll' = EpollWith(l, f, events)
    /\ UNCHANGED <<kernel, m_connections, nextLoop, pending, batch, at, phase, closing,
                   foreign, userRefs, missed, setup, server>>

\* ... and when it takes a part, or nothing: the write event stays enabled, for
\* as long as it takes the peer to read.
WriteBlocks(l, f, c) ==
    /\ Ready(l, f, c)
    /\ "write" \in conn[c].events
    /\ conn[c].state = "Connected" /\ conn[c].open
    /\ Peer(f, {"open"}, "full")

-----------------------------------------------------------------------------
(***************************************************************************)
(* EventLoop::DoPendingFunctors: the queue is swapped out, the functors    *)
(* run one after the other and are destroyed together at the end.  A loop  *)
(* that was told to quit leaves after the batch it is in.                  *)
(***************************************************************************)
Quitting(l) == server = "quitting" /\ l \in SubLoops(setup)

StartBatch(l) ==
    /\ Idle(l)
    /\ pending[l] # <<>> \/ Quitting(l)
    /\ batch' = [batch EXCEPT ![l] = pending[l]]
    /\ pending' = [pending EXCEPT ![l] = <<>>]
    /\ phase' = [phase EXCEPT ![l] = "run"]
    /\ at' = [at EXCEPT ![l] = 1]
    /\ UNCHANGED <<conn, kernel, epoll, poller, m_connections, nextLoop, closing, foreign,
                   userRefs, missed, setup, server>>

\* Faulty: the index of the batch is not reset.
EndBatchNoReset(l) ==
    /\ Running(l)
    /\ phase[l] = "run" /\ at[l] > Len(batch[l])
    /\ batch' = [batch EXCEPT ![l] = <<>>]
    /\ phase' = [phase EXCEPT ![l] = IF Quitting(l) THEN "exited" ELSE "poll"]
    /\ UNCHANGED <<conn, kernel, epoll, poller, m_connections, nextLoop, pending, closing,
                   at, foreign, userRefs, missed, setup, server>>

EndBatch(l) ==
    /\ Running(l)
    /\ phase[l] = "run" /\ at[l] > Len(batch[l])
    /\ batch' = [batch EXCEPT ![l] = <<>>]
    /\ at' = [at EXCEPT ![l] = 1]
    /\ phase' = [phase EXCEPT ![l] = IF Quitting(l) THEN "exited" ELSE "poll"]
    /\ UNCHANGED <<conn, kernel, epoll, poller, m_connections, nextLoop, pending, closing,
                   foreign, userRefs, missed, setup, server>>

\* Loop l runs the next functor of its batch, which is op for connection c.
Runs(l, op, c) ==
    /\ Running(l)
    /\ phase[l] = "run" /\ at[l] <= Len(batch[l])
    /\ batch[l][at[l]] = Functor(op, c)
    /\ at' = [at EXCEPT ![l] = @ + 1]
    /\ UNCHANGED <<batch, phase, closing, nextLoop, foreign>>

\* TcpConnection::ConnectEstablished, with the user's connection callback.
RunEstablished(l, c) ==
    /\ Runs(l, "Established", c)
    /\ conn' = [conn EXCEPT ![c].state = "Connected", ![c].events = @ \cup {"read"}]
    /\ poller' = PollerWith(l, conn[c].fd, c, conn[c].events \cup {"read"})
    /\ epoll' = EpollWith(l, conn[c].fd, conn[c].events \cup {"read"})
    /\ userRefs' = IF setup.keepsRefs THEN userRefs \cup {c} ELSE userRefs
    /\ UNCHANGED <<kernel, m_connections, pending, missed, setup, server>>

\* The main loop's half of HandleRemoveConnection: it reads the descriptor now.
RunRemove(c) ==
    /\ Runs(Main, "Remove", c)
    /\ EraseNow(c, conn[c].open)
    /\ pending' = Post(conn[c].loop, Functor("Destroyed", c))
    /\ UNCHANGED <<conn, kernel, epoll, poller, userRefs, server>>

\* TcpConnection::ConnectDestroyed, a no-op on a connection already closed.
RunDestroyed(l, c) ==
    LET f == conn[c].fd IN
    /\ Runs(l, "Destroyed", c)
    /\ IF conn[c].state \in {"Connected", "Disconnecting"}
         THEN /\ conn' = [conn EXCEPT ![c] = [Disabled(@) EXCEPT !.open = FALSE]]
              /\ poller' = PollerWith(l, f, c, {})
              /\ epoll' = EpollAfterClose(EpollWith(l, f, {}), c)
              /\ kernel' = KernelAfterClose(c)
         ELSE UNCHANGED <<conn, poller, epoll, kernel>>
    /\ UNCHANGED <<m_connections, pending, userRefs, missed, setup, server>>

\* SendInLoop for another thread; what its bytes say by then is left out.
RunSend(l, c) ==
    /\ Runs(l, "Send", c)
    /\ Buffered(c)
    /\ UNCHANGED <<kernel, m_connections, pending, userRefs, missed, setup, server>>

RunShutdown(l, c) ==
    /\ Runs(l, "Shutdown", c)
    /\ ShutdownInLoop(c, conn[c].state)
    /\ UNCHANGED <<m_connections, pending, userRefs, missed, setup, server>>

\* TcpConnection::ForceCloseInLoop: closes the socket first, then tells the server.
ForceCloseInLoop(l, c) ==
    LET f == conn[c].fd IN
    IF conn[c].state \in {"Connected", "Disconnecting"}
      THEN /\ conn' = [conn EXCEPT ![c] = [Disabled(@) EXCEPT !.open = FALSE]]
           /\ poller' = PollerWith(l, f, c, {})
           /\ epoll' = EpollAfterClose(EpollWith(l, f, {}), c)
           /\ kernel' = KernelAfterClose(c)
           /\ IF l = Main
                THEN EraseNow(c, FALSE) /\ UNCHANGED pending
                ELSE /\ pending' = Post(Main, Functor("Remove", c))
                     /\ UNCHANGED <<m_connections, missed, setup>>
      ELSE UNCHANGED <<conn, poller, epoll, kernel, pending, m_connections, missed, setup>>

RunForceClose(l, c) ==
    /\ Runs(l, "ForceClose", c)
    /\ ForceCloseInLoop(l, c)
    /\ UNCHANGED <<userRefs, server>>

RunFunctor(l) ==
    \E c \in Conns :
        \/ RunEstablished(l, c)
        \/ l = Main /\ RunRemove(c)
        \/ RunDestroyed(l, c)
        \/ RunSend(l, c)
        \/ RunShutdown(l, c)
        \/ RunForceClose(l, c)

-----------------------------------------------------------------------------
(***************************************************************************)
(* Calls of other threads, which hold a pointer to the connection for the  *)
(* length of the call: the test of m_state ...                             *)
(***************************************************************************)
ForeignCall(op, c) == [op |-> op, conn |-> c]

Begin(op, c) ==
    /\ ForeignCall(op, c) \notin foreign
    /\ foreign' = foreign \cup {ForeignCall(op, c)}
    /\ UNCHANGED <<conn, kernel, epoll, poller, m_connections, nextLoop, pending, batch, at,
                   phase, closing, userRefs, missed, setup, server>>

\* Bound: of the calls to Send on a connection one at a time is under way.
SendQueued(c) ==
    \E l \in Loops :
        \/ \E i \in DOMAIN pending[l] : pending[l][i] = Functor("Send", c)
        \/ \E i \in DOMAIN batch[l] : batch[l][i] = Functor("Send", c)

BeginSend(c) ==
    /\ server = "up" /\ "foreignSend" \in setup.calls
    /\ conn[c].state = "Connected"
    /\ ~SendQueued(c)
    /\ Begin("Send", c)

BeginShutdown(c) ==
    /\ server = "up" /\ "foreignShutdown" \in setup.calls
    /\ conn[c].state = "Connected"
    /\ Begin("Shutdown", c)

(***************************************************************************)
(* ... and what follows it: the new state, if any, and the functor.        *)
(***************************************************************************)
EndCall(op, c) ==
    /\ server # "aborted"
    /\ ForeignCall(op, c) \in foreign
    /\ foreign' = foreign \ {ForeignCall(op, c)}
    /\ conn' = IF op = "Send" THEN conn ELSE [conn EXCEPT ![c].state = "Disconnecting"]
    /\ pending' = Post(conn[c].loop, Functor(op, c))
    /\ UNCHANGED <<kernel, epoll, poller, m_connections, nextLoop, batch, at, phase, closing,
                   userRefs, missed, setup, server>>

-----------------------------------------------------------------------------
(***************************************************************************)
(* TcpServer::~TcpServer, on the main thread: force every connection       *)
(* closed, one after the other, tell the sub loops to quit, wait for their *)
(* threads, drop the connections; then the members go, the event loops of  *)
(* the (finished) sub threads among them.                                  *)
(***************************************************************************)
BeginDestruction ==
    /\ "destroy" \in setup.calls
    /\ server = "up" /\ Idle(Main) /\ setup.subLoops # <<>>
    /\ server' = "closing"
    /\ foreign' = foreign \cup
         {ForeignCall("Visit", m_connections[f]) : f \in {g \in Fds : m_connections[g] # None}}
    /\ UNCHANGED <<conn, kernel, epoll, poller, m_connections, nextLoop, pending, batch, at,
                   phase, closing, userRefs, missed, setup>>

\* The test of TcpConnection::ForceClose, once the call before has ended.
VisitConnection(c) ==
    /\ server = "closing" /\ ForeignCall("Visit", c) \in foreign
    /\ \A x \in foreign : x.op # "ForceClose"
    /\ foreign' = (foreign \ {ForeignCall("Visit", c)}) \cup
                    IF conn[c].state \in {"Connected", "Disconnecting"}
                      THEN {ForeignCall("ForceClose", c)} ELSE {}
    /\ UNCHANGED <<conn, kernel, epoll, poller, m_connections, nextLoop, pending, batch, at,
                   phase, closing, userRefs, missed, setup, server>>

QuitLoops ==
    /\ server = "closing"
    /\ \A x \in foreign : x.op \notin {"Visit", "ForceClose"}
    /\ server' = "quitting"
    /\ UNCHANGED <<conn, kernel, epoll, poller, m_connections, nextLoop, pending, batch, at,
                   phase, closing, foreign, userRefs, missed, setup>>

ClearConnections ==
    /\ server = "quitting"
    /\ \A l \in SubLoops(setup) : phase[l] = "exited"
    /\ m_connections' = [f \in Fds |-> None]
    /\ server' = "cleared"
    /\ UNCHANGED <<conn, kernel, epoll, poller, nextLoop, pending, batch, at, phase, closing,
                   foreign, userRefs, missed, setup>>

\* EventLoop::~EventLoop removes its wakeup channel: AssertInLoopThread.
DestroySubLoops ==
    /\ server = "cleared"
    /\ server' = "aborted"
    /\ UNCHANGED <<conn, kernel, epoll, poller, m_connections, nextLoop, pending, batch, at,
                   phase, closing, foreign, userRefs, missed, setup>>

Next ==
    \/ \E c \in Conns, f \in Fds : HandleNewConnection(c, f)
    \/ \E f \in Fds : PeerClose(f) \/ PeerReads(f)
    \/ \E l \in Loops, f \in Fds, c \in Conns :
         \/ HangUp(l, f, c)
         \/ ReadAndSend(l, f, c)
         \/ ReadAndShutdown(l, f, c)
         \/ HandleWrite(l, f, c)
         \/ WriteBlocks(l, f, c)
    \/ \E l \in Loops : FinishClose(l) \/ StartBatch(l) \/ RunFunctor(l) \/ EndBatch(l)
    \/ \E c \in Conns :
         \/ BeginSend(c)
         \/ BeginShutdown(c)
         \/ VisitConnection(c)
         \/ \E op \in {"Send", "Shutdown", "ForceClose"} : EndCall(op, c)
    \/ BeginDestruction
    \/ QuitLoops
    \/ ClearConnections
    \/ DestroySubLoops

Spec == Init /\ [][Next]_vars

(***************************************************************************)
(* Every loop has a thread of its own (or, for the main loop, the thread   *)
(* that called Loop) which keeps polling; epoll is level triggered, so an  *)
(* event that is not handled is reported again: a hang-up is handled, and  *)
(* a socket with output and room for it is written.  The functors of a     *)
(* behaviour are finitely many, so a loop is not kept from polling.        *)
(***************************************************************************)
LoopStep(l) ==
    \/ FinishClose(l) \/ StartBatch(l) \/ RunFunctor(l) \/ EndBatch(l)

Fairness ==
    /\ \A l \in Loops : WF_vars(LoopStep(l))
    /\ \A l \in Loops, f \in Fds :
         /\ WF_vars(\E c \in Conns : HangUp(l, f, c))
         /\ WF_vars(\E c \in Conns : HandleWrite(l, f, c) \/ WriteBlocks(l, f, c))

FairSpec == Spec /\ Fairness

-----------------------------------------------------------------------------
(***************************************************************************)
(* The state is of its type; a loop's batch index is within its batch.     *)
(***************************************************************************)
TypeOK ==
    /\ conn \in [Conns -> [state : {"Unborn", "Connecting", "Connected", "Disconnecting",
                                    "Disconnected"},
                           loop : Loops \cup {None}, fd : Fds \cup {None},
                           open : BOOLEAN, events : SUBSET {"read", "write"},
                           out : 0..MaxOut]]
    /\ kernel \in [Fds -> {"free", "open", "full", "hup"}]
    /\ epoll \in [Loops -> SUBSET Fds]
    /\ poller \in [Loops -> [Fds -> Conns \cup {None}]]
    /\ m_connections \in [Fds -> Conns \cup {None}]
    /\ nextLoop \in 0..Len(setup.subLoops)
    /\ phase \in [Loops -> {"poll", "run", "exited"}]
    /\ closing \in [Loops -> Conns \cup {None}]
    /\ \A l \in Loops : at[l] \in 1..(Len(batch[l]) + 1)
    /\ userRefs \in SUBSET Conns
    /\ missed \in SUBSET Conns
    /\ server \in {"up", "closing", "quitting", "cleared", "aborted"}

(***************************************************************************)
(* The server knows every connection it may still have to close: one that  *)
(* is not disconnected is in m_connections, under its own descriptor, even *)
(* though descriptors come back and erases race with closes.  (Unless      *)
(* Shutdown of another thread has turned its state back from disconnected.)*)
(* With a single loop each erase finds its connection (TcpServer.cpp:130); *)
(* with sub loops the descriptor may have been closed by then.             *)
(***************************************************************************)
LiveInMap ==
    /\ setup.subLoops = <<>> => missed = {}
    /\ server \in {"up", "closing", "quitting"} /\ "foreignShutdown" \notin setup.calls =>
           \A c \in Conns :
               conn[c].state \in {"Connecting", "Connected", "Disconnecting"}
                   => m_connections[conn[c].fd] = c

(***************************************************************************)
(* Every descriptor in use belongs to exactly one connection, which still  *)
(* exists: no socket leaks, none is closed twice or on another's behalf.   *)
(***************************************************************************)
DescriptorsOwned ==
    /\ \A f \in Fds :
         Cardinality({c \in Conns : conn[c].open /\ conn[c].fd = f})
            = IF kernel[f] = "free" THEN 0 ELSE 1
    /\ server = "up" => \A c \in Conns : conn[c].open => ~Destroyed(c)

(***************************************************************************)
(* What EpollPoller::Poll asserts, and more: a descriptor that epoll can   *)
(* report leads to an existing connection with that socket, still open.    *)
(***************************************************************************)
PollTargets ==
    server = "up" =>
        \A l \in Loops : \A f \in epoll[l] :
            LET c == poller[l][f] IN
            c # None /\ conn[c].fd = f /\ conn[c].open /\ ~Destroyed(c)

(***************************************************************************)
(* An established connection is watched: its loop's epoll instance and     *)
(* table both know it (TcpConnection.cpp:64: once established, the read    *)
(* event is watched, to wait for the peer's data).  (Unless the            *)
(* application shuts connections down, which leaves entries behind.)       *)
(***************************************************************************)
Watched ==
    setup.calls \subseteq {"send", "foreignSend"} =>
        \A c \in Conns :
            conn[c].state = "Connected" =>
                /\ conn[c].fd \in epoll[conn[c].loop]
                /\ poller[conn[c].loop][conn[c].fd] = c

(***************************************************************************)
(* No code runs on a destroyed connection: not the end of HandleClose, not *)
(* a functor that captured a raw this.                                     *)
(***************************************************************************)
NoUseAfterFree ==
    server = "up" =>
        \A l \in Loops :
            /\ closing[l] # None => ~Destroyed(closing[l])
            /\ at[l] <= Len(batch[l]) => ~Destroyed(batch[l][at[l]].conn)

(***************************************************************************)
(* What is destroyed is finished with.  ~TcpConnection, line 46, asserts   *)
(* that a connection is disconnected by then; and the channel's destructor *)
(* removes it by itself (line 45), which asserts that the thread is the    *)
(* loop's: what the main thread destroys, when it overwrites the entry of  *)
(* a descriptor that came back, has left nothing in its loop.              *)
(***************************************************************************)
CleanDestruction ==
    /\ "destroy" \notin setup.calls => server # "aborted"
    /\ \A c \in Conns : Destroyed(c) => conn[c].state = "Disconnected"

(***************************************************************************)
(* When a peer goes away its socket is closed in the end, so descriptors   *)
(* do not run out.                                                         *)
(***************************************************************************)
PeerCloseReclaimed == \A f \in Fds : kernel[f] = "hup" ~> kernel[f] = "free"

(***************************************************************************)
(* What is buffered is sent, or the connection goes, if the peers read: a  *)
(* peer whose socket is full reads on, and it does not for ever take in    *)
(* less than the application sends, so that every write would be cut off.  *)
(* (No time limit closes the connection of a peer that stops reading.)     *)
(***************************************************************************)
PeersRead ==
    \A f \in Fds :
        /\ WF_vars(PeerReads(f))
        /\ \A l \in Loops : SF_vars(\E c \in Conns : HandleWrite(l, f, c))

BufferDrains ==
    PeersRead =>
        \A c \in Conns :
            conn[c].out > 0 /\ conn[c].state = "Connected"
                ~> conn[c].out = 0 \/ conn[c].state # "Connected"

-----------------------------------------------------------------------------
(***************************************************************************)
(* What a comment or an assertion says and the code does not do.           *)
(***************************************************************************)

\* TcpConnection.h:52: Shutdown waits for the data to be sent, then closes.
ShutdownCompletes ==
    \A c \in Conns : conn[c].state = "Disconnecting" ~> conn[c].state = "Disconnected"

\* TcpServer.cpp:130: an erase always finds its connection.
ErasesFound == missed = {}

=============================================================================
