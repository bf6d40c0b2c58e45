----------------------------- MODULE MCTcpServer -----------------------------
(***************************************************************************)
(* Small servers with no, one or two sub loops, under applications that    *)
(* answer every message, that keep their connections and shut some down,   *)
(* and that call from other threads.                                       *)
(***************************************************************************)
EXTENDS TcpServer, TLC

CONSTANTS l1, l2

Setup(subLoops, calls, keepsRefs, maxConns) ==
    [subLoops |-> subLoops, calls |-> calls, keepsRefs |-> keepsRefs,
     maxConns |-> maxConns]

MCEcho == Setup(<<l1, l2>>, {"send"}, FALSE, 3)
MCRegistry == Setup(<<l1>>, {"send", "shutdown", "foreignSend", "destroy"}, TRUE, 2)
MCSingleThread ==
    Setup(<<>>, {"send", "shutdown", "foreignSend", "foreignShutdown"}, TRUE, 2)

MCServers == {MCEcho, MCRegistry, MCSingleThread}
MCSmallEcho == {Setup(<<l1, l2>>, {"send"}, FALSE, 2)}
MCShutdown == {Setup(<<l1>>, {"send", "shutdown"}, TRUE, 2)}

MCSymmetry == Permutations(Conns) \cup Permutations(Fds)

=============================================================================
