--------------------------- MODULE RegistryManager ---------------------------
(***************************************************************************)
(* The worker registry (AiDist/4. Registry_Manager.cpp).  Every public     *)
(* method takes m_mutex for its whole body, so each is one action.         *)
(*                                                                         *)
(* A node_id is the worker's address and the steady_clock count of its     *)
(* registration; the count only serves to make ids distinct, so here it is *)
(* a stamp that grows with every registration.  Time is whole seconds:     *)
(* the code truncates every age to seconds before it looks at it.  The     *)
(* reverse index holds vectors of ids that may repeat; the order of a      *)
(* vector is never observable (the only reader sorts), so a vector is the  *)
(* set of its push_backs, one <<id, i>> for the i-th supported model.      *)
(***************************************************************************)
EXTENDS Integers, Sequences, FiniteSets

CONSTANTS
    Addrs,              \* worker addresses
    Models,             \* model names
    SupportLists,       \* the support_models vectors that callers pass
    Memories,           \* values of available_memory_mb
    HeartbeatTimeout,   \* 30 seconds in the code
    MaxStamp,           \* bound: registrations in a behaviour
    MaxClock            \* bound: seconds in a behaviour

ASSUME RegistryAssumption ==
    /\ SupportLists \subseteq Seq(Models)
    /\ Memories \subseteq Int
    /\ HeartbeatTimeout \in Nat
    /\ MaxStamp \in Nat
    /\ MaxClock \in Nat

VARIABLES
    m_nodes,            \* node_id -> node info
    m_model_to_nodes,   \* model -> the push_backs of its vector
    stamp,              \* registrations so far
    now,                \* steady_clock, in seconds
    ret                 \* what the last call returned to its caller

registryVars == <<m_nodes, m_model_to_nodes, stamp, now, ret>>

Ids == Addrs \X (1..MaxStamp)
Listing == Ids \X Nat

RegistryNodeInfo ==
    [support_models      : Seq(Models),
     available_memory_mb : Int,
     status              : {"OFFLINE", "ONLINE", "UNHEALTHY"},
     last_heartbeat      : Nat]

NoReturn == [call |-> "none"]

-----------------------------------------------------------------------------
Init ==
    /\ m_nodes = [id \in {} |-> NoReturn]
    /\ m_model_to_nodes = [m \in Models |-> {}]
    /\ stamp = 0
    /\ now = 0
    /\ ret = NoReturn

HasNodeInfo(id) == id \in DOMAIN m_nodes

\* for (model : models) m_model_to_nodes[model].push_back(id)
PushBacks(id, models, m) ==
    {<<id, i>> : i \in {k \in DOMAIN models : models[k] = m}}

\* Faulty: the id of a registration does not advance the stamp.
RegisterWorkerSameStamp(addr, models, mem, seen) ==
    LET id == <<addr, stamp + 1>> IN
    /\ stamp < MaxStamp
    /\ m_nodes' = [i \in DOMAIN m_nodes \cup {id} |->
                     [support_models |-> models, available_memory_mb |-> mem,
                      status |-> "ONLINE", last_heartbeat |-> seen]]
    /\ m_model_to_nodes' =
         [m \in Models |-> m_model_to_nodes[m] \cup PushBacks(id, models, m)]
    /\ ret' = [call |-> "RegisterWorker", node_id |-> id]
    /\ UNCHANGED <<stamp, now>>

RegisterWorker(addr, models, mem, seen) ==
    LET id == <<addr, stamp + 1>> IN
    /\ stamp < MaxStamp
    /\ m_nodes' = [i \in DOMAIN m_nodes \cup {id} |->
                     IF i = id
                       THEN [support_models      |-> models,
                             available_memory_mb |-> mem,
                             status              |-> "ONLINE",
                             last_heartbeat      |-> seen]
                       ELSE m_nodes[i]]
    /\ m_model_to_nodes' =
         [m \in Models |-> m_model_to_nodes[m] \cup PushBacks(id, models, m)]
    /\ stamp' = stamp + 1
    /\ ret' = [call |-> "RegisterWorker", node_id |-> id]
    /\ UNCHANGED now

\* Faulty: the heartbeat does not count as contact.
UpdateHeartbeatNoRefresh(id, mem, models) ==
    /\ m_nodes' = IF HasNodeInfo(id)
                    THEN [m_nodes EXCEPT ![id].support_models = models,
                                         ![id].available_memory_mb = mem]
                    ELSE m_nodes
    /\ ret' = NoReturn
    /\ UNCHANGED <<m_model_to_nodes, stamp, now>>

\* Faulty: m_nodes[id] without the look-up first, which creates the entry.
UpdateHeartbeatUnknown(id, mem, models) ==
    /\ m_nodes' = [i \in DOMAIN m_nodes \cup {id} |->
                     IF i = id
                       THEN [support_models |-> models, available_memory_mb |-> mem,
                             status |-> "ONLINE", last_heartbeat |-> now]
                       ELSE m_nodes[i]]
    /\ ret' = NoReturn
    /\ UNCHANGED <<m_model_to_nodes, stamp, now>>

\* Known id: everything is overwritten.  The reverse index is not touched.
UpdateHeartbeat(id, mem, models) ==
    /\ m_nodes' = IF HasNodeInfo(id)
                    THEN [m_nodes EXCEPT ![id] =
                            [support_models      |-> models,
                             available_memory_mb |-> mem,
                             status              |-> "ONLINE",
                             last_heartbeat      |-> now]]
                    ELSE m_nodes
    /\ ret' = NoReturn
    /\ UNCHANGED <<m_model_to_nodes, stamp, now>>

\* Faulty: erases every listing of the worker's address.
EraseFromIndexByAddress(id) ==
    [m \in Models |-> {e \in m_model_to_nodes[m] : e[1][1] # id[1]}]

\* The erase/remove idiom over the vectors of the models the node names NOW.
EraseFromIndex(id) ==
    [m \in Models |->
       IF \E k \in DOMAIN m_nodes[id].support_models :
             m_nodes[id].support_models[k] = m
         THEN {e \in m_model_to_nodes[m] : e[1] # id}
         ELSE m_model_to_nodes[m]]

\* Faulty: the reverse index is forgotten.
RemoveWorkerKeepsIndex(id) ==
    /\ m_nodes' = [i \in DOMAIN m_nodes \ {id} |-> m_nodes[i]]
    /\ ret' = NoReturn
    /\ UNCHANGED <<m_model_to_nodes, stamp, now>>

RemoveWorker(id) ==
    /\ IF HasNodeInfo(id)
         THEN /\ m_model_to_nodes' = EraseFromIndex(id)
              /\ m_nodes' = [i \in DOMAIN m_nodes \ {id} |-> m_nodes[i]]
         ELSE UNCHANGED <<m_nodes, m_model_to_nodes>>
    /\ ret' = NoReturn
    /\ UNCHANGED <<stamp, now>>

Age(id) == now - m_nodes[id].last_heartbeat

\* Faulty: off by one at the timeout.
OnlineListingsLate(m) ==
    {e \in m_model_to_nodes[m] :
       HasNodeInfo(e[1]) /\ Age(e[1]) <= HeartbeatTimeout}

\* The filter of GetOnlineNodesByModel, one element per listing that passes.
OnlineListings(m) ==
    {e \in m_model_to_nodes[m] :
       /\ HasNodeInfo(e[1])
       /\ Age(e[1]) < HeartbeatTimeout
       /\ m_nodes[e[1]].status = "ONLINE"}

\* std::sort with available memory descending; ties come in any order.
SortedByMemory(S) ==
    {s \in [1..Cardinality(S) -> S] :
       /\ \A i, j \in DOMAIN s : s[i] = s[j] => i = j
       /\ \A i, j \in DOMAIN s :
            i < j => m_nodes[s[i][1]].available_memory_mb
                       >= m_nodes[s[j][1]].available_memory_mb}

GetOnlineNodesByModel(m) ==
    /\ \E s \in SortedByMemory(OnlineListings(m)) :
         ret' = [call  |-> "GetOnlineNodesByModel",
                 model |-> m,
                 nodes |-> [k \in DOMAIN s |->
                              [node_id |-> s[k][1], info |-> m_nodes[s[k][1]]]]]
    /\ UNCHANGED <<m_nodes, m_model_to_nodes, stamp, now>>

\* Faulty: only nodes already marked unhealthy, a status nothing ever sets.
TimedOutUnhealthy ==
    {id \in DOMAIN m_nodes :
       Age(id) > HeartbeatTimeout /\ m_nodes[id].status = "UNHEALTHY"}

TimedOut == {id \in DOMAIN m_nodes : Age(id) > HeartbeatTimeout}

\* Erases from m_nodes alone: the listings of the erased nodes stay.
ScanTimeoutNodes ==
    /\ m_nodes' = [i \in DOMAIN m_nodes \ TimedOut |-> m_nodes[i]]
    /\ ret' = [call |-> "ScanTimeoutNodes", removed |-> TimedOut]
    /\ UNCHANGED <<m_model_to_nodes, stamp, now>>

HasNode(id) ==
    /\ ret' = [call |-> "HasNode", node_id |-> id, known |-> HasNodeInfo(id)]
    /\ UNCHANGED <<m_nodes, m_model_to_nodes, stamp, now>>

\* A second passes.
Tick ==
    /\ now < MaxClock
    /\ now' = now + 1
    /\ ret' = NoReturn
    /\ UNCHANGED <<m_nodes, m_model_to_nodes, stamp>>

=============================================================================
