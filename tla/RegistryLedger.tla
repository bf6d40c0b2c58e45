---------------------------- MODULE RegistryLedger ----------------------------
(***************************************************************************)
(* The registry manager with its callers: any call, in any order, as the   *)
(* four I/O threads and the scan timer of the registry server make them.   *)
(* The ledger is a history variable: for every id ever given out it keeps  *)
(* what the callers did, independently of what the manager remembers.      *)
(***************************************************************************)
EXTENDS RegistryManager

VARIABLE ledger   \* id -> what its worker did

vars == <<registryVars, ledger>>

Account ==
    [models    : Seq(Models),  \* the models it registered with
     contact   : Nat,          \* when it last registered or sent a heartbeat
     lapsed    : BOOLEAN,      \* was it ever silent for too long
     dismissed : BOOLEAN,      \* was its removal ever asked for
     steady    : BOOLEAN]      \* did every heartbeat repeat those models

Issued == DOMAIN ledger
Members == DOMAIN m_nodes

LedgerInit == Init /\ ledger = [id \in {} |-> NoReturn]

CallRegister(addr, models, mem) ==
    /\ RegisterWorker(addr, models, mem, now)
    /\ ledger' = [i \in Issued \cup {ret'.node_id} |->
                    IF i = ret'.node_id
                      THEN [models |-> models, contact |-> now, lapsed |-> FALSE,
                            dismissed |-> FALSE, steady |-> TRUE]
                      ELSE ledger[i]]

CallHeartbeat(id, mem, models) ==
    /\ UpdateHeartbeat(id, mem, models)
    /\ ledger' = [ledger EXCEPT ![id].contact = now,
                                ![id].steady = @ /\ models = ledger[id].models]

CallRemove(id) ==
    /\ RemoveWorker(id)
    /\ ledger' = [ledger EXCEPT ![id].dismissed = TRUE]

CallQuery(m) == GetOnlineNodesByModel(m) /\ UNCHANGED ledger
CallScan == ScanTimeoutNodes /\ UNCHANGED ledger
CallHasNode(id) == HasNode(id) /\ UNCHANGED ledger

\* A second passes; whoever has now been silent for too long has lapsed.
Pass ==
    /\ Tick
    /\ ledger' = [i \in Issued |->
                    [ledger[i] EXCEPT !.lapsed =
                       @ \/ now' - ledger[i].contact > HeartbeatTimeout]]

Next ==
    \/ \E a \in Addrs, models \in SupportLists, mem \in Memories :
         CallRegister(a, models, mem)
    \/ \E id \in Issued, models \in SupportLists, mem \in Memories :
         CallHeartbeat(id, mem, models)
    \/ \E id \in Issued : CallRemove(id)
    \/ \E m \in Models : CallQuery(m)
    \/ CallScan
    \/ \E id \in Issued : CallHasNode(id)
    \/ Pass

Spec == LedgerInit /\ [][Next]_vars

\* The scan task puts itself back on the main loop's timer queue forever.
FairSpec == Spec /\ WF_vars(CallScan)

-----------------------------------------------------------------------------
(***************************************************************************)
(* The state and the ledger hold values of their types, and everything the *)
(* registry holds is about ids it gave out.                                *)
(***************************************************************************)
TypeOK ==
    /\ m_nodes \in [Members -> RegistryNodeInfo]
    /\ m_model_to_nodes \in [Models -> SUBSET Listing]
    /\ stamp \in Nat
    /\ now \in Nat
    /\ ledger \in [Issued -> Account]
    /\ Issued \subseteq Ids
    /\ Members \subseteq Issued
    /\ \A id \in Issued : id[2] <= stamp
    /\ \A m \in Models : \A e \in m_model_to_nodes[m] : e[1] \in Issued

(***************************************************************************)
(* Nobody is dropped who should not be: a worker that was never silent for *)
(* more than the timeout and never asked to leave is still registered.     *)
(***************************************************************************)
HeardFromStays ==
    \A id \in Issued :
        ~ledger[id].lapsed /\ ~ledger[id].dismissed => id \in Members

(***************************************************************************)
(* The reverse index lists a registered node under exactly the models it   *)
(* registered with, once for each time its list named the model, whatever  *)
(* heartbeats, removals of other nodes and scans came in between.          *)
(***************************************************************************)
ListedAsRegistered ==
    \A id \in Members, m \in Models :
        {e \in m_model_to_nodes[m] : e[1] = id}
            = PushBacks(id, ledger[id].models, m)

(***************************************************************************)
(* RemoveWorker leaves no listing of a node that was still registered and  *)
(* whose heartbeats never changed its models.                              *)
(***************************************************************************)
DismissedUnlisted ==
    \A id \in Issued :
        ledger[id].dismissed /\ ~ledger[id].lapsed /\ ledger[id].steady
            => \A m \in Models : \A e \in m_model_to_nodes[m] : e[1] # id

\* How often a node appears in the answer of a query.
Answers(id) == Cardinality({k \in DOMAIN ret.nodes : ret.nodes[k].node_id = id})

(***************************************************************************)
(* The answer of GetOnlineNodesByModel, judged by what workers did: nobody *)
(* appears who is not registered or was not heard from within the timeout; *)
(* a worker whose heartbeats kept its models appears once for each time    *)
(* its list names the model, and the freest worker comes first.  A worker  *)
(* whose heartbeat changed the list is still found under the old one,      *)
(* because the index is not touched (Registry_Manager.cpp:34).             *)
(***************************************************************************)
HeardFrom(id) == id \in Members /\ now - ledger[id].contact < HeartbeatTimeout

QueryExact ==
    ret.call = "GetOnlineNodesByModel" =>
        /\ \A id \in Issued : ~HeardFrom(id) => Answers(id) = 0
        /\ \A id \in Issued :
             HeardFrom(id) /\ ledger[id].steady =>
               Answers(id) = Cardinality({k \in DOMAIN ledger[id].models :
                                            ledger[id].models[k] = ret.model})
        /\ \A k \in DOMAIN ret.nodes :
             \A l \in 1..k : ret.nodes[l].info.available_memory_mb
                               >= ret.nodes[k].info.available_memory_mb

(***************************************************************************)
(* A node that stays silent past the timeout does not stay registered: the *)
(* scan removes it unless it is heard from again first.                    *)
(***************************************************************************)
SilentEvicted ==
    \A id \in Ids :
        (id \in Members /\ now - ledger[id].contact > HeartbeatTimeout)
            ~> (id \notin Members \/ now - ledger[id].contact <= HeartbeatTimeout)

(***************************************************************************)
(* Ids join once and never come back (refinement of RegistryMembership).   *)
(***************************************************************************)
Membership == INSTANCE RegistryMembership
                WITH Ids <- Ids, members <- Members, former <- Issued \ Members
MembershipSpec == Membership!Spec

=============================================================================
