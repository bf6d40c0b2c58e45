------------------------- MODULE RegistryLedgerProofs -------------------------
(***************************************************************************)
(* Proofs about the registry manager and its callers, for any sets of      *)
(* addresses, models, support lists and memory values, any timeout and any *)
(* bounds.                                                                 *)
(***************************************************************************)
EXTENDS RegistryLedger, FiniteSetTheorems, TLAPS

(***************************************************************************)
(* HeardFromStays is not inductive: to know that the scan spares a worker  *)
(* one must know that the manager's last_heartbeat is the time at which    *)
(* the worker was last heard from, and that a worker that never lapsed is  *)
(* within the timeout at every moment.                                     *)
(***************************************************************************)
ContactKept == \A id \in Members : m_nodes[id].last_heartbeat = ledger[id].contact
WithinTimeout ==
    \A id \in Issued :
        ~ledger[id].lapsed => now - ledger[id].contact <= HeartbeatTimeout

IInv == TypeOK /\ ContactKept /\ WithinTimeout /\ HeardFromStays /\ ListedAsRegistered

(***************************************************************************)
(* Nothing is registered, listed or issued at the start.                   *)
(***************************************************************************)
LEMMA LedgerInitIInv == LedgerInit => IInv
<1> SUFFICES ASSUME LedgerInit PROVE IInv
  OBVIOUS
<1>1. Members = {} /\ Issued = {}
  BY DEF LedgerInit, Init, Members, Issued
<1>2. TypeOK
  <2>1. m_nodes \in [Members -> RegistryNodeInfo]
    BY <1>1 DEF LedgerInit, Init, Members
  <2>2. ledger \in [Issued -> Account]
    BY <1>1 DEF LedgerInit, Issued
  <2>3. m_model_to_nodes \in [Models -> SUBSET Listing]
    BY DEF LedgerInit, Init
  <2> QED
    BY <1>1, <2>1, <2>2, <2>3 DEF TypeOK, LedgerInit, Init
<1> QED
  BY <1>1, <1>2 DEF IInv, ContactKept, WithinTimeout, HeardFromStays, ListedAsRegistered

(***************************************************************************)
(* The next id the manager makes was never given out.                      *)
(***************************************************************************)
LEMMA FreshId ==
    ASSUME TypeOK, NEW a \in Addrs, stamp < MaxStamp
    PROVE  <<a, stamp + 1>> \in Ids /\ <<a, stamp + 1>> \notin Issued
BY RegistryAssumption DEF TypeOK, Ids

(***************************************************************************)
(* A registration adds one fresh id, with its listings, and leaves the     *)
(* records and the listings of everybody else alone.                       *)
(***************************************************************************)
LEMMA RegisterKeepsIInv ==
    ASSUME IInv, NEW a \in Addrs, NEW models \in SupportLists, NEW mem \in Memories,
           CallRegister(a, models, mem)
    PROVE  IInv'
<1> DEFINE id == <<a, stamp + 1>>
<1>1. stamp < MaxStamp /\ id \in Ids /\ id \notin Issued /\ id \notin Members
  BY FreshId DEF IInv, TypeOK, CallRegister, RegisterWorker
<1>2. models \in Seq(Models) /\ mem \in Int
  BY RegistryAssumption
<1>3. /\ Issued' = Issued \cup {id}
      /\ ledger'[id] = [models |-> models, contact |-> now, lapsed |-> FALSE,
                        dismissed |-> FALSE, steady |-> TRUE]
      /\ \A i \in Issued : ledger'[i] = ledger[i]
  BY <1>1 DEF CallRegister, RegisterWorker, Issued
<1>4. /\ Members' = Members \cup {id}
      /\ m_nodes'[id] = [support_models |-> models, available_memory_mb |-> mem,
                         status |-> "ONLINE", last_heartbeat |-> now]
      /\ \A i \in Members : m_nodes'[i] = m_nodes[i]
  BY <1>1 DEF CallRegister, RegisterWorker, Members
<1>5. \A m \in Models :
        m_model_to_nodes'[m] = m_model_to_nodes[m] \cup PushBacks(id, models, m)
  BY DEF CallRegister, RegisterWorker
<1>6. \A m : PushBacks(id, models, m) \subseteq {id} \X Nat
  BY <1>2 DEF PushBacks
<1>7. stamp' = stamp + 1 /\ now' = now
  BY DEF CallRegister, RegisterWorker
<1>8. TypeOK'
  <2>1. (m_nodes \in [Members -> RegistryNodeInfo])'
    <3>1. m_nodes' = [i \in Members' |-> m_nodes'[i]]
      BY DEF CallRegister, RegisterWorker, Members
    <3>2. \A i \in Members' : m_nodes'[i] \in RegistryNodeInfo
      <4>1. m_nodes'[id] \in RegistryNodeInfo
        BY <1>2, <1>4 DEF IInv, TypeOK, RegistryNodeInfo
      <4>2. \A i \in Members : m_nodes[i] \in RegistryNodeInfo
        BY DEF IInv, TypeOK
      <4> QED
        BY <1>4, <4>1, <4>2
    <3> QED
      BY <3>1, <3>2
  <2>2. (ledger \in [Issued -> Account])'
    <3>1. ledger' = [i \in Issued' |-> ledger'[i]]
      BY DEF CallRegister, Issued
    <3>2. \A i \in Issued' : ledger'[i] \in Account
      <4>1. ledger'[id] \in Account
        BY <1>2, <1>3 DEF IInv, TypeOK, Account
      <4>2. \A i \in Issued : ledger[i] \in Account
        BY DEF IInv, TypeOK
      <4> QED
        BY <1>3, <4>1, <4>2
    <3> QED
      BY <3>1, <3>2
  <2>3. (m_model_to_nodes \in [Models -> SUBSET Listing])'
    <3>1. m_model_to_nodes' = [m \in Models |-> m_model_to_nodes'[m]]
      BY DEF CallRegister, RegisterWorker
    <3>2. \A m \in Models : m_model_to_nodes'[m] \subseteq Listing
      BY <1>1, <1>5, <1>6 DEF IInv, TypeOK, Listing
    <3> QED
      BY <3>1, <3>2
  <2>4. Issued' \subseteq Ids /\ Members' \subseteq Issued'
    BY <1>1, <1>3, <1>4 DEF IInv, TypeOK
  <2>5. \A i \in Issued' : i[2] <= stamp'
    BY <1>3, <1>7 DEF IInv, TypeOK, Ids
  <2>6. \A m \in Models : \A e \in m_model_to_nodes'[m] : e[1] \in Issued'
    BY <1>3, <1>5, <1>6 DEF IInv, TypeOK
  <2> QED
    BY <1>7, <2>1, <2>2, <2>3, <2>4, <2>5, <2>6 DEF IInv, TypeOK
<1>9. ContactKept'
  BY <1>1, <1>3, <1>4 DEF IInv, TypeOK, ContactKept
<1>10. WithinTimeout'
  BY <1>3, <1>7, RegistryAssumption DEF IInv, TypeOK, WithinTimeout
<1>11. HeardFromStays'
  BY <1>3, <1>4 DEF IInv, HeardFromStays
<1>12. ListedAsRegistered'
  <2> SUFFICES ASSUME NEW i \in Members', NEW m \in Models
               PROVE {e \in m_model_to_nodes'[m] : e[1] = i}
                       = PushBacks(i, ledger'[i].models, m)
    BY DEF ListedAsRegistered, PushBacks
  <2>1. CASE i = id
    <3>1. \A e \in m_model_to_nodes[m] : e[1] # id
      BY <1>1 DEF IInv, TypeOK
    <3> QED
      BY <1>3, <1>5, <1>6, <2>1, <3>1
  <2>2. CASE i # id
    <3>1. i \in Members /\ ledger'[i] = ledger[i]
      BY <1>3, <1>4, <2>2 DEF IInv, TypeOK
    <3> QED
      BY <1>5, <1>6, <2>2, <3>1 DEF IInv, ListedAsRegistered
  <2> QED
    BY <2>1, <2>2
<1> QED
  BY <1>8, <1>9, <1>10, <1>11, <1>12 DEF IInv

(***************************************************************************)
(* A heartbeat refreshes the record of a registered node and the account   *)
(* of whoever sent it; the reverse index does not change.                  *)
(***************************************************************************)
LEMMA HeartbeatKeepsIInv ==
    ASSUME IInv, NEW id \in Issued, NEW models \in SupportLists, NEW mem \in Memories,
           CallHeartbeat(id, mem, models)
    PROVE  IInv'
<1>1. models \in Seq(Models) /\ mem \in Int
  BY RegistryAssumption
<1>2. /\ Issued' = Issued
      /\ ledger'[id] = [ledger[id] EXCEPT !.contact = now,
                                         !.steady = @ /\ models = ledger[id].models]
      /\ \A i \in Issued : i # id => ledger'[i] = ledger[i]
  BY DEF IInv, TypeOK, CallHeartbeat, Issued, Account
<1>3. /\ ledger'[id].contact = now
      /\ ledger'[id].models = ledger[id].models
      /\ ledger'[id].lapsed = ledger[id].lapsed
      /\ ledger'[id].dismissed = ledger[id].dismissed
  BY <1>2 DEF IInv, TypeOK, Account
<1>4. /\ Members' = Members
      /\ id \in Members => m_nodes'[id] =
            [support_models |-> models, available_memory_mb |-> mem,
             status |-> "ONLINE", last_heartbeat |-> now]
      /\ \A i \in Members : i # id => m_nodes'[i] = m_nodes[i]
  BY DEF IInv, TypeOK, CallHeartbeat, UpdateHeartbeat, HasNodeInfo, Members
<1>5. m_model_to_nodes' = m_model_to_nodes /\ stamp' = stamp /\ now' = now
  BY DEF CallHeartbeat, UpdateHeartbeat
<1>6. TypeOK'
  <2>1. (m_nodes \in [Members -> RegistryNodeInfo])'
    <3>1. m_nodes' = [i \in Members' |-> m_nodes'[i]]
      BY DEF IInv, TypeOK, CallHeartbeat, UpdateHeartbeat, Members
    <3>2. ASSUME id \in Members PROVE m_nodes'[id] \in RegistryNodeInfo
      BY <1>1, <1>4, <3>2 DEF IInv, TypeOK, RegistryNodeInfo
    <3>3. ASSUME NEW i \in Members, i # id PROVE m_nodes'[i] \in RegistryNodeInfo
      BY <1>4, <3>3 DEF IInv, TypeOK
    <3> QED
      BY <1>4, <3>1, <3>2, <3>3
  <2>2. (ledger \in [Issued -> Account])'
    <3>1. ledger' = [i \in Issued' |-> ledger'[i]]
      BY DEF IInv, TypeOK, CallHeartbeat, Issued
    <3>2. ledger'[id] \in Account
      BY <1>2 DEF IInv, TypeOK, Account
    <3>3. ASSUME NEW i \in Issued, i # id PROVE ledger'[i] \in Account
      BY <1>2, <3>3 DEF IInv, TypeOK
    <3> QED
      BY <1>2, <3>1, <3>2, <3>3
  <2> QED
    BY <1>2, <1>4, <1>5, <2>1, <2>2 DEF IInv, TypeOK
<1>7. ContactKept'
  <2>1. ASSUME id \in Members PROVE m_nodes'[id].last_heartbeat = ledger'[id].contact
    BY <1>3, <1>4, <2>1
  <2>2. ASSUME NEW i \in Members, i # id
        PROVE  m_nodes'[i].last_heartbeat = ledger'[i].contact
    BY <1>2, <1>4, <2>2 DEF IInv, TypeOK, ContactKept
  <2> QED
    BY <1>4, <2>1, <2>2 DEF ContactKept
<1>8. WithinTimeout'
  <2>1. now - ledger'[id].contact <= HeartbeatTimeout
    BY <1>3, RegistryAssumption DEF IInv, TypeOK
  <2>2. ASSUME NEW i \in Issued, i # id, ~ledger'[i].lapsed
        PROVE  now - ledger'[i].contact <= HeartbeatTimeout
    BY <1>2, <2>2 DEF IInv, WithinTimeout
  <2> QED
    BY <1>2, <1>5, <2>1, <2>2 DEF WithinTimeout
<1>9. HeardFromStays'
  BY <1>2, <1>3, <1>4 DEF IInv, HeardFromStays
<1>10. ListedAsRegistered'
  <2>1. \A i \in Issued : ledger'[i].models = ledger[i].models
    BY <1>2, <1>3
  <2> SUFFICES ASSUME NEW i \in Members', NEW m \in Models
               PROVE {e \in m_model_to_nodes'[m] : e[1] = i}
                       = PushBacks(i, ledger'[i].models, m)
    BY DEF ListedAsRegistered, PushBacks
  <2> QED
    BY <1>4, <1>5, <2>1 DEF IInv, TypeOK, ListedAsRegistered
<1> QED
  BY <1>6, <1>7, <1>8, <1>9, <1>10 DEF IInv

(***************************************************************************)
(* Dropping nodes, by request or by the scan, keeps the types: records and *)
(* listings only disappear.                                                *)
(***************************************************************************)
LEMMA DropKeepsTypes ==
    ASSUME TypeOK, NEW S \in SUBSET Members,
           m_nodes' = [i \in Members \ S |-> m_nodes[i]],
           m_model_to_nodes' \in [Models -> SUBSET Listing],
           \A m \in Models : m_model_to_nodes'[m] \subseteq m_model_to_nodes[m],
           ledger' \in [Issued' -> Account], Issued' = Issued,
           stamp' = stamp, now' = now
    PROVE  TypeOK' /\ Members' = Members \ S /\ \A i \in Members' : m_nodes'[i] = m_nodes[i]
<1>1. Members' = Members \ S /\ \A i \in Members' : m_nodes'[i] = m_nodes[i]
  BY DEF Members
<1>2. (m_nodes \in [Members -> RegistryNodeInfo])'
  BY <1>1 DEF TypeOK
<1> QED
  BY <1>1, <1>2 DEF TypeOK

(***************************************************************************)
(* RemoveWorker drops one node, and from the index only listings of it.    *)
(***************************************************************************)
LEMMA RemoveKeepsIInv ==
    ASSUME IInv, NEW id \in Issued, CallRemove(id)
    PROVE  IInv'
<1>1. /\ Issued' = Issued
      /\ \A i \in Issued : /\ ledger'[i].models = ledger[i].models
                           /\ ledger'[i].contact = ledger[i].contact
                           /\ ledger'[i].lapsed = ledger[i].lapsed
                           /\ ~ledger'[i].dismissed => i # id /\ ~ledger[i].dismissed
  <2>1. Issued' = Issued /\ \A i \in Issued : i # id => ledger'[i] = ledger[i]
    BY DEF IInv, TypeOK, CallRemove, Issued
  <2>2. ledger'[id] = [ledger[id] EXCEPT !.dismissed = TRUE] /\ ledger[id] \in Account
    BY DEF IInv, TypeOK, CallRemove
  <2>3. /\ ledger'[id].models = ledger[id].models
        /\ ledger'[id].contact = ledger[id].contact
        /\ ledger'[id].lapsed = ledger[id].lapsed
        /\ ledger'[id].dismissed
    BY <2>2 DEF Account
  <2> QED
    BY <2>1, <2>3
<1>2. (ledger \in [Issued -> Account])'
  <2>1. ledger' = [i \in Issued |-> ledger'[i]]
    BY <1>1 DEF IInv, TypeOK, CallRemove, Issued
  <2>2. ledger'[id] \in Account
    BY DEF IInv, TypeOK, CallRemove, Account
  <2>3. ASSUME NEW i \in Issued, i # id PROVE ledger'[i] \in Account
    BY <2>3 DEF IInv, TypeOK, CallRemove
  <2> QED
    BY <1>1, <2>1, <2>2, <2>3
<1>3. stamp' = stamp /\ now' = now
  BY DEF CallRemove, RemoveWorker
<1> DEFINE S == Members \cap {id}
<1>4. m_nodes' = [i \in Members \ S |-> m_nodes[i]]
  BY DEF IInv, TypeOK, CallRemove, RemoveWorker, HasNodeInfo, Members
<1>5. /\ m_model_to_nodes' \in [Models -> SUBSET Listing]
      /\ \A m \in Models :
           /\ m_model_to_nodes'[m] \subseteq m_model_to_nodes[m]
           /\ \A e \in m_model_to_nodes[m] : e[1] # id => e \in m_model_to_nodes'[m]
  <2>1. CASE HasNodeInfo(id)
    BY <2>1 DEF IInv, TypeOK, CallRemove, RemoveWorker, EraseFromIndex
  <2>2. CASE ~HasNodeInfo(id)
    BY <2>2 DEF IInv, TypeOK, CallRemove, RemoveWorker
  <2> QED
    BY <2>1, <2>2
<1>6. TypeOK' /\ Members' = Members \ {id} /\ \A i \in Members' : m_nodes'[i] = m_nodes[i]
  <2>1. S \in SUBSET Members /\ Members \ S = Members \ {id}
    OBVIOUS
  <2>2. TypeOK' /\ Members' = Members \ S /\ \A i \in Members' : m_nodes'[i] = m_nodes[i]
    <3> HIDE DEF S
    <3> QED
      BY <1>1, <1>2, <1>3, <1>4, <1>5, <2>1, DropKeepsTypes DEF IInv
  <2> QED
    BY <2>1, <2>2
<1>7. ContactKept' /\ WithinTimeout' /\ HeardFromStays'
  <2>1. ContactKept'
    BY <1>1, <1>6 DEF IInv, TypeOK, ContactKept
  <2>2. WithinTimeout'
    BY <1>1, <1>3 DEF IInv, WithinTimeout
  <2>3. HeardFromStays'
    BY <1>1, <1>6 DEF IInv, HeardFromStays
  <2> QED
    BY <2>1, <2>2, <2>3
<1>8. ListedAsRegistered'
  <2> SUFFICES ASSUME NEW i \in Members', NEW m \in Models
               PROVE {e \in m_model_to_nodes'[m] : e[1] = i}
                       = PushBacks(i, ledger'[i].models, m)
    BY DEF ListedAsRegistered, PushBacks
  <2>1. {e \in m_model_to_nodes'[m] : e[1] = i} = {e \in m_model_to_nodes[m] : e[1] = i}
    BY <1>5, <1>6
  <2> QED
    BY <1>1, <1>6, <2>1 DEF IInv, TypeOK, ListedAsRegistered
<1> QED
  BY <1>6, <1>7, <1>8 DEF IInv

(***************************************************************************)
(* The scan drops only nodes whose workers have lapsed.                    *)
(***************************************************************************)
LEMMA ScanKeepsIInv ==
    ASSUME IInv, CallScan
    PROVE  IInv'
<1>1. /\ m_nodes' = [i \in Members \ TimedOut |-> m_nodes[i]]
      /\ TimedOut \subseteq Members
      /\ UNCHANGED <<m_model_to_nodes, stamp, now, ledger>>
      /\ Issued' = Issued
  BY DEF CallScan, ScanTimeoutNodes, TimedOut, Members, Issued
<1>2. TypeOK' /\ Members' = Members \ TimedOut
             /\ \A i \in Members' : m_nodes'[i] = m_nodes[i]
  BY <1>1, DropKeepsTypes DEF IInv, TypeOK
<1>3. \A id \in TimedOut : ledger[id].lapsed
  <2> SUFFICES ASSUME NEW id \in TimedOut, ~ledger[id].lapsed PROVE FALSE
    OBVIOUS
  <2>1. id \in Members /\ now - m_nodes[id].last_heartbeat > HeartbeatTimeout
    BY DEF TimedOut, Age, Members
  <2>2. m_nodes[id].last_heartbeat = ledger[id].contact
    BY <2>1 DEF IInv, ContactKept
  <2>3. now - ledger[id].contact <= HeartbeatTimeout
    BY <2>1 DEF IInv, TypeOK, WithinTimeout
  <2>4. ledger[id].contact \in Nat /\ now \in Nat
    BY <2>1 DEF IInv, TypeOK, Account
  <2> QED
    BY <2>1, <2>2, <2>3, <2>4, RegistryAssumption
<1>4. ContactKept' /\ WithinTimeout'
  BY <1>1, <1>2 DEF IInv, ContactKept, WithinTimeout
<1>5. HeardFromStays'
  BY <1>1, <1>2, <1>3 DEF IInv, HeardFromStays
<1>6. ListedAsRegistered'
  BY <1>1, <1>2 DEF IInv, ListedAsRegistered, PushBacks
<1> QED
  BY <1>2, <1>4, <1>5, <1>6 DEF IInv

(***************************************************************************)
(* When a second passes, a worker that stays within the timeout does not   *)
(* lapse, and one that leaves it does.                                     *)
(***************************************************************************)
LEMMA PassKeepsIInv ==
    ASSUME IInv, Pass
    PROVE  IInv'
<1>1. /\ UNCHANGED <<m_nodes, m_model_to_nodes, stamp>>
      /\ now' = now + 1
      /\ Members' = Members
      /\ Issued' = Issued
  BY DEF Pass, Tick, Members, Issued
<1>2. ASSUME NEW i \in Issued
      PROVE  /\ ledger'[i] \in Account
             /\ ledger'[i].models = ledger[i].models
             /\ ledger'[i].contact = ledger[i].contact
             /\ ledger'[i].dismissed = ledger[i].dismissed
             /\ ~ledger'[i].lapsed => /\ ~ledger[i].lapsed
                                      /\ now' - ledger[i].contact <= HeartbeatTimeout
  <2>1. ledger'[i] = [ledger[i] EXCEPT !.lapsed =
                        @ \/ now' - ledger[i].contact > HeartbeatTimeout]
    BY DEF Pass
  <2>2. ledger[i] \in Account
    BY DEF IInv, TypeOK
  <2>3. /\ ledger'[i] \in Account
        /\ ledger'[i].models = ledger[i].models
        /\ ledger'[i].contact = ledger[i].contact
        /\ ledger'[i].dismissed = ledger[i].dismissed
    BY <2>1, <2>2 DEF Account
  <2>4. ledger'[i].lapsed = (ledger[i].lapsed \/ now' - ledger[i].contact > HeartbeatTimeout)
    BY <2>1, <2>2 DEF Account
  <2>5. ~(now' - ledger[i].contact > HeartbeatTimeout)
          => now' - ledger[i].contact <= HeartbeatTimeout
    BY <1>1, <2>2, RegistryAssumption DEF IInv, TypeOK, Account
  <2> QED
    BY <2>3, <2>4, <2>5
<1>3. TypeOK'
  <2>1. (ledger \in [Issued -> Account])'
    BY <1>1, <1>2 DEF Pass
  <2> QED
    BY <1>1, <2>1 DEF IInv, TypeOK
<1>4. ContactKept' /\ WithinTimeout' /\ HeardFromStays'
  <2>1. ContactKept'
    BY <1>1, <1>2 DEF IInv, TypeOK, ContactKept
  <2>2. WithinTimeout'
    BY <1>1, <1>2 DEF WithinTimeout
  <2>3. HeardFromStays'
    BY <1>1, <1>2 DEF IInv, HeardFromStays
  <2> QED
    BY <2>1, <2>2, <2>3
<1>5. ListedAsRegistered'
  <2> SUFFICES ASSUME NEW i \in Members', NEW m \in Models
               PROVE {e \in m_model_to_nodes'[m] : e[1] = i}
                       = PushBacks(i, ledger'[i].models, m)
    BY DEF ListedAsRegistered, PushBacks
  <2> QED
    BY <1>1, <1>2 DEF IInv, TypeOK, ListedAsRegistered
<1> QED
  BY <1>3, <1>4, <1>5 DEF IInv

(***************************************************************************)
(* Calls that only read, and stuttering, change nothing the invariant      *)
(* speaks of.                                                              *)
(***************************************************************************)
LEMMA ReadKeepsIInv ==
    ASSUME IInv, UNCHANGED <<m_nodes, m_model_to_nodes, stamp, now, ledger>>
    PROVE  IInv'
BY DEF IInv, TypeOK, ContactKept, WithinTimeout, HeardFromStays, ListedAsRegistered,
       PushBacks, Members, Issued

(***************************************************************************)
(* Whatever the callers do, in any order, the manager's records agree with *)
(* what the workers did.                                                   *)
(***************************************************************************)
THEOREM LedgerInvariant == Spec => []IInv
<1>1. IInv /\ [Next]_vars => IInv'
  <2> SUFFICES ASSUME IInv, [Next]_vars PROVE IInv'
    OBVIOUS
  <2>1. ASSUME NEW a \in Addrs, NEW models \in SupportLists, NEW mem \in Memories,
               CallRegister(a, models, mem)
        PROVE  IInv'
    BY <2>1, RegisterKeepsIInv
  <2>2. ASSUME NEW id \in Issued, NEW models \in SupportLists, NEW mem \in Memories,
               CallHeartbeat(id, mem, models)
        PROVE  IInv'
    BY <2>2, HeartbeatKeepsIInv
  <2>3. ASSUME NEW id \in Issued, CallRemove(id) PROVE IInv'
    BY <2>3, RemoveKeepsIInv
  <2>4. ASSUME NEW m \in Models, CallQuery(m) PROVE IInv'
    BY <2>4, ReadKeepsIInv DEF CallQuery, GetOnlineNodesByModel
  <2>5. CASE CallScan
    BY <2>5, ScanKeepsIInv
  <2>6. ASSUME NEW id \in Issued, CallHasNode(id) PROVE IInv'
    BY <2>6, ReadKeepsIInv DEF CallHasNode, HasNode
  <2>7. CASE Pass
    BY <2>7, PassKeepsIInv
  <2>8. CASE UNCHANGED vars
    BY <2>8, ReadKeepsIInv DEF vars, registryVars
  <2> QED
    BY <2>1, <2>2, <2>3, <2>4, <2>5, <2>6, <2>7, <2>8 DEF Next
<1> QED
  BY <1>1, LedgerInitIInv, PTL DEF Spec

(***************************************************************************)
(* The types hold, and every id in the registry was given out by it.       *)
(***************************************************************************)
THEOREM LedgerTypes == Spec => []TypeOK
BY LedgerInvariant, PTL DEF IInv

(***************************************************************************)
(* A worker that kept in touch and did not ask to leave is registered, for *)
(* every timeout and every number of workers, models and registrations.    *)
(***************************************************************************)
THEOREM NobodyDroppedWrongly == Spec => []HeardFromStays
BY LedgerInvariant, PTL DEF IInv

(***************************************************************************)
(* The reverse index answers for the models of the registration.           *)
(***************************************************************************)
THEOREM IndexMatchesRegistrations == Spec => []ListedAsRegistered
BY LedgerInvariant, PTL DEF IInv

-----------------------------------------------------------------------------
(***************************************************************************)
(* The records.  A removal finds the listings of a node by the models its  *)
(* record names at that moment, and a query trusts the record's status and *)
(* the vector of its model: that this is enough rests on what the record   *)
(* of a node with steady heartbeats still says, on the fact that nobody    *)
(* comes back after a removal, and on the index being finite.              *)
(***************************************************************************)
SteadyRecord ==
    \A id \in Members :
        ledger[id].steady => m_nodes[id].support_models = ledger[id].models
DismissedGone == \A id \in Issued : ledger[id].dismissed => id \notin Members
RecordsOnline == \A id \in Members : m_nodes[id].status = "ONLINE"
IndexFinite == \A m \in Models : IsFiniteSet(m_model_to_nodes[m])

Records ==
    SteadyRecord /\ DismissedGone /\ RecordsOnline /\ IndexFinite /\ DismissedUnlisted

(***************************************************************************)
(* The push_backs of one registration are finitely many.                   *)
(***************************************************************************)
LEMMA PushBacksFinite ==
    ASSUME NEW id, NEW models \in Seq(Models), NEW m
    PROVE  IsFiniteSet(PushBacks(id, models, m))
<1> DEFINE K == {k \in DOMAIN models : models[k] = m}
           f == [k \in K |-> <<id, k>>]
<1>1. IsFiniteSet(K)
  <2>1. DOMAIN models = 1..Len(models) /\ Len(models) \in Int
    OBVIOUS
  <2> QED
    BY <2>1, FS_Interval, FS_Subset, K \subseteq 1..Len(models)
<1>2. f \in Surjection(K, PushBacks(id, models, m))
  BY DEF Surjection, PushBacks
<1> QED
  BY <1>1, <1>2, FS_Surjection

(***************************************************************************)
(* At the start there are no records.                                      *)
(***************************************************************************)
LEMMA InitRecords == LedgerInit => Records
BY FS_EmptySet DEF LedgerInit, Init, Records, SteadyRecord, DismissedGone, RecordsOnline,
   IndexFinite, DismissedUnlisted, Members, Issued

(***************************************************************************)
(* A registration writes its models into the record and into the index,    *)
(* under an id that nobody was dismissed from.                             *)
(***************************************************************************)
LEMMA RegisterKeepsRecords ==
    ASSUME IInv, Records,
           NEW a \in Addrs, NEW models \in SupportLists, NEW mem \in Memories,
           CallRegister(a, models, mem)
    PROVE  Records'
<1> DEFINE id == <<a, stamp + 1>>
<1>1. id \in Ids /\ id \notin Issued /\ id \notin Members
  BY FreshId DEF IInv, TypeOK, CallRegister, RegisterWorker
<1>2. models \in Seq(Models)
  BY RegistryAssumption
<1>3. /\ Issued' = Issued \cup {id}
      /\ ledger'[id] = [models |-> models, contact |-> now, lapsed |-> FALSE,
                        dismissed |-> FALSE, steady |-> TRUE]
      /\ \A i \in Issued : ledger'[i] = ledger[i]
  BY <1>1 DEF CallRegister, RegisterWorker, Issued
<1>4. /\ Members' = Members \cup {id}
      /\ m_nodes'[id] = [support_models |-> models, available_memory_mb |-> mem,
                         status |-> "ONLINE", last_heartbeat |-> now]
      /\ \A i \in Members : m_nodes'[i] = m_nodes[i]
  BY <1>1 DEF CallRegister, RegisterWorker, Members
<1>5. \A m \in Models :
        m_model_to_nodes'[m] = m_model_to_nodes[m] \cup PushBacks(id, models, m)
  BY DEF CallRegister, RegisterWorker
<1>6. \A m : \A e \in PushBacks(id, models, m) : e[1] = id
  BY DEF PushBacks
<1> HIDE DEF id
<1>7. SteadyRecord'
  BY <1>1, <1>3, <1>4 DEF IInv, TypeOK, Records, SteadyRecord
<1>8. DismissedGone' /\ RecordsOnline'
  BY <1>1, <1>3, <1>4 DEF Records, DismissedGone, RecordsOnline
<1>9. IndexFinite'
  <2> SUFFICES ASSUME NEW m \in Models PROVE IsFiniteSet(m_model_to_nodes'[m])
    BY DEF IndexFinite
  <2>1. IsFiniteSet(m_model_to_nodes[m])
    BY DEF Records, IndexFinite
  <2>2. IsFiniteSet(PushBacks(id, models, m))
    BY <1>2, PushBacksFinite
  <2> QED
    BY <1>5, <2>1, <2>2, FS_Union
<1>10. DismissedUnlisted'
  BY <1>1, <1>3, <1>5, <1>6 DEF Records, DismissedUnlisted
<1> QED
  BY <1>7, <1>8, <1>9, <1>10 DEF Records

(***************************************************************************)
(* A heartbeat keeps the worker steady only if it repeats the models, and  *)
(* it brings nobody back who was dismissed.                                *)
(***************************************************************************)
LEMMA HeartbeatKeepsRecords ==
    ASSUME IInv, Records,
           NEW id \in Issued, NEW models \in SupportLists, NEW mem \in Memories,
           CallHeartbeat(id, mem, models)
    PROVE  Records'
<1>1. /\ Issued' = Issued
      /\ ledger'[id] = [ledger[id] EXCEPT !.contact = now,
                                         !.steady = @ /\ models = ledger[id].models]
      /\ \A i \in Issued : i # id => ledger'[i] = ledger[i]
  BY DEF IInv, TypeOK, CallHeartbeat, Issued, Account
<1>2. ASSUME NEW i \in Issued
      PROVE  /\ ledger'[i].models = ledger[i].models
             /\ ledger'[i].lapsed = ledger[i].lapsed
             /\ ledger'[i].dismissed = ledger[i].dismissed
  <2>1. ledger[id] \in Account
    BY DEF IInv, TypeOK
  <2>2. CASE i = id
    BY <1>1, <2>1, <2>2 DEF Account
  <2>3. CASE i # id
    BY <1>1, <2>3
  <2> QED
    BY <2>2, <2>3
<1>3. ledger'[id].steady = (ledger[id].steady /\ models = ledger[id].models)
  BY <1>1 DEF IInv, TypeOK, Account
<1>4. /\ Members' = Members
      /\ id \in Members => m_nodes'[id] =
            [support_models |-> models, available_memory_mb |-> mem,
             status |-> "ONLINE", last_heartbeat |-> now]
      /\ \A i \in Members : i # id => m_nodes'[i] = m_nodes[i]
  BY DEF IInv, TypeOK, CallHeartbeat, UpdateHeartbeat, HasNodeInfo, Members
<1>5. m_model_to_nodes' = m_model_to_nodes
  BY DEF CallHeartbeat, UpdateHeartbeat
<1>6. SteadyRecord'
  <2> SUFFICES ASSUME NEW i \in Members, ledger'[i].steady
               PROVE  m_nodes'[i].support_models = ledger'[i].models
    BY <1>4 DEF SteadyRecord
  <2>1. CASE i = id
    <3>1. m_nodes'[id].support_models = models
      BY <1>4, <2>1
    <3>2. models = ledger[id].models
      BY <1>3, <2>1
    <3> QED
      BY <1>2, <2>1, <3>1, <3>2
  <2>2. CASE i # id
    BY <1>1, <1>4, <2>2 DEF IInv, TypeOK, Records, SteadyRecord
  <2> QED
    BY <2>1, <2>2
<1>7. DismissedGone' /\ RecordsOnline' /\ IndexFinite'
  BY <1>1, <1>2, <1>4, <1>5 DEF Records, DismissedGone, RecordsOnline, IndexFinite
<1>8. DismissedUnlisted'
  <2>1. \A i \in Issued : ledger'[i].steady => ledger[i].steady
    BY <1>1, <1>3
  <2> QED
    BY <1>1, <1>2, <1>5, <2>1 DEF Records, DismissedUnlisted
<1> QED
  BY <1>6, <1>7, <1>8 DEF Records

(***************************************************************************)
(* A removal erases the listings of the models in the record.  Those of a  *)
(* steady node are all it has, for it is listed as it registered; one that *)
(* is not registered any more was dismissed before, or has lapsed.         *)
(***************************************************************************)
LEMMA RemoveKeepsRecords ==
    ASSUME IInv, Records, NEW id \in Issued, CallRemove(id)
    PROVE  Records'
<1>1. Issued' = Issued /\ \A i \in Issued : i # id => ledger'[i] = ledger[i]
  BY DEF IInv, TypeOK, CallRemove, Issued
<1>2. /\ ledger'[id].models = ledger[id].models
      /\ ledger'[id].lapsed = ledger[id].lapsed
      /\ ledger'[id].steady = ledger[id].steady
      /\ ledger'[id].dismissed
  BY DEF IInv, TypeOK, CallRemove, Account
<1>3. Members' = Members \ {id} /\ \A i \in Members' : m_nodes'[i] = m_nodes[i]
  BY DEF CallRemove, RemoveWorker, HasNodeInfo, Members
<1>4. \A m \in Models : m_model_to_nodes'[m] \subseteq m_model_to_nodes[m]
  BY DEF IInv, TypeOK, CallRemove, RemoveWorker, EraseFromIndex
<1>5. SteadyRecord' /\ DismissedGone' /\ RecordsOnline'
  BY <1>1, <1>2, <1>3 DEF IInv, TypeOK, Records, SteadyRecord, DismissedGone, RecordsOnline
<1>6. IndexFinite'
  BY <1>4, FS_Subset DEF Records, IndexFinite
<1>7. ASSUME ~ledger[id].lapsed, ledger[id].steady,
             NEW m \in Models, NEW e \in m_model_to_nodes'[m]
      PROVE  e[1] # id
  <2>1. CASE id \in Members
    <3>1. m_nodes[id].support_models = ledger[id].models
      BY <1>7, <2>1 DEF Records, SteadyRecord
    <3>2. CASE \E k \in DOMAIN ledger[id].models : ledger[id].models[k] = m
      <4>1. m_model_to_nodes'[m] = {f \in m_model_to_nodes[m] : f[1] # id}
        BY <2>1, <3>1, <3>2 DEF CallRemove, RemoveWorker, HasNodeInfo, Members, EraseFromIndex
      <4> QED
        BY <1>7, <4>1
    <3>3. CASE ~\E k \in DOMAIN ledger[id].models : ledger[id].models[k] = m
      <4>1. PushBacks(id, ledger[id].models, m) = {}
        BY <3>3 DEF PushBacks
      <4> QED
        BY <1>4, <1>7, <2>1, <4>1 DEF IInv, ListedAsRegistered
    <3> QED
      BY <3>2, <3>3
  <2>2. CASE id \notin Members
    <3>1. ledger[id].dismissed
      BY <1>7, <2>2 DEF IInv, HeardFromStays
    <3> QED
      BY <1>4, <1>7, <3>1 DEF Records, DismissedUnlisted
  <2> QED
    BY <2>1, <2>2
<1>8. DismissedUnlisted'
  <2> SUFFICES ASSUME NEW i \in Issued, ledger'[i].dismissed, ~ledger'[i].lapsed,
                      ledger'[i].steady, NEW m \in Models, NEW e \in m_model_to_nodes'[m]
               PROVE  e[1] # i
    BY <1>1 DEF DismissedUnlisted
  <2>1. CASE i = id
    BY <1>2, <1>7, <2>1
  <2>2. CASE i # id
    BY <1>1, <1>4, <2>2 DEF Records, DismissedUnlisted
  <2> QED
    BY <2>1, <2>2
<1> QED
  BY <1>5, <1>6, <1>8 DEF Records

(***************************************************************************)
(* The scan and the clock make nobody steady again or return to the index. *)
(***************************************************************************)
LEMMA TimeKeepsRecords ==
    ASSUME IInv, Records, CallScan \/ Pass
    PROVE  Records'
<1>1. /\ m_model_to_nodes' = m_model_to_nodes
      /\ Issued' = Issued
      /\ Members' \subseteq Members
      /\ \A i \in Members' : m_nodes'[i] = m_nodes[i]
  BY DEF CallScan, ScanTimeoutNodes, Pass, Tick, Members, Issued
<1>2. ASSUME NEW i \in Issued
      PROVE  /\ ledger'[i].models = ledger[i].models
             /\ ledger'[i].dismissed = ledger[i].dismissed
             /\ ledger'[i].steady = ledger[i].steady
             /\ ~ledger'[i].lapsed => ~ledger[i].lapsed
  <2>1. CASE CallScan
    BY <2>1 DEF CallScan
  <2>2. CASE Pass
    <3>1. ledger'[i] = [ledger[i] EXCEPT !.lapsed =
                          @ \/ now' - ledger[i].contact > HeartbeatTimeout]
      BY <2>2 DEF Pass
    <3>2. ledger[i] \in Account
      BY DEF IInv, TypeOK
    <3> QED
      BY <3>1, <3>2 DEF Account
  <2> QED
    BY <2>1, <2>2
<1>3. SteadyRecord'
  BY <1>1, <1>2 DEF IInv, TypeOK, Records, SteadyRecord
<1>4. DismissedGone' /\ RecordsOnline' /\ IndexFinite'
  BY <1>1, <1>2 DEF Records, DismissedGone, RecordsOnline, IndexFinite
<1>5. DismissedUnlisted'
  BY <1>1, <1>2 DEF Records, DismissedUnlisted
<1> QED
  BY <1>3, <1>4, <1>5 DEF Records

(***************************************************************************)
(* std::sort puts every listing that passed the filter into the answer,    *)
(* and puts it there once.                                                 *)
(***************************************************************************)
LEMMA SortedHasAll ==
    ASSUME NEW S, IsFiniteSet(S), NEW s \in SortedByMemory(S)
    PROVE  /\ DOMAIN s = 1..Cardinality(S)
           /\ \A k \in DOMAIN s : s[k] \in S
           /\ \A e \in S : \E k \in DOMAIN s : s[k] = e
           /\ \A i, j \in DOMAIN s : s[i] = s[j] => i = j
<1> DEFINE n == Cardinality(S)
<1>1. n \in Nat
  BY FS_CardinalityType
<1>2. s \in Injection(1..n, S)
  <2>1. s \in [1..n -> S] /\ \A i, j \in DOMAIN s : s[i] = s[j] => i = j
    BY DEF SortedByMemory
  <2> HIDE DEF n
  <2> QED
    BY <2>1 DEF Injection, IsInjective
<1>3. Cardinality(1..n) = n
  BY <1>1, FS_Interval
<1>4. s \in Surjection(1..n, S)
  <2> HIDE DEF n
  <2> QED
    BY <1>2, <1>3, FS_Injection DEF n
<1> HIDE DEF n
<1>5. DOMAIN s = 1..n /\ \A k \in DOMAIN s : s[k] \in S
  BY <1>2 DEF Injection, IsInjective
<1>6. \A i, j \in DOMAIN s : s[i] = s[j] => i = j
  BY <1>2, <1>5 DEF Injection, IsInjective
<1>7. \A e \in S : \E k \in DOMAIN s : s[k] = e
  BY <1>4, <1>5 DEF Surjection
<1> QED
  BY <1>5, <1>6, <1>7 DEF n

(***************************************************************************)
(* The numbers of the push_backs of a registration that a sorted answer    *)
(* holds are the places at which its list names the model.                 *)
(***************************************************************************)
LEMMA AnswersCount ==
    ASSUME NEW S, IsFiniteSet(S), NEW s \in SortedByMemory(S),
           NEW id, NEW models \in Seq(Models), NEW m,
           {e \in S : e[1] = id} = PushBacks(id, models, m)
    PROVE  Cardinality({k \in DOMAIN s : s[k][1] = id})
             = Cardinality({k \in DOMAIN models : models[k] = m})
<1> DEFINE K == {k \in DOMAIN s : s[k][1] = id}
           L == {k \in DOMAIN models : models[k] = m}
           f == [k \in K |-> s[k][2]]
<1>1. \A k \in K : s[k] \in PushBacks(id, models, m)
  BY SortedHasAll
<1>2. \A k \in K : s[k] = <<id, s[k][2]>> /\ s[k][2] \in L
  BY <1>1 DEF PushBacks
<1>3. f \in Injection(K, L)
  <2>1. f \in [K -> L]
    BY <1>2
  <2>2. ASSUME NEW i \in K, NEW j \in K, f[i] = f[j] PROVE i = j
    <3>1. s[i][2] = s[j][2]
      BY <2>2
    <3>2. s[i] = s[j]
      BY <1>2, <3>1
    <3> QED
      BY <3>2, SortedHasAll
  <2> HIDE DEF K, L, f
  <2> QED
    BY <2>1, <2>2 DEF Injection, IsInjective
<1>4. f \in Surjection(K, L)
  <2> SUFFICES ASSUME NEW l \in L PROVE \E k \in K : f[k] = l
    BY <1>2 DEF Surjection
  <2>1. <<id, l>> \in {e \in S : e[1] = id}
    BY DEF PushBacks
  <2>2. PICK k \in DOMAIN s : s[k] = <<id, l>>
    BY <2>1, SortedHasAll
  <2> QED
    BY <2>2
<1>5. IsFiniteSet(L)
  <2>1. DOMAIN models = 1..Len(models) /\ Len(models) \in Int
    OBVIOUS
  <2> QED
    BY <2>1, FS_Interval, FS_Subset, L \subseteq 1..Len(models)
<1> QED
  <2> HIDE DEF K, L, f
  <2>1. Cardinality(K) = Cardinality(L)
    BY <1>3, <1>4, <1>5, FS_Injection
  <2> QED
    BY <2>1 DEF K, L

(***************************************************************************)
(* A query answers exactly, in any state the invariant allows.             *)
(***************************************************************************)
LEMMA QueryIsExact ==
    ASSUME IInv, Records, NEW m \in Models, CallQuery(m)
    PROVE  QueryExact'
<1>1. PICK s \in SortedByMemory(OnlineListings(m)) :
        ret' = [call  |-> "GetOnlineNodesByModel",
                model |-> m,
                nodes |-> [k \in DOMAIN s |->
                             [node_id |-> s[k][1], info |-> m_nodes[s[k][1]]]]]
  BY DEF CallQuery, GetOnlineNodesByModel
<1>2. /\ UNCHANGED <<m_nodes, m_model_to_nodes, stamp, now, ledger>>
      /\ Issued' = Issued /\ Members' = Members
  BY DEF CallQuery, GetOnlineNodesByModel, Issued, Members
<1> DEFINE S == OnlineListings(m)
<1>3. IsFiniteSet(S)
  BY FS_Subset DEF Records, IndexFinite, OnlineListings
<1>4. /\ ret'.model = m
      /\ DOMAIN ret'.nodes = DOMAIN s
      /\ \A k \in DOMAIN s : /\ ret'.nodes[k].node_id = s[k][1]
                             /\ ret'.nodes[k].info = m_nodes[s[k][1]]
  BY <1>1
<1>5. \A k \in DOMAIN s : s[k] \in S
  BY <1>3, SortedHasAll
<1>6. ASSUME NEW id \in Issued
      PROVE  Answers(id)' =
               IF HeardFrom(id)
                 THEN Cardinality({k \in DOMAIN ledger[id].models :
                                     ledger[id].models[k] = m})
                 ELSE 0
  <2>1. Answers(id)' = Cardinality({k \in DOMAIN s : s[k][1] = id})
    <3>1. {k \in DOMAIN ret'.nodes : ret'.nodes[k].node_id = id}
            = {k \in DOMAIN s : s[k][1] = id}
      BY <1>4
    <3> QED
      BY <3>1 DEF Answers
  <2>2. CASE HeardFrom(id)
    <3>1. {e \in S : e[1] = id} = {e \in m_model_to_nodes[m] : e[1] = id}
      BY <2>2 DEF IInv, ContactKept, Records, RecordsOnline, OnlineListings, HasNodeInfo,
                  Age, Members, HeardFrom
    <3>2. {e \in S : e[1] = id} = PushBacks(id, ledger[id].models, m)
      BY <2>2, <3>1 DEF IInv, ListedAsRegistered, HeardFrom
    <3>3. ledger[id].models \in Seq(Models)
      BY DEF IInv, TypeOK, Account
    <3> HIDE DEF S
    <3>4. s \in SortedByMemory(S)
      BY DEF S
    <3>5. Cardinality({k \in DOMAIN s : s[k][1] = id})
            = Cardinality({k \in DOMAIN ledger[id].models : ledger[id].models[k] = m})
      BY <1>3, <3>2, <3>3, <3>4, AnswersCount
    <3> QED
      BY <2>1, <2>2, <3>5
  <2>3. CASE ~HeardFrom(id)
    <3>1. \A e \in S : e[1] # id
      BY <2>3 DEF IInv, ContactKept, OnlineListings, HasNodeInfo, Age, Members, HeardFrom
    <3>2. {k \in DOMAIN s : s[k][1] = id} = {}
      BY <1>5, <3>1
    <3> QED
      BY <2>1, <2>3, <3>2, FS_EmptySet
  <2> QED
    BY <2>2, <2>3
<1>7. ASSUME NEW k \in DOMAIN s, NEW l \in 1..k
      PROVE  m_nodes[s[l][1]].available_memory_mb >= m_nodes[s[k][1]].available_memory_mb
  <2>1. DOMAIN s = 1..Cardinality(S) /\ Cardinality(S) \in Nat
    BY <1>3, SortedHasAll, FS_CardinalityType
  <2>2. l \in DOMAIN s /\ k \in Int /\ l \in Int /\ (l < k \/ l = k)
    BY <2>1
  <2>3. CASE l < k
    BY <2>2, <2>3 DEF SortedByMemory
  <2>4. CASE l = k
    <3>1. s[k][1] \in Members
      BY <1>5 DEF OnlineListings, HasNodeInfo, Members
    <3>2. m_nodes[s[k][1]].available_memory_mb \in Int
      BY <3>1 DEF IInv, TypeOK, RegistryNodeInfo
    <3> QED
      BY <2>4, <3>2
  <2> QED
    BY <2>2, <2>3, <2>4
<1>8. \A k \in DOMAIN s : \A l \in 1..k : l \in DOMAIN s
  <2>1. DOMAIN s = 1..Cardinality(S) /\ Cardinality(S) \in Nat
    BY <1>3, SortedHasAll, FS_CardinalityType
  <2> QED
    BY <2>1
<1>9. \A id \in Issued :
        /\ ~HeardFrom(id) => Answers(id)' = 0
        /\ HeardFrom(id) => Answers(id)' = Cardinality({k \in DOMAIN ledger[id].models :
                                                         ledger[id].models[k] = m})
  BY <1>6
<1>10. \A id \in Issued : HeardFrom(id)' = HeardFrom(id)
  BY <1>2 DEF HeardFrom
<1>11. \A k \in DOMAIN ret'.nodes : \A l \in 1..k :
         ret'.nodes[l].info.available_memory_mb >= ret'.nodes[k].info.available_memory_mb
  BY <1>4, <1>7, <1>8
<1> HIDE DEF S
<1> QED
  BY <1>2, <1>4, <1>9, <1>10, <1>11 DEF QueryExact

(***************************************************************************)
(* The records agree with the accounts, and the last answer, if it is that *)
(* of a query, is exact: any other call returns something else.            *)
(***************************************************************************)
THEOREM RecordsInvariant == Spec => [](Records /\ QueryExact)
<1>1. LedgerInit => Records /\ QueryExact
  BY InitRecords DEF LedgerInit, Init, NoReturn, QueryExact
<1>2. ASSUME IInv, Records, QueryExact, [Next]_vars PROVE Records' /\ QueryExact'
  <2>1. ASSUME ret'.call # "GetOnlineNodesByModel" PROVE QueryExact'
    BY <2>1 DEF QueryExact
  <2>2. ASSUME UNCHANGED <<m_nodes, m_model_to_nodes, ledger>> PROVE Records'
    BY <1>2, <2>2 DEF Records, SteadyRecord, DismissedGone, RecordsOnline, IndexFinite,
       DismissedUnlisted, Members, Issued
  <2>3. ASSUME NEW a \in Addrs, NEW models \in SupportLists, NEW mem \in Memories,
               CallRegister(a, models, mem)
        PROVE  Records' /\ QueryExact'
    BY <1>2, <2>1, <2>3, RegisterKeepsRecords DEF CallRegister, RegisterWorker
  <2>4. ASSUME NEW id \in Issued, NEW models \in SupportLists, NEW mem \in Memories,
               CallHeartbeat(id, mem, models)
        PROVE  Records' /\ QueryExact'
    BY <1>2, <2>1, <2>4, HeartbeatKeepsRecords DEF CallHeartbeat, UpdateHeartbeat, NoReturn
  <2>5. ASSUME NEW id \in Issued, CallRemove(id) PROVE Records' /\ QueryExact'
    BY <1>2, <2>1, <2>5, RemoveKeepsRecords DEF CallRemove, RemoveWorker, NoReturn
  <2>6. ASSUME NEW m \in Models, CallQuery(m) PROVE Records' /\ QueryExact'
    BY <1>2, <2>2, <2>6, QueryIsExact DEF CallQuery, GetOnlineNodesByModel
  <2>7. CASE CallScan
    BY <1>2, <2>1, <2>7, TimeKeepsRecords DEF CallScan, ScanTimeoutNodes
  <2>8. ASSUME NEW id \in Issued, CallHasNode(id) PROVE Records' /\ QueryExact'
    BY <2>1, <2>2, <2>8 DEF CallHasNode, HasNode
  <2>9. CASE Pass
    BY <1>2, <2>1, <2>9, TimeKeepsRecords DEF Pass, Tick, NoReturn
  <2>10. CASE UNCHANGED vars
    <3>1. QueryExact'
      BY <1>2, <2>10 DEF vars, registryVars, QueryExact, HeardFrom, Answers, Members, Issued
    <3> QED
      BY <2>2, <2>10, <3>1 DEF vars, registryVars
  <2> QED
    BY <1>2, <2>3, <2>4, <2>5, <2>6, <2>7, <2>8, <2>9, <2>10 DEF Next
<1> QED
  BY <1>1, <1>2, LedgerInvariant, PTL DEF Spec

(***************************************************************************)
(* RemoveWorker leaves no listing of a node it still finds, if the node's  *)
(* heartbeats were steady.                                                 *)
(***************************************************************************)
THEOREM RemovedUnlisted == Spec => []DismissedUnlisted
BY RecordsInvariant, PTL DEF Records

(***************************************************************************)
(* GetOnlineNodesByModel answers exactly, and in order, for any number of  *)
(* workers, any lists and any timeout.                                     *)
(***************************************************************************)
THEOREM QueriesExact == Spec => []QueryExact
BY RecordsInvariant, PTL

-----------------------------------------------------------------------------
(***************************************************************************)
(* The manager implements the abstract registry: every call is a join      *)
(* under an id nobody had, a leave, or invisible.  So no id ever returns.  *)
(***************************************************************************)
THEOREM ManagerImplementsMembership == Spec => MembershipSpec
<1>1. LedgerInit => Membership!Init
  BY DEF LedgerInit, Init, Membership!Init, Members, Issued
<1>2. IInv /\ [Next]_vars => [Membership!Next]_<<Members, Issued \ Members>>
  <2> SUFFICES ASSUME IInv, [Next]_vars
               PROVE  Membership!Next \/ UNCHANGED <<Members, Issued \ Members>>
    OBVIOUS
  <2>0. Members \subseteq Issued
    BY DEF IInv, TypeOK
  <2>1. ASSUME NEW a \in Addrs, NEW models \in SupportLists, NEW mem \in Memories,
               CallRegister(a, models, mem)
        PROVE  Membership!Next
    <3> DEFINE id == <<a, stamp + 1>>
    <3>1. id \in Ids /\ id \notin Issued
      BY <2>1, FreshId DEF IInv, CallRegister, RegisterWorker
    <3>2. Issued' = Issued \cup {id} /\ Members' = Members \cup {id}
      BY <2>1 DEF CallRegister, RegisterWorker, Issued, Members
    <3>3. Membership!Join(id)
      BY <2>0, <3>1, <3>2 DEF Membership!Join
    <3> QED
      BY <3>1, <3>3 DEF Membership!Next
  <2>2. ASSUME NEW id \in Issued, NEW models \in SupportLists, NEW mem \in Memories,
               CallHeartbeat(id, mem, models)
        PROVE  UNCHANGED <<Members, Issued \ Members>>
    <3>1. Issued' = Issued
      BY <2>2 DEF IInv, TypeOK, CallHeartbeat, Issued
    <3>2. Members' = Members
      BY <2>2 DEF IInv, TypeOK, CallHeartbeat, UpdateHeartbeat, HasNodeInfo, Members
    <3> QED
      BY <3>1, <3>2
  <2>3. ASSUME NEW id \in Issued, CallRemove(id)
        PROVE  Membership!Next \/ UNCHANGED <<Members, Issued \ Members>>
    <3>1. Issued' = Issued
      BY <2>3 DEF IInv, TypeOK, CallRemove, Issued
    <3>2. Members' = Members \ {id}
      BY <2>3 DEF CallRemove, RemoveWorker, HasNodeInfo, Members
    <3>3. CASE id \in Members
      <4>1. Membership!Leave({id})
        BY <2>0, <3>1, <3>2, <3>3 DEF Membership!Leave
      <4> QED
        BY <3>3, <4>1 DEF Membership!Next
    <3>4. CASE id \notin Members
      BY <3>1, <3>2, <3>4
    <3> QED
      BY <3>3, <3>4
  <2>4. ASSUME NEW m \in Models, CallQuery(m)
        PROVE  UNCHANGED <<Members, Issued \ Members>>
    BY <2>4 DEF CallQuery, GetOnlineNodesByModel, Members, Issued
  <2>5. ASSUME CallScan
        PROVE  Membership!Next \/ UNCHANGED <<Members, Issued \ Members>>
    <3>1. Issued' = Issued /\ Members' = Members \ TimedOut /\ TimedOut \subseteq Members
      BY <2>5 DEF CallScan, ScanTimeoutNodes, TimedOut, Members, Issued
    <3>2. CASE TimedOut # {}
      <4>1. Membership!Leave(TimedOut)
        BY <2>0, <3>1, <3>2 DEF Membership!Leave
      <4> QED
        BY <3>1, <4>1 DEF Membership!Next
    <3>3. CASE TimedOut = {}
      BY <3>1, <3>3
    <3> QED
      BY <3>2, <3>3
  <2>6. ASSUME NEW id \in Issued, CallHasNode(id)
        PROVE  UNCHANGED <<Members, Issued \ Members>>
    BY <2>6 DEF CallHasNode, HasNode, Members, Issued
  <2>7. ASSUME Pass PROVE UNCHANGED <<Members, Issued \ Members>>
    BY <2>7 DEF Pass, Tick, Members, Issued
  <2>8. ASSUME UNCHANGED vars PROVE UNCHANGED <<Members, Issued \ Members>>
    BY <2>8 DEF vars, registryVars, Members, Issued
  <2> QED
    BY <2>1, <2>2, <2>3, <2>4, <2>5, <2>6, <2>7, <2>8 DEF Next
<1> QED
  BY <1>1, <1>2, LedgerInvariant, PTL DEF Spec, MembershipSpec, Membership!Spec

=============================================================================
