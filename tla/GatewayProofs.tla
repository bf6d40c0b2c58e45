----------------------------- MODULE GatewayProofs -----------------------------
(***************************************************************************)
(* Proofs about the gateway's table of pending requests, for any set of    *)
(* requests, whatever comes out of the parser: a packet may be spoiled,    *)
(* repeated or invented, the table and the answers stay consistent.        *)
(***************************************************************************)
EXTENDS Gateway, FiniteSetTheorems, SequenceTheorems, TLAPS

(***************************************************************************)
(* PendingUnanswered is inductive once it is known that a new number is    *)
(* not in the table, and that a request that was never forwarded has had   *)
(* no answer.                                                              *)
(***************************************************************************)
NumbersUsed ==
    /\ m_next_seq \in Nat
    /\ DOMAIN m_pending_reqs \subseteq {s \in Nat : s < m_next_seq}
    /\ \A s \in DOMAIN m_pending_reqs : m_pending_reqs[s] \in Requests

AnswerStates ==
    /\ http \in [Requests -> {"new", "handling", "returned"}]
    /\ DOMAIN got = Requests
    /\ \A r \in Requests : got[r] = <<>> \/ Len(got[r]) = 1
    /\ \A r \in Requests : http[r] = "new" => got[r] = <<>>

IInv == NumbersUsed /\ AnswerStates /\ PendingUnanswered

(***************************************************************************)
(* The table is empty at the start, and so are the answers.                *)
(***************************************************************************)
LEMMA InitIInv == Init => IInv
BY DEF Init, IInv, NumbersUsed, AnswerStates, PendingUnanswered, Range

(***************************************************************************)
(* A first answer is one answer.                                           *)
(***************************************************************************)
LEMMA OneAnswer == \A a : Append(<<>>, a) # <<>> /\ Len(Append(<<>>, a)) = 1
<1> TAKE a
<1>1. <<>> \in Seq({a}) /\ a \in {a}
  OBVIOUS
<1> QED
  BY <1>1

(***************************************************************************)
(* A handler answers its request itself, or puts it in the table under a   *)
(* number that nobody used before.                                         *)
(***************************************************************************)
LEMMA HandleKeepsIInv ==
    ASSUME IInv, NEW r \in Requests, HandleHttpRequest(r)
    PROVE  IInv'
<1> USE DEF IInv, NumbersUsed, AnswerStates
<1>1. /\ http[r] = "new" /\ got[r] = <<>>
      /\ \A q \in Requests : http'[q] = IF q = r THEN "handling" ELSE http[q]
      /\ http' \in [Requests -> {"new", "handling", "returned"}]
  BY DEF HandleHttpRequest
<1>2. \A s \in DOMAIN m_pending_reqs : m_pending_reqs[s] # r
  BY <1>1 DEF PendingUnanswered, Range
<1>3. ASSUME NEW a, Called(r, a), UNCHANGED <<m_next_seq, m_pending_reqs>>
      PROVE  IInv'
  <2>1. /\ DOMAIN got' = Requests /\ got'[r] = Append(<<>>, a)
        /\ \A q \in Requests \ {r} : got'[q] = got[q]
    BY <1>1, <1>3 DEF Called
  <2>2. AnswerStates'
    <3>1. \A q \in Requests : got'[q] = <<>> \/ Len(got'[q]) = 1
      BY <2>1, OneAnswer
    <3>2. \A q \in Requests : http'[q] = "new" => got'[q] = <<>>
      BY <1>1, <2>1
    <3> QED
      BY <1>1, <2>1, <3>1, <3>2
  <2>3. PendingUnanswered'
    BY <1>1, <1>2, <1>3, <2>1, OneAnswer DEF PendingUnanswered, Range
  <2> QED
    BY <1>3, <2>2, <2>3
<1>4. CASE /\ m_next_seq' = m_next_seq + 1
           /\ m_pending_reqs' = [s \in DOMAIN m_pending_reqs \cup {m_next_seq} |->
                                   IF s = m_next_seq THEN r ELSE m_pending_reqs[s]]
           /\ UNCHANGED got
  <2>1. NumbersUsed'
    BY <1>4
  <2>2. AnswerStates'
    BY <1>1, <1>4
  <2>3. m_next_seq \notin DOMAIN m_pending_reqs
    OBVIOUS
  <2>4. Range(m_pending_reqs') = Range(m_pending_reqs) \cup {r}
    BY <1>4, <2>3 DEF Range
  <2>5. PendingUnanswered'
    <3>1. \A s, t \in DOMAIN m_pending_reqs' :
            m_pending_reqs'[s] = m_pending_reqs'[t] => s = t
      BY <1>2, <1>4, <2>3 DEF PendingUnanswered
    <3>2. Range(m_pending_reqs') = {q \in Requests : http'[q] # "new" /\ got'[q] = <<>>}
      BY <1>1, <1>4, <2>4 DEF PendingUnanswered
    <3> QED
      BY <3>1, <3>2 DEF PendingUnanswered
  <2> QED
    BY <2>1, <2>2, <2>5
<1> QED
  BY <1>3, <1>4 DEF HandleHttpRequest, ForwardToBackend, NextSeq

(***************************************************************************)
(* Returning from a handler is not an answer.                              *)
(***************************************************************************)
LEMMA ReturnKeepsIInv ==
    ASSUME IInv, NEW r \in Requests, Return(r)
    PROVE  IInv'
<1> USE DEF IInv, AnswerStates
<1>1. /\ http[r] = "handling" /\ UNCHANGED <<m_next_seq, m_pending_reqs, got>>
      /\ \A q \in Requests : http'[q] = IF q = r THEN "returned" ELSE http[q]
      /\ http' \in [Requests -> {"new", "handling", "returned"}]
  BY DEF Return
<1>2. PendingUnanswered'
  BY <1>1 DEF PendingUnanswered
<1> QED
  BY <1>1, <1>2 DEF NumbersUsed

(***************************************************************************)
(* A response, any packet at all, answers the request it finds in the      *)
(* table and takes it out, or does nothing.                                *)
(***************************************************************************)
LEMMA ResponseKeepsIInv ==
    ASSUME IInv, OnBackendResponse
    PROVE  IInv'
<1> DEFINE p == Head(packets)
           s == p[1]
           r == m_pending_reqs[s]
<1> USE DEF IInv, NumbersUsed, AnswerStates
<1>1. UNCHANGED <<m_next_seq, http>>
  BY DEF OnBackendResponse
<1>2. CASE s \in DOMAIN m_pending_reqs
  <2>1. /\ r \in Requests /\ got[r] = <<>> /\ http[r] # "new"
        /\ \A t \in DOMAIN m_pending_reqs \ {s} : m_pending_reqs[t] # r
    BY <1>2 DEF PendingUnanswered, Range
  <2>2. Called(r, p) /\ m_pending_reqs' = Forget(s)
    BY <1>2 DEF OnBackendResponse
  <2>3. /\ DOMAIN got' = Requests /\ got'[r] = Append(<<>>, p)
        /\ \A q \in Requests \ {r} : got'[q] = got[q]
    BY <2>1, <2>2 DEF Called
  <2>4. /\ DOMAIN m_pending_reqs' = DOMAIN m_pending_reqs \ {s}
        /\ \A t \in DOMAIN m_pending_reqs' : m_pending_reqs'[t] = m_pending_reqs[t]
    BY <2>2 DEF Forget, Restrict
  <2> HIDE DEF p, s, r
  <2>5. NumbersUsed'
    BY <1>1, <2>4
  <2>6. AnswerStates'
    BY <1>1, <2>1, <2>3, OneAnswer
  <2>7. Range(m_pending_reqs') = Range(m_pending_reqs) \ {r}
    BY <1>2, <2>1, <2>4 DEF Range, r
  <2>8. PendingUnanswered'
    <3>1. \A t, u \in DOMAIN m_pending_reqs' :
            m_pending_reqs'[t] = m_pending_reqs'[u] => t = u
      BY <2>4 DEF PendingUnanswered
    <3>2. Range(m_pending_reqs') = {q \in Requests : http'[q] # "new" /\ got'[q] = <<>>}
      BY <1>1, <2>1, <2>3, <2>7, OneAnswer DEF PendingUnanswered
    <3> QED
      BY <3>1, <3>2 DEF PendingUnanswered
  <2> QED
    BY <2>5, <2>6, <2>8
<1>3. CASE s \notin DOMAIN m_pending_reqs
  <2>1. UNCHANGED <<got, m_pending_reqs>>
    BY <1>3 DEF OnBackendResponse
  <2> QED
    BY <1>1, <2>1 DEF PendingUnanswered
<1> QED
  BY <1>2, <1>3

(***************************************************************************)
(* The invariant is inductive: everything else leaves table and answers.   *)
(***************************************************************************)
LEMMA NextKeepsIInv == IInv /\ [Next]_vars => IInv'
<1> SUFFICES ASSUME IInv, [Next]_vars PROVE IInv'
  OBVIOUS
<1>1. ASSUME UNCHANGED <<m_next_seq, m_pending_reqs, http, got>> PROVE IInv'
  BY <1>1 DEF IInv, NumbersUsed, AnswerStates, PendingUnanswered
<1>2. CASE UNCHANGED vars
  BY <1>1, <1>2 DEF vars, gatewayVars
<1>3. CASE Start \/ SendInLoop \/ Stop
  BY <1>1, <1>3 DEF Start, SendInLoop, Stop
<1>4. CASE \E b \in Backends : Flush(b) \/ HandleRemoveConnection(b) \/ Answer(b)
  BY <1>1, <1>4 DEF Flush, HandleRemoveConnection, Answer, gatewayVars
<1>5. CASE \E b \in Backends : Read(b)
  BY <1>1, <1>5 DEF Read, OnMessage, gatewayVars
<1>6. CASE Broadcast
  BY <1>1, <1>6 DEF Broadcast, gatewayVars
<1> QED
  BY <1>2, <1>3, <1>4, <1>5, <1>6, HandleKeepsIInv, ReturnKeepsIInv, ResponseKeepsIInv
  DEF Next

(***************************************************************************)
(* The table holds exactly the requests that wait for an answer.           *)
(***************************************************************************)
THEOREM TableExact == Spec => []PendingUnanswered
<1>1. IInv => PendingUnanswered
  BY DEF IInv
<1> QED
  BY <1>1, InitIInv, NextKeepsIInv, PTL DEF Spec

(***************************************************************************)
(* No callback is ever called twice.                                       *)
(***************************************************************************)
THEOREM CalledOnce == Spec => []AnsweredOnce
<1>1. IInv => AnsweredOnce
  <2>1. Len(<<>>) <= 1
    OBVIOUS
  <2>2. SUFFICES ASSUME IInv, NEW r \in Requests PROVE Len(got[r]) <= 1
    BY DEF AnsweredOnce
  <2>3. CASE got[r] = <<>>
    BY <2>1, <2>3
  <2>4. CASE Len(got[r]) = 1
    BY <2>4
  <2> QED
    BY <2>2, <2>3, <2>4 DEF IInv, AnswerStates
<1> QED
  BY <1>1, InitIInv, NextKeepsIInv, PTL DEF Spec

-----------------------------------------------------------------------------
(***************************************************************************)
(* Whose answer it is.  A packet on its way, in a send that was posted, in *)
(* a connection's buffer, with a backend, in the bytes that come back or   *)
(* out of the parser, has a number that was given out, and if that number  *)
(* still waits then for the request the packet names: numbers are given to *)
(* one request each, and the parser makes no packet its bytes do not name, *)
(* however it is fed.                                                      *)
(***************************************************************************)
Parser == INSTANCE PacketParserProofs WITH
    Packets <- Responses,
    Body <- [p \in Responses |-> <<(<<"text", p[1], p>>)>>]

Genuine ==
    {p \in Answers :
       /\ p[1] < m_next_seq
       /\ p[1] \in DOMAIN m_pending_reqs => m_pending_reqs[p[1]] = p[2]}
Known == Genuine \cup {Offline}
BytesOf(G) == {x \in Symbols : x[3] \in G \cup {NoPacket}}

(***************************************************************************)
(* It is the same parser.                                                  *)
(***************************************************************************)
LEMMA SameParser ==
    /\ ParseAll = Parser!ParseAll
    /\ \A G : BytesOf(G) = Parser!SymbolsOf(G)
<1>1. Symbols = Parser!Symbols
  BY DEF Symbols, Parser!Symbols
<1>2. ParseAll = Parser!ParseAll
  BY DEF ParseAll, Parser!ParseAll, IsHeader, Parser!IsHeader, IsMagic, Parser!IsMagic, BodyLen, Parser!BodyLen,
         Deserialize, Parser!Deserialize, Symbols, Parser!Symbols, HeaderSize,
         Parser!HeaderSize, Version, Parser!Version
<1> QED
  BY <1>1, <1>2 DEF BytesOf, Parser!SymbolsOf

(***************************************************************************)
(* What the parser hands out and keeps of bytes that name known packets.   *)
(***************************************************************************)
LEMMA ParsedKnown ==
    ASSUME NEW G \in SUBSET Responses, NEW bytes \in Seq(BytesOf(G))
    PROVE  ParseAll[bytes].out \in Seq(G) /\ ParseAll[bytes].m_buffer \in Seq(BytesOf(G))
<1>1. Parser!ParseAll[bytes] \in Parser!Parsed(G)
  BY SameParser, GatewayAssumption, NoPacketAssumption, Parser!ParseAllType
<1> QED
  BY <1>1, SameParser DEF Parser!Parsed

\* The requests that were handled.
Handled == {r \in Requests : http[r] # "new"}

States ==
    /\ link \in [Backends -> {"none", "Connected", "Disconnecting", "Disconnected"}]
    /\ running \in {"no", "yes", "stopped"}
    /\ source \in Backends /\ spoiled \in BOOLEAN
    /\ broadcasts \in 0..MaxTraffic

Numbered ==
    /\ m_next_seq \in Nat \ {0}
    /\ m_next_seq <= Cardinality(Handled) + 1
    /\ 0 \notin DOMAIN m_pending_reqs

Traced ==
    /\ functors \in Seq([backend : Backends, packet : Genuine])
    /\ output \in [Backends -> Seq(Genuine)]
    /\ inbox \in [Backends -> Seq(Genuine)]
    /\ toGateway \in [Backends -> Seq(BytesOf(Known))]
    /\ m_buffer \in Seq(BytesOf(Known))
    /\ packets \in Seq(Known)

Own == \A r \in Requests : \A i \in DOMAIN got[r] : got[r][i][2] = r

Origin == States /\ Numbered /\ Traced /\ Own

(***************************************************************************)
(* Genuine packets stay genuine: a new entry of the table has a number     *)
(* that no packet has, and the others only disappear.                      *)
(***************************************************************************)
LEMMA GenuineStays ==
    ASSUME m_next_seq' >= m_next_seq, m_next_seq \in Nat, m_next_seq' \in Nat,
           \A s \in DOMAIN m_pending_reqs' :
             s < m_next_seq => s \in DOMAIN m_pending_reqs
                                 /\ m_pending_reqs'[s] = m_pending_reqs[s]
    PROVE  /\ Genuine \subseteq Genuine' /\ Known \subseteq Known'
           /\ BytesOf(Known) \subseteq BytesOf(Known')
<1>1. ASSUME NEW p \in Genuine PROVE p \in Genuine'
  <2>1. p \in Answers /\ p[1] \in Nat /\ p[1] < m_next_seq
    BY DEF Genuine, Answers, Seqs
  <2> QED
    BY <2>1 DEF Genuine
<1> QED
  BY <1>1 DEF Known, BytesOf

(***************************************************************************)
(* With that, whatever keeps its packets keeps tracing them.               *)
(***************************************************************************)
LEMMA TracedStays ==
    ASSUME Traced, Genuine \subseteq Genuine', BytesOf(Known) \subseteq BytesOf(Known'),
           Known \subseteq Known',
           functors' \in Seq([backend : Backends, packet : Genuine']),
           UNCHANGED <<output, inbox, toGateway, m_buffer>>,
           packets' \in Seq(Known)
    PROVE  Traced'
<1>1. \A S, T : S \subseteq T => Seq(S) \subseteq Seq(T)
  OBVIOUS
<1>2. /\ Seq(Genuine) \subseteq Seq(Genuine')
      /\ Seq(Known) \subseteq Seq(Known')
      /\ Seq(BytesOf(Known)) \subseteq Seq(BytesOf(Known'))
  BY <1>1
<1>3. \A S, T : S \subseteq T => [Backends -> S] \subseteq [Backends -> T]
  OBVIOUS
<1>4. output' \in [Backends -> Seq(Genuine')] /\ inbox' \in [Backends -> Seq(Genuine')]
  BY <1>2, <1>3 DEF Traced
<1>5. toGateway' \in [Backends -> Seq(BytesOf(Known'))]
  BY <1>2, <1>3 DEF Traced
<1>6. m_buffer' \in Seq(BytesOf(Known')) /\ packets' \in Seq(Known')
  BY <1>2 DEF Traced
<1> QED
  BY <1>4, <1>5, <1>6 DEF Traced, Known, BytesOf

(***************************************************************************)
(* Nothing is on its way at the start.                                     *)
(***************************************************************************)
LEMMA InitOrigin == Init => Origin
<1> SUFFICES ASSUME Init PROVE Origin
  OBVIOUS
<1>1. States
  <2>1. "registry" \in Backends
    BY DEF Backends
  <2>2. 0 \in 0..MaxTraffic
    BY GatewayAssumption
  <2> QED
    BY <2>1, <2>2 DEF Init, States
<1>2. Numbered
  <2>1. Handled = {}
    BY DEF Init, Handled
  <2> QED
    BY <2>1, FS_EmptySet DEF Init, Numbered
<1>3. Traced
  BY DEF Init, Traced
<1>4. Own
  BY DEF Init, Own
<1> QED
  BY <1>1, <1>2, <1>3, <1>4 DEF Origin

(***************************************************************************)
(* The symbols of a packet name that packet.                               *)
(***************************************************************************)
LEMMA SerializeType ==
    ASSUME NEW p \in Known
    PROVE  Serialize(p) \in Seq(BytesOf(Known))
<1>1. Cardinality(Requests) \in Nat
  BY GatewayAssumption, FS_CardinalityType
<1>2. p \in Responses /\ p[1] \in 0..TextLength
  <2>1. CASE p = Offline
    BY <2>1, GatewayAssumption DEF Offline, Responses
  <2>2. CASE p \in Genuine
    BY <1>1, <2>2, GatewayAssumption DEF Genuine, Answers, Seqs, Responses
  <2> QED
    BY <2>1, <2>2 DEF Known
<1> DEFINE text == <<"text", p[1], p>>
<1>3. Serialize(p) = <<Magic(Version), BodyLength(1, p)>> \o <<text>>
  BY <1>2 DEF Serialize
<1>4. 1 \in 0..TextLength
  BY <1>1, GatewayAssumption
<1>5. Magic(Version) \in BytesOf(Known) /\ BodyLength(1, p) \in BytesOf(Known)
  BY <1>2, <1>4 DEF Magic, Version, BodyLength, BytesOf, Symbols
<1>6. text \in BytesOf(Known)
  BY <1>2 DEF BytesOf, Symbols
<1> HIDE DEF text
<1> QED
  BY <1>3, <1>5, <1>6

(***************************************************************************)
(* The HTTP threads.  A forwarded request gets a number that was not given *)
(* out before, and there are numbers enough for all.                       *)
(***************************************************************************)
LEMMA HandleKeepsOrigin ==
    ASSUME IInv, Origin, NEW r \in Requests, HandleHttpRequest(r)
    PROVE  Origin'
<1>1. /\ http[r] = "new" /\ got[r] = <<>> /\ Traffic < MaxTraffic
      /\ \A q \in Requests : http'[q] = IF q = r THEN "handling" ELSE http[q]
      /\ UNCHANGED <<running, wireVars, parserVars>>
  BY DEF HandleHttpRequest, IInv, AnswerStates
<1>2. Handled' = Handled \cup {r} /\ r \notin Handled
  BY <1>1 DEF Handled
<1>3. /\ IsFiniteSet(Handled) /\ Cardinality(Handled) \in Nat
      /\ Cardinality(Handled') = Cardinality(Handled) + 1
      /\ Cardinality(Handled') <= Cardinality(Requests)
      /\ Cardinality(Requests) \in Nat
  <2>1. IsFiniteSet(Requests) /\ Cardinality(Requests) \in Nat
    BY GatewayAssumption, FS_CardinalityType
  <2>2. Handled \in SUBSET Requests /\ Handled' \in SUBSET Requests
    BY DEF Handled
  <2> HIDE DEF Handled
  <2>3. IsFiniteSet(Handled) /\ Cardinality(Handled) \in Nat
    BY <2>1, <2>2, FS_Subset, FS_CardinalityType
  <2>4. Cardinality(Handled') <= Cardinality(Requests)
    BY <2>1, <2>2, FS_Subset
  <2> QED
    BY <1>2, <2>1, <2>3, <2>4, FS_AddElement
<1>4. States'
  BY <1>1 DEF Origin, States, wireVars, parserVars
<1>5. ASSUME NEW a, a[2] = r, Called(r, a) PROVE Own'
  <2>1. DOMAIN got' = Requests /\ got'[r] = Append(<<>>, a)
        /\ \A q \in Requests \ {r} : got'[q] = got[q]
    BY <1>1, <1>5 DEF Called, IInv, AnswerStates
  <2>2. Append(<<>>, a) = <<a>>
    OBVIOUS
  <2> QED
    BY <1>5, <2>1, <2>2 DEF Origin, Own
<1>6. ASSUME UNCHANGED <<m_next_seq, m_pending_reqs, functors>> PROVE Numbered' /\ Traced'
  <2>1. Numbered'
    BY <1>3, <1>6 DEF Origin, Numbered
  <2>2. Genuine' = Genuine /\ Known' = Known
    BY <1>6 DEF Genuine, Known
  <2>3. Traced'
    BY <1>1, <1>6, <2>2 DEF Origin, Traced, BytesOf, wireVars, parserVars
  <2> QED
    BY <2>1, <2>3
<1>7. CASE /\ m_next_seq' = m_next_seq + 1
           /\ m_pending_reqs' = [s \in DOMAIN m_pending_reqs \cup {m_next_seq} |->
                                   IF s = m_next_seq THEN r ELSE m_pending_reqs[s]]
           /\ functors' = Append(functors, [backend |-> BackendOf(r),
                                            packet |-> <<m_next_seq, r>>])
           /\ UNCHANGED got
  <2>1. m_next_seq \in Nat \ {0} /\ m_next_seq <= Cardinality(Handled) + 1
    BY DEF Origin, Numbered
  <2>2. Numbered'
    BY <1>3, <1>7, <2>1 DEF Origin, Numbered
  <2>3. /\ Genuine \subseteq Genuine' /\ Known \subseteq Known'
        /\ BytesOf(Known) \subseteq BytesOf(Known')
    BY <1>7, <2>1, GenuineStays
  <2>4. <<m_next_seq, r>> \in Genuine'
    BY <1>3, <1>7, <2>1 DEF Genuine, Answers, Seqs
  <2>5. [backend |-> BackendOf(r), packet |-> <<m_next_seq, r>>]
          \in [backend : Backends, packet : Genuine']
    BY <2>4 DEF BackendOf, Backends
  <2>6. functors \in Seq([backend : Backends, packet : Genuine'])
    <3>1. [backend : Backends, packet : Genuine] \subseteq [backend : Backends, packet : Genuine']
      BY <2>3
    <3>2. \A S, T : S \subseteq T => Seq(S) \subseteq Seq(T)
      OBVIOUS
    <3>3. functors \in Seq([backend : Backends, packet : Genuine])
      BY DEF Origin, Traced
    <3> QED
      BY <3>1, <3>2, <3>3
  <2>7. functors' \in Seq([backend : Backends, packet : Genuine'])
    BY <1>7, <2>5, <2>6
  <2>8. Traced'
    BY <1>1, <2>3, <2>7, TracedStays DEF Origin, Traced, wireVars, parserVars
  <2>9. Own'
    BY <1>7 DEF Origin, Own
  <2> QED
    BY <1>4, <2>2, <2>8, <2>9 DEF Origin
<1>8. CASE Called(r, <<503, r>>) /\ UNCHANGED <<m_next_seq, m_pending_reqs, functors>>
  BY <1>4, <1>5, <1>6, <1>8 DEF Origin
<1>9. CASE Called(r, <<400, r>>) /\ UNCHANGED <<m_next_seq, m_pending_reqs, functors>>
  BY <1>4, <1>5, <1>6, <1>9 DEF Origin
<1> QED
  BY <1>7, <1>8, <1>9 DEF HandleHttpRequest, ForwardToBackend, NextSeq

(***************************************************************************)
(* What leaves the table and the packets' numbers alone keeps all known    *)
(* packets known.                                                          *)
(***************************************************************************)
LEMMA SameKnown ==
    ASSUME UNCHANGED <<m_next_seq, m_pending_reqs>>
    PROVE  Genuine' = Genuine /\ Known' = Known /\ BytesOf(Known') = BytesOf(Known)
BY DEF Genuine, Known, BytesOf

LEMMA SameTable ==
    ASSUME Origin, UNCHANGED <<running, m_next_seq, m_pending_reqs, http, got>>
    PROVE  Numbered' /\ Own' /\ running' = running
BY DEF Origin, Numbered, Own, Handled

(***************************************************************************)
(* A handler that returns.                                                 *)
(***************************************************************************)
LEMMA ReturnKeepsOrigin ==
    ASSUME IInv, Origin, NEW r \in Requests, Return(r)
    PROVE  Origin'
<1>1. /\ UNCHANGED <<running, m_next_seq, m_pending_reqs, got, functors, wireVars, parserVars>>
      /\ Handled' = Handled
  BY DEF Return, IInv, AnswerStates, Handled
<1>2. States' /\ Own'
  BY <1>1 DEF Origin, States, Own, wireVars, parserVars
<1>3. Numbered'
  BY <1>1 DEF Origin, Numbered
<1>4. Traced'
  BY <1>1, SameKnown DEF Origin, Traced, wireVars, parserVars
<1> QED
  BY <1>2, <1>3, <1>4 DEF Origin

(***************************************************************************)
(* Starting, stopping and losing a connection.                             *)
(***************************************************************************)
LEMMA LinkKeepsOrigin ==
    ASSUME Origin, Start \/ Stop \/ \E b \in Backends : HandleRemoveConnection(b)
    PROVE  Origin'
<1>1. /\ UNCHANGED <<m_next_seq, m_pending_reqs, http, got, functors, broadcasts, parserVars>>
      /\ running' \in {"no", "yes", "stopped"}
  BY DEF Origin, States, Start, Stop, HandleRemoveConnection, gatewayVars
<1>2. link' \in [Backends -> {"none", "Connected", "Disconnecting", "Disconnected"}]
  <2>1. CASE Start
    BY <2>1 DEF Start
  <2>2. CASE Stop
    <3>1. \A b \in Backends : link[b] \in {"none", "Connected", "Disconnecting", "Disconnected"}
      BY DEF Origin, States
    <3> QED
      BY <2>2, <3>1 DEF Stop
  <2>3. CASE \E b \in Backends : HandleRemoveConnection(b)
    BY <2>3 DEF Origin, States, HandleRemoveConnection
  <2> QED
    BY <2>1, <2>2, <2>3
<1>3. States'
  BY <1>1, <1>2 DEF Origin, States, parserVars
<1>4. Numbered' /\ Own'
  BY <1>1 DEF Origin, Numbered, Own, Handled
<1>5. /\ output' \in [Backends -> Seq(Genuine)]
      /\ inbox' \in [Backends -> Seq(Genuine)]
      /\ toGateway' \in [Backends -> Seq(BytesOf(Known))]
  <2>1. CASE Start \/ Stop
    BY <2>1 DEF Start, Stop, Origin, Traced
  <2>2. ASSUME NEW b \in Backends, HandleRemoveConnection(b)
        PROVE  /\ output' \in [Backends -> Seq(Genuine)]
               /\ inbox' \in [Backends -> Seq(Genuine)]
               /\ toGateway' \in [Backends -> Seq(BytesOf(Known))]
    <3>1. \A S : <<>> \in Seq(S)
      OBVIOUS
    <3> QED
      BY <2>2, <3>1 DEF HandleRemoveConnection, Origin, Traced
  <2> QED
    BY <2>1, <2>2
<1>6. Traced'
  BY <1>1, <1>5, SameKnown DEF Origin, Traced, parserVars
<1> QED
  BY <1>3, <1>4, <1>6 DEF Origin

(***************************************************************************)
(* A posted send puts its packet, one that was posted later, or nothing at *)
(* all that is a packet into the buffer: packets that are genuine.         *)
(***************************************************************************)
LEMMA SendKeepsOrigin ==
    ASSUME Origin, SendInLoop
    PROVE  Origin'
<1> DEFINE b == Head(functors).backend
           own == Head(functors).packet
           later == {f.packet : f \in Range(Tail(functors))}
<1>1. UNCHANGED <<running, m_next_seq, m_pending_reqs, http, got, link, inbox,
                  toGateway, broadcasts, m_buffer, packets, source>>
  BY DEF SendInLoop
<1>2. /\ Head(functors) \in [backend : Backends, packet : Genuine]
      /\ Tail(functors) \in Seq([backend : Backends, packet : Genuine])
      /\ functors' = Tail(functors)
  <2> DEFINE R == [backend : Backends, packet : Genuine]
  <2>1. functors \in Seq(R) /\ functors # <<>> /\ functors' = Tail(functors)
    BY DEF SendInLoop, Origin, Traced
  <2> HIDE DEF R
  <2>2. Head(functors) \in R /\ Tail(functors) \in Seq(R)
    BY <2>1
  <2> QED
    BY <2>1, <2>2 DEF R
<1>3. b \in Backends /\ own \in Genuine
  BY <1>2
<1>4. \A f \in Range(Tail(functors)) : f \in [backend : Backends, packet : Genuine]
  <2> DEFINE R == [backend : Backends, packet : Genuine]
  <2>1. Tail(functors) \in Seq(R)
    BY <1>2
  <2> HIDE DEF R
  <2>2. \A f \in Range(Tail(functors)) : f \in R
    BY <2>1 DEF Range
  <2> QED
    BY <2>2 DEF R
<1>5. later \subseteq Genuine
  BY <1>4
<1>6. /\ output' \in [Backends -> Seq(Genuine)]
      /\ spoiled' \in BOOLEAN
  <2>1. CASE IsConnected(b)
    <3>1. PICK found \in {<<p>> : p \in {own} \cup later} \cup {<<>>} :
            /\ output' = [output EXCEPT ![b] = @ \o found]
            /\ spoiled' = (spoiled \/ found # <<own>>)
      BY <2>1 DEF SendInLoop
    <3>2. found \in Seq(Genuine)
      <4>1. found = <<>> \/ \E p \in Genuine : found = <<p>>
        BY <1>3, <1>5
      <4>2. <<>> \in Seq(Genuine) /\ \A p \in Genuine : <<p>> \in Seq(Genuine)
        OBVIOUS
      <4> QED
        BY <4>1, <4>2
    <3>3. output \in [Backends -> Seq(Genuine)] /\ spoiled \in BOOLEAN
      BY DEF Origin, Traced, States
    <3> HIDE DEF b, own, later
    <3>4. output[b] \o found \in Seq(Genuine)
      BY <1>3, <3>2, <3>3
    <3> QED
      BY <1>3, <3>1, <3>3, <3>4
  <2>2. CASE ~IsConnected(b)
    BY <2>2 DEF SendInLoop, Origin, Traced, States
  <2> QED
    BY <2>1, <2>2
<1>7. States'
  BY <1>1, <1>6 DEF Origin, States
<1>8. Traced'
  BY <1>1, <1>2, <1>6, SameKnown DEF Origin, Traced
<1> QED
  BY <1>1, <1>7, <1>8, SameTable DEF Origin

(***************************************************************************)
(* The kernel takes a buffer's packets to the backend.                     *)
(***************************************************************************)
LEMMA FlushKeepsOrigin ==
    ASSUME Origin, NEW b \in Backends, Flush(b)
    PROVE  Origin'
<1>1. UNCHANGED <<gatewayVars, link, toGateway, broadcasts, parserVars>>
  BY DEF Flush
<1>2. /\ inbox' \in [Backends -> Seq(Genuine)]
      /\ output' \in [Backends -> Seq(Genuine)]
  <2>1. output \in [Backends -> Seq(Genuine)] /\ inbox \in [Backends -> Seq(Genuine)]
    BY DEF Origin, Traced
  <2>2. inbox[b] \o output[b] \in Seq(Genuine) /\ <<>> \in Seq(Genuine)
    BY <2>1
  <2> QED
    BY <2>1, <2>2 DEF Flush
<1>3. States' /\ Numbered' /\ Own'
  BY <1>1 DEF Origin, States, Numbered, Own, Handled, gatewayVars, parserVars
<1>4. Traced'
  BY <1>1, <1>2, SameKnown DEF Origin, Traced, gatewayVars, parserVars
<1> QED
  BY <1>3, <1>4 DEF Origin

(***************************************************************************)
(* Bytes of either backend, a piece of any size, go into the parser behind *)
(* whatever it holds: it hands out and keeps known packets only.           *)
(***************************************************************************)
LEMMA ReadKeepsOrigin ==
    ASSUME Origin, NEW b \in Backends, NEW n \in 1..Len(toGateway[b]), OnMessage(b, n)
    PROVE  Origin'
<1> DEFINE bytes == Feed(m_buffer, SubSeq(toGateway[b], 1, n))
           parsed == ParseAll[bytes]
<1>1. UNCHANGED <<gatewayVars, link, output, inbox, broadcasts>>
  BY DEF OnMessage
<1>2. toGateway \in [Backends -> Seq(BytesOf(Known))] /\ m_buffer \in Seq(BytesOf(Known))
  BY DEF Origin, Traced
<1>3. /\ n \in Nat /\ n >= 1 /\ n <= Len(toGateway[b]) /\ Len(toGateway[b]) \in Nat
      /\ toGateway[b] \in Seq(BytesOf(Known))
  BY <1>2
<1>4. /\ SubSeq(toGateway[b], 1, n) \in Seq(BytesOf(Known))
      /\ SubSeq(toGateway[b], n + 1, Len(toGateway[b])) \in Seq(BytesOf(Known))
  BY <1>3, SubSeqProperties
<1>5. bytes \in Seq(BytesOf(Known))
  BY <1>2, <1>4 DEF Feed
<1>6. Known \in SUBSET Responses
  BY DEF Known, Genuine, Responses
<1>7. parsed.out \in Seq(Known) /\ parsed.m_buffer \in Seq(BytesOf(Known))
  <2> HIDE DEF bytes
  <2> QED
    BY <1>5, <1>6, ParsedKnown
<1>8. packets' \in Seq(Known) /\ m_buffer' \in Seq(BytesOf(Known))
  BY <1>7 DEF OnMessage
<1>9. toGateway' \in [Backends -> Seq(BytesOf(Known))]
  <2>1. toGateway' = [toGateway EXCEPT ![b] = SubSeq(toGateway[b], n + 1, Len(toGateway[b]))]
    BY DEF OnMessage
  <2> QED
    BY <1>2, <1>4, <2>1
<1>10. source' \in Backends /\ spoiled' \in BOOLEAN
  <2>1. "registry" \in Backends
    BY DEF Backends
  <2> QED
    BY <2>1 DEF OnMessage, Origin, States
<1>11. States' /\ Numbered' /\ Own'
  BY <1>1, <1>10 DEF Origin, States, Numbered, Own, Handled, gatewayVars
<1>12. Traced'
  BY <1>1, <1>8, <1>9, SameKnown DEF Origin, Traced, gatewayVars
<1> QED
  BY <1>11, <1>12 DEF Origin

(***************************************************************************)
(* A response: the callback that waits for its number is that of the       *)
(* request it answers.  A broadcast has a number nobody waits for.         *)
(***************************************************************************)
LEMMA ResponseKeepsOrigin ==
    ASSUME IInv, Origin, OnBackendResponse
    PROVE  Origin'
<1> DEFINE p == Head(packets)
<1>1. UNCHANGED <<running, m_next_seq, http, functors, wireVars, m_buffer, source, spoiled>>
  BY DEF OnBackendResponse
<1>2. p \in Known /\ packets' = Tail(packets) /\ Tail(packets) \in Seq(Known)
  BY DEF OnBackendResponse, Origin, Traced
<1>3. States'
  BY <1>1 DEF Origin, States, wireVars
<1>4. CASE p[1] \in DOMAIN m_pending_reqs
  <2>1. p \in Genuine /\ m_pending_reqs[p[1]] = p[2] /\ p[2] \in Requests
    <3>1. p # Offline
      BY <1>4 DEF Origin, Numbered, Offline
    <3> QED
      BY <1>2, <1>4, <3>1 DEF Known, Genuine, Answers
  <2>2. Called(p[2], p) /\ m_pending_reqs' = Forget(p[1])
    BY <1>4, <2>1 DEF OnBackendResponse
  <2>3. /\ DOMAIN m_pending_reqs' = DOMAIN m_pending_reqs \ {p[1]}
        /\ \A s \in DOMAIN m_pending_reqs' : m_pending_reqs'[s] = m_pending_reqs[s]
    BY <2>2 DEF Forget, Restrict
  <2> HIDE DEF p
  <2>4. Own'
    <3>1. got[p[2]] = <<>>
      BY <1>4, <2>1 DEF IInv, PendingUnanswered, Range
    <3>2. /\ DOMAIN got' = Requests /\ got'[p[2]] = Append(<<>>, p)
          /\ \A q \in Requests \ {p[2]} : got'[q] = got[q]
      BY <2>1, <2>2, <3>1 DEF Called, IInv, AnswerStates
    <3>3. Append(<<>>, p) = <<p>>
      OBVIOUS
    <3> QED
      BY <3>2, <3>3 DEF Origin, Own
  <2>5. Numbered'
    BY <1>1, <2>3 DEF Origin, Numbered, Handled
  <2>6. /\ Genuine \subseteq Genuine' /\ Known \subseteq Known'
        /\ BytesOf(Known) \subseteq BytesOf(Known')
    <3>1. m_next_seq \in Nat
      BY DEF Origin, Numbered
    <3> QED
      BY <1>1, <2>3, <3>1, GenuineStays
  <2>7. functors' \in Seq([backend : Backends, packet : Genuine'])
    <3>1. [backend : Backends, packet : Genuine] \subseteq [backend : Backends, packet : Genuine']
      BY <2>6
    <3>2. \A S, T : S \subseteq T => Seq(S) \subseteq Seq(T)
      OBVIOUS
    <3>3. functors' \in Seq([backend : Backends, packet : Genuine])
      BY <1>1 DEF Origin, Traced
    <3> QED
      BY <3>1, <3>2, <3>3
  <2>8. Traced'
    BY <1>1, <1>2, <2>6, <2>7, TracedStays DEF Origin, wireVars
  <2> QED
    BY <1>3, <2>4, <2>5, <2>8 DEF Origin
<1>5. CASE p[1] \notin DOMAIN m_pending_reqs
  <2>1. UNCHANGED <<got, m_pending_reqs>>
    BY <1>5 DEF OnBackendResponse
  <2>2. Numbered' /\ Own'
    BY <1>1, <2>1 DEF Origin, Numbered, Own, Handled
  <2>3. Traced'
    BY <1>1, <1>2, <2>1, SameKnown DEF Origin, Traced, wireVars
  <2> QED
    BY <1>3, <2>2, <2>3 DEF Origin
<1> QED
  BY <1>4, <1>5

(***************************************************************************)
(* A backend answers with the number and the request it was asked with;    *)
(* the registry's broadcasts are known as well.                            *)
(***************************************************************************)
LEMMA SendsType ==
    ASSUME Origin, NEW b \in Backends, NEW p \in Known
    PROVE  Sends(b, p) \in [Backends -> Seq(BytesOf(Known))]
<1>1. toGateway \in [Backends -> Seq(BytesOf(Known))]
  BY DEF Origin, Traced
<1>2. toGateway[b] \o Serialize(p) \in Seq(BytesOf(Known))
  BY <1>1, SerializeType
<1> QED
  BY <1>1, <1>2 DEF Sends

LEMMA BackendKeepsOrigin ==
    ASSUME Origin, Broadcast \/ \E b \in Backends : Answer(b)
    PROVE  Origin'
<1>1. /\ UNCHANGED <<gatewayVars, link, output, parserVars>>
      /\ broadcasts' \in 0..MaxTraffic
      /\ inbox' \in [Backends -> Seq(Genuine)]
      /\ toGateway' \in [Backends -> Seq(BytesOf(Known))]
  <2>1. CASE Broadcast
    <3>1. broadcasts' \in 0..MaxTraffic
      <4>1. Handled \in SUBSET Requests /\ IsFiniteSet(Requests)
        BY GatewayAssumption DEF Handled
      <4>2. Cardinality(Handled) \in Nat
        BY <4>1, FS_Subset, FS_CardinalityType
      <4>3. broadcasts + Cardinality(Handled) < MaxTraffic
        BY <2>1 DEF Broadcast, Traffic, Handled
      <4> QED
        BY <2>1, <4>2, <4>3, GatewayAssumption DEF Broadcast, Origin, States
    <3>2. "registry" \in Backends /\ Offline \in Known
      BY DEF Backends, Known
    <3> QED
      BY <2>1, <3>1, <3>2, SendsType DEF Broadcast, Origin, Traced
  <2>2. ASSUME NEW b \in Backends, Answer(b)
        PROVE  /\ UNCHANGED <<gatewayVars, link, output, broadcasts, parserVars>>
               /\ inbox' \in [Backends -> Seq(Genuine)]
               /\ toGateway' \in [Backends -> Seq(BytesOf(Known))]
    <3>1. PICK i \in DOMAIN inbox[b] :
            /\ inbox' = [inbox EXCEPT ![b] = RemoveAt(@, i)]
            /\ toGateway' = IF BackendOf(inbox[b][i][2]) = b
                              THEN Sends(b, inbox[b][i]) ELSE toGateway
      BY <2>2 DEF Answer
    <3>2. inbox \in [Backends -> Seq(Genuine)] /\ inbox[b] \in Seq(Genuine)
      BY DEF Origin, Traced
    <3>3. inbox[b][i] \in Known /\ i \in 1..Len(inbox[b])
      BY <3>2 DEF Known
    <3>4. RemoveAt(inbox[b], i) \in Seq(Genuine)
      <4>1. /\ SubSeq(inbox[b], 1, i - 1) \in Seq(Genuine)
            /\ SubSeq(inbox[b], i + 1, Len(inbox[b])) \in Seq(Genuine)
        BY <3>2, <3>3, SubSeqProperties
      <4> QED
        BY <4>1 DEF RemoveAt
    <3>5. toGateway' \in [Backends -> Seq(BytesOf(Known))]
      BY <3>1, <3>3, SendsType DEF Origin, Traced
    <3> QED
      BY <2>2, <3>1, <3>2, <3>4, <3>5 DEF Answer
  <2> QED
    BY <2>1, <2>2 DEF Broadcast, Origin, States
<1>2. States' /\ Numbered' /\ Own'
  BY <1>1 DEF Origin, States, Numbered, Own, Handled, gatewayVars, parserVars
<1>3. Traced'
  BY <1>1, SameKnown DEF Origin, Traced, gatewayVars, parserVars
<1> QED
  BY <1>2, <1>3 DEF Origin

(***************************************************************************)
(* All of it together.                                                     *)
(***************************************************************************)
THEOREM GatewayInvariant == Spec => [](IInv /\ Origin)
<1>1. IInv /\ Origin /\ [Next]_vars => Origin'
  <2> SUFFICES ASSUME IInv, Origin, [Next]_vars PROVE Origin'
    OBVIOUS
  <2>1. CASE UNCHANGED vars
    <3>1. States' /\ Numbered' /\ Own'
      BY <2>1 DEF vars, gatewayVars, wireVars, parserVars, Origin, States, Numbered, Own,
                  Handled
    <3>2. Traced'
      BY <2>1, SameKnown DEF vars, gatewayVars, wireVars, parserVars, Origin, Traced
    <3> QED
      BY <3>1, <3>2 DEF Origin
  <2> QED
    BY <2>1, LinkKeepsOrigin, HandleKeepsOrigin, ReturnKeepsOrigin, SendKeepsOrigin,
       ResponseKeepsOrigin, FlushKeepsOrigin, ReadKeepsOrigin, BackendKeepsOrigin
    DEF Next, Read
<1> QED
  BY <1>1, InitIInv, InitOrigin, NextKeepsIInv, PTL DEF Spec

(***************************************************************************)
(* A user is given the answer to the own request, once, whatever the two   *)
(* connections, the shared parser and the freed buffers do to the bytes.   *)
(***************************************************************************)
THEOREM AnswersAreOwn == Spec => []OwnAnswer
<1>1. IInv /\ Origin => Own
  BY DEF Origin
<1>2. Own /\ AnsweredOnce => OwnAnswer
  BY DEF Own, OwnAnswer
<1> QED
  BY <1>1, <1>2, GatewayInvariant, CalledOnce, PTL

(***************************************************************************)
(* The state is of its type: numbers do not run out, and what comes out of *)
(* the parser is a response.                                               *)
(***************************************************************************)
THEOREM GatewayTypes == Spec => []TypeOK
<1>1. IInv /\ Origin => TypeOK
  <2> SUFFICES ASSUME IInv, Origin PROVE TypeOK
    OBVIOUS
  <2>1. Cardinality(Handled) <= Cardinality(Requests)
        /\ Cardinality(Handled) \in Nat /\ Cardinality(Requests) \in Nat
    <3>1. Handled \in SUBSET Requests /\ IsFiniteSet(Requests)
      BY GatewayAssumption DEF Handled
    <3> QED
      BY <3>1, FS_Subset, FS_CardinalityType
  <2>2. m_next_seq \in 1..(Cardinality(Requests) + 1)
    BY <2>1 DEF Origin, Numbered
  <2>3. DOMAIN m_pending_reqs \subseteq Seqs
    BY <2>1 DEF IInv, NumbersUsed, Origin, Numbered, Seqs
  <2>4. Genuine \subseteq Answers /\ Known \subseteq Responses
    BY DEF Genuine, Known, Responses
  <2>5. \A i \in DOMAIN functors : functors[i] \in [backend : Backends, packet : Answers]
    <3> DEFINE R == [backend : Backends, packet : Genuine]
    <3>1. functors \in Seq(R)
      BY DEF Origin, Traced
    <3>2. \A i \in DOMAIN functors : functors[i] \in R
      <4> HIDE DEF R
      <4> QED
        BY <3>1
    <3> QED
      BY <2>4, <3>2
  <2>6. \A b \in Backends : Range(output[b]) \cup Range(inbox[b]) \subseteq Answers
    BY <2>4 DEF Origin, Traced, Range
  <2>7. packets \in Seq(Responses)
    <3>1. Seq(Known) \subseteq Seq(Responses)
      BY <2>4
    <3> QED
      BY <3>1 DEF Origin, Traced
  <2> QED
    BY <2>2, <2>3, <2>5, <2>6, <2>7 DEF TypeOK, Origin, States, IInv, NumbersUsed, AnswerStates
<1> QED
  BY <1>1, GatewayInvariant, PTL

=============================================================================
