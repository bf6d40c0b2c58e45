-------------------------------- MODULE Gateway --------------------------------
(***************************************************************************)
(* The HTTP gateway (AiDist/9. Gateway.cpp) and its two backends, each     *)
(* behind a TcpClient (Net/TcpClient).                                     *)
(*                                                                         *)
(* Every HTTP request has a thread of httplib, which forwards it and       *)
(* returns without waiting; the answer comes back on the loop's thread.    *)
(* ForwardToBackend and OnBackendResponse hold m_mtx and are one step      *)
(* each.  Both backends' bytes go through one static parser.               *)
(*                                                                         *)
(* Send from an HTTP thread only posts a pointer to out_bytes, a local     *)
(* vector: what the loop finds there later is undefined.  It is modelled   *)
(* as the packet itself, a packet serialized later into the freed block,   *)
(* or bytes that are no packet.  m_connection is read without a lock while *)
(* the loop's thread resets it; here it is read at one moment.             *)
(***************************************************************************)
EXTENDS Integers, FiniteSets, SequencesExt

CONSTANTS
    Requests,       \* HTTP requests
    Path,           \* request -> the path it is for
    MaxTraffic,     \* bound: requests handled, and WORKER_OFFLINE packets sent
    TextLength, NoPacket

Paths == {"submit_task", "query_task", "list_nodes", "list_jobs"}
Backends == {"registry", "scheduler"}

ASSUME GatewayAssumption ==
    /\ IsFiniteSet(Requests)
    /\ Path \in [Requests -> Paths]
    /\ MaxTraffic \in Nat
    /\ TextLength \in Nat /\ TextLength > Cardinality(Requests)

Seqs == 1..Cardinality(Requests)

\* A packet is a sequence number and the request it asks or answers; the
\* registry's broadcasts have sequence number 0.
Answers == Seqs \X Requests
Offline == <<0, NoPacket>>
Responses == Answers \cup {Offline}

ASSUME NoPacketAssumption == NoPacket \notin Responses

INSTANCE PacketParser WITH
    Packets <- Responses,
    Body <- [p \in Responses |-> <<(<<"text", p[1], p>>)>>]

VARIABLES
    link,           \* backend -> state of its client's connection
    running,        \* "no", "yes", "stopped"
    m_next_seq,
    m_pending_reqs, \* sequence number -> the request whose callback waits
    http,           \* request -> "new", "handling", "returned"
    got,            \* request -> what its callback was called with, in order
    functors,       \* sends posted to the loop: <<backend, packet>>
    output,         \* backend -> packets in the connection's output buffer
    inbox,          \* backend -> packets it received and has not answered
    toGateway,      \* backend -> bytes on their way to the gateway
    m_buffer,       \* of the static parser
    packets,        \* parsed by the message callback and not yet handled
    broadcasts,     \* of the registry, so far
    source, spoiled \* whose bytes m_buffer ends with; is some answer hopeless

gatewayVars == <<running, m_next_seq, m_pending_reqs, http, got, functors>>
wireVars == <<link, output, inbox, toGateway, broadcasts>>
parserVars == <<m_buffer, packets, source, spoiled>>
vars == <<gatewayVars, wireVars, parserVars>>

Init ==
    /\ link = [b \in Backends |-> "none"]
    /\ running = "no"
    /\ m_next_seq = 1
    /\ m_pending_reqs = [s \in {} |-> NoPacket]
    /\ http = [r \in Requests |-> "new"]
    /\ got = [r \in Requests |-> <<>>]
    /\ functors = <<>>
    /\ output = [b \in Backends |-> <<>>]
    /\ inbox = [b \in Backends |-> <<>>]
    /\ toGateway = [b \in Backends |-> <<>>]
    /\ m_buffer = <<>> /\ packets = <<>>
    /\ broadcasts = 0
    /\ source = "registry" /\ spoiled = FALSE

Traffic == broadcasts + Cardinality({r \in Requests : http[r] # "new"})

IsConnected(b) == link[b] = "Connected"
\* A connection that waits for its output to be sent goes on reading.
IsReading(b) == link[b] \in {"Connected", "Disconnecting"}

\* Start connects the clients.  TcpClient::Connect takes a connect in progress
\* for success, and one that succeeds at once for a failure.
Start ==
    /\ running = "no"
    /\ running' = "yes"
    /\ link' \in [Backends -> {"Connected", "none"}]
    /\ UNCHANGED <<m_next_seq, m_pending_reqs, http, got, functors, output, inbox,
                   toGateway, broadcasts, parserVars>>

-----------------------------------------------------------------------------
(***************************************************************************)
(* The HTTP threads.                                                       *)
(***************************************************************************)
BackendOf(r) == IF Path[r] = "list_nodes" THEN "registry" ELSE "scheduler"

\* The callback of a request: it writes into the response of its handler.
Called(r, answer) == got' = [got EXCEPT ![r] = Append(@, answer)]

\* Faulty: every request of a backend goes out under the same number.
NextSeqPerBackend(r) == IF Path[r] = "list_nodes" THEN 1 ELSE 2

\* Faulty: numbers begin with 0, which is also that of the registry's broadcasts.
NextSeqFromZero(r) == m_next_seq - 1

NextSeq(r) == m_next_seq

\* ForwardToBackend, under m_mtx.
ForwardToBackend(r) ==
    LET seq == NextSeq(r) IN
    IF ~IsConnected(BackendOf(r))
      THEN /\ Called(r, <<503, r>>)
           /\ UNCHANGED <<m_next_seq, m_pending_reqs, functors>>
      ELSE /\ m_next_seq' = m_next_seq + 1
           /\ m_pending_reqs' = [s \in DOMAIN m_pending_reqs \cup {seq} |->
                                    IF s = seq THEN r ELSE m_pending_reqs[s]]
           /\ functors' = Append(functors, [backend |-> BackendOf(r), packet |-> <<seq, r>>])
           /\ UNCHANGED got

\* A handler registered with httplib, up to the end of ForwardToBackend; a
\* submission may be malformed.
HandleHttpRequest(r) ==
    /\ running # "no"
    /\ http[r] = "new" /\ Traffic < MaxTraffic
    /\ http' = [http EXCEPT ![r] = "handling"]
    /\ \/ ForwardToBackend(r)
       \/ /\ Path[r] = "submit_task"
          /\ Called(r, <<400, r>>)
          /\ UNCHANGED <<m_next_seq, m_pending_reqs, functors>>
    /\ UNCHANGED <<running, wireVars, parserVars>>

\* The handler returns: httplib sends the response, whatever is in it, and
\* destroys it.
Return(r) ==
    /\ http[r] = "handling"
    /\ http' = [http EXCEPT ![r] = "returned"]
    /\ UNCHANGED <<running, m_next_seq, m_pending_reqs, got, functors, wireVars,
                   parserVars>>

-----------------------------------------------------------------------------
(***************************************************************************)
(* The loop's thread.                                                      *)
(***************************************************************************)
\* The message callback has handled all its packets: the loop runs other code.
IsPolling == packets = <<>>

\* A posted TcpConnection::SendInLoop: it appends what is at the pointer by now.
\* For a connection destroyed meanwhile it is dropped (TcpServer's NoUseAfterFree
\* is about a functor that uses a destroyed connection).
SendInLoop ==
    LET b     == Head(functors).backend
        own   == Head(functors).packet
        later == {f.packet : f \in Range(Tail(functors))}
    IN
    /\ IsPolling /\ functors # <<>>
    /\ functors' = Tail(functors)
    /\ IF IsConnected(b)
         THEN \E found \in {<<p>> : p \in {own} \cup later} \cup {<<>>} :
                /\ output' = [output EXCEPT ![b] = @ \o found]
                /\ spoiled' = (spoiled \/ found # <<own>>)
         ELSE UNCHANGED <<output, spoiled>>
    /\ UNCHANGED <<running, m_next_seq, m_pending_reqs, http, got, link, inbox,
                   toGateway, broadcasts, m_buffer, packets, source>>

\* TcpConnection::HandleWrite, when the kernel takes all of it.
Flush(b) ==
    /\ IsPolling /\ IsConnected(b) /\ output[b] # <<>>
    /\ inbox' = [inbox EXCEPT ![b] = @ \o output[b]]
    /\ output' = [output EXCEPT ![b] = <<>>]
    /\ UNCHANGED <<gatewayVars, link, toGateway, broadcasts, parserVars>>

\* The message callback of a backend's client, for n bytes that were read: it
\* lets the parser find the packets, to handle them one by one.
OnMessage(b, n) ==
    LET parsed == ParseAll[Feed(m_buffer, SubSeq(toGateway[b], 1, n))] IN
    /\ IsPolling /\ IsReading(b)
    /\ n \in 1..Len(toGateway[b])
    /\ toGateway' = [toGateway EXCEPT ![b] = SubSeq(@, n + 1, Len(@))]
    /\ m_buffer' = parsed.m_buffer
    /\ packets' = parsed.out
    /\ source' = IF m_buffer' = <<>> THEN "registry" ELSE b
    /\ spoiled' = (spoiled \/ (m_buffer # <<>> /\ source # b))
    /\ UNCHANGED <<gatewayVars, link, output, inbox, broadcasts>>

\* Faulty: the entry of an answered request stays.
ForgetNothing(s) == m_pending_reqs

\* m_pending_reqs.erase(seq)
Forget(s) == Restrict(m_pending_reqs, DOMAIN m_pending_reqs \ {s})

\* OnBackendResponse, under m_mtx: call the callback that waits for this sequence
\* number and forget it; an unknown number is logged.
OnBackendResponse ==
    LET p == Head(packets) IN
    /\ packets # <<>>
    /\ packets' = Tail(packets)
    /\ IF p[1] \in DOMAIN m_pending_reqs
         THEN Called(m_pending_reqs[p[1]], p) /\ m_pending_reqs' = Forget(p[1])
         ELSE UNCHANGED <<got, m_pending_reqs>>
    /\ UNCHANGED <<running, m_next_seq, http, functors, wireVars, m_buffer, source, spoiled>>

\* The connection to a backend is lost.  Automatic reconnection is off, and the
\* parser keeps what it has of a packet.
HandleRemoveConnection(b) ==
    /\ IsPolling /\ IsReading(b)
    /\ link' = [link EXCEPT ![b] = "Disconnected"]
    /\ output' = [output EXCEPT ![b] = <<>>]
    /\ toGateway' = [toGateway EXCEPT ![b] = <<>>]
    /\ inbox' = [inbox EXCEPT ![b] = <<>>]
    /\ UNCHANGED <<gatewayVars, broadcasts, parserVars>>

\* Stop, in the loop's thread: TcpClient::Disconnect, a connection with unsent
\* output never gets closed.  The HTTP server goes on.
Stop ==
    /\ IsPolling /\ running = "yes"
    /\ running' = "stopped"
    /\ link' = [b \in Backends |->
                  IF ~IsConnected(b) THEN link[b]
                  ELSE IF output[b] = <<>> THEN "Disconnected" ELSE "Disconnecting"]
    /\ UNCHANGED <<m_next_seq, m_pending_reqs, http, got, functors, output, inbox,
                   toGateway, broadcasts, parserVars>>

-----------------------------------------------------------------------------
(***************************************************************************)
(* The backends.  The registry handles packets in order, answers node      *)
(* queries and ignores the rest; the scheduler, which is not part of the   *)
(* repository, may answer its requests in any order.                       *)
(***************************************************************************)
Sends(b, p) ==
    IF IsReading(b) THEN [toGateway EXCEPT ![b] = @ \o Serialize(p)] ELSE toGateway

Answer(b) ==
    /\ \E i \in DOMAIN inbox[b] :
         /\ b = "registry" => i = 1
         /\ inbox' = [inbox EXCEPT ![b] = RemoveAt(@, i)]
         /\ toGateway' = IF BackendOf(inbox[b][i][2]) = b
                           THEN Sends(b, inbox[b][i]) ELSE toGateway
    /\ UNCHANGED <<gatewayVars, link, output, broadcasts, parserVars>>

Broadcast ==
    /\ Traffic < MaxTraffic
    /\ IsReading("registry")
    /\ broadcasts' = broadcasts + 1
    /\ toGateway' = Sends("registry", Offline)
    /\ UNCHANGED <<gatewayVars, link, output, inbox, parserVars>>

Read(b) == \E n \in 1..Len(toGateway[b]) : OnMessage(b, n)

Next ==
    \/ Start
    \/ \E r \in Requests : HandleHttpRequest(r) \/ Return(r)
    \/ SendInLoop \/ OnBackendResponse
    \/ \E b \in Backends : Flush(b) \/ Read(b) \/ HandleRemoveConnection(b) \/ Answer(b)
    \/ Stop
    \/ Broadcast

Spec == Init /\ [][Next]_vars

\* The loop keeps running functors and polling; a backend answers in the end.
FairSpec ==
    /\ Spec
    /\ WF_vars(SendInLoop) /\ WF_vars(OnBackendResponse)
    /\ \A b \in Backends : WF_vars(Flush(b)) /\ WF_vars(Read(b)) /\ WF_vars(Answer(b))

-----------------------------------------------------------------------------
(***************************************************************************)
(* The state is of its type.                                               *)
(***************************************************************************)
TypeOK ==
    /\ link \in [Backends -> {"none", "Connected", "Disconnecting", "Disconnected"}]
    /\ running \in {"no", "yes", "stopped"}
    /\ m_next_seq \in 1..(Cardinality(Requests) + 1)
    /\ DOMAIN m_pending_reqs \subseteq Seqs
    /\ \A s \in DOMAIN m_pending_reqs : m_pending_reqs[s] \in Requests
    /\ http \in [Requests -> {"new", "handling", "returned"}]
    /\ \A i \in DOMAIN functors :
         functors[i] \in [backend : Backends, packet : Answers]
    /\ \A b \in Backends : Range(output[b]) \cup Range(inbox[b]) \subseteq Answers
    /\ broadcasts \in 0..MaxTraffic
    /\ packets \in Seq(Responses)
    /\ source \in Backends /\ spoiled \in BOOLEAN

(***************************************************************************)
(* Whatever becomes of packets on the way, a user is never given the       *)
(* answer to somebody else's request, and never two answers.               *)
(***************************************************************************)
AnsweredOnce == \A r \in Requests : Len(got[r]) <= 1

OwnAnswer ==
    /\ AnsweredOnce
    /\ \A r \in Requests : \A i \in DOMAIN got[r] : got[r][i][2] = r

(***************************************************************************)
(* The pending table holds exactly one entry for each request that was     *)
(* forwarded and has no answer.                                            *)
(***************************************************************************)
PendingUnanswered ==
    /\ \A s, t \in DOMAIN m_pending_reqs :
         m_pending_reqs[s] = m_pending_reqs[t] => s = t
    /\ Range(m_pending_reqs) = {r \in Requests : http[r] # "new" /\ got[r] = <<>>}

(***************************************************************************)
(* A forwarded request is answered, unless its connection is lost or       *)
(* closed, or bytes were spoiled: a freed packet was sent, or the two      *)
(* backends' packets met in the parser.                                    *)
(***************************************************************************)
Answered ==
    \A r \in Requests :
        r \in Range(m_pending_reqs)
            ~> got[r] # <<>> \/ spoiled \/ ~IsConnected(BackendOf(r))

-----------------------------------------------------------------------------
\* 9 Gateway.h:62: the backend's result is returned to the user by the callback.
\* The code does not do it: the handler has returned by the time of the answer.
ReturnedToUser ==
    [][\A r \in Requests : got'[r] # got[r] => http[r] # "returned"]_vars

=============================================================================
