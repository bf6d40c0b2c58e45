-------------------------------- MODULE Stream --------------------------------
(***************************************************************************)
(* One direction of a connection, from the packets one side sends to those *)
(* the other handles: the output buffer of the sender's connection, the    *)
(* kernel, the input buffer of the receiver's connection, and the parser   *)
(* that OnMessage feeds (Net/TcpConnection, Net/Buffer, AiDist/2.          *)
(* Packet_Parser, RegistryServer::OnMessage).                              *)
(*                                                                         *)
(* The kernel takes and gives bytes in pieces of any size.  Besides intact *)
(* packets a sender may send noise: packets of a newer protocol, packets   *)
(* whose text is damaged, bytes without any header.  How connections open  *)
(* and close is in TcpServer.                                              *)
(***************************************************************************)
EXTENDS Buffer, PacketParser

CONSTANTS
    Noise,        \* what is sent besides packets
    KernelSize,   \* bound: bytes the kernel holds
    MaxBytes      \* bound: bytes sent in a behaviour

ASSUME StreamAssumption ==
    /\ Bytes = Symbols
    /\ Noise \subseteq Seq(Bytes)
    /\ TextLength \in Nat
    /\ Body \in [Packets -> Seq(Bytes)]
    /\ \A p \in Packets : Serialize(p) \in Seq(Bytes)
    /\ KernelSize \in Nat /\ MaxBytes \in Nat

\* A packet that is announced and does not arrive would take the next one's bytes
\* for its own.
ASSUME NoiseAssumption == \A data \in Noise : HasNoHeader(data) \/ IsDamaged(data)

VARIABLES
    output,     \* m_output_buffer of the sender
    writing,    \* does its channel watch for writability
    kernel,     \* bytes written and not yet read
    input,      \* m_input_buffer of the receiver
    m_buffer,   \* of the receiver's parser
    receiver,   \* "open", "closed", "terminated" (its process ended), or "broken":
                \* open with a buffer that is no longer one
    sent,       \* all bytes sent so far
    fed,        \* all bytes fed to the parser so far
    asked,      \* the intact packets sent so far
    handled     \* the packets handled so far

vars == <<output, writing, kernel, input, m_buffer, receiver, sent, fed, asked, handled>>

Init ==
    /\ output = NewBuffer /\ input = NewBuffer
    /\ writing = FALSE
    /\ kernel = <<>>
    /\ m_buffer = <<>>
    /\ receiver = "open"
    /\ sent = <<>> /\ fed = <<>>
    /\ asked = <<>> /\ handled = <<>>

-----------------------------------------------------------------------------
(***************************************************************************)
(* TcpConnection::SendInLoop, and what the application sends with it.      *)
(***************************************************************************)
SendInLoop(data) ==
    /\ Len(sent) + Len(data) <= MaxBytes
    /\ output' = AppendBytes(output, data)
    /\ writing' = TRUE
    /\ sent' = sent \o data
    /\ UNCHANGED <<kernel, input, m_buffer, receiver, fed, handled>>

SendPacket(p) ==
    /\ SendInLoop(Serialize(p))
    /\ asked' = Append(asked, p)

SendNoise(data) ==
    /\ SendInLoop(data)
    /\ UNCHANGED asked

\* Faulty: after a write that the kernel took in part nothing watches any more.
HandleWriteOnce(n) ==
    /\ writing
    /\ n \in 1..ReadableBytes(output) /\ Len(kernel) + n <= KernelSize
    /\ kernel' = kernel \o SubSeq(Readable(output), 1, n)
    /\ output' = WriteToFd(output, n)
    /\ writing' = FALSE
    /\ UNCHANGED <<input, m_buffer, receiver, sent, fed, asked, handled>>

\* TcpConnection::HandleWrite, when the kernel takes n bytes.
HandleWrite(n) ==
    /\ writing
    /\ n \in 1..ReadableBytes(output) /\ Len(kernel) + n <= KernelSize
    /\ kernel' = kernel \o SubSeq(Readable(output), 1, n)
    /\ output' = WriteToFd(output, n)
    /\ writing' = (ReadableBytes(output') # 0)
    /\ UNCHANGED <<input, m_buffer, receiver, sent, fed, asked, handled>>

-----------------------------------------------------------------------------
\* TcpConnection::HandleRead, when the kernel gives n bytes: the message callback
\* feeds all that is readable to the parser, retrieves it, and handles each
\* packet that comes out.
HandleRead(n) ==
    LET filled == ReadFromFd(input, SubSeq(kernel, 1, n))
        parsed == ParseAll[Feed(m_buffer, Readable(filled))]
    IN
    /\ receiver = "open"
    /\ n \in 1..Len(kernel) /\ n <= MaxRead(input)
    /\ kernel' = SubSeq(kernel, n + 1, Len(kernel))
    /\ input' = Retrieve(filled, ReadableBytes(filled))
    /\ m_buffer' = parsed.m_buffer
    /\ fed' = fed \o Readable(filled)
    /\ handled' = handled \o parsed.out
    /\ UNCHANGED <<output, writing, receiver, sent, asked>>

\* readv gives -1: the peer has reset the connection since the poll, and HandleClose
\* follows, or there is nothing to read after all, and the connection stays open.
\* With nothing ever read before, the resize throws and nothing catches it; otherwise
\* the copy may end the process too, and if it does not the buffer is ruined.  What
\* a later read would do with such a buffer is undefined and not modelled.
ReadFails ==
    /\ receiver = "open"
    /\ \/ receiver' = "terminated" /\ UNCHANGED input
       \/ /\ input.m_write_idx > 0
          /\ receiver' \in {"closed", "broken"}
          /\ input' = ReadFailed(input)
    /\ UNCHANGED <<output, writing, kernel, m_buffer, sent, fed, asked, handled>>

Write == \E n \in 1..KernelSize : HandleWrite(n)
Read == \E n \in 1..KernelSize : HandleRead(n)

Next ==
    \/ \E p \in Packets : SendPacket(p)
    \/ \E data \in Noise : SendNoise(data)
    \/ Write
    \/ Read
    \/ ReadFails

Spec == Init /\ [][Next]_vars

\* Both loops keep polling, and the poller is level triggered.
FairSpec == Spec /\ WF_vars(Write) /\ WF_vars(Read)

-----------------------------------------------------------------------------
(***************************************************************************)
(* Until a read fails the buffers' indices stay within their vectors, and  *)
(* everything is bytes.                                                    *)
(***************************************************************************)
TypeOK ==
    /\ output \in Buffers /\ InBounds(output)
    /\ input \in Buffers /\ (receiver = "open" => InBounds(input))
    /\ writing \in BOOLEAN
    /\ receiver \in {"open", "closed", "terminated", "broken"}
    /\ kernel \in Seq(Bytes) /\ sent \in Seq(Bytes) /\ fed \in Seq(Bytes)

(***************************************************************************)
(* The receive buffer does not grow with the traffic: since each read is   *)
(* emptied by the message callback, MakeSpace finds the space in front     *)
(* again before the vector exceeds three times the extra buffer.           *)
(***************************************************************************)
InputBounded ==
    Len(input.m_buf) <= IF InitialSize > 3 * ExtraSize THEN InitialSize ELSE 3 * ExtraSize

(***************************************************************************)
(* What the parser was fed, what is in the receiver's buffer, in the       *)
(* kernel and in the sender's buffer is, together, what was sent.          *)
(***************************************************************************)
Conserved == sent = fed \o Readable(input) \o kernel \o Readable(output)

(***************************************************************************)
(* The connection implements a byte pipe.                                  *)
(***************************************************************************)
Pipe == INSTANCE BytePipe WITH received <- fed
PipeSpec == Pipe!Spec

(***************************************************************************)
(* However the stream is cut, and whatever noise without a false header is *)
(* between the packets (NoiseAssumption): intact packets are handled in    *)
(* the order they were sent, each once, and all whose bytes have arrived.  *)
(***************************************************************************)
InOrder ==
    /\ Len(handled) <= Len(asked)
    /\ handled = SubSeq(asked, 1, Len(handled))
    /\ fed = sent => handled = asked

(***************************************************************************)
(* Every packet that is sent is handled, unless the connection ends.       *)
(* (Of the packets of a behaviour there are finitely many.)                *)
(***************************************************************************)
PacketsArrive == handled # asked ~> handled = asked \/ receiver # "open"

================================================================================
