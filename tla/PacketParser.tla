------------------------------ MODULE PacketParser ------------------------------
(***************************************************************************)
(* Packets on the wire (AiDist/1 protocol.h) and how they are found again  *)
(* in a stream of bytes (AiDist/2. Packet_Parser.cpp).                     *)
(*                                                                         *)
(* A symbol <<kind, n, packet>> stands for a run of bytes.  The header of  *)
(* 16 bytes is two symbols: the magic number with the version n, and the   *)
(* length n of the body with the checksum, which is named by the packet    *)
(* whose body it is the checksum of: the CRC32 of any other body differs.  *)
(* The body, JSON text, is as many symbols as a packet's Body says.        *)
(***************************************************************************)
EXTENDS Integers, Sequences

CONSTANTS
    Packets,
    Body,          \* packet -> the symbols of its JSON text
    TextLength,    \* the number that anything but a length is, read as one: text
                   \* and the magic number are far larger than any packet
    NoPacket

HeaderSize == 2
Version == 1

Magic(version) == <<"magic", version, NoPacket>>
BodyLength(n, p) == <<"length", n, p>>

Symbols == {"magic", "length", "text", "dirt", "zero"} \X (0..TextLength) \X (Packets \cup {NoPacket})

Serialize(p) == <<Magic(Version), BodyLength(Len(Body[p]), p)>> \o Body[p]

\* TransportHeader::deserialize_from_bytes: what it accepts, and body_len.
IsMagic(symbol) == symbol[1] = "magic" /\ symbol[2] <= Version
IsHeader(bytes) == Len(bytes) >= HeaderSize /\ IsMagic(bytes[1])
BodyLen(bytes) == IF bytes[2][1] = "length" THEN bytes[2][2] ELSE TextLength

\* Faulty: the checksum is not compared, any text of the right length will do.
DeserializeNoCrc(bytes) ==
    IF bytes[2][3] \in Packets THEN <<bytes[2][3]>> ELSE <<>>

\* AiSchedulePacket::deserialize of one complete packet.
Deserialize(bytes) ==
    LET p == bytes[2][3] IN
    IF p \in Packets /\ Body[p] = SubSeq(bytes, HeaderSize + 1, Len(bytes))
      THEN <<p>> ELSE <<>>

\* PacketParser::ParseAll: skip a byte where there is no header, wait for the
\* rest of an incomplete packet, drop a complete one, and hand it out if it is
\* intact.  The function gives what is handed out and what stays in m_buffer.
ParseAll[bytes \in Seq(Symbols)] ==
    IF Len(bytes) < HeaderSize THEN [out |-> <<>>, m_buffer |-> bytes]
    ELSE IF ~IsHeader(bytes) THEN ParseAll[Tail(bytes)]
    ELSE LET packet_len == HeaderSize + BodyLen(bytes)
             after == ParseAll[SubSeq(bytes, packet_len + 1, Len(bytes))]
         IN IF Len(bytes) < packet_len THEN [out |-> <<>>, m_buffer |-> bytes]
            ELSE [after EXCEPT !.out = Deserialize(SubSeq(bytes, 1, packet_len)) \o @]

\* What ParseAll passes over: bytes that begin no header, and a complete packet
\* whose text is not the one its checksum is of.
HasNoHeader(bytes) == \A i \in 1..Len(bytes) : ~IsMagic(bytes[i])
IsDamaged(bytes) ==
    /\ IsHeader(bytes) /\ Len(bytes) = HeaderSize + BodyLen(bytes)
    /\ \A p \in Packets : bytes[2][3] = p => Body[p] # SubSeq(bytes, HeaderSize + 1, Len(bytes))

\* PacketParser::Feed.
Feed(m_buffer, data) == m_buffer \o data

=============================================================================
