--------------------------- MODULE PacketParserProofs ---------------------------
(***************************************************************************)
(* Proofs about the packet parser, for any packets and any bytes: what     *)
(* ParseAll computes is found by induction over the length of the stream.  *)
(***************************************************************************)
EXTENDS PacketParser, SequenceTheorems, WellFoundedInduction, TLAPS

-----------------------------------------------------------------------------
(***************************************************************************)
(* Induction and recursion.  The facts are stated with sets and functions  *)
(* where a textbook has predicates and operators: in this form every       *)
(* prover can use them.                                                    *)
(***************************************************************************)

(***************************************************************************)
(* A set of natural numbers that is not empty has a least element.         *)
(***************************************************************************)
LEMMA LeastNumber ==
    ASSUME NEW B \in SUBSET Nat, B # {}
    PROVE  \E n \in B : \A m \in B : n <= m
<1> DEFINE R == OpToRel(<, Nat)
<1>1. IsWellFoundedOn(R, Nat)
  BY NatLessThanWellFounded
<1>2. \A m, n \in Nat : m < n => <<m, n>> \in R
  BY DEF OpToRel
<1> HIDE DEF R
<1>3. PICK n \in B : \A m \in B : ~(<<m, n>> \in R)
  BY <1>1, WFMin
<1>4. ASSUME NEW m \in B PROVE n <= m
  <2>1. m \in Nat /\ n \in Nat /\ ~(m < n)
    BY <1>2, <1>3
  <2> QED
    BY <2>1
<1> QED
  BY <1>4

(***************************************************************************)
(* Induction over the size of data.                                        *)
(***************************************************************************)
LEMMA SizeInduction ==
    ASSUME NEW S, NEW size \in [S -> Nat], NEW P,
           \A x \in S : (\A y \in S : size[y] < size[x] => y \in P) => x \in P
    PROVE  S \subseteq P
<1> SUFFICES ASSUME S \ P # {} PROVE FALSE
  OBVIOUS
<1> DEFINE B == {size[x] : x \in S \ P}
<1>1. B \in SUBSET Nat /\ B # {}
  OBVIOUS
<1>2. PICK n \in B : \A m \in B : n <= m
  <2> HIDE DEF B
  <2> QED
    BY <1>1, LeastNumber
<1>3. PICK x \in S \ P : size[x] = n
  OBVIOUS
<1>4. \A y \in S : size[y] < size[x] => y \in P
  BY <1>2, <1>3, SMTT(30)
<1> QED
  BY <1>3, <1>4

\* A definition step[x][f] of f[x] that needs f only for smaller arguments,
\* and a function that is so defined.
Recursive(S, T, size, step) ==
    /\ size \in [S -> Nat]
    /\ step \in [S -> [[S -> T] -> T]]
    /\ \A f, g \in [S -> T] : \A x \in S :
         (\A y \in S : size[y] < size[x] => f[y] = g[y]) => step[x][f] = step[x][g]
DefinedBy(f, S, step) == \A x \in S : f[x] = step[x][f]

(***************************************************************************)
(* A recursive definition that needs its own values only for smaller       *)
(* arguments defines a function.                                           *)
(***************************************************************************)
LEMMA RecursiveFunction ==
    ASSUME NEW S, NEW T, T # {}, NEW size, NEW step, Recursive(S, T, size, step)
    PROVE  \E f \in [S -> T] : DefinedBy(f, S, step)
<1> USE DEF Recursive, DefinedBy
<1> DEFINE Good(f, n) == \A x \in S : size[x] < n => f[x] = step[x][f]
           B == {n \in Nat : ~\E f \in [S -> T] : Good(f, n)}
\* Up to every size there is such a function.
<1>1. B = {}
  <2> SUFFICES ASSUME B # {} PROVE FALSE
    OBVIOUS
  <2>1. PICK n \in B : \A m \in B : n <= m
    <3>1. B \in SUBSET Nat
      OBVIOUS
    <3> HIDE DEF B
    <3> QED
      BY <3>1, LeastNumber
  <2>2. n \in Nat /\ ~\E f \in [S -> T] : Good(f, n)
    OBVIOUS
  <2>3. n # 0
    <3> SUFFICES ASSUME n = 0 PROVE FALSE
      OBVIOUS
    <3>1. PICK t \in T : TRUE
      OBVIOUS
    <3>2. [x \in S |-> t] \in [S -> T] /\ Good([x \in S |-> t], 0)
      OBVIOUS
    <3> QED
      BY <2>2, <3>2
  <2>4. n - 1 \in Nat /\ n - 1 \notin B
    BY <2>1, <2>2, <2>3
  <2>5. PICK f \in [S -> T] : Good(f, n - 1)
    BY <2>4
  <2> DEFINE g == [x \in S |-> step[x][f]]
  <2>6. g \in [S -> T]
    OBVIOUS
  <2>7. Good(g, n)
    <3> SUFFICES ASSUME NEW x \in S, size[x] < n PROVE step[x][g] = step[x][f]
      OBVIOUS
    <3>1. \A y \in S : size[y] < size[x] => g[y] = f[y]
      BY <2>2, <2>5
    <3> HIDE DEF g
    <3> QED
      BY <2>6, <3>1, ZenonT(40)
  <2> QED
    BY <2>2, <2>6, <2>7
\* And any two agree where both are such.
<1>2. ASSUME NEW f \in [S -> T], NEW m \in Nat, Good(f, m),
             NEW g \in [S -> T], NEW n \in Nat, Good(g, n)
      PROVE  \A x \in S : size[x] < m /\ size[x] < n => f[x] = g[x]
  <2> DEFINE P == {x \in S : size[x] < m /\ size[x] < n => f[x] = g[x]}
  <2>1. ASSUME NEW x \in S, \A y \in S : size[y] < size[x] => y \in P PROVE x \in P
    <3> SUFFICES ASSUME size[x] < m, size[x] < n PROVE f[x] = g[x]
      OBVIOUS
    <3>1. \A y \in S : size[y] < size[x] => f[y] = g[y]
      BY <2>1
    <3>2. step[x][f] = step[x][g]
      BY <3>1
    <3> QED
      BY <1>2, <3>2
  <2>2. S \subseteq P
    <3> HIDE DEF P
    <3> QED
      BY <2>1, SizeInduction
  <2> QED
    BY <2>2
\* Their union is one for every size.
<1> DEFINE h(x) == CHOOSE f \in [S -> T] : Good(f, size[x] + 1)
           F == [x \in S |-> h(x)[x]]
<1>3. \A x \in S : h(x) \in [S -> T] /\ Good(h(x), size[x] + 1)
  <2> SUFFICES ASSUME NEW x \in S PROVE h(x) \in [S -> T] /\ Good(h(x), size[x] + 1)
    OBVIOUS
  <2>1. size[x] + 1 \in Nat
    OBVIOUS
  <2>2. \E f \in [S -> T] : Good(f, size[x] + 1)
    BY <1>1, <2>1
  <2> HIDE DEF Good
  <2> QED
    BY <2>2
<1>4. F \in [S -> T]
  <2> HIDE DEF h, Good
  <2> QED
    BY <1>3
<1>5. ASSUME NEW x \in S PROVE F[x] = step[x][F]
  <2>1. h(x)[x] = step[x][h(x)]
    <3>1. size[x] < size[x] + 1
      OBVIOUS
    <3>2. Good(h(x), size[x] + 1)
      BY <1>3
    <3> HIDE DEF h
    <3> QED
      BY <3>1, <3>2
  <2>2. ASSUME NEW y \in S, size[y] < size[x] PROVE F[y] = h(x)[y]
    <3>1. /\ size[y] < size[y] + 1 /\ size[y] < size[x] + 1
          /\ size[x] + 1 \in Nat /\ size[y] + 1 \in Nat
      BY <2>2
    <3>2. /\ h(x) \in [S -> T] /\ Good(h(x), size[x] + 1)
          /\ h(y) \in [S -> T] /\ Good(h(y), size[y] + 1)
      BY <1>3
    <3>3. h(y)[y] = h(x)[y]
      <4> HIDE DEF h, Good
      <4>1. PICK f, g \in [S -> T] :
              f = h(y) /\ Good(f, size[y] + 1) /\ g = h(x) /\ Good(g, size[x] + 1)
        BY <3>2
      <4>2. \A z \in S : size[z] < size[y] + 1 /\ size[z] < size[x] + 1 => f[z] = g[z]
        BY <1>2, <3>1, <4>1
      <4> QED
        BY <3>1, <4>1, <4>2
    <3> QED
      BY <3>3
  <2>3. step[x][F] = step[x][h(x)]
    <3> HIDE DEF h, F
    <3> QED
      BY <1>3, <1>4, <2>2
  <2> HIDE DEF h
  <2> QED
    BY <2>1, <2>3
<1> QED
  <2> HIDE DEF F
  <2> QED
    BY <1>4, <1>5

-----------------------------------------------------------------------------
(***************************************************************************)
(* One round of ParseAll, given what the rounds after it compute.          *)
(***************************************************************************)
ParseStep(after, bytes) ==
    IF Len(bytes) < HeaderSize THEN [out |-> <<>>, m_buffer |-> bytes]
    ELSE IF ~IsHeader(bytes) THEN after[Tail(bytes)]
    ELSE LET packet_len == HeaderSize + BodyLen(bytes)
             rest == after[SubSeq(bytes, packet_len + 1, Len(bytes))]
         IN IF Len(bytes) < packet_len THEN [out |-> <<>>, m_buffer |-> bytes]
            ELSE [rest EXCEPT !.out = Deserialize(SubSeq(bytes, 1, packet_len)) \o @]

\* Symbols that speak of the packets in G, and what can come of a stream of them.
SymbolsOf(G) == {x \in Symbols : x[3] \in G \cup {NoPacket}}
Parsed(G) == [out : Seq(G), m_buffer : Seq(SymbolsOf(G))]

(***************************************************************************)
(* The rest of a stream after its first bytes.                             *)
(***************************************************************************)
LEMMA Rest ==
    ASSUME NEW Z, NEW bytes \in Seq(Z), NEW m \in Nat, m > 0, Len(bytes) > 0
    PROVE  /\ SubSeq(bytes, m + 1, Len(bytes)) \in Seq(Z)
           /\ Len(SubSeq(bytes, m + 1, Len(bytes))) < Len(bytes)
<1>1. /\ Len(bytes) \in Nat
      /\ \A i \in (m + 1)..Len(bytes) : i \in 1..Len(bytes)
  OBVIOUS
<1>2. SubSeq(bytes, m + 1, Len(bytes)) \in Seq(Z)
  BY <1>1, SubSeqProperties
<1>3. Len(SubSeq(bytes, m + 1, Len(bytes)))
        = IF m + 1 <= Len(bytes) THEN Len(bytes) - m ELSE 0
  BY <1>1
<1> QED
  BY <1>1, <1>2, <1>3

(***************************************************************************)
(* The length that a header announces, of symbols of any packets.          *)
(***************************************************************************)
LEMMA BodyLenType ==
    ASSUME TextLength \in Nat, NEW bytes \in Seq(Symbols), Len(bytes) >= HeaderSize
    PROVE  BodyLen(bytes) \in Nat
<1>1. bytes[2] \in Symbols
  BY DEF HeaderSize
<1> QED
  BY <1>1 DEF BodyLen, Symbols

(***************************************************************************)
(* The parser hands out only packets that some byte spoke of.              *)
(***************************************************************************)
LEMMA DeserializeType ==
    ASSUME NEW G \in SUBSET Packets, NoPacket \in Packets => NoPacket \in G,
           NEW bytes \in Seq(SymbolsOf(G)), Len(bytes) >= 2
    PROVE  Deserialize(bytes) \in Seq(G)
<1>1. bytes[2][3] \in G \cup {NoPacket}
  BY DEF SymbolsOf
<1>2. bytes[2][3] \in Packets => bytes[2][3] \in G
  BY <1>1
<1> QED
  BY <1>2 DEF Deserialize

(***************************************************************************)
(* A round of the parser keeps to the packets its bytes speak of, if the   *)
(* later rounds do.                                                        *)
(***************************************************************************)
LEMMA ParseStepType ==
    ASSUME TextLength \in Nat,
           NEW G \in SUBSET Packets, NoPacket \in Packets => NoPacket \in G,
           NEW bytes \in Seq(SymbolsOf(G)), NEW after,
           \A y \in Seq(SymbolsOf(G)) : Len(y) < Len(bytes) => after[y] \in Parsed(G)
    PROVE  ParseStep(after, bytes) \in Parsed(G)
<1> DEFINE packet_len == HeaderSize + BodyLen(bytes)
           rest == after[SubSeq(bytes, packet_len + 1, Len(bytes))]
<1>1. SymbolsOf(G) \subseteq Symbols /\ bytes \in Seq(Symbols)
  BY DEF SymbolsOf
<1>2. [out |-> <<>>, m_buffer |-> bytes] \in Parsed(G)
  BY DEF Parsed
<1>3. CASE Len(bytes) < HeaderSize
  BY <1>2, <1>3 DEF ParseStep
<1>4. CASE Len(bytes) >= HeaderSize /\ ~IsHeader(bytes)
  <2>1. Tail(bytes) \in Seq(SymbolsOf(G)) /\ Len(Tail(bytes)) < Len(bytes)
    BY <1>4 DEF HeaderSize
  <2>2. ParseStep(after, bytes) = after[Tail(bytes)]
    BY <1>4 DEF ParseStep, HeaderSize
  <2> QED
    BY <2>1, <2>2
<1>5. CASE Len(bytes) >= HeaderSize /\ IsHeader(bytes)
  <2>1. packet_len \in Nat /\ packet_len >= 2
    BY <1>1, <1>5, BodyLenType DEF HeaderSize
  <2>2. ParseStep(after, bytes) =
          IF Len(bytes) < packet_len THEN [out |-> <<>>, m_buffer |-> bytes]
          ELSE [rest EXCEPT !.out = Deserialize(SubSeq(bytes, 1, packet_len)) \o @]
    BY <1>5 DEF ParseStep, HeaderSize
  <2>3. CASE Len(bytes) < packet_len
    BY <1>2, <2>2, <2>3
  <2>4. CASE Len(bytes) >= packet_len
    <3> HIDE DEF packet_len
    <3>1. rest \in Parsed(G)
      <4> DEFINE tail == SubSeq(bytes, packet_len + 1, Len(bytes))
      <4>1. tail \in Seq(SymbolsOf(G)) /\ Len(tail) < Len(bytes)
        BY <1>5, <2>1, Rest DEF HeaderSize
      <4> HIDE DEF tail
      <4>2. after[tail] \in Parsed(G)
        BY <4>1
      <4> QED
        BY <4>2 DEF tail
    <3>2. /\ SubSeq(bytes, 1, packet_len) \in Seq(SymbolsOf(G))
          /\ Len(SubSeq(bytes, 1, packet_len)) >= 2
      BY <2>1, <2>4, SubSeqProperties
    <3>3. Deserialize(SubSeq(bytes, 1, packet_len)) \in Seq(G)
      BY <3>2, DeserializeType
    <3> HIDE DEF rest
    <3> DEFINE first == Deserialize(SubSeq(bytes, 1, packet_len))
    <3>4. [rest EXCEPT !.out = first \o @] \in Parsed(G)
      <4> HIDE DEF first
      <4>1. first \in Seq(G)
        BY <3>3 DEF first
      <4>2. first \o rest.out \in Seq(G)
        BY <3>1, <4>1 DEF Parsed
      <4> QED
        BY <3>1, <4>2 DEF Parsed
    <3> QED
      BY <2>1, <2>2, <2>4, <3>4
  <2> QED
    BY <2>1, <2>3, <2>4
<1> QED
  BY <1>3, <1>4, <1>5 DEF HeaderSize

(***************************************************************************)
(* A round asks only for what shorter streams give.                        *)
(***************************************************************************)
LEMMA ParseStepLocal ==
    ASSUME TextLength \in Nat, NEW bytes \in Seq(Symbols), NEW f, NEW g,
           \A y \in Seq(Symbols) : Len(y) < Len(bytes) => f[y] = g[y]
    PROVE  ParseStep(f, bytes) = ParseStep(g, bytes)
<1> DEFINE packet_len == HeaderSize + BodyLen(bytes)
           rest == SubSeq(bytes, packet_len + 1, Len(bytes))
<1>1. CASE Len(bytes) < HeaderSize
  BY <1>1 DEF ParseStep
<1>2. CASE Len(bytes) >= HeaderSize
  <2>1. f[Tail(bytes)] = g[Tail(bytes)]
    <3>1. Tail(bytes) \in Seq(Symbols) /\ Len(Tail(bytes)) < Len(bytes)
      BY <1>2 DEF HeaderSize
    <3> QED
      BY <3>1
  <2>2. packet_len \in Nat /\ packet_len > 0
    BY <1>2, BodyLenType DEF HeaderSize
  <2>3. f[rest] = g[rest]
    <3> HIDE DEF packet_len
    <3>1. rest \in Seq(Symbols) /\ Len(rest) < Len(bytes)
      BY <1>2, <2>2, Rest DEF HeaderSize
    <3> HIDE DEF rest
    <3> QED
      BY <3>1
  <2> HIDE DEF rest, packet_len
  <2> QED
    BY <2>1, <2>3 DEF ParseStep, rest, packet_len
<1> QED
  BY <1>1, <1>2 DEF HeaderSize

(***************************************************************************)
(* ParseAll is the function its recursive definition describes.            *)
(***************************************************************************)
LEMMA ParseAllDefined ==
    ASSUME TextLength \in Nat
    PROVE  ParseAll = [bytes \in Seq(Symbols) |-> ParseStep(ParseAll, bytes)]
<1> DEFINE S == Seq(Symbols)
           T == Parsed(Packets)
           size == [bytes \in S |-> Len(bytes)]
           step == [bytes \in S |-> [f \in [S -> T] |-> ParseStep(f, bytes)]]
<1>1. SymbolsOf(Packets) = Symbols
  BY DEF SymbolsOf, Symbols
<1>2. size \in [S -> Nat]
  OBVIOUS
<1>3. ASSUME NEW bytes \in S, NEW f \in [S -> T] PROVE ParseStep(f, bytes) \in T
  <2>1. \A y \in Seq(SymbolsOf(Packets)) : f[y] \in Parsed(Packets)
    BY <1>1, <1>3
  <2> QED
    BY <1>1, <1>3, <2>1, ParseStepType
<1>4. step \in [S -> [[S -> T] -> T]]
  BY <1>3
<1>5. T # {}
  <2>1. [out |-> <<>>, m_buffer |-> <<>>] \in T
    BY DEF Parsed
  <2> QED
    BY <2>1
<1>6. ASSUME NEW f \in [S -> T], NEW g \in [S -> T], NEW bytes \in S,
             \A y \in S : size[y] < size[bytes] => f[y] = g[y]
      PROVE  step[bytes][f] = step[bytes][g]
  <2>1. \A y \in Seq(Symbols) : Len(y) < Len(bytes) => f[y] = g[y]
    BY <1>6
  <2>2. ParseStep(f, bytes) = ParseStep(g, bytes)
    BY <2>1, ParseStepLocal
  <2> QED
    BY <2>2
<1>7. PICK f \in [S -> T] : DefinedBy(f, S, step)
  <2>1. Recursive(S, T, size, step)
    <3> HIDE DEF S, T, size, step
    <3> QED
      BY <1>2, <1>4, <1>6 DEF Recursive
  <2> HIDE DEF S, T, size, step
  <2> QED
    BY <1>5, <2>1, RecursiveFunction
<1>8. f = [bytes \in Seq(Symbols) |-> ParseStep(f, bytes)]
  BY <1>7 DEF DefinedBy
<1>9. \E g : g = [bytes \in Seq(Symbols) |-> ParseStep(g, bytes)]
  BY <1>8
<1> QED
  BY <1>9 DEF ParseAll, ParseStep

(***************************************************************************)
(* Of a stream that speaks only of the packets in G nothing but packets in *)
(* G is handed out, and nothing else is kept.                              *)
(***************************************************************************)
LEMMA ParseAllType ==
    ASSUME TextLength \in Nat,
           NEW G \in SUBSET Packets, NoPacket \in Packets => NoPacket \in G,
           NEW bytes \in Seq(SymbolsOf(G))
    PROVE  ParseAll[bytes] \in Parsed(G)
<1> DEFINE S == Seq(SymbolsOf(G))
           size == [y \in S |-> Len(y)]
           P == {y \in S : ParseAll[y] \in Parsed(G)}
<1>1. S \subseteq Seq(Symbols)
  BY DEF SymbolsOf
<1>2. ASSUME NEW x \in S, \A y \in S : size[y] < size[x] => y \in P
      PROVE  x \in P
  <2>1. \A y \in S : Len(y) < Len(x) => ParseAll[y] \in Parsed(G)
    BY <1>2
  <2>2. ParseStep(ParseAll, x) \in Parsed(G)
    BY <2>1, ParseStepType
  <2>3. ParseAll[x] = ParseStep(ParseAll, x)
    BY <1>1, ParseAllDefined
  <2> QED
    BY <2>2, <2>3
<1>3. size \in [S -> Nat]
  OBVIOUS
<1>4. S \subseteq P
  <2> HIDE DEF S, P, size
  <2> QED
    BY <1>2, <1>3, SizeInduction
<1> QED
  BY <1>4

-----------------------------------------------------------------------------
(***************************************************************************)
(* The stream in pieces.                                                   *)
(***************************************************************************)
\* A result, and what it becomes when the bytes y arrive behind it.
Resumed(parsed, y) ==
    LET later == ParseAll[parsed.m_buffer \o y] IN
    [out |-> parsed.out \o later.out, m_buffer |-> later.m_buffer]

(***************************************************************************)
(* ParseAll gives packets, and symbols to keep.                            *)
(***************************************************************************)
LEMMA ParseAllGives ==
    ASSUME TextLength \in Nat, NEW bytes \in Seq(Symbols)
    PROVE  /\ ParseAll[bytes].out \in Seq(Packets)
           /\ ParseAll[bytes].m_buffer \in Seq(Symbols)
           /\ ParseAll[bytes] = [out |-> ParseAll[bytes].out,
                                 m_buffer |-> ParseAll[bytes].m_buffer]
<1>1. SymbolsOf(Packets) = Symbols
  BY DEF SymbolsOf, Symbols
<1>2. ParseAll[bytes] \in Parsed(Packets)
  BY <1>1, ParseAllType
<1> QED
  BY <1>1, <1>2 DEF Parsed

(***************************************************************************)
(* Packets may be joined in any grouping.                                  *)
(***************************************************************************)
LEMMA Joint ==
    \A s, t, u \in Seq(Packets) : (s \o t) \o u = s \o (t \o u)
BY ConcatAssociative

(***************************************************************************)
(* The front of a sequence, and the rest, when more is appended.           *)
(***************************************************************************)
LEMMA Cut ==
    ASSUME NEW z \in Seq(Symbols), NEW y \in Seq(Symbols), NEW n \in Nat, n <= Len(z)
    PROVE  /\ SubSeq(z \o y, 1, n) = SubSeq(z, 1, n)
           /\ SubSeq(z \o y, n + 1, Len(z \o y)) = SubSeq(z, n + 1, Len(z)) \o y
<1>1. /\ Len(z) \in Nat /\ Len(y) \in Nat
      /\ z \o y \in Seq(Symbols) /\ Len(z \o y) = Len(z) + Len(y)
      /\ \A i \in 1..(Len(z) + Len(y)) : (z \o y)[i] = IF i <= Len(z) THEN z[i] ELSE y[i - Len(z)]
  BY ConcatProperties
<1> DEFINE u == SubSeq(z \o y, 1, n)
           v == SubSeq(z, 1, n)
           s == SubSeq(z \o y, n + 1, Len(z \o y))
           r == SubSeq(z, n + 1, Len(z))
<1>2. u = v
  <2>1. /\ u \in Seq(Symbols) /\ v \in Seq(Symbols) /\ Len(u) = n /\ Len(v) = n
        /\ \A i \in 1..n : u[i] = (z \o y)[i] /\ v[i] = z[i]
    BY <1>1
  <2>2. \A i \in 1..n : u[i] = v[i]
    BY <1>1, <2>1
  <2> HIDE DEF u, v
  <2> QED
    BY <2>1, <2>2, SeqEqual
<1>3. s = r \o y
  <2>1. /\ r \in Seq(Symbols) /\ Len(r) = Len(z) - n
        /\ \A i \in 1..(Len(z) - n) : r[i] = z[n + i]
    BY <1>1
  <2>2. /\ s \in Seq(Symbols) /\ Len(s) = Len(z) + Len(y) - n
        /\ \A i \in 1..(Len(z) + Len(y) - n) : s[i] = (z \o y)[n + i]
    BY <1>1
  <2> HIDE DEF r, s
  <2>3. /\ r \o y \in Seq(Symbols) /\ Len(r \o y) = Len(z) - n + Len(y)
        /\ \A i \in 1..(Len(z) - n + Len(y)) :
             (r \o y)[i] = IF i <= Len(z) - n THEN r[i] ELSE y[i - (Len(z) - n)]
    <3>1. r \o y \in Seq(Symbols) /\ Len(r \o y) = Len(r) + Len(y)
          /\ \A i \in 1..(Len(r) + Len(y)) :
               (r \o y)[i] = IF i <= Len(r) THEN r[i] ELSE y[i - Len(r)]
      BY <2>1, ConcatProperties
    <3> QED
      BY <2>1, <3>1
  <2>4. ASSUME NEW i \in 1..(Len(z) + Len(y) - n) PROVE s[i] = (r \o y)[i]
    <3>1. CASE i <= Len(z) - n
      BY <1>1, <2>1, <2>2, <2>3, <3>1
    <3>2. CASE ~(i <= Len(z) - n)
      <4>1. n + i \in 1..(Len(z) + Len(y)) /\ ~(n + i <= Len(z)) /\ n + i - Len(z) = i - (Len(z) - n)
        BY <1>1, <3>2
      <4> QED
        BY <1>1, <2>1, <2>2, <2>3, <3>2, <4>1
    <3> QED
      BY <3>1, <3>2
  <2> DEFINE t == r \o y
  <2>5. t \in Seq(Symbols) /\ Len(t) = Len(s) /\ \A i \in 1..Len(s) : s[i] = t[i]
    BY <1>1, <2>2, <2>3, <2>4
  <2> HIDE DEF t
  <2>6. s = t
    BY <2>2, <2>5, SeqEqual
  <2> QED
    BY <2>6 DEF t
<1> QED
  BY <1>2, <1>3

(***************************************************************************)
(* It does not matter where a stream is cut: to parse it in two pieces     *)
(* gives what it gives in one.                                             *)
(***************************************************************************)
THEOREM ParseInPieces ==
    ASSUME TextLength \in Nat, NEW x \in Seq(Symbols), NEW y \in Seq(Symbols)
    PROVE  ParseAll[x \o y] = Resumed(ParseAll[x], y)
<1> DEFINE S == Seq(Symbols)
           size == [z \in S |-> Len(z)]
           P == {z \in S : ParseAll[z \o y] = Resumed(ParseAll[z], y)}
<1>1. ASSUME NEW z \in S, \A u \in S : size[u] < size[z] => u \in P
      PROVE  z \in P
  <2>0. SUFFICES ParseAll[z \o y] = Resumed(ParseAll[z], y)
    OBVIOUS
  <2>1. \A u \in S : Len(u) < Len(z) => ParseAll[u \o y] = Resumed(ParseAll[u], y)
    BY <1>1
  <2>2. /\ z \o y \in S /\ Len(z \o y) = Len(z) + Len(y)
        /\ Len(z) \in Nat /\ Len(y) \in Nat
        /\ \A i \in 1..Len(z) : (z \o y)[i] = z[i]
    OBVIOUS
  <2>3. /\ ParseAll[z] = ParseStep(ParseAll, z)
        /\ ParseAll[z \o y] = ParseStep(ParseAll, z \o y)
    BY <2>2, ParseAllDefined
  <2>4. ASSUME ParseAll[z] = [out |-> <<>>, m_buffer |-> z]
        PROVE  ParseAll[z \o y] = Resumed(ParseAll[z], y)
    <3>1. Resumed(ParseAll[z], y)
            = [out |-> <<>> \o ParseAll[z \o y].out, m_buffer |-> ParseAll[z \o y].m_buffer]
      BY <2>4 DEF Resumed
    <3>2. <<>> \o ParseAll[z \o y].out = ParseAll[z \o y].out
      BY <2>2, ParseAllGives, ConcatEmptySeq
    <3> QED
      BY <2>2, <3>1, <3>2, ParseAllGives
  <2>5. CASE Len(z) < HeaderSize
    <3>1. ParseAll[z] = [out |-> <<>>, m_buffer |-> z]
      BY <2>3, <2>5 DEF ParseStep
    <3> QED
      BY <2>4, <3>1
  <2>6. ASSUME Len(z) >= HeaderSize
        PROVE  /\ Len(z \o y) >= HeaderSize /\ IsHeader(z \o y) = IsHeader(z)
               /\ BodyLen(z \o y) = BodyLen(z)
    <3>1. (z \o y)[1] = z[1] /\ (z \o y)[2] = z[2]
      BY <2>2, <2>6 DEF HeaderSize
    <3> QED
      BY <2>2, <2>6, <3>1 DEF HeaderSize, IsHeader, IsMagic, BodyLen
  <2>7. CASE Len(z) >= HeaderSize /\ ~IsHeader(z)
    <3>1. ParseAll[z] = ParseAll[Tail(z)] /\ ParseAll[z \o y] = ParseAll[Tail(z \o y)]
      BY <2>2, <2>3, <2>6, <2>7 DEF ParseStep, HeaderSize
    <3>2. /\ Tail(z \o y) = Tail(z) \o y
          /\ Tail(z) \in S /\ Len(Tail(z)) < Len(z)
      BY <2>2, <2>7 DEF HeaderSize
    <3> QED
      BY <2>1, <3>1, <3>2
  <2>8. CASE Len(z) >= HeaderSize /\ IsHeader(z)
    <3> DEFINE packet_len == HeaderSize + BodyLen(z)
    <3>1. packet_len \in Nat /\ packet_len >= 2
      BY <2>8, BodyLenType DEF HeaderSize
    <3> HIDE DEF packet_len
    <3> DEFINE rest == SubSeq(z, packet_len + 1, Len(z))
               first == Deserialize(SubSeq(z, 1, packet_len))
    <3>2. CASE Len(z) < packet_len
      <4>1. ParseAll[z] = [out |-> <<>>, m_buffer |-> z]
        BY <2>3, <2>8, <3>2 DEF ParseStep, HeaderSize, packet_len
      <4> QED
        BY <2>4, <4>1
    <3>3. CASE Len(z) >= packet_len
      <4>1. ParseAll[z] = [ParseAll[rest] EXCEPT !.out = first \o @]
        BY <2>3, <2>8, <3>1, <3>3 DEF ParseStep, HeaderSize, packet_len
      <4>2. /\ SubSeq(z \o y, 1, packet_len) = SubSeq(z, 1, packet_len)
            /\ SubSeq(z \o y, packet_len + 1, Len(z \o y)) = rest \o y
        BY <3>1, <3>3, Cut
      <4>3. ParseAll[z \o y] = [ParseAll[rest \o y] EXCEPT !.out = first \o @]
        <5>1. ParseStep(ParseAll, z \o y) =
                [ParseAll[SubSeq(z \o y, packet_len + 1, Len(z \o y))] EXCEPT !.out =
                   Deserialize(SubSeq(z \o y, 1, packet_len)) \o @]
          BY <2>2, <2>6, <2>8, <3>1, <3>3 DEF ParseStep, HeaderSize, packet_len
        <5> QED
          BY <2>3, <4>2, <5>1
      <4>4. rest \in S /\ Len(rest) < Len(z)
        BY <2>8, <3>1, Rest DEF HeaderSize
      <4>5. first \in Seq(Packets)
        <5>1. SymbolsOf(Packets) = Symbols
          BY DEF SymbolsOf, Symbols
        <5>2. SubSeq(z, 1, packet_len) \in S /\ Len(SubSeq(z, 1, packet_len)) >= 2
          BY <3>1, <3>3, SubSeqProperties
        <5> QED
          BY <5>1, <5>2, DeserializeType
      <4> HIDE DEF rest, first
      <4> DEFINE p == ParseAll[rest]
                 q == ParseAll[p.m_buffer \o y]
      <4>6. /\ p.out \in Seq(Packets) /\ p.m_buffer \in S
            /\ p = [out |-> p.out, m_buffer |-> p.m_buffer]
            /\ q.out \in Seq(Packets) /\ q.m_buffer \in S
        BY <4>4, ParseAllGives, ConcatProperties
      <4>7. ParseAll[rest \o y] = [out |-> p.out \o q.out, m_buffer |-> q.m_buffer]
        BY <2>1, <4>4 DEF Resumed
      <4>8. ParseAll[z] = [out |-> first \o p.out, m_buffer |-> p.m_buffer]
        <5> HIDE DEF p
        <5>1. ParseAll[z] = [p EXCEPT !.out = first \o @]
          BY <4>1 DEF p
        <5> QED
          BY <4>6, <5>1
      <4>9. ParseAll[z \o y] = [out |-> first \o (p.out \o q.out), m_buffer |-> q.m_buffer]
        <5> DEFINE r == ParseAll[rest \o y]
        <5>1. ParseAll[z \o y] = [r EXCEPT !.out = first \o @]
          BY <4>3
        <5>2. r = [out |-> p.out \o q.out, m_buffer |-> q.m_buffer]
          BY <4>7
        <5> HIDE DEF r, p, q
        <5> QED
          BY <5>1, <5>2
      <4>10. Resumed(ParseAll[z], y)
               = [out |-> (first \o p.out) \o q.out, m_buffer |-> q.m_buffer]
        <5>1. ParseAll[z].m_buffer = p.m_buffer /\ ParseAll[z].out = first \o p.out
          <6> HIDE DEF p
          <6> QED
            BY <4>8
        <5> QED
          BY <5>1 DEF Resumed
      <4>11. (first \o p.out) \o q.out = first \o (p.out \o q.out)
        <5> HIDE DEF p, q
        <5>1. first \in Seq(Packets) /\ p.out \in Seq(Packets) /\ q.out \in Seq(Packets)
          BY <4>5, <4>6
        <5> QED
          BY <5>1, Joint, Zenon
      <4> QED
        BY <4>9, <4>10, <4>11
    <3> QED
      BY <3>1, <3>2, <3>3
  <2> QED
    BY <2>2, <2>5, <2>7, <2>8 DEF HeaderSize
<1>2. size \in [S -> Nat]
  OBVIOUS
<1>3. S \subseteq P
  <2> HIDE DEF S, P, size
  <2> QED
    BY <1>1, <1>2, SizeInduction
<1> QED
  BY <1>3

-----------------------------------------------------------------------------
(***************************************************************************)
(* What the parser makes of a packet, and of noise.                        *)
(***************************************************************************)
\* What the parser keeps when it waits for a packet to begin.
Idle == {r \in Seq(Symbols) : Len(r) < HeaderSize /\ HasNoHeader(r)}

(***************************************************************************)
(* Bytes without a header are passed over.                                 *)
(***************************************************************************)
LEMMA ParseNoHeader ==
    ASSUME TextLength \in Nat, NEW data \in Seq(Symbols), HasNoHeader(data)
    PROVE  ParseAll[data].out = <<>> /\ ParseAll[data].m_buffer \in Idle
<1> DEFINE S == {z \in Seq(Symbols) : HasNoHeader(z)}
           size == [z \in S |-> Len(z)]
           P == {z \in S : ParseAll[z].out = <<>> /\ ParseAll[z].m_buffer \in Idle}
<1>1. ASSUME NEW z \in S, \A u \in S : size[u] < size[z] => u \in P
      PROVE  z \in P
  <2>0. SUFFICES ParseAll[z].out = <<>> /\ ParseAll[z].m_buffer \in Idle
    OBVIOUS
  <2>1. ParseAll[z] = ParseStep(ParseAll, z)
    BY ParseAllDefined
  <2>2. CASE Len(z) < HeaderSize
    BY <2>1, <2>2 DEF ParseStep, Idle
  <2>3. CASE Len(z) >= HeaderSize
    <3>1. ~IsHeader(z)
      BY <2>3 DEF IsHeader, HasNoHeader, HeaderSize
    <3>2. ParseAll[z] = ParseAll[Tail(z)]
      BY <2>1, <2>3, <3>1 DEF ParseStep, HeaderSize
    <3>3. Tail(z) \in S /\ Len(Tail(z)) < Len(z)
      <4>1. /\ Tail(z) \in Seq(Symbols) /\ Len(Tail(z)) = Len(z) - 1 /\ Len(z) \in Nat
            /\ \A i \in 1..(Len(z) - 1) : Tail(z)[i] = z[i + 1]
        BY <2>3 DEF HeaderSize
      <4>2. HasNoHeader(Tail(z))
        BY <4>1 DEF HasNoHeader
      <4> QED
        BY <4>1, <4>2
    <3>4. Tail(z) \in P
      BY <1>1, <3>3
    <3> QED
      BY <3>2, <3>4
  <2> QED
    BY <2>2, <2>3 DEF HeaderSize
<1>2. size \in [S -> Nat]
  OBVIOUS
<1>3. S \subseteq P
  <2> HIDE DEF S, P, size
  <2> QED
    BY <1>1, <1>2, SizeInduction
<1> QED
  BY <1>3

(***************************************************************************)
(* What an idle parser has kept is passed over when more arrives.          *)
(***************************************************************************)
LEMMA ParseFromIdle ==
    ASSUME TextLength \in Nat, NEW r \in Idle, NEW data \in Seq(Symbols), Len(data) > 0
    PROVE  ParseAll[r \o data] = ParseAll[data]
<1>1. r \in Seq(Symbols) /\ Len(r) \in Nat /\ Len(r) < 2 /\ HasNoHeader(r)
  BY DEF Idle, HeaderSize
<1>2. CASE Len(r) = 0
  <2>1. r = <<>>
    BY <1>1, <1>2, EmptySeq
  <2> QED
    BY <2>1, ConcatEmptySeq
<1>3. CASE Len(r) = 1
  <2> DEFINE z == r \o data
  <2>1. z \in Seq(Symbols) /\ Len(z) >= 2 /\ z[1] = r[1]
    BY <1>1, <1>3, ConcatProperties
  <2>2. Tail(z) = data
    <3> DEFINE t == Tail(z)
    <3>1. /\ Len(z) = 1 + Len(data) /\ Len(data) \in Nat
          /\ \A i \in 1..Len(data) : z[i + 1] = data[i]
      <4>1. /\ Len(r \o data) = Len(r) + Len(data)
            /\ \A i \in 1..(Len(r) + Len(data)) :
                 (r \o data)[i] = IF i <= Len(r) THEN r[i] ELSE data[i - Len(r)]
        BY <1>1, ConcatProperties
      <4>2. Len(data) \in Nat
        OBVIOUS
      <4>3. ASSUME NEW i \in 1..Len(data) PROVE z[i + 1] = data[i]
        <5>1. i + 1 \in 1..(1 + Len(data)) /\ ~(i + 1 <= 1) /\ (i + 1) - 1 = i
          BY <4>2
        <5>2. z[i + 1] = data[(i + 1) - 1]
          BY <1>3, <4>1, <5>1
        <5> QED
          BY <5>1, <5>2
      <4> QED
        BY <1>3, <4>1, <4>2, <4>3
    <3>2. t \in Seq(Symbols) /\ Len(t) = Len(data) /\ \A i \in 1..Len(data) : t[i] = z[i + 1]
      <4> HIDE DEF z
      <4> QED
        BY <2>1, <3>1
    <3>3. \A i \in 1..Len(t) : t[i] = data[i]
      BY <3>1, <3>2
    <3> HIDE DEF t
    <3>4. t = data
      BY <3>2, <3>3, SeqEqual
    <3> QED
      BY <3>4 DEF t
  <2>3. ~IsHeader(z)
    BY <1>1, <1>3, <2>1 DEF IsHeader, HasNoHeader
  <2> HIDE DEF z
  <2>4. ParseAll[z] = ParseAll[Tail(z)]
    <3>1. ParseAll[z] = ParseStep(ParseAll, z)
      BY <2>1, ParseAllDefined
    <3> QED
      BY <2>1, <2>3, <3>1 DEF ParseStep, HeaderSize
  <2> QED
    BY <2>2, <2>4 DEF z
<1>4. Len(r) = 0 \/ Len(r) = 1
  <2> DEFINE n == Len(r)
  <2>1. n \in Nat /\ n < 2
    BY <1>1
  <2> HIDE DEF n
  <2>2. n = 0 \/ n = 1
    BY <2>1
  <2> QED
    BY <2>2 DEF n
<1> QED
  BY <1>2, <1>3, <1>4

(***************************************************************************)
(* One complete packet, intact or not.                                     *)
(***************************************************************************)
LEMMA ParseOne ==
    ASSUME TextLength \in Nat, NEW data \in Seq(Symbols), IsHeader(data),
           Len(data) = HeaderSize + BodyLen(data)
    PROVE  ParseAll[data] = [out |-> Deserialize(data), m_buffer |-> <<>>]
<1>1. Len(data) \in Nat /\ Len(data) >= 2
  BY DEF IsHeader, HeaderSize
<1>2. SubSeq(data, 1, Len(data)) = data
  BY SubSeqFull
<1>3. SubSeq(data, Len(data) + 1, Len(data)) = <<>>
  BY <1>1, SubSeqEmpty
<1>4. <<>> \in Seq(Symbols) /\ ParseAll[<<>>] = [out |-> <<>>, m_buffer |-> <<>>]
  <2>1. <<>> \in Seq(Symbols) /\ Len(<<>>) = 0
    BY EmptySeq
  <2>2. ParseAll[<<>>] = ParseStep(ParseAll, <<>>)
    BY <2>1, ParseAllDefined
  <2> QED
    BY <2>1, <2>2 DEF ParseStep, HeaderSize
<1>5. ParseAll[data] = [ParseAll[<<>>] EXCEPT !.out = Deserialize(data) \o @]
  <2>1. ParseAll[data] = ParseStep(ParseAll, data)
    BY ParseAllDefined
  <2>2. ParseStep(ParseAll, data)
          = [ParseAll[SubSeq(data, Len(data) + 1, Len(data))] EXCEPT !.out =
               Deserialize(SubSeq(data, 1, Len(data))) \o @]
    BY <1>1 DEF ParseStep, HeaderSize
  <2> QED
    BY <1>2, <1>3, <2>1, <2>2
<1>6. Deserialize(data) \o <<>> = Deserialize(data)
  <2>1. SymbolsOf(Packets) = Symbols
    BY DEF SymbolsOf, Symbols
  <2>2. Deserialize(data) \in Seq(Packets)
    BY <1>1, <2>1, DeserializeType
  <2> QED
    BY <2>2, ConcatEmptySeq
<1> QED
  <2> DEFINE first == Deserialize(data)
  <2>1. ParseAll[data] = [out |-> first \o <<>>, m_buffer |-> <<>>]
    <3> HIDE DEF first
    <3>1. ParseAll[data] = [ParseAll[<<>>] EXCEPT !.out = first \o @]
      BY <1>5 DEF first
    <3> QED
      BY <1>4, <3>1
  <2> QED
    BY <1>6, <2>1

(***************************************************************************)
(* A packet that was serialized comes out.                                 *)
(***************************************************************************)
THEOREM ParseSerialized ==
    ASSUME TextLength \in Nat, NEW p \in Packets, Body[p] \in Seq(Symbols),
           Serialize(p) \in Seq(Symbols)
    PROVE  /\ ParseAll[Serialize(p)] = [out |-> <<p>>, m_buffer |-> <<>>]
           /\ Len(Serialize(p)) > 0
<1> DEFINE b == Body[p]
           h == <<Magic(Version), BodyLength(Len(b), p)>>
           data == h \o b
<1>1. /\ Len(data) = 2 + Len(b) /\ Len(b) \in Nat
      /\ data[1] = Magic(Version) /\ data[2] = BodyLength(Len(b), p)
      /\ SubSeq(data, 3, Len(data)) = b
  <2> HIDE DEF b
  <2>0. b \in Seq(Symbols)
    BY DEF b
  <2> DEFINE m == Magic(Version)
             n == BodyLength(Len(b), p)
             T == Symbols \cup {m, n}
  <2>1. m \in T /\ n \in T /\ b \in Seq(T)
    BY <2>0
  <2> HIDE DEF m, n, T
  <2>2. /\ Len(<<m, n>> \o b) = 2 + Len(b) /\ Len(b) \in Nat
        /\ (<<m, n>> \o b)[1] = m /\ (<<m, n>> \o b)[2] = n
        /\ <<m, n>> \o b \in Seq(T)
        /\ \A i \in 1..Len(b) : (<<m, n>> \o b)[2 + i] = b[i]
    BY <2>1
  <2>3. SubSeq(<<m, n>> \o b, 3, 2 + Len(b)) = b
    <3> DEFINE s == SubSeq(<<m, n>> \o b, 3, 2 + Len(b))
    <3>1. s \in Seq(T) /\ Len(s) = Len(b) /\ \A i \in 1..Len(b) : s[i] = b[i]
      BY <2>1, <2>2
    <3> HIDE DEF s
    <3>2. s = b
      BY <2>1, <3>1, SeqEqual
    <3> QED
      BY <3>2 DEF s
  <2> QED
    BY <2>2, <2>3 DEF m, n
<1>2. Serialize(p) = data
  BY DEF Serialize
<1> HIDE DEF data
<1>3. IsHeader(data) /\ BodyLen(data) = Len(b) /\ data[2][3] = p
  BY <1>1 DEF IsHeader, IsMagic, HeaderSize, Version, Magic, BodyLen, BodyLength
<1>4. Deserialize(data) = <<p>>
  BY <1>1, <1>3 DEF Deserialize, HeaderSize
<1>5. ParseAll[data] = [out |-> Deserialize(data), m_buffer |-> <<>>]
  BY <1>1, <1>2, <1>3, ParseOne DEF HeaderSize
<1> QED
  BY <1>1, <1>2, <1>4, <1>5

=============================================================================
