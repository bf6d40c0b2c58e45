----------------------------- MODULE StreamProofs -----------------------------
(***************************************************************************)
(* Proofs about the buffers of a connection and the bytes that pass        *)
(* through them, for any packets and noise, any sizes of the buffers and   *)
(* of the kernel's, and any way of cutting the stream.  What the parser    *)
(* makes of the bytes is in PacketParserProofs.                            *)
(***************************************************************************)
EXTENDS Stream, PacketParserProofs, SequenceTheorems, TLAPS

-----------------------------------------------------------------------------
(***************************************************************************)
(* The buffer.                                                             *)
(***************************************************************************)
Usable(b) == b \in Buffers /\ InBounds(b)

(***************************************************************************)
(* A usable buffer's sizes add up, and its readable bytes are where they   *)
(* should be.                                                              *)
(***************************************************************************)
LEMMA UsableSizes ==
    ASSUME NEW b, Usable(b)
    PROVE  /\ b.m_buf \in Seq(Bytes) /\ Len(b.m_buf) \in Nat
           /\ b.m_read_idx \in Nat /\ b.m_write_idx \in Nat
           /\ b.m_read_idx <= b.m_write_idx /\ b.m_write_idx <= Len(b.m_buf)
           /\ ReadableBytes(b) \in Nat /\ WritableBytes(b) \in Nat
           /\ PrependableBytes(b) \in Nat
           /\ Len(b.m_buf) = PrependableBytes(b) + ReadableBytes(b) + WritableBytes(b)
<1>1. b.m_buf \in Seq(Bytes) /\ b.m_read_idx \in Nat /\ b.m_write_idx \in Nat
  BY DEF Usable, Buffers
<1>2. b.m_read_idx <= b.m_write_idx /\ b.m_write_idx <= Len(b.m_buf)
  BY DEF Usable, InBounds
<1>3. Len(b.m_buf) \in Nat
  BY <1>1
<1> QED
  BY <1>1, <1>2, <1>3 DEF ReadableBytes, WritableBytes, PrependableBytes

LEMMA ReadableSeq ==
    ASSUME NEW b, Usable(b)
    PROVE  /\ Readable(b) \in Seq(Bytes)
           /\ Len(Readable(b)) = ReadableBytes(b)
           /\ \A i \in 1..ReadableBytes(b) : Readable(b)[i] = b.m_buf[b.m_read_idx + i]
<1> DEFINE s == b.m_buf
           r == b.m_read_idx
           w == b.m_write_idx
<1>1. s \in Seq(Bytes) /\ r \in Nat /\ w \in Nat /\ r <= w /\ w <= Len(s)
  BY UsableSizes
<1>2. Readable(b) = SubSeq(s, r + 1, w) /\ ReadableBytes(b) = w - r
  BY DEF Readable, ReadableBytes
<1> HIDE DEF s, r, w
<1>3. /\ SubSeq(s, r + 1, w) \in Seq(Bytes) /\ Len(SubSeq(s, r + 1, w)) = w - r
      /\ \A i \in 1..(w - r) : SubSeq(s, r + 1, w)[i] = s[r + i]
  BY <1>1
<1> QED
  BY <1>2, <1>3 DEF s, r, w

(***************************************************************************)
(* std::copy changes what it covers; resize keeps what was there.          *)
(***************************************************************************)
LEMMA CopiedBytes ==
    ASSUME NEW s \in Seq(Bytes), NEW o \in Nat, NEW data \in Seq(Bytes)
    PROVE  /\ Copied(s, o, data) \in Seq(Bytes)
           /\ Len(Copied(s, o, data)) = Len(s)
           /\ \A i \in 1..Len(s) :
                Copied(s, o, data)[i] =
                  IF o < i /\ i <= o + Len(data) THEN data[i - o] ELSE s[i]
<1>1. ASSUME NEW i \in 1..Len(s)
      PROVE  (IF o < i /\ i <= o + Len(data) THEN data[i - o] ELSE s[i]) \in Bytes
  <2>1. CASE o < i /\ i <= o + Len(data)
    <3>1. i - o \in 1..Len(data)
      BY <2>1
    <3> QED
      BY <2>1, <3>1
  <2>2. CASE ~(o < i /\ i <= o + Len(data))
    BY <2>2
  <2> QED
    BY <2>1, <2>2
<1> QED
  BY <1>1 DEF Copied

LEMMA ResizedBytes ==
    ASSUME NEW s \in Seq(Bytes), NEW n \in Nat
    PROVE  /\ Resized(s, n) \in Seq(Bytes)
           /\ Len(Resized(s, n)) = n
           /\ \A i \in 1..n : i <= Len(s) => Resized(s, n)[i] = s[i]
<1>1. \A i \in 1..n : (IF i <= Len(s) THEN s[i] ELSE Zero) \in Bytes
  BY BufferAssumption
<1> QED
  BY <1>1 DEF Resized

(***************************************************************************)
(* Two buffers with the same bytes at their read indices read the same.    *)
(***************************************************************************)
LEMMA SameReadable ==
    ASSUME NEW b, NEW c, Usable(b), Usable(c), ReadableBytes(b) = ReadableBytes(c),
           \A i \in 1..ReadableBytes(b) :
             b.m_buf[b.m_read_idx + i] = c.m_buf[c.m_read_idx + i]
    PROVE  Readable(b) = Readable(c)
<1> DEFINE s == Readable(b)
           t == Readable(c)
           n == ReadableBytes(b)
<1>1. /\ s \in Seq(Bytes) /\ t \in Seq(Bytes) /\ Len(s) = n /\ Len(t) = n /\ n \in Nat
      /\ \A i \in 1..n : s[i] = t[i]
  BY ReadableSeq, UsableSizes
<1> HIDE DEF s, t, n
<1>2. s = t
  BY <1>1, SeqEqual
<1> QED
  BY <1>2 DEF s, t

-----------------------------------------------------------------------------
(***************************************************************************)
(* What the operations do to a usable buffer: to its sizes and to what can *)
(* be read from it.                                                        *)
(***************************************************************************)
LEMMA NewBufferUsable == Usable(NewBuffer) /\ Readable(NewBuffer) = <<>>
<1>1. [i \in 1..InitialSize |-> Zero] \in Seq(Bytes)
      /\ Len([i \in 1..InitialSize |-> Zero]) = InitialSize
  BY BufferAssumption
<1>2. Usable(NewBuffer)
  BY <1>1, BufferAssumption DEF NewBuffer, Usable, Buffers, InBounds
<1>3. Readable(NewBuffer) = <<>>
  BY <1>2, ReadableSeq, EmptySeq DEF NewBuffer, ReadableBytes
<1> QED
  BY <1>2, <1>3

LEMMA MakeSpaceKeeps ==
    ASSUME NEW b, Usable(b), NEW len \in Nat, WritableBytes(b) < len
    PROVE  LET c == MakeSpace(b, len) IN
           /\ Usable(c) /\ Readable(c) = Readable(b) /\ WritableBytes(c) >= len
           /\ \/ Len(c.m_buf) = Len(b.m_buf)
              \/ /\ Len(c.m_buf) = b.m_write_idx + len
                 /\ PrependableBytes(b) + WritableBytes(b) < len
<1> DEFINE c == MakeSpace(b, len)
<1>1. /\ b.m_buf \in Seq(Bytes) /\ Len(b.m_buf) \in Nat
      /\ b.m_read_idx \in Nat /\ b.m_write_idx \in Nat
      /\ b.m_read_idx <= b.m_write_idx /\ b.m_write_idx <= Len(b.m_buf)
      /\ ReadableBytes(b) = b.m_write_idx - b.m_read_idx
      /\ WritableBytes(b) = Len(b.m_buf) - b.m_write_idx
      /\ PrependableBytes(b) = b.m_read_idx
  BY UsableSizes DEF ReadableBytes, WritableBytes, PrependableBytes
<1>2. CASE PrependableBytes(b) + WritableBytes(b) >= len
  <2>1. c = [m_buf       |-> Copied(b.m_buf, 0, Readable(b)),
             m_read_idx  |-> 0,
             m_write_idx |-> ReadableBytes(b)]
    BY <1>2 DEF MakeSpace
  <2>2. /\ Readable(b) \in Seq(Bytes) /\ Len(Readable(b)) = ReadableBytes(b)
        /\ \A i \in 1..ReadableBytes(b) : Readable(b)[i] = b.m_buf[b.m_read_idx + i]
    BY ReadableSeq
  <2>3. /\ c.m_buf \in Seq(Bytes) /\ Len(c.m_buf) = Len(b.m_buf)
        /\ \A i \in 1..Len(b.m_buf) :
             c.m_buf[i] = IF 0 < i /\ i <= 0 + Len(Readable(b)) THEN Readable(b)[i - 0]
                          ELSE b.m_buf[i]
    BY <1>1, <2>1, <2>2, CopiedBytes
  <2>4. c.m_read_idx = 0 /\ c.m_write_idx = ReadableBytes(b)
    BY <2>1
  <2>5. Usable(c)
    <3>1. c \in Buffers
      BY <1>1, <2>1, <2>3 DEF Buffers
    <3> QED
      BY <1>1, <2>3, <2>4, <3>1 DEF Usable, InBounds
  <2>6. ReadableBytes(c) = ReadableBytes(b)
    BY <1>1, <2>4 DEF ReadableBytes
  <2>7. \A i \in 1..ReadableBytes(b) :
          c.m_buf[c.m_read_idx + i] = b.m_buf[b.m_read_idx + i]
    <3>1. SUFFICES ASSUME NEW i \in 1..ReadableBytes(b)
                   PROVE  c.m_buf[i] = b.m_buf[b.m_read_idx + i]
      BY <1>1, <2>4
    <3>2. i \in 1..Len(b.m_buf) /\ i - 0 = i /\ 0 < i /\ i <= 0 + Len(Readable(b))
      BY <1>1, <2>2
    <3> QED
      BY <2>2, <2>3, <3>2
  <2> HIDE DEF c
  <2>8. Readable(c) = Readable(b)
    BY <2>5, <2>6, <2>7, SameReadable
  <2>9. WritableBytes(c) >= len
    BY <1>1, <1>2, <2>3, <2>4 DEF WritableBytes
  <2> QED
    BY <2>3, <2>5, <2>8, <2>9 DEF c
<1>3. CASE PrependableBytes(b) + WritableBytes(b) < len
  <2>1. c = [b EXCEPT !.m_buf = Resized(@, b.m_write_idx + len)]
    BY <1>1, <1>3 DEF MakeSpace
  <2>2. /\ Resized(b.m_buf, b.m_write_idx + len) \in Seq(Bytes)
        /\ Len(Resized(b.m_buf, b.m_write_idx + len)) = b.m_write_idx + len
        /\ \A i \in 1..(b.m_write_idx + len) :
             i <= Len(b.m_buf) => Resized(b.m_buf, b.m_write_idx + len)[i] = b.m_buf[i]
    <3>1. b.m_write_idx + len \in Nat
      BY <1>1
    <3> QED
      BY <1>1, <3>1, ResizedBytes
  <2>3. /\ c \in Buffers /\ c.m_buf = Resized(b.m_buf, b.m_write_idx + len)
        /\ c.m_read_idx = b.m_read_idx /\ c.m_write_idx = b.m_write_idx
    BY <1>1, <2>1, <2>2 DEF Usable, Buffers
  <2> HIDE DEF c
  <2>4. Usable(c) /\ ReadableBytes(c) = ReadableBytes(b)
    BY <1>1, <2>2, <2>3 DEF Usable, InBounds, ReadableBytes
  <2>5. \A i \in 1..ReadableBytes(b) :
          c.m_buf[c.m_read_idx + i] = b.m_buf[b.m_read_idx + i]
    <3>1. SUFFICES ASSUME NEW i \in 1..ReadableBytes(b)
                   PROVE  c.m_buf[b.m_read_idx + i] = b.m_buf[b.m_read_idx + i]
      BY <2>3
    <3>2. b.m_read_idx + i \in 1..(b.m_write_idx + len) /\ b.m_read_idx + i <= Len(b.m_buf)
      BY <1>1
    <3> QED
      BY <2>2, <2>3, <3>2
  <2>6. Readable(c) = Readable(b)
    BY <2>4, <2>5, SameReadable
  <2>7. WritableBytes(c) >= len /\ Len(c.m_buf) = b.m_write_idx + len
    BY <1>1, <2>2, <2>3 DEF WritableBytes
  <2> QED
    BY <1>3, <2>4, <2>6, <2>7 DEF c
<1> QED
  BY <1>1, <1>2, <1>3

(***************************************************************************)
(* Writing where there is space puts the data behind what was readable.    *)
(***************************************************************************)
LEMMA WrittenAppends ==
    ASSUME NEW b, Usable(b), NEW data \in Seq(Bytes), Len(data) <= WritableBytes(b)
    PROVE  LET c == Written(b, data) IN
           /\ Usable(c) /\ Readable(c) = Readable(b) \o data
           /\ Len(c.m_buf) = Len(b.m_buf)
           /\ c.m_read_idx = b.m_read_idx /\ c.m_write_idx = b.m_write_idx + Len(data)
<1> DEFINE c == Written(b, data)
           d == Readable(b) \o data
           n == ReadableBytes(b)
<1>1. /\ b.m_buf \in Seq(Bytes) /\ Len(b.m_buf) \in Nat /\ Len(data) \in Nat
      /\ b.m_read_idx \in Nat /\ b.m_write_idx \in Nat
      /\ b.m_read_idx <= b.m_write_idx /\ b.m_write_idx <= Len(b.m_buf)
      /\ n = b.m_write_idx - b.m_read_idx /\ n \in Nat
      /\ b.m_write_idx + Len(data) <= Len(b.m_buf)
  BY UsableSizes DEF ReadableBytes, WritableBytes
<1>2. /\ Copied(b.m_buf, b.m_write_idx, data) \in Seq(Bytes)
      /\ Len(Copied(b.m_buf, b.m_write_idx, data)) = Len(b.m_buf)
      /\ \A i \in 1..Len(b.m_buf) :
           Copied(b.m_buf, b.m_write_idx, data)[i] =
             IF b.m_write_idx < i /\ i <= b.m_write_idx + Len(data)
               THEN data[i - b.m_write_idx] ELSE b.m_buf[i]
  BY <1>1, CopiedBytes
<1>3. /\ c \in Buffers /\ c.m_buf = Copied(b.m_buf, b.m_write_idx, data)
      /\ c.m_read_idx = b.m_read_idx /\ c.m_write_idx = b.m_write_idx + Len(data)
  <2>1. b \in [m_buf : Seq(Bytes), m_read_idx : Nat, m_write_idx : Nat]
    BY DEF Usable, Buffers
  <2>2. /\ c.m_buf = Copied(b.m_buf, b.m_write_idx, data)
        /\ c.m_read_idx = b.m_read_idx /\ c.m_write_idx = b.m_write_idx + Len(data)
    BY <2>1 DEF Written
  <2>3. b.m_write_idx + Len(data) \in Nat
    BY <1>1
  <2>4. c \in Buffers
    BY <1>2, <2>1, <2>3 DEF Written, Buffers
  <2> QED
    BY <2>2, <2>4
<1> HIDE DEF c
<1>4. Usable(c) /\ ReadableBytes(c) = n + Len(data)
  BY <1>1, <1>2, <1>3 DEF Usable, InBounds, ReadableBytes
<1>5. /\ Readable(b) \in Seq(Bytes) /\ Len(Readable(b)) = n
      /\ \A i \in 1..n : Readable(b)[i] = b.m_buf[b.m_read_idx + i]
  BY ReadableSeq
<1>6. /\ Readable(c) \in Seq(Bytes) /\ Len(Readable(c)) = n + Len(data)
      /\ \A i \in 1..(n + Len(data)) : Readable(c)[i] = c.m_buf[b.m_read_idx + i]
  BY <1>3, <1>4, ReadableSeq
<1> HIDE DEF n
<1>7. /\ d \in Seq(Bytes) /\ Len(d) = n + Len(data)
      /\ \A i \in 1..(n + Len(data)) :
           d[i] = IF i <= n THEN Readable(b)[i] ELSE data[i - n]
  BY <1>5, ConcatProperties
<1> HIDE DEF d
<1>8. ASSUME NEW i \in 1..(n + Len(data)) PROVE Readable(c)[i] = d[i]
  <2> DEFINE j == b.m_read_idx + i
  <2>1. /\ j \in 1..Len(b.m_buf)
        /\ (i <= n) <=> ~(b.m_write_idx < j)
        /\ j <= b.m_write_idx + Len(data) /\ j - b.m_write_idx = i - n
    <3>1. i \in Int /\ 1 <= i /\ i <= n + Len(data)
      BY <1>1
    <3>2. n = b.m_write_idx - b.m_read_idx
      BY <1>1
    <3>3. j \in 1..Len(b.m_buf)
      BY <1>1, <3>1, <3>2
    <3>4. (i <= n) <=> ~(b.m_write_idx < j)
      BY <1>1, <3>1, <3>2
    <3>5. j <= b.m_write_idx + Len(data) /\ j - b.m_write_idx = i - n
      BY <1>1, <3>1, <3>2
    <3> QED
      BY <3>3, <3>4, <3>5
  <2>2. Readable(c)[i] = c.m_buf[j] /\ (i <= n => Readable(b)[i] = b.m_buf[j])
    BY <1>1, <1>5, <1>6
  <2> HIDE DEF j
  <2>3. c.m_buf[j] = IF b.m_write_idx < j /\ j <= b.m_write_idx + Len(data)
                       THEN data[j - b.m_write_idx] ELSE b.m_buf[j]
    BY <1>2, <1>3, <2>1
  <2>4. CASE i <= n
    BY <1>7, <2>1, <2>2, <2>3, <2>4
  <2>5. CASE ~(i <= n)
    BY <1>7, <2>1, <2>2, <2>3, <2>5
  <2> QED
    BY <2>4, <2>5
<1>9. Readable(c) = d
  BY <1>6, <1>7, <1>8, SeqEqual
<1> QED
  BY <1>2, <1>3, <1>4, <1>9 DEF c, d

(***************************************************************************)
(* Appending makes space first if there is too little; the vector only     *)
(* grows if what was retrieved in front is not enough either.              *)
(***************************************************************************)
LEMMA AppendAppends ==
    ASSUME NEW b, Usable(b), NEW data \in Seq(Bytes)
    PROVE  LET c == AppendBytes(b, data) IN
           /\ Usable(c) /\ Readable(c) = Readable(b) \o data
           /\ \/ Len(c.m_buf) = Len(b.m_buf)
              \/ /\ Len(c.m_buf) = b.m_write_idx + Len(data)
                 /\ PrependableBytes(b) + WritableBytes(b) < Len(data)
<1> DEFINE m == EnsureWritableBytes(b, Len(data))
<1>1. Len(data) \in Nat /\ WritableBytes(b) \in Nat
  BY UsableSizes
<1>2. /\ Usable(m) /\ Readable(m) = Readable(b) /\ WritableBytes(m) >= Len(data)
      /\ \/ Len(m.m_buf) = Len(b.m_buf)
         \/ /\ Len(m.m_buf) = b.m_write_idx + Len(data)
            /\ PrependableBytes(b) + WritableBytes(b) < Len(data)
  <2>1. CASE WritableBytes(b) >= Len(data)
    BY <2>1 DEF EnsureWritableBytes
  <2>2. CASE WritableBytes(b) < Len(data)
    <3>1. m = MakeSpace(b, Len(data))
      BY <1>1, <2>2 DEF EnsureWritableBytes
    <3> QED
      BY <1>1, <2>2, <3>1, MakeSpaceKeeps
  <2> QED
    BY <1>1, <2>1, <2>2
<1> HIDE DEF m
<1>3. Len(data) <= WritableBytes(m)
  BY <1>1, <1>2, UsableSizes
<1>4. LET c == Written(m, data) IN
      Usable(c) /\ Readable(c) = Readable(m) \o data /\ Len(c.m_buf) = Len(m.m_buf)
  BY <1>2, <1>3, WrittenAppends
<1> QED
  BY <1>2, <1>4 DEF AppendBytes, m

(***************************************************************************)
(* Retrieving takes bytes off the front of what is readable.               *)
(***************************************************************************)
LEMMA RetrieveTakes ==
    ASSUME NEW b, Usable(b), NEW n \in 0..ReadableBytes(b)
    PROVE  LET c == Retrieve(b, n) IN
           /\ Usable(c) /\ c.m_buf = b.m_buf
           /\ ReadableBytes(c) = ReadableBytes(b) - n
           /\ Readable(b) = SubSeq(Readable(b), 1, n) \o Readable(c)
<1> DEFINE c == Retrieve(b, n)
           s == b.m_buf
           r == b.m_read_idx
           w == b.m_write_idx
<1>1. /\ s \in Seq(Bytes) /\ Len(s) \in Nat /\ r \in Nat /\ w \in Nat /\ n \in Nat
      /\ r <= w /\ w <= Len(s) /\ r + n <= w /\ ReadableBytes(b) = w - r
  BY UsableSizes DEF ReadableBytes
<1>2. c.m_buf = s /\ c.m_read_idx = r + n /\ c.m_write_idx = w /\ c \in Buffers
  <2>1. b \in [m_buf : Seq(Bytes), m_read_idx : Nat, m_write_idx : Nat] /\ r + n \in Nat
    BY <1>1 DEF Usable, Buffers
  <2> QED
    BY <2>1 DEF Retrieve, Buffers
<1>3. Readable(b) = SubSeq(s, r + 1, w)
  BY DEF Readable
<1> HIDE DEF c
<1>4. Readable(c) = SubSeq(s, r + n + 1, w)
  BY <1>2 DEF Readable
<1>5. Usable(c) /\ ReadableBytes(c) = ReadableBytes(b) - n
  BY <1>1, <1>2 DEF Usable, InBounds, ReadableBytes
<1> HIDE DEF s, r, w
<1>6. SubSeq(s, r + 1, w) = SubSeq(s, r + 1, r + n) \o SubSeq(s, r + n + 1, w)
  <2>1. r + 1 \in 1..(Len(s) + 1) /\ r + n \in ((r + 1) - 1)..Len(s) /\ w \in (r + n)..Len(s)
    BY <1>1
  <2> QED
    BY <1>1, <2>1, ConcatAdjacentSubSeq
<1>7. SubSeq(SubSeq(s, r + 1, w), 1, n) = SubSeq(s, r + 1, r + n)
  <2> DEFINE t == SubSeq(s, r + 1, w)
             u == SubSeq(t, 1, n)
             v == SubSeq(s, r + 1, r + n)
  <2>1. t \in Seq(Bytes) /\ Len(t) = w - r /\ \A i \in 1..(w - r) : t[i] = s[r + i]
    BY <1>1
  <2>2. v \in Seq(Bytes) /\ Len(v) = n /\ \A i \in 1..n : v[i] = s[r + i]
    BY <1>1
  <2> HIDE DEF t
  <2>3. u \in Seq(Bytes) /\ Len(u) = n /\ \A i \in 1..n : u[i] = t[i]
    BY <1>1, <2>1
  <2>4. \A i \in 1..n : u[i] = v[i]
    BY <1>1, <2>1, <2>2, <2>3
  <2> HIDE DEF u, v
  <2>5. u = v
    BY <2>2, <2>3, <2>4, SeqEqual
  <2> QED
    BY <2>5 DEF t, u, v
<1> QED
  BY <1>2, <1>3, <1>4, <1>5, <1>6, <1>7 DEF c, s

(***************************************************************************)
(* One read puts all that readv gave behind what was readable, wherever    *)
(* readv put it; of a buffer that was empty the vector stays below three   *)
(* extra buffers, or does not grow.                                        *)
(***************************************************************************)
LEMMA ReadAppends ==
    ASSUME NEW b, Usable(b), NEW data \in Seq(Bytes), Len(data) <= MaxRead(b)
    PROVE  LET c == ReadFromFd(b, data) IN
           /\ Usable(c) /\ Readable(c) = Readable(b) \o data
           /\ ReadableBytes(b) = 0 =>
                Len(c.m_buf) <= Len(b.m_buf) \/ Len(c.m_buf) <= 3 * ExtraSize
<1> DEFINE c == ReadFromFd(b, data)
           w == WritableBytes(b)
<1>1. /\ w \in Nat /\ Len(data) \in Nat /\ ExtraSize \in Nat /\ Len(b.m_buf) \in Nat
      /\ b.m_read_idx \in Nat /\ b.m_write_idx \in Nat
      /\ ReadableBytes(b) = b.m_write_idx - b.m_read_idx
      /\ w = Len(b.m_buf) - b.m_write_idx
  BY UsableSizes, BufferAssumption DEF ReadableBytes, WritableBytes
<1>2. CASE Len(data) <= w
  <2>1. c = Written(b, data)
    BY <1>2 DEF ReadFromFd
  <2> QED
    BY <1>1, <1>2, <2>1, WrittenAppends, SMTT(30)
<1>3. CASE Len(data) > w
  <2> DEFINE d1 == SubSeq(data, 1, w)
             d2 == SubSeq(data, w + 1, Len(data))
             m == Written(b, d1)
  <2>1. c = AppendBytes(m, d2)
    BY <1>1, <1>3 DEF ReadFromFd
  <2>2. /\ d1 \in Seq(Bytes) /\ Len(d1) = w
        /\ d2 \in Seq(Bytes) /\ Len(d2) = Len(data) - w
    <3> HIDE DEF w
    <3> QED
      BY <1>1, <1>3
  <2>3. d1 \o d2 = data
    <3> HIDE DEF w
    <3>1. 1 \in 1..(Len(data) + 1) /\ w \in (1 - 1)..Len(data) /\ Len(data) \in w..Len(data)
      BY <1>1, <1>3
    <3>2. d1 \o d2 = SubSeq(data, 1, Len(data))
      BY <3>1, ConcatAdjacentSubSeq
    <3> QED
      BY <3>2, SubSeqFull
  <2>4. /\ Usable(m) /\ Readable(m) = Readable(b) \o d1 /\ Len(m.m_buf) = Len(b.m_buf)
        /\ m.m_read_idx = b.m_read_idx /\ m.m_write_idx = b.m_write_idx + w
    <3>1. Len(d1) <= WritableBytes(b)
      BY <1>1, <2>2
    <3> HIDE DEF d1
    <3> QED
      BY <2>2, <3>1, WrittenAppends
  <2> HIDE DEF d1, d2, m
  <2>5. /\ Usable(c) /\ Readable(c) = Readable(m) \o d2
        /\ \/ Len(c.m_buf) = Len(m.m_buf)
           \/ /\ Len(c.m_buf) = m.m_write_idx + Len(d2)
              /\ PrependableBytes(m) + WritableBytes(m) < Len(d2)
    BY <2>1, <2>2, <2>4, AppendAppends
  <2>6. Readable(c) = Readable(b) \o data
    <3>1. Readable(b) \in Seq(Bytes)
      BY ReadableSeq
    <3>2. (Readable(b) \o d1) \o d2 = Readable(b) \o (d1 \o d2)
      BY <2>2, <3>1, ConcatAssociative, SMTT(30)
    <3> QED
      BY <2>3, <2>4, <2>5, <3>2
  <2>7. ASSUME ReadableBytes(b) = 0
        PROVE  Len(c.m_buf) <= Len(b.m_buf) \/ Len(c.m_buf) <= 3 * ExtraSize
    <3>1. w < ExtraSize /\ Len(data) <= w + ExtraSize
      BY <1>1, <1>3 DEF MaxRead
    <3>2. PrependableBytes(m) = b.m_write_idx /\ WritableBytes(m) = 0
      BY <1>1, <2>4, <2>7 DEF PrependableBytes, WritableBytes
    <3>3. CASE Len(c.m_buf) = Len(m.m_buf)
      BY <1>1, <2>4, <3>3
    <3>4. CASE /\ Len(c.m_buf) = m.m_write_idx + Len(d2)
               /\ PrependableBytes(m) + WritableBytes(m) < Len(d2)
      <4>1. b.m_write_idx < Len(data) - w /\ Len(c.m_buf) = b.m_write_idx + Len(data)
        BY <1>1, <2>2, <2>4, <3>2, <3>4
      <4> QED
        BY <1>1, <3>1, <4>1
    <3> QED
      BY <2>5, <3>3, <3>4
  <2> QED
    BY <2>5, <2>6, <2>7
<1> QED
  BY <1>1, <1>2, <1>3

-----------------------------------------------------------------------------
(***************************************************************************)
(* The stream.  PipeSpec needs Conserved, the place of every byte that is  *)
(* on its way; the bound of the input buffer needs that the message        *)
(* callback leaves it empty, at whatever index.  A failed read leaves the  *)
(* write index before the read index, and then too there is nothing to read*)
(* between them.                                                           *)
(***************************************************************************)
InputEmpty ==
    /\ Readable(input) = <<>>
    /\ receiver = "open" => ReadableBytes(input) = 0

IInv == TypeOK /\ InputEmpty /\ InputBounded /\ Conserved

LEMMA TypesUsable ==
    TypeOK => /\ Usable(output) /\ (receiver = "open" => Usable(input))
              /\ kernel \in Seq(Bytes) /\ sent \in Seq(Bytes) /\ fed \in Seq(Bytes)
              /\ Readable(output) \in Seq(Bytes)
BY ReadableSeq DEF TypeOK, Usable

(***************************************************************************)
(* Pieces of a stream may be joined in any grouping.                       *)
(***************************************************************************)
LEMMA Joined ==
    \A s, t, u \in Seq(Bytes) : s \o (t \o u) = (s \o t) \o u
BY ConcatAssociative

(***************************************************************************)
(* An empty buffer reads as the empty sequence.                            *)
(***************************************************************************)
LEMMA EmptyReads ==
    ASSUME NEW b, Usable(b), ReadableBytes(b) = 0
    PROVE  Readable(b) = <<>>
BY ReadableSeq, EmptySeq

LEMMA InitIInv == Init => IInv
<1> SUFFICES ASSUME Init PROVE IInv
  OBVIOUS
<1>1. Usable(NewBuffer) /\ Readable(NewBuffer) = <<>>
  BY NewBufferUsable
<1>2. <<>> \in Seq(Bytes)
  BY EmptySeq
<1>3. TypeOK
  BY <1>1, <1>2 DEF Init, TypeOK, Usable
<1>4. InputEmpty
  BY <1>1 DEF Init, InputEmpty, NewBuffer, ReadableBytes
<1>5. InputBounded
  <2>1. Len(NewBuffer.m_buf) = InitialSize
    BY BufferAssumption DEF NewBuffer
  <2> QED
    BY <2>1, BufferAssumption DEF Init, InputBounded
<1>6. Conserved
  <2>1. <<>> \o <<>> = <<>>
    BY EmptySeq, ConcatEmptySeq
  <2> QED
    BY <1>1, <2>1 DEF Init, Conserved
<1> QED
  BY <1>3, <1>4, <1>5, <1>6 DEF IInv

(***************************************************************************)
(* What is sent is appended to what is on its way.                         *)
(***************************************************************************)
LEMMA SendKeepsIInv ==
    ASSUME IInv, NEW data \in Seq(Bytes), SendInLoop(data)
    PROVE  IInv'
<1>1. /\ Usable(output)
      /\ kernel \in Seq(Bytes) /\ sent \in Seq(Bytes) /\ fed \in Seq(Bytes)
      /\ Readable(output) \in Seq(Bytes) /\ Readable(input) \in Seq(Bytes)
  BY TypesUsable, EmptySeq DEF IInv, InputEmpty
<1>2. /\ output' = AppendBytes(output, data) /\ writing' = TRUE /\ sent' = sent \o data
      /\ UNCHANGED <<kernel, input, receiver, fed>>
  BY DEF SendInLoop
<1>3. Usable(output') /\ Readable(output)' = Readable(output) \o data
  BY <1>1, <1>2, AppendAppends DEF Readable
<1>4. TypeOK'
  <2>1. sent' \in Seq(Bytes)
    BY <1>1, <1>2, ConcatProperties
  <2> QED
    BY <1>2, <1>3, <2>1 DEF IInv, TypeOK, Usable
<1>5. Conserved'
  <2> DEFINE x == fed \o Readable(input) \o kernel
             y == Readable(output)
  <2>1. x \in Seq(Bytes) /\ y \in Seq(Bytes)
    BY <1>1, ConcatProperties
  <2>2. sent = x \o y
    BY DEF IInv, Conserved
  <2>3. Readable(input)' = Readable(input)
    BY <1>2 DEF Readable
  <2>4. (fed \o Readable(input) \o kernel \o Readable(output))' = x \o (y \o data)
    BY <1>2, <1>3, <2>3
  <2> HIDE DEF x, y
  <2>5. (x \o y) \o data = x \o (y \o data)
    BY <2>1, ConcatAssociative
  <2> QED
    BY <1>2, <2>2, <2>4, <2>5 DEF Conserved
<1> QED
  BY <1>2, <1>4, <1>5 DEF IInv, InputEmpty, InputBounded, ReadableBytes, Readable

(***************************************************************************)
(* A write moves the front of the output buffer to the end of the kernel's.*)
(***************************************************************************)
LEMMA WriteKeepsIInv ==
    ASSUME IInv, NEW n \in 1..KernelSize, HandleWrite(n)
    PROVE  IInv'
<1>1. /\ Usable(output)
      /\ kernel \in Seq(Bytes) /\ sent \in Seq(Bytes) /\ fed \in Seq(Bytes)
      /\ Readable(output) \in Seq(Bytes) /\ Readable(input) \in Seq(Bytes)
  BY TypesUsable, EmptySeq DEF IInv, InputEmpty
<1> DEFINE x == SubSeq(Readable(output), 1, n)
           z == Readable(output)'
<1>2. /\ n \in 1..ReadableBytes(output) /\ n \in 0..ReadableBytes(output)
      /\ output' = Retrieve(output, n) /\ kernel' = kernel \o x
      /\ UNCHANGED <<input, receiver, sent, fed>> /\ writing' \in BOOLEAN
  BY DEF HandleWrite, WriteToFd
<1>3. Usable(output') /\ Readable(output) = x \o z
  BY <1>1, <1>2, RetrieveTakes
<1>4. x \in Seq(Bytes) /\ z \in Seq(Bytes)
  <2>1. x \in Seq(Bytes)
    <3>1. Len(Readable(output)) = ReadableBytes(output)
      BY <1>1, ReadableSeq
    <3> QED
      BY <1>1, <1>2, <3>1
  <2> QED
    BY <1>3, <2>1, ReadableSeq
<1>5. TypeOK'
  <2>1. kernel' \in Seq(Bytes)
    BY <1>1, <1>2, <1>4, ConcatProperties
  <2> QED
    BY <1>2, <1>3, <2>1 DEF IInv, TypeOK, Usable
<1>6. Conserved'
  <2> DEFINE w == fed \o Readable(input)
  <2>1. w \in Seq(Bytes) /\ w \o kernel \in Seq(Bytes)
    BY <1>1, ConcatProperties
  <2>2. Readable(input)' = Readable(input)
    BY <1>2
  <2>3. sent' = (w \o kernel) \o (x \o z)
    BY <1>2, <1>3 DEF IInv, Conserved
  <2>4. (fed \o Readable(input) \o kernel \o Readable(output))' = (w \o (kernel \o x)) \o z
    BY <1>2, <2>2
  <2> HIDE DEF w, x, z
  <2>5. (w \o kernel) \o (x \o z) = ((w \o kernel) \o x) \o z
    BY <1>4, <2>1, Joined
  <2>6. w \o (kernel \o x) = (w \o kernel) \o x
    <3>1. w \in Seq(Bytes) /\ kernel \in Seq(Bytes) /\ x \in Seq(Bytes)
      BY <1>1, <1>4, <2>1
    <3> QED
      BY <3>1, Joined
  <2> QED
    BY <2>3, <2>4, <2>5, <2>6 DEF Conserved
<1> QED
  BY <1>2, <1>5, <1>6 DEF IInv, InputEmpty, InputBounded

(***************************************************************************)
(* A read feeds the parser the front of the kernel's bytes, whatever part  *)
(* of them went through the buffer on the stack.                           *)
(***************************************************************************)
LEMMA ReadKeepsIInv ==
    ASSUME IInv, NEW n \in 1..KernelSize, HandleRead(n)
    PROVE  /\ IInv'
           /\ \E x \in Seq(Bytes) :
                /\ fed' = fed \o x
                /\ m_buffer' = ParseAll[m_buffer \o x].m_buffer
                /\ handled' = handled \o ParseAll[m_buffer \o x].out
<1>1. /\ Usable(output) /\ Usable(input) /\ ReadableBytes(input) = 0
      /\ kernel \in Seq(Bytes) /\ sent \in Seq(Bytes) /\ fed \in Seq(Bytes)
      /\ Readable(output) \in Seq(Bytes) /\ Readable(input) = <<>>
  BY TypesUsable DEF IInv, InputEmpty, HandleRead
<1> DEFINE x == SubSeq(kernel, 1, n)
           y == SubSeq(kernel, n + 1, Len(kernel))
           filled == ReadFromFd(input, x)
           z == Readable(output)
<1>2. /\ n \in 1..Len(kernel) /\ n <= MaxRead(input) /\ kernel' = y
      /\ input' = Retrieve(filled, ReadableBytes(filled)) /\ fed' = fed \o Readable(filled)
      /\ m_buffer' = ParseAll[m_buffer \o Readable(filled)].m_buffer
      /\ handled' = handled \o ParseAll[m_buffer \o Readable(filled)].out
      /\ UNCHANGED <<output, writing, receiver, sent>>
  BY DEF HandleRead, Feed
<1>3. x \in Seq(Bytes) /\ Len(x) = n /\ y \in Seq(Bytes) /\ kernel = x \o y
  <2>1. x \in Seq(Bytes) /\ Len(x) = n /\ y \in Seq(Bytes)
    BY <1>1, <1>2
  <2>2. 1 \in 1..(Len(kernel) + 1) /\ n \in (1 - 1)..Len(kernel) /\ Len(kernel) \in n..Len(kernel)
    BY <1>1, <1>2
  <2>3. x \o y = SubSeq(kernel, 1, Len(kernel))
    BY <1>1, <2>2, ConcatAdjacentSubSeq
  <2> QED
    BY <1>1, <2>1, <2>3, SubSeqFull
<1>4. /\ Usable(filled) /\ Readable(filled) = x
      /\ Len(filled.m_buf) <= Len(input.m_buf) \/ Len(filled.m_buf) <= 3 * ExtraSize
  <2> HIDE DEF x
  <2>1. <<>> \o x = x
    BY <1>3, ConcatEmptySeq
  <2> QED
    BY <1>1, <1>2, <1>3, <2>1, ReadAppends
<1> HIDE DEF filled
<1>5. /\ Usable(input') /\ input'.m_buf = filled.m_buf /\ ReadableBytes(input') = 0
  <2>1. ReadableBytes(filled) \in Nat /\ ReadableBytes(filled) \in 0..ReadableBytes(filled)
    BY <1>4, UsableSizes
  <2>2. ReadableBytes(input') = ReadableBytes(filled) - ReadableBytes(filled)
    BY <1>2, <1>4, <2>1, RetrieveTakes
  <2> QED
    BY <1>2, <1>4, <2>1, <2>2, RetrieveTakes
<1>6. TypeOK'
  <2>1. fed' \in Seq(Bytes) /\ kernel' \in Seq(Bytes)
    BY <1>1, <1>2, <1>3, <1>4, ConcatProperties
  <2> QED
    BY <1>2, <1>5, <2>1 DEF IInv, TypeOK, Usable
<1>7. InputBounded'
  <2>1. Len(input.m_buf) \in Nat /\ Len(filled.m_buf) \in Nat
    BY <1>1, <1>4, UsableSizes
  <2> QED
    BY <1>4, <1>5, <2>1, BufferAssumption DEF IInv, InputBounded
<1>8. Conserved'
  <2> HIDE DEF x, y, z
  <2>1. Readable(input)' = <<>> /\ Readable(output)' = z
    <3>1. Readable(input') = <<>>
      BY <1>5, EmptyReads
    <3> QED
      BY <1>2, <3>1 DEF z
  <2>2. sent' = fed \o <<>> \o (x \o y) \o z
    BY <1>1, <1>2, <1>3 DEF IInv, Conserved, z
  <2>3. (fed \o Readable(input) \o kernel \o Readable(output))'
           = (fed \o x) \o <<>> \o y \o z
    BY <1>2, <1>4, <2>1
  <2>4. fed \o <<>> = fed /\ fed \o x \in Seq(Bytes)
    BY <1>1, <1>3, ConcatEmptySeq, ConcatProperties
  <2>5. (fed \o x) \o <<>> = fed \o x
    BY <2>4, ConcatEmptySeq
  <2>6. fed \o (x \o y) = (fed \o x) \o y
    BY <1>1, <1>3, Joined, SMTT(30)
  <2> QED
    BY <2>2, <2>3, <2>4, <2>5, <2>6 DEF Conserved
<1>9. InputEmpty'
  <2>1. Readable(input') = <<>>
    BY <1>5, EmptyReads
  <2> QED
    BY <1>5, <2>1 DEF InputEmpty
<1>10. IInv'
  BY <1>6, <1>7, <1>8, <1>9 DEF IInv
<1> HIDE DEF x
<1> QED
  BY <1>2, <1>3, <1>4, <1>10

(***************************************************************************)
(* A failed read ends the process or leaves a buffer that is not used.     *)
(***************************************************************************)
LEMMA FailureKeepsIInv ==
    ASSUME IInv, ReadFails
    PROVE  IInv'
<1>1. UNCHANGED <<output, writing, kernel, m_buffer, sent, fed, asked, handled>>
  BY DEF ReadFails
<1>2. CASE receiver' = "terminated" /\ UNCHANGED input
  BY <1>1, <1>2 DEF IInv, TypeOK, InputEmpty, InputBounded, Conserved
<1>3. CASE /\ input.m_write_idx > 0
           /\ receiver' \in {"closed", "broken"}
           /\ input' = ReadFailed(input)
  <2> DEFINE b == input
             w == input.m_write_idx
  <2>1. /\ Usable(b) /\ ReadableBytes(b) = 0 /\ Readable(b) = <<>>
    BY TypesUsable DEF IInv, InputEmpty, ReadFails
  <2>2. /\ b.m_buf \in Seq(Bytes) /\ Len(b.m_buf) \in Nat /\ w \in Nat \ {0}
        /\ w <= Len(b.m_buf) /\ b.m_read_idx = w
    BY <1>3, <2>1, UsableSizes DEF ReadableBytes
  <2>3. w - 1 \in Nat
    BY <2>2
  <2>4. Resized(b.m_buf, w - 1) \in Seq(Bytes) /\ Len(Resized(b.m_buf, w - 1)) = w - 1
    BY <2>2, <2>3, ResizedBytes
  <2>5. b \in [m_buf : Seq(Bytes), m_read_idx : Nat, m_write_idx : Nat]
    BY <2>1 DEF Usable, Buffers
  <2>6. input' = [m_buf |-> Resized(b.m_buf, w - 1), m_read_idx |-> w, m_write_idx |-> w - 1]
    BY <1>3, <2>2, <2>5 DEF ReadFailed
  <2>7. input' \in Buffers
    BY <2>2, <2>3, <2>4, <2>6 DEF Buffers
  <2>8. Readable(input)' = <<>>
    <3>1. Readable(input)' = SubSeq(Resized(b.m_buf, w - 1), w + 1, w - 1)
      BY <2>6 DEF Readable
    <3> HIDE DEF b
    <3> QED
      BY <2>2, <2>4, <3>1 DEF SubSeq
  <2>9. TypeOK'
    BY <1>1, <1>3, <2>7 DEF IInv, TypeOK
  <2>10. InputBounded'
    BY <2>2, <2>4, <2>6, BufferAssumption DEF IInv, InputBounded
  <2>11. InputEmpty' /\ Conserved'
    BY <1>1, <1>3, <2>1, <2>8 DEF IInv, InputEmpty, Conserved
  <2> QED
    BY <2>9, <2>10, <2>11 DEF IInv
<1> QED
  BY <1>2, <1>3 DEF ReadFails

(***************************************************************************)
(* The invariant is inductive.                                             *)
(***************************************************************************)
LEMMA NextKeepsIInv == IInv /\ [Next]_vars => IInv'
<1> SUFFICES ASSUME IInv, [Next]_vars PROVE IInv'
  OBVIOUS
<1>1. CASE \E p \in Packets : SendPacket(p)
  BY <1>1, SendKeepsIInv, StreamAssumption DEF SendPacket
<1>2. CASE \E data \in Noise : SendNoise(data)
  BY <1>2, SendKeepsIInv, StreamAssumption DEF SendNoise
<1>3. CASE Write
  BY <1>3, WriteKeepsIInv DEF Write
<1>4. CASE Read
  BY <1>4, ReadKeepsIInv DEF Read
<1>5. CASE ReadFails
  BY <1>5, FailureKeepsIInv
<1>6. CASE UNCHANGED vars
  BY <1>6 DEF vars, IInv, TypeOK, InputEmpty, InputBounded, Conserved
<1> QED
  BY <1>1, <1>2, <1>3, <1>4, <1>5, <1>6 DEF Next

(***************************************************************************)
(* Until a read fails the indices of both buffers stay within their        *)
(* vectors.                                                                *)
(***************************************************************************)
THEOREM BuffersUsable == Spec => []TypeOK
<1>1. IInv => TypeOK
  BY DEF IInv
<1> QED
  BY <1>1, InitIInv, NextKeepsIInv, PTL DEF Spec

(***************************************************************************)
(* The receive buffer stays within its bound, however much is received.    *)
(***************************************************************************)
THEOREM InputStaysBounded == Spec => []InputBounded
<1>1. IInv => InputBounded
  BY DEF IInv
<1> QED
  BY <1>1, InitIInv, NextKeepsIInv, PTL DEF Spec

(***************************************************************************)
(* A sequence extends its beginning.                                       *)
(***************************************************************************)
LEMMA ConcatExtends ==
    ASSUME NEW s \in Seq(Bytes), NEW t \in Seq(Bytes)
    PROVE  Pipe!Extends(s \o t, s)
<1> DEFINE u == s \o t
<1>1. /\ u \in Seq(Bytes) /\ Len(u) = Len(s) + Len(t) /\ Len(s) \in Nat /\ Len(t) \in Nat
      /\ \A i \in 1..(Len(s) + Len(t)) : u[i] = IF i <= Len(s) THEN s[i] ELSE t[i - Len(s)]
  BY ConcatProperties
<1> HIDE DEF u
<1>2. /\ SubSeq(u, 1, Len(s)) \in Seq(Bytes) /\ Len(SubSeq(u, 1, Len(s))) = Len(s)
      /\ \A i \in 1..Len(s) : SubSeq(u, 1, Len(s))[i] = u[i]
  BY <1>1
<1>3. \A i \in 1..Len(s) : SubSeq(u, 1, Len(s))[i] = s[i]
  BY <1>1, <1>2
<1>4. SubSeq(u, 1, Len(s)) = s
  <2> DEFINE v == SubSeq(u, 1, Len(s))
  <2>1. v \in Seq(Bytes) /\ Len(v) = Len(s) /\ \A i \in 1..Len(v) : v[i] = s[i]
    BY <1>2, <1>3
  <2> HIDE DEF v
  <2>2. v = s
    BY <2>1, SeqEqual
  <2> QED
    BY <2>2 DEF v
<1> QED
  BY <1>1, <1>4 DEF Pipe!Extends, u

(***************************************************************************)
(* A read is a Receive of the pipe: by Conserved, what was fed is the      *)
(* beginning of what was sent.  Sending is a Send.                         *)
(***************************************************************************)
LEMMA StepsRefine ==
    IInv /\ [Next]_vars => [Pipe!Send \/ Pipe!Receive]_(Pipe!vars)
<1> SUFFICES ASSUME IInv, [Next]_vars
             PROVE  [Pipe!Send \/ Pipe!Receive]_(Pipe!vars)
  OBVIOUS
<1>1. sent \in Seq(Bytes) /\ fed \in Seq(Bytes)
  BY DEF IInv, TypeOK
<1>2. ASSUME NEW data \in Seq(Bytes), SendInLoop(data) PROVE Pipe!Send
  <2>1. sent' = sent \o data /\ fed' = fed
    BY <1>2 DEF SendInLoop
  <2> QED
    BY <1>1, <2>1, ConcatExtends, ConcatProperties DEF Pipe!Send
<1>3. CASE (\E p \in Packets : SendPacket(p)) \/ (\E data \in Noise : SendNoise(data))
  BY <1>2, <1>3, StreamAssumption DEF SendPacket, SendNoise
<1>4. ASSUME NEW n \in 1..KernelSize, HandleRead(n) PROVE Pipe!Receive
  <2>1. IInv' /\ sent' = sent
    BY <1>4, ReadKeepsIInv DEF HandleRead
  <2>2. PICK x \in Seq(Bytes) : fed' = fed \o x
    BY <1>4, ReadKeepsIInv
  <2>3. Pipe!Extends(fed', fed) /\ fed' \in Seq(Bytes)
    BY <1>1, <2>2, ConcatExtends, ConcatProperties
  <2>4. PICK y \in Seq(Bytes) : sent' = fed' \o y
    <3> DEFINE u == Readable(input)'
               v == kernel'
               w == Readable(output)'
    <3>1. u \in Seq(Bytes) /\ v \in Seq(Bytes) /\ w \in Seq(Bytes)
      <4>1. Usable(input') /\ Usable(output') /\ kernel' \in Seq(Bytes)
        BY <1>4, <2>1 DEF IInv, TypeOK, Usable, HandleRead
      <4> QED
        BY <4>1, ReadableSeq
    <3>2. sent' = ((fed' \o u) \o v) \o w
      BY <2>1 DEF IInv, Conserved
    <3> HIDE DEF u, v, w
    <3>3. u \o v \in Seq(Bytes) /\ (u \o v) \o w \in Seq(Bytes)
      BY <3>1, ConcatProperties
    <3>4. (fed' \o u) \o v = fed' \o (u \o v)
      BY <2>3, <3>1, Joined
    <3>5. (fed' \o (u \o v)) \o w = fed' \o ((u \o v) \o w)
      BY <2>3, <3>1, <3>3, Joined, ZenonT(40)
    <3> QED
      BY <3>2, <3>3, <3>4, <3>5
  <2>5. Pipe!Extends(sent, fed')
    BY <2>1, <2>3, <2>4, ConcatExtends
  <2> QED
    BY <2>1, <2>3, <2>5 DEF Pipe!Receive
<1>5. CASE Read
  BY <1>4, <1>5 DEF Read
<1>6. CASE Write \/ ReadFails \/ UNCHANGED vars
  BY <1>6 DEF Write, HandleWrite, ReadFails, vars, Pipe!vars
<1> QED
  BY <1>3, <1>5, <1>6 DEF Next

(***************************************************************************)
(* The connection implements a byte pipe: the receiver's parser is fed a   *)
(* beginning of what was sent, in order, without loss or repetition.       *)
(***************************************************************************)
THEOREM ImplementsPipe == Spec => PipeSpec
<1>1. Init => Pipe!Init
  BY DEF Init, Pipe!Init
<1> QED
  BY <1>1, InitIInv, NextKeepsIInv, StepsRefine, PTL DEF Spec, PipeSpec, Pipe!Spec

-----------------------------------------------------------------------------
(***************************************************************************)
(* What is handled.  The parser has made of the pieces it was fed what it  *)
(* would make of them at once; and of all that was sent it would make the  *)
(* packets that were asked for, and be ready for the next.                 *)
(***************************************************************************)
Followed == handled = ParseAll[fed].out /\ m_buffer = ParseAll[fed].m_buffer
Complete == asked = ParseAll[sent].out /\ ParseAll[sent].m_buffer \in Idle

ParsedInv == IInv /\ Followed /\ Complete

(***************************************************************************)
(* A parser that has handed out and kept this goes on so with more bytes.  *)
(***************************************************************************)
LEMMA ParseMore ==
    ASSUME NEW x \in Seq(Symbols), NEW y \in Seq(Symbols)
    PROVE  LET parsed == ParseAll[x] IN
           /\ ParseAll[x \o y].out = parsed.out \o ParseAll[parsed.m_buffer \o y].out
           /\ ParseAll[x \o y].m_buffer = ParseAll[parsed.m_buffer \o y].m_buffer
<1> DEFINE parsed == ParseAll[x]
           later == ParseAll[parsed.m_buffer \o y]
           joined == ParseAll[x \o y]
<1>1. joined = [out |-> parsed.out \o later.out, m_buffer |-> later.m_buffer]
  BY ParseInPieces, StreamAssumption DEF Resumed
<1>2. joined.out = parsed.out \o later.out /\ joined.m_buffer = later.m_buffer
  <2> HIDE DEF parsed, later, joined
  <2> QED
    BY <1>1
<1> QED
  BY <1>2

LEMMA InitParsed == Init => Followed /\ Complete
<1> SUFFICES ASSUME Init PROVE Followed /\ Complete
  OBVIOUS
<1>1. <<>> \in Seq(Symbols) /\ Len(<<>>) = 0
  BY EmptySeq
<1>2. ParseAll[<<>>] = [out |-> <<>>, m_buffer |-> <<>>]
  <2>1. ParseAll[<<>>] = ParseStep(ParseAll, <<>>)
    BY <1>1, ParseAllDefined, StreamAssumption
  <2> QED
    BY <1>1, <2>1 DEF ParseStep, HeaderSize
<1>3. <<>> \in Idle
  BY <1>1 DEF Idle, HasNoHeader, HeaderSize
<1> QED
  BY <1>2, <1>3 DEF Init, Followed, Complete

(***************************************************************************)
(* A read: the parser goes on where it stopped.                            *)
(***************************************************************************)
LEMMA ReadFollows ==
    ASSUME IInv, Followed, NEW n \in 1..KernelSize, HandleRead(n)
    PROVE  Followed'
<1>1. PICK x \in Seq(Bytes) :
        /\ fed' = fed \o x
        /\ m_buffer' = ParseAll[m_buffer \o x].m_buffer
        /\ handled' = handled \o ParseAll[m_buffer \o x].out
  BY ReadKeepsIInv
<1>2. fed \in Seq(Symbols) /\ x \in Seq(Symbols) /\ TextLength \in Nat
  BY StreamAssumption DEF IInv, TypeOK
<1>3. /\ ParseAll[fed \o x].out = handled \o ParseAll[m_buffer \o x].out
      /\ ParseAll[fed \o x].m_buffer = ParseAll[m_buffer \o x].m_buffer
  <2> DEFINE parsed == ParseAll[fed]
  <2>1. handled = parsed.out /\ m_buffer = parsed.m_buffer
    BY DEF Followed
  <2>2. /\ ParseAll[fed \o x].out = parsed.out \o ParseAll[parsed.m_buffer \o x].out
        /\ ParseAll[fed \o x].m_buffer = ParseAll[parsed.m_buffer \o x].m_buffer
    BY <1>2, ParseMore
  <2> HIDE DEF parsed
  <2> QED
    BY <2>1, <2>2
<1> QED
  BY <1>1, <1>3 DEF Followed

(***************************************************************************)
(* What is sent is complete: the packet sent is the next one asked for,    *)
(* and noise is none.                                                      *)
(***************************************************************************)
LEMMA SendCompletes ==
    ASSUME IInv, Complete, NEW data \in Seq(Symbols), sent' = sent \o data,
           NEW made, made \in Seq(Packets),
           asked' = asked \o made,
           \A r \in Idle : /\ ParseAll[r \o data].out = made
                           /\ ParseAll[r \o data].m_buffer \in Idle
    PROVE  Complete'
<1>1. sent \in Seq(Symbols)
  BY StreamAssumption DEF IInv, TypeOK
<1>2. PICK kept \in Idle : kept = ParseAll[sent].m_buffer
  BY DEF Complete
<1>3. /\ ParseAll[sent \o data].out = asked \o ParseAll[kept \o data].out
      /\ ParseAll[sent \o data].m_buffer = ParseAll[kept \o data].m_buffer
  <2> DEFINE parsed == ParseAll[sent]
  <2>1. asked = parsed.out /\ kept = parsed.m_buffer
    BY <1>2 DEF Complete
  <2>2. /\ ParseAll[sent \o data].out = parsed.out \o ParseAll[parsed.m_buffer \o data].out
        /\ ParseAll[sent \o data].m_buffer = ParseAll[parsed.m_buffer \o data].m_buffer
    BY <1>1, ParseMore
  <2> HIDE DEF parsed
  <2> QED
    BY <2>1, <2>2
<1>4. ParseAll[kept \o data].out = made /\ ParseAll[kept \o data].m_buffer \in Idle
  BY <1>2
<1> QED
  BY <1>3, <1>4 DEF Complete

LEMMA PacketCompletes ==
    ASSUME IInv, Complete, NEW p \in Packets, SendPacket(p)
    PROVE  Complete'
<1>1. /\ Serialize(p) \in Seq(Symbols) /\ Body[p] \in Seq(Symbols)
      /\ TextLength \in Nat /\ sent \in Seq(Symbols)
  BY StreamAssumption DEF IInv, TypeOK
<1>2. /\ ParseAll[Serialize(p)] = [out |-> <<p>>, m_buffer |-> <<>>]
      /\ Len(Serialize(p)) > 0
  BY <1>1, ParseSerialized
<1>3. \A r \in Idle : ParseAll[r \o Serialize(p)] = [out |-> <<p>>, m_buffer |-> <<>>]
  BY <1>1, <1>2, ParseFromIdle
<1>4. <<>> \in Idle
  BY EmptySeq DEF Idle, HasNoHeader, HeaderSize
<1>5. sent' = sent \o Serialize(p) /\ asked' = Append(asked, p)
  BY DEF SendPacket, SendInLoop
<1>6. <<p>> \in Seq(Packets) /\ Append(asked, p) = asked \o <<p>>
  <2>1. asked \in Seq(Packets)
    BY <1>1, ParseAllGives DEF Complete
  <2> QED
    BY <2>1, AppendIsConcat
<1> DEFINE made == <<p>>
<1>7. /\ made \in Seq(Packets) /\ asked' = asked \o made
      /\ \A r \in Idle : /\ ParseAll[r \o Serialize(p)].out = made
                         /\ ParseAll[r \o Serialize(p)].m_buffer \in Idle
  BY <1>3, <1>4, <1>5, <1>6
<1> HIDE DEF made
<1> QED
  BY <1>1, <1>5, <1>7, SendCompletes

LEMMA NoiseCompletes ==
    ASSUME IInv, Complete, NEW data \in Noise, SendNoise(data)
    PROVE  Complete'
<1>1. data \in Seq(Symbols) /\ TextLength \in Nat /\ sent \in Seq(Symbols)
  BY StreamAssumption DEF IInv, TypeOK
<1>2. ASSUME NEW r \in Idle
      PROVE  ParseAll[r \o data].out = <<>> /\ ParseAll[r \o data].m_buffer \in Idle
  <2>1. r \in Seq(Symbols) /\ HasNoHeader(r)
    BY DEF Idle
  <2>2. CASE HasNoHeader(data)
    <3>1. r \o data \in Seq(Symbols)
      BY <1>1, <2>1, ConcatProperties
    <3>2. HasNoHeader(r \o data)
      <4>1. /\ Len(r) \in Nat /\ Len(data) \in Nat /\ Len(r \o data) = Len(r) + Len(data)
            /\ \A i \in 1..(Len(r) + Len(data)) :
                 (r \o data)[i] = IF i <= Len(r) THEN r[i] ELSE data[i - Len(r)]
        BY <1>1, <2>1, ConcatProperties
      <4>2. ASSUME NEW i \in 1..(Len(r) + Len(data)) PROVE ~IsMagic((r \o data)[i])
        <5>1. CASE i <= Len(r)
          BY <2>1, <4>1, <5>1 DEF HasNoHeader
        <5>2. CASE ~(i <= Len(r))
          <6>1. i - Len(r) \in 1..Len(data)
            BY <4>1, <5>2
          <6> QED
            BY <2>2, <4>1, <5>2, <6>1 DEF HasNoHeader
        <5> QED
          BY <5>1, <5>2
      <4> QED
        BY <4>1, <4>2 DEF HasNoHeader
    <3> QED
      BY <1>1, <3>1, <3>2, ParseNoHeader
  <2>3. CASE IsDamaged(data)
    <3>1. IsHeader(data) /\ Len(data) > 0
      BY <1>1, <2>3 DEF IsDamaged, IsHeader, HeaderSize
    <3>2. ParseAll[r \o data] = ParseAll[data]
      BY <1>1, <3>1, ParseFromIdle
    <3>3. Deserialize(data) = <<>>
      BY <2>3 DEF IsDamaged, Deserialize
    <3>4. ParseAll[data] = [out |-> <<>>, m_buffer |-> <<>>]
      BY <1>1, <2>3, <3>3, ParseOne DEF IsDamaged
    <3>5. <<>> \in Idle
      BY EmptySeq DEF Idle, HasNoHeader, HeaderSize
    <3> QED
      BY <3>2, <3>4, <3>5
  <2> QED
    BY <2>2, <2>3, NoiseAssumption
<1>3. sent' = sent \o data /\ asked' = asked
  BY DEF SendNoise, SendInLoop
<1>4. <<>> \in Seq(Packets) /\ asked = asked \o <<>>
  <2>1. asked \in Seq(Packets)
    BY <1>1, ParseAllGives DEF Complete
  <2> QED
    BY <2>1, ConcatEmptySeq, EmptySeq
<1> QED
  BY <1>1, <1>2, <1>3, <1>4, SendCompletes

LEMMA NextKeepsParsed == ParsedInv /\ [Next]_vars => ParsedInv'
<1> SUFFICES ASSUME ParsedInv, [Next]_vars PROVE ParsedInv'
  OBVIOUS
<1> USE DEF ParsedInv
<1>1. IInv'
  BY NextKeepsIInv
<1>2. CASE \E p \in Packets : SendPacket(p)
  <2>1. Followed'
    BY <1>2 DEF SendPacket, SendInLoop, Followed
  <2> QED
    BY <1>1, <1>2, <2>1, PacketCompletes
<1>3. CASE \E data \in Noise : SendNoise(data)
  <2>1. Followed'
    BY <1>3 DEF SendNoise, SendInLoop, Followed
  <2> QED
    BY <1>1, <1>3, <2>1, NoiseCompletes
<1>4. CASE Read
  <2>1. PICK n \in 1..KernelSize : HandleRead(n)
    BY <1>4 DEF Read
  <2>2. UNCHANGED <<sent, asked>>
    BY <2>1 DEF HandleRead
  <2>3. Complete'
    BY <2>2 DEF Complete
  <2> QED
    BY <1>1, <2>1, <2>3, ReadFollows
<1>5. CASE Write \/ ReadFails \/ UNCHANGED vars
  <2>1. UNCHANGED <<handled, fed, m_buffer, sent, asked>>
    BY <1>5 DEF Write, HandleWrite, ReadFails, vars
  <2> QED
    BY <1>1, <2>1 DEF Followed, Complete
<1> QED
  BY <1>2, <1>3, <1>4, <1>5 DEF Next

LEMMA ParsedInvariant == Spec => []ParsedInv
<1>1. Init => ParsedInv
  BY InitIInv, InitParsed DEF ParsedInv
<1> QED
  BY <1>1, NextKeepsParsed, PTL DEF Spec

(***************************************************************************)
(* It does not matter how the stream is cut: what has been handled is what *)
(* the parser would hand out if it were fed all the bytes at once; and of  *)
(* all the bytes that were sent these are the packets asked for.           *)
(***************************************************************************)
THEOREM CutsDoNotMatter == Spec => [](Followed /\ Complete)
<1>1. ParsedInv => Followed /\ Complete
  BY DEF ParsedInv
<1> QED
  BY <1>1, ParsedInvariant, PTL

(***************************************************************************)
(* Symbols may be joined in any grouping.                                  *)
(***************************************************************************)
LEMMA JoinedSymbols ==
    \A s, t, u \in Seq(Symbols) : (s \o t) \o u = s \o (t \o u)
BY ConcatAssociative

(***************************************************************************)
(* Of bytes that are the beginning of others the parser makes a beginning  *)
(* of the packets.                                                         *)
(***************************************************************************)
LEMMA ParsedInOrder == ParsedInv => InOrder
<1> SUFFICES ASSUME ParsedInv PROVE InOrder
  OBVIOUS
<1> USE DEF ParsedInv
<1>1. /\ fed \in Seq(Symbols) /\ sent \in Seq(Symbols) /\ TextLength \in Nat
      /\ Readable(output) \in Seq(Symbols) /\ Readable(input) \in Seq(Symbols)
      /\ kernel \in Seq(Symbols)
  BY TypesUsable, StreamAssumption, EmptySeq DEF IInv, InputEmpty
<1>2. PICK rest \in Seq(Symbols) : sent = fed \o rest
  <2> DEFINE a == Readable(input)
             b == kernel
             c == Readable(output)
  <2>1. a \in Seq(Symbols) /\ b \in Seq(Symbols) /\ c \in Seq(Symbols)
        /\ sent = ((fed \o a) \o b) \o c
    BY <1>1 DEF IInv, Conserved
  <2> HIDE DEF a, b, c
  <2>2. a \o b \in Seq(Symbols) /\ (a \o b) \o c \in Seq(Symbols)
    BY <2>1, ConcatProperties
  <2>3. (fed \o a) \o b = fed \o (a \o b)
    <3>1. fed \in Seq(Symbols) /\ a \in Seq(Symbols) /\ b \in Seq(Symbols)
      BY <1>1, <2>1
    <3> QED
      BY <3>1, JoinedSymbols
  <2>4. (fed \o (a \o b)) \o c = fed \o ((a \o b) \o c)
    <3>1. fed \in Seq(Symbols) /\ a \o b \in Seq(Symbols) /\ c \in Seq(Symbols)
      BY <1>1, <2>1, <2>2
    <3> QED
      BY <3>1, JoinedSymbols
  <2> QED
    BY <2>1, <2>2, <2>3, <2>4
<1> DEFINE later == ParseAll[m_buffer \o rest].out
<1>3. asked = handled \o later
  <2> DEFINE parsed == ParseAll[fed]
  <2>1. asked = ParseAll[sent].out /\ handled = parsed.out /\ m_buffer = parsed.m_buffer
    BY DEF Followed, Complete
  <2>2. ParseAll[fed \o rest].out = parsed.out \o ParseAll[parsed.m_buffer \o rest].out
    BY <1>1, ParseMore
  <2> HIDE DEF parsed
  <2> QED
    BY <1>2, <2>1, <2>2
<1>4. handled \in Seq(Packets) /\ later \in Seq(Packets) /\ m_buffer \in Seq(Symbols)
  <2>1. handled \in Seq(Packets) /\ m_buffer \in Seq(Symbols)
    BY <1>1, ParseAllGives DEF Followed
  <2>2. m_buffer \o rest \in Seq(Symbols)
    BY <2>1, ConcatProperties
  <2> QED
    BY <1>1, <2>1, <2>2, ParseAllGives
<1> HIDE DEF later
<1>5. /\ Len(handled) \in Nat /\ Len(later) \in Nat /\ asked \in Seq(Packets)
      /\ Len(asked) = Len(handled) + Len(later)
      /\ \A i \in 1..Len(handled) : asked[i] = handled[i]
  BY <1>3, <1>4, ConcatProperties
<1>6. handled = SubSeq(asked, 1, Len(handled))
  <2> DEFINE s == SubSeq(asked, 1, Len(handled))
  <2>1. s \in Seq(Packets) /\ Len(s) = Len(handled) /\ \A i \in 1..Len(handled) : s[i] = handled[i]
    BY <1>5
  <2> HIDE DEF s
  <2>2. s = handled
    BY <1>4, <2>1, SeqEqual
  <2> QED
    BY <2>2 DEF s
<1>7. fed = sent => handled = asked
  BY DEF Followed, Complete
<1> QED
  BY <1>5, <1>6, <1>7 DEF InOrder

(***************************************************************************)
(* However the stream is cut, and whatever noise is between the packets:   *)
(* the packets are handled in the order they were sent, each once, and all *)
(* whose bytes have arrived.                                               *)
(***************************************************************************)
THEOREM PacketsInOrder == Spec => []InOrder
BY ParsedInvariant, ParsedInOrder, PTL

=============================================================================
