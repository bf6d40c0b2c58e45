-------------------------------- MODULE Buffer --------------------------------
(***************************************************************************)
(* The buffer of a connection (Net/Buffer): a vector of bytes with a read  *)
(* and a write index.  Indices count from 0 as in the code, so the byte at *)
(* an index i is m_buf[i + 1].  What is behind the write index is left     *)
(* over from earlier use and stays part of the state.                      *)
(***************************************************************************)
EXTENDS Integers, Sequences

CONSTANTS
    Bytes,
    Zero,          \* the byte that resize fills with
    InitialSize,   \* kInitialSize, 1024
    ExtraSize      \* sizeof(extrabuf), 65536

ASSUME BufferAssumption ==
    /\ Zero \in Bytes
    /\ InitialSize \in Nat
    /\ ExtraSize \in Nat \ {0}

Buffers == [m_buf : Seq(Bytes), m_read_idx : Nat, m_write_idx : Nat]

NewBuffer ==
    [m_buf |-> [i \in 1..InitialSize |-> Zero], m_read_idx |-> 0, m_write_idx |-> 0]

ReadableBytes(b) == b.m_write_idx - b.m_read_idx
WritableBytes(b) == Len(b.m_buf) - b.m_write_idx
PrependableBytes(b) == b.m_read_idx

\* The indices of a usable buffer.
InBounds(b) == b.m_read_idx <= b.m_write_idx /\ b.m_write_idx <= Len(b.m_buf)

\* The readable bytes, ReadableBytes of them from Peek on.
Readable(b) == SubSeq(b.m_buf, b.m_read_idx + 1, b.m_write_idx)

Retrieve(b, len) == [b EXCEPT !.m_read_idx = @ + len]

\* std::copy of data to an offset of the vector, and vector::resize.
Copied(s, offset, data) ==
    [i \in 1..Len(s) |->
        IF offset < i /\ i <= offset + Len(data) THEN data[i - offset] ELSE s[i]]
Resized(s, n) == [i \in 1..n |-> IF i <= Len(s) THEN s[i] ELSE Zero]

\* Faulty: the space before the read index is never used again; the write index
\* is not moved along with the bytes.
MakeSpaceAtEnd(b, len) == [b EXCEPT !.m_buf = Resized(@, b.m_write_idx + len)]
MakeSpaceKeepsIndex(b, len) ==
    IF PrependableBytes(b) + WritableBytes(b) >= len
      THEN [b EXCEPT !.m_buf = Copied(@, 0, Readable(b)), !.m_read_idx = 0]
      ELSE [b EXCEPT !.m_buf = Resized(@, b.m_write_idx + len)]

\* Move the readable bytes to the front if that frees enough, or else grow.
MakeSpace(b, len) ==
    IF PrependableBytes(b) + WritableBytes(b) >= len
      THEN [m_buf       |-> Copied(b.m_buf, 0, Readable(b)),
            m_read_idx  |-> 0,
            m_write_idx |-> ReadableBytes(b)]
      ELSE [b EXCEPT !.m_buf = Resized(@, b.m_write_idx + len)]

EnsureWritableBytes(b, len) ==
    IF WritableBytes(b) >= len THEN b ELSE MakeSpace(b, len)

\* Data written behind the write index, where there is space for it.
Written(b, data) ==
    [b EXCEPT !.m_buf = Copied(@, b.m_write_idx, data), !.m_write_idx = @ + Len(data)]

\* Buffer::Append.
AppendBytes(b, data) == Written(EnsureWritableBytes(b, Len(data)), data)

\* What one readv can take at most: the space behind the write index, and the
\* buffer on the stack unless there is as much space anyway.
MaxRead(b) ==
    IF WritableBytes(b) < ExtraSize THEN WritableBytes(b) + ExtraSize ELSE WritableBytes(b)

\* Faulty: the write index is not moved to the end before the rest is appended.
ReadFromFdOverwrites(b, data) ==
    LET w == WritableBytes(b) IN
    IF Len(data) <= w
      THEN Written(b, data)
      ELSE AppendBytes([b EXCEPT !.m_buf = Copied(@, b.m_write_idx, SubSeq(data, 1, w))],
                       SubSeq(data, w + 1, Len(data)))

\* readv gave data, at most MaxRead(b) bytes.
ReadFromFd(b, data) ==
    LET w == WritableBytes(b) IN
    IF Len(data) <= w
      THEN Written(b, data)
      ELSE AppendBytes(Written(b, SubSeq(data, 1, w)), SubSeq(data, w + 1, Len(data)))

\* readv gave -1, which counts as more than fits: the write index goes to the end, the
\* vector is resized for 2^64 - 1 bytes less the writable ones, which wraps around to
\* one byte less than was written, and the index is moved by as much.  The copy in
\* between is undefined; this is the buffer if it copied nothing.
ReadFailed(b) ==
    [b EXCEPT !.m_buf = Resized(@, b.m_write_idx - 1), !.m_write_idx = @ - 1]

\* write took the first n of the readable bytes.
WriteToFd(b, n) == Retrieve(b, n)

=============================================================================
