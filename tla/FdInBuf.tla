------------------------------- MODULE FdInBuf -------------------------------
(***************************************************************************)
(* IRAD::Sys::fdinbuf (src/SolverUtils/include/FDUtils.H), the streambuf   *)
(* under fdistream and InProcess: a char array of pbSize putback slots     *)
(* followed by bufSize read slots, the get-area pointers eback, gptr and   *)
(* egptr (here indices eb, g, eg into the array), and underflow(), which   *)
(* saves up to pbSize bytes already read in front of the read slots and    *)
(* refills the read slots with read(2).                                    *)
(*                                                                         *)
(* The istream calls sbumpc (Get), sgetc (Peek) and sungetc (Unget); the   *)
(* std::streambuf parts of these are translated as the standard defines    *)
(* them: underflow() when gptr == egptr, and pbackfail() -- EOF, since     *)
(* fdinbuf does not override it -- when gptr == eback.                     *)
(***************************************************************************)
EXTENDS Integers, Sequences

CONSTANTS PbSize,        \* pbSize (4 in the code)
          BufSize,       \* bufSize (1024 in the code)
          Data,          \* the bytes a file descriptor delivers, all distinct
          EOF,           \* the EOF value
          Garbage,       \* the content of a slot never written
          MemcpyOrders,  \* the copy orders the build's memcpy may use
          CharIsSigned,  \* whether the build's plain char is signed
          HighBytes,     \* the bytes of Data with a value of 0x80 or more
          Byte255        \* those of them with the value 0xFF

ASSUME /\ PbSize \in Nat \ {0} /\ BufSize \in Nat \ {0}
       /\ MemcpyOrders \subseteq {"ascending", "descending"} /\ MemcpyOrders # {}
       /\ CharIsSigned \in BOOLEAN /\ Byte255 \subseteq HighBytes

VARIABLES data,    \* the bytes the descriptor delivers (ByteStream's data)
          buf,     \* buffer[0 .. pbSize + bufSize - 1]
          eb, g, eg,  \* eback(), gptr(), egptr() as offsets into buffer
          fdpos,   \* bytes read(2) has returned so far
          result   \* what the last sbumpc, sgetc or sungetc returned

vars == <<data, buf, eb, g, eg, fdpos, result>>

Slots == 0..(PbSize + BufSize - 1)

\* fdinbuf(_fd): setg(buffer + pbSize, buffer + pbSize, buffer + pbSize).
Init ==
  /\ data = Data
  /\ buf = [i \in Slots |-> Garbage]
  /\ eb = PbSize /\ g = PbSize /\ eg = PbSize
  /\ fdpos = 0
  /\ result = EOF

\* memcpy(dst, src, n) done one byte at a time upwards or downwards; when
\* the two ranges overlap the outcome depends on the order (undefined
\* behaviour in C).
RECURSIVE CopyUp(_, _, _, _, _)
CopyUp(b, dst, src, i, n) ==
  IF i = n THEN b ELSE CopyUp([b EXCEPT ![dst + i] = b[src + i]], dst, src, i + 1, n)
RECURSIVE CopyDown(_, _, _, _)
CopyDown(b, dst, src, n) ==
  IF n = 0 THEN b ELSE CopyDown([b EXCEPT ![dst + n - 1] = b[src + n - 1]], dst, src, n - 1)
Memcpy(b, dst, src, n, order) ==
  IF order = "ascending" THEN CopyUp(b, dst, src, 0, n) ELSE CopyDown(b, dst, src, n)

\* numPutback = gptr() - eback(), at most pbSize.
NumPutback == IF g - eb > PbSize THEN PbSize ELSE g - eb

\* The byte counts read(fd, buffer + pbSize, bufSize) may return: any
\* short count, or 0 at end of file.
ReadCounts ==
  IF fdpos < Len(data)
  THEN 1..(IF Len(data) - fdpos < BufSize THEN Len(data) - fdpos ELSE BufSize)
  ELSE {0}

\* A plausible slip: read(2) into buffer + numPutback, just past the
\* putback copy, instead of buffer + pbSize.
UnderflowsReadAtPutback ==
  LET np == NumPutback IN
  { LET pb == Memcpy(buf, PbSize - np, g - np, np, order)
    IN  [ buf   |-> [i \in Slots |-> IF i >= np /\ i < np + num
                                     THEN data[fdpos + i - np + 1] ELSE pb[i]],
          eb    |-> IF num > 0 THEN PbSize - np ELSE eb,
          eg    |-> IF num > 0 THEN PbSize + num ELSE eg,
          fdpos |-> fdpos + num,
          ok    |-> num > 0 ]
    : order \in MemcpyOrders, num \in ReadCounts }

\* A plausible slip: a read shorter than bufSize taken for end of file, as
\* it would be for a regular file.
UnderflowsShortReadEOF ==
  LET np == NumPutback IN
  { LET pb == Memcpy(buf, PbSize - np, g - np, np, order)
    IN  [ buf   |-> [i \in Slots |-> IF i >= PbSize /\ i < PbSize + num
                                     THEN data[fdpos + i - PbSize + 1] ELSE pb[i]],
          eb    |-> IF num = BufSize THEN PbSize - np ELSE eb,
          eg    |-> IF num = BufSize THEN PbSize + num ELSE eg,
          fdpos |-> fdpos + num,
          ok    |-> num = BufSize ]
    : order \in MemcpyOrders, num \in ReadCounts }

\* underflow() at gptr() == egptr(): the putback copy, then read(2); on a
\* count <= 0 return EOF with the pointers left alone, else setg(buffer +
\* (pbSize - numPutback), buffer + pbSize, buffer + pbSize + num).
Underflows ==
  LET np == NumPutback IN
  { LET pb == Memcpy(buf, PbSize - np, g - np, np, order)
    IN  [ buf   |-> [i \in Slots |-> IF i >= PbSize /\ i < PbSize + num
                                     THEN data[fdpos + i - PbSize + 1] ELSE pb[i]],
          eb    |-> IF num > 0 THEN PbSize - np ELSE eb,
          eg    |-> IF num > 0 THEN PbSize + num ELSE eg,
          fdpos |-> fdpos + num,
          ok    |-> num > 0 ]
    : order \in MemcpyOrders, num \in ReadCounts }

\* underflow's `return *gptr()`: the char converted to int as it is, not by
\* traits_type::to_int_type.  Where char is signed a byte of 0x80 or more
\* becomes negative (here -c), and the byte 0xFF becomes -1, which is EOF.
CharAsInt(c) ==
  IF CharIsSigned /\ c \in HighBytes
  THEN IF c \in Byte255 THEN EOF ELSE -c
  ELSE c

\* Refill, and take (Get) or show (Peek) the first byte read.  sgetc()
\* returns what underflow() returns; sbumpc() goes through uflow(), which
\* takes underflow()'s EOF as end of file and otherwise returns
\* to_int_type(*gptr()) and advances gptr().
Refill(advance) ==
  /\ g >= eg
  /\ \E u \in Underflows :
       LET r == IF u.ok THEN CharAsInt(u.buf[PbSize]) ELSE EOF
       IN  /\ buf' = u.buf /\ fdpos' = u.fdpos /\ eb' = u.eb /\ eg' = u.eg
           /\ g' = IF advance /\ r # EOF THEN PbSize + 1
                   ELSE IF u.ok THEN PbSize ELSE g
           /\ result' = IF advance /\ r # EOF THEN u.buf[PbSize] ELSE r
  /\ UNCHANGED data

\* sbumpc(): the byte at gptr(), gptr() advanced.
Get ==
  \/ /\ g < eg
     /\ result' = buf[g]
     /\ g' = g + 1
     /\ UNCHANGED <<data, buf, eb, eg, fdpos>>
  \/ Refill(TRUE)

\* sgetc(): the byte at gptr(), gptr() left where it is.
Peek ==
  \/ /\ g < eg
     /\ result' = buf[g]
     /\ UNCHANGED <<data, buf, eb, g, eg, fdpos>>
  \/ Refill(FALSE)

\* sungetc(): gptr() moved back over the byte before it, or pbackfail().
Unget ==
  /\ UNCHANGED <<data, buf, eb, eg, fdpos>>
  /\ \/ /\ g > eb
        /\ g' = g - 1
        /\ result' = buf[g - 1]
     \/ /\ g = eb
        /\ result' = EOF
        /\ UNCHANGED g

Next == Get \/ Peek \/ Unget

Spec == Init /\ [][Next]_vars

\* The stream as read by a caller that never calls sungetc().
ReadSpec == Init /\ [][Get \/ Peek]_vars

-----------------------------------------------------------------------------
\* fdinbuf implements the byte stream: the position is the bytes read from
\* the descriptor less those still unread in the get area, and every
\* sbumpc, sgetc and sungetc returns what the byte stream returns.
Stream == INSTANCE ByteStream WITH pos <- fdpos - (eg - g)

ImplementsByteStream == Stream!Spec

\* Read front to back, fdinbuf delivers the descriptor's bytes in order,
\* each once, then EOF: refills after short reads and the putback copy at
\* the front of the buffer never disturb the bytes still to be taken.
ImplementsReadStream == Stream!ReadSpec
=============================================================================
