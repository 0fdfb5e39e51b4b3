------------------------------- MODULE FdOutBuf -------------------------------
(***************************************************************************)
(* IRAD::Sys::fdoutbuf and fdostream (src/SolverUtils/include/FDUtils.H):  *)
(* an ostream over a streambuf with no put area, so that every put() goes  *)
(* to overflow(c), which write(2)s one byte, and every write() to          *)
(* xsputn(s, num), which returns what write(fd, s, num) returns.  The      *)
(* ostream side is translated as the standard library defines it: a call  *)
(* on a stream that is not good() does nothing, put() sets badbit when     *)
(* sputc returns EOF, write() when sputn returns other than num, and       *)
(* rdbuf(&buf) clears the state.                                           *)
(*                                                                         *)
(* The descriptor is the write end of a pipe.  write(2) of n bytes there   *)
(* transfers all n, or -- for writes above PIPE_BUF, which the small n of  *)
(* the model stand for -- is cut short by a signal after k bytes.  Where a *)
(* signal handler is installed without SA_RESTART (Interruptible) it may   *)
(* also fail with -1 before any byte (EINTR).  On a closed descriptor, or  *)
(* on -1, it fails with EBADF.  The k-th byte the program hands to the stream is the *)
(* number k, so that the bytes are distinct.                               *)
(***************************************************************************)
EXTENDS Integers, Sequences, SequencesExt

CONSTANTS WriteFd,   \* the descriptor of the pipe's write end
          MaxWrite,  \* the longest write(s, num) the program makes
          MaxBytes,  \* bound on the bytes handed to the stream
          Interruptible  \* a signal may make a blocked call fail with EINTR

ASSUME WriteFd \in Nat /\ MaxWrite \in Nat \ {0} /\ MaxBytes \in Nat
       /\ Interruptible \in BOOLEAN

VARIABLES fd,       \* fdoutbuf::fd
          bad,      \* the stream is not good(): badbit, or no rdbuf
          sent,     \* history: the bytes written, then those handed to the
                    \* stream in calls made since the last Init
          written,  \* the bytes write(2) has put in the pipe
          open      \* the write end is still open

outVars == <<fd, bad, sent, written, open>>

\* The int arguments callers pass to fdostream(fd) and Init(fd).
FdArgs == {-1, WriteFd}

\* fdostream(): std::ostream(0) sets badbit and fd is -1; fdostream(fd):
\* rdbuf(&buf) with buf.fd = fd.
OutInit ==
  /\ \/ fd = -1 /\ bad = TRUE
     \/ fd \in FdArgs /\ bad = FALSE
  /\ sent = <<>> /\ written = <<>> /\ open = TRUE

\* What write(fd, s, n) may return.
WriteResults(n) ==
  IF fd = WriteFd /\ open
  THEN (IF Interruptible THEN {-1} ELSE {}) \cup 1..n
  ELSE {-1}

\* The next n bytes the program hands over.
Bytes(n) == [i \in 1..n |-> Len(sent) + i]

\* fdostream::Init(_fd): buf.Init(_fd); rdbuf(&buf), which clears the
\* state.  The history restarts from what the pipe holds.
StreamInit(f) ==
  /\ fd' = f /\ bad' = FALSE /\ sent' = written
  /\ UNCHANGED <<written, open>>

\* overflow(c): write(fd, &z, 1) != 1 returns EOF, else c.
OverflowReturnsEOF(k) == k # 1

\* ostream::put(c): sputc(c) is overflow(c); EOF sets badbit.
Put ==
  /\ ~bad /\ Len(sent) < MaxBytes
  /\ \E k \in WriteResults(1) :
       /\ written' = IF k = 1 THEN Append(written, Len(sent) + 1) ELSE written
       /\ bad' = OverflowReturnsEOF(k)
  /\ sent' = Append(sent, Len(sent) + 1)
  /\ UNCHANGED <<fd, open>>

\* A plausible slip: xsputn reporting num whatever write(2) did.
XsputnReportsNum(n, k) == n

\* xsputn(s, num): return write(fd, s, num).
Xsputn(n, k) == k

\* ostream::write(s, n): sputn(s, n) is xsputn(s, n); a result other than
\* n sets badbit.  The first max(k, 0) bytes reach the pipe.
Write(n) ==
  /\ ~bad /\ Len(sent) + n <= MaxBytes
  /\ \E k \in WriteResults(n) :
       /\ written' = written \o SubSeq(Bytes(n), 1, IF k > 0 THEN k ELSE 0)
       /\ bad' = (Xsputn(n, k) # n)
  /\ sent' = sent \o Bytes(n)
  /\ UNCHANGED <<fd, open>>

\* The program closes the write end; the stream still holds its number.
CloseWriteEnd ==
  /\ open /\ open' = FALSE
  /\ UNCHANGED <<fd, bad, sent, written>>

OutNext ==
  \/ \E f \in FdArgs : StreamInit(f)
  \/ Put
  \/ \E n \in 1..MaxWrite : Write(n)
  \/ CloseWriteEnd

OutSpec == OutInit /\ [][OutNext]_outVars

-----------------------------------------------------------------------------
\* The stream reports every byte it did not deliver: the pipe holds a
\* prefix of what the program handed over since the last Init, and while
\* the stream is good() it holds all of it.  A short write(2) that left
\* xsputn's caller believing every byte went out would break it.
StreamReportsLoss ==
  /\ IsPrefix(written, sent)
  /\ ~bad => written = sent
=============================================================================
