-------------------------------- MODULE FdPipe --------------------------------
(***************************************************************************)
(* An fdostream writing into a pipe and an fdistream's fdinbuf reading the *)
(* other end (src/SolverUtils/include/FDUtils.H): the bytes the writer's   *)
(* write(2) calls put in the pipe are the Data that FdInBuf reads.  The    *)
(* two sides share only the pipe.  read(2) on an empty pipe blocks while   *)
(* the write end is open and returns 0, end of file, once it is closed;    *)
(* where Interruptible, a signal may end the blocked read with -1 (EINTR), *)
(* which underflow() handles as it does 0: FdInBuf's count 0 stands for    *)
(* both.                                                                   *)
(***************************************************************************)
EXTENDS FdOutBuf

CONSTANTS PbSize, BufSize, EOF, Garbage, MemcpyOrders,
          CharIsSigned, HighBytes, Byte255

VARIABLES buf, eb, g, eg, fdpos, result

inVars == <<buf, eb, g, eg, fdpos, result>>  \* the reader's own state
vars == <<outVars, inVars>>

\* The reading side starts on an empty pipe, and its data are the pipe's.
In == INSTANCE FdInBuf WITH Data <- <<>>, data <- written

Init == OutInit /\ In!Init

\* The writer's calls leave the reading side alone.
Writer == OutNext /\ UNCHANGED inVars

\* sbumpc() or sgetc() on the reading side: an underflow's read(2) returns
\* only when the pipe has bytes not yet read or its write end is closed, or
\* when a signal interrupts it.
ReadReturns == g < eg \/ fdpos < Len(written) \/ ~open \/ Interruptible
Reader == ReadReturns /\ (In!Get \/ In!Peek) /\ UNCHANGED outVars

Next == Writer \/ Reader

Spec == Init /\ [][Next]_vars

\* A reader that also calls sungetc().
ReaderPutsBack == In!Unget /\ UNCHANGED outVars
PutbackSpec == Init /\ [][Next \/ ReaderPutsBack]_vars

-----------------------------------------------------------------------------
\* End to end: the reader takes the bytes the writer's write(2) calls put
\* in the pipe, in order, each once; FdInBuf implements ByteStream over the
\* growing pipe.
ImplementsReadStream == In!ImplementsReadStream

\* The reader's sbumpc() or sgetc() returns EOF only once the writer has
\* closed its end and every byte it wrote has been read: underflow() takes
\* a count of 0 for end of file, so a short read must never be taken for
\* one while the writer can still write.
EOFMeansClosed ==
  [][Reader /\ result' = EOF => ~open /\ fdpos' = Len(written) /\ g' = eg']_vars

\* With sungetc(), every call still returns what the byte stream returns:
\* a putback after underflow() returns the byte taken before it.
ImplementsByteStream == In!ImplementsByteStream
=============================================================================
