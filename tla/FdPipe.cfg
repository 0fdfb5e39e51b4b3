\* A pipe with descriptor 3 for its write end.  The writer hands over up to
\* ten bytes in put() and write() calls of one to three bytes; the reader has
\* the code's pbSize of 4 and bufSize 3 for 1024, so reads shorter than the
\* putback area follow one another, and the memcpy may copy in either order.
\* Bytes 2 and 5 are 0x80 or more, byte 5 is 0xFF, and char is unsigned,
\* as on ARM and POWER builds.  Signal handlers restart interrupted calls
\* (SA_RESTART), so write(2) may be cut short but read(2) is not interrupted.
CONSTANTS
  WriteFd = 3
  MaxWrite = 3
  MaxBytes = 10
  Interruptible = FALSE
  PbSize = 4
  BufSize = 3
  EOF = EOF
  Garbage = Garbage
  MemcpyOrders = {"ascending", "descending"}
  CharIsSigned = FALSE
  HighBytes = {2, 5}
  Byte255 = {5}
SPECIFICATION Spec
INVARIANT StreamReportsLoss
PROPERTY ImplementsReadStream
PROPERTY EOFMeansClosed
