\* The pipe of FdPipe.cfg on a build where char is signed (x86 and x86-64),
\* with byte 2 the value 0xFF: underflow() returns it as -1, which is EOF.
CONSTANTS
  WriteFd = 3
  MaxWrite = 3
  MaxBytes = 10
  Interruptible = FALSE
  PbSize = 4
  BufSize = 3
  EOF = EOF
  Garbage = Garbage
  MemcpyOrders = {"ascending", "descending"}
  CharIsSigned = TRUE
  HighBytes = {2}
  Byte255 = {2}
SPECIFICATION Spec
PROPERTY ImplementsReadStream
