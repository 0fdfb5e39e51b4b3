\* Three popen() results, commands writing 2 bytes, reads of up to 2 bytes:
\* enough for a command's output to be split over two reads and for a
\* second and a third Execute().  The object's life ends at destruction.
CONSTANTS
  p1 = p1
  p2 = p2
  p3 = p3
  Pipe <- MCPipe
  NULL = NULL
  EOF = EOF
  OutLen = 2
  BufSize = 2
SPECIFICATION Spec
SYMMETRY PipeSymmetry
INVARIANT ChildrenReaped
CHECK_DEADLOCK FALSE
