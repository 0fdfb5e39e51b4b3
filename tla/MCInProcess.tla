----------------------------- MODULE MCInProcess -----------------------------
EXTENDS InProcess, TLC

CONSTANTS p1, p2, p3

MCPipe == {p1, p2, p3}
PipeSymmetry == Permutations(MCPipe)
=============================================================================
