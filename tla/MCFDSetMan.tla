------------------------------ MODULE MCFDSetMan ------------------------------
EXTENDS FDSetMan

\* Descriptors 0 and 1; each list holds at most MCMaxReg entries.
MCFd == {0, 1}
MCMaxReg == 1
=============================================================================
