SPECIFICATION Spec
CONSTANTS
  Fd <- MCFd
  MaxReg <- MCMaxReg
PROPERTY SelectReportsRegistered
