--------------------------- MODULE MCSemaphoreImpl ---------------------------
(* Model-checking instance of SemaphoreImpl: the threads are model values. *)
EXTENDS SemaphoreImpl

CONSTANTS t1, t2, t3

MCThread == {t1, t2, t3}
MCGarbage == {-1, 0, 3}
=============================================================================
