------------------------------- MODULE NodeNum -------------------------------
(***************************************************************************)
(* BSExtent<T>::NodeNum(index) (src/SolverUtils/include/BSMesh.H): the     *)
(* node number of an index tuple, accumulated over the dimensions from    *)
(* _nd-1 down to 0 with a size_t counter.  The counter is unsigned, so the *)
(* test i >= 0 always holds and i - 1 at 0 wraps to 2^Width - 1.           *)
(***************************************************************************)
EXTENDS BSExtentOps

CONSTANTS Coord,  \* the index values bounds are drawn from
          NDs,    \* the dimension counts of the extents
          Width   \* bits of size_t (64 in the build; any Width with 2^Width > 3 wraps alike)

ASSUME NDs \subseteq 1..3 /\ Width \in 2..8

VARIABLES b,      \* the bounds of *this, synced
          index,  \* the index argument
          i,      \* the loop counter
          l0,     \* the accumulated node number
          pc      \* "loop", or "returned" once the loop is left

vars == <<b, index, i, l0, pc>>

Extents == UNION {[1..d -> {p \in Coord \X Coord : p[1] <= p[2]}] : d \in NDs}

TypeOK ==
  /\ b \in Extents
  /\ index \in Points(b)
  /\ i \in 0..(2^Width - 1)
  /\ l0 \in Int
  /\ pc \in {"loop", "returned"}

\* T l0 = 1; size_t i = _nd - 1.
Init ==
  /\ b \in Extents
  /\ index \in Points(b)
  /\ l0 = 1
  /\ i = Len(b) - 1
  /\ pc = "loop"

\* One pass of the loop body for a counter inside the vectors, then i--,
\* which wraps modulo 2^Width.
LoopBody ==
  /\ pc = "loop"
  /\ i >= 0
  /\ i < Len(b)
  /\ l0' = l0 + (index[i + 1] - b[i + 1][1]) * Strides(b)[i + 1]
  /\ i' = (i - 1) % (2^Width)
  /\ UNCHANGED <<b, index, pc>>

\* The loop is left when the test i >= 0 fails.
LoopExit ==
  /\ pc = "loop"
  /\ ~(i >= 0)
  /\ pc' = "returned"
  /\ UNCHANGED <<b, index, i, l0>>

Next == LoopBody \/ LoopExit

Spec == Init /\ [][Next]_vars

-----------------------------------------------------------------------------
\* spec.md 9: the countdown over the dimensions is bounded, so the loop
\* reads index[i] and the bounds of *this only for i < _nd.
CounterWithinDimensions == pc = "loop" => i < Len(b)
=============================================================================
