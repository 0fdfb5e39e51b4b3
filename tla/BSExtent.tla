------------------------------- MODULE BSExtent -------------------------------
(***************************************************************************)
(* BSExtent<T> objects (src/SolverUtils/include/BSMesh.H) held in a set of *)
(* slots, with the operations that build, clear and query them:            *)
(* construction (three constructors and Init), destroy(), GetFlatIndices() *)
(* and CreateUnstructuredMesh().                                           *)
(*                                                                         *)
(* Every operation of this module that writes bounds ends in Sync(), so    *)
(* the members _nd, _N and _Np equal ND, Sizes and Strides of the bounds   *)
(* and are not kept as separate state here; the module ExtentPool models   *)
(* the extents that are written without Sync().                            *)
(***************************************************************************)
EXTENDS BSExtentOps

CONSTANTS Slot,    \* the extent objects of the program
          Coord,   \* the index values bounds are drawn from
          NDs      \* the dimension counts extents are constructed with

ASSUME NDs \subseteq 1..3 /\ Coord \subseteq Nat

VARIABLES ext,      \* ext[o]: the bounds of object o
          indices,  \* the caller's vector filled by GetFlatIndices
          conn      \* the elements given to the Connectivity by the last conversion

vars == <<ext, indices, conn>>

\* Flat bound vectors lo_0, hi_0, ... with lo <= hi, of the allowed lengths.
FlatInputs ==
  { x \in UNION {[1..(2*d) -> Coord] : d \in NDs} :
      \A d \in 1..(Len(x) \div 2) : x[2*d - 1] <= x[2*d] }

TypeOK ==
  /\ ext \in [Slot -> {<<>>} \cup {Unflatten(x) : x \in FlatInputs}]
  /\ indices \in Seq(Int)
  /\ conn \in Seq(Seq(Int))

\* The default constructor: no dimensions, empty derived members.
Init ==
  /\ ext = [o \in Slot |-> <<>>]
  /\ indices = <<>>
  /\ conn = <<>>

\* BSExtent(inextent), BSExtent(inflatextent), BSExtent(src, nd) assigned to
\* object o, and o.Init(inflatextent): fill the pairs, then Sync().
Construct(o, x) ==
  /\ ext' = [ext EXCEPT ![o] = Unflatten(x)]
  /\ UNCHANGED <<indices, conn>>

\* A plausible slip in destroy(): each pair emptied but this->resize(0)
\* left out, so the object keeps _nd empty pairs.
DestroyPairsOnly(o) ==
  /\ ext' = [ext EXCEPT ![o] = [d \in DOMAIN ext[o] |-> <<>>]]
  /\ UNCHANGED <<indices, conn>>

\* destroy(): every vector emptied, _nd = 0.
Destroy(o) ==
  /\ ext' = [ext EXCEPT ![o] = <<>>]
  /\ UNCHANGED <<indices, conn>>

\* o.GetFlatIndices(q, indices).  With no dimension the code writes NP[0]
\* of an empty vector, and dir_loop reads q[dindex] for every dimension of
\* o: both are out of the program's defined behaviour and not called.
GetFlatIndicesCall(o, q) ==
  /\ UNCHANGED <<ext, conn>>
  /\ Len(ext[o]) >= 1
  /\ Len(ext[q]) >= Len(ext[o])
  /\ indices' = GetFlatIndices(ext[o], ext[q])

\* o.CreateUnstructuredMesh(conn): the two asserts, then one AddElement per
\* lower-left node and conn.Sync() once.  The Connectivity is the caller's
\* fresh object for this conversion.
CreateUnstructuredMeshCall(o) ==
  /\ UNCHANGED <<ext, indices>>
  /\ Len(ext[o]) = 3
  /\ MeshND(Sizes(ext[o])) > 1
  /\ conn' = MeshElements(ext[o], Sizes(ext[o]))

Next ==
  \E o \in Slot :
    \/ \E x \in FlatInputs : Construct(o, x)
    \/ Destroy(o)
    \/ \E q \in Slot : GetFlatIndicesCall(o, q)
    \/ CreateUnstructuredMeshCall(o)

Spec == Init /\ [][Next]_vars

-----------------------------------------------------------------------------
\* GetFlatIndices numbers exactly the nodes the query extent occupies, each
\* once, lower-left first, with the node numbers of *this: for a query inside
\* *this the code's stride recursion (dir_loop) must agree with the rank of
\* each point in first-dimension-fastest order.
FlatIndicesExact ==
  [][\A o, q \in Slot :
       GetFlatIndicesCall(o, q) /\ Within(ext[q], ext[o])
         => indices' = RefFlatIndices(ext[o], ext[q])]_vars

\* CreateUnstructuredMesh gives the Connectivity one element per cell of the
\* block, in node-number order, each listing the cell's corners in the order
\* of spec.md 4.4, whichever dimensions are degenerate: the offsets derived
\* from _N must step along the right dimensions.
MeshIsCellDecomposition ==
  [][\A o \in Slot :
       CreateUnstructuredMeshCall(o) => conn' = RefElements(ext[o])]_vars
=============================================================================
