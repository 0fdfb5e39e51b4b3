------------------------------ MODULE ExtentPool ------------------------------
(***************************************************************************)
(* Neighbour discovery over a pool of extents: BSExtent<T>::Overlap and    *)
(* BSExtent<T>::FindSharedNodes (src/SolverUtils/include/BSMesh.H).        *)
(*                                                                         *)
(* The pool is the caller's std::vector<BSExtent<T>>, fixed once built.    *)
(* A decomposition layer calls pool[i].FindSharedNodes(pool, shared,       *)
(* neighbors) for its subdomains, either reusing its two output vectors    *)
(* or starting from fresh ones, and keeps the neighbours found for each    *)
(* subdomain in an adjacency table.                                        *)
(***************************************************************************)
EXTENDS BSExtentOps

CONSTANTS Coord,         \* the index values bounds are drawn from
          ND,            \* the dimension count of every extent in the pool
          PoolSize,      \* the number of subdomains in the pool
          MaxNeighbors   \* bound on the length of the caller's neighbors vector

ASSUME ND \in 1..3 /\ PoolSize \in 1..4 /\ MaxNeighbors \in Nat

VARIABLES pool,       \* pool[i]: bounds of the subdomain at position i (0-based i-1 in the code)
          shared,     \* the caller's shared_extents vector
          neighbors,  \* the caller's neighbors vector
          adj         \* adj[i]: the 0-based indices the last call for subdomain i
                      \* reported, defined for the subdomains queried so far

vars == <<pool, shared, neighbors, adj>>

\* Valid extents of ND dimensions over Coord.
Extents == [1..ND -> {p \in Coord \X Coord : p[1] <= p[2]}]

\* The members of a BSExtent object: bounds, _nd, _N and _Np.
ExtentObj == [b : Seq(Coord \X Coord), nd : Nat, N : Seq(Int), Np : Seq(Int)]

\* FindSharedNodes: BSExtent<T> overlap; is default-constructed (_nd = 0,
\* _N and _Np empty) and Overlap() then writes only its bounds.
OverlapObj(region) == [b |-> region, nd |-> 0, N |-> <<>>, Np |-> <<>>]

\* FindSharedNodes: the positions whose extent differs from *this in value
\* (*epi != *this) and whose Overlap with *this is non-empty, in pool order.
Found(i) ==
  LET hits == {j \in 1..PoolSize : pool[j] # pool[i] /\ OverlapRegion(pool[i], pool[j]) # <<>>}
  IN  SortedSeq(hits)

TypeOK ==
  /\ pool \in [1..PoolSize -> Extents]
  /\ shared \in Seq(ExtentObj)
  /\ neighbors \in Seq(0..(PoolSize - 1))
  /\ DOMAIN adj \subseteq 1..PoolSize
  /\ \A i \in DOMAIN adj : adj[i] \subseteq 0..(PoolSize - 1)

Init ==
  /\ pool \in [1..PoolSize -> Extents]
  /\ shared = <<>>
  /\ neighbors = <<>>
  /\ adj = <<>>

\* A plausible slip in FindSharedNodes: nindex incremented before it is
\* pushed, so neighbours are reported 1-based.
FindSharedNodesIndexAfterIncrement(i) ==
  /\ Len(neighbors) + Len(Found(i)) <= MaxNeighbors
  /\ shared' = [k \in DOMAIN Found(i) |->
                  OverlapObj(OverlapRegion(pool[i], pool[Found(i)[k]]))]
  /\ neighbors' = neighbors \o Found(i)
  /\ adj' = (i :> Range(Found(i))) @@ adj
  /\ UNCHANGED pool

\* pool[i].FindSharedNodes(pool, shared, neighbors): shared_extents is
\* resized to 0, neighbors is not; each hit appends its 0-based index to
\* neighbors and its overlap object to shared_extents.
FindSharedNodes(i) ==
  /\ Len(neighbors) + Len(Found(i)) <= MaxNeighbors
  /\ shared' = [k \in DOMAIN Found(i) |->
                  OverlapObj(OverlapRegion(pool[i], pool[Found(i)[k]]))]
  /\ neighbors' = neighbors \o [k \in DOMAIN Found(i) |-> Found(i)[k] - 1]
  /\ adj' = (i :> {j - 1 : j \in Range(Found(i))}) @@ adj
  /\ UNCHANGED pool

\* The caller passes newly declared, empty output vectors.
FreshOutputs ==
  /\ shared' = <<>>
  /\ neighbors' = <<>>
  /\ UNCHANGED <<pool, adj>>

Next ==
  \/ \E i \in 1..PoolSize : FindSharedNodes(i)
  \/ FreshOutputs

Spec == Init /\ [][Next]_vars

-----------------------------------------------------------------------------
\* Every call for subdomain i reports, in the vectors it fills, one region
\* per reported neighbour, never i itself, and each region is exactly the
\* non-empty closed-interval intersection of pool[i] and that neighbour:
\* the endpoint test of Overlap() may miss neighbours but must never yield
\* a wrong or inverted region.
SharedRegionsExact ==
  [][\A i \in 1..PoolSize :
       FindSharedNodes(i) =>
         LET new == SubSeq(neighbors', Len(neighbors) + 1, Len(neighbors'))
         IN  /\ Len(new) = Len(shared')
             /\ \A k \in DOMAIN new :
                  /\ new[k] # i - 1
                  /\ shared'[k].b # <<>>
                  /\ shared'[k].b = Intersection(pool[i], pool[new[k] + 1])]_vars

\* spec.md 4.3 and 8: Overlap(A,B) = Overlap(B,A), so the neighbour
\* relation FindSharedNodes reports is symmetric: once both subdomains have
\* been queried, i lists j exactly when j lists i.
AdjacencySymmetric ==
  \A i, j \in DOMAIN adj : ((j - 1 \in adj[i]) <=> (i - 1 \in adj[j]))

\* spec.md 4.3 and 9: the querying subdomain is skipped by position, so a
\* different subdomain with identical bounds is still reported.
IdenticalNeighbourReported ==
  \A i \in DOMAIN adj : \A j \in 1..PoolSize :
    i # j /\ pool[j] = pool[i] => j - 1 \in adj[i]

\* spec.md 3: neighbour records are (pool-index, overlap) pairs, so the
\* caller's neighbors and shared_extents vectors stay aligned one to one.
NeighborsAlignedWithShared == Len(neighbors) = Len(shared)

\* spec.md 3: an extent handed to the caller has derived members _nd, _N
\* and _Np consistent with its bounds.
SharedExtentsSynced ==
  \A k \in DOMAIN shared :
    /\ shared[k].nd = Len(shared[k].b)
    /\ shared[k].N = Sizes(shared[k].b)
    /\ shared[k].Np = Strides(shared[k].b)
=============================================================================
