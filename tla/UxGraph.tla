------------------------------- MODULE UxGraph -------------------------------
(***************************************************************************)
(* The graph library (src/runtime_ext/uxgraph/uxgraph_igraph.c, as built    *)
(* without igraph): vertices 0..n-1, and the edges in the order they were   *)
(* added, with loops and parallel edges.  Every question is answered from   *)
(* that list.  Memory is assumed to suffice once a graph has an edge.       *)
(***************************************************************************)
EXTENDS Integers, Sequences, FiniteSets, SequencesExt, FiniteSetsExt

CONSTANTS
  GrVertices,   \* bound: the vertices of a graph
  GrEdges       \* bound: the edges the program adds

ASSUME GrAssumption == GrVertices \in Nat /\ GrEdges \in Nat

VARIABLE grGraph   \* the graph of a handle, or NoGraph

NoGraph == [directed |-> FALSE, vertices |-> -1, edges |-> <<>>]

GrIds(g) == 0..(g.vertices - 1)
UpTo(n) == [i \in 1..n |-> i]
EdgesWith(g, Test(_)) == Cardinality({i \in DOMAIN g.edges : Test(g.edges[i])})

-----------------------------------------------------------------------------
(* Questions *)

HasEdge(g, v, w) ==
  \E i \in DOMAIN g.edges : \/ g.edges[i] = <<v, w>>
                            \/ ~g.directed /\ g.edges[i] = <<w, v>>

(* Mutant of InDegree: a loop of an undirected graph counts at both ends. *)
InDegreeTwice(g, v) ==
  EdgesWith(g, LAMBDA e : e[2] = v) +
  (IF g.directed THEN 0 ELSE EdgesWith(g, LAMBDA e : e[1] = v))

InDegree(g, v) ==
  EdgesWith(g, LAMBDA e : e[2] = v \/ (~g.directed /\ e[1] = v))
OutDegree(g, v) ==
  EdgesWith(g, LAMBDA e : e[1] = v \/ (~g.directed /\ e[2] = v))
Degree(g, v) == IF g.directed THEN InDegree(g, v) + OutDegree(g, v) ELSE OutDegree(g, v)
SelfLoops(g) == EdgesWith(g, LAMBDA e : e[1] = e[2])

(* The density is the first over the second. *)
Density(g) ==
  IF g.vertices < 2 THEN <<0, 1>>
  ELSE <<Len(g.edges), (g.vertices * (g.vertices - 1)) \div (IF g.directed THEN 1 ELSE 2)>>

(* The vertex an edge leads to from v, if it does. *)
Across(g, e, v, weak) ==
  IF e[1] = v THEN e[2] ELSE IF (~g.directed \/ weak) /\ e[2] = v THEN e[1] ELSE -1

(* A search is the queue, of which a part is done, and the distance of each   *)
(* vertex, -1 for one that was not met.                                      *)
Visit(g, search, v, weak) ==
  FoldLeft(LAMBDA s, e :
             LET u == Across(g, e, v, weak)
             IN  IF u >= 0 /\ s.dist[u] < 0
                 THEN [queue |-> Append(s.queue, u),
                       dist |-> [s.dist EXCEPT ![u] = s.dist[v] + 1]]
                 ELSE s,
           search, g.edges)

(* uxg_bfs_distance, all of the queue: stopping at the target changes nothing *)
(* about the distance that was written when the target was met.              *)
BfsDistances(g, source, weak) ==
  FoldLeft(LAMBDA s, i : IF i <= Len(s.queue) THEN Visit(g, s, s.queue[i], weak) ELSE s,
           [queue |-> <<source>>, dist |-> [v \in GrIds(g) |-> IF v = source THEN 0 ELSE -1]],
           UpTo(g.vertices)).dist

(* A source or a target beyond the vertices is refused, but a negative target *)
(* asks for no distance, and gets the answer 0.                              *)
ShortestDistance(g, v, w) ==
  IF v \notin GrIds(g) \/ w >= g.vertices THEN -1
  ELSE IF w < 0 THEN 0 ELSE BfsDistances(g, v, FALSE)[w]
PathExists(g, v, w) == ShortestDistance(g, v, w) >= 0

(* One search from each vertex that none of those before has seen. *)
ComponentsCount(g) ==
  FoldLeft(LAMBDA c, i :
             IF i - 1 \in c.seen THEN c
             ELSE [seen |-> c.seen \cup {v \in GrIds(g) : BfsDistances(g, i - 1, TRUE)[v] >= 0},
                   count |-> c.count + 1],
           [seen |-> {}, count |-> 0], UpTo(g.vertices)).count

IsConnected(g) == g.vertices <= 1 \/ ComponentsCount(g) = 1

TriangleCount(g) ==
  Cardinality({t \in GrIds(g) \X GrIds(g) \X GrIds(g) :
                 t[1] < t[2] /\ t[2] < t[3] /\ HasEdge(g, t[1], t[2])
                 /\ HasEdge(g, t[1], t[3]) /\ HasEdge(g, t[2], t[3])})

(* The transitivity is the first over the second, or 0 when that is 0. *)
Transitivity(g) ==
  <<3 * TriangleCount(g),
    MapThenSumSet(LAMBDA v : (Degree(g, v) * (Degree(g, v) - 1)) \div 2, GrIds(g))>>

-----------------------------------------------------------------------------
(* Building *)

(* uxgraph_create: a negative number of vertices is none. *)
GraphOf(n, directed) ==
  [directed |-> directed, vertices |-> IF n < 0 THEN 0 ELSE n, edges |-> <<>>]

(* uxgraph_add_edge, which refuses a vertex the graph has not. *)
WithEdge(g, v, w) ==
  IF {v, w} \subseteq GrIds(g) THEN [g EXCEPT !.edges = Append(@, <<v, w>>)] ELSE g
WithEdges(g, list) == FoldLeft(LAMBDA h, e : WithEdge(h, e[1], e[2]), g, list)

MakePath(n, directed) == WithEdges(GraphOf(n, directed), [i \in 1..(n - 1) |-> <<i - 1, i>>])
MakeCycle(n, directed) ==
  IF n > 1 THEN WithEdge(MakePath(n, directed), n - 1, 0) ELSE MakePath(n, directed)
MakeComplete(n, directed) ==
  LET m == GraphOf(n, directed).vertices
      pairs == [i \in 1..(m * m) |-> <<(i - 1) \div m, (i - 1) % m>>]
  IN  WithEdges(GraphOf(n, directed),
                SelectSeq(pairs, LAMBDA e : e[1] # e[2] /\ (directed \/ e[1] < e[2])))

(* The CSV file is the list of edges; what is read has the vertices up to the *)
(* greatest one of an edge.                                                  *)
WriteEdgelist(g) == g.edges
ReadEdgelist(list, directed) ==
  WithEdges(GraphOf(Max({-1} \cup UNION {{list[i][1], list[i][2]} : i \in DOMAIN list}) + 1,
                    directed), list)

-----------------------------------------------------------------------------
GrCreate(n, directed) ==
  grGraph = NoGraph /\ grGraph' = GraphOf(n, directed)
GrMake(n, directed) ==
  grGraph = NoGraph /\ grGraph' \in {MakePath(n, directed), MakeCycle(n, directed),
                                     MakeComplete(n, directed)}
GrAddVertices(n) ==
  /\ grGraph # NoGraph /\ grGraph.vertices + n <= GrVertices
  /\ grGraph' = [grGraph EXCEPT !.vertices = @ + n]
GrAddEdge(v, w) ==
  /\ grGraph # NoGraph /\ Len(grGraph.edges) < GrEdges
  /\ grGraph' = WithEdge(grGraph, v, w)
(* The program writes the graph, frees it, and reads the file. *)
GrReload(directed) ==
  /\ grGraph # NoGraph
  /\ grGraph' = ReadEdgelist(WriteEdgelist(grGraph), directed)
GrFree == grGraph # NoGraph /\ grGraph' = NoGraph

GrInit == grGraph = NoGraph
GrNext ==
  \/ \E n \in -1..GrVertices, directed \in BOOLEAN : GrCreate(n, directed) \/ GrMake(n, directed)
  \/ \E n \in 1..2 : GrAddVertices(n)
  \/ \E v, w \in -1..GrVertices : GrAddEdge(v, w)
  \/ \E directed \in BOOLEAN : GrReload(directed)
  \/ GrFree

-----------------------------------------------------------------------------
(* Properties *)

(* The vertices that a walk of at most k edges reaches from v. *)
Within(g, v, k, weak) ==
  FoldLeft(LAMBDA S, i : S \cup {w \in GrIds(g) : \E u \in S : HasEdge(g, u, w)
                                                      \/ (weak /\ HasEdge(g, w, u))},
           {v}, UpTo(k))

(* A distance is the length of a shortest walk, whatever order the edges were *)
(* added in, and -1 exactly when there is none.                              *)
DistancesShortest ==
  \A v, w \in GrIds(grGraph) :
    LET lengths == {k \in 0..grGraph.vertices : w \in Within(grGraph, v, k, FALSE)}
    IN  ShortestDistance(grGraph, v, w) = IF lengths = {} THEN -1 ELSE Min(lengths)

(* The components are the classes of vertices joined without regard to the    *)
(* direction.                                                                *)
ComponentsAreClasses ==
  LET n == grGraph.vertices
  IN  ComponentsCount(grGraph) =
        Cardinality({Within(grGraph, v, n, TRUE) : v \in GrIds(grGraph)})

(* Each edge is counted at both of its ends; a loop is counted at both by a    *)
(* directed graph and once by an undirected one.                             *)
DegreesAddUp ==
  LET total(D(_,_)) == MapThenSumSet(LAMBDA v : D(grGraph, v), GrIds(grGraph))
      edges == Len(grGraph.edges)
  IN  IF grGraph.directed THEN total(InDegree) = edges /\ total(OutDegree) = edges
      ELSE total(Degree) = 2 * edges - SelfLoops(grGraph)
           /\ total(InDegree) = total(OutDegree)

(* In a simple undirected graph the density and the transitivity are at most   *)
(* 1, and both are 1 in the complete one, whose triangles are all triples.   *)
RatiosInRange ==
  LET g == grGraph
      simple == /\ ~g.directed /\ SelfLoops(g) = 0
                /\ \A i, j \in DOMAIN g.edges :
                     ToSet(g.edges[i]) = ToSet(g.edges[j]) => i = j
  IN  /\ simple => /\ Density(g)[1] <= Density(g)[2]
                   /\ Transitivity(g)[1] <= Transitivity(g)[2]
      /\ g.vertices > 2 /\ g = MakeComplete(g.vertices, FALSE) =>
           /\ Density(g)[1] = Density(g)[2] /\ Transitivity(g)[1] = Transitivity(g)[2]
           /\ TriangleCount(g) =
                (g.vertices * (g.vertices - 1) * (g.vertices - 2)) \div 6

(* A file gives back the edges in their order.  Vertices after the last one    *)
(* that has an edge are lost.                                                *)
ReloadKeepsEdges ==
  LET read == ReadEdgelist(WriteEdgelist(grGraph), grGraph.directed)
  IN  /\ read.edges = grGraph.edges
      /\ read.vertices <= grGraph.vertices
      /\ \A v \in GrIds(grGraph) \ GrIds(read) : Degree(grGraph, v) = 0

(* What the library answers about a graph is right, however it was built. *)
GraphAnswersExact ==
  grGraph # NoGraph => /\ DistancesShortest /\ ComponentsAreClasses /\ DegreesAddUp
                       /\ RatiosInRange /\ ReloadKeepsEdges

=============================================================================
