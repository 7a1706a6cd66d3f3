---------------------------- MODULE PathSearch -----------------------------
(***************************************************************************)
(* scripts/graph.py: Graph.deserialize() reads the chapters of the tutorial  *)
(* and their files, and Graph.find_paths() the paths through them that        *)
(* scripts/chapters.py builds a variant for.  The recursion is a stack of    *)
(* calls; a frame is a path and the nodes it has still to go on with.        *)
(*                                                                         *)
(* A line of the file is <<"edge", a, b>>, <<"files", a, names>>,            *)
(* <<"blank">> or, when it matches neither expression, <<"odd">>.            *)
(***************************************************************************)
EXTENDS Integers, Sequences, FiniteSets, SequencesExt, TLC

CONSTANTS
  Nodes,       \* the chapters
  GraphFiles,  \* files, as sequences of lines
  MaxDepth     \* Python's recursion limit

(* The chapters are numbers, and deserialize() takes them from the edges. *)
ASSUME PathSearchAssumption ==
  /\ Nodes \subseteq Nat /\ IsFiniteSet(Nodes) /\ MaxDepth \in Nat
  /\ \A f \in GraphFiles :
       /\ f \in Seq(ToSet(f))
       /\ \A l \in ToSet(f) : l[1] = "edge" => l[2] \in Nodes /\ l[3] \in Nodes

VARIABLES
  graphFile, \* the file
  graphLine, \* the line deserialize() reads next
  nodes,     \* of the graph: the files of each
  edges,
  root, goal,
  searching, \* _recurse() calls, the innermost last
  tried,     \* sp
  paths,     \* the paths found
  pathPc     \* "load", "search", "done", "overflow" or "refused"

graphVars == << graphFile, graphLine, nodes, edges >>
pathVars == << graphVars, root, goal, searching, tried, paths, pathPc >>

PathInit ==
  /\ graphFile \in GraphFiles /\ graphLine = 1
  /\ nodes = << >> /\ edges = {} /\ root = 0 /\ goal = 0
  /\ searching = << >> /\ tried = {} /\ paths = {} /\ pathPc = "load"

add_node(d, n) == d @@ (n :> << >>)

-----------------------------------------------------------------------------
(* deserialize() *)

Loading == pathPc = "load" /\ graphLine <= Len(graphFile)
ThisLine == graphFile[graphLine]

ReadEdge ==
  /\ Loading /\ ThisLine[1] = "edge"
  /\ nodes' = add_node(add_node(nodes, ThisLine[2]), ThisLine[3])
  /\ edges' = edges \cup {<< ThisLine[2], ThisLine[3] >>}
  /\ graphLine' = graphLine + 1
  /\ UNCHANGED << graphFile, root, goal, searching, tried, paths, pathPc >>

ReadFiles ==
  /\ Loading /\ ThisLine[1] = "files" /\ ThisLine[2] \in DOMAIN nodes
  /\ nodes' = [nodes EXCEPT ![ThisLine[2]] = @ \o ThisLine[3]]
  /\ graphLine' = graphLine + 1
  /\ UNCHANGED << graphFile, edges, root, goal, searching, tried, paths, pathPc >>

SkipBlank ==
  /\ Loading /\ ThisLine[1] = "blank"
  /\ graphLine' = graphLine + 1
  /\ UNCHANGED << graphFile, nodes, edges, root, goal, searching, tried, paths, pathPc >>

(* GraphSyntaxError, and KeyError for the files of a chapter without an edge *)
(* before them                                                              *)
RefuseLine ==
  /\ Loading /\ (ThisLine[1] = "odd" \/ (ThisLine[1] = "files" /\ ThisLine[2] \notin DOMAIN nodes))
  /\ pathPc' = "refused"
  /\ UNCHANGED << graphVars, root, goal, searching, tried, paths >>

-----------------------------------------------------------------------------
(* find_paths() *)

NextNodes(n) == {e[2] : e \in {e \in edges : e[1] = n}}
Frame(path) == [path |-> path, left |-> NextNodes(Last(path))]

FindPaths(r, g) ==
  /\ pathPc = "load" /\ graphLine > Len(graphFile)
  /\ root' = r /\ goal' = g
  /\ CASE {r, g} \notin SUBSET DOMAIN nodes -> pathPc' = "refused" /\ UNCHANGED << searching, paths >>
       [] {r, g} \in SUBSET DOMAIN nodes /\ r = g -> pathPc' = "done" /\ paths' = {<< r >>} /\ UNCHANGED searching
       [] OTHER -> pathPc' = "search" /\ searching' = << Frame(<< r >>) >> /\ UNCHANGED paths
  /\ UNCHANGED << graphVars, tried >>

(* _cycles_on(): the parts of a path between occurrences of n, not the empty *)
(* ones; here as pairs of the places around them.                            *)
CyclesAndGaps(path, n) ==                  \* mutant: the empty ones too
  LET cut == {0, Len(path) + 1} \cup {i \in DOMAIN path : path[i] = n}
  IN {p \in cut \X cut : p[1] < p[2] /\ \A c \in cut : c <= p[1] \/ c >= p[2]}
CyclesOn(path, n) ==
  LET cut == {0, Len(path) + 1} \cup {i \in DOMAIN path : path[i] = n}
  IN {p \in cut \X cut : p[1] + 1 < p[2] /\ \A c \in cut : c <= p[1] \/ c >= p[2]}

HasDoubleCycle(path) ==
  \E n \in ToSet(path) : \E p, q \in CyclesOn(path, n) :
    /\ p # q
    /\ SubSeq(path, p[1] + 1, p[2] - 1) = SubSeq(path, q[1] + 1, q[2] - 1)

Top == Last(searching)
Tried(n) == Append(Top.path, n)
Going == pathPc = "search" /\ searching # << >> /\ Top.left # {}
Taken == [Top EXCEPT !.left = @ \ {Min(@)}]

Skip ==
  /\ Going /\ (Tried(Min(Top.left)) \in tried \/ HasDoubleCycle(Top.path))
  /\ searching' = Append(Front(searching), Taken)
  /\ UNCHANGED << graphVars, root, goal, tried, paths, pathPc >>

Visit ==
  /\ Going
  /\ LET n == Min(Top.left) IN
       /\ Tried(n) \notin tried /\ ~HasDoubleCycle(Top.path)
       /\ tried' = tried \cup {Tried(n)}
       /\ IF n = goal
          THEN paths' = paths \cup {Tried(n)} /\ searching' = Append(Front(searching), Taken)
          ELSE /\ Len(searching) < MaxDepth
               /\ searching' = Append(Append(Front(searching), Taken), Frame(Tried(n)))
               /\ UNCHANGED paths
  /\ UNCHANGED << graphVars, root, goal, pathPc >>

Overflow ==
  /\ Going /\ Len(searching) = MaxDepth /\ Min(Top.left) # goal
  /\ Tried(Min(Top.left)) \notin tried /\ ~HasDoubleCycle(Top.path)
  /\ pathPc' = "overflow"
  /\ UNCHANGED << graphVars, root, goal, searching, tried, paths >>

Return ==
  /\ pathPc = "search" /\ Top.left = {}
  /\ searching' = Front(searching)
  /\ pathPc' = IF Len(searching) = 1 THEN "done" ELSE "search"
  /\ UNCHANGED << graphVars, root, goal, tried, paths >>

PathNext ==
  \/ ReadEdge \/ ReadFiles \/ SkipBlank \/ RefuseLine
  \/ \E r, g \in Nodes : FindPaths(r, g)
  \/ Skip \/ Visit \/ Overflow \/ Return
PathSpec == PathInit /\ [][PathNext]_pathVars

-----------------------------------------------------------------------------
GraphLinesOf(kind) == SelectSeq(graphFile, LAMBDA l : l[1] = kind)
NamedInEdges == UNION {{l[2], l[3]} : l \in ToSet(GraphLinesOf("edge"))}

(* A graph that was read has the chapters and the edges of the file, and     *)
(* each chapter the files of all its lines in their order, wherever the edges *)
(* stand between them.  A file is refused for a line that is none of these,  *)
(* or for files before the chapter's first edge.                             *)
GraphIsFile ==
  /\ pathPc \in {"search", "done", "overflow"} =>
       /\ edges = {<< l[2], l[3] >> : l \in ToSet(GraphLinesOf("edge"))} /\ DOMAIN nodes = NamedInEdges
       /\ \A n \in NamedInEdges :
            LET f == GraphLinesOf("files")
            IN nodes[n] = FlattenSeq([i \in DOMAIN f |-> IF f[i][2] = n THEN f[i][3] ELSE << >>])
  /\ pathPc = "refused" /\ root = 0 =>
       \/ GraphLinesOf("odd") # << >>
       \/ \E i \in DOMAIN graphFile :
            /\ graphFile[i][1] = "files"
            /\ \A j \in 1 .. i - 1 : graphFile[j][1] = "edge" => graphFile[i][2] \notin {graphFile[j][2], graphFile[j][3]}

SimplePaths ==
  {p \in UNION {[1 .. k -> Nodes] : k \in 1 .. Cardinality(Nodes)} :
     /\ IsInjective(p) /\ p[1] = root /\ Last(p) = goal
     /\ \A i \in 1 .. Len(p) - 1 : << p[i], p[i + 1] >> \in edges}

(* When the search ends, every path that repeats no chapter was found.  (Of  *)
(* the others some are missing: a round over two nodes already counts as a   *)
(* double one, seen from the second.)                                        *)
PathsComplete == pathPc = "done" => SimplePaths \subseteq paths

(* The search ends on every graph in which no chapter follows itself: two    *)
(* equal rounds stop it.  (An edge from a node to itself makes a round of no *)
(* nodes, which _cycles_on() leaves out: the recursion overflows.)           *)
SearchEnds == (\A n \in Nodes : << n, n >> \notin edges) => pathPc # "overflow"

(* The graph is the one in the file, and the search through it ends with     *)
(* every simple path found.                                                  *)
GraphSearched == GraphIsFile /\ PathsComplete /\ SearchEnds
=============================================================================
