---------------------------- MODULE WindowGraph ----------------------------
(***************************************************************************)
(* The controller-level topology LC_LEVEL_TOPO of the central controller   *)
(* (tflc/app_manager.py): a networkx MultiDiGraph whose nodes are          *)
(* controller ids and whose edges are window links, i.e. links between     *)
(* switches of two control domains.  One physical link contributes two     *)
(* edges, one per direction.                                               *)
(*                                                                         *)
(* The operators below are pure: they take the set of edges and return the *)
(* new one.  The port numbers of a link are abstracted to "link", the      *)
(* identity of the physical link (two parallel links differ in it).        *)
(***************************************************************************)
EXTENDS Integers, FiniteSets, Sequences

\* get_edge_data(u, v): the parallel edges from u to v.
Parallel(E, u, v) == {e \in E : e.from = u /\ e.to = v}

Keys(E, u, v) == {e.key : e \in Parallel(E, u, v)}

Least(S) == CHOOSE k \in S : \A j \in S : k =< j

\* networkx numbers a new parallel edge with the number of edges there are,
\* or the next free key after it.
NewKey(E, u, v) ==
    LET used == Keys(E, u, v)
        free == {k \in Cardinality(used) .. 2 * Cardinality(used) : k \notin used}
    IN  Least(free)

Edge(E, u, v, l, r, lk) ==
    [from |-> u, to |-> v, key |-> NewKey(E, u, v), left |-> l, right |-> r, link |-> lk]

\* The edge a window would add from u to v is already there ("check").
Known(E, w, u, v) ==
    \E e \in Parallel(E, u, v) : e.left = w.src /\ e.right = w.dst /\ e.link = w.link

AddWindowOneWay(E, w, u, v) ==
    IF Known(E, w, u, v) THEN E ELSE E \cup {Edge(E, u, v, w.src, w.dst, w.link)}

\* Both directions of a window between the domains of controllers u and v.
AddWindow(E, w, u, v) ==
    IF Known(E, w, u, v)
    THEN E
    ELSE E \cup {Edge(E, u, v, w.src, w.dst, w.link), Edge(E, v, u, w.dst, w.src, w.link)}

\* The edges from u to v that end at d.
Touching(E, u, v, d) == {e \in Parallel(E, u, v) : d \in {e.left, e.right}}

\* remove_edge(u, v) without a key is called once per edge of u -> v that
\* touches d, and pops one edge of u -> v by popitem, whichever link that is.
\* The order of popitem is that of a dictionary whose past is the same for
\* u -> v and v -> u: the two directions lose the same keys.
Popped(E, d) ==
    {P \in SUBSET E :
        /\ \A e \in E : Cardinality(P \cap Parallel(E, e.from, e.to))
                            = Cardinality(Touching(E, e.from, e.to, d))
        /\ \A e \in P : e.key \in Keys(P, e.to, e.from)}

RemoveLeftOnly(E, d) == {{e \in E : e.left # d}}

\* The graphs that may be left when the switch d goes.
RemoveDatapath(E, d) == {E \ P : P \in Popped(E, d)}

-----------------------------------------------------------------------------

IsPath(E, p) == \A i \in 1 .. Len(p) - 1 : Parallel(E, p[i], p[i + 1]) # {}

PathsOfLength(E, N, a, b, n) ==
    {p \in [1 .. n -> N] : p[1] = a /\ p[n] = b /\ IsPath(E, p)}

\* The results networkx.shortest_path may return; none: NetworkXNoPath.
ShortestPaths(E, N, a, b) ==
    LET lengths == {n \in 1 .. Cardinality(N) : PathsOfLength(E, N, a, b, n) # {}}
        least   == {n \in lengths : \A l \in lengths : n =< l}
    IN  UNION {PathsOfLength(E, N, a, b, n) : n \in least}

OutEdgeReversed(E, u, v) ==
    CHOOSE e \in Parallel(E, v, u) : e.key = Least(Keys(E, v, u))

\* next_edge.keys()[0], the parallel edge the flow of a hop leaves by.
OutEdge(E, u, v) ==
    CHOOSE e \in Parallel(E, u, v) : e.key = Least(Keys(E, u, v))

\* The node the code takes for the predecessor of hop i: path[node_index-1],
\* which Python reads as the last node of the path when node_index is 0.
Before(p, i) == IF i = 1 THEN p[Len(p)] ELSE p[i - 1]

\* edge[before][here][0]: a KeyError when there is no edge with key 0.
HasInEdge(E, p, i) == 0 \in Keys(E, Before(p, i), p[i])

InEdge(E, p, i) == CHOOSE e \in Parallel(E, Before(p, i), p[i]) : e.key = 0
=============================================================================
