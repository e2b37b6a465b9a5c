----------------------------- MODULE Communities -----------------------------
(* The two community detectors: the greedy modularity search of            *)
(* leiden_communities.py and the label propagation behind                  *)
(* get_symbol_cluster (community.py).  Both work on the undirected graph   *)
(* adj of the symbols, one symbol per step; a dict or a set is visited in  *)
(* any order, and so is the list random.shuffle returns.                   *)
EXTENDS Integers, FiniteSets, FiniteSetsExt, Functions, Closure

CONSTANTS
    Graphs,         \* dependency graphs to cluster: symbol -> what it refers to
    MaxPasses,      \* passes of the modularity search
    MaxRounds,      \* rounds of the label propagation
    MinSize, MaxSize,   \* sizes of the communities the search keeps
    Rank            \* [symbols -> Nat]: their alphabetical order

SymbolsOf(graph) == DOMAIN graph \cup UNION Range(graph)

ASSUME CommunitiesAssumption ==
    \A graph \in Graphs :
        /\ IsFiniteSet(SymbolsOf(graph))
        /\ \A n \in SymbolsOf(graph) : n \in DOMAIN Rank /\ Rank[n] \in Nat

VARIABLES
    adj,        \* symbol -> its neighbours, or the empty function
    algorithm,  \* "search", "labels" or "none"
    group,      \* symbol -> the community or label it has
    degreeOf,   \* community -> the sum of the degrees of its members
    todo,       \* symbols this pass has still to visit
    moved,      \* whether this pass changed anything
    pass,       \* passes begun
    clusters    \* the communities returned

communityVars == <<adj, algorithm, group, degreeOf, todo, moved, pass, clusters>>

\* Both symmetrize the dependency graph; the search drops self-loops and
\* symbols without an edge.
Undirected(graph, kind) ==
    LET edges == {e \in (DOMAIN graph) \X UNION Range(graph) :
                    e[2] \in graph[e[1]] /\ (kind = "search" => e[1] # e[2])}
        ends == (UNION {{e[1], e[2]} : e \in edges})
                  \cup (IF kind = "labels" THEN DOMAIN graph ELSE {})
    IN  [n \in ends |-> {k \in ends : <<n, k>> \in edges \/ <<k, n>> \in edges}]

Degree(n) == Cardinality(adj[n])
TotalDegree == SumFunction([n \in DOMAIN adj |-> Degree(n)])
Members(g) == {n \in DOMAIN adj : group[n] = g}
Least(S) == CHOOSE n \in S : \A k \in S : Rank[n] <= Rank[k]

CommunitiesInit ==
    /\ adj = [n \in {} |-> {}] /\ algorithm = "none"
    /\ group = [n \in {} |-> {}] /\ degreeOf = [n \in {} |-> 0]
    /\ todo = {} /\ moved = FALSE /\ pass = 0 /\ clusters = {}

Start(kind, graph) ==
    /\ algorithm = "none"
    /\ algorithm' = kind
    /\ adj' = Undirected(graph, kind)
    /\ group' = [n \in DOMAIN adj' |-> n]
    /\ degreeOf' = [n \in DOMAIN adj' |-> Cardinality(adj'[n])]
    /\ todo' = DOMAIN adj' /\ moved' = FALSE /\ pass' = 1 /\ clusters' = {}

StartClustering == \E graph \in Graphs, kind \in {"search", "labels"} : Start(kind, graph)

\* The clusters are handed over.
HandOver ==
    /\ algorithm = "none"
    /\ adj' = [n \in {} |-> {}] /\ algorithm' = "none"
    /\ group' = [n \in {} |-> {}] /\ degreeOf' = [n \in {} |-> 0]
    /\ todo' = {} /\ moved' = FALSE /\ pass' = 0 /\ clusters' = {}

\* Another pass while the last one changed something.
NextPass ==
    /\ algorithm # "none" /\ todo = {} /\ moved
    /\ pass < IF algorithm = "search" THEN MaxPasses ELSE MaxRounds
    /\ pass' = pass + 1 /\ todo' = DOMAIN adj /\ moved' = FALSE
    /\ UNCHANGED <<adj, algorithm, group, degreeOf, clusters>>

PassesDone ==
    /\ algorithm # "none" /\ todo = {}
    /\ moved => pass = IF algorithm = "search" THEN MaxPasses ELSE MaxRounds
-----------------------------------------------------------------------------
(* The modularity search.                                                  *)

\* The gain of putting n into community g, times the square of TotalDegree,
\* once n has left its own.
GainMutant(n, g, degrees) == Cardinality(adj[n] \cap Members(g)) * TotalDegree
Gain(n, g, degrees) ==
    Cardinality(adj[n] \cap Members(g)) * TotalDegree - degrees[g] * Degree(n)

\* n moves to a community of its neighbours with the largest gain, if any
\* gain is positive, and stays where it is otherwise.
MoveSymbol ==
    /\ algorithm = "search"
    /\ \E n \in todo :
          LET left == [degreeOf EXCEPT ![group[n]] = @ - Degree(n)]
              near == {group[k] : k \in adj[n]}
              best == {g \in near : /\ Gain(n, g, left) > 0
                                    /\ \A h \in near : Gain(n, h, left) <= Gain(n, g, left)}
          IN  \E g \in IF best = {} THEN {group[n]} ELSE best :
                 /\ group' = [group EXCEPT ![n] = g]
                 /\ degreeOf' = [left EXCEPT ![g] = @ + Degree(n)]
                 /\ moved' = (moved \/ g # group[n])
                 /\ todo' = todo \ {n}
    /\ UNCHANGED <<adj, algorithm, pass, clusters>>

\* Communities of the sizes asked for are kept, each under its hub's name.
FinishSearch ==
    /\ algorithm = "search" /\ PassesDone
    /\ algorithm' = "none"
    /\ clusters' = {[id |-> n, members |-> Members(group[n])] :
                      n \in {n \in DOMAIN adj : /\ Cardinality(Members(group[n])) \in MinSize..MaxSize
                                                /\ n = CHOOSE h \in Members(group[n]) :
                                                     \A k \in Members(group[n]) : Degree(k) <= Degree(h)}}
    /\ UNCHANGED <<adj, group, degreeOf, todo, moved, pass>>
-----------------------------------------------------------------------------
(* Label propagation.                                                      *)

\* A symbol takes the commonest label of its neighbours, the least of those.
Votes(n, g) == Cardinality({k \in adj[n] : group[k] = g})
Commonest(n) ==
    LET votes == {group[k] : k \in adj[n]}
    IN  Least({g \in votes : \A h \in votes : Votes(n, h) <= Votes(n, g)})

RelabelSymbolMutant ==
    /\ algorithm = "labels"
    /\ \E n \in todo :
          LET votes == Range(group)
              label == Least({g \in votes : \A h \in votes : Votes(n, h) <= Votes(n, g)})
          IN  /\ group' = [group EXCEPT ![n] = label]
              /\ moved' = (moved \/ label # group[n])
              /\ todo' = todo \ {n}
    /\ UNCHANGED <<adj, algorithm, degreeOf, pass, clusters>>
RelabelSymbol ==
    /\ algorithm = "labels"
    /\ \E n \in todo :
          LET label == IF adj[n] = {} THEN group[n] ELSE Commonest(n)
          IN  /\ group' = [group EXCEPT ![n] = label]
              /\ moved' = (moved \/ label # group[n])
              /\ todo' = todo \ {n}
    /\ UNCHANGED <<adj, algorithm, degreeOf, pass, clusters>>

\* A cluster is named after its best-connected member, the least of those.
FinishLabels ==
    /\ algorithm = "labels" /\ PassesDone
    /\ algorithm' = "none"
    /\ LET inside(n) == Cardinality(adj[n] \cap Members(group[n]))
           id(g) == Least({n \in Members(g) : \A k \in Members(g) : inside(k) <= inside(n)})
       IN  clusters' = {[id |-> id(g), members |-> Members(g)] : g \in Range(group)}
    /\ UNCHANGED <<adj, group, degreeOf, todo, moved, pass>>

CommunitiesStep == NextPass \/ MoveSymbol \/ FinishSearch \/ RelabelSymbol \/ FinishLabels

CommunitiesNext == StartClustering \/ CommunitiesStep \/ HandOver
CommunitiesSpec == CommunitiesInit /\ [][CommunitiesNext]_communityVars
-----------------------------------------------------------------------------
(* What is asked for.                                                      *)

\* Modularity times the square of TotalDegree.
Modularity(g) ==
    SumFunction([c \in Range(g) |->
        LET in == {n \in DOMAIN adj : g[n] = c}
            degree == SumFunction([n \in in |-> Degree(n)])
        IN  SumFunction([n \in in |-> Cardinality(adj[n] \cap in)]) * TotalDegree - degree * degree])

\* The symbols a path joins to n.
Component(n) ==
    Within(adj, {n}, Cardinality(DOMAIN adj))

\* No move of the search makes the modularity of the partition smaller, so
\* that it may be stopped after any pass.
MovesKeepModularity ==
    [][algorithm = "search" /\ algorithm' = "search" =>
          Modularity(group') >= Modularity(group)]_communityVars

\* A cluster never joins symbols that no path of dependencies joins.
ClustersStayConnected ==
    \A n, k \in DOMAIN adj : group[n] = group[k] => k \in Component(n)
=============================================================================
