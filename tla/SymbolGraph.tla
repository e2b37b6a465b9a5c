---------------------------- MODULE SymbolGraph ----------------------------
(* How the query engine reads the symbol dependency graph of an index      *)
(* (query_api.py).  The graph is a partial function deps from names to the *)
(* names they refer to; a class and its methods answer for one another,    *)
(* and a name may stand for every function that goes by it.                *)
EXTENDS Naturals, Sequences, FiniteSets, SequencesExt

CONSTANTS
    Symbols,    \* qualified names of the indexed functions, methods and classes
    Classes,    \* those that are classes
    Methods,    \* [Classes -> SUBSET Symbols]
    Alias,      \* [Symbols \ Classes -> SUBSET Names]: the names a function goes by
    Names,      \* the symbols, the bare names of methods, and the graph's entry points
    Sorted,     \* the names in the order _call_chain_neighbor_key sorts them
    None

Functions == Symbols \ Classes
OwnersOf(n) == {c \in Classes : n \in Methods[c]}

ASSUME SymbolsAssumption ==
    /\ Classes \subseteq Symbols /\ Symbols \subseteq Names /\ None \notin Names
    /\ Methods \in [Classes -> SUBSET Functions]
    /\ Alias \in [Functions -> SUBSET Names]
    /\ \A f \in Functions : f \in Alias[f] /\ Cardinality(OwnersOf(f)) <= 1

-----------------------------------------------------------------------------
(* Edges.                                                                  *)

Dependencies(deps, n) == IF n \in DOMAIN deps THEN deps[n] ELSE {}
Referrers(deps, n) == {s \in DOMAIN deps : n \in deps[s]}
ClassAliases(n) == {n} \cup IF n \in Classes THEN Methods[n] ELSE {}
WithMethods(S) == UNION {ClassAliases(n) : n \in S}

\* A class with its methods, for the class and for each of its methods.
Family(n) == ClassAliases(n) \cup WithMethods(OwnersOf(n))

ForwardPresence(deps, n) == ClassAliases(n) \cap DOMAIN deps # {}
AnyPresence(deps, n) == ForwardPresence(deps, n) \/ Referrers(deps, n) # {}

AggregatedDependencies(deps, n) ==
    WithMethods(UNION {Dependencies(deps, a) : a \in Family(n)})
AggregatedDependents(deps, n) ==
    UNION {Referrers(deps, a) : a \in Family(n)}

-----------------------------------------------------------------------------
(* Names.                                                                  *)

Called(n) == {f \in Functions : n \in Alias[f]}

\* The symbol a name is resolved to when exactly one answers to it.
InfoName(n) == IF n \in Symbols \/ Cardinality(Called(n)) # 1 THEN n
               ELSE CHOOSE f \in Called(n) : TRUE

ResolveGraphName(deps, n) ==
    IF n \in DOMAIN deps \/ (n \in Classes /\ ForwardPresence(deps, n)) THEN n
    ELSE IF InfoName(n) \in DOMAIN deps THEN InfoName(n)
    ELSE IF OwnersOf(n) \cap DOMAIN deps # {}
         THEN CHOOSE c \in OwnersOf(n) : TRUE
    ELSE None

\* Every name a neighbour may stand for: what it resolves to, the aliases of
\* each function that goes by it, and a class with its methods.
Candidates(deps, n) ==
    {n, InfoName(n)} \cup ({ResolveGraphName(deps, n)} \ {None})
    \cup (UNION {Alias[f] : f \in Called(n)})
    \cup ClassAliases(n)

TargetNames(deps, n) == UNION {Candidates(deps, a) : a \in Family(n)}

\* What a hop of a call chain may go to.
NeighborsMutant(deps, n) ==
    IF n \in Classes
    THEN Dependencies(deps, n) \cup {m \in Methods[n] : AnyPresence(deps, m)}
    ELSE Dependencies(deps, n) \cup {c \in OwnersOf(n) : ForwardPresence(deps, c)}
Neighbors(deps, n) ==
    IF n \in Classes
    THEN Dependencies(deps, n) \cup {m \in Methods[n] : AnyPresence(deps, m)}
    ELSE LET as == {n, InfoName(n)} \cup (UNION {Alias[f] : f \in Called(n)})
         IN  (UNION {Dependencies(deps, a) : a \in as})
             \cup {c \in UNION {OwnersOf(f) : f \in Called(n)} : ForwardPresence(deps, c)}
=============================================================================
