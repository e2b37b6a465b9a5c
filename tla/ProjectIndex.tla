---------------------------- MODULE ProjectIndex ----------------------------
(***************************************************************************)
(* The in-memory project index of token_savior/project_indexer.py: one     *)
(* annotated entry per source file and the cross-file tables derived from  *)
(* the entries (symbol table, import graph and its reverse, dependency     *)
(* graph and its reverse, per-symbol body hashes).                         *)
(*                                                                         *)
(* The index is only ever changed by the thread that serves tool calls, so *)
(* each method of ProjectIndexer is one action.  The environment edits the *)
(* working tree between any two of them.  Two kinds of callers exist:      *)
(*   - SlotManager.maybe_update batches remove_file and                    *)
(*     reindex_file(skip_graph_rebuild=True), then calls rebuild_graphs    *)
(*     (`batch' is TRUE in between; no query runs then);                   *)
(*   - the edit, checkpoint and workflow handlers call reindex_file(f)     *)
(*     directly after writing f.                                           *)
(***************************************************************************)
EXTENDS Naturals, Sequences, FiniteSets

CONSTANTS
    Files,      \* relative paths of the project's source files
    Symbols,    \* qualified names of functions, classes and methods
    Modules,    \* what an import statement names
    Contents,   \* the texts a file may hold
    Absent,     \* no such file, no such entry
    Broken,     \* contents the annotator raises on, or that cannot be read
    Defines,    \* Defines[c]: the symbols annotate() finds in c
    Unqualified,\* symbols known by an alias only: classes outside Java
    Hashes,     \* values of compute_body_hash
    BodyHash,   \* BodyHash[c][s]: hash of the body of s in c
    Imports,    \* Imports[c]: the modules c imports
    Uses,       \* Uses[c]: pairs <<s, t>>, the body of s in c mentions t
    Blurred,    \* Blurred[c]: those that stand behind a '#' in a string, or on
                \* a line after a // comment
    Candidates  \* Candidates[m]: paths tried for module m, in order

ASSUME ConstantsAssumption ==
    /\ IsFiniteSet(Files)
    /\ Absent \notin Files \cup Contents \cup Hashes
    /\ Broken \subseteq Contents
    /\ Defines \in [Contents -> SUBSET Symbols]
    /\ Unqualified \subseteq Symbols
    /\ BodyHash \in [Contents -> [Symbols -> Hashes]]
    /\ Imports \in [Contents -> SUBSET Modules]
    /\ Uses \in [Contents -> SUBSET (Symbols \X Symbols)]
    /\ Blurred \in [Contents -> SUBSET (Symbols \X Symbols)]
    /\ \A c \in Contents : Blurred[c] \subseteq Uses[c]
    /\ Candidates \in [Modules -> Seq(Files)]

VARIABLES
    disk,                      \* the working tree
    files,                     \* idx.files; Absent: not a key
    order,                     \* insertion order of the keys of idx.files
    symbol_table,              \* defining file of each symbol
    import_graph,              \* files each file imports from
    reverse_import_graph,      \* files importing each file
    dependency_graph,          \* idx.global_dependency_graph, as pairs
    reverse_dependency_graph,
    symbol_hashes,             \* body hash recorded per file and symbol
    batch                      \* rebuild_graphs is still to come

graphs == <<import_graph, reverse_import_graph, dependency_graph,
            reverse_dependency_graph>>
index == <<files, order, symbol_table, graphs, symbol_hashes>>
vars == <<disk, index, batch>>

-----------------------------------------------------------------------------
(* What the builders compute from the entries.                             *)

Readable(c) == c \in Contents \ Broken

Indexed == {f \in Files : files[f] # Absent}

\* idx.files after a full walk of the tree.
Annotated(tree) == [f \in Files |-> IF Readable(tree[f]) THEN tree[f] ELSE Absent]

\* All orders in which the worker pool may complete the files of S.
Orders(S) ==
    {o \in [1..Cardinality(S) -> S] :
        /\ \A f \in S : \E i \in DOMAIN o : o[i] = f
        /\ \A i, j \in DOMAIN o : o[i] = o[j] => i = j}

FirstFileMutant(fs, ord) ==    \* the first file, defining or not
    [s \in Symbols |->
        IF \E f \in Files : fs[f] # Absent /\ s \in Defines[fs[f]] THEN ord[1] ELSE Absent]

\* First file in dictionary order that defines the symbol wins; a name entered
\* as an alias counts only when a single file defines it.
BuildSymbolTable(fs, ord) ==
    [s \in Symbols |->
        LET defining == {i \in DOMAIN ord :
                            fs[ord[i]] # Absent /\ s \in Defines[fs[ord[i]]]}
            ambiguous == s \in Unqualified /\ \E i, j \in defining : i # j
        IN  IF defining = {} \/ ambiguous THEN Absent
            ELSE ord[CHOOSE i \in defining : \A j \in defining : i <= j]]

\* Files that module m may resolve to: the first candidate that is indexed.
Lookup(m, fs) ==
    LET found == {i \in DOMAIN Candidates[m] : fs[Candidates[m][i]] # Absent}
    IN  {Candidates[m][i] : i \in {k \in found : \A j \in found : k <= j}}

ResolveImports(f, fs) ==
    IF fs[f] = Absent THEN {}
    ELSE UNION {Lookup(m, fs) : m \in Imports[fs[f]]} \ {f}

BuildImportGraph(fs) == [f \in Files |-> ResolveImports(f, fs)]

Reverse(g) == [t \in Files |-> {f \in Files : t \in g[f]}]

\* A use becomes an edge when its target is a known symbol of the project.
BuildDependencyGraph(fs, table) ==
    {e \in Symbols \X Symbols :
        /\ e[1] # e[2]
        /\ table[e[2]] # Absent
        /\ \E f \in Files : fs[f] # Absent /\ e \in Uses[fs[f]]}

ReversePairs(edges) == {<<e[2], e[1]>> : e \in edges}

HashesOf(c) == [s \in Symbols |-> IF s \in Defines[c] THEN BodyHash[c][s] ELSE Absent]

\* Equal hashes and imports mean equal uses, except where _normalize_body
\* drops what follows any '#' or joins a line to the comment before it.
ASSUME HashesTellUses ==
    \A c, d \in Contents \ Broken :
        HashesOf(c) = HashesOf(d) /\ Imports[c] = Imports[d]
            => Uses[c] \ Blurred[c] = Uses[d] \ Blurred[d]

HashTable(fs) ==
    [f \in Files |-> IF fs[f] = Absent THEN [s \in Symbols |-> Absent] ELSE HashesOf(fs[f])]

-----------------------------------------------------------------------------
(* Building the index from scratch.                                        *)

Init ==
    /\ disk \in [Files -> Contents \cup {Absent}]
    /\ files = Annotated(disk)
    /\ order \in Orders(Indexed)
    /\ symbol_table = BuildSymbolTable(files, order)
    /\ import_graph = BuildImportGraph(files)
    /\ reverse_import_graph = Reverse(import_graph)
    /\ dependency_graph = BuildDependencyGraph(files, symbol_table)
    /\ reverse_dependency_graph = ReversePairs(dependency_graph)
    /\ symbol_hashes = HashTable(files)
    /\ batch = FALSE

\* index(): walks the tree, annotates every file with a pool of workers, and
\* installs a new ProjectIndex.
Index ==
    /\ ~batch
    /\ files' = Annotated(disk)
    /\ order' \in Orders({f \in Files : files'[f] # Absent})
    /\ symbol_table' = BuildSymbolTable(files', order')
    /\ import_graph' = BuildImportGraph(files')
    /\ reverse_import_graph' = Reverse(import_graph')
    /\ dependency_graph' = BuildDependencyGraph(files', symbol_table')
    /\ reverse_dependency_graph' = ReversePairs(dependency_graph')
    /\ symbol_hashes' = HashTable(files')
    /\ UNCHANGED <<disk, batch>>

-----------------------------------------------------------------------------
(* Incremental updates.                                                    *)

\* The keys left, in order, once f is deleted.
OrderWithout(f) ==
    LET at == CHOOSE i \in DOMAIN order : order[i] = f
    IN  SubSeq(order, 1, at - 1) \o SubSeq(order, at + 1, Len(order))

\* Importers of every file, with f no longer among them.
ForgetMutant(f) == [reverse_import_graph EXCEPT ![f] = {}]  \* of f only
Forget(f) == [t \in Files |-> reverse_import_graph[t] \ {f}]

\* The symbols reindex_file counts as changed: new or rehashed ones, and the
\* recorded ones the new text no longer defines.
ChangedSymbols(f, c) == {s \in Symbols : symbol_hashes[f][s] # HashesOf(c)[s]}

\* Must the graphs be rebuilt once f holds c?  Not when every body hash and the
\* imports are what they were.
NeedsRebuildMutant(f, c) ==    \* a file that comes back is no reason
    \/ ChangedSymbols(f, c) # {}
    \/ files[f] # Absent /\ Imports[files[f]] # Imports[c]
NeedsRebuild(f, c) ==
    \/ ChangedSymbols(f, c) # {}
    \/ files[f] = Absent
    \/ Imports[files[f]] # Imports[c]

\* The hashes recorded for f: the keys of removed symbols are popped.
RehashedMutant(f, c) ==        \* they are not
    [s \in Symbols |-> IF s \in Defines[c] THEN BodyHash[c][s] ELSE symbol_hashes[f][s]]
Rehashed(f, c) == HashesOf(c)

\* reindex_file(f) when f cannot be read or annotated: the entry goes, the
\* tables derived from it stay.
DropUnreadable(f) ==
    /\ ~Readable(disk[f])
    /\ files[f] # Absent
    /\ files' = [files EXCEPT ![f] = Absent]
    /\ order' = OrderWithout(f)
    /\ import_graph' = [import_graph EXCEPT ![f] = {}]
    /\ reverse_import_graph' = Forget(f)
    /\ UNCHANGED <<symbol_table, dependency_graph, reverse_dependency_graph,
                   symbol_hashes>>

\* reindex_file(f, skip) when the new text is annotated.
Reannotate(f, skip) ==
    LET c == disk[f]
    IN  /\ Readable(c)
        /\ files' = [files EXCEPT ![f] = c]
        /\ order' = IF files[f] = Absent THEN Append(order, f) ELSE order
        /\ symbol_hashes' = [symbol_hashes EXCEPT ![f] = Rehashed(f, c)]
        /\ symbol_table' = BuildSymbolTable(files', order')
        /\ import_graph' = [import_graph EXCEPT ![f] = ResolveImports(f, files')]
        /\ IF ~skip /\ NeedsRebuild(f, c)
           THEN /\ reverse_import_graph' = Reverse(import_graph')
                /\ dependency_graph' = BuildDependencyGraph(files', symbol_table')
                /\ reverse_dependency_graph' = ReversePairs(dependency_graph')
           ELSE /\ reverse_import_graph' =
                       IF files[f] = Absent THEN reverse_import_graph ELSE Forget(f)
                /\ UNCHANGED <<dependency_graph, reverse_dependency_graph>>

ReindexFile(f, skip) == DropUnreadable(f) \/ Reannotate(f, skip)

\* remove_file(f): nothing happens when f is not a key; symbol_hashes and the
\* dependency graphs keep what they say about f.
RemoveFile(f) ==
    /\ files[f] # Absent
    /\ files' = [files EXCEPT ![f] = Absent]
    /\ order' = OrderWithout(f)
    /\ symbol_table' = BuildSymbolTable(files', order')
    /\ import_graph' = [import_graph EXCEPT ![f] = {}]
    /\ reverse_import_graph' = Forget(f)
    /\ UNCHANGED <<dependency_graph, reverse_dependency_graph, symbol_hashes>>

RebuildGraphs ==
    /\ symbol_table' = BuildSymbolTable(files, order)
    /\ import_graph' = BuildImportGraph(files)
    /\ reverse_import_graph' = Reverse(import_graph')
    /\ dependency_graph' = BuildDependencyGraph(files, symbol_table')
    /\ reverse_dependency_graph' = ReversePairs(dependency_graph')
    /\ UNCHANGED <<files, order, symbol_hashes>>

-----------------------------------------------------------------------------
(* The callers.                                                            *)

\* Someone edits, creates or deletes a file of the project.
Edit(f) ==
    /\ \E c \in (Contents \cup {Absent}) \ {disk[f]} : disk' = [disk EXCEPT ![f] = c]
    /\ UNCHANGED <<index, batch>>

\* maybe_update: removals and deferred reindexing, then one rebuild.
BatchRemove(f) == RemoveFile(f) /\ batch' = TRUE /\ UNCHANGED disk
BatchReindex(f) == ReindexFile(f, TRUE) /\ batch' = TRUE /\ UNCHANGED disk
\* rebuild_graphs also runs when no removal or reindexing changed anything.
EndBatch == RebuildGraphs /\ batch' = FALSE /\ UNCHANGED disk

\* The edit, restore and apply-and-validate handlers.
DirectReindex(f) == ~batch /\ ReindexFile(f, FALSE) /\ UNCHANGED <<disk, batch>>

Next ==
    \/ Index
    \/ EndBatch
    \/ \E f \in Files : Edit(f) \/ BatchRemove(f) \/ BatchReindex(f) \/ DirectReindex(f)

Spec == Init /\ [][Next]_vars
-----------------------------------------------------------------------------
(* Properties.                                                             *)

\* The dictionary order names exactly the indexed files, each once.
OrderOK ==
    /\ Indexed = {order[i] : i \in DOMAIN order}
    /\ \A i, j \in DOMAIN order : order[i] = order[j] => i = j

TypeOK ==
    /\ disk \in [Files -> Contents \cup {Absent}]
    /\ files \in [Files -> Contents \cup {Absent}]
    /\ order \in Seq(Files)
    /\ symbol_table \in [Symbols -> Files \cup {Absent}]
    /\ import_graph \in [Files -> SUBSET Files]
    /\ reverse_import_graph \in [Files -> SUBSET Files]
    /\ dependency_graph \subseteq Symbols \X Symbols
    /\ reverse_dependency_graph \subseteq Symbols \X Symbols
    /\ symbol_hashes \in [Files -> [Symbols -> Hashes \cup {Absent}]]
    /\ batch \in BOOLEAN
    /\ OrderOK

\* Whatever sequence of builds, batched updates, direct reindexing and failed
\* reindexing has run, even in the middle of a batch, an importer that
\* get_dependents or impacted_tests reads from reverse_import_graph is still
\* indexed and does import the file: reindex_file and remove_file retract an
\* entry's edges from both graphs.
NoPhantomImporters ==
    /\ \A f \in Files \ Indexed : import_graph[f] = {}
    /\ \A t \in Files : \A f \in reverse_import_graph[t] : t \in import_graph[f]

\* find_symbol never sends a reader to an indexed file that does not define
\* the symbol, and knows every qualified symbol of every indexed file: a stale
\* owner is only ever a file that a failed reindex_file dropped.
SymbolTableSound ==
    /\ \A s \in Symbols :
          symbol_table[s] \in Indexed => s \in Defines[files[symbol_table[s]]]
    /\ \A f \in Indexed :
          \A s \in Defines[files[f]] \ Unqualified : symbol_table[s] # Absent

\* The recorded hashes of an indexed file are those of the annotated text,
\* also after the file was dropped with its hashes left behind and came back:
\* the comparison that decides whether graphs are rebuilt reads them.
HashesCurrent == \A f \in Indexed : symbol_hashes[f] = HashesOf(files[f])

DependenciesExact ==
    /\ symbol_table = BuildSymbolTable(files, order)
    /\ dependency_graph = BuildDependencyGraph(files, symbol_table)
    /\ reverse_dependency_graph = ReversePairs(dependency_graph)

\* The text of f that is indexed, and the one that takes its place, agree on
\* the uses their hashes cannot tell.
NoBlurredUseChanges(f) == files[f] # Absent => Blurred[files[f]] = Blurred[disk[f]]

\* The shortcut of reindex_file is sound for the dependency graph: after any
\* batches, drops and failures, a direct reindex that finds all body hashes and
\* imports unchanged keeps the graph a rebuild would compute.  Not so, as
\* project_indexer.py:520 has it, if a use that _normalize_body hides came or
\* went: then the graph that is kept is the old one.
ReindexKeepsDependencies ==
    [][\A f \in Files :
          DirectReindex(f) /\ Readable(disk[f]) /\ NoBlurredUseChanges(f) /\ DependenciesExact
              => DependenciesExact']_vars
=============================================================================
