------------------------------ MODULE Queries ------------------------------
(* The graph queries of ProjectQueryEngine (query_api.py) and the choice   *)
(* of impacted tests (impacted_tests.py) over one index.  A query is a     *)
(* walk, one step per element taken from its queue.  The order in which a  *)
(* Python set is visited is left open: a queue is kept as the set of its   *)
(* elements, of which one with the least depth comes first.                *)
EXTENDS SymbolGraph, ImportCycles

CONSTANTS
    Indexes,    \* the indexes asked: [deps |-> graph, imports |-> graph]
    TestFiles,
    FileOf,     \* [Names -> Files \cup {None}]: the symbol table
    Defines,    \* [Files -> SUBSET Symbols]
    NameMatch,  \* [Files -> SUBSET TestFiles]: tests at the paths a file's test has
    StemMatch,  \* [Files -> SUBSET TestFiles]: tests whose name holds the file's
    Depths,     \* the depths get_dependencies is asked for
    Limits,     \* and the limits; 0 is none
    MaxTests,
    MaxCycles,
    MaxChanged  \* bound on the files changed at once

ASSUME QueriesAssumption ==
    /\ IsFiniteSet(Names) /\ IsFiniteSet(Files)
    /\ TestFiles \subseteq Files /\ Files \cap Names = {}
    /\ None \notin Files \cup [complete : BOOLEAN]
    /\ \A i \in Indexes : /\ DOMAIN i.deps \subseteq Names /\ DOMAIN i.imports \subseteq Files
                          /\ \A n \in DOMAIN i.deps : i.deps[n] \subseteq Names
                          /\ \A f \in DOMAIN i.imports : i.imports[f] \subseteq Files
    /\ FileOf \in [Names -> Files \cup {None}]
    /\ Defines \in [Files -> SUBSET Symbols]
    /\ NameMatch \in [Files -> SUBSET TestFiles]
    /\ StemMatch \in [Files -> SUBSET TestFiles]
    /\ Depths \subseteq Nat \ {0} /\ Limits \subseteq Nat
    /\ MaxTests \in Nat \ {0} /\ MaxCycles \in Nat /\ MaxChanged \in Nat

\* Each name has its place in the order, methods before their class.  What is
\* referred to by the name of a method has an entry: those of Java have one, and
\* nothing refers to the others by a qualified name.  No function goes by the
\* name of a class, or of a method of another class.
ASSUME ChainAssumption ==
    /\ Sorted \in Seq(Names) /\ Names \subseteq {Sorted[k] : k \in DOMAIN Sorted}
    /\ \A c \in Classes : \A m \in Methods[c] : \A k \in DOMAIN Sorted :
          Sorted[k] = c => \E j \in 1..(k - 1) : Sorted[j] = m
    /\ \A i \in Indexes : \A n \in DOMAIN i.deps : \A m \in i.deps[n] :
          OwnersOf(m) # {} => m \in DOMAIN i.deps
    /\ \A f \in Functions : \A n \in Alias[f] : n \notin Classes /\ OwnersOf(n) \subseteq OwnersOf(f)

VARIABLES
    index,      \* the project index; queries only read it
    ask,        \* the query being answered, or the last one
    queue,      \* what the walk has still to visit
    seen,       \* what it has queued so far
    found,      \* symbol -> depth, or test file -> what becomes of it
    answer      \* its answer, or None while it runs

vars == <<index, ask, queue, seen, found, answer, cycleVars>>

deps == index.deps
Importers(f) == {g \in DOMAIN index.imports : f \in index.imports[g]}
Running(kind) == ask.kind = kind /\ answer = None
Shallowest == {q \in queue : \A r \in queue : q.depth <= r.depth}
At(S, d) == {[name |-> s, depth |-> d] : s \in S}
Tag(map, S, v) == [s \in DOMAIN map \cup S |-> IF s \in DOMAIN map THEN map[s] ELSE v]
Nothing == [s \in {} |-> 0]

Idle == ask.kind = "none"

Begin(query, Q, S, F) ==
    /\ Idle
    /\ ask' = query /\ queue' = Q /\ seen' = S /\ found' = F /\ answer' = None
    /\ UNCHANGED <<index, cycleVars>>

Finish(result) ==
    /\ answer' = result
    /\ UNCHANGED <<index, ask, queue, seen, cycleVars>>

Init ==
    /\ index \in Indexes
    /\ ask = [kind |-> "none"] /\ answer = None
    /\ queue = {} /\ seen = {} /\ found = Nothing
    /\ CyclesInit

\* The reply is sent, and the next query starts afresh.
Reply ==
    /\ answer # None
    /\ ask' = [kind |-> "none"] /\ answer' = None
    /\ queue' = {} /\ seen' = {} /\ found' = Nothing
    /\ number' = Nothing /\ low' = Nothing /\ stack' = <<>> /\ frames' = <<>> /\ cycles' = {}
    /\ UNCHANGED index
-----------------------------------------------------------------------------
(* get_dependents, and get_dependencies one level deep.                    *)

\* A limit keeps the first names, whichever those are.
Keep(S, limit) ==
    {kept \in SUBSET S : Cardinality(kept) =
        IF limit = 0 THEN Cardinality(S) ELSE Min({limit, Cardinality(S)})}

AskDirect(kind, n, limit) ==
    LET root == ResolveGraphName(deps, n)
        all == IF kind = "dependents" THEN AggregatedDependents(deps, n)
               ELSE AggregatedDependencies(deps, root)
    IN  /\ Idle
        /\ kind = "dependencies" => root # None
        /\ \E kept \in Keep(all, limit) :
              /\ found' = Tag(Nothing, kept, 1)
              /\ answer' = [complete |-> limit = 0 \/ kept = all]
        /\ ask' = [kind |-> kind, name |-> n, depth |-> 1, limit |-> limit]
        /\ queue' = {} /\ seen' = {}
        /\ UNCHANGED <<index, cycleVars>>

(* get_dependencies over several levels: layers, cut at max_results.       *)

AskDependencies(n, depth, limit) ==
    LET root == ResolveGraphName(deps, n)
    IN  /\ root # None
        /\ Begin([kind |-> "walk", name |-> root, depth |-> depth, limit |-> limit],
                 At({root}, 0), {root}, Nothing)

\* Each name is listed once, under the node that reached it first.
VisitDependency ==
    /\ Running("walk")
    /\ \E q \in Shallowest :
          LET new == AggregatedDependencies(deps, q.name) \ seen
              room == ask.limit - Cardinality(DOMAIN found)
          IN  /\ q.depth < ask.depth
              /\ \E kept \in Keep(new, IF ask.limit = 0 THEN 0 ELSE room) :
                    /\ queue' = (queue \ {q}) \cup At(kept, q.depth + 1)
                    /\ seen' = seen \cup kept
                    /\ found' = Tag(found, kept, q.depth + 1)
                    /\ answer' = IF ask.limit > 0 /\ Cardinality(kept) = room
                                 THEN [complete |-> FALSE] ELSE None
    /\ UNCHANGED <<index, ask, cycleVars>>

AnswerDependenciesMutant == Running("walk") /\ Finish([complete |-> TRUE]) /\ UNCHANGED found
AnswerDependencies ==
    /\ Running("walk")
    /\ \A q \in queue : q.depth = ask.depth
    /\ Finish([complete |-> TRUE])
    /\ UNCHANGED found
-----------------------------------------------------------------------------
(* get_change_impact: who may be affected, directly or through others.     *)

\* The name whose class aliases are taken as visited.
ImpactRoot(n) == IF n \in Classes \/ ResolveGraphName(deps, n) = None THEN n
                 ELSE ResolveGraphName(deps, n)

\* `most' and `mostFar' are max_direct and max_transitive.
AskImpact(n, most, mostFar) ==
    LET direct == AggregatedDependents(deps, n)
    IN  Begin([kind |-> "impact", name |-> n, most |-> most, mostFar |-> mostFar],
              At(direct, 1), direct \cup ClassAliases(ImpactRoot(n)), Tag(Nothing, direct, 1))

VisitDependentMutant ==
    /\ Running("impact")
    /\ \E q \in Shallowest :
          LET new == Referrers(deps, q.name) \ seen
          IN  /\ queue' = (queue \ {q}) \cup At(new, q.depth + 1)
              /\ seen' = seen \cup new
              /\ found' = Tag(found, new, q.depth + 1)
    /\ UNCHANGED <<index, ask, answer, cycleVars>>
VisitDependent ==
    /\ Running("impact")
    /\ \E q \in Shallowest :
          LET new == AggregatedDependents(deps, q.name) \ seen
          IN  /\ queue' = (queue \ {q}) \cup At(new, q.depth + 1)
              /\ seen' = seen \cup new
              /\ found' = Tag(found, new, q.depth + 1)
    /\ UNCHANGED <<index, ask, answer, cycleVars>>

NearestOf(T, S) == \A s \in T, r \in S \ T : found[s] <= found[r]

\* Each list is cut to its limit, nearest first.  An answer of more than
\* max_total_chars is cut again, from the end: first the transitive ones, and
\* the direct ones when those are gone.  Where that is depends on the texts.
AnswerImpact ==
    LET near == {s \in DOMAIN found : found[s] = 1}
        far == DOMAIN found \ near
    IN  /\ Running("impact") /\ queue = {}
        /\ \E direct \in Keep(near, ask.most), transitive \in Keep(far, ask.mostFar) :
              /\ NearestOf(transitive, far)
              /\ \E d \in SUBSET direct, t \in SUBSET transitive :
                    /\ NearestOf(t, transitive) /\ (t # {} => d = direct)
                    /\ Finish([direct |-> d, transitive |-> t,
                               truncated |-> d # direct \/ t # transitive])
        /\ UNCHANGED found
-----------------------------------------------------------------------------
(* get_call_chain: a breadth-first walk over paths.                        *)

Paths(S) == {[path |-> p, depth |-> Len(p)] : p \in S}
ChainEnd(n) == IF ResolveGraphName(deps, n) # None THEN ResolveGraphName(deps, n)
               ELSE InfoName(n)

AskChain(a, b) ==
    LET from == ResolveGraphName(deps, a)
    IN  /\ from # None
        /\ Begin([kind |-> "chain", from |-> from, to |-> ChainEnd(b)],
                 Paths({<<from>>}), {from}, Nothing)

\* What the neighbours of a name stand for.
Fan(n) == UNION {Candidates(deps, k) : k \in Neighbors(deps, n)}

\* One that is new and in the graph is queued, and marks all its candidates.
Enqueue(path, X, before, n) ==
    IF n \in X /\ n \notin before.seen /\ AnyPresence(deps, n)
    THEN [seen |-> before.seen \cup Candidates(deps, n),
          new |-> before.new \cup {Append(path, n)}]
    ELSE before

\* They are tried in order.
Expand(path, X) ==
    LET step[k \in 0..Len(Sorted)] ==
          IF k = 0 THEN [seen |-> seen, new |-> {}]
          ELSE Enqueue(path, X, step[k-1], Sorted[k])
    IN  step[Len(Sorted)]

VisitPath ==
    /\ Running("chain") /\ ask.from # ask.to
    /\ \E q \in Shallowest :
          LET X == Fan(Last(q.path))
              s == Expand(q.path, X)
          IN  IF X \cap TargetNames(deps, ask.to) # {}
              THEN /\ answer' = [chain |-> Append(q.path, ask.to)]
                   /\ UNCHANGED <<queue, seen>>
              ELSE /\ queue' = (queue \ {q}) \cup Paths(s.new)
                   /\ seen' = s.seen
                   /\ UNCHANGED answer
    /\ UNCHANGED <<index, ask, found, cycleVars>>

AnswerChain ==
    /\ Running("chain")
    /\ ask.from = ask.to \/ queue = {}
    /\ Finish([chain |-> IF ask.from = ask.to THEN <<ask.from>> ELSE <<>>])
    /\ UNCHANGED found
-----------------------------------------------------------------------------
(* find_import_cycles.                                                     *)

AskCycles == Begin([kind |-> "cycles"], {}, {}, Nothing)

VisitImport ==
    /\ Running("cycles")
    /\ CyclesStep(index.imports)
    /\ UNCHANGED <<index, ask, queue, seen, found, answer>>

\* A limit keeps the shortest ones.
AnswerCycles ==
    /\ Running("cycles") /\ CyclesDone(index.imports)
    /\ \E kept \in Keep(cycles, MaxCycles) :
          /\ \A c \in kept, d \in cycles \ kept : Cardinality(c) <= Cardinality(d)
          /\ Finish([cycles |-> kept])
    /\ UNCHANGED found
-----------------------------------------------------------------------------
(* find_impacted_test_files.                                               *)

\* The file a symbol name stands for: the table's, else one that has it.
FilesNamed(n) ==
    IF n \in Symbols /\ FileOf[n] # None THEN {FileOf[n]}
    ELSE {f \in Files : ({n} \cup Called(n)) \cap Defines[f] # {}}

\* The symbols the walk starts from: those named, and all of the changed files.
Seeds(names, changed) ==
    WithMethods((names \cap Symbols) \cup UNION {Called(n) : n \in names})
    \cup UNION {WithMethods(Defines[f]) : f \in changed}

Mark(S, T) == [t \in S \cup T |-> IF t \in S THEN "selected" ELSE "omitted"]
Marked(mark) == {t \in DOMAIN found : found[t] = mark}

\* First the tests that changed, import a changed file or are named after one;
\* a test named loosely after one is not even counted when the room is used up.
BeginTests(changed, names) ==
    LET listed == (changed \cap TestFiles)
                  \cup UNION {(Importers(f) \cap TestFiles) \cup NameMatch[f] : f \in changed}
        loosely == UNION {StemMatch[f] : f \in changed}
        seeds == Seeds(names, changed)
        closed == {FileOf[s] : s \in seeds} \ {None}
    IN  \E kept \in Keep(listed \cup loosely, MaxTests) :
           Begin([kind |-> "tests", changed |-> changed, seeds |-> seeds],
                 At(seeds, 0) \cup At(closed, 1), seeds \cup closed,
                 Mark(kept, listed \ kept))

AskTestsOfFiles(files) == BeginTests(files, {})
AskTestsOfSymbol(n) == \E f \in FilesNamed(n) : BeginTests({f}, {n})

\* Then those of every file with a symbol that refers to the seeds ...
VisitReferrerMutant ==        \* its own file is taken for its importers only
    /\ Running("tests")
    /\ \E q \in Shallowest :
          LET new == Referrers(deps, q.name) \ seen
              files == {FileOf[s] : s \in new} \ {None}
          IN  /\ q.depth = 0
              /\ queue' = (queue \ {q}) \cup At(new, 0) \cup At(files \ seen, 1)
              /\ seen' = seen \cup new \cup files
    /\ UNCHANGED <<index, ask, answer, found, cycleVars>>
VisitReferrer ==
    /\ Running("tests")
    /\ \E q \in Shallowest :
          LET new == Referrers(deps, q.name) \ seen
              files == {FileOf[s] : s \in new} \ {None}
          IN  /\ q.depth = 0
              /\ queue' = (queue \ {q}) \cup At(new, 0) \cup At(files \ seen, 1)
              /\ seen' = seen \cup new \cup files
              /\ found' = Tag(found, files \cap TestFiles, "candidate")
    /\ UNCHANGED <<index, ask, answer, cycleVars>>

\* ... and of the files that import such a file, directly or not.
VisitImporter ==
    /\ Running("tests")
    /\ \E q \in Shallowest :
          LET new == Importers(q.name) \ seen
          IN  /\ q.depth = 1
              /\ queue' = (queue \ {q}) \cup At(new, 1)
              /\ seen' = seen \cup new
              /\ found' = Tag(found, new \cap TestFiles, "candidate")
    /\ UNCHANGED <<index, ask, answer, cycleVars>>

AnswerTests ==
    /\ Running("tests") /\ queue = {}
    /\ LET chosen == Marked("selected")
           room == Min({MaxTests - Cardinality(chosen), Cardinality(Marked("candidate"))})
       IN  \E kept \in SUBSET Marked("candidate") :
              /\ Cardinality(kept) = room
              /\ found' = Mark(chosen \cup kept, DOMAIN found \ (chosen \cup kept))
              /\ Finish([omitted |-> Cardinality(DOMAIN found \ (chosen \cup kept))])
-----------------------------------------------------------------------------
Ask ==
    \/ \E n \in Symbols, limit \in Limits :
          \/ AskDirect("dependents", n, limit)
          \/ AskDirect("dependencies", n, limit)
          \/ \E depth \in Depths : AskDependencies(n, depth, limit)
    \/ \E n \in Symbols, most, mostFar \in Limits : AskImpact(n, most, mostFar)
    \/ \E n \in Symbols : AskTestsOfSymbol(n)
    \/ \E a, b \in Symbols : AskChain(a, b)
    \/ AskCycles
    \/ \E files \in SUBSET Files : Cardinality(files) \in 1..MaxChanged /\ AskTestsOfFiles(files)

Visit == \/ VisitDependency \/ VisitDependent \/ VisitPath
         \/ VisitImport \/ VisitReferrer \/ VisitImporter
Answer == AnswerDependencies \/ AnswerImpact \/ AnswerChain \/ AnswerCycles \/ AnswerTests
Next == Ask \/ Visit \/ Answer \/ Reply

Spec == Init /\ [][Next]_vars
-----------------------------------------------------------------------------
(* The properties.                                                         *)

Answered(kind) == ask.kind = kind /\ answer # None

TypeOK ==
    /\ seen \subseteq Names \cup Files
    /\ DOMAIN found \subseteq Names \cup TestFiles
    /\ cycles \subseteq SUBSET Files

\* The relations, by which some names are within so many steps of others.
Up == [n \in Names |-> AggregatedDependents(deps, n)]
Down == [n \in Names |-> AggregatedDependencies(deps, n)]
Above == [f \in Files |-> Importers(f)]
Callers == [n \in Names |-> Referrers(deps, n)]

\* The walk of an impact report finds every symbol a change reaches, however
\* far away and through whichever method of a class, at its least distance, and
\* no other.  The report lists all of those, unless it was asked for fewer or
\* says that it was truncated (as it is by default beyond 50000 characters);
\* and none while one nearer is left out, unless max_direct did that.
ImpactIsComplete ==
    Answered("impact") =>
        LET \* the class's own methods count as the changed thing itself
            own == ClassAliases(ImpactRoot(ask.name)) \ Up[ask.name]
            upTo == [k \in 1..Cardinality(Names) |-> Within(Up, Up[ask.name], k - 1)]
            listed == answer.direct \cup answer.transitive
        IN  /\ DOMAIN found = upTo[Cardinality(Names)] \ own
            /\ \A s \in DOMAIN found :
                  /\ s \in upTo[found[s]]
                  /\ found[s] > 1 => s \notin upTo[found[s] - 1]
            /\ listed \subseteq DOMAIN found
            /\ ask.most = 0 /\ ask.mostFar = 0 /\ ~answer.truncated => listed = DOMAIN found
            /\ ask.most = 0 =>
                  \A s \in listed, r \in DOMAIN found \ listed : found[s] <= found[r]

\* An answer marked complete has everything within the depth asked for.
CompleteMeansAll ==
    Answered("walk") =>
        LET all == Within(Down, {ask.name}, ask.depth) \ {ask.name}
        IN  /\ DOMAIN found \subseteq all
            /\ answer.complete => DOMAIN found = all
            /\ \A s \in DOMAIN found : s \notin Within(Down, {ask.name}, found[s] - 1)

\* What the graph itself says may come next: a dependency, a method of the
\* class, the class of the method.
Hop == [n \in Names |->
    WithMethods(Dependencies(deps, n)
                \cup {m \in ClassAliases(n) : AnyPresence(deps, m)}
                \cup {c \in OwnersOf(n) : ForwardPresence(deps, c)})]

\* A chain is found whenever the graph has one, and is no longer than the
\* shortest, whatever names the functions on the way share.
ChainIsFound ==
    Answered("chain") =>
        \A k \in 0..Cardinality(Symbols) :
            ask.to \in Within(Hop, {ask.from}, k) =>
                answer.chain # <<>> /\ Len(answer.chain) <= k + 1

\* The cycles reported are the sets of files that import one another.
CyclesAreComponents ==
    Answered("cycles") =>
        /\ answer.cycles \subseteq ImportCyclesOf(index.imports)
        /\ MaxCycles = 0 => answer.cycles = ImportCyclesOf(index.imports)

\* Unless some were omitted, the tests selected include each one that a
\* changed symbol reaches: those that hold a caller, and those that import, over
\* any files between, a file of a caller or of the changed symbol.  A file that
\* is reached only because the table has it for the name of a changed symbol,
\* when another one of that name was changed, is not looked at for itself.
ReachedTestsSelected ==
    Answered("tests") /\ answer.omitted = 0 =>
        LET HeldIn(S) == {FileOf[s] : s \in S} \ {None}
            called == Within(Callers, ask.seeds, Cardinality(Names))
            reached == Within(Above, HeldIn(called), Cardinality(Files))
            namesakes == HeldIn(ask.seeds) \ (ask.changed \cup HeldIn(called \ ask.seeds))
        IN  (reached \ namesakes) \cap TestFiles \subseteq Marked("selected")
=============================================================================
