# Verification of token-savior

token-savior is an MCP server that answers a coding agent's questions about a
project (where is this symbol, who calls it, what breaks if it changes) from an
index it keeps in memory, edits files on the agent's behalf, and remembers
observations across sessions. These modules model the parts that must be right
for that to be right: the index and the annotators it is built from, the
machinery that keeps it in step with a working tree that changes underneath it,
the session caches between the index and the agent, the queries and analyses
over the index, the tools that write files, and the observation store that
several processes share. Paths below are relative to `src/token_savior/`.

## Inventory

| Part | State | Operations | What makes it correct |
|---|---|---|---|
| Project index (`project_indexer.py`, `symbol_hash.py`) | entries per file, symbol table, import graph and reverse, dependency graph and reverse, body hashes | `index`, `reindex_file`, `remove_file`, `rebuild_graphs` | derived tables agree with the entries whatever order the operations run in, and after a failed one |
| Annotators (`annotator.py`, `*_annotator.py`, `brace_matcher.py`) | none | one function per language from a text to its symbols, imports and dependencies | every declaration found once, with its owner and its lines; calls go to what they name |
| Slot manager (`slot_manager.py`, `git_tracker.py`, `cache_ops.py`) | one slot per root: index, `cache_gen`, `last_indexed_git_ref`, throttle time; JSON cache on disk | `ensure`, `build`, `maybe_update`, `check_mtime_changes`, `resolve` | no change of the tree is lost; what settles reaches the index; every change of the index bumps `cache_gen` |
| Watcher (`watcher.py`) | thread, `_dirty` and `_deleted` under a lock | `start`, `_run`, `drain`, `ok`, `stop` | an event is in exactly one place until drained |
| Session (`server.py`, `server_state.py`, `server_runtime.py`, `server_handlers/project.py`) | registered projects, active project, results by tool, root, `cache_gen` and arguments | `_dispatch_tool`, `set_project_root`, `switch_project`, `reindex` | a memoized answer lags no further than the index; a name keeps meaning its project |
| Symbol cache (`server_handlers/code_nav.py`) | one entry per kind, root and name | `_csc_maybe_serve` | a stub or a diff refers to something the agent has |
| Query API (`query_api.py`, `impacted_tests.py`) | none | dependencies, dependents, impact, chains, cycles, impacted tests | the walk finds what the graph says, and says when it stopped short |
| Analyses (`breaking_changes.py`, `config_analyzer.py`, `dead_code.py`, `program_slicer.py`, `context_packer.py`, `leiden_communities.py`, `community.py`) | none | one function each | their reference definitions |
| Checkpoints (`checkpoint_ops.py`) | directories of file copies | create, list, delete, prune, restore, compare | what is restored is what was taken |
| Edit tools and workflow (`edit_ops.py`, `workflow_ops.py`) | the working tree | replace, insert, add field, move, apply and validate | an edit hits the symbol it names; tree and index agree afterwards, or the difference is on its way; a failed validation rolls back |
| Memory store (`memory/`, `db_core.py`) | SQLite: observations, sessions, links, consistency scores | save, read, decay, promote, sweep, distill | one active row per content, protected rows never decay, no text is lost |
| Prefetcher (`markov_prefetcher.py`, `server_runtime.py`) | transition counts, bounded warm cache, daemon threads | `record_call`, `predict_next`, `_warm_cache_async` | bounded cache under its lock |
| Viewer, dashboard, telemetry, hooks, scripts, Go port | counters and pages | input and output | - |

How they interact. The server handles one tool call at a time. A call resolves
its slot, runs `_prep` (`ensure`, then `maybe_update`) and then its handler; the
navigation, query and analysis handlers read the index through query functions,
the edit, restore and apply handlers write files and call `reindex_file`
themselves. The watcher thread shares nothing with this thread but two sets
under a lock. Everything else that moves is outside the process: editors and
git change the tree between any two system calls, other servers save to the
same database and prune the same checkpoints, and the process may end at any
time and later start from the cache file.

What is hard here: a stat, a read and a notification of the same file in any
order; unordered change sets; a poll that is throttled by the very work it
complements; three sources of truth (events, mtimes, git) each blind to
something; a cache key that must change whenever the index does; incremental
updates that must not differ from a build; an edit aimed with lines that have
moved; a check and its insert in two transactions; passes over the same rows
that do not know of one another; walks with caps; and parsers made of regular
expressions. `PROJECT.json` lists these hazards at their lines, with the
properties about each.

## Modules

### ProjectIndex

The index as `ProjectIndexer` keeps it. A text is known by what `annotate()`
makes of it: the symbols it defines (`Defines`), the hash of each body
(`BodyHash`), the modules it imports (`Imports`) and what each body mentions
(`Uses`), of which `Blurred` are those no hash tells of. `Broken` texts are those
that cannot be read or annotated.
`files` is `idx.files`, `order` its key order, which decides who owns a symbol
that two files define and which the worker pool of `index()` leaves to chance.
`Unqualified` names are the classes outside Java, which are entered in the
symbol table only under an alias that must be unique.

| Action | Code |
|---|---|
| `Index` | `index()` |
| `BatchReindex`, `BatchRemove`, `EndBatch` | the calls `maybe_update` makes: `reindex_file(f, skip_graph_rebuild=True)`, `remove_file(f)`, `rebuild_graphs()` |
| `DirectReindex` | `reindex_file(f)` of the edit, restore and apply handlers, in both outcomes (`DropUnreadable`, `Reannotate`) |
| `Edit` | someone changes the tree |

### Annotators

`Annotators` dispatches as `annotate()` does (`AnnotateSource`) and composes one
module per way of reading: `LineAnnotators` (Go, Rust, C#, C, TypeScript) over
lines (`SourceLines`), `JavaAnnotator` and `TreeAnnotators` (Python, Ruby) over
trees, and `Sections` for twelve text and data formats. `Braces` is
`brace_matcher.py`, over lines of characters: a scanner at a line and a column
goes from lexeme to lexeme (`Scan`) with the quotes, escapes and comments of four
languages, and each loop of the code is a step that `Repeat` repeats more often
than the text has places. Beside it stands what a text says by itself: `BraceText`
cuts it into pieces, each a brace, one other character, a line end, a comment or a
literal as the language defines them (`NoBrace`), over several lines where it
allows that (`OverLines`), and `ClosingLine` counts. `Analyses` asks for it
(`MatchBraces`), as the annotators do. In the modules of the languages a line or a
node is the class the annotator's patterns put it in (a declaration with its name
and whether its brace is on the line, an import, a call, something else); the
patterns themselves are not modelled. What follows is: which line a declaration is
taken to end at, what is skipped with it, who owns what, how a call is resolved
through fields, parameters and imports.

The second part of `JavaAnnotator` is what `project_indexer.py` makes of a whole
Java project: references resolved across packages and imports, edges from a method
to those that override it, and what the Spring framework and the Java runtime call
(`BuildJavaGraph`). A type comes with what its source says of it (`bases`,
`permits`, the type of each parameter and whether it is modified), and the
conversions are modelled by what they do: `ReadBases` has no bases for an interface
that extends another, and `VariableTypes` no type for a final or annotated
parameter. Its project is a sequence of files, since the order of
indexing decides what an unfinished hierarchy is remembered as. Types of
different files have different symbols, names of types have no dots, comments and
literals name nothing.

### SlotWatcher, SlotManager and SlotMirror

`SlotWatcher` is the watcher thread together with watchfiles: `raised` is the set
of changes of the current debounce window, `changes` the set the thread is
iterating over, `dirty` and `deleted` the shared sets. `SlotManager` extends it
with one slot: `maybe_update` is cut where another actor can get in between, at
the drain or scan (`BeginUpdate`), at each stat and each read of a file
(`StatFile`, `ReadFile`, also used for `build()`), at the end of each phase, at
the git check (`GitCheck`, with its five outcomes) and at the return. `ensure` is
`AdoptCache` or `BeginBuild`. The environment changes files, commits, lets time
pass, kills the watcher and restarts the server; a restart during a save may leave
a torn cache. Each git command has ten seconds to answer, and one that does not,
or fails, is taken to have nothing to say: `Unreliable` names those that may
(`worktree` for `is_git_repo`, `head` for `get_head_commit`, and the diffs with
the `history` and the working `tree` and the list of `others` of
`get_changed_files`), and every step that runs git chooses which of its commands
answer (`Answering`). `isGit` is the slot's `is_git`, which is asked on first use
and again by each build until git says yes. An mtime is only ever compared for
equality, so `stamp[f]` records whether the recorded one still matches.
`CacheFile` says whether the JSON cache is itself a file of the project (it is
unless `.gitignore` or the configuration excludes it: it matches `**/*.json`).
`mutated`, `bumped` and `missed` are history variables for the properties: whether
this call changed the index, whether it bumped `cache_gen`, and which files
changed while nothing listened, or lost their entry although they exist because
the change set that said so was incomplete: a file deleted in the history and
there again is "modified" only when both halves are known.

`SlotMirror` is what the slot promises, with the watcher, the scan, git and the
cache hidden: entries are replaced, one by one, by the text their file has at
that moment; an answer is given only from entries that have not changed since
the last answer or whose change was announced; a new process starts from nothing
or from entries saved with an answer. `SlotManager` implements it under the
mapping `Mirror` (`INSTANCE SlotMirror WITH ...`), checked as `ImplementsMirror`
and proved as `SlotIsMirror`.

### ResultCache

A session of the server over several projects. `Call` is `_dispatch_tool`: the
name is resolved (`Resolve`: path, basename, basename in another case, a part of
it, by `Fit`), the slot is ensured and updated by `_prep`, and the handler answers
from the cache or the index, edits a file, reindexes, or switches the active
project. A build may fail, and leaves the slot as the code does: with an indexer
that has no index, or with query functions over the index before. What a `_prep`
may notice (`Noticed`) is, with a watcher, some of what it has gathered
(`pending`); without a living one, every file with a new mtime (`newer`), which
excludes what the server wrote itself. The watcher's thread comes to listen some
time after `start()` has returned, and may die (`WatcherThread`); `unheard` are
the writes of tools that came before it listened. A slot's update is one action
here; `SlotManager` takes it apart, and what it may change and announce is what
`SlotMirror` promises.

### SymbolCache

`_csc_maybe_serve` for one symbol name that several files may define. A view is
a text rendered in full, cut by `max_lines`, or as an abstract; `known` is what
the client can reproduce and `shown` what it has seen a part of. The hash that is
compared comes from a lookup of its own (`Compared`): over files whose path may be
meant, functions before classes (`LookedUp`), so it may be that of another
definition than the one rendered. `same` says whether it was. Calls may pass
a level, `force_full` and `max_lines`, or leave the level to
`thompson_sample_level`.

### EditTools

A text is a sequence of blocks, each a definition or an import, and the place of
a block stands for its lines. A tool takes the place from the index
(`resolve_symbol_location`) and rewrites that place of the file as it then is
(`ReadFile`, `WriteFile`). `move_symbol` is its five stages, of which the
last rewrites imports in the forms its patterns match (`Matched`) and only between
modules (`IsModule`): a plain import of the symbol, and one of the whole module,
whichever symbol it is for; a checkpoint is
created (`CopyFile`) and restored (`RestoreFile`) file by file;
`apply_symbol_change_and_validate` takes a checkpoint, edits, runs tests and
restores when they fail (`RunTests`). Between any two of these an editor, another
server pruning checkpoints, or a failure may act. `CopiesIndexed` says whether
the checkpoint directory is indexed, which only `.gitignore` prevents.

### MemoryStore

The observations of one database. `observation_save` is cut into its
transactions: the hash check, the global check, the title check, the insert
(`CheckHash`, `CheckGlobal`, `CheckTitle`, `Insert`), from several processes.
`RunDecay`, `RunRoiGc`, `RunPromotions` are one transaction each; the dedup
sweep fetches and then handles row after row (`FetchStale`, `SweepRow`); the
distiller loads clusters in one transaction and rewrites them in another
(`LoadClusters`, `ApplyClusters`). `Legacy` rows are from a release that hashed
differently. A draft may carry `ttl_days`, or come from the bus
(`Volatile`). Time goes by in periods of 30 days.

### SymbolGraph, ImportCycles, Queries

`SymbolGraph` is how `query_api.py` reads the dependency graph: a class and its
methods answer for one another, a name may stand for several functions.
`ImportCycles` is the strongly connected components over the import graph, as the
iterative walk it is. `Queries` takes a query from `Ask` through one `Visit` per
element of its queue to its `Answer`: dependencies and dependents with limits
and depths, change impact (whose two limits, and the cut at `max_total_chars`, may
take entries away, nearest kept), call chains, and the tests impacted by a change. The
inner loop of a chain's step goes through the names in the order of their keys
(`Expand`), since a name queued hides others that come later.

### Analyses

`Analyses` composes what only computes, one call per step: `BreakingChanges`
(signatures before and after), `ConfigChecks` (duplicates, orphans, ghost keys,
secrets, schema), `DeadCode` (liveness of methods through `self` and inheritance),
`Slices` (the backward slice of a Python body, and the choice of `pack_context`),
`Communities` (label propagation and Leiden, whose passes are actions).
`Communities` is a specification of its own (`CommunitiesSpec`), and `Analyses`
changes its variables by its steps only (`AnalysesCluster`). `Closure` holds the
reference definition of what is reachable, which the analyses are compared with.

`Annotators` extends `Analyses` with its own three calls, and its `Spec` is what
`MCAnalyses` runs. The split is one of proof: the annotators recurse over texts and
trees by recursive operators, `AnalysesSpec` reaches none.

### MC modules and proof modules

`MCProjectIndex`, `MCSlotManager`, `MCResultCache`, `MCSymbolCache`,
`MCEditTools`, `MCMemory`, `MCQueries` and `MCAnalyses` give the constants small
values for TLC. `ProjectIndexProofs`, `SlotManagerProofs`, `ResultCacheProofs`,
`EditToolsProofs`, `MemoryProofs`, `GraphProofs` and `QueriesProofs` hold the
theorems; those about the symbol cache stand in `SymbolCache` itself.
Operators whose names end in `Mutant` are plausible mistakes in the definition
they stand next to, kept to show that the properties would notice them.

## Checks

Each run asks one question of one part of the system; all but three pass.

| Run | Instance | Properties |
|---|---|---|
| `MCProjectIndex` | 2 files, 6 texts one of which does not parse and one with a use that no hash tells of, all callers | `NoPhantomImporters`, `SymbolTableSound`, `HashesCurrent`, `ReindexKeepsDependencies` |
| `MCSlotGit` | 2 files, 2 texts, git with 2 commits that may not answer, mtime scan, a restart | `EditsHaveNewMtime`, `ImplementsMirror` |
| `MCSlotLive` | 1 file, 2 texts, git with 2 commits that may not answer, a watcher that may fail to start, die or last | `NoLostChange`, `EditsReachIndex`, `UncommittedReachIndex`, `GitCheckResumes`, `WatchedFilesReachIndex` |
| `MCResultCache` | 2 projects with a file each, 2 texts, 3 names, watchers or scans | `StaleOnlyAfterToolEdit`, `StaleUntilReported`, `AnswersLagOnlyBehind`, `NamesKeepTheirProject` |
| `MCSymbolCache` | 2 files, 2 texts and a constructor, every kind of call | `RepliesReferToShown`, `StubsMatchCachedBody` |
| `MCEdits` | 2 files, 2 symbols, 2 checkpoints, 2 calls, 1 change by others | `AimedAtSymbol`, `DivergenceIsPending`, `RestoredAsTaken`, `ImportsFollow`, `RollbackUndoes` |
| `MCMemory` | 2 processes that save 4 drafts, 2 old rows, every pass | `DuplicatesOverlap`, `DeltasResolve`, `ProtectedStay`, `SweepKeepsOne` |
| `MCQueries` | hundreds of small indexes, every query | `ImpactIsComplete`, `CompleteMeansAll`, `ChainIsFound`, `CyclesAreComponents`, `ReachedTestsSelected` |
| `MCAnalyses` | every small input of each analysis | `BracesFound`, `DeclarationsFound`, `CallsAreEdges`, `BreakingMeansBroken`, `ConsistentMeansConsistent`, `ReachedIsNotDead`, `SliceKeepsFlow`, `ClustersStayConnected`, `MovesKeepModularity` |

What they show.

- The tables of the index never name a file that is not there, never give a
  symbol an owner that does not define it, and compare hashes that are current,
  in every interleaving of builds, batches, direct and failed reindexing; the
  shortcut of `reindex_file` keeps the dependency graph a rebuild would give, as
  long as no use comes or goes where the hash does not look.
- No edit is invisible to the mtime scan, also when it falls between the stat
  and the read of `reindex_file`, because the mtime is taken first and compared
  for equality, and also across a save, a crash and a restart. No event falls
  between the watcher and the slot, unless a path changes twice in one debounce
  window. Every index change that a call of `_prep` makes is announced before
  anything is answered from it. What settles reaches the index.
- A memoized answer is stale only after an edit tool wrote the file, and while a
  watcher listens only until the event of that write is drained (a write before it
  listened has no event), whatever projects are
  built, switched, rebuilt or fail to build meanwhile; the project a name has
  been used for can lose it only to one that the name fits better.
- An edit by name hits that symbol unless somebody wrote the file since the call
  began; a file that a tool leaves different from its entry, at whatever step it
  fails, is on its way to the index; a restore brings back what was taken, and a
  rollback what the edit found, unless others wrote it meanwhile.
- Two active observations with one hash have an explanation (overlapping saves,
  a sweep, a restore by hand); no pass takes away the abstraction a distilled row
  is read with, an immune row without a time to live, or the last copy of a text.
- A stub stands for the body the client holds, as long as the hashes were of what
  was rendered.
- The graph walks find what the graph says and mark an answer complete only when
  it is; what an impact report leaves out it was told to leave out, or says so.
  The annotators find the declarations of sources written within the limits below;
  the verdicts of the analyses mean what they say.

Three runs show where the code does not do what its comments say. Other places
where it does not are exceptions of the properties above and named at them and under
the limits below: imports that a move leaves behind (`tool_schemas.py:175`), a graph
kept although a use changed (`project_indexer.py:520`), a stub for a changed class
(`code_nav.py:3`), and strings not skipped (`brace_matcher.py:333`).

| Run | Property | What happens |
|---|---|---|
| `MCResultCacheEdits` | `AnswersAreCurrent` | A query repeated after an edit tool is answered from before the edit (`server_state.py:78`). |
| `MCEditsCopies` | `RestoredAsTaken` | The checkpoint directory is not in the indexer's default `exclude_patterns`: unless `.gitignore` names it, its copies are indexed, an edit by name may rewrite a copy, and restoring brings the edited text back. |
| `MCSlotDefault` | `PeriodicGitCheck` | The cache file is a project file by default (`slot_manager.py:113`): with a tool call every so often the git check still never comes around (`:335`). |

### Bounds

Index and slot: two files are the fewest with a cross-file edge, an importer, a
competing definition and a change set with an order to it; the texts are a
definition, its user, a cosmetic variant, a changed body and one that does not
parse. In the slot runs one file changes while another is being read, so two
suffice for the interleavings of a call; two texts tell an edit from a restore;
two commits give a reference that is neither HEAD nor the working tree; one
restart is enough to load a cache written at any point. `IncrementalLimit` is 20
in the code: `MCSlotGit` sets it to 1, so that a change set is on either side of
it. In `MCSlotLive` one file keeps the graph small enough for the temporal
check: its properties are about a file each, and what a call does with another one
in the meantime is to that file a delay, in which it may change as it may at every
step. That changes of different files do not get lost over one another is
`EditsHaveNewMtime` over two files and, for any number and with a watcher,
`ChangesAccounted`. `MCSlotDefault` has the cache file beside it. The commands of git that may stay
without an answer are those that matter to the question of a run and fit its
time: all of the change set's and `head`. The proofs hold for any of them, the
first question of all included.

Session: two projects; a name that is the basename of both, one that is part of
both, and one that is part of the first and the basename of the second (`MCFit`).
`MaxGen` and `MaxTotal` bound `cache_gen` of a slot and of all. A third generation
of one slot adds nothing: results are only compared with the current one. The
proofs need neither bound.

Edits: two calls that write are the fewest in which one can be aimed with the
index of before the other; one change by others can fall at any cut; two
checkpoints let one be pruned while another is restored; `MaxBlocks` is the
definitions of both symbols and an import. Both files are
modules; between others no import is looked at at all.

Memory: two rows are enough for a duplicate, a twin and an abstraction with its
delta, together with the saves under way (three rows were too many states for a
run; the proofs hold for any number). `MCTtl`, `DecayAge` and the others keep the
order of the code's spans, in periods of 30 days. A save or a pass can come
between any two transactions of another.

Queries and analyses: `MCQueries` walks over indexes with a class and two methods,
functions that share a name, and tests beyond `MaxTests`; any ten edges, with an
entry for each method referred to. `MCAnalyses` enumerates sources of up to three
distinct parts in each language, brace texts of three pieces, some of them over
two lines, below a line that is not part of them, data files with trees of three
keys, signatures of two parameters, four-line bodies, and every dependency graph
on four symbols and one of two triangles; a Java project is four files (three
levels of inheritance and a user in or out of their package) in three orders of
indexing. A walk's hazards (a cap in the middle of a layer, a sibling method, a
swallowed declaration) all take two or three elements.

Symmetry is used only in safety runs over sets whose members nothing orders. Deadlock
is checked except in `MCMemory`, where the database may be full to its bound and
every pass done.

### Fairness

`LiveSpec` asks for weak fairness of each step of a call that has begun, since a
handler runs to its end, and of the watcher thread, which the system schedules.
Tool calls keep coming (strong fairness of `BeginUpdate`, which the reindex tool
may disable for a while), and every so often two calls are more than 30 s apart
(strong fairness of `Tick`). The steps of a call need only one weak fairness
between them, since at each point of a call a step of the handler is possible
until it is taken. Nobody has to edit, commit, reindex, restart or fail, and git
never has to answer: `UncommittedReachIndex`, which is about what git alone can
tell, says in its premise that some git checks get all their answers, and
`GitCheckResumes` that git once said the root is in a work tree. Without calls the
code does nothing, so no property could be expected to hold without the second
assumption; without the third the throttle never expires. The properties say what
happens to files that settle, since an edit can always come before the next call.

## Proofs

Eight modules, each for every value of the constants that satisfies the named
assumption of its component (`ConstantsAssumption`, `SlotAssumption`,
`ResultCacheAssumption`, `SymbolCacheAssumption`, `EditAssumption`,
`MemoryAssumption`, `SymbolsAssumption`, `QueriesAssumption`,
`ChainAssumption`, `CommunitiesAssumption`, `AnalysesAssumption`).

`ProjectIndexProofs`: `Typing`, `ImportersAreReal` (`NoPhantomImporters`),
`OwnersDefine` (`SymbolTableSound`), `HashesAreCurrent` (`HashesCurrent`), from
`IndexInv`, their conjunction, which is inductive. An owner is picked by its
position in `order`, so its soundness needs `order` to name exactly the indexed
files. `RebuiltSymbolTable` settles every action that builds a table anew;
`OrderWithoutProperties` shows that deleting a key leaves the order complete and
without duplicates; `DropUnreadable` leaves the table alone, and stays sound
because it only takes an entry away. `ShortcutIsSound`
(`ReindexKeepsDependencies`): with nothing to rebuild, the file held a text with the
same body hashes (`HashesCurrent`), so with the same symbols, and the table and the
graph a rebuild would give are those kept. Equal hashes tell of all uses but the
`Blurred` ones, which stand where `symbol_hash.py:18` does not look, and the property
is about reindexings that change none of these (`NoBlurredUseChanges`);
TLC finds that the graph of the others is not kept up to date.

`SlotManagerProofs`: `SlotTypesHold`; `DrainedApart` (no path is in both sets of
the watcher); `MtimesTell` (`EditsHaveNewMtime`); `ChangesAccounted`
(`NoLostChange`, assuming `Debounced`: no path changes twice in one window).
`Lossless` is inductive: a file the index is wrong about is undrained, missed, or
still to be handled by the call (`Accounted`); a call only forgets what it
handled (`CallsComplete`). All of it holds whichever git commands stay without
an answer: `GitCheckSteps` takes the git check apart once, into what each of its
outcomes does for any change set of files (`ChangeSetFiles`), complete or cut.
A file dropped on an incomplete answer is what `Lossless` could not
account for otherwise, and is why `missed` has it.

In the same module, `SlotIsMirror`, `Spec => Mirror!Spec`, the refinement. Between
two steps of a call a change is announced already or will be at the end of the
phase (`Announcing`); with that, each step maps to one of the mirror or to a
stutter. `ChangesAnnounced` is the same fact at the return of a call.

`ResultCacheProofs`: `SessionTypes`, `StaleResultsAreToolEdits`,
`StaleResultsEnd`, `AnswersLag`, and `NamesKeep`. `CacheInv` is a conjunct per
project (`SlotInv`): what the index lacks has a new mtime (`IndexLags`), a stale
result is of a file whose event is pending while a watcher listens, or that it
never heard of (`StalePending`), and nothing is memoized ahead of the generation
(`NothingAhead`), so that a new generation has nothing stale. `NamesKeep` rests on
the order of registration: a resolved name stands for the first project of its
best fit.

`SymbolCache`: `RepliesAreGrounded` and `StubsAreRight`. `SymbolInv` adds that the
cached view was shown and that the cached hash, if the lookup found what was
rendered, is the hash of that view, which a call that bypasses the cache does not
break because it touches neither.

`EditToolsProofs`: `WritesAreNoticed` (`DivergenceIsPending`), which is inductive
together with `Known` (every path has a text or none): each write and each removal
makes its path pending, and only what is reindexed stops being so.
`CallsAreShaped`: no step reads a field of the call that no earlier one set
(`Shape`). On that rest `EditsAim` (`AimedAtSymbol`), from `Aim`: from the moment
a call has found its symbol, the place it holds is the symbol's in the text it is
about to overwrite, which the next update of the index keeps because
`DivergenceIsPending`, or the file is gone, which the scan does not see and the
read finds out; and `MovesAreFollowed` (`ImportsFollow`), from `Followed`: an
importer is still to be visited or has no import left that the patterns match.
`CheckpointsHold` collects what holds of checkpoints: copies are what was taken
(`Copies`), files restored so far are as taken (`Restoring`), and the checkpoint
of a change that can be rolled back holds the file as the call found it at each of
its steps (`Undone`). `RestoresBringBack` (`RestoredAsTaken`) and `RollbacksUndo`
(`RollbackUndoes`) follow. Two hypotheses are the code's: `EditsAim` is without a
watcher, because under one a call may begin before an event is reported, and the
checkpoint theorems are without `CopiesIndexed`, since `MCEditsCopies` shows that
they fail with it.

`GraphProofs` has what the walks need. Induction is first order: a set of naturals
with zero and with successors is all of them (`EveryNatural`, from `WFMin`),
applied to the set of lengths for which a fact holds. With that, `Within` is
unrolled (`WithinStep`), and what is within as many steps as there are elements is
closed under the step, by counting: a round that adds nothing is the last, and one
that adds something adds an element (`WithinSettles`). `CyclesInv` is the
invariant of the stack walk of `find_import_cycles`: files are numbered as they
are reached (`Numbered`), stack and pending calls stand in that order (`Stacked`,
`Calling`), imports have been reached or are awaited (`Looked`), the link of a
call is that of a file it reaches, and not above any that the files since it
import (`Linked`), a pending call reaches all that came after it and is reached
from all of its segment (`Connected`), and what is closed is reported
(`Reported`). When a call ends as a root, the files above it are one component
(`RootHasComponent`). `ClustersAreConnected` (`ClustersStayConnected`): a symbol
only takes a community of one of its neighbours, so a community is named after a
symbol that paths join to all of its members, and in a symmetric graph that
relation is an equivalence (`JoinedBack`). `SearchesGain` (`MovesKeepModularity`):
the search is greedy on a formula and never computes a modularity. `SumFunction`
folds over a set by `CHOOSE`, so first there is such a fold over any finite set
(`SumsExist`, by the sizes of its subsets), whose result does not depend on the
order (`SumsAdd`); finite sets then have an induction of their own
(`EverySubset`). The invariant `DegreesInv` says that `degreeOf` is the sum of the
degrees of each community, which is what makes a gain mean anything. A symbol
without loops that joins a community adds its edges there twice (`InnerMore`), so
a move adds twice the difference of two gains (`MovingGains`), which is not
negative as the best gain is positive and staying where no neighbour is gains
nothing (`MoveIsBest`).

The analyses (`AnalysesSpec`) answer in one step, and `ReportsHold` says that the
answer that stands is that of the call that stands; what remains are facts about
the operators, for every input of the shape `AnalysesAssumption` gives (blocks of a
program nested, levels of sections numbers, functions finite).

- `SlicesAreWhole` (`SliceKeepsFlow`): the pairs that `backward_slice` asks are
  closed under its step (`AskedIsClosed`), a line that flows in is a definition of
  the variable of one of them (`FlowIsAsked`), and the name that the walk leaves out
  at a definition, its own, needs no pair because its earlier definitions are those
  of the pair it came with (`SlicesKeepFlow`).
- `DeadIsNotReached` (`ReachedIsNotDead`): what a live method calls on self is live
  again (`SelfClosureIsClosed`), and the overrides of what is referred to are live
  before that closure starts (`ReachedIsKept`). It is about functions; a class of the
  same qualified name may be reported.
- `AlarmsAreRight` (`BreakingMeansBroken`): a breaking
  issue of the parameters says that the new version lacks a name or asks for one
  more (`ParamIssues`), and that is when some call by name is no longer accepted
  (`BrokenCallsAreTold`); issues of a class's methods never pass for one of a
  function, since their symbols are longer (`ClassesTellNothing`).
- `ConsistencyHolds` (`ConsistentMeansConsistent`): the walk over a file's sections
  keeps a stack of open ones, whose top is the last section before of a lower level
  (`StackIsOpened`, `EnclosingIsAround`). Two sections of one level with no lower one
  between them so have one parent, which is what the search for duplicates
  compares (`SiblingsAreFound`); without an issue no key stands twice
  (`NothingStandsTwice`), none is unnamed (`EveryKeyIsNamed`) and none is read that
  is not defined (`EveryReadIsDefined`).
- `BracesMatch` (`BracesFound`): a step that moves on in a text unless it has
  ended has ended after as many steps as there are places (`RunsOut`), whatever it
  reads; so a reader that stays inside a literal until its end leaves it there
  (`LeaveIs`), and so for strings, verbatim strings, nested comments and raw
  strings (`PastQuoteIs`, `PastVerbatimIs`, `PastNestedIs`, `PastRawIs`): a piece
  without a brace is one lexeme, and sees no brace where it begins (`LexemeIs`).
  The scanner goes from each piece to the next with the braces open before it
  (`PieceScanned`), and ends at the first that closes (`BracesMatched`). A text in
  which an escape is misread (`MisreadEscape`), or a piece over several lines is
  (`OverLines`), is excepted; TLC finds that the property fails without either.
- `AnalysesCluster`: the analyses implement `CommunitiesSpec`, each other call by a
  stutter, and so keep `ClustersStayConnected` (`ClustersAreTheirs`) and
  `MovesKeepModularity` (`SearchesAreTheirs`).

`QueriesProofs`: `WalksKeepTrack` is the invariant `QueryInv` of a query in steps,
a part for each kind (`Impact`, `Walk`, `Tests`): what is seen has its depth in
the walk, what is queued is of two depths, and what is seen and not queued has led
to all it refers to. From it `ImpactsAreWhole` (`ImpactIsComplete`): depths
without a gap are no more than symbols (`LevelsAreFew`), so an empty queue means
that nothing is missing at any distance, and what the limits take away is the
farthest; `CompleteAnswersAre` (`CompleteMeansAll`); `TestsAreReached`
(`ReachedTestsSelected`); and, from `CyclesInv`, `CyclesAreWhole`
(`CyclesAreComponents`).

`ChainsAreFound` (`ChainIsFound`), in the same module, is about a walk that marks
more names as visited than it queues: all that a queued name may stand for. The
invariant `Chain` says that no hop is lost by that: a name that is visited, in the
graph and within `j` hops has all its hops visited, or they are among those of
the end of some queued path of at most `j + 1` names (`ChainServed`). A name is
marked by one whose neighbours include its own (`Serves`), and a class marks its
methods only after those had their turn (`FanIsWhole`, `TriedGoesOn`). So what is
nearer than every queued path has been visited and is not the target
(`ChainFront`), which gives both that a chain found is a shortest one and that an
empty queue means there is none. `ChainAssumption` is what this rests on: methods
sort before their class, a method that is referred to by its qualified name has an
entry in the graph, and no function goes by the name of a class or of another
class's method. Without the first TLC finds a chain longer than need be, without the
second one that is lost.

`MemoryProofs`: `MemoryInvariant`, `DuplicatesExplained`, `DistilledRowsRead`,
`SweepsKeepTexts`, `ProtectedRowsStay`. `MemoryInv` adds to the property that
hashes and deltas name rows that exist (`NamesExist`), that a hash is that of a
text the row has or had (`HashesName`), that an abstraction is out of every pass's
reach while a delta refers to it (`Anchored`), and that a save under way has seen
every row before a certain one (`LookedUp`). Passes that only archive or
reclassify are settled together, by what they keep of a row (`Kept`).

Type invariants are proved, and not spent a run on, for the index, the slot, the
session, the calls of the edit tools and the store. Model-checked only:

- all liveness, since TLAPS has no rules here for fairness or `ENABLED`;
- the annotators but for their braces: they recurse over texts and trees.

## Limits of the code

What the properties are worded around, found while modelling. None is taken for
granted elsewhere: where a property excepts one, its comment says so.

Index and slot. What a Java type inherits from is remembered also when a cycle cut
it short: where `Mid` extends `Base` and permits its subtype `Leaf`, the order of
indexing decides which ancestors `Leaf` has (`project_indexer.py:1325`). A type of
the package hides one imported by name, and one imported by a wildcard hides it,
the reverse of Java's rules (`:1631`, `:1649`). A comment-only edit of an
importer, reindexed directly, drops it from `reverse_import_graph`
(`project_indexer.py:414`). A class outside Java that two files define is in no
symbol table (`:708`). A `#` inside a string hides what follows from the body hash
(`symbol_hash.py:18`). The JSON cache is a file of the
project: every save makes it dirty, every call then reindexes and saves it and
renews the throttle, and the git check never runs (`slot_manager.py:113`,
`MCSlotDefault`); the other runs of the slot have a cache file that is ignored.
Edits less than 30 s apart starve the git check too (`:406`). The delete and
create of an atomic replacement come in one unordered set: with the delete last, a
file that exists leaves the index (`watcher.py:223`). An untracked file that was
indexed and deleted stays (`slot_manager.py:522`); a tracked file deleted, dropped
and restored does not come back until a build (`:450`). A git command that takes
more than ten seconds counts as one with nothing to say (`git_tracker.py:183`),
and the reference moves on all the same (`slot_manager.py:471`): the committed
files a cut change set left out are not looked for again; without a `head` the
reference becomes none, and the next check takes up HEAD without looking at what
lies between.

Session. A build that raises leaves `slot.indexer` without an index
(`slot_manager.py:206`): after a first build every query errors until `reindex`
or `set_project_root`; after a later one answers come from the detached index of
before, ever staler. Changes between such a build and the watcher's start at the
next `_prep` are missed by watcher and scan alike. Of two projects with one
basename, the name means the first. `set_project_root` and `reindex` keep a
watcher with the old exclude patterns (`server_handlers/project.py:91`). A tool's
write before the watcher's thread listens, or after it died (`watcher.py:175`,
`:249`), is reported by nobody, and `reindex_file` recorded its mtime: the result
memoized before it stays until something else changes the index. A nested class
that is asked for by its qualified name is served in full and not remembered. A hint
becomes the active project even when its call then fails. `reindex` says "already
up-to-date" by looking at edited indexed files only. A sampled abstract, or a
diff cut at five lines, counts as the body the client has (`code_nav.py:155`,
`:174`).

Edits. `move_symbol` with `create_if_missing=False` reports the missing target
after the symbol was deleted; its handler ends with an `AttributeError`, so that
nothing is reindexed; a target that imported the symbol comes to import itself;
callers left in the source get no import; only imports on one line, absolute and
without `as`, are rewritten, and only between files that are modules;
`import old_module` lines are redirected wholesale. A rollback fails silently if
another session pruned its checkpoint during the tests. A restore overwrites
edits made meanwhile; a partial checkpoint lists as valid; `prune` cannot order
checkpoints of one second (`checkpoint_ops.py:76`). `verify_edit` says "If all
four hold" and leaves `tests_available` out of `all_ok` (`edit_verifier.py:3`).

Memory. The second promotion rule (a note read ten times) is unreachable, the
first having taken the note; a promoted convention keeps `decay_immune` 0 and a
promoted row its expiry, and decay archives it. A `ttl_days` of the client's
applies to immune types too, and rows with one are archived however often they
were read ("never decay obs accessed >= 3 times", `decay.py:32`).
`observation_restore` checks no duplicate. `run_decay` and the collector leave
`memory_cache` as it was, and `invalidate_memory_cache` deletes a key that never
matches. `_auto_save` passes wrong keywords, and the `TypeError` is swallowed
(`server.py:408`). Consistency scores and counters are read and written back in
separate transactions (`consistency.py:145`, `server_runtime.py:256`).

Queries. Functions and methods of one name are merged in chains
(`query_api.py:1329`), and overloads of a Java method are visited together. A name
queued marks what else it may stand for as visited (`:1334`), which may hide a chain
outside `ChainAssumption`: a constructor of a class without a package, a function
named like a class, or two classes of one simple name; a nested class of Ruby, whose key
(`:3077`) sorts before those of its methods.
`get_change_impact` cuts its answer at 50000 characters unless told otherwise, and
says so; cut by `max_direct` or `max_transitive` it does not.
`find_impacted_test_files` misses the transitive importers of a changed file
without symbols. Communities and semantic hashes are not dropped after an
incremental update (`query_api.py:717`, `:2226`, `:2995`). `pack_context` may
pack a method twice. A symbol is sliced as its lines are: a method is indented
and falls into the window shown on a syntax error (`:2739`); `with`, `import`,
`except ... as` and walrus bindings and mutations are not definitions; a
definition later in a loop body is missed.

Analyses. Not compared as breaking: a dropped default, reordering, positional to
keyword-only, a lowered Java visibility; an added `*args` is reported. A
new version that does not parse counts as everything removed. Dead code: a
method live only as an entry point does not keep what it calls on `self`. Config:
the conflict across files compares the line after the key
(`config_analyzer.py:149`); a severity or a set of checks that leaves the orphans
out still prints `VERDICT: CONSISTENT`; ghost keys with `file_path` are judged
against that file alone. Leiden: ties keep `improved` true until
`max_iterations`. `_h_detect_breaking_changes` never saves its guardrails.

Annotators. C#, Rust and C: an escape in a character literal is not always read to
its end. Of an escaped quote C# and Rust take that quote for the closing one, and
after more than two escaped characters they take the first quote for a lifetime or
nothing at all (`brace_matcher.py:169`, `:316`); C steps over one escaped
character (`:45`). The quote that is left then begins a literal, which may hide a
brace. A string of Rust that goes on to another line is read as if it ended
(`brace_matcher.py:299`), so are strings and `//` comments of C that a backslash
continues, and C#'s raw strings are read as ordinary ones. The brace texts have no
C literals of several characters, no digit separators, and no quotes inside the
holes of an interpolated string. C: the line after the `}` of an anonymous struct
is consumed, whether or not the name is on it (`c_annotator.py:484`); a function
returning `struct foo *` is recorded as a struct. TypeScript: parameters taken
apart give a range of one line, a call at the start of a line in a class is a
method, multi-line imports are missed, `type A = string` without a semicolon
swallows the next declaration. Rust: a signature of several lines ends at its
first `;`; `use a::{B as C, D}` yields `{B`; `struct A;` before `struct B {`
swallows it (`rust_annotator.py:437`). Go: a parameter list of several lines is
not found, a function without a body swallows the next (`go_annotator.py:341`).
`DeclarationsFound` excepts sources with a declaration that is swallowed
(`NoneSwallowed`). Java: the type of a final or annotated parameter is not read
(`java_annotator.py:706`), nor are the variables of for-each loops, resources,
lambdas and patterns (`:722`), nor a type of the language, so that a field of the
same name seems to be meant (`TypeIsUnread`); what an interface extends is not
among its bases, and what a sealed type permits is (`:286`). C#: a class whose `{`
is on the next line is not recognised. Python and Ruby: functions under `if` or
`try` of a module, and `private :sym`, are not seen. Data: a JSON label equal to a
later key, or a key nested earlier, misplaces an entry; an HCL attribute map pops
the block; one-line blocks of `.conf` and prisma never close; `# comment` in
fenced code is a heading; ini sections equal but for case share a line; YAML keys
after `- ` have none.

## Not modelled

- Patterns of the annotators (regular expressions over text): which class of line
  or node a text is stands for them.
- The walk with its patterns and size limits, per-language import resolution
  beyond an ordered list of candidates.
- The serialisation of the JSON cache; edits between the four git commands of one
  change set, which are taken to see one tree.
- Lookups and searches that are projections of the index, result compression.
- Ranking, search, embeddings, bandits and consistency scores: floating point and
  full text search are out of TLC's reach.
- Sessions, summaries and events of the memory store: rows that are appended and
  listed, by which no rule decides.
- The prefetcher: no call is ever answered from what it caches.
- Statistics and telemetry: counters; the lost updates are named above.
- Viewer, dashboard, hooks, scripts: input and output. The Go port keeps no index
  between calls.
- `apply_refactoring` has no handler, and the edit certificate never blocks.

## Plan

Done, in this order: `ProjectIndex`, `SlotWatcher`, `SlotManager`, `SymbolCache`
and their proofs; `SlotMirror` and the refinement; `EditTools`; `MemoryStore`;
`Queries`; `Analyses` and the annotators; `ResultCache` over several projects; the
graph of a Java project; the proofs about edits, walks, chains, cycles,
communities, the analyses and the shortcut of the index; git commands that do not
answer, in `SlotManager` and its proofs. Next: a session over `SlotMirror` in
place of the one-step updates of `ResultCache`, to have edits between two reads of
one update among the session's steps.
