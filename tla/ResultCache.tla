---------------------------- MODULE ResultCache -----------------------------
(***************************************************************************)
(* One session of the server over several projects: which project a call   *)
(* is about (SlotManager.resolve, the project handlers), when its slot is  *)
(* built, and the session result cache (SRC) of server._dispatch_tool:     *)
(* find_symbol, get_functions and get_dependents are answered from earlier *)
(* results as long as cache_gen, the generation of the slot's index, is    *)
(* the same.                                                               *)
(*                                                                         *)
(* The server handles one call at a time, and a call is one action: the    *)
(* name resolved, _prep, which brings the index up to date, the handler.   *)
(* How _prep notices changes is the matter of SlotManager: here it sees a  *)
(* set of pending files.  The memoized query asks what one file defines.   *)
(***************************************************************************)
EXTENDS Naturals, Sequences, FiniteSets

CONSTANTS
    Roots,      \* directories that may become projects
    Files,      \* files of a project
    Texts,      \* texts of a file
    Names,      \* what a call may give as the project's name
    Fit,        \* how well a name fits a root: see Levels
    Absent,     \* no result, no project, no name
    MaxGen,     \* bound on cache_gen
    MaxTotal,   \* bound on the cache_gen of all slots together
    Changing    \* bound: the roots whose files change

\* Its path, its basename, that in another case, a part of it; not at all.
Levels == 1..5
Part == 4

ASSUME ResultCacheAssumption ==
    /\ Absent \notin Texts \cup Roots \cup Names
    /\ Fit \in [Names -> [Roots -> Levels]]
    /\ IsFiniteSet(Roots)
    /\ MaxGen \in Nat \ {0}

VARIABLES
    watched,       \* TOKEN_SAVIOR_WATCHER: slots have a watcher, or scan mtimes
    projects,      \* the registered roots, in the order of the dict
    active_root,   \* the project of a call that names none
    slot,          \* root -> _ProjectSlot: see Slots
    disk,          \* the working trees
    result_cache,  \* _session_result_cache
    reply          \* the answer being sent: root and file, and what it says

vars == <<watched, projects, active_root, slot, disk, result_cache, reply>>

\* none: no indexer.  broken: an indexer whose index() raised, no query_fns.
\* detached: the same, query_fns still those of the index before.
Statuses == {"none", "broken", "detached", "built"}
Slots == [status : Statuses,
          watcher : {"none", "starting", "listening", "dead"},   \* its thread
          index : [Files -> Texts \cup {Absent}],   \* what query_fns know of each file
          newer : SUBSET Files,        \* mtime not the one on record: changed since indexed
          pending : SUBSET Files,      \* the watcher has their event, or is getting it
          cache_gen : 0..MaxGen,
          edited : SUBSET Files,       \* history: files tools wrote in this generation ...
          unheard : SUBSET Files]      \* ... and those of them no watcher listened to
NoIndex == [f \in Files |-> Absent]
NewSlot == [status |-> "none", watcher |-> "none", index |-> NoIndex, newer |-> {},
            pending |-> {}, cache_gen |-> 0, edited |-> {}, unheard |-> {}]
NoReply == [root |-> Absent, file |-> Absent, value |-> Absent]
Registered == {projects[i] : i \in DOMAIN projects}
NoResults == [r \in Roots |-> [f \in Files |-> [g \in 1..MaxGen |-> Absent]]]

-----------------------------------------------------------------------------
(* Which project a call is about.                                          *)

\* The best fit of a registered root with the name n, 0 without any.
Best(n) ==
    LET known == {Fit[n][r] : r \in Registered} \cap 1..Part
    IN  IF known = {} THEN 0 ELSE CHOOSE k \in known : \A j \in known : k <= j

\* Of the roots at these places the first registered, but no guess between
\* parts of several basenames.
ChosenMutant(places, best) ==    \* a guess all the same, the last of equals
    IF places = {} THEN Absent ELSE projects[CHOOSE i \in places : \A j \in places : i >= j]
Chosen(places, best) ==
    IF places = {} \/ (best = Part /\ Cardinality(places) > 1) THEN Absent
    ELSE projects[CHOOSE i \in places : \A j \in places : i <= j]
Nearest(n, best) == Chosen({i \in DOMAIN projects : Fit[n][projects[i]] = best}, best)

\* resolve: without a name the active project, or the only one.
Resolve(n) ==
    IF n # Absent THEN Nearest(n, Best(n))
    ELSE IF active_root = Absent /\ Len(projects) = 1 THEN projects[1] ELSE active_root
-----------------------------------------------------------------------------
(* The slot of a project.                                                  *)

BuiltMutant(r) ==    \* results of before stay in reach
    [slot[r] EXCEPT !.status = "built", !.index = disk[r], !.newer = {},
                    !.edited = {}, !.unheard = {},
                    !.cache_gen = IF slot[r].status = "built" THEN @ ELSE @ + 1]
\* build(): a new index of a new generation; what a watcher saw is still
\* queued.  The indexer is replaced before index() has returned.
Built(r) ==
    [slot[r] EXCEPT !.status = "built", !.index = disk[r], !.newer = {},
                    !.cache_gen = @ + 1, !.edited = {}, !.unheard = {}]
Broken(r) == [slot[r] EXCEPT !.status = "broken", !.index = NoIndex]
Builds(r) == {Built(r), Broken(r)}

\* ensure: the index is built, or read from the cache file of an earlier run,
\* behind the tree by what was edited since: new mtimes.
Behind(r, i) == {f \in Files : i[f] # disk[r][f]}
Adopted(r, i) == [Built(r) EXCEPT !.index = i, !.newer = Behind(r, i)]
Ensured(r) == Builds(r) \cup {Adopted(r, i) : i \in [Files -> Texts]}

\* Phase 1 of maybe_update: what the watcher has reported by now, or without
\* a living one every file with a new mtime.
Noticed(s) == IF watched /\ s.watcher # "dead" THEN SUBSET s.pending ELSE {s.newer}

\* The generation after the files of S were reindexed.
NextGenMutant(s, S) == s.cache_gen    \* never bumped
NextGen(s, S) == IF S = {} THEN s.cache_gen ELSE s.cache_gen + 1

\* maybe_update of the slot s of r: the watcher's thread is begun if it was not,
\* the files of N are noticed, and git, when it is asked, tells of those of G.
Updated(s, r, N, G) ==
    LET S == N \cup G
    IN  [s EXCEPT !.watcher = IF watched /\ @ = "none" THEN "starting" ELSE @,
                  !.index = [f \in Files |-> IF f \in S THEN disk[r][f] ELSE @[f]],
                  !.newer = @ \ S, !.pending = @ \ N,
                  !.cache_gen = NextGen(s, S),
                  !.edited = IF S = {} THEN @ ELSE {},
                  !.unheard = IF S = {} THEN @ ELSE {}]

\* Git may tell of what others changed and of what tools wrote, and the rebuild
\* after a large change may raise.
Updates(s, r) ==
    {[Updated(s, r, N, G) EXCEPT !.status = st] :
        N \in Noticed(s), G \in SUBSET (s.newer \cup s.edited), st \in {"built", "detached"}}

\* _prep: ensure makes the index on first use, maybe_update keeps it up to
\* date.  With an indexer that has no index neither does anything.
Prepared(r) ==
    CASE slot[r].status = "none"  ->
             {Broken(r)} \cup UNION {Updates(s, r) : s \in Ensured(r) \ {Broken(r)}}
      [] slot[r].status = "built" -> Updates(slot[r], r)
      [] OTHER -> {slot[r]}

\* The slot of r after a call.
Leaves(r, s) ==
    /\ s.cache_gen <= MaxGen
    /\ slot' = [slot EXCEPT ![r] = s]
    /\ Cardinality({g \in Roots \X (1..MaxGen) : g[2] <= slot'[g[1]].cache_gen}) <= MaxTotal

\* _prep raised nothing and there are query_fns.
Answers(r, s) == s.status = "built" \/ (s.status = "detached" /\ slot[r].status = "detached")

-----------------------------------------------------------------------------
\* The roots of the workspace, the first of them or CLAUDE_PROJECT_ROOT active.
Workspaces ==
    {w \in [roots : UNION {[1..n -> Roots] : n \in 0..Cardinality(Roots)}, active : Roots \cup {Absent}] :
        /\ \A i, j \in DOMAIN w.roots : i # j => w.roots[i] # w.roots[j]
        /\ IF w.roots = <<>> THEN w.active = Absent
           ELSE \E i \in DOMAIN w.roots : w.active = w.roots[i]}

Init ==
    /\ watched \in BOOLEAN
    /\ \E w \in Workspaces : projects = w.roots /\ active_root = w.active
    /\ disk \in [Roots -> [Files -> Texts]]
    /\ slot = [r \in Roots |-> NewSlot]
    /\ result_cache = NoResults
    /\ reply = NoReply

\* An editor, or git, changes a file.
Edit(r, f) ==
    /\ r \in Changing
    /\ \E t \in Texts \ {disk[r][f]} : disk' = [disk EXCEPT ![r][f] = t]
    /\ slot' = IF slot[r].status = "none" THEN slot
               ELSE [slot EXCEPT ![r].newer = @ \cup {f},
                                 ![r].pending = IF slot[r].watcher = "listening" THEN @ \cup {f} ELSE @]
    /\ reply' = NoReply
    /\ UNCHANGED <<watched, projects, active_root, result_cache>>

\* The watcher's thread comes to listen some time after start() has returned,
\* and may die: then it is never begun again.
WatcherThread(r) ==
    /\ \/ slot[r].watcher = "starting" /\ slot' = [slot EXCEPT ![r].watcher = "listening"]
       \/ /\ slot[r].watcher \in {"starting", "listening"}
          /\ slot' = [slot EXCEPT ![r].watcher = "dead"]
    /\ reply' = NoReply
    /\ UNCHANGED <<watched, projects, active_root, disk, result_cache>>

\* The projects a call may be about, by a name or without one.
About == {Resolve(n) : n \in Names \cup {Absent}} \ {Absent}

\* A memoized query about file f, under its key for the generation.  Like any
\* call that _dispatch_tool prepares, it makes its project the active one.
Query(f) ==
    \E r \in About :
        /\ active_root' = r
        /\ \E s \in Prepared(r) :
              LET cached == result_cache[r][f][s.cache_gen]
                  result == IF cached # Absent THEN cached ELSE s.index[f]
              IN  /\ Leaves(r, s)
                  /\ IF Answers(r, s)
                     THEN /\ result_cache' = [result_cache EXCEPT ![r][f][s.cache_gen] = result]
                          /\ reply' = [root |-> r, file |-> f, value |-> result]
                     ELSE reply' = NoReply /\ UNCHANGED result_cache
        /\ UNCHANGED <<watched, projects, disk>>

\* Any other tool of a slot, as far as the index goes.
Consult ==
    \E r \in About :
        /\ active_root' = r
        /\ \E s \in Prepared(r) : Leaves(r, s)
        /\ reply' = NoReply
        /\ UNCHANGED <<watched, projects, disk, result_cache>>

\* What a tool's write leaves for the next _prep: the mtime on record is that
\* of the write, so a scan finds nothing, but a watcher that listens reports it.
PendingAfterToolMutant(s, f) == s.pending \ {f}    \* own writes filtered
PendingAfterTool(s, f) == IF s.watcher = "listening" THEN s.pending \cup {f} ELSE s.pending

\* reindex_file(f), after f was given the text t.
Reindexed(s, f, t) ==
    [s EXCEPT !.index = [@ EXCEPT ![f] = t], !.newer = @ \ {f},
              !.pending = PendingAfterTool(s, f), !.edited = @ \cup {f},
              !.unheard = IF s.watcher = "listening" THEN @ \ {f} ELSE @ \cup {f}]

\* An edit, restore or apply handler: _prep, write the file, reindex_file.
ToolEdit(f) ==
    \E r \in About \cap Changing :
        /\ active_root' = r
        /\ \E s \in Prepared(r), t \in Texts \ {disk[r][f]} :
              /\ s.status = "built"
              /\ disk' = [disk EXCEPT ![r][f] = t]
              /\ Leaves(r, Reindexed(s, f, t))
        /\ reply' = NoReply
        /\ UNCHANGED <<watched, projects, result_cache>>

\* switch_project: only what has no indexer yet gets an index.
Switch ==
    \E r \in {Resolve(n) : n \in Names} \ {Absent} :
        /\ active_root' = r
        /\ \E s \in IF slot[r].status = "none" THEN Ensured(r) ELSE {slot[r]} : Leaves(r, s)
        /\ reply' = NoReply
        /\ UNCHANGED <<watched, projects, disk, result_cache>>

\* set_project_root: registers the root and builds its index, anew or again.
SetProjectRoot(r) ==
    /\ projects' = IF r \in Registered THEN projects ELSE Append(projects, r)
    /\ active_root' = r
    /\ \E s \in Builds(r) : Leaves(r, s)
    /\ reply' = NoReply
    /\ UNCHANGED <<watched, disk, result_cache>>

\* The reindex tool, where it does not find the index fresh; naming a project
\* does not make it the active one.
Reindex ==
    \E r \in About :
        /\ \/ r = Resolve(Absent) /\ active_root' = r
           \/ r \in {Resolve(n) : n \in Names} /\ UNCHANGED active_root
        /\ \E s \in Builds(r) : Leaves(r, s)
        /\ reply' = NoReply
        /\ UNCHANGED <<watched, projects, disk, result_cache>>

\* The server is started again: empty slots, an empty cache.
Restart ==
    /\ \E w \in Workspaces : projects' = w.roots /\ active_root' = w.active
    /\ slot' = [r \in Roots |-> NewSlot]
    /\ result_cache' = NoResults
    /\ reply' = NoReply
    /\ UNCHANGED <<watched, disk>>

Call == Consult \/ Switch \/ Reindex \/ \E f \in Files : Query(f) \/ ToolEdit(f)

Next ==
    \/ \E r \in Roots : SetProjectRoot(r) \/ WatcherThread(r) \/ \E f \in Files : Edit(r, f)
    \/ Call \/ Restart

Spec == Init /\ [][Next]_vars
-----------------------------------------------------------------------------
(* Properties.                                                             *)

TypeOK ==
    /\ watched \in BOOLEAN
    /\ projects \in Seq(Roots) /\ active_root \in Roots \cup {Absent}
    /\ slot \in [Roots -> Slots]
    /\ disk \in [Roots -> [Files -> Texts]]
    /\ result_cache \in [Roots -> [Files -> [1..MaxGen -> Texts \cup {Absent}]]]
    /\ reply \in [root : Roots \cup {Absent}, file : Files \cup {Absent}, value : Texts \cup {Absent}]

\* A slot that answers, and a result on record for f that is not what its
\* index says now.
Serves(r) == slot[r].status \in {"built", "detached"}
Stale(r, f) ==
    /\ Serves(r)
    /\ result_cache[r][f][slot[r].cache_gen] \notin {Absent, slot[r].index[f]}

\* "They all return pure functions of (slot index state, args)"
\* (server_state.py:78): an answer is what the index gives when it is sent.
AnswersAreCurrent ==
    [][reply' # NoReply => reply'.value = slot'[reply'.root].index[reply'.file]]_vars

\* A result out of date is about a file that a tool wrote since cache_gen last
\* changed: maybe_update and build bump it with every other change of the
\* index, and generations to come hold nothing.
StaleOnlyAfterToolEdit ==
    \A r \in Roots, f \in Files :
        /\ Stale(r, f) => f \in slot[r].edited
        /\ \A g \in slot[r].cache_gen + 1..MaxGen : result_cache[r][f][g] = Absent

\* While a watcher listens, a stale result does not outlive the event of the
\* write: the event is still to be drained, and draining it bumps cache_gen.
\* Not so when the tool wrote before the thread listened: nothing reports that
\* write, nor does the scan after the watcher has died, because reindex_file
\* recorded its mtime.
StaleUntilReported ==
    \A r \in Roots, f \in Files :
        slot[r].watcher = "listening" /\ Stale(r, f) /\ f \notin slot[r].unheard =>
            f \in slot[r].pending

\* What an answer leaves out is a change of that project that its slot has not
\* indexed yet or that a tool made in this generation, whatever was asked of
\* other projects, and also after a build that failed.
AnswersLagOnlyBehind ==
    [][reply' # NoReply =>
          LET s == slot'[reply'.root]
          IN  \/ reply'.value = disk[reply'.root][reply'.file]
              \/ reply'.file \in s.newer \cup s.edited]_vars

\* "bail if ambiguous so we don't silently switch to the wrong project"
\* (slot_manager.py:253): as projects come, a name may become ambiguous, but
\* only goes over to a project it fits better.
NamesKeepTheirProject ==
    [][projects' # projects /\ ~Restart =>
          \A n \in Names :
              Resolve(n) # Absent =>
                  \/ Resolve(n)' \in {Resolve(n), Absent}
                  \/ Fit[n][Resolve(n)'] < Fit[n][Resolve(n)]]_vars
=============================================================================
