---------------------------- MODULE SlotManager -----------------------------
(***************************************************************************)
(* One project slot of token_savior/slot_manager.py: its index is loaded   *)
(* from the cache or built on first use, and brought up to date before     *)
(* every tool call by maybe_update, from the watcher's sets or an mtime    *)
(* scan, and from a throttled git check.                                   *)
(*                                                                         *)
(* The handlers run on one thread, in the steps below; the working tree,   *)
(* the git history and the watcher thread (SlotWatcher) move between any   *)
(* two of them.  The cross-file tables are left to ProjectIndex: here the  *)
(* index is what text it holds for each file.                              *)
(*                                                                         *)
(* An mtime is only ever compared for equality with the one recorded, so   *)
(* `stamp' keeps the outcome of that comparison: every write gives a file  *)
(* an mtime it never had.                                                  *)
(***************************************************************************)
EXTENDS SlotWatcher, Naturals, Sequences

CONSTANTS
    Contents,          \* the texts a file may hold
    Broken,            \* those on which the annotator raises
    Absent,            \* no such file, no such entry
    IsGit,             \* the root is inside a git work tree
    WatcherMode,       \* "on" and "auto" (the watcher starts), or "off"
    WatcherMayFail,    \* the watcher thread may die
    Unreliable,        \* the git commands that may fail, or take more than ten seconds
    CacheFile,         \* path of the JSON cache if the patterns admit it, or Absent
    IncrementalLimit,  \* most changed files updated one by one (20)
    MaxCommits,        \* bound: commits made
    MaxRestarts        \* bound: restarts of the server

ASSUME SlotAssumption ==
    /\ Absent \notin Files \cup Contents /\ Contents # {} /\ Broken \subseteq Contents
    /\ IsGit \in BOOLEAN /\ WatcherMayFail \in BOOLEAN
    /\ WatcherMode \in {"on", "off"}
    /\ CacheFile \in Files \cup {Absent}
    /\ IncrementalLimit \in Nat /\ MaxCommits \in Nat /\ MaxRestarts \in Nat

VARIABLES
    disk,      \* the working tree
    commits,   \* trees committed so far; HEAD is the last one
    files,     \* idx.files: the text indexed for each file
    stamp,     \* does idx.file_mtimes match the file's mtime: same, old
    ref,       \* idx.last_indexed_git_ref, an index into commits; 0: None
    isGit,     \* slot.is_git: git has said that the root is in a work tree
    cache,     \* the JSON cache on disk
    recent,    \* less than 30 s since _last_update_check
    pc,        \* where the thread serving tool calls is
    todo,      \* files still to reindex in this phase
    reading,   \* the file being indexed, and its mtime against the disk
    handled,   \* mtime_changed: not to be reindexed again by the git phase
    touched,   \* this call removed or reindexed something (any_dirty, _dirty)
    bumped,    \* cache_gen was incremented since the call began
    mutated,   \* history: idx.files changed since the call began
    missed,    \* history: changed while no watcher listened, or dropped because git
               \* did not answer, and not read since
    restarts   \* bound: number of restarts so far

indexVars == <<files, stamp, ref, isGit>>
callVars == <<pc, todo, reading, handled, touched, bumped, mutated>>
envVars == <<disk, commits>>
vars == <<envVars, indexVars, callVars, watcherVars, cache, recent, missed, restarts>>

-----------------------------------------------------------------------------
(* Helpers.                                                                *)

None == [file |-> Absent, stamp |-> "old"]
Trees == [Files -> Contents \cup {Absent}]
HeadRef == Len(commits)
EmptyTree == [f \in Files |-> Absent]
NoCache == [files |-> EmptyTree, stamp |-> [f \in Files |-> "old"], ref |-> 0]
HeadTree == IF HeadRef = 0 THEN EmptyTree ELSE commits[HeadRef]
OnDisk == {f \in Files : disk[f] # Absent}
Indexed == {f \in Files : files[f] # Absent}

\* The entry of a file that was read: none when annotate() raised.
EntryOf(text) == IF text \in Broken THEN Absent ELSE text

\* check_mtime_changes: indexed files that exist with another mtime.
MtimeChanged == {f \in Indexed \cap OnDisk : stamp[f] = "old"}

\* Of the git commands that a step runs, those that answer: one that takes more
\* than ten seconds, or fails, is taken to have nothing to say.
Answering(commands) == {commands \ silent : silent \in SUBSET (commands \cap Unreliable)}
DiffCommands == {"history", "tree", "others"}

\* is_git_repo, get_head_commit
IsGitRepo(answers) == IsGit /\ "worktree" \in answers
HeadCommit(answers) == IF "head" \in answers THEN HeadRef ELSE 0

\* git ls-files --others
UntrackedMutant == {}    \* not listed
Untracked == {f \in OnDisk : HeadTree[f] = Absent}

\* get_changed_files(root, ref): differences of the tree of ref with HEAD and
\* of HEAD with the working tree, and untracked files, as far as git answers;
\* what appears both as added and as deleted counts as modified.  The staging
\* area follows HEAD.
ChangeSet(r, answers) ==
    LET From(command, S) == IF command \in answers THEN S ELSE {}
        old == commits[r]
        diffM == {f \in Files : old[f] # HeadTree[f] /\ old[f] # Absent /\ HeadTree[f] # Absent}
        diffA == {f \in Files : old[f] = Absent /\ HeadTree[f] # Absent}
        diffD == {f \in Files : old[f] # Absent /\ HeadTree[f] = Absent}
        treeM == {f \in OnDisk : HeadTree[f] \notin {Absent, disk[f]}}
        treeD == {f \in Files \ OnDisk : HeadTree[f] # Absent}
        added == From("history", diffA) \cup From("others", Untracked)
        removed == From("history", diffD) \cup From("tree", treeD)
    IN  [modified |-> From("history", diffM) \cup From("tree", treeM) \cup (added \cap removed),
         added |-> added \ removed,
         deleted |-> removed \ added]

SizeOf(cs) == Cardinality(cs.modified) + Cardinality(cs.added) + Cardinality(cs.deleted)

\* total_changes > 20 and total_changes > idx.total_files * 0.5
TooLarge(cs) ==
    SizeOf(cs) > IncrementalLimit /\ 2 * SizeOf(cs) > Cardinality(Indexed)

CacheText == CHOOSE c \in Contents : TRUE

\* The cache is written to the project's root, where it may be a file of the
\* project like any other.
TouchCacheFile ==
    IF CacheFile = Absent THEN UNCHANGED <<disk, stamp, raised, missed>>
    ELSE /\ disk' = [disk EXCEPT ![CacheFile] = CacheText]
         /\ stamp' = [stamp EXCEPT ![CacheFile] = "old"]
         /\ Report("written", CacheFile)
         /\ missed' = IF watcher = "listening" THEN missed ELSE missed \cup {CacheFile}

\* _save_cache(idx)
Save ==
    /\ TouchCacheFile
    /\ cache' = [files |-> files', stamp |-> stamp', ref |-> ref']
NoSave == UNCHANGED <<cache, disk, stamp, raised, missed>>

\* What a step of a call that may save leaves alone in any case.
outsideVars == <<commits, watcher, changes, dirty, deleted, restarts>>

-----------------------------------------------------------------------------
Init ==
    /\ WatcherInit
    /\ disk \in {tree \in Trees : \A f \in Files : f = CacheFile => tree[f] = Absent}
    /\ commits \in IF IsGit THEN {<< >>, <<disk>>} ELSE {<< >>}
    /\ files = EmptyTree
    /\ stamp = [f \in Files |-> "old"]
    /\ ref = 0 /\ isGit = FALSE
    /\ cache = NoCache
    /\ recent = FALSE
    /\ pc = "fresh"
    /\ todo = {} /\ handled = {} /\ reading = None
    /\ touched = FALSE /\ bumped = FALSE /\ mutated = FALSE
    /\ missed = Files
    /\ restarts = 0

-----------------------------------------------------------------------------
(* The environment.                                                        *)

\* A file is created, modified, deleted or restored: no mtime on record
\* matches it any more.
Change(f) ==
    /\ f # CacheFile /\ MayChange(f)
    /\ \E c \in (Contents \cup {Absent}) \ {disk[f]} :
        /\ disk' = [disk EXCEPT ![f] = c]
        /\ Report(IF c = Absent THEN "deleted" ELSE "written", f)
    /\ stamp' = [stamp EXCEPT ![f] = "old"]
    /\ cache' = [cache EXCEPT !.stamp[f] = "old"]
    /\ reading' = IF reading.file = f THEN [reading EXCEPT !.stamp = "old"] ELSE reading
    /\ missed' = IF watcher = "listening" THEN missed ELSE missed \cup {f}
    /\ UNCHANGED <<commits, files, ref, isGit, recent, pc, todo, handled, touched, bumped,
                   mutated, watcher, changes, dirty, deleted, restarts>>

\* git add; git commit.  Nobody commits the cache.
Commit ==
    /\ IsGit /\ HeadRef < MaxCommits
    /\ LET tree == [f \in Files |-> IF f = CacheFile THEN Absent ELSE disk[f]]
       IN  tree # HeadTree /\ commits' = Append(commits, tree)
    /\ UNCHANGED <<disk, indexVars, callVars, watcherVars, cache, recent, missed, restarts>>

\* Thirty seconds pass between two calls.
Tick ==
    /\ pc = "idle" /\ recent
    /\ recent' = FALSE
    /\ UNCHANGED <<envVars, indexVars, callVars, watcherVars, cache, missed, restarts>>

WatcherThread ==
    /\ Listen \/ Yield \/ Classify
    /\ UNCHANGED <<envVars, indexVars, callVars, cache, recent, missed, restarts>>

WatcherFails ==
    /\ WatcherMayFail /\ Fail
    /\ missed' = missed \cup Undrained
    /\ UNCHANGED <<envVars, indexVars, callVars, cache, recent, restarts>>

\* The server dies and is started again; a save under way is torn, and a torn
\* cache loads as no cache.
Restart ==
    /\ restarts < MaxRestarts
    /\ restarts' = restarts + 1
    /\ cache' \in IF pc \in {"build", "phase2", "phase3"} THEN {cache, NoCache} ELSE {cache}
    /\ files' = EmptyTree
    /\ stamp' = [f \in Files |-> "old"]
    /\ ref' = 0 /\ isGit' = FALSE
    /\ recent' = FALSE
    /\ pc' = "fresh"
    /\ todo' = {} /\ handled' = {} /\ reading' = None
    /\ touched' = FALSE /\ bumped' = FALSE /\ mutated' = FALSE
    /\ missed' = Files
    /\ WatcherGone
    /\ UNCHANGED envVars

-----------------------------------------------------------------------------
(* ensure, build.                                                          *)

Adoptable(answers) ==
    /\ IsGitRepo(answers) /\ cache.ref # 0
    /\ \/ cache.ref = HeadCommit(answers)
       \/ SizeOf(ChangeSet(cache.ref, answers)) \in 1..IncrementalLimit

\* ensure(): what git answers decides whether the cache will do.
Ensure(adopt) ==
    \E answers \in Answering({"worktree", "head"} \cup DiffCommands) :
        /\ Adoptable(answers) = adopt
        /\ isGit' = IsGitRepo(answers)

\* The cached index is adopted as it is, both when HEAD is where it was left
\* and when at most 20 files changed: updating it is left to maybe_update.
AdoptCache ==
    /\ pc = "fresh" /\ Ensure(TRUE)
    /\ files' = cache.files /\ stamp' = cache.stamp /\ ref' = cache.ref
    /\ pc' = "idle" /\ bumped' = TRUE /\ mutated' = TRUE
    /\ UNCHANGED <<envVars, todo, reading, handled, touched, watcherVars, cache, recent,
                   missed, restarts>>

\* build() enters index(): the files found by the walk are read one by one
\* (StatFile, ReadFile) into a new index.  On first use, by the reindex tool,
\* and for a large change set.
BeginBuild ==
    /\ \/ pc = "fresh" /\ Ensure(FALSE)
       \/ pc \in {"idle", "rebuild"} /\ UNCHANGED isGit
    /\ files' = EmptyTree
    /\ stamp' = [f \in Files |-> "old"]
    /\ ref' = 0
    /\ todo' = OnDisk
    /\ missed' = missed \cap OnDisk
    /\ bumped' = TRUE /\ mutated' = TRUE
    /\ pc' = "build"
    /\ UNCHANGED <<envVars, reading, handled, touched, watcherVars, cache, recent, restarts>>

\* HEAD is read when the files have been; git is asked again whether there is
\* a work tree, if it has not said so.
Indexes ==
    \E answers \in Answering({"worktree", "head"}) :
        /\ isGit' = (isGit \/ IsGitRepo(answers))
        /\ ref' = IF isGit' THEN HeadCommit(answers) ELSE 0

EndBuildMutant ==        \* the mtimes are taken when the build is over
    /\ pc = "build" /\ todo = {} /\ reading = None
    /\ Indexes
    /\ stamp' = [f \in Files |-> IF f \in Indexed \cap OnDisk THEN "same" ELSE "old"]
    /\ cache' = IF isGit' THEN [files |-> files, stamp |-> stamp', ref |-> ref'] ELSE cache
    /\ UNCHANGED <<files, disk, raised, missed>>
    /\ pc' = "idle" /\ handled' = {} /\ touched' = FALSE
    /\ UNCHANGED <<outsideVars, todo, reading, bumped, mutated, recent>>
\* index() returns; HEAD is read and the cache written.
EndBuild ==
    /\ pc = "build" /\ todo = {} /\ reading = None
    /\ Indexes
    /\ UNCHANGED files
    /\ IF isGit' THEN Save ELSE NoSave
    /\ pc' = "idle" /\ handled' = {} /\ touched' = FALSE
    /\ UNCHANGED <<outsideVars, todo, reading, bumped, mutated, recent>>

-----------------------------------------------------------------------------
(* maybe_update.                                                           *)

\* _ensure_watcher: started on the first update, never retried.
WatcherAfterStart ==
    IF watcher = "none" /\ WatcherMode = "on"
    THEN {"starting"} \cup (IF WatcherMayFail THEN {"failed"} ELSE {})
    ELSE {watcher}

DrainWatcherMutant ==    \* deletions are left to the git check
    /\ UNCHANGED files
    /\ todo' = dirty
    /\ touched' = (deleted # {})
    /\ missed' = missed \ deleted
    /\ Drain
\* Phase 1 with a healthy watcher: drain it and drop what it saw deleted.
DrainWatcher ==
    /\ files' = [f \in Files |-> IF f \in deleted THEN Absent ELSE files[f]]
    /\ todo' = dirty
    /\ touched' = (deleted # {})
    /\ missed' = missed \ deleted
    /\ Drain

\* Phase 1 without: compare mtimes.
ScanMtimes ==
    /\ todo' = MtimeChanged
    /\ touched' = (todo' # {})
    /\ UNCHANGED <<files, raised, changes, dirty, deleted, missed>>

BeginUpdate ==
    /\ pc = "idle"
    /\ watcher' \in WatcherAfterStart
    /\ IF WatcherOk' THEN DrainWatcher ELSE ScanMtimes
    /\ handled' = todo'
    /\ bumped' = FALSE /\ mutated' = (files' # files)
    /\ pc' = "phase1"
    /\ UNCHANGED <<envVars, stamp, ref, isGit, reading, cache, recent, restarts>>

\* The loops over files to (re)index: isfile and getmtime ...
StatFile ==
    /\ pc \in {"build", "phase1", "phase3"} /\ reading = None
    /\ \E f \in todo :
          IF disk[f] = Absent
          THEN todo' = todo \ {f} /\ UNCHANGED reading
          ELSE reading' = [file |-> f, stamp |-> "same"] /\ UNCHANGED todo
    /\ UNCHANGED <<envVars, indexVars, pc, handled, touched, bumped, mutated, watcherVars,
                   cache, recent, missed, restarts>>

\* ... then the text is read and annotated; a file gone by then has no entry.
ReadFile ==
    /\ reading # None
    /\ LET f == reading.file
       IN  /\ files' = [files EXCEPT ![f] = EntryOf(disk[f])]
           /\ stamp' = [stamp EXCEPT ![f] = reading.stamp]
           /\ todo' = todo \ {f}
           /\ missed' = missed \ {f}
    /\ reading' = None
    /\ touched' = TRUE
    /\ mutated' = (mutated \/ files' # files)
    /\ UNCHANGED <<envVars, ref, isGit, pc, handled, bumped, watcherVars, cache, recent, restarts>>

EndPhase1Mutant ==       \* the throttle starts anew on every call
    /\ pc = "phase1" /\ todo = {} /\ reading = None
    /\ bumped' = touched
    /\ recent' = TRUE
    /\ pc' = "phase2"
    /\ UNCHANGED <<envVars, indexVars, todo, reading, handled, touched, mutated, watcherVars,
                   cache, missed, restarts>>
\* rebuild_graphs and cache_gen, when anything was removed or reindexed; the
\* git throttle starts anew.
EndPhase1 ==
    /\ pc = "phase1" /\ todo = {} /\ reading = None
    /\ bumped' = touched
    /\ recent' = (recent \/ touched)
    /\ pc' = "phase2"
    /\ UNCHANGED <<envVars, indexVars, todo, reading, handled, touched, mutated, watcherVars,
                   cache, missed, restarts>>

\* Return from maybe_update without a git check, or with nothing found.
Return ==
    /\ UNCHANGED <<files, ref>>
    /\ IF touched THEN Save ELSE NoSave
    /\ pc' = "idle" /\ handled' = {} /\ touched' = FALSE

\* Phase 2 is for git trees, and at most every 30 s.
SkipGitCheck ==
    /\ pc = "phase2" /\ (~isGit \/ recent)
    /\ Return
    /\ UNCHANGED <<outsideVars, isGit, todo, reading, bumped, mutated, recent>>

\* The first commit of the repository becomes the reference.
AdoptHead(answers) ==
    /\ ref' = HeadCommit(answers)
    /\ UNCHANGED <<files, todo, mutated>>
    /\ IF ref' # 0 \/ touched THEN Save ELSE NoSave
    /\ pc' = "idle" /\ handled' = {} /\ touched' = FALSE

NothingChanged ==
    /\ UNCHANGED <<todo, mutated>>
    /\ Return

ApplyChangeSet(cs) ==
    /\ files' = [f \in Files |-> IF f \in cs.deleted THEN Absent ELSE files[f]]
    /\ UNCHANGED <<disk, raised, stamp, ref, cache, handled>>
    /\ todo' = (cs.modified \cup cs.added) \ handled
    /\ touched' = (cs.deleted # {})
    /\ mutated' = (mutated \/ files' # files)
    /\ missed' = (missed \ cs.deleted) \cup (cs.deleted \cap OnDisk)
    /\ pc' = "phase3"

RebuildInstead ==
    /\ pc' = "rebuild"
    /\ UNCHANGED <<disk, raised, indexVars, cache, todo, handled, touched, missed, mutated>>

Checking == pc = "phase2" /\ isGit /\ ~recent

GitCheckWith(answers) ==
    /\ Checking
    /\ recent' = TRUE
    /\ IF ref = 0 THEN AdoptHead(answers)
       ELSE LET cs == ChangeSet(ref, answers)
            IN  IF SizeOf(cs) = 0 THEN NothingChanged
                ELSE IF TooLarge(cs) THEN RebuildInstead
                ELSE ApplyChangeSet(cs)
    /\ UNCHANGED <<outsideVars, isGit, reading, bumped>>

CheckCommands == IF ref = 0 THEN {"head"} ELSE DiffCommands
GitCheck == \E answers \in Answering(CheckCommands) : GitCheckWith(answers)

\* HEAD is the new reference, whatever the change set was.
MoveReference == \E answers \in Answering({"head"}) : ref' = HeadCommit(answers)

EndPhase3Mutant ==       \* cache_gen is left alone
    /\ pc = "phase3" /\ todo = {} /\ reading = None
    /\ UNCHANGED bumped
    /\ MoveReference
    /\ UNCHANGED files
    /\ Save
    /\ pc' = "idle" /\ handled' = {} /\ touched' = FALSE
    /\ UNCHANGED <<outsideVars, isGit, todo, reading, mutated, recent>>
\* After the change set: graphs, cache_gen, HEAD as the new reference, save.
EndPhase3 ==
    /\ pc = "phase3" /\ todo = {} /\ reading = None
    /\ bumped' = (bumped \/ touched)
    /\ MoveReference
    /\ UNCHANGED files
    /\ Save
    /\ pc' = "idle" /\ handled' = {} /\ touched' = FALSE
    /\ UNCHANGED <<outsideVars, isGit, todo, reading, mutated, recent>>

-----------------------------------------------------------------------------
Handler ==
    \/ AdoptCache \/ BeginBuild \/ EndBuild
    \/ BeginUpdate \/ StatFile \/ ReadFile \/ EndPhase1
    \/ SkipGitCheck \/ GitCheck \/ EndPhase3

Environment == (\E f \in Files : Change(f)) \/ Commit \/ Tick \/ WatcherFails \/ Restart

Next == Handler \/ WatcherThread \/ Environment

Spec == Init /\ [][Next]_vars

\* A call that has begun runs to its end, and the watcher thread is scheduled.
\* Tool calls other than reindex keep coming, and every so often the gap
\* between two calls exceeds 30 s: strong fairness, since a call or a reindex
\* in between disables both.  Nobody has to edit, commit, reindex or restart,
\* and git need not answer.
Fairness ==
    /\ WF_vars(pc # "idle" /\ Handler)
    /\ SF_vars(BeginUpdate)
    /\ SF_vars(Tick)
    /\ WF_vars(WatcherThread)

LiveSpec == Spec /\ Fairness

-----------------------------------------------------------------------------
(* Properties.                                                             *)

PCs == {"fresh", "build", "rebuild", "idle", "phase1", "phase2", "phase3"}
Entries == [files : Trees, stamp : [Files -> {"same", "old"}], ref : 0..MaxCommits]

TypeOK ==
    /\ WatcherTypeOK
    /\ disk \in Trees /\ files \in Trees
    /\ commits \in Seq(Trees) /\ Len(commits) <= MaxCommits
    /\ stamp \in [Files -> {"same", "old"}]
    /\ ref \in 0..HeadRef /\ isGit \in BOOLEAN
    /\ cache \in Entries
    /\ recent \in BOOLEAN
    /\ pc \in PCs
    /\ todo \subseteq Files /\ handled \subseteq Files
    /\ reading \in [file : Files \cup {Absent}, stamp : {"same", "old"}]
    /\ touched \in BOOLEAN /\ bumped \in BOOLEAN /\ mutated \in BOOLEAN
    /\ missed \subseteq Files
    /\ restarts \in 0..MaxRestarts

\* While the watcher listens, a file whose entry is not what its text gives is on
\* its way: in the change set being gathered or classified, in one of the two
\* sets, or among the files being reindexed.  The exceptions are a file that
\* changed while nothing listened, and one that was dropped because git did not
\* answer in full.  Holds when no path changes twice in one
\* debounce window; watcher.py:7 promises it for editors that replace a file.
NoLostChange ==
    watcher = "listening" =>
        \A f \in Files : files[f] # EntryOf(disk[f]) => f \in Undrained \cup todo \cup missed

\* A path the watcher reports is either dirty or deleted, never both: the
\* order of the two loops of maybe_update cannot matter.
DirtyOrDeleted == dirty \cap deleted = {}

\* An edit of an indexed file is visible to the mtime scan, whether it fell
\* between the stat and the read of reindex_file, during a build, between
\* save and restart, or while the server was down: the recorded mtime never
\* matches a text the index does not hold.
EditsHaveNewMtime ==
    /\ \A f \in Indexed \cap OnDisk : files[f] # disk[f] => stamp[f] = "old"
    /\ \A f \in OnDisk :
          cache.files[f] \notin {Absent, disk[f]} => cache.stamp[f] = "old"

\* When maybe_update or ensure returns, an index that changed has a new
\* cache_gen: results cached under the old one are out of reach.
ChangesBumpGeneration == pc = "idle" => (mutated => bumped)

\* The liveness properties look at the index when a call has returned: while
\* build() runs there is none to look at.
Returned(p) == pc = "idle" => p

\* Without a watcher (off, or failed at the start or later), an edited file
\* that stays as it is ends up in the index, as long as it keeps an entry.
EditsReachIndex ==
    \A f \in Files, c \in Contents :
        <>[](disk[f] = c /\ ~WatcherOk /\ Returned(files[f] # Absent))
            => <>[]Returned(files[f] = c)

\* With a watcher that keeps listening, every file ends up as it is on disk,
\* created and deleted files too, unless it changed while nothing listened.
WatchedFilesReachIndex ==
    \A f \in Files, c \in Contents \cup {Absent} :
        <>[](disk[f] = c) => <>[]Returned(files[f] = EntryOf(c) \/ f \in missed)

\* In a git tree that has settled, what differs from HEAD is in the index,
\* untracked and deleted files too, when there is no watcher (any more) and
\* git answers some of the checks in full, again and again.
UncommittedReachIndex ==
    \A f \in Files, c \in Contents \cup {Absent} :
        <>[](/\ disk[f] = c /\ HeadRef # 0 /\ HeadTree[f] # c
             /\ ~WatcherOk /\ Returned(ref # 0))
        /\ []<><<GitCheckWith(CheckCommands)>>_vars
            => <>[]Returned(files[f] = EntryOf(c))

\* "mtime detection + periodic git check" (slot_manager.py:335): once git has
\* said that the root is in a work tree and people stop editing, the throttled
\* git check comes around for ever.
PeriodicGitCheck ==
    <>[]isGit /\ <>[][\A f \in Files : ~Change(f)]_vars => []<>Checking

\* It does where the patterns keep the cache file out of the project: nothing
\* that maybe_update itself does then gives it new work and starts the throttle
\* anew.  By default they admit it, as the JSON file it is: every call finds it
\* changed, indexes it and saves it again.
GitCheckResumes == CacheFile = Absent => PeriodicGitCheck

\* How the steps of a call look from outside.
PhaseOf == [at \in PCs |->
    CASE at = "fresh" -> "down" [] at = "idle" -> "answering"
      [] at = "build" -> "building" [] OTHER -> "updating"]
Mirror ==
    INSTANCE SlotMirror WITH
        tree <- disk, entries <- files, saved <- cache.files,
        changed <- mutated, announced <- bumped, phase <- PhaseOf[pc]

\* The slot is a mirror of the tree (SlotMirror): whatever the watcher, the
\* scan, git and restarts do, no entry comes back with a text the file no
\* longer has, and no answer is given from entries changed unannounced.
ImplementsMirror == Mirror!Spec
=============================================================================
