-------------------------- MODULE SlotManagerProofs --------------------------
(* What the index of a slot owes to the working tree, for any files, texts, *)
(* watcher mode, git history and number of restarts.                        *)
EXTENDS SlotManager, TLAPS

\* TypeOK without the bounds that only TLC needs.
Stamps == [Files -> {"same", "old"}]
SlotTypes ==
    /\ WatcherTypeOK
    /\ disk \in Trees /\ files \in Trees
    /\ commits \in Seq(Trees)
    /\ stamp \in Stamps
    /\ ref \in Nat /\ isGit \in BOOLEAN
    /\ cache \in [files : Trees, stamp : Stamps, ref : Nat]
    /\ recent \in BOOLEAN
    /\ pc \in PCs
    /\ todo \subseteq Files /\ handled \subseteq Files
    /\ reading \in [file : Files \cup {Absent}, stamp : {"same", "old"}]
    /\ reading # None => reading.file \in Files /\ pc \in {"build", "phase1", "phase3"}
    /\ touched \in BOOLEAN /\ bumped \in BOOLEAN /\ mutated \in BOOLEAN
    /\ missed \subseteq Files

-----------------------------------------------------------------------------
\* The helpers yield values of the types above.
LEMMA EmptyTypes ==
    /\ EmptyTree \in Trees
    /\ [f \in Files |-> "old"] \in Stamps
    /\ NoCache \in [files : Trees, stamp : Stamps, ref : Nat]
    /\ None \in [file : Files \cup {Absent}, stamp : {"same", "old"}]
  BY DEF EmptyTree, Trees, Stamps, NoCache, None

\* A change set names files of the project, whatever git answers.
ChangeSets == [modified : SUBSET Files, added : SUBSET Files, deleted : SUBSET Files]
LEMMA ChangeSetFiles == ASSUME NEW r, NEW answers PROVE ChangeSet(r, answers) \in ChangeSets
  BY DEF ChangeSet, ChangeSets, Untracked, OnDisk

\* What a git check comes to.
Adopts == \E answers : AdoptHead(answers)
Applies == \E cs \in ChangeSets : ApplyChangeSet(cs)
LEMMA GitCheckSteps ==
    ASSUME GitCheck
    PROVE  /\ pc = "phase2" /\ recent' = TRUE
           /\ UNCHANGED <<outsideVars, isGit, reading, bumped>>
           /\ Adopts \/ NothingChanged \/ RebuildInstead \/ Applies
  <1> PICK answers : GitCheckWith(answers)
    BY DEF GitCheck
  <1>1. CASE ref = 0
    BY <1>1 DEF GitCheckWith, Checking, Adopts
  <1>2. CASE ref # 0
    <2> DEFINE cs == ChangeSet(ref, answers)
    <2>1. NothingChanged \/ RebuildInstead \/ ApplyChangeSet(cs)
      BY <1>2 DEF GitCheckWith
    <2> QED BY <2>1, ChangeSetFiles DEF GitCheckWith, Checking, Applies
  <1> QED BY <1>1, <1>2

\* Whether the cache will do or not, slot.is_git is set to a truth value.
LEMMA EnsureTypes == ASSUME Ensure(TRUE) \/ Ensure(FALSE) PROVE isGit' \in BOOLEAN
  BY SlotAssumption DEF Ensure, IsGitRepo

\* The reference is a commit, or none.
LEMMA ReferenceTypes ==
    ASSUME SlotTypes, EndBuild \/ EndPhase3 \/ Adopts
    PROVE  ref' \in Nat
  <1>1. \A answers : HeadCommit(answers) \in Nat
    BY DEF HeadCommit, HeadRef, SlotTypes
  <1> QED BY <1>1 DEF EndBuild, Indexes, EndPhase3, MoveReference, Adopts, AdoptHead

\* Dropping entries leaves a tree.
LEMMA DropTypes ==
    ASSUME SlotTypes, NEW S
    PROVE  /\ [f \in Files |-> IF f \in S THEN Absent ELSE files[f]] \in Trees
           /\ S = {} => [f \in Files |-> IF f \in S THEN Absent ELSE files[f]] = files
  BY DEF SlotTypes, Trees

\* What a save does to the variables it writes.
LEMMA SaveTypes ==
    ASSUME SlotTypes, Save \/ NoSave, files' \in Trees, ref' \in Nat,
           UNCHANGED <<watcher, changes, dirty, deleted>>
    PROVE  /\ disk' \in Trees /\ stamp' \in Stamps
           /\ cache' \in [files : Trees, stamp : Stamps, ref : Nat]
           /\ missed' \subseteq Files
           /\ WatcherTypeOK'
  <1>1. disk' \in Trees /\ stamp' \in Stamps /\ missed' \subseteq Files
    <2>1. CASE UNCHANGED <<disk, stamp, missed>>
      BY <2>1 DEF SlotTypes
    <2>2. CASE CacheFile \in Files /\ TouchCacheFile
      <3>1. CacheText \in Contents
        BY SlotAssumption DEF CacheText
      <3>2. CacheFile # Absent
        BY <2>2, SlotAssumption
      <3>3. disk' = [disk EXCEPT ![CacheFile] = CacheText]
            /\ stamp' = [stamp EXCEPT ![CacheFile] = "old"]
            /\ (missed' = missed \/ missed' = missed \cup {CacheFile})
        BY <3>2, <2>2 DEF TouchCacheFile
      <3>4. disk' \in Trees
        BY <3>1, <3>3 DEF SlotTypes, Trees
      <3>5. stamp' \in Stamps
        BY <3>3 DEF SlotTypes, Stamps
      <3> QED BY <2>2, <3>3, <3>4, <3>5 DEF SlotTypes
    <2> QED BY <2>1, <2>2, SlotAssumption DEF Save, NoSave, TouchCacheFile
  <1>2. cache' \in [files : Trees, stamp : Stamps, ref : Nat]
    BY <1>1 DEF SlotTypes, Save, NoSave
  <1>3. WatcherTypeOK'
    BY SlotAssumption DEF SlotTypes, WatcherTypeOK, Save, NoSave, TouchCacheFile, Report, Changes, Kinds
  <1> QED BY <1>1, <1>2, <1>3

-----------------------------------------------------------------------------
\* The types hold initially.
LEMMA InitTypes == ASSUME Init PROVE SlotTypes
  <1>1. disk \in Trees
    BY DEF Init
  <1>2. << >> \in Seq(Trees) /\ <<disk>> \in Seq(Trees)
    BY <1>1
  <1>3. commits \in {<< >>, <<disk>>}
    BY DEF Init
  <1>4. commits \in Seq(Trees)
    BY <1>2, <1>3
  <1>5. WatcherTypeOK
    BY DEF Init, WatcherInit, WatcherTypeOK
  <1> QED BY <1>1, <1>4, <1>5, EmptyTypes DEF Init, SlotTypes, PCs

\* Every step of the environment keeps the types.
LEMMA EnvironmentTypes ==
    ASSUME SlotTypes, Environment \/ WatcherThread
    PROVE  SlotTypes'
  <1>1. ASSUME NEW f \in Files, Change(f) PROVE SlotTypes'
    <2>1. WatcherTypeOK'
      BY <1>1 DEF SlotTypes, Change, Report, WatcherTypeOK, Changes, Kinds
    <2>2. disk' \in Trees
      BY <1>1 DEF SlotTypes, Change, Trees
    <2>3. stamp' \in Stamps
      BY <1>1 DEF SlotTypes, Change, Stamps
    <2>4. cache' \in [files : Trees, stamp : Stamps, ref : Nat]
      <3>1. cache' = [cache EXCEPT !.stamp = [cache.stamp EXCEPT ![f] = "old"]]
        BY <1>1 DEF Change
      <3>2. [cache.stamp EXCEPT ![f] = "old"] \in Stamps
        BY DEF SlotTypes, Stamps
      <3> QED BY <3>1, <3>2 DEF SlotTypes
    <2>5. reading' \in [file : Files \cup {Absent}, stamp : {"same", "old"}]
          /\ (reading' # None => reading # None /\ reading'.file = reading.file)
      BY <1>1, SlotAssumption DEF SlotTypes, Change, None
    <2>6. missed' \subseteq Files
      BY <1>1 DEF SlotTypes, Change
    <2> QED BY <1>1, <2>1, <2>2, <2>3, <2>4, <2>5, <2>6 DEF SlotTypes, Change
  <1>2. CASE Commit
    <2>1. [f \in Files |-> IF f = CacheFile THEN Absent ELSE disk[f]] \in Trees
      BY DEF SlotTypes, Trees
    <2>2. commits' \in Seq(Trees)
      BY <1>2, <2>1 DEF SlotTypes, Commit
    <2>3. WatcherTypeOK'
      BY <1>2 DEF SlotTypes, Commit, WatcherTypeOK, watcherVars
    <2> QED BY <1>2, <2>2, <2>3 DEF SlotTypes, Commit, indexVars, callVars
  <1>3. CASE Tick
    BY <1>3 DEF SlotTypes, Tick, WatcherTypeOK, envVars, indexVars, callVars, watcherVars
  <1>4. CASE WatcherFails
    <2>1. WatcherTypeOK'
      BY <1>4 DEF SlotTypes, WatcherFails, Fail, WatcherTypeOK
    <2>2. missed' \subseteq Files
      BY <1>4 DEF SlotTypes, WatcherFails, Undrained, PathsOf, WatcherTypeOK, Changes
    <2> QED BY <1>4, <2>1, <2>2 DEF SlotTypes, WatcherFails, Fail, envVars, indexVars, callVars
  <1>5. CASE Restart
    <2>1. WatcherTypeOK'
      BY <1>5 DEF Restart, WatcherGone, WatcherTypeOK
    <2> QED BY <1>5, <2>1, EmptyTypes DEF SlotTypes, Restart, envVars, PCs
  <1>6. CASE WatcherThread
    <2>1. WatcherTypeOK'
      BY <1>6 DEF SlotTypes, WatcherThread, Listen, Yield, Classify, WatcherTypeOK, Changes
    <2> QED BY <1>6, <2>1 DEF SlotTypes, WatcherThread, envVars, indexVars, callVars
  <1> QED BY <1>1, <1>2, <1>3, <1>4, <1>5, <1>6 DEF Environment

\* Starting, ending and skipping: the steps of a call that may save.
LEMMA SavingTypes ==
    ASSUME SlotTypes, EndBuild \/ SkipGitCheck \/ EndPhase3 \/ (GitCheck /\ (Adopts \/ NothingChanged))
    PROVE  SlotTypes'
  <1>1. files' = files /\ ref' \in Nat /\ (Save \/ NoSave)
    BY GitCheckSteps, ReferenceTypes
       DEF SlotTypes, EndBuild, SkipGitCheck, EndPhase3, Adopts, AdoptHead, NothingChanged, Return
  <1>2. /\ UNCHANGED <<outsideVars, todo, reading>>
        /\ pc' = "idle" /\ handled' = {} /\ touched' = FALSE
        /\ recent' \in BOOLEAN /\ bumped' \in BOOLEAN /\ mutated' = mutated
    BY GitCheckSteps
       DEF SlotTypes, EndBuild, SkipGitCheck, EndPhase3, Adopts, AdoptHead, NothingChanged, Return
  <1>3. reading = None
    BY GitCheckSteps DEF SlotTypes, EndBuild, SkipGitCheck, EndPhase3
  <1>5. isGit' \in BOOLEAN
    BY GitCheckSteps, SlotAssumption DEF SlotTypes, EndBuild, Indexes, IsGitRepo, SkipGitCheck, EndPhase3
  <1>4. disk' \in Trees /\ stamp' \in Stamps /\ missed' \subseteq Files /\ WatcherTypeOK'
        /\ cache' \in [files : Trees, stamp : Stamps, ref : Nat]
    BY <1>1, <1>2, SaveTypes DEF SlotTypes, outsideVars
  <1> QED BY <1>1, <1>2, <1>3, <1>4, <1>5 DEF SlotTypes, outsideVars, PCs

\* The other steps of a call.
LEMMA HandlerTypes == ASSUME SlotTypes, Handler PROVE SlotTypes'
  <1>1. CASE AdoptCache
    BY <1>1, EnsureTypes DEF SlotTypes, AdoptCache, WatcherTypeOK, envVars, watcherVars, PCs
  <1>2. CASE BeginBuild
    <2>1. reading = None /\ OnDisk \subseteq Files
      BY <1>2 DEF SlotTypes, BeginBuild, OnDisk
    <2>2. isGit' \in BOOLEAN
      BY <1>2, EnsureTypes DEF SlotTypes, BeginBuild
    <2> QED BY <1>2, <2>1, <2>2, EmptyTypes
            DEF SlotTypes, BeginBuild, WatcherTypeOK, envVars, watcherVars, PCs
  <1>3. CASE BeginUpdate
    <2>1. watcher' \in {"none", "starting", "listening", "failed"}
      BY <1>3 DEF SlotTypes, WatcherTypeOK, BeginUpdate, WatcherAfterStart
    <2>2. CASE DrainWatcher
      <3>1. WatcherTypeOK'
        BY <2>1, <2>2 DEF SlotTypes, WatcherTypeOK, DrainWatcher, Drain
      <3>2. files' \in Trees /\ todo' \subseteq Files /\ touched' \in BOOLEAN /\ missed' \subseteq Files
        BY <2>2, DropTypes DEF SlotTypes, WatcherTypeOK, DrainWatcher
      <3> QED BY <1>3, <3>1, <3>2 DEF SlotTypes, BeginUpdate, envVars, PCs
    <2>3. CASE ScanMtimes
      <3>1. WatcherTypeOK' /\ UNCHANGED <<files, missed>>
        BY <2>1, <2>3 DEF SlotTypes, WatcherTypeOK, ScanMtimes
      <3>2. todo' \subseteq Files /\ touched' \in BOOLEAN
        BY <2>3 DEF ScanMtimes, MtimeChanged, Indexed
      <3> QED BY <1>3, <3>1, <3>2 DEF SlotTypes, BeginUpdate, envVars, PCs
    <2> QED BY <1>3, <2>2, <2>3 DEF BeginUpdate
  <1>4. CASE StatFile
    <2>1. todo' \subseteq Files
          /\ (reading' # reading => \E f \in Files : reading' = [file |-> f, stamp |-> "same"])
      BY <1>4 DEF SlotTypes, StatFile
    <2> QED BY <1>4, <2>1
            DEF SlotTypes, StatFile, WatcherTypeOK, envVars, indexVars, watcherVars
  <1>5. CASE ReadFile
    <2>1. reading.file \in Files /\ reading.stamp \in {"same", "old"}
      BY <1>5 DEF SlotTypes, ReadFile
    <2>2. files' \in Trees
      BY <1>5, <2>1 DEF SlotTypes, ReadFile, Trees, EntryOf
    <2>3. stamp' \in Stamps
      BY <1>5, <2>1 DEF SlotTypes, ReadFile, Stamps
    <2>4. todo' \subseteq Files /\ missed' \subseteq Files /\ mutated' \in BOOLEAN
      BY <1>5 DEF SlotTypes, ReadFile
    <2> QED BY <1>5, <2>2, <2>3, <2>4, EmptyTypes
            DEF SlotTypes, ReadFile, WatcherTypeOK, envVars, watcherVars
  <1>6. CASE EndPhase1
    BY <1>6 DEF SlotTypes, EndPhase1, WatcherTypeOK, envVars, indexVars, watcherVars, PCs
  <1>7. CASE GitCheck /\ Applies
    <2> PICK cs \in ChangeSets : ApplyChangeSet(cs)
      BY <1>7 DEF Applies
    <2>1. files' \in Trees
      BY DropTypes DEF ApplyChangeSet
    <2>2. todo' \subseteq Files /\ missed' \subseteq Files /\ touched' \in BOOLEAN
          /\ mutated' \in BOOLEAN
      BY DEF SlotTypes, ApplyChangeSet, ChangeSets
    <2> QED BY <1>7, <2>1, <2>2, GitCheckSteps
            DEF SlotTypes, ApplyChangeSet, WatcherTypeOK, outsideVars, PCs
  <1>8. CASE GitCheck /\ RebuildInstead
    BY <1>8, GitCheckSteps DEF SlotTypes, RebuildInstead, WatcherTypeOK, outsideVars, indexVars, PCs
  <1>9. GitCheck => Adopts \/ NothingChanged \/ RebuildInstead \/ Applies
    BY GitCheckSteps
  <1> QED BY <1>1, <1>2, <1>3, <1>4, <1>5, <1>6, <1>7, <1>8, <1>9, SavingTypes DEF Handler

\* Type correctness.
THEOREM SlotTypesHold == Spec => []SlotTypes
  <1>1. SlotTypes /\ UNCHANGED vars => SlotTypes'
    BY DEF SlotTypes, WatcherTypeOK, vars, envVars, indexVars, callVars, watcherVars
  <1>2. SlotTypes /\ [Next]_vars => SlotTypes'
    BY <1>1, EnvironmentTypes, HandlerTypes DEF Next
  <1> QED BY <1>2, InitTypes, PTL DEF Spec

-----------------------------------------------------------------------------
\* Only the watcher thread adds to its two sets, one path at a time.
LEMMA SetsAreFiled ==
    ASSUME [Next]_vars
    PROVE  UNCHANGED <<dirty, deleted>> \/ Classify \/ (dirty' = {} /\ deleted' = {})
  BY DEF Next, vars, watcherVars, Handler, Environment, Change, Commit, Tick, WatcherFails, Fail,
         Restart, WatcherGone, WatcherThread, Listen, Yield, AdoptCache, BeginBuild, EndBuild,
         outsideVars, BeginUpdate, DrainWatcher, Drain, ScanMtimes, StatFile, ReadFile, EndPhase1,
         SkipGitCheck, GitCheck, GitCheckWith, EndPhase3

\* The thread that drains finds a path in one set at most, whatever the change
\* sets were and however the thread was interrupted.
THEOREM DrainedApart == Spec => []DirtyOrDeleted
  <1>1. Init => DirtyOrDeleted
    BY DEF Init, WatcherInit, DirtyOrDeleted
  <1>2. DirtyOrDeleted /\ [Next]_vars => DirtyOrDeleted'
    <2> SUFFICES ASSUME DirtyOrDeleted, [Next]_vars PROVE DirtyOrDeleted'
      OBVIOUS
    <2>1. CASE UNCHANGED <<dirty, deleted>> \/ (dirty' = {} /\ deleted' = {})
      BY <2>1 DEF DirtyOrDeleted
    <2>2. CASE Classify
      BY <2>2 DEF DirtyOrDeleted, Classify
    <2> QED BY <2>1, <2>2, SetsAreFiled
  <1> QED BY <1>1, <1>2, PTL DEF Spec

-----------------------------------------------------------------------------
\* A save, into the project or not, keeps the mtimes on record apart from the
\* texts the index does not hold.
LEMMA SavedMtimes ==
    ASSUME SlotTypes, EditsHaveNewMtime, files' = files, Save \/ NoSave
    PROVE  EditsHaveNewMtime'
  <1>1. \A f \in Files : \/ disk'[f] = disk[f] /\ stamp'[f] = stamp[f]
                         \/ stamp'[f] = "old"
    <2>1. CASE UNCHANGED <<disk, stamp>>
      BY <2>1
    <2>2. CASE CacheFile \in Files /\ TouchCacheFile
      <3>1. CacheFile # Absent
        BY <2>2, SlotAssumption
      <3>2. disk' = [disk EXCEPT ![CacheFile] = CacheText]
            /\ stamp' = [stamp EXCEPT ![CacheFile] = "old"]
        BY <2>2, <3>1 DEF TouchCacheFile
      <3> QED BY <3>2 DEF SlotTypes, Trees, Stamps
    <2> QED BY <2>1, <2>2, SlotAssumption DEF Save, NoSave, TouchCacheFile
  <1>2. \A f \in (Indexed \cap OnDisk)' : files'[f] # disk'[f] => stamp'[f] = "old"
    BY <1>1 DEF EditsHaveNewMtime, Indexed, OnDisk
  <1>3. CASE Save
    <2>1. cache'.files = files' /\ cache'.stamp = stamp'
      BY <1>3 DEF Save
    <2> QED BY <1>2, <2>1 DEF EditsHaveNewMtime, Indexed, OnDisk
  <1>4. CASE NoSave
    BY <1>2, <1>4 DEF NoSave, EditsHaveNewMtime, Indexed, OnDisk
  <1> QED BY <1>3, <1>4

\* Dropping entries, or starting from none, cannot make a text stale.
LEMMA DroppedMtimes ==
    ASSUME EditsHaveNewMtime, UNCHANGED <<disk, cache>>,
           \A f \in Files : \/ files'[f] = Absent
                            \/ files'[f] = files[f] /\ stamp'[f] = stamp[f]
    PROVE  EditsHaveNewMtime'
  BY DEF EditsHaveNewMtime, Indexed, OnDisk

\* For any interleaving of edits, commits, saves, restarts and calls: a text
\* the index or the cache holds and the file has lost shows as a new mtime.
THEOREM MtimesTell == Spec => []EditsHaveNewMtime
  <1>1. Init => EditsHaveNewMtime
    BY DEF Init, EditsHaveNewMtime, Indexed, EmptyTree, NoCache, OnDisk
  <1>2. SlotTypes /\ EditsHaveNewMtime /\ [Next]_vars => EditsHaveNewMtime'
    <2> SUFFICES ASSUME SlotTypes, EditsHaveNewMtime, [Next]_vars PROVE EditsHaveNewMtime'
      OBVIOUS
    <2>1. ASSUME UNCHANGED <<disk, files, stamp, cache>> PROVE EditsHaveNewMtime'
      BY <2>1 DEF EditsHaveNewMtime, Indexed, OnDisk
    <2>2. CASE UNCHANGED vars \/ Commit \/ Tick \/ WatcherFails \/ WatcherThread \/ StatFile \/ EndPhase1
      BY <2>1, <2>2 DEF vars, envVars, indexVars, Commit, Tick, WatcherFails, WatcherThread,
                        StatFile, EndPhase1
    <2>3. ASSUME NEW f \in Files, Change(f) PROVE EditsHaveNewMtime'
      <3>1. /\ stamp' = [stamp EXCEPT ![f] = "old"] /\ files' = files
            /\ cache'.files = cache.files /\ cache'.stamp = [cache.stamp EXCEPT ![f] = "old"]
            /\ \A g \in Files \ {f} : disk'[g] = disk[g]
        BY <2>3 DEF Change, SlotTypes, Trees
      <3>2. stamp \in Stamps /\ cache.stamp \in Stamps
        BY DEF SlotTypes
      <3> QED BY <3>1, <3>2 DEF EditsHaveNewMtime, Indexed, OnDisk, Stamps
    <2>4. CASE Restart
      <3>1. files' = EmptyTree /\ disk' = disk /\ cache' \in {cache, NoCache}
        BY <2>4 DEF Restart, envVars
      <3> QED BY <3>1 DEF EditsHaveNewMtime, Indexed, OnDisk, EmptyTree, NoCache
    <2>5. CASE AdoptCache
      BY <2>5 DEF AdoptCache, envVars, EditsHaveNewMtime, Indexed, OnDisk
    <2>6. CASE BeginBuild
      BY <2>6, DroppedMtimes DEF BeginBuild, envVars, EmptyTree
    <2>7. CASE EndBuild \/ SkipGitCheck \/ EndPhase3 \/ (GitCheck /\ (Adopts \/ NothingChanged))
      <3>1. files' = files /\ (Save \/ NoSave)
        BY <2>7 DEF EndBuild, SkipGitCheck, EndPhase3, Adopts, AdoptHead, NothingChanged, Return
      <3> QED BY <3>1, SavedMtimes
    <2>8. CASE BeginUpdate
      <3>1. UNCHANGED <<disk, cache, stamp>>
            /\ \A f \in Files : files'[f] = Absent \/ files'[f] = files[f]
        BY <2>8 DEF BeginUpdate, DrainWatcher, ScanMtimes, envVars
      <3> QED BY <3>1, DroppedMtimes
    <2>9. CASE ReadFile
      <3>1. reading.file \in Files /\ UNCHANGED <<disk, cache>>
            /\ files' = [files EXCEPT ![reading.file] = EntryOf(disk[reading.file])]
            /\ stamp' = [stamp EXCEPT ![reading.file] = reading.stamp]
        BY <2>9 DEF SlotTypes, ReadFile, envVars
      <3>2. files \in [Files -> Contents \cup {Absent}] /\ stamp \in Stamps
        BY DEF SlotTypes, Trees
      <3>3. EntryOf(disk[reading.file]) \in {disk[reading.file], Absent}
        BY DEF EntryOf
      <3> QED BY <3>1, <3>2, <3>3 DEF EditsHaveNewMtime, Indexed, OnDisk, Stamps
    <2>10. CASE GitCheck /\ Applies
      <3>1. UNCHANGED <<disk, cache, stamp>>
            /\ \A f \in Files : files'[f] = Absent \/ files'[f] = files[f]
        BY <2>10 DEF Applies, ApplyChangeSet
      <3> QED BY <3>1, DroppedMtimes
    <2>11. CASE GitCheck /\ RebuildInstead
      BY <2>1, <2>11 DEF RebuildInstead, indexVars
    <2>12. GitCheck => Adopts \/ NothingChanged \/ RebuildInstead \/ Applies
      BY GitCheckSteps
    <2> QED BY <2>2, <2>3, <2>4, <2>5, <2>6, <2>7, <2>8, <2>9, <2>10, <2>11, <2>12
            DEF Next, Handler, Environment
  <1> QED BY <1>1, <1>2, SlotTypesHold, PTL DEF Spec

-----------------------------------------------------------------------------
(* No change is lost.                                                      *)

\* What the watcher still has to say of a file, or has filed, is true of it,
\* unless something newer is on its way.
FileTold(f) ==
    /\ <<"deleted", f>> \in raised => disk[f] = Absent /\ f # CacheFile
    /\ <<"written", f>> \in raised => disk[f] # Absent
    /\ <<"deleted", f>> \in changes => disk[f] = Absent \/ f \in PathsOf(raised)
    /\ <<"written", f>> \in changes => disk[f] # Absent \/ f \in PathsOf(raised)
    /\ f \in deleted => disk[f] = Absent \/ f \in PathsOf(raised) \cup PathsOf(changes)
    /\ f \in dirty => disk[f] # Absent \/ f \in PathsOf(raised) \cup PathsOf(changes)
Told ==
    /\ watcher \in {"none", "starting"} =>
          raised = {} /\ changes = {} /\ dirty = {} /\ deleted = {}
    /\ watcher = "listening" => \A f \in Files : FileTold(f)

\* Files to reindex are on record only while a call works them off, and an
\* index never filled has everything to learn.
CallsComplete ==
    /\ pc \notin {"build", "phase1", "phase3"} => todo = {}
    /\ pc = "fresh" => missed = Files

\* NoLostChange, whatever the watcher does, and counting a file about to be
\* reindexed only if it is there.
Accounted ==
    \A f \in Files : files[f] # EntryOf(disk[f]) => f \in Undrained \cup missed \cup (todo \cap OnDisk)

Lossless == SlotTypes /\ Told /\ CallsComplete /\ Accounted

\* A file that is gone has no entry.
LEMMA AbsentEntry == EntryOf(Absent) = Absent
  BY DEF EntryOf

\* The path of a change added to a set.
LEMMA PathAdded ==
    ASSUME NEW S, NEW kind, NEW f
    PROVE  PathsOf(S \cup {<<kind, f>>}) = PathsOf(S) \cup {f}
  <1>1. <<kind, f>>[2] = f
    OBVIOUS
  <1> QED BY <1>1 DEF PathsOf

\* The paths of a set of changes.
LEMMA PathsFacts ==
    /\ PathsOf({}) = {}
    /\ \A S : \A c \in S : c[2] \in PathsOf(S)
    /\ \A S \in SUBSET Changes : \A f \in PathsOf(S) : <<"written", f>> \in S \/ <<"deleted", f>> \in S
  <1>1. \A S \in SUBSET Changes : \A f \in PathsOf(S) : <<"written", f>> \in S \/ <<"deleted", f>> \in S
    <2> SUFFICES ASSUME NEW S \in SUBSET Changes, NEW c \in S
                 PROVE  <<"written", c[2]>> \in S \/ <<"deleted", c[2]>> \in S
      BY DEF PathsOf
    <2> QED BY DEF Changes, Kinds
  <1> QED BY <1>1 DEF PathsOf

\* A report adds its path, and nothing else, to the window.
LEMMA ReportKeepsTold ==
    ASSUME Lossless, NEW f \in Files, NEW kind \in Kinds, Report(kind, f),
           UNCHANGED <<watcher, changes, dirty, deleted>>,
           \A g \in Files \ {f} : disk'[g] = disk[g],
           disk'[f] = Absent <=> kind = "deleted",
           \A k \in Kinds \ {kind} : <<k, f>> \notin raised,
           kind = "deleted" => f # CacheFile
    PROVE  Told'
  <1>1. CASE watcher # "listening"
    BY <1>1 DEF Lossless, Told, Report
  <1>2. CASE watcher = "listening"
    <2>1. raised' = raised \cup {<<kind, f>>} /\ PathsOf(raised') = PathsOf(raised) \cup {f}
      <3>1. raised' = raised \cup {<<kind, f>>}
        BY <1>2 DEF Report
      <3>2. PathsOf(raised \cup {<<kind, f>>}) = PathsOf(raised) \cup {f}
        BY PathAdded
      <3> QED BY <3>1, <3>2
    <2>2. f \in PathsOf(raised')
      BY <2>1
    <2>3. ASSUME NEW g \in Files, g # f
          PROVE  /\ \A k : <<k, g>> \in raised' <=> <<k, g>> \in raised
                 /\ g \in PathsOf(raised') <=> g \in PathsOf(raised)
      BY <2>1, <2>3
    <2>4. \A k \in Kinds : <<k, f>> \in raised' => k = kind
      BY <2>1
    <2>5. ASSUME NEW g \in Files, g # f PROVE FileTold(g)'
      <3>1. FileTold(g)
        BY <1>2 DEF Lossless, Told
      <3> QED BY <2>3, <2>5, <3>1 DEF FileTold
    <2>6. FileTold(f)'
      BY <2>2, <2>4 DEF FileTold, Kinds
    <2> QED BY <1>2, <2>5, <2>6 DEF Told
  <1> QED BY <1>1, <1>2

\* A file whose text changed is reported, or missed.
LEMMA ReportIsAccounted ==
    ASSUME Lossless, NEW f \in Files, NEW kind, Report(kind, f),
           UNCHANGED <<files, watcher, changes, dirty, deleted, todo>>,
           \A g \in Files \ {f} : disk'[g] = disk[g],
           missed' = IF watcher = "listening" THEN missed ELSE missed \cup {f}
    PROVE  Accounted'
  <1>1. f \in (Undrained \cup missed)'
    <2>1. CASE watcher = "listening"
      <3>1. f \in PathsOf(raised')
        <4>1. raised' = raised \cup {<<kind, f>>}
          BY <2>1 DEF Report
        <4>2. PathsOf(raised \cup {<<kind, f>>}) = PathsOf(raised) \cup {f}
          BY PathAdded
        <4> QED BY <4>1, <4>2
      <3> QED BY <3>1 DEF Undrained
    <2>2. CASE watcher # "listening"
      BY <2>2
    <2> QED BY <2>1, <2>2
  <1>2. Undrained \subseteq Undrained' /\ missed \subseteq missed'
    <2>1. PathsOf(raised) \subseteq PathsOf(raised')
      BY DEF Report, PathsOf
    <2> QED BY <2>1 DEF Undrained
  <1>3. \A g \in Files \ {f} : g \in OnDisk <=> g \in OnDisk'
    BY DEF OnDisk
  <1> QED BY <1>1, <1>2, <1>3 DEF Lossless, Accounted

\* A save writes at most the cache file, which is reported or missed too.
LEMMA SaveKeepsLossless ==
    ASSUME Lossless, SlotTypes', Save \/ NoSave, todo = {},
           UNCHANGED <<outsideVars, files, todo>>, pc' = "idle"
    PROVE  Lossless'
  <1>1. CallsComplete'
    BY DEF CallsComplete
  <1>2. CASE UNCHANGED <<disk, raised, missed>>
    BY <1>1, <1>2 DEF Lossless, Told, FileTold, Accounted, Undrained, outsideVars, OnDisk
  <1>3. CASE CacheFile \in Files /\ TouchCacheFile
    <2>1. CacheFile # Absent /\ CacheText \in Contents
      BY <1>3, SlotAssumption DEF CacheText
    <2>2. /\ disk' = [disk EXCEPT ![CacheFile] = CacheText]
          /\ Report("written", CacheFile)
          /\ missed' = IF watcher = "listening" THEN missed ELSE missed \cup {CacheFile}
      BY <1>3, <2>1 DEF TouchCacheFile
    <2>3. \A g \in Files \ {CacheFile} : disk'[g] = disk[g]
      BY <2>2 DEF Lossless, SlotTypes, Trees
    <2>4. Accounted'
      BY <1>3, <2>2, <2>3, ReportIsAccounted DEF outsideVars
    <2>5. Told'
      <3>1. CASE watcher # "listening"
        BY <2>2, <3>1 DEF Lossless, Told, Report, outsideVars
      <3>2. CASE watcher = "listening"
        <4>1. disk'[CacheFile] # Absent
          BY <1>3, <2>1, <2>2, SlotAssumption DEF Lossless, SlotTypes, Trees
        <4>2. \A k \in Kinds \ {"written"} : <<k, CacheFile>> \notin raised
          BY <1>3, <3>2 DEF Lossless, Told, FileTold, Kinds
        <4> QED BY <1>3, <2>2, <2>3, <4>1, <4>2, ReportKeepsTold DEF outsideVars, Kinds
      <3> QED BY <3>1, <3>2
    <2> QED BY <1>1, <2>4, <2>5 DEF Lossless
  <1> QED BY <1>2, <1>3, SlotAssumption DEF Save, NoSave, TouchCacheFile

\* What the environment and the watcher thread do is accounted for.
LEMMA EnvironmentKeepsLossless ==
    ASSUME Lossless, SlotTypes', ~Debounced, Environment \/ WatcherThread
    PROVE  Lossless'
  <1>1. ASSUME NEW f \in Files, Change(f) PROVE Lossless'
    <2>1. PICK c \in (Contents \cup {Absent}) \ {disk[f]} :
             /\ disk' = [disk EXCEPT ![f] = c]
             /\ Report(IF c = Absent THEN "deleted" ELSE "written", f)
      BY <1>1 DEF Change
    <2> DEFINE kind == IF c = Absent THEN "deleted" ELSE "written"
    <2>2. disk'[f] = c /\ \A g \in Files \ {f} : disk'[g] = disk[g]
      BY <2>1 DEF Lossless, SlotTypes, Trees
    <2>3. /\ UNCHANGED <<pc, files, todo, watcher, changes, dirty, deleted>>
          /\ missed' = IF watcher = "listening" THEN missed ELSE missed \cup {f}
          /\ f # CacheFile
      BY <1>1 DEF Change
    <2>4. \A k \in Kinds : <<k, f>> \notin raised
      BY <1>1 DEF Change, MayChange, PathsOf
    <2>5. kind \in Kinds /\ Report(kind, f)
      BY <2>1 DEF Kinds
    <2>6. Told'
      BY <2>2, <2>3, <2>4, <2>5, ReportKeepsTold
    <2>7. Accounted'
      BY <2>2, <2>3, <2>5, ReportIsAccounted
    <2>8. CallsComplete'
      BY <2>3 DEF Lossless, SlotTypes, CallsComplete
    <2> QED BY <2>6, <2>7, <2>8 DEF Lossless
  <1>2. CASE Commit \/ Tick
    BY <1>2 DEF Commit, Tick, Lossless, Told, FileTold, CallsComplete, Accounted, Undrained, OnDisk,
                envVars, indexVars, callVars, watcherVars
  <1>3. CASE WatcherFails
    <2>1. watcher' = "failed" /\ missed' = missed \cup Undrained
          /\ UNCHANGED <<disk, files, pc, todo>>
      BY <1>3 DEF WatcherFails, Fail, envVars, indexVars, callVars
    <2> QED BY <2>1 DEF Lossless, SlotTypes, Told, CallsComplete, Accounted, OnDisk
  <1>4. CASE Restart
    <2>1. /\ watcher' = "none" /\ raised' = {} /\ changes' = {} /\ dirty' = {} /\ deleted' = {}
          /\ todo' = {} /\ missed' = Files
      BY <1>4 DEF Restart, WatcherGone
    <2> QED BY <2>1 DEF Lossless, Told, CallsComplete, Accounted
  <1>5. CASE WatcherThread
    <2>1. UNCHANGED <<disk, files, pc, todo, missed>>
      BY <1>5 DEF WatcherThread, envVars, indexVars, callVars
    <2>2. CallsComplete'
      BY <2>1 DEF Lossless, CallsComplete
    <2>3. CASE Listen
      <3>1. raised' = {} /\ changes' = {} /\ dirty' = {} /\ deleted' = {} /\ watcher' = "listening"
            /\ UNCHANGED <<raised, changes, dirty, deleted>>
        BY <2>3 DEF Listen, Lossless, Told
      <3> QED BY <2>1, <2>2, <3>1
              DEF Lossless, Told, FileTold, Accounted, Undrained, OnDisk
    <2>4. CASE Yield
      <3>1. /\ watcher = "listening" /\ watcher' = "listening"
            /\ changes = {} /\ changes' = raised /\ raised' = {}
            /\ UNCHANGED <<dirty, deleted>>
        BY <2>4 DEF Yield
      <3>2. PathsOf(changes') = PathsOf(raised) /\ PathsOf(changes) = {} /\ PathsOf(raised') = {}
        BY <3>1 DEF PathsOf
      <3>3. Told'
        BY <2>1, <3>1, <3>2 DEF Lossless, Told, FileTold
      <3>4. Undrained' = Undrained
        BY <3>1, <3>2 DEF Undrained
      <3> QED BY <2>1, <2>2, <3>3, <3>4 DEF Lossless, Accounted, OnDisk
    <2>5. CASE Classify
      <3>1. PICK c \in changes :
              /\ changes' = changes \ {c}
              /\ IF c[1] = "deleted"
                 THEN deleted' = deleted \cup {c[2]} /\ dirty' = dirty \ {c[2]}
                 ELSE dirty' = dirty \cup {c[2]} /\ deleted' = deleted \ {c[2]}
        BY <2>5 DEF Classify
      <3>2. PICK k \in Kinds, f \in Files : c = <<k, f>>
        BY <3>1 DEF Lossless, SlotTypes, WatcherTypeOK, Changes
      <3>3. watcher = "listening" /\ watcher' = "listening" /\ raised' = raised
        BY <2>5 DEF Classify
      <3>4. PathsOf(changes) = PathsOf(changes') \cup {f}
        <4>1. changes = changes' \cup {<<k, f>>}
          BY <3>1, <3>2
        <4>2. PathsOf(changes' \cup {<<k, f>>}) = PathsOf(changes') \cup {f}
          BY PathAdded
        <4> QED BY <4>1, <4>2
      <3>5. f \in dirty' \cup deleted'
            /\ \A g \in Files \ {f} : (g \in dirty' <=> g \in dirty) /\ (g \in deleted' <=> g \in deleted)
        BY <3>1, <3>2
      <3>6. ASSUME NEW g \in Files, g # f PROVE FileTold(g)'
        <4>1. FileTold(g)
          BY <3>3 DEF Lossless, Told
        <4>2. \A j : <<j, g>> \in changes' <=> <<j, g>> \in changes
          BY <3>1, <3>2, <3>6
        <4> QED BY <2>1, <3>3, <3>4, <3>5, <3>6, <4>1, <4>2 DEF FileTold
      <3>7. FileTold(f)'
        <4>1. FileTold(f)
          BY <3>3 DEF Lossless, Told
        <4>2. CASE k = "deleted"
          BY <2>1, <3>1, <3>2, <3>3, <4>1, <4>2 DEF FileTold
        <4>3. CASE k = "written"
          BY <2>1, <3>1, <3>2, <3>3, <4>1, <4>3 DEF FileTold
        <4> QED BY <4>2, <4>3 DEF Kinds
      <3>8. Undrained' = Undrained
        BY <3>3, <3>4, <3>5, <3>1, <3>2 DEF Undrained
      <3> QED BY <2>1, <2>2, <3>3, <3>6, <3>7, <3>8 DEF Lossless, Told, Accounted, OnDisk
    <2> QED BY <1>5, <2>3, <2>4, <2>5 DEF WatcherThread
  <1> QED BY <1>1, <1>2, <1>3, <1>4, <1>5 DEF Environment

\* A call reads what it took, and takes what was filed.
LEMMA HandlerKeepsLossless ==
    ASSUME Lossless, SlotTypes', Handler
    PROVE  Lossless'
  \* Told is about the tree and the watcher only.
  <1>0. ASSUME UNCHANGED <<disk, watcherVars>> PROVE Told'
    BY <1>0 DEF Lossless, Told, FileTold, watcherVars
  <1>1. CASE AdoptCache
    BY <1>0, <1>1 DEF AdoptCache, Lossless, SlotTypes, CallsComplete, Accounted, envVars, watcherVars
  <1>2. CASE BeginBuild
    BY <1>0, <1>2, AbsentEntry
       DEF BeginBuild, Lossless, SlotTypes, CallsComplete, Accounted, OnDisk, EmptyTree,
           envVars, watcherVars
  <1>3. CASE EndBuild \/ SkipGitCheck \/ EndPhase3 \/ (GitCheck /\ (Adopts \/ NothingChanged))
    <2>1. todo = {}
      BY <1>3, GitCheckSteps DEF Lossless, CallsComplete, EndBuild, SkipGitCheck, EndPhase3
    <2> QED BY <1>3, <2>1, SaveKeepsLossless, GitCheckSteps
            DEF EndBuild, SkipGitCheck, EndPhase3, Adopts, AdoptHead, NothingChanged, Return
  <1>4. CASE BeginUpdate
    <2>1. todo = {} /\ pc = "idle" /\ pc' = "phase1" /\ UNCHANGED disk
      BY <1>4 DEF BeginUpdate, Lossless, CallsComplete, envVars
    <2>2. CallsComplete'
      BY <2>1 DEF CallsComplete
    <2>3. watcher' = watcher \/ (watcher = "none" /\ watcher' \in {"starting", "failed"})
      BY <1>4 DEF BeginUpdate, WatcherAfterStart
    <2>4. CASE ScanMtimes
      <3>1. UNCHANGED <<files, raised, changes, dirty, deleted, missed>>
        BY <2>4 DEF ScanMtimes
      <3> QED BY <2>1, <2>2, <2>3, <3>1 DEF Lossless, Told, FileTold, Accounted, Undrained, OnDisk
    <2>5. CASE DrainWatcher /\ WatcherOk'
      <3>1. /\ files' = [f \in Files |-> IF f \in deleted THEN Absent ELSE files[f]]
            /\ todo' = dirty /\ missed' = missed \ deleted
            /\ dirty' = {} /\ deleted' = {} /\ UNCHANGED <<raised, changes>>
        BY <2>5 DEF DrainWatcher, Drain
      <3>2. Told'
        BY <2>1, <2>3, <3>1 DEF Lossless, Told, FileTold
      <3>3. watcher \in {"none", "starting", "listening"}
        BY <2>3, <2>5 DEF WatcherOk
      <3>4. ASSUME NEW f \in Files, files'[f] # EntryOf(disk'[f])
            PROVE  f \in (Undrained \cup missed \cup (todo \cap OnDisk))'
        <4> DEFINE pending == PathsOf(raised) \cup PathsOf(changes)
        <4>1. /\ f \in deleted => disk[f] = Absent \/ f \in pending
              /\ f \in dirty => disk[f] # Absent \/ f \in pending
          BY <3>3 DEF Lossless, Told, FileTold
        <4>2. pending \subseteq Undrained'
          BY <3>1 DEF Undrained
        <4>3. CASE f \in deleted
          BY <2>1, <3>1, <3>4, <4>1, <4>2, <4>3, AbsentEntry
        <4>4. CASE f \notin deleted
          <5>1. files[f] # EntryOf(disk[f])
            BY <2>1, <3>1, <3>4, <4>4
          <5>2. f \in pending \cup dirty \cup missed
            BY <2>1, <4>4, <5>1 DEF Lossless, Accounted, Undrained
          <5> QED BY <2>1, <3>1, <4>1, <4>2, <4>4, <5>2 DEF OnDisk
        <4> QED BY <4>3, <4>4
      <3> QED BY <2>2, <3>2, <3>4 DEF Lossless, Accounted
    <2> QED BY <1>4, <2>4, <2>5 DEF BeginUpdate
  <1>5. CASE StatFile
    <2>1. /\ UNCHANGED <<disk, files, pc, missed, watcherVars>>
          /\ todo \cap OnDisk \subseteq todo'
          /\ pc \in {"build", "phase1", "phase3"}
      BY <1>5 DEF StatFile, OnDisk, envVars, indexVars
    <2>2. Accounted'
      BY <2>1 DEF Lossless, Accounted, Undrained, OnDisk, watcherVars
    <2> QED BY <1>0, <2>1, <2>2 DEF Lossless, CallsComplete
  <1>6. CASE ReadFile
    <2>1. /\ reading.file \in Files /\ pc \in {"build", "phase1", "phase3"} /\ UNCHANGED pc
          /\ UNCHANGED <<disk, watcherVars>>
          /\ files' = [files EXCEPT ![reading.file] = EntryOf(disk[reading.file])]
          /\ todo' = todo \ {reading.file} /\ missed' = missed \ {reading.file}
      BY <1>6 DEF ReadFile, Lossless, SlotTypes, envVars
    <2>2. \A f \in Files \ {reading.file} : files'[f] = files[f]
      BY <2>1 DEF Lossless, SlotTypes, Trees
    <2>3. files'[reading.file] = EntryOf(disk'[reading.file])
      BY <2>1 DEF Lossless, SlotTypes, Trees
    <2>4. Accounted'
      BY <2>1, <2>2, <2>3 DEF Lossless, Accounted, Undrained, OnDisk, watcherVars
    <2> QED BY <1>0, <2>1, <2>4 DEF Lossless, CallsComplete
  <1>7. CASE EndPhase1
    BY <1>0, <1>7 DEF EndPhase1, Lossless, CallsComplete, Accounted, Undrained, OnDisk,
                      envVars, indexVars, watcherVars
  <1>8. CASE GitCheck /\ Applies
    <2> PICK cs \in ChangeSets : ApplyChangeSet(cs)
      BY <1>8 DEF Applies
    <2> DEFINE gone == cs.deleted
    <2>1. /\ UNCHANGED <<disk, watcherVars>> /\ todo = {} /\ pc' = "phase3"
          /\ files' = [f \in Files |-> IF f \in gone THEN Absent ELSE files[f]]
          /\ missed' = (missed \ gone) \cup (gone \cap OnDisk)
      BY <1>8, GitCheckSteps DEF ApplyChangeSet, outsideVars, watcherVars, Lossless, CallsComplete
    <2>2. Accounted'
      BY <2>1, AbsentEntry DEF Lossless, Accounted, Undrained, OnDisk, watcherVars
    <2> QED BY <1>0, <2>1, <2>2 DEF Lossless, CallsComplete
  <1>9. CASE GitCheck /\ RebuildInstead
    BY <1>0, <1>9, GitCheckSteps DEF RebuildInstead, Lossless, CallsComplete, Accounted, Undrained, OnDisk,
                      outsideVars, indexVars, watcherVars
  <1>10. GitCheck => Adopts \/ NothingChanged \/ RebuildInstead \/ Applies
    BY GitCheckSteps
  <1> QED BY <1>1, <1>2, <1>3, <1>4, <1>5, <1>6, <1>7, <1>8, <1>9, <1>10 DEF Handler

\* If no path changes twice in one debounce window, no change is lost: through
\* builds, drains, scans and git checks, wherever the watcher thread is with it.
THEOREM ChangesAccounted ==
    ASSUME ~Debounced
    PROVE  Spec => []NoLostChange
  <1>1. Init => Lossless
    <2> SUFFICES ASSUME Init PROVE Lossless
      OBVIOUS
    <2>1. Told /\ CallsComplete /\ Accounted
      BY DEF Init, WatcherInit, Told, CallsComplete, Accounted
    <2> QED BY <2>1, InitTypes DEF Lossless
  <1>2. Lossless /\ UNCHANGED vars => Lossless'
    BY DEF Lossless, SlotTypes, WatcherTypeOK, Told, FileTold, CallsComplete, Accounted, Undrained,
           OnDisk, vars, envVars, indexVars, callVars, watcherVars
  <1>3. Lossless /\ SlotTypes' /\ [Next]_vars => Lossless'
    BY <1>2, EnvironmentKeepsLossless, HandlerKeepsLossless DEF Next
  <1>4. Lossless => NoLostChange
    BY DEF Lossless, Accounted, NoLostChange
  <1> QED BY <1>1, <1>3, <1>4, SlotTypesHold, PTL DEF Spec
-----------------------------------------------------------------------------
(* The slot implements SlotMirror: each of its steps is one of the mirror,  *)
(* or changes nothing the tools can see.                                    *)

\* Between the steps of a call, a change of the index is announced already
\* (bumped), or will be at the end of the phase (touched).
Announcing ==
    /\ pc = "build" => bumped
    /\ pc \in {"idle", "phase2", "rebuild"} => (mutated => bumped)
    /\ pc = "phase1" => ~bumped /\ (mutated => touched)
    /\ pc = "phase3" => (mutated => bumped \/ touched)

\* The phases as values.
LEMMA Phases ==
    /\ PhaseOf["fresh"] = "down" /\ PhaseOf["idle"] = "answering" /\ PhaseOf["build"] = "building"
    /\ \A at \in {"rebuild", "phase1", "phase2", "phase3"} : PhaseOf[at] = "updating"
  BY DEF PhaseOf, PCs

LEMMA MirrorInit == ASSUME Init PROVE Mirror!Init
  BY Phases DEF Init, Mirror!Init, Mirror!Texts, Mirror!Nothing, EmptyTree, NoCache, Trees

\* The end of a call, or of a build, answers from announced entries.
LEMMA SaveAnswers ==
    ASSUME SlotTypes, Save \/ NoSave, files' = files, mutated' = mutated,
           bumped' \in {bumped, TRUE}, bumped' \in BOOLEAN, mutated => bumped',
           pc \in {"build", "phase2", "phase3"}, pc' = "idle"
    PROVE  Mirror!Answer
  <1>1. disk' = disk \/ Mirror!TreeMoves
    <2>1. CASE CacheFile \in Files /\ TouchCacheFile
      <3>1. CacheFile # Absent /\ CacheText \in Contents
        BY <2>1, SlotAssumption DEF CacheText
      <3>2. disk' = [disk EXCEPT ![CacheFile] = CacheText]
        BY <2>1, <3>1 DEF TouchCacheFile
      <3> QED BY <2>1, <3>1, <3>2 DEF Mirror!TreeMoves, Mirror!Texts
    <2> QED BY <2>1, SlotAssumption DEF Save, NoSave, TouchCacheFile
  <1>2. cache'.files \in {cache.files, files}
    BY DEF Save, NoSave
  <1> QED BY <1>1, <1>2, Phases DEF Mirror!Answer

\* Every step of the slot is a step of the mirror, or a stutter, and keeps
\* changes announced.
LEMMA MirrorStep ==
    ASSUME SlotTypes, Announcing, [Next]_vars
    PROVE  [Mirror!Next]_(Mirror!mirrorVars) /\ Announcing'
  <1>1. ASSUME UNCHANGED <<disk, files, cache, PhaseOf[pc], mutated, bumped>>
        PROVE  [Mirror!Next]_(Mirror!mirrorVars)
    BY <1>1 DEF Mirror!mirrorVars
  <1>2. CASE UNCHANGED vars \/ Commit \/ Tick \/ WatcherFails \/ WatcherThread \/ StatFile
    <2>1. UNCHANGED <<disk, files, cache, pc, mutated, bumped, touched>>
      BY <1>2 DEF vars, envVars, indexVars, callVars, Commit, Tick, WatcherFails, WatcherThread, StatFile
    <2> QED BY <1>1, <2>1 DEF Announcing
  <1>3. ASSUME NEW f \in Files, Change(f)
        PROVE  [Mirror!Next]_(Mirror!mirrorVars) /\ Announcing'
    <2>1. Mirror!Edit
      BY <1>3 DEF Change, Mirror!Edit, Mirror!TreeMoves, Mirror!Texts, SlotTypes
    <2> QED BY <1>3, <2>1 DEF Mirror!Next, Change, Announcing
  <1>4. CASE Restart
    <2>1. Mirror!Stop
      BY <1>4, Phases DEF Restart, Mirror!Stop, Mirror!Nothing, EmptyTree, NoCache, envVars
    <2> QED BY <1>4, <2>1 DEF Mirror!Next, Restart, Announcing
  <1>5. CASE AdoptCache
    <2>1. Mirror!Adopt
      BY <1>5, Phases DEF AdoptCache, Mirror!Adopt, envVars
    <2> QED BY <1>5, <2>1 DEF Mirror!Next, AdoptCache, Announcing
  <1>6. CASE BeginBuild
    <2>1. Mirror!Rebuild
      BY <1>6, Phases DEF BeginBuild, Mirror!Rebuild, Mirror!Nothing, EmptyTree, envVars
    <2> QED BY <1>6, <2>1 DEF Mirror!Next, BeginBuild, Announcing
  <1>7. CASE EndBuild \/ SkipGitCheck \/ EndPhase3 \/ (GitCheck /\ (Adopts \/ NothingChanged))
    <2>1. /\ Save \/ NoSave
          /\ files' = files /\ mutated' = mutated /\ pc' = "idle"
          /\ pc \in {"build", "phase2", "phase3"}
      BY <1>7, GitCheckSteps DEF EndBuild, SkipGitCheck, EndPhase3, Adopts, AdoptHead, NothingChanged, Return
    <2>2. bumped' \in {bumped, TRUE} /\ bumped' \in BOOLEAN /\ (mutated => bumped')
      BY <1>7, GitCheckSteps DEF SlotTypes, Announcing, EndBuild, SkipGitCheck, EndPhase3
    <2>3. Mirror!Answer
      BY <2>1, <2>2, SaveAnswers
    <2> QED BY <2>1, <2>2, <2>3 DEF Mirror!Next, Announcing
  <1>8. CASE BeginUpdate
    <2>1. UNCHANGED <<disk, cache>> /\ bumped' = FALSE /\ mutated' = (files' # files)
          /\ pc = "idle" /\ pc' = "phase1"
      BY <1>8 DEF BeginUpdate, envVars
    <2>2. \E S \in SUBSET Files : /\ files' = [f \in Files |-> IF f \in S THEN Absent ELSE files[f]]
                                  /\ files' # files => touched'
      <3>1. CASE DrainWatcher
        <4>1. deleted \in SUBSET Files
          BY DEF SlotTypes, WatcherTypeOK
        <4>2. files' = [f \in Files |-> IF f \in deleted THEN Absent ELSE files[f]]
              /\ touched' = (deleted # {})
          BY <3>1 DEF DrainWatcher
        <4>3. deleted = {} => files' = files
          BY <4>2, DropTypes
        <4> QED BY <4>1, <4>2, <4>3
      <3>2. CASE ScanMtimes
        <4> DEFINE none == {}
        <4>1. none \in SUBSET Files /\ files' = files
          BY <3>2 DEF ScanMtimes
        <4>2. files' = [f \in Files |-> IF f \in none THEN Absent ELSE files[f]]
          BY <4>1, DropTypes
        <4> HIDE DEF none
        <4> QED BY <4>1, <4>2
      <3> QED BY <1>8, <3>1, <3>2 DEF BeginUpdate
    <2>3. Mirror!Call
      BY <2>1, <2>2, Phases DEF Mirror!Call, Mirror!Without
    <2> QED BY <2>1, <2>2, <2>3 DEF Mirror!Next, Announcing
  <1>9. CASE ReadFile
    <2>1. /\ reading.file \in Files /\ pc \in {"build", "phase1", "phase3"}
          /\ files' = [files EXCEPT ![reading.file] = EntryOf(disk[reading.file])]
          /\ mutated' = (mutated \/ files' # files)
          /\ touched' = TRUE /\ UNCHANGED <<disk, cache, pc, bumped>>
      BY <1>9 DEF ReadFile, SlotTypes, envVars
    <2>2. EntryOf(disk[reading.file]) \in {disk[reading.file], Absent}
      BY DEF EntryOf
    <2>3. Mirror!Refresh(reading.file)
      BY <2>1, <2>2, Phases DEF Mirror!Refresh
    <2> QED BY <2>1, <2>3 DEF Mirror!Next, Announcing
  <1>10. CASE EndPhase1
    <2>1. /\ pc = "phase1" /\ pc' = "phase2" /\ bumped' = touched
          /\ UNCHANGED <<disk, files, cache, mutated>>
      BY <1>10 DEF EndPhase1, envVars, indexVars
    <2>2. CASE touched
      <3>1. Mirror!Announce
        BY <2>1, <2>2, Phases DEF Mirror!Announce, SlotTypes
      <3> QED BY <2>1, <2>2, <3>1 DEF Mirror!Next, Announcing
    <2>3. CASE ~touched
      <3>1. UNCHANGED bumped /\ PhaseOf[pc'] = PhaseOf[pc]
        BY <2>1, <2>3, Phases DEF Announcing, SlotTypes
      <3> QED BY <1>1, <2>1, <2>3, <3>1 DEF Announcing
    <2> QED BY <2>2, <2>3
  <1>11. CASE GitCheck /\ Applies
    <2> PICK cs \in ChangeSets : ApplyChangeSet(cs)
      BY <1>11 DEF Applies
    <2> DEFINE gone == cs.deleted
    <2>1. /\ pc = "phase2" /\ pc' = "phase3" /\ UNCHANGED <<disk, cache, bumped>>
          /\ files' = [f \in Files |-> IF f \in gone THEN Absent ELSE files[f]]
          /\ mutated' = (mutated \/ files' # files) /\ touched' = (gone # {})
      BY <1>11, GitCheckSteps DEF ApplyChangeSet, outsideVars
    <2>2. gone \in SUBSET Files /\ (gone = {} => files' = files)
      BY <2>1, DropTypes DEF ChangeSets
    <2>3. Mirror!Drop
      BY <2>1, <2>2, Phases DEF Mirror!Drop, Mirror!Without
    <2> QED BY <2>1, <2>2, <2>3 DEF Mirror!Next, Announcing
  <1>12. CASE GitCheck /\ RebuildInstead
    <2>1. /\ pc = "phase2" /\ pc' = "rebuild"
          /\ UNCHANGED <<disk, files, cache, mutated, bumped>>
      BY <1>12, GitCheckSteps DEF RebuildInstead, indexVars
    <2>2. PhaseOf[pc'] = PhaseOf[pc]
      BY <2>1, Phases
    <2> QED BY <1>1, <2>1, <2>2 DEF Announcing
  <1>13. GitCheck => Adopts \/ NothingChanged \/ RebuildInstead \/ Applies
    BY GitCheckSteps
  <1> QED BY <1>2, <1>3, <1>4, <1>5, <1>6, <1>7, <1>8, <1>9, <1>10, <1>11, <1>12, <1>13
          DEF Next, Handler, Environment

\* Changes are announced before the next answer (ChangesBumpGeneration).
THEOREM ChangesAnnounced == Spec => []ChangesBumpGeneration
  <1>1. Init => Announcing
    BY DEF Init, Announcing
  <1>2. Announcing => ChangesBumpGeneration
    BY DEF Announcing, ChangesBumpGeneration
  <1> QED BY <1>1, <1>2, MirrorStep, SlotTypesHold, PTL DEF Spec

\* The slot, with its watcher, its scans, git, saves and restarts, implements
\* the mirror.
THEOREM SlotIsMirror == Spec => ImplementsMirror
  <1>1. Init => Announcing
    BY DEF Init, Announcing
  <1> QED BY <1>1, MirrorInit, MirrorStep, SlotTypesHold, PTL DEF Spec, ImplementsMirror, Mirror!Spec
=============================================================================
