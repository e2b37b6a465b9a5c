---------------------------- MODULE SlotWatcher -----------------------------
(***************************************************************************)
(* The file watcher of one project slot (token_savior/watcher.py): a       *)
(* thread that turns the change sets yielded by watchfiles.watch() into    *)
(* two sets of paths, which the thread serving tool calls drains.          *)
(*                                                                         *)
(* The thread never touches the index: the sets under `_lock' are all it   *)
(* shares.  watch() gathers file system events for a debounce window and   *)
(* yields them as one unordered set of (change, path) pairs.               *)
(***************************************************************************)
EXTENDS FiniteSets

CONSTANTS
    Files,     \* paths under the root that pass the watch filter
    Debounced  \* a path may change more than once in a debounce window

ASSUME WatcherAssumption == Debounced \in BOOLEAN

VARIABLES
    watcher,   \* slot.watcher and its thread: none, starting, listening, failed
    raised,    \* changes the backend has seen in the current window
    changes,   \* what is left of the set `for change, path in changes' visits
    dirty,     \* SlotWatcher._dirty
    deleted    \* SlotWatcher._deleted

watcherVars == <<watcher, raised, changes, dirty, deleted>>

Kinds == {"written", "deleted"}
Changes == Kinds \X Files

WatcherTypeOK ==
    /\ watcher \in {"none", "starting", "listening", "failed"}
    /\ raised \subseteq Changes
    /\ changes \subseteq Changes
    /\ dirty \subseteq Files
    /\ deleted \subseteq Files

WatcherInit ==
    /\ watcher = "none"
    /\ raised = {} /\ changes = {}
    /\ dirty = {} /\ deleted = {}

\* The property ok: thread alive and no failure recorded.  The thread counts
\* as alive from the moment it is spawned, before it listens.
WatcherOk == watcher \in {"starting", "listening"}

\* Paths with a change that no drain has returned yet.
PathsOf(cs) == {c[2] : c \in cs}
Undrained == PathsOf(raised) \cup PathsOf(changes) \cup dirty \cup deleted

-----------------------------------------------------------------------------
(* The operating system and watchfiles.                                    *)

\* May path f change now?  Without Debounced, never twice in one window.
MayChange(f) == Debounced \/ f \notin PathsOf(raised)

\* The file system reports that f was written or deleted.
Report(kind, f) ==
    raised' = IF watcher = "listening" THEN raised \cup {<<kind, f>>} ELSE raised

\* watch() registers its directory watches, some time after start().
Listen ==
    /\ watcher = "starting"
    /\ watcher' = "listening"
    /\ UNCHANGED <<raised, changes, dirty, deleted>>

\* The window closes: watch() yields what was gathered.
Yield ==
    /\ watcher = "listening"
    /\ changes = {} /\ raised # {}
    /\ changes' = raised
    /\ raised' = {}
    /\ UNCHANGED <<watcher, dirty, deleted>>

-----------------------------------------------------------------------------
(* The watcher thread.                                                     *)

\* One turn of the loop over `changes', the sets updated under _lock.
Classify ==
    /\ watcher = "listening"
    /\ \E c \in changes :
        /\ changes' = changes \ {c}
        /\ IF c[1] = "deleted"
           THEN deleted' = deleted \cup {c[2]} /\ dirty' = dirty \ {c[2]}
           ELSE dirty' = dirty \cup {c[2]} /\ deleted' = deleted \ {c[2]}
    /\ UNCHANGED <<watcher, raised>>

\* An exception ends the thread; what it had not classified is gone, and the
\* sets are never drained again.
Fail ==
    /\ WatcherOk
    /\ watcher' = "failed"
    /\ raised' = {} /\ changes' = {}
    /\ UNCHANGED <<dirty, deleted>>

-----------------------------------------------------------------------------
(* Called by the thread that serves tool calls.                            *)

DrainMutant ==       \* a fresh watch() is begun, what it had gathered is lost
    /\ dirty' = {} /\ deleted' = {}
    /\ raised' = {} /\ changes' = {}
\* drain(): takes both sets and leaves empty ones.
Drain ==
    /\ dirty' = {} /\ deleted' = {}
    /\ UNCHANGED <<raised, changes>>

\* The process ends, and the thread with it.
WatcherGone ==
    /\ watcher' = "none"
    /\ raised' = {} /\ changes' = {}
    /\ dirty' = {} /\ deleted' = {}
=============================================================================
