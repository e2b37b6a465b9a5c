------------------------------ MODULE EditTools ------------------------------
(***************************************************************************)
(* The tools that write the working tree: symbol edits and moves           *)
(* (edit_ops.py), checkpoints (checkpoint_ops.py) and the workflow that    *)
(* applies a change, tests it and rolls it back (workflow_ops.py).         *)
(*                                                                         *)
(* A text is a sequence of blocks, a definition or an import each; the     *)
(* place of a block stands for its lines.  A tool finds the place in the   *)
(* index and rewrites that place of the file as it is on the disk.  A call *)
(* is cut at every system call: editors and other servers act in between,  *)
(* and it may fail or crash there.                                         *)
(***************************************************************************)
EXTENDS Naturals, Sequences, FiniteSets

CONSTANTS
    Files, Symbols, Bodies,
    Modules,         \* the files a move takes for modules, by their suffix
    Texts,           \* what editors put into files
    CopiesIndexed,   \* the checkpoint directory is not in .gitignore
    Watched,         \* changes are noticed from events, not by the mtime scan
    MaxCheckpoints,  \* bound: checkpoints ever created
    MaxBlocks,       \* bound: blocks of a text
    MaxCalls,        \* bound: calls that write
    MaxEdits,        \* bound: changes that others make
    Absent, Idle

Definition(s, b) == [def |-> s, body |-> b]
\* An import is "plain", from one absolute module on one line without `as';
\* or of the "whole" module; or "other": relative, renamed, on several lines.
Forms == {"plain", "whole", "other"}
Import(f, s, form) == [from |-> f, name |-> s, form |-> form]
Blocks == {Definition(s, b) : s \in Symbols, b \in Bodies}
          \cup {Import(f, s, form) : f \in Files, s \in Symbols, form \in Forms}

Ids == 1..MaxCheckpoints
Paths == Files \cup (Ids \X Files)     \* <<c, f>>: the copy of f in checkpoint c

ASSUME EditAssumption ==
    /\ Modules \subseteq Files
    /\ Texts \subseteq Seq(Blocks)
    /\ CopiesIndexed \in BOOLEAN /\ Watched \in BOOLEAN
    /\ {MaxCheckpoints, MaxBlocks, MaxCalls, MaxEdits} \subseteq Nat
    /\ Absent \notin Seq(Blocks)
    /\ Files \cap (Ids \X Files) = {}

VARIABLES
    disk,       \* text of each path, or Absent
    seen,       \* the text each entry of the index was made from, or Absent
    pending,    \* paths written since they were indexed
    taken,      \* history: the texts each checkpoint was to keep
    second,     \* created_at of each checkpoint
    call,       \* the call under way
    touched,    \* history: paths others wrote since the call began
    calls, edits    \* calls begun, changes made by others

vars == <<disk, seen, pending, taken, second, call, touched, calls, edits>>

-----------------------------------------------------------------------------
Take(t, n) == SubSeq(t, 1, IF n < Len(t) THEN n ELSE Len(t))
Drop(t, n) == SubSeq(t, n + 1, Len(t))

IsDefinition(b, s) == "def" \in DOMAIN b /\ b.def = s
Places(t, s) == {k \in DOMAIN t : IsDefinition(t[k], s)}
Place(t, s) == CHOOSE k \in Places(t, s) : \A j \in Places(t, s) : k <= j

Entry(p, tree) == IF p \in Files \/ CopiesIndexed THEN tree[p] ELSE Absent

\* The index after the paths of S were reindexed or removed.
Reindexed(S) == [p \in Paths |-> IF p \in S THEN Entry(p, disk) ELSE seen[p]]

NoticedMutant == SUBSET pending     \* the scan is throttled
\* _prep: the scan finds every indexed file with another mtime, a watcher what
\* it has reported so far.  The scan passes over a file that is gone: those
\* and new files are found by events, or by git if it is asked in this call.
Noticed ==
    IF Watched THEN SUBSET pending
    ELSE {S \in SUBSET pending :
            {p \in pending : seen[p] # Absent /\ disk[p] # Absent} \subseteq S}

Prep(S) == seen' = Reindexed(S) /\ pending' = pending \ S

\* resolve_symbol_location: when several files define the symbol, which one
\* wins depends on the order in which they were annotated.
Owners(idx, s) == {p \in Paths : idx[p] # Absent /\ Places(idx[p], s) # {}}

Existing == {c \in Ids : taken[c] # Absent}
Unused == {c \in Ids : second[c] = 0}
Saved(c) == {f \in Files : disk[<<c, f>>] # Absent}

Init ==
    /\ disk \in {[p \in Paths |-> IF p \in Files THEN t[p] ELSE Absent] :
                    t \in [Files -> Texts \cup {Absent}]}
    /\ seen = disk
    /\ pending = {}
    /\ taken = [c \in Ids |-> Absent]
    /\ second = [c \in Ids |-> 0]
    /\ call = Idle
    /\ touched = {}
    /\ calls = 0 /\ edits = 0

Running(step) == call # Idle /\ call.step = step
Begin == call = Idle /\ calls < MaxCalls /\ calls' = calls + 1 /\ UNCHANGED <<touched, edits>>
End == call' = Idle /\ touched' = {} /\ UNCHANGED <<calls, edits>>
Keep == UNCHANGED <<touched, calls, edits>>
GoOn(step) == call' = [call EXCEPT !.step = step] /\ Keep
Write(p, t) == disk' = [disk EXCEPT ![p] = t] /\ pending' = pending \cup {p}

-----------------------------------------------------------------------------
(* Editing one symbol: _prep, find it, read the file, write it, reindex it. *)

Ops == {"replace", "amend", "add field", "before", "after"}

\* `old' is the body that edit_lines_in_symbol was asked to change.
BeginEdit ==
    /\ Begin
    /\ \E S \in Noticed, s, new \in Symbols, op \in Ops, old, b \in Bodies :
          /\ Prep(S)
          /\ op # "amend" => old = b
          /\ op \in {"before", "after"} \/ new = s
          /\ \E p \in Owners(seen', s) :
                call' = [op |-> op, step |-> "read", path |-> p, symbol |-> s,
                         at |-> Place(seen'[p], s), old |-> old, new |-> Definition(new, b)]
    /\ UNCHANGED <<disk, taken, second>>

Amended(block, b) == IF "def" \in DOMAIN block THEN [block EXCEPT !.body = b] ELSE block

\* What the call makes of the text it has read, which may not be the one that
\* was indexed: `at' may lie beyond its end.
Rewritten ==
    LET t == call.text
        at == call.at
    IN  CASE call.op \in {"replace", "apply"} -> Take(t, at - 1) \o <<call.new>> \o Drop(t, at)
          [] call.op \in {"amend", "add field"} ->
                [k \in DOMAIN t |-> IF k = at THEN Amended(t[k], call.new.body) ELSE t[k]]
          [] call.op = "before" -> Take(t, at - 1) \o <<call.new>> \o Drop(t, at - 1)
          [] call.op = "after" -> Take(t, at) \o <<call.new>> \o Drop(t, at)
          [] call.op = "move" -> Take(t, at - 1) \o Drop(t, at)

\* edit_lines_in_symbol looks for the old body at the place the index gave.
OldStringFound(t) ==
    call.op = "amend" => call.at \in DOMAIN t /\ "def" \in DOMAIN t[call.at]
                         /\ t[call.at].body = call.old

ReadFile ==
    /\ Running("read")
    /\ LET t == disk[call.path]
       IN  IF t = Absent \/ ~OldStringFound(t) THEN End
           ELSE /\ call' = [f \in DOMAIN call \cup {"text"} |->
                               IF f = "text" THEN t
                               ELSE IF f = "step" THEN "write" ELSE call[f]]
                /\ Keep
    /\ UNCHANGED <<disk, seen, pending, taken, second>>

WriteFile ==
    /\ Running("write")
    /\ Len(Rewritten) <= MaxBlocks
    /\ Write(call.path, Rewritten)
    /\ GoOn(IF call.op = "move" THEN "append" ELSE "reindex")
    /\ UNCHANGED <<seen, taken, second>>

ReindexMutant ==          \* the mtime is recorded before the file is read again
    /\ Running("reindex")
    /\ pending' = pending \ {call.path}
    /\ IF call.op = "apply" THEN GoOn("test") ELSE End
    /\ UNCHANGED <<seen, disk, taken, second>>
Reindex ==
    /\ Running("reindex")
    /\ Prep({call.path})
    /\ IF call.op = "apply" THEN GoOn("test") ELSE End
    /\ UNCHANGED <<disk, taken, second>>

-----------------------------------------------------------------------------
(* move_symbol: the source is written without the symbol, then the target   *)
(* with it, then every importer the index knows of.                         *)

ImportersMutant(p) ==          \* of the index as it was before the scan
    {f \in Paths : seen[f] # Absent} \ {p}
Importers(p) == {f \in Paths : seen'[f] # Absent} \ {p}

BeginMove ==
    /\ Begin
    /\ \E S \in Noticed, s \in Symbols, g \in Files, create \in BOOLEAN :
          /\ Prep(S)
          /\ \E p \in Owners(seen', s) :
                call' = [op |-> "move", step |-> "read", path |-> p, symbol |-> s,
                         at |-> Place(seen'[p], s), target |-> g, create |-> create,
                         todo |-> Importers(p)]
    /\ UNCHANGED <<disk, taken, second>>

MovedBlock == SubSeq(call.text, call.at, IF call.at <= Len(call.text) THEN call.at ELSE 0)

\* A copy in a checkpoint has the suffix of its file.
IsModule(p) == (IF p \in Files THEN p ELSE p[2]) \in Modules

\* Without create_if_missing, a missing target is found out only now.  Imports
\* are looked at only if both files are modules.
AppendTarget ==
    /\ Running("append")
    /\ LET t == disk[call.target]
       IN  IF t = Absent /\ ~call.create THEN End /\ UNCHANGED <<disk, pending>>
           ELSE /\ t # Absent => Len(t) < MaxBlocks
                /\ Write(call.target, (IF t = Absent THEN << >> ELSE t) \o MovedBlock)
                /\ IF IsModule(call.path) /\ IsModule(call.target) THEN GoOn("imports") ELSE End
    /\ UNCHANGED <<seen, taken, second>>

\* What the patterns of _rewrite_imports match: of the whole module, whichever
\* symbol it is there for.
Matched(b) ==
    /\ "from" \in DOMAIN b /\ b.from = call.path
    /\ b.form = "whole" \/ (b.form = "plain" /\ b.name = call.symbol)

RewriteImports(t) ==
    [k \in DOMAIN t |-> IF Matched(t[k]) THEN [t[k] EXCEPT !.from = call.target] ELSE t[k]]

\* One importer is read and written.
UpdateImporter ==
    /\ Running("imports")
    /\ \E f \in call.todo :
          /\ IF disk[f] # Absent /\ RewriteImports(disk[f]) # disk[f]
             THEN Write(f, RewriteImports(disk[f])) ELSE UNCHANGED <<disk, pending>>
          /\ call' = [call EXCEPT !.todo = @ \ {f}]
    /\ UNCHANGED <<seen, taken, second>>
    /\ Keep

\* The handler then calls slot.indexer.reindex(), which does not exist: the
\* call ends with an exception and nothing is reindexed.
EndMove ==
    /\ Running("imports") /\ call.todo = {}
    /\ End
    /\ UNCHANGED <<disk, seen, pending, taken, second>>

-----------------------------------------------------------------------------
(* Checkpoints: files are copied one by one, there and back.                *)

Latest == CHOOSE n \in {second[c] : c \in Ids} : \A c \in Ids : second[c] <= n

\* The first checkpoint of the next second, or another one of the same.
NewCheckpoint(c) ==
    /\ c \in Unused /\ \A d \in Unused : c <= d
    /\ \E now \in {Latest, Latest + 1} \ {0} : second' = [second EXCEPT ![c] = now]
    /\ taken' = [taken EXCEPT ![c] = << >>]

BeginCreate ==
    /\ Begin
    /\ \E S \in Noticed : Prep(S)
    /\ \E c \in Ids, fs \in SUBSET Files \ {{}} :
          /\ NewCheckpoint(c)
          /\ call' = [op |-> "create", step |-> "copy", id |-> c, todo |-> fs]
    /\ UNCHANGED <<disk>>

\* A missing file is skipped; a directory that was deleted is made again.
CopyFileMutant ==           \* the text that was indexed is saved
    /\ Running("copy")
    /\ \E f \in call.todo :
          /\ IF disk[f] = Absent \/ seen[f] = Absent THEN UNCHANGED <<disk, pending, taken>>
             ELSE /\ Write(<<call.id, f>>, seen[f])
                  /\ taken' = [taken EXCEPT ![call.id] =
                        [g \in {f} \cup (IF @ = Absent THEN {} ELSE DOMAIN @) |->
                            IF g = f THEN disk[f] ELSE @[g]]]
          /\ IF call.todo # {f} THEN call' = [call EXCEPT !.todo = @ \ {f}] /\ Keep
             ELSE IF call.op = "apply" THEN GoOn("read") ELSE End
    /\ UNCHANGED <<seen, second>>
CopyFile ==
    /\ Running("copy")
    /\ \E f \in call.todo :
          /\ IF disk[f] = Absent THEN UNCHANGED <<disk, pending, taken>>
             ELSE /\ Write(<<call.id, f>>, disk[f])
                  /\ taken' = [taken EXCEPT ![call.id] =
                        [g \in {f} \cup (IF @ = Absent THEN {} ELSE DOMAIN @) |->
                            IF g = f THEN disk[f] ELSE @[g]]]
          /\ IF call.todo # {f} THEN call' = [call EXCEPT !.todo = @ \ {f}] /\ Keep
             ELSE IF call.op = "apply" THEN GoOn("read") ELSE End
    /\ UNCHANGED <<seen, second>>

BeginRestore ==
    /\ Begin
    /\ \E S \in Noticed : Prep(S)
    /\ \E c \in Existing :
          /\ Saved(c) # {}
          /\ call' = [op |-> "restore", step |-> "restore", id |-> c,
                      todo |-> Saved(c), done |-> {}]
    /\ UNCHANGED <<disk, taken, second>>

\* A copy that is gone by now raises: what was restored is not reindexed.
RestoreFile ==
    /\ Running("restore")
    /\ \E f \in call.todo :
          IF disk[<<call.id, f>>] = Absent THEN End /\ UNCHANGED <<disk, pending>>
          ELSE /\ Write(f, disk[<<call.id, f>>])
               /\ call' = [call EXCEPT !.todo = @ \ {f}, !.done = @ \cup {f},
                                       !.step = IF call.todo = {f} THEN "restored" ELSE @]
               /\ Keep
    /\ UNCHANGED <<seen, taken, second>>

ReindexRestoredMutant ==     \* left to the next call's scan
    /\ Running("restored")
    /\ End
    /\ UNCHANGED <<disk, seen, pending, taken, second>>
ReindexRestored ==
    /\ Running("restored")
    /\ Prep(call.done)
    /\ End
    /\ UNCHANGED <<disk, taken, second>>

RemoveCopies(D) ==
    /\ disk' = [p \in Paths |-> IF p \notin Files /\ p[1] \in D THEN Absent ELSE disk[p]]
    /\ taken' = [c \in Ids |-> IF c \in D THEN Absent ELSE taken[c]]

Gone(D) == {<<c, f>> : c \in D, f \in Files}

\* delete_checkpoint of one, prune_checkpoints of all but the newest `keep',
\* newest by the second.
DeleteOrPrune ==
    /\ call = Idle
    /\ \E D \in SUBSET Existing \ {{}} :
          /\ \/ Cardinality(D) = 1
             \/ \A d \in D, k \in Existing \ D : second[d] <= second[k]
          /\ RemoveCopies(D)
          /\ \E S \in Noticed : /\ seen' = Reindexed(S)
                                /\ pending' = (pending \ S) \cup Gone(D)
    /\ UNCHANGED <<second, call, touched, calls, edits>>

-----------------------------------------------------------------------------
(* apply_symbol_change_and_validate, on the index as it is.  With rollback  *)
(* a checkpoint of the file comes first.  (Bound: of a project file.)       *)

BeginApply ==
    /\ Begin
    /\ \E s \in Symbols, b \in Bodies, rollback \in BOOLEAN :
       \E p \in Owners(seen, s), c \in Ids :
          /\ IF rollback THEN p \in Files /\ NewCheckpoint(c)
             ELSE c = 1 /\ UNCHANGED <<second, taken>>
          /\ call' = [op |-> "apply", step |-> IF rollback THEN "copy" ELSE "read",
                      path |-> p, symbol |-> s, at |-> Place(seen[p], s),
                      old |-> b, new |-> Definition(s, b), rollback |-> rollback,
                      id |-> c, todo |-> {p}, done |-> {}]
    /\ UNCHANGED <<disk, seen, pending>>

\* The impacted tests pass, or fail, time out or have no runner.
RunTests ==
    /\ Running("test")
    /\ \/ End
       \/ /\ call.rollback /\ Saved(call.id) # {}
          /\ call' = [call EXCEPT !.step = "restore", !.todo = Saved(call.id)]
          /\ Keep
    /\ UNCHANGED <<disk, seen, pending, taken, second>>

-----------------------------------------------------------------------------
(* Everybody else.                                                          *)

\* Any other tool call: _prep, and no change of the tree.
Query ==
    /\ call = Idle
    /\ \E S \in Noticed : Prep(S)
    /\ UNCHANGED <<disk, taken, second, call, touched, calls, edits>>

Touch(S) ==
    /\ edits < MaxEdits /\ edits' = edits + 1
    /\ touched' = IF call = Idle THEN {} ELSE touched \cup S

OthersEdit ==
    /\ \E f \in Files, t \in Texts \cup {Absent} :
          t # disk[f] /\ Write(f, t) /\ Touch({f})
    /\ UNCHANGED <<seen, taken, second, call, calls>>

\* A server in another session removes a checkpoint.
OthersDelete ==
    /\ \E c \in Existing :
          RemoveCopies({c}) /\ pending' = pending \cup Gone({c}) /\ Touch(Gone({c}))
    /\ UNCHANGED <<seen, second, call, calls>>

\* The call raises (disk full, no permission), or the server ends and another
\* one indexes the tree.
Fail ==
    /\ call # Idle
    /\ End
    /\ \/ UNCHANGED <<seen, pending>>
       \/ seen' = Reindexed(Paths) /\ pending' = {}
    /\ UNCHANGED <<disk, taken, second>>

Next ==
    \/ BeginEdit \/ BeginMove \/ BeginCreate \/ BeginRestore \/ BeginApply
    \/ ReadFile \/ WriteFile \/ Reindex
    \/ AppendTarget \/ UpdateImporter \/ EndMove
    \/ CopyFile \/ RestoreFile \/ ReindexRestored \/ DeleteOrPrune \/ RunTests
    \/ Query \/ OthersEdit \/ OthersDelete \/ Fail

Spec == Init /\ [][Next]_vars

-----------------------------------------------------------------------------
(* Properties.                                                             *)

Ends == {"read", "write", "append", "imports", "reindex", "copy", "restore",
         "restored", "test"}

TypeOK ==
    /\ disk \in [Paths -> Seq(Blocks) \cup {Absent}]
    /\ seen \in [Paths -> Seq(Blocks) \cup {Absent}]
    /\ \A p \in Paths : disk[p] # Absent => Len(disk[p]) <= MaxBlocks
    /\ pending \subseteq Paths /\ touched \subseteq Paths
    /\ \A c \in Existing : DOMAIN taken[c] \subseteq Files
    /\ second \in [Ids -> 0..MaxCheckpoints]
    /\ call # Idle => call.step \in Ends

\* "The match is performed against the symbol's CURRENT source (resolved via
\* the index)" (edit_ops.py:66): between finding a symbol in the index and
\* writing the file, the place still is that symbol's, unless somebody wrote
\* the file since the call began (or, for the workflow, which runs no _prep,
\* since it was indexed).  The scan does not see a file that is gone, so a call
\* may start from the entry of one: it then ends at the read, and writes nothing.
AimedAtSymbol ==
    \A step \in {"read", "write"} :
        (Running(step) /\ call.path \notin touched
            /\ (call.op = "apply" => call.path \notin pending))
        => \/ step = "read" /\ disk[call.path] = Absent
           \/ /\ disk[call.path] # Absent
              /\ Places(disk[call.path], call.symbol) # {}
              /\ Place(disk[call.path], call.symbol) = call.at

\* Whatever the tools write and wherever they fail, a file that differs from
\* its entry in the index is one that the next scan or event will show.
DivergenceIsPending ==
    \A p \in Paths : seen[p] # Entry(p, disk) => p \in pending

\* "a checkpoint is created before the edit and restored automatically if
\* validation fails" (workflow_ops.py:29): after a rollback the file is what
\* the edit found, and the index has it, unless others wrote it meanwhile.
RollbackUndoes ==
    [][(ReindexRestored /\ call.op = "apply" /\ call.path \notin touched)
        => /\ disk'[call.path] = call.text
           /\ seen'[call.path] = call.text]_vars

\* "Restore files from a previously created checkpoint." (checkpoint_ops.py:95):
\* the files come back as they were when they were copied.
RestoredAsTaken ==
    Running("restored") =>
        \A f \in call.done \ touched :
            (taken[call.id] # Absent /\ f \in DOMAIN taken[call.id])
                => disk[f] = taken[call.id][f]

\* When a move between modules is through, no file that the index knows
\* imports the symbol by a plain import, or the whole module, from where it
\* was: whatever order the files were visited in, and whichever of them others
\* wrote earlier in the session.  Imports of other forms stay, and so do those
\* between files that are no modules, although the tool is described as one that
\* moves a symbol "updating imports in all call sites" (tool_schemas.py:175).
ImportsFollow ==
    (Running("imports") /\ call.todo = {} /\ call.path # call.target) =>
        \A f \in Files \ (touched \cup {call.path}) :
            (seen[f] # Absent /\ disk[f] # Absent) =>
                \A k \in DOMAIN disk[f], form \in {"plain", "whole"} :
                    disk[f][k] # Import(call.path, call.symbol, form)
=============================================================================
