--------------------------- MODULE EditToolsProofs ---------------------------
(* What the index knows of the tree the tools write, for any files, texts,  *)
(* checkpoints and failures.                                                *)
EXTENDS EditTools, TLAPS

\* Every path has a text or none.
Known == DOMAIN disk = Paths /\ disk = [p \in Paths |-> disk[p]]

\* What apply_symbol_change_and_validate begins with.
LEMMA ApplyBegins ==
    ASSUME BeginApply
    PROVE  \E s \in Symbols, b \in Bodies, rollback \in BOOLEAN :
            \E p \in Owners(seen, s), c \in Ids :
            call' = [op |-> "apply", step |-> IF rollback THEN "copy" ELSE "read",
                      path |-> p, symbol |-> s, at |-> Place(seen[p], s),
                      old |-> b, new |-> Definition(s, b), rollback |-> rollback,
                      id |-> c, todo |-> {p}, done |-> {}]
  <1> DEFINE Called(s, b, rollback, p, c) ==
            call' = [op |-> "apply", step |-> IF rollback THEN "copy" ELSE "read",
                      path |-> p, symbol |-> s, at |-> Place(seen[p], s),
                      old |-> b, new |-> Definition(s, b), rollback |-> rollback,
                      id |-> c, todo |-> {p}, done |-> {}]
  <1>1. \E s \in Symbols, b \in Bodies, rollback \in BOOLEAN :
           \E p \in Owners(seen, s), c \in Ids :
              /\ IF rollback THEN p \in Files /\ NewCheckpoint(c)
                 ELSE c = 1 /\ UNCHANGED <<second, taken>>
              /\ Called(s, b, rollback, p, c)
    BY DEF BeginApply
  <1>2. \E s \in Symbols, b \in Bodies, rollback \in BOOLEAN :
           \E p \in Owners(seen, s), c \in Ids : Called(s, b, rollback, p, c)
    <2> HIDE DEF Called
    <2> QED BY <1>1
  <1> QED BY <1>2

\* Only a new checkpoint is given a second.
LEMMA SecondsAreGiven ==
    ASSUME [Next]_vars
    PROVE  UNCHANGED second \/ \E c : NewCheckpoint(c)
  <1>1. CASE BeginEdit \/ BeginMove \/ BeginRestore \/ ReadFile \/ WriteFile \/ Reindex
    BY <1>1 DEF BeginEdit, BeginMove, BeginRestore, ReadFile, WriteFile, Reindex
  <1>2. CASE BeginCreate
    BY <1>2 DEF BeginCreate
  <1>3. CASE BeginApply
    BY <1>3 DEF BeginApply
  <1>4. CASE AppendTarget \/ UpdateImporter \/ EndMove \/ CopyFile \/ RestoreFile
    BY <1>4 DEF AppendTarget, UpdateImporter, EndMove, CopyFile, RestoreFile
  <1>5. CASE ReindexRestored \/ DeleteOrPrune \/ RunTests \/ Query
    BY <1>5 DEF ReindexRestored, DeleteOrPrune, RunTests, Query
  <1>6. CASE OthersEdit \/ OthersDelete \/ Fail \/ UNCHANGED vars
    BY <1>6 DEF OthersEdit, OthersDelete, Fail, vars
  <1> QED BY <1>1, <1>2, <1>3, <1>4, <1>5, <1>6 DEF Next

\* Reindexing some of the pending paths, and no longer expecting them.
LEMMA PrepKeeps ==
    ASSUME DivergenceIsPending, NEW S, Prep(S), UNCHANGED disk
    PROVE  DivergenceIsPending'
  BY DEF DivergenceIsPending, Prep, Reindexed, Entry

\* A write makes the path pending.
LEMMA WriteKeeps ==
    ASSUME Known, DivergenceIsPending, NEW p, NEW t, Write(p, t), UNCHANGED seen
    PROVE  Known' /\ DivergenceIsPending'
  <1>1. \A q \in Paths \ {p} : disk'[q] = disk[q]
    BY DEF Known, Write
  <1>2. Known'
    BY DEF Known, Write
  <1> QED BY <1>1, <1>2 DEF DivergenceIsPending, Write, Entry

\* So does the removal of a checkpoint.
LEMMA RemoveKeeps ==
    ASSUME Known, DivergenceIsPending, NEW D, RemoveCopies(D),
           \A p \in Paths : seen'[p] = seen[p] \/ seen'[p] = Entry(p, disk),
           \A p \in Paths : p \in pending /\ p \notin pending' => seen'[p] = Entry(p, disk),
           Gone(D) \subseteq pending'
    PROVE  Known' /\ DivergenceIsPending'
  <1>1. Known'
    BY DEF Known, RemoveCopies
  <1>2. ASSUME NEW p \in Paths, p \notin pending' PROVE disk'[p] = disk[p]
    <2>1. CASE p \in Files
      BY <2>1 DEF RemoveCopies
    <2>2. CASE p \notin Files
      <3>1. PICK c \in Ids, f \in Files : p = <<c, f>>
        BY <2>2 DEF Paths
      <3>2. c \notin D
        BY <1>2, <3>1 DEF Gone
      <3> QED BY <2>2, <3>1, <3>2 DEF RemoveCopies
    <2> QED BY <2>1, <2>2
  <1> QED BY <1>1, <1>2 DEF DivergenceIsPending, Entry

\* A call that begins updates the index and may set its checkpoint up; the
\* tree it leaves alone.
LEMMA BeginKeeps ==
    ASSUME Known, DivergenceIsPending,
           BeginEdit \/ BeginMove \/ BeginCreate \/ BeginRestore \/ BeginApply \/ Query
    PROVE  Known' /\ DivergenceIsPending'
  <1>1. UNCHANGED disk /\ (UNCHANGED <<seen, pending>> \/ \E S : Prep(S))
    BY DEF BeginEdit, BeginMove, BeginCreate, BeginRestore, BeginApply, Query
  <1>2. Known'
    BY <1>1 DEF Known
  <1>3. CASE UNCHANGED <<disk, seen, pending>>
    BY <1>2, <1>3 DEF DivergenceIsPending, Entry
  <1> QED BY <1>1, <1>2, <1>3, PrepKeeps

\* Wherever a call stands: it writes one path or none, and reindexes what it
\* wrote or nothing.
LEMMA CallKeeps ==
    ASSUME Known, DivergenceIsPending,
           \/ ReadFile \/ WriteFile \/ Reindex \/ AppendTarget \/ UpdateImporter \/ EndMove
           \/ CopyFile \/ RestoreFile \/ ReindexRestored \/ RunTests \/ OthersEdit \/ Fail
    PROVE  Known' /\ DivergenceIsPending'
  <1>1. CASE UNCHANGED <<disk, seen, pending>>
    BY <1>1 DEF Known, DivergenceIsPending, Entry
  <1>2. CASE UNCHANGED seen /\ \E p, t : Write(p, t)
    BY <1>2, WriteKeeps
  <1>3. CASE UNCHANGED disk /\ \E S : Prep(S)
    BY <1>3, PrepKeeps DEF Known
  <1>4. CASE UNCHANGED disk /\ seen' = Reindexed(Paths) /\ pending' = {}
    <2>1. Known'
      BY <1>4 DEF Known
    <2> QED BY <1>4, <2>1 DEF DivergenceIsPending, Reindexed, Entry
  <1>5. ReadFile \/ EndMove \/ RunTests => UNCHANGED <<disk, seen, pending>>
    BY DEF ReadFile, EndMove, RunTests
  <1>6. WriteFile \/ OthersEdit => UNCHANGED seen /\ \E p, t : Write(p, t)
    BY DEF WriteFile, OthersEdit
  <1>7. AppendTarget \/ UpdateImporter \/ CopyFile \/ RestoreFile =>
           UNCHANGED <<disk, seen, pending>> \/ (UNCHANGED seen /\ \E p, t : Write(p, t))
    BY DEF AppendTarget, UpdateImporter, CopyFile, RestoreFile
  <1>8. Reindex \/ ReindexRestored => UNCHANGED disk /\ \E S : Prep(S)
    BY DEF Reindex, ReindexRestored
  <1>9. Fail => UNCHANGED disk /\ (UNCHANGED <<seen, pending>>
                                   \/ (seen' = Reindexed(Paths) /\ pending' = {}))
    BY DEF Fail
  <1> QED BY <1>1, <1>2, <1>3, <1>4, <1>5, <1>6, <1>7, <1>8, <1>9

\* Checkpoints removed by a call, or by another server.
LEMMA RemovalKeeps ==
    ASSUME Known, DivergenceIsPending, DeleteOrPrune \/ OthersDelete
    PROVE  Known' /\ DivergenceIsPending'
  <1>1. CASE DeleteOrPrune
    <2>1. PICK D \in SUBSET Existing, S \in Noticed :
            RemoveCopies(D) /\ seen' = Reindexed(S) /\ pending' = (pending \ S) \cup Gone(D)
      BY <1>1 DEF DeleteOrPrune
    <2> QED BY <2>1, RemoveKeeps DEF Reindexed
  <1>2. CASE OthersDelete
    <2>1. PICK c \in Existing : RemoveCopies({c}) /\ pending' = pending \cup Gone({c})
                                /\ UNCHANGED seen
      BY <1>2 DEF OthersDelete
    <2> QED BY <2>1, RemoveKeeps
  <1> QED BY <1>1, <1>2

\* Whatever the tools and everybody else write, wherever a call fails: a file
\* that differs from its entry in the index is one that will be noticed.
THEOREM WritesAreNoticed == Spec => []DivergenceIsPending
  <1>1. Init => Known /\ DivergenceIsPending
    <2> SUFFICES ASSUME Init PROVE Known /\ DivergenceIsPending
      OBVIOUS
    <2>1. PICK t \in [Files -> Texts \cup {Absent}] :
             disk = [p \in Paths |-> IF p \in Files THEN t[p] ELSE Absent]
      BY DEF Init
    <2>2. Known
      BY <2>1 DEF Known
    <2>3. seen = disk
      BY DEF Init
    <2> QED BY <2>1, <2>2, <2>3 DEF DivergenceIsPending, Entry
  <1>2. Known /\ DivergenceIsPending /\ [Next]_vars => Known' /\ DivergenceIsPending'
    <2>1. UNCHANGED vars /\ Known /\ DivergenceIsPending => Known' /\ DivergenceIsPending'
      BY DEF vars, Known, DivergenceIsPending, Entry
    <2> QED BY <2>1, BeginKeeps, CallKeeps, RemovalKeeps DEF Next
  <1> QED BY <1>1, <1>2, PTL DEF Spec

-----------------------------------------------------------------------------
(* Where a call stands: what it carries with it, step by step.             *)

\* The fields of a call, and which it has by the time it needs them.
Shape ==
    call # Idle =>
        /\ call = [x \in DOMAIN call |-> call[x]]
        /\ {"op", "step"} \subseteq DOMAIN call
        /\ \/ /\ call.op \in Ops /\ call.step \in {"read", "write", "reindex"}
           \/ /\ call.op = "move" /\ call.step \in {"read", "write", "append", "imports"}
              /\ {"target", "create", "todo"} \subseteq DOMAIN call
              /\ call.target \in Files /\ call.todo \subseteq Paths
           \/ /\ call.op = "create" /\ call.step = "copy"
           \/ /\ call.op = "restore" /\ call.step \in {"restore", "restored"}
           \/ /\ call.op = "apply" /\ call.step \in {"copy", "read", "write", "reindex", "test", "restore", "restored"}
              /\ "rollback" \in DOMAIN call
              /\ call.step \notin {"restore", "restored"} => call.done = {}
              /\ call.rollback => call.path \in Files
        /\ call.op \in Ops \cup {"move", "apply"} =>
              /\ {"path", "symbol", "at"} \subseteq DOMAIN call
              /\ call.path \in Paths
        /\ call.op \in {"create", "restore", "apply"} =>
              {"id", "todo"} \subseteq DOMAIN call /\ call.id \in Ids
        /\ call.op \in {"restore", "apply"} => "done" \in DOMAIN call /\ call.done \subseteq Files
        /\ call.step \in {"copy", "restore", "restored"} => call.todo \subseteq Files
        /\ call.step = "copy" /\ call.op = "apply" => call.todo = {call.path} /\ call.rollback
        /\ call.step \in {"write", "append", "imports", "reindex", "test"} => "text" \in DOMAIN call
        /\ call.step \in {"restore", "restored"} /\ call.op = "apply" => "text" \in DOMAIN call /\ call.rollback

\* From the moment a call has found its symbol to the write, the place it
\* found is the symbol's.  The workflow's is found before the checkpoint.
Aim ==
    (call # Idle /\ (call.step \in {"read", "write"} \/ (call.step = "copy" /\ call.op = "apply"))
        /\ call.path \notin touched /\ (call.op = "apply" => call.path \notin pending))
    => \/ call.step # "write" /\ disk[call.path] = Absent
       \/ /\ disk[call.path] # Absent
          /\ Places(disk[call.path], call.symbol) # {}
          /\ Place(disk[call.path], call.symbol) = call.at

\* The variables that are tables are functions on their keys.
Tables ==
    /\ Known
    /\ taken = [c \in Ids |-> taken[c]] /\ second = [c \in Ids |-> second[c]]

\* The index has no copies.
Private == \A p \in Paths \ Files : seen[p] = Absent

\* The calls that rewrite a text write files of the project.
InFiles ==
    call # Idle =>
        /\ call.op \in Ops \cup {"move", "apply"} => call.path \in Files
        /\ call.op = "move" => call.todo \subseteq Files

\* A copy is what was taken.
Copies ==
    \A c \in Ids : taken[c] # Absent =>
        \A f \in DOMAIN taken[c] : f \in Files /\ disk[<<c, f>>] = taken[c][f]

\* What has been restored so far is what was taken.
Restoring ==
    (call # Idle /\ call.step \in {"restore", "restored"}) =>
        \A f \in call.done \ touched :
            (taken[call.id] # Absent /\ f \in DOMAIN taken[call.id]) => disk[f] = taken[call.id][f]

\* Every importer that the index knew is still to be visited, or imports the
\* symbol from its new place.
Followed ==
    (call # Idle /\ call.op = "move" /\ call.path # call.target) =>
       \A f \in Files \ (touched \cup {call.path}) :
          seen[f] # Absent =>
             \/ f \in call.todo
             \/ /\ call.step = "imports"
                /\ disk[f] # Absent =>
                      \A k \in DOMAIN disk[f], form \in {"plain", "whole"} :
                          disk[f][k] # Import(call.path, call.symbol, form)

\* A checkpoint not yet made has no copies.
Fresh == \A c \in Ids, f \in Files : second[c] = 0 => disk[<<c, f>>] = Absent

\* The checkpoint of a change that can be rolled back.
RollingBack == call # Idle /\ call.op = "apply" /\ call.rollback

\* It holds the file as the edit found it, and nothing else; a rollback brings
\* that back.
Undone ==
    RollingBack =>
        /\ second[call.id] # 0
        /\ \A f \in Files \ {call.path} : disk[<<call.id, f>>] = Absent
        /\ call.step = "restore" => call.todo = {call.path} /\ call.done = {}
        /\ call.step = "restored" => call.done = {call.path}
        /\ call.path \notin touched =>
              /\ call.step = "copy" => disk[<<call.id, call.path>>] = Absent
              /\ call.step = "read" => disk[<<call.id, call.path>>] \in {Absent, disk[call.path]}
              /\ call.step \in {"write", "reindex", "test", "restore"} =>
                    disk[<<call.id, call.path>>] \in {Absent, call.text}
              /\ call.step = "restored" => disk[call.path] = call.text

\* A checkpoint is made before files are copied to it.
Made == (call # Idle /\ call.op = "create") => second[call.id] # 0

\* A call that goes on changes its step and nothing else.
LEMMA Fields ==
    ASSUME Shape, call # Idle, NEW s, call' = [call EXCEPT !.step = s]
    PROVE  /\ DOMAIN call' = DOMAIN call
           /\ call' = [x \in DOMAIN call' |-> call'[x]]
           /\ call'.step = s
           /\ \A x \in DOMAIN call \ {"step"} : call'[x] = call[x]
  BY DEF Shape

\* Every tool sets its call up with the fields it needs.
LEMMA BeginShape ==
    ASSUME BeginEdit \/ BeginMove \/ BeginCreate \/ BeginRestore \/ BeginApply
    PROVE  Shape'
  <1>1. CASE BeginEdit
    <2>1. PICK s, new \in Symbols, op \in Ops, old, b \in Bodies, p \in Paths :
            call' = [op |-> op, step |-> "read", path |-> p, symbol |-> s,
                     at |-> Place(seen'[p], s), old |-> old, new |-> Definition(new, b)]
      BY <1>1 DEF BeginEdit, Owners
    <2> QED BY <2>1 DEF Shape, Ops
  <1>2. CASE BeginMove
    BY <1>2 DEF BeginMove, Shape, Owners, Ops, Importers
  <1>3. CASE BeginCreate
    BY <1>3 DEF BeginCreate, NewCheckpoint, Unused, Shape, Ops
  <1>4. CASE BeginRestore
    <2>1. PICK c \in Ids :
            call' = [op |-> "restore", step |-> "restore", id |-> c,
                     todo |-> Saved(c), done |-> {}]
      BY <1>4 DEF BeginRestore, Existing
    <2>2. Saved(c) \subseteq Files
      BY DEF Saved
    <2> QED BY <2>1, <2>2 DEF Shape, Ops
  <1>5. CASE BeginApply
    BY <1>5 DEF BeginApply, Owners, Shape, Ops
  <1> QED BY <1>1, <1>2, <1>3, <1>4, <1>5

\* Each step hands them on.
LEMMA StepShape ==
    ASSUME Shape,
           \/ ReadFile \/ WriteFile \/ Reindex \/ AppendTarget \/ UpdateImporter \/ EndMove
           \/ CopyFile \/ RestoreFile \/ ReindexRestored \/ RunTests
    PROVE  Shape'
  <1>1. CASE ReadFile
    <2>1. CASE End
      BY <2>1 DEF End, Shape
    <2>2. CASE ~End
      <3>1. PICK t : call' = [f \in DOMAIN call \cup {"text"} |->
                               IF f = "text" THEN t
                               ELSE IF f = "step" THEN "write" ELSE call[f]]
        BY <1>1, <2>2 DEF ReadFile
      <3>2. DOMAIN call' = DOMAIN call \cup {"text"} /\ call' = [f \in DOMAIN call' |-> call'[f]]
        BY <3>1
      <3>3. \A f \in DOMAIN call \ {"text", "step"} : call'[f] = call[f]
        BY <3>1
      <3>4. call # Idle /\ call.step = "read" /\ call'.step = "write"
        BY <1>1, <3>1 DEF ReadFile, Running, Shape
      <3> QED BY <3>2, <3>3, <3>4 DEF Shape, Ops
    <2> QED BY <2>1, <2>2
  <1>2. CASE WriteFile
    BY <1>2, Fields DEF WriteFile, GoOn, Running, Shape, Ops
  <1>3. CASE Reindex
    BY <1>3, Fields DEF Reindex, GoOn, End, Running, Shape, Ops
  <1>4. CASE AppendTarget
    BY <1>4, Fields DEF AppendTarget, GoOn, End, Running, Shape, Ops
  <1>5. CASE UpdateImporter
    BY <1>5 DEF UpdateImporter, Running, Shape, Ops
  <1>6. CASE EndMove \/ ReindexRestored
    BY <1>6 DEF EndMove, ReindexRestored, End, Shape
  <1>7. CASE CopyFile
    <2>1. PICK f \in call.todo :
            IF call.todo # {f} THEN call' = [call EXCEPT !.todo = @ \ {f}]
            ELSE IF call.op = "apply" THEN GoOn("read") ELSE End
      BY <1>7 DEF CopyFile
    <2>2. call # Idle /\ call.step = "copy"
      BY <1>7 DEF CopyFile, Running
    <2>3. CASE call.todo # {f}
      <3>1. call' = [call EXCEPT !.todo = @ \ {f}]
        BY <2>1, <2>3
      <3>2. call.op = "create"
        BY <2>1, <2>2, <2>3 DEF Shape, Ops
      <3> QED BY <2>2, <3>1, <3>2 DEF Shape, Ops
    <2>4. CASE call.todo = {f} /\ call.op = "apply"
      BY <2>1, <2>2, <2>4, Fields, ZenonT(30) DEF GoOn, Shape, Ops
    <2>5. CASE call.todo = {f} /\ call.op # "apply"
      BY <2>1, <2>5 DEF End, Shape
    <2> QED BY <2>3, <2>4, <2>5
  <1>8. CASE RestoreFile
    <2>1. call # Idle /\ call.step = "restore"
      BY <1>8 DEF RestoreFile, Running
    <2>2. CASE End
      BY <2>2 DEF End, Shape
    <2>3. CASE ~End
      <3>1. PICK f \in call.todo :
              call' = [call EXCEPT !.todo = @ \ {f}, !.done = @ \cup {f},
                                   !.step = IF call.todo = {f} THEN "restored" ELSE @]
        BY <1>8, <2>3 DEF RestoreFile
      <3>2. DOMAIN call' = DOMAIN call /\ call' = [x \in DOMAIN call' |-> call'[x]]
        BY <3>1
      <3>3. \A x \in DOMAIN call \ {"todo", "done", "step"} : call'[x] = call[x]
        BY <3>1
      <3>4. {"todo", "done", "step"} \subseteq DOMAIN call
        BY <2>1 DEF Shape, Ops
      <3>5. /\ call'.todo = call.todo \ {f} /\ call'.done = call.done \cup {f}
            /\ call'.step \in {"restore", "restored"}
        BY <2>1, <3>1, <3>4
      <3> QED BY <2>1, <3>2, <3>3, <3>5 DEF Shape, Ops
    <2> QED BY <2>2, <2>3
  <1>9. CASE RunTests
    BY <1>9, ZenonT(30) DEF RunTests, End, Saved, Running, Shape, Ops
  <1> QED BY <1>1, <1>2, <1>3, <1>4, <1>5, <1>6, <1>7, <1>8, <1>9

\* No step leaves a call without them.
LEMMA ShapeKeeps == Shape /\ [Next]_vars => Shape'
  <1> SUFFICES ASSUME Shape, [Next]_vars PROVE Shape'
    OBVIOUS
  <1>1. CASE DeleteOrPrune \/ Query \/ OthersEdit \/ OthersDelete \/ UNCHANGED vars
    <2>1. call' = call
      BY <1>1 DEF DeleteOrPrune, Query, OthersEdit, OthersDelete, vars
    <2> QED BY <2>1 DEF Shape
  <1>2. CASE Fail
    BY <1>2 DEF Fail, End, Shape
  <1> QED BY <1>1, <1>2, BeginShape, StepShape DEF Next

\* A copy is not a file of the project.
LEMMA PathsApart == \A c \in Ids, f \in Files : <<c, f>> \in Paths \ Files
  BY EditAssumption DEF Paths

\* With the mtime scan, what a call begins with is the index of the tree.
LEMMA FoundCurrent ==
    ASSUME ~Watched, DivergenceIsPending, UNCHANGED disk,
           NEW S \in Noticed, Prep(S), NEW s, NEW p \in Owners(seen', s)
    PROVE  /\ p \in Paths /\ seen'[p] # Absent /\ Places(seen'[p], s) # {}
           /\ disk[p] \in {Absent, seen'[p]}
  <1>1. p \in Paths /\ seen'[p] # Absent /\ Places(seen'[p], s) # {}
    BY DEF Owners
  <1>2. CASE p \in S
    BY <1>1, <1>2 DEF Prep, Reindexed, Entry
  <1>3. CASE p \notin S
    <2>1. seen'[p] = seen[p]
      BY <1>1, <1>3 DEF Prep, Reindexed
    <2>2. p \notin pending \/ disk[p] = Absent
      BY <1>1, <1>3, <2>1 DEF Noticed
    <2> QED BY <1>1, <2>1, <2>2 DEF DivergenceIsPending, Entry
  <1> QED BY <1>1, <1>2, <1>3

\* So a call aims at the symbol when it begins.
LEMMA BeginAims ==
    ASSUME ~Watched, DivergenceIsPending, BeginEdit \/ BeginMove \/ BeginApply
    PROVE  Aim'
  <1>1. CASE BeginEdit
    <2>1. PICK S \in Noticed, s, new \in Symbols, op \in Ops, old, b \in Bodies :
            /\ Prep(S)
            /\ \E p \in Owners(seen', s) :
                call' = [op |-> op, step |-> "read", path |-> p, symbol |-> s,
                         at |-> Place(seen'[p], s), old |-> old, new |-> Definition(new, b)]
      BY <1>1 DEF BeginEdit
    <2>2. PICK p \in Owners(seen', s) :
                call' = [op |-> op, step |-> "read", path |-> p, symbol |-> s,
                         at |-> Place(seen'[p], s), old |-> old, new |-> Definition(new, b)]
      BY <2>1
    <2>3. UNCHANGED disk
      BY <1>1 DEF BeginEdit
    <2>4. p \in Paths /\ disk'[p] \in {Absent, seen'[p]} /\ seen'[p] # Absent /\ Places(seen'[p], s) # {}
      BY <2>1, <2>3, FoundCurrent
    <2>5. call'.path = p /\ call'.symbol = s /\ call'.at = Place(seen'[p], s) /\ call'.step = "read"
      BY <2>2
    <2> QED BY <2>4, <2>5 DEF Aim
  <1>2. CASE BeginMove
    <2>1. PICK S \in Noticed, s \in Symbols, g \in Files, create \in BOOLEAN :
            /\ Prep(S)
            /\ \E p \in Owners(seen', s) :
                call' = [op |-> "move", step |-> "read", path |-> p, symbol |-> s,
                         at |-> Place(seen'[p], s), target |-> g, create |-> create,
                         todo |-> Importers(p)]
      BY <1>2 DEF BeginMove
    <2>2. PICK p \in Owners(seen', s) :
                call' = [op |-> "move", step |-> "read", path |-> p, symbol |-> s,
                         at |-> Place(seen'[p], s), target |-> g, create |-> create,
                         todo |-> Importers(p)]
      BY <2>1
    <2>3. UNCHANGED disk
      BY <1>2 DEF BeginMove
    <2>4. p \in Paths /\ disk'[p] \in {Absent, seen'[p]} /\ seen'[p] # Absent /\ Places(seen'[p], s) # {}
      BY <2>1, <2>3, FoundCurrent
    <2>5. call'.path = p /\ call'.symbol = s /\ call'.at = Place(seen'[p], s) /\ call'.step = "read"
      BY <2>2
    <2> QED BY <2>4, <2>5 DEF Aim
  <1>3. CASE BeginApply
    <2>0. PICK s \in Symbols, b \in Bodies, rollback \in BOOLEAN :
            \E p \in Owners(seen, s), c \in Ids :
            call' = [op |-> "apply", step |-> IF rollback THEN "copy" ELSE "read",
                      path |-> p, symbol |-> s, at |-> Place(seen[p], s),
                      old |-> b, new |-> Definition(s, b), rollback |-> rollback,
                      id |-> c, todo |-> {p}, done |-> {}]
      BY <1>3, ApplyBegins
    <2>1. PICK p \in Owners(seen, s), c \in Ids :
            call' = [op |-> "apply", step |-> IF rollback THEN "copy" ELSE "read",
                      path |-> p, symbol |-> s, at |-> Place(seen[p], s),
                      old |-> b, new |-> Definition(s, b), rollback |-> rollback,
                      id |-> c, todo |-> {p}, done |-> {}]
      BY <2>0
    <2>2. call'.op = "apply" /\ call'.path = p /\ call'.symbol = s /\ call'.at = Place(seen[p], s)
      BY <2>1
    <2>3. UNCHANGED <<disk, seen, pending>> 
      BY <1>3 DEF BeginApply
    <2>4. p \in Paths /\ seen[p] # Absent /\ Places(seen[p], s) # {}
      BY DEF Owners
    <2>5. p \notin pending => disk[p] = seen[p]
      BY <2>4 DEF DivergenceIsPending, Entry
    <2> QED BY <2>2, <2>3, <2>4, <2>5 DEF Aim
  <1> QED BY <1>1, <1>2, <1>3

\* While a call that knows its place goes on, only others change the file.
LEMMA AimStays ==
    ASSUME Aim, call # Idle,
           call.step \in {"read", "write"} \/ (call.step = "copy" /\ call.op = "apply"),
           call'.op = call.op, call'.path = call.path,
           call'.symbol = call.symbol, call'.at = call.at,
           touched \subseteq touched',
           call.path \in touched' \/ disk'[call.path] = disk[call.path],
           call.path \in pending => call.path \in pending',
           call'.step = "write" => disk[call.path] # Absent
    PROVE  Aim'
  BY DEF Aim

\* And does while it goes on.
LEMMA StepAims ==
    ASSUME Tables, Shape, Aim,
           \/ ReadFile \/ WriteFile \/ Reindex \/ AppendTarget \/ UpdateImporter \/ EndMove
           \/ CopyFile \/ RestoreFile \/ ReindexRestored \/ RunTests
    PROVE  Aim'
  <1>0. CASE call' = Idle
    BY <1>0 DEF Aim
  <1>1. CASE ReadFile /\ call' # Idle
    <2>1. PICK t : call' = [f \in DOMAIN call \cup {"text"} |->
                               IF f = "text" THEN t
                               ELSE IF f = "step" THEN "write" ELSE call[f]]
      BY <1>1 DEF ReadFile, End
    <2>2. call # Idle /\ call.step = "read" /\ UNCHANGED <<disk, pending, touched>>
      BY <1>1 DEF ReadFile, Running, Keep, End
    <2>3. call.op # "create" /\ {"op", "path", "symbol", "at"} \subseteq DOMAIN call
      BY <2>2 DEF Shape, Ops
    <2>4. disk[call.path] # Absent
      BY <1>1 DEF ReadFile, End
    <2> QED BY <2>1, <2>2, <2>3, <2>4, AimStays
  <1>2. CASE CopyFile /\ call.op = "apply"
    <2>1. PICK f \in call.todo :
            /\ UNCHANGED <<disk, pending>> \/ Write(<<call.id, f>>, disk[f])
            /\ IF call.todo # {f} THEN call' = [call EXCEPT !.todo = @ \ {f}] /\ Keep
               ELSE GoOn("read")
      BY <1>2 DEF CopyFile
    <2>2. call # Idle /\ call.step = "copy"
      BY <1>2 DEF CopyFile, Running
    <2>3. /\ {"op", "path", "symbol", "at"} \subseteq DOMAIN call
          /\ call.todo = {call.path} /\ call.path \in Files /\ call.id \in Ids
      BY <1>2, <2>2 DEF Shape, Ops
    <2>4. call' = [call EXCEPT !.step = "read"] /\ UNCHANGED touched
      BY <2>1, <2>3 DEF GoOn, Keep
    <2>5. disk'[call.path] = disk[call.path]
      <3>1. <<call.id, f>> # call.path
        BY <2>3, PathsApart
      <3>2. call.path \in Paths
        BY <2>3 DEF Paths
      <3>3. CASE Write(<<call.id, f>>, disk[f])
        BY <3>1, <3>2, <3>3 DEF Write, Tables, Known
      <3> QED BY <2>1, <3>3
    <2>6. pending \subseteq pending'
      BY <2>1 DEF Write
    <2>7. call'.op = call.op /\ call'.path = call.path /\ call'.symbol = call.symbol
          /\ call'.at = call.at /\ call'.step = "read"
      BY <2>3, <2>4
    <2> QED BY <1>2, <2>2, <2>4, <2>5, <2>6, <2>7, AimStays
  <1>3. CASE \/ WriteFile \/ Reindex \/ AppendTarget \/ UpdateImporter \/ EndMove
             \/ (CopyFile /\ call.op # "apply") \/ RestoreFile \/ ReindexRestored \/ RunTests
    <2> SUFFICES ASSUME call' # Idle
                 PROVE  call'.step \notin {"read", "write"}
                        /\ ~(call'.step = "copy" /\ call'.op = "apply")
      BY <1>0 DEF Aim
    <2>1. CASE WriteFile
      BY <2>1, Fields DEF WriteFile, GoOn, Running, Shape, Ops
    <2>2. CASE Reindex
      BY <2>2, Fields DEF Reindex, GoOn, End, Running, Shape, Ops
    <2>3. CASE AppendTarget
      BY <2>3, Fields DEF AppendTarget, GoOn, End, Running, Shape, Ops
    <2>4. CASE UpdateImporter
      <3>1. PICK f : call' = [call EXCEPT !.todo = @ \ {f}]
        BY <2>4 DEF UpdateImporter
      <3> QED BY <2>4, <3>1 DEF UpdateImporter, Running, Shape, Ops
    <2>5. CASE EndMove \/ ReindexRestored
      BY <2>5 DEF EndMove, ReindexRestored, End
    <2>6. CASE CopyFile /\ call.op # "apply"
      <3>1. PICK f : call' = [call EXCEPT !.todo = @ \ {f}]
        BY <2>6 DEF CopyFile, End
      <3> QED BY <2>6, <3>1 DEF CopyFile, Running, Shape, Ops
    <2>7. CASE RestoreFile
      <3>1. PICK f \in call.todo :
              call' = [call EXCEPT !.todo = @ \ {f}, !.done = @ \cup {f},
                                   !.step = IF call.todo = {f} THEN "restored" ELSE @]
        BY <2>7 DEF RestoreFile, End
      <3>2. call # Idle /\ call.step = "restore" /\ {"op", "todo", "done", "step"} \subseteq DOMAIN call
        BY <2>7 DEF RestoreFile, Running, Shape, Ops
      <3>3. call'.step \in {"restore", "restored"}
        BY <3>1, <3>2
      <3> QED BY <3>3
    <2>8. CASE RunTests
      <3>1. call' = [call EXCEPT !.step = "restore", !.todo = Saved(call.id)]
        BY <2>8 DEF RunTests, End
      <3>2. call # Idle /\ {"op", "todo", "step"} \subseteq DOMAIN call
        BY <2>8 DEF RunTests, Running, Shape, Ops
      <3> QED BY <3>1, <3>2
    <2> QED BY <1>3, <2>1, <2>2, <2>3, <2>4, <2>5, <2>6, <2>7, <2>8
  <1> QED BY <1>0, <1>1, <1>2, <1>3

\* What is no step of the call leaves the files alone that it has marked.
LEMMA OthersMark ==
    ASSUME Tables, call # Idle, DeleteOrPrune \/ Query \/ OthersEdit \/ OthersDelete
    PROVE  /\ UNCHANGED call /\ touched \subseteq touched' /\ pending \subseteq pending'
           /\ \A p \in Paths : p \in touched' \/ disk'[p] = disk[p]
  <1>1. CASE DeleteOrPrune \/ Query
    BY <1>1 DEF DeleteOrPrune, Query
  <1>2. CASE OthersEdit
    BY <1>2 DEF OthersEdit, Write, Touch, Tables, Known
  <1>3. CASE OthersDelete
    <2>1. PICK c \in Existing :
            RemoveCopies({c}) /\ pending' = pending \cup Gone({c}) /\ Touch(Gone({c}))
      BY <1>3 DEF OthersDelete
    <2>2. touched' = touched \cup Gone({c}) /\ UNCHANGED call
      BY <1>3, <2>1 DEF OthersDelete, Touch
    <2>3. ASSUME NEW p \in Paths, p \notin Gone({c}) PROVE disk'[p] = disk[p]
      <3>1. p \in Files \/ p[1] # c
        BY <2>3, PathsApart DEF Gone, Paths
      <3> QED BY <2>1, <3>1 DEF RemoveCopies
    <2> QED BY <2>1, <2>2, <2>3
  <1> QED BY <1>1, <1>2, <1>3

\* What others do to the file is marked in touched.
LEMMA AimKeeps ==
    ~Watched /\ DivergenceIsPending /\ Tables /\ Shape /\ Aim /\ [Next]_vars => Aim'
  <1> SUFFICES ASSUME ~Watched, DivergenceIsPending, Tables, Shape, Aim, [Next]_vars
               PROVE  Aim'
    OBVIOUS
  <1>1. CASE call # Idle /\ (DeleteOrPrune \/ Query \/ OthersEdit \/ OthersDelete)
    BY <1>1, OthersMark DEF Aim, Shape
  <1>2. CASE call = Idle /\ (DeleteOrPrune \/ Query \/ OthersEdit \/ OthersDelete)
    <2>1. UNCHANGED call
      BY <1>2 DEF DeleteOrPrune, Query, OthersEdit, OthersDelete
    <2> QED BY <1>2, <2>1 DEF Aim
  <1>3. CASE Fail
    BY <1>3 DEF Fail, End, Aim
  <1>4. CASE BeginCreate
    BY <1>4 DEF BeginCreate, Aim
  <1>5. CASE BeginRestore
    <2>1. call'.step = "restore"
      BY <1>5 DEF BeginRestore
    <2> QED BY <2>1 DEF Aim
  <1>6. CASE UNCHANGED vars
    BY <1>6 DEF vars, Aim
  <1> QED BY <1>1, <1>2, <1>3, <1>4, <1>5, <1>6, BeginAims, StepAims DEF Next

\* Tables stay tables.
LEMMA TablesKeep == Tables /\ [Next]_vars => Tables'
  <1> SUFFICES ASSUME Tables, [Next]_vars PROVE Tables'
    OBVIOUS
  <1>1. disk' = [p \in Paths |-> disk'[p]] /\ DOMAIN disk' = Paths
    <2>1. CASE UNCHANGED disk
      BY <2>1 DEF Tables, Known
    <2>2. CASE \E p, t : Write(p, t)
      BY <2>2 DEF Tables, Known, Write
    <2>3. CASE \E D : RemoveCopies(D)
      BY <2>3 DEF RemoveCopies
    <2>4. \/ UNCHANGED disk \/ (\E p, t : Write(p, t)) \/ (\E D : RemoveCopies(D))
      <3>1. CASE BeginEdit \/ BeginMove \/ BeginCreate \/ BeginRestore \/ BeginApply
        BY <3>1 DEF BeginEdit, BeginMove, BeginCreate, BeginRestore, BeginApply
      <3>2. CASE ReadFile \/ Reindex \/ EndMove \/ ReindexRestored \/ RunTests \/ Query \/ Fail
        BY <3>2 DEF ReadFile, Reindex, EndMove, ReindexRestored, RunTests, Query, Fail
      <3>3. CASE WriteFile \/ AppendTarget \/ UpdateImporter \/ CopyFile \/ RestoreFile \/ OthersEdit
        BY <3>3 DEF WriteFile, AppendTarget, UpdateImporter, CopyFile, RestoreFile, OthersEdit
      <3>4. CASE DeleteOrPrune \/ OthersDelete
        BY <3>4 DEF DeleteOrPrune, OthersDelete
      <3> QED BY <3>1, <3>2, <3>3, <3>4 DEF Next, vars
    <2> QED BY <2>1, <2>2, <2>3, <2>4
  <1>2. taken' = [c \in Ids |-> taken'[c]]
    <2>1. CASE UNCHANGED taken
      BY <2>1 DEF Tables, Known
    <2>2. CASE \E c, t : taken' = [taken EXCEPT ![c] = t]
      BY <2>2 DEF Tables, Known
    <2>3. CASE \E D : RemoveCopies(D)
      BY <2>3 DEF RemoveCopies
    <2>4. \/ UNCHANGED taken \/ (\E D : RemoveCopies(D))
          \/ \E c, t : taken' = [taken EXCEPT ![c] = t]
      <3>1. CASE BeginEdit \/ BeginMove \/ BeginRestore \/ ReadFile \/ WriteFile \/ Reindex
                 \/ AppendTarget \/ UpdateImporter \/ EndMove \/ RestoreFile \/ ReindexRestored
                 \/ RunTests \/ Query \/ OthersEdit \/ Fail \/ UNCHANGED vars
        BY <3>1 DEF BeginEdit, BeginMove, BeginRestore, ReadFile, WriteFile, Reindex,
               AppendTarget, UpdateImporter, EndMove, RestoreFile, ReindexRestored,
               RunTests, Query, OthersEdit, Fail, vars
      <3>2. CASE DeleteOrPrune \/ OthersDelete
        BY <3>2 DEF DeleteOrPrune, OthersDelete
      <3>3. CASE BeginCreate \/ BeginApply
        BY <3>3, ZenonT(30) DEF BeginCreate, BeginApply, NewCheckpoint
      <3>4. CASE CopyFile
        BY <3>4 DEF CopyFile
      <3> QED BY <3>1, <3>2, <3>3, <3>4 DEF Next
    <2> QED BY <2>1, <2>2, <2>3, <2>4
  <1>3. second' = [c \in Ids |-> second'[c]]
    <2>1. CASE UNCHANGED second
      BY <2>1 DEF Tables, Known
    <2>2. CASE \E c : NewCheckpoint(c)
      BY <2>2 DEF Tables, Known, NewCheckpoint
    <2>3. UNCHANGED second \/ \E c : NewCheckpoint(c)
      BY SecondsAreGiven
    <2> QED BY <2>1, <2>2, <2>3
  <1> QED BY <1>1, <1>2, <1>3 DEF Tables, Known

\* Copies are not indexed, so no entry of the index is one.
LEMMA PrivateKeeps == ~CopiesIndexed /\ Private /\ [Next]_vars => Private'
  <1> SUFFICES ASSUME ~CopiesIndexed, Private, [Next]_vars PROVE Private'
    OBVIOUS
  <1>1. CASE UNCHANGED seen
    BY <1>1 DEF Private
  <1>2. CASE \E S : seen' = Reindexed(S)
    BY <1>2 DEF Private, Reindexed, Entry
  <1>3. UNCHANGED seen \/ \E S : seen' = Reindexed(S)
    <2>1. CASE BeginEdit \/ BeginMove \/ BeginCreate \/ BeginRestore \/ BeginApply
      BY <2>1 DEF BeginEdit, BeginMove, BeginCreate, BeginRestore, BeginApply, Prep
    <2>2. CASE Reindex \/ ReindexRestored \/ Query \/ DeleteOrPrune \/ Fail
      BY <2>2 DEF Reindex, ReindexRestored, Query, DeleteOrPrune, Fail, Prep
    <2>3. CASE ReadFile \/ WriteFile \/ AppendTarget \/ UpdateImporter \/ EndMove \/ CopyFile
               \/ RestoreFile \/ RunTests \/ OthersEdit \/ OthersDelete \/ UNCHANGED vars
      BY <2>3 DEF ReadFile, WriteFile, AppendTarget, UpdateImporter, EndMove, CopyFile,
             RestoreFile, RunTests, OthersEdit, OthersDelete, vars
    <2> QED BY <2>1, <2>2, <2>3 DEF Next
  <1> QED BY <1>1, <1>2, <1>3

\* Tools find what they write in the index.
LEMMA InFilesKeeps == Private' /\ Private /\ Shape /\ InFiles /\ [Next]_vars => InFiles'
  <1> SUFFICES ASSUME Private', Private, Shape, InFiles, [Next]_vars PROVE InFiles'
    OBVIOUS
  <1>0. \A s : Owners(seen', s) \subseteq Files /\ Owners(seen, s) \subseteq Files
    BY DEF Owners, Private
  <1>1. CASE BeginEdit
    <2>1. PICK s, new \in Symbols, op \in Ops, old, b \in Bodies :
            \E p \in Owners(seen', s) :
            call' = [op |-> op, step |-> "read", path |-> p, symbol |-> s,
                     at |-> Place(seen'[p], s), old |-> old, new |-> Definition(new, b)]
      BY <1>1 DEF BeginEdit
    <2>2. PICK p \in Owners(seen', s) :
            call' = [op |-> op, step |-> "read", path |-> p, symbol |-> s,
                     at |-> Place(seen'[p], s), old |-> old, new |-> Definition(new, b)]
      BY <2>1
    <2> QED BY <1>0, <2>2 DEF InFiles, Ops
  <1>2. CASE BeginMove
    <2>1. PICK s \in Symbols, g \in Files, create \in BOOLEAN :
            \E p \in Owners(seen', s) :
                call' = [op |-> "move", step |-> "read", path |-> p, symbol |-> s,
                         at |-> Place(seen'[p], s), target |-> g, create |-> create,
                         todo |-> Importers(p)]
      BY <1>2 DEF BeginMove
    <2>2. PICK p \in Owners(seen', s) :
                call' = [op |-> "move", step |-> "read", path |-> p, symbol |-> s,
                         at |-> Place(seen'[p], s), target |-> g, create |-> create,
                         todo |-> Importers(p)]
      BY <2>1
    <2> QED BY <1>0, <2>2 DEF InFiles, Private, Importers
  <1>3. CASE BeginApply
    <2>1. PICK s \in Symbols, b \in Bodies, rollback \in BOOLEAN :
            \E p \in Owners(seen, s), c \in Ids :
            call' = [op |-> "apply", step |-> IF rollback THEN "copy" ELSE "read",
                      path |-> p, symbol |-> s, at |-> Place(seen[p], s),
                      old |-> b, new |-> Definition(s, b), rollback |-> rollback,
                      id |-> c, todo |-> {p}, done |-> {}]
      BY <1>3, ApplyBegins
    <2>2. PICK p \in Owners(seen, s), c \in Ids :
            call' = [op |-> "apply", step |-> IF rollback THEN "copy" ELSE "read",
                      path |-> p, symbol |-> s, at |-> Place(seen[p], s),
                      old |-> b, new |-> Definition(s, b), rollback |-> rollback,
                      id |-> c, todo |-> {p}, done |-> {}]
      BY <2>1
    <2> QED BY <1>0, <2>2 DEF InFiles
  <1>4. CASE BeginCreate \/ BeginRestore
    <2>1. call'.op \in {"create", "restore"}
      BY <1>4 DEF BeginCreate, BeginRestore
    <2> QED BY <2>1 DEF InFiles, Ops
  <1>5. CASE call' = Idle \/ call' = call
    BY <1>5 DEF InFiles
  <1>6. CASE /\ call # Idle /\ call'.op = call.op
             /\ "path" \in DOMAIN call => call'.path = call.path
             /\ call.op = "move" => call'.todo \subseteq call.todo
    BY <1>6 DEF InFiles, Shape
  <1>a. call # Idle => /\ {"op", "step"} \subseteq DOMAIN call
                       /\ call.op = "move" => "todo" \in DOMAIN call
    BY DEF Shape, Ops
  <1>7. CASE ReadFile /\ call' # Idle
    <2>1. PICK t : call' = [f \in DOMAIN call \cup {"text"} |->
                               IF f = "text" THEN t
                               ELSE IF f = "step" THEN "write" ELSE call[f]]
      BY <1>7 DEF ReadFile, End
    <2>2. call # Idle
      BY <1>7 DEF ReadFile, Running
    <2>3. call'.op = call.op /\ ("path" \in DOMAIN call => call'.path = call.path)
          /\ (call.op = "move" => call'.todo = call.todo)
      BY <2>1, <2>2, <1>a
    <2> QED BY <2>2, <2>3, <1>6
  <1>8. CASE WriteFile \/ Reindex \/ AppendTarget
    <2>1. call' = Idle \/ \E s : call' = [call EXCEPT !.step = s]
      BY <1>8 DEF WriteFile, Reindex, AppendTarget, GoOn, End
    <2>2. call # Idle
      BY <1>8 DEF WriteFile, Reindex, AppendTarget, Running
    <2> QED BY <2>1, <2>2, <1>5, <1>6, <1>a
  <1>9. CASE UpdateImporter
    <2>1. PICK f : call' = [call EXCEPT !.todo = @ \ {f}]
      BY <1>9 DEF UpdateImporter
    <2>2. call # Idle
      BY <1>9 DEF UpdateImporter, Running
    <2> QED BY <2>1, <2>2, <1>6, <1>a
  <1>10. CASE CopyFile /\ call' # Idle
    <2>1. PICK f : call' = [call EXCEPT !.todo = @ \ {f}] \/ call' = [call EXCEPT !.step = "read"]
      BY <1>10 DEF CopyFile, GoOn, End
    <2>2. call # Idle
      BY <1>10 DEF CopyFile, Running
    <2> QED BY <2>1, <2>2, <1>6, <1>a
  <1>11. CASE RestoreFile /\ call' # Idle
    <2>1. PICK f \in call.todo :
            call' = [call EXCEPT !.todo = @ \ {f}, !.done = @ \cup {f},
                                 !.step = IF call.todo = {f} THEN "restored" ELSE @]
      BY <1>11 DEF RestoreFile, End
    <2>2. call # Idle /\ call.op # "move" /\ "op" \in DOMAIN call
      BY <1>11 DEF RestoreFile, Running, Shape, Ops
    <2> QED BY <2>1, <2>2, <1>6
  <1>12. CASE RunTests /\ call' # Idle
    <2>1. call' = [call EXCEPT !.step = "restore", !.todo = Saved(call.id)]
      BY <1>12 DEF RunTests, End
    <2>2. call # Idle /\ call.op # "move" /\ "op" \in DOMAIN call
      BY <1>12 DEF RunTests, Running, Shape, Ops
    <2> QED BY <2>1, <2>2, <1>6
  <1>13. CASE EndMove \/ ReindexRestored \/ DeleteOrPrune \/ Query \/ OthersEdit \/ OthersDelete
              \/ Fail \/ UNCHANGED vars
    BY <1>13, <1>5 DEF EndMove, ReindexRestored, DeleteOrPrune, Query, OthersEdit,
           OthersDelete, Fail, End, vars
  <1> QED BY <1>1, <1>2, <1>3, <1>4, <1>5, <1>7, <1>8, <1>9, <1>10, <1>11, <1>12, <1>13 DEF Next

\* Only the copying of a file and the removal of a checkpoint change copies.
LEMMA CopiesUntouched ==
    ASSUME Tables, Shape, InFiles,
           \/ BeginEdit \/ BeginMove \/ BeginCreate \/ BeginRestore \/ BeginApply
           \/ ReadFile \/ WriteFile \/ Reindex
           \/ AppendTarget \/ UpdateImporter \/ EndMove
           \/ RestoreFile \/ ReindexRestored \/ RunTests
           \/ Query \/ OthersEdit \/ Fail \/ UNCHANGED vars
    PROVE  \A p \in Paths \ Files : disk'[p] = disk[p]
  <1>1. CASE UNCHANGED disk
    BY <1>1
  <1>2. CASE \E p \in Files : \E t : Write(p, t)
    BY <1>2 DEF Write, Tables, Known
  <1>3. CASE BeginEdit \/ BeginMove \/ BeginCreate \/ BeginRestore \/ BeginApply
    BY <1>1, <1>3 DEF BeginEdit, BeginMove, BeginCreate, BeginRestore, BeginApply
  <1>4. CASE ReadFile \/ Reindex \/ EndMove \/ ReindexRestored \/ RunTests \/ Query \/ Fail
             \/ UNCHANGED vars
    BY <1>1, <1>4 DEF ReadFile, Reindex, EndMove, ReindexRestored, RunTests, Query, Fail, vars
  <1>5. CASE WriteFile
    BY <1>2, <1>5 DEF WriteFile, Running, Shape, InFiles, Ops
  <1>6. CASE AppendTarget
    <2>1. call.target \in Files
      BY <1>6 DEF AppendTarget, Running, Shape, Ops
    <2> QED BY <1>1, <1>2, <1>6, <2>1 DEF AppendTarget
  <1>7. CASE UpdateImporter
    <2>1. call.todo \subseteq Files
      BY <1>7 DEF UpdateImporter, Running, Shape, InFiles, Ops
    <2> QED BY <1>1, <1>2, <1>7, <2>1 DEF UpdateImporter
  <1>8. CASE RestoreFile
    <2>1. call.todo \subseteq Files
      BY <1>8 DEF RestoreFile, Running, Shape
    <2> QED BY <1>1, <1>2, <1>8, <2>1 DEF RestoreFile
  <1>9. CASE OthersEdit
    BY <1>2, <1>9 DEF OthersEdit
  <1> QED BY <1>3, <1>4, <1>5, <1>6, <1>7, <1>8, <1>9

\* Removing checkpoints takes their copies away and no other.
LEMMA RemovalOfCopies ==
    ASSUME Tables, NEW D \in SUBSET Ids, RemoveCopies(D)
    PROVE  \A c \in Ids, f \in Files :
              disk'[<<c, f>>] = IF c \in D THEN Absent ELSE disk[<<c, f>>]
  BY PathsApart DEF RemoveCopies

\* A file is copied as it is.
LEMMA CopyingAFile ==
    ASSUME Tables, Shape, CopyFile
    PROVE  \E f \in call.todo :
              /\ f \in Files /\ call # Idle /\ call.step = "copy"
              /\ \/ disk[f] = Absent /\ UNCHANGED <<disk, taken>>
                 \/ /\ disk[f] # Absent
                    /\ disk' = [disk EXCEPT ![<<call.id, f>>] = disk[f]]
                    /\ taken' = [taken EXCEPT ![call.id] =
                        [g \in {f} \cup (IF @ = Absent THEN {} ELSE DOMAIN @) |->
                            IF g = f THEN disk[f] ELSE @[g]]]
              /\ \/ call.todo # {f} /\ call' = [call EXCEPT !.todo = @ \ {f}] /\ Keep
                 \/ call.todo = {f} /\ call.op = "apply" /\ GoOn("read")
                 \/ call.todo = {f} /\ call.op # "apply" /\ End
  <1>1. call # Idle /\ call.step = "copy" /\ call.todo \subseteq Files
    BY DEF CopyFile, Running, Shape
  <1> QED BY <1>1 DEF CopyFile, Write

\* A copy stays what was taken as long as it is there.
LEMMA CopiesKeep == Tables /\ Shape /\ InFiles /\ Copies /\ [Next]_vars => Copies'
  <1> SUFFICES ASSUME Tables, Shape, InFiles, Copies, [Next]_vars,
                      NEW c \in Ids, taken'[c] # Absent, NEW f \in DOMAIN taken'[c]
               PROVE  f \in Files /\ disk'[<<c, f>>] = taken'[c][f]
    BY DEF Copies
  <1>0. \A g \in Files : <<c, g>> \in Paths \ Files
    BY PathsApart
  <1>1. CASE taken'[c] = taken[c] /\ \A p \in Paths \ Files : disk'[p] = disk[p]
    BY <1>0, <1>1 DEF Copies
  <1>2. CASE DeleteOrPrune \/ OthersDelete
    <2>1. PICK D \in SUBSET Ids : RemoveCopies(D)
      BY <1>2 DEF DeleteOrPrune, OthersDelete, Existing
    <2>2. c \notin D /\ taken'[c] = taken[c]
      BY <2>1 DEF RemoveCopies
    <2> QED BY <2>1, <2>2, RemovalOfCopies DEF Copies
  <1>3. CASE CopyFile
    <2>1. PICK g \in call.todo :
              /\ g \in Files /\ call # Idle /\ call.step = "copy"
              /\ \/ disk[g] = Absent /\ UNCHANGED <<disk, taken>>
                 \/ /\ disk[g] # Absent
                    /\ disk' = [disk EXCEPT ![<<call.id, g>>] = disk[g]]
                    /\ taken' = [taken EXCEPT ![call.id] =
                        [h \in {g} \cup (IF @ = Absent THEN {} ELSE DOMAIN @) |->
                            IF h = g THEN disk[g] ELSE @[h]]]
      BY <1>3, CopyingAFile
    <2>2. CASE UNCHANGED <<disk, taken>>
      BY <1>1, <2>2
    <2>3. CASE ~UNCHANGED <<disk, taken>> /\ c # call.id
      <3>1. taken'[c] = taken[c]
        BY <2>1, <2>3 DEF Tables, Known
      <3>2. f \in Files /\ taken[c] # Absent /\ f \in DOMAIN taken[c]
        BY <3>1 DEF Copies
      <3>3. <<c, f>> # <<call.id, g>>
        BY <2>3
      <3>4. disk'[<<c, f>>] = disk[<<c, f>>]
        BY <1>0, <2>1, <2>3, <3>2, <3>3 DEF Tables, Known
      <3> QED BY <3>1, <3>2, <3>4 DEF Copies
    <2>4. CASE ~UNCHANGED <<disk, taken>> /\ c = call.id
      <3> DEFINE old == IF taken[c] = Absent THEN {} ELSE DOMAIN taken[c]
      <3>1. taken'[c] = [h \in {g} \cup old |-> IF h = g THEN disk[g] ELSE taken[c][h]]
        BY <2>1, <2>4 DEF Tables, Known
      <3>2. disk' = [disk EXCEPT ![<<c, g>>] = disk[g]] /\ g \in Files
        BY <2>1, <2>4
      <3>3. CASE f = g
        <4>1. disk'[<<c, g>>] = disk[g]
          BY <1>0, <3>2 DEF Tables, Known
        <4> QED BY <3>1, <3>2, <3>3, <4>1
      <3>4. CASE f # g
        <4>1. f \in DOMAIN taken[c] /\ taken[c] # Absent /\ taken'[c][f] = taken[c][f]
          BY <3>1, <3>4
        <4>2. f \in Files /\ disk[<<c, f>>] = taken[c][f]
          BY <4>1 DEF Copies
        <4>3. disk'[<<c, f>>] = disk[<<c, f>>]
          BY <1>0, <3>2, <3>4, <4>2 DEF Tables, Known
        <4> QED BY <4>1, <4>2, <4>3
      <3> QED BY <3>3, <3>4
    <2> QED BY <2>1, <2>2, <2>3, <2>4
  <1>4. CASE BeginEdit \/ BeginMove \/ BeginRestore \/ ReadFile \/ WriteFile \/ Reindex
             \/ AppendTarget \/ UpdateImporter \/ EndMove \/ RestoreFile \/ ReindexRestored
             \/ RunTests \/ Query \/ OthersEdit \/ Fail \/ UNCHANGED vars
    <2>1. UNCHANGED taken
      BY <1>4 DEF BeginEdit, BeginMove, BeginRestore, ReadFile, WriteFile, Reindex,
             AppendTarget, UpdateImporter, EndMove, RestoreFile, ReindexRestored,
             RunTests, Query, OthersEdit, Fail, vars
    <2> QED BY <1>1, <1>4, <2>1, CopiesUntouched
  <1>5. CASE BeginCreate \/ BeginApply
    <2>1. UNCHANGED taken \/ \E d \in Ids : NewCheckpoint(d)
      BY <1>5 DEF BeginCreate, BeginApply
    <2>2. CASE UNCHANGED taken
      BY <1>1, <1>5, <2>2, CopiesUntouched
    <2>3. CASE \E d \in Ids : NewCheckpoint(d)
      <3>1. taken'[c] = taken[c] \/ taken'[c] = << >>
        BY <2>3 DEF NewCheckpoint, Tables, Known
      <3>2. taken'[c] # << >>
        OBVIOUS
      <3> QED BY <1>1, <1>5, <3>1, <3>2, CopiesUntouched
    <2> QED BY <2>1, <2>2, <2>3
  <1> QED BY <1>2, <1>3, <1>4, <1>5 DEF Next

\* A file restored stays as it was taken, unless others write it.
LEMMA RestoringKeeps ==
    Tables /\ Shape /\ Copies /\ Restoring /\ [Next]_vars => Restoring'
  <1> SUFFICES ASSUME Tables, Shape, Copies, Restoring, [Next]_vars PROVE Restoring'
    OBVIOUS
  <1>1. CASE call' = Idle \/ call'.step \notin {"restore", "restored"}
    BY <1>1 DEF Restoring
  <1>2. CASE call'.step \in {"restore", "restored"} /\ call'.done = {}
    BY <1>2 DEF Restoring
  <1>3. CASE RestoreFile /\ call' # Idle
    <2>1. PICK f \in call.todo :
            /\ disk[<<call.id, f>>] # Absent /\ Write(f, disk[<<call.id, f>>]) /\ Keep
            /\ call' = [call EXCEPT !.todo = @ \ {f}, !.done = @ \cup {f},
                                    !.step = IF call.todo = {f} THEN "restored" ELSE @]
      BY <1>3 DEF RestoreFile, End
    <2>2. /\ call # Idle /\ call.step = "restore" /\ {"id", "todo", "done", "step"} \subseteq DOMAIN call
          /\ call.id \in Ids /\ call.todo \subseteq Files /\ call.done \subseteq Files
      BY <1>3 DEF RestoreFile, Running, Shape, Ops
    <2>3. call'.id = call.id /\ call'.done = call.done \cup {f} /\ touched' = touched
      BY <2>1, <2>2 DEF Keep
    <2>4. UNCHANGED taken
      BY <1>3 DEF RestoreFile
    <2>5. ASSUME NEW g \in call'.done \ touched', taken'[call'.id] # Absent, g \in DOMAIN taken'[call'.id]
          PROVE  disk'[g] = taken'[call'.id][g]
      <3>1. g \in Paths
        BY <2>2, <2>3, <2>5 DEF Paths
      <3>2. CASE g = f
        BY <2>1, <2>2, <2>3, <2>4, <2>5, <3>1, <3>2 DEF Write, Tables, Known, Copies
      <3>3. CASE g # f
        <4>1. disk'[g] = disk[g]
          BY <2>1, <3>1, <3>3 DEF Write, Tables, Known
        <4> QED BY <2>2, <2>3, <2>4, <2>5, <3>3, <4>1 DEF Restoring
      <3> QED BY <3>2, <3>3
    <2> QED BY <2>5 DEF Restoring
  <1>4. CASE call # Idle /\ call' # Idle /\ (OthersEdit \/ OthersDelete)
    <2>1. UNCHANGED call /\ touched \subseteq touched' /\ \A p \in Paths : p \in touched' \/ disk'[p] = disk[p]
      BY <1>4, OthersMark
    <2>2. \A c \in Ids : taken'[c] = taken[c] \/ taken'[c] = Absent
      BY <1>4 DEF OthersEdit, OthersDelete, RemoveCopies
    <2> SUFFICES ASSUME call.step \in {"restore", "restored"},
                        NEW f \in call.done \ touched', taken'[call.id] # Absent,
                        f \in DOMAIN taken'[call.id]
                 PROVE  disk'[f] = taken'[call.id][f]
      BY <2>1 DEF Restoring
    <2>3. call.id \in Ids /\ f \in Files
      BY <1>4 DEF Shape, Ops
    <2>4. taken'[call.id] = taken[call.id]
      BY <2>2, <2>3
    <2>5. disk'[f] = disk[f]
      BY <2>1, <2>3 DEF Paths
    <2> QED BY <1>4, <2>1, <2>4, <2>5 DEF Restoring
  <1>5. CASE RunTests
    <2>1. CASE End
      BY <1>1, <2>1 DEF End
    <2>2. CASE ~End
      <3>1. call' = [call EXCEPT !.step = "restore", !.todo = Saved(call.id)]
        BY <1>5, <2>2 DEF RunTests
      <3>2. call # Idle /\ {"step", "done"} \subseteq DOMAIN call /\ call.done = {}
        BY <1>5 DEF RunTests, Running, Shape, Ops
      <3>3. call'.step = "restore" /\ call'.done = {}
        BY <3>1, <3>2
      <3> QED BY <1>2, <3>3
    <2> QED BY <2>1, <2>2
  <1>6. CASE UNCHANGED call /\ (DeleteOrPrune \/ Query \/ UNCHANGED vars \/ OthersEdit \/ OthersDelete)
    <2>1. CASE call = Idle
      BY <1>1, <1>6, <2>1
    <2>2. CASE call # Idle /\ UNCHANGED vars
      BY <2>2 DEF vars, Restoring
    <2> QED BY <1>4, <1>6, <2>1, <2>2 DEF DeleteOrPrune, Query
  <1>7. CASE BeginEdit \/ BeginMove \/ BeginCreate \/ BeginApply
    <2>1. call'.step \notin {"restore", "restored"}
      BY <1>7 DEF BeginEdit, BeginMove, BeginCreate, BeginApply
    <2> QED BY <1>1, <2>1
  <1>8. CASE BeginRestore
    <2>1. call'.step = "restore" /\ call'.done = {}
      BY <1>8 DEF BeginRestore
    <2> QED BY <1>2, <2>1
  <1>9. CASE ReadFile \/ WriteFile \/ Reindex \/ AppendTarget \/ UpdateImporter \/ CopyFile
    <2> SUFFICES ASSUME call' # Idle PROVE call'.step \notin {"restore", "restored"}
      BY <1>1
    <2>0. call # Idle /\ {"op", "step"} \subseteq DOMAIN call
      BY <1>9 DEF ReadFile, WriteFile, Reindex, AppendTarget, UpdateImporter, CopyFile, Running, Shape
    <2>1. CASE ReadFile
      <3>1. PICK t : call' = [f \in DOMAIN call \cup {"text"} |->
                               IF f = "text" THEN t
                               ELSE IF f = "step" THEN "write" ELSE call[f]]
        BY <2>1 DEF ReadFile, End
      <3> QED BY <2>0, <3>1
    <2>2. CASE WriteFile \/ Reindex \/ AppendTarget
      BY <2>0, <2>2 DEF WriteFile, Reindex, AppendTarget, GoOn, End
    <2>3. CASE UpdateImporter \/ CopyFile
      <3>1. PICK f : call' = [call EXCEPT !.todo = @ \ {f}] \/ call' = [call EXCEPT !.step = "read"]
        BY <2>3 DEF UpdateImporter, CopyFile, GoOn, End
      <3>2. call.step \in {"imports", "copy"}
        BY <2>3 DEF UpdateImporter, CopyFile, Running
      <3> QED BY <2>0, <3>1, <3>2
    <2> QED BY <1>9, <2>1, <2>2, <2>3
  <1>10. CASE EndMove \/ ReindexRestored \/ Fail
    BY <1>1, <1>10 DEF EndMove, ReindexRestored, Fail, End
  <1> QED BY <1>1, <1>3, <1>5, <1>6, <1>7, <1>8, <1>9, <1>10
      DEF Next, DeleteOrPrune, Query, OthersEdit, OthersDelete, vars

\* An importer is left behind only with its imports rewritten.
LEMMA FollowedKeeps == Tables /\ Shape /\ Followed /\ [Next]_vars => Followed'
  <1> SUFFICES ASSUME Tables, Shape, Followed, [Next]_vars PROVE Followed'
    OBVIOUS
  <1>1. CASE call' = Idle \/ call'.op # "move"
    BY <1>1 DEF Followed
  <1>2. ASSUME NEW s, call # Idle, call.op = "move", call' = [call EXCEPT !.step = s],
               call.step # "imports", UNCHANGED <<seen, touched>>
        PROVE  Followed'
    <2>1. {"op", "path", "target", "todo", "symbol"} \subseteq DOMAIN call
      BY <1>2 DEF Shape, Ops
    <2>2. call'.op = "move" /\ call'.path = call.path /\ call'.target = call.target
          /\ call'.todo = call.todo
      BY <1>2, <2>1
    <2> QED BY <1>2, <2>2 DEF Followed
  <1>3. CASE ReadFile /\ call' # Idle
    <2>1. PICK t : call' = [f \in DOMAIN call \cup {"text"} |->
                               IF f = "text" THEN t
                               ELSE IF f = "step" THEN "write" ELSE call[f]]
      BY <1>3 DEF ReadFile, End
    <2>2. call # Idle /\ call.step = "read" /\ UNCHANGED <<seen, touched>>
      BY <1>3 DEF ReadFile, Running, Keep, End
    <2>3. "op" \in DOMAIN call /\ (call.op = "move" => {"path", "target", "todo"} \subseteq DOMAIN call)
      BY <2>2 DEF Shape, Ops
    <2>4. call'.op = call.op
      BY <2>1, <2>3
    <2>5. CASE call.op = "move"
      <3>1. call'.path = call.path /\ call'.target = call.target /\ call'.todo = call.todo
        BY <2>1, <2>3, <2>5
      <3> QED BY <2>2, <2>4, <2>5, <3>1 DEF Followed
    <2> QED BY <1>1, <2>4, <2>5
  <1>4. CASE WriteFile \/ Reindex \/ AppendTarget
    <2>1. \/ call' = Idle
          \/ \E s : call' = [call EXCEPT !.step = s] /\ UNCHANGED touched
      BY <1>4 DEF WriteFile, Reindex, AppendTarget, GoOn, End, Keep
    <2>2. call # Idle /\ call.step # "imports" /\ "op" \in DOMAIN call
      BY <1>4 DEF WriteFile, Reindex, AppendTarget, Running, Shape
    <2>3. Reindex => call.op # "move"
      BY DEF Reindex, Running, Shape, Ops
    <2>4. ~Reindex => UNCHANGED seen
      BY <1>4 DEF WriteFile, AppendTarget
    <2>5. call' = Idle \/ call'.op = call.op
      BY <2>1, <2>2
    <2>6. CASE call.op = "move" /\ call' # Idle
      BY <1>2, <2>1, <2>2, <2>3, <2>4, <2>6
    <2> QED BY <1>1, <2>5, <2>6
  <1>5. CASE UpdateImporter
    <2>1. PICK f \in call.todo :
            /\ IF disk[f] # Absent /\ RewriteImports(disk[f]) # disk[f]
               THEN Write(f, RewriteImports(disk[f])) ELSE UNCHANGED <<disk, pending>>
            /\ call' = [call EXCEPT !.todo = @ \ {f}]
      BY <1>5 DEF UpdateImporter
    <2>2. call # Idle /\ call.step = "imports" /\ call.op = "move" /\ UNCHANGED <<seen, touched>>
          /\ {"op", "step", "path", "target", "todo", "symbol"} \subseteq DOMAIN call
          /\ call.todo \subseteq Paths
      BY <1>5 DEF UpdateImporter, Running, Keep, Shape, Ops
    <2>3. call'.op = "move" /\ call'.path = call.path /\ call'.target = call.target
          /\ call'.symbol = call.symbol /\ call'.step = "imports" /\ call'.todo = call.todo \ {f}
      BY <2>1, <2>2
    <2> SUFFICES ASSUME call.path # call.target, NEW g \in Files \ (touched \cup {call.path}),
                        seen[g] # Absent, g \notin call'.todo, disk'[g] # Absent,
                        NEW k \in DOMAIN disk'[g], NEW form \in {"plain", "whole"}
                 PROVE  disk'[g][k] # Import(call.path, call.symbol, form)
      BY <2>2, <2>3 DEF Followed
    <2>4. g \in Paths /\ f \in Paths
      BY <2>2 DEF Paths
    <2>5. ASSUME NEW t, NEW j \in DOMAIN t
          PROVE  RewriteImports(t)[j] # Import(call.path, call.symbol, form)
      <3>1. CASE Matched(t[j])
        <4>1. RewriteImports(t)[j].from = call.target
          BY <3>1 DEF RewriteImports, Matched
        <4> QED BY <4>1 DEF Import
      <3>2. CASE ~Matched(t[j])
        BY <3>2 DEF RewriteImports, Matched, Import
      <3> QED BY <3>1, <3>2
    <2>6. CASE g # f
      <3>1. disk'[g] = disk[g]
        BY <2>1, <2>4, <2>6 DEF Write, Tables, Known
      <3>2. g \notin call.todo
        BY <2>3, <2>6
      <3> QED BY <2>2, <3>1, <3>2 DEF Followed
    <2>7. CASE g = f
      <3>1. CASE disk[f] # Absent /\ RewriteImports(disk[f]) # disk[f]
        <4>1. disk'[f] = RewriteImports(disk[f])
          BY <2>1, <2>4, <3>1 DEF Write, Tables, Known
        <4>2. k \in DOMAIN disk[f]
          BY <2>7, <4>1 DEF RewriteImports
        <4> QED BY <2>5, <2>7, <4>1, <4>2
      <3>2. CASE ~(disk[f] # Absent /\ RewriteImports(disk[f]) # disk[f])
        <4>1. disk'[f] = disk[f] /\ disk[f] # Absent
          BY <2>1, <2>7, <3>2
        <4>2. RewriteImports(disk[f]) = disk[f]
          BY <3>2, <4>1
        <4>3. k \in DOMAIN disk[f]
          BY <2>7, <4>1
        <4>4. RewriteImports(disk[f])[k] # Import(call.path, call.symbol, form)
          BY <2>5, <4>3
        <4> QED BY <2>7, <4>1, <4>2, <4>4
      <3> QED BY <3>1, <3>2
    <2> QED BY <2>6, <2>7
  <1>6. CASE BeginMove
    <2>1. PICK s \in Symbols, g \in Files, create \in BOOLEAN :
            \E p \in Owners(seen', s) :
                call' = [op |-> "move", step |-> "read", path |-> p, symbol |-> s,
                         at |-> Place(seen'[p], s), target |-> g, create |-> create,
                         todo |-> Importers(p)]
      BY <1>6 DEF BeginMove
    <2>2. PICK p \in Owners(seen', s) :
                call' = [op |-> "move", step |-> "read", path |-> p, symbol |-> s,
                         at |-> Place(seen'[p], s), target |-> g, create |-> create,
                         todo |-> Importers(p)]
      BY <2>1
    <2>3. call'.path = p /\ call'.todo = {f \in Paths : seen'[f] # Absent} \ {p}
      BY <2>2 DEF Importers
    <2> QED BY <2>3 DEF Followed, Paths
  <1>7. CASE BeginEdit \/ BeginCreate \/ BeginRestore \/ BeginApply
    <2>1. call'.op # "move"
      <3>1. CASE BeginEdit
        <4>1. \E op \in Ops : \E p, s, at, old, new :
                call' = [op |-> op, step |-> "read", path |-> p, symbol |-> s,
                         at |-> at, old |-> old, new |-> new]
          BY <3>1 DEF BeginEdit
        <4>2. call'.op \in Ops
          BY <4>1
        <4> QED BY <4>2 DEF Ops
      <3>2. CASE BeginCreate
        BY <3>2 DEF BeginCreate
      <3>3. CASE BeginRestore
        BY <3>3 DEF BeginRestore
      <3>4. CASE BeginApply
        BY <3>4 DEF BeginApply
      <3> QED BY <1>7, <3>1, <3>2, <3>3, <3>4
    <2> QED BY <1>1, <2>1
  <1>8. CASE CopyFile \/ RestoreFile \/ RunTests
    <2>1. call # Idle /\ call.op # "move" /\ "op" \in DOMAIN call
      BY <1>8 DEF CopyFile, RestoreFile, RunTests, Running, Shape, Ops
    <2>2. CASE CopyFile
      <3>1. PICK f : \/ call' = [call EXCEPT !.todo = @ \ {f}]
                     \/ call' = [call EXCEPT !.step = "read"] \/ call' = Idle
        BY <2>2 DEF CopyFile, GoOn, End
      <3> QED BY <1>1, <2>1, <3>1
    <2>3. CASE RestoreFile
      <3>1. \/ call' = Idle
            \/ \E f \in call.todo :
                  call' = [call EXCEPT !.todo = @ \ {f}, !.done = @ \cup {f},
                                       !.step = IF call.todo = {f} THEN "restored" ELSE @]
        BY <2>3 DEF RestoreFile, End
      <3> QED BY <1>1, <2>1, <3>1
    <2>4. CASE RunTests
      <3>1. call' = Idle \/ call' = [call EXCEPT !.step = "restore", !.todo = Saved(call.id)]
        BY <2>4 DEF RunTests, End
      <3> QED BY <1>1, <2>1, <3>1
    <2> QED BY <1>8, <2>2, <2>3, <2>4
  <1>9. CASE EndMove \/ ReindexRestored \/ Fail
    BY <1>1, <1>9 DEF EndMove, ReindexRestored, Fail, End
  <1>10. CASE UNCHANGED vars
    BY <1>10 DEF vars, Followed
  <1>11. CASE call = Idle /\ (DeleteOrPrune \/ Query \/ OthersEdit \/ OthersDelete)
    BY <1>1, <1>11 DEF DeleteOrPrune, Query, OthersEdit, OthersDelete
  <1>12. CASE call # Idle /\ (DeleteOrPrune \/ Query \/ OthersEdit \/ OthersDelete)
    <2>1. UNCHANGED call /\ touched \subseteq touched' /\ \A p \in Paths : p \in touched' \/ disk'[p] = disk[p]
      BY <1>12, OthersMark
    <2>2. UNCHANGED seen
      BY <1>12 DEF DeleteOrPrune, Query, OthersEdit, OthersDelete
    <2> QED BY <1>12, <2>1, <2>2 DEF Followed, Paths
  <1> QED BY <1>3, <1>1, <1>4, <1>5, <1>6, <1>7, <1>8, <1>9, <1>10, <1>11, <1>12 DEF Next

\* The fields of a change that can be rolled back.
LEMMA RollsBackAFile ==
    ASSUME Shape, RollingBack
    PROVE  /\ {"op", "step", "path", "id", "todo", "done", "rollback"} \subseteq DOMAIN call
           /\ call.path \in Files /\ call.path \in Paths /\ call.id \in Ids
           /\ call.done \subseteq Files
           /\ call.step \in {"copy", "read", "write", "reindex", "test", "restore", "restored"}
           /\ call.step \notin {"copy", "read"} => "text" \in DOMAIN call
           /\ call.step \notin {"restore", "restored"} => call.done = {}
           /\ call.step = "copy" => call.todo = {call.path}
  BY DEF Shape, RollingBack, Ops, Paths

\* Seconds are given once.
LEMMA SecondsStay ==
    ASSUME Tables, [Next]_vars
    PROVE  \A c \in Ids : second[c] # 0 => second'[c] # 0
  <1>1. UNCHANGED second \/ \E c : NewCheckpoint(c)
      BY SecondsAreGiven
  <1>2. CASE \E c : NewCheckpoint(c)
    <2>1. PICK c : c \in Unused /\ \E now \in {Latest, Latest + 1} \ {0} :
                      second' = [second EXCEPT ![c] = now]
      BY <1>2 DEF NewCheckpoint
    <2> QED BY <2>1 DEF Tables, Known, Unused
  <1> QED BY <1>1, <1>2

\* No copy is made in a checkpoint that has not been set up.
LEMMA FreshKeeps ==
    Tables /\ Shape /\ InFiles /\ Made /\ Undone /\ Fresh /\ [Next]_vars => Fresh'
  <1> SUFFICES ASSUME Tables, Shape, InFiles, Made, Undone, Fresh, [Next]_vars,
                      NEW c \in Ids, NEW f \in Files, second'[c] = 0
               PROVE  disk'[<<c, f>>] = Absent
    BY DEF Fresh
  <1>0. disk[<<c, f>>] = Absent /\ second[c] = 0 /\ <<c, f>> \in Paths \ Files
    BY SecondsStay, PathsApart DEF Fresh
  <1>1. CASE DeleteOrPrune \/ OthersDelete
    <2>1. PICK D \in SUBSET Ids : RemoveCopies(D)
      BY <1>1 DEF DeleteOrPrune, OthersDelete, Existing
    <2> QED BY <1>0, <2>1, RemovalOfCopies
  <1>2. CASE CopyFile
    <2>1. call # Idle /\ call.step = "copy"
      BY <1>2 DEF CopyFile, Running
    <2>2. second[call.id] # 0
      BY <2>1 DEF Shape, Made, Undone, RollingBack, Ops
    <2>3. PICK g : UNCHANGED disk \/ disk' = [disk EXCEPT ![<<call.id, g>>] = disk[g]]
      BY <1>2, CopyingAFile
    <2>4. <<c, f>> # <<call.id, g>>
      BY <1>0, <2>2
    <2> QED BY <1>0, <2>3, <2>4 DEF Tables, Known
  <1> QED BY <1>0, <1>1, <1>2, CopiesUntouched DEF Next

\* A checkpoint is set up as its call begins.
LEMMA MadeKeeps == Tables /\ Shape /\ Made /\ [Next]_vars => Made'
  <1> SUFFICES ASSUME Tables, Shape, Made, [Next]_vars PROVE Made'
    OBVIOUS
  <1>0. \A c \in Ids : second[c] # 0 => second'[c] # 0
    BY SecondsStay
  <1>1. CASE call' = Idle \/ call'.op # "create"
    BY <1>1 DEF Made
  <1>2. CASE call # Idle /\ call'.op = call.op /\ (call.op = "create" => call'.id = call.id)
    BY <1>0, <1>2 DEF Made, Shape, Ops
  <1>3. CASE BeginCreate
    <2>1. PICK c \in Ids, fs \in SUBSET Files \ {{}} :
            NewCheckpoint(c) /\ call' = [op |-> "create", step |-> "copy", id |-> c, todo |-> fs]
      BY <1>3 DEF BeginCreate
    <2>2. second'[c] # 0
      BY <2>1 DEF NewCheckpoint, Tables, Known
    <2> QED BY <2>1, <2>2 DEF Made
  <1>4. CASE BeginEdit
    <2>1. PICK op \in Ops : \E p, s, at, old, new :
            call' = [op |-> op, step |-> "read", path |-> p, symbol |-> s,
                     at |-> at, old |-> old, new |-> new]
      BY <1>4 DEF BeginEdit
    <2> QED BY <2>1 DEF Ops, Made
  <1>5. CASE BeginMove \/ BeginRestore \/ BeginApply
    <2>1. call'.op # "create"
      <3>1. CASE BeginMove
        BY <3>1 DEF BeginMove
      <3>2. CASE BeginRestore
        BY <3>2 DEF BeginRestore
      <3>3. CASE BeginApply
        BY <3>3 DEF BeginApply
      <3> QED BY <1>5, <3>1, <3>2, <3>3
    <2> QED BY <1>1, <2>1
  <1>6. CASE ReadFile \/ WriteFile \/ Reindex \/ AppendTarget \/ UpdateImporter \/ CopyFile
             \/ RestoreFile \/ RunTests
    <2>0. call # Idle /\ "op" \in DOMAIN call /\ (call.op = "create" => "id" \in DOMAIN call)
      BY <1>6 DEF ReadFile, WriteFile, Reindex, AppendTarget, UpdateImporter, CopyFile,
             RestoreFile, RunTests, Running, Shape, Ops
    <2> SUFFICES ASSUME call' # Idle
                 PROVE  call'.op = call.op /\ (call.op = "create" => call'.id = call.id)
      BY <1>1, <1>2, <2>0
    <2>1. CASE ReadFile
      <3>1. PICK t : call' = [f \in DOMAIN call \cup {"text"} |->
                               IF f = "text" THEN t
                               ELSE IF f = "step" THEN "write" ELSE call[f]]
        BY <2>1 DEF ReadFile, End
      <3> QED BY <2>0, <3>1
    <2>2. CASE WriteFile \/ Reindex \/ AppendTarget
      <3>1. \E s : call' = [call EXCEPT !.step = s]
        BY <2>2 DEF WriteFile, Reindex, AppendTarget, GoOn, End
      <3> QED BY <2>0, <3>1
    <2>3. CASE UpdateImporter \/ CopyFile
      <3>1. PICK f : call' = [call EXCEPT !.todo = @ \ {f}] \/ call' = [call EXCEPT !.step = "read"]
        BY <2>3 DEF UpdateImporter, CopyFile, GoOn, End
      <3> QED BY <2>0, <3>1
    <2>4. CASE RestoreFile
      <3>1. PICK f \in call.todo :
                  call' = [call EXCEPT !.todo = @ \ {f}, !.done = @ \cup {f},
                                       !.step = IF call.todo = {f} THEN "restored" ELSE @]
        BY <2>4 DEF RestoreFile, End
      <3> QED BY <2>0, <3>1
    <2>5. CASE RunTests
      <3>1. call' = [call EXCEPT !.step = "restore", !.todo = Saved(call.id)]
        BY <2>5 DEF RunTests, End
      <3> QED BY <2>0, <3>1
    <2> QED BY <1>6, <2>1, <2>2, <2>3, <2>4, <2>5
  <1>7. CASE EndMove \/ ReindexRestored \/ Fail
    BY <1>1, <1>7 DEF EndMove, ReindexRestored, Fail, End
  <1>8. CASE DeleteOrPrune \/ Query \/ OthersEdit \/ OthersDelete \/ UNCHANGED vars
    <2>1. UNCHANGED call
      BY <1>8 DEF DeleteOrPrune, Query, OthersEdit, OthersDelete, vars
    <2> QED BY <1>1, <1>2, <2>1
  <1> QED BY <1>3, <1>4, <1>5, <1>6, <1>7, <1>8 DEF Next

\* The checkpoint of a change is a fresh one.
LEMMA UndoneBegins ==
    ASSUME Tables, Fresh, Private, Private', BeginEdit \/ BeginMove \/ BeginCreate \/ BeginRestore \/ BeginApply
    PROVE  Undone'
  <1>1. CASE BeginApply /\ RollingBack'
    <2>1. PICK s \in Symbols, b \in Bodies, rollback \in BOOLEAN :
            \E p \in Owners(seen, s), c \in Ids :
            /\ IF rollback THEN p \in Files /\ NewCheckpoint(c)
               ELSE c = 1 /\ UNCHANGED <<second, taken>>
            /\ call' = [op |-> "apply", step |-> IF rollback THEN "copy" ELSE "read",
                      path |-> p, symbol |-> s, at |-> Place(seen[p], s),
                      old |-> b, new |-> Definition(s, b), rollback |-> rollback,
                      id |-> c, todo |-> {p}, done |-> {}]
      BY <1>1 DEF BeginApply
    <2>2. PICK p \in Owners(seen, s), c \in Ids :
            /\ IF rollback THEN p \in Files /\ NewCheckpoint(c)
               ELSE c = 1 /\ UNCHANGED <<second, taken>>
            /\ call' = [op |-> "apply", step |-> IF rollback THEN "copy" ELSE "read",
                      path |-> p, symbol |-> s, at |-> Place(seen[p], s),
                      old |-> b, new |-> Definition(s, b), rollback |-> rollback,
                      id |-> c, todo |-> {p}, done |-> {}]
      BY <2>1
    <2>3. rollback
      BY <1>1, <2>2 DEF RollingBack
    <2>4. call'.step = "copy" /\ call'.id = c /\ call'.path = p /\ p \in Files
      BY <2>2, <2>3
    <2>5. second[c] = 0 /\ second'[c] # 0
      BY <2>2, <2>3 DEF NewCheckpoint, Unused, Tables, Known
    <2>6. UNCHANGED disk
      BY <1>1 DEF BeginApply
    <2>7. \A f \in Files : disk'[<<c, f>>] = Absent
      BY <2>5, <2>6 DEF Fresh
    <2> QED BY <2>4, <2>5, <2>7 DEF Undone
  <1>2. CASE BeginEdit
    <2>1. \E op \in Ops : \E p, s, at, old, new :
            call' = [op |-> op, step |-> "read", path |-> p, symbol |-> s,
                     at |-> at, old |-> old, new |-> new]
      BY <1>2 DEF BeginEdit
    <2>2. call'.op \in Ops
      BY <2>1
    <2> QED BY <2>2 DEF Ops, Undone, RollingBack
  <1>3. CASE BeginMove \/ BeginCreate \/ BeginRestore
    <2>1. call'.op # "apply"
      <3>1. CASE BeginMove
        BY <3>1 DEF BeginMove
      <3>2. CASE BeginRestore
        BY <3>2 DEF BeginRestore
      <3>3. CASE BeginCreate
        BY <3>3 DEF BeginCreate
      <3> QED BY <1>3, <3>1, <3>2, <3>3
    <2> QED BY <2>1 DEF Undone, RollingBack
  <1> QED BY <1>1, <1>2, <1>3 DEF Undone

\* Nothing else begins one.
LEMMA RollbackGoesOn ==
    ASSUME Shape, RollingBack', call # Idle,
           \/ ReadFile \/ WriteFile \/ Reindex \/ AppendTarget \/ UpdateImporter
           \/ CopyFile \/ RestoreFile \/ RunTests
    PROVE  /\ RollingBack /\ call'.id = call.id /\ call'.path = call.path
           /\ call.step # "copy" => UNCHANGED taken
           /\ call'.step \in {"write", "reindex", "test", "restore", "restored"} /\ call.step # "read"
                 => call'.text = call.text
  <1>0. /\ {"op", "step"} \subseteq DOMAIN call
        /\ call.op = "apply" => {"path", "id", "rollback", "todo", "done"} \subseteq DOMAIN call
    BY DEF Shape, Ops
  <1>a. call' # Idle /\ call'.op = "apply" /\ call'.rollback
    BY DEF RollingBack
  <1>1. CASE ReadFile
    <2>1. PICK t : call' = [f \in DOMAIN call \cup {"text"} |->
                             IF f = "text" THEN t
                             ELSE IF f = "step" THEN "write" ELSE call[f]]
      BY <1>1, <1>a DEF ReadFile, End
    <2>2. call.op = "apply"
      BY <1>0, <1>a, <2>1
    <2>3. call.step = "read"
      BY <1>1 DEF ReadFile, Running
    <2> QED BY <1>0, <1>a, <1>1, <2>1, <2>2, <2>3 DEF RollingBack, ReadFile
  <1>2. CASE WriteFile \/ Reindex \/ AppendTarget
    <2>1. \E s : call' = [call EXCEPT !.step = s]
      BY <1>2, <1>a DEF WriteFile, Reindex, AppendTarget, GoOn, End
    <2>2. call.op = "apply"
      BY <1>0, <1>a, <2>1
    <2>3. "text" \in DOMAIN call
      BY <1>2 DEF WriteFile, Reindex, AppendTarget, Running, Shape
    <2> QED BY <1>0, <1>a, <1>2, <2>1, <2>2, <2>3 DEF RollingBack, WriteFile, Reindex, AppendTarget
  <1>3. CASE UpdateImporter
    <2>1. PICK f : call' = [call EXCEPT !.todo = @ \ {f}]
      BY <1>3 DEF UpdateImporter
    <2>2. call.op = "move"
      BY <1>3 DEF UpdateImporter, Running, Shape, Ops
    <2> QED BY <1>0, <1>a, <2>1, <2>2
  <1>4. CASE CopyFile
    <2>1. PICK f : call' = [call EXCEPT !.todo = @ \ {f}] \/ call' = [call EXCEPT !.step = "read"]
      BY <1>4, <1>a DEF CopyFile, GoOn, End
    <2>2. call.op = "apply" /\ call.step = "copy"
      BY <1>0, <1>a, <1>4, <2>1 DEF CopyFile, Running
    <2>3. call'.step \in {"copy", "read"}
      BY <1>0, <2>1, <2>2
    <2> QED BY <1>0, <1>a, <2>1, <2>2, <2>3 DEF RollingBack
  <1>5. CASE RestoreFile
    <2>1. PICK f \in call.todo :
                  call' = [call EXCEPT !.todo = @ \ {f}, !.done = @ \cup {f},
                                       !.step = IF call.todo = {f} THEN "restored" ELSE @]
      BY <1>5, <1>a DEF RestoreFile, End
    <2>2. call.op = "apply"
      BY <1>0, <1>a, <2>1
    <2>3. "text" \in DOMAIN call
      BY <1>5, <2>2 DEF RestoreFile, Running, Shape, Ops
    <2> QED BY <1>0, <1>a, <1>5, <2>1, <2>2, <2>3 DEF RollingBack, RestoreFile
  <1>6. CASE RunTests
    <2>1. call' = [call EXCEPT !.step = "restore", !.todo = Saved(call.id)]
      BY <1>6, <1>a DEF RunTests, End
    <2>2. call.op = "apply"
      BY <1>0, <1>a, <2>1
    <2>3. "text" \in DOMAIN call
      BY <1>6 DEF RunTests, Running, Shape
    <2> QED BY <1>0, <1>a, <1>6, <2>1, <2>2, <2>3 DEF RollingBack, RunTests
  <1> QED BY <1>1, <1>2, <1>3, <1>4, <1>5, <1>6

\* It gets the file as the edit is to find it.
LEMMA UndoneCopies ==
    ASSUME Tables, Shape, Undone, RollingBack', CopyFile
    PROVE  Undone'
  <1>1. call # Idle /\ call.step = "copy"
    BY DEF CopyFile, Running
  <1>2. RollingBack /\ call'.id = call.id /\ call'.path = call.path
    BY <1>1, RollbackGoesOn
  <1>3. call.path \in Files /\ call.id \in Ids /\ call.todo = {call.path} /\ call.path \in Paths
        /\ "step" \in DOMAIN call
    BY <1>1, <1>2, RollsBackAFile
  <1>4. PICK f \in call.todo :
          /\ \/ disk[f] = Absent /\ UNCHANGED disk
             \/ disk[f] # Absent /\ disk' = [disk EXCEPT ![<<call.id, f>>] = disk[f]]
          /\ call.todo = {f} /\ call.op = "apply" => GoOn("read")
    BY CopyingAFile
  <1>5. f = call.path /\ call' = [call EXCEPT !.step = "read"] /\ UNCHANGED touched
    BY <1>2, <1>3, <1>4 DEF GoOn, Keep, RollingBack
  <1>6. call'.step = "read"
    BY <1>3, <1>5
  <1>7. UNCHANGED second
    BY DEF CopyFile
  <1>8. \A g \in Files : <<call.id, g>> \in Paths \ Files
    BY <1>3, PathsApart
  <1>9. disk'[call.path] = disk[call.path]
    BY <1>3, <1>4, <1>5, <1>8 DEF Tables, Known
  <1>10. \A g \in Files \ {call.path} : disk'[<<call.id, g>>] = disk[<<call.id, g>>]
    <2> SUFFICES ASSUME NEW g \in Files \ {call.path} PROVE disk'[<<call.id, g>>] = disk[<<call.id, g>>]
      OBVIOUS
    <2>1. <<call.id, g>> # <<call.id, call.path>>
      OBVIOUS
    <2> QED BY <1>4, <1>5, <1>8, <2>1 DEF Tables, Known
  <1>11. call.path \notin touched => disk'[<<call.id, call.path>>] \in {Absent, disk'[call.path]}
    BY <1>1, <1>2, <1>3, <1>4, <1>5, <1>8, <1>9 DEF Undone, Tables, Known
  <1> QED BY <1>2, <1>5, <1>6, <1>7, <1>10, <1>11 DEF Undone

\* The edit reads that text, and a rollback restores it.
LEMMA UndoneSteps ==
    ASSUME Tables, Shape, InFiles, Undone, RollingBack',
           \/ ReadFile \/ WriteFile \/ Reindex \/ AppendTarget \/ UpdateImporter
           \/ RestoreFile \/ RunTests
    PROVE  Undone'
  <1>0. call # Idle
    BY DEF ReadFile, WriteFile, Reindex, AppendTarget, UpdateImporter, RestoreFile, RunTests, Running
  <1>1. /\ RollingBack /\ call'.id = call.id /\ call'.path = call.path
        /\ call'.step \in {"write", "reindex", "test", "restore", "restored"} /\ call.step # "read"
              => call'.text = call.text
    BY <1>0, RollbackGoesOn
  <1>2. /\ {"op", "step", "path", "id", "todo", "done", "rollback"} \subseteq DOMAIN call
        /\ call.path \in Files /\ call.path \in Paths /\ call.id \in Ids
        /\ call.op = "apply" /\ call.rollback
    BY <1>1, RollsBackAFile DEF RollingBack
  <1>3. \A f \in Files : disk'[<<call.id, f>>] = disk[<<call.id, f>>]
    BY <1>2, CopiesUntouched, PathsApart
  <1>4. UNCHANGED second
    BY DEF ReadFile, WriteFile, Reindex, AppendTarget, UpdateImporter, RestoreFile, RunTests
  <1>a. call' # Idle
    BY DEF RollingBack
  <1>5. CASE ReadFile
    <2>1. PICK t : t = disk[call.path] /\ call' = [f \in DOMAIN call \cup {"text"} |->
                             IF f = "text" THEN t
                             ELSE IF f = "step" THEN "write" ELSE call[f]]
      BY <1>5, <1>a DEF ReadFile, End
    <2>2. call'.step = "write" /\ call'.text = disk[call.path] /\ call.step = "read"
          /\ UNCHANGED touched
      BY <1>2, <1>5, <1>a, <2>1 DEF ReadFile, Running, Keep, End
    <2> QED BY <1>1, <1>2, <1>3, <1>4, <2>2 DEF Undone
  <1>6. CASE WriteFile
    <2>1. call'.step = "reindex" /\ call.step = "write" /\ UNCHANGED touched
      BY <1>2, <1>6 DEF WriteFile, GoOn, Keep, Running
    <2> QED BY <1>1, <1>2, <1>3, <1>4, <2>1 DEF Undone
  <1>7. CASE Reindex
    <2>1. call'.step = "test" /\ call.step = "reindex" /\ UNCHANGED touched
      BY <1>2, <1>7 DEF Reindex, GoOn, Keep, Running
    <2> QED BY <1>1, <1>2, <1>3, <1>4, <2>1 DEF Undone
  <1>8. CASE AppendTarget \/ UpdateImporter
    BY <1>2, <1>8 DEF AppendTarget, UpdateImporter, Running, Shape, Ops
  <1>9. CASE RunTests
    <2>1. call' = [call EXCEPT !.step = "restore", !.todo = Saved(call.id)]
          /\ Saved(call.id) # {} /\ UNCHANGED touched /\ call.step = "test"
      BY <1>9, <1>a DEF RunTests, End, Keep, Running
    <2>2. call'.step = "restore" /\ call'.todo = Saved(call.id) /\ call'.done = call.done
      BY <1>2, <2>1
    <2>3. Saved(call.id) = {call.path}
      BY <1>1, <2>1 DEF Saved, Undone
    <2>4. call.done = {}
      BY <1>1, <2>1, RollsBackAFile
    <2> QED BY <1>1, <1>2, <1>3, <1>4, <2>1, <2>2, <2>3, <2>4 DEF Undone
  <1>10. CASE RestoreFile
    <2>1. PICK f \in call.todo :
            /\ disk[<<call.id, f>>] # Absent /\ Write(f, disk[<<call.id, f>>]) /\ Keep
            /\ call' = [call EXCEPT !.todo = @ \ {f}, !.done = @ \cup {f},
                                    !.step = IF call.todo = {f} THEN "restored" ELSE @]
      BY <1>10, <1>a DEF RestoreFile, End
    <2>2. call.step = "restore" /\ call.todo = {call.path} /\ call.done = {}
      BY <1>1, <1>10 DEF RestoreFile, Running, Undone
    <2>3. f = call.path /\ call'.step = "restored" /\ call'.done = {call.path} /\ UNCHANGED touched
      BY <1>2, <2>1, <2>2 DEF Keep
    <2>4. disk'[call.path] = disk[<<call.id, call.path>>] /\ disk[<<call.id, call.path>>] # Absent
      BY <1>2, <2>1, <2>3 DEF Write, Tables, Known
    <2> QED BY <1>1, <1>2, <1>3, <1>4, <2>2, <2>3, <2>4 DEF Undone
  <1> QED BY <1>5, <1>6, <1>7, <1>8, <1>9, <1>10

\* Others may remove the checkpoint, which calls the rollback off.
LEMMA UndoneKeeps ==
    Tables /\ Shape /\ InFiles /\ Private /\ Private' /\ Fresh /\ Undone /\ [Next]_vars => Undone'
  <1> SUFFICES ASSUME Tables, Shape, InFiles, Private, Private', Fresh, Undone, [Next]_vars,
                      RollingBack'
               PROVE  Undone'
    BY DEF Undone
  <1>1. CASE EndMove \/ ReindexRestored \/ Fail
    BY <1>1 DEF EndMove, ReindexRestored, Fail, End, RollingBack
  <1>2. CASE UNCHANGED vars
    BY <1>2 DEF vars, Undone, RollingBack
  <1>3. CASE DeleteOrPrune \/ Query \/ OthersEdit \/ OthersDelete
    <2>1. UNCHANGED <<call, second>>
      BY <1>3 DEF DeleteOrPrune, Query, OthersEdit, OthersDelete
    <2>2. RollingBack /\ call # Idle
      BY <2>1 DEF RollingBack
    <2>3. touched \subseteq touched' /\ \A p \in Paths : p \in touched' \/ disk'[p] = disk[p]
      BY <1>3, <2>2, OthersMark
    <2>4. call.path \in Files /\ call.path \in Paths /\ call.id \in Ids
      BY <2>2, RollsBackAFile
    <2>5. \A f \in Files : disk'[<<call.id, f>>] \in {Absent, disk[<<call.id, f>>]}
      <3>1. CASE DeleteOrPrune \/ OthersDelete
        <4>1. PICK D \in SUBSET Ids : RemoveCopies(D)
          BY <3>1 DEF DeleteOrPrune, OthersDelete, Existing
        <4> QED BY <2>4, <4>1, RemovalOfCopies
      <3>2. CASE Query \/ OthersEdit
        BY <2>4, <3>2, CopiesUntouched, PathsApart
      <3> QED BY <1>3, <3>1, <3>2
    <2>6. call.path \notin touched' => disk'[call.path] = disk[call.path] /\ call.path \notin touched
      BY <2>3, <2>4
    <2> QED BY <2>1, <2>2, <2>4, <2>5, <2>6 DEF Undone
  <1> QED BY <1>1, <1>2, <1>3, UndoneBegins, UndoneCopies, UndoneSteps DEF Next

-----------------------------------------------------------------------------
(* The theorems.                                                           *)

LEMMA Beginnings ==
    ASSUME Init
    PROVE  Tables /\ Shape /\ Aim /\ InFiles /\ Copies /\ Restoring /\ Followed
           /\ Fresh /\ Made /\ Undone /\ (~CopiesIndexed => Private)
  <1>1. PICK t \in [Files -> Texts \cup {Absent}] :
           disk = [p \in Paths |-> IF p \in Files THEN t[p] ELSE Absent]
    BY DEF Init
  <1>2. call = Idle /\ seen = disk /\ taken = [c \in Ids |-> Absent] /\ second = [c \in Ids |-> 0]
    BY DEF Init
  <1>3. Tables
    BY <1>1, <1>2 DEF Tables, Known
  <1>4. \A p \in Paths \ Files : disk[p] = Absent
    BY <1>1
  <1>5. Shape /\ Aim /\ InFiles /\ Restoring /\ Followed /\ Made /\ Undone
    BY <1>2 DEF Shape, Aim, InFiles, Restoring, Followed, Made, Undone, RollingBack
  <1>6. Copies /\ Private /\ Fresh
    BY <1>2, <1>4, PathsApart DEF Copies, Private, Fresh
  <1> QED BY <1>3, <1>5, <1>6

\* The fields every call has when it needs them: nothing reads a text, a
\* checkpoint or a list of importers that no step has set.
THEOREM CallsAreShaped == Spec => [](Tables /\ Shape)
  <1>1. Init => Tables /\ Shape
    BY Beginnings
  <1>2. Tables /\ Shape /\ [Next]_vars => (Tables /\ Shape)'
    BY TablesKeep, ShapeKeeps
  <1> QED BY <1>1, <1>2, PTL DEF Spec

\* With the mtime scan, an edit, a move or an applied change writes over the
\* symbol it was asked to change, unless others wrote the file meanwhile; if
\* the file was gone when it began, it writes nothing.
THEOREM EditsAim == ASSUME ~Watched PROVE Spec => []AimedAtSymbol
  <1>1. Init => Aim
    BY Beginnings
  <1>2. Tables /\ Shape /\ DivergenceIsPending /\ Aim /\ [Next]_vars => Aim'
    BY AimKeeps
  <1>3. Aim => AimedAtSymbol
    BY DEF Aim, AimedAtSymbol, Running
  <1> QED BY <1>1, <1>2, <1>3, CallsAreShaped, WritesAreNoticed, PTL DEF Spec

\* After a move between modules no file that the index knew imports the symbol
\* by a plain import, or the whole module, from where it was, whatever order
\* they were visited in.
THEOREM MovesAreFollowed == Spec => []ImportsFollow
  <1>1. Init => Followed
    BY Beginnings
  <1>2. Tables /\ Shape /\ Followed /\ [Next]_vars => Followed'
    BY FollowedKeeps
  <1>3. Shape /\ Followed => ImportsFollow
    BY DEF Shape, Followed, ImportsFollow, Running, Ops
  <1> QED BY <1>1, <1>2, <1>3, CallsAreShaped, PTL DEF Spec

\* What holds of checkpoints when the index has none of their copies.
THEOREM CheckpointsHold ==
    ASSUME ~CopiesIndexed
    PROVE  Spec => [](Private /\ InFiles /\ Copies /\ Restoring /\ Fresh /\ Made /\ Undone)
  <1> DEFINE IInv == Private /\ InFiles /\ Copies /\ Restoring /\ Fresh /\ Made /\ Undone
  <1>1. Init => IInv
    BY Beginnings
  <1>2. Tables /\ Shape /\ IInv /\ [Next]_vars => IInv'
    BY PrivateKeeps, InFilesKeeps, CopiesKeep, RestoringKeeps, FreshKeeps, MadeKeeps, UndoneKeeps
  <1> QED BY <1>1, <1>2, CallsAreShaped, PTL DEF Spec

\* The files a restore brings back are as they were taken, when the directory
\* of the checkpoints is not indexed.
THEOREM RestoresBringBack == ASSUME ~CopiesIndexed PROVE Spec => []RestoredAsTaken
  <1>1. Restoring => RestoredAsTaken
    BY DEF Restoring, RestoredAsTaken, Running
  <1> QED BY <1>1, CheckpointsHold, PTL

\* A rollback gives the file, and its entry in the index, the text that the
\* edit found.
THEOREM RollbacksUndo == ASSUME ~CopiesIndexed PROVE Spec => RollbackUndoes
  <1> DEFINE Step == (ReindexRestored /\ call.op = "apply" /\ call.path \notin touched)
                        => disk'[call.path] = call.text /\ seen'[call.path] = call.text
  <1>1. Shape /\ Undone /\ [Next]_vars => [Step]_vars
    <2> SUFFICES ASSUME Shape, Undone, ReindexRestored, call.op = "apply", call.path \notin touched
                 PROVE  disk'[call.path] = call.text /\ seen'[call.path] = call.text
      OBVIOUS
    <2>1. call # Idle /\ call.step = "restored" /\ Prep(call.done) /\ UNCHANGED disk
      BY DEF ReindexRestored, Running
    <2>2. RollingBack
      BY <2>1 DEF Shape, RollingBack
    <2>3. call.path \in Files /\ call.path \in Paths
      BY <2>2, RollsBackAFile
    <2>4. call.done = {call.path} /\ disk[call.path] = call.text
      BY <2>1, <2>2 DEF Undone
    <2> QED BY <2>1, <2>3, <2>4 DEF Prep, Reindexed, Entry
  <1> QED BY <1>1, CallsAreShaped, CheckpointsHold, PTL DEF Spec, RollbackUndoes
=============================================================================
