----------------------------- MODULE SlotMirror ------------------------------
(***************************************************************************)
(* What a project slot promises to the tools that read its index, with     *)
(* the watcher, the mtime scan, git and the order of the updates hidden.   *)
(*                                                                         *)
(* The index is a mirror of the working tree: while no call is answered,   *)
(* entries are dropped, or replaced by the text their file has at that     *)
(* moment, one by one.  An answer is only given from entries that have not *)
(* changed since the last one, or whose change was announced (cache_gen).  *)
(* A new process starts from nothing or from entries saved with an answer. *)
(***************************************************************************)
CONSTANTS Files, Contents, Absent

VARIABLES
    tree,       \* the working tree
    entries,    \* the text the index holds for each file
    saved,      \* the entries in the cache on disk
    phase,      \* "down", "building", "updating" or "answering"
    changed,    \* entries changed since the last answer began to be worked on
    announced   \* cache_gen moved since then

mirrorVars == <<tree, entries, saved, phase, changed, announced>>

Texts == Contents \cup {Absent}
Nothing == [f \in Files |-> Absent]
Without(S) == [f \in Files |-> IF f \in S THEN Absent ELSE entries[f]]
TreeMoves == \E f \in Files, t \in Texts : tree' = [tree EXCEPT ![f] = t]

Init ==
    /\ tree \in [Files -> Texts]
    /\ entries = Nothing /\ saved = Nothing
    /\ phase = "down"
    /\ changed = FALSE /\ announced = FALSE

Edit == TreeMoves /\ UNCHANGED <<entries, saved, phase, changed, announced>>

\* The process ends; a save under way is torn.
Stop ==
    /\ phase' = "down" /\ entries' = Nothing
    /\ saved' \in {saved, Nothing}
    /\ changed' = FALSE /\ announced' = FALSE
    /\ UNCHANGED tree

Adopt ==
    /\ phase = "down" /\ phase' = "answering"
    /\ entries' = saved
    /\ changed' = TRUE /\ announced' = TRUE
    /\ UNCHANGED <<tree, saved>>

Rebuild ==
    /\ phase' = "building" /\ entries' = Nothing
    /\ changed' = TRUE /\ announced' = TRUE
    /\ UNCHANGED <<tree, saved>>

\* A call begins; what is known to be deleted is dropped at once.
Call ==
    /\ phase = "answering" /\ phase' = "updating"
    /\ \E S \in SUBSET Files : entries' = Without(S)
    /\ changed' = (entries' # entries) /\ announced' = FALSE
    /\ UNCHANGED <<tree, saved>>

Drop ==
    /\ phase = "updating"
    /\ \E S \in SUBSET Files : entries' = Without(S)
    /\ changed' = (changed \/ entries' # entries)
    /\ UNCHANGED <<tree, saved, phase, announced>>

Refresh(f) ==
    /\ phase \in {"building", "updating"}
    /\ \E t \in {tree[f], Absent} : entries' = [entries EXCEPT ![f] = t]
    /\ changed' = (changed \/ entries' # entries)
    /\ UNCHANGED <<tree, saved, phase, announced>>

Announce ==
    /\ phase = "updating" /\ announced' = TRUE
    /\ UNCHANGED <<tree, entries, saved, phase, changed>>

\* The index may be saved with the answer, into the tree itself.
Answer ==
    /\ phase \in {"building", "updating"} /\ phase' = "answering"
    /\ announced' \in {announced, TRUE}
    /\ changed => announced'
    /\ saved' \in {saved, entries}
    /\ tree' = tree \/ TreeMoves
    /\ UNCHANGED <<entries, changed>>

Next ==
    \/ Edit \/ Stop \/ Adopt \/ Rebuild
    \/ Call \/ Drop \/ (\E f \in Files : Refresh(f)) \/ Announce \/ Answer

Spec == Init /\ [][Next]_mirrorVars
=============================================================================
