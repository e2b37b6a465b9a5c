---------------------------- MODULE MemoryStore -----------------------------
(***************************************************************************)
(* The observations of token_savior/memory: several server processes and   *)
(* hooks share one SQLite file.  Saving looks for duplicates and inserts   *)
(* in transactions of their own; retention (decay, the ROI collector,      *)
(* promotion), the dedup sweep and the distiller archive and rewrite rows. *)
(*                                                                         *)
(* A row is known by the id it got, its place in `rows'.  Titles that      *)
(* differ by a few words only get a tag: two titles are equal here when    *)
(* their Jaccard similarity is 0.95 or more.  Times are in periods: `age'  *)
(* and `idle' are n when n periods and a bit have gone by.                 *)
(***************************************************************************)
EXTENDS Naturals, Sequences, FiniteSets

CONSTANTS
    Projects, Titles, Texts, Types,
    Drafts,           \* what clients save: records of Draft
    Legacy,           \* rows of a release with another hash, present from the start
    Savers,           \* server processes and hooks that save
    ImmuneTypes,      \* _DECAY_IMMUNE_TYPES
    Ttl,              \* _DEFAULT_TTL_DAYS, for types that have one
    VolatileTtl,      \* DEFAULT_VOLATILE_TTL_DAYS
    ZeroAccess,       \* _ZERO_ACCESS_RULES, for types that have one
    Rules,            \* _PROMOTION_RULES: [from, reads, to], in order
    DecayAge,         \* _DECAY_MAX_AGE_SEC
    UnreadAge,        \* _DECAY_UNREAD_SEC, also the window of run_promotions
    KeepReads,        \* _DECAY_MIN_ACCESS
    Profitable(_, _, _, _),  \* type, text, idle, reads: compute_observation_roi >= 0
    MinCluster,       \* fewest rows the distiller merges
    MaxRows,          \* bound: rows
    MaxReads,         \* reads are counted up to here
    MaxPeriods,       \* ages are counted up to here
    None

Never == MaxPeriods + 1       \* NULL, for a time or a span

\* What memory_save passes on; ttl is Never when the client gives no ttl_days.
Draft == [project : Projects, title : Titles, text : Texts, type : Types, global : BOOLEAN,
          ttl : 0..Never]

\* observation_save_volatile: a draft for the bus of the agents, soon expired.
Volatile(d) == [d EXCEPT !.ttl = VolatileTtl]

ASSUME MemoryAssumption ==
    /\ Drafts \subseteq Draft /\ Legacy \subseteq Draft
    /\ ImmuneTypes \subseteq Types /\ "convention" \in Types
    /\ DOMAIN Ttl \subseteq Types /\ DOMAIN ZeroAccess \subseteq Types
    /\ \A t \in DOMAIN Ttl : Ttl[t] \in 0..MaxPeriods
    /\ \A t \in DOMAIN ZeroAccess : ZeroAccess[t] \in 0..MaxPeriods
    /\ DOMAIN Rules \subseteq Nat
    /\ \A k \in DOMAIN Rules : Rules[k].from \in Types /\ Rules[k].to \in Types
    /\ \A j, k \in DOMAIN Rules : Rules[j].to # Rules[k].from   \* one promotion per run
    /\ VolatileTtl \in 0..MaxPeriods
    /\ DecayAge \in 0..MaxPeriods /\ UnreadAge \in 0..MaxPeriods
    /\ KeepReads \in 0..MaxReads
    /\ MinCluster \in Nat \ {0} /\ MaxRows \in Nat /\ MaxReads \in Nat /\ MaxPeriods \in Nat

VARIABLES
    rows,    \* table observations, in the order of their ids
    saver,   \* what each process has found out about the draft it is saving
    sweep,   \* rows the dedup sweep has still to look at, with the texts it fetched
    plan     \* the cluster the distiller has found: None, or a set of rows

vars == <<rows, saver, sweep, plan>>

-----------------------------------------------------------------------------
OldHash == <<"old">>          \* a hash by another formula
Delta(a) == <<"delta", a>>    \* "[delta] ... [abstraction_id: a]"
Abstraction(a) == <<"abstraction", a>>

ASSUME TextAssumption ==
    Texts \cap ({"delta", "abstraction"} \X Nat) = {} /\ OldHash \notin Texts

Ids == DOMAIN rows
Active == {i \in Ids : ~rows[i].archived}
Distilled(i) == rows[i].text \notin Texts     \* tagged mdl-distilled or mdl-abstraction

\* The row a draft becomes.  `saw', `byHand' are history: how many rows there
\* were when its hash was looked up; deleted or restored by hand.
NewRow(d, hash, saw) ==
    [project |-> d.project, title |-> d.title, text |-> d.text, type |-> d.type,
     hash |-> hash, global |-> d.global,
     immune |-> d.type \in ImmuneTypes,
     ttl |-> IF d.ttl = Never /\ d.type \in DOMAIN Ttl \ ImmuneTypes THEN Ttl[d.type] ELSE d.ttl,
     age |-> 0, idle |-> Never, reads |-> 0, archived |-> FALSE,
     saw |-> saw, byHand |-> FALSE]

\* The passes look at one project or at all of them.
Scopes == {Projects} \cup {{p} : p \in Projects}
ActiveIn(P) == {i \in Active : rows[i].project \in P}

\* _bump_access
Bumped(r) == [r EXCEPT !.reads = IF @ < MaxReads THEN @ + 1 ELSE @, !.idle = 0]

Archive(S) == rows' = [i \in Ids |-> IF i \in S THEN [rows[i] EXCEPT !.archived = TRUE]
                                     ELSE rows[i]]

Idle == [step |-> "idle"]

\* Bound: a save or a distillation begins only if its row will fit.
Room ==
    Len(rows) + Cardinality({s \in Savers : saver[s] # Idle})
              + (IF plan = None THEN 0 ELSE 1) < MaxRows

Init ==
    /\ rows \in {<< >>} \cup {<<NewRow(a, OldHash, 0)>> : a \in Legacy}
                \cup {<<NewRow(a, OldHash, 0), NewRow(b, OldHash, 0)>> : a, b \in Legacy}
    /\ saver = [s \in Savers |-> Idle]
    /\ sweep = << >>
    /\ plan = None

-----------------------------------------------------------------------------
(* observation_save: each check and the insertion is a transaction.        *)

GoOn(s, step) == saver' = [saver EXCEPT ![s].step = step]
Refuse(s) == saver' = [saver EXCEPT ![s] = Idle]

CheckHashMutant(s) ==      \* the check is made on the title only
    /\ saver[s] = Idle /\ Room
    /\ \E d \in Drafts :
          saver' = [saver EXCEPT ![s] = [step |-> IF d.global THEN "global" ELSE "title",
                                         draft |-> d, saw |-> Len(rows)]]
    /\ UNCHANGED <<rows, sweep, plan>>
\* An active row of the project with this hash: refused.
CheckHash(s) ==
    /\ saver[s] = Idle /\ Room
    /\ \E d \in Drafts :
          /\ \A i \in Active : ~(rows[i].hash = d.text /\ rows[i].project = d.project)
          /\ saver' = [saver EXCEPT ![s] = [step |-> IF d.global THEN "global" ELSE "title",
                                            draft |-> d, saw |-> Len(rows)]]
    /\ UNCHANGED <<rows, sweep, plan>>

\* global_dedup_check: an active global row of this type, in any project, with
\* this hash or title.
CheckGlobal(s) ==
    /\ saver[s].step = "global"
    /\ LET d == saver[s].draft
       IN  IF \E i \in Active : /\ rows[i].global /\ rows[i].type = d.type
                                /\ rows[i].hash = d.text \/ rows[i].title = d.title
           THEN Refuse(s) ELSE GoOn(s, "title")
    /\ UNCHANGED <<rows, sweep, plan>>

\* semantic_dedup_check: an active row of the project with this type and title.
CheckTitle(s) ==
    /\ saver[s].step = "title"
    /\ LET d == saver[s].draft
       IN  IF \E i \in Active : /\ rows[i].project = d.project
                                /\ rows[i].type = d.type /\ rows[i].title = d.title
           THEN Refuse(s) ELSE GoOn(s, "insert")
    /\ UNCHANGED <<rows, sweep, plan>>

Insert(s) ==
    /\ saver[s].step = "insert"
    /\ rows' = Append(rows, NewRow(saver[s].draft, saver[s].draft.text, saver[s].saw))
    /\ Refuse(s)
    /\ UNCHANGED <<sweep, plan>>

Save(s) == CheckHash(s) \/ CheckGlobal(s) \/ CheckTitle(s) \/ Insert(s)

-----------------------------------------------------------------------------
(* Reading, deleting and restoring.                                        *)

\* observation_get, observation_search: a hit is bumped.
Read(i) ==
    /\ rows' = [rows EXCEPT ![i] = Bumped(@)]
    /\ UNCHANGED <<saver, sweep, plan>>

\* The memory_delete tool reads the row before it archives it.
Delete(i) ==
    /\ rows' = [rows EXCEPT ![i] = [Bumped(@) EXCEPT !.archived = TRUE, !.byHand = TRUE]]
    /\ UNCHANGED <<saver, sweep, plan>>

\* observation_restore looks for no duplicate.
Restore(i) ==
    /\ rows[i].archived
    /\ rows' = [rows EXCEPT ![i].archived = FALSE, ![i].byHand = TRUE]
    /\ UNCHANGED <<saver, sweep, plan>>

-----------------------------------------------------------------------------
(* Retention: run_decay, run_promotions, run_roi_gc, each taken as one     *)
(* step: that another process may read a row between the queries of a pass *)
(* and its update is left out.                                             *)

Unread(r) == r.idle >= UnreadAge       \* never read, or not lately
IdleFor(r) == IF r.idle = Never THEN r.age ELSE r.idle
Worthwhile(r) == Profitable(r.type, r.text, IdleFor(r), r.reads)
Expired(r) == r.age >= r.ttl

\* The three queries of run_decay: old and unread, past its time to live,
\* never accessed.  The second one does not ask for immunity.
Decayed(r) ==
    \/ ~r.immune /\ r.age >= DecayAge /\ Unread(r) /\ r.reads < KeepReads
    \/ Expired(r)
    \/ ~r.immune /\ r.type \in DOMAIN ZeroAccess /\ r.reads = 0
       /\ r.age >= ZeroAccess[r.type]

RunDecay ==
    /\ \E P \in Scopes : Archive({i \in ActiveIn(P) : Decayed(rows[i])})
    /\ UNCHANGED <<saver, sweep, plan>>

RunRoiGcMutant ==           \* immune rows are judged like the others
    /\ \E P \in Scopes :
          Archive({i \in ActiveIn(P) : ~Worthwhile(rows[i])})
    /\ UNCHANGED <<saver, sweep, plan>>
RunRoiGc ==
    /\ \E P \in Scopes :
          Archive({i \in ActiveIn(P) : ~rows[i].immune /\ ~Worthwhile(rows[i])})
    /\ UNCHANGED <<saver, sweep, plan>>

\* The rules run one after the other in one transaction, and none promotes
\* what another produced: the first that fits decides.
RulesFor(r) ==
    {k \in DOMAIN Rules : /\ Rules[k].from = r.type /\ r.reads >= Rules[k].reads
                          /\ ~r.archived /\ ~r.immune /\ ~Unread(r)}
FirstRule(r) == CHOOSE k \in RulesFor(r) : \A j \in RulesFor(r) : k <= j
Promoted(r) ==
    IF RulesFor(r) = {} THEN r
    ELSE LET to == Rules[FirstRule(r)].to
         IN  [r EXCEPT !.type = to, !.immune = (to = "guardrail")]

RunPromotions ==
    /\ \E P \in Scopes :
          rows' = [i \in Ids |-> IF rows[i].project \in P THEN Promoted(rows[i]) ELSE rows[i]]
    /\ UNCHANGED <<saver, sweep, plan>>

-----------------------------------------------------------------------------
(* dedup_sweep, with recompute: rows whose hash is not that of their text  *)
(* are fetched, then looked at in the order of their ids, with a commit    *)
(* every batch_size rows (one here: the tool takes it from its caller).    *)

FetchStale ==
    /\ DOMAIN sweep = {}
    /\ \E P \in Scopes :
          sweep' = [i \in {j \in ActiveIn(P) : rows[j].hash # rows[j].text} |-> rows[i].text]
    /\ UNCHANGED <<rows, saver, plan>>

\* History: what a save under way has looked up may not be so any more.
ChecksOvertaken ==
    saver' = [s \in Savers |-> IF saver[s] = Idle \/ rows' = rows THEN saver[s]
                               ELSE [saver[s] EXCEPT !.saw = 0]]

Twins(i) ==
    {j \in Active \ {i} : rows[j].hash = sweep[i] /\ rows[j].project = rows[i].project}

SweepRowMutant ==            \* twins are looked for by text
    /\ DOMAIN sweep # {}
    /\ LET i == CHOOSE i \in DOMAIN sweep : \A j \in DOMAIN sweep : i <= j
       IN  /\ rows' = IF \E j \in Ids \ {i} : rows[j].text = sweep[i]
                      THEN [rows EXCEPT ![i].archived = TRUE]
                      ELSE [rows EXCEPT ![i].hash = sweep[i]]
           /\ sweep' = [j \in DOMAIN sweep \ {i} |-> sweep[j]]
    /\ ChecksOvertaken
    /\ UNCHANGED plan
\* A row whose new hash another active row has is archived.
SweepRow ==
    /\ DOMAIN sweep # {}
    /\ LET i == CHOOSE i \in DOMAIN sweep : \A j \in DOMAIN sweep : i <= j
       IN  /\ rows' = IF Twins(i) # {} THEN [rows EXCEPT ![i].archived = TRUE]
                      ELSE [rows EXCEPT ![i].hash = sweep[i]]
           /\ sweep' = [j \in DOMAIN sweep \ {i} |-> sweep[j]]
    /\ ChecksOvertaken
    /\ UNCHANGED plan

-----------------------------------------------------------------------------
(* run_mdl_distillation: rows are loaded in one transaction, and the       *)
(* clusters found in them rewritten in another.                            *)

LoadClusters ==
    /\ plan = None /\ Room
    /\ \E C \in SUBSET {i \in Active : ~Distilled(i)} :
          /\ Cardinality(C) >= MinCluster
          /\ \A i, j \in C : /\ rows[i].project = rows[j].project
                             /\ rows[i].type = rows[j].type
          /\ plan' = C
    /\ UNCHANGED <<rows, saver, sweep>>

AbstractionRow(a) ==
    [NewRow([project |-> rows[CHOOSE i \in plan : TRUE].project,
             title |-> Abstraction(a), text |-> Abstraction(a),
             type |-> "convention", global |-> FALSE, ttl |-> Never], Abstraction(a), Len(rows))
     EXCEPT !.immune = TRUE, !.ttl = Never]

ApplyClustersMutant ==      \* the abstraction lives no longer than its members
    /\ plan # None
    /\ LET a == Len(rows) + 1
           table == Append(rows, [AbstractionRow(a) EXCEPT !.immune = FALSE])
       IN  rows' = [i \in DOMAIN table |->
                       IF i \in plan THEN [table[i] EXCEPT !.text = Delta(a)] ELSE table[i]]
    /\ plan' = None
    /\ UNCHANGED <<saver, sweep>>
\* The members keep the hash of the text they had, archived or not by now.
ApplyClusters ==
    /\ plan # None
    /\ LET a == Len(rows) + 1
           table == Append(rows, AbstractionRow(a))
       IN  rows' = [i \in DOMAIN table |->
                       IF i \in plan THEN [table[i] EXCEPT !.text = Delta(a)] ELSE table[i]]
    /\ plan' = None
    /\ UNCHANGED <<saver, sweep>>

-----------------------------------------------------------------------------
Later(n) == IF n < MaxPeriods THEN n + 1 ELSE n

\* A period goes by.
Tick ==
    /\ rows' = [i \in Ids |-> [rows[i] EXCEPT !.age = Later(@),
                                              !.idle = IF @ = Never THEN @ ELSE Later(@)]]
    /\ UNCHANGED <<saver, sweep, plan>>

Maintenance ==
    \/ RunDecay \/ RunRoiGc \/ RunPromotions
    \/ FetchStale \/ SweepRow
    \/ LoadClusters \/ ApplyClusters

Next ==
    \/ \E s \in Savers : Save(s)
    \/ \E i \in Ids : Read(i) \/ Delete(i) \/ Restore(i)
    \/ Maintenance
    \/ Tick

Spec == Init /\ [][Next]_vars

-----------------------------------------------------------------------------
(* Properties.                                                             *)

RowTexts == Texts \cup {Delta(a) : a \in 1..MaxRows} \cup {Abstraction(a) : a \in 1..MaxRows}

TypeOK ==
    /\ rows \in Seq([project : Projects, title : Titles \cup RowTexts, text : RowTexts,
                     type : Types, hash : RowTexts \cup {OldHash}, global : BOOLEAN,
                     immune : BOOLEAN, ttl : 0..Never, age : 0..MaxPeriods,
                     idle : 0..Never, reads : 0..MaxReads, archived : BOOLEAN,
                     saw : 0..MaxRows, byHand : BOOLEAN])
    /\ Len(rows) <= MaxRows
    /\ \A s \in Savers :
          saver[s] = Idle \/ saver[s] \in [step : {"global", "title", "insert"},
                                           draft : Drafts, saw : 0..Len(rows)]
    /\ DOMAIN sweep \subseteq Ids /\ \A i \in DOMAIN sweep : sweep[i] \in RowTexts
    /\ plan = None \/ plan \in SUBSET Ids

\* "Returns id, or None if duplicate detected" (observations.py:72): two active
\* rows of a project with one hash are there only because the check of the
\* second had been made before the first was inserted, or hashed by a sweep, or
\* because somebody restored one of them.
DuplicatesOverlap ==
    \A i, j \in Active :
        (i < j /\ rows[i].hash = rows[j].hash /\ rows[i].project = rows[j].project)
            => \/ rows[j].saw < i
               \/ rows[i].byHand \/ rows[j].byHand
               \/ rows[i].hash = OldHash

\* A distilled row can be read with its abstraction, unless that was deleted by
\* hand: decay, the collector, promotion and the sweep never take it away
\* first, however long nobody reads it.
DeltasResolve ==
    \A i \in Active : \A a \in Ids :
        (rows[i].text = Delta(a) /\ rows[a].archived) => rows[a].byHand

ArchivedNow(i) == i \in Active /\ rows'[i].archived

\* Another row holds the text row i had when the sweep fetched it.
HasTwin(i) ==
    /\ i \in DOMAIN sweep
    /\ \E j \in DOMAIN rows' \ {i} :
          /\ ~rows'[j].archived /\ rows'[j].project = rows[i].project
          /\ rows'[j].text = sweep[i] \/ rows'[j].text \notin Texts

\* "decay_immune observations are always kept" (roi.py:79), by every pass:
\* rows of a protected type leave only as duplicates of a row that stays, unless
\* they came with a time to live of their own.
ProtectedStay ==
    [][Maintenance => \A i \in Ids :
          (ArchivedNow(i) /\ rows[i].immune /\ rows[i].ttl = Never) => HasTwin(i)]_vars

\* dedup_sweep never archives the last row that has a text, in whatever order
\* it meets the copies (distilled rows keep theirs in the abstraction).
SweepKeepsOne ==
    [][SweepRow => \A i \in Ids : ArchivedNow(i) => HasTwin(i)]_vars
=============================================================================
