---------------------------- MODULE MemoryProofs -----------------------------
(* Duplicates and distilled rows, for any rows, processes and schedule of    *)
(* the maintenance passes.                                                   *)
EXTENDS MemoryStore, FiniteSetTheorems, SequenceTheorems, WellFoundedInduction, TLAPS

AllTexts == Texts \cup ({"delta", "abstraction"} \X Nat)
Rows == [project : Projects, title : Titles \cup AllTexts, text : AllTexts, type : Types,
         hash : AllTexts \cup {OldHash}, global : BOOLEAN, immune : BOOLEAN, ttl : Nat,
         age : 0..MaxPeriods, idle : Nat, reads : Nat, archived : BOOLEAN, saw : Nat,
         byHand : BOOLEAN]
Saving == [step : {"global", "title", "insert"}, draft : Drafts, saw : Nat]

Typed ==
    /\ rows \in Seq(Rows)
    /\ saver \in [Savers -> {Idle} \cup Saving]
    /\ DOMAIN sweep \subseteq Ids /\ \A i \in DOMAIN sweep : sweep[i] \in AllTexts
    /\ plan = None \/ (plan \subseteq Ids /\ plan # {})

\* What a pass that neither saves, hashes nor distills may do to a row.
Kept(r, s) ==
    /\ s \in Rows
    /\ s.project = r.project /\ s.text = r.text /\ s.hash = r.hash
    /\ s.saw = r.saw /\ s.ttl = r.ttl
    /\ r.immune => s.immune
    /\ r.byHand => s.byHand
    /\ r.archived /\ ~s.archived => s.byHand
    /\ ~r.archived /\ s.archived /\ r.immune /\ r.ttl = Never => s.byHand

Upkeep ==
    /\ rows' \in Seq(Rows) /\ Len(rows') = Len(rows)
    /\ \A i \in Ids : Kept(rows[i], rows'[i])
    /\ UNCHANGED <<saver, sweep, plan>>

-----------------------------------------------------------------------------
\* The rows are numbered from 1 and typed.
LEMMA RowsTyped ==
    ASSUME Typed
    PROVE  Len(rows) \in Nat /\ Ids = 1..Len(rows) /\ \A i \in Ids : rows[i] \in Rows
  BY LenProperties, ElementOfSeq DEF Typed, Ids

\* A set of numbers has a least one.
LEMMA Least ==
    ASSUME NEW T, T \subseteq Nat, T # {}
    PROVE  \E x \in T : \A y \in T : x <= y
  <1> DEFINE R == OpToRel(<, Nat)
  <1>1. \E x \in T : \A y \in T : <<y, x>> \notin R
    <2>1. IsWellFoundedOn(R, Nat)
      BY NatLessThanWellFounded
    <2> HIDE DEF R
    <2> QED BY <2>1, WFMin
  <1>2. \A x, y \in Nat : y < x => <<y, x>> \in R
    BY DEF OpToRel
  <1> HIDE DEF R
  <1>3. PICK x \in T : \A y \in T : <<y, x>> \notin R
    BY <1>1
  <1>4. ASSUME NEW y \in T PROVE x <= y
    <2>1. x \in Nat /\ y \in Nat /\ ~(y < x)
      BY <1>2, <1>3
    <2> QED BY <2>1
  <1> QED BY <1>4

\* A table rewritten row by row.
LEMMA RowByRow ==
    ASSUME Typed, UNCHANGED <<saver, sweep, plan>>,
           rows' = [i \in Ids |-> rows'[i]], \A i \in Ids : Kept(rows[i], rows'[i])
    PROVE  Upkeep
  <1>1. Len(rows) \in Nat /\ Ids = 1..Len(rows)
    BY RowsTyped
  <1>2. rows' \in [1..Len(rows) -> Rows]
    BY <1>1 DEF Kept
  <1>3. rows' \in Seq(Rows)
    BY <1>1, <1>2, SeqDef
  <1>4. Len(rows') = Len(rows)
    BY <1>1, <1>2, <1>3
  <1> QED BY <1>3, <1>4 DEF Upkeep

\* One row rewritten.
LEMMA OneRow ==
    ASSUME Typed, UNCHANGED <<saver, sweep, plan>>, NEW k \in Ids, NEW s,
           rows' = [rows EXCEPT ![k] = s], Kept(rows[k], s)
    PROVE  Upkeep
  <1>1. \A i \in Ids : rows[i] \in Rows
    BY RowsTyped
  <1>2. \A i \in Ids : Kept(rows[i], rows[i])
    BY <1>1 DEF Kept
  <1>3. rows' = [i \in Ids |-> rows'[i]]
    BY DEF Ids
  <1>4. \A i \in Ids : rows'[i] = IF i = k THEN s ELSE rows[i]
    BY DEF Ids
  <1> QED BY <1>2, <1>3, <1>4, RowByRow

\* A hit, and its fields.
LEMMA BumpKeeps ==
    ASSUME NEW r \in Rows
    PROVE  Kept(r, Bumped(r)) /\ Bumped(r).archived = r.archived
  <1> DEFINE n == IF r.reads < MaxReads THEN r.reads + 1 ELSE r.reads
  <1>1. Bumped(r) = [r EXCEPT !.reads = n, !.idle = 0]
    BY DEF Bumped
  <1>2. n \in Nat
    BY DEF Rows
  <1> HIDE DEF n
  <1>3. [r EXCEPT !.reads = n, !.idle = 0] \in Rows
    BY <1>2 DEF Rows
  <1>4. /\ Bumped(r).project = r.project /\ Bumped(r).text = r.text /\ Bumped(r).hash = r.hash
        /\ Bumped(r).saw = r.saw /\ Bumped(r).ttl = r.ttl /\ Bumped(r).immune = r.immune
        /\ Bumped(r).byHand = r.byHand /\ Bumped(r).archived = r.archived
    BY <1>1 DEF Rows
  <1> QED BY <1>1, <1>3, <1>4 DEF Kept

\* A row archived because it is not immune, or because its time is up.
LEMMA ArchiveKeeps ==
    ASSUME Typed, NEW S, Archive(S), UNCHANGED <<saver, sweep, plan>>,
           \A i \in S : i \in Active /\ (rows[i].immune => rows[i].ttl # Never)
    PROVE  Upkeep
  <1>1. \A i \in Ids : rows[i] \in Rows
    BY RowsTyped
  <1>2. rows' = [i \in Ids |-> rows'[i]]
    BY DEF Archive
  <1>3. ASSUME NEW i \in Ids PROVE Kept(rows[i], rows'[i])
    <2>1. CASE i \in S
      <3>1. rows'[i] = [rows[i] EXCEPT !.archived = TRUE]
        BY <2>1 DEF Archive
      <3> QED BY <1>1, <2>1, <3>1 DEF Kept, Rows
    <2>2. CASE i \notin S
      BY <1>1, <2>2 DEF Kept, Archive
    <2> QED BY <2>1, <2>2
  <1> QED BY <1>2, <1>3, RowByRow

\* Reading, deleting, restoring, decay, the collector, promotions and time.
LEMMA UpkeepSteps ==
    ASSUME Typed,
           \/ \E i \in Ids : Read(i) \/ Delete(i) \/ Restore(i)
           \/ RunDecay \/ RunRoiGc \/ RunPromotions \/ Tick
    PROVE  Upkeep
  <1> \A i \in Ids : rows[i] \in Rows
    BY RowsTyped
  <1>1. ASSUME NEW i \in Ids, Read(i) PROVE Upkeep
    BY <1>1, BumpKeeps, OneRow DEF Read
  <1>2. ASSUME NEW i \in Ids, Delete(i) PROVE Upkeep
    <2> DEFINE s == [Bumped(rows[i]) EXCEPT !.archived = TRUE, !.byHand = TRUE]
    <2>1. Kept(rows[i], Bumped(rows[i]))
      BY BumpKeeps
    <2>2. Kept(rows[i], s)
      BY <2>1 DEF Kept, Rows
    <2>3. rows' = [rows EXCEPT ![i] = s] /\ UNCHANGED <<saver, sweep, plan>>
      BY <1>2 DEF Delete
    <2> QED BY <2>2, <2>3, OneRow
  <1>3. ASSUME NEW i \in Ids, Restore(i) PROVE Upkeep
    <2> DEFINE s == [rows[i] EXCEPT !.archived = FALSE, !.byHand = TRUE]
    <2>1. Kept(rows[i], s)
      BY DEF Kept, Rows
    <2>2. rows' = [rows EXCEPT ![i] = s] /\ UNCHANGED <<saver, sweep, plan>>
      BY <1>3 DEF Restore
    <2> QED BY <2>1, <2>2, OneRow
  <1>4. CASE RunDecay
    <2>1. PICK P \in Scopes : Archive({i \in ActiveIn(P) : Decayed(rows[i])})
      BY <1>4 DEF RunDecay
    <2>2. ASSUME NEW i \in ActiveIn(P), Decayed(rows[i]), rows[i].immune
          PROVE  rows[i].ttl # Never
      <3>1. rows[i].age \in 0..MaxPeriods /\ rows[i].age >= rows[i].ttl
        BY <2>2 DEF Decayed, Expired, ActiveIn, Active, Rows
      <3> QED BY <3>1, MemoryAssumption DEF Never
    <2> QED BY <1>4, <2>1, <2>2, ArchiveKeeps DEF RunDecay, ActiveIn
  <1>5. CASE RunRoiGc
    <2>1. PICK P \in Scopes : Archive({i \in ActiveIn(P) : ~rows[i].immune /\ ~Worthwhile(rows[i])})
      BY <1>5 DEF RunRoiGc
    <2> QED BY <1>5, <2>1, ArchiveKeeps DEF RunRoiGc, ActiveIn
  <1>6. CASE RunPromotions
    <2>1. PICK P \in Scopes :
            rows' = [i \in Ids |-> IF rows[i].project \in P THEN Promoted(rows[i]) ELSE rows[i]]
      BY <1>6 DEF RunPromotions
    <2>2. ASSUME NEW r \in Rows PROVE Kept(r, Promoted(r))
      <3>1. CASE RulesFor(r) = {}
        BY <3>1 DEF Promoted, Kept
      <3>2. CASE RulesFor(r) # {}
        <4>1. FirstRule(r) \in DOMAIN Rules
          <5>1. RulesFor(r) \subseteq Nat
            BY MemoryAssumption DEF RulesFor
          <5> QED BY <3>2, <5>1, Least DEF FirstRule, RulesFor
        <4>2. ~r.immune
          BY <3>2 DEF RulesFor
        <4>3. Promoted(r) = [r EXCEPT !.type = Rules[FirstRule(r)].to,
                                      !.immune = (Rules[FirstRule(r)].to = "guardrail")]
          BY <3>2 DEF Promoted
        <4> QED BY <4>1, <4>2, <4>3, MemoryAssumption DEF Kept, Rows
      <3> QED BY <3>1, <3>2
    <2> QED BY <1>6, <2>1, <2>2, RowByRow DEF RunPromotions, Kept
  <1>7. CASE Tick
    <2>1. rows' = [i \in Ids |-> [rows[i] EXCEPT !.age = Later(@),
                                      !.idle = IF @ = Never THEN @ ELSE Later(@)]]
      BY <1>7 DEF Tick
    <2>2. ASSUME NEW r \in Rows
          PROVE  Kept(r, [r EXCEPT !.age = Later(@), !.idle = IF @ = Never THEN @ ELSE Later(@)])
      <3>1. Later(r.age) \in 0..MaxPeriods /\ Later(r.idle) \in Nat
        BY MemoryAssumption DEF Rows, Later
      <3> QED BY <3>1 DEF Kept, Rows
    <2> QED BY <1>7, <2>1, <2>2, RowByRow, ZenonT(30) DEF Tick
  <1> QED BY <1>1, <1>2, <1>3, <1>4, <1>5, <1>6, <1>7

-----------------------------------------------------------------------------
(* The inductive invariant.                                                *)

\* Texts and hashes name distilled rows that exist.
Named == Texts \cup ({"delta", "abstraction"} \X Ids)
NamesExist ==
    /\ \A i \in Ids : rows[i].text \in Named /\ rows[i].hash \in Named \cup {OldHash}
    /\ \A i \in DOMAIN sweep : sweep[i] \in Named

\* A hash is that of the text the row has, or had before it was distilled; and
\* so is what the sweep fetched.
HashesName ==
    /\ \A i \in Ids : rows[i].text \in Texts => rows[i].hash \in {rows[i].text, OldHash}
    /\ \A i \in DOMAIN sweep : rows[i].text \in Texts => sweep[i] = rows[i].text
    /\ plan # None => \A i \in plan : rows[i].text \in Texts

\* The abstraction of a distilled row is out of reach of every pass.
Anchor(a) ==
    /\ rows[a].text = Abstraction(a) /\ rows[a].hash = Abstraction(a)
    /\ rows[a].immune /\ rows[a].ttl = Never
    /\ a \notin DOMAIN sweep
    /\ rows[a].archived => rows[a].byHand
Anchored == \A i \in Ids : \A a \in Nat : rows[i].text = Delta(a) => a \in Ids /\ Anchor(a)

\* A save under way: no active row that was there when its hash was looked up
\* has it, unless restored by hand.
LookedUp ==
    \A s \in Savers : saver[s] # Idle =>
        /\ saver[s].saw <= Len(rows)
        /\ \A i \in Active :
            (i <= saver[s].saw /\ rows[i].hash = saver[s].draft.text
                 /\ rows[i].project = saver[s].draft.project)
            => rows[i].byHand

MemoryInv == Typed /\ NamesExist /\ HashesName /\ Anchored /\ LookedUp /\ DuplicatesOverlap

\* Distilled texts are not texts, nor one another.
LEMMA TextKinds ==
    /\ \A a \in Nat : Delta(a) \notin Texts /\ Abstraction(a) \notin Texts
    /\ \A a, b \in Nat : Delta(a) = Delta(b) => a = b
    /\ \A a, b \in Nat : Abstraction(a) = Abstraction(b) => a = b
    /\ \A a, b \in Nat : Delta(a) # Abstraction(b) /\ Delta(a) # OldHash /\ Abstraction(a) # OldHash
    /\ OldHash \notin AllTexts
  BY TextAssumption DEF Delta, Abstraction, OldHash, AllTexts

\* Upkeep keeps the invariant.
LEMMA UpkeepKeeps ==
    ASSUME MemoryInv, Upkeep
    PROVE  MemoryInv'
  <1> USE DEF MemoryInv
  <1>1. Ids' = Ids /\ Len(rows') = Len(rows) /\ Ids = 1..Len(rows)
    BY RowsTyped, LenProperties DEF Upkeep, Ids
  <1>2. Typed'
    BY <1>1 DEF Typed, Upkeep
  <1>3. \A i \in Ids : /\ rows'[i].text = rows[i].text /\ rows'[i].hash = rows[i].hash
                       /\ rows'[i].project = rows[i].project
    BY DEF Upkeep, Kept
  <1>4. UNCHANGED <<saver, sweep, plan>>
    BY DEF Upkeep
  <1>5. NamesExist'
    BY <1>1, <1>3, <1>4 DEF NamesExist, Named
  <1>6. HashesName'
    <2>1. DOMAIN sweep \subseteq Ids /\ (plan # None => plan \subseteq Ids)
      BY DEF Typed
    <2> QED BY <1>1, <1>3, <1>4, <2>1 DEF HashesName
  <1>7. Anchored'
    <2> SUFFICES ASSUME NEW i \in Ids, NEW a \in Nat, rows'[i].text = Delta(a)
                 PROVE  a \in Ids' /\ Anchor(a)'
      BY <1>1 DEF Anchored
    <2>1. a \in Ids /\ Anchor(a)
      BY <1>3 DEF Anchored
    <2>2. Kept(rows[a], rows'[a]) /\ rows[a] \in Rows
      BY <2>1, RowsTyped DEF Upkeep
    <2> QED BY <1>1, <1>4, <2>1, <2>2 DEF Anchor, Kept, Rows
  <1>8. \A i \in Active' : i \in Ids /\ (i \in Active \/ rows'[i].byHand)
    BY <1>1, RowsTyped DEF Active, Upkeep, Kept, Rows
  <1>9. \A i \in Ids : rows[i].byHand => rows'[i].byHand
    BY DEF Upkeep, Kept
  <1>10. LookedUp'
    BY <1>1, <1>3, <1>4, <1>8, <1>9 DEF LookedUp
  <1>11. \A i \in Ids : rows'[i].saw = rows[i].saw
    BY DEF Upkeep, Kept
  <1>12. DuplicatesOverlap'
    BY <1>1, <1>3, <1>8, <1>9, <1>11 DEF DuplicatesOverlap
  <1> QED BY <1>2, <1>5, <1>6, <1>7, <1>10, <1>12

\* A row added at the end.
LEMMA Appended ==
    ASSUME Typed, NEW r \in Rows
    PROVE  LET table == Append(rows, r)
           IN  /\ table \in Seq(Rows) /\ Len(table) = Len(rows) + 1
               /\ DOMAIN table = Ids \cup {Len(rows) + 1} /\ Len(rows) + 1 \notin Ids
               /\ \A i \in Ids : table[i] = rows[i]
               /\ table[Len(rows) + 1] = r
  <1>1. rows \in Seq(Rows) /\ Len(rows) \in Nat /\ Ids = 1..Len(rows)
    BY RowsTyped DEF Typed
  <1>2. Append(rows, r) \in Seq(Rows) /\ Len(Append(rows, r)) = Len(rows) + 1
    BY <1>1
  <1>3. DOMAIN Append(rows, r) = 1..(Len(rows) + 1)
    BY <1>2, LenProperties
  <1> QED BY <1>1, <1>2, <1>3

\* The checks of a save.
LEMMA ChecksKeep ==
    ASSUME MemoryInv, NEW s \in Savers, CheckHash(s) \/ CheckGlobal(s) \/ CheckTitle(s)
    PROVE  MemoryInv'
  <1> USE DEF MemoryInv
  <1>1. UNCHANGED <<rows, sweep, plan>> /\ Len(rows) \in Nat
    BY RowsTyped DEF CheckHash, CheckGlobal, CheckTitle
  <1>2. NamesExist' /\ HashesName' /\ Anchored' /\ DuplicatesOverlap'
    BY <1>1 DEF NamesExist, HashesName, Anchored, DuplicatesOverlap, Named, Anchor, Ids, Active
  <1>3. CASE CheckHash(s)
    <2>1. PICK d \in Drafts :
             /\ \A i \in Active : ~(rows[i].hash = d.text /\ rows[i].project = d.project)
             /\ saver' = [saver EXCEPT ![s] = [step |-> IF d.global THEN "global" ELSE "title",
                                               draft |-> d, saw |-> Len(rows)]]
      BY <1>3 DEF CheckHash
    <2> DEFINE e == [step |-> IF d.global THEN "global" ELSE "title", draft |-> d, saw |-> Len(rows)]
    <2>2. e \in Saving
      BY <1>1 DEF Saving
    <2>3. saver' \in [Savers -> {Idle} \cup Saving] /\ saver'[s] = e
          /\ \A t \in Savers \ {s} : saver'[t] = saver[t]
      BY <2>1, <2>2 DEF Typed
    <2>4. Typed'
      BY <1>1, <2>3 DEF Typed, Ids
    <2>5. LookedUp'
      BY <1>1, <2>1, <2>3 DEF LookedUp, Active, Ids
    <2> QED BY <1>2, <2>4, <2>5
  <1>4. CASE CheckGlobal(s) \/ CheckTitle(s)
    <2>1. saver[s] # Idle
      BY <1>4 DEF CheckGlobal, CheckTitle, Idle
    <2>2. saver[s] \in Saving
      BY <2>1 DEF Typed
    <2>3. \/ saver' = [saver EXCEPT ![s] = Idle]
          \/ \E step \in {"title", "insert"} : saver' = [saver EXCEPT ![s] = [saver[s] EXCEPT !.step = step]]
      BY <1>4 DEF CheckGlobal, CheckTitle, Refuse, GoOn
    <2>4. \A step \in {"title", "insert"} :
             LET e == [saver[s] EXCEPT !.step = step]
             IN  e \in Saving /\ e.draft = saver[s].draft /\ e.saw = saver[s].saw
      BY <2>2 DEF Saving
    <2>5. saver' \in [Savers -> {Idle} \cup Saving]
      BY <2>3, <2>4 DEF Typed
    <2>6. \A t \in Savers : saver'[t] # Idle =>
             saver[t] # Idle /\ saver'[t].draft = saver[t].draft /\ saver'[t].saw = saver[t].saw
      BY <2>1, <2>3, <2>4 DEF Typed
    <2>7. Typed'
      BY <1>1, <2>5 DEF Typed, Ids
    <2>8. LookedUp'
      BY <1>1, <2>6 DEF LookedUp, Active, Ids
    <2> QED BY <1>2, <2>7, <2>8
  <1> QED BY <1>3, <1>4

\* What a draft becomes.
LEMMA NewRowFacts ==
    ASSUME NEW d, d.project \in Projects, d.title \in Titles \cup AllTexts, d.text \in AllTexts,
           d.type \in Types, d.global \in BOOLEAN, d.ttl \in Nat,
           NEW h \in AllTexts \cup {OldHash}, NEW n \in Nat
    PROVE  LET r == NewRow(d, h, n)
           IN  /\ r \in Rows
               /\ r.project = d.project /\ r.text = d.text /\ r.hash = h /\ r.saw = n
               /\ ~r.archived /\ ~r.byHand
  <1> DEFINE l == IF d.ttl = Never /\ d.type \in DOMAIN Ttl \ ImmuneTypes THEN Ttl[d.type] ELSE d.ttl
  <1>1. l \in Nat /\ Never \in Nat /\ 0 \in 0..MaxPeriods
    BY MemoryAssumption DEF Never
  <1>2. NewRow(d, h, n) =
          [project |-> d.project, title |-> d.title, text |-> d.text, type |-> d.type,
           hash |-> h, global |-> d.global, immune |-> d.type \in ImmuneTypes, ttl |-> l,
           age |-> 0, idle |-> Never, reads |-> 0, archived |-> FALSE, saw |-> n, byHand |-> FALSE]
    BY DEF NewRow
  <1> HIDE DEF l
  <1> QED BY <1>1, <1>2 DEF Rows

\* The insertion.
LEMMA InsertKeeps ==
    ASSUME MemoryInv, NEW s \in Savers, Insert(s)
    PROVE  MemoryInv'
  <1> USE DEF MemoryInv
  <1> DEFINE d == saver[s].draft
             j == Len(rows) + 1
             r == NewRow(d, d.text, saver[s].saw)
  <1>1. saver[s] # Idle /\ saver[s] \in Saving
    BY DEF Insert, Idle, Typed
  <1>2. d \in Draft /\ saver[s].saw \in Nat
    BY <1>1, MemoryAssumption DEF Saving
  <1>3. /\ r \in Rows /\ r.project = d.project /\ r.text = d.text /\ r.hash = d.text
        /\ r.saw = saver[s].saw /\ ~r.archived /\ ~r.byHand
    BY <1>2, NewRowFacts, MemoryAssumption DEF Draft, AllTexts, Never
  <1>4. /\ rows' = Append(rows, r) /\ saver' = [saver EXCEPT ![s] = Idle] /\ UNCHANGED <<sweep, plan>>
    BY DEF Insert, Refuse
  <1>5. d.text \in Texts
    BY <1>2 DEF Draft
  <1> HIDE DEF r
  <1>6. /\ rows' \in Seq(Rows) /\ Len(rows') = Len(rows) + 1
        /\ Ids' = Ids \cup {j} /\ j \notin Ids
        /\ \A i \in Ids : rows'[i] = rows[i]
        /\ rows'[j] = r
    BY <1>3, <1>4, Appended DEF Ids
  <1>7. Len(rows) \in Nat /\ Ids = 1..Len(rows)
    BY RowsTyped
  <1>8. Typed'
    BY <1>4, <1>6 DEF Typed
  <1>9. NamesExist'
    <2>1. Named \subseteq Named' /\ d.text \in Named'
      BY <1>5, <1>6 DEF Named
    <2> QED BY <1>3, <1>4, <1>6, <2>1 DEF NamesExist
  <1>10. HashesName'
    BY <1>3, <1>4, <1>5, <1>6, ZenonT(30) DEF HashesName, Typed
  <1>11. Anchored'
    <2>1. \A a \in Nat : rows'[j].text # Delta(a)
      BY <1>3, <1>5, <1>6, TextKinds
    <2>2. \A a \in Ids : Anchor(a) => Anchor(a)'
      BY <1>4, <1>6 DEF Anchor
    <2> QED BY <1>6, <2>1, <2>2 DEF Anchored
  <1>12. Active' = Active \cup {j}
    BY <1>3, <1>6 DEF Active
  <1>13. LookedUp'
    <2> SUFFICES ASSUME NEW t \in Savers, saver'[t] # Idle, NEW i \in Active', i <= saver'[t].saw,
                        rows'[i].hash = saver'[t].draft.text, rows'[i].project = saver'[t].draft.project
                 PROVE  rows'[i].byHand
      <3>1. \A t \in Savers : saver'[t] # Idle => saver'[t].saw <= Len(rows')
        BY <1>4, <1>6, <1>7 DEF LookedUp, Typed, Saving
      <3> QED BY <3>1 DEF LookedUp
    <2>1. t # s /\ saver'[t] = saver[t] /\ saver[t] \in Saving
      BY <1>4 DEF Typed
    <2>2. CASE i \in Active
      BY <1>6, <2>1, <2>2 DEF LookedUp, Active
    <2>3. CASE i = j
      BY <1>7, <2>1, <2>3 DEF LookedUp, Saving
    <2> QED BY <1>12, <2>2, <2>3
  <1>14. DuplicatesOverlap'
    <2> SUFFICES ASSUME NEW i \in Active', NEW k \in Active', i < k,
                        rows'[i].hash = rows'[k].hash, rows'[i].project = rows'[k].project
                 PROVE  rows'[k].saw < i \/ rows'[i].byHand \/ rows'[k].byHand \/ rows'[i].hash = OldHash
      BY DEF DuplicatesOverlap
    <2>1. i \in Active /\ i \in Ids
      BY <1>6, <1>7, <1>12 DEF Active
    <2>2. CASE k \in Active
      BY <1>6, <2>1, <2>2 DEF DuplicatesOverlap, Active
    <2>3. CASE k = j
      BY <1>1, <1>2, <1>3, <1>6, <1>7, <2>1, <2>3 DEF LookedUp
    <2> QED BY <1>12, <2>2, <2>3
  <1> QED BY <1>8, <1>9, <1>10, <1>11, <1>13, <1>14

\* The sweep fetches rows whose hash is not that of their text.
LEMMA FetchKeeps ==
    ASSUME MemoryInv, FetchStale
    PROVE  MemoryInv'
  <1> USE DEF MemoryInv
  <1>1. PICK P \in Scopes :
          sweep' = [i \in {j \in ActiveIn(P) : rows[j].hash # rows[j].text} |-> rows[i].text]
    BY DEF FetchStale
  <1>2. UNCHANGED <<rows, saver, plan>>
    BY DEF FetchStale
  <1>3. /\ DOMAIN sweep' \subseteq Ids
        /\ \A i \in DOMAIN sweep' : sweep'[i] = rows[i].text /\ rows[i].hash # rows[i].text
    BY <1>1 DEF ActiveIn, Active
  <1>4. Typed'
    <2>1. \A i \in Ids : rows[i].text \in AllTexts
      BY RowsTyped DEF Rows
    <2> QED BY <1>2, <1>3, <2>1 DEF Typed, Ids
  <1>5. NamesExist' /\ HashesName'
    BY <1>2, <1>3 DEF NamesExist, HashesName, Named, Ids
  <1>6. Anchored'
    BY <1>2, <1>3 DEF Anchored, Anchor, Ids
  <1>7. LookedUp' /\ DuplicatesOverlap'
    BY <1>2 DEF LookedUp, DuplicatesOverlap, Active, Ids
  <1> QED BY <1>4, <1>5, <1>6, <1>7

\* The sweep archives a row, or gives it the hash of the text it fetched.
LEMMA SweepFacts ==
    ASSUME MemoryInv, SweepRow
    PROVE  \E i \in DOMAIN sweep :
              /\ i \in Ids
              /\ rows' = [rows EXCEPT ![i] = rows'[i]]
              /\ \/ Twins(i) # {} /\ rows'[i] = [rows[i] EXCEPT !.archived = TRUE]
                 \/ Twins(i) = {} /\ rows'[i] = [rows[i] EXCEPT !.hash = sweep[i]]
              /\ sweep' = [j \in DOMAIN sweep \ {i} |-> sweep[j]]
              /\ ChecksOvertaken /\ UNCHANGED plan
  <1> DEFINE i == CHOOSE k \in DOMAIN sweep : \A j \in DOMAIN sweep : k <= j
  <1>1. DOMAIN sweep \subseteq Ids /\ DOMAIN sweep \subseteq Nat /\ DOMAIN sweep # {}
    BY RowsTyped DEF SweepRow, MemoryInv, Typed
  <1>2. i \in DOMAIN sweep
    BY <1>1, Least
  <1>3. /\ rows' = IF Twins(i) # {} THEN [rows EXCEPT ![i].archived = TRUE]
                   ELSE [rows EXCEPT ![i].hash = sweep[i]]
        /\ sweep' = [j \in DOMAIN sweep \ {i} |-> sweep[j]]
        /\ ChecksOvertaken /\ UNCHANGED plan
    BY DEF SweepRow
  <1> HIDE DEF i
  <1>4. CASE Twins(i) # {}
    <2>1. rows'[i] = [rows[i] EXCEPT !.archived = TRUE] /\ rows' = [rows EXCEPT ![i] = rows'[i]]
      BY <1>1, <1>2, <1>3, <1>4 DEF Ids
    <2> QED BY <1>1, <1>2, <1>3, <1>4, <2>1
  <1>5. CASE Twins(i) = {}
    <2>1. rows'[i] = [rows[i] EXCEPT !.hash = sweep[i]] /\ rows' = [rows EXCEPT ![i] = rows'[i]]
      BY <1>1, <1>2, <1>3, <1>5 DEF Ids
    <2> QED BY <1>1, <1>2, <1>3, <1>5, <2>1
  <1> QED BY <1>4, <1>5

LEMMA SweepKeeps ==
    ASSUME MemoryInv, SweepRow
    PROVE  MemoryInv'
  <1> USE DEF MemoryInv
  <1>1. PICK i \in DOMAIN sweep :
              /\ i \in Ids
              /\ rows' = [rows EXCEPT ![i] = rows'[i]]
              /\ \/ Twins(i) # {} /\ rows'[i] = [rows[i] EXCEPT !.archived = TRUE]
                 \/ Twins(i) = {} /\ rows'[i] = [rows[i] EXCEPT !.hash = sweep[i]]
              /\ sweep' = [j \in DOMAIN sweep \ {i} |-> sweep[j]]
              /\ ChecksOvertaken /\ UNCHANGED plan
    BY SweepFacts
  <1>2. Len(rows) \in Nat /\ Ids = 1..Len(rows) /\ \A k \in Ids : rows[k] \in Rows
    BY RowsTyped
  <1>3. sweep[i] \in AllTexts
    BY DEF Typed
  <1>4. /\ rows'[i] \in Rows
        /\ rows'[i].text = rows[i].text /\ rows'[i].project = rows[i].project
        /\ rows'[i].saw = rows[i].saw /\ rows'[i].byHand = rows[i].byHand
        /\ \/ Twins(i) # {} /\ rows'[i].archived /\ rows'[i].hash = rows[i].hash
           \/ Twins(i) = {} /\ rows'[i].archived = rows[i].archived /\ rows'[i].hash = sweep[i]
    BY <1>1, <1>2, <1>3 DEF Rows
  <1>5. \A k \in Ids \ {i} : rows'[k] = rows[k]
    BY <1>1 DEF Ids
  <1>6. rows' \in Seq(Rows) /\ Len(rows') = Len(rows) /\ Ids' = Ids
    <2>1. rows \in Seq(Rows) /\ i \in 1..Len(rows)
      BY <1>1, <1>2 DEF Typed
    <2>2. [rows EXCEPT ![i] = rows'[i]] \in Seq(Rows)
          /\ Len([rows EXCEPT ![i] = rows'[i]]) = Len(rows)
      BY <1>4, <2>1, ExceptSeq
    <2>3. rows' \in Seq(Rows) /\ Len(rows') = Len(rows)
      BY <1>1, <2>2
    <2> QED BY <1>2, <2>3, LenProperties DEF Ids
  <1>7. DOMAIN sweep' = DOMAIN sweep \ {i} /\ \A k \in DOMAIN sweep' : sweep'[k] = sweep[k]
    BY <1>1
  <1>8. \A s \in Savers : saver'[s] = IF saver[s] = Idle \/ rows' = rows THEN saver[s]
                                      ELSE [saver[s] EXCEPT !.saw = 0]
    BY <1>1 DEF ChecksOvertaken
  <1>9. Typed'
    <2>1. ASSUME NEW s \in Savers PROVE saver'[s] \in {Idle} \cup Saving
      <3>1. saver[s] \in {Idle} \cup Saving
        BY DEF Typed
      <3>2. saver[s] \in Saving => [saver[s] EXCEPT !.saw = 0] \in Saving
        BY DEF Saving
      <3> QED BY <1>8, <3>1, <3>2
    <2>2. saver' \in [Savers -> {Idle} \cup Saving]
      BY <1>1, <2>1 DEF ChecksOvertaken
    <2> QED BY <1>1, <1>6, <1>7, <2>2 DEF Typed
  <1>10. NamesExist'
    BY <1>1, <1>4, <1>5, <1>6, <1>7 DEF NamesExist, Named
  <1>11. HashesName'
    BY <1>1, <1>4, <1>5, <1>6, <1>7, SMTT(30) DEF HashesName, Typed
  <1>12. Anchored'
    <2> SUFFICES ASSUME NEW k \in Ids, NEW a \in Nat, rows'[k].text = Delta(a)
                 PROVE  a \in Ids' /\ Anchor(a)'
      BY <1>6 DEF Anchored
    <2>1. a \in Ids /\ Anchor(a)
      BY <1>4, <1>5 DEF Anchored
    <2>2. a # i
      BY <2>1 DEF Anchor
    <2> QED BY <1>5, <1>6, <1>7, <2>1, <2>2 DEF Anchor
  <1>13. LookedUp'
    <2>1. CASE rows' = rows
      <3>1. \A s \in Savers : saver'[s] = saver[s]
        BY <1>8, <2>1
      <3> QED BY <2>1, <3>1 DEF LookedUp, Active, Ids
    <2>2. CASE rows' # rows
      <3>1. \A s \in Savers : saver'[s] # Idle => saver'[s].saw = 0
        BY <1>8, <2>2 DEF Typed, Saving
      <3>2. \A k \in Active' : ~(k <= 0)
        BY <1>2, <1>6 DEF Active
      <3> QED BY <1>2, <1>6, <3>1, <3>2 DEF LookedUp
    <2> QED BY <2>1, <2>2
  <1>14. DuplicatesOverlap'
    <2>1. \A k \in Active' : k \in Active
      BY <1>2, <1>4, <1>5, <1>6 DEF Active, Rows
    <2> SUFFICES ASSUME NEW k \in Active', NEW l \in Active', k < l,
                        rows'[k].hash = rows'[l].hash, rows'[k].project = rows'[l].project
                 PROVE  rows'[l].saw < k \/ rows'[k].byHand \/ rows'[l].byHand \/ rows'[k].hash = OldHash
      BY DEF DuplicatesOverlap
    <2>2. k \in Active /\ l \in Active /\ k # l /\ k \in Ids /\ l \in Ids
      BY <1>2, <2>1 DEF Active
    <2>3. CASE k # i /\ l # i
      BY <1>5, <2>2, <2>3 DEF DuplicatesOverlap
    <2>4. CASE k = i \/ l = i
      <3>1. ~rows'[i].archived
        BY <1>6, <2>4 DEF Active
      <3>2. Twins(i) = {} /\ rows'[i].hash = sweep[i]
        BY <1>4, <3>1
      <3> QED BY <1>4, <1>5, <2>2, <2>4, <3>2 DEF Twins
    <2> QED BY <2>3, <2>4
  <1> QED BY <1>9, <1>10, <1>11, <1>12, <1>13, <1>14

\* The distiller picks rows that were not distilled.
LEMMA LoadKeeps ==
    ASSUME MemoryInv, LoadClusters
    PROVE  MemoryInv'
  <1> USE DEF MemoryInv
  <1>1. PICK C \in SUBSET {i \in Active : ~Distilled(i)} :
           Cardinality(C) >= MinCluster /\ plan' = C
    BY DEF LoadClusters
  <1>2. UNCHANGED <<rows, saver, sweep>>
    BY DEF LoadClusters
  <1>3. C # {}
    <2>1. SUFFICES ASSUME C = {} PROVE FALSE
      OBVIOUS
    <2>2. Cardinality(C) = 0
      BY <2>1, FS_EmptySet
    <2>3. MinCluster \in Nat \ {0}
      BY MemoryAssumption
    <2> QED BY <1>1, <2>2, <2>3
  <1>4. plan' \subseteq Ids /\ \A i \in plan' : rows[i].text \in Texts
    BY <1>1 DEF Active, Distilled
  <1>5. Typed'
    BY <1>1, <1>2, <1>3, <1>4 DEF Typed, Ids
  <1>6. HashesName'
    BY <1>2, <1>4 DEF HashesName, Ids
  <1> QED BY <1>2, <1>5, <1>6
          DEF NamesExist, Named, Anchored, Anchor, LookedUp, DuplicatesOverlap, Active, Ids

\* What applying a cluster does: row a is its abstraction, the members its
\* deltas, the rest as it was.
Merged(a) ==
    /\ a = Len(rows) + 1 /\ a \in Nat /\ a \notin Ids /\ Ids' = Ids \cup {a} /\ Len(rows') = a
    /\ Ids = 1..Len(rows) /\ Len(rows) \in Nat
    /\ plan # None /\ plan \subseteq Ids /\ plan' = None /\ UNCHANGED <<saver, sweep>>
    /\ \A i \in plan : rows'[i].text = Delta(a)
    /\ \A i \in Ids \ plan : rows'[i].text = rows[i].text
    /\ \A i \in Ids :
          /\ rows'[i].hash = rows[i].hash /\ rows'[i].project = rows[i].project
          /\ rows'[i].archived = rows[i].archived /\ rows'[i].saw = rows[i].saw
          /\ rows'[i].byHand = rows[i].byHand
          /\ rows'[i].immune = rows[i].immune /\ rows'[i].ttl = rows[i].ttl
    /\ rows'[a].text = Abstraction(a) /\ rows'[a].hash = Abstraction(a)
    /\ rows'[a].saw = Len(rows) /\ rows'[a].immune /\ rows'[a].ttl = Never /\ ~rows'[a].archived

\* The abstraction is a row.
LEMMA AbstractionFacts ==
    ASSUME Typed, plan \subseteq Ids, plan # {}, NEW a, a = Len(rows) + 1
    PROVE  LET r == AbstractionRow(a)
           IN  /\ r \in Rows /\ r.text = Abstraction(a) /\ r.hash = Abstraction(a)
               /\ r.saw = Len(rows) /\ r.immune /\ r.ttl = Never /\ ~r.archived
  <1> DEFINE d == [project |-> rows[CHOOSE i \in plan : TRUE].project,
                   title |-> Abstraction(a), text |-> Abstraction(a),
                   type |-> "convention", global |-> FALSE, ttl |-> Never]
             n == NewRow(d, Abstraction(a), Len(rows))
             r == AbstractionRow(a)
  <1>1. Len(rows) \in Nat /\ \A i \in Ids : rows[i] \in Rows
    BY RowsTyped
  <1>2. Abstraction(a) \in AllTexts
    BY <1>1 DEF Abstraction, AllTexts
  <1>3. rows[CHOOSE i \in plan : TRUE].project \in Projects
    BY <1>1 DEF Rows
  <1>4. /\ d.project \in Projects /\ d.title \in Titles \cup AllTexts /\ d.text \in AllTexts
        /\ d.type \in Types /\ d.global \in BOOLEAN /\ d.text = Abstraction(a) /\ d.ttl \in Nat
    BY <1>2, <1>3, MemoryAssumption DEF Never
  <1> HIDE DEF d
  <1>5. n \in Rows /\ n.text = Abstraction(a) /\ n.hash = Abstraction(a) /\ n.saw = Len(rows)
        /\ ~n.archived
    BY <1>1, <1>2, <1>4, NewRowFacts
  <1>6. r = [n EXCEPT !.immune = TRUE, !.ttl = Never] /\ Never \in Nat
    BY MemoryAssumption DEF AbstractionRow, Never, d
  <1> HIDE DEF n
  <1> QED BY <1>5, <1>6 DEF Rows

\* A row with another text.
LEMMA Retexted ==
    ASSUME NEW r \in Rows, NEW t \in AllTexts, NEW q, q = [r EXCEPT !.text = t]
    PROVE  /\ q \in Rows /\ q.text = t
           /\ q.hash = r.hash /\ q.project = r.project /\ q.archived = r.archived
           /\ q.saw = r.saw /\ q.byHand = r.byHand /\ q.immune = r.immune /\ q.ttl = r.ttl
  BY DEF Rows

\* Applying a cluster does that.
LEMMA ApplyFacts ==
    ASSUME Typed, ApplyClusters
    PROVE  Typed' /\ \E a \in Nat : Merged(a)
  <1> DEFINE a == Len(rows) + 1
             r == AbstractionRow(a)
             table == Append(rows, r)
  <1>1. /\ plan # None /\ plan \subseteq Ids /\ plan # {}
        /\ rows' = [i \in DOMAIN table |->
                       IF i \in plan THEN [table[i] EXCEPT !.text = Delta(a)] ELSE table[i]]
        /\ plan' = None /\ UNCHANGED <<saver, sweep>>
    BY DEF ApplyClusters, Typed
  <1>2. Len(rows) \in Nat /\ Ids = 1..Len(rows) /\ \A i \in Ids : rows[i] \in Rows
    BY RowsTyped
  <1>3. a \in Nat /\ Delta(a) \in AllTexts
    BY <1>2 DEF Delta, AllTexts
  <1>4. /\ r \in Rows /\ r.text = Abstraction(a) /\ r.hash = Abstraction(a)
        /\ r.saw = Len(rows) /\ r.immune /\ r.ttl = Never /\ ~r.archived
    BY <1>1, AbstractionFacts
  <1> HIDE DEF r
  <1>5. /\ table \in Seq(Rows) /\ Len(table) = a /\ DOMAIN table = Ids \cup {a} /\ a \notin Ids
        /\ \A i \in Ids : table[i] = rows[i]
        /\ table[a] = r
    BY <1>4, Appended
  <1>a. a = Len(rows) + 1
    OBVIOUS
  <1> HIDE DEF table, a
  <1>6. /\ \A i \in plan : rows'[i] = [rows[i] EXCEPT !.text = Delta(a)]
        /\ \A i \in Ids \ plan : rows'[i] = rows[i]
        /\ rows'[a] = r
        /\ DOMAIN rows' = Ids \cup {a}
    BY <1>1, <1>5
  <1>7. \A i \in plan : rows'[i] \in Rows /\ rows'[i].text = Delta(a)
    <2> TAKE i \in plan
    <2>1. rows[i] \in Rows /\ rows'[i] = [rows[i] EXCEPT !.text = Delta(a)]
      BY <1>1, <1>2, <1>6
    <2> QED BY <1>3, <2>1, Retexted
  <1>8. ASSUME NEW i \in Ids
        PROVE  /\ rows'[i] \in Rows
               /\ rows'[i].hash = rows[i].hash /\ rows'[i].project = rows[i].project
               /\ rows'[i].archived = rows[i].archived /\ rows'[i].saw = rows[i].saw
               /\ rows'[i].byHand = rows[i].byHand
               /\ rows'[i].immune = rows[i].immune /\ rows'[i].ttl = rows[i].ttl
    <2>1. CASE i \in plan
      <3>1. rows[i] \in Rows /\ rows'[i] = [rows[i] EXCEPT !.text = Delta(a)]
        BY <1>2, <1>6, <2>1
      <3> QED BY <1>3, <3>1, Retexted
    <2>2. CASE i \notin plan
      BY <1>2, <1>6, <2>2
    <2> QED BY <2>1, <2>2
  <1>9. rows' \in Seq(Rows) /\ Len(rows') = a /\ Ids' = Ids \cup {a}
    <2>1. DOMAIN rows' = 1..a
      BY <1>a, <1>2, <1>6
    <2>2. rows' = [i \in 1..a |-> rows'[i]]
      BY <1>1, <2>1
    <2>3. \A i \in 1..a : rows'[i] \in Rows
      BY <1>a, <1>2, <1>4, <1>6, <1>8
    <2>4. rows' \in [1..a -> Rows]
      BY <2>2, <2>3
    <2>5. rows' \in Seq(Rows)
      BY <1>3, <2>4, SeqDef
    <2> QED BY <1>3, <1>6, <2>1, <2>4, <2>5 DEF Ids
  <1>10. Typed'
    BY <1>1, <1>9 DEF Typed
  <1>11. Merged(a)
    BY <1>a, <1>1, <1>2, <1>3, <1>4, <1>5, <1>6, <1>7, <1>8, <1>9 DEF Merged
  <1> QED BY <1>3, <1>10, <1>11

\* The members of a cluster become deltas of one new row.
LEMMA MergedNames ==
    ASSUME NamesExist, NEW a, Merged(a) PROVE NamesExist'
  <1>1. Named \subseteq Named' /\ Delta(a) \in Named' /\ Abstraction(a) \in Named'
    BY DEF Named, Delta, Abstraction, Merged
  <1>2. ASSUME NEW i \in Ids'
        PROVE  rows'[i].text \in Named' /\ rows'[i].hash \in Named' \cup {OldHash}
    <2>1. CASE i = a
      BY <1>1, <2>1 DEF Merged
    <2>2. CASE i \in plan
      BY <1>1, <2>2 DEF Merged, NamesExist
    <2>3. CASE i \in Ids \ plan
      BY <1>1, <2>3 DEF Merged, NamesExist
    <2> QED BY <2>1, <2>2, <2>3 DEF Merged
  <1>3. sweep' = sweep
    BY DEF Merged
  <1> HIDE DEF Named
  <1> QED BY <1>1, <1>2, <1>3 DEF NamesExist

LEMMA MergedHashes ==
    ASSUME Typed, HashesName, NEW a, Merged(a) PROVE HashesName'
  <1>1. a \in Nat /\ Delta(a) \notin Texts /\ Abstraction(a) \notin Texts
    BY TextKinds DEF Merged
  <1>2. ASSUME NEW i \in Ids', rows'[i].text \in Texts
        PROVE  i \in Ids /\ rows'[i].text = rows[i].text /\ rows'[i].hash = rows[i].hash
    <2>1. i # a /\ i \notin plan
      BY <1>1, <1>2 DEF Merged
    <2> QED BY <2>1 DEF Merged
  <1>3. sweep' = sweep /\ plan' = None /\ DOMAIN sweep \subseteq Ids'
    BY DEF Merged, Typed
  <1>4. \A i \in Ids' : rows'[i].text \in Texts => rows'[i].hash \in {rows'[i].text, OldHash}
    BY <1>2 DEF HashesName
  <1>5. \A i \in DOMAIN sweep : rows'[i].text \in Texts => sweep[i] = rows'[i].text
    BY <1>2, <1>3 DEF HashesName
  <1> QED BY <1>3, <1>4, <1>5 DEF HashesName

LEMMA MergedAnchors ==
    ASSUME Typed, HashesName, Anchored, NEW a, Merged(a) PROVE Anchored'
  <1>1. a \in Nat
    BY DEF Merged
  <1>2. Anchor(a)'
    <2>1. a \notin DOMAIN sweep'
      BY DEF Merged, Typed
    <2>2. /\ rows'[a].text = Abstraction(a) /\ rows'[a].hash = Abstraction(a)
          /\ rows'[a].immune /\ rows'[a].ttl = Never /\ ~rows'[a].archived
      BY DEF Merged
    <2> QED BY <2>1, <2>2 DEF Anchor
  <1>3. ASSUME NEW b \in Ids, Anchor(b) PROVE Anchor(b)'
    <2>1. b \in Nat
      BY DEF Merged
    <2>2. rows[b].text \notin Texts
      BY <1>3, <2>1, TextKinds DEF Anchor
    <2>3. b \notin plan
      BY <2>2 DEF HashesName, Merged
    <2>4. /\ rows'[b].text = rows[b].text /\ rows'[b].hash = rows[b].hash
          /\ rows'[b].archived = rows[b].archived /\ rows'[b].byHand = rows[b].byHand
          /\ rows'[b].immune = rows[b].immune /\ rows'[b].ttl = rows[b].ttl /\ sweep' = sweep
      BY <2>3 DEF Merged
    <2> QED BY <1>3, <2>4 DEF Anchor
  <1> SUFFICES ASSUME NEW i \in Ids', NEW b \in Nat, rows'[i].text = Delta(b)
               PROVE  b \in Ids' /\ Anchor(b)'
    BY DEF Anchored
  <1>4. CASE i = a
    <2>1. Abstraction(a) = Delta(b)
      BY <1>4 DEF Merged
    <2> QED BY <1>1, <2>1, TextKinds
  <1>5. CASE i \in plan
    <2>1. Delta(a) = Delta(b)
      BY <1>5 DEF Merged
    <2>2. a = b
      BY <1>1, <2>1, TextKinds
    <2> QED BY <1>2, <2>2 DEF Merged
  <1>6. CASE i \in Ids \ plan
    <2>1. rows[i].text = Delta(b)
      BY <1>6 DEF Merged
    <2>2. b \in Ids /\ Anchor(b)
      BY <1>6, <2>1 DEF Anchored
    <2> QED BY <1>3, <2>2 DEF Merged
  <1> QED BY <1>4, <1>5, <1>6 DEF Merged

LEMMA MergedLookedUp ==
    ASSUME Typed, LookedUp, NEW a, Merged(a) PROVE LookedUp'
  <1> SUFFICES ASSUME NEW s \in Savers, saver[s] # Idle
               PROVE  /\ saver[s].saw <= Len(rows')
                      /\ \A i \in Active' :
                          (i <= saver[s].saw /\ rows'[i].hash = saver[s].draft.text
                               /\ rows'[i].project = saver[s].draft.project)
                          => rows'[i].byHand
    BY DEF LookedUp, Merged
  <1>1. saver[s].saw \in Nat /\ saver[s].saw <= Len(rows)
    BY DEF LookedUp, Typed, Saving
  <1>2. Len(rows) \in Nat /\ a = Len(rows) + 1 /\ Len(rows') = a
    BY DEF Merged
  <1>3. ASSUME NEW i \in Active', i <= saver[s].saw, rows'[i].hash = saver[s].draft.text,
               rows'[i].project = saver[s].draft.project
        PROVE  rows'[i].byHand
    <2>1. i # a
      BY <1>1, <1>2, <1>3
    <2>2. i \in Ids
      BY <2>1 DEF Merged, Active
    <2>3. /\ rows'[i].hash = rows[i].hash /\ rows'[i].project = rows[i].project
          /\ rows'[i].archived = rows[i].archived /\ rows'[i].byHand = rows[i].byHand
      BY <2>2 DEF Merged
    <2>4. i \in Active
      BY <2>2, <2>3 DEF Active
    <2> QED BY <1>3, <2>3, <2>4 DEF LookedUp
  <1> QED BY <1>1, <1>2, <1>3

LEMMA MergedDuplicates ==
    ASSUME NamesExist, DuplicatesOverlap, NEW a, Merged(a) PROVE DuplicatesOverlap'
  <1> SUFFICES ASSUME NEW i \in Active', NEW k \in Active', i < k,
                      rows'[i].hash = rows'[k].hash, rows'[i].project = rows'[k].project
               PROVE  rows'[k].saw < i \/ rows'[i].byHand \/ rows'[k].byHand \/ rows'[i].hash = OldHash
    BY DEF DuplicatesOverlap
  <1>1. ASSUME NEW x \in Active', x # a
        PROVE  /\ x \in Active /\ x \in Ids
               /\ rows'[x].hash = rows[x].hash /\ rows'[x].project = rows[x].project
               /\ rows'[x].saw = rows[x].saw /\ rows'[x].byHand = rows[x].byHand
    BY <1>1 DEF Merged, Active
  <1>2. i # a
    BY DEF Merged, Active
  <1>3. CASE k # a
    BY <1>1, <1>2, <1>3 DEF DuplicatesOverlap
  <1>4. CASE k = a
    <2>1. Abstraction(a) \notin Named \cup {OldHash}
      <3>1. a \notin Ids /\ a \in Nat
        BY DEF Merged
      <3> QED BY <3>1, TextKinds DEF Named, Abstraction
    <2>2. rows[i].hash \in Named \cup {OldHash}
      BY <1>1, <1>2 DEF NamesExist
    <2>3. rows[i].hash = Abstraction(a)
      BY <1>1, <1>2, <1>4 DEF Merged
    <2> QED BY <2>1, <2>2, <2>3
  <1> QED BY <1>3, <1>4

LEMMA ApplyKeeps ==
    ASSUME MemoryInv, ApplyClusters
    PROVE  MemoryInv'
  <1>1. Typed' /\ \E a \in Nat : Merged(a)
    BY ApplyFacts DEF MemoryInv
  <1>2. PICK a \in Nat : Merged(a)
    BY <1>1
  <1> QED BY <1>1, <1>2, MergedNames, MergedHashes, MergedAnchors, MergedLookedUp, MergedDuplicates
          DEF MemoryInv

\* Rows of an older release.
LEMMA InitKeeps == ASSUME Init PROVE MemoryInv
  <1> DEFINE old == {NewRow(d, OldHash, 0) : d \in Legacy}
  <1>1. ASSUME NEW x \in old PROVE x \in Rows /\ x.text \in Texts /\ x.hash = OldHash
    <2>1. PICK d \in Legacy : x = NewRow(d, OldHash, 0)
      OBVIOUS
    <2>2. d \in Draft
      BY MemoryAssumption
    <2>3. /\ d.project \in Projects /\ d.title \in Titles \cup AllTexts /\ d.text \in AllTexts
          /\ d.type \in Types /\ d.global \in BOOLEAN /\ d.text \in Texts /\ d.ttl \in Nat
      BY <2>2, MemoryAssumption DEF Draft, AllTexts, Never
    <2> QED BY <2>1, <2>3, NewRowFacts
  <1> HIDE DEF old
  <1>2. rows \in Seq(old)
    <2>1. << >> \in Seq(old) /\ \A x, y \in old : <<x>> \in Seq(old) /\ <<x, y>> \in Seq(old)
      OBVIOUS
    <2>2. \/ rows = << >>
          \/ \E d \in Legacy : rows = <<NewRow(d, OldHash, 0)>>
          \/ \E d, e \in Legacy : rows = <<NewRow(d, OldHash, 0), NewRow(e, OldHash, 0)>>
      BY DEF Init
    <2>3. \A d \in Legacy : NewRow(d, OldHash, 0) \in old
      BY DEF old
    <2> QED BY <2>1, <2>2, <2>3
  <1>3. rows \in Seq(Rows) /\ \A i \in Ids : rows[i] \in old
    BY <1>1, <1>2, ElementOfSeq, LenProperties, SeqMonotonic DEF Ids
  <1>4. Typed
    BY <1>3 DEF Init, Typed
  <1>5. NamesExist /\ HashesName /\ Anchored /\ LookedUp /\ DuplicatesOverlap
    BY <1>1, <1>3, TextKinds
       DEF Init, NamesExist, Named, HashesName, Anchored, LookedUp, DuplicatesOverlap, Active
  <1> QED BY <1>4, <1>5 DEF MemoryInv

\* Every step keeps the invariant.
LEMMA NextKeeps == ASSUME MemoryInv, [Next]_vars PROVE MemoryInv'
  <1>1. CASE UNCHANGED vars
    BY <1>1 DEF vars, MemoryInv, Typed, NamesExist, Named, HashesName, Anchored, Anchor, LookedUp,
                DuplicatesOverlap, Active, Ids
  <1>2. CASE \/ \E i \in Ids : Read(i) \/ Delete(i) \/ Restore(i)
             \/ RunDecay \/ RunRoiGc \/ RunPromotions \/ Tick
    BY <1>2, UpkeepSteps, UpkeepKeeps DEF MemoryInv
  <1> QED BY <1>1, <1>2, ChecksKeep, InsertKeeps, FetchKeeps, SweepKeeps, LoadKeeps, ApplyKeeps
          DEF Next, Save, Maintenance

\* The inductive invariant holds.
THEOREM MemoryInvariant == Spec => []MemoryInv
  BY InitKeeps, NextKeeps, PTL DEF Spec

\* Two active rows of a project have one hash only if the checks of the second
\* came before the first, or somebody restored one of them.
THEOREM DuplicatesExplained == Spec => []DuplicatesOverlap
  <1>1. MemoryInv => DuplicatesOverlap
    BY DEF MemoryInv
  <1> QED BY <1>1, MemoryInvariant, PTL

\* No pass takes the abstraction of a distilled row away.
THEOREM DistilledRowsRead == Spec => []DeltasResolve
  <1>1. MemoryInv => DeltasResolve
    BY RowsTyped DEF MemoryInv, DeltasResolve, Anchored, Anchor, Active
  <1> QED BY <1>1, MemoryInvariant, PTL

\* The row whose hash the swept one would have had holds the text.
LEMMA SweptHasTwin ==
    ASSUME MemoryInv, SweepRow, NEW k \in Ids, ArchivedNow(k)
    PROVE  HasTwin(k)
  <1>1. PICK i \in DOMAIN sweep :
              /\ i \in Ids
              /\ rows' = [rows EXCEPT ![i] = rows'[i]]
              /\ \/ Twins(i) # {} /\ rows'[i] = [rows[i] EXCEPT !.archived = TRUE]
                 \/ Twins(i) = {} /\ rows'[i] = [rows[i] EXCEPT !.hash = sweep[i]]
    BY SweepFacts
  <1>2. \A j \in Ids : rows[j] \in Rows
    BY RowsTyped DEF MemoryInv
  <1>3. DOMAIN rows' = Ids /\ \A j \in Ids \ {i} : rows'[j] = rows[j]
    BY <1>1 DEF Ids
  <1>4. k = i /\ Twins(i) # {}
    BY <1>1, <1>2, <1>3 DEF ArchivedNow, Active, Rows
  <1>5. PICK j \in Active \ {i} : rows[j].hash = sweep[i] /\ rows[j].project = rows[i].project
    BY <1>4 DEF Twins
  <1>6. rows[j].text = sweep[i] \/ rows[j].text \notin Texts
    BY <1>5, TextKinds DEF MemoryInv, Typed, HashesName, Active
  <1> QED BY <1>3, <1>4, <1>5, <1>6 DEF HasTwin, Active

\* The sweep never archives the last row with a text.
THEOREM SweepsKeepTexts == Spec => SweepKeepsOne
  <1>1. MemoryInv /\ [Next]_vars => [SweepRow => \A i \in Ids : ArchivedNow(i) => HasTwin(i)]_vars
    BY SweptHasTwin
  <1> QED BY <1>1, MemoryInvariant, PTL DEF Spec, SweepKeepsOne

\* Retention archives no protected row.
LEMMA PassesSpare ==
    ASSUME Typed, RunDecay \/ RunRoiGc \/ RunPromotions,
           NEW i \in Ids, ArchivedNow(i), rows[i].immune, rows[i].ttl = Never
    PROVE  FALSE
  <1>1. rows[i] \in Rows /\ ~rows[i].archived /\ rows'[i].archived
    BY RowsTyped DEF ArchivedNow, Active
  <1>2. ASSUME NEW S, Archive(S) PROVE i \in S
    BY <1>1, <1>2 DEF Archive
  <1>3. CASE RunDecay
    <2>1. PICK P \in Scopes : Archive({j \in ActiveIn(P) : Decayed(rows[j])})
      BY <1>3 DEF RunDecay
    <2>2. rows[i].age >= rows[i].ttl
      BY <1>2, <2>1 DEF Decayed, Expired
    <2> QED BY <1>1, <2>2, MemoryAssumption DEF Rows, Never
  <1>4. CASE RunRoiGc
    <2>1. PICK P \in Scopes : Archive({j \in ActiveIn(P) : ~rows[j].immune /\ ~Worthwhile(rows[j])})
      BY <1>4 DEF RunRoiGc
    <2> QED BY <1>2, <2>1
  <1>5. CASE RunPromotions
    <2>1. rows'[i] = rows[i] \/ rows'[i] = Promoted(rows[i])
      BY <1>5 DEF RunPromotions
    <2>2. Promoted(rows[i]).archived = rows[i].archived
      BY <1>1 DEF Promoted, Rows
    <2> QED BY <1>1, <2>1, <2>2
  <1> QED BY <1>3, <1>4, <1>5

\* Rows of protected types without a time to live leave only as duplicates.
THEOREM ProtectedRowsStay == Spec => ProtectedStay
  <1>1. ASSUME MemoryInv, Maintenance, NEW i \in Ids, ArchivedNow(i), rows[i].immune, rows[i].ttl = Never
        PROVE  HasTwin(i)
    <2>1. CASE SweepRow
      BY <1>1, <2>1, SweptHasTwin
    <2>2. CASE RunDecay \/ RunRoiGc \/ RunPromotions
      BY <1>1, <2>2, PassesSpare DEF MemoryInv
    <2>3. CASE FetchStale \/ LoadClusters
      BY <1>1, <2>3 DEF FetchStale, LoadClusters, ArchivedNow, Active
    <2>4. CASE ApplyClusters
      <3>1. PICK a \in Nat : Merged(a)
        BY <1>1, <2>4, ApplyFacts DEF MemoryInv
      <3>2. rows'[i].archived = rows[i].archived
        BY <3>1 DEF Merged
      <3> QED BY <1>1, <3>2 DEF ArchivedNow, Active
    <2> QED BY <1>1, <2>1, <2>2, <2>3, <2>4 DEF Maintenance
  <1>2. MemoryInv /\ [Next]_vars =>
          [Maintenance => \A i \in Ids :
              (ArchivedNow(i) /\ rows[i].immune /\ rows[i].ttl = Never) => HasTwin(i)]_vars
    BY <1>1
  <1> QED BY <1>2, MemoryInvariant, PTL DEF Spec, ProtectedStay
=============================================================================
