------------------------- MODULE ResultCacheProofs --------------------------
(* How far memoized answers may lag, for any projects, files, texts, names  *)
(* and generations, and which project a name means.                         *)
EXTENDS ResultCache, SequenceTheorems, FiniteSetTheorems, WellFoundedInduction,
        TLAPS

\* What holds of one project: s is its slot, d its tree and c its results.
Serving(s) == s.status \in {"built", "detached"}
StaleIn(s, c, f) == Serving(s) /\ c[f][s.cache_gen] \notin {Absent, s.index[f]}
Results == [Files -> [1..MaxGen -> Texts \cup {Absent}]]

SlotType(s, d, c) ==
    /\ s \in Slots /\ d \in [Files -> Texts] /\ c \in Results
    /\ Serving(s) => s.cache_gen # 0 /\ s.index \in [Files -> Texts]
NothingAhead(s, c) == \A f \in Files : \A g \in s.cache_gen + 1..MaxGen : c[f][g] = Absent
StaleEdited(s, c) == \A f \in Files : StaleIn(s, c, f) => f \in s.edited
StalePending(s, c) == \A f \in Files : StaleIn(s, c, f) => f \in s.pending \cup s.unheard
IndexLags(s, d) == Serving(s) => \A f \in Files : s.index[f] # d[f] => f \in s.newer

SlotInv(s, d, c) ==
    /\ SlotType(s, d, c) /\ NothingAhead(s, c)
    /\ StaleEdited(s, c) /\ StalePending(s, c) /\ IndexLags(s, d)

\* The inductive invariant.
SessionType ==
    /\ watched \in BOOLEAN
    /\ projects \in Seq(Roots) /\ active_root \in Roots \cup {Absent}
    /\ slot \in [Roots -> Slots]
    /\ disk \in [Roots -> [Files -> Texts]]
    /\ result_cache \in [Roots -> Results]
    /\ reply \in [root : Roots \cup {Absent}, file : Files \cup {Absent}, value : Texts \cup {Absent}]
CacheInv ==
    /\ SessionType
    /\ \A r \in Roots : SlotInv(slot[r], disk[r], result_cache[r])

-----------------------------------------------------------------------------
(* One slot.                                                               *)

\* What comes after a generation is not that generation, and comes after any
\* earlier one too.
LEMMA LaterGenerations ==
    ASSUME NEW m \in Nat, NEW a \in Nat, NEW b \in 0..m, a <= b, NEW n \in b + 1..m
    PROVE  n \in a + 1..m /\ n \in 1..m \ {b}
  OBVIOUS

\* A slot that begins a new generation has no stale result.
LEMMA NewGeneration ==
    ASSUME NEW c, NEW a \in 0..MaxGen, NEW s, s.cache_gen = a + 1, s.cache_gen <= MaxGen,
           \A f \in Files : \A g \in a + 1..MaxGen : c[f][g] = Absent
    PROVE  /\ \A f \in Files : ~StaleIn(s, c, f)
           /\ NothingAhead(s, c)
  <1>1. /\ s.cache_gen \in a + 1..MaxGen
        /\ \A g \in s.cache_gen + 1..MaxGen : g \in a + 1..MaxGen
    BY ResultCacheAssumption
  <1> QED BY <1>1 DEF StaleIn, NothingAhead

\* A slot, but for the bound on its generation.
AnySlots == [status : Statuses, watcher : {"none", "starting", "listening", "dead"},
             index : [Files -> Texts \cup {Absent}], newer : SUBSET Files,
             pending : SUBSET Files, cache_gen : Nat, edited : SUBSET Files,
             unheard : SUBSET Files]

\* A build that succeeds keeps the slot in order.
LEMMA BuiltKeeps ==
    ASSUME CacheInv, NEW r \in Roots, slot[r].cache_gen + 1 <= MaxGen,
           NEW s, s = Built(r)
    PROVE  SlotInv(s, disk[r], result_cache[r])
  <1>1. /\ slot[r] \in Slots /\ disk[r] \in [Files -> Texts] /\ result_cache[r] \in Results
        /\ slot[r].cache_gen \in 0..MaxGen
        /\ SlotInv(slot[r], disk[r], result_cache[r])
    BY DEF CacheInv, SessionType, Slots
  <1>2. slot[r].cache_gen + 1 \in 0..MaxGen /\ slot[r].cache_gen + 1 # 0
    BY <1>1, ResultCacheAssumption
  <1>3. Built(r) \in Slots /\ Built(r).cache_gen = slot[r].cache_gen + 1 /\ Built(r).index = disk[r]
    BY <1>1, <1>2 DEF Built, Slots, Statuses
  <1>4. /\ s \in Slots /\ s.cache_gen = slot[r].cache_gen + 1 /\ s.index = disk[r]
        /\ s.cache_gen # 0
    BY <1>2, <1>3 DEF Slots
  <1>5. /\ \A f \in Files : ~StaleIn(s, result_cache[r], f)
        /\ NothingAhead(s, result_cache[r])
    BY <1>1, <1>4, NewGeneration, SMTT(30) DEF SlotInv, NothingAhead
  <1> QED
    BY <1>1, <1>4, <1>5 DEF SlotInv, SlotType, StaleEdited, StalePending, IndexLags

\* A build that fails leaves a slot that answers nothing.
LEMMA BrokenKeeps ==
    ASSUME CacheInv, NEW r \in Roots
    PROVE  SlotInv(Broken(r), disk[r], result_cache[r])
  <1>1. /\ slot[r] \in Slots /\ disk[r] \in [Files -> Texts] /\ result_cache[r] \in Results
        /\ SlotInv(slot[r], disk[r], result_cache[r])
    BY DEF CacheInv, SessionType
  <1>2. Broken(r) \in Slots /\ ~Serving(Broken(r)) /\ Broken(r).cache_gen = slot[r].cache_gen
    BY <1>1 DEF Broken, Slots, Statuses, NoIndex, Serving
  <1> QED
    BY <1>1, <1>2 DEF SlotInv, SlotType, NothingAhead, StaleEdited, StalePending, IndexLags, StaleIn

\* An index from the cache file is behind by what has a new mtime.
LEMMA AdoptedKeeps ==
    ASSUME CacheInv, NEW r \in Roots, slot[r].cache_gen + 1 <= MaxGen, NEW i \in [Files -> Texts]
    PROVE  SlotInv(Adopted(r, i), disk[r], result_cache[r])
  <1> DEFINE s == Adopted(r, i)
  <1>1. /\ slot[r] \in Slots /\ disk[r] \in [Files -> Texts] /\ result_cache[r] \in Results
        /\ slot[r].cache_gen \in 0..MaxGen /\ watched \in BOOLEAN
        /\ SlotInv(slot[r], disk[r], result_cache[r])
    BY DEF CacheInv, SessionType, Slots
  <1>2. slot[r].cache_gen + 1 \in 0..MaxGen /\ slot[r].cache_gen + 1 # 0
    BY <1>1, ResultCacheAssumption
  <1>3. /\ s.cache_gen = slot[r].cache_gen + 1 /\ s.index = i
        /\ s.newer = Behind(r, i)
    BY <1>1 DEF Adopted, Built, Slots
  <1>4. s \in Slots
    BY <1>1, <1>2 DEF Adopted, Built, Behind, Slots, Statuses
  <1>5. /\ \A f \in Files : ~StaleIn(s, result_cache[r], f)
        /\ NothingAhead(s, result_cache[r])
    BY <1>1, <1>2, <1>3, NewGeneration, SMTT(30) DEF SlotInv, NothingAhead
  <1>6. IndexLags(s, disk[r])
    BY <1>3 DEF IndexLags, Behind
  <1> HIDE DEF s
  <1>7. SlotInv(s, disk[r], result_cache[r])
    BY <1>1, <1>2, <1>3, <1>4, <1>5, <1>6 DEF SlotInv, SlotType, StaleEdited, StalePending
  <1> QED BY <1>7 DEF s

\* maybe_update: with files to reindex a new generation, without any nothing.
LEMMA UpdatedKeeps ==
    ASSUME watched \in BOOLEAN, NEW r \in Roots, NEW p, p.status = "built",
           SlotInv(p, disk[r], result_cache[r]),
           NEW s \in Updates(p, r), s.cache_gen <= MaxGen
    PROVE  SlotInv(s, disk[r], result_cache[r])
  <1>1. /\ p \in Slots /\ disk[r] \in [Files -> Texts] /\ result_cache[r] \in Results
        /\ p.cache_gen \in 0..MaxGen /\ p.cache_gen # 0
        /\ p.index \in [Files -> Texts]
    BY DEF Slots, SlotInv, SlotType, Serving
  <1>2. PICK N \in Noticed(p), G \in SUBSET (p.newer \cup p.edited), st \in {"built", "detached"} :
            s = [Updated(p, r, N, G) EXCEPT !.status = st]
    BY DEF Updates
  <1> DEFINE S == N \cup G
  <1>3. /\ S \subseteq Files
        /\ S = {} => NextGen(p, S) = p.cache_gen
        /\ S # {} => NextGen(p, S) = p.cache_gen + 1
    BY <1>1 DEF Noticed, NextGen, Slots
  <1>4. /\ s.status = st /\ s.watcher \in {p.watcher, "starting"}
        /\ s.index = [f \in Files |-> IF f \in S THEN disk[r][f] ELSE p.index[f]]
        /\ s.pending = p.pending \ N /\ s.newer = p.newer \ S
        /\ s.cache_gen = NextGen(p, S)
        /\ s.edited = IF S = {} THEN p.edited ELSE {}
        /\ s.unheard = IF S = {} THEN p.unheard ELSE {}
    BY <1>1, <1>2 DEF Updated, Slots
  <1>0. S = {} => N = {}
    OBVIOUS
  <1>5. s.cache_gen \in 0..MaxGen /\ s.cache_gen # 0 /\ s.index \in [Files -> Texts]
    BY <1>1, <1>3, <1>4, ResultCacheAssumption
  <1>6. s \in Slots
    <2>1. s.watcher \in {"none", "starting", "listening", "dead"} /\ s.pending \subseteq Files
      BY <1>1, <1>4 DEF Slots
    <2>2. s.newer \subseteq Files /\ s.edited \subseteq Files /\ s.unheard \subseteq Files
      BY <1>1, <1>4 DEF Slots
    <2>3. s.status \in Statuses /\ s.index \in [Files -> Texts \cup {Absent}]
      BY <1>4, <1>5 DEF Statuses
    <2>4. s = [status |-> s.status, watcher |-> s.watcher, index |-> s.index,
               newer |-> s.newer, pending |-> s.pending, cache_gen |-> s.cache_gen,
               edited |-> s.edited, unheard |-> s.unheard]
      BY <1>1, <1>2 DEF Updated, Slots
    <2> QED BY <1>5, <2>1, <2>2, <2>3, <2>4 DEF Slots
  <1> HIDE DEF S
  <1>7. IndexLags(s, disk[r])
    BY <1>1, <1>4 DEF SlotInv, IndexLags, Serving
  <1>8. CASE S # {}
    <2>1. s.cache_gen = p.cache_gen + 1
      BY <1>3, <1>4, <1>8
    <2>2. \A f \in Files : \A g \in p.cache_gen + 1..MaxGen : result_cache[r][f][g] = Absent
      BY DEF SlotInv, NothingAhead
    <2>3. /\ \A f \in Files : ~StaleIn(s, result_cache[r], f)
          /\ NothingAhead(s, result_cache[r])
      BY <1>1, <2>1, <2>2, NewGeneration
    <2> QED
      BY <1>1, <1>5, <1>6, <1>7, <2>3 DEF SlotInv, SlotType, StaleEdited, StalePending
  <1>9. CASE S = {}
    <2>1. s.index = p.index
      BY <1>1, <1>4, <1>9
    <2>2. \A f \in Files : StaleIn(s, result_cache[r], f) => StaleIn(p, result_cache[r], f)
      BY <1>3, <1>4, <1>9, <2>1 DEF StaleIn, Serving
    <2> QED
      BY <1>0, <1>1, <1>3, <1>4, <1>5, <1>6, <1>7, <1>9, <2>2
      DEF SlotInv, SlotType, NothingAhead, StaleEdited, StalePending
  <1> QED BY <1>8, <1>9

\* maybe_update does not go back to an earlier generation.
LEMMA UpdatesGoOn ==
    ASSUME NEW p \in AnySlots, NEW r \in Roots, NEW s \in Updates(p, r)
    PROVE  s.cache_gen \in Nat /\ p.cache_gen <= s.cache_gen
  <1>1. PICK N \in Noticed(p), G \in SUBSET (p.newer \cup p.edited), st \in {"built", "detached"} :
            s = [Updated(p, r, N, G) EXCEPT !.status = st]
    BY DEF Updates
  <1>2. s.cache_gen = NextGen(p, N \cup G)
    BY <1>1 DEF Updated, AnySlots
  <1> QED BY <1>2 DEF NextGen, AnySlots

\* What ensure leaves: a slot without an index, or a built one that is in
\* order when its generation is in bounds.
LEMMA EnsuredKeeps ==
    ASSUME CacheInv, NEW r \in Roots, NEW s \in Ensured(r)
    PROVE  /\ s \in AnySlots
           /\ s # Broken(r) => s.status = "built"
           /\ s.cache_gen <= MaxGen => SlotInv(s, disk[r], result_cache[r])
  <1>1. /\ slot[r] \in AnySlots /\ disk[r] \in [Files -> Texts \cup {Absent}]
        /\ watched \in BOOLEAN /\ slot[r].cache_gen + 1 \in Nat
    BY ResultCacheAssumption DEF CacheInv, SessionType, Slots, AnySlots
  <1>2. CASE s = Built(r)
    <2>1. s \in AnySlots /\ s.status = "built" /\ s.cache_gen = slot[r].cache_gen + 1
      BY <1>1, <1>2 DEF Built, AnySlots, Statuses
    <2> QED BY <1>2, <2>1, BuiltKeeps
  <1>3. CASE s = Broken(r)
    <2>1. s \in AnySlots
      BY <1>1, <1>3 DEF Broken, AnySlots, Statuses, NoIndex
    <2> QED BY <1>3, <2>1, BrokenKeeps
  <1>4. ASSUME NEW i \in [Files -> Texts], s = Adopted(r, i)
        PROVE  /\ s \in AnySlots /\ s.status = "built"
               /\ s.cache_gen <= MaxGen => SlotInv(s, disk[r], result_cache[r])
    <2>1. s \in AnySlots /\ s.status = "built" /\ s.cache_gen = slot[r].cache_gen + 1
      BY <1>1, <1>4 DEF Adopted, Behind, Built, AnySlots, Statuses
    <2> QED BY <1>4, <2>1, AdoptedKeeps
  <1> QED BY <1>2, <1>3, <1>4 DEF Ensured, Builds

\* What _prep leaves is a slot, but for the bound on its generation.
LEMMA PreparedShape ==
    ASSUME CacheInv, NEW r \in Roots, NEW s \in Prepared(r)
    PROVE  s \in AnySlots
  <1>1. /\ slot[r] \in AnySlots /\ disk[r] \in [Files -> Texts \cup {Absent}]
        /\ watched \in BOOLEAN
    BY ResultCacheAssumption DEF CacheInv, SessionType, Slots, AnySlots
  <1>2. ASSUME NEW p \in AnySlots, NEW q \in Updates(p, r)
        PROVE  q \in AnySlots
    <2>1. PICK N \in Noticed(p), G \in SUBSET (p.newer \cup p.edited), st \in {"built", "detached"} :
              q = [Updated(p, r, N, G) EXCEPT !.status = st]
      BY DEF Updates
    <2>2. NextGen(p, N \cup G) \in Nat
      BY DEF NextGen, AnySlots
    <2>3. Updated(p, r, N, G) \in AnySlots
      BY <1>1, <2>2 DEF Updated, AnySlots
    <2> QED BY <2>1, <2>3 DEF AnySlots, Statuses
  <1>3. CASE slot[r].status = "none"
    <2>1. s = Broken(r) \/ \E p \in Ensured(r) : s \in Updates(p, r)
      BY <1>3 DEF Prepared
    <2>2. Broken(r) \in AnySlots
      BY <1>1 DEF Broken, AnySlots, Statuses, NoIndex
    <2> QED BY <1>2, <2>1, <2>2, EnsuredKeeps
  <1>4. CASE slot[r].status = "built"
    BY <1>1, <1>2, <1>4 DEF Prepared
  <1>5. CASE slot[r].status \notin {"none", "built"}
    BY <1>1, <1>5 DEF Prepared
  <1> QED BY <1>3, <1>4, <1>5

\* _prep leaves a slot in order, whatever it did.
LEMMA PreparedKeeps ==
    ASSUME CacheInv, NEW r \in Roots, NEW s \in Prepared(r), s.cache_gen <= MaxGen
    PROVE  SlotInv(s, disk[r], result_cache[r])
  <1>1. slot[r] \in Slots /\ watched \in BOOLEAN
        /\ SlotInv(slot[r], disk[r], result_cache[r])
    BY DEF CacheInv, SessionType
  <1>2. CASE slot[r].status = "none"
    <2>1. s = Broken(r) \/ \E p \in Ensured(r) \ {Broken(r)} : s \in Updates(p, r)
      BY <1>2 DEF Prepared
    <2>2. ASSUME NEW p \in Ensured(r) \ {Broken(r)}, s \in Updates(p, r)
          PROVE  SlotInv(s, disk[r], result_cache[r])
      <3>1. p \in AnySlots /\ p.status = "built"
        BY EnsuredKeeps
      <3>2. s.cache_gen \in Nat /\ p.cache_gen <= s.cache_gen /\ p.cache_gen \in Nat
        BY <2>2, <3>1, UpdatesGoOn DEF AnySlots
      <3>3. p.cache_gen <= MaxGen
        BY <3>2, ResultCacheAssumption
      <3>4. SlotInv(p, disk[r], result_cache[r])
        BY <3>3, EnsuredKeeps
      <3> QED BY <1>1, <2>2, <3>1, <3>4, UpdatedKeeps
    <2> QED BY <2>1, <2>2, BrokenKeeps
  <1>3. CASE slot[r].status = "built"
    <2>1. s \in Updates(slot[r], r)
      BY <1>3 DEF Prepared
    <2> QED BY <1>1, <1>3, <2>1, UpdatedKeeps
  <1>4. CASE slot[r].status \notin {"none", "built"}
    BY <1>1, <1>4 DEF Prepared
  <1> QED BY <1>2, <1>3, <1>4

\* A memoized answer is in order, and differs from the tree only by what is
\* newer or edited.
LEMMA AnswerKeeps ==
    ASSUME NEW s, NEW d, NEW c, SlotInv(s, d, c), Serving(s),
           NEW f \in Files,
           NEW v, v = IF c[f][s.cache_gen] # Absent THEN c[f][s.cache_gen] ELSE s.index[f]
    PROVE  /\ v \in Texts
           /\ SlotInv(s, d, [c EXCEPT ![f][s.cache_gen] = v])
           /\ v = d[f] \/ f \in s.newer \cup s.edited
  <1> DEFINE k == [c EXCEPT ![f][s.cache_gen] = v]
  <1>1. /\ s \in Slots /\ d \in [Files -> Texts] /\ c \in Results
        /\ s.cache_gen \in 1..MaxGen /\ s.index \in [Files -> Texts]
    BY ResultCacheAssumption DEF SlotInv, SlotType, Slots
  <1>2. c[f] \in [1..MaxGen -> Texts \cup {Absent}]
    BY <1>1 DEF Results
  <1>3. v \in Texts
    BY <1>1, <1>2
  <1>4. k \in Results
    <2>1. [c[f] EXCEPT ![s.cache_gen] = v] \in [1..MaxGen -> Texts \cup {Absent}]
      BY <1>1, <1>2, <1>3
    <2> QED BY <1>1, <2>1 DEF Results
  <1>5. /\ \A g \in Files \ {f} : k[g] = c[g]
        /\ \A n \in 1..MaxGen \ {s.cache_gen} : k[f][n] = c[f][n]
        /\ k[f][s.cache_gen] = v
    BY <1>1, <1>2 DEF Results
  <1>6. \A g \in Files : StaleIn(s, k, g) => StaleIn(s, c, g)
    BY <1>5 DEF StaleIn
  <1>7. NothingAhead(s, k)
    <2> SUFFICES ASSUME NEW g \in Files, NEW n \in s.cache_gen + 1..MaxGen PROVE k[g][n] = Absent
      BY DEF NothingAhead
    <2>1. n \in 1..MaxGen \ {s.cache_gen}
      BY <1>1, ResultCacheAssumption, LaterGenerations
    <2>2. c[g][n] = Absent
      BY DEF SlotInv, NothingAhead
    <2> QED BY <2>1, <2>2, <1>5
  <1>8. SlotInv(s, d, k)
    BY <1>1, <1>4, <1>6, <1>7 DEF SlotInv, SlotType, StaleEdited, StalePending
  <1>9. v = d[f] \/ f \in s.newer \cup s.edited
    <2>1. CASE StaleIn(s, c, f)
      BY <2>1 DEF SlotInv, StaleEdited
    <2>2. CASE ~StaleIn(s, c, f)
      BY <2>2 DEF SlotInv, IndexLags, StaleIn
    <2> QED BY <2>1, <2>2
  <1> QED BY <1>3, <1>8, <1>9

\* A tool's write leaves its file among the edited, and pending or unheard.
LEMMA WriteKeeps ==
    ASSUME NEW s, NEW d, NEW c, SlotInv(s, d, c), s.status = "built",
           NEW f \in Files, NEW t \in Texts
    PROVE  SlotInv(Reindexed(s, f, t), [d EXCEPT ![f] = t], c)
  <1> DEFINE x == Reindexed(s, f, t)
  <1>1. /\ s \in Slots /\ d \in [Files -> Texts] /\ c \in Results
        /\ s.cache_gen # 0 /\ s.index \in [Files -> Texts] /\ Serving(s)
    BY DEF SlotInv, SlotType, Serving
  <1>2. /\ x.status = "built" /\ x.cache_gen = s.cache_gen
        /\ x.index = [s.index EXCEPT ![f] = t]
        /\ x.pending = PendingAfterTool(s, f)
        /\ x.newer = s.newer \ {f} /\ x.edited = s.edited \cup {f}
        /\ x.unheard = IF s.watcher = "listening" THEN s.unheard \ {f} ELSE s.unheard \cup {f}
    BY <1>1 DEF Slots, Reindexed
  <1>3. x.index \in [Files -> Texts] /\ PendingAfterTool(s, f) \in SUBSET Files
    BY <1>1, <1>2 DEF PendingAfterTool, Slots
  <1>4. x \in Slots
    BY <1>1, <1>2, <1>3 DEF Slots, Reindexed
  <1> HIDE DEF x
  <1>5. \A g \in Files \ {f} : StaleIn(x, c, g) => StaleIn(s, c, g)
    BY <1>1, <1>2 DEF StaleIn
  <1>6. StaleEdited(x, c) /\ StalePending(x, c)
    BY <1>2, <1>5 DEF SlotInv, StaleEdited, StalePending, PendingAfterTool
  <1>7. IndexLags(x, [d EXCEPT ![f] = t])
    BY <1>1, <1>2 DEF SlotInv, IndexLags, PendingAfterTool
  <1>8. SlotInv(x, [d EXCEPT ![f] = t], c)
    BY <1>1, <1>2, <1>3, <1>4, <1>6, <1>7 DEF SlotInv, SlotType, NothingAhead
  <1> QED BY <1>8 DEF x

-----------------------------------------------------------------------------
(* One step.                                                               *)

\* A step that leaves all projects but r as they are.
LEMMA OthersKeep ==
    ASSUME CacheInv, SessionType', NEW r \in Roots, UNCHANGED watched,
           \A q \in Roots \ {r} : /\ slot'[q] = slot[q] /\ disk'[q] = disk[q]
                                  /\ result_cache'[q] = result_cache[q],
           SlotInv(slot'[r], disk'[r], result_cache'[r])
    PROVE  CacheInv'
  BY DEF CacheInv

\* A set of numbers has a least one.
LEMMA LeastNumber ==
    ASSUME NEW S, S \subseteq Nat, S # {}
    PROVE  \E i \in S : \A j \in S : i <= j
  <1> DEFINE R == OpToRel(<, Nat)
  <1>1. \E i \in S : \A j \in S : <<j, i>> \notin R
    <2>1. IsWellFoundedOn(R, Nat)
      BY NatLessThanWellFounded
    <2> HIDE DEF R
    <2> QED BY <2>1, WFMin
  <1>2. \A i, j \in Nat : j < i => <<j, i>> \in R
    BY DEF OpToRel
  <1> HIDE DEF R
  <1>3. PICK i \in S : \A j \in S : <<j, i>> \notin R
    BY <1>1
  <1>4. ASSUME NEW j \in S PROVE i <= j
    <2>1. i \in Nat /\ j \in Nat /\ ~(j < i)
      BY <1>2, <1>3
    <2> QED BY <2>1
  <1> QED BY <1>4

\* Names stand for registered roots, so for roots.
LEMMA ResolveType ==
    ASSUME projects \in Seq(Roots), active_root \in Roots \cup {Absent}, NEW n
    PROVE  Resolve(n) \in Roots \cup {Absent}
  <1>1. \A i \in DOMAIN projects : projects[i] \in Roots
    OBVIOUS
  <1>2. \A S \in SUBSET DOMAIN projects : \A b : Chosen(S, b) \in Roots \cup {Absent}
    <2> SUFFICES ASSUME NEW S \in SUBSET DOMAIN projects, NEW b, S # {}
                 PROVE  projects[CHOOSE i \in S : \A j \in S : i <= j] \in Roots
      BY DEF Chosen
    <2>1. S \subseteq Nat
      OBVIOUS
    <2>2. \E i \in S : \A j \in S : i <= j
      BY <2>1, LeastNumber
    <2> QED BY <1>1, <2>2
  <1>3. Nearest(n, Best(n)) \in Roots \cup {Absent}
    BY <1>2 DEF Nearest
  <1>4. Len(projects) = 1 => projects[1] \in Roots
    BY <1>1
  <1> QED BY <1>3, <1>4 DEF Resolve

\* A slot without an index is in order when nothing is memoized.
LEMMA NewSlotKeeps ==
    ASSUME NEW r \in Roots, NEW d \in [Files -> Texts]
    PROVE  SlotInv(NewSlot, d, NoResults[r])
  <1>1. NewSlot \in Slots /\ NoResults[r] \in Results /\ ~Serving(NewSlot)
        /\ NewSlot.cache_gen = 0
    BY ResultCacheAssumption DEF NewSlot, Slots, Statuses, NoIndex, NoResults, Results, Serving
  <1>2. NothingAhead(NewSlot, NoResults[r])
    BY <1>1, ResultCacheAssumption DEF NothingAhead, NoResults
  <1> QED
    BY <1>1, <1>2 DEF SlotInv, SlotType, StaleEdited, StalePending, StaleIn, IndexLags

\* The roots of a workspace are a sequence of roots.
LEMMA WorkspaceType ==
    ASSUME NEW w \in Workspaces
    PROVE  w.roots \in Seq(Roots) /\ w.active \in Roots \cup {Absent}
  <1>1. PICK n \in 0..Cardinality(Roots) : w.roots \in [1..n -> Roots]
    BY DEF Workspaces
  <1>2. n \in Nat
    BY ResultCacheAssumption, FS_CardinalityType
  <1>3. w.roots \in Seq(Roots)
    BY <1>1, <1>2, SeqDef
  <1> QED BY <1>3 DEF Workspaces

\* The first state: no index anywhere, nothing memoized.
LEMMA CacheInit == Init => CacheInv
  <1> SUFFICES ASSUME Init PROVE CacheInv
    OBVIOUS
  <1>1. PICK w \in Workspaces : projects = w.roots /\ active_root = w.active
    BY DEF Init
  <1>2. w.roots \in Seq(Roots) /\ w.active \in Roots \cup {Absent}
    BY WorkspaceType
  <1>3. NewSlot \in Slots /\ NoResults \in [Roots -> Results]
    BY ResultCacheAssumption DEF NewSlot, Slots, Statuses, NoIndex, NoResults, Results
  <1>4. SessionType
    BY <1>1, <1>2, <1>3 DEF Init, SessionType, NoReply
  <1>5. \A r \in Roots : SlotInv(slot[r], disk[r], result_cache[r])
    BY <1>3, <1>4, NewSlotKeeps DEF Init, SessionType
  <1> QED BY <1>4, <1>5 DEF CacheInv

\* The part of the type invariant a call about r has to keep.
LEMMA CallType ==
    ASSUME CacheInv, NEW r \in Roots, NEW s, slot' = [slot EXCEPT ![r] = s], s \in Slots,
           UNCHANGED <<watched, projects>>, active_root' \in Roots \cup {Absent},
           disk' \in [Roots -> [Files -> Texts]], result_cache' \in [Roots -> Results],
           reply' \in [root : Roots \cup {Absent}, file : Files \cup {Absent},
                       value : Texts \cup {Absent}]
    PROVE  SessionType' /\ slot'[r] = s /\ \A q \in Roots \ {r} : slot'[q] = slot[q]
  BY DEF CacheInv, SessionType

\* The slot a call leaves is the one _prep made, when the handler does not
\* write: with the results and the tree as they are, the others keep too.
LEMMA PrepStep ==
    ASSUME CacheInv, NEW r \in Roots, NEW s, Leaves(r, s),
           SlotInv(s, disk[r], result_cache[r]),
           UNCHANGED <<watched, disk, result_cache>>,
           projects' \in Seq(Roots), active_root' \in Roots \cup {Absent}, reply' = NoReply
    PROVE  CacheInv'
  <1>1. slot' = [slot EXCEPT ![r] = s] /\ s \in Slots
    BY DEF Leaves, SlotInv, SlotType
  <1>2. slot'[r] = s /\ \A q \in Roots \ {r} : slot'[q] = slot[q]
    BY <1>1 DEF CacheInv, SessionType
  <1>3. SessionType'
    BY <1>1 DEF CacheInv, SessionType, NoReply
  <1> QED BY <1>2, <1>3, OthersKeep

\* Any build, by whatever tool, keeps the slot in order.
LEMMA BuildsKeep ==
    ASSUME CacheInv, NEW r \in Roots, NEW s \in Builds(r), s.cache_gen <= MaxGen
    PROVE  SlotInv(s, disk[r], result_cache[r])
  <1>1. CASE s = Built(r)
    <2>1. s.cache_gen = slot[r].cache_gen + 1
      BY <1>1 DEF CacheInv, SessionType, Built, Slots
    <2> QED BY <1>1, <2>1, BuiltKeeps
  <1> QED BY <1>1, BrokenKeeps DEF Builds

\* An edit changes the tree only, and is newer where an index is.
LEMMA EditKeeps ==
    ASSUME CacheInv, NEW r \in Roots, NEW f \in Files, Edit(r, f)
    PROVE  CacheInv'
  <1>1. PICK t \in Texts : disk' = [disk EXCEPT ![r][f] = t]
    BY DEF Edit
  <1>2. reply' = NoReply /\ UNCHANGED <<watched, projects, active_root, result_cache>>
    BY DEF Edit
  <1>3. /\ slot[r] \in Slots /\ disk[r] \in [Files -> Texts] /\ result_cache[r] \in Results
        /\ SlotInv(slot[r], disk[r], result_cache[r])
    BY DEF CacheInv, SessionType
  <1>4. /\ disk' \in [Roots -> [Files -> Texts]]
        /\ disk'[r] = [disk[r] EXCEPT ![f] = t]
        /\ \A q \in Roots \ {r} : disk'[q] = disk[q]
    BY <1>1, <1>3 DEF CacheInv, SessionType
  <1>5. PICK s : /\ slot' = [slot EXCEPT ![r] = s]
                 /\ \/ s = slot[r] /\ slot[r].status = "none"
                    \/ \E N \in {slot[r].pending, slot[r].pending \cup {f}} :
                          s = [slot[r] EXCEPT !.newer = @ \cup {f}, !.pending = N]
    <2>1. CASE slot[r].status = "none"
      BY <2>1 DEF Edit, CacheInv, SessionType
    <2>2. CASE slot[r].status # "none"
      BY <2>2 DEF Edit
    <2> QED BY <2>1, <2>2
  <1>0. (s = slot[r] /\ s.status = "none") \/ \E N \in SUBSET Files : /\ slot[r].pending \subseteq N
            /\ s = [slot[r] EXCEPT !.newer = slot[r].newer \cup {f}, !.pending = N]
    BY <1>3, <1>5 DEF Slots
  <1>6. /\ s \in Slots /\ s.status = slot[r].status /\ s.index = slot[r].index
        /\ s.cache_gen = slot[r].cache_gen /\ s.edited = slot[r].edited
        /\ slot[r].pending \subseteq s.pending /\ slot[r].newer \subseteq s.newer
        /\ s.unheard = slot[r].unheard
        /\ s.status # "none" => f \in s.newer
    <2>1. CASE s = slot[r] /\ s.status = "none"
      BY <1>3, <2>1 DEF Slots
    <2>2. ASSUME NEW N \in SUBSET Files, slot[r].pending \subseteq N,
                 s = [slot[r] EXCEPT !.newer = slot[r].newer \cup {f}, !.pending = N]
          PROVE  /\ s \in Slots /\ s.status = slot[r].status /\ s.index = slot[r].index
                 /\ s.cache_gen = slot[r].cache_gen /\ s.edited = slot[r].edited
                 /\ slot[r].pending \subseteq s.pending /\ slot[r].newer \subseteq s.newer
                 /\ s.unheard = slot[r].unheard /\ f \in s.newer
      BY <1>3, <2>2 DEF Slots
    <2> QED BY <1>0, <2>1, <2>2
  <1>7. SlotInv(s, disk'[r], result_cache[r])
    <2>1. \A g \in Files : StaleIn(s, result_cache[r], g) => StaleIn(slot[r], result_cache[r], g)
      BY <1>6 DEF StaleIn, Serving
    <2>2. IndexLags(s, disk'[r])
      BY <1>3, <1>4, <1>6 DEF SlotInv, IndexLags, Serving
    <2> QED
      BY <1>3, <1>4, <1>6, <2>1, <2>2
      DEF SlotInv, SlotType, NothingAhead, StaleEdited, StalePending, Serving
  <1>8. SessionType' /\ slot'[r] = s /\ \A q \in Roots \ {r} : slot'[q] = slot[q]
    BY <1>2, <1>4, <1>5, <1>6 DEF CacheInv, SessionType, NoReply
  <1> QED BY <1>2, <1>4, <1>7, <1>8, OthersKeep

\* The watcher's thread changes nothing of that but itself.
LEMMA WatcherKeeps ==
    ASSUME CacheInv, NEW r \in Roots, WatcherThread(r)
    PROVE  CacheInv' /\ reply' = NoReply
  <1>1. PICK w \in {"listening", "dead"} : slot' = [slot EXCEPT ![r].watcher = w]
    BY DEF WatcherThread
  <1>2. reply' = NoReply /\ UNCHANGED <<watched, projects, active_root, disk, result_cache>>
    BY DEF WatcherThread
  <1> DEFINE s == [slot[r] EXCEPT !.watcher = w]
  <1>3. slot[r] \in Slots /\ SlotInv(slot[r], disk[r], result_cache[r])
    BY DEF CacheInv, SessionType
  <1>4. /\ s \in Slots /\ s.status = slot[r].status /\ s.index = slot[r].index
        /\ s.cache_gen = slot[r].cache_gen /\ s.edited = slot[r].edited
        /\ s.pending = slot[r].pending /\ s.newer = slot[r].newer
        /\ s.unheard = slot[r].unheard
    BY <1>1, <1>3 DEF Slots
  <1>5. /\ SessionType' /\ slot'[r] = s
        /\ \A q \in Roots \ {r} : slot'[q] = slot[q]
    BY <1>1, <1>2, <1>4 DEF CacheInv, SessionType, NoReply
  <1> HIDE DEF s
  <1>6. SlotInv(s, disk[r], result_cache[r])
    BY <1>3, <1>4 DEF SlotInv, SlotType, NothingAhead, StaleEdited, StalePending,
                      IndexLags, StaleIn, Serving
  <1> QED BY <1>2, <1>5, <1>6, OthersKeep

\* The projects a call may be about are roots.
LEMMA AboutRoots ==
    ASSUME CacheInv
    PROVE  About \subseteq Roots /\ {Resolve(n) : n \in Names} \ {Absent} \subseteq Roots
  BY ResolveType DEF CacheInv, SessionType, About

\* A query records what the index gives, unless something is on record.
LEMMA QueryKeeps ==
    ASSUME CacheInv, NEW f \in Files, Query(f)
    PROVE  /\ CacheInv'
           /\ reply' # NoReply =>
                 LET s == slot'[reply'.root]
                 IN  \/ reply'.value = disk[reply'.root][reply'.file]
                     \/ reply'.file \in s.newer \cup s.edited
  <1>1. PICK r \in Roots :
          /\ active_root' = r /\ UNCHANGED <<watched, projects, disk>>
          /\ \E s \in Prepared(r) :
                LET cached == result_cache[r][f][s.cache_gen]
                    result == IF cached # Absent THEN cached ELSE s.index[f]
                IN  /\ Leaves(r, s)
                    /\ IF Answers(r, s)
                       THEN /\ result_cache' = [result_cache EXCEPT ![r][f][s.cache_gen] = result]
                            /\ reply' = [root |-> r, file |-> f, value |-> result]
                       ELSE reply' = NoReply /\ UNCHANGED result_cache
    BY AboutRoots DEF Query
  <1>2. PICK s \in Prepared(r) :
          /\ Leaves(r, s)
          /\ IF Answers(r, s)
             THEN LET result == IF result_cache[r][f][s.cache_gen] # Absent
                                THEN result_cache[r][f][s.cache_gen] ELSE s.index[f]
                  IN  /\ result_cache' = [result_cache EXCEPT ![r][f][s.cache_gen] = result]
                      /\ reply' = [root |-> r, file |-> f, value |-> result]
             ELSE reply' = NoReply /\ UNCHANGED result_cache
    BY <1>1
  <1>3. SlotInv(s, disk[r], result_cache[r])
    BY <1>2, PreparedKeeps DEF Leaves
  <1>4. CASE ~Answers(r, s)
    <2>1. reply' = NoReply /\ UNCHANGED result_cache
      BY <1>2, <1>4
    <2>2. projects' \in Seq(Roots) /\ active_root' \in Roots \cup {Absent}
      BY <1>1 DEF CacheInv, SessionType
    <2> QED BY <1>1, <1>2, <1>3, <2>1, <2>2, PrepStep
  <1>5. CASE Answers(r, s)
    <2> DEFINE result == IF result_cache[r][f][s.cache_gen] # Absent
                         THEN result_cache[r][f][s.cache_gen] ELSE s.index[f]
               c == [result_cache[r] EXCEPT ![f][s.cache_gen] = result]
    <2>1. /\ result_cache' = [result_cache EXCEPT ![r][f][s.cache_gen] = result]
          /\ reply' = [root |-> r, file |-> f, value |-> result]
      BY <1>2, <1>5
    <2>2. Serving(s)
      BY <1>5 DEF Answers, Serving
    <2>3. /\ result \in Texts
          /\ SlotInv(s, disk[r], c)
          /\ result = disk[r][f] \/ f \in s.newer \cup s.edited
      <3>2. PICK v : v = result
        OBVIOUS
      <3> HIDE DEF result
      <3>3. v = IF result_cache[r][f][s.cache_gen] # Absent
                THEN result_cache[r][f][s.cache_gen] ELSE s.index[f]
        BY <3>2 DEF result
      <3>4. /\ v \in Texts
            /\ SlotInv(s, disk[r], [result_cache[r] EXCEPT ![f][s.cache_gen] = v])
            /\ v = disk[r][f] \/ f \in s.newer \cup s.edited
        BY <1>3, <2>2, <3>3, AnswerKeeps
      <3> QED BY <3>2, <3>4
    <2> HIDE DEF result
    <2>4. c \in Results
      BY <2>3 DEF SlotInv, SlotType
    <2>5. /\ result_cache' = [result_cache EXCEPT ![r] = c]
          /\ result_cache' \in [Roots -> Results]
          /\ result_cache'[r] = c
          /\ \A q \in Roots \ {r} : result_cache'[q] = result_cache[q]
      BY <2>1, <2>4 DEF CacheInv, SessionType
    <2>6. slot' = [slot EXCEPT ![r] = s] /\ s \in Slots
      BY <1>2, <1>3 DEF Leaves, SlotInv, SlotType
    <2>7. SessionType' /\ slot'[r] = s /\ \A q \in Roots \ {r} : slot'[q] = slot[q]
      <3>1. reply' \in [root : Roots \cup {Absent}, file : Files \cup {Absent},
                        value : Texts \cup {Absent}]
        BY <2>1, <2>3
      <3>2. active_root' \in Roots \cup {Absent}
        BY <1>1
      <3>3. disk' \in [Roots -> [Files -> Texts]]
        BY <1>1 DEF CacheInv, SessionType
      <3> QED BY <1>1, <2>5, <2>6, <3>1, <3>2, <3>3, CallType
    <2>8. CacheInv'
      BY <1>1, <2>3, <2>5, <2>7, OthersKeep
    <2> QED BY <2>1, <2>3, <2>7, <2>8
  <1> QED BY <1>4, <1>5

\* A tool leaves its own write in edited, and pending under a watcher.
LEMMA ToolEditKeeps ==
    ASSUME CacheInv, NEW f \in Files, ToolEdit(f)
    PROVE  CacheInv' /\ reply' = NoReply
  <1>1. PICK r \in Roots :
          /\ active_root' = r /\ reply' = NoReply
          /\ UNCHANGED <<watched, projects, result_cache>>
          /\ \E s \in Prepared(r), t \in Texts \ {disk[r][f]} :
                /\ s.status = "built"
                /\ disk' = [disk EXCEPT ![r][f] = t]
                /\ Leaves(r, Reindexed(s, f, t))
    BY AboutRoots DEF ToolEdit
  <1>2. PICK s \in Prepared(r), t \in Texts :
                /\ s.status = "built"
                /\ disk' = [disk EXCEPT ![r][f] = t]
                /\ Leaves(r, Reindexed(s, f, t))
    BY <1>1
  <1>3. slot' = [slot EXCEPT ![r] = Reindexed(s, f, t)]
    BY <1>2 DEF Leaves
  <1>4. SlotInv(s, disk[r], result_cache[r])
    <2>1. Reindexed(s, f, t).cache_gen <= MaxGen
      BY <1>2 DEF Leaves
    <2>2. Reindexed(s, f, t).cache_gen = s.cache_gen
      BY PreparedShape DEF Reindexed, AnySlots
    <2> QED BY <2>1, <2>2, PreparedKeeps
  <1>5. SlotInv(Reindexed(s, f, t), [disk[r] EXCEPT ![f] = t], result_cache[r])
    BY <1>2, <1>4, WriteKeeps
  <1>6. Reindexed(s, f, t) \in Slots
    BY <1>5 DEF SlotInv, SlotType
  <1>8. /\ disk' \in [Roots -> [Files -> Texts]]
        /\ disk'[r] = [disk[r] EXCEPT ![f] = t]
        /\ \A q \in Roots \ {r} : disk'[q] = disk[q]
    BY <1>2 DEF CacheInv, SessionType
  <1>9. /\ SessionType' /\ slot'[r] = Reindexed(s, f, t)
        /\ \A q \in Roots \ {r} : slot'[q] = slot[q]
    <2>1. result_cache' \in [Roots -> Results]
      BY <1>1 DEF CacheInv, SessionType
    <2>2. reply' \in [root : Roots \cup {Absent}, file : Files \cup {Absent},
                      value : Texts \cup {Absent}]
      BY <1>1 DEF NoReply
    <2>3. active_root' \in Roots \cup {Absent}
      BY <1>1
    <2> QED BY <1>1, <1>3, <1>6, <1>8, <2>1, <2>2, <2>3, CallType
  <1>10. \A q \in Roots : result_cache'[q] = result_cache[q]
    BY <1>1
  <1> QED BY <1>1, <1>5, <1>8, <1>9, <1>10, OthersKeep

\* The other tools: a call that only prepares the slot ...
LEMMA ConsultKeeps ==
    ASSUME CacheInv, Consult
    PROVE  CacheInv' /\ reply' = NoReply
  <1>1. PICK r \in Roots : /\ active_root' = r /\ \E s \in Prepared(r) : Leaves(r, s)
                           /\ reply' = NoReply
                           /\ UNCHANGED <<watched, projects, disk, result_cache>>
    BY AboutRoots DEF Consult
  <1>2. PICK s \in Prepared(r) : Leaves(r, s)
    BY <1>1
  <1>3. SlotInv(s, disk[r], result_cache[r])
    BY <1>2, PreparedKeeps DEF Leaves
  <1>4. projects' \in Seq(Roots) /\ active_root' \in Roots \cup {Absent}
    BY <1>1 DEF CacheInv, SessionType
  <1> QED BY <1>1, <1>2, <1>3, <1>4, PrepStep

\* ... switch_project, which may build ...
LEMMA SwitchKeeps ==
    ASSUME CacheInv, Switch
    PROVE  CacheInv' /\ reply' = NoReply
  <1>1. PICK r \in Roots :
          /\ active_root' = r
          /\ \E s \in IF slot[r].status = "none" THEN Ensured(r) ELSE {slot[r]} : Leaves(r, s)
          /\ reply' = NoReply /\ UNCHANGED <<watched, projects, disk, result_cache>>
    BY AboutRoots DEF Switch
  <1>2. PICK s : Leaves(r, s) /\ (s \in Ensured(r) \/ s = slot[r])
    BY <1>1
  <1>3. SlotInv(s, disk[r], result_cache[r])
    BY <1>2, EnsuredKeeps DEF Leaves, CacheInv
  <1>4. projects' \in Seq(Roots) /\ active_root' \in Roots \cup {Absent}
    BY <1>1 DEF CacheInv, SessionType
  <1> QED BY <1>1, <1>2, <1>3, <1>4, PrepStep

\* ... set_project_root, which builds what it registers ...
LEMMA SetProjectRootKeeps ==
    ASSUME CacheInv, NEW r \in Roots, SetProjectRoot(r)
    PROVE  CacheInv' /\ reply' = NoReply
  <1>1. PICK s \in Builds(r) : Leaves(r, s)
    BY DEF SetProjectRoot
  <1>2. SlotInv(s, disk[r], result_cache[r])
    BY <1>1, BuildsKeep DEF Leaves
  <1>3. /\ projects' \in Seq(Roots) /\ active_root' \in Roots \cup {Absent}
        /\ reply' = NoReply /\ UNCHANGED <<watched, disk, result_cache>>
    BY DEF SetProjectRoot, CacheInv, SessionType
  <1> QED BY <1>1, <1>2, <1>3, PrepStep

\* ... and reindex.
LEMMA ReindexKeeps ==
    ASSUME CacheInv, Reindex
    PROVE  CacheInv' /\ reply' = NoReply
  <1>1. PICK r \in Roots :
          /\ active_root' \in {r, active_root}
          /\ \E s \in Builds(r) : Leaves(r, s)
          /\ reply' = NoReply /\ UNCHANGED <<watched, projects, disk, result_cache>>
    BY AboutRoots DEF Reindex
  <1>2. PICK s \in Builds(r) : Leaves(r, s)
    BY <1>1
  <1>3. SlotInv(s, disk[r], result_cache[r])
    BY <1>2, BuildsKeep DEF Leaves
  <1>4. projects' \in Seq(Roots) /\ active_root' \in Roots \cup {Absent}
    BY <1>1 DEF CacheInv, SessionType
  <1> QED BY <1>1, <1>2, <1>3, <1>4, PrepStep

\* A restart forgets every index and every result.
LEMMA RestartKeeps ==
    ASSUME CacheInv, Restart
    PROVE  CacheInv' /\ reply' = NoReply
  <1>1. PICK w \in Workspaces : projects' = w.roots /\ active_root' = w.active
    BY DEF Restart
  <1>2. w.roots \in Seq(Roots) /\ w.active \in Roots \cup {Absent}
    BY WorkspaceType
  <1>3. NewSlot \in Slots /\ NoResults \in [Roots -> Results]
    BY ResultCacheAssumption DEF NewSlot, Slots, Statuses, NoIndex, NoResults, Results
  <1>4. SessionType'
    BY <1>1, <1>2, <1>3 DEF Restart, CacheInv, SessionType, NoReply
  <1>5. \A r \in Roots : slot'[r] = NewSlot /\ result_cache'[r] = NoResults[r]
    BY DEF Restart
  <1>6. \A r \in Roots : disk[r] \in [Files -> Texts] /\ disk' = disk
    BY DEF Restart, CacheInv, SessionType
  <1>7. \A r \in Roots : SlotInv(slot'[r], disk'[r], result_cache'[r])
    BY <1>5, <1>6, NewSlotKeeps
  <1> QED BY <1>4, <1>7 DEF CacheInv, Restart

\* Every step keeps the invariant, and says what AnswersLagOnlyBehind does.
LEMMA CacheStep ==
    ASSUME CacheInv, [Next]_vars
    PROVE  /\ CacheInv'
           /\ vars' # vars /\ reply' # NoReply =>
                 LET s == slot'[reply'.root]
                 IN  \/ reply'.value = disk[reply'.root][reply'.file]
                     \/ reply'.file \in s.newer \cup s.edited
  <1>1. CASE UNCHANGED vars
    BY <1>1 DEF vars, CacheInv, SessionType
  <1>2. ASSUME NEW r \in Roots, NEW f \in Files, Edit(r, f) PROVE CacheInv' /\ reply' = NoReply
    BY <1>2, EditKeeps DEF Edit
  <1>3. ASSUME Call
        PROVE  \/ CacheInv' /\ reply' = NoReply
               \/ \E f \in Files : Query(f)
    BY <1>3, ConsultKeeps, SwitchKeeps, ReindexKeeps, ToolEditKeeps DEF Call
  <1> QED
    BY <1>1, <1>2, <1>3, SetProjectRootKeeps, WatcherKeeps, RestartKeeps, QueryKeeps DEF Next

\* The invariant holds of every reachable state.
THEOREM CacheInvariant == Spec => []CacheInv
  <1>1. CacheInv /\ [Next]_vars => CacheInv'
    BY CacheStep
  <1> QED BY <1>1, CacheInit, PTL DEF Spec

-----------------------------------------------------------------------------
(* The properties.                                                         *)

\* The state of a session and of every slot has its type.
THEOREM SessionTypes == Spec => []TypeOK
  <1>1. CacheInv => TypeOK
    BY DEF CacheInv, SessionType, Results, TypeOK
  <1> QED BY <1>1, CacheInvariant, PTL

\* A memoized result that disagrees with the index is about a file a tool
\* wrote since cache_gen was last bumped, and nothing is memoized ahead.
THEOREM StaleResultsAreToolEdits == Spec => []StaleOnlyAfterToolEdit
  <1>1. CacheInv => StaleOnlyAfterToolEdit
    BY DEF CacheInv, SlotInv, StaleEdited, NothingAhead, StaleIn, Serving, Stale, Serves,
           StaleOnlyAfterToolEdit
  <1> QED BY <1>1, CacheInvariant, PTL

\* While a watcher listens, the event that ends a stale result is on its way,
\* unless the tool wrote before the watcher listened.
THEOREM StaleResultsEnd == Spec => []StaleUntilReported
  <1>1. CacheInv => StaleUntilReported
    BY DEF CacheInv, SlotInv, StalePending, StaleIn, Serving, Stale, Serves, StaleUntilReported
  <1> QED BY <1>1, CacheInvariant, PTL

\* An answer that is not what is on disk leaves out a change of its project
\* that is not indexed yet, or one that a tool made.
THEOREM AnswersLag == Spec => AnswersLagOnlyBehind
  <1>1. CacheInv /\ [Next]_vars =>
            [reply' # NoReply =>
                LET s == slot'[reply'.root]
                IN  \/ reply'.value = disk[reply'.root][reply'.file]
                    \/ reply'.file \in s.newer \cup s.edited]_vars
    BY CacheStep
  <1> QED BY <1>1, CacheInvariant, PTL DEF Spec, AnswersLagOnlyBehind

-----------------------------------------------------------------------------
(* Names.                                                                  *)

\* The best fit among some roots is one of their fits, and the least.
LEMMA BestFit ==
    ASSUME NEW n, NEW K, K = {Fit[n][q] : q \in Registered} \cap 1..Part, K # {}
    PROVE  Best(n) \in K /\ \A k \in K : Best(n) <= k
  <1>1. K \subseteq Nat
    BY DEF Part
  <1>2. \E k \in K : \A j \in K : k <= j
    BY <1>1, LeastNumber
  <1> QED BY <1>2 DEF Best

\* A name that stands for a root stands for the first of those it fits best.
StandsForFirst(n) ==
    /\ Best(n) \in {Fit[n][q] : q \in Registered} \cap 1..Part
    /\ \A k \in {Fit[n][q] : q \in Registered} \cap 1..Part : Best(n) <= k
    /\ \E i \in DOMAIN projects :
          /\ Resolve(n) = projects[i] /\ Fit[n][projects[i]] = Best(n)
          /\ \A j \in DOMAIN projects : Fit[n][projects[j]] = Best(n) => i <= j
Meant == projects \in Seq(Roots) => \A n \in Names : Resolve(n) # Absent => StandsForFirst(n)
LEMMA Meaning == Meant
  <1> SUFFICES ASSUME projects \in Seq(Roots), NEW n \in Names, Resolve(n) # Absent
               PROVE  StandsForFirst(n)
    BY DEF Meant
  <1> DEFINE K == {Fit[n][q] : q \in Registered} \cap 1..Part
             places == {i \in DOMAIN projects : Fit[n][projects[i]] = Best(n)}
  <1>1. Resolve(n) = Chosen(places, Best(n))
    BY ResultCacheAssumption DEF Resolve, Nearest
  <1>2. places # {}
    BY <1>1 DEF Chosen
  <1>3. K # {}
    <2> SUFFICES ASSUME K = {} PROVE FALSE
      OBVIOUS
    <2>1. Best(n) = 0
      BY DEF Best
    <2>2. PICK i \in DOMAIN projects : Fit[n][projects[i]] = 0
      BY <1>2, <2>1
    <2>3. projects[i] \in Roots
      OBVIOUS
    <2>4. Fit[n][projects[i]] \in Levels
      BY <2>3, ResultCacheAssumption
    <2> QED BY <2>2, <2>4 DEF Levels
  <1>4. Best(n) \in K /\ \A k \in K : Best(n) <= k
    BY <1>3, BestFit
  <1>5. Resolve(n) = projects[CHOOSE i \in places : \A j \in places : i <= j]
    BY <1>1 DEF Chosen
  <1>6. \E i \in places : \A j \in places : i <= j
    <2>1. places \subseteq Nat
      OBVIOUS
    <2> QED BY <1>2, <2>1, LeastNumber
  <1> QED BY <1>4, <1>5, <1>6 DEF StandsForFirst

\* The same of the state after a step.
LEMMA MeaningPrimed == Meant'
  BY Meaning, PTL

\* One more project leaves a name its meaning, takes it away, or gives it to
\* a project it fits better.
LEMMA OneMoreProject ==
    ASSUME projects \in Seq(Roots), NEW r \in Roots, projects' = Append(projects, r),
           NEW n \in Names, Resolve(n) # Absent, Resolve(n)' # Absent, Resolve(n)' # Resolve(n)
    PROVE  Fit[n][Resolve(n)'] < Fit[n][Resolve(n)]
  <1> DEFINE K == {Fit[n][q] : q \in Registered} \cap 1..Part
  <1>1. /\ projects' \in Seq(Roots) /\ Len(projects') = Len(projects) + 1
        /\ \A i \in DOMAIN projects : i \in DOMAIN projects' /\ projects'[i] = projects[i]
        /\ DOMAIN projects = 1..Len(projects) /\ DOMAIN projects' = 1..Len(projects) + 1
        /\ Len(projects) \in Nat
    OBVIOUS
  <1>2. PICK i \in DOMAIN projects :
            /\ Resolve(n) = projects[i] /\ Fit[n][projects[i]] = Best(n)
            /\ \A j \in DOMAIN projects : Fit[n][projects[j]] = Best(n) => i <= j
    BY Meaning DEF Meant, StandsForFirst
  <1>3. /\ Best(n)' \in {Fit[n][q] : q \in Registered'} \cap 1..Part
        /\ \A k \in {Fit[n][q] : q \in Registered'} \cap 1..Part : Best(n)' <= k
        /\ \E m \in DOMAIN projects' :
              /\ Resolve(n)' = projects'[m] /\ Fit[n][projects'[m]] = Best(n)'
              /\ \A j \in DOMAIN projects' : Fit[n][projects'[j]] = Best(n)' => m <= j
    BY <1>1, MeaningPrimed DEF Meant, StandsForFirst
  <1>4. PICK m \in DOMAIN projects' :
            /\ Resolve(n)' = projects'[m] /\ Fit[n][projects'[m]] = Best(n)'
            /\ \A j \in DOMAIN projects' : Fit[n][projects'[j]] = Best(n)' => m <= j
    BY <1>3
  <1>5. Best(n) \in Nat /\ Best(n)' \in Nat /\ Best(n)' <= Best(n)
    <2>1. Registered \subseteq Registered'
      BY <1>1 DEF Registered
    <2>2. Best(n) \in K
      BY Meaning DEF Meant, StandsForFirst
    <2> QED BY <1>3, <2>1, <2>2 DEF Part
  <1>6. Best(n)' # Best(n)
    <2> SUFFICES ASSUME Best(n)' = Best(n) PROVE FALSE
      OBVIOUS
    <2>1. m <= i /\ i \in DOMAIN projects'
      BY <1>1, <1>2, <1>4
    <2>2. m \in DOMAIN projects /\ projects'[m] = projects[m]
      BY <1>1, <2>1
    <2>3. i <= m
      BY <1>2, <1>4, <2>2
    <2>4. m = i
      BY <1>1, <2>1, <2>2, <2>3
    <2> QED BY <1>2, <1>4, <2>2, <2>4
  <1> QED BY <1>2, <1>4, <1>5, <1>6

\* As projects are registered, a name never goes over to one it fits less or
\* as well.
THEOREM NamesKeep == Spec => NamesKeepTheirProject
  <1>1. ASSUME CacheInv, [Next]_vars, projects' # projects, ~Restart,
               NEW n \in Names, Resolve(n) # Absent
        PROVE  \/ Resolve(n)' \in {Resolve(n), Absent}
               \/ Fit[n][Resolve(n)'] < Fit[n][Resolve(n)]
    <2>1. PICK r \in Roots : SetProjectRoot(r)
      BY <1>1 DEF vars, Next, Edit, WatcherThread, Call, Consult, Switch, Reindex, Query, ToolEdit
    <2>2. projects' = Append(projects, r) /\ projects \in Seq(Roots)
      BY <1>1, <2>1 DEF SetProjectRoot, CacheInv, SessionType
    <2> QED BY <1>1, <2>2, OneMoreProject
  <1>2. CacheInv /\ [Next]_vars =>
            [projects' # projects /\ ~Restart =>
                \A n \in Names :
                    Resolve(n) # Absent =>
                        \/ Resolve(n)' \in {Resolve(n), Absent}
                        \/ Fit[n][Resolve(n)'] < Fit[n][Resolve(n)]]_vars
    BY <1>1
  <1> QED BY <1>2, CacheInvariant, PTL DEF Spec, NamesKeepTheirProject
=============================================================================
