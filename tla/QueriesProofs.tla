---------------------------- MODULE QueriesProofs ----------------------------
(* What the graph queries report, for any index, walk order and limit.      *)
EXTENDS Queries, GraphProofs

(* What the graph makes of names.                                           *)

\* The index asked is one of those given.
Given == index \in Indexes

LEMMA GraphTypes ==
    ASSUME Given
    PROVE  /\ DOMAIN deps \subseteq Names
           /\ \A n \in DOMAIN deps : deps[n] \subseteq Names
           /\ \A n : Referrers(deps, n) \subseteq Names
           /\ \A f : Importers(f) \subseteq Files
  BY QueriesAssumption DEF Given, deps, Referrers, Importers

LEMMA AliasesAreNames ==
    /\ \A n \in Names : n \in ClassAliases(n) /\ ClassAliases(n) \subseteq Names
    /\ \A S \in SUBSET Names : S \subseteq WithMethods(S) /\ WithMethods(S) \subseteq Names
  <1>1. \A n \in Names : n \in ClassAliases(n) /\ ClassAliases(n) \subseteq Names
    BY SymbolsAssumption DEF ClassAliases, Functions
  <1> QED BY <1>1 DEF WithMethods

LEMMA OwnersAreFew ==
    /\ \A n : OwnersOf(n) \subseteq Classes
    /\ \A c \in Classes : OwnersOf(c) = {}
    /\ \A c \in Classes : \A n \in Methods[c] : OwnersOf(n) = {c}
  <1>1. \A n : OwnersOf(n) \subseteq Classes
    BY DEF OwnersOf
  <1>2. \A c \in Classes : OwnersOf(c) = {}
    BY SymbolsAssumption DEF OwnersOf, Functions
  <1>3. ASSUME NEW c \in Classes, NEW n \in Methods[c] PROVE OwnersOf(n) = {c}
    <2>1. n \in Functions /\ c \in OwnersOf(n)
      BY <1>3, SymbolsAssumption DEF OwnersOf
    <2>2. IsFiniteSet(OwnersOf(n))
      <3>1. OwnersOf(n) \in SUBSET Names
        BY <1>1, SymbolsAssumption
      <3> QED BY <3>1, QueriesAssumption, FS_Subset
    <2>3. Cardinality(OwnersOf(n)) <= 1
      BY <2>1, SymbolsAssumption
    <2>4. \A d \in OwnersOf(n) : d = c
      <3> SUFFICES ASSUME NEW d \in OwnersOf(n), d # c PROVE FALSE
        OBVIOUS
      <3>1. {c, d} \in SUBSET OwnersOf(n)
        BY <2>1
      <3>2. Cardinality({c, d}) <= Cardinality(OwnersOf(n)) /\ IsFiniteSet({c, d})
        BY <2>2, <3>1, FS_Subset
      <3>3. IsFiniteSet({c}) /\ Cardinality({c}) = 1
        BY FS_Singleton
      <3>4. Cardinality({c} \cup {d}) = 2
        BY <3>3, FS_AddElement
      <3>5. {c} \cup {d} = {c, d} /\ Cardinality(OwnersOf(n)) \in Nat
        BY <2>2, FS_CardinalityType
      <3> QED BY <2>3, <3>2, <3>4, <3>5
    <2> QED BY <2>1, <2>4
  <1> QED BY <1>1, <1>2, <1>3

\* A class and its methods have the same family, and so the same dependents.
LEMMA FamiliesAgree ==
    ASSUME NEW c \in Classes, NEW n \in Methods[c]
    PROVE  Family(n) = Family(c)
  <1>1. OwnersOf(n) = {c} /\ OwnersOf(c) = {} /\ n \notin Classes
    BY OwnersAreFew, SymbolsAssumption DEF Functions
  <1> QED BY <1>1 DEF Family, WithMethods, ClassAliases

Own == ClassAliases(ImpactRoot(ask.name))

LEMMA OwnDependents ==
    ASSUME Given, ask.name \in Symbols
    PROVE  /\ Own \subseteq Names
           /\ \A n \in Own : AggregatedDependents(deps, n) = AggregatedDependents(deps, ask.name)
  <1> DEFINE r == ImpactRoot(ask.name)
  <1>1. r = ask.name \/ (r \in Classes /\ ask.name \in Methods[r])
    <2>1. InfoName(ask.name) = ask.name
      BY DEF InfoName
    <2>2. ResolveGraphName(deps, ask.name) \in {ask.name, None}
             \/ ResolveGraphName(deps, ask.name) \in OwnersOf(ask.name)
      BY <2>1 DEF ResolveGraphName
    <2> QED BY <2>2 DEF ImpactRoot, OwnersOf
  <1>2. r \in Names
    BY <1>1, SymbolsAssumption
  <1>3. Family(r) = Family(ask.name)
    BY <1>1, FamiliesAgree
  <1>4. \A n \in ClassAliases(r) : Family(n) = Family(r)
    BY FamiliesAgree DEF ClassAliases
  <1> QED BY <1>2, <1>3, <1>4, AliasesAreNames DEF AggregatedDependents, Own
-----------------------------------------------------------------------------
(* get_change_impact.                                                       *)

Item(s, d) == [name |-> s, depth |-> d]
Level == [s \in seen |-> IF s \in Own THEN 0 ELSE found[s]]
UpTo(k) == Within(Up, Up[ask.name], k)

\* Each symbol found is as far as its depth says, in levels without a gap; what
\* is queued is of two levels, and what is not has its dependents among the seen.
ImpactSeen ==
    /\ ask.name \in Symbols
    /\ DOMAIN found \subseteq Names /\ seen = Own \cup DOMAIN found
    /\ DOMAIN found \cap Own \subseteq Up[ask.name]
    /\ \A s \in Up[ask.name] : s \in DOMAIN found /\ found[s] = 1
ImpactDepths ==
    \A s \in DOMAIN found :
        /\ found[s] \in Nat \ {0} /\ s \in UpTo(found[s] - 1)
        /\ found[s] > 1 => s \notin UpTo(found[s] - 2)
        /\ found[s] > 1 => \E t \in DOMAIN found : found[t] = found[s] - 1
ImpactQueue ==
    /\ \A q \in queue : q.name \in DOMAIN found /\ q = Item(q.name, found[q.name])
    /\ \A q \in queue, s \in DOMAIN found : found[s] <= q.depth + 1
ImpactVisited ==
    \A s \in DOMAIN found : Item(s, found[s]) \notin queue =>
        \A t \in Up[s] : t \in seen /\ (t \in DOMAIN found => found[t] <= found[s] + 1)
\* What the limits leave is the nearest, and all of it if nothing was cut.
Near == {s \in DOMAIN found : found[s] = 1}
Far == DOMAIN found \ Near
ImpactListed ==
    /\ answer.direct \subseteq Near /\ answer.transitive \subseteq Far
    /\ ask.most = 0 /\ ~answer.truncated => answer.direct = Near
    /\ ask.mostFar = 0 /\ ~answer.truncated => answer.transitive = Far
    /\ ask.most = 0 => answer.transitive = {} \/ answer.direct = Near
    /\ \A s \in answer.transitive, r \in Far \ answer.transitive : found[s] <= found[r]
Impact ==
    ask.kind = "impact" =>
        /\ ImpactSeen /\ ImpactDepths /\ ImpactQueue /\ ImpactVisited
        /\ answer # None => queue = {} /\ ImpactListed

LEMMA UpIsNames ==
    ASSUME Given
    PROVE  \A n \in Names : Up[n] = AggregatedDependents(deps, n) /\ Up[n] \subseteq Names
  BY GraphTypes DEF Up, AggregatedDependents

\* What is closer than all that is queued has been seen.
LEMMA ImpactLayers ==
    ASSUME Given, ImpactSeen, ImpactDepths, ImpactQueue, ImpactVisited,
           NEW k \in Nat, \A q \in queue : q.depth > k
    PROVE  \A s \in UpTo(k) : s \in seen
  <1> DEFINE S == Up[ask.name]
  <1>1. \A s \in S : s \in seen /\ Level[s] <= 1
    BY DEF ImpactSeen, Level
  <1>2. \A s \in seen : Level[s] \in Nat
    BY DEF ImpactSeen, ImpactDepths, Level
  <1>3. ASSUME NEW s \in seen, Level[s] < k + 1, NEW t \in Up[s]
        PROVE  t \in seen /\ Level[t] <= Level[s] + 1
    <2>1. CASE s \in Own
      <3>1. t \in Up[ask.name]
        BY <1>3, <2>1, OwnDependents, UpIsNames, SymbolsAssumption DEF ImpactSeen
      <3> QED BY <2>1, <3>1, <1>1, <1>2 DEF Level
    <2>2. CASE s \notin Own
      <3>1. s \in DOMAIN found /\ Level[s] = found[s]
        BY <2>2 DEF ImpactSeen, Level
      <3>2. Item(s, found[s]) \notin queue
        BY <1>3, <3>1 DEF ImpactDepths, Item
      <3>3. t \in seen /\ (t \in DOMAIN found => found[t] <= found[s] + 1)
        BY <1>3, <3>1, <3>2 DEF ImpactVisited
      <3>4. found[s] \in Nat
        BY <3>1 DEF ImpactDepths
      <3> QED BY <3>1, <3>3, <3>4 DEF Level, ImpactSeen
    <2> QED BY <2>1, <2>2
  <1>4. \A s \in Within(Up, S, k) : s \in seen /\ Level[s] <= k + 1
    <2>1. \A s \in seen : Level[s] < k + 1 =>
            \A t \in Up[s] : t \in seen /\ Level[t] <= Level[s] + 1
      BY <1>3
    <2>2. 1 \in Nat /\ k + 1 \in Nat /\ k + 1 <= k + 1
      OBVIOUS
    <2> HIDE DEF S
    <2> QED BY <1>1, <1>2, <2>1, <2>2, Layers
  <1> QED BY <1>4 DEF UpTo

\* When nothing is queued, all that can be reached has been found.
LEMMA ImpactReport ==
    ASSUME Given, ImpactSeen, ImpactDepths, ImpactQueue, ImpactVisited, queue = {}
    PROVE  LET N == Cardinality(Names)
           IN  /\ DOMAIN found = UpTo(N - 1) \ (Own \ Up[ask.name])
               /\ \A s \in DOMAIN found : found[s] \in 1..N
  <1> DEFINE N == Cardinality(Names)
  <1>1. IsFiniteSet(DOMAIN found) /\ Cardinality(DOMAIN found) <= N
    BY QueriesAssumption, FS_Subset DEF ImpactSeen
  <1>2. N \in Nat /\ Cardinality(DOMAIN found) \in Nat
    BY <1>1, QueriesAssumption, FS_CardinalityType
  <1>3. \A s \in DOMAIN found : found[s] <= Cardinality(DOMAIN found)
    BY <1>1, LevelsAreFew DEF ImpactDepths
  <1>4. \A s \in DOMAIN found : found[s] \in 1..N
    BY <1>1, <1>2, <1>3 DEF ImpactDepths
  <1>5. N > 0
    <2>1. Names # {}
      BY SymbolsAssumption DEF ImpactSeen
    <2> QED BY <1>2, <2>1, QueriesAssumption, FS_EmptySet
  <1>6. \A s \in UpTo(N - 1) : s \in seen
    <2>1. N - 1 \in Nat
      BY <1>2, <1>5
    <2> QED BY <2>1, ImpactLayers
  <1>7. ASSUME NEW s \in DOMAIN found PROVE s \in UpTo(N - 1)
    <2>1. found[s] - 1 \in Nat /\ N - 1 \in Nat /\ found[s] - 1 <= N - 1
      BY <1>2, <1>4
    <2>2. s \in UpTo(found[s] - 1)
      BY DEF ImpactDepths
    <2> HIDE DEF N
    <2> QED BY <2>1, <2>2, WithinGrows DEF UpTo
  <1> QED BY <1>4, <1>6, <1>7 DEF ImpactSeen

\* A dependent that was not seen is one level further than the one visited.
LEMMA ImpactGoesOn ==
    ASSUME Given, Impact, VisitDependent
    PROVE  Impact'
  <1>1. PICK q \in Shallowest :
          LET new == AggregatedDependents(deps, q.name) \ seen
          IN  /\ queue' = (queue \ {q}) \cup At(new, q.depth + 1)
              /\ seen' = seen \cup new
              /\ found' = Tag(found, new, q.depth + 1)
    BY DEF VisitDependent
  <1> DEFINE d == q.depth
             new == AggregatedDependents(deps, q.name) \ seen
  <1>2. /\ ask.kind = "impact" /\ UNCHANGED <<index, ask, answer>> /\ answer = None
        /\ ImpactSeen /\ ImpactDepths /\ ImpactQueue /\ ImpactVisited
    BY DEF VisitDependent, Running, Impact
  <1>3. /\ q \in queue /\ q.name \in DOMAIN found /\ q = Item(q.name, d) /\ d = found[q.name]
        /\ d \in Nat \ {0} /\ q.name \in Names
        /\ q.depth = d /\ \A r \in queue : d <= r.depth
    BY <1>1, <1>2 DEF Shallowest, ImpactQueue, ImpactDepths, ImpactSeen, Item
  <1>4. UNCHANGED <<Up, Own, deps>> /\ \A k : UpTo(k)' = UpTo(k)
    BY <1>2 DEF Up, Own, ImpactRoot, ResolveGraphName, UpTo, deps
  <1>5. /\ new = Up[q.name] \ seen /\ new \subseteq Names
        /\ queue' = (queue \ {q}) \cup {Item(s, d + 1) : s \in new}
        /\ seen' = seen \cup new
        /\ DOMAIN found' = DOMAIN found \cup new
        /\ \A s \in DOMAIN found : found'[s] = found[s]
        /\ \A s \in new : s \notin DOMAIN found /\ found'[s] = d + 1
    BY <1>1, <1>2, <1>3, UpIsNames DEF At, Tag, Item, ImpactSeen
  <1> HIDE DEF new, d
  <1>6. ImpactSeen'
    BY <1>2, <1>4, <1>5 DEF ImpactSeen
  <1>7. ImpactDepths'
    <2>1. ASSUME NEW s \in DOMAIN found
          PROVE  /\ found'[s] \in Nat \ {0} /\ s \in UpTo(found'[s] - 1)
                 /\ found'[s] > 1 => s \notin UpTo(found'[s] - 2)
                 /\ found'[s] > 1 => \E t \in DOMAIN found' : found'[t] = found'[s] - 1
      BY <1>2, <1>5 DEF ImpactDepths
    <2>2. ASSUME NEW s \in new
          PROVE  s \in UpTo(d) /\ s \notin UpTo(d - 1)
      <3>1. q.name \in UpTo(d - 1)
        BY <1>2, <1>3 DEF ImpactDepths
      <3>2. UpTo((d - 1) + 1) = UpTo(d - 1) \cup Spread(Up, UpTo(d - 1))
        BY <1>3, WithinStep DEF UpTo
      <3>3. s \in UpTo(d)
        BY <1>3, <1>5, <3>1, <3>2 DEF Spread
      <3>4. \A t \in UpTo(d - 1) : t \in seen
        <4>1. d - 1 \in Nat /\ \A r \in queue : r.depth > d - 1
          BY <1>2, <1>3 DEF ImpactQueue, ImpactDepths, Item
        <4> QED BY <1>2, <4>1, ImpactLayers
      <3> QED BY <1>5, <3>3, <3>4
    <2>3. ASSUME NEW s \in new
          PROVE  /\ found'[s] \in Nat \ {0} /\ s \in UpTo(found'[s] - 1)
                 /\ found'[s] > 1 => s \notin UpTo(found'[s] - 2)
                 /\ found'[s] > 1 => \E t \in DOMAIN found' : found'[t] = found'[s] - 1
      <3>1. found'[s] = d + 1 /\ (d + 1) - 1 = d /\ (d + 1) - 2 = d - 1
        BY <1>3, <1>5
      <3>2. q.name \in DOMAIN found' /\ found'[q.name] = d
        BY <1>3, <1>5
      <3> QED BY <1>3, <2>2, <3>1, <3>2
    <2> QED BY <1>4, <1>5, <2>1, <2>3 DEF ImpactDepths
  <1>8. ImpactQueue'
    <2>1. \A s \in DOMAIN found' : found'[s] <= d + 1 /\ found'[s] \in Nat
      BY <1>2, <1>3, <1>5 DEF ImpactQueue, ImpactDepths
    <2>2. \A r \in queue' : r.depth >= d /\ r.depth \in Nat
      BY <1>2, <1>3, <1>5 DEF ImpactQueue, ImpactDepths, Item
    <2>3. \A r \in queue' : r.name \in DOMAIN found' /\ r = Item(r.name, found'[r.name])
      BY <1>2, <1>5 DEF ImpactQueue, Item
    <2> QED BY <1>3, <2>1, <2>2, <2>3 DEF ImpactQueue
  <1>9. ImpactVisited'
    <2> SUFFICES ASSUME NEW s \in DOMAIN found', Item(s, found'[s]) \notin queue', NEW t \in Up[s]
                 PROVE  t \in seen' /\ (t \in DOMAIN found' => found'[t] <= found'[s] + 1)
      BY <1>4 DEF ImpactVisited
    <2>1. s \notin new /\ s \in DOMAIN found /\ found'[s] = found[s]
      BY <1>5
    <2>2. CASE s = q.name
      <3>1. t \in seen'
        BY <1>5, <2>2
      <3>2. \A u \in DOMAIN found' : found'[u] <= d + 1
        BY <1>2, <1>3, <1>5 DEF ImpactQueue, ImpactDepths
      <3> QED BY <1>3, <2>1, <2>2, <3>1, <3>2
    <2>3. CASE s # q.name
      <3>1. Item(s, found[s]) # q
        BY <1>3, <2>3 DEF Item
      <3>2. Item(s, found[s]) \notin queue
        BY <1>5, <2>1, <3>1
      <3>3. t \in seen /\ (t \in DOMAIN found => found[t] <= found[s] + 1)
        BY <1>2, <2>1, <3>2 DEF ImpactVisited
      <3> QED BY <1>5, <2>1, <3>3
    <2> QED BY <2>2, <2>3
  <1> QED BY <1>2, <1>6, <1>7, <1>8, <1>9 DEF Impact

\* The first dependents are those of the name asked about.
LEMMA ImpactStarts ==
    ASSUME Given, NEW n \in Symbols, NEW most, NEW mostFar, AskImpact(n, most, mostFar)
    PROVE  Impact'
  <1> DEFINE direct == AggregatedDependents(deps, n)
  <1>1. /\ ask' = [kind |-> "impact", name |-> n, most |-> most, mostFar |-> mostFar]
        /\ answer' = None /\ UNCHANGED index
        /\ queue' = {Item(s, 1) : s \in direct}
        /\ seen' = direct \cup ClassAliases(ImpactRoot(n))
        /\ DOMAIN found' = direct /\ \A s \in direct : found'[s] = 1
    BY DEF AskImpact, Begin, At, Tag, Nothing, Item
  <1>2. /\ UNCHANGED <<Up, deps>> /\ Own' = ClassAliases(ImpactRoot(n))
        /\ direct = Up[n] /\ Up[n] \subseteq Names
    BY <1>1, UpIsNames, SymbolsAssumption DEF Up, Own, ImpactRoot, ResolveGraphName, deps
  <1>3. UpTo(0)' = direct
    BY <1>1, <1>2, WithinStart DEF UpTo
  <1> HIDE DEF direct
  <1>4. ImpactSeen'
    BY <1>1, <1>2 DEF ImpactSeen
  <1>5. ImpactDepths'
    BY <1>1, <1>3 DEF ImpactDepths
  <1>6. ImpactQueue' /\ ImpactVisited'
    BY <1>1 DEF ImpactQueue, ImpactVisited, Item
  <1> QED BY <1>1, <1>4, <1>5, <1>6 DEF Impact
-----------------------------------------------------------------------------
(* get_dependencies.                                                        *)

Root == ask.name
Depth(s) == IF s = Root THEN 0 ELSE found[s]
Reached(k) == Within(Down, {Root}, k)

\* What a limit keeps: all, unless the room for it is used up.
LEMMA KeptAll ==
    ASSUME NEW S, IsFiniteSet(S), NEW room \in Nat, NEW kept \in Keep(S, room)
    PROVE  /\ kept \subseteq S /\ IsFiniteSet(kept)
           /\ room = 0 \/ Cardinality(kept) # room => kept = S
           /\ room # 0 => Cardinality(kept) <= room
  <1>1. kept \in SUBSET S /\ Cardinality(S) \in Nat
    BY FS_CardinalityType DEF Keep
  <1>2. \A a, b \in Nat : Min({a, b}) \in {a, b} /\ Min({a, b}) <= a
    <2> SUFFICES ASSUME NEW a \in Nat, NEW b \in Nat PROVE Min({a, b}) \in {a, b} /\ Min({a, b}) <= a
      OBVIOUS
    <2>1. \E m \in {a, b} : \A y \in {a, b} : m <= y
      <3>1. CASE a <= b
        BY <3>1
      <3>2. CASE b <= a
        BY <3>2
      <3> QED BY <3>1, <3>2
    <2> QED BY <2>1 DEF Min
  <1>3. Cardinality(kept) = IF room = 0 THEN Cardinality(S) ELSE Min({room, Cardinality(S)})
    BY DEF Keep
  <1>4. Cardinality(kept) = Cardinality(S) => kept = S
    BY <1>1, FS_Subset
  <1>5. IsFiniteSet(kept)
    BY <1>1, FS_Subset
  <1> QED BY <1>1, <1>2, <1>3, <1>4, <1>5

\* The answer lists the nearest of what the walk has found.
LEMMA ImpactEnds == ASSUME Given, Impact, AnswerImpact PROVE Impact'
  <1>1. /\ ask.kind = "impact" /\ queue = {} /\ UNCHANGED <<index, ask, queue, seen, found>>
        /\ ImpactSeen /\ ImpactDepths /\ ImpactQueue /\ ImpactVisited
    BY DEF AnswerImpact, Running, Finish, Impact
  <1>2. PICK direct \in Keep(Near, ask.most), transitive \in Keep(Far, ask.mostFar) :
              /\ NearestOf(transitive, Far)
              /\ \E d \in SUBSET direct, t \in SUBSET transitive :
                    /\ NearestOf(t, transitive) /\ (t # {} => d = direct)
                    /\ Finish([direct |-> d, transitive |-> t,
                               truncated |-> d # direct \/ t # transitive])
    BY DEF AnswerImpact, Near, Far
  <1>3. PICK d \in SUBSET direct, t \in SUBSET transitive :
              /\ NearestOf(t, transitive) /\ (t # {} => d = direct)
              /\ answer' = [direct |-> d, transitive |-> t,
                            truncated |-> d # direct \/ t # transitive]
    BY <1>2 DEF Finish
  <1>4. IsFiniteSet(Near) /\ IsFiniteSet(Far)
    <2>1. Near \in SUBSET Names /\ Far \in SUBSET Names
      BY <1>1 DEF Near, Far, ImpactSeen
    <2> QED BY <2>1, QueriesAssumption, FS_Subset
  <1>5. direct \subseteq Near /\ transitive \subseteq Far
    BY DEF Keep
  <1>6. (ask.most = 0 => direct = Near) /\ (ask.mostFar = 0 => transitive = Far)
    BY <1>4, KeptAll
  <1>7. UNCHANGED <<Own, Up, Near, Far, deps>> /\ \A k : UpTo(k)' = UpTo(k)
    BY <1>1 DEF Own, ImpactRoot, ResolveGraphName, UpTo, Up, deps, Near, Far
  <1>8. answer'.direct = d /\ answer'.transitive = t
        /\ (~answer'.truncated => d = direct /\ t = transitive)
    BY <1>3
  <1>9. \A x \in t, y \in Far \ t : found[x] <= found[y]
    <2> TAKE x \in t, y \in Far \ t
    <2>1. CASE y \in transitive
      BY <1>3, <2>1 DEF NearestOf
    <2>2. CASE y \notin transitive
      BY <1>2, <2>2 DEF NearestOf
    <2> QED BY <2>1, <2>2
  <1>10. ImpactListed'
    BY <1>1, <1>3, <1>5, <1>6, <1>7, <1>8, <1>9 DEF ImpactListed
  <1> QED BY <1>1, <1>7, <1>10 DEF Impact, ImpactSeen, ImpactDepths, ImpactQueue, ImpactVisited

WalkSeen ==
    /\ Root \in Names /\ ask.depth \in Nat \ {0} /\ ask.limit \in Nat
    /\ DOMAIN found \subseteq Names /\ seen = {Root} \cup DOMAIN found
    /\ Root \notin DOMAIN found
WalkDepths ==
    \A s \in DOMAIN found :
        found[s] \in 1..ask.depth /\ s \in Reached(found[s]) /\ s \notin Reached(found[s] - 1)
WalkQueue ==
    /\ \A q \in queue : q.name \in seen /\ q = Item(q.name, Depth(q.name))
    /\ \A q \in queue, s \in seen : Depth(s) <= q.depth + 1
WalkVisited ==
    \A s \in seen : Item(s, Depth(s)) \notin queue =>
        \A t \in Down[s] : t \in seen /\ Depth(t) <= Depth(s) + 1
\* A cut answer leaves the queue as it stands.
Walk ==
    ask.kind = "walk" =>
        /\ WalkSeen /\ WalkDepths
        /\ answer = None =>
              /\ WalkQueue /\ WalkVisited
              /\ ask.limit > 0 => Cardinality(DOMAIN found) < ask.limit
        /\ answer # None /\ answer.complete => Reached(ask.depth) \subseteq seen

LEMMA DownIsNames ==
    ASSUME Given
    PROVE  \A n \in Names : Down[n] = AggregatedDependencies(deps, n) /\ Down[n] \subseteq Names
  <1> SUFFICES ASSUME NEW n \in Names PROVE AggregatedDependencies(deps, n) \subseteq Names
    BY DEF Down
  <1>1. UNION {Dependencies(deps, a) : a \in Family(n)} \subseteq Names
    BY GraphTypes DEF Dependencies
  <1> QED BY <1>1, AliasesAreNames DEF AggregatedDependencies

LEMMA WalkLayers ==
    ASSUME Given, WalkSeen, WalkDepths, WalkQueue, WalkVisited,
           NEW k \in Nat, \A q \in queue : q.depth >= k
    PROVE  Reached(k) \subseteq seen
  <1> DEFINE level == [s \in seen |-> Depth(s)]
  <1>1. \A s \in {Root} : s \in seen /\ level[s] <= 0
    BY DEF WalkSeen, Depth
  <1>2. \A s \in seen : level[s] \in Nat
    BY DEF WalkSeen, WalkDepths, Depth
  <1>3. \A s \in seen : level[s] < k => \A t \in Down[s] : t \in seen /\ level[t] <= level[s] + 1
    <2> SUFFICES ASSUME NEW s \in seen, level[s] < k, NEW t \in Down[s]
                 PROVE  t \in seen /\ level[t] <= level[s] + 1
      OBVIOUS
    <2>1. Item(s, Depth(s)) \notin queue
      BY <1>2 DEF Item
    <2> QED BY <2>1 DEF WalkVisited
  <1>4. k + 0 <= k /\ 0 \in Nat
    OBVIOUS
  <1>5. \A s \in Within(Down, {Root}, k) : s \in seen /\ level[s] <= k + 0
    <2> HIDE DEF level
    <2> QED BY <1>1, <1>2, <1>3, <1>4, Layers
  <1> QED BY <1>5 DEF Reached

LEMMA WalkStarts ==
    ASSUME Given, NEW n \in Symbols, NEW depth \in Depths, NEW limit \in Limits,
           AskDependencies(n, depth, limit)
    PROVE  Walk'
  <1> DEFINE root == ResolveGraphName(deps, n)
  <1>1. /\ ask' = [kind |-> "walk", name |-> root, depth |-> depth, limit |-> limit]
        /\ root # None /\ answer' = None /\ UNCHANGED index
        /\ queue' = {Item(root, 0)} /\ seen' = {root} /\ DOMAIN found' = {}
    BY DEF AskDependencies, Begin, At, Nothing, Item
  <1>2. root \in Names
    <2>1. InfoName(n) = n
      BY DEF InfoName
    <2>2. root = n \/ root \in OwnersOf(n)
      BY <1>1, <2>1 DEF ResolveGraphName
    <2> QED BY <2>2, OwnersAreFew, SymbolsAssumption
  <1>3. depth \in Nat \ {0} /\ limit \in Nat
    BY QueriesAssumption
  <1> HIDE DEF root
  <1>4. WalkSeen' /\ WalkDepths'
    BY <1>1, <1>2, <1>3 DEF WalkSeen, WalkDepths, Root
  <1>5. WalkQueue' /\ WalkVisited'
    BY <1>1 DEF WalkQueue, WalkVisited, Item, Depth, Root
  <1>6. limit > 0 => Cardinality(DOMAIN found') < limit
    BY <1>1, <1>3, FS_EmptySet
  <1> QED BY <1>1, <1>4, <1>5, <1>6 DEF Walk

LEMMA WalkGoesOn ==
    ASSUME Given, Walk, VisitDependency
    PROVE  Walk'
  <1>1. PICK q \in Shallowest :
          LET new == AggregatedDependencies(deps, q.name) \ seen
              room == ask.limit - Cardinality(DOMAIN found)
          IN  /\ q.depth < ask.depth
              /\ \E kept \in Keep(new, IF ask.limit = 0 THEN 0 ELSE room) :
                    /\ queue' = (queue \ {q}) \cup At(kept, q.depth + 1)
                    /\ seen' = seen \cup kept
                    /\ found' = Tag(found, kept, q.depth + 1)
                    /\ answer' = IF ask.limit > 0 /\ Cardinality(kept) = room
                                 THEN [complete |-> FALSE] ELSE None
    BY DEF VisitDependency
  <1> DEFINE d == q.depth
             new == AggregatedDependencies(deps, q.name) \ seen
             left == ask.limit - Cardinality(DOMAIN found)
             room == IF ask.limit = 0 THEN 0 ELSE left
  <1>2. PICK kept \in Keep(new, room) :
                    /\ queue' = (queue \ {q}) \cup At(kept, d + 1)
                    /\ seen' = seen \cup kept
                    /\ found' = Tag(found, kept, d + 1)
                    /\ answer' = IF ask.limit > 0 /\ Cardinality(kept) = left
                                 THEN [complete |-> FALSE] ELSE None
    BY <1>1
  <1>3. /\ ask.kind = "walk" /\ UNCHANGED <<index, ask>> /\ answer = None
        /\ WalkSeen /\ WalkDepths /\ WalkQueue /\ WalkVisited
        /\ ask.limit > 0 => Cardinality(DOMAIN found) < ask.limit
    BY DEF VisitDependency, Running, Walk
  <1>4. /\ q \in queue /\ q.name \in seen /\ q = Item(q.name, d) /\ d = Depth(q.name)
        /\ d \in Nat /\ d + 1 <= ask.depth /\ q.name \in Names
        /\ q.depth = d /\ \A r \in queue : d <= r.depth
    BY <1>1, <1>3 DEF Shallowest, WalkQueue, WalkDepths, WalkSeen, Item, Depth
  <1>5. UNCHANGED <<Down, deps, Root>> /\ \A k : Reached(k)' = Reached(k)
    BY <1>3 DEF Down, Root, Reached, deps
  <1>6. new = Down[q.name] \ seen /\ new \in SUBSET Names /\ IsFiniteSet(new)
    <2>1. new = Down[q.name] \ seen /\ new \in SUBSET Names
      BY <1>4, DownIsNames
    <2> QED BY <2>1, QueriesAssumption, FS_Subset
  <1>7. DOMAIN found \in SUBSET Names /\ IsFiniteSet(DOMAIN found) /\ Cardinality(DOMAIN found) \in Nat
    BY <1>3, QueriesAssumption, FS_Subset, FS_CardinalityType DEF WalkSeen
  <1>8. room \in Nat /\ (ask.limit > 0 => room = left /\ room > 0)
    BY <1>3, <1>7 DEF WalkSeen
  <1> HIDE DEF new, d, room
  <1>9. /\ kept \subseteq new /\ IsFiniteSet(kept) /\ Cardinality(kept) \in Nat
        /\ answer' = None => kept = new /\ (ask.limit > 0 => Cardinality(kept) < left)
        /\ answer' \in {None, [complete |-> FALSE]}
    <2>1. kept \subseteq new /\ IsFiniteSet(kept)
      BY <1>6, <1>8, KeptAll
    <2>2. room = 0 \/ Cardinality(kept) # room => kept = new
      BY <1>6, <1>8, KeptAll
    <2>3. room # 0 => Cardinality(kept) <= room
      BY <1>6, <1>8, KeptAll
    <2>4. Cardinality(kept) \in Nat
      BY <2>1, FS_CardinalityType
    <2>5. answer' \in {None, [complete |-> FALSE]}
      BY <1>2
    <2>6. ASSUME answer' = None PROVE ~(ask.limit > 0 /\ Cardinality(kept) = left)
      <3>1. None # [complete |-> FALSE]
        <4>1. [complete |-> FALSE] \in [complete : BOOLEAN]
          OBVIOUS
        <4> QED BY <4>1, QueriesAssumption
      <3> QED BY <1>2, <2>6, <3>1
    <2>7. ask.limit \in Nat /\ (ask.limit = 0 => room = 0)
      BY <1>3 DEF WalkSeen, room
    <2> QED BY <1>7, <1>8, <2>1, <2>2, <2>3, <2>4, <2>5, <2>6, <2>7
  <1>10. /\ queue' = (queue \ {q}) \cup {Item(s, d + 1) : s \in kept}
         /\ DOMAIN found' = DOMAIN found \cup kept
         /\ \A s \in DOMAIN found : found'[s] = found[s]
         /\ \A s \in kept : s \notin seen /\ s \notin DOMAIN found /\ found'[s] = d + 1
    <2>1. \A s \in kept : s \notin seen /\ s \notin DOMAIN found
      BY <1>3, <1>6, <1>9 DEF WalkSeen
    <2> QED BY <1>2, <2>1 DEF At, Tag, Item
  <1>11. /\ \A s \in seen : Depth(s)' = Depth(s) /\ Depth(s) \in Nat /\ Depth(s) <= d + 1
         /\ \A s \in kept : Depth(s)' = d + 1
    <2>1. \A s \in seen : Depth(s) \in Nat /\ Depth(s) <= d + 1
      BY <1>3, <1>4 DEF WalkQueue, WalkSeen, WalkDepths, Depth
    <2>2. Root' = Root /\ Root \in seen
      BY <1>3, <1>5 DEF WalkSeen
    <2> QED BY <1>3, <1>10, <2>1, <2>2 DEF Depth, WalkSeen
  <1>12. WalkSeen'
    BY <1>2, <1>3, <1>5, <1>6, <1>9, <1>10 DEF WalkSeen
  <1>13. WalkDepths'
    <2>1. ASSUME NEW s \in DOMAIN found
          PROVE  found'[s] \in 1..ask.depth /\ s \in Reached(found'[s]) /\ s \notin Reached(found'[s] - 1)
      BY <1>3, <1>10 DEF WalkDepths
    <2>2. ASSUME NEW s \in kept
          PROVE  d + 1 \in 1..ask.depth /\ s \in Reached(d + 1) /\ s \notin Reached(d)
      <3>1. q.name \in Reached(d)
        <4>1. CASE q.name = Root
          BY <1>4, <4>1, WithinStart DEF Reached, Depth
        <4>2. CASE q.name # Root
          BY <1>3, <1>4, <4>2 DEF WalkSeen, WalkDepths, Depth
        <4> QED BY <4>1, <4>2
      <3>2. Reached(d + 1) = Reached(d) \cup Spread(Down, Reached(d))
        BY <1>4, WithinStep DEF Reached
      <3>3. s \in Reached(d + 1)
        BY <1>6, <1>9, <3>1, <3>2 DEF Spread
      <3>4. Reached(d) \subseteq seen
        <4>1. \A r \in queue : r.depth >= d
          BY <1>3, <1>4 DEF WalkQueue, WalkSeen, WalkDepths, Item, Depth
        <4> QED BY <1>3, <1>4, <4>1, WalkLayers
      <3>5. d + 1 \in 1..ask.depth
        BY <1>3, <1>4 DEF WalkSeen
      <3> QED BY <1>10, <3>3, <3>4, <3>5
    <2>3. ASSUME NEW s \in kept
          PROVE  found'[s] \in 1..ask.depth /\ s \in Reached(found'[s]) /\ s \notin Reached(found'[s] - 1)
      <3>1. found'[s] = d + 1 /\ (d + 1) - 1 = d
        BY <1>4, <1>10
      <3> QED BY <2>2, <3>1
    <2> QED BY <1>3, <1>5, <1>10, <2>1, <2>3 DEF WalkDepths
  <1>14. ASSUME answer' = None PROVE WalkQueue' /\ WalkVisited'
    <2>1. kept = new
      BY <1>9, <1>14
    <2>2. \A r \in queue' : r.name \in seen' /\ r = Item(r.name, Depth(r.name)') /\ r.depth >= d
                               /\ r.depth \in Nat
      <3>1. \A r \in queue : r.name \in seen' /\ r = Item(r.name, Depth(r.name)') /\ r.depth >= d
                                 /\ r.depth \in Nat
        BY <1>2, <1>3, <1>4, <1>11 DEF WalkQueue, Item
      <3>2. \A s \in kept : s \in seen' /\ Item(s, d + 1) = Item(s, Depth(s)')
        BY <1>2, <1>11
      <3>3. \A s \in kept : Item(s, d + 1).name = s /\ Item(s, d + 1).depth = d + 1
        BY DEF Item
      <3>4. ASSUME NEW s \in kept, NEW r, r = Item(s, d + 1)
            PROVE  r.name \in seen' /\ r = Item(r.name, Depth(r.name)') /\ r.depth >= d
                     /\ r.depth \in Nat
        <4>1. r.name = s /\ r.depth = d + 1
          BY <3>3, <3>4
        <4> QED BY <1>4, <3>2, <3>4, <4>1
      <3> QED BY <1>10, <3>1, <3>4
    <2>3. \A s \in seen' : Depth(s)' \in Nat /\ Depth(s)' <= d + 1
      BY <1>2, <1>4, <1>11
    <2>4. WalkQueue'
      BY <1>4, <2>2, <2>3 DEF WalkQueue
    <2>5. ASSUME NEW s \in seen', Item(s, Depth(s)') \notin queue', NEW t \in Down[s]
          PROVE  t \in seen' /\ Depth(t)' <= Depth(s)' + 1
      <3>1. s \notin kept
        BY <1>10, <1>11, <2>5
      <3>2. s \in seen /\ Depth(s)' = Depth(s) /\ Depth(s) \in Nat
        BY <1>2, <1>11, <2>5, <3>1
      <3>3. CASE s = q.name
        <4>1. t \in seen'
          BY <1>2, <1>6, <2>1, <3>3
        <4> QED BY <1>4, <2>3, <3>2, <3>3, <4>1
      <3>4. CASE s # q.name
        <4>1. Item(s, Depth(s)) # q
          BY <1>4, <3>4 DEF Item
        <4>2. Item(s, Depth(s)) \notin queue
          BY <1>10, <2>5, <3>2, <4>1
        <4>3. t \in seen /\ Depth(t) <= Depth(s) + 1
          BY <1>3, <3>2, <4>2 DEF WalkVisited
        <4> QED BY <1>2, <1>11, <3>2, <4>3
      <3> QED BY <3>3, <3>4
    <2> QED BY <1>5, <2>4, <2>5 DEF WalkVisited
  <1>15. ASSUME answer' = None, ask.limit > 0 PROVE Cardinality(DOMAIN found') < ask.limit
    <2>1. Cardinality(kept) < ask.limit - Cardinality(DOMAIN found)
      BY <1>9, <1>15
    <2>2. DOMAIN found \cap kept = {}
      BY <1>10
    <2>3. Cardinality(DOMAIN found') = Cardinality(DOMAIN found) + Cardinality(kept)
      <3>1. Cardinality(DOMAIN found \cup kept) =
              Cardinality(DOMAIN found) + Cardinality(kept) - Cardinality(DOMAIN found \cap kept)
        BY <1>7, <1>9, FS_Union
      <3>2. Cardinality(DOMAIN found \cap kept) = 0
        BY <2>2, FS_EmptySet
      <3> QED BY <1>7, <1>9, <1>10, <3>1, <3>2
    <2> QED BY <1>3, <1>7, <1>9, <2>1, <2>3 DEF WalkSeen
  <1>16. ~(answer' # None /\ answer'.complete)
    BY <1>9
  <1> QED BY <1>3, <1>12, <1>13, <1>14, <1>15, <1>16 DEF Walk

\* With nothing queued short of the depth asked for, nothing is left out.
LEMMA WalkEnds == ASSUME Given, Walk, AnswerDependencies PROVE Walk'
  <1>1. /\ ask.kind = "walk" /\ UNCHANGED <<index, ask, queue, seen, found>> /\ answer = None
        /\ WalkSeen /\ WalkDepths /\ WalkQueue /\ WalkVisited
        /\ ask.limit > 0 => Cardinality(DOMAIN found) < ask.limit
        /\ \A q \in queue : q.depth = ask.depth
    BY DEF AnswerDependencies, Running, Walk, Finish
  <1>2. Reached(ask.depth) \subseteq seen
    BY <1>1, WalkLayers DEF WalkSeen
  <1>3. UNCHANGED <<Down, Root, deps>> /\ \A k : Reached(k)' = Reached(k)
    BY <1>1 DEF Down, Root, Reached, deps
  <1>4. WalkSeen' /\ WalkDepths' /\ WalkQueue' /\ WalkVisited'
    BY <1>1, <1>3 DEF WalkSeen, WalkDepths, WalkQueue, WalkVisited, Depth, Root
  <1> QED BY <1>1, <1>2, <1>3, <1>4 DEF Walk
-----------------------------------------------------------------------------
(* find_impacted_test_files.                                                *)

TestsSeen ==
    /\ ask.seeds \subseteq seen \cap Names /\ seen \subseteq Names \cup Files
    /\ DOMAIN found \subseteq TestFiles
    /\ \A t \in seen \cap TestFiles : t \in DOMAIN found \/ \E s \in ask.seeds : FileOf[s] = t
    /\ \A s \in seen \cap Names : FileOf[s] = None \/ FileOf[s] \in seen
    /\ ask.changed \cap TestFiles \subseteq DOMAIN found
    /\ \A s \in (seen \cap Names) \ ask.seeds : FileOf[s] \in TestFiles => FileOf[s] \in DOMAIN found
\* What is queued no longer has led to all it refers to.
TestsVisited ==
    /\ \A q \in queue : \/ q.name \in Names /\ q = Item(q.name, 0)
                        \/ q.name \in Files /\ q = Item(q.name, 1)
    /\ \A s \in seen \cap Names : Item(s, 0) \notin queue => Callers[s] \subseteq seen
    /\ \A f \in seen \cap Files : Item(f, 1) \notin queue => Above[f] \subseteq seen
Tests ==
    ask.kind = "tests" =>
        /\ TestsSeen /\ TestsVisited
        /\ answer # None => queue = {}
        /\ answer # None /\ answer.omitted = 0 => Marked("selected") = DOMAIN found

LEMMA AliasesOfSymbols ==
    \A S \in SUBSET Symbols : WithMethods(S) \subseteq Symbols
  BY SymbolsAssumption DEF WithMethods, ClassAliases, Functions

LEMMA TestsStart ==
    ASSUME Given, NEW changed \in SUBSET Files, NEW names \in SUBSET Symbols,
           BeginTests(changed, names)
    PROVE  Tests'
  <1> DEFINE listed == (changed \cap TestFiles)
                       \cup UNION {(Importers(f) \cap TestFiles) \cup NameMatch[f] : f \in changed}
             loosely == UNION {StemMatch[f] : f \in changed}
             seeds == Seeds(names, changed)
             closed == {FileOf[s] : s \in seeds} \ {None}
  <1>1. PICK kept \in Keep(listed \cup loosely, MaxTests) :
           Begin([kind |-> "tests", changed |-> changed, seeds |-> seeds],
                 At(seeds, 0) \cup At(closed, 1), seeds \cup closed,
                 Mark(kept, listed \ kept))
    BY DEF BeginTests
  <1>2. kept \subseteq TestFiles /\ listed \subseteq TestFiles
    <2>1. listed \subseteq TestFiles /\ loosely \subseteq TestFiles
      BY QueriesAssumption
    <2> QED BY <2>1 DEF Keep
  <1>3. seeds \subseteq Symbols
    <2>1. (names \cap Symbols) \cup UNION {Called(n) : n \in names} \subseteq Symbols
      BY DEF Called, Functions
    <2>2. \A f \in changed : WithMethods(Defines[f]) \subseteq Symbols
      BY QueriesAssumption, AliasesOfSymbols
    <2> QED BY <2>1, <2>2, AliasesOfSymbols DEF Seeds
  <1>4. closed \subseteq Files /\ seeds \subseteq Names
    BY <1>3, QueriesAssumption, SymbolsAssumption
  <1>5. /\ ask' = [kind |-> "tests", changed |-> changed, seeds |-> seeds]
        /\ queue' = {Item(s, 0) : s \in seeds} \cup {Item(f, 1) : f \in closed}
        /\ seen' = seeds \cup closed /\ answer' = None
        /\ DOMAIN found' \subseteq TestFiles /\ changed \cap TestFiles \subseteq DOMAIN found'
    BY <1>1, <1>2 DEF Begin, At, Item, Mark
  <1>6. \A s \in seeds : FileOf[s] = None \/ FileOf[s] \in closed
    OBVIOUS
  <1>7. \A f \in closed : \E s \in seeds : FileOf[s] = f
    OBVIOUS
  <1> HIDE DEF listed, loosely, seeds, closed
  <1>8. TestsSeen'
    BY <1>4, <1>5, <1>6, <1>7, QueriesAssumption DEF TestsSeen
  <1>9. TestsVisited'
    <2>1. \A s : Item(s, 0).name = s /\ Item(s, 1).name = s
      BY DEF Item
    <2> QED BY <1>4, <1>5, <2>1, QueriesAssumption DEF TestsVisited
  <1> QED BY <1>5, <1>8, <1>9 DEF Tests

LEMMA ReferrersFollowed == ASSUME Given, Tests, VisitReferrer PROVE Tests'
  <1>1. PICK q \in Shallowest :
          LET new == Referrers(deps, q.name) \ seen
              files == {FileOf[s] : s \in new} \ {None}
          IN  /\ q.depth = 0
              /\ queue' = (queue \ {q}) \cup At(new, 0) \cup At(files \ seen, 1)
              /\ seen' = seen \cup new \cup files
              /\ found' = Tag(found, files \cap TestFiles, "candidate")
    BY DEF VisitReferrer
  <1> DEFINE new == Referrers(deps, q.name) \ seen
             files == {FileOf[s] : s \in new} \ {None}
  <1>2. /\ ask.kind = "tests" /\ UNCHANGED <<index, ask, answer>> /\ answer = None
        /\ TestsSeen /\ TestsVisited
    BY DEF VisitReferrer, Running, Tests
  <1>3. q \in queue /\ q.name \in Names /\ q = Item(q.name, 0)
    BY <1>1, <1>2 DEF Shallowest, TestsVisited, Item
  <1>4. UNCHANGED <<Callers, Above, deps>> /\ new = Callers[q.name] \ seen
    BY <1>2, <1>3 DEF Callers, Above, Importers, deps
  <1>5. new \subseteq Names /\ files \subseteq Files
    BY GraphTypes, QueriesAssumption
  <1>6. \A s \in new : FileOf[s] = None \/ FileOf[s] \in files
    OBVIOUS
  <1>7. /\ queue' = (queue \ {q}) \cup {Item(s, 0) : s \in new} \cup {Item(f, 1) : f \in files \ seen}
        /\ seen' = seen \cup new \cup files
        /\ DOMAIN found' = DOMAIN found \cup (files \cap TestFiles)
    BY <1>1 DEF At, Item, Tag
  <1>8. \A s, f : Item(s, 0).name = s /\ Item(f, 1).name = f /\ Item(s, 0) # Item(f, 1)
    BY DEF Item
  <1> HIDE DEF new, files
  <1>9. TestsSeen'
    BY <1>2, <1>5, <1>6, <1>7, QueriesAssumption DEF TestsSeen
  <1>10. TestsVisited'
    <2>1. \A r \in queue' : \/ r.name \in Names /\ r = Item(r.name, 0)
                            \/ r.name \in Files /\ r = Item(r.name, 1)
      BY <1>2, <1>5, <1>7, <1>8 DEF TestsVisited
    <2>2. ASSUME NEW s \in seen' \cap Names, Item(s, 0) \notin queue' PROVE Callers[s] \subseteq seen'
      <3>1. s \in seen /\ (s = q.name \/ Item(s, 0) \notin queue)
        BY <1>3, <1>5, <1>7, <1>8, <2>2, QueriesAssumption
      <3> QED BY <1>2, <1>4, <1>7, <3>1 DEF TestsVisited
    <2>3. ASSUME NEW f \in seen' \cap Files, Item(f, 1) \notin queue' PROVE Above[f] \subseteq seen'
      <3>1. f \in seen /\ Item(f, 1) \notin queue
        BY <1>3, <1>5, <1>7, <1>8, <2>3, QueriesAssumption
      <3> QED BY <1>2, <1>7, <3>1 DEF TestsVisited
    <2> QED BY <1>4, <2>1, <2>2, <2>3 DEF TestsVisited
  <1> QED BY <1>2, <1>9, <1>10 DEF Tests

LEMMA ImportersFollowed == ASSUME Given, Tests, VisitImporter PROVE Tests'
  <1>1. PICK q \in Shallowest :
          LET new == Importers(q.name) \ seen
          IN  /\ q.depth = 1
              /\ queue' = (queue \ {q}) \cup At(new, 1)
              /\ seen' = seen \cup new
              /\ found' = Tag(found, new \cap TestFiles, "candidate")
    BY DEF VisitImporter
  <1> DEFINE new == Importers(q.name) \ seen
  <1>2. /\ ask.kind = "tests" /\ UNCHANGED <<index, ask, answer>> /\ answer = None
        /\ TestsSeen /\ TestsVisited
    BY DEF VisitImporter, Running, Tests
  <1>3. q \in queue /\ q.name \in Files /\ q = Item(q.name, 1)
    BY <1>1, <1>2 DEF Shallowest, TestsVisited, Item
  <1>4. UNCHANGED <<Callers, Above, deps>> /\ new = Above[q.name] \ seen
    BY <1>2, <1>3 DEF Callers, Above, Importers, deps
  <1>5. new \subseteq Files
    BY GraphTypes
  <1>7. /\ queue' = (queue \ {q}) \cup {Item(f, 1) : f \in new}
        /\ seen' = seen \cup new
        /\ DOMAIN found' = DOMAIN found \cup (new \cap TestFiles)
    BY <1>1 DEF At, Item, Tag
  <1>8. \A s, f : Item(s, 0).name = s /\ Item(f, 1).name = f /\ Item(s, 0) # Item(f, 1)
    BY DEF Item
  <1> HIDE DEF new
  <1>9. TestsSeen'
    BY <1>2, <1>5, <1>7, QueriesAssumption DEF TestsSeen
  <1>10. TestsVisited'
    <2>1. \A r \in queue' : \/ r.name \in Names /\ r = Item(r.name, 0)
                            \/ r.name \in Files /\ r = Item(r.name, 1)
      BY <1>2, <1>5, <1>7, <1>8 DEF TestsVisited
    <2>2. ASSUME NEW s \in seen' \cap Names, Item(s, 0) \notin queue' PROVE Callers[s] \subseteq seen'
      <3>1. s \in seen /\ Item(s, 0) \notin queue
        BY <1>3, <1>5, <1>7, <1>8, <2>2, QueriesAssumption
      <3> QED BY <1>2, <1>7, <3>1 DEF TestsVisited
    <2>3. ASSUME NEW f \in seen' \cap Files, Item(f, 1) \notin queue' PROVE Above[f] \subseteq seen'
      <3>1. f \in seen /\ (f = q.name \/ Item(f, 1) \notin queue)
        BY <1>3, <1>5, <1>7, <1>8, <2>3, QueriesAssumption
      <3> QED BY <1>2, <1>4, <1>7, <3>1 DEF TestsVisited
    <2> QED BY <1>4, <2>1, <2>2, <2>3 DEF TestsVisited
  <1> QED BY <1>2, <1>9, <1>10 DEF Tests

\* When none was omitted, every test found is selected.
LEMMA TestsEnd == ASSUME Given, Tests, AnswerTests PROVE Tests'
  <1> DEFINE chosen == Marked("selected")
  <1>1. PICK kept \in SUBSET Marked("candidate") :
          /\ found' = Mark(chosen \cup kept, DOMAIN found \ (chosen \cup kept))
          /\ Finish([omitted |-> Cardinality(DOMAIN found \ (chosen \cup kept))])
    BY DEF AnswerTests
  <1>2. /\ ask.kind = "tests" /\ UNCHANGED <<index, ask, queue, seen>> /\ queue = {}
        /\ TestsSeen /\ TestsVisited
        /\ answer' = [omitted |-> Cardinality(DOMAIN found \ (chosen \cup kept))]
    BY <1>1 DEF AnswerTests, Running, Tests, Finish
  <1>3. chosen \cup kept \subseteq DOMAIN found
    BY DEF Marked
  <1>4. DOMAIN found' = DOMAIN found /\ \A t \in chosen \cup kept : found'[t] = "selected"
    BY <1>1, <1>3 DEF Mark
  <1>5. IsFiniteSet(DOMAIN found \ (chosen \cup kept))
    <2>1. DOMAIN found \ (chosen \cup kept) \in SUBSET Files
      BY <1>2, QueriesAssumption DEF TestsSeen
    <2> QED BY <2>1, QueriesAssumption, FS_Subset
  <1>6. answer'.omitted = 0 => chosen \cup kept = DOMAIN found
    BY <1>2, <1>3, <1>5, FS_EmptySet
  <1>7. answer'.omitted = 0 => Marked("selected")' = DOMAIN found'
    BY <1>4, <1>6 DEF Marked
  <1>8. TestsSeen' /\ TestsVisited'
    BY <1>2, <1>4 DEF TestsSeen, TestsVisited, Callers, Above, Importers, deps
  <1> QED BY <1>2, <1>7, <1>8 DEF Tests
-----------------------------------------------------------------------------
(* What holds of every query.                                               *)

QueryInv == Given /\ Impact /\ Walk /\ Tests

LEMMA QueryInvInit == Init => QueryInv
  BY DEF Init, QueryInv, Given, Impact, Walk, Tests

LEMMA GivenKept == Given /\ [Next]_vars => Given'
  BY DEF Given, vars, Next, Ask, Visit, Answer, Reply, AskDirect, AskDependencies, AskImpact,
         AskTestsOfSymbol, AskTestsOfFiles, BeginTests, AskChain, AskCycles, Begin, Finish,
         VisitDependency, VisitDependent, VisitPath, VisitImport, VisitReferrer, VisitImporter,
         AnswerDependencies, AnswerImpact, AnswerChain, AnswerCycles, AnswerTests

\* Each query is begun by its own action.
LEMMA AskKeeps == QueryInv /\ Ask => QueryInv'
  <1> SUFFICES ASSUME QueryInv, Ask PROVE Impact' /\ Walk' /\ Tests'
    BY GivenKept DEF QueryInv, Next
  <1>1. CASE ask'.kind \notin {"impact", "walk", "tests"}
    BY <1>1 DEF Impact, Walk, Tests
  <1>2. ASSUME NEW n \in Symbols, NEW limit \in Limits,
               AskDirect("dependents", n, limit) \/ AskDirect("dependencies", n, limit)
        PROVE  Impact' /\ Walk' /\ Tests'
    BY <1>1, <1>2 DEF AskDirect
  <1>3. ASSUME NEW n \in Symbols, NEW limit \in Limits, NEW depth \in Depths,
               AskDependencies(n, depth, limit)
        PROVE  Impact' /\ Walk' /\ Tests'
    <2>1. ask'.kind = "walk"
      BY <1>3 DEF AskDependencies, Begin
    <2>2. Walk'
      BY <1>3, WalkStarts DEF QueryInv
    <2> QED BY <2>1, <2>2 DEF Impact, Tests
  <1>4. ASSUME NEW n \in Symbols, NEW most \in Limits, NEW mostFar \in Limits,
               AskImpact(n, most, mostFar)
        PROVE  Impact' /\ Walk' /\ Tests'
    <2>1. ask'.kind = "impact"
      BY <1>4 DEF AskImpact, Begin
    <2>2. Impact'
      BY <1>4, ImpactStarts DEF QueryInv
    <2> QED BY <2>1, <2>2 DEF Walk, Tests
  <1>5. ASSUME NEW changed \in SUBSET Files, NEW names \in SUBSET Symbols, BeginTests(changed, names)
        PROVE  Impact' /\ Walk' /\ Tests'
    <2>1. ask'.kind = "tests"
      BY <1>5 DEF BeginTests, Begin
    <2>2. Tests'
      BY <1>5, TestsStart DEF QueryInv
    <2> QED BY <2>1, <2>2 DEF Walk, Impact
  <1>6. ASSUME NEW n \in Symbols, AskTestsOfSymbol(n)
        PROVE  Impact' /\ Walk' /\ Tests'
    <2>1. PICK f \in FilesNamed(n) : BeginTests({f}, {n})
      BY <1>6 DEF AskTestsOfSymbol
    <2>2. f \in Files
      BY QueriesAssumption, SymbolsAssumption DEF FilesNamed
    <2>3. {f} \in SUBSET Files /\ {n} \in SUBSET Symbols
      BY <2>2
    <2> QED BY <1>5, <2>1, <2>3
  <1>7. CASE AskCycles \/ \E a, b \in Symbols : AskChain(a, b)
    <2>1. CASE AskCycles
      BY <1>1, <2>1 DEF AskCycles, Begin
    <2>2. ASSUME NEW a \in Symbols, NEW b \in Symbols, AskChain(a, b)
          PROVE  ask'.kind = "chain"
      BY <2>2 DEF AskChain, Begin
    <2> QED BY <1>1, <1>7, <2>1, <2>2
  <1>8. CASE \E files \in SUBSET Files : AskTestsOfFiles(files)
    <2>1. PICK files \in SUBSET Files : BeginTests(files, {})
      BY <1>8 DEF AskTestsOfFiles
    <2> QED BY <1>5, <2>1
  <1> QED BY <1>2, <1>3, <1>4, <1>6, <1>7, <1>8 DEF Ask

LEMMA QueryInvStep == QueryInv /\ [Next]_vars => QueryInv'
  <1> SUFFICES ASSUME QueryInv, [Next]_vars PROVE Impact' /\ Walk' /\ Tests'
    BY GivenKept DEF QueryInv
  <1>1. CASE UNCHANGED <<index, ask, queue, seen, found, answer>>
    <2>1. UNCHANGED <<Own, Up, Down, Callers, Above, Root>>
      BY <1>1 DEF Own, ImpactRoot, ResolveGraphName, Up, Down, Callers, Above, Importers, Root, deps
    <2>2. (\A k : UpTo(k)' = UpTo(k)) /\ (\A k : Reached(k)' = Reached(k))
            /\ (\A s : Depth(s)' = Depth(s)) /\ Marked("selected")' = Marked("selected")
      BY <1>1, <2>1 DEF UpTo, Reached, Depth, Root, Marked
    <2>3. Impact'
      BY <1>1, <2>1, <2>2
         DEF QueryInv, Impact, ImpactSeen, ImpactDepths, ImpactQueue, ImpactVisited, ImpactListed, Near, Far
    <2>4. Walk'
      BY <1>1, <2>1, <2>2 DEF QueryInv, Walk, WalkSeen, WalkDepths, WalkQueue, WalkVisited
    <2>5. Tests'
      BY <1>1, <2>1, <2>2 DEF QueryInv, Tests, TestsSeen, TestsVisited
    <2> QED BY <2>3, <2>4, <2>5
  <1>2. CASE ask'.kind \notin {"impact", "walk", "tests"}
    BY <1>2 DEF Impact, Walk, Tests
  <1>3. CASE Ask
    BY <1>3, AskKeeps DEF QueryInv
  <1>4. CASE Reply
    BY <1>2, <1>4 DEF Reply
  <1>5. CASE VisitDependent \/ AnswerImpact
    <2>1. ask'.kind = "impact"
      BY <1>5 DEF VisitDependent, AnswerImpact, Running, Finish
    <2>2. CASE VisitDependent
      BY <2>1, <2>2, ImpactGoesOn DEF QueryInv, Walk, Tests
    <2>3. CASE AnswerImpact
      BY <2>1, <2>3, ImpactEnds DEF QueryInv, Walk, Tests
    <2> QED BY <1>5, <2>2, <2>3
  <1>6. CASE VisitDependency \/ AnswerDependencies
    <2>1. ask'.kind = "walk"
      BY <1>6 DEF VisitDependency, AnswerDependencies, Running, Finish
    <2> QED BY <1>6, <2>1, WalkGoesOn, WalkEnds DEF QueryInv, Impact, Tests
  <1>7. CASE VisitReferrer \/ VisitImporter \/ AnswerTests
    <2>1. ask'.kind = "tests"
      BY <1>7 DEF VisitReferrer, VisitImporter, AnswerTests, Running, Finish
    <2> QED BY <1>7, <2>1, ReferrersFollowed, ImportersFollowed, TestsEnd DEF QueryInv, Impact, Walk
  <1>8. CASE VisitPath \/ VisitImport \/ AnswerChain \/ AnswerCycles
    BY <1>2, <1>8 DEF VisitPath, VisitImport, AnswerChain, AnswerCycles, Running, Finish
  <1>9. CASE UNCHANGED vars
    BY <1>1, <1>9 DEF vars
  <1> QED BY <1>3, <1>4, <1>5, <1>6, <1>7, <1>8, <1>9 DEF Next, Visit, Answer

\* Each walk keeps what it has seen, what is queued and what it has yet to
\* follow in step (query_api.py, impacted_tests.py).
THEOREM WalksKeepTrack == Spec => []QueryInv
  BY QueryInvInit, QueryInvStep, PTL DEF Spec

\* get_change_impact finds every symbol the change reaches, at its least
\* distance and no other, and lists them all, or the nearest of them if it was
\* told to or had to cut, for any graph, class hierarchy and order of visits.
THEOREM ImpactsAreWhole == Spec => []ImpactIsComplete
  <1>1. QueryInv => ImpactIsComplete
    <2> SUFFICES ASSUME QueryInv, Answered("impact") PROVE ImpactIsComplete
      BY DEF ImpactIsComplete
    <2> DEFINE N == Cardinality(Names)
               upTo == [k \in 1..N |-> Within(Up, Up[ask.name], k - 1)]
    <2>1. Given /\ ImpactSeen /\ ImpactDepths /\ ImpactQueue /\ ImpactVisited /\ queue = {} /\ ImpactListed
      BY DEF QueryInv, Impact, Answered
    <2>2. /\ DOMAIN found = UpTo(N - 1) \ (Own \ Up[ask.name])
          /\ \A s \in DOMAIN found : found[s] \in 1..N
      BY <2>1, ImpactReport
    <2>3. N \in Nat /\ Names # {}
      BY <2>1, QueriesAssumption, FS_CardinalityType, SymbolsAssumption DEF ImpactSeen
    <2>4. N # 0
      BY <2>3, QueriesAssumption, FS_EmptySet
    <2> HIDE DEF N
    <2>5. \A k \in 1..N : upTo[k] = UpTo(k - 1)
      BY DEF UpTo
    <2>6. N \in 1..N
      BY <2>3, <2>4
    <2>7. ASSUME NEW s \in DOMAIN found
          PROVE  s \in upTo[found[s]] /\ (found[s] > 1 => s \notin upTo[found[s] - 1])
      <3>1. /\ s \in UpTo(found[s] - 1) /\ found[s] \in 1..N
            /\ found[s] > 1 => s \notin UpTo(found[s] - 2)
        BY <2>1, <2>2 DEF ImpactDepths
      <3>2. found[s] > 1 => found[s] - 1 \in 1..N /\ (found[s] - 1) - 1 = found[s] - 2
        BY <2>3, <3>1
      <3> HIDE DEF upTo
      <3> QED BY <2>5, <3>1, <3>2
    <2>8. DOMAIN found = upTo[N] \ (Own \ Up[ask.name])
      BY <2>2, <2>5, <2>6
    <2> DEFINE listed == answer.direct \cup answer.transitive
    <2>9. /\ listed \subseteq DOMAIN found
          /\ ask.most = 0 /\ ask.mostFar = 0 /\ ~answer.truncated => listed = DOMAIN found
      BY <2>1 DEF ImpactListed, Near, Far
    <2>10. ASSUME ask.most = 0, NEW s \in listed, NEW r \in DOMAIN found \ listed
           PROVE  found[s] <= found[r]
      <3>1. \A u \in DOMAIN found : found[u] \in Nat \ {0}
        BY <2>1 DEF ImpactDepths
      <3>2. CASE s \in answer.direct
        <4>1. found[s] = 1 /\ s \in DOMAIN found
          BY <2>1, <3>2 DEF ImpactListed, Near
        <4> QED BY <3>1, <4>1
      <3>3. CASE s \in answer.transitive
        <4>1. r \in Far \ answer.transitive
          BY <2>1, <2>10, <3>3 DEF ImpactListed, Near, Far
        <4> QED BY <2>1, <3>3, <4>1 DEF ImpactListed
      <3> QED BY <3>2, <3>3
    <2> HIDE DEF upTo
    <2>11. upTo = [k \in 1..N |-> Within(Up, Up[ask.name], k - 1)]
      BY DEF upTo
    <2> QED BY <2>7, <2>8, <2>9, <2>10, <2>11 DEF ImpactIsComplete, Own, N
  <1> QED BY <1>1, WalksKeepTrack, PTL

\* A get_dependencies answer marked complete has all there is within the depth
\* asked for, and every name it lists is no nearer than it says.
THEOREM CompleteAnswersAre == Spec => []CompleteMeansAll
  <1>1. QueryInv => CompleteMeansAll
    <2> SUFFICES ASSUME QueryInv, Answered("walk") PROVE CompleteMeansAll
      BY DEF CompleteMeansAll
    <2>1. WalkSeen /\ WalkDepths /\ (answer.complete => Reached(ask.depth) \subseteq seen)
      BY DEF QueryInv, Walk, Answered
    <2>2. ASSUME NEW s \in DOMAIN found PROVE s \in Reached(ask.depth) /\ s # ask.name
      <3>1. found[s] \in Nat /\ ask.depth \in Nat /\ found[s] <= ask.depth /\ s \in Reached(found[s])
        BY <2>1 DEF WalkSeen, WalkDepths
      <3>2. s \in Reached(ask.depth)
        BY <3>1, WithinGrows DEF Reached
      <3> QED BY <2>1, <3>2 DEF WalkSeen, Root
    <2> QED BY <2>1, <2>2 DEF CompleteMeansAll, Reached, Root, WalkSeen, WalkDepths
  <1> QED BY <1>1, WalksKeepTrack, PTL

\* When find_impacted_test_files omits none, it selects each test that holds a
\* direct or indirect caller of a changed symbol, or imports the file of one.
THEOREM TestsAreReached == Spec => []ReachedTestsSelected
  <1>1. QueryInv => ReachedTestsSelected
    <2> SUFFICES ASSUME QueryInv, Answered("tests"), answer.omitted = 0 PROVE ReachedTestsSelected
      BY DEF ReachedTestsSelected
    <2> DEFINE Held(S) == {FileOf[s] : s \in S} \ {None}
               called == Within(Callers, ask.seeds, Cardinality(Names))
               reached == Within(Above, Held(called), Cardinality(Files))
               namesakes == Held(ask.seeds) \ (ask.changed \cup Held(called \ ask.seeds))
    <2>1. /\ TestsSeen /\ TestsVisited /\ queue = {} /\ Marked("selected") = DOMAIN found /\ Given
      BY DEF QueryInv, Tests, Answered
    <2>2. Cardinality(Names) \in Nat /\ Cardinality(Files) \in Nat
      BY QueriesAssumption, FS_CardinalityType
    <2>3. called \subseteq seen \cap Names
      <3>1. \A s \in seen \cap Names : Callers[s] \subseteq seen \cap Names
        BY <2>1, GraphTypes DEF TestsVisited, Callers
      <3> QED BY <2>1, <2>2, <3>1, WithinStays DEF TestsSeen
    <2>4. Held(called) \subseteq seen \cap Files
      BY <2>1, <2>3, QueriesAssumption DEF TestsSeen
    <2>5. reached \subseteq seen \cap Files
      <3>1. \A f \in seen \cap Files : Above[f] \subseteq seen \cap Files
        BY <2>1, GraphTypes DEF TestsVisited, Above
      <3> DEFINE start == Held(called)
      <3> HIDE DEF start
      <3>2. Within(Above, start, Cardinality(Files)) \subseteq seen \cap Files
        BY <2>2, <2>4, <3>1, WithinStays DEF start
      <3> QED BY <3>2 DEF start
    <2>6. ASSUME NEW t \in (reached \ namesakes) \cap TestFiles PROVE t \in DOMAIN found
      <3>1. t \in seen \cap TestFiles /\ t # None
        BY <2>5, QueriesAssumption
      <3>2. CASE t \notin Held(ask.seeds)
        BY <2>1, <3>1, <3>2 DEF TestsSeen
      <3>3. CASE t \in ask.changed
        BY <2>1, <3>1, <3>3 DEF TestsSeen
      <3>4. CASE t \in Held(called \ ask.seeds)
        BY <2>1, <2>3, <3>1, <3>4 DEF TestsSeen
      <3> QED BY <3>2, <3>3, <3>4
    <2> HIDE DEF reached, namesakes
    <2>7. (reached \ namesakes) \cap TestFiles \subseteq Marked("selected")
      BY <2>1, <2>6
    <2> QED BY <2>7 DEF ReachedTestsSelected, reached, namesakes
  <1> QED BY <1>1, WalksKeepTrack, PTL
-----------------------------------------------------------------------------
(* get_call_chain.                                                          *)

Present == {n \in Names : AnyPresence(deps, n)}

\* What a name leads to, its own methods aside.
Beyond(x) == Hop[x] \ ClassAliases(x)
Around(k) == Within(Hop, {ask.from}, k)

\* All that may come next, a class with its methods.
HopOver(x) == Dependencies(deps, x) \cup {m \in ClassAliases(x) : AnyPresence(deps, m)}
              \cup {c \in OwnersOf(x) : ForwardPresence(deps, c)}

LEMMA Namings ==
    \A n : /\ InfoName(n) = n \/ InfoName(n) \in Called(n)
           /\ n \in Symbols => InfoName(n) = n
  <1> SUFFICES ASSUME NEW n, n \notin Symbols, Cardinality(Called(n)) = 1
               PROVE  Called(n) # {}
    BY DEF InfoName
  <1> QED BY FS_EmptySet

LEMMA Resolved ==
    ASSUME NEW n
    PROVE  LET r == ResolveGraphName(deps, n)
           IN  \/ r = n /\ (n \in DOMAIN deps \/ (n \in Classes /\ ForwardPresence(deps, n)))
               \/ r = InfoName(n) /\ r \in DOMAIN deps
               \/ r \in OwnersOf(n) /\ n \notin DOMAIN deps /\ OwnersOf(n) \cap DOMAIN deps # {}
               \/ r = None /\ n \notin DOMAIN deps /\ OwnersOf(n) \cap DOMAIN deps = {}
  <1> DEFINE c == CHOOSE c \in OwnersOf(n) : TRUE
  <1>1. OwnersOf(n) # {} => c \in OwnersOf(n)
    OBVIOUS
  <1>2. ResolveGraphName(deps, n) =
          IF n \in DOMAIN deps \/ (n \in Classes /\ ForwardPresence(deps, n)) THEN n
          ELSE IF InfoName(n) \in DOMAIN deps THEN InfoName(n)
          ELSE IF OwnersOf(n) \cap DOMAIN deps # {} THEN c ELSE None
    BY DEF ResolveGraphName
  <1> HIDE DEF c
  <1>3. CASE n \in DOMAIN deps \/ (n \in Classes /\ ForwardPresence(deps, n))
    BY <1>2, <1>3
  <1>4. CASE ~(n \in DOMAIN deps \/ (n \in Classes /\ ForwardPresence(deps, n)))
    <2>1. CASE InfoName(n) \in DOMAIN deps
      BY <1>2, <1>4, <2>1
    <2>2. CASE InfoName(n) \notin DOMAIN deps
      BY <1>1, <1>2, <1>4, <2>2
    <2> QED BY <2>1, <2>2
  <1> QED BY <1>3, <1>4

LEMMA MethodsAlone ==
    /\ \A n : n \notin Classes => ClassAliases(n) = {n}
    /\ \A n : OwnersOf(n) # {} => n \in Functions /\ n \notin Classes /\ n \in Called(n)
    /\ \A c \in Classes : \A n \in ClassAliases(c) : n = c \/ (n \in Functions /\ OwnersOf(n) = {c})
  <1>1. \A n : n \notin Classes => ClassAliases(n) = {n}
    BY DEF ClassAliases
  <1>2. \A n : OwnersOf(n) # {} => n \in Functions /\ n \notin Classes /\ n \in Called(n)
    BY SymbolsAssumption DEF OwnersOf, Functions, Called
  <1>3. \A c \in Classes : \A n \in ClassAliases(c) : n = c \/ (n \in Functions /\ OwnersOf(n) = {c})
    <2>1. ASSUME NEW c \in Classes, NEW n \in Methods[c] PROVE n \in Functions /\ OwnersOf(n) = {c}
      BY OwnersAreFew, SymbolsAssumption
    <2>2. ASSUME NEW c \in Classes PROVE ClassAliases(c) = {c} \cup Methods[c]
      BY DEF ClassAliases
    <2> QED BY <2>1, <2>2
  <1> QED BY <1>1, <1>2, <1>3

LEMMA CandidatesAreNames ==
    ASSUME Given, NEW n \in Names
    PROVE  /\ Candidates(deps, n) \subseteq Names
           /\ n \in Candidates(deps, n) /\ ClassAliases(n) \subseteq Candidates(deps, n)
           /\ n \in Classes => Candidates(deps, n) = ClassAliases(n)
  <1>1. Called(n) \subseteq Functions /\ \A f \in Called(n) : Alias[f] \subseteq Names
    BY SymbolsAssumption DEF Called
  <1>2. InfoName(n) \in Names
    BY <1>1, Namings, SymbolsAssumption DEF Functions
  <1>3. ResolveGraphName(deps, n) \in Names \cup {None}
    BY <1>2, Resolved, OwnersAreFew, SymbolsAssumption
  <1>4. Candidates(deps, n) \subseteq Names
    <2>1. UNION {Alias[f] : f \in Called(n)} \subseteq Names
      BY <1>1
    <2>2. ClassAliases(n) \subseteq Names
      BY AliasesAreNames
    <2> QED BY <1>2, <1>3, <2>1, <2>2 DEF Candidates
  <1>5. ASSUME n \in Classes PROVE Candidates(deps, n) = ClassAliases(n)
    <2>1. Called(n) = {}
      BY <1>5, ChainAssumption DEF Called
    <2>2. InfoName(n) = n /\ ResolveGraphName(deps, n) \in {n, None}
      BY <1>5, Namings, Resolved, OwnersAreFew, SymbolsAssumption
    <2>3. UNION {Alias[f] : f \in Called(n)} = {}
      BY <2>1
    <2> QED BY <2>2, <2>3 DEF Candidates, ClassAliases
  <1>6. ClassAliases(n) \subseteq Candidates(deps, n) /\ n \in ClassAliases(n)
    BY DEF Candidates, ClassAliases
  <1> QED BY <1>4, <1>5, <1>6

\* A method in the graph has an entry.
LEMMA MethodsAreKeyed ==
    ASSUME Given, NEW n, OwnersOf(n) # {}, AnyPresence(deps, n)
    PROVE  n \in DOMAIN deps
  <1>1. ClassAliases(n) = {n}
    BY MethodsAlone
  <1>2. CASE ForwardPresence(deps, n)
    BY <1>1, <1>2 DEF ForwardPresence
  <1>3. CASE Referrers(deps, n) # {}
    BY <1>3, ChainAssumption DEF Referrers, deps, Given
  <1> QED BY <1>2, <1>3 DEF AnyPresence

LEMMA FanIsNames ==
    ASSUME Given, NEW n \in Names
    PROVE  /\ Neighbors(deps, n) \subseteq Names /\ Fan(n) \subseteq Names
           /\ \A k \in Neighbors(deps, n) : ClassAliases(k) \subseteq Fan(n)
           /\ \A k \in Neighbors(deps, n) : OwnersOf(k) # {} => k \in DOMAIN deps
  <1>1. \A a : Dependencies(deps, a) \subseteq Names
    BY GraphTypes DEF Dependencies
  <1>2. \A a : OwnersOf(a) \subseteq Names
    BY OwnersAreFew, SymbolsAssumption
  <1>3. Neighbors(deps, n) \subseteq Names
    <2>1. CASE n \in Classes
      <3>1. Methods[n] \subseteq Names
        BY <2>1, SymbolsAssumption DEF Functions
      <3> QED BY <1>1, <2>1, <3>1 DEF Neighbors
    <2>2. CASE n \notin Classes
      BY <1>1, <1>2, <2>2 DEF Neighbors
    <2> QED BY <2>1, <2>2
  <1>4. Fan(n) \subseteq Names
    BY <1>3, CandidatesAreNames DEF Fan
  <1>5. \A k \in Neighbors(deps, n) : ClassAliases(k) \subseteq Fan(n)
    BY <1>3, CandidatesAreNames DEF Fan
  <1>6. ASSUME NEW k \in Neighbors(deps, n), OwnersOf(k) # {} PROVE k \in DOMAIN deps
    <2>1. k \notin Classes
      BY <1>6, MethodsAlone
    <2>2. (\E a : k \in Dependencies(deps, a)) \/ AnyPresence(deps, k)
      <3>1. CASE n \in Classes
        BY <1>6, <3>1 DEF Neighbors
      <3>2. CASE n \notin Classes
        <4>1. k \notin UNION {OwnersOf(f) : f \in Called(n)}
          BY <2>1, OwnersAreFew
        <4> QED BY <1>6, <3>2, <4>1 DEF Neighbors
      <3> QED BY <3>1, <3>2
    <2>3. ASSUME NEW a, k \in Dependencies(deps, a) PROVE AnyPresence(deps, k)
      BY <2>3 DEF Dependencies, AnyPresence, Referrers
    <2> QED BY <1>6, <2>2, <2>3, MethodsAreKeyed
  <1> QED BY <1>3, <1>4, <1>5, <1>6

\* A class is never without its methods.
LEMMA FanIsWhole ==
    ASSUME Given, NEW n \in Names, NEW c \in Classes, c \in Fan(n)
    PROVE  ClassAliases(c) \subseteq Fan(n)
  <1>1. PICK k \in Neighbors(deps, n) : c \in Candidates(deps, k)
    BY DEF Fan
  <1>2. k \in Names /\ Candidates(deps, k) \subseteq Fan(n)
    BY <1>1, FanIsNames DEF Fan
  <1>3. CASE k \in Classes
    <2>1. c = k
      BY <1>1, <1>2, <1>3, CandidatesAreNames, MethodsAlone DEF Functions
    <2> QED BY <1>1, <2>1, FanIsNames
  <1>4. CASE k \notin Classes
    <2>1. c \notin Called(k) /\ \A f \in Called(k) : c \notin Alias[f]
      BY ChainAssumption DEF Called, Functions
    <2>2. c # InfoName(k)
      BY <1>4, <2>1, Namings
    <2>3. c # ResolveGraphName(deps, k)
      BY <1>1, <1>4, <2>2, Resolved, FanIsNames, SymbolsAssumption
    <2>4. c \notin ClassAliases(k)
      BY <1>4, MethodsAlone
    <2>5. c \notin UNION {Alias[f] : f \in Called(k)}
      BY <2>1
    <2> QED BY <1>1, <1>4, <2>2, <2>3, <2>4, <2>5 DEF Candidates
  <1> QED BY <1>3, <1>4

LEMMA HopIs ==
    ASSUME Given, NEW x \in Names
    PROVE  Hop[x] = WithMethods(HopOver(x)) /\ HopOver(x) \subseteq Names /\ Hop[x] \subseteq Names
  <1>1. Hop[x] = WithMethods(HopOver(x))
    BY DEF Hop, HopOver
  <1>2. Dependencies(deps, x) \subseteq Names /\ ClassAliases(x) \subseteq Names /\ OwnersOf(x) \subseteq Names
    BY GraphTypes, AliasesAreNames, OwnersAreFew, SymbolsAssumption DEF Dependencies
  <1>3. HopOver(x) \subseteq Names
    BY <1>2 DEF HopOver
  <1> QED BY <1>1, <1>3, AliasesAreNames

\* What a name queued is marked with has its own hops among those of the name.
LEMMA Serves ==
    ASSUME Given, NEW n \in Names, NEW x \in Candidates(deps, n),
           n \in Classes => x = n, AnyPresence(deps, n) \/ x = n
    PROVE  Beyond(x) \subseteq Fan(n)
  <1>1. x \in Names
    BY CandidatesAreNames
  <1>2. x # n => n \notin Classes
    OBVIOUS
  <1>3. CASE n \in Classes
    <2>1. x = n /\ OwnersOf(x) = {}
      BY <1>3, OwnersAreFew
    <2>2. Dependencies(deps, x) \subseteq Neighbors(deps, n)
      BY <1>3, <2>1 DEF Neighbors
    <2>3. ASSUME NEW y \in Beyond(x) PROVE y \in Fan(n)
      <3>1. PICK s \in HopOver(x) : y \in ClassAliases(s)
        BY <1>1, HopIs DEF Beyond, WithMethods
      <3>2. y \notin ClassAliases(x)
        BY DEF Beyond
      <3>3. s \in Dependencies(deps, x) \/ s \in ClassAliases(x)
        BY <2>1, <3>1 DEF HopOver
      <3>4. s \in ClassAliases(x) => ClassAliases(s) \subseteq ClassAliases(x)
        BY <1>3, <2>1, MethodsAlone DEF Functions
      <3> QED BY <2>2, <3>1, <3>2, <3>3, <3>4, FanIsNames
    <2> QED BY <2>3
  <1>4. CASE n \notin Classes
    <2> DEFINE as == {n, InfoName(n)} \cup (UNION {Alias[f] : f \in Called(n)})
    <2>1. x \in as
      <3>1. x \in as \cup ({ResolveGraphName(deps, n)} \ {None})
        BY <1>4, MethodsAlone DEF Candidates
      <3>2. CASE x = ResolveGraphName(deps, n) /\ x \in OwnersOf(n) /\ n \notin DOMAIN deps
        <4>1. x # n
          BY <1>4, <3>2, OwnersAreFew
        <4> QED BY <3>2, <4>1, MethodsAreKeyed
      <3>3. \/ ResolveGraphName(deps, n) \in {n, InfoName(n), None}
            \/ ResolveGraphName(deps, n) \in OwnersOf(n) /\ n \notin DOMAIN deps
        BY Resolved
      <3> HIDE DEF as
      <3>4. {n, InfoName(n)} \subseteq as
        BY DEF as
      <3> QED BY <3>1, <3>2, <3>3, <3>4
    <2>2. Dependencies(deps, x) \subseteq Neighbors(deps, n)
      BY <1>4, <2>1 DEF Neighbors
    <2>3. x \notin Classes /\ \A c \in OwnersOf(x) : c \in UNION {OwnersOf(f) : f \in Called(n)}
      <3>1. CASE x = n
        BY <1>4, <3>1, MethodsAlone
      <3>2. CASE x \in Called(n)
        BY <3>2 DEF Called, Functions
      <3>3. ASSUME NEW f \in Called(n), x \in Alias[f] PROVE x \notin Classes /\ OwnersOf(x) \subseteq OwnersOf(f)
        BY <3>3, ChainAssumption DEF Called
      <3> QED BY <2>1, <3>1, <3>2, <3>3, Namings
    <2>4. \A c \in OwnersOf(x) : ForwardPresence(deps, c) => c \in Neighbors(deps, n)
      BY <1>4, <2>3 DEF Neighbors
    <2>5. ASSUME NEW y \in Beyond(x) PROVE y \in Fan(n)
      <3>1. PICK s \in HopOver(x) : y \in ClassAliases(s)
        BY <1>1, HopIs DEF Beyond, WithMethods
      <3>2. y # x /\ ClassAliases(x) = {x}
        BY <2>3, MethodsAlone DEF Beyond
      <3>3. s # x
        BY <3>1, <3>2
      <3>4. s \in Neighbors(deps, n)
        BY <2>2, <2>4, <3>1, <3>2, <3>3 DEF HopOver
      <3> QED BY <3>1, <3>4, FanIsNames
    <2> QED BY <2>5
  <1> QED BY <1>3, <1>4

\* A name is reached by a hop that is itself within reach.
LEMMA HopInto ==
    ASSUME Given, ask.from \in Names, NEW k \in Nat, NEW x \in Around(k), x # ask.from
    PROVE  \E z \in Names : x \in Hop[z] /\ Hop[z] \subseteq Around(k)
  <1> DEFINE T == {d \in Nat : Around(d) \subseteq Names /\
                     \A y \in Around(d) : y # ask.from =>
                        \E z \in Names : y \in Hop[z] /\ Hop[z] \subseteq Around(d)}
  <1>1. 0 \in T
    BY WithinStart DEF Around
  <1>2. ASSUME NEW d \in T PROVE d + 1 \in T
    <2>1. Around(d + 1) = Around(d) \cup Spread(Hop, Around(d))
      BY WithinStep DEF Around
    <2>2. \A z \in Around(d) : z \in Names /\ Hop[z] \subseteq Names
      BY HopIs
    <2>3. Around(d + 1) \subseteq Names
      BY <2>1, <2>2 DEF Spread
    <2>4. ASSUME NEW y \in Around(d + 1), y # ask.from
          PROVE  \E z \in Names : y \in Hop[z] /\ Hop[z] \subseteq Around(d + 1)
      <3>1. CASE y \in Around(d)
        BY <2>1, <2>4, <3>1
      <3>2. CASE y \in Spread(Hop, Around(d))
        <4>1. PICK z \in Around(d) : y \in Hop[z]
          BY <3>2 DEF Spread
        <4>2. Hop[z] \subseteq Spread(Hop, Around(d))
          BY DEF Spread
        <4> QED BY <2>1, <2>2, <4>1, <4>2
      <3> QED BY <2>1, <3>1, <3>2
    <2> QED BY <2>3, <2>4
  <1>3. T = Nat
    <2> HIDE DEF T
    <2>1. T \in SUBSET Nat
      BY DEF T
    <2> QED BY <1>1, <1>2, <2>1, EveryNatural
  <1> QED BY <1>3

\* A class within reach has its methods there; a name the graph does not have
\* leads no further.
LEMMA AroundIsWhole ==
    ASSUME Given, ask.from \in Names, NEW k \in Nat, NEW x \in Around(k), x # ask.from
    PROVE  /\ x \in Names /\ ClassAliases(x) \subseteq Around(k)
           /\ x \notin Present => Hop[x] \subseteq Around(k)
  <1>1. PICK z \in Names : x \in Hop[z] /\ Hop[z] \subseteq Around(k)
    BY HopInto
  <1>2. PICK s \in HopOver(z) : x \in ClassAliases(s)
    BY <1>1, HopIs DEF WithMethods
  <1>3. x \in Names /\ s \in Names /\ ClassAliases(s) \subseteq Around(k)
    BY <1>1, <1>2, HopIs DEF WithMethods
  <1>4. ClassAliases(x) \subseteq ClassAliases(s)
    BY <1>2, MethodsAlone
  <1>5. ASSUME x \notin Present, NEW c \in OwnersOf(x) PROVE ClassAliases(c) \subseteq Around(k)
    <2>1. ~ AnyPresence(deps, x) /\ x \notin Classes
      BY <1>3, <1>5, MethodsAlone DEF Present
    <2>2. x \notin Dependencies(deps, z)
      BY <2>1 DEF AnyPresence, Referrers, Dependencies
    <2>3. x \notin OwnersOf(z)
      BY <2>1, OwnersAreFew
    <2>4. s # x
      BY <1>2, <2>1, <2>2, <2>3 DEF HopOver
    <2>5. s \in Classes
      BY <1>2, <2>4, MethodsAlone
    <2>6. OwnersOf(x) = {s}
      BY <1>2, <2>4, <2>5, MethodsAlone
    <2> QED BY <1>3, <1>5, <2>6
  <1>6. ASSUME x \notin Present, NEW y \in Hop[x] PROVE y \in Around(k)
    <2>1. PICK t \in HopOver(x) : y \in ClassAliases(t)
      BY <1>3, <1>6, HopIs DEF WithMethods
    <2>2. ~ AnyPresence(deps, x)
      BY <1>3, <1>6 DEF Present
    <2>3. x \notin DOMAIN deps /\ ClassAliases(x) \cap DOMAIN deps = {}
      BY <2>2 DEF AnyPresence, ForwardPresence, ClassAliases
    <2>4. t \notin Dependencies(deps, x)
      BY <2>3 DEF Dependencies
    <2>5. ~ (t \in ClassAliases(x) /\ AnyPresence(deps, t))
      <3> SUFFICES ASSUME t \in ClassAliases(x), AnyPresence(deps, t) PROVE FALSE
        OBVIOUS
      <3>1. t # x
        BY <2>2
      <3>2. OwnersOf(t) # {}
        BY <3>1, MethodsAlone
      <3> QED BY <2>3, <3>2, MethodsAreKeyed
    <2>6. t \in OwnersOf(x)
      BY <2>1, <2>4, <2>5 DEF HopOver
    <2> QED BY <1>5, <1>6, <2>1, <2>6
  <1> QED BY <1>3, <1>4, <1>6

(* The walk over paths.                                                     *)

\* A name whose hops are all seen, and are not what is looked for.
Done(x) == Beyond(x) \cap Present \subseteq seen /\ ask.to \notin Beyond(x)

ChainEnds ==
    /\ ask.from \in Present /\ ask.to \in Symbols
    /\ ask.from \in Classes => ForwardPresence(deps, ask.from)
    /\ ask.to \notin Present => OwnersOf(ask.to) \cap DOMAIN deps = {}
ChainPaths ==
    \A q \in queue : /\ q.path \in Seq(Names) /\ q.path # <<>> /\ q.depth = Len(q.path)
                     /\ q.depth = 1 => q.path = <<ask.from>>
ChainSeen == ask.from \in seen /\ seen \subseteq Names

\* What was seen is done with, or waits in a path that is not too long.
ChainServed ==
    \A j \in Nat : \A x \in seen \cap Present \cap Around(j) :
        Done(x) \/ \E q \in queue : q.depth <= j + 1 /\ Beyond(x) \subseteq Fan(Last(q.path))
ChainStarts ==
    \/ \E q \in queue : q.path = <<ask.from>> /\ q.depth = 1
    \/ ClassAliases(ask.from) \cap Present \subseteq seen /\ ask.to \notin ClassAliases(ask.from)
Chain ==
    ask.kind = "chain" =>
        /\ ChainEnds
        /\ answer = None /\ ask.from # ask.to =>
              ChainPaths /\ ChainSeen /\ ChainServed /\ ChainStarts
        /\ answer # None => ChainIsFound

\* What is nearer than all that is queued has been seen.
LEMMA ChainFront ==
    ASSUME Given, ChainEnds, ChainSeen, ChainServed, ChainStarts, ask.from # ask.to,
           NEW d \in Nat, \A q \in queue : q.depth \in Nat /\ q.depth > d
    PROVE  Around(d) \cap Present \subseteq seen /\ ask.to \notin Around(d)
  <1> DEFINE T == {k \in Nat : k <= d => Around(k) \cap Present \subseteq seen /\ ask.to \notin Around(k)}
  <1>1. 0 \in T
    BY WithinStart DEF Around, ChainSeen
  <1>2. ASSUME NEW k \in T PROVE k + 1 \in T
    <2> SUFFICES ASSUME k + 1 <= d
                 PROVE  Around(k + 1) \cap Present \subseteq seen /\ ask.to \notin Around(k + 1)
      OBVIOUS
    <2>1. k \in Nat /\ Around(k) \cap Present \subseteq seen /\ ask.to \notin Around(k)
      OBVIOUS
    <2>2. Around(k + 1) = Around(k) \cup Spread(Hop, Around(k))
      BY WithinStep DEF Around
    <2>3. ask.from \in Names
      BY DEF ChainEnds, Present
    <2>4. ASSUME NEW x \in Around(k), NEW y \in Hop[x]
          PROVE  (y \in Present => y \in seen) /\ y # ask.to
      <3>1. CASE y \in Around(k)
        BY <2>1, <3>1
      <3>2. CASE y \notin Around(k)
        <4>1. x \in Present
          BY <2>1, <2>3, <2>4, <3>2, AroundIsWhole DEF ChainEnds
        <4>2. x \in seen
          BY <2>1, <2>4, <4>1
        <4>3. Done(x)
          <5>1. ~ \E q \in queue : q.depth <= k + 1
            <6> SUFFICES ASSUME NEW q \in queue, q.depth <= k + 1 PROVE FALSE
              OBVIOUS
            <6> QED BY <2>1
          <5> QED BY <2>1, <2>4, <4>1, <4>2, <5>1 DEF ChainServed
        <4>4. CASE y \in Beyond(x)
          BY <4>3, <4>4 DEF Done
        <4>5. CASE y \in ClassAliases(x)
          <5>1. x = ask.from
            BY <2>1, <2>3, <2>4, <3>2, <4>5, AroundIsWhole
          <5>2. ~ \E q \in queue : q.depth = 1
            BY <2>1
          <5> QED BY <4>5, <5>1, <5>2 DEF ChainStarts
        <4> QED BY <2>4, <4>4, <4>5 DEF Beyond
      <3> QED BY <3>1, <3>2
    <2> QED BY <2>1, <2>2, <2>4 DEF Spread
  <1>3. T = Nat
    <2> HIDE DEF T
    <2>1. T \in SUBSET Nat
      BY DEF T
    <2> QED BY <1>1, <1>2, <2>1, EveryNatural
  <1> QED BY <1>3

\* The steps of Expand, as its recursive function defines them.
Steps(path, X, n, step) ==
    step = [k \in 0..n |-> IF k = 0 THEN [seen |-> seen, new |-> {}]
                           ELSE Enqueue(path, X, step[k-1], Sorted[k])]

LEMMA StepsExist ==
    ASSUME NEW path, NEW X, NEW n \in Nat
    PROVE  \E step : Steps(path, X, n, step)
  <1> DEFINE T == {k \in Nat : \E step : Steps(path, X, k, step)}
  <1>1. 0 \in T
    <2>1. Steps(path, X, 0, [k \in 0..0 |-> [seen |-> seen, new |-> {}]])
      BY DEF Steps
    <2> QED BY <2>1
  <1>2. ASSUME NEW k \in T PROVE k + 1 \in T
    <2>1. PICK step : Steps(path, X, k, step)
      OBVIOUS
    <2> DEFINE next == [j \in 0..(k+1) |->
                           IF j = k + 1 THEN Enqueue(path, X, step[k], Sorted[k+1])
                           ELSE step[j]]
    <2>2. ASSUME NEW j \in 0..(k+1)
          PROVE  next[j] = IF j = 0 THEN [seen |-> seen, new |-> {}]
                           ELSE Enqueue(path, X, next[j-1], Sorted[j])
      <3>1. CASE j = k + 1
        BY <3>1
      <3>2. CASE j # k + 1
        <4>1. j \in 0..k /\ next[j] = step[j] /\ (j # 0 => next[j-1] = step[j-1])
          BY <3>2
        <4>2. step[j] = IF j = 0 THEN [seen |-> seen, new |-> {}]
                        ELSE Enqueue(path, X, step[j-1], Sorted[j])
          BY <2>1, <4>1 DEF Steps
        <4> QED BY <4>1, <4>2
      <3> QED BY <3>1, <3>2
    <2>3. Steps(path, X, k + 1, next)
      BY <2>2 DEF Steps
    <2> QED BY <2>3
  <1>3. T = Nat
    <2> HIDE DEF T
    <2>1. T \in SUBSET Nat
      BY DEF T
    <2> QED BY <1>1, <1>2, <2>1, EveryNatural
  <1> QED BY <1>3

\* When k names were tried: those of them in the graph are seen, the paths are
\* longer by one of them, and each new name waits in a path.
Tried(path, X, k, s) ==
    /\ seen \subseteq s.seen /\ s.seen \subseteq Names
    /\ \A j \in 1..k : Sorted[j] \in X \cap Present => Sorted[j] \in s.seen
    /\ \A t \in s.new : \E n \in X \cap Present : t = Append(path, n)
    /\ \A x \in (s.seen \ seen) \cap Present :
          \E n \in X \cap Present : Append(path, n) \in s.new /\ Beyond(x) \subseteq Fan(n)

LEMMA TriedGoesOn ==
    ASSUME Given, NEW path, NEW last \in Names, NEW k \in Nat, k < Len(Sorted),
           NEW s, Tried(path, Fan(last), k, s)
    PROVE  Tried(path, Fan(last), k + 1, Enqueue(path, Fan(last), s, Sorted[k+1]))
  <1> DEFINE X == Fan(last)
             n == Sorted[k+1]
             t == Enqueue(path, X, s, n)
  <1>1. k + 1 \in DOMAIN Sorted /\ n \in Names /\ X \subseteq Names
    BY ChainAssumption, FanIsNames
  <1>2. \A j \in 1..(k+1) : j \in 1..k \/ j = k + 1
    OBVIOUS
  <1>3. CASE ~ (n \in X /\ n \notin s.seen /\ AnyPresence(deps, n))
    <2>1. t = s /\ (n \in X \cap Present => n \in s.seen)
      BY <1>1, <1>3 DEF Enqueue, Present
    <2> QED BY <1>2, <2>1 DEF Tried
  <1>4. CASE n \in X /\ n \notin s.seen /\ AnyPresence(deps, n)
    <2>1. t.seen = s.seen \cup Candidates(deps, n) /\ t.new = s.new \cup {Append(path, n)}
      BY <1>4 DEF Enqueue
    <2>2. n \in Present /\ n \in t.seen /\ Candidates(deps, n) \subseteq Names
      BY <1>1, <1>4, <2>1, CandidatesAreNames DEF Present
    <2>3. ASSUME NEW x \in Candidates(deps, n) \cap Present, x \notin s.seen
          PROVE  Beyond(x) \subseteq Fan(n)
      <3>1. CASE n \in Classes => x = n
        BY <1>1, <1>4, <2>3, <3>1, Serves
      <3>2. CASE n \in Classes /\ x # n
        <4>1. x \in Methods[n] /\ x \in X
          BY <1>1, <1>4, <2>3, <3>2, CandidatesAreNames, FanIsWhole DEF ClassAliases
        <4>2. PICK j \in 1..((k+1)-1) : Sorted[j] = x
          BY <1>1, <3>2, <4>1, ChainAssumption
        <4>3. j \in 1..k
          OBVIOUS
        <4> HIDE DEF X
        <4> QED BY <2>3, <4>1, <4>2, <4>3 DEF Tried, X
      <3> QED BY <3>1, <3>2
    <2> HIDE DEF X, t, n
    <2>4. seen \subseteq t.seen /\ t.seen \subseteq Names
      BY <2>1, <2>2 DEF Tried
    <2>5. ASSUME NEW j \in 1..(k+1), Sorted[j] \in X \cap Present PROVE Sorted[j] \in t.seen
      BY <1>2, <2>1, <2>2, <2>5 DEF Tried, X, n
    <2>6. ASSUME NEW p \in t.new PROVE \E m \in X \cap Present : p = Append(path, m)
      <3>1. CASE p \in s.new
        BY <3>1 DEF Tried, X
      <3>2. CASE p = Append(path, n)
        BY <1>4, <2>2, <3>2
      <3> QED BY <2>1, <2>6, <3>1, <3>2
    <2>7. ASSUME NEW x \in (t.seen \ seen) \cap Present
          PROVE  \E m \in X \cap Present : Append(path, m) \in t.new /\ Beyond(x) \subseteq Fan(m)
      <3>1. CASE x \in s.seen
        <4>1. PICK m \in X \cap Present : Append(path, m) \in s.new /\ Beyond(x) \subseteq Fan(m)
          BY <2>7, <3>1 DEF Tried, X
        <4> QED BY <2>1, <4>1
      <3>2. CASE x \notin s.seen
        BY <1>4, <2>1, <2>2, <2>3, <2>7, <3>2
      <3> QED BY <3>1, <3>2
    <2>8. Tried(path, X, k + 1, t)
      BY <2>4, <2>5, <2>6, <2>7 DEF Tried
    <2> QED BY <2>8 DEF X, t, n
  <1> QED BY <1>3, <1>4

LEMMA ExpandTriesAll ==
    ASSUME Given, seen \subseteq Names, NEW path, NEW last \in Names
    PROVE  Tried(path, Fan(last), Len(Sorted), Expand(path, Fan(last)))
  <1> DEFINE X == Fan(last)
  <1>1. Len(Sorted) \in Nat
    BY ChainAssumption
  <1>2. PICK step : Steps(path, X, Len(Sorted), step) /\ Expand(path, X) = step[Len(Sorted)]
    <2>1. Expand(path, X) = (CHOOSE step : Steps(path, X, Len(Sorted), step))[Len(Sorted)]
      BY DEF Expand, Steps
    <2> QED BY <1>1, <2>1, StepsExist
  <1> HIDE DEF X
  <1>3. ASSUME NEW k \in 0..Len(Sorted)
        PROVE  step[k] = IF k = 0 THEN [seen |-> seen, new |-> {}]
                         ELSE Enqueue(path, X, step[k-1], Sorted[k])
    BY <1>2 DEF Steps
  <1> DEFINE T == {k \in Nat : k <= Len(Sorted) => Tried(path, X, k, step[k])}
  <1>4. 0 \in T
    <2>1. step[0].seen = seen /\ step[0].new = {}
      BY <1>1, <1>3
    <2> QED BY <2>1 DEF Tried
  <1>5. ASSUME NEW k \in T PROVE k + 1 \in T
    <2> SUFFICES ASSUME k + 1 <= Len(Sorted) PROVE Tried(path, X, k + 1, step[k+1])
      OBVIOUS
    <2>1. k \in Nat /\ k < Len(Sorted) /\ Tried(path, X, k, step[k])
      BY <1>1
    <2>2. step[k+1] = Enqueue(path, X, step[k], Sorted[k+1])
      BY <1>1, <1>3, <2>1
    <2> QED BY <2>1, <2>2, TriedGoesOn DEF X
  <1>6. T = Nat
    <2> HIDE DEF T
    <2>1. T \in SUBSET Nat
      BY DEF T
    <2> QED BY <1>4, <1>5, <2>1, EveryNatural
  <1> QED BY <1>1, <1>2, <1>6 DEF X

LEMMA TargetsTaken ==
    ASSUME Given, ask.to \in Symbols
    PROVE  /\ ask.to \in TargetNames(deps, ask.to)
           /\ \A c \in OwnersOf(ask.to) : ClassAliases(c) \subseteq TargetNames(deps, ask.to)
  <1>1. Family(ask.to) \subseteq Names /\ ask.to \in Family(ask.to)
    <2>1. OwnersOf(ask.to) \subseteq Names /\ ask.to \in Names
      BY OwnersAreFew, SymbolsAssumption
    <2> QED BY <2>1, AliasesAreNames DEF Family
  <1>2. \A a \in Family(ask.to) : a \in TargetNames(deps, ask.to)
    BY <1>1, CandidatesAreNames DEF TargetNames
  <1>3. \A c \in OwnersOf(ask.to) : ClassAliases(c) \subseteq Family(ask.to)
    BY DEF Family, WithMethods
  <1> QED BY <1>1, <1>2, <1>3

\* Where a first hop of the walk misses what it looks for, that is not of the
\* class it starts from.
LEMMA FirstHopTaken ==
    ASSUME Given, ChainEnds, ask.from # ask.to, ask.from \in Classes,
           Fan(ask.from) \cap TargetNames(deps, ask.to) = {}
    PROVE  ask.to \notin ClassAliases(ask.from)
  <1> DEFINE c == ask.from
             X == Fan(c)
  <1>1. c \in Names /\ ask.to \in Symbols
    BY DEF ChainEnds, Present
  <1> SUFFICES ASSUME ask.to \in ClassAliases(c) PROVE FALSE
    OBVIOUS
  <1>2. OwnersOf(ask.to) = {c}
    BY MethodsAlone
  <1>3. \A m \in Methods[c] : AnyPresence(deps, m) => m \in X
    <2> SUFFICES ASSUME NEW m \in Methods[c], AnyPresence(deps, m) PROVE m \in X
      OBVIOUS
    <2>1. m \in Neighbors(deps, c)
      BY DEF Neighbors
    <2>2. m \in ClassAliases(m)
      BY DEF ClassAliases
    <2> QED BY <1>1, <2>1, <2>2, FanIsNames
  <1>4. CASE ask.to \in Present
    <2>1. ask.to \in Methods[c] /\ AnyPresence(deps, ask.to)
      BY <1>4 DEF ClassAliases, Present
    <2> QED BY <1>1, <1>3, <2>1, TargetsTaken
  <1>5. CASE ask.to \notin Present
    <2>1. c \notin DOMAIN deps
      BY <1>2, <1>5 DEF ChainEnds
    <2>2. PICK m \in ClassAliases(c) : m \in DOMAIN deps
      BY DEF ChainEnds, ForwardPresence
    <2>3. m \in Methods[c]
      BY <2>1, <2>2 DEF ClassAliases
    <2>4. AnyPresence(deps, m)
      BY <2>2 DEF AnyPresence, ForwardPresence, ClassAliases
    <2> QED BY <1>1, <1>2, <1>3, <2>2, <2>3, <2>4, TargetsTaken
  <1> QED BY <1>4, <1>5

LEMMA ChainGoesOn ==
    ASSUME Given, Chain, VisitPath
    PROVE  Chain'
  <1>1. PICK q \in Shallowest :
          LET X == Fan(Last(q.path))
              s == Expand(q.path, X)
          IN  IF X \cap TargetNames(deps, ask.to) # {}
              THEN /\ answer' = [chain |-> Append(q.path, ask.to)]
                   /\ UNCHANGED <<queue, seen>>
              ELSE /\ queue' = (queue \ {q}) \cup Paths(s.new)
                   /\ seen' = s.seen
                   /\ UNCHANGED answer
    BY DEF VisitPath
  <1>2. /\ ask.kind = "chain" /\ answer = None /\ ask.from # ask.to
        /\ UNCHANGED <<index, ask>>
        /\ ChainEnds /\ ChainPaths /\ ChainSeen /\ ChainServed /\ ChainStarts
    BY DEF VisitPath, Running, Chain
  <1> DEFINE last == Last(q.path)
             X == Fan(last)
  <1>3. q \in queue /\ \A r \in queue : q.depth <= r.depth
    BY <1>1 DEF Shallowest
  <1>4. /\ q.path \in Seq(Names) /\ q.depth = Len(q.path) /\ q.depth \in Nat \ {0}
        /\ last \in Names
        /\ \A r \in queue : r.depth \in Nat
    BY <1>2, <1>3 DEF ChainPaths, Last
  <1>5. UNCHANGED <<deps, Hop, Present>> /\ (\A k : Around(k)' = Around(k))
        /\ (\A x : Beyond(x)' = Beyond(x)) /\ (\A n : Fan(n)' = Fan(n))
    BY <1>2 DEF deps, Hop, Present, Around, Beyond, Fan
  <1>6. ChainEnds'
    BY <1>2, <1>5 DEF ChainEnds
  <1>7. ASSUME NEW j \in Nat, j < q.depth
        PROVE  Around(j) \cap Present \subseteq seen /\ ask.to \notin Around(j)
    <2>1. \A r \in queue : r.depth \in Nat /\ r.depth > j
      BY <1>3, <1>4, <1>7
    <2> QED BY <1>2, <2>1, ChainFront
  <1> HIDE DEF last, X
  <1>8. CASE X \cap TargetNames(deps, ask.to) # {}
    <2>1. answer' = [chain |-> Append(q.path, ask.to)]
      BY <1>1, <1>8 DEF X, last
    <2>2. Append(q.path, ask.to) # <<>> /\ Len(Append(q.path, ask.to)) = q.depth + 1
      <3>1. ask.to \in Names
        BY <1>2, SymbolsAssumption DEF ChainEnds
      <3> QED BY <1>4, <3>1
    <2>3. ASSUME NEW k \in Nat, ask.to \in Around(k) PROVE q.depth <= k
      BY <1>4, <1>7, <2>3
    <2>4. ChainIsFound'
      <3> SUFFICES ASSUME NEW k \in 0..Cardinality(Symbols), ask.to \in Around(k)
                   PROVE  answer'.chain # <<>> /\ Len(answer'.chain) <= k + 1
        BY <1>2, <1>5 DEF ChainIsFound, Around
      <3>1. k \in Nat
        OBVIOUS
      <3> QED BY <1>4, <2>1, <2>2, <2>3, <3>1
    <2>5. UNCHANGED <<queue, seen>>
      BY <1>1, <1>8 DEF X, last
    <2>6. ChainPaths' /\ ChainSeen' /\ ChainServed' /\ ChainStarts'
      BY <1>2, <1>5, <2>5 DEF ChainPaths, ChainSeen, ChainServed, ChainStarts, Done
    <2> QED BY <1>6, <2>4, <2>6 DEF Chain
  <1>9. CASE X \cap TargetNames(deps, ask.to) = {}
    <2> DEFINE s == Expand(q.path, X)
    <2>1. queue' = (queue \ {q}) \cup Paths(s.new) /\ seen' = s.seen /\ answer' = None
      BY <1>1, <1>2, <1>9 DEF X, last
    <2>2. Tried(q.path, X, Len(Sorted), s)
      BY <1>2, <1>4, ExpandTriesAll DEF X, ChainSeen
    <2> HIDE DEF s
    <2>3. seen \subseteq seen' /\ ChainSeen'
      BY <1>2, <2>1, <2>2 DEF Tried, ChainSeen
    <2>4. X \cap Present \subseteq seen'
      <3> SUFFICES ASSUME NEW n \in X \cap Present PROVE n \in s.seen
        BY <2>1
      <3>1. PICK k \in DOMAIN Sorted : Sorted[k] = n
        BY ChainAssumption DEF Present
      <3>2. k \in 1..Len(Sorted)
        BY ChainAssumption
      <3> QED BY <2>2, <3>1, <3>2 DEF Tried
    <2>5. ASSUME NEW n \in X \cap Present, Append(q.path, n) \in s.new
          PROVE  \E r \in queue' : r.depth = q.depth + 1 /\ Last(r.path) = n
      <3> DEFINE r == [path |-> Append(q.path, n), depth |-> Len(Append(q.path, n))]
      <3>1. r \in queue'
        BY <2>1, <2>5 DEF Paths
      <3>2. n \in Names
        BY DEF Present
      <3>3. Len(Append(q.path, n)) = q.depth + 1 /\ Append(q.path, n)[q.depth + 1] = n
        BY <1>4, <3>2
      <3> QED BY <3>1, <3>3 DEF Last
    <2>6. ChainPaths'
      <3> SUFFICES ASSUME NEW r \in queue', r \notin queue
                   PROVE  /\ r.path \in Seq(Names) /\ r.path # <<>> /\ r.depth = Len(r.path)
                          /\ r.depth # 1
        BY <1>2 DEF ChainPaths
      <3>1. PICK p \in s.new : r = [path |-> p, depth |-> Len(p)]
        BY <2>1 DEF Paths
      <3>2. PICK n \in X \cap Present : p = Append(q.path, n)
        BY <2>2, <3>1 DEF Tried
      <3>3. n \in Names
        BY DEF Present
      <3>4. p \in Seq(Names) /\ Len(p) = q.depth + 1 /\ p # <<>>
        BY <1>4, <3>2, <3>3
      <3> QED BY <1>4, <3>1, <3>4
    <2>7. ask.to \notin X
      BY <1>2, <1>9, TargetsTaken DEF ChainEnds
    <2>8. ChainServed'
      <3> SUFFICES ASSUME NEW j \in Nat, NEW x \in seen' \cap Present \cap Around(j)
                   PROVE  Done(x)' \/ \E r \in queue' : r.depth <= j + 1 /\ Beyond(x) \subseteq Fan(Last(r.path))
        BY <1>5 DEF ChainServed
      <3>1. CASE x \in seen
        <4>1. CASE Done(x)
          BY <1>2, <1>5, <2>3, <4>1 DEF Done
        <4>2. ASSUME NEW r \in queue, r.depth <= j + 1, Beyond(x) \subseteq Fan(Last(r.path))
              PROVE  Done(x)' \/ \E t \in queue' : t.depth <= j + 1 /\ Beyond(x) \subseteq Fan(Last(t.path))
          <5>1. CASE r # q
            BY <2>1, <4>2, <5>1
          <5>2. CASE r = q
            BY <1>2, <1>5, <2>4, <2>7, <4>2, <5>2 DEF Done, X, last
          <5> QED BY <5>1, <5>2
        <4> QED BY <1>2, <3>1, <4>1, <4>2 DEF ChainServed
      <3>2. CASE x \notin seen
        <4>1. PICK n \in X \cap Present : Append(q.path, n) \in s.new /\ Beyond(x) \subseteq Fan(n)
          BY <2>1, <2>2, <3>2 DEF Tried
        <4>2. PICK r \in queue' : r.depth = q.depth + 1 /\ Last(r.path) = n
          BY <2>5, <4>1
        <4>3. q.depth <= j
          BY <1>4, <1>7, <3>2
        <4> QED BY <1>4, <4>1, <4>2, <4>3
      <3> QED BY <3>1, <3>2
    <2>9. ChainStarts'
      <3>1. CASE ~ \E r \in queue : r.path = <<ask.from>> /\ r.depth = 1
        BY <1>2, <1>5, <2>3, <3>1 DEF ChainStarts
      <3>2. ASSUME NEW r \in queue, r.path = <<ask.from>>, r.depth = 1
            PROVE  ClassAliases(ask.from) \cap Present \subseteq seen' /\ ask.to \notin ClassAliases(ask.from)
        <4>1. q.depth = 1 /\ q.path = <<ask.from>> /\ last = ask.from
          <5>1. q.depth <= 1 /\ q.depth \in Nat \ {0}
            BY <1>3, <1>4, <3>2
          <5>2. q.path = <<ask.from>>
            BY <1>2, <1>3, <5>1 DEF ChainPaths
          <5>3. Last(<<ask.from>>) = ask.from
            BY DEF Last
          <5> QED BY <5>1, <5>2, <5>3 DEF last
        <4>2. CASE ask.from \notin Classes
          BY <1>2, <2>3, <4>2, MethodsAlone DEF ChainSeen
        <4>3. CASE ask.from \in Classes
          <5>1. ask.to \notin ClassAliases(ask.from)
            BY <1>2, <1>9, <4>1, <4>3, FirstHopTaken DEF X
          <5>2. ASSUME NEW m \in Methods[ask.from], m \in Present PROVE m \in X
            <6>1. m \in Neighbors(deps, ask.from) /\ m \in ClassAliases(m)
              BY <4>3, <5>2 DEF Neighbors, Present, ClassAliases
            <6> QED BY <1>4, <4>1, <6>1, FanIsNames DEF X
          <5>3. ClassAliases(ask.from) = {ask.from} \cup Methods[ask.from]
            BY <4>3 DEF ClassAliases
          <5> QED BY <1>2, <2>3, <2>4, <5>1, <5>2, <5>3 DEF ChainSeen
        <4> QED BY <4>2, <4>3
      <3> QED BY <1>2, <1>5, <3>1, <3>2 DEF ChainStarts
    <2> QED BY <1>2, <1>6, <2>1, <2>3, <2>6, <2>8, <2>9 DEF Chain
  <1> QED BY <1>8, <1>9

LEMMA ResolvedIsPresent ==
    ASSUME Given, NEW n \in Symbols, ResolveGraphName(deps, n) # None
    PROVE  LET r == ResolveGraphName(deps, n)
           IN  r \in Symbols /\ r \in Present /\ ForwardPresence(deps, r)
  <1> DEFINE r == ResolveGraphName(deps, n)
  <1>1. InfoName(n) = n
    BY Namings
  <1>2. r \in Symbols /\ (r \in DOMAIN deps \/ ForwardPresence(deps, r))
    <2>1. CASE r = n
      <3>1. n \notin OwnersOf(n) /\ n # None
        BY OwnersAreFew, SymbolsAssumption
      <3>2. n \in DOMAIN deps \/ ForwardPresence(deps, n)
        BY <1>1, <2>1, <3>1, Resolved DEF ForwardPresence
      <3> QED BY <2>1, <3>2
    <2>2. CASE r \in OwnersOf(n) /\ OwnersOf(n) \cap DOMAIN deps # {}
      <3>1. OwnersOf(n) = {r}
        BY <2>2, OwnersAreFew DEF OwnersOf
      <3> QED BY <2>2, <3>1, OwnersAreFew, SymbolsAssumption
    <2> QED BY <1>1, <2>1, <2>2, Resolved
  <1>3. ForwardPresence(deps, r)
    BY <1>2 DEF ForwardPresence, ClassAliases
  <1>4. AnyPresence(deps, r) /\ r \in Names
    BY <1>2, <1>3, SymbolsAssumption DEF AnyPresence
  <1> QED BY <1>2, <1>3, <1>4 DEF Present

\* The walk starts with the path that is its first name alone.
LEMMA ChainBegins ==
    ASSUME Given, NEW a \in Symbols, NEW b \in Symbols, AskChain(a, b)
    PROVE  Chain'
  <1> DEFINE from == ResolveGraphName(deps, a)
             to == ChainEnd(b)
             first == [path |-> <<from>>, depth |-> 1]
  <1>1. /\ from # None /\ UNCHANGED index /\ answer' = None
        /\ ask'.kind = "chain" /\ ask'.from = from /\ ask'.to = to
        /\ queue' = {first} /\ seen' = {from}
    BY DEF AskChain, Begin, Paths
  <1>2. from \in Symbols /\ from \in Present /\ ForwardPresence(deps, from)
    BY <1>1, ResolvedIsPresent
  <1>3. to \in Symbols /\ (to \notin Present => OwnersOf(to) \cap DOMAIN deps = {})
    <2>1. CASE ResolveGraphName(deps, b) # None
      BY <2>1, ResolvedIsPresent DEF ChainEnd
    <2>2. CASE ResolveGraphName(deps, b) = None
      <3>1. to = b
        BY <2>2, Namings DEF ChainEnd
      <3>2. b # None
        BY SymbolsAssumption
      <3>3. OwnersOf(b) \cap DOMAIN deps = {}
        BY <2>2, <3>2, Namings, Resolved, OwnersAreFew, SymbolsAssumption
      <3> QED BY <3>1, <3>3
    <2> QED BY <2>1, <2>2
  <1>4. UNCHANGED <<deps, Hop, Present>>
        /\ (\A x : Beyond(x)' = Beyond(x)) /\ (\A n : Fan(n)' = Fan(n))
    BY <1>1 DEF deps, Hop, Present, Beyond, Fan
  <1>5. from \in Names /\ Beyond(from) \subseteq Fan(from)
    <2>1. from \in Names
      BY <1>2 DEF Present
    <2> QED BY <2>1, CandidatesAreNames, Serves
  <1> HIDE DEF from, to
  <1>6. ChainEnds'
    BY <1>1, <1>2, <1>3, <1>4 DEF ChainEnds
  <1>7. first.path \in Seq(Names) /\ first.path # <<>> /\ Len(first.path) = 1 /\ Last(first.path) = from
    BY <1>5 DEF Last
  <1>8. ChainPaths' /\ ChainSeen' /\ ChainStarts'
    BY <1>1, <1>5, <1>7 DEF ChainPaths, ChainSeen, ChainStarts
  <1>9. ChainServed'
    <2>1. \A j \in Nat : first.depth <= j + 1
      OBVIOUS
    <2>2. Beyond(from) \subseteq Fan(Last(first.path))
      BY <1>5, <1>7
    <2> HIDE DEF first
    <2> SUFFICES ASSUME NEW j \in Nat, NEW x \in seen'
                 PROVE  \E q \in queue' : q.depth <= j + 1 /\ Beyond(x) \subseteq Fan(Last(q.path))
      BY <1>4 DEF ChainServed
    <2> QED BY <1>1, <2>1, <2>2
  <1> QED BY <1>1, <1>6, <1>8, <1>9 DEF Chain

\* No path is left only where there is none.
LEMMA ChainAnswered ==
    ASSUME Given, Chain, AnswerChain
    PROVE  Chain'
  <1>1. /\ ask.kind = "chain" /\ answer = None /\ UNCHANGED <<index, ask, queue, seen>>
        /\ ask.from = ask.to \/ queue = {}
        /\ answer'.chain = IF ask.from = ask.to THEN <<ask.from>> ELSE <<>>
    BY DEF AnswerChain, Running, Finish
  <1>2. /\ ChainEnds
        /\ ask.from # ask.to => ChainPaths /\ ChainSeen /\ ChainServed /\ ChainStarts
    BY <1>1 DEF Chain
  <1>3. UNCHANGED <<deps, Hop, Present>> /\ (\A k : Around(k)' = Around(k))
        /\ (\A x : Beyond(x)' = Beyond(x)) /\ (\A n : Fan(n)' = Fan(n))
    BY <1>1 DEF deps, Hop, Present, Around, Beyond, Fan
  <1>4. ChainEnds'
    BY <1>1, <1>2, <1>3 DEF ChainEnds
  <1>5. ask.from # ask.to => (ChainPaths /\ ChainSeen /\ ChainServed /\ ChainStarts)'
    BY <1>1, <1>2, <1>3 DEF ChainPaths, ChainSeen, ChainServed, ChainStarts, Done
  <1>6. ChainIsFound'
    <2> SUFFICES ASSUME NEW k \in 0..Cardinality(Symbols), ask.to \in Around(k)
                 PROVE  answer'.chain # <<>> /\ Len(answer'.chain) <= k + 1
      BY <1>1, <1>3 DEF ChainIsFound, Around
    <2>1. k \in Nat /\ k >= 0
      OBVIOUS
    <2>2. CASE ask.from = ask.to
      <3>1. answer'.chain = <<ask.from>>
        BY <1>1, <2>2
      <3>2. <<ask.from>> # <<>> /\ Len(<<ask.from>>) = 1
        OBVIOUS
      <3> QED BY <2>1, <3>1, <3>2
    <2>3. CASE ask.from # ask.to
      <3>1. \A q \in queue : q.depth \in Nat /\ q.depth > k
        BY <1>1, <2>3
      <3> QED BY <1>2, <2>1, <2>3, <3>1, ChainFront
    <2> QED BY <2>2, <2>3
  <1> QED BY <1>1, <1>4, <1>5, <1>6 DEF Chain

LEMMA ChainKept == Given /\ Chain /\ [Next]_vars => Chain'
  <1> SUFFICES ASSUME Given, Chain, [Next]_vars PROVE Chain'
    OBVIOUS
  <1>1. CASE ask'.kind # "chain"
    BY <1>1 DEF Chain
  <1>2. CASE Ask
    <2>1. CASE \E a, b \in Symbols : AskChain(a, b)
      BY <2>1, ChainBegins
    <2>2. CASE ~ \E a, b \in Symbols : AskChain(a, b)
      <3>1. ASSUME NEW kind, NEW n, NEW limit, AskDirect(kind, n, limit)
            PROVE  ask'.kind = kind
        BY <3>1 DEF AskDirect
      <3>2. ASSUME NEW n, NEW depth, NEW limit, AskDependencies(n, depth, limit)
            PROVE  ask'.kind = "walk"
        BY <3>2 DEF AskDependencies, Begin
      <3>3. ASSUME NEW n, NEW most, NEW mostFar, AskImpact(n, most, mostFar)
            PROVE  ask'.kind = "impact"
        BY <3>3 DEF AskImpact, Begin
      <3>4. ASSUME NEW changed, NEW names, BeginTests(changed, names) PROVE ask'.kind = "tests"
        BY <3>4 DEF BeginTests, Begin
      <3>5. AskCycles => ask'.kind = "cycles"
        BY DEF AskCycles, Begin
      <3>6. ask'.kind \in {"dependents", "dependencies", "walk", "impact", "tests", "cycles"}
        BY <1>2, <2>2, <3>1, <3>2, <3>3, <3>4, <3>5 DEF Ask, AskTestsOfSymbol, AskTestsOfFiles
      <3> QED BY <1>1, <3>6
    <2> QED BY <2>1, <2>2
  <1>3. CASE \/ VisitDependency \/ VisitDependent \/ VisitImport \/ VisitReferrer \/ VisitImporter
             \/ AnswerDependencies \/ AnswerImpact \/ AnswerCycles \/ AnswerTests
    <2>1. ask.kind \in {"walk", "impact", "cycles", "tests"} /\ UNCHANGED ask
      BY <1>3 DEF VisitDependency, VisitDependent, VisitImport, VisitReferrer, VisitImporter,
                  AnswerDependencies, AnswerImpact, AnswerCycles, AnswerTests, Running, Finish
    <2> QED BY <1>1, <2>1
  <1>4. CASE VisitPath \/ AnswerChain
    BY <1>4, ChainGoesOn, ChainAnswered
  <1>5. CASE Reply
    BY <1>1, <1>5 DEF Reply
  <1>6. CASE UNCHANGED vars
    <2>1. UNCHANGED <<index, ask, queue, seen, answer>>
      BY <1>6 DEF vars
    <2>2. UNCHANGED <<deps, Hop, Present>> /\ (\A k : Around(k)' = Around(k))
          /\ (\A x : Beyond(x)' = Beyond(x)) /\ (\A n : Fan(n)' = Fan(n))
      BY <2>1 DEF deps, Hop, Present, Around, Beyond, Fan
    <2> QED BY <2>1, <2>2 DEF Chain, ChainEnds, ChainPaths, ChainSeen, ChainServed, ChainStarts,
                              Done, ChainIsFound, Answered, Around
  <1> QED BY <1>2, <1>3, <1>4, <1>5, <1>6 DEF Next, Visit, Answer

\* get_call_chain finds a chain wherever the graph has one, and none longer than
\* the shortest, although a name queued marks all it may stand for as visited.
THEOREM ChainsAreFound == Spec => []ChainIsFound
  <1>1. Init => Chain
    BY DEF Init, Chain
  <1>2. QueryInv => Given
    BY DEF QueryInv
  <1>3. Chain => ChainIsFound
    BY DEF Chain, ChainIsFound, Answered
  <1> QED BY <1>1, <1>2, <1>3, ChainKept, WalksKeepTrack, PTL DEF Spec
-----------------------------------------------------------------------------
(* The import cycles of the index asked.                                    *)

CyclesReported(i) ==
    /\ answer.cycles \subseteq ImportCyclesOf(i.imports)
    /\ MaxCycles = 0 => answer.cycles = ImportCyclesOf(i.imports)
Cycles ==
    \E i \in Indexes :
        /\ index = i
        /\ ask.kind # "cycles" => CyclesInit
        /\ ask.kind = "cycles" => CyclesInv(i.imports)
        /\ ask.kind = "cycles" /\ answer # None => CyclesReported(i)

LEMMA ImportsAreFiles ==
    ASSUME NEW i \in Indexes
    PROVE  FileGraph(i.imports) /\ DOMAIN i.imports \subseteq Files
  BY QueriesAssumption DEF FileGraph, Imported

LEMMA CyclesAnswered ==
    ASSUME NEW i \in Indexes, index = i, CyclesInv(i.imports), AnswerCycles
    PROVE  CyclesReported(i)' /\ UNCHANGED <<index, ask, cycleVars>>
  <1>1. PICK kept \in Keep(cycles, MaxCycles) : Finish([cycles |-> kept])
    BY DEF AnswerCycles
  <1>2. cycles = ImportCyclesOf(i.imports)
    BY ImportsAreFiles, AllCyclesFound DEF AnswerCycles
  <1>3. IsFiniteSet(cycles)
    <2>1. FileGraph(i.imports) /\ IsFiniteSet(Files)
      BY ImportsAreFiles DEF FileGraph
    <2>2. \A f \in Files : Reach(i.imports, f) \subseteq Files
      BY <2>1, ReachIsClosed
    <2>3. cycles \in SUBSET (SUBSET Files)
      BY <1>2, <2>2 DEF ImportCyclesOf
    <2> QED BY <2>1, <2>3, FS_SUBSET, FS_Subset
  <1>4. MaxCycles \in Nat
    BY QueriesAssumption
  <1>5. kept \subseteq cycles /\ (MaxCycles = 0 => kept = cycles)
    BY <1>1, <1>3, <1>4, KeptAll
  <1>6. answer' = [cycles |-> kept] /\ UNCHANGED <<index, ask, cycleVars>>
    BY <1>1 DEF Finish
  <1> QED BY <1>2, <1>5, <1>6 DEF CyclesReported

LEMMA CyclesKept == Cycles /\ [Next]_vars => Cycles'
  <1> SUFFICES ASSUME Cycles, [Next]_vars PROVE Cycles'
    OBVIOUS
  <1>1. PICK i \in Indexes :
          /\ index = i
          /\ ask.kind # "cycles" => CyclesInit
          /\ ask.kind = "cycles" => CyclesInv(i.imports)
          /\ ask.kind = "cycles" /\ answer # None => CyclesReported(i)
    BY DEF Cycles
  <1>2. CASE index' = index /\ ask.kind # "cycles" /\ ask'.kind # "cycles" /\ UNCHANGED cycleVars
    <2>1. CyclesInit'
      BY <1>1, <1>2 DEF CyclesInit, cycleVars
    <2> QED BY <1>1, <1>2, <2>1 DEF Cycles
  <1>3. CASE Ask
    <2>1. ask.kind = "none" /\ index' = index /\ UNCHANGED cycleVars
      BY <1>3 DEF Ask, AskDirect, AskDependencies, AskImpact, AskTestsOfSymbol, AskTestsOfFiles,
                  BeginTests, AskChain, AskCycles, Begin, Idle
    <2>2. CASE ask'.kind # "cycles"
      BY <1>2, <2>1, <2>2
    <2>3. CASE ask'.kind = "cycles"
      <3>1. answer' = None
        <4>1. ASSUME NEW kind, NEW n, NEW limit, AskDirect(kind, n, limit)
              PROVE  ask'.kind = kind
          BY <4>1 DEF AskDirect
        <4> QED BY <1>3, <2>3, <4>1
              DEF Ask, AskDependencies, AskImpact, AskTestsOfSymbol,
                  AskTestsOfFiles, BeginTests, AskChain, AskCycles, Begin
      <3>2. CyclesInv(i.imports)
        BY <1>1, <2>1, CyclesInvInit
      <3>3. CyclesInv(i.imports)'
        BY <2>1, <3>2, CyclesInvUnchanged
      <3> QED BY <1>1, <2>1, <2>3, <3>1, <3>3 DEF Cycles
    <2> QED BY <2>2, <2>3
  <1>4. CASE VisitImport
    <2>1. /\ ask.kind = "cycles" /\ answer = None /\ UNCHANGED <<index, ask, answer>>
          /\ CyclesStep(i.imports)
      BY <1>1, <1>4 DEF VisitImport, Running
    <2>2. CyclesInv(i.imports)'
      BY <1>1, <2>1, ImportsAreFiles, CyclesInvStep
    <2> QED BY <1>1, <2>1, <2>2 DEF Cycles
  <1>5. CASE AnswerCycles
    <2>1. ask.kind = "cycles"
      BY <1>5 DEF AnswerCycles, Running
    <2>2. CyclesReported(i)' /\ UNCHANGED <<index, ask, cycleVars>>
      BY <1>1, <1>5, <2>1, CyclesAnswered
    <2>3. CyclesInv(i.imports)'
      BY <1>1, <2>1, <2>2, CyclesInvUnchanged
    <2> QED BY <1>1, <2>1, <2>2, <2>3 DEF Cycles
  <1>6. CASE Reply
    <2>1. CyclesInit' /\ ask'.kind = "none" /\ index' = index
      BY <1>6 DEF Reply, CyclesInit, Nothing
    <2> QED BY <1>1, <2>1 DEF Cycles
  <1>7. CASE \/ VisitDependency \/ VisitDependent \/ VisitPath \/ VisitReferrer \/ VisitImporter
             \/ AnswerDependencies \/ AnswerImpact \/ AnswerChain \/ AnswerTests
    <2>1. ask.kind # "cycles" /\ UNCHANGED <<index, ask, cycleVars>>
      BY <1>7 DEF VisitDependency, VisitDependent, VisitPath, VisitReferrer, VisitImporter, Finish,
                  AnswerDependencies, AnswerImpact, AnswerChain, AnswerTests, Running
    <2> QED BY <1>2, <2>1
  <1>8. CASE UNCHANGED vars
    <2>1. UNCHANGED <<index, ask, answer, cycleVars>>
      BY <1>8 DEF vars
    <2>2. CASE ask.kind # "cycles"
      BY <1>2, <2>1, <2>2
    <2>3. CASE ask.kind = "cycles"
      <3>1. CyclesInv(i.imports)'
        BY <1>1, <2>1, <2>3, CyclesInvUnchanged
      <3> QED BY <1>1, <2>1, <2>3, <3>1 DEF Cycles, CyclesReported
    <2> QED BY <2>2, <2>3
  <1> QED BY <1>3, <1>4, <1>5, <1>6, <1>7, <1>8 DEF Next, Visit, Answer

\* find_import_cycles reports the sets of files that import one another, each
\* whole, and without a limit all of them, for any import graph and in any
\* order of files and neighbours (query_api.py).
THEOREM CyclesAreWhole == Spec => []CyclesAreComponents
  <1>1. Init => Cycles
    BY DEF Init, Cycles
  <1>2. Cycles => CyclesAreComponents
    BY DEF Cycles, CyclesReported, CyclesAreComponents, Answered
  <1> QED BY <1>1, <1>2, CyclesKept, PTL DEF Spec
=============================================================================
