--------------------------- MODULE GraphProofs ---------------------------
(* What walks over a graph find: the closure of a step, the components of   *)
(* find_import_cycles and the communities of the two detectors; and what     *)
(* the analyses answer.                                                     *)
EXTENDS ImportCycles, Analyses, FiniteSetTheorems, SequenceTheorems,
        WellFoundedInduction, TLAPS


(* Induction over the naturals, and the closure of a step.                  *)

\* A set of naturals with zero, and with the successor of each of its members.
LEMMA EveryNatural ==
    ASSUME NEW T \in SUBSET Nat, 0 \in T, \A n \in T : n + 1 \in T
    PROVE  T = Nat
  <1> DEFINE R == OpToRel(<, Nat)
  <1>1. IsWellFoundedOn(R, Nat)
    BY NatLessThanWellFounded
  <1>2. ASSUME Nat \ T # {} PROVE FALSE
    <2>1. PICK x \in Nat \ T : \A y \in Nat \ T : ~(<<y, x>> \in R)
      <3> HIDE DEF R
      <3> QED BY <1>1, <1>2, WFMin
    <2>2. x - 1 \in Nat \ T
      OBVIOUS
    <2>3. <<x - 1, x>> \in R
      BY <2>2 DEF OpToRel
    <2> QED BY <2>1, <2>2, <2>3
  <1> QED BY <1>2

\* What the members of a set lead to in one step.
Spread(step, T) == UNION {step[m] : m \in T}

\* The rounds of Within, as its recursive function defines them.
Rounds(step, S, n, reach) ==
    reach = [k \in 0..n |-> IF k = 0 THEN S
                            ELSE reach[k-1] \cup Spread(step, reach[k-1])]

LEMMA RoundsExist ==
    ASSUME NEW step, NEW S, NEW n \in Nat
    PROVE  \E reach : Rounds(step, S, n, reach)
  <1> DEFINE T == {k \in Nat : \E reach : Rounds(step, S, k, reach)}
  <1>1. 0 \in T
    <2>1. Rounds(step, S, 0, [k \in 0..0 |-> S])
      BY DEF Rounds
    <2> QED BY <2>1
  <1>2. ASSUME NEW k \in T PROVE k + 1 \in T
    <2>1. PICK reach : Rounds(step, S, k, reach)
      OBVIOUS
    <2> DEFINE next == [j \in 0..(k+1) |->
                           IF j = k + 1 THEN reach[k] \cup Spread(step, reach[k])
                           ELSE reach[j]]
    <2>2. ASSUME NEW j \in 0..(k+1)
          PROVE  next[j] = IF j = 0 THEN S
                           ELSE next[j-1] \cup Spread(step, next[j-1])
      <3>1. CASE j = k + 1
        BY <3>1
      <3>2. CASE j # k + 1
        <4>1. j \in 0..k /\ next[j] = reach[j] /\ (j # 0 => next[j-1] = reach[j-1])
          BY <3>2
        <4>2. reach[j] = IF j = 0 THEN S ELSE reach[j-1] \cup Spread(step, reach[j-1])
          BY <2>1, <4>1 DEF Rounds
        <4> QED BY <4>1, <4>2
      <3> QED BY <3>1, <3>2
    <2>3. Rounds(step, S, k + 1, next)
      BY <2>2 DEF Rounds
    <2> QED BY <2>3
  <1>3. T = Nat
    <2> HIDE DEF T
    <2>1. T \in SUBSET Nat
      BY DEF T
    <2> QED BY <1>1, <1>2, <2>1, EveryNatural
  <1> QED BY <1>3

LEMMA RoundsAgree ==
    ASSUME NEW step, NEW S, NEW n \in Nat, NEW i, NEW j,
           Rounds(step, S, n, i), Rounds(step, S, n + 1, j)
    PROVE  i[n] = j[n]
  <1> DEFINE T == {k \in Nat : k <= n => i[k] = j[k]}
  <1>1. 0 \in T
    BY DEF Rounds
  <1>2. ASSUME NEW k \in T PROVE k + 1 \in T
    <2> SUFFICES ASSUME k + 1 <= n PROVE i[k+1] = j[k+1]
      OBVIOUS
    <2>1. i[k] = j[k]
      OBVIOUS
    <2>2. k + 1 \in 0..n /\ k + 1 \in 0..(n+1) /\ k + 1 # 0 /\ (k + 1) - 1 = k
      OBVIOUS
    <2>3. i[k+1] = i[k] \cup Spread(step, i[k])
      <3>1. \A m \in 0..n : m # 0 => i[m] = i[m-1] \cup Spread(step, i[m-1])
        BY DEF Rounds
      <3> QED BY <2>2, <3>1
    <2>4. j[k+1] = j[k] \cup Spread(step, j[k])
      <3>1. \A m \in 0..(n+1) : m # 0 => j[m] = j[m-1] \cup Spread(step, j[m-1])
        BY DEF Rounds
      <3> QED BY <2>2, <3>1
    <2> QED BY <2>1, <2>3, <2>4
  <1>3. T = Nat
    <2> HIDE DEF T
    <2>1. T \in SUBSET Nat
      BY DEF T
    <2> QED BY <1>1, <1>2, <2>1, EveryNatural
  <1> QED BY <1>3

\* No step reaches what one starts from; one more adds what its members lead to.
LEMMA WithinIsRounds ==
    ASSUME NEW step, NEW S, NEW n \in Nat
    PROVE  \E reach : Rounds(step, S, n, reach) /\ Within(step, S, n) = reach[n]
  <1>1. Within(step, S, n) = (CHOOSE reach : Rounds(step, S, n, reach))[n]
    BY DEF Within, Closure, Rounds, Spread
  <1> QED BY <1>1, RoundsExist

LEMMA WithinStart == ASSUME NEW step, NEW S PROVE Within(step, S, 0) = S
  BY WithinIsRounds DEF Rounds

LEMMA WithinStep ==
    ASSUME NEW step, NEW S, NEW n \in Nat
    PROVE  Within(step, S, n + 1) = Within(step, S, n) \cup Spread(step, Within(step, S, n))
  <1>1. PICK i : Rounds(step, S, n, i) /\ Within(step, S, n) = i[n]
    BY WithinIsRounds
  <1>2. PICK j : Rounds(step, S, n + 1, j) /\ Within(step, S, n + 1) = j[n+1]
    BY WithinIsRounds
  <1>3. i[n] = j[n]
    BY <1>1, <1>2, RoundsAgree
  <1>4. j[n+1] = j[n] \cup Spread(step, j[n])
    <2>1. \A m \in 0..(n+1) : m # 0 => j[m] = j[m-1] \cup Spread(step, j[m-1])
      BY <1>2 DEF Rounds
    <2> QED BY <2>1
  <1> QED BY <1>1, <1>2, <1>3, <1>4

\* What is within so many steps is within more of them.
LEMMA WithinGrows ==
    ASSUME NEW step, NEW S, NEW i \in Nat, NEW j \in Nat, i <= j
    PROVE  Within(step, S, i) \subseteq Within(step, S, j)
  <1> DEFINE T == {d \in Nat : Within(step, S, i) \subseteq Within(step, S, i + d)}
  <1>1. 0 \in T
    OBVIOUS
  <1>2. ASSUME NEW d \in T PROVE d + 1 \in T
    <2>1. Within(step, S, (i + d) + 1) =
            Within(step, S, i + d) \cup Spread(step, Within(step, S, i + d))
      BY WithinStep
    <2>2. i + (d + 1) = (i + d) + 1
      OBVIOUS
    <2> QED BY <2>1, <2>2
  <1>3. T = Nat
    <2> HIDE DEF T
    <2>1. T \in SUBSET Nat
      BY DEF T
    <2> QED BY <1>1, <1>2, <2>1, EveryNatural
  <1>4. j - i \in Nat /\ i + (j - i) = j
    OBVIOUS
  <1>5. j - i \in T
    BY <1>3, <1>4
  <1> QED BY <1>4, <1>5

\* A set that the step does not leave holds all that is reached from within it.
LEMMA WithinStays ==
    ASSUME NEW step, NEW S, NEW C, S \subseteq C, \A m \in C : step[m] \subseteq C,
           NEW n \in Nat
    PROVE  Within(step, S, n) \subseteq C
  <1> DEFINE T == {k \in Nat : Within(step, S, k) \subseteq C}
  <1>1. 0 \in T
    BY WithinStart
  <1>2. ASSUME NEW k \in T PROVE k + 1 \in T
    <2>1. k \in Nat /\ Within(step, S, k) \subseteq C
      OBVIOUS
    <2>2. Within(step, S, k + 1) =
            Within(step, S, k) \cup Spread(step, Within(step, S, k))
      BY <2>1, WithinStep
    <2> QED BY <2>1, <2>2 DEF Spread
  <1>3. T = Nat
    <2> HIDE DEF T
    <2>1. T \in SUBSET Nat
      BY DEF T
    <2> QED BY <1>1, <1>2, <2>1, EveryNatural
  <1> QED BY <1>3

\* A walk that has visited every level below d has seen what is within that
\* many steps, each at a level no greater than its distance.
LEMMA Layers ==
    ASSUME NEW step, NEW S, NEW C, NEW level, NEW b \in Nat, NEW d \in Nat,
           \A s \in S : s \in C /\ level[s] <= b,
           \A s \in C : level[s] \in Nat,
           \A s \in C : level[s] < d =>
              \A t \in step[s] : t \in C /\ level[t] <= level[s] + 1,
           NEW n \in Nat, n + b <= d
    PROVE  \A s \in Within(step, S, n) : s \in C /\ level[s] <= n + b
  <1> DEFINE T == {k \in Nat : k + b <= d =>
                     \A s \in Within(step, S, k) : s \in C /\ level[s] <= k + b}
  <1>1. 0 \in T
    BY WithinStart
  <1>2. ASSUME NEW k \in T PROVE k + 1 \in T
    <2> SUFFICES ASSUME k + 1 + b <= d, NEW t \in Within(step, S, k + 1)
                 PROVE  t \in C /\ level[t] <= k + 1 + b
      OBVIOUS
    <2>1. k \in Nat /\ \A s \in Within(step, S, k) : s \in C /\ level[s] <= k + b
      OBVIOUS
    <2>2. Within(step, S, k + 1) =
            Within(step, S, k) \cup Spread(step, Within(step, S, k))
      BY <2>1, WithinStep
    <2>3. CASE t \in Within(step, S, k)
      BY <2>1, <2>3
    <2>4. CASE t \notin Within(step, S, k)
      <3>1. PICK m \in Within(step, S, k) : t \in step[m]
        BY <2>2, <2>4 DEF Spread
      <3>2. m \in C /\ level[m] <= k + b /\ level[m] \in Nat
        BY <2>1, <3>1
      <3>3. t \in C /\ level[t] <= level[m] + 1 /\ level[t] \in Nat
        BY <3>1, <3>2
      <3> QED BY <3>2, <3>3
    <2> QED BY <2>3, <2>4
  <1>3. T = Nat
    <2> HIDE DEF T
    <2>1. T \in SUBSET Nat
      BY DEF T
    <2> QED BY <1>1, <1>2, <2>1, EveryNatural
  <1> QED BY <1>3

\* Levels without a gap are no more than the elements that have them.
LEMMA LevelsAreFew ==
    ASSUME NEW map, IsFiniteSet(DOMAIN map),
           \A s \in DOMAIN map : map[s] \in Nat \ {0},
           \A s \in DOMAIN map : map[s] > 1 => \E t \in DOMAIN map : map[t] = map[s] - 1,
           NEW x \in DOMAIN map
    PROVE  map[x] <= Cardinality(DOMAIN map)
  <1> DEFINE n == map[x]
             T == {k \in Nat : k < n => \E t \in DOMAIN map : map[t] = n - k}
             least == {t \in DOMAIN map : map[t] <= n}
             on == [t \in least |-> map[t]]
  <1>0. n \in Nat \ {0}
    OBVIOUS
  <1>1. 0 \in T
    BY <1>0
  <1>2. ASSUME NEW k \in T PROVE k + 1 \in T
    <2> SUFFICES ASSUME k + 1 < n PROVE \E t \in DOMAIN map : map[t] = n - (k + 1)
      OBVIOUS
    <2>1. PICK s \in DOMAIN map : map[s] = n - k
      BY <1>0
    <2>2. map[s] > 1
      BY <1>0, <2>1
    <2>3. PICK t \in DOMAIN map : map[t] = map[s] - 1
      BY <2>2
    <2> QED BY <1>0, <2>1, <2>3
  <1>3. T = Nat
    <2> HIDE DEF T
    <2>1. T \in SUBSET Nat
      BY DEF T
    <2> QED BY <1>1, <1>2, <2>1, EveryNatural
  <1>4. \A i \in 1..n : \E t \in least : map[t] = i
    <2> SUFFICES ASSUME NEW i \in 1..n PROVE \E t \in least : map[t] = i
      OBVIOUS
    <2>1. n - i \in T /\ n - i < n /\ n - (n - i) = i
      BY <1>0, <1>3
    <2>2. PICK t \in DOMAIN map : map[t] = i
      BY <2>1
    <2> QED BY <1>0, <2>2
  <1>5. on \in Surjection(least, 1..n)
    BY <1>0, <1>4 DEF Surjection
  <1>6. IsFiniteSet(least) /\ Cardinality(least) <= Cardinality(DOMAIN map)
    <2>1. least \in SUBSET DOMAIN map
      OBVIOUS
    <2> QED BY <2>1, FS_Subset
  <1>7. Cardinality(1..n) <= Cardinality(least)
    BY <1>5, <1>6, FS_Surjection
  <1>8. Cardinality(1..n) = n
    BY <1>0, FS_Interval
  <1>9. Cardinality(least) \in Nat /\ Cardinality(DOMAIN map) \in Nat
    BY <1>6, FS_CardinalityType
  <1> QED BY <1>0, <1>6, <1>7, <1>8, <1>9

\* What a step leads to from a set is no more than its elements.
LEMMA WithinSettles ==
    ASSUME NEW N, IsFiniteSet(N), NEW step, \A m \in N : step[m] \subseteq N,
           NEW S \in SUBSET N
    PROVE  \A m \in Within(step, S, Cardinality(N)) :
              step[m] \subseteq Within(step, S, Cardinality(N))
  <1> DEFINE W(k) == Within(step, S, k)
             Settled(k) == \E j \in 0..k : \A m \in W(j) : step[m] \subseteq W(j)
             T == {k \in Nat : Settled(k) \/ Cardinality(W(k)) >= k}
  <1>1. \A k \in Nat : W(k) \subseteq N
    BY WithinStays
  <1>2. \A k \in Nat : IsFiniteSet(W(k)) /\ Cardinality(W(k)) \in Nat
    BY <1>1, FS_Subset, FS_CardinalityType
  <1>3. 0 \in T
    BY <1>2
  <1>4. ASSUME NEW k \in T PROVE k + 1 \in T
    <2>1. k \in Nat
      OBVIOUS
    <2>2. W(k + 1) = W(k) \cup Spread(step, W(k))
      BY <2>1, WithinStep
    <2>3. CASE Settled(k)
      <3>1. PICK j \in 0..k : \A m \in W(j) : step[m] \subseteq W(j)
        BY <2>3
      <3>2. j \in 0..(k + 1)
        BY <2>1
      <3> QED BY <2>1, <3>1, <3>2
    <2>4. CASE ~Settled(k)
      <3>1. ~(\A m \in W(k) : step[m] \subseteq W(k))
        BY <2>1, <2>4
      <3>2. W(k) \subseteq W(k + 1) /\ W(k) # W(k + 1)
        BY <2>2, <3>1 DEF Spread
      <3>3. Cardinality(W(k)) < Cardinality(W(k + 1))
        <4> HIDE DEF W
        <4>1. IsFiniteSet(W(k + 1))
          BY <1>2, <2>1
        <4> QED BY <3>2, <4>1, <1>2, <2>1, FS_Subset
      <3>4. Cardinality(W(k)) >= k
        BY <2>4
      <3>5. Cardinality(W(k + 1)) >= k + 1
        <4> HIDE DEF W
        <4> QED BY <2>1, <3>3, <3>4, <1>2
      <3> QED BY <2>1, <3>5
    <2> QED BY <2>3, <2>4
  <1>5. T = Nat
    <2> HIDE DEF T
    <2>1. T \in SUBSET Nat
      BY DEF T
    <2> QED BY <1>3, <1>4, <2>1, EveryNatural
  <1> DEFINE n == Cardinality(N)
  <1>6. n \in Nat
    BY FS_CardinalityType
  <1>7. CASE Settled(n)
    <2>1. PICK j \in 0..n : \A m \in W(j) : step[m] \subseteq W(j)
      BY <1>7
    <2>2. j \in Nat /\ j <= n
      BY <1>6
    <2>3. S \subseteq W(j)
      BY <2>2, WithinStart, WithinGrows
    <2>4. W(n) \subseteq W(j)
      BY <1>6, <2>1, <2>3, WithinStays
    <2>5. W(j) \subseteq W(n)
      BY <1>6, <2>2, WithinGrows
    <2>6. W(j) = W(n)
      BY <2>4, <2>5
    <2> QED BY <2>1, <2>6
  <1>8. CASE ~Settled(n)
    <2>1. Cardinality(W(n)) >= n
      BY <1>5, <1>6, <1>8
    <2>2. W(n) = N
      <3> HIDE DEF W
      <3>1. W(n) \in SUBSET N /\ Cardinality(W(n)) \in Nat /\ Cardinality(N) \in Nat
        BY <1>1, <1>2, <1>6
      <3> HIDE DEF n
      <3>2. W(n) = N \/ Cardinality(W(n)) < Cardinality(N)
        BY <3>1, FS_Subset
      <3> USE DEF n
      <3> QED BY <1>6, <2>1, <3>1, <3>2
    <2> QED BY <2>2
  <1> QED BY <1>7, <1>8

-----------------------------------------------------------------------------
(* What a file reaches.                                                     *)

\* The graph of a query has edges between files only.
FileGraph(graph) == IsFiniteSet(Files) /\ \A f \in Files : Imported(graph, f) \subseteq Files

\* What a file reaches: what it imports and what that reaches, and no more.
LEMMA ReachIsClosed ==
    ASSUME NEW graph, FileGraph(graph), NEW f \in Files
    PROVE  /\ Reach(graph, f) \subseteq Files
           /\ Imported(graph, f) \subseteq Reach(graph, f)
           /\ \A g \in Reach(graph, f) : Imported(graph, g) \subseteq Reach(graph, f)
  <1> DEFINE step == [g \in Files |-> Imported(graph, g)]
             n == Cardinality(Files)
  <1>1. n \in Nat
    BY FS_CardinalityType DEF FileGraph
  <1>2. \A g \in Files : step[g] = Imported(graph, g) /\ step[g] \subseteq Files
    BY DEF FileGraph
  <1>3. Reach(graph, f) = Within(step, Imported(graph, f), n)
    BY DEF Reach
  <1>4. Imported(graph, f) \in SUBSET Files
    BY DEF FileGraph
  <1> HIDE DEF step
  <1>5. Reach(graph, f) \subseteq Files
    BY <1>1, <1>2, <1>3, <1>4, WithinStays
  <1>6. Imported(graph, f) \subseteq Reach(graph, f)
    BY <1>1, <1>3, WithinStart, WithinGrows
  <1>7. \A g \in Reach(graph, f) : step[g] \subseteq Reach(graph, f)
    BY <1>2, <1>3, <1>4, WithinSettles DEF FileGraph
  <1> QED BY <1>2, <1>5, <1>6, <1>7

LEMMA ReachIsLeast ==
    ASSUME NEW graph, FileGraph(graph), NEW f \in Files, NEW C \in SUBSET Files,
           Imported(graph, f) \subseteq C, \A g \in C : Imported(graph, g) \subseteq C
    PROVE  Reach(graph, f) \subseteq C
  <1> DEFINE step == [g \in Files |-> Imported(graph, g)]
             n == Cardinality(Files)
  <1>1. n \in Nat
    BY FS_CardinalityType DEF FileGraph
  <1>2. \A g \in C : step[g] \subseteq C
    OBVIOUS
  <1>3. Reach(graph, f) = Within(step, Imported(graph, f), n)
    BY DEF Reach
  <1> HIDE DEF step
  <1> QED BY <1>1, <1>2, <1>3, WithinStays

LEMMA ReachIsTransitive ==
    ASSUME NEW graph, FileGraph(graph), NEW f \in Files, NEW g \in Reach(graph, f)
    PROVE  Reach(graph, g) \subseteq Reach(graph, f)
  BY ReachIsClosed, ReachIsLeast

\* Whoever reaches itself does so through one of its imports.
LEMMA ReachBegins ==
    ASSUME NEW graph, FileGraph(graph), NEW f \in Files, NEW h \in Reach(graph, f)
    PROVE  \E g \in Imported(graph, f) : h = g \/ h \in Reach(graph, g)
  <1> DEFINE C == UNION {{g} \cup Reach(graph, g) : g \in Imported(graph, f)}
  <1>1. \A g \in Imported(graph, f) : g \in Files /\ Reach(graph, g) \subseteq Files
    BY ReachIsClosed DEF FileGraph
  <1>2. C \in SUBSET Files
    BY <1>1
  <1>3. Imported(graph, f) \subseteq C
    OBVIOUS
  <1>4. \A k \in C : Imported(graph, k) \subseteq C
    <2> SUFFICES ASSUME NEW k \in C PROVE Imported(graph, k) \subseteq C
      OBVIOUS
    <2>1. PICK g \in Imported(graph, f) : k \in {g} \cup Reach(graph, g)
      OBVIOUS
    <2>2. Imported(graph, k) \subseteq Reach(graph, g)
      BY <1>1, <2>1, ReachIsClosed
    <2> QED BY <2>1, <2>2
  <1>5. h \in C
    <2> HIDE DEF C
    <2> QED BY <1>2, <1>3, <1>4, ReachIsLeast
  <1> QED BY <1>5
-----------------------------------------------------------------------------
(* The invariant of the walk.                                               *)

Node(i) == frames[i].node
Closed == DOMAIN number \ OnStack
Reaches(graph, f, g) == g = f \/ g \in Reach(graph, f)
Mutual(graph, f) == {g \in Reach(graph, f) : f \in Reach(graph, g)}

\* The files reached since pending call i, and before the one it made.
Segment(i, f) ==
    /\ number[Node(i)] <= number[f]
    /\ \A k \in 1..Len(frames) : i < k => number[f] < number[Node(k)]

\* The call of f has still to look at g.
Awaited(f, g) == \E i \in 1..Len(frames) : Node(i) = f /\ g \in frames[i].todo

\* Files are numbered as they are reached.
Numbered ==
    /\ DOMAIN number \subseteq Files
    /\ number \in [DOMAIN number -> Nat] /\ low \in [DOMAIN number -> Nat]
    /\ \A f \in DOMAIN number : number[f] < Cardinality(DOMAIN number)
    /\ \A f, g \in DOMAIN number : number[f] = number[g] => f = g

\* The stack and the pending calls are in that order.
Stacked ==
    /\ stack \in Seq(DOMAIN number)
    /\ \A i, j \in 1..Len(stack) : i < j => number[stack[i]] < number[stack[j]]

Calling(graph) ==
    /\ frames \in Seq([node : DOMAIN number, todo : SUBSET Files])
    /\ \A i, j \in 1..Len(frames) : i < j => number[Node(i)] < number[Node(j)]
    /\ \A i \in 1..Len(frames) : Node(i) \in OnStack /\ frames[i].todo \subseteq Imported(graph, Node(i))
    /\ \A f \in OnStack : \E i \in 1..Len(frames) : Segment(i, f)

\* A file's imports have been reached, or its call awaits them; from a closed
\* file only closed ones are reached.
Looked(graph) ==
    /\ \A f \in DOMAIN number : \A g \in Imported(graph, f) : g \in DOMAIN number \/ Awaited(f, g)
    /\ \A f \in Closed : Imported(graph, f) \subseteq Closed

\* A call's link is that of a file on the stack that its own reaches, and
\* none that the files of its segment import lies below it.
Linked(graph) ==
    /\ \A i \in 1..Len(frames) :
          /\ low[Node(i)] <= number[Node(i)]
          /\ \E h \in OnStack : low[Node(i)] = number[h] /\ Reaches(graph, Node(i), h)
    /\ \A i \in 1..Len(frames) : \A f \in OnStack : \A g \in Imported(graph, f) \cap OnStack :
          Segment(i, f) => low[Node(i)] <= number[g] \/ Awaited(f, g)

\* A pending call's file reaches all that came after it, and each file on the
\* stack reaches that of its segment.
Connected(graph) ==
    \A i \in 1..Len(frames) : \A f \in OnStack :
       /\ number[Node(i)] <= number[f] => Reaches(graph, Node(i), f)
       /\ Segment(i, f) => Reaches(graph, f, Node(i))

\* What is closed is reported, and nothing else.
Reported(graph) ==
    /\ cycles \subseteq ImportCyclesOf(graph)
    /\ \A f \in Closed : f \in Reach(graph, f) => Mutual(graph, f) \in cycles

CyclesInv(graph) ==
    /\ Numbered /\ Stacked /\ Calling(graph) /\ Looked(graph)
    /\ Linked(graph) /\ Connected(graph) /\ Reported(graph)

LEMMA CyclesInvInit == ASSUME NEW graph, CyclesInit PROVE CyclesInv(graph)
  <1>1. DOMAIN number = {} /\ OnStack = {} /\ Len(frames) = 0 /\ Closed = {} /\ stack = <<>>
    BY DEF CyclesInit, OnStack, Closed
  <1>2. Numbered /\ Stacked
    BY <1>1 DEF CyclesInit, Numbered, Stacked
  <1>3. Calling(graph)
    BY <1>1 DEF CyclesInit, Calling
  <1>4. Looked(graph) /\ Linked(graph) /\ Connected(graph)
    BY <1>1 DEF Looked, Linked, Connected
  <1>5. Reported(graph)
    BY <1>1 DEF CyclesInit, Reported
  <1> QED BY <1>2, <1>3, <1>4, <1>5 DEF CyclesInv

LEMMA CyclesInvUnchanged ==
    ASSUME NEW graph, CyclesInv(graph), UNCHANGED cycleVars PROVE CyclesInv(graph)'
  <1>1. /\ UNCHANGED <<number, low, stack, frames, cycles, OnStack, Closed>>
        /\ \A i : Node(i)' = Node(i)
    BY DEF cycleVars, OnStack, Closed, Node
  <1>2. \A i, f : (Segment(i, f)' <=> Segment(i, f)) /\ (Awaited(i, f)' <=> Awaited(i, f))
    BY <1>1 DEF Segment, Awaited
  <1>3. Numbered' /\ Stacked' /\ Looked(graph)' /\ Reported(graph)'
    BY <1>1, <1>2 DEF CyclesInv, Numbered, Stacked, Looked, Reported
  <1>4. Calling(graph)'
    BY <1>1, <1>2 DEF CyclesInv, Calling
  <1>5. Linked(graph)' /\ Connected(graph)'
    BY <1>1, <1>2 DEF CyclesInv, Linked, Connected
  <1> QED BY <1>3, <1>4, <1>5 DEF CyclesInv

LEMMA ReachesOn ==
    ASSUME NEW graph, FileGraph(graph), NEW f \in Files, NEW g, NEW h,
           Reaches(graph, f, g), Reaches(graph, g, h)
    PROVE  Reaches(graph, f, h)
  BY ReachIsTransitive DEF Reaches

LEMMA ReachesImports ==
    ASSUME NEW graph, FileGraph(graph), NEW f \in Files, NEW g \in Imported(graph, f)
    PROVE  Reaches(graph, f, g)
  BY ReachIsClosed DEF Reaches

\* The stack holds files that have been reached.
LEMMA StackIsNumbered ==
    ASSUME Stacked
    PROVE  /\ OnStack \subseteq DOMAIN number
           /\ \A f \in OnStack : \E i \in 1..Len(stack) : stack[i] = f
  BY DEF Stacked, OnStack
-----------------------------------------------------------------------------
(* Entering the call of a file that has not been reached.                   *)

\* The frames it is put on: those pending, the top one looking at f.
Beneath(graph, f, under) ==
    /\ under \in Seq([node : DOMAIN number, todo : SUBSET Files])
    /\ Len(under) = Len(frames)
    /\ \A i \in 1..Len(frames) :
          /\ under[i].node = Node(i)
          /\ under[i].todo \subseteq frames[i].todo
          /\ frames[i].todo \subseteq under[i].todo \cup {f}
    /\ Len(frames) > 0 => f \in Imported(graph, Node(Len(frames)))

LEMMA Entering ==
    ASSUME NEW graph, FileGraph(graph), CyclesInv(graph),
           NEW f \in Files \ DOMAIN number, NEW under, Beneath(graph, f, under),
           Enter(graph, f, under)
    PROVE  CyclesInv(graph)'
  <1>0. PICK n \in Nat : n = Len(frames)
    BY DEF CyclesInv, Calling
  <1> USE <1>0
  <1> DEFINE size == Cardinality(DOMAIN number)
  <1>1. n = Len(frames) /\ n \in Nat /\ size \in Nat /\ IsFiniteSet(DOMAIN number)
    <2>1. IsFiniteSet(DOMAIN number)
      BY FS_Subset DEF FileGraph, CyclesInv, Numbered
    <2> QED BY <1>0, <2>1, FS_CardinalityType
  <1>2. /\ DOMAIN number' = DOMAIN number \cup {f} /\ DOMAIN low' = DOMAIN number'
        /\ number'[f] = size /\ low'[f] = size
        /\ \A g \in DOMAIN number : number'[g] = number[g] /\ low'[g] = low[g]
    BY DEF Enter, With, CyclesInv, Numbered
  <1>3. Cardinality(DOMAIN number') = size + 1
    BY <1>1, <1>2, FS_AddElement
  <1>4. \A g \in DOMAIN number : number[g] \in Nat /\ low[g] \in Nat /\ number[g] < size
    BY DEF CyclesInv, Numbered
  <1>5. Numbered'
    <2>1. DOMAIN number' \subseteq Files
      BY <1>2 DEF CyclesInv, Numbered
    <2>2. number' \in [DOMAIN number' -> Nat] /\ low' \in [DOMAIN number' -> Nat]
      BY <1>1, <1>2, <1>4 DEF Enter, With
    <2>3. \A g \in DOMAIN number' : number'[g] < Cardinality(DOMAIN number')
      BY <1>1, <1>2, <1>3, <1>4
    <2>4. \A g, h \in DOMAIN number' : number'[g] = number'[h] => g = h
      BY <1>1, <1>2, <1>4 DEF CyclesInv, Numbered
    <2> QED BY <2>1, <2>2, <2>3, <2>4 DEF Numbered
  <1>6. /\ Len(stack) \in Nat /\ Len(stack') = Len(stack) + 1
        /\ \A i \in 1..Len(stack) : stack'[i] = stack[i] /\ stack[i] \in DOMAIN number
        /\ stack'[Len(stack) + 1] = f
    BY DEF Enter, CyclesInv, Stacked
  <1>7. Stacked'
    <2>1. stack' \in Seq(DOMAIN number')
      BY <1>2 DEF Enter, CyclesInv, Stacked
    <2>2. ASSUME NEW i \in 1..Len(stack'), NEW j \in 1..Len(stack'), i < j
          PROVE  number'[stack'[i]] < number'[stack'[j]]
      <3>1. i \in 1..Len(stack)
        BY <1>6, <2>2
      <3>2. CASE j = Len(stack) + 1
        BY <1>2, <1>4, <1>6, <3>1, <3>2
      <3>3. CASE j # Len(stack) + 1
        <4>1. j \in 1..Len(stack) /\ number[stack[i]] < number[stack[j]]
          BY <1>6, <2>2, <3>1, <3>3 DEF CyclesInv, Stacked
        <4> QED BY <1>2, <1>6, <3>1, <4>1
      <3> QED BY <3>2, <3>3
    <2> QED BY <2>1, <2>2 DEF Stacked
  <1>8. OnStack' = OnStack \cup {f}
    <2>1. \A g \in OnStack' : g \in OnStack \cup {f}
      BY <1>6 DEF OnStack
    <2>2. \A g \in OnStack : g \in OnStack'
      BY <1>6 DEF OnStack
    <2>3. f \in OnStack'
      BY <1>6 DEF OnStack
    <2> QED BY <2>1, <2>2, <2>3
  <1>9. OnStack \subseteq DOMAIN number /\ Closed' = Closed
    <2>1. OnStack \subseteq DOMAIN number
      BY StackIsNumbered DEF CyclesInv
    <2> QED BY <1>2, <1>8, <2>1 DEF Closed
  <1>10. /\ Len(frames') = n + 1
         /\ \A i \in 1..n : /\ Node(i)' = Node(i) /\ Node(i) \in OnStack
                            /\ frames'[i].todo \subseteq frames[i].todo
                            /\ frames[i].todo \subseteq frames'[i].todo \cup {f}
         /\ Node(n + 1)' = f /\ frames'[n + 1].todo = Imported(graph, f)
    <2>1. frames' = Append(under, [node |-> f, todo |-> Imported(graph, f)])
      BY DEF Enter
    <2>2. Len(under) = n /\ under \in Seq([node : DOMAIN number, todo : SUBSET Files])
      BY DEF Beneath
    <2>3. /\ Len(frames') = n + 1
          /\ \A i \in 1..n : frames'[i] = under[i]
          /\ frames'[n + 1] = [node |-> f, todo |-> Imported(graph, f)]
      BY <1>1, <2>1, <2>2
    <2>4. \A i \in 1..n : frames'[i].node = Node(i) /\ Node(i) \in OnStack
      BY <2>3 DEF Beneath, CyclesInv, Calling
    <2> QED BY <2>3, <2>4 DEF Beneath, Node
  \* The new file is the last segment; the others stay as they were.
  <1>11. \A i \in 1..n : \A g \in OnStack : Segment(i, g)' <=> Segment(i, g)
    <2> SUFFICES ASSUME NEW i \in 1..n, NEW g \in OnStack PROVE Segment(i, g)' <=> Segment(i, g)
      OBVIOUS
    <2>1. number'[Node(i)'] = number[Node(i)] /\ number'[g] = number[g]
      BY <1>2, <1>9, <1>10
    <2>2. \A k \in 1..n : number'[Node(k)'] = number[Node(k)]
      BY <1>2, <1>9, <1>10
    <2>3. number'[Node(n + 1)'] = size /\ number[g] < size
      BY <1>2, <1>4, <1>9, <1>10
    <2>4. \A k \in 1..(n + 1) : k \in 1..n \/ k = n + 1
      BY <1>1
    <2>5. 1..n \subseteq 1..(n + 1)
      BY <1>1
    <2>6. Segment(i, g)' <=>
            /\ number'[Node(i)'] <= number'[g]
            /\ \A k \in 1..(n + 1) : i < k => number'[g] < number'[Node(k)']
      BY <1>10 DEF Segment
    <2> QED BY <2>1, <2>2, <2>3, <2>4, <2>5, <2>6 DEF Segment
  <1>12. \A i \in 1..n : ~Segment(i, f)'
    BY <1>1, <1>2, <1>10 DEF Segment
  <1>13. \A g \in OnStack : ~Segment(n + 1, g)' /\ ~(number'[Node(n + 1)'] <= number'[g])
    BY <1>1, <1>2, <1>4, <1>9, <1>10 DEF Segment
  <1>14. Segment(n + 1, f)'
    BY <1>1, <1>2, <1>10 DEF Segment
  <1>15. \A i \in 1..Len(frames') : i \in 1..n \/ i = n + 1
    BY <1>1, <1>10
  <1>16. Calling(graph)'
    <2>1. frames' \in Seq([node : DOMAIN number', todo : SUBSET Files])
      <3>1. under \in Seq([node : DOMAIN number', todo : SUBSET Files])
        <4>1. [node : DOMAIN number, todo : SUBSET Files]
                \subseteq [node : DOMAIN number', todo : SUBSET Files]
          BY <1>2
        <4> QED BY <4>1, SeqMonotonic DEF Beneath
      <3>2. [node |-> f, todo |-> Imported(graph, f)] \in [node : DOMAIN number', todo : SUBSET Files]
        BY <1>2 DEF FileGraph
      <3> QED BY <3>1, <3>2 DEF Enter
    <2>2. ASSUME NEW i \in 1..Len(frames'), NEW j \in 1..Len(frames'), i < j
          PROVE  number'[Node(i)'] < number'[Node(j)']
      <3>1. i \in 1..n
        BY <1>1, <1>10, <2>2
      <3>2. CASE j = n + 1
        BY <1>2, <1>4, <1>9, <1>10, <3>1, <3>2
      <3>3. CASE j # n + 1
        <4>1. j \in 1..n /\ number[Node(i)] < number[Node(j)]
          BY <1>15, <2>2, <3>1, <3>3 DEF CyclesInv, Calling
        <4> QED BY <1>2, <1>9, <1>10, <3>1, <4>1
      <3> QED BY <3>2, <3>3
    <2>3. ASSUME NEW i \in 1..Len(frames')
          PROVE  Node(i)' \in OnStack' /\ frames'[i].todo \subseteq Imported(graph, Node(i)')
      <3>1. CASE i \in 1..n
        <4>1. frames[i].todo \subseteq Imported(graph, Node(i))
          BY <3>1 DEF CyclesInv, Calling
        <4> QED BY <1>8, <1>10, <3>1, <4>1
      <3>2. CASE i = n + 1
        BY <1>8, <1>10, <3>2
      <3> QED BY <1>15, <3>1, <3>2
    <2>4. ASSUME NEW g \in OnStack' PROVE \E i \in 1..Len(frames') : Segment(i, g)'
      <3>1. CASE g = f
        BY <1>1, <1>10, <1>14, <3>1
      <3>2. CASE g \in OnStack
        <4>1. PICK i \in 1..n : Segment(i, g)
          BY <3>2 DEF CyclesInv, Calling
        <4>2. i \in 1..Len(frames') /\ Segment(i, g)'
          BY <1>1, <1>10, <1>11, <3>2, <4>1
        <4> QED BY <4>2
      <3> QED BY <1>8, <3>1, <3>2
    <2> QED BY <2>1, <2>2, <2>3, <2>4 DEF Calling
  \* What was awaited still is, f excepted.
  <1>17. \A g, h : Awaited(g, h) => Awaited(g, h)' \/ h = f
    <2> SUFFICES ASSUME NEW g, NEW h, Awaited(g, h), h # f PROVE Awaited(g, h)'
      OBVIOUS
    <2>1. PICK i \in 1..n : Node(i) = g /\ h \in frames[i].todo
      BY DEF Awaited
    <2>2. i \in 1..Len(frames') /\ Node(i)' = g /\ h \in frames'[i].todo
      BY <1>1, <1>10, <2>1
    <2> QED BY <2>2 DEF Awaited
  <1>18. \A h \in Imported(graph, f) : Awaited(f, h)'
    <2>1. n + 1 \in 1..Len(frames')
      BY <1>1, <1>10
    <2> QED BY <1>10, <2>1 DEF Awaited
  <1>19. Looked(graph)'
    <2>1. ASSUME NEW g \in DOMAIN number', NEW h \in Imported(graph, g)
          PROVE  h \in DOMAIN number' \/ Awaited(g, h)'
      <3>1. CASE g = f
        BY <1>18, <3>1
      <3>2. CASE g # f
        BY <1>2, <1>17, <3>2 DEF CyclesInv, Looked
      <3> QED BY <3>1, <3>2
    <2>2. \A g \in Closed' : Imported(graph, g) \subseteq Closed'
      BY <1>9 DEF CyclesInv, Looked
    <2> QED BY <2>1, <2>2 DEF Looked
  <1>20. Linked(graph)'
    <2>1. ASSUME NEW i \in 1..Len(frames')
          PROVE  /\ low'[Node(i)'] <= number'[Node(i)']
                 /\ \E h \in OnStack' : low'[Node(i)'] = number'[h] /\ Reaches(graph, Node(i)', h)
      <3>1. CASE i \in 1..n
        <4>1. /\ low[Node(i)] <= number[Node(i)]
              /\ \E h \in OnStack : low[Node(i)] = number[h] /\ Reaches(graph, Node(i), h)
          BY <3>1 DEF CyclesInv, Linked
        <4>2. PICK h \in OnStack : low[Node(i)] = number[h] /\ Reaches(graph, Node(i), h)
          BY <4>1
        <4>3. h \in OnStack' /\ number'[h] = number[h] /\ Node(i)' = Node(i)
              /\ low'[Node(i)] = low[Node(i)] /\ number'[Node(i)] = number[Node(i)]
          BY <1>2, <1>8, <1>9, <1>10, <3>1
        <4> QED BY <4>1, <4>2, <4>3
      <3>2. CASE i = n + 1
        BY <1>1, <1>2, <1>8, <1>10, <3>2 DEF Reaches
      <3> QED BY <1>15, <3>1, <3>2
    <2>2. ASSUME NEW i \in 1..Len(frames'), NEW g \in OnStack',
                 NEW h \in Imported(graph, g) \cap OnStack', Segment(i, g)'
          PROVE  low'[Node(i)'] <= number'[h] \/ Awaited(g, h)'
      <3>1. CASE g = f
        BY <1>18, <3>1
      <3>2. CASE g # f
        <4>1. g \in OnStack /\ i \in 1..n /\ Segment(i, g)
          BY <1>8, <1>11, <1>13, <1>15, <2>2, <3>2
        <4>2. low'[Node(i)'] = low[Node(i)] /\ low[Node(i)] <= number[Node(i)]
              /\ Node(i) \in DOMAIN number
          BY <1>2, <1>9, <1>10, <4>1 DEF CyclesInv, Linked
        <4>3. CASE h = f
          BY <1>1, <1>2, <1>4, <4>2, <4>3
        <4>4. CASE h # f
          <5>1. h \in OnStack /\ number'[h] = number[h]
            BY <1>2, <1>8, <1>9, <4>4
          <5>2. low[Node(i)] <= number[h] \/ Awaited(g, h)
            BY <4>1, <5>1 DEF CyclesInv, Linked
          <5> QED BY <1>17, <4>2, <4>4, <5>1, <5>2
        <4> QED BY <4>3, <4>4
      <3> QED BY <3>1, <3>2
    <2> QED BY <2>1, <2>2 DEF Linked
  <1>21. Connected(graph)'
    <2> SUFFICES ASSUME NEW i \in 1..Len(frames'), NEW g \in OnStack'
                 PROVE  /\ number'[Node(i)'] <= number'[g] => Reaches(graph, Node(i)', g)
                        /\ Segment(i, g)' => Reaches(graph, g, Node(i)')
      BY DEF Connected
    <2>1. CASE i = n + 1
      <3>1. g = f \/ (~Segment(i, g)' /\ ~(number'[Node(i)'] <= number'[g]))
        BY <1>8, <1>13, <2>1
      <3> QED BY <1>10, <2>1, <3>1 DEF Reaches
    <2>2. CASE i \in 1..n /\ g \in OnStack
      <3>1. /\ number[Node(i)] <= number[g] => Reaches(graph, Node(i), g)
            /\ Segment(i, g) => Reaches(graph, g, Node(i))
        BY <2>2 DEF CyclesInv, Connected
      <3> QED BY <1>2, <1>9, <1>10, <1>11, <2>2, <3>1
    <2>3. CASE i \in 1..n /\ g = f
      <3>1. n \in 1..n /\ Node(n) \in OnStack /\ Node(i) \in OnStack
        BY <1>1, <1>10, <2>3
      <3>2. number[Node(i)] <= number[Node(n)]
        <4>1. i < n => number[Node(i)] < number[Node(n)]
          BY <2>3, <3>1 DEF CyclesInv, Calling
        <4>2. number[Node(i)] \in Nat /\ number[Node(n)] \in Nat
          BY <1>4, <1>9, <3>1
        <4> QED BY <1>1, <2>3, <4>1, <4>2
      <3>3. Reaches(graph, Node(i), Node(n))
        BY <2>3, <3>1, <3>2 DEF CyclesInv, Connected
      <3>4. Node(i) \in Files /\ Node(n) \in Files
        BY <1>9, <3>1 DEF CyclesInv, Numbered
      <3>5. Reaches(graph, Node(n), f)
        BY <1>1, <2>3, <3>1, <3>4, ReachesImports DEF Beneath
      <3>6. Reaches(graph, Node(i), f)
        BY <3>3, <3>4, <3>5, ReachesOn
      <3> QED BY <1>10, <1>12, <2>3, <3>6
    <2> QED BY <1>8, <1>15, <2>1, <2>2, <2>3
  <1>22. Reported(graph)'
    BY <1>9 DEF CyclesInv, Reported, Enter
  <1> QED BY <1>5, <1>7, <1>16, <1>19, <1>20, <1>21, <1>22 DEF CyclesInv
-----------------------------------------------------------------------------
(* Looking at a neighbour that has been reached.                            *)

LEMMA LookingAt ==
    ASSUME NEW graph, FileGraph(graph), CyclesInv(graph), frames # <<>>,
           NEW g \in Top.todo, g \in DOMAIN number, LookAt(graph, g)
    PROVE  CyclesInv(graph)'
  <1>0. PICK n \in Nat \ {0} : n = Len(frames)
    BY DEF CyclesInv, Calling
  <1>1. PICK f : f = Node(n)
    OBVIOUS
  <1> USE <1>0
  <1>2. /\ n \in 1..n /\ Top = frames[n] /\ g \in frames[n].todo /\ f \in OnStack
        /\ \A i \in 1..n : Node(i) \in OnStack
        /\ \A i \in 1..n : frames[i].todo \subseteq Imported(graph, Node(i))
    BY <1>1 DEF Top, CyclesInv, Calling
  <1>3. /\ OnStack \subseteq DOMAIN number
        /\ \A h \in DOMAIN number : number[h] \in Nat /\ low[h] \in Nat
        /\ DOMAIN low = DOMAIN number
    BY StackIsNumbered DEF CyclesInv, Numbered
  <1>4. /\ frames' = Append(Below, [frames[n] EXCEPT !.todo = @ \ {g}])
        /\ low' = [low EXCEPT ![f] = IF g \in OnStack THEN Min({@, number[g]}) ELSE @]
        /\ number' = number /\ stack' = stack /\ cycles' = cycles
        /\ OnStack' = OnStack /\ Closed' = Closed
    <2>1. /\ frames' = Append(Below, [Top EXCEPT !.todo = @ \ {g}])
          /\ low' = [low EXCEPT ![Top.node] = IF g \in OnStack THEN Min({@, number[g]}) ELSE @]
          /\ number' = number /\ stack' = stack /\ cycles' = cycles
      BY DEF LookAt
    <2>2. Top = frames[n] /\ Top.node = f
      BY <1>1, <1>2 DEF Node
    <2>3. OnStack' = OnStack
      BY <2>1 DEF OnStack
    <2>4. Closed' = Closed
      BY <2>1, <2>3 DEF Closed
    <2> QED BY <2>1, <2>2, <2>3, <2>4
  <1>5. /\ Len(frames') = n
        /\ frames' \in Seq([node : DOMAIN number, todo : SUBSET Files])
        /\ \A i \in 1..n : Node(i)' = Node(i) /\ frames'[i].todo \subseteq frames[i].todo
        /\ \A i \in 1..n : \A h \in frames[i].todo : h \in frames'[i].todo \/ (i = n /\ h = g)
    <2> DEFINE Frame == [node : DOMAIN number, todo : SUBSET Files]
               last == [frames[n] EXCEPT !.todo = @ \ {g}]
    <2>1. frames \in Seq(Frame) /\ frames[n] \in Frame
      <3>1. frames \in Seq(Frame)
        BY DEF CyclesInv, Calling
      <3> HIDE DEF Frame
      <3> QED BY <1>2, <3>1, ElementOfSeq
    <2>2. last \in Frame /\ last.node = frames[n].node /\ last.todo = frames[n].todo \ {g}
      BY <2>1
    <2>3. /\ Below \in Seq(Frame) /\ Len(Below) = n - 1
          /\ \A i \in 1..(n - 1) : Below[i] = frames[i]
      <3> HIDE DEF Frame
      <3> QED BY <2>1, SubSeqProperties, ElementOfSeq DEF Below
    <2>4. /\ frames' \in Seq(Frame) /\ Len(frames') = n
          /\ \A i \in 1..(n - 1) : frames'[i] = frames[i]
          /\ frames'[n] = last
      <3> HIDE DEF Frame, last
      <3> QED BY <1>4, <2>2, <2>3, AppendProperties DEF last
    <2>5. \A i \in 1..n : i \in 1..(n - 1) \/ i = n
      OBVIOUS
    <2> QED BY <2>2, <2>4, <2>5 DEF Node
  \* Its own link may be lowered, to what its file reaches at once.
  <1>6. /\ low' \in [DOMAIN number -> Nat]
        /\ \A h \in DOMAIN number : low'[h] \in Nat /\ low'[h] <= low[h]
        /\ \A h \in DOMAIN number : h # f => low'[h] = low[h]
        /\ low'[f] = low[f] \/ (g \in OnStack /\ low'[f] = number[g])
        /\ g \in OnStack => low'[f] <= number[g]
    <2>1. f \in DOMAIN number /\ low[f] \in Nat /\ number[g] \in Nat
      BY <1>2, <1>3
    <2>2. low \in [DOMAIN number -> Nat]
      BY DEF CyclesInv, Numbered
    <2>3. CASE g \in OnStack
      <3>1. Min({low[f], number[g]}) = IF low[f] <= number[g] THEN low[f] ELSE number[g]
        BY <2>1 DEF Min
      <3>2. low' = [low EXCEPT ![f] = IF low[f] <= number[g] THEN low[f] ELSE number[g]]
        BY <1>4, <2>1, <2>2, <2>3, <3>1
      <3> QED BY <2>1, <2>2, <2>3, <3>2
    <2>4. CASE g \notin OnStack
      BY <1>4, <2>1, <2>2, <2>4
    <2> QED BY <2>3, <2>4
  <1>7. \A i \in 1..n : \A h \in OnStack : Segment(i, h)' <=> Segment(i, h)
    <2> SUFFICES ASSUME NEW i \in 1..n, NEW h \in OnStack PROVE Segment(i, h)' <=> Segment(i, h)
      OBVIOUS
    <2> QED BY <1>4, <1>5 DEF Segment
  <1>8. \A h, k : Awaited(h, k) => Awaited(h, k)' \/ (h = f /\ k = g)
    <2> SUFFICES ASSUME NEW h, NEW k, Awaited(h, k), ~(h = f /\ k = g) PROVE Awaited(h, k)'
      OBVIOUS
    <2>1. PICK i \in 1..n : Node(i) = h /\ k \in frames[i].todo
      BY DEF Awaited
    <2>2. k \in frames'[i].todo /\ Node(i)' = h
      BY <1>1, <1>5, <2>1
    <2> QED BY <1>5, <2>2 DEF Awaited
  <1>9. Numbered' /\ Stacked'
    BY <1>4, <1>6 DEF CyclesInv, Numbered, Stacked
  <1>10. Calling(graph)'
    <2>1. \A i, j \in 1..n : i < j => number'[Node(i)'] < number'[Node(j)']
      BY <1>4, <1>5 DEF CyclesInv, Calling
    <2>2. \A i \in 1..n : Node(i)' \in OnStack' /\ frames'[i].todo \subseteq Imported(graph, Node(i)')
      BY <1>2, <1>4, <1>5
    <2>3. \A h \in OnStack' : \E i \in 1..n : Segment(i, h)'
      BY <1>4, <1>7 DEF CyclesInv, Calling
    <2> QED BY <1>4, <1>5, <2>1, <2>2, <2>3 DEF Calling
  <1>11. Looked(graph)'
    <2>1. ASSUME NEW h \in DOMAIN number', NEW k \in Imported(graph, h)
          PROVE  k \in DOMAIN number' \/ Awaited(h, k)'
      <3>1. k \in DOMAIN number \/ Awaited(h, k)
        BY <1>4 DEF CyclesInv, Looked
      <3> QED BY <1>4, <1>8, <3>1
    <2>2. \A h \in Closed' : Imported(graph, h) \subseteq Closed'
      BY <1>4 DEF CyclesInv, Looked
    <2> QED BY <2>1, <2>2 DEF Looked
  <1>12. Linked(graph)'
    <2>1. ASSUME NEW i \in 1..n
          PROVE  /\ low'[Node(i)'] <= number'[Node(i)']
                 /\ \E h \in OnStack' : low'[Node(i)'] = number'[h] /\ Reaches(graph, Node(i)', h)
      <3>1. /\ low[Node(i)] <= number[Node(i)]
            /\ \E h \in OnStack : low[Node(i)] = number[h] /\ Reaches(graph, Node(i), h)
        BY <2>1 DEF CyclesInv, Linked
      <3>2. /\ Node(i) \in DOMAIN number /\ low[Node(i)] \in Nat /\ low'[Node(i)] \in Nat
            /\ low'[Node(i)] <= low[Node(i)] /\ number[Node(i)] \in Nat
        BY <1>2, <1>3, <1>6, <2>1
      <3>3. low'[Node(i)'] <= number'[Node(i)']
        BY <1>4, <1>5, <3>1, <3>2, <2>1
      <3>4. CASE low'[Node(i)] = low[Node(i)]
        BY <1>4, <1>5, <2>1, <3>1, <3>3, <3>4
      <3>5. CASE low'[Node(i)] # low[Node(i)]
        <4>1. Node(i) = f /\ g \in OnStack /\ low'[f] = number[g]
          BY <1>6, <3>2, <3>5
        <4>2. f \in Files /\ g \in Imported(graph, f)
          BY <1>1, <1>2, <1>3 DEF CyclesInv, Numbered
        <4>3. Reaches(graph, f, g)
          BY <4>2, ReachesImports
        <4> QED BY <1>4, <1>5, <2>1, <3>3, <4>1, <4>3
      <3> QED BY <3>4, <3>5
    <2>2. ASSUME NEW i \in 1..n, NEW h \in OnStack',
                 NEW k \in Imported(graph, h) \cap OnStack', Segment(i, h)'
          PROVE  low'[Node(i)'] <= number'[k] \/ Awaited(h, k)'
      <3>1. h \in OnStack /\ k \in OnStack /\ Segment(i, h) /\ Node(i) \in OnStack
        BY <1>2, <1>4, <1>7, <2>2
      <3>2. low[Node(i)] <= number[k] \/ Awaited(h, k)
        BY <3>1 DEF CyclesInv, Linked
      <3>3. low'[Node(i)] <= low[Node(i)] /\ low[Node(i)] \in Nat /\ low'[Node(i)] \in Nat
            /\ number[k] \in Nat
        BY <1>3, <1>6, <3>1
      <3>4. CASE low[Node(i)] <= number[k]
        BY <1>4, <1>5, <2>2, <3>3, <3>4
      <3>5. CASE Awaited(h, k) /\ ~(h = f /\ k = g)
        BY <1>8, <3>5
      <3>6. CASE h = f /\ k = g
        <4>1. i = n
          <5>1. i < n => number[f] < number[Node(n)]
            BY <3>1, <3>6 DEF Segment
          <5> QED BY <1>1, <1>2, <1>3, <5>1
        <4> QED BY <1>1, <1>4, <1>5, <1>6, <3>1, <3>6, <4>1
      <3> QED BY <3>2, <3>4, <3>5, <3>6
    <2> QED BY <1>5, <2>1, <2>2 DEF Linked
  <1>13. Connected(graph)'
    <2> SUFFICES ASSUME NEW i \in 1..n, NEW h \in OnStack
                 PROVE  /\ number'[Node(i)'] <= number'[h] => Reaches(graph, Node(i)', h)
                        /\ Segment(i, h)' => Reaches(graph, h, Node(i)')
      BY <1>4, <1>5 DEF Connected
    <2> QED BY <1>4, <1>5, <1>7 DEF CyclesInv, Connected
  <1>14. Reported(graph)'
    BY <1>4 DEF CyclesInv, Reported
  <1> QED BY <1>9, <1>10, <1>11, <1>12, <1>13, <1>14 DEF CyclesInv

LEMMA NeighbourKeeps ==
    ASSUME NEW graph, FileGraph(graph), CyclesInv(graph), Neighbour(graph)
    PROVE  CyclesInv(graph)'
  <1>1. PICK g \in Top.todo : LookAt(graph, g)
    BY DEF Neighbour
  <1>2. frames # <<>>
    BY DEF Neighbour
  <1>3. CASE g \in DOMAIN number
    BY <1>1, <1>2, <1>3, LookingAt
  <1>4. CASE g \notin DOMAIN number
    <2>0. PICK n \in Nat \ {0} : n = Len(frames)
      BY <1>2 DEF CyclesInv, Calling
    <2> USE <2>0
    <2> DEFINE Frame == [node : DOMAIN number, todo : SUBSET Files]
               last == [frames[n] EXCEPT !.todo = @ \ {g}]
               under == Append(Below, last)
    <2>1. n \in Nat \ {0} /\ n \in 1..n /\ Top = frames[n] /\ frames \in Seq(Frame)
      BY <1>2 DEF Top, CyclesInv, Calling
    <2>2. /\ frames[n] \in Frame /\ last \in Frame
          /\ last.node = frames[n].node /\ last.todo = frames[n].todo \ {g}
      <3>1. frames[n] \in Frame
        <4> HIDE DEF Frame
        <4> QED BY <2>1, ElementOfSeq
      <3> QED BY <3>1
    <2>3. g \in Imported(graph, Node(n)) /\ Node(n) \in OnStack
      BY <1>1, <2>1 DEF CyclesInv, Calling
    <2>4. g \in Files
      <3>1. Node(n) \in Files
        BY <2>3, StackIsNumbered DEF CyclesInv, Numbered
      <3> QED BY <2>3, <3>1 DEF FileGraph
    <2>5. /\ Below \in Seq(Frame) /\ Len(Below) = n - 1
          /\ \A i \in 1..(n - 1) : Below[i] = frames[i]
      <3> HIDE DEF Frame
      <3> QED BY <2>1, SubSeqProperties, ElementOfSeq DEF Below
    <2>6. /\ under \in Seq(Frame) /\ Len(under) = n
          /\ \A i \in 1..(n - 1) : under[i] = frames[i]
          /\ under[n] = last
      <3> HIDE DEF Frame, last
      <3> QED BY <2>1, <2>2, <2>5, AppendProperties
    <2>7. \A i \in 1..n : i \in 1..(n - 1) \/ i = n
      BY <2>1
    <2>8. Beneath(graph, g, under)
      <3> HIDE DEF under, last
      <3>1. \A i \in 1..n : /\ under[i].node = Node(i)
                            /\ under[i].todo \subseteq frames[i].todo
                            /\ frames[i].todo \subseteq under[i].todo \cup {g}
        BY <2>2, <2>6, <2>7 DEF Node
      <3> QED BY <2>3, <2>6, <3>1 DEF Beneath
    <2>9. Enter(graph, g, under)
      BY <1>1, <1>4, <2>1 DEF LookAt
    <2> HIDE DEF under
    <2> QED BY <1>4, <2>4, <2>8, <2>9, Entering
  <1> QED BY <1>3, <1>4

LEMMA StartKeeps ==
    ASSUME NEW graph, FileGraph(graph), CyclesInv(graph), DOMAIN graph \subseteq Files,
           StartComponent(graph)
    PROVE  CyclesInv(graph)'
  <1>1. PICK f \in DOMAIN graph \ DOMAIN number : Enter(graph, f, <<>>)
    BY DEF StartComponent
  <1>2. Beneath(graph, f, <<>>)
    BY DEF StartComponent, Beneath
  <1> QED BY <1>1, <1>2, Entering
-----------------------------------------------------------------------------
(* The return of a call.                                                    *)

\* Call n, the last one pending, has looked at all its neighbours and ends.
Ends(n) ==
    /\ n = Len(frames) /\ frames[n].todo = {} /\ Node(n) \in OnStack
    /\ Len(frames') = n - 1 /\ frames' \in Seq([node : DOMAIN number, todo : SUBSET Files])
    /\ \A i \in 1..(n - 1) : frames'[i] = frames[i] /\ Node(i)' = Node(i)
    /\ number' = number

LEMMA CallEnds ==
    ASSUME NEW graph, CyclesInv(graph), Return(graph)
    PROVE  \E n \in Nat \ {0} : Ends(n)
  <1> DEFINE Frame == [node : DOMAIN number, todo : SUBSET Files]
  <1>1. frames \in Seq(Frame) /\ frames # <<>> /\ Top.todo = {}
    BY DEF CyclesInv, Calling, Return
  <1>2. PICK n \in Nat \ {0} : n = Len(frames)
    BY <1>1
  <1>3. Node(n) \in OnStack /\ frames[n].todo = {}
    BY <1>1, <1>2 DEF CyclesInv, Calling, Top
  <1>4. frames' = SubSeq(frames, 1, n - 1) /\ number' = number
    BY <1>2 DEF Return, Below
  <1>5. /\ frames' \in Seq(Frame) /\ Len(frames') = n - 1
        /\ \A i \in 1..(n - 1) : frames'[i] = frames[i]
    <2> HIDE DEF Frame
    <2> QED BY <1>1, <1>2, <1>4, SubSeqProperties, ElementOfSeq
  <1> QED BY <1>2, <1>3, <1>4, <1>5 DEF Ends, Node

\* The part of the stack from a file on: those numbered no lower.
From(f) == {g \in OnStack : number[f] <= number[g]}

Elements(s) == {s[i] : i \in 1..Len(s)}

\* What is left of the stack when it is cut there.
CutAt(f, part) ==
    /\ part \in Seq(DOMAIN number)
    /\ \A i \in 1..Len(part) : i \in 1..Len(stack) /\ part[i] = stack[i]
    /\ Elements(part) = OnStack \ From(f)

LEMMA StackFrom ==
    ASSUME Numbered, Stacked, NEW f \in OnStack, NEW at \in 1..Len(stack), stack[at] = f,
           NEW part, part = SubSeq(stack, 1, at - 1)
    PROVE  /\ {stack[i] : i \in at..Len(stack)} = From(f)
           /\ CutAt(f, part)
  <1>1. PICK n \in Nat : n = Len(stack)
    BY DEF Stacked
  <1> USE <1>1
  <1>2. \A i \in 1..n : stack[i] \in OnStack /\ stack[i] \in DOMAIN number
    BY DEF OnStack, Stacked
  <1>3. \A g \in OnStack : \E i \in 1..n : stack[i] = g
    BY DEF OnStack
  <1>4. \A i \in 1..n : number[stack[i]] \in Nat
    BY <1>2 DEF Numbered
  <1>5. \A i, j \in 1..n : i < j => number[stack[i]] < number[stack[j]]
    BY DEF Stacked
  <1>6. \A i \in 1..n : number[f] <= number[stack[i]] <=> at <= i
    <2> SUFFICES ASSUME NEW i \in 1..n PROVE number[f] <= number[stack[i]] <=> at <= i
      OBVIOUS
    <2>1. CASE i < at
      BY <1>4, <1>5, <2>1
    <2>2. CASE i = at
      BY <1>4, <2>2
    <2>3. CASE at < i
      BY <1>4, <1>5, <2>3
    <2> QED BY <2>1, <2>2, <2>3
  <1>7. {stack[i] : i \in at..n} = From(f)
    <2>1. ASSUME NEW i \in at..n PROVE stack[i] \in From(f)
      BY <1>2, <1>6 DEF From
    <2>2. ASSUME NEW g \in From(f) PROVE \E i \in at..n : stack[i] = g
      <3>1. PICK i \in 1..n : stack[i] = g
        BY <1>3 DEF From
      <3> QED BY <1>6, <3>1 DEF From
    <2> QED BY <2>1, <2>2
  <1>8. CutAt(f, part)
    <2>1. /\ part \in Seq(DOMAIN number) /\ Len(part) = at - 1
          /\ \A i \in 1..(at - 1) : part[i] = stack[i]
      <3>1. \A i \in 1..(at - 1) : stack[i] \in DOMAIN number
        BY <1>2
      <3> QED BY <3>1, SubSeqProperties
    <2>2. ASSUME NEW i \in 1..(at - 1) PROVE part[i] \in OnStack \ From(f)
      BY <1>2, <1>6, <2>1 DEF From
    <2>3. ASSUME NEW g \in OnStack \ From(f) PROVE \E i \in 1..(at - 1) : part[i] = g
      <3>1. PICK i \in 1..n : stack[i] = g
        BY <1>3
      <3>2. i \in 1..(at - 1)
        BY <1>6, <3>1 DEF From
      <3> QED BY <2>1, <3>1, <3>2
    <2>4. Elements(part) = OnStack \ From(f)
      BY <2>1, <2>2, <2>3 DEF Elements
    <2> QED BY <2>1, <2>4 DEF CutAt
  <1> QED BY <1>7, <1>8

LEMMA MoreThanOne ==
    ASSUME NEW S, IsFiniteSet(S), NEW f \in S
    PROVE  Cardinality(S) > 1 <=> \E g \in S : g # f
  <1>1. IsFiniteSet({f}) /\ Cardinality({f}) = 1
    BY FS_Singleton
  <1>2. ASSUME NEW g \in S, g # f PROVE Cardinality(S) > 1
    <2>1. Cardinality({f} \cup {g}) = 2
      BY <1>1, <1>2, FS_AddElement
    <2>2. {f} \cup {g} \in SUBSET S
      BY <1>2
    <2>3. Cardinality({f} \cup {g}) <= Cardinality(S) /\ Cardinality(S) \in Nat
      BY <2>2, FS_Subset, FS_CardinalityType
    <2> QED BY <2>1, <2>3
  <1>3. (\A g \in S : g = f) => S = {f}
    OBVIOUS
  <1> QED BY <1>1, <1>2, <1>3

\* Above a root are the files that reach one another, and only these.
LEMMA RootHasComponent ==
    ASSUME NEW graph, FileGraph(graph), CyclesInv(graph),
           NEW n \in Nat \ {0}, n = Len(frames), frames[n].todo = {}, NEW x, x = Node(n),
           low[x] = number[x]
    PROVE  /\ x \in From(x)
           /\ \A f \in From(x) : Imported(graph, f) \subseteq From(x) \cup Closed
           /\ \A f \in From(x) : f \in Reach(graph, f) => Mutual(graph, f) = From(x)
           /\ Cardinality(From(x)) > 1 \/ x \in Imported(graph, x)
                <=> \E f \in From(x) : f \in Reach(graph, f)
  <1>1. n \in 1..n /\ x \in OnStack /\ OnStack \subseteq DOMAIN number /\ DOMAIN number \subseteq Files
    BY StackIsNumbered DEF CyclesInv, Calling, Numbered
  <1>2. \A f \in DOMAIN number : number[f] \in Nat
    BY DEF CyclesInv, Numbered
  <1>3. x \in From(x)
    BY <1>1, <1>2 DEF From
  <1>4. \A f \in From(x) : f \in OnStack /\ f \in Files /\ number[x] <= number[f]
    BY <1>1 DEF From
  <1>5. \A f \in From(x) : Segment(n, f)
    BY <1>4 DEF Segment
  <1>6. \A f \in From(x) : Reaches(graph, x, f) /\ Reaches(graph, f, x)
    BY <1>1, <1>4, <1>5 DEF CyclesInv, Connected
  <1>7. \A f \in From(x) : \A g : ~Awaited(f, g)
    <2> SUFFICES ASSUME NEW f \in From(x), NEW g, Awaited(f, g) PROVE FALSE
      OBVIOUS
    <2>1. PICK i \in 1..n : Node(i) = f /\ g \in frames[i].todo
      BY DEF Awaited
    <2>2. i = n
      <3>1. i < n => number[f] < number[x]
        BY <1>1, <2>1 DEF CyclesInv, Calling
      <3>2. number[f] \in Nat /\ number[x] \in Nat /\ number[x] <= number[f]
        BY <1>1, <1>2, <1>4
      <3> QED BY <3>1, <3>2
    <2> QED BY <2>1, <2>2
  <1>8. ASSUME NEW f \in From(x), NEW g \in Imported(graph, f) PROVE g \in From(x) \cup Closed
    <2>1. g \in DOMAIN number
      BY <1>1, <1>4, <1>7 DEF CyclesInv, Looked
    <2>2. CASE g \in OnStack
      <3>1. low[x] <= number[g]
        BY <1>1, <1>4, <1>5, <1>7, <2>2 DEF CyclesInv, Linked
      <3> QED BY <2>2, <3>1 DEF From
    <2>3. CASE g \notin OnStack
      BY <2>1, <2>3 DEF Closed
    <2> QED BY <2>2, <2>3
  \* From what is closed, only closed files are reached.
  <1>9. \A g \in Closed : Reach(graph, g) \subseteq Closed /\ g \notin From(x)
    <2>1. Closed \in SUBSET Files
      BY <1>1 DEF Closed
    <2>2. \A g \in Closed : Imported(graph, g) \subseteq Closed
      BY DEF CyclesInv, Looked
    <2>3. \A g \in Closed : Reach(graph, g) \subseteq Closed
      BY <2>1, <2>2, ReachIsLeast
    <2> QED BY <2>3 DEF Closed, From
  <1>10. \A f \in From(x) : Reach(graph, f) \subseteq From(x) \cup Closed
    <2> DEFINE all == From(x) \cup Closed
    <2>1. all \in SUBSET Files
      BY <1>1, <1>4 DEF Closed
    <2>2. \A g \in all : Imported(graph, g) \subseteq all
      BY <1>8 DEF CyclesInv, Looked
    <2>3. \A f \in From(x) : f \in Files /\ Imported(graph, f) \subseteq all
      BY <1>4, <2>2
    <2> HIDE DEF all
    <2>4. \A f \in From(x) : Reach(graph, f) \subseteq all
      BY <2>1, <2>2, <2>3, ReachIsLeast
    <2> QED BY <2>4 DEF all
  <1>11. \A f, g \in From(x) : Reaches(graph, f, g)
    BY <1>4, <1>6, <1>1, ReachesOn
  <1>12. ASSUME NEW f \in From(x), f \in Reach(graph, f) PROVE Mutual(graph, f) = From(x)
    <2>1. ASSUME NEW g \in Mutual(graph, f) PROVE g \in From(x)
      BY <1>9, <1>10, <2>1 DEF Mutual
    <2>2. ASSUME NEW g \in From(x) PROVE g \in Mutual(graph, f)
      BY <1>11, <1>12 DEF Mutual, Reaches
    <2> QED BY <2>1, <2>2
  <1>13. IsFiniteSet(From(x))
    <2>1. From(x) \in SUBSET Files
      BY <1>4
    <2> QED BY <2>1, FS_Subset DEF FileGraph
  <1>14. ASSUME Cardinality(From(x)) > 1 \/ x \in Imported(graph, x)
         PROVE  \E f \in From(x) : f \in Reach(graph, f)
    <2>1. CASE x \in Imported(graph, x)
      BY <1>1, <1>3, <2>1, ReachIsClosed
    <2>2. CASE Cardinality(From(x)) > 1
      <3>2. PICK g \in From(x) : g # x
        BY <1>3, <1>13, <2>2, MoreThanOne
      <3>3. g \in Reach(graph, x) /\ x \in Reach(graph, g)
        BY <1>6, <3>2 DEF Reaches
      <3>4. x \in Reach(graph, x)
        BY <1>1, <3>3, ReachIsTransitive
      <3> QED BY <1>3, <3>4
    <2> QED BY <1>14, <2>1, <2>2
  <1>15. ASSUME NEW f \in From(x), f \in Reach(graph, f)
         PROVE  Cardinality(From(x)) > 1 \/ x \in Imported(graph, x)
    <2>1. CASE \E g \in From(x) : g # x
      BY <1>3, <1>13, <2>1, MoreThanOne
    <2>2. CASE \A g \in From(x) : g = x
      <3>1. f = x /\ x \in Reach(graph, x) /\ x \in Files
        BY <1>1, <1>15, <2>2
      <3>2. PICK g \in Imported(graph, x) : x = g \/ x \in Reach(graph, g)
        BY <3>1, ReachBegins
      <3>3. g \in From(x) \cup Closed
        BY <1>3, <1>8
      <3>4. g = x
        BY <1>3, <1>9, <2>2, <3>2, <3>3
      <3> QED BY <3>4
    <2> QED BY <2>1, <2>2
  <1> QED BY <1>3, <1>8, <1>12, <1>14, <1>15

LEMMA RootReturns ==
    ASSUME NEW graph, FileGraph(graph), CyclesInv(graph), Return(graph),
           NEW n \in Nat \ {0}, Ends(n), low[Node(n)] = number[Node(n)]
    PROVE  CyclesInv(graph)'
  <1>1. PICK x : x = Node(n)
    OBVIOUS
  <1> DEFINE C == From(x)
  <1>2. /\ x \in C
        /\ \A f \in C : Imported(graph, f) \subseteq C \cup Closed
        /\ \A f \in C : f \in Reach(graph, f) => Mutual(graph, f) = C
        /\ Cardinality(C) > 1 \/ x \in Imported(graph, x) <=> \E f \in C : f \in Reach(graph, f)
    <2> HIDE DEF C
    <2> QED BY <1>1, RootHasComponent DEF Ends, C
  <1>3. /\ n = Len(frames) /\ n \in 1..n /\ x \in OnStack
        /\ OnStack \subseteq DOMAIN number /\ DOMAIN number \subseteq Files
        /\ \A f \in DOMAIN number : number[f] \in Nat /\ low[f] \in Nat
        /\ low \in [DOMAIN number -> Nat]
    BY <1>1, StackIsNumbered DEF Ends, CyclesInv, Numbered
  <1>4. /\ stack' \in Seq(DOMAIN number) /\ OnStack' = OnStack \ C
        /\ \A i, j \in 1..Len(stack') : i < j => number[stack'[i]] < number[stack'[j]]
        /\ cycles' = IF \E f \in C : f \in Reach(graph, f) THEN cycles \cup {C} ELSE cycles
    <2>1. PICK at : at = CHOOSE i \in 1..Len(stack) : stack[i] = x
      OBVIOUS
    <2>2. at \in 1..Len(stack) /\ stack[at] = x
      <3>1. \E i \in 1..Len(stack) : stack[i] = x
        BY <1>3 DEF OnStack
      <3> QED BY <2>1, <3>1
    <2>3. Top.node = x
      BY <1>1 DEF Ends, Top, Node
    <2>4. stack' = SubSeq(stack, 1, at - 1)
      BY <1>1, <2>1, <2>3 DEF Return
    <2>5. {stack[i] : i \in at..Len(stack)} = C
      BY <1>3, <2>2, <2>4, StackFrom DEF CyclesInv
    <2>6. cycles' = IF Cardinality(C) > 1 \/ x \in Imported(graph, x)
                    THEN cycles \cup {C} ELSE cycles
      <3> HIDE DEF C
      <3> QED BY <1>1, <2>1, <2>3, <2>5 DEF Return
    <2>7. CutAt(x, stack')
      <3>1. Numbered /\ Stacked
        BY DEF CyclesInv
      <3> QED BY <1>3, <2>2, <2>4, <3>1, StackFrom
    <2>8. OnStack' = OnStack \ C
      BY <2>7 DEF CutAt, OnStack, Elements
    <2>9. \A i, j \in 1..Len(stack') : i < j => number[stack'[i]] < number[stack'[j]]
      BY <2>7 DEF CutAt, CyclesInv, Stacked
    <2> HIDE DEF C
    <2> QED BY <1>2, <2>6, <2>7, <2>8, <2>9 DEF CutAt
  <1>5. /\ number' = number /\ Len(frames') = n - 1
        /\ frames' \in Seq([node : DOMAIN number, todo : SUBSET Files])
        /\ \A i \in 1..(n - 1) : frames'[i] = frames[i] /\ Node(i)' = Node(i)
    BY DEF Ends
  \* What remains on the stack came before the root.
  <1>6. \A f \in OnStack' : f \in OnStack /\ number[f] < number[x]
    BY <1>3, <1>4 DEF From
  <1>7. \A i \in 1..(n - 1) : i \in 1..n /\ Node(i) \in OnStack' /\ number[Node(i)] < number[x]
    <2> SUFFICES ASSUME NEW i \in 1..(n - 1)
                 PROVE  i \in 1..n /\ Node(i) \in OnStack' /\ number[Node(i)] < number[x]
      OBVIOUS
    <2>1. i \in 1..n /\ i < n
      OBVIOUS
    <2>2. Node(i) \in OnStack /\ number[Node(i)] < number[x]
      BY <1>1, <1>3, <2>1 DEF CyclesInv, Calling
    <2> QED BY <1>3, <1>4, <2>1, <2>2 DEF From
  <1>8. low' = low
    <2>1. CASE n = 1
      BY <1>3, <2>1 DEF Return
    <2>2. CASE n # 1
      <3>1. PICK c : c = Node(n - 1)
        OBVIOUS
      <3>2. n - 1 \in 1..(n - 1)
        BY <2>2
      <3>3. low[c] <= number[c] /\ number[c] < number[x] /\ c \in DOMAIN number
        BY <1>3, <1>4, <1>7, <3>1, <3>2 DEF CyclesInv, Linked
      <3>4. Min({low[c], low[x]}) = low[c]
        <4>1. low[c] \in Nat /\ low[x] \in Nat /\ low[c] <= low[x]
          BY <1>1, <1>3, <3>3
        <4> QED BY <4>1 DEF Min
      <3>5. low' = [low EXCEPT ![c] = Min({@, low[x]})]
        BY <1>1, <1>3, <2>2, <3>1 DEF Return, Top, Node
      <3> QED BY <1>3, <3>3, <3>4, <3>5
    <2> QED BY <2>1, <2>2
  <1>9. \A i \in 1..(n - 1) : \A f \in OnStack' : Segment(i, f)' <=> Segment(i, f)
    <2> SUFFICES ASSUME NEW i \in 1..(n - 1), NEW f \in OnStack'
                 PROVE  Segment(i, f)' <=> Segment(i, f)
      OBVIOUS
    <2>1. number[f] < number[Node(n)]
      BY <1>1, <1>6
    <2>2. Segment(i, f)' <=>
            /\ number[Node(i)] <= number[f]
            /\ \A k \in 1..(n - 1) : i < k => number[f] < number[Node(k)]
      BY <1>5 DEF Segment
    <2>3. \A k \in 1..n : k \in 1..(n - 1) \/ k = n
      OBVIOUS
    <2>4. \A k \in 1..(n - 1) : k \in 1..n
      OBVIOUS
    <2> QED BY <1>3, <2>1, <2>2, <2>3, <2>4 DEF Segment
  <1>10. \A f, g : Awaited(f, g) => Awaited(f, g)'
    <2> SUFFICES ASSUME NEW f, NEW g, Awaited(f, g) PROVE Awaited(f, g)'
      OBVIOUS
    <2>1. PICK i \in 1..n : Node(i) = f /\ g \in frames[i].todo
      BY <1>3 DEF Awaited
    <2>2. i \in 1..(n - 1)
      BY <2>1 DEF Ends
    <2> QED BY <1>5, <2>1, <2>2 DEF Awaited
  <1>11. Closed' = Closed \cup C
    BY <1>3, <1>4, <1>5 DEF Closed, From
  <1> HIDE DEF C
  <1>12. Numbered' /\ Stacked'
    BY <1>4, <1>5, <1>8 DEF CyclesInv, Numbered, Stacked
  <1>13. Calling(graph)'
    <2>1. \A i, j \in 1..(n - 1) : i < j => number'[Node(i)'] < number'[Node(j)']
      BY <1>3, <1>5, <1>7 DEF CyclesInv, Calling
    <2>2. \A i \in 1..(n - 1) :
             Node(i)' \in OnStack' /\ frames'[i].todo \subseteq Imported(graph, Node(i)')
      BY <1>3, <1>5, <1>7 DEF CyclesInv, Calling
    <2>3. ASSUME NEW f \in OnStack' PROVE \E i \in 1..(n - 1) : Segment(i, f)'
      <3>1. PICK i \in 1..n : Segment(i, f)
        BY <1>3, <1>6 DEF CyclesInv, Calling
      <3>2. i # n
        BY <1>1, <1>3, <1>6, <3>1 DEF Segment
      <3> QED BY <1>9, <3>1, <3>2
    <2> QED BY <1>5, <2>1, <2>2, <2>3 DEF Calling
  <1>14. Looked(graph)'
    <2>1. \A f \in Closed' : Imported(graph, f) \subseteq Closed'
      BY <1>2, <1>11 DEF CyclesInv, Looked
    <2> QED BY <1>5, <1>10, <2>1 DEF CyclesInv, Looked
  <1>15. Linked(graph)'
    <2>1. ASSUME NEW i \in 1..(n - 1)
          PROVE  /\ low[Node(i)] <= number[Node(i)]
                 /\ \E h \in OnStack' : low[Node(i)] = number[h] /\ Reaches(graph, Node(i), h)
      <3>1. /\ low[Node(i)] <= number[Node(i)]
            /\ \E h \in OnStack : low[Node(i)] = number[h] /\ Reaches(graph, Node(i), h)
        BY <1>3, <1>7 DEF CyclesInv, Linked
      <3>2. PICK h \in OnStack : low[Node(i)] = number[h] /\ Reaches(graph, Node(i), h)
        BY <3>1
      <3>3. number[h] < number[x]
        BY <1>3, <1>4, <1>7, <3>1, <3>2
      <3>4. h \in OnStack'
        BY <1>3, <1>4, <3>3 DEF C, From
      <3> QED BY <3>1, <3>2, <3>4
    <2>2. ASSUME NEW i \in 1..(n - 1), NEW f \in OnStack',
                 NEW g \in Imported(graph, f) \cap OnStack', Segment(i, f)'
          PROVE  low[Node(i)] <= number[g] \/ Awaited(f, g)'
      <3>1. f \in OnStack /\ g \in OnStack /\ Segment(i, f)
        BY <1>6, <1>9, <2>2
      <3> QED BY <1>3, <1>7, <1>10, <3>1 DEF CyclesInv, Linked
    <2> QED BY <1>5, <1>8, <2>1, <2>2 DEF Linked
  <1>16. Connected(graph)'
    <2> SUFFICES ASSUME NEW i \in 1..(n - 1), NEW f \in OnStack'
                 PROVE  /\ number[Node(i)] <= number[f] => Reaches(graph, Node(i), f)
                        /\ Segment(i, f)' => Reaches(graph, f, Node(i))
      BY <1>5 DEF Connected
    <2> QED BY <1>3, <1>6, <1>7, <1>9 DEF CyclesInv, Connected
  <1>17. Reported(graph)'
    <2>1. ASSUME NEW f \in C, f \in Reach(graph, f)
          PROVE  C \in ImportCyclesOf(graph)
      <3>1. f \in Files /\ Mutual(graph, f) = C
        BY <1>2, <1>3, <2>1 DEF C, From
      <3> QED BY <2>1, <3>1 DEF ImportCyclesOf, Mutual
    <2>2. cycles' \subseteq ImportCyclesOf(graph)
      BY <1>4, <2>1 DEF CyclesInv, Reported
    <2>3. ASSUME NEW f \in Closed', f \in Reach(graph, f)
          PROVE  Mutual(graph, f) \in cycles'
      BY <1>2, <1>4, <1>11, <2>3 DEF CyclesInv, Reported
    <2> QED BY <2>2, <2>3 DEF Reported
  <1> QED BY <1>12, <1>13, <1>14, <1>15, <1>16, <1>17 DEF CyclesInv

\* A call that is no root leaves its segment to its caller, which exists.
LEMMA OthersReturn ==
    ASSUME NEW graph, FileGraph(graph), CyclesInv(graph), Return(graph),
           NEW n \in Nat \ {0}, Ends(n), low[Node(n)] # number[Node(n)]
    PROVE  CyclesInv(graph)'
  <1>1. PICK x : x = Node(n)
    OBVIOUS
  <1>2. /\ n = Len(frames) /\ n \in 1..n /\ x \in OnStack
        /\ OnStack \subseteq DOMAIN number /\ DOMAIN number \subseteq Files
        /\ \A f \in DOMAIN number : number[f] \in Nat /\ low[f] \in Nat
        /\ low \in [DOMAIN number -> Nat]
    BY <1>1, StackIsNumbered DEF Ends, CyclesInv, Numbered
  <1>3. /\ number' = number /\ Len(frames') = n - 1
        /\ frames' \in Seq([node : DOMAIN number, todo : SUBSET Files])
        /\ \A i \in 1..(n - 1) : frames'[i] = frames[i] /\ Node(i)' = Node(i)
    BY DEF Ends
  <1>4. stack' = stack /\ cycles' = cycles /\ OnStack' = OnStack /\ Closed' = Closed
    <2>1. stack' = stack /\ cycles' = cycles
      BY <1>1 DEF Return, Ends, Top, Node
    <2> QED BY <1>3, <2>1 DEF OnStack, Closed
  \* Its link is that of a file below it, which is in another call's segment.
  <1>5. /\ low[x] < number[x]
        /\ \E h \in OnStack : low[x] = number[h] /\ Reaches(graph, x, h)
    <2>1. /\ low[x] <= number[x]
          /\ \E h \in OnStack : low[x] = number[h] /\ Reaches(graph, x, h)
      BY <1>1, <1>2 DEF CyclesInv, Linked
    <2> QED BY <1>1, <1>2, <2>1
  <1>6. PICK h \in OnStack : low[x] = number[h] /\ Reaches(graph, x, h)
    BY <1>5
  <1>7. PICK j \in 1..n : Segment(j, h)
    BY <1>2 DEF CyclesInv, Calling
  <1>8. j \in 1..(n - 1) /\ n - 1 \in 1..(n - 1)
    <2>1. j # n
      BY <1>1, <1>2, <1>5, <1>6, <1>7 DEF Segment
    <2> QED BY <2>1
  <1>9. PICK c : c = Node(n - 1)
    OBVIOUS
  <1>10. \A i \in 1..n : Node(i) \in OnStack /\ frames[i].todo \subseteq Imported(graph, Node(i))
    BY <1>2 DEF CyclesInv, Calling
  <1>11. c \in OnStack /\ number[c] < number[x]
    <2>1. n - 1 \in 1..n /\ n - 1 < n
      BY <1>8
    <2> QED BY <1>1, <1>2, <1>9, <1>10, <2>1 DEF CyclesInv, Calling
  <1>12. \A i \in 1..(n - 1) : i \in 1..n /\ number[Node(i)] <= number[c]
    <2> SUFFICES ASSUME NEW i \in 1..(n - 1) PROVE i \in 1..n /\ number[Node(i)] <= number[c]
      OBVIOUS
    <2>1. i \in 1..n /\ n - 1 \in 1..n
      OBVIOUS
    <2>2. i < n - 1 => number[Node(i)] < number[c]
      BY <1>2, <1>9, <2>1 DEF CyclesInv, Calling
    <2>3. number[Node(i)] \in Nat /\ number[c] \in Nat
      BY <1>2, <1>10, <1>11, <2>1
    <2> QED BY <1>9, <2>1, <2>2, <2>3
  \* The caller's file reaches it, and is reached from it.
  <1>13. Reaches(graph, c, x)
    <2>1. number[c] <= number[x]
      BY <1>2, <1>11
    <2> QED BY <1>2, <1>8, <1>9, <1>12, <2>1 DEF CyclesInv, Connected
  <1>14. Reaches(graph, x, c)
    <2>1. Reaches(graph, h, Node(j))
      BY <1>2, <1>7 DEF CyclesInv, Connected
    <2>2. Reaches(graph, Node(j), c)
      BY <1>2, <1>8, <1>11, <1>12 DEF CyclesInv, Connected
    <2>3. x \in Files /\ h \in Files /\ Node(j) \in Files
      BY <1>2, <1>10
    <2>4. Reaches(graph, x, Node(j))
      BY <1>6, <2>1, <2>3, ReachesOn
    <2> QED BY <2>2, <2>3, <2>4, ReachesOn
  <1>15. /\ low' \in [DOMAIN number -> Nat]
         /\ \A f \in DOMAIN number : low'[f] \in Nat /\ low'[f] <= low[f]
         /\ \A f \in DOMAIN number : f # c => low'[f] = low[f]
         /\ low'[c] <= low[x] /\ (low'[c] = low[c] \/ low'[c] = low[x])
    <2>1. low[c] \in Nat /\ low[x] \in Nat /\ c \in DOMAIN number
      BY <1>2, <1>11
    <2>2. Min({low[c], low[x]}) = IF low[c] <= low[x] THEN low[c] ELSE low[x]
      BY <2>1 DEF Min
    <2>3. low' = [low EXCEPT ![c] = Min({@, low[x]})]
      BY <1>1, <1>2, <1>8, <1>9 DEF Return, Top, Node
    <2>4. low' = [low EXCEPT ![c] = IF low[c] <= low[x] THEN low[c] ELSE low[x]]
      BY <1>2, <2>1, <2>2, <2>3
    <2> QED BY <1>2, <2>1, <2>4
  <1>16. \A i \in 1..(n - 1) : \A f \in OnStack :
            /\ i # n - 1 => (Segment(i, f)' <=> Segment(i, f))
            /\ i = n - 1 => (Segment(i, f)' <=> Segment(i, f) \/ Segment(n, f))
    <2> SUFFICES ASSUME NEW i \in 1..(n - 1), NEW f \in OnStack
                 PROVE  /\ i # n - 1 => (Segment(i, f)' <=> Segment(i, f))
                        /\ i = n - 1 => (Segment(i, f)' <=> Segment(i, f) \/ Segment(n, f))
      OBVIOUS
    <2>1. Segment(i, f)' <=>
            /\ number[Node(i)] <= number[f]
            /\ \A k \in 1..(n - 1) : i < k => number[f] < number[Node(k)]
      BY <1>3 DEF Segment
    <2>2. Segment(n, f) <=> number[x] <= number[f]
      BY <1>1, <1>2 DEF Segment
    <2>3. Segment(i, f) <=> Segment(i, f)' /\ number[f] < number[x]
      <3>1. \A k \in 1..n : k \in 1..(n - 1) \/ k = n
        OBVIOUS
      <3>2. \A k \in 1..(n - 1) : k \in 1..n
        OBVIOUS
      <3>3. Segment(i, f) <=>
              /\ number[Node(i)] <= number[f]
              /\ \A k \in 1..n : i < k => number[f] < number[Node(k)]
        BY <1>2 DEF Segment
      <3>4. i < n /\ n \in 1..n
        OBVIOUS
      <3> QED BY <1>1, <2>1, <3>1, <3>2, <3>3, <3>4
    <2>4. number[f] \in Nat /\ number[x] \in Nat /\ number[c] \in Nat
      BY <1>2, <1>11
    <2>5. i # n - 1 /\ Segment(i, f)' => number[f] < number[x]
      <3>1. i # n - 1 /\ Segment(i, f)' => number[f] < number[c]
        BY <1>8, <1>9, <2>1
      <3> QED BY <1>11, <2>4, <3>1
    <2>6. i = n - 1 /\ Segment(n, f) => Segment(i, f)'
      <3>1. ASSUME i = n - 1, number[x] <= number[f] PROVE number[Node(i)] <= number[f]
        BY <1>9, <1>11, <2>4, <3>1
      <3> QED BY <2>1, <2>2, <3>1
    <2>7. ~(number[f] < number[x]) <=> number[x] <= number[f]
      BY <2>4
    <2> QED BY <2>2, <2>3, <2>5, <2>6, <2>7
  <1>17. \A f, g : Awaited(f, g) => Awaited(f, g)'
    <2> SUFFICES ASSUME NEW f, NEW g, Awaited(f, g) PROVE Awaited(f, g)'
      OBVIOUS
    <2>1. PICK i \in 1..n : Node(i) = f /\ g \in frames[i].todo
      BY <1>2 DEF Awaited
    <2>2. i \in 1..(n - 1)
      BY <2>1 DEF Ends
    <2> QED BY <1>3, <2>1, <2>2 DEF Awaited
  <1>18. Numbered' /\ Stacked'
    BY <1>3, <1>4, <1>15 DEF CyclesInv, Numbered, Stacked
  <1>19. Calling(graph)'
    <2>1. \A i, k \in 1..(n - 1) : i < k => number'[Node(i)'] < number'[Node(k)']
      BY <1>2, <1>3, <1>12 DEF CyclesInv, Calling
    <2>2. \A i \in 1..(n - 1) :
             Node(i)' \in OnStack' /\ frames'[i].todo \subseteq Imported(graph, Node(i)')
      BY <1>3, <1>4, <1>10, <1>12
    <2>3. ASSUME NEW f \in OnStack PROVE \E i \in 1..(n - 1) : Segment(i, f)'
      <3>1. PICK i \in 1..n : Segment(i, f)
        BY <1>2 DEF CyclesInv, Calling
      <3>2. CASE i = n
        BY <1>8, <1>16, <3>1, <3>2
      <3>3. CASE i # n
        <4>1. i \in 1..(n - 1)
          BY <3>3
        <4> QED BY <1>16, <3>1, <4>1
      <3> QED BY <3>2, <3>3
    <2> QED BY <1>3, <1>4, <2>1, <2>2, <2>3 DEF Calling
  <1>20. Looked(graph)'
    BY <1>3, <1>4, <1>17 DEF CyclesInv, Looked
  <1>21. Linked(graph)'
    <2>1. ASSUME NEW i \in 1..(n - 1)
          PROVE  /\ low'[Node(i)] <= number[Node(i)]
                 /\ \E k \in OnStack : low'[Node(i)] = number[k] /\ Reaches(graph, Node(i), k)
      <3>1. /\ low[Node(i)] <= number[Node(i)]
            /\ \E k \in OnStack : low[Node(i)] = number[k] /\ Reaches(graph, Node(i), k)
        BY <1>2, <1>12 DEF CyclesInv, Linked
      <3>2. Node(i) \in DOMAIN number
        BY <1>2, <1>10, <1>12
      <3>3. low'[Node(i)] <= number[Node(i)]
        BY <1>2, <1>15, <3>1, <3>2
      <3>4. CASE low'[Node(i)] = low[Node(i)]
        BY <3>1, <3>3, <3>4
      <3>5. CASE low'[Node(i)] # low[Node(i)]
        <4>1. Node(i) = c /\ low'[c] = low[x]
          BY <1>15, <3>2, <3>5
        <4>2. Reaches(graph, c, h)
          BY <1>2, <1>6, <1>11, <1>13, ReachesOn
        <4> QED BY <1>6, <3>3, <4>1, <4>2
      <3> QED BY <3>4, <3>5
    <2>2. ASSUME NEW i \in 1..(n - 1), NEW f \in OnStack,
                 NEW g \in Imported(graph, f) \cap OnStack, Segment(i, f)'
          PROVE  low'[Node(i)] <= number[g] \/ Awaited(f, g)'
      <3>1. Node(i) \in DOMAIN number /\ number[g] \in Nat /\ low[x] \in Nat
        BY <1>2, <1>10, <1>12
      <3>2. CASE Segment(i, f)
        <4>1. low[Node(i)] <= number[g] \/ Awaited(f, g)
          BY <1>2, <1>12, <3>2 DEF CyclesInv, Linked
        <4>2. low'[Node(i)] <= low[Node(i)] /\ low[Node(i)] \in Nat /\ low'[Node(i)] \in Nat
          BY <1>2, <1>15, <3>1
        <4> QED BY <1>17, <3>1, <4>1, <4>2
      <3>3. CASE ~Segment(i, f)
        <4>1. i = n - 1 /\ Segment(n, f)
          BY <1>16, <2>2, <3>3
        <4>2. low[x] <= number[g] \/ Awaited(f, g)
          BY <1>1, <1>2, <4>1 DEF CyclesInv, Linked
        <4>3. low'[Node(i)] <= low[x] /\ low'[Node(i)] \in Nat
          BY <1>9, <1>15, <3>1, <4>1
        <4> QED BY <1>17, <3>1, <4>2, <4>3
      <3> QED BY <3>2, <3>3
    <2> QED BY <1>3, <1>4, <2>1, <2>2 DEF Linked
  <1>22. Connected(graph)'
    <2> SUFFICES ASSUME NEW i \in 1..(n - 1), NEW f \in OnStack
                 PROVE  /\ number[Node(i)] <= number[f] => Reaches(graph, Node(i), f)
                        /\ Segment(i, f)' => Reaches(graph, f, Node(i))
      BY <1>3, <1>4 DEF Connected
    <2>1. number[Node(i)] <= number[f] => Reaches(graph, Node(i), f)
      BY <1>2, <1>12 DEF CyclesInv, Connected
    <2>2. CASE Segment(i, f)
      BY <1>2, <1>12, <2>1, <2>2 DEF CyclesInv, Connected
    <2>3. CASE Segment(i, f)' /\ ~Segment(i, f)
      <3>1. i = n - 1 /\ Segment(n, f)
        BY <1>16, <2>3
      <3>2. Reaches(graph, f, x)
        BY <1>1, <1>2, <3>1 DEF CyclesInv, Connected
      <3>3. Reaches(graph, f, c)
        BY <1>2, <1>14, <3>2, ReachesOn
      <3> QED BY <1>9, <2>1, <3>1, <3>3
    <2> QED BY <2>1, <2>2, <2>3
  <1>23. Reported(graph)'
    BY <1>4 DEF CyclesInv, Reported
  <1> QED BY <1>18, <1>19, <1>20, <1>21, <1>22, <1>23 DEF CyclesInv

\* Every step of the walk keeps the invariant.
LEMMA CyclesInvStep ==
    ASSUME NEW graph, FileGraph(graph), DOMAIN graph \subseteq Files,
           CyclesInv(graph), CyclesStep(graph)
    PROVE  CyclesInv(graph)'
  <1>1. CASE StartComponent(graph)
    BY <1>1, StartKeeps
  <1>2. CASE Neighbour(graph)
    BY <1>2, NeighbourKeeps
  <1>3. CASE Return(graph)
    <2>1. PICK n \in Nat \ {0} : Ends(n)
      BY <1>3, CallEnds
    <2> QED BY <1>3, <2>1, RootReturns, OthersReturn
  <1> QED BY <1>1, <1>2, <1>3 DEF CyclesStep

\* What it has found when it is done is all there is.
LEMMA AllCyclesFound ==
    ASSUME NEW graph, FileGraph(graph), CyclesInv(graph), CyclesDone(graph)
    PROVE  cycles = ImportCyclesOf(graph)
  <1>1. OnStack = {} /\ Closed = DOMAIN number
    <2>1. Len(frames) = 0
      BY DEF CyclesDone
    <2>2. OnStack = {}
      BY <2>1 DEF CyclesInv, Calling
    <2> QED BY <2>2 DEF Closed
  <1>2. ASSUME NEW f \in Files, f \in Reach(graph, f) PROVE Mutual(graph, f) \in cycles
    <2>1. Imported(graph, f) # {}
      BY <1>2, ReachBegins
    <2>2. f \in DOMAIN number
      BY <2>1 DEF Imported, CyclesDone
    <2> QED BY <1>1, <1>2, <2>2 DEF CyclesInv, Reported
  <1>3. ImportCyclesOf(graph) \subseteq cycles
    BY <1>2 DEF ImportCyclesOf, Mutual
  <1> QED BY <1>3 DEF CyclesInv, Reported
-----------------------------------------------------------------------------
(* The two community detectors.  A symbol only takes a community of one of  *)
(* its neighbours, so that its community is named after a symbol that paths *)
(* join to it; and what paths join is the same from either end, the graph   *)
(* being symmetric.                                                         *)

\* Neighbours of one another, finitely many of them.
Neighbours(map) ==
    /\ IsFiniteSet(DOMAIN map)
    /\ \A n \in DOMAIN map : map[n] \subseteq DOMAIN map
    /\ \A n \in DOMAIN map : \A k \in map[n] : n \in map[k]

Joined(map, n) == Within(map, {n}, Cardinality(DOMAIN map))

\* Each symbol of the graph has a place in the alphabet.
Ranked(S) == \A n \in S : n \in DOMAIN Rank /\ Rank[n] \in Nat

ClustersInv ==
    /\ Neighbours(adj) /\ Ranked(DOMAIN adj)
    /\ todo \subseteq DOMAIN adj
    /\ group \in [DOMAIN adj -> DOMAIN adj]
    /\ \A n \in DOMAIN adj : group[n] \in Joined(adj, n)

LEMMA JoinedIsClosed ==
    ASSUME NEW map, Neighbours(map), NEW n \in DOMAIN map
    PROVE  /\ n \in Joined(map, n)
           /\ Joined(map, n) \subseteq DOMAIN map
           /\ \A m \in Joined(map, n) : map[m] \subseteq Joined(map, n)
  <1> DEFINE N == DOMAIN map
             S == {n}
  <1>1. IsFiniteSet(N) /\ (\A m \in N : map[m] \subseteq N) /\ S \in SUBSET N
    BY DEF Neighbours
  <1>2. Cardinality(N) \in Nat
    BY <1>1, FS_CardinalityType
  <1>3. Joined(map, n) = Within(map, S, Cardinality(N))
    BY DEF Joined
  <1>4. n \in S
    OBVIOUS
  <1> HIDE DEF N, S
  <1>5. S \subseteq Within(map, S, Cardinality(N))
    <2>1. 0 \in Nat /\ 0 <= Cardinality(N)
      BY <1>2
    <2>2. Within(map, S, 0) \subseteq Within(map, S, Cardinality(N))
      BY <1>2, <2>1, WithinGrows
    <2> QED BY <2>2, WithinStart
  <1>6. Within(map, S, Cardinality(N)) \subseteq N
    BY <1>1, <1>2, WithinStays
  <1>7. \A m \in Within(map, S, Cardinality(N)) : map[m] \subseteq Within(map, S, Cardinality(N))
    BY <1>1, WithinSettles
  <1> QED BY <1>3, <1>4, <1>5, <1>6, <1>7 DEF N

\* A set that no neighbour leaves holds all that is joined to its members.
LEMMA JoinedIsLeast ==
    ASSUME NEW map, Neighbours(map), NEW C, \A m \in C : map[m] \subseteq C, NEW n \in C
    PROVE  Joined(map, n) \subseteq C
  <1> DEFINE S == {n}
  <1>1. S \subseteq C
    OBVIOUS
  <1>2. Cardinality(DOMAIN map) \in Nat
    BY FS_CardinalityType DEF Neighbours
  <1> HIDE DEF S
  <1>3. Within(map, S, Cardinality(DOMAIN map)) \subseteq C
    BY <1>1, <1>2, WithinStays
  <1> QED BY <1>3 DEF Joined, S

LEMMA JoinedOn ==
    ASSUME NEW map, Neighbours(map), NEW n \in DOMAIN map, NEW k \in Joined(map, n)
    PROVE  Joined(map, k) \subseteq Joined(map, n)
  BY JoinedIsClosed, JoinedIsLeast

LEMMA JoinedBack ==
    ASSUME NEW map, Neighbours(map), NEW n \in DOMAIN map, NEW k \in Joined(map, n)
    PROVE  n \in Joined(map, k)
  <1> DEFINE C == {m \in DOMAIN map : n \in Joined(map, m)}
  <1>1. n \in C
    BY JoinedIsClosed
  <1>2. ASSUME NEW m \in C, NEW p \in map[m] PROVE p \in C
    <2>1. m \in DOMAIN map /\ n \in Joined(map, m)
      OBVIOUS
    <2>2. p \in DOMAIN map /\ m \in map[p]
      BY <2>1 DEF Neighbours
    <2>3. m \in Joined(map, p)
      BY <2>2, JoinedIsClosed
    <2>4. Joined(map, m) \subseteq Joined(map, p)
      BY <2>2, <2>3, JoinedOn
    <2> QED BY <2>1, <2>2, <2>4
  <1>3. \A m \in C : map[m] \subseteq C
    BY <1>2
  <1>4. Joined(map, n) \subseteq C
    <2> HIDE DEF C
    <2> QED BY <1>1, <1>3, JoinedIsLeast
  <1> QED BY <1>4

\* Some member of a set has the least of its values.
LEMMA SomeIsLeast ==
    ASSUME NEW S, S # {}, NEW value, \A n \in S : value[n] \in Nat
    PROVE  \E n \in S : \A k \in S : value[n] <= value[k]
  <1> DEFINE V == {value[n] : n \in S}
             R == OpToRel(<, Nat)
  <1>1. V \subseteq Nat /\ V # {}
    OBVIOUS
  <1>2. IsWellFoundedOn(R, Nat)
    BY NatLessThanWellFounded
  <1>3. PICK x \in V : \A y \in V : ~(<<y, x>> \in R)
    <2> HIDE DEF R, V
    <2> QED BY <1>1, <1>2, WFMin
  <1>4. ASSUME NEW y \in V PROVE x <= y
    <2>1. x \in Nat /\ y \in Nat
      BY <1>1
    <2>2. ~(<<y, x>> \in R)
      BY <1>3
    <2> HIDE DEF V
    <2>3. ~(y < x)
      BY <2>1, <2>2 DEF OpToRel
    <2> QED BY <2>1, <2>3
  <1> QED BY <1>4

\* A symbol with neighbours takes the label of one of them.
LEMMA LabelIsANeighbours ==
    ASSUME ClustersInv, NEW n \in DOMAIN adj, adj[n] # {}
    PROVE  \E k \in adj[n] : Commonest(n) = group[k]
  <1> DEFINE votes == {group[k] : k \in adj[n]}
             most == {g \in votes : \A h \in votes : Votes(n, h) <= Votes(n, g)}
             all == Cardinality(adj[n])
  <1>1. adj[n] \subseteq DOMAIN adj /\ IsFiniteSet(adj[n]) /\ all \in Nat
    BY FS_Subset, FS_CardinalityType DEF ClustersInv, Neighbours
  <1>2. \A g : Votes(n, g) \in Nat /\ Votes(n, g) <= all
    <2> SUFFICES ASSUME NEW g PROVE Votes(n, g) \in Nat /\ Votes(n, g) <= all
      OBVIOUS
    <2> DEFINE voters == {k \in adj[n] : group[k] = g}
    <2>1. Votes(n, g) = Cardinality(voters)
      BY DEF Votes
    <2>2. voters \subseteq adj[n]
      OBVIOUS
    <2> HIDE DEF voters
    <2> QED BY <1>1, <2>1, <2>2, FS_Subset, FS_CardinalityType
  <1>3. most # {}
    <2> DEFINE value == [g \in votes |-> all - Votes(n, g)]
    <2>1. votes # {} /\ \A g \in votes : value[g] = all - Votes(n, g)
      OBVIOUS
    <2>2. \A g \in votes : value[g] \in Nat
      BY <1>1, <1>2, <2>1
    <2>3. PICK g \in votes : \A h \in votes : value[g] <= value[h]
      <3> HIDE DEF votes, value
      <3> QED BY <2>1, <2>2, SomeIsLeast
    <2>4. \A h \in votes : Votes(n, h) <= Votes(n, g)
      <3> HIDE DEF votes, value, all
      <3> QED BY <1>1, <1>2, <2>1, <2>3
    <2> QED BY <2>4
  <1>4. \A g \in most : Rank[g] \in Nat
    BY <1>1 DEF ClustersInv, Ranked
  <1>5. \E g \in most : \A h \in most : Rank[g] <= Rank[h]
    <2> HIDE DEF most
    <2> QED BY <1>3, <1>4, SomeIsLeast
  <1>6. Least(most) \in most
    <2> HIDE DEF most
    <2> QED BY <1>5 DEF Least
  <1>7. Commonest(n) = Least(most)
    BY DEF Commonest
  <1> QED BY <1>6, <1>7

\* A symbol that takes the community of a neighbour stays joined to it.
LEMMA TakingKeeps ==
    ASSUME ClustersInv, NEW n \in todo, NEW g,
           g = group[n] \/ \E k \in adj[n] : g = group[k],
           adj' = adj, group' = [group EXCEPT ![n] = g], todo' = todo \ {n}
    PROVE  ClustersInv'
  <1>1. n \in DOMAIN adj /\ Neighbours(adj)
    BY DEF ClustersInv
  <1>2. g \in Joined(adj, n)
    <2>1. CASE g = group[n]
      BY <1>1, <2>1 DEF ClustersInv
    <2>2. CASE \E k \in adj[n] : g = group[k]
      <3>1. PICK k \in adj[n] : g = group[k]
        BY <2>2
      <3>2. n \in Joined(adj, n) /\ k \in Joined(adj, n) /\ k \in DOMAIN adj
        BY <1>1, <3>1, JoinedIsClosed
      <3>3. g \in Joined(adj, k)
        BY <3>1, <3>2 DEF ClustersInv
      <3> QED BY <1>1, <3>2, <3>3, JoinedOn
    <2> QED BY <2>1, <2>2
  <1>3. g \in DOMAIN adj
    BY <1>1, <1>2, JoinedIsClosed
  <1>4. group' \in [DOMAIN adj -> DOMAIN adj]
    BY <1>3 DEF ClustersInv
  <1>5. \A m \in DOMAIN adj : group'[m] \in Joined(adj, m)
    BY <1>2 DEF ClustersInv
  <1> QED BY <1>4, <1>5 DEF ClustersInv

LEMMA UndirectedIsSymmetric ==
    ASSUME NEW graph \in Graphs, NEW kind
    PROVE  Neighbours(Undirected(graph, kind)) /\ Ranked(DOMAIN Undirected(graph, kind))
  <1> DEFINE edges == {e \in (DOMAIN graph) \X UNION Range(graph) :
                         e[2] \in graph[e[1]] /\ (kind = "search" => e[1] # e[2])}
             ends == (UNION {{e[1], e[2]} : e \in edges})
                       \cup (IF kind = "labels" THEN DOMAIN graph ELSE {})
             map == [n \in ends |-> {k \in ends : <<n, k>> \in edges \/ <<k, n>> \in edges}]
  <1>1. Undirected(graph, kind) = map
    BY DEF Undirected
  <1>2. ends \subseteq SymbolsOf(graph)
    <2>1. \A e \in edges : e[1] \in DOMAIN graph /\ e[2] \in UNION Range(graph)
      OBVIOUS
    <2>2. \A e \in edges : {e[1], e[2]} \subseteq SymbolsOf(graph)
      BY <2>1 DEF SymbolsOf
    <2>3. DOMAIN graph \subseteq SymbolsOf(graph)
      BY DEF SymbolsOf
    <2> HIDE DEF edges
    <2> QED BY <2>2, <2>3
  <1> HIDE DEF edges
  <1>3. \A n \in ends : map[n] \subseteq ends /\ \A k \in map[n] : n \in map[k]
    OBVIOUS
  <1>4. IsFiniteSet(SymbolsOf(graph)) /\ Ranked(SymbolsOf(graph))
    BY CommunitiesAssumption DEF Ranked
  <1>5. IsFiniteSet(ends) /\ Ranked(ends)
    BY <1>2, <1>4, FS_Subset DEF Ranked
  <1> HIDE DEF ends
  <1>6. DOMAIN map = ends
    OBVIOUS
  <1> HIDE DEF map
  <1> QED BY <1>1, <1>3, <1>5, <1>6 DEF Neighbours

LEMMA NothingIsClustered ==
    ASSUME adj = [n \in {} |-> {}], group = [n \in {} |-> {}], todo = {}
    PROVE  ClustersInv
  <1>1. DOMAIN adj = {} /\ IsFiniteSet({})
    BY FS_EmptySet
  <1> QED BY <1>1 DEF ClustersInv, Neighbours, Ranked

LEMMA StartingClusters ==
    ASSUME StartClustering PROVE ClustersInv'
  <1>1. PICK graph \in Graphs, kind \in {"search", "labels"} : Start(kind, graph)
    BY DEF StartClustering
  <1>2. /\ adj' = Undirected(graph, kind) /\ todo' = DOMAIN adj'
        /\ group' = [n \in DOMAIN adj' |-> n]
    BY <1>1 DEF Start
  <1>3. Neighbours(adj') /\ Ranked(DOMAIN adj')
    BY <1>2, UndirectedIsSymmetric
  <1>4. \A n \in DOMAIN adj' : n \in Joined(adj', n)
    BY <1>3, JoinedIsClosed
  <1> QED BY <1>2, <1>3, <1>4 DEF ClustersInv

LEMMA ClustersInvStep ==
    ASSUME ClustersInv, [CommunitiesNext]_communityVars PROVE ClustersInv'
  <1>1. CASE StartClustering
    BY <1>1, StartingClusters
  <1>2. CASE HandOver
    <2>1. adj' = [n \in {} |-> {}] /\ group' = [n \in {} |-> {}] /\ todo' = {}
      BY <1>2 DEF HandOver
    <2>2. DOMAIN adj' = {} /\ IsFiniteSet({})
      BY <2>1, FS_EmptySet
    <2> QED BY <2>1, <2>2 DEF ClustersInv, Neighbours, Ranked
  <1>3. CASE NextPass
    BY <1>3 DEF NextPass, ClustersInv
  <1>4. CASE MoveSymbol
    <2>1. PICK n \in todo :
             LET left == [degreeOf EXCEPT ![group[n]] = @ - Degree(n)]
                 near == {group[k] : k \in adj[n]}
                 best == {g \in near : /\ Gain(n, g, left) > 0
                                       /\ \A h \in near : Gain(n, h, left) <= Gain(n, g, left)}
             IN  \E g \in IF best = {} THEN {group[n]} ELSE best :
                    /\ group' = [group EXCEPT ![n] = g]
                    /\ todo' = todo \ {n}
      BY <1>4 DEF MoveSymbol
    <2> DEFINE left == [degreeOf EXCEPT ![group[n]] = @ - Degree(n)]
               near == {group[k] : k \in adj[n]}
               best == {g \in near : /\ Gain(n, g, left) > 0
                                     /\ \A h \in near : Gain(n, h, left) <= Gain(n, g, left)}
    <2>2. PICK g \in IF best = {} THEN {group[n]} ELSE best :
             group' = [group EXCEPT ![n] = g] /\ todo' = todo \ {n}
      BY <2>1
    <2>3. best \subseteq near
      OBVIOUS
    <2>4. g = group[n] \/ g \in near
      <3> HIDE DEF best, near
      <3> QED BY <2>2, <2>3
    <2>5. g = group[n] \/ \E k \in adj[n] : g = group[k]
      BY <2>4
    <2>6. adj' = adj
      BY <1>4 DEF MoveSymbol
    <2> QED BY <2>2, <2>5, <2>6, TakingKeeps
  <1>5. CASE RelabelSymbol
    <2>1. PICK n \in todo :
             LET label == IF adj[n] = {} THEN group[n] ELSE Commonest(n)
             IN  group' = [group EXCEPT ![n] = label] /\ todo' = todo \ {n}
      BY <1>5 DEF RelabelSymbol
    <2> DEFINE label == IF adj[n] = {} THEN group[n] ELSE Commonest(n)
    <2>2. n \in DOMAIN adj
      BY DEF ClustersInv
    <2>3. label = group[n] \/ \E k \in adj[n] : label = group[k]
      BY <2>2, LabelIsANeighbours
    <2>4. group' = [group EXCEPT ![n] = label] /\ todo' = todo \ {n}
      BY <2>1
    <2>5. adj' = adj
      BY <1>5 DEF RelabelSymbol
    <2> HIDE DEF label
    <2> QED BY <2>3, <2>4, <2>5, TakingKeeps
  <1>6. CASE FinishSearch
    BY <1>6 DEF FinishSearch, ClustersInv
  <1>7. CASE FinishLabels
    BY <1>7 DEF FinishLabels, ClustersInv
  <1>8. CASE UNCHANGED communityVars
    BY <1>8 DEF communityVars, ClustersInv
  <1> QED BY <1>1, <1>2, <1>3, <1>4, <1>5, <1>6, <1>7, <1>8 DEF CommunitiesNext, CommunitiesStep

\* Two symbols of one community are joined to the symbol it is named after.
LEMMA NamesakesAreJoined ==
    ASSUME ClustersInv PROVE ClustersStayConnected
  <1> SUFFICES ASSUME NEW n \in DOMAIN adj, NEW k \in DOMAIN adj, group[n] = group[k]
               PROVE  k \in Joined(adj, n)
    BY DEF ClustersStayConnected, Component, Joined
  <1>1. Neighbours(adj) /\ group[n] \in Joined(adj, n) /\ group[n] \in Joined(adj, k)
    BY DEF ClustersInv
  <1>2. k \in Joined(adj, group[n])
    BY <1>1, JoinedBack
  <1> QED BY <1>1, <1>2, JoinedOn

\* Whatever the search moves and the propagation relabels (leiden_communities.py,
\* community.py), two symbols are never put in one cluster unless dependencies,
\* followed either way, lead from one to the other.
THEOREM ClustersAreConnected == CommunitiesSpec => []ClustersStayConnected
  <1>1. CommunitiesInit => ClustersInv
    BY NothingIsClustered DEF CommunitiesInit
  <1>2. ClustersInv /\ [CommunitiesNext]_communityVars => ClustersInv'
    BY ClustersInvStep
  <1>3. ClustersInv => ClustersStayConnected
    BY NamesakesAreJoined
  <1> QED BY <1>1, <1>2, <1>3, PTL DEF CommunitiesSpec
-----------------------------------------------------------------------------
(* Sums over the values of a function (SumFunction).                        *)

Pick(s) == CHOOSE x \in s : TRUE

\* The sum over each subset, an element taken out at a time.
Adds(fun, S, sum) ==
    sum = [s \in SUBSET S |-> IF s = {} THEN 0 ELSE fun[Pick(s)] + sum[s \ {Pick(s)}]]

LEMMA SumIs ==
    ASSUME NEW fun
    PROVE  SumFunction(fun) = (CHOOSE sum : Adds(fun, DOMAIN fun, sum))[DOMAIN fun]
  BY DEF SumFunction, SumFunctionOnSet, FoldFunctionOnSet, MapThenFoldSet, Adds, Pick

LEMMA PickIsIn == ASSUME NEW s, s # {} PROVE Pick(s) \in s
  BY DEF Pick

\* The subsets of at most n elements, and their sums.
Small(S, n) == {s \in SUBSET S : IsFiniteSet(s) /\ Cardinality(s) <= n}
SmallSums(fun, S, n, sum) ==
    /\ sum \in [Small(S, n) -> Int]
    /\ \A s \in Small(S, n) :
          sum[s] = IF s = {} THEN 0 ELSE fun[Pick(s)] + sum[s \ {Pick(s)}]

LEMMA SmallerIsSmall ==
    ASSUME NEW S, NEW n \in Nat, NEW s \in Small(S, n + 1), s # {}
    PROVE  /\ Pick(s) \in s /\ s \ {Pick(s)} \in Small(S, n)
           /\ Cardinality(s) \in Nat /\ Cardinality(s \ {Pick(s)}) = Cardinality(s) - 1
  <1>1. Pick(s) \in s /\ IsFiniteSet(s)
    BY PickIsIn DEF Small
  <1>2. /\ IsFiniteSet(s \ {Pick(s)}) /\ Cardinality(s) \in Nat
        /\ Cardinality(s \ {Pick(s)}) = Cardinality(s) - 1
    BY <1>1, FS_RemoveElement, FS_CardinalityType
  <1>3. Cardinality(s) <= n + 1 /\ s \ {Pick(s)} \in SUBSET S
    BY DEF Small
  <1> QED BY <1>1, <1>2, <1>3 DEF Small

LEMMA SmallGrows ==
    ASSUME NEW S, NEW n \in Nat PROVE Small(S, n) \subseteq Small(S, n + 1)
  <1> SUFFICES ASSUME NEW s \in Small(S, n) PROVE s \in Small(S, n + 1)
    OBVIOUS
  <1>1. Cardinality(s) \in Nat
    BY FS_CardinalityType DEF Small
  <1> QED BY <1>1 DEF Small

LEMMA SmallSumsGoOn ==
    ASSUME NEW S, NEW fun \in [S -> Int], NEW n \in Nat, NEW sum, SmallSums(fun, S, n, sum)
    PROVE  \E next : SmallSums(fun, S, n + 1, next)
  <1> DEFINE next == [s \in Small(S, n + 1) |-> IF s = {} THEN 0 ELSE fun[Pick(s)] + sum[s \ {Pick(s)}]]
  <1>1. next \in [Small(S, n + 1) -> Int]
    <2> SUFFICES ASSUME NEW s \in Small(S, n + 1), s # {}
                 PROVE  fun[Pick(s)] + sum[s \ {Pick(s)}] \in Int
      OBVIOUS
    <2>1. Pick(s) \in S /\ s \ {Pick(s)} \in Small(S, n)
      BY SmallerIsSmall DEF Small
    <2> QED BY <2>1 DEF SmallSums
  <1>2. \A s \in Small(S, n) : next[s] = sum[s]
    BY SmallGrows DEF SmallSums
  <1>3. ASSUME NEW s \in Small(S, n + 1), s # {}
        PROVE  next[s] = fun[Pick(s)] + next[s \ {Pick(s)}]
    <2>1. s \ {Pick(s)} \in Small(S, n)
      BY <1>3, SmallerIsSmall
    <2>2. next[s \ {Pick(s)}] = sum[s \ {Pick(s)}]
      <3> HIDE DEF next
      <3> QED BY <1>2, <2>1
    <2>3. next[s] = fun[Pick(s)] + sum[s \ {Pick(s)}]
      BY <1>3
    <2> QED BY <2>2, <2>3
  <1>4. ASSUME {} \in Small(S, n + 1) PROVE next[{}] = 0
    BY <1>4
  <1> HIDE DEF next
  <1> QED BY <1>1, <1>3, <1>4 DEF SmallSums

LEMMA SmallSumsExist ==
    ASSUME NEW S, NEW fun \in [S -> Int], NEW n \in Nat
    PROVE  \E sum : SmallSums(fun, S, n, sum)
  <1> DEFINE T == {k \in Nat : \E sum : SmallSums(fun, S, k, sum)}
  <1>1. 0 \in T
    <2>1. \A s \in Small(S, 0) : s = {}
      <3> SUFFICES ASSUME NEW s \in Small(S, 0) PROVE s = {}
        OBVIOUS
      <3>1. IsFiniteSet(s) /\ Cardinality(s) \in Nat /\ Cardinality(s) <= 0
        BY FS_CardinalityType DEF Small
      <3> QED BY <3>1, FS_EmptySet
    <2> DEFINE sum == [s \in Small(S, 0) |-> 0]
    <2>2. SmallSums(fun, S, 0, sum)
      BY <2>1 DEF SmallSums
    <2> QED BY <2>2
  <1>2. ASSUME NEW k \in T PROVE k + 1 \in T
    BY SmallSumsGoOn
  <1>3. T = Nat
    <2>1. T \in SUBSET Nat
      OBVIOUS
    <2> HIDE DEF T
    <2> QED BY <1>1, <1>2, <2>1, EveryNatural
  <1> QED BY <1>3

\* So there are such sums over any finite set, and they are numbers.
LEMMA SumsExist ==
    ASSUME NEW S, IsFiniteSet(S), NEW fun \in [S -> Int]
    PROVE  \E sum : Adds(fun, S, sum)
  <1>1. Cardinality(S) \in Nat
    BY FS_CardinalityType
  <1>2. PICK sum : SmallSums(fun, S, Cardinality(S), sum)
    BY <1>1, SmallSumsExist
  <1>3. Small(S, Cardinality(S)) = SUBSET S
    <2> SUFFICES ASSUME NEW s \in SUBSET S PROVE s \in Small(S, Cardinality(S))
      BY DEF Small
    <2>1. IsFiniteSet(s) /\ Cardinality(s) <= Cardinality(S)
      BY FS_Subset
    <2> QED BY <2>1 DEF Small
  <1>4. sum \in [SUBSET S -> Int]
        /\ \A s \in SUBSET S : sum[s] = IF s = {} THEN 0 ELSE fun[Pick(s)] + sum[s \ {Pick(s)}]
    BY <1>2, <1>3 DEF SmallSums
  <1> QED BY <1>4 DEF Adds

LEMMA OneLess ==
    ASSUME NEW s, IsFiniteSet(s), NEW x \in s, NEW n \in Nat, Cardinality(s) = n + 1
    PROVE  Cardinality(s \ {x}) = n
  BY FS_RemoveElement

\* What a sum is: over nothing zero, and over more a number at a time.
LEMMA SumsAreNumbers ==
    ASSUME NEW S, IsFiniteSet(S), NEW fun \in [S -> Int], NEW sum, Adds(fun, S, sum),
           NEW s \in SUBSET S
    PROVE  sum[s] \in Int /\ (s = {} => sum[s] = 0)
  <1> DEFINE T == {n \in Nat : \A r \in SUBSET S : Cardinality(r) = n => sum[r] \in Int}
  <1>1. \A r \in SUBSET S : IsFiniteSet(r) /\ Cardinality(r) \in Nat
    BY FS_Subset, FS_CardinalityType
  <1>2. \A r \in SUBSET S : r # {} => sum[r] = fun[Pick(r)] + sum[r \ {Pick(r)}]
    BY DEF Adds
  <1>0. sum[{}] = 0
    <2>1. {} \in SUBSET S
      OBVIOUS
    <2> QED BY <2>1 DEF Adds
  <1>3. 0 \in T
    <2> SUFFICES ASSUME NEW r \in SUBSET S, Cardinality(r) = 0 PROVE sum[r] \in Int
      OBVIOUS
    <2>1. r = {}
      BY <1>1, FS_EmptySet
    <2> QED BY <1>0, <2>1
  <1>4. ASSUME NEW n \in T PROVE n + 1 \in T
    <2> SUFFICES ASSUME NEW r \in SUBSET S, Cardinality(r) = n + 1 PROVE sum[r] \in Int
      OBVIOUS
    <2>1. r # {}
      BY <1>1, FS_EmptySet
    <2>2. Pick(r) \in r
      BY <2>1, PickIsIn
    <2>3. r \ {Pick(r)} \in SUBSET S /\ Cardinality(r \ {Pick(r)}) = n
      BY <1>1, <2>2, OneLess
    <2>4. sum[r \ {Pick(r)}] \in Int /\ fun[Pick(r)] \in Int
      BY <2>2, <2>3
    <2>5. sum[r] = fun[Pick(r)] + sum[r \ {Pick(r)}]
      BY <1>2, <2>1
    <2> QED BY <2>4, <2>5
  <1>5. T = Nat
    <2>1. T \in SUBSET Nat
      OBVIOUS
    <2> HIDE DEF T
    <2> QED BY <1>3, <1>4, <2>1, EveryNatural
  <1>6. sum[s] \in Int
    BY <1>1, <1>5
  <1> QED BY <1>0, <1>6

LEMMA SumsAdd ==
    ASSUME NEW S, IsFiniteSet(S), NEW fun \in [S -> Int], NEW sum, Adds(fun, S, sum),
           NEW s \in SUBSET S, NEW x \in s
    PROVE  sum[s] = fun[x] + sum[s \ {x}]
  <1> DEFINE Right(r) == \A z \in r : sum[r] = fun[z] + sum[r \ {z}]
             T == {n \in Nat : \A r \in SUBSET S : Cardinality(r) = n => Right(r)}
  <1>1. \A r \in SUBSET S : IsFiniteSet(r) /\ Cardinality(r) \in Nat
    BY FS_Subset, FS_CardinalityType
  <1>2. \A r \in SUBSET S : r # {} => sum[r] = fun[Pick(r)] + sum[r \ {Pick(r)}]
    BY DEF Adds
  <1>3. \A r \in SUBSET S : sum[r] \in Int
    BY SumsAreNumbers
  <1>4. 0 \in T
    <2> SUFFICES ASSUME NEW r \in SUBSET S, Cardinality(r) = 0 PROVE Right(r)
      OBVIOUS
    <2>1. r = {}
      BY <1>1, FS_EmptySet
    <2> QED BY <2>1
  <1>5. ASSUME NEW n \in T PROVE n + 1 \in T
    <2> SUFFICES ASSUME NEW r \in SUBSET S, Cardinality(r) = n + 1, NEW z \in r
                 PROVE  sum[r] = fun[z] + sum[r \ {z}]
      OBVIOUS
    <2>1. PICK y \in r : y = Pick(r)
      BY PickIsIn
    <2>2. sum[r] = fun[y] + sum[r \ {y}]
      BY <1>2, <2>1
    <2>3. \A k \in r : r \ {k} \in SUBSET S /\ Cardinality(r \ {k}) = n
      <3> SUFFICES ASSUME NEW k \in r PROVE Cardinality(r \ {k}) = n
        OBVIOUS
      <3> QED BY <1>1, OneLess
    <2>4. \A k \in r : Right(r \ {k})
      BY <2>3
    <2>5. CASE z = y
      BY <2>2, <2>5
    <2>6. CASE z # y
      <3>1. sum[r \ {y}] = fun[z] + sum[(r \ {y}) \ {z}]
        BY <2>4, <2>6
      <3>2. sum[r \ {z}] = fun[y] + sum[(r \ {z}) \ {y}]
        BY <2>4, <2>6
      <3>3. (r \ {y}) \ {z} = (r \ {z}) \ {y}
        OBVIOUS
      <3>4. PICK a \in Int, b \in Int, c \in Int : a = fun[y] /\ b = fun[z] /\ c = sum[(r \ {z}) \ {y}]
        BY <1>3
      <3>5. sum[r] = a + (b + c) /\ sum[r \ {z}] = a + c
        BY <2>2, <3>1, <3>2, <3>3, <3>4
      <3> QED BY <3>4, <3>5
    <2> QED BY <2>5, <2>6
  <1>6. T = Nat
    <2>1. T \in SUBSET Nat
      OBVIOUS
    <2> HIDE DEF T
    <2> QED BY <1>4, <1>5, <2>1, EveryNatural
  <1>7. Right(s)
    BY <1>1, <1>6
  <1> QED BY <1>7

\* A set of subsets of a finite set with the empty one, and with what each of
\* its members is with one element more.
LEMMA EverySubset ==
    ASSUME NEW S, IsFiniteSet(S), NEW P \in SUBSET (SUBSET S), {} \in P,
           \A s \in P : \A x \in S \ s : s \cup {x} \in P
    PROVE  P = SUBSET S
  <1> DEFINE T == {n \in Nat : \A s \in SUBSET S : Cardinality(s) = n => s \in P}
  <1>1. \A s \in SUBSET S : IsFiniteSet(s) /\ Cardinality(s) \in Nat
    BY FS_Subset, FS_CardinalityType
  <1>2. 0 \in T
    BY <1>1, FS_EmptySet
  <1>3. ASSUME NEW n \in T PROVE n + 1 \in T
    <2> SUFFICES ASSUME NEW s \in SUBSET S, Cardinality(s) = n + 1 PROVE s \in P
      OBVIOUS
    <2>1. PICK x : x \in s
      BY <1>1, FS_EmptySet
    <2>2. s \ {x} \in SUBSET S /\ Cardinality(s \ {x}) = n
      BY <1>1, <2>1, OneLess
    <2>3. s \ {x} \in P /\ x \in S \ (s \ {x})
      BY <2>1, <2>2
    <2>4. (s \ {x}) \cup {x} \in P
      BY <2>3
    <2>5. (s \ {x}) \cup {x} = s
      BY <2>1
    <2> QED BY <2>4, <2>5
  <1>4. T = Nat
    <2>1. T \in SUBSET Nat
      OBVIOUS
    <2> HIDE DEF T
    <2> QED BY <1>2, <1>3, <2>1, EveryNatural
  <1>5. SUBSET S \subseteq P
    BY <1>1, <1>4
  <1> QED BY <1>5

\* Functions that agree have the same sums.
LEMMA SumsAgree ==
    ASSUME NEW S, IsFiniteSet(S), NEW fun \in [S -> Int], NEW sum, Adds(fun, S, sum),
           NEW R \in SUBSET S, NEW part \in [R -> Int], NEW less, Adds(part, R, less),
           \A x \in R : part[x] = fun[x]
    PROVE  less[R] = sum[R]
  <1> DEFINE P == {s \in SUBSET R : less[s] = sum[s]}
  <1>0. IsFiniteSet(R)
    BY FS_Subset
  <1>1. {} \in P
    <2>1. {} \in SUBSET R /\ {} \in SUBSET S
      OBVIOUS
    <2>2. less[{}] = 0
      BY <1>0, <2>1, SumsAreNumbers
    <2>3. sum[{}] = 0
      BY <2>1, SumsAreNumbers
    <2> QED BY <2>1, <2>2, <2>3
  <1>2. ASSUME NEW s \in P, NEW x \in R \ s PROVE s \cup {x} \in P
    <2>1. (s \cup {x}) \ {x} = s /\ s \cup {x} \in SUBSET R /\ s \cup {x} \in SUBSET S /\ x \in s \cup {x}
      OBVIOUS
    <2>2. less[s \cup {x}] = part[x] + less[s]
      BY <1>0, <2>1, SumsAdd
    <2>3. sum[s \cup {x}] = fun[x] + sum[s]
      BY <2>1, SumsAdd
    <2> QED BY <2>1, <2>2, <2>3
  <1>3. P = SUBSET R
    <2>1. P \in SUBSET (SUBSET R)
      OBVIOUS
    <2> HIDE DEF P
    <2> QED BY <1>0, <1>1, <1>2, <2>1, EverySubset
  <1> QED BY <1>3

\* What SumFunction computes.
LEMMA SumOfNothing == ASSUME NEW fun \in [{} -> Int] PROVE SumFunction(fun) = 0
  <1>1. PICK sum : Adds(fun, {}, sum) /\ SumFunction(fun) = sum[{}]
    <2>1. IsFiniteSet({}) /\ DOMAIN fun = {}
      BY FS_EmptySet
    <2> QED BY <2>1, SumIs, SumsExist
  <1> QED BY <1>1, FS_EmptySet, SumsAreNumbers

LEMMA SumIsANumber ==
    ASSUME NEW S, IsFiniteSet(S), NEW fun \in [S -> Int] PROVE SumFunction(fun) \in Int
  <1>1. PICK sum : Adds(fun, S, sum) /\ SumFunction(fun) = sum[S]
    <2>1. DOMAIN fun = S
      OBVIOUS
    <2> QED BY <2>1, SumIs, SumsExist
  <1> QED BY <1>1, SumsAreNumbers

LEMMA SumOfMore ==
    ASSUME NEW S, IsFiniteSet(S), NEW fun \in [S -> Int], NEW x \in S,
           NEW rest \in [S \ {x} -> Int], \A k \in S \ {x} : rest[k] = fun[k]
    PROVE  SumFunction(fun) = fun[x] + SumFunction(rest)
  <1>1. PICK sum : Adds(fun, S, sum) /\ SumFunction(fun) = sum[S]
    <2>1. DOMAIN fun = S
      OBVIOUS
    <2> QED BY <2>1, SumIs, SumsExist
  <1>2. PICK less : Adds(rest, S \ {x}, less) /\ SumFunction(rest) = less[S \ {x}]
    <2>1. DOMAIN rest = S \ {x} /\ IsFiniteSet(S \ {x})
      BY FS_RemoveElement
    <2> QED BY <2>1, SumIs, SumsExist
  <1>3. less[S \ {x}] = sum[S \ {x}]
    <2>1. S \ {x} \in SUBSET S
      OBVIOUS
    <2> QED BY <1>1, <1>2, <2>1, SumsAgree
  <1>4. sum[S] = fun[x] + sum[S \ {x}]
    <2>1. S \in SUBSET S
      OBVIOUS
    <2>2. Adds(fun, S, sum)
      BY <1>1
    <2> QED BY <2>1, <2>2, SumsAdd
  <1> QED BY <1>1, <1>2, <1>3, <1>4

\* The sum over a part of a function's domain.
Over(fun, s) == SumFunction([k \in s |-> fun[k]])

LEMMA OverIsANumber ==
    ASSUME NEW S, IsFiniteSet(S), NEW fun \in [S -> Int], NEW s \in SUBSET S
    PROVE  Over(fun, s) \in Int /\ (s = {} => Over(fun, s) = 0)
  <1> DEFINE part == [k \in s |-> fun[k]]
  <1>1. part \in [s -> Int] /\ IsFiniteSet(s)
    BY FS_Subset
  <1>2. SumFunction(part) = Over(fun, s)
    BY DEF Over
  <1> HIDE DEF part
  <1> QED BY <1>1, <1>2, SumIsANumber, SumOfNothing

LEMMA OverMore ==
    ASSUME NEW S, IsFiniteSet(S), NEW fun \in [S -> Int], NEW s \in SUBSET S, NEW x \in S \ s
    PROVE  Over(fun, s \cup {x}) = fun[x] + Over(fun, s)
  <1> DEFINE more == [k \in s \cup {x} |-> fun[k]]
             part == [k \in s |-> fun[k]]
             r == s \cup {x}
  <1>1. more \in [r -> Int] /\ IsFiniteSet(r) /\ x \in r /\ more[x] = fun[x]
    <2>1. r \in SUBSET S
      OBVIOUS
    <2>2. IsFiniteSet(r)
      <3> HIDE DEF r
      <3> QED BY <2>1, FS_Subset
    <2> QED BY <2>1, <2>2
  <1>2. part \in [r \ {x} -> Int] /\ \A k \in r \ {x} : part[k] = more[k]
    <2>1. r \ {x} = s
      OBVIOUS
    <2> QED BY <2>1
  <1>3. SumFunction(more) = Over(fun, r) /\ SumFunction(part) = Over(fun, s)
    BY DEF Over
  <1>4. SumFunction(more) = more[x] + SumFunction(part)
    <2>1. more \in [r -> Int]
      BY <1>1
    <2>2. IsFiniteSet(r)
      BY <1>1
    <2>3. part \in [r \ {x} -> Int]
      BY <1>2
    <2>4. \A k \in r \ {x} : part[k] = more[k]
      BY <1>2
    <2>5. x \in r
      BY <1>1
    <2> HIDE DEF more, part, r
    <2> QED BY <2>1, <2>2, <2>3, <2>4, <2>5, SumOfMore
  <1> QED BY <1>1, <1>3, <1>4

LEMMA OverAll ==
    ASSUME NEW S, NEW fun \in [S -> Int] PROVE SumFunction(fun) = Over(fun, S)
  <1>1. [k \in S |-> fun[k]] = fun
    OBVIOUS
  <1> QED BY <1>1 DEF Over

\* Of natural numbers.
LEMMA OverNaturals ==
    ASSUME NEW S, IsFiniteSet(S), NEW fun \in [S -> Nat]
    PROVE  Over(fun, S) \in Nat
  <1> DEFINE P == {s \in SUBSET S : Over(fun, s) \in Nat}
  <1>0. fun \in [S -> Int]
    OBVIOUS
  <1>1. {} \in P
    <2>1. {} \in SUBSET S
      OBVIOUS
    <2> QED BY <1>0, <2>1, OverIsANumber
  <1>2. ASSUME NEW s \in P, NEW x \in S \ s PROVE s \cup {x} \in P
    <2>1. s \cup {x} \in SUBSET S /\ fun[x] \in Nat /\ Over(fun, s) \in Nat
      OBVIOUS
    <2>2. Over(fun, s \cup {x}) = fun[x] + Over(fun, s)
      BY <1>0, OverMore
    <2> QED BY <2>1, <2>2
  <1>3. P = SUBSET S
    <2>1. P \in SUBSET (SUBSET S)
      OBVIOUS
    <2> HIDE DEF P
    <2> QED BY <1>1, <1>2, <2>1, EverySubset
  <1> QED BY <1>3

LEMMA OnePlus ==
    ASSUME NEW a \in Int, NEW b \in Int, NEW c \in Int
    PROVE  (b + 1) + (a + c) = (b + a) + (c + 1) /\ b + (a + c) = (b + a) + c
  OBVIOUS

\* Where fun is one more than base, and elsewhere the same.
LEMMA OneMoreEach ==
    ASSUME NEW S, IsFiniteSet(S), NEW fun \in [S -> Int], NEW base \in [S -> Int], NEW more \in SUBSET S,
           \A k \in S : fun[k] = IF k \in more THEN base[k] + 1 ELSE base[k]
    PROVE  Over(fun, S) = Over(base, S) + Cardinality(more)
  <1> DEFINE P == {s \in SUBSET S : Over(fun, s) = Over(base, s) + Cardinality(more \cap s)}
  <1>0. \A s \in SUBSET S : IsFiniteSet(more \cap s) /\ Cardinality(more \cap s) \in Nat
    <2> SUFFICES ASSUME NEW s \in SUBSET S PROVE IsFiniteSet(more \cap s)
      BY FS_CardinalityType
    <2>1. more \cap s \in SUBSET S
      OBVIOUS
    <2> QED BY <2>1, FS_Subset
  <1>1. {} \in P
    <2>1. {} \in SUBSET S /\ more \cap {} = {} /\ Cardinality({}) = 0
      BY FS_EmptySet
    <2>2. Over(fun, {}) = 0 /\ Over(base, {}) = 0
      BY <2>1, OverIsANumber
    <2> QED BY <2>1, <2>2
  <1>2. ASSUME NEW s \in P, NEW x \in S \ s PROVE s \cup {x} \in P
    <2>1. Over(fun, s \cup {x}) = fun[x] + Over(fun, s)
      BY OverMore
    <2>2. Over(base, s \cup {x}) = base[x] + Over(base, s)
      BY OverMore
    <2>3. s \in SUBSET S /\ Over(fun, s) = Over(base, s) + Cardinality(more \cap s)
      OBVIOUS
    <2>4. Over(base, s) \in Int /\ base[x] \in Int /\ Cardinality(more \cap s) \in Nat
      BY <1>0, <2>3, OverIsANumber
    <2>5. CASE x \in more
      <3>1. more \cap (s \cup {x}) = (more \cap s) \cup {x}
        BY <2>5
      <3>2. Cardinality((more \cap s) \cup {x}) = Cardinality(more \cap s) + 1
        BY <1>0, <2>3, FS_AddElement
      <3>3. fun[x] = base[x] + 1
        BY <2>5
      <3>4. Over(fun, s \cup {x}) = Over(base, s \cup {x}) + Cardinality(more \cap (s \cup {x}))
        BY <2>1, <2>2, <2>3, <2>4, <3>1, <3>2, <3>3, OnePlus
      <3> QED BY <3>4
    <2>6. CASE x \notin more
      <3>1. more \cap (s \cup {x}) = more \cap s
        BY <2>6
      <3>2. fun[x] = base[x]
        BY <2>6
      <3>3. Over(fun, s \cup {x}) = base[x] + (Over(base, s) + Cardinality(more \cap s))
        BY <2>1, <2>3, <3>2
      <3>4. Over(fun, s \cup {x}) = Over(base, s \cup {x}) + Cardinality(more \cap (s \cup {x}))
        <4>1. Cardinality(more \cap (s \cup {x})) = Cardinality(more \cap s)
          BY <3>1
        <4>2. base[x] + (Over(base, s) + Cardinality(more \cap s))
                 = (base[x] + Over(base, s)) + Cardinality(more \cap s)
          BY <2>4, OnePlus
        <4> QED BY <2>2, <3>3, <4>1, <4>2
      <3> QED BY <3>4
    <2> QED BY <2>5, <2>6
  <1>3. P = SUBSET S
    <2>1. P \in SUBSET (SUBSET S)
      OBVIOUS
    <2> HIDE DEF P
    <2> QED BY <1>1, <1>2, <2>1, EverySubset
  <1>4. S \in P /\ more \cap S = more
    BY <1>3
  <1> QED BY <1>4

\* Zeros add nothing.
LEMMA ZerosAddNothing ==
    ASSUME NEW S, IsFiniteSet(S), NEW fun \in [S -> Int], NEW R \in SUBSET S,
           \A k \in S \ R : fun[k] = 0
    PROVE  Over(fun, S) = Over(fun, R)
  <1> DEFINE P == {s \in SUBSET (S \ R) : Over(fun, R \cup s) = Over(fun, R)}
  <1>0. IsFiniteSet(S \ R)
    BY FS_Difference
  <1>1. {} \in P
    <2>1. R \cup {} = R
      OBVIOUS
    <2> QED BY <2>1
  <1>2. ASSUME NEW s \in P, NEW x \in (S \ R) \ s PROVE s \cup {x} \in P
    <2>1. R \cup s \in SUBSET S /\ x \in S \ (R \cup s)
      OBVIOUS
    <2>2. Over(fun, (R \cup s) \cup {x}) = fun[x] + Over(fun, R \cup s)
      <3> DEFINE r == R \cup s
      <3>1. r \in SUBSET S /\ x \in S \ r
        BY <2>1
      <3> HIDE DEF r
      <3>2. Over(fun, r \cup {x}) = fun[x] + Over(fun, r)
        BY <3>1, OverMore
      <3> QED BY <3>2 DEF r
    <2>3. Over(fun, R) \in Int
      BY OverIsANumber
    <2>4. (R \cup s) \cup {x} = R \cup (s \cup {x})
      OBVIOUS
    <2>5. fun[x] = 0 /\ Over(fun, R \cup s) = Over(fun, R)
      OBVIOUS
    <2>6. Over(fun, (R \cup s) \cup {x}) = Over(fun, R)
      BY <2>2, <2>3, <2>5
    <2>7. Over(fun, R \cup (s \cup {x})) = Over(fun, R)
      BY <2>4, <2>6
    <2> QED BY <2>7
  <1>3. P = SUBSET (S \ R)
    <2>1. P \in SUBSET (SUBSET (S \ R))
      OBVIOUS
    <2> HIDE DEF P
    <2> QED BY <1>0, <1>1, <1>2, <2>1, EverySubset
  <1>4. S \ R \in P /\ R \cup (S \ R) = S
    BY <1>3
  <1> QED BY <1>4

\* Two functions that agree but at two places.
LEMMA OnlyTwoDiffer ==
    ASSUME NEW S, IsFiniteSet(S), NEW fun \in [S -> Int], NEW other \in [S -> Int],
           NEW a \in S, NEW b \in S, a # b, \A k \in S \ {a, b} : fun[k] = other[k]
    PROVE  Over(other, S) - Over(fun, S) = (other[a] + other[b]) - (fun[a] + fun[b])
  <1> DEFINE R == S \ {a, b}
             Q == R \cup {a}
  <1>1. R \in SUBSET S /\ a \in S \ R /\ Q \in SUBSET S /\ b \in S \ Q /\ Q \cup {b} = S
    OBVIOUS
  <1>2. Over(fun, R) = Over(other, R)
    <2>1. [k \in R |-> fun[k]] = [k \in R |-> other[k]]
      OBVIOUS
    <2> QED BY <2>1 DEF Over
  <1> HIDE DEF R
  <1>3. Over(fun, Q) = fun[a] + Over(fun, R) /\ Over(other, Q) = other[a] + Over(other, R)
    BY <1>1, OverMore
  <1> HIDE DEF Q
  <1>4. Over(fun, S) = fun[b] + Over(fun, Q)
    <2>1. Over(fun, Q \cup {b}) = fun[b] + Over(fun, Q)
      BY <1>1, OverMore
    <2> QED BY <1>1, <2>1
  <1>5. Over(other, S) = other[b] + Over(other, Q)
    <2>1. Over(other, Q \cup {b}) = other[b] + Over(other, Q)
      BY <1>1, OverMore
    <2> QED BY <1>1, <2>1
  <1>6. Over(fun, R) \in Int
    BY <1>1, OverIsANumber
  <1> QED BY <1>2, <1>3, <1>4, <1>5, <1>6
-----------------------------------------------------------------------------
(* The modularity search.                                                   *)

\* Neighbours none of which is its own.
Loopless(map) == Neighbours(map) /\ \A n \in DOMAIN map : n \notin map[n]

\* The edges within S counted from both ends, the degrees of its members, and
\* what S contributes to a modularity.
Inner(map, S) == SumFunction([k \in S |-> Cardinality(map[k] \cap S)])
Outer(map, S) == SumFunction([k \in S |-> Cardinality(map[k])])
Share(map, S, total) == Inner(map, S) * total - Outer(map, S) * Outer(map, S)
ClassOf(map, g, c) == {n \in DOMAIN map : g[n] = c}
Shares(map, g, total) == SumFunction([c \in Range(g) |-> Share(map, ClassOf(map, g, c), total)])

LEMMA NeighboursAreCounted ==
    ASSUME NEW map, Neighbours(map), NEW k \in DOMAIN map, NEW S
    PROVE  /\ IsFiniteSet(map[k]) /\ Cardinality(map[k]) \in Nat
           /\ IsFiniteSet(map[k] \cap S) /\ Cardinality(map[k] \cap S) \in Nat
  <1>1. IsFiniteSet(map[k])
    <2>1. map[k] \in SUBSET DOMAIN map /\ IsFiniteSet(DOMAIN map)
      BY DEF Neighbours
    <2> QED BY <2>1, FS_Subset
  <1>2. IsFiniteSet(map[k] \cap S)
    BY <1>1, FS_Intersection
  <1> QED BY <1>1, <1>2, FS_CardinalityType

LEMMA OuterMore ==
    ASSUME NEW map, Neighbours(map), NEW S \in SUBSET DOMAIN map, NEW n \in DOMAIN map \ S
    PROVE  Outer(map, S \cup {n}) = Cardinality(map[n]) + Outer(map, S)
  <1> DEFINE D == DOMAIN map
             fun == [k \in D |-> Cardinality(map[k])]
             r == S \cup {n}
  <1>1. fun \in [D -> Int] /\ IsFiniteSet(D) /\ fun[n] = Cardinality(map[n])
    BY NeighboursAreCounted DEF Neighbours
  <1>2. Outer(map, S) = Over(fun, S)
    <2>1. [k \in S |-> Cardinality(map[k])] = [k \in S |-> fun[k]]
      OBVIOUS
    <2> QED BY <2>1 DEF Outer, Over
  <1>3. Outer(map, r) = Over(fun, r)
    <2>1. [k \in r |-> Cardinality(map[k])] = [k \in r |-> fun[k]]
      OBVIOUS
    <2> QED BY <2>1 DEF Outer, Over
  <1>4. S \in SUBSET D /\ n \in D \ S
    OBVIOUS
  <1> HIDE DEF fun, D
  <1>5. Over(fun, S \cup {n}) = fun[n] + Over(fun, S)
    BY <1>1, <1>4, OverMore
  <1> QED BY <1>1, <1>2, <1>3, <1>5

LEMMA OuterIsNatural ==
    ASSUME NEW map, Neighbours(map), NEW S \in SUBSET DOMAIN map
    PROVE  Outer(map, S) \in Nat /\ (S = {} => Outer(map, S) = 0)
  <1> DEFINE fun == [k \in S |-> Cardinality(map[k])]
  <1>1. fun \in [S -> Nat] /\ fun \in [S -> Int]
    BY NeighboursAreCounted
  <1>2. IsFiniteSet(S)
    BY FS_Subset DEF Neighbours
  <1>3. Outer(map, S) = SumFunction(fun)
    BY DEF Outer
  <1> HIDE DEF fun
  <1>4. Outer(map, S) = Over(fun, S)
    BY <1>1, <1>3, OverAll
  <1>5. Over(fun, S) \in Nat
    BY <1>1, <1>2, OverNaturals
  <1>6. S = {} => Over(fun, S) = 0
    <2>1. S \in SUBSET S
      OBVIOUS
    <2> QED BY <1>1, <1>2, <2>1, OverIsANumber
  <1> QED BY <1>4, <1>5, <1>6

LEMMA InnerIsANumber ==
    ASSUME NEW map, Neighbours(map), NEW S \in SUBSET DOMAIN map
    PROVE  Inner(map, S) \in Int /\ (S = {} => Inner(map, S) = 0)
  <1> DEFINE fun == [k \in S |-> Cardinality(map[k] \cap S)]
  <1>1. fun \in [S -> Int]
    BY NeighboursAreCounted
  <1>2. IsFiniteSet(S)
    BY FS_Subset DEF Neighbours
  <1>3. Inner(map, S) = SumFunction(fun)
    BY DEF Inner
  <1> HIDE DEF fun
  <1> QED BY <1>1, <1>2, <1>3, SumIsANumber, SumOfNothing

\* An edge to a new member counts at both of its ends.
LEMMA InnerMore ==
    ASSUME NEW map, Loopless(map), NEW S \in SUBSET DOMAIN map, NEW n \in DOMAIN map \ S
    PROVE  Inner(map, S \cup {n}) = Inner(map, S) + 2 * Cardinality(map[n] \cap S)
  <1> DEFINE r == S \cup {n}
             fun == [k \in r |-> Cardinality(map[k] \cap r)]
             part == [k \in S |-> Cardinality(map[k] \cap r)]
             base == [k \in S |-> Cardinality(map[k] \cap S)]
             near == map[n] \cap S
  <1>0. Neighbours(map) /\ IsFiniteSet(S) /\ r \in SUBSET DOMAIN map /\ IsFiniteSet(r)
    <2>1. Neighbours(map) /\ IsFiniteSet(DOMAIN map)
      BY DEF Loopless, Neighbours
    <2>2. r \in SUBSET DOMAIN map
      OBVIOUS
    <2> HIDE DEF r
    <2> QED BY <2>1, <2>2, FS_Subset
  <1>1. fun \in [r -> Int] /\ part \in [S -> Int] /\ base \in [S -> Int]
    <2>1. \A k \in r : Cardinality(map[k] \cap r) \in Nat
      BY <1>0, NeighboursAreCounted
    <2>2. \A k \in r : Cardinality(map[k] \cap S) \in Nat
      <3> SUFFICES ASSUME NEW k \in r PROVE Cardinality(map[k] \cap S) \in Nat
        OBVIOUS
      <3>1. k \in DOMAIN map
        BY <1>0
      <3> QED BY <1>0, <3>1, NeighboursAreCounted
    <2> QED BY <2>1, <2>2
  <1>2. Inner(map, r) = SumFunction(fun) /\ Inner(map, S) = SumFunction(base)
    BY DEF Inner
  <1>3. fun[n] = Cardinality(near)
    <2>1. map[n] \cap r = near
      BY DEF Loopless
    <2>2. fun[n] = Cardinality(map[n] \cap r)
      OBVIOUS
    <2> QED BY <2>1, <2>2
  <1>4. SumFunction(fun) = fun[n] + SumFunction(part)
    <2>1. n \in r /\ part \in [r \ {n} -> Int] /\ \A k \in r \ {n} : part[k] = fun[k]
      <3>1. r \ {n} = S /\ n \in r
        OBVIOUS
      <3>2. \A k \in S : part[k] = fun[k]
        OBVIOUS
      <3> HIDE DEF part, fun, r
      <3> QED BY <1>1, <3>1, <3>2
    <2> HIDE DEF fun, part, r
    <2> QED BY <1>0, <1>1, <2>1, SumOfMore
  <1>5. \A k \in S : part[k] = IF k \in near THEN base[k] + 1 ELSE base[k]
    <2> SUFFICES ASSUME NEW k \in S PROVE part[k] = IF k \in near THEN base[k] + 1 ELSE base[k]
      OBVIOUS
    <2>1. part[k] = Cardinality(map[k] \cap r) /\ base[k] = Cardinality(map[k] \cap S)
      OBVIOUS
    <2>2. k \in near <=> n \in map[k]
      BY <1>0 DEF Neighbours
    <2>3. CASE n \in map[k]
      <3>1. map[k] \cap r = (map[k] \cap S) \cup {n} /\ n \notin map[k] \cap S
        BY <2>3
      <3>2. Cardinality((map[k] \cap S) \cup {n}) = Cardinality(map[k] \cap S) + 1
        <4>1. IsFiniteSet(map[k] \cap S)
          BY <1>0, NeighboursAreCounted
        <4> QED BY <3>1, <4>1, FS_AddElement
      <3>3. k \in near
        BY <2>2, <2>3
      <3> QED BY <2>1, <3>1, <3>2, <3>3
    <2>4. CASE n \notin map[k]
      <3>1. map[k] \cap r = map[k] \cap S
        BY <2>4
      <3>2. k \notin near
        BY <2>2, <2>4
      <3> QED BY <2>1, <3>1, <3>2
    <2> QED BY <2>3, <2>4
  <1>6. near \in SUBSET S /\ Cardinality(near) \in Nat
    BY <1>0, NeighboursAreCounted
  <1> HIDE DEF fun, part, base, near
  <1>7. SumFunction(part) = SumFunction(base) + Cardinality(near)
    <2>1. Over(part, S) = Over(base, S) + Cardinality(near)
      BY <1>0, <1>1, <1>5, <1>6, OneMoreEach
    <2> QED BY <1>1, <2>1, OverAll
  <1>8. Inner(map, S) \in Int
    BY <1>0, InnerIsANumber
  <1>9. Inner(map, r) = Cardinality(near) + (Inner(map, S) + Cardinality(near))
    BY <1>2, <1>3, <1>4, <1>7
  <1> HIDE DEF r
  <1>10. Inner(map, r) = Inner(map, S) + 2 * Cardinality(near)
    BY <1>6, <1>8, <1>9
  <1> QED BY <1>10 DEF near, r

LEMMA SharesGrow ==
    ASSUME NEW e \in Int, NEW o \in Int, NEW d \in Int, NEW k \in Int, NEW total \in Int
    PROVE  (e + 2 * k) * total - (d + o) * (d + o)
              = (e * total - o * o) + 2 * (k * total - o * d) - d * d
  <1>1. (e + 2 * k) * total = e * total + 2 * (k * total)
    OBVIOUS
  <1>2. (d + o) * (d + o) = d * d + 2 * (o * d) + o * o
    OBVIOUS
  <1>3. PICK a \in Int, b \in Int, c \in Int, p \in Int, q \in Int :
           a = e * total /\ b = k * total /\ c = o * d /\ p = d * d /\ q = o * o
    OBVIOUS
  <1>4. (a + 2 * b) - (p + 2 * c + q) = (a - q) + 2 * (b - c) - p
    OBVIOUS
  <1> QED BY <1>1, <1>2, <1>3, <1>4

\* A symbol that is moved takes its edges along.
LEMMA ShareMore ==
    ASSUME NEW map, Loopless(map), NEW S \in SUBSET DOMAIN map, NEW n \in DOMAIN map \ S,
           NEW total \in Int
    PROVE  LET near == Cardinality(map[n] \cap S)
               degree == Cardinality(map[n])
           IN  /\ Share(map, S, total) \in Int /\ near \in Nat /\ degree \in Nat
               /\ Share(map, S \cup {n}, total) = Share(map, S, total)
                     + 2 * (near * total - Outer(map, S) * degree) - degree * degree
  <1>1. Neighbours(map) /\ n \in DOMAIN map
    BY DEF Loopless
  <1>2. Cardinality(map[n] \cap S) \in Nat /\ Cardinality(map[n]) \in Nat
    BY <1>1, NeighboursAreCounted
  <1>3. Inner(map, S) \in Int /\ Outer(map, S) \in Nat
    BY <1>1, InnerIsANumber, OuterIsNatural
  <1>4. PICK e \in Int, o \in Int, d \in Int, k \in Int :
           /\ e = Inner(map, S) /\ o = Outer(map, S)
           /\ d = Cardinality(map[n]) /\ k = Cardinality(map[n] \cap S)
    BY <1>2, <1>3
  <1>5. Inner(map, S \cup {n}) = e + 2 * k
    BY <1>4, InnerMore
  <1>6. Outer(map, S \cup {n}) = d + o
    BY <1>1, <1>4, OuterMore
  <1>7. Share(map, S, total) = e * total - o * o
    BY <1>4 DEF Share
  <1>8. Share(map, S \cup {n}, total) = (e + 2 * k) * total - (d + o) * (d + o)
    BY <1>5, <1>6 DEF Share
  <1>9. (e + 2 * k) * total - (d + o) * (d + o)
           = (e * total - o * o) + 2 * (k * total - o * d) - d * d
    BY <1>4, SharesGrow
  <1>10. Share(map, S, total) \in Int
    BY <1>7
  <1> QED BY <1>2, <1>4, <1>7, <1>8, <1>9, <1>10

\* What it would add to S, as the search reckons it.
GainOf(map, n, S, total) == Cardinality(map[n] \cap S) * total - Outer(map, S) * Cardinality(map[n])

Moves(map, S, n, total) ==
    /\ Share(map, S, total) \in Int /\ Cardinality(map[n]) \in Int /\ GainOf(map, n, S, total) \in Int
    /\ Share(map, S \cup {n}, total) =
          Share(map, S, total) + 2 * GainOf(map, n, S, total) - Cardinality(map[n]) * Cardinality(map[n])

LEMMA MovesAShare ==
    ASSUME NEW map, Loopless(map), NEW S \in SUBSET DOMAIN map, NEW n \in DOMAIN map \ S,
           NEW total \in Int
    PROVE  Moves(map, S, n, total)
  <1>1. Neighbours(map)
    BY DEF Loopless
  <1>2. Outer(map, S) \in Nat
    BY <1>1, OuterIsNatural
  <1>3. Cardinality(map[n]) \in Nat /\ Cardinality(map[n] \cap S) \in Nat /\ Share(map, S, total) \in Int
    BY ShareMore
  <1>4. GainOf(map, n, S, total) \in Int
    BY <1>2, <1>3 DEF GainOf
  <1>5. Share(map, S \cup {n}, total) =
           Share(map, S, total) + 2 * GainOf(map, n, S, total) - Cardinality(map[n]) * Cardinality(map[n])
    BY ShareMore DEF GainOf
  <1> QED BY <1>3, <1>4, <1>5 DEF Moves

LEMMA MovingGains ==
    ASSUME NEW map, Loopless(map), NEW g \in [DOMAIN map -> DOMAIN map], NEW n \in DOMAIN map,
           NEW b \in Range(g), b # g[n], NEW total \in Int, NEW h, h = [g EXCEPT ![n] = b],
           GainOf(map, n, ClassOf(map, g, b), total) >= GainOf(map, n, ClassOf(map, g, g[n]) \ {n}, total)
    PROVE  Shares(map, h, total) >= Shares(map, g, total)
  <1> DEFINE D == DOMAIN map
             U == Range(g)
             V == Range(h)
             a == g[n]
             A == ClassOf(map, g, a) \ {n}
             B == ClassOf(map, g, b)
             fun == [c \in U |-> Share(map, ClassOf(map, g, c), total)]
             other == [c \in U |-> Share(map, ClassOf(map, h, c), total)]
             rest == [c \in V |-> Share(map, ClassOf(map, h, c), total)]
  <1>1. /\ U \in SUBSET D /\ IsFiniteSet(U) /\ V \in SUBSET U /\ a \in U /\ b \in U /\ a # b
        /\ h \in [D -> D]
    <2>1. U \in SUBSET D
      BY DEF Range
    <2>2. IsFiniteSet(U)
      <3>1. IsFiniteSet(D)
        BY DEF Loopless, Neighbours
      <3> HIDE DEF U, D
      <3> QED BY <2>1, <3>1, FS_Subset
    <2>3. h \in [D -> D] /\ \A k \in D : h[k] \in U
      BY DEF Range
    <2>4. V \in SUBSET U
      <3>1. V = {h[k] : k \in D}
        BY <2>3 DEF Range
      <3> HIDE DEF U, V, D
      <3> QED BY <2>3, <3>1
    <2>5. a \in U
      BY DEF Range
    <2> QED BY <2>1, <2>2, <2>3, <2>4, <2>5
  <1>2. /\ A \in SUBSET D /\ n \in D \ A /\ ClassOf(map, g, a) = A \cup {n} /\ ClassOf(map, h, a) = A
        /\ B \in SUBSET D /\ n \in D \ B /\ ClassOf(map, h, b) = B \cup {n}
    BY <1>1 DEF ClassOf
  <1>3. \A c \in U \ {a, b} : ClassOf(map, h, c) = ClassOf(map, g, c)
    BY <1>1 DEF ClassOf
  <1>4. \A c : ClassOf(map, g, c) \in SUBSET D /\ ClassOf(map, h, c) \in SUBSET D
    BY DEF ClassOf
  <1>5. fun \in [U -> Int] /\ other \in [U -> Int] /\ rest \in [V -> Int]
    <2>1. \A S \in SUBSET D : Share(map, S, total) \in Int
      <3> SUFFICES ASSUME NEW S \in SUBSET D PROVE Share(map, S, total) \in Int
        OBVIOUS
      <3>1. Neighbours(map) /\ S \in SUBSET DOMAIN map
        BY DEF Loopless
      <3>2. Inner(map, S) \in Int
        BY <3>1, InnerIsANumber
      <3>3. Outer(map, S) \in Nat
        BY <3>1, OuterIsNatural
      <3> QED BY <3>2, <3>3 DEF Share
    <2> QED BY <1>4, <2>1
  <1>6. \A c \in U \ V : other[c] = 0
    <2> SUFFICES ASSUME NEW c \in U \ V PROVE Share(map, ClassOf(map, h, c), total) = 0
      OBVIOUS
    <2>1. ClassOf(map, h, c) = {}
      BY <1>1 DEF ClassOf, Range
    <2>2. {} \in SUBSET DOMAIN map /\ Neighbours(map)
      BY DEF Loopless
    <2>3. Inner(map, {}) = 0 /\ Outer(map, {}) = 0
      BY <2>2, InnerIsANumber, OuterIsNatural
    <2>4. Share(map, {}, total) = 0
      BY <2>3 DEF Share
    <2> QED BY <2>1, <2>4
  <1>7. Shares(map, g, total) = Over(fun, U)
    <2>1. Shares(map, g, total) = SumFunction(fun)
      BY DEF Shares
    <2> HIDE DEF fun, U
    <2> QED BY <1>5, <2>1, OverAll
  <1>8. Shares(map, h, total) = Over(other, U)
    <2>1. Shares(map, h, total) = SumFunction(rest)
      BY DEF Shares
    <2>2. rest = [c \in V |-> other[c]]
      BY <1>1
    <2>3. SumFunction(rest) = Over(other, V)
      <3> HIDE DEF rest, other, V
      <3> QED BY <2>2 DEF Over
    <2>4. Over(other, U) = Over(other, V)
      <3> HIDE DEF other, U, V
      <3> QED BY <1>1, <1>5, <1>6, ZerosAddNothing
    <2> QED BY <2>1, <2>3, <2>4
  <1>9. Over(other, U) - Over(fun, U) = (other[a] + other[b]) - (fun[a] + fun[b])
    <2>1. \A c \in U \ {a, b} : fun[c] = other[c]
      BY <1>3
    <2> HIDE DEF fun, other, U, a
    <2> QED BY <1>1, <1>5, <2>1, OnlyTwoDiffer
  <1>10. PICK x \in Int, y \in Int, d \in Int, i \in Int, j \in Int :
            /\ x = Share(map, A, total) /\ y = Share(map, B, total) /\ d = Cardinality(map[n])
            /\ i = GainOf(map, n, A, total) /\ j = GainOf(map, n, B, total)
            /\ Share(map, A \cup {n}, total) = x + 2 * i - d * d
            /\ Share(map, B \cup {n}, total) = y + 2 * j - d * d
    <2>1. A \in SUBSET DOMAIN map /\ n \in DOMAIN map \ A /\ B \in SUBSET DOMAIN map /\ n \in DOMAIN map \ B
      BY <1>2
    <2>2. \A S \in SUBSET DOMAIN map : n \in DOMAIN map \ S => Moves(map, S, n, total)
      BY MovesAShare
    <2> HIDE DEF A, B
    <2>3. Moves(map, A, n, total) /\ Moves(map, B, n, total)
      BY <2>1, <2>2
    <2> QED BY <2>3 DEF Moves
  <1>11. /\ fun[a] = x + 2 * i - d * d /\ other[a] = x
         /\ fun[b] = y /\ other[b] = y + 2 * j - d * d
    <2> HIDE DEF A, B
    <2> QED BY <1>1, <1>2, <1>10 DEF B
  <1>12. j >= i
    BY <1>10
  <1>13. (other[a] + other[b]) - (fun[a] + fun[b]) >= 0
    <2>1. d * d \in Int
      OBVIOUS
    <2> HIDE DEF fun, other, a
    <2> QED BY <1>11, <1>12, <2>1
  <1>14. Over(fun, U) \in Int /\ Over(other, U) \in Int
    <2>1. U \in SUBSET U
      OBVIOUS
    <2> HIDE DEF fun, other, U
    <2> QED BY <1>1, <1>5, <2>1, OverIsANumber
  <1> HIDE DEF fun, other, U, a
  <1> QED BY <1>7, <1>8, <1>9, <1>13, <1>14

\* These are the sums of the degrees in the communities of g.
Noted(g, degrees) ==
    /\ degrees \in [DOMAIN adj -> Int]
    /\ \A c \in DOMAIN adj : degrees[c] = Outer(adj, ClassOf(adj, g, c))

\* What the search notes of its communities is right after each move.
DegreesInv == algorithm = "search" => Loopless(adj) /\ Noted(group, degreeOf)

LEMMA SearchIsLoopless ==
    ASSUME NEW graph \in Graphs PROVE Loopless(Undirected(graph, "search"))
  <1> DEFINE edges == {e \in (DOMAIN graph) \X UNION Range(graph) : e[2] \in graph[e[1]] /\ e[1] # e[2]}
             map == Undirected(graph, "search")
  <1>1. \A n \in DOMAIN map : map[n] = {k \in DOMAIN map : <<n, k>> \in edges \/ <<k, n>> \in edges}
    BY DEF Undirected
  <1>2. \A n : <<n, n>> \notin edges
    OBVIOUS
  <1>3. Neighbours(map)
    BY UndirectedIsSymmetric
  <1> HIDE DEF map, edges
  <1>4. \A n \in DOMAIN map : n \notin map[n]
    BY <1>1, <1>2
  <1> QED BY <1>3, <1>4 DEF Loopless, map

\* Each symbol by itself.
LEMMA OuterOfOne ==
    ASSUME NEW map, Neighbours(map), NEW n \in DOMAIN map
    PROVE  Outer(map, {n}) = Cardinality(map[n])
  <1>1. {} \in SUBSET DOMAIN map /\ n \in DOMAIN map \ {} /\ {} \cup {n} = {n}
    OBVIOUS
  <1>2. Outer(map, {} \cup {n}) = Cardinality(map[n]) + Outer(map, {})
    BY <1>1, OuterMore
  <1>3. Outer(map, {}) = 0
    BY <1>1, OuterIsNatural
  <1>4. Cardinality(map[n]) \in Nat
    BY NeighboursAreCounted
  <1> QED BY <1>1, <1>2, <1>3, <1>4

LEMMA StartingDegrees ==
    ASSUME StartClustering PROVE DegreesInv'
  <1>1. PICK graph \in Graphs, kind \in {"search", "labels"} : Start(kind, graph)
    BY DEF StartClustering
  <1>2. SUFFICES ASSUME kind = "search" PROVE DegreesInv'
    BY <1>1 DEF Start, DegreesInv
  <1>3. /\ adj' = Undirected(graph, "search")
        /\ group' = [n \in DOMAIN adj' |-> n]
        /\ degreeOf' = [n \in DOMAIN adj' |-> Cardinality(adj'[n])]
    BY <1>1, <1>2 DEF Start
  <1>4. Loopless(adj')
    BY <1>3, SearchIsLoopless
  <1>5. Neighbours(adj')
    BY <1>4 DEF Loopless
  <1>6. degreeOf' \in [DOMAIN adj' -> Int]
    <2>1. \A n \in DOMAIN adj' : Cardinality(adj'[n]) \in Nat
      BY <1>5, NeighboursAreCounted
    <2> QED BY <1>3, <2>1
  <1>7. ASSUME NEW c \in DOMAIN adj' PROVE degreeOf'[c] = Outer(adj', ClassOf(adj', group', c))
    <2>1. ClassOf(adj', group', c) = {c}
      BY <1>3 DEF ClassOf
    <2>2. Outer(adj', {c}) = Cardinality(adj'[c])
      BY <1>5, OuterOfOne
    <2> QED BY <1>3, <2>1, <2>2
  <1> QED BY <1>4, <1>6, <1>7 DEF DegreesInv, Noted

LEMMA ModularityIsShares ==
    ASSUME NEW g PROVE Modularity(g) = Shares(adj, g, TotalDegree)
  BY DEF Modularity, Shares, Share, Inner, Outer, ClassOf, Degree

LEMMA TotalIsANumber == ASSUME Neighbours(adj) PROVE TotalDegree \in Int
  <1> DEFINE fun == [n \in DOMAIN adj |-> Degree(n)]
             D == DOMAIN adj
  <1>1. fun \in [D -> Int] /\ IsFiniteSet(D)
    <2>1. \A n \in DOMAIN adj : Degree(n) \in Nat
      BY NeighboursAreCounted DEF Degree
    <2> QED BY <2>1 DEF Neighbours
  <1>2. TotalDegree = SumFunction(fun)
    BY DEF TotalDegree
  <1> HIDE DEF fun, D
  <1> QED BY <1>1, <1>2, SumIsANumber

\* What n leaves and what it joins, without it, have the degrees the search
\* has noted, and it gains what the search says.
LEMMA GainsAreKnown ==
    ASSUME ClustersInv, algorithm = "search", DegreesInv, NEW n \in DOMAIN adj, NEW left,
           left = [degreeOf EXCEPT ![group[n]] = @ - Degree(n)]
    PROVE  /\ left \in [DOMAIN adj -> Int] /\ Degree(n) \in Nat
           /\ \A c \in DOMAIN adj : left[c] = Outer(adj, ClassOf(adj, group, c) \ {n})
           /\ \A c \in DOMAIN adj :
                 Gain(n, c, left) = GainOf(adj, n, ClassOf(adj, group, c) \ {n}, TotalDegree)
  <1>1. /\ Loopless(adj) /\ Neighbours(adj) /\ group \in [DOMAIN adj -> DOMAIN adj]
        /\ degreeOf \in [DOMAIN adj -> Int]
        /\ \A c \in DOMAIN adj : degreeOf[c] = Outer(adj, ClassOf(adj, group, c))
    BY DEF ClustersInv, DegreesInv, Noted
  <1>2. Degree(n) \in Nat
    BY <1>1, NeighboursAreCounted DEF Degree
  <1>3. left \in [DOMAIN adj -> Int]
    BY <1>1, <1>2
  <1>4. ASSUME NEW c \in DOMAIN adj PROVE left[c] = Outer(adj, ClassOf(adj, group, c) \ {n})
    <2> DEFINE S == ClassOf(adj, group, c) \ {n}
    <2>1. S \in SUBSET DOMAIN adj /\ n \in DOMAIN adj \ S
      BY DEF ClassOf
    <2>2. CASE c = group[n]
      <3>1. ClassOf(adj, group, c) = S \cup {n}
        BY <2>2 DEF ClassOf
      <3>2. left[c] = degreeOf[c] - Degree(n)
        BY <1>1, <2>2
      <3>3. Outer(adj, S \cup {n}) = Degree(n) + Outer(adj, S)
        <4> HIDE DEF S
        <4> QED BY <1>1, <2>1, OuterMore DEF Degree
      <3>4. Outer(adj, S) \in Nat
        <4> HIDE DEF S
        <4> QED BY <1>1, <2>1, OuterIsNatural
      <3>5. degreeOf[c] = Degree(n) + Outer(adj, S)
        BY <1>1, <3>1, <3>3
      <3> HIDE DEF S
      <3>6. left[c] = Outer(adj, S)
        BY <1>2, <3>2, <3>4, <3>5
      <3> QED BY <3>6 DEF S
    <2>3. CASE c # group[n]
      <3>1. ClassOf(adj, group, c) = S
        BY <2>3 DEF ClassOf
      <3>2. left[c] = degreeOf[c]
        BY <1>1, <2>3
      <3> QED BY <1>1, <3>1, <3>2
    <2> QED BY <2>2, <2>3
  <1>5. ASSUME NEW c \in DOMAIN adj
        PROVE  Gain(n, c, left) = GainOf(adj, n, ClassOf(adj, group, c) \ {n}, TotalDegree)
    <2>1. adj[n] \cap Members(c) = adj[n] \cap (ClassOf(adj, group, c) \ {n})
      BY <1>1 DEF Members, ClassOf, Loopless
    <2> QED BY <1>4, <2>1 DEF Gain, GainOf, Degree
  <1> QED BY <1>2, <1>3, <1>4, <1>5

\* The move that MoveSymbol makes, if any.
LEMMA MoveIsBest ==
    ASSUME ClustersInv, algorithm = "search", DegreesInv, NEW n \in DOMAIN adj, NEW left,
           left = [degreeOf EXCEPT ![group[n]] = @ - Degree(n)], NEW near,
           near = {group[k] : k \in adj[n]}, NEW b \in near, Gain(n, b, left) > 0,
           \A h \in near : Gain(n, h, left) <= Gain(n, b, left), b # group[n]
    PROVE  /\ b \in Range(group) /\ b \in DOMAIN adj
           /\ GainOf(adj, n, ClassOf(adj, group, b), TotalDegree)
                 >= GainOf(adj, n, ClassOf(adj, group, group[n]) \ {n}, TotalDegree)
  <1> DEFINE a == group[n]
             A == ClassOf(adj, group, a) \ {n}
  <1>1. /\ Loopless(adj) /\ Neighbours(adj) /\ group \in [DOMAIN adj -> DOMAIN adj]
        /\ adj[n] \subseteq DOMAIN adj /\ a \in DOMAIN adj
    BY DEF ClustersInv, DegreesInv, Neighbours
  <1>2. b \in Range(group) /\ b \in DOMAIN adj
    BY <1>1 DEF Range
  <1>3. \A c \in DOMAIN adj :
           Gain(n, c, left) = GainOf(adj, n, ClassOf(adj, group, c) \ {n}, TotalDegree)
    BY GainsAreKnown
  <1>4. ClassOf(adj, group, b) \ {n} = ClassOf(adj, group, b)
    BY DEF ClassOf
  <1>5. Gain(n, b, left) = GainOf(adj, n, ClassOf(adj, group, b), TotalDegree)
    BY <1>2, <1>3, <1>4
  <1>6. Gain(n, a, left) = GainOf(adj, n, A, TotalDegree)
    BY <1>1, <1>3
  <1>7. Gain(n, b, left) \in Int
    <2>1. /\ left \in [DOMAIN adj -> Int] /\ Degree(n) \in Nat /\ TotalDegree \in Int
          /\ Cardinality(adj[n] \cap Members(b)) \in Nat
      BY <1>1, GainsAreKnown, TotalIsANumber, NeighboursAreCounted
    <2> QED BY <1>2, <2>1 DEF Gain
  <1>8. CASE a \in near
    <2>1. Gain(n, a, left) <= Gain(n, b, left)
      BY <1>8
    <2>2. Gain(n, a, left) \in Int
      <3>1. /\ left \in [DOMAIN adj -> Int] /\ Degree(n) \in Nat /\ TotalDegree \in Int
            /\ Cardinality(adj[n] \cap Members(a)) \in Nat
        BY <1>1, GainsAreKnown, TotalIsANumber, NeighboursAreCounted
      <3> QED BY <1>1, <3>1 DEF Gain
    <2> HIDE DEF a, A
    <2>3. GainOf(adj, n, ClassOf(adj, group, b), TotalDegree) >= GainOf(adj, n, A, TotalDegree)
      BY <1>5, <1>6, <1>7, <2>1, <2>2
    <2> QED BY <1>2, <2>3 DEF A, a
  <1>9. CASE a \notin near
    <2>1. adj[n] \cap A = {}
      BY <1>1, <1>9 DEF ClassOf
    <2>2. Cardinality(adj[n] \cap A) = 0
      BY <2>1, FS_EmptySet
    <2>3. A \in SUBSET DOMAIN adj
      BY DEF ClassOf
    <2>4. Outer(adj, A) \in Nat
      <3> HIDE DEF A
      <3> QED BY <1>1, <2>3, OuterIsNatural
    <2>5. Cardinality(adj[n]) \in Nat /\ TotalDegree \in Int
      BY <1>1, NeighboursAreCounted, TotalIsANumber
    <2> HIDE DEF A
    <2>6. GainOf(adj, n, A, TotalDegree) <= 0
      <3>1. PICK o \in Nat, d \in Nat, m \in Int :
               o = Outer(adj, A) /\ d = Cardinality(adj[n]) /\ m = TotalDegree
        BY <2>4, <2>5
      <3>2. GainOf(adj, n, A, TotalDegree) = 0 * m - o * d
        BY <2>2, <3>1 DEF GainOf
      <3>3. o * d \in Nat /\ 0 * m = 0
        OBVIOUS
      <3> QED BY <3>2, <3>3
    <2>7. GainOf(adj, n, A, TotalDegree) \in Int
      BY <2>2, <2>4, <2>5 DEF GainOf
    <2>8. GainOf(adj, n, ClassOf(adj, group, b), TotalDegree) >= GainOf(adj, n, A, TotalDegree)
      BY <1>5, <1>7, <2>6, <2>7
    <2> QED BY <1>2, <2>8 DEF A
  <1> QED BY <1>8, <1>9

\* The degrees noted after a move are again those of the communities.
LEMMA MovingKeepsDegrees ==
    ASSUME ClustersInv, algorithm = "search", DegreesInv, NEW n \in DOMAIN adj, NEW left,
           left = [degreeOf EXCEPT ![group[n]] = @ - Degree(n)], NEW b \in DOMAIN adj,
           NEW next, next = [group EXCEPT ![n] = b],
           NEW degrees, degrees = [left EXCEPT ![b] = @ + Degree(n)]
    PROVE  Noted(next, degrees)
  <1>1. /\ Neighbours(adj) /\ group \in [DOMAIN adj -> DOMAIN adj]
    BY DEF ClustersInv
  <1>2. /\ left \in [DOMAIN adj -> Int] /\ Degree(n) \in Nat
        /\ \A c \in DOMAIN adj : left[c] = Outer(adj, ClassOf(adj, group, c) \ {n})
    BY GainsAreKnown
  <1>3. degrees \in [DOMAIN adj -> Int]
    BY <1>2
  <1>4. ASSUME NEW c \in DOMAIN adj PROVE degrees[c] = Outer(adj, ClassOf(adj, next, c))
    <2> DEFINE S == ClassOf(adj, group, c) \ {n}
    <2>1. S \in SUBSET DOMAIN adj /\ n \in DOMAIN adj \ S
      BY DEF ClassOf
    <2>2. CASE c = b
      <3>1. ClassOf(adj, next, c) = S \cup {n}
        BY <1>1, <2>2 DEF ClassOf
      <3>2. degrees[c] = left[c] + Degree(n)
        BY <1>2, <2>2
      <3>3. Outer(adj, S \cup {n}) = Degree(n) + Outer(adj, S)
        <4> HIDE DEF S
        <4> QED BY <1>1, <2>1, OuterMore DEF Degree
      <3>4. left[c] = Outer(adj, S) /\ left[c] \in Int
        BY <1>2
      <3>5. Degree(n) \in Nat
        BY <1>2
      <3> HIDE DEF S
      <3>6. Outer(adj, S \cup {n}) = left[c] + Degree(n)
        BY <3>3, <3>4, <3>5
      <3> QED BY <3>1, <3>2, <3>6
    <2>3. CASE c # b
      <3>1. ClassOf(adj, next, c) = S
        BY <1>1, <2>3 DEF ClassOf
      <3>2. degrees[c] = left[c]
        BY <1>2, <2>3
      <3> QED BY <1>2, <3>1, <3>2
    <2> QED BY <2>2, <2>3
  <1> QED BY <1>3, <1>4 DEF Noted

LEMMA ModularityIsANumber ==
    ASSUME ClustersInv PROVE Modularity(group) \in Int
  <1> DEFINE D == DOMAIN adj
             U == Range(group)
             fun == [c \in U |-> Share(adj, ClassOf(adj, group, c), TotalDegree)]
  <1>1. Neighbours(adj) /\ group \in [D -> D] /\ IsFiniteSet(D)
    BY DEF ClustersInv, Neighbours
  <1>2. \A c : ClassOf(adj, group, c) \in SUBSET D
    BY DEF ClassOf
  <1>3. \A S \in SUBSET D : Share(adj, S, TotalDegree) \in Int
    <2> SUFFICES ASSUME NEW S \in SUBSET D PROVE Share(adj, S, TotalDegree) \in Int
      OBVIOUS
    <2>1. Inner(adj, S) \in Int
      BY <1>1, InnerIsANumber
    <2>2. Outer(adj, S) \in Nat /\ TotalDegree \in Int
      BY <1>1, OuterIsNatural, TotalIsANumber
    <2> QED BY <2>1, <2>2 DEF Share
  <1>4. fun \in [U -> Int]
    BY <1>2, <1>3
  <1>5. IsFiniteSet(U)
    <2>1. U \in SUBSET D
      BY <1>1 DEF Range
    <2> HIDE DEF U, D
    <2> QED BY <1>1, <2>1, FS_Subset
  <1>6. Modularity(group) = SumFunction(fun)
    BY ModularityIsShares DEF Shares
  <1> HIDE DEF fun, U
  <1> QED BY <1>4, <1>5, <1>6, SumIsANumber

LEMMA SearchMoves ==
    ASSUME ClustersInv, DegreesInv, MoveSymbol
    PROVE  DegreesInv' /\ Modularity(group') >= Modularity(group)
  <1>1. algorithm = "search" /\ adj' = adj /\ algorithm' = algorithm
    BY DEF MoveSymbol
  <1>2. PICK n \in todo :
           LET left == [degreeOf EXCEPT ![group[n]] = @ - Degree(n)]
               near == {group[k] : k \in adj[n]}
               best == {g \in near : /\ Gain(n, g, left) > 0
                                     /\ \A h \in near : Gain(n, h, left) <= Gain(n, g, left)}
           IN  \E g \in IF best = {} THEN {group[n]} ELSE best :
                  /\ group' = [group EXCEPT ![n] = g]
                  /\ degreeOf' = [left EXCEPT ![g] = @ + Degree(n)]
    BY DEF MoveSymbol
  <1> DEFINE left == [degreeOf EXCEPT ![group[n]] = @ - Degree(n)]
             near == {group[k] : k \in adj[n]}
             best == {g \in near : /\ Gain(n, g, left) > 0
                                   /\ \A h \in near : Gain(n, h, left) <= Gain(n, g, left)}
  <1>3. PICK b \in IF best = {} THEN {group[n]} ELSE best :
           group' = [group EXCEPT ![n] = b] /\ degreeOf' = [left EXCEPT ![b] = @ + Degree(n)]
    BY <1>2
  <1>4. /\ n \in DOMAIN adj /\ group \in [DOMAIN adj -> DOMAIN adj] /\ adj[n] \subseteq DOMAIN adj
        /\ Loopless(adj) /\ Neighbours(adj)
    BY <1>1 DEF ClustersInv, DegreesInv, Neighbours
  <1>5. b \in DOMAIN adj
    BY <1>3, <1>4
  <1>6. DegreesInv'
    <2>1. PICK l : l = left
      OBVIOUS
    <2>2. group' = [group EXCEPT ![n] = b] /\ degreeOf' = [l EXCEPT ![b] = @ + Degree(n)]
      BY <1>3, <2>1
    <2>3. PICK next, degrees :
             /\ next = [group EXCEPT ![n] = b] /\ degrees = [l EXCEPT ![b] = @ + Degree(n)]
             /\ group' = next /\ degreeOf' = degrees
      BY <2>2
    <2>4. l = [degreeOf EXCEPT ![group[n]] = @ - Degree(n)]
      BY <2>1
    <2> HIDE DEF left, near, best
    <2>5. Noted(next, degrees)
      <3>1. algorithm = "search" /\ n \in DOMAIN adj
        BY <1>1, <1>4
      <3>2. next = [group EXCEPT ![n] = b]
        BY <2>3
      <3>3. degrees = [l EXCEPT ![b] = @ + Degree(n)]
        BY <2>3
      <3> QED BY <1>5, <2>4, <3>1, <3>2, <3>3, MovingKeepsDegrees
    <2> QED BY <1>1, <1>4, <2>3, <2>5 DEF DegreesInv, Noted
  <1>7. CASE b = group[n]
    <2>1. group' = group
      BY <1>3, <1>4, <1>7
    <2> QED BY <1>6, <2>1, ModularityIsANumber
  <1>8. CASE b # group[n]
    <2>1. b \in near /\ Gain(n, b, left) > 0 /\ \A h \in near : Gain(n, h, left) <= Gain(n, b, left)
      BY <1>3, <1>8
    <2>2. PICK l, s : l = left /\ s = near
      OBVIOUS
    <2>3. b \in s /\ Gain(n, b, l) > 0 /\ \A h \in s : Gain(n, h, l) <= Gain(n, b, l)
      BY <2>1, <2>2
    <2>4. l = [degreeOf EXCEPT ![group[n]] = @ - Degree(n)] /\ s = {group[k] : k \in adj[n]}
      BY <2>2
    <2> HIDE DEF left, near, best
    <2>5. /\ b \in Range(group)
          /\ GainOf(adj, n, ClassOf(adj, group, b), TotalDegree)
                >= GainOf(adj, n, ClassOf(adj, group, group[n]) \ {n}, TotalDegree)
      BY <1>1, <1>4, <1>8, <2>3, <2>4, MoveIsBest
    <2>6. TotalDegree \in Int
      BY <1>4, TotalIsANumber
    <2>7. group' = [group EXCEPT ![n] = b]
      BY <1>3
    <2>8. Shares(adj, group', TotalDegree) >= Shares(adj, group, TotalDegree)
      BY <1>4, <1>8, <2>5, <2>6, <2>7, MovingGains
    <2> QED BY <1>6, <2>8, ModularityIsShares
  <1> QED BY <1>7, <1>8

LEMMA DegreesInvStep ==
    ASSUME ClustersInv, DegreesInv, [CommunitiesNext]_communityVars
    PROVE  /\ DegreesInv'
           /\ algorithm = "search" /\ algorithm' = "search" => Modularity(group') >= Modularity(group)
  <1>1. CASE StartClustering
    BY <1>1, StartingDegrees DEF StartClustering, Start
  <1>2. CASE MoveSymbol
    BY <1>2, SearchMoves
  <1>3. CASE HandOver \/ FinishSearch \/ FinishLabels \/ RelabelSymbol
    BY <1>3 DEF HandOver, FinishSearch, FinishLabels, RelabelSymbol, DegreesInv
  <1>4. CASE NextPass \/ UNCHANGED communityVars
    <2>1. UNCHANGED <<adj, algorithm, group, degreeOf>>
      BY <1>4 DEF NextPass, communityVars
    <2> QED BY <2>1, ModularityIsANumber DEF DegreesInv, Noted, ClassOf
  <1> QED BY <1>1, <1>2, <1>3, <1>4 DEF CommunitiesNext, CommunitiesStep

\* Stopping the search after any pass (max_iterations of leiden_communities.py)
\* loses nothing: a move adds twice what its gain exceeds that of staying by.
THEOREM SearchesGain == CommunitiesSpec => MovesKeepModularity
  <1> DEFINE Kept == algorithm = "search" /\ algorithm' = "search" => Modularity(group') >= Modularity(group)
  <1>1. CommunitiesInit => DegreesInv
    BY DEF CommunitiesInit, DegreesInv
  <1>2. CommunitiesInit => ClustersInv
    BY NothingIsClustered DEF CommunitiesInit
  <1>3. ClustersInv /\ [CommunitiesNext]_communityVars => ClustersInv'
    BY ClustersInvStep
  <1>4. ClustersInv /\ DegreesInv /\ [CommunitiesNext]_communityVars => DegreesInv'
    BY DegreesInvStep
  <1>5. ClustersInv /\ DegreesInv /\ [CommunitiesNext]_communityVars => [Kept]_communityVars
    BY DegreesInvStep
  <1> QED BY <1>1, <1>2, <1>3, <1>4, <1>5, PTL DEF CommunitiesSpec, MovesKeepModularity
-----------------------------------------------------------------------------
(* Slices.                                                                  *)

LEMMA LinesAreFinite == ASSUME NEW prog, Program(prog) PROVE IsFiniteSet(Lines(prog))
  <1>1. Len(prog) \in Int
    BY DEF Program
  <1>2. IsFiniteSet(1..Len(prog))
    <2> DEFINE n == Len(prog)
    <2> HIDE DEF n
    <2> QED BY <1>1, FS_Interval
  <1> QED BY <1>2 DEF Lines

\* The names of a line, and the pairs of them and lines, are finitely many.
LEMMA NamesAreFinite ==
    ASSUME NEW prog, Program(prog)
    PROVE  IsFiniteSet(UNION {prog[i].names : i \in Lines(prog)})
  <1> DEFINE f == [i \in Lines(prog) |-> prog[i].names]
             T == {prog[i].names : i \in Lines(prog)}
  <1>1. IsFiniteSet(Lines(prog))
    BY LinesAreFinite
  <1>2. f \in Surjection(Lines(prog), T)
    BY DEF Surjection
  <1>3. IsFiniteSet(T)
    <2> HIDE DEF f, T
    <2> QED BY <1>1, <1>2, FS_Surjection
  <1>4. \A t \in T : IsFiniteSet(t)
    BY DEF Program
  <1> HIDE DEF T
  <1>5. IsFiniteSet(UNION T)
    BY <1>3, <1>4, FS_UNION
  <1> QED BY <1>5 DEF T

LEMMA PairsAreFinite ==
    ASSUME NEW A, NEW B, IsFiniteSet(A), IsFiniteSet(B)
    PROVE  IsFiniteSet([var : A, line : B])
  <1> DEFINE f == [q \in A \X B |-> [var |-> q[1], line |-> q[2]]]
  <1>1. \A p \in [var : A, line : B] : \E q \in A \X B : f[q] = p
    <2> TAKE p \in [var : A, line : B]
    <2>1. <<p.var, p.line>> \in A \X B
      OBVIOUS
    <2>2. f[<<p.var, p.line>>] = p
      BY <2>1
    <2> QED BY <2>1, <2>2
  <1>2. f \in Surjection(A \X B, [var : A, line : B])
    BY <1>1 DEF Surjection
  <1>3. IsFiniteSet(A \X B)
    BY FS_Product
  <1> HIDE DEF f
  <1> QED BY <1>2, <1>3, FS_Surjection

\* The pairs of the walk: it asks for all that a pair asks for.
LEMMA AskedIsClosed ==
    ASSUME NEW prog, Program(prog), NEW variable, NEW line \in Lines(prog)
    PROVE  /\ [var |-> variable, line |-> line] \in Asked(prog, variable, line)
           /\ \A p \in Asked(prog, variable, line) :
                 /\ p.line \in Lines(prog)
                 /\ SliceStep(prog, p) \subseteq Asked(prog, variable, line)
  <1> DEFINE names == UNION {prog[i].names : i \in Lines(prog)}
             pairs == [var : {variable} \cup names, line : Lines(prog)]
             step == [p \in pairs |-> SliceStep(prog, p)]
             start == {[var |-> variable, line |-> line]}
             n == Cardinality(pairs)
  <1>1. \A i \in Lines(prog) : NamesUnder(prog, i) \subseteq names
    <2> TAKE i \in Lines(prog)
    <2>1. CASE prog[i].kind = "for"
      <3>1. \A j \in i..prog[i].last : j \in Lines(prog)
        BY <2>1 DEF Program, Lines
      <3> QED BY <2>1, <3>1 DEF NamesUnder
    <2>2. CASE prog[i].kind # "for"
      BY <2>2 DEF NamesUnder
    <2> QED BY <2>1, <2>2
  <1>2. \A p \in pairs : step[p] \subseteq pairs
    <2> SUFFICES ASSUME NEW p \in pairs, NEW q \in SliceStep(prog, p)
                 PROVE  q \in pairs
      OBVIOUS
    <2>1. PICK i \in Definitions(prog, p.var) :
             q \in {[var |-> m, line |-> i] : m \in NamesUnder(prog, i) \ {p.var}}
      BY DEF SliceStep
    <2>2. i \in Lines(prog)
      BY DEF Definitions
    <2> QED BY <1>1, <2>1, <2>2
  <1>3. IsFiniteSet(pairs)
    <2>1. IsFiniteSet({variable} \cup names)
      <3>1. IsFiniteSet(names)
        BY NamesAreFinite
      <3> HIDE DEF names
      <3> QED BY <3>1, FS_AddElement
    <2>2. IsFiniteSet(Lines(prog))
      BY LinesAreFinite
    <2> HIDE DEF names
    <2> QED BY <2>1, <2>2, PairsAreFinite
  <1>4. start \in SUBSET pairs
    OBVIOUS
  <1>5. n \in Nat
    BY <1>3, FS_CardinalityType
  <1>6. Asked(prog, variable, line) = Within(step, start, n)
    BY DEF Asked
  <1>7. \A p \in pairs : step[p] = SliceStep(prog, p)
    OBVIOUS
  <1>8. \A p \in pairs : p.line \in Lines(prog)
    OBVIOUS
  <1>9. [var |-> variable, line |-> line] \in start
    OBVIOUS
  <1> HIDE DEF names, pairs, step, start
  <1>10. \A p \in Within(step, start, n) : step[p] \subseteq Within(step, start, n)
    BY <1>2, <1>3, <1>4, WithinSettles
  <1> HIDE DEF n
  <1>11. Within(step, start, n) \subseteq pairs
    BY <1>2, <1>4, <1>5, WithinStays
  <1>12. start \subseteq Within(step, start, n)
    BY <1>5, WithinStart, WithinGrows
  <1> QED BY <1>6, <1>7, <1>8, <1>9, <1>10, <1>11, <1>12

\* A line whose value flows in is a definition that some pair of the walk asks
\* for: the walk leaves out only the name it came with, and that name's earlier
\* definitions are asked for already.
LEMMA FlowIsAsked ==
    ASSUME NEW prog, Program(prog), NEW variable, NEW line \in Lines(prog), NEW taken
    PROVE  \A i \in FlowsInto(prog, taken, variable, line) :
              /\ i \in Lines(prog) /\ i < line
              /\ \E p \in Asked(prog, variable, line) :
                    i \in Definitions(prog, p.var) /\ i <= p.line
  <1> DEFINE asked == Asked(prog, variable, line)
             Bound(i) == \E p \in asked : i \in Definitions(prog, p.var) /\ i <= p.line
             C == {i \in Lines(prog) : i < line /\ Bound(i)}
             step == [i \in Lines(prog) |-> Sources(prog, taken, i)]
             start == LastBinding(prog, taken, variable, line)
  <1>1. Len(prog) \in Nat /\ Lines(prog) \subseteq Nat
    BY DEF Program, Lines
  <1>2. \A v, l : \A i \in LastBinding(prog, taken, v, l) :
           i \in Definitions(prog, v) /\ i \in Lines(prog) /\ i < l
    BY DEF LastBinding, Definitions
  <1>3. start \subseteq C
    <2> SUFFICES ASSUME NEW i \in start PROVE i \in C
      OBVIOUS
    <2>1. i \in Definitions(prog, variable) /\ i \in Lines(prog) /\ i < line
      BY <1>2
    <2>2. [var |-> variable, line |-> line] \in asked
      BY AskedIsClosed
    <2>3. Bound(i)
      BY <1>1, <2>1, <2>2
    <2> QED BY <2>1, <2>3
  <1>4. \A i \in C : step[i] \subseteq C
    <2> SUFFICES ASSUME NEW i \in C, NEW j \in Sources(prog, taken, i) PROVE j \in C
      OBVIOUS
    <2>1. PICK p \in asked : i \in Definitions(prog, p.var) /\ i <= p.line
      OBVIOUS
    <2>2. PICK v \in prog[i].names : j \in LastBinding(prog, taken, v, i)
      BY DEF Sources
    <2>3. /\ j \in Definitions(prog, v) /\ j \in Lines(prog) /\ j < i
          /\ p.line \in Lines(prog) /\ SliceStep(prog, p) \subseteq asked
      BY <1>2, <2>2, AskedIsClosed
    <2>4. j < line /\ j <= i /\ j <= p.line
      BY <1>1, <2>1, <2>3
    <2>5. CASE v = p.var
      BY <2>3, <2>4, <2>5
    <2>6. CASE v # p.var
      <3>1. v \in NamesUnder(prog, i)
        <4>1. prog[i].kind \in {"assign", "for"}
          BY DEF Definitions, Sources
        <4>2. CASE prog[i].kind = "assign"
          BY <4>2 DEF NamesUnder
        <4>3. CASE prog[i].kind = "for"
          <5>1. i \in i..prog[i].last
            BY <1>1, <4>3 DEF Program, Lines
          <5> QED BY <4>3, <5>1 DEF NamesUnder
        <4> QED BY <4>1, <4>2, <4>3
      <3>2. [var |-> v, line |-> i] \in SliceStep(prog, p)
        BY <2>1, <2>6, <3>1 DEF SliceStep
      <3> QED BY <2>3, <2>4, <3>2
    <2> QED BY <2>5, <2>6
  <1>5. FlowsInto(prog, taken, variable, line) = Within(step, start, Len(prog))
    BY DEF FlowsInto
  <1> HIDE DEF C, step, start
  <1>6. FlowsInto(prog, taken, variable, line) \subseteq C
    BY <1>1, <1>3, <1>4, <1>5, WithinStays
  <1> QED BY <1>6 DEF C

\* The slice backward_slice (program_slicer.py) returns loses nothing: for every
\* program, criterion and execution in which no loop goes round twice, it has
\* each line whose value flows into the variable, and the statements around it.
THEOREM SlicesKeepFlow ==
    ASSUME NEW prog, Program(prog), NEW variable, NEW line \in Lines(prog),
           NEW taken \in Executions(prog)
    PROVE  KeepsFlow(prog, taken, variable, line, BackwardSlice(prog, variable, line))
  <1> SUFFICES ASSUME NEW i \in FlowsInto(prog, taken, variable, line)
               PROVE  /\ i \in BackwardSlice(prog, variable, line)
                      /\ \A b \in Blocks(prog) : i \in b+1..prog[b].last =>
                            b \in BackwardSlice(prog, variable, line)
    BY DEF KeepsFlow
  <1> DEFINE bound == {j \in Lines(prog) : \E p \in Asked(prog, variable, line) :
                          j \in Definitions(prog, p.var) /\ j <= p.line} \cup {line}
  <1>1. i \in bound /\ i \in Lines(prog) /\ i < line
    BY FlowIsAsked
  <1>2. BackwardSlice(prog, variable, line) =
           bound \cup {j \in 1..line : /\ prog[j].kind \in {"control", "for"}
                                       /\ bound \cap (j..prog[j].last) # {}}
    BY DEF BackwardSlice
  <1> HIDE DEF bound
  <1>3. ASSUME NEW b \in Blocks(prog), i \in b+1..prog[b].last
        PROVE  b \in BackwardSlice(prog, variable, line)
    <2>1. b \in 1..line /\ i \in b..prog[b].last /\ prog[b].kind \in {"control", "for"}
      BY <1>1, <1>3 DEF Blocks, Program, Lines
    <2> QED BY <1>1, <1>2, <2>1
  <1> QED BY <1>1, <1>2, <1>3

-----------------------------------------------------------------------------
(* Dead code.                                                               *)

\* What is called on self by the live methods of a class is live.
LEMMA SelfClosureIsClosed ==
    ASSUME NEW p, IsFiniteSet(Funcs(p)), NEW S \in SUBSET Funcs(p)
    PROVE  /\ S \subseteq SelfClosure(p, S)
           /\ SelfClosure(p, S) \subseteq Funcs(p)
           /\ \A f \in SelfClosure(p, S) : SelfCalled(p, f) \subseteq SelfClosure(p, S)
  <1> DEFINE step == [f \in Funcs(p) |-> SelfCalled(p, f)]
             n == Cardinality(Funcs(p))
  <1>1. \A f \in Funcs(p) : step[f] = SelfCalled(p, f) /\ step[f] \subseteq Funcs(p)
    BY DEF SelfCalled
  <1>2. SelfClosure(p, S) = Within(step, S, n) /\ n \in Nat
    BY FS_CardinalityType DEF SelfClosure
  <1> HIDE DEF step
  <1>3. \A f \in Within(step, S, n) : step[f] \subseteq Within(step, S, n)
    BY <1>1, WithinSettles
  <1> HIDE DEF n
  <1>4. Within(step, S, n) \subseteq Funcs(p) /\ S \subseteq Within(step, S, n)
    BY <1>1, <1>2, WithinStays, WithinStart, WithinGrows
  <1> QED BY <1>1, <1>2, <1>3, <1>4

\* find_dead_code (dead_code.py) reports no function that calls on self reach,
\* through however many methods, from one that something refers to or that
\* overrides such a one: for every project, whatever the other exemptions are.
THEOREM ReachedIsKept ==
    ASSUME NEW p, IsFiniteSet(Funcs(p))
    PROVE  /\ ReachedOnSelf(p) \cap DeadFunctions(p) = {}
           /\ Funcs(p) \cap DOMAIN p.classes = {} => ReachedOnSelf(p) \cap FindDeadCode(p) = {}
  <1> DEFINE used == {f \in Funcs(p) : Referred(p, f)}
             overriding == UNION {Overrides(p, f) : f \in used}
             step == [f \in Funcs(p) |-> SelfCalled(p, f)]
             n == Cardinality(Funcs(p))
             live == CrossProjectLive(p) \cup SignaturePropagatedLive(p, CrossProjectLive(p))
             found == RegisteredLive(p) \cup InstantiatedLive(p)
             calling == {f \in Funcs(p) : /\ p.functions[f].cls # NoClass
                                          /\ f \in found \cup live \/ Referred(p, f)}
             C == {f \in Funcs(p) : Referred(p, f) \/ f \in overriding
                                       \/ f \in SelfClosure(p, calling)}
  <1>1. overriding \subseteq live
    BY DEF SignaturePropagatedLive
  <1>2. LiveSymbols(p) = live \cup found \cup SelfClosure(p, calling)
    BY DEF LiveSymbols, DynamicLive
  <1>3. used \cup overriding \subseteq C
    BY DEF Overrides
  <1>4. /\ calling \subseteq SelfClosure(p, calling)
        /\ \A f \in SelfClosure(p, calling) : SelfCalled(p, f) \subseteq SelfClosure(p, calling)
    <2>1. calling \in SUBSET Funcs(p)
      OBVIOUS
    <2> HIDE DEF calling
    <2> QED BY <2>1, SelfClosureIsClosed
  <1>5. \A f \in C : step[f] \subseteq C
    <2> SUFFICES ASSUME NEW f \in C, NEW g \in SelfCalled(p, f) PROVE g \in C
      OBVIOUS
    <2>1. p.functions[f].cls # NoClass /\ g \in Funcs(p)
      BY DEF SelfCalled
    <2>2. f \in SelfClosure(p, calling)
      BY <1>1, <1>4, <2>1
    <2> QED BY <1>4, <2>1, <2>2
  <1>6. ReachedOnSelf(p) = Within(step, used \cup overriding, n)
    BY DEF ReachedOnSelf
  <1>7. n \in Nat
    BY FS_CardinalityType
  <1>8. C \cap DeadFunctions(p) = {} /\ C \subseteq Funcs(p)
    BY <1>1, <1>2 DEF DeadFunctions
  <1> HIDE DEF C, step, used, overriding, n
  <1>9. ReachedOnSelf(p) \subseteq C
    BY <1>3, <1>5, <1>6, <1>7, WithinStays
  <1>10. DeadClasses(p) \subseteq DOMAIN p.classes
    BY DEF DeadClasses
  <1> QED BY <1>8, <1>9, <1>10 DEF FindDeadCode

-----------------------------------------------------------------------------
(* The reports of the analyses.                                             *)

\* What the report says, for each kind of call: the answer of the analysis to
\* an input the constants give.
BreakingAnswered ==
    ReportOf("breaking") =>
        /\ request.changed \in Changes
        /\ report.issues = UNION {[file : {f}, issue : BreakingChangesOf(f)] : f \in request.changed}
ConfigAnswered ==
    ReportOf("config") =>
        /\ request.project \in Configs
        /\ report = AnalyzeConfig(Restricted(request.project.files, request.only),
                                  request.project.code, request.checks, request.severity)
DeadAnswered ==
    ReportOf("dead") => request.project \in DeadProjects /\ report = FindDeadCode(request.project)
SliceAnswered ==
    ReportOf("slice") =>
        /\ \E s \in Programs : request.body = s.body
        /\ request.line \in Lines(request.body)
        /\ ~request.indented => report = BackwardSlice(request.body, request.variable, request.line)

BracesAnswered ==
    ReportOf("braces") =>
        /\ request.source \in BraceTexts
        /\ report = FindBraceEnd(request.source.lang, request.source.lines, request.source.start)

ReportsHold == BreakingAnswered /\ ConfigAnswered /\ DeadAnswered /\ SliceAnswered /\ BracesAnswered

-----------------------------------------------------------------------------
(* Breaking changes.                                                        *)

\* A breaking issue of two signatures is one of their parameters.
LEMMA BreakingIsInParams ==
    ASSUME NEW symbol, NEW old, NEW new, NEW isMethod, NEW i, i.severity = "breaking"
    PROVE  i \in CompareSignatures(symbol, old, new, isMethod)
              <=> i \in DiffParams(symbol, Params(old, isMethod), Params(new, isMethod))
  <1> DEFINE params == DiffParams(symbol, Params(old, isMethod), Params(new, isMethod))
             returns == DiffReturnType(<<Last(symbol)>>, old.returns, new.returns)
             body == IF old.body # new.body THEN {Issue(symbol, "info", "body")} ELSE {}
  <1>1. CompareSignatures(symbol, old, new, isMethod) =
           IF params \cup returns # {} THEN params \cup returns ELSE body
    BY DEF CompareSignatures
  <1>2. i \notin returns /\ i \notin body
    BY DEF DiffReturnType, Issue
  <1> HIDE DEF returns, body
  <1> QED BY <1>1, <1>2

\* What a breaking issue of the parameters says.
Tells(symbol, old, new) == \E i \in DiffParams(symbol, old, new) : i.severity = "breaking"
Narrows(old, new) ==
    \/ \E n \in ParamNames(old) : n \notin ParamNames(new)
    \/ \E p \in new : p.name \notin ParamNames(old) /\ ~p.default

LEMMA ParamIssues ==
    ASSUME NEW symbol, NEW old, NEW new, NEW i \in DiffParams(symbol, old, new)
    PROVE  \/ /\ i = Issue(symbol, "breaking", "param removed")
              /\ \E n \in ParamNames(old) : n \notin ParamNames(new)
           \/ \E p \in new : /\ i = Issue(symbol, IF p.default THEN "warning" ELSE "breaking", "param added")
                            /\ p.name \notin ParamNames(old)
  BY DEF DiffParams

\* It is about the function compared and never the loss of a class.
LEMMA ParamSymbols ==
    ASSUME NEW symbol, NEW old, NEW new, NEW i \in DiffParams(symbol, old, new)
    PROVE  i.symbol = symbol /\ i.what # "class removed"
  <1>1. PICK severity, what : i = Issue(symbol, severity, what) /\ what \in {"param removed", "param added"}
    BY ParamIssues
  <1> QED BY <1>1 DEF Issue

\* So one of them is breaking exactly when the parameters narrow.
LEMMA BreakingParams ==
    ASSUME NEW symbol, NEW old, NEW new
    PROVE  Tells(symbol, old, new) <=> Narrows(old, new)
  <1>3. ASSUME NEW n \in ParamNames(old) \ ParamNames(new)
        PROVE  Tells(symbol, old, new)
    <2>1. Issue(symbol, "breaking", "param removed") \in DiffParams(symbol, old, new)
      BY DEF DiffParams
    <2> QED BY <2>1 DEF Issue, Tells
  <1>4. ASSUME NEW p \in new, p.name \notin ParamNames(old), ~p.default
        PROVE  Tells(symbol, old, new)
    <2>1. Issue(symbol, "breaking", "param added") \in DiffParams(symbol, old, new)
      BY <1>4 DEF DiffParams
    <2> QED BY <2>1 DEF Issue, Tells
  <1>5. ASSUME NEW i \in DiffParams(symbol, old, new), i.severity = "breaking"
        PROVE  Narrows(old, new)
    <2>1. CASE \E n \in ParamNames(old) : n \notin ParamNames(new)
      BY <2>1 DEF Narrows
    <2>2. CASE \E p \in new : /\ i = Issue(symbol, IF p.default THEN "warning" ELSE "breaking", "param added")
                              /\ p.name \notin ParamNames(old)
      <3>1. PICK p \in new : /\ i = Issue(symbol, IF p.default THEN "warning" ELSE "breaking", "param added")
                             /\ p.name \notin ParamNames(old)
        BY <2>2
      <3>2. ~p.default
        BY <1>5, <3>1 DEF Issue
      <3> QED BY <3>1, <3>2 DEF Narrows
    <2> QED BY <2>1, <2>2, ParamIssues
  <1> QED BY <1>3, <1>4, <1>5 DEF Tells, Narrows

\* The names of the parameters a comparison sees.
LEMMA NamesSeen ==
    ASSUME NEW sig, Signature(sig), ~HasPositionalOnly(sig), NEW n
    PROVE  /\ <<n>> \in ParamNames(Params(sig, FALSE)) <=> n \in Takes(sig)
           /\ (\E p \in Params(sig, FALSE) : p.name = <<n>> /\ ~p.default) <=> n \in Needs(sig)
  <1>1. ASSUME NEW p \in Params(sig, FALSE), p.name = <<n>>
        PROVE  n \in Takes(sig) /\ (~p.default => n \in Needs(sig))
    <2>1. PICK q \in sig.params :
             p = [name |-> IF q.kind \in {"star", "starstar"} THEN <<q.kind, q.name>> ELSE <<q.name>>,
                  default |-> q.kind \notin {"star", "starstar"} /\ q.default]
      BY DEF Params
    <2>2. q.kind \notin {"star", "starstar"}
      <3>1. SUFFICES ASSUME q.kind \in {"star", "starstar"} PROVE FALSE
        OBVIOUS
      <3>2. <<q.kind, q.name>> = <<n>>
        BY <1>1, <2>1, <3>1
      <3>3. Len(<<q.kind, q.name>>) = 2 /\ Len(<<n>>) = 1
        OBVIOUS
      <3> QED BY <3>2, <3>3
    <2>3. q.kind \in {"plain", "kwonly"} /\ q.name = n /\ p.default = q.default
      BY <1>1, <2>1, <2>2 DEF Signature, Kinds, HasPositionalOnly
    <2> QED BY <2>3 DEF Takes, Needs
  <1>2. ASSUME NEW q \in sig.params, q.kind \in {"plain", "kwonly"}, q.name = n
        PROVE  \E p \in Params(sig, FALSE) : p.name = <<n>> /\ p.default = q.default
    <2> DEFINE p == [name |-> <<n>>, default |-> q.default]
    <2>1. p = [name |-> IF q.kind \in {"star", "starstar"} THEN <<q.kind, q.name>> ELSE <<q.name>>,
               default |-> q.kind \notin {"star", "starstar"} /\ q.default]
      BY <1>2 DEF Signature
    <2>2. p \in Params(sig, FALSE)
      BY <1>2, <2>1 DEF Params
    <2> QED BY <2>2
  <1>3. n \in Takes(sig) => <<n>> \in ParamNames(Params(sig, FALSE))
    BY <1>2 DEF Takes, ParamNames
  <1>4. n \in Needs(sig) => \E p \in Params(sig, FALSE) : p.name = <<n>> /\ ~p.default
    BY <1>2 DEF Needs
  <1>5. <<n>> \in ParamNames(Params(sig, FALSE)) => n \in Takes(sig)
    BY <1>1 DEF ParamNames
  <1> QED BY <1>1, <1>3, <1>4, <1>5

\* Two signatures without positional-only parameters whose defaults stay:
\* what breaks a call by name is a breaking issue, and the reverse when no
\* parameter is starred.
Breaks(old, new) ==
    \E names \in SUBSET (Takes(old) \cup Takes(new)) :
        AcceptsNames(old, names) /\ ~AcceptsNames(new, names)

LEMMA BrokenCallsAreTold ==
    ASSUME NEW symbol, NEW old, NEW new, Signature(old), Signature(new),
           ~HasPositionalOnly(old), ~HasPositionalOnly(new), ~DropsDefault(old, new)
    PROVE  LET told == Tells(symbol, Params(old, FALSE), Params(new, FALSE))
           IN  /\ Breaks(old, new) => told
               /\ told => Breaks(old, new) \/ HasStar(old) \/ HasStar(new)
  <1> DEFINE P == Params(old, FALSE)
             Q == Params(new, FALSE)
             told == Tells(symbol, P, Q)
  <1>1. told <=> Narrows(P, Q)
    BY BreakingParams
  <1>2. ASSUME NEW names \in SUBSET (Takes(old) \cup Takes(new)),
               AcceptsNames(old, names), ~AcceptsNames(new, names)
        PROVE  told
    <2>1. CASE \E n \in names : n \notin Takes(new)
      <3>1. PICK n \in Takes(old) : n \notin Takes(new)
        BY <1>2, <2>1
      <3>2. <<n>> \in ParamNames(P) /\ <<n>> \notin ParamNames(Q)
        BY <3>1, NamesSeen
      <3> QED BY <1>1, <3>2 DEF Narrows
    <2>2. CASE \E n \in Needs(new) : n \notin names
      <3>1. PICK n \in Needs(new) : n \notin names
        BY <2>2
      <3>2. n \notin Takes(old)
        BY <1>2, <3>1 DEF AcceptsNames, DropsDefault
      <3>3. PICK p \in Q : p.name = <<n>> /\ ~p.default
        BY <3>1, NamesSeen
      <3>4. <<n>> \notin ParamNames(P)
        BY <3>2, NamesSeen
      <3> QED BY <1>1, <3>3, <3>4 DEF Narrows
    <2> QED BY <1>2, <2>1, <2>2 DEF AcceptsNames
  <1>3. ASSUME told, ~HasStar(old), ~HasStar(new) PROVE Breaks(old, new)
    <2> DEFINE all == Takes(old)
    <2>1. AcceptsNames(old, all) /\ all \in SUBSET (Takes(old) \cup Takes(new))
      BY DEF AcceptsNames, Takes, Needs
    <2>2. ~TakesAny(new)
      BY <1>3 DEF TakesAny, HasStar
    <2>3. ASSUME NEW p \in P \cup Q PROVE \E n : p.name = <<n>>
      <3>1. PICK sig \in {old, new} : p \in Params(sig, FALSE)
        OBVIOUS
      <3>2. PICK q \in sig.params :
               p = [name |-> IF q.kind \in {"star", "starstar"} THEN <<q.kind, q.name>> ELSE <<q.name>>,
                    default |-> q.kind \notin {"star", "starstar"} /\ q.default]
        BY <3>1 DEF Params
      <3>3. q.kind \notin {"star", "starstar"}
        BY <1>3 DEF HasStar
      <3>4. p.name = <<q.name>>
        BY <3>2, <3>3
      <3> QED BY <3>4
    <2>4. CASE \E n \in ParamNames(P) : n \notin ParamNames(Q)
      <3>1. PICK p \in P : p.name \notin ParamNames(Q)
        BY <2>4 DEF ParamNames
      <3>2. PICK n : p.name = <<n>>
        BY <2>3
      <3>3. <<n>> \in ParamNames(P)
        BY <3>1, <3>2 DEF ParamNames
      <3>4. n \in Takes(old) /\ n \notin Takes(new)
        BY <3>1, <3>2, <3>3, NamesSeen
      <3>5. ~AcceptsNames(new, all)
        BY <2>2, <3>4 DEF AcceptsNames
      <3> QED BY <2>1, <3>5 DEF Breaks
    <2>5. CASE \E p \in Q : p.name \notin ParamNames(P) /\ ~p.default
      <3>1. PICK p \in Q : p.name \notin ParamNames(P) /\ ~p.default
        BY <2>5
      <3>2. PICK n : p.name = <<n>>
        BY <2>3
      <3>3. n \in Needs(new) /\ n \notin Takes(old)
        BY <3>1, <3>2, NamesSeen
      <3>4. ~AcceptsNames(new, all)
        BY <3>3 DEF AcceptsNames
      <3> QED BY <2>1, <3>4 DEF Breaks
    <2> QED BY <1>1, <1>3, <2>4, <2>5 DEF Narrows
  <1> QED BY <1>2, <1>3 DEF Breaks

\* What is breaking of two maps of functions.
LEMMA BreakingOfFunctions ==
    ASSUME NEW old, NEW new, NEW scope, NEW isMethod, isMethod = (scope # <<>>),
           NEW i \in CompareFunctions(old, new, scope), i.severity = "breaking"
    PROVE  \/ \E n \in DOMAIN old \ DOMAIN new : i = Issue(Append(scope, n), "breaking", "removed")
           \/ \E n \in DOMAIN old \cap DOMAIN new :
                 i \in DiffParams(Append(scope, n), Params(old[n], isMethod), Params(new[n], isMethod))
  <1>1. CASE i \in {Issue(Append(scope, n), "info", "added") : n \in DOMAIN new \ DOMAIN old}
    BY <1>1 DEF Issue
  <1>2. CASE i \in UNION {CompareSignatures(Append(scope, n), old[n], new[n], isMethod) :
                            n \in DOMAIN old \cap DOMAIN new}
    <2>1. PICK n \in DOMAIN old \cap DOMAIN new :
             i \in CompareSignatures(Append(scope, n), old[n], new[n], isMethod)
      BY <1>2
    <2> QED BY <2>1, BreakingIsInParams
  <1> QED BY <1>1, <1>2 DEF CompareFunctions

\* Of a function in both maps, what its parameters say.
LEMMA FunctionIsTold ==
    ASSUME NEW old, NEW new, NEW n \in DOMAIN old \cap DOMAIN new
    PROVE  (\E i \in CompareFunctions(old, new, <<>>) :
               i.symbol = <<n>> /\ i.severity = "breaking" /\ i.what # "class removed")
              <=> Tells(<<n>>, Params(old[n], FALSE), Params(new[n], FALSE))
  <1>0. \A k : Append(<<>>, k) = <<k>>
    OBVIOUS
  <1>1. ASSUME NEW i \in CompareFunctions(old, new, <<>>), i.symbol = <<n>>, i.severity = "breaking"
        PROVE  Tells(<<n>>, Params(old[n], FALSE), Params(new[n], FALSE))
    <2>1. CASE \E k \in DOMAIN old \ DOMAIN new : i = Issue(Append(<<>>, k), "breaking", "removed")
      BY <1>0, <1>1, <2>1 DEF Issue
    <2>2. CASE \E k \in DOMAIN old \cap DOMAIN new :
                  i \in DiffParams(Append(<<>>, k), Params(old[k], FALSE), Params(new[k], FALSE))
      <3>1. PICK k \in DOMAIN old \cap DOMAIN new :
               i \in DiffParams(<<k>>, Params(old[k], FALSE), Params(new[k], FALSE))
        BY <1>0, <2>2
      <3>2. i.symbol = <<k>>
        BY <3>1, ParamSymbols
      <3>3. k = n
        BY <1>1, <3>2
      <3> QED BY <1>1, <3>1, <3>3 DEF Tells
    <2>3. (<<>> # <<>>) = FALSE
      OBVIOUS
    <2> QED BY <1>1, <2>1, <2>2, <2>3, BreakingOfFunctions
  <1>2. ASSUME NEW i \in DiffParams(<<n>>, Params(old[n], FALSE), Params(new[n], FALSE)), i.severity = "breaking"
        PROVE  i \in CompareFunctions(old, new, <<>>) /\ i.symbol = <<n>> /\ i.what # "class removed"
    <2> DEFINE P == Params(old[n], FALSE)
               Q == Params(new[n], FALSE)
    <2>1. i \in CompareSignatures(<<n>>, old[n], new[n], FALSE)
      BY <1>2, BreakingIsInParams
    <2>2. i \in CompareFunctions(old, new, <<>>)
      BY <1>0, <2>1 DEF CompareFunctions
    <2>3. i \in DiffParams(<<n>>, P, Q)
      OBVIOUS
    <2> HIDE DEF P, Q
    <2>4. i.symbol = <<n>>
      BY <2>3, ParamSymbols
    <2>5. i.what # "class removed"
      BY <2>3, ParamSymbols, ZenonT(30)
    <2> QED BY <2>2, <2>4, <2>5
  <1> QED BY <1>1, <1>2 DEF Tells

\* A method of a class has a longer symbol than a function.
LEMMA OneLonger ==
    ASSUME NEW S, NEW s \in Seq(S), NEW k \in S PROVE Len(Append(s, k)) = Len(s) + 1
  OBVIOUS

LEMMA LongerThanOne == ASSUME NEW c, NEW k, NEW n PROVE Append(<<c>>, k) # <<n>>
  <1>1. <<c>> \in Seq({c, k}) /\ k \in {c, k}
    OBVIOUS
  <1>2. Len(Append(<<c>>, k)) = Len(<<c>>) + 1
    BY <1>1, OneLonger
  <1>3. Len(<<c>>) = 1 /\ Len(<<n>>) = 1
    OBVIOUS
  <1> QED BY <1>2, <1>3

\* What is said of a class's methods is not said of a function.
LEMMA ClassesTellNothing ==
    ASSUME NEW old, NEW new, NEW i \in CompareClasses(old, new),
           i.severity = "breaking", i.what # "class removed", NEW n
    PROVE  i.symbol # <<n>>
  <1>1. PICK c \in DOMAIN old \cap DOMAIN new : i \in CompareFunctions(old[c], new[c], <<c>>)
    <2>1. i \notin {Issue(<<c>>, "breaking", "class removed") : c \in DOMAIN old \ DOMAIN new}
      <3>1. SUFFICES ASSUME NEW c, i = Issue(<<c>>, "breaking", "class removed") PROVE FALSE
        OBVIOUS
      <3> QED BY <3>1 DEF Issue
    <2> QED BY <2>1 DEF CompareClasses
  <1>2. PICK k : i.symbol = Append(<<c>>, k)
    <2>1. CASE \E k \in DOMAIN old[c] \ DOMAIN new[c] : i = Issue(Append(<<c>>, k), "breaking", "removed")
      BY <2>1 DEF Issue
    <2>2. ASSUME NEW k \in DOMAIN old[c] \cap DOMAIN new[c], NEW P, NEW Q,
                 i \in DiffParams(Append(<<c>>, k), P, Q)
          PROVE  i.symbol = Append(<<c>>, k)
      BY <2>2, ParamSymbols
    <2>3. (<<c>> # <<>>) = TRUE
      OBVIOUS
    <2>4. \/ \E k \in DOMAIN old[c] \ DOMAIN new[c] : i = Issue(Append(<<c>>, k), "breaking", "removed")
          \/ \E k \in DOMAIN old[c] \cap DOMAIN new[c] :
                i \in DiffParams(Append(<<c>>, k), Params(old[c][k], TRUE), Params(new[c][k], TRUE))
      BY <1>1, <2>3, BreakingOfFunctions
    <2> QED BY <2>1, <2>2, <2>4
  <1> QED BY <1>2, LongerThanOne

\* The issues of a file are what its versions give.
LEMMA IssuesAreTheFiles ==
    ASSUME BreakingAnswered, ReportOf("breaking"), NEW f \in request.changed
    PROVE  IssuesOf(f) = BreakingChangesOf(f)
  <1> DEFINE rows(g) == [file : {g}, issue : BreakingChangesOf(g)]
  <1>1. report.issues = UNION {rows(g) : g \in request.changed}
    BY DEF BreakingAnswered
  <1>2. ASSUME NEW i \in BreakingChangesOf(f) PROVE i \in IssuesOf(f)
    <2>1. [file |-> f, issue |-> i] \in rows(f)
      OBVIOUS
    <2> HIDE DEF rows
    <2>2. [file |-> f, issue |-> i] \in report.issues
      BY <1>1, <2>1
    <2>3. [file |-> f, issue |-> i].issue = i /\ [file |-> f, issue |-> i].file = f
      OBVIOUS
    <2> QED BY <2>2, <2>3 DEF IssuesOf
  <1>3. ASSUME NEW i \in IssuesOf(f) PROVE i \in BreakingChangesOf(f)
    <2>1. PICK r \in report.issues : r.file = f /\ i = r.issue
      BY DEF IssuesOf
    <2>2. PICK g \in request.changed : r \in rows(g)
      BY <1>1, <2>1
    <2> QED BY <2>1, <2>2
  <1> QED BY <1>2, <1>3

\* The three ways in which the report is right.
LEMMA PythonIsTold ==
    ASSUME BreakingAnswered PROVE PythonCallsBreak
  <1> SUFFICES ASSUME ReportOf("breaking"),
                      NEW f \in request.changed, f.lang = "python", f.status = "modified",
                      f.old # NoContent, f.new # NoContent,
                      NEW n \in DOMAIN Signatures(f.old).funcs \cap DOMAIN Signatures(f.new).funcs,
                      ~HasPositionalOnly(f.old.funcs[n]), ~HasPositionalOnly(f.new.funcs[n]),
                      ~DropsDefault(f.old.funcs[n], f.new.funcs[n])
               PROVE  LET told == \E i \in IssuesOf(f) :
                                     i.symbol = <<n>> /\ i.severity = "breaking" /\ i.what # "class removed"
                      IN  /\ Breaks(f.old.funcs[n], f.new.funcs[n]) => told
                          /\ told => \/ Breaks(f.old.funcs[n], f.new.funcs[n])
                                     \/ HasStar(f.old.funcs[n]) \/ HasStar(f.new.funcs[n])
    BY DEF PythonCallsBreak, Breaks
  <1> DEFINE old == f.old.funcs
             new == f.new.funcs
  <1>1. f.old.parses /\ f.new.parses
    BY DEF Signatures, NoNames
  <1>2. Signatures(f.old) = f.old /\ Signatures(f.new) = f.new
    BY <1>1 DEF Signatures
  <1>3. Signature(old[n]) /\ Signature(new[n])
    BY AnalysesAssumption DEF BreakingAnswered, ChangedFile
  <1>4. IssuesOf(f) = CompareFunctions(old, new, <<>>) \cup CompareClasses(f.old.classes, f.new.classes)
    BY <1>2, IssuesAreTheFiles DEF BreakingChangesOf, ComparePython
  <1>5. ASSUME NEW i \in IssuesOf(f), i.symbol = <<n>>, i.severity = "breaking", i.what # "class removed"
        PROVE  i \in CompareFunctions(old, new, <<>>)
    BY <1>4, <1>5, ClassesTellNothing
  <1>6. n \in DOMAIN old \cap DOMAIN new
    BY <1>2
  <1> HIDE DEF old, new
  <1>7. (\E i \in IssuesOf(f) : i.symbol = <<n>> /\ i.severity = "breaking" /\ i.what # "class removed")
           <=> Tells(<<n>>, Params(old[n], FALSE), Params(new[n], FALSE))
    BY <1>4, <1>5, <1>6, FunctionIsTold
  <1>8. /\ ~HasPositionalOnly(old[n]) /\ ~HasPositionalOnly(new[n])
        /\ ~DropsDefault(old[n], new[n])
    BY DEF old, new
  <1>9. LET told == Tells(<<n>>, Params(old[n], FALSE), Params(new[n], FALSE))
        IN  /\ Breaks(old[n], new[n]) => told
            /\ told => Breaks(old[n], new[n]) \/ HasStar(old[n]) \/ HasStar(new[n])
    BY <1>3, <1>8, BrokenCallsAreTold
  <1> QED BY <1>7, <1>9 DEF old, new

LEMMA EmptyingIsTold == ASSUME BreakingAnswered PROVE DeletingIsEmptying
  <1> SUFFICES ASSUME ReportOf("breaking"), NEW f \in request.changed, f.status = "deleted", f.old # NoContent
               PROVE  IssuesOf(f) = BreakingChangesOf([f EXCEPT !.status = "modified", !.new = EmptyFile(f.lang)])
    BY DEF DeletingIsEmptying
  <1> DEFINE emptied == [f EXCEPT !.status = "modified", !.new = EmptyFile(f.lang)]
             F == Signatures(f.old).funcs
             C == Signatures(f.old).classes
  <1>1. ChangedFile(f)
    BY AnalysesAssumption DEF BreakingAnswered
  <1>2. /\ emptied.old = f.old /\ emptied.lang = f.lang /\ emptied.status = "modified"
        /\ emptied.new = EmptyFile(f.lang) /\ emptied.new # NoContent
        /\ f.lang \in {"python", "java"}
    BY <1>1 DEF ChangedFile
  <1> HIDE DEF emptied
  <1>3. DOMAIN NoNames = {}
    BY DEF NoNames
  <1>4. \A k : Append(<<>>, k) = <<k>>
    OBVIOUS
  <1>5. CASE f.lang = "python"
    <2>1. IssuesOf(f) = DeletedPython(f.old)
      BY <1>5, IssuesAreTheFiles DEF BreakingChangesOf
    <2>2. BreakingChangesOf(emptied) = ComparePython(f.old, EmptyFile(f.lang))
      BY <1>2, <1>5 DEF BreakingChangesOf
    <2>3. /\ Signatures(EmptyFile(f.lang)).funcs = NoNames
          /\ Signatures(EmptyFile(f.lang)).classes = NoNames
      BY <1>5 DEF EmptyFile, Signatures
    <2> HIDE DEF F, C
    <2>4. CompareFunctions(F, NoNames, <<>>) = {Issue(<<n>>, "breaking", "removed") : n \in DOMAIN F}
      BY <1>3, <1>4 DEF CompareFunctions
    <2>5. CompareClasses(C, NoNames) = {Issue(<<c>>, "breaking", "class removed") : c \in DOMAIN C}
      BY <1>3 DEF CompareClasses
    <2> QED BY <2>1, <2>2, <2>3, <2>4, <2>5 DEF ComparePython, DeletedPython, F, C, emptied
  <1>6. CASE f.lang = "java"
    <2>1. IssuesOf(f) = DeletedJava(f.old)
      BY <1>6, IssuesAreTheFiles DEF BreakingChangesOf
    <2>2. BreakingChangesOf(emptied) = CompareJava(f.old, EmptyFile(f.lang))
      BY <1>2, <1>6 DEF BreakingChangesOf
    <2>3. EmptyFile(f.lang).classes = NoNames /\ EmptyFile(f.lang).methods = NoNames
      BY <1>6 DEF EmptyFile
    <2>4. CompareJava(f.old, EmptyFile(f.lang)) = DeletedJava(f.old)
      BY <1>3, <2>3 DEF CompareJava, DeletedJava
    <2> QED BY <2>1, <2>2, <2>4 DEF emptied
  <1> QED BY <1>2, <1>5, <1>6

LEMMA OverloadsAreTold == ASSUME BreakingAnswered PROVE OverloadsKeptOrReported
  <1> SUFFICES ASSUME ReportOf("breaking"),
                      NEW f \in request.changed, f.lang = "java", f.status = "modified",
                      f.old # NoContent, f.new # NoContent, NEW m \in ApiMethods(f.old)
               PROVE  (\A n \in DOMAIN f.new.methods : MethodShape(n) # MethodShape(m))
                         <=> \E i \in IssuesOf(f) :
                                 i.symbol = <<m>> /\ i.severity = "breaking" /\ i.what # "class removed"
    BY DEF OverloadsKeptOrReported
  <1> DEFINE gone == {n \in ApiMethods(f.old) \ DOMAIN f.new.methods :
                         \A k \in DOMAIN f.new.methods : MethodShape(k) # MethodShape(n)}
  <1>1. IssuesOf(f) = CompareJava(f.old, f.new)
    BY IssuesAreTheFiles DEF BreakingChangesOf
  <1>2. m \in gone <=> \A n \in DOMAIN f.new.methods : MethodShape(n) # MethodShape(m)
    OBVIOUS
  <1> HIDE DEF gone
  <1>3. ASSUME m \in gone
        PROVE  \E i \in IssuesOf(f) :
                   i.symbol = <<m>> /\ i.severity = "breaking" /\ i.what # "class removed"
    <2>1. Issue(<<m>>, "breaking", "removed") \in IssuesOf(f)
      BY <1>1, <1>3 DEF CompareJava, gone
    <2> QED BY <2>1 DEF Issue
  <1>4. ASSUME NEW i \in IssuesOf(f), i.symbol = <<m>>, i.severity = "breaking", i.what # "class removed"
        PROVE  m \in gone
    <2>1. CASE i \in {Issue(<<c>>, "breaking", "class removed") : c \in ApiClasses(f.old) \ DOMAIN f.new.classes}
      <3>1. PICK c : i = Issue(<<c>>, "breaking", "class removed")
        BY <2>1
      <3> QED BY <1>4, <3>1 DEF Issue
    <2>2. CASE i \in {Issue(<<n>>, "breaking", "removed") : n \in gone}
      <3>1. PICK n \in gone : i = Issue(<<n>>, "breaking", "removed")
        BY <2>2
      <3>2. <<n>> = <<m>>
        BY <1>4, <3>1 DEF Issue
      <3> QED BY <3>1, <3>2
    <2>3. CASE i \in UNION {DiffReturnType(<<n>>, f.old.methods[n].returns, f.new.methods[n].returns) :
                              n \in ApiMethods(f.old) \cap DOMAIN f.new.methods}
      <3>1. PICK n : i \in DiffReturnType(<<n>>, f.old.methods[n].returns, f.new.methods[n].returns)
        BY <2>3
      <3>2. i = Issue(<<n>>, "warning", "returns")
        BY <3>1 DEF DiffReturnType
      <3> QED BY <1>4, <3>2 DEF Issue
    <2> QED BY <1>1, <2>1, <2>2, <2>3 DEF CompareJava, gone
  <1> QED BY <1>2, <1>3, <1>4

-----------------------------------------------------------------------------
(* Consistent configurations.                                               *)

\* The sections a section stands in: those before it whose level is lower
\* than that of all after them, to this one.
SectionsAround(sections, i) ==
    {j \in 1..i-1 : \A k \in j+1..i : sections[j].level < sections[k].level}

\* Those that are open after i sections, as Enclosing keeps them.
Opened(sections, i) ==
    {j \in 1..i : \A k \in j+1..i : sections[j].level < sections[k].level}

\* One section more closes those at its level or below and opens itself.
LEMMA OpenedGoesOn ==
    ASSUME NEW sections, Nested(sections), NEW i \in 1..Len(sections)
    PROVE  /\ Opened(sections, i) =
                 {j \in Opened(sections, i - 1) : sections[j].level < sections[i].level} \cup {i}
           /\ Opened(sections, 0) = {}
  <1>1. i \in Nat /\ i # 0 /\ Len(sections) \in Nat
    BY DEF Nested
  <1>2. ASSUME NEW j \in Opened(sections, i), j # i
        PROVE  j \in Opened(sections, i - 1) /\ sections[j].level < sections[i].level
    BY <1>1, <1>2 DEF Opened
  <1>3. ASSUME NEW j \in Opened(sections, i - 1), sections[j].level < sections[i].level
        PROVE  j \in Opened(sections, i)
    BY <1>1, <1>3 DEF Opened
  <1>4. i \in Opened(sections, i) /\ Opened(sections, 0) = {}
    BY <1>1 DEF Opened
  <1> QED BY <1>2, <1>3, <1>4

\* Enclosing as its recursive function defines it.
OpensIn(sections, open) ==
    open = [i \in 0..Len(sections) |->
               IF i = 0 THEN {}
               ELSE {j \in open[i-1] : sections[j].level < sections[i].level} \cup {i}]

\* Whatever satisfies the recursion is that closed form.
LEMMA StackIsOpened ==
    ASSUME NEW sections, Nested(sections), NEW open, OpensIn(sections, open), NEW i \in 0..Len(sections)
    PROVE  open[i] = Opened(sections, i)
  <1> DEFINE T == {n \in Nat : n <= Len(sections) => open[n] = Opened(sections, n)}
  <1>0. Len(sections) \in Nat
    BY DEF Nested
  <1>1. 0 \in T
    <2>1. open[0] = {}
      BY <1>0 DEF OpensIn
    <2>2. Opened(sections, 0) = {}
      BY DEF Opened
    <2> QED BY <2>1, <2>2
  <1>2. ASSUME NEW n \in T PROVE n + 1 \in T
    <2> SUFFICES ASSUME n + 1 <= Len(sections) PROVE open[n+1] = Opened(sections, n + 1)
      OBVIOUS
    <2>1. n \in Nat /\ open[n] = Opened(sections, n) /\ n + 1 \in 1..Len(sections)
      BY <1>0
    <2>2. open[n+1] = {j \in open[n] : sections[j].level < sections[n+1].level} \cup {n + 1}
      <3>1. \A k \in 0..Len(sections) : k # 0 =>
               open[k] = {j \in open[k-1] : sections[j].level < sections[k].level} \cup {k}
        BY DEF OpensIn
      <3>2. n + 1 \in 0..Len(sections) /\ n + 1 # 0 /\ (n + 1) - 1 = n
        BY <2>1
      <3> QED BY <3>1, <3>2
    <2>3. Opened(sections, n + 1) =
             {j \in Opened(sections, n) : sections[j].level < sections[n+1].level} \cup {n + 1}
      <3>1. (n + 1) - 1 = n
        BY <2>1
      <3> QED BY <2>1, <3>1, OpenedGoesOn
    <2> QED BY <2>1, <2>2, <2>3
  <1>3. T = Nat
    <2>1. T \in SUBSET Nat
      OBVIOUS
    <2> HIDE DEF T
    <2> QED BY <1>1, <1>2, <2>1, EveryNatural
  <1>4. i \in T /\ i <= Len(sections)
    BY <1>0, <1>3
  <1> QED BY <1>4

\* So Enclosing is the sections around each one.
LEMMA EnclosingIsAround ==
    ASSUME NEW sections, Nested(sections), NEW i \in 1..Len(sections)
    PROVE  Enclosing(sections)[i] = SectionsAround(sections, i)
  <1>0. Len(sections) \in Nat
    BY DEF Nested
  <1> DEFINE closed == [k \in 0..Len(sections) |-> Opened(sections, k)]
  <1>1. OpensIn(sections, closed)
    <2>1. ASSUME NEW k \in 0..Len(sections)
          PROVE  closed[k] = IF k = 0 THEN {}
                             ELSE {j \in closed[k-1] : sections[j].level < sections[k].level} \cup {k}
      <3>1. CASE k = 0
        BY <3>1 DEF Opened
      <3>2. CASE k # 0
        <4>1. k \in 1..Len(sections) /\ k - 1 \in 0..Len(sections)
          BY <1>0, <3>2
        <4>2. closed[k] = Opened(sections, k) /\ closed[k-1] = Opened(sections, k - 1)
          BY <4>1
        <4> HIDE DEF closed
        <4>3. Opened(sections, k) =
                 {j \in Opened(sections, k - 1) : sections[j].level < sections[k].level} \cup {k}
          BY <4>1, OpenedGoesOn
        <4> QED BY <3>2, <4>2, <4>3
      <3> QED BY <3>1, <3>2
    <2> QED BY <2>1 DEF OpensIn
  <1>2. PICK open : OpensIn(sections, open) /\ Enclosing(sections) = [k \in 1..Len(sections) |-> open[k] \ {k}]
    <2>1. Enclosing(sections) =
             [k \in 1..Len(sections) |-> (CHOOSE open : OpensIn(sections, open))[k] \ {k}]
      BY DEF Enclosing, OpensIn
    <2> HIDE DEF closed
    <2> QED BY <1>1, <2>1
  <1>3. Enclosing(sections)[i] = Opened(sections, i) \ {i}
    <2>1. i \in 0..Len(sections)
      OBVIOUS
    <2> QED BY <1>2, <2>1, StackIsOpened
  <1>4. Opened(sections, i) \ {i} = SectionsAround(sections, i)
    BY <1>0 DEF Opened, SectionsAround
  <1> QED BY <1>3, <1>4

\* Between two sections with one parent and one level stands none at a lower
\* level: the last of these would be the parent of the second.
LEMMA NoneBetween ==
    ASSUME NEW sections, Nested(sections), NEW i \in 1..Len(sections), NEW j \in 1..Len(sections), i < j,
           Parent(sections, i) = Parent(sections, j)
    PROVE  \A k \in i+1..j-1 : sections[k].level >= sections[j].level
  <1>0. Len(sections) \in Nat /\ \A k \in 1..Len(sections) : sections[k].level \in Nat
    BY DEF Nested
  <1> DEFINE lower == {k \in i+1..j-1 : sections[k].level < sections[j].level}
             back == [k \in lower |-> j - k]
  <1>1. SUFFICES ASSUME lower # {} PROVE FALSE
    BY <1>0
  <1>2. \A k \in lower : back[k] \in Nat /\ back[k] = j - k /\ k \in i+1..j-1
    OBVIOUS
  <1>3. PICK k \in lower : \A h \in lower : back[k] <= back[h]
    <2> HIDE DEF lower, back
    <2> QED BY <1>1, <1>2, SomeIsLeast
  <1>4. \A h \in lower : h <= k
    <2> HIDE DEF lower, back
    <2> QED BY <1>2, <1>3
  <1>5. k \in Parent(sections, j)
    BY <1>0, <1>4 DEF Parent
  <1>6. k \notin Parent(sections, i)
    BY DEF Parent
  <1> QED BY <1>5, <1>6

\* Hence they stand in the same sections.
LEMMA SiblingsStandTogether ==
    ASSUME NEW sections, Nested(sections), NEW i \in 1..Len(sections), NEW j \in 1..Len(sections), i < j,
           sections[i].level = sections[j].level, Parent(sections, i) = Parent(sections, j)
    PROVE  SectionsAround(sections, i) = SectionsAround(sections, j)
  <1>0. Len(sections) \in Nat /\ \A k \in 1..Len(sections) : sections[k].level \in Nat
    BY DEF Nested
  <1>1. \A k \in i+1..j-1 : sections[k].level >= sections[i].level
    BY NoneBetween
  <1>2. ASSUME NEW a \in SectionsAround(sections, i) PROVE a \in SectionsAround(sections, j)
    <2>1. a \in 1..i-1 /\ (\A k \in a+1..i : sections[a].level < sections[k].level)
      BY DEF SectionsAround
    <2>2. ASSUME NEW k \in a+1..j PROVE sections[a].level < sections[k].level
      <3>1. sections[a].level < sections[i].level
        BY <2>1
      <3>2. CASE k \in a+1..i
        BY <2>1, <3>2
      <3>3. CASE k \in i+1..j-1
        BY <1>0, <1>1, <2>1, <3>1, <3>3
      <3>4. CASE k = j
        BY <3>1, <3>4
      <3> QED BY <2>1, <3>2, <3>3, <3>4
    <2> QED BY <2>1, <2>2 DEF SectionsAround
  <1>3. ASSUME NEW a \in SectionsAround(sections, j) PROVE a \in SectionsAround(sections, i)
    <2>1. a \in 1..j-1 /\ (\A k \in a+1..j : sections[a].level < sections[k].level)
      BY DEF SectionsAround
    <2>2. sections[a].level < sections[i].level
      BY <2>1
    <2>3. a # i /\ a \notin i+1..j-1
      BY <1>0, <1>1, <2>1, <2>2
    <2>4. a \in 1..i-1
      BY <2>1, <2>3
    <2> QED BY <2>1, <2>4 DEF SectionsAround
  <1> QED BY <1>2, <1>3

\* What is shown when the verdict is CONSISTENT: nothing of the severities
\* error and warning, of the two checks.
LEMMA NothingIsShown ==
    ASSUME NEW files, NEW code, NEW checks, NEW severity,
           AnalyzeConfig(files, code, checks, severity).verdict = "CONSISTENT",
           {"duplicates", "orphans"} \subseteq checks, severity # "error",
           NEW i \in CheckDuplicates(files) \cup CheckOrphans(files, code)
    PROVE  i.severity \notin {"error", "warning"}
  <1> DEFINE issues == (IF "duplicates" \in checks THEN CheckDuplicates(files) ELSE {})
                  \cup (IF "secrets" \in checks THEN CheckSecrets(files) ELSE {})
                  \cup (IF "orphans" \in checks THEN CheckOrphans(files, code) ELSE {})
                  \cup (IF "loaders" \in checks THEN CheckLoaders(files, code) ELSE {})
                  \cup (IF "schema" \in checks THEN CheckSchema(files, code) ELSE {})
             shown == {k \in issues : k.severity \in AllowedSeverities(severity)}
  <1>1. i \in issues
    OBVIOUS
  <1>2. AnalyzeConfig(files, code, checks, severity) =
           IF DOMAIN files = {} THEN [verdict |-> "no config files", issues |-> {}]
           ELSE [verdict |-> IF shown = {} THEN "CONSISTENT" ELSE "issues", issues |-> shown]
    BY DEF AnalyzeConfig
  <1>3. shown = {}
    <2> HIDE DEF shown
    <2> DEFINE none == [verdict |-> "no config files", issues |-> {}]
               some == [verdict |-> "issues", issues |-> shown]
    <2>1. none.verdict # "CONSISTENT" /\ some.verdict # "CONSISTENT"
      OBVIOUS
    <2> HIDE DEF none, some
    <2>2. ASSUME shown # {}
          PROVE  AnalyzeConfig(files, code, checks, severity) \in {none, some}
      BY <1>2, <2>2 DEF none, some
    <2> QED BY <2>1, <2>2
  <1>4. {"error", "warning"} \subseteq AllowedSeverities(severity)
    BY DEF AllowedSeverities
  <1> HIDE DEF issues
  <1> QED BY <1>1, <1>3, <1>4

\* Two such sections are compared, and two of one title reported.
LEMMA SiblingsAreFound ==
    ASSUME NEW sections, Nested(sections), NEW i \in DOMAIN sections, NEW j \in DOMAIN sections, i < j,
           sections[i].level = sections[j].level, sections[i].start # sections[j].start,
           Parent(sections, i) = Parent(sections, j)
    PROVE  <<i, j>> \in Siblings(sections)
  <1>0. DOMAIN sections = 1..Len(sections)
    BY DEF Nested
  <1>1. Enclosing(sections)[i] = Enclosing(sections)[j]
    BY <1>0, SiblingsStandTogether, EnclosingIsAround
  <1> DEFINE Beside(k, h) ==
               /\ k < h /\ sections[k].level = sections[h].level
               /\ ParentPath(sections, Enclosing(sections)[k]) = ParentPath(sections, Enclosing(sections)[h])
               /\ sections[k].start # sections[h].start
             D == DOMAIN sections
  <1>2. Beside(i, j) /\ i \in D /\ j \in D
    BY <1>1
  <1>3. Siblings(sections) = {p \in D \X D : Beside(p[1], p[2])}
    BY DEF Siblings
  <1> HIDE DEF Beside, D
  <1> QED BY <1>2, <1>3

LEMMA NamesakesAreTold ==
    ASSUME NEW files, NEW f \in DOMAIN files, NEW p \in Siblings(files[f].sections),
           files[f].sections[p[1]].title = files[f].sections[p[2]].title
    PROVE  \E i \in CheckDuplicates(files) : i.severity = "error"
  <1> DEFINE twice == {q \in Siblings(files[f].sections) :
                          files[f].sections[q[1]].title = files[f].sections[q[2]].title}
             Told(q) == ConfigIssue("duplicate", "error", f, files[f].sections[q[1]].title,
                                    files[f].sections[q[2]].start)
  <1>1. {Told(q) : q \in twice} \subseteq DuplicatesIn(files, f)
    BY DEF DuplicatesIn
  <1>2. DuplicatesIn(files, f) \subseteq CheckDuplicates(files)
    BY DEF CheckDuplicates
  <1>3. Told(p) \in {Told(q) : q \in twice}
    OBVIOUS
  <1>4. Told(p).severity = "error"
    BY DEF ConfigIssue
  <1> HIDE DEF twice, Told
  <1> QED BY <1>1, <1>2, <1>3, <1>4

\* The three parts of Consistent.
LEMMA NothingStandsTwice ==
    ASSUME NEW files, \A i \in CheckDuplicates(files) : i.severity \notin {"error", "warning"},
           NEW f \in DOMAIN files, Nested(files[f].sections),
           NEW i \in DOMAIN files[f].sections, NEW j \in DOMAIN files[f].sections, i # j,
           files[f].sections[i].title = files[f].sections[j].title,
           files[f].sections[i].level = files[f].sections[j].level,
           Parent(files[f].sections, i) = Parent(files[f].sections, j)
    PROVE  files[f].sections[i].start = files[f].sections[j].start
  <1> SUFFICES ASSUME files[f].sections[i].start # files[f].sections[j].start PROVE FALSE
    OBVIOUS
  <1>1. <<i, j>> \notin Siblings(files[f].sections) /\ <<j, i>> \notin Siblings(files[f].sections)
    BY NamesakesAreTold
  <1> DEFINE secs == files[f].sections
  <1>2. Nested(secs) /\ i \in DOMAIN secs /\ j \in DOMAIN secs
    OBVIOUS
  <1>3. i < j => <<i, j>> \in Siblings(secs)
    BY SiblingsAreFound
  <1>4. j < i => <<j, i>> \in Siblings(secs)
    BY SiblingsAreFound
  <1> HIDE DEF secs
  <1>5. i \in Nat /\ j \in Nat
    BY <1>2 DEF Nested
  <1> QED BY <1>1, <1>3, <1>4, <1>5 DEF secs

LEMMA EveryKeyIsNamed ==
    ASSUME NEW files, NEW code,
           \A i \in CheckOrphans(files, code) : i.severity \notin {"error", "warning"},
           NEW k \in TopTitles(files) \ KnownKeys
    PROVE  \E f \in DOMAIN code : \E l \in Range(code[f].lines) : k \in l.reads \cup l.mentions
  <1>1. SUFFICES ASSUME \A f \in DOMAIN code : \A l \in Range(code[f].lines) : k \notin l.reads \cup l.mentions
                 PROVE  FALSE
    OBVIOUS
  <1>2. k \notin ReadKeys(code)
    BY <1>1 DEF ReadKeys
  <1>3. Places(code, LAMBDA l : k \in l.mentions) = {}
    BY <1>1 DEF Places, Range
  <1>4. k \in OrphanKeys(files, code)
    BY <1>2, <1>3 DEF OrphanKeys
  <1>5. PICK f \in DOMAIN files : \E s \in TopSections(files, f) : s.title = k
    BY DEF TopTitles
  <1>6. PICK s \in TopSections(files, f) : s.title = k
    BY <1>5
  <1>7. ConfigIssue("orphan", "warning", f, s.title, s.start) \in CheckOrphans(files, code)
    <2>1. ConfigIssue("orphan", "warning", f, s.title, s.start) \in Orphans(files, code)
      BY <1>4, <1>6 DEF Orphans
    <2> QED BY <2>1 DEF CheckOrphans
  <1> QED BY <1>7 DEF ConfigIssue

LEMMA EveryReadIsDefined ==
    ASSUME NEW files, NEW code,
           \A i \in CheckOrphans(files, code) : i.severity \notin {"error", "warning"},
           NEW f \in DOMAIN code, code[f].lang \in Scanned, ~code[f].test,
           NEW l \in Range(code[f].lines), NEW k \in l.reads
    PROVE  k \in TopTitles(files) \cup BuildTimeKeys
  <1>1. SUFFICES ASSUME k \notin TopTitles(files) \cup BuildTimeKeys PROVE FALSE
    OBVIOUS
  <1>2. PICK i \in DOMAIN code[f].lines : l = code[f].lines[i]
    BY DEF Range
  <1> DEFINE p == [file |-> f, line |-> i - 1]
  <1>3. p \in Places(code, LAMBDA x : k \in x.reads)
    BY <1>2 DEF Places
  <1>4. p \in ReadsOf(code, k)
    BY <1>3 DEF ReadsOf
  <1>5. k \in ReadKeys(code)
    BY <1>4 DEF ReadKeys
  <1>6. k \in GhostKeys(files, code)
    BY <1>1, <1>4, <1>5 DEF GhostKeys
  <1>7. ConfigIssue("ghost", "warning", p.file, k, p.line) \in CheckOrphans(files, code)
    <2>1. ConfigIssue("ghost", "warning", p.file, k, p.line) \in Ghosts(files, code)
      BY <1>4, <1>6 DEF Ghosts
    <2> QED BY <2>1 DEF CheckOrphans
  <1> QED BY <1>7 DEF ConfigIssue

\* Together they are what the verdict says.
LEMMA ConsistencyIsTold == ASSUME ConfigAnswered PROVE ConsistentMeansConsistent
  <1> SUFFICES ASSUME ReportOf("config"), report.verdict = "CONSISTENT", request.only = "",
                      {"duplicates", "orphans"} \subseteq request.checks, request.severity # "error"
               PROVE  Consistent(request.project.files, request.project.code)
    BY DEF ConsistentMeansConsistent
  <1> DEFINE files == request.project.files
             code == request.project.code
  <1>1. \A f \in DOMAIN files : Nested(files[f].sections)
    BY AnalysesAssumption DEF ConfigAnswered
  <1>2. AnalyzeConfig(files, code, request.checks, request.severity).verdict = "CONSISTENT"
    BY DEF ConfigAnswered, Restricted
  <1> HIDE DEF files, code
  <1>3. \A i \in CheckDuplicates(files) \cup CheckOrphans(files, code) : i.severity \notin {"error", "warning"}
    BY <1>2, NothingIsShown
  <1>4. ASSUME NEW f \in DOMAIN files,
               NEW i \in DOMAIN files[f].sections, NEW j \in DOMAIN files[f].sections,
               i # j, files[f].sections[i].title = files[f].sections[j].title,
               files[f].sections[i].level = files[f].sections[j].level,
               Parent(files[f].sections, i) = Parent(files[f].sections, j)
        PROVE  files[f].sections[i].start = files[f].sections[j].start
    BY <1>1, <1>3, <1>4, NothingStandsTwice, ZenonT(30)
  <1>5. \A k \in TopTitles(files) \ KnownKeys : \E f \in DOMAIN code : \E l \in Range(code[f].lines) :
           k \in l.reads \cup l.mentions
    BY <1>3, EveryKeyIsNamed
  <1>6. ASSUME NEW f \in DOMAIN code, code[f].lang \in Scanned, ~code[f].test,
               NEW l \in Range(code[f].lines)
        PROVE  l.reads \subseteq TopTitles(files) \cup BuildTimeKeys
    BY <1>3, <1>6, EveryReadIsDefined
  <1>7. Consistent(files, code)
    BY <1>4, <1>5, <1>6 DEF Consistent
  <1> QED BY <1>7 DEF files, code

-----------------------------------------------------------------------------
(* A step that is repeated until nothing is left.                           *)

\* What Repeat goes through, as its recursive function defines it.
Orbit(step, state, n, after) ==
    after = [k \in 0..n |-> IF k = 0 THEN state ELSE step[after[k-1]]]

\* Such an orbit exists for any number of steps.
LEMMA OrbitsExist ==
    ASSUME NEW step, NEW state, NEW n \in Nat
    PROVE  \E after : Orbit(step, state, n, after)
  <1> DEFINE T == {k \in Nat : \E after : Orbit(step, state, k, after)}
  <1>1. 0 \in T
    <2>1. Orbit(step, state, 0, [k \in 0..0 |-> state])
      BY DEF Orbit
    <2> QED BY <2>1
  <1>2. ASSUME NEW k \in T PROVE k + 1 \in T
    <2>1. PICK after : Orbit(step, state, k, after)
      OBVIOUS
    <2> DEFINE next == [j \in 0..(k+1) |-> IF j = k + 1 THEN step[after[k]] ELSE after[j]]
    <2>2. ASSUME NEW j \in 0..(k+1)
          PROVE  next[j] = IF j = 0 THEN state ELSE step[next[j-1]]
      <3>1. CASE j = k + 1
        BY <3>1
      <3>2. CASE j # k + 1
        <4>1. j \in 0..k /\ next[j] = after[j] /\ (j # 0 => next[j-1] = after[j-1])
          BY <3>2
        <4>2. after[j] = IF j = 0 THEN state ELSE step[after[j-1]]
          BY <2>1, <4>1 DEF Orbit
        <4> QED BY <4>1, <4>2
      <3> QED BY <3>1, <3>2
    <2>3. Orbit(step, state, k + 1, next)
      BY <2>2 DEF Orbit
    <2> QED BY <2>3
  <1>3. T = Nat
    <2> HIDE DEF T
    <2>1. T \in SUBSET Nat
      BY DEF T
    <2> QED BY <1>1, <1>2, <2>1, EveryNatural
  <1> QED BY <1>3

\* What Repeat gives is the last state of such an orbit.
LEMMA RepeatIsOrbit ==
    ASSUME NEW step, NEW state, NEW n \in Nat
    PROVE  \E after : Orbit(step, state, n, after) /\ Repeat(step, state, n) = after[n]
  <1>1. Repeat(step, state, n) = (CHOOSE after : Orbit(step, state, n, after))[n]
    BY DEF Repeat, Orbit
  <1> QED BY <1>1, OrbitsExist

\* A step that moves the rank of a state up, unless it ends, has ended when no
\* rank is left.
LEMMA RepeatEnds ==
    ASSUME NEW step, NEW begun, NEW done, NEW Inside, NEW rank, NEW n \in Nat,
           begun \in Inside \cup {done}, step[done] = done,
           \A s \in Inside : rank[s] \in 1..n,
           \A s \in Inside : step[s] = done \/ (step[s] \in Inside /\ rank[s] < rank[step[s]])
    PROVE  Repeat(step, begun, n) = done
  <1>1. PICK after : Orbit(step, begun, n, after) /\ Repeat(step, begun, n) = after[n]
    BY RepeatIsOrbit
  <1>2. /\ after[0] = begun
        /\ \A k \in 0..n : k # 0 => after[k] = step[after[k-1]]
    BY <1>1 DEF Orbit
  <1> DEFINE T == {k \in Nat : k <= n => after[k] = done \/ (after[k] \in Inside /\ rank[after[k]] > k)}
  <1>3. 0 \in T
    BY <1>2
  <1>4. ASSUME NEW k \in T PROVE k + 1 \in T
    <2> SUFFICES ASSUME k + 1 <= n
                 PROVE  after[k+1] = done \/ (after[k+1] \in Inside /\ rank[after[k+1]] > k + 1)
      OBVIOUS
    <2>1. after[k] = done \/ (after[k] \in Inside /\ rank[after[k]] > k)
      OBVIOUS
    <2>2. after[k+1] = step[after[k]]
      BY <1>2
    <2>3. CASE after[k] = done
      BY <2>2, <2>3
    <2>4. CASE after[k] \in Inside /\ rank[after[k]] > k
      <3>1. CASE step[after[k]] = done
        BY <2>2, <3>1
      <3>2. CASE step[after[k]] \in Inside /\ rank[after[k]] < rank[step[after[k]]]
        <4>1. rank[after[k]] \in 1..n /\ rank[step[after[k]]] \in 1..n
          BY <2>4, <3>2
        <4> QED BY <2>2, <2>4, <3>2, <4>1
      <3> QED BY <2>4, <3>1, <3>2
    <2> QED BY <2>1, <2>3, <2>4
  <1>5. T = Nat
    <2> HIDE DEF T
    <2>1. T \in SUBSET Nat
      BY DEF T
    <2> QED BY <1>3, <1>4, <2>1, EveryNatural
  <1>6. after[n] = done \/ (after[n] \in Inside /\ rank[after[n]] > n)
    BY <1>5
  <1> QED BY <1>1, <1>6

-----------------------------------------------------------------------------
(* The places of a text.                                                    *)

Text(lines) == lines \in Seq(Seq(STRING))

\* A place is a line of the text and a column of that line, or its end.
LEMMA PlaceType ==
    ASSUME NEW lines, Text(lines)
    PROVE  /\ Len(lines) \in Nat
           /\ \A l \in 1..Len(lines) : Len(lines[l]) \in Nat
           /\ \A p \in PlacesOf(lines) : /\ p = <<p[1], p[2]>> /\ p[1] \in 1..Len(lines)
                                         /\ p[1] \in Nat /\ p[2] \in Nat \ {0} /\ p[2] <= Len(lines[p[1]]) + 1
           /\ \A l \in 1..Len(lines), c \in Nat \ {0} : c <= Len(lines[l]) + 1 => <<l, c>> \in PlacesOf(lines)
  <1>1. Len(lines) \in Nat /\ DOMAIN lines = 1..Len(lines) /\ \A l \in 1..Len(lines) : Len(lines[l]) \in Nat
    BY DEF Text
  <1>2. ASSUME NEW p \in PlacesOf(lines)
        PROVE  /\ p = <<p[1], p[2]>> /\ p[1] \in 1..Len(lines)
               /\ p[1] \in Nat /\ p[2] \in Nat \ {0} /\ p[2] <= Len(lines[p[1]]) + 1
    <2>1. PICK l \in 1..Len(lines) : p \in {l} \X (1..Len(lines[l]) + 1)
      BY <1>1 DEF PlacesOf
    <2>2. Len(lines[l]) \in Nat
      BY <1>1
    <2> QED BY <2>1, <2>2
  <1>3. ASSUME NEW l \in 1..Len(lines), NEW c \in Nat \ {0}, c <= Len(lines[l]) + 1
        PROVE  <<l, c>> \in PlacesOf(lines)
    <2>1. <<l, c>> \in {l} \X (1..Len(lines[l]) + 1)
      BY <1>1, <1>3
    <2> QED BY <1>1, <2>1 DEF PlacesOf
  <1> QED BY <1>1, <1>2, <1>3

\* No line is as long as the room Enough gives it.
LEMMA EnoughIsWide ==
    ASSUME NEW lines, Text(lines)
    PROVE  \E wide \in Nat : /\ Enough(lines) = Len(lines) * wide
                             /\ \A l \in 1..Len(lines) : Len(lines[l]) + 1 <= wide
  <1>0. Len(lines) \in Nat /\ DOMAIN lines = 1..Len(lines) /\ \A l \in 1..Len(lines) : Len(lines[l]) \in Nat
    BY DEF Text
  <1> DEFINE L(n) == {0} \cup {Len(lines[l]) : l \in 1..n}
             T == {n \in Nat : n <= Len(lines) => \E m \in L(n) : \A l \in 1..n : Len(lines[l]) <= m}
  <1>1. 0 \in T
    OBVIOUS
  <1>2. ASSUME NEW n \in T PROVE n + 1 \in T
    <2> SUFFICES ASSUME n + 1 <= Len(lines)
                 PROVE  \E m \in L(n+1) : \A l \in 1..(n+1) : Len(lines[l]) <= m
      OBVIOUS
    <2>1. PICK m \in L(n) : \A l \in 1..n : Len(lines[l]) <= m
      OBVIOUS
    <2>2. n + 1 \in 1..Len(lines) /\ Len(lines[n+1]) \in Nat /\ 1..n \subseteq 1..Len(lines)
      BY <1>0
    <2>3. m \in Nat
      BY <1>0, <2>1, <2>2
    <2>4. CASE Len(lines[n+1]) <= m
      BY <1>0, <2>1, <2>2, <2>3, <2>4
    <2>5. CASE Len(lines[n+1]) > m
      <3>1. Len(lines[n+1]) \in L(n+1)
        BY <2>2
      <3>2. ASSUME NEW l \in 1..(n+1) PROVE Len(lines[l]) <= Len(lines[n+1])
        <4>1. l \in 1..n \/ l = n + 1
          OBVIOUS
        <4>2. Len(lines[l]) \in Nat
          BY <1>0, <2>2, <4>1
        <4> QED BY <2>1, <2>2, <2>3, <2>5, <4>1, <4>2
      <3> QED BY <3>1, <3>2
    <2> QED BY <2>2, <2>3, <2>4, <2>5
  <1>3. T = Nat
    <2> HIDE DEF T
    <2>1. T \in SUBSET Nat
      BY DEF T
    <2> QED BY <1>1, <1>2, <2>1, EveryNatural
  <1> DEFINE longest == CHOOSE m \in {0} \cup {Len(lines[l]) : l \in DOMAIN lines} :
                           \A l \in DOMAIN lines : Len(lines[l]) <= m
  <1>4. longest \in {0} \cup {Len(lines[l]) : l \in DOMAIN lines} /\ \A l \in DOMAIN lines : Len(lines[l]) <= longest
    <2>1. Len(lines) \in T /\ Len(lines) <= Len(lines)
      <3> HIDE DEF T
      <3>1. Len(lines) \in Nat
        BY <1>0
      <3> QED BY <1>3, <3>1
    <2>2. \E m \in L(Len(lines)) : \A l \in 1..Len(lines) : Len(lines[l]) <= m
      BY <2>1
    <2>3. \E m \in {0} \cup {Len(lines[l]) : l \in DOMAIN lines} : \A l \in DOMAIN lines : Len(lines[l]) <= m
      BY <1>0, <2>2
    <2> QED BY <2>3
  <1>5. longest \in Nat
    <2> HIDE DEF longest
    <2> QED BY <1>0, <1>4
  <1>6. Enough(lines) = Len(lines) * (longest + 1)
    BY DEF Enough
  <1>7. \A l \in 1..Len(lines) : Len(lines[l]) + 1 <= longest + 1
    <2> HIDE DEF longest
    <2> QED BY <1>0, <1>4, <1>5
  <1>8. longest + 1 \in Nat
    BY <1>5
  <1> HIDE DEF longest
  <1> QED BY <1>6, <1>7, <1>8

\* Products of naturals grow with their factors.
LEMMA TimesGrows ==
    ASSUME NEW a \in Nat, NEW b \in Nat, NEW w \in Nat, a <= b
    PROVE  a * w <= b * w /\ (b + 1) * w = b * w + w /\ a * w \in Nat /\ b * w \in Nat
  OBVIOUS

\* How many places there are at most on the lines up to each.
LEMMA RoomBelow ==
    ASSUME NEW lines, Text(lines)
    PROVE  \E room \in [0..Len(lines) -> Nat] :
              /\ room[Len(lines)] = Enough(lines)
              /\ \A l \in 1..Len(lines) : room[l-1] + Len(lines[l]) + 1 <= room[l]
              /\ \A l, m \in 0..Len(lines) : l <= m => room[l] <= room[m]
  <1>0. Len(lines) \in Nat /\ \A l \in 1..Len(lines) : Len(lines[l]) \in Nat
    BY DEF Text
  <1>1. PICK wide \in Nat : /\ Enough(lines) = Len(lines) * wide
                            /\ \A l \in 1..Len(lines) : Len(lines[l]) + 1 <= wide
    BY EnoughIsWide
  <1> DEFINE room == [l \in 0..Len(lines) |-> l * wide]
  <1>2. \A l \in 0..Len(lines) : l * wide \in Nat
    BY <1>0, TimesGrows
  <1>3. ASSUME NEW l \in 1..Len(lines) PROVE room[l-1] + Len(lines[l]) + 1 <= room[l]
    <2>1. l - 1 \in Nat /\ l = (l - 1) + 1 /\ l - 1 \in 0..Len(lines) /\ l \in 0..Len(lines)
      BY <1>0
    <2>2. ((l - 1) + 1) * wide = (l - 1) * wide + wide
      BY <2>1, TimesGrows
    <2>3. room[l] = room[l-1] + wide
      BY <2>1, <2>2
    <2>4. room[l-1] \in Nat /\ Len(lines[l]) \in Nat /\ Len(lines[l]) + 1 <= wide
      BY <1>0, <1>1, <1>2, <2>1
    <2> HIDE DEF room
    <2> QED BY <2>3, <2>4
  <1>4. \A l, m \in 0..Len(lines) : l <= m => room[l] <= room[m]
    BY <1>0, TimesGrows
  <1>5. room \in [0..Len(lines) -> Nat] /\ room[Len(lines)] = Enough(lines)
    BY <1>0, <1>1, <1>2
  <1> HIDE DEF room
  <1> QED BY <1>3, <1>4, <1>5

\* A step that moves on in a text, unless it ends, ends in time.
LEMMA RunsOut ==
    ASSUME NEW lines, Text(lines), NEW step, NEW begun, NEW done, NEW Inside,
           begun \in Inside \cup {done}, step[done] = done,
           \A s \in Inside : s.at \in PlacesOf(lines),
           \A s \in Inside : step[s] = done \/ (step[s] \in Inside /\ Before(s.at, step[s].at))
    PROVE  Repeat(step, begun, Enough(lines)) = done
  <1>0. Len(lines) \in Nat
    BY PlaceType
  <1>1. PICK room \in [0..Len(lines) -> Nat] :
              /\ room[Len(lines)] = Enough(lines)
              /\ \A l \in 1..Len(lines) : room[l-1] + Len(lines[l]) + 1 <= room[l]
              /\ \A l, m \in 0..Len(lines) : l <= m => room[l] <= room[m]
    BY RoomBelow
  <1> DEFINE rank == [s \in Inside |-> room[s.at[1] - 1] + s.at[2]]
  <1>2. ASSUME NEW p \in PlacesOf(lines)
        PROVE  /\ p[1] \in Nat /\ p[2] \in Nat \ {0} /\ p[1] - 1 \in 0..Len(lines) /\ p[1] \in 0..Len(lines)
               /\ room[p[1]-1] \in Nat /\ room[p[1]] \in Nat
               /\ room[p[1]-1] + p[2] <= room[p[1]] /\ room[p[1]] <= Enough(lines)
    <2>1. /\ p[1] \in 1..Len(lines) /\ p[2] \in Nat \ {0} /\ p[2] <= Len(lines[p[1]]) + 1
          /\ Len(lines[p[1]]) \in Nat
      BY PlaceType
    <2>2. p[1] - 1 \in 0..Len(lines) /\ p[1] \in 0..Len(lines) /\ Len(lines) \in 0..Len(lines) /\ p[1] <= Len(lines)
      BY <1>0, <2>1
    <2>3. room[p[1]-1] \in Nat /\ room[p[1]] \in Nat /\ room[p[1]] <= room[Len(lines)]
      BY <1>1, <2>2
    <2>4. room[p[1]-1] + Len(lines[p[1]]) + 1 <= room[p[1]]
      BY <1>1, <2>1
    <2> DEFINE a == room[p[1]-1]
               b == room[p[1]]
               long == Len(lines[p[1]])
    <2>5. a + p[2] <= b
      <3>1. /\ a \in Nat /\ b \in Nat /\ long \in Nat /\ p[2] \in Nat
            /\ p[2] <= long + 1 /\ a + long + 1 <= b
        BY <2>1, <2>3, <2>4
      <3> HIDE DEF a, b, long
      <3> QED BY <3>1
    <2>6. room[p[1]] <= Enough(lines)
      BY <1>1, <2>3
    <2>7. p[1] \in Nat
      BY <2>1
    <2> QED BY <2>1, <2>2, <2>3, <2>5, <2>6, <2>7
  <1>6. Enough(lines) \in Nat
    <2>1. Len(lines) \in 0..Len(lines)
      BY <1>0
    <2> QED BY <1>1, <2>1
  <1>3. ASSUME NEW s \in Inside PROVE rank[s] \in 1..Enough(lines)
    <2>1. s.at \in PlacesOf(lines) /\ rank[s] = room[s.at[1] - 1] + s.at[2]
      OBVIOUS
    <2> HIDE DEF rank
    <2> QED BY <1>2, <1>6, <2>1
  <1>4. ASSUME NEW p \in PlacesOf(lines), NEW q \in PlacesOf(lines), Before(p, q)
        PROVE  room[p[1]-1] + p[2] < room[q[1]-1] + q[2]
    <2>0. p = <<p[1], p[2]>> /\ q = <<q[1], q[2]>>
      BY PlaceType
    <2>1. CASE p[1] = q[1]
      <3>1. p[2] # q[2] /\ p[2] <= q[2]
        BY <1>2, <1>4, <2>0, <2>1 DEF Before, NotAfter
      <3> QED BY <1>2, <2>1, <3>1
    <2>2. CASE p[1] < q[1]
      <3>1. p[1] <= q[1] - 1
        BY <1>2, <2>2
      <3>2. room[p[1]] <= room[q[1]-1]
        BY <1>1, <1>2, <3>1
      <3> DEFINE a == room[p[1]-1] + p[2]
                 b == room[p[1]]
                 c == room[q[1]-1]
                 d == q[2]
      <3>3. a \in Nat /\ a <= b
        BY <1>2
      <3>4. b \in Nat /\ c \in Nat /\ d \in Nat /\ d > 0
        BY <1>2
      <3>5. b <= c
        BY <3>2
      <3> HIDE DEF a, b, c, d
      <3>6. a < c + d
        BY <3>3, <3>4, <3>5
      <3> QED BY <3>6 DEF a, c, d
    <2> QED BY <1>4, <2>1, <2>2 DEF Before, NotAfter
  <1>5. ASSUME NEW s \in Inside
        PROVE  step[s] = done \/ (step[s] \in Inside /\ rank[s] < rank[step[s]])
    BY <1>4
  <1>7. begun \in Inside \cup {done} /\ step[done] = done
    OBVIOUS
  <1> HIDE DEF rank
  <1> QED BY <1>3, <1>5, <1>6, <1>7, RepeatEnds

-----------------------------------------------------------------------------
(* What is seen at a place.                                                 *)

Char(lines, p, a) == p[2] <= Len(lines[p[1]]) /\ lines[p[1]][p[2]] = a

\* No other character that the scanner looks for is a quote or a brace.
LEMMA CharactersDiffer ==
    \A a \in {"/", "*", "'", "\\", "@", "$", "r", "#", "backtick"} :
        /\ a \notin {Quote, LeftBrace, RightBrace}
        /\ Quote \notin {LeftBrace, RightBrace} /\ LeftBrace # RightBrace
  BY Zenon DEF Quote, LeftBrace, RightBrace

\* A place some columns further on.
LEMMA OnIs ==
    ASSUME NEW p \in Nat \X Nat, NEW n \in Nat
    PROVE  /\ On(p, n) \in Nat \X Nat /\ On(p, n)[1] = p[1] /\ On(p, n)[2] = p[2] + n
           /\ \A m \in Nat : On(On(p, n), m) = On(p, n + m)
           /\ \A q \in Nat \X Nat : On(p, n) = On(q, n) => p = q
  <1>1. \A q \in Nat \X Nat : q = <<q[1], q[2]>> /\ q[1] \in Nat /\ q[2] \in Nat
    OBVIOUS
  <1>2. \A q \in Nat \X Nat : On(p, n) = On(q, n) => p = q
    BY <1>1 DEF On
  <1> QED BY <1>2 DEF On

\* Words of one, two and three characters, seen character by character.
LEMMA SeesOne ==
    ASSUME NEW lines, NEW p \in Nat \X Nat, NEW a
    PROVE  Sees(lines, p, <<a>>) <=> Char(lines, p, a)
  BY DEF Sees, Char

LEMMA SeesTwo ==
    ASSUME NEW lines, NEW p \in Nat \X Nat, NEW a, NEW b, Text(lines), p[1] \in 1..Len(lines)
    PROVE  Sees(lines, p, <<a, b>>) <=> Char(lines, p, a) /\ Char(lines, On(p, 1), b)
  <1>1. Len(lines[p[1]]) \in Nat
    BY PlaceType
  <1>2. DOMAIN <<a, b>> = 1..2 /\ <<a, b>>[1] = a /\ <<a, b>>[2] = b
    OBVIOUS
  <1>3. p[2] \in Nat /\ p[2] + 1 - 1 = p[2] /\ p[2] + 2 - 1 = p[2] + 1
    OBVIOUS
  <1> QED BY <1>1, <1>2, <1>3 DEF Sees, Char, On

LEMMA SeesThree ==
    ASSUME NEW lines, NEW p \in Nat \X Nat, NEW a, NEW b, NEW c, Text(lines), p[1] \in 1..Len(lines)
    PROVE  Sees(lines, p, <<a, b, c>>)
              <=> Char(lines, p, a) /\ Char(lines, On(p, 1), b) /\ Char(lines, On(p, 2), c)
  <1>1. Len(lines[p[1]]) \in Nat
    BY PlaceType
  <1>2. DOMAIN <<a, b, c>> = 1..3 /\ <<a, b, c>>[1] = a /\ <<a, b, c>>[2] = b /\ <<a, b, c>>[3] = c
    OBVIOUS
  <1>3. p[2] \in Nat /\ p[2] + 1 - 1 = p[2] /\ p[2] + 2 - 1 = p[2] + 1 /\ p[2] + 3 - 1 = p[2] + 2
    OBVIOUS
  <1> QED BY <1>1, <1>2, <1>3 DEF Sees, Char, On

\* A place further on in the line.
LEMMA MovesOn ==
    ASSUME NEW lines, Text(lines), NEW p \in PlacesOf(lines)
    PROVE  /\ p \in Nat \X Nat /\ p[1] \in 1..Len(lines)
           /\ ~AtLineEnd(lines, p) => On(p, 1) \in PlacesOf(lines) /\ Before(p, On(p, 1))
           /\ ~AtLineEnd(lines, On(p, 1)) => On(p, 2) \in PlacesOf(lines) /\ Before(p, On(p, 2))
           /\ \A a : Char(lines, p, a) => ~AtLineEnd(lines, p)
           /\ \A n \in Nat : \A a : Char(lines, On(p, n), a) =>
                  /\ ~AtLineEnd(lines, On(p, n)) /\ ~AtLineEnd(lines, p)
                  /\ On(p, n + 1) \in PlacesOf(lines) /\ Before(p, On(p, n + 1))
  <1>1. /\ p = <<p[1], p[2]>> /\ p[1] \in 1..Len(lines)
        /\ p[1] \in Nat /\ p[2] \in Nat \ {0} /\ p[2] <= Len(lines[p[1]]) + 1
        /\ Len(lines[p[1]]) \in Nat
    BY PlaceType
  <1>2. ASSUME NEW n \in Nat, p[2] + n <= Len(lines[p[1]]) + 1
        PROVE  On(p, n) \in PlacesOf(lines) /\ (n # 0 => Before(p, On(p, n)))
    <2>1. p[2] + n \in Nat \ {0}
      BY <1>1
    <2>2. On(p, n) \in PlacesOf(lines)
      BY <1>1, <1>2, <2>1, PlaceType DEF On
    <2>3. n # 0 => Before(p, On(p, n))
      BY <1>1 DEF Before, NotAfter, On
    <2> QED BY <2>2, <2>3
  <1>3. p \in Nat \X Nat
    BY <1>1
  <1>4. ASSUME NEW n \in Nat
        PROVE  /\ On(p, n)[1] = p[1] /\ On(p, n)[2] = p[2] + n
               /\ AtLineEnd(lines, On(p, n)) <=> p[2] + n > Len(lines[p[1]])
    BY DEF On, AtLineEnd
  <1>5. AtLineEnd(lines, p) <=> p[2] > Len(lines[p[1]])
    BY DEF AtLineEnd
  <1>6. \A n \in Nat : \A a : Char(lines, On(p, n), a) => p[2] + n <= Len(lines[p[1]])
    BY DEF Char, On
  <1>7. \A a : Char(lines, p, a) => p[2] <= Len(lines[p[1]])
    BY DEF Char
  <1>8. ~AtLineEnd(lines, p) => On(p, 1) \in PlacesOf(lines) /\ Before(p, On(p, 1))
    BY <1>1, <1>2, <1>5
  <1>9. ~AtLineEnd(lines, On(p, 1)) => On(p, 2) \in PlacesOf(lines) /\ Before(p, On(p, 2))
    <2>1. ~AtLineEnd(lines, On(p, 1)) => p[2] + 2 <= Len(lines[p[1]]) + 1
      BY <1>1, <1>4
    <2> QED BY <1>2, <2>1
  <1>10. ASSUME NEW n \in Nat, NEW a, Char(lines, On(p, n), a)
         PROVE  /\ ~AtLineEnd(lines, On(p, n)) /\ ~AtLineEnd(lines, p)
                /\ On(p, n + 1) \in PlacesOf(lines)
                /\ Before(p, On(p, n + 1))
    <2>1. p[2] + n <= Len(lines[p[1]])
      BY <1>6, <1>10
    <2>2. p[2] + (n + 1) <= Len(lines[p[1]]) + 1 /\ n + 1 \in Nat /\ n + 1 # 0 /\ p[2] <= Len(lines[p[1]])
      BY <1>1, <2>1
    <2>3. On(p, n + 1) \in PlacesOf(lines) /\ Before(p, On(p, n + 1))
      BY <1>2, <2>2
    <2> QED BY <1>1, <1>4, <1>5, <2>1, <2>2, <2>3
  <1>11. \A a : Char(lines, p, a) => ~AtLineEnd(lines, p)
    BY <1>1, <1>5, <1>7
  <1> QED BY <1>1, <1>3, <1>8, <1>9, <1>10, <1>11

\* The order of the places of a text.
LEMMA PlaceOrder ==
    ASSUME NEW lines, Text(lines), NEW p \in PlacesOf(lines), NEW q \in PlacesOf(lines)
    PROVE  /\ NotAfter(p, q) /\ NotAfter(q, p) => p = q
           /\ NotAfter(p, q) \/ NotAfter(q, p)
           /\ NotAfter(p, p)
           /\ \A r \in PlacesOf(lines) : NotAfter(p, q) /\ NotAfter(q, r) => NotAfter(p, r)
  <1>1. \A r \in PlacesOf(lines) : r = <<r[1], r[2]>> /\ r[1] \in Nat /\ r[2] \in Nat
    BY PlaceType
  <1>2. p = <<p[1], p[2]>> /\ q = <<q[1], q[2]>>
    BY <1>1
  <1>3. NotAfter(p, q) /\ NotAfter(q, p) => p = q
    <2>1. NotAfter(p, q) /\ NotAfter(q, p) => p[1] = q[1] /\ p[2] = q[2]
      BY <1>1 DEF NotAfter
    <2> QED BY <1>2, <2>1
  <1> QED BY <1>1, <1>3 DEF NotAfter

\* Past and Find stop where what begins there ends.
LEMMA PastIs ==
    ASSUME NEW lines, Text(lines), NEW p, NEW word, NEW q, EndsWith(lines, p, word, q)
    PROVE  Past(lines, p, word) = q
  <1>1. PICK r \in PlacesOf(lines) :
            /\ NotAfter(p, r) /\ q = On(r, Len(word))
            /\ Sees(lines, r, word)
            /\ \A k \in PlacesUpTo(lines, p, r) : ~Sees(lines, k, word)
    BY DEF EndsWith
  <1> DEFINE found == {k \in PlacesOf(lines) : NotAfter(p, k) /\ Sees(lines, k, word)}
  <1>2. r \in found /\ \A k \in found : NotAfter(r, k)
    <2>1. ASSUME NEW k \in found PROVE NotAfter(r, k)
      <3>1. ~Before(k, r)
        BY <1>1 DEF PlacesUpTo
      <3> QED BY <3>1, PlaceOrder DEF Before
    <2> QED BY <1>1, <2>1
  <1>3. \A k \in found : (\A j \in found : NotAfter(k, j)) => k = r
    BY <1>2, PlaceOrder
  <1>4. (CHOOSE k \in found : \A j \in found : NotAfter(k, j)) = r
    <2> HIDE DEF found
    <2> QED BY <1>2, <1>3
  <1> QED BY <1>1, <1>2, <1>4 DEF Past

\* Find gives the column before the end, if that is on the line.
LEMMA FindIs ==
    ASSUME NEW lines, Text(lines), NEW p \in Nat \X Nat, p[2] # 0, NEW a, NEW q,
           EndsWith(lines, p, <<a>>, q), q[1] = p[1]
    PROVE  /\ Find(lines, p, <<a>>) \in Nat \ {0}
           /\ q = <<p[1], Find(lines, p, <<a>>) + 1>> /\ q[2] = Find(lines, p, <<a>>) + 1
           /\ p[2] < q[2] /\ q[2] <= Len(lines[p[1]]) + 1 /\ p[1] \in 1..Len(lines)
  <1>1. PICK r \in PlacesOf(lines) :
            /\ NotAfter(p, r) /\ q = On(r, Len(<<a>>))
            /\ Sees(lines, r, <<a>>)
            /\ \A k \in PlacesUpTo(lines, p, r) : ~Sees(lines, k, <<a>>)
    BY DEF EndsWith
  <1>2. q = On(r, 1)
    BY <1>1
  <1>3. /\ r = <<r[1], r[2]>> /\ r[1] \in 1..Len(lines) /\ r[2] \in Nat \ {0} /\ r \in Nat \X Nat
        /\ Len(lines[r[1]]) \in Nat
    BY PlaceType
  <1>4. r[1] = p[1] /\ q[2] = r[2] + 1 /\ q = <<p[1], r[2] + 1>>
    BY <1>2 DEF On
  <1>5. r[2] <= Len(lines[p[1]])
    BY <1>1, <1>3, <1>4, SeesOne DEF Char
  <1>6. p[2] <= r[2]
    BY <1>1, <1>3, <1>4 DEF NotAfter
  <1> DEFINE found == {k \in p[2]..Len(lines[p[1]]) : Sees(lines, <<p[1], k>>, <<a>>)}
  <1>7. r[2] \in found
    BY <1>1, <1>3, <1>4, <1>5, <1>6
  <1>8. ASSUME NEW k \in found PROVE r[2] <= k
    <2> SUFFICES ASSUME k < r[2] PROVE FALSE
      BY <1>3
    <2>0. k \in Nat \ {0} /\ p[2] <= k /\ k <= Len(lines[p[1]]) /\ Sees(lines, <<p[1], k>>, <<a>>)
      BY <1>3, <1>4
    <2>1. <<p[1], k>> \in PlacesOf(lines)
      BY <1>3, <1>4, <2>0, PlaceType
    <2>2. NotAfter(p, <<p[1], k>>) /\ Before(<<p[1], k>>, r)
      BY <1>3, <1>4, <2>0 DEF NotAfter, Before
    <2> QED BY <1>1, <2>0, <2>1, <2>2 DEF PlacesUpTo
  <1>9. (CHOOSE k \in found : \A j \in found : k <= j) = r[2]
    <2>1. \A k \in found : k \in Nat
      BY <1>3, <1>4
    <2>2. \A k \in found : (\A j \in found : k <= j) => k = r[2]
      BY <1>3, <1>7, <1>8, <2>1
    <2> HIDE DEF found
    <2> QED BY <1>7, <1>8, <2>2
  <1>10. Find(lines, p, <<a>>) = r[2]
    BY <1>7, <1>9 DEF Find
  <1> QED BY <1>3, <1>4, <1>5, <1>6, <1>10

\* A reader that stays inside until it has read what ends there.
LEMMA LeaveIs ==
    ASSUME NEW lines, Text(lines), NEW p, NEW q, NEW step, NEW Inside,
           step[[at |-> q, depth |-> 0]] = [at |-> q, depth |-> 0],
           [at |-> p, depth |-> 1] \in Inside,
           \A s \in Inside : s.at \in PlacesOf(lines),
           \A s \in Inside : \/ step[s] = [at |-> q, depth |-> 0]
                             \/ step[s] \in Inside /\ Before(s.at, step[s].at)
    PROVE  Leave(lines, p, step) = q
  <1> DEFINE done == [at |-> q, depth |-> 0]
             begun == [at |-> p, depth |-> 1]
  <1>1. done.at = q
    OBVIOUS
  <1>2. Leave(lines, p, step) = Repeat(step, begun, Enough(lines)).at
    BY DEF Leave
  <1>3. /\ begun \in Inside \cup {done} /\ step[done] = done
        /\ \A s \in Inside : step[s] = done \/ (step[s] \in Inside /\ Before(s.at, step[s].at))
    OBVIOUS
  <1> HIDE DEF done, begun
  <1>4. Repeat(step, begun, Enough(lines)) = done
    BY <1>3, RunsOut
  <1> QED BY <1>1, <1>2, <1>4

\* A string ends with the first quote that no backslash escapes.
LEMMA PastQuoteIs ==
    ASSUME NEW lines, Text(lines), NEW p \in PlacesOf(lines), NEW q, Quoted(lines, p, q)
    PROVE  PastQuote(lines, p) = q
  <1> USE DEF Reader
  <1>1. PICK r \in PlacesOf(lines) :
            /\ r[1] = p[1] /\ NotAfter(p, r) /\ q = On(r, 1)
            /\ Sees(lines, r, <<Quote>>)
            /\ \E escapes \in SUBSET {k \in PlacesUpTo(lines, p, r) : Sees(lines, k, <<"\\">>)} :
                  /\ \A k \in escapes : On(k, 1) \notin escapes \cup {r}
                  /\ \A k \in PlacesUpTo(lines, p, r) : Sees(lines, k, <<Quote>>) \/ Sees(lines, k, <<"\\">>)
                                                  => k \in escapes \/ \E m \in escapes : k = On(m, 1)
    BY DEF Quoted, StringUpTo
  <1>2. PICK escapes \in SUBSET {k \in PlacesUpTo(lines, p, r) : Sees(lines, k, <<"\\">>)} :
                  /\ \A k \in escapes : On(k, 1) \notin escapes \cup {r}
                  /\ \A k \in PlacesUpTo(lines, p, r) : Sees(lines, k, <<Quote>>) \/ Sees(lines, k, <<"\\">>)
                                                  => k \in escapes \/ \E m \in escapes : k = On(m, 1)
    BY <1>1
  <1>0. r[1] = p[1] /\ NotAfter(p, r) /\ q = On(r, 1) /\ Sees(lines, r, <<Quote>>)
    BY <1>1
  <1> DEFINE Open == {k \in PlacesOf(lines) : k[1] = p[1] /\ NotAfter(p, k) /\ NotAfter(k, r)
                                              /\ \A m \in escapes : k # On(m, 1)}
             Inside == {s \in Reader : s.depth = 1 /\ s.at \in Open}
             step == [s \in Reader |->
                IF s.depth = 0 \/ AtLineEnd(lines, s.at) THEN s
                ELSE IF Sees(lines, s.at, <<"\\">>) THEN [at |-> On(s.at, 2), depth |-> s.depth]
                ELSE IF Sees(lines, s.at, <<Quote>>) THEN [at |-> On(s.at, 1), depth |-> 0]
                ELSE [at |-> On(s.at, 1), depth |-> s.depth]]
             done == [at |-> q, depth |-> 0]
             begun == [at |-> p, depth |-> 1]
  <1>3. \A k \in PlacesOf(lines) :
            /\ k \in Nat \X Nat /\ k = <<k[1], k[2]>> /\ k[1] \in Nat /\ k[2] \in Nat \ {0}
            /\ k[1] \in 1..Len(lines) /\ k[2] <= Len(lines[k[1]]) + 1 /\ Len(lines[k[1]]) \in Nat
    BY PlaceType, MovesOn
  <1>4. /\ escapes \subseteq PlacesOf(lines)
        /\ \A k \in escapes : k \in PlacesUpTo(lines, p, r) /\ Sees(lines, k, <<"\\">>)
    BY DEF PlacesUpTo
  <1>5. r[2] <= Len(lines[r[1]])
    BY <1>0, <1>3, SeesOne DEF Char
  <1>6. ASSUME NEW k \in Open
        PROVE  /\ k[2] <= r[2] /\ p[2] <= k[2] /\ ~AtLineEnd(lines, k) /\ k[1] = r[1]
               /\ k # r => k \in PlacesUpTo(lines, p, r) /\ k[2] < r[2]
               /\ \A n \in 1..2 : k[2] + n <= r[2] => On(k, n) \in PlacesOf(lines) /\ On(k, n)[1] = p[1]
                                     /\ NotAfter(p, On(k, n)) /\ NotAfter(On(k, n), r) /\ Before(k, On(k, n))
    <2>0. /\ k[1] \in Nat /\ k[2] \in Nat /\ p[1] \in Nat /\ p[2] \in Nat /\ r[1] \in Nat /\ r[2] \in Nat
          /\ k = <<k[1], k[2]>> /\ r = <<r[1], r[2]>>
          /\ k[1] = p[1] /\ NotAfter(p, k) /\ NotAfter(k, r)
      BY <1>3
    <2>1. k[2] <= r[2] /\ p[2] <= k[2] /\ k[1] = r[1]
      BY <1>0, <2>0 DEF NotAfter
    <2>2. ~AtLineEnd(lines, k)
      BY <1>3, <1>5, <2>1 DEF AtLineEnd
    <2>3. ASSUME k # r PROVE k \in PlacesUpTo(lines, p, r) /\ k[2] < r[2]
      BY <1>3, <2>1, <2>3 DEF PlacesUpTo, Before
    <2>4. ASSUME NEW n \in 1..2, k[2] + n <= r[2]
          PROVE  On(k, n) \in PlacesOf(lines) /\ On(k, n)[1] = p[1]
                 /\ NotAfter(p, On(k, n)) /\ NotAfter(On(k, n), r) /\ Before(k, On(k, n))
      <3>1. On(k, n)[1] = p[1] /\ On(k, n)[2] = k[2] + n /\ On(k, n) = <<k[1], k[2] + n>>
        BY <1>0, <2>1 DEF On
      <3>2. On(k, n) \in PlacesOf(lines)
        BY <1>3, <1>5, <2>1, <2>4, <3>1, PlaceType
      <3>3. k # On(k, n)
        BY <2>0, <3>1
      <3> QED BY <1>0, <2>0, <2>1, <2>4, <3>1, <3>2, <3>3 DEF NotAfter, Before
    <2> QED BY <2>1, <2>2, <2>3, <2>4
  <1>7. begun \in Inside
    <2>1. p \in Nat \X Nat /\ NotAfter(p, p) /\ NotAfter(p, r)
      BY <1>0, <1>3, PlaceOrder
    <2>2. ASSUME NEW m \in escapes PROVE p # On(m, 1)
      <3>1. m \in PlacesUpTo(lines, p, r) /\ m \in PlacesOf(lines)
        BY <1>4
      <3> QED BY <1>3, <3>1 DEF PlacesUpTo, NotAfter, On
    <2> QED BY <2>1, <2>2
  <1>8. ASSUME NEW s \in Inside
        PROVE  step[s] = done \/ (step[s] \in Inside /\ Before(s.at, step[s].at))
    <2>0. s \in Reader /\ s.depth = 1 /\ s.at \in Open /\ s.at \in PlacesOf(lines) /\ s.at \in Nat \X Nat
      BY <1>3
    <2>1. \A n \in 1..2 : /\ [at |-> On(s.at, n), depth |-> s.depth] = [at |-> On(s.at, n), depth |-> 1]
                          /\ On(s.at, n) \in Nat \X Nat
      <3>1. ASSUME NEW n \in 1..2 PROVE On(s.at, n) \in Nat \X Nat
        <4>1. n \in Nat
          OBVIOUS
        <4>2. s.at \in Nat \X Nat
          BY <2>0
        <4> HIDE DEF Inside
        <4> QED BY <4>1, <4>2, OnIs
      <3>2. \A x : [at |-> x, depth |-> s.depth] = [at |-> x, depth |-> 1]
        BY <2>0
      <3> QED BY <3>1, <3>2
    <2> DEFINE k == s.at
    <2>2. ASSUME NEW n \in 1..2, k[2] + n <= r[2], \A m \in escapes : On(k, n) # On(m, 1),
                 step[s] = [at |-> On(s.at, n), depth |-> s.depth]
          PROVE  step[s] \in Inside /\ Before(s.at, step[s].at)
      <3>1. On(k, n) \in Open /\ Before(k, On(k, n))
        BY <1>6, <2>0, <2>2
      <3> QED BY <2>1, <2>2, <3>1
    <2>3. \A m \in escapes : k # On(m, 1)
      BY <2>0
    <2>4. k # r => (Sees(lines, k, <<Quote>>) \/ Sees(lines, k, <<"\\">>) => k \in escapes)
      BY <1>2, <1>6, <2>0, <2>3
    <2>5. ~AtLineEnd(lines, k)
      BY <1>6, <2>0
    <2>6. ~(Sees(lines, k, <<Quote>>) /\ Sees(lines, k, <<"\\">>))
      <3>1. Sees(lines, k, <<Quote>>) => lines[k[1]][k[2]] = Quote
        BY <2>0, SeesOne DEF Char
      <3>2. Sees(lines, k, <<"\\">>) => lines[k[1]][k[2]] = "\\"
        BY <2>0, SeesOne DEF Char
      <3> QED BY <3>1, <3>2, CharactersDiffer
    <2>7. CASE Sees(lines, k, <<"\\">>)
      <3>1. k # r
        BY <1>0, <2>6, <2>7
      <3>2. k \in escapes /\ k[2] < r[2]
        BY <1>6, <2>0, <2>4, <2>7, <3>1
      <3>3. On(k, 1) # r /\ On(k, 1) \notin escapes
        BY <1>2, <3>2
      <3>4. k[2] + 2 <= r[2]
        <4>1. k[2] + 1 # r[2]
          BY <1>3, <1>6, <2>0, <3>3 DEF On
        <4> QED BY <1>3, <2>0, <3>2, <4>1
      <3>5. ASSUME NEW m \in escapes PROVE On(k, 2) # On(m, 1)
        <4>1. m \in PlacesOf(lines) /\ m \in Nat \X Nat
          BY <1>3, <1>4
        <4>2. On(k, 2) = On(On(k, 1), 1) /\ On(k, 1) \in Nat \X Nat
          BY <2>0, OnIs
        <4> QED BY <3>3, <4>1, <4>2, OnIs
      <3>6. step[s] = [at |-> On(s.at, 2), depth |-> s.depth]
        BY <2>0, <2>5, <2>7
      <3> QED BY <2>2, <3>4, <3>5, <3>6
    <2>8. CASE Sees(lines, k, <<Quote>>)
      <3>1. k = r
        BY <1>4, <2>4, <2>6, <2>8
      <3> QED BY <1>0, <2>0, <2>5, <2>6, <2>8, <3>1
    <2>9. CASE ~Sees(lines, k, <<"\\">>) /\ ~Sees(lines, k, <<Quote>>)
      <3>1. k # r
        BY <1>0, <2>9
      <3>2. k[2] + 1 <= r[2]
        BY <1>3, <1>6, <2>0, <3>1
      <3>3. ASSUME NEW m \in escapes PROVE On(k, 1) # On(m, 1)
        <4>1. m \in Nat \X Nat /\ m # k
          BY <1>3, <1>4, <2>9
        <4> QED BY <2>0, <4>1, OnIs
      <3>4. step[s] = [at |-> On(s.at, 1), depth |-> s.depth]
        BY <2>0, <2>5, <2>9
      <3> QED BY <2>2, <3>2, <3>3, <3>4
    <2> QED BY <2>7, <2>8, <2>9
  <1>9. step[done] = done
    <2>1. r \in Nat \X Nat
      BY <1>3
    <2>2. q \in Nat \X Nat
      BY <1>0, <2>1, OnIs
    <2> QED BY <2>2
  <1>10. \A s \in Inside : s.at \in PlacesOf(lines)
    OBVIOUS
  <1>11. PastQuote(lines, p) = Leave(lines, p, step)
    BY DEF PastQuote
  <1> HIDE DEF Inside, step
  <1> QED BY <1>7, <1>8, <1>9, <1>10, <1>11, LeaveIs

\* Between two places of a text there is always a next one.
LEMMA GoesOn ==
    ASSUME NEW lines, Text(lines), NEW k \in PlacesOf(lines), NEW r \in PlacesOf(lines),
           NotAfter(k, r), ~AtLineEnd(lines, r)
    PROVE  /\ AtLineEnd(lines, k) => /\ NextLine(k) \in PlacesOf(lines) /\ NextLine(k) \in Nat \X Nat
                                     /\ NotAfter(NextLine(k), r) /\ Before(k, NextLine(k)) /\ k # r
           /\ ~AtLineEnd(lines, k) /\ k # r =>
                  /\ On(k, 1) \in PlacesOf(lines) /\ On(k, 1) \in Nat \X Nat
                  /\ NotAfter(On(k, 1), r) /\ Before(k, On(k, 1))
           /\ ~AtLineEnd(lines, On(k, 1)) /\ ~AtLineEnd(lines, k) /\ k # r /\ On(k, 1) # r =>
                  /\ On(k, 2) \in PlacesOf(lines) /\ On(k, 2) \in Nat \X Nat
                  /\ NotAfter(On(k, 2), r) /\ Before(k, On(k, 2))
  <1>1. /\ k = <<k[1], k[2]>> /\ k[1] \in 1..Len(lines) /\ k[1] \in Nat /\ k[2] \in Nat \ {0}
        /\ k[2] <= Len(lines[k[1]]) + 1 /\ Len(lines[k[1]]) \in Nat
        /\ r = <<r[1], r[2]>> /\ r[1] \in 1..Len(lines) /\ r[1] \in Nat /\ r[2] \in Nat \ {0}
        /\ r[2] <= Len(lines[r[1]]) + 1 /\ Len(lines[r[1]]) \in Nat /\ Len(lines) \in Nat
    BY PlaceType
  <1>2. r[2] <= Len(lines[r[1]])
    BY <1>1 DEF AtLineEnd
  <1>3. ASSUME AtLineEnd(lines, k)
        PROVE  /\ NextLine(k) \in PlacesOf(lines) /\ NextLine(k) \in Nat \X Nat
               /\ NotAfter(NextLine(k), r) /\ Before(k, NextLine(k)) /\ k # r
    <2>1. k[2] > Len(lines[k[1]])
      BY <1>3 DEF AtLineEnd
    <2>2. k[1] < r[1]
      <3>1. CASE k[1] = r[1]
        BY <1>1, <1>2, <2>1, <3>1 DEF NotAfter
      <3> QED BY <3>1 DEF NotAfter
    <2>3. k[1] + 1 \in 1..Len(lines) /\ k[1] + 1 <= r[1] /\ Len(lines[k[1] + 1]) \in Nat
      <3>1. k[1] + 1 \in 1..Len(lines) /\ k[1] + 1 <= r[1]
        BY <1>1, <2>2
      <3> QED BY <3>1, PlaceType
    <2>4. NextLine(k) = <<k[1] + 1, 1>>
      BY DEF NextLine
    <2>5. NextLine(k) \in PlacesOf(lines)
      BY <2>3, <2>4, PlaceType
    <2>6. NotAfter(NextLine(k), r) /\ Before(k, NextLine(k))
      BY <1>1, <2>3, <2>4 DEF NotAfter, Before
    <2> QED BY <1>1, <2>2, <2>4, <2>5, <2>6
  <1>4. ASSUME ~AtLineEnd(lines, k), k # r
        PROVE  /\ On(k, 1) \in PlacesOf(lines) /\ On(k, 1) \in Nat \X Nat
               /\ NotAfter(On(k, 1), r) /\ Before(k, On(k, 1))
    <2>1. On(k, 1) \in PlacesOf(lines) /\ Before(k, On(k, 1)) /\ On(k, 1) = <<k[1], k[2] + 1>>
      BY <1>4, MovesOn DEF On
    <2>2. NotAfter(On(k, 1), r)
      BY <1>1, <1>4, <2>1 DEF NotAfter
    <2> QED BY <1>1, <2>1, <2>2
  <1>5. ASSUME ~AtLineEnd(lines, On(k, 1)), ~AtLineEnd(lines, k), k # r, On(k, 1) # r
        PROVE  /\ On(k, 2) \in PlacesOf(lines) /\ On(k, 2) \in Nat \X Nat
               /\ NotAfter(On(k, 2), r) /\ Before(k, On(k, 2))
    <2>1. On(k, 2) \in PlacesOf(lines) /\ Before(k, On(k, 2)) /\ On(k, 2) = <<k[1], k[2] + 2>>
      BY <1>5, MovesOn DEF On
    <2>2. NotAfter(On(k, 1), r) /\ On(k, 1) = <<k[1], k[2] + 1>>
      BY <1>4, <1>5 DEF On
    <2>3. NotAfter(On(k, 2), r)
      BY <1>1, <1>5, <2>1, <2>2 DEF NotAfter
    <2> QED BY <1>1, <2>1, <2>3
  <1> QED BY <1>3, <1>4, <1>5

\* A verbatim string ends with the first quote that is not doubled.
LEMMA PastVerbatimIs ==
    ASSUME NEW lines, Text(lines), NEW p \in PlacesOf(lines), NEW q, Verbatim(lines, p, q)
    PROVE  PastVerbatim(lines, p) = q
  <1> USE DEF Reader
  <1>1. PICK r \in PlacesOf(lines) :
            /\ NotAfter(p, r) /\ q = On(r, 1)
            /\ Sees(lines, r, <<Quote>>) /\ ~Sees(lines, q, <<Quote>>)
            /\ \E doubled \in SUBSET {k \in PlacesUpTo(lines, p, r) : Sees(lines, k, <<Quote, Quote>>)} :
                  /\ \A k \in doubled : On(k, 1) \notin doubled \cup {r}
                  /\ \A k \in PlacesUpTo(lines, p, r) : Sees(lines, k, <<Quote>>)
                                                  => k \in doubled \/ \E m \in doubled : k = On(m, 1)
    BY DEF Verbatim
  <1>2. PICK doubled \in SUBSET {k \in PlacesUpTo(lines, p, r) : Sees(lines, k, <<Quote, Quote>>)} :
                  /\ \A k \in doubled : On(k, 1) \notin doubled \cup {r}
                  /\ \A k \in PlacesUpTo(lines, p, r) : Sees(lines, k, <<Quote>>)
                                                  => k \in doubled \/ \E m \in doubled : k = On(m, 1)
    BY <1>1
  <1>0. NotAfter(p, r) /\ q = On(r, 1) /\ Sees(lines, r, <<Quote>>) /\ ~Sees(lines, q, <<Quote>>)
    BY <1>1
  <1> DEFINE Open == {k \in PlacesOf(lines) : NotAfter(p, k) /\ NotAfter(k, r)
                                              /\ \A m \in doubled : k # On(m, 1)}
             Inside == {s \in Reader : s.depth = 1 /\ s.at \in Open}
             step == [s \in Reader |->
                IF s.depth = 0 \/ s.at[1] > Len(lines) THEN s
                ELSE IF AtLineEnd(lines, s.at) THEN [at |-> NextLine(s.at), depth |-> s.depth]
                ELSE IF Sees(lines, s.at, <<Quote, Quote>>) THEN [at |-> On(s.at, 2), depth |-> s.depth]
                ELSE IF Sees(lines, s.at, <<Quote>>) THEN [at |-> On(s.at, 1), depth |-> 0]
                ELSE [at |-> On(s.at, 1), depth |-> s.depth]]
             done == [at |-> q, depth |-> 0]
             begun == [at |-> p, depth |-> 1]
  <1>3. \A k \in PlacesOf(lines) :
            /\ k \in Nat \X Nat /\ k = <<k[1], k[2]>> /\ k[1] \in Nat /\ k[2] \in Nat \ {0}
            /\ k[1] \in 1..Len(lines) /\ ~(k[1] > Len(lines))
    BY PlaceType, MovesOn
  <1>4. /\ doubled \subseteq PlacesOf(lines)
        /\ \A k \in doubled : k \in PlacesUpTo(lines, p, r) /\ Sees(lines, k, <<Quote, Quote>>)
    BY DEF PlacesUpTo
  <1>5. ~AtLineEnd(lines, r)
    BY <1>0, <1>3, SeesOne, MovesOn
  <1>6. \A k \in PlacesOf(lines) :
            Sees(lines, k, <<Quote, Quote>>) <=> Sees(lines, k, <<Quote>>) /\ Sees(lines, On(k, 1), <<Quote>>)
    <2> SUFFICES ASSUME NEW k \in PlacesOf(lines)
                 PROVE  Sees(lines, k, <<Quote, Quote>>)
                           <=> Sees(lines, k, <<Quote>>) /\ Sees(lines, On(k, 1), <<Quote>>)
      OBVIOUS
    <2>1. k \in Nat \X Nat /\ k[1] \in 1..Len(lines) /\ On(k, 1) \in Nat \X Nat
      BY <1>3, OnIs
    <2> QED BY <2>1, SeesOne, SeesTwo
  <1>7. begun \in Inside
    <2>1. p \in Nat \X Nat /\ NotAfter(p, p) /\ NotAfter(p, r)
      BY <1>0, <1>3, PlaceOrder
    <2>2. ASSUME NEW m \in doubled PROVE p # On(m, 1)
      <3>1. m \in PlacesUpTo(lines, p, r) /\ m \in PlacesOf(lines)
        BY <1>4
      <3> QED BY <1>3, <3>1 DEF PlacesUpTo, NotAfter, On
    <2> QED BY <2>1, <2>2
  <1>8. ASSUME NEW s \in Inside
        PROVE  step[s] = done \/ (step[s] \in Inside /\ Before(s.at, step[s].at))
    <2>0. /\ s \in Reader /\ s.depth = 1 /\ s.at \in Open /\ s.at \in PlacesOf(lines) /\ s.at \in Nat \X Nat
          /\ NotAfter(p, s.at) /\ NotAfter(s.at, r) /\ ~(s.at[1] > Len(lines))
      BY <1>3
    <2> DEFINE k == s.at
    <2>1. ASSUME NEW x \in PlacesOf(lines), x \in Nat \X Nat, NotAfter(x, r), Before(k, x),
                 \A m \in doubled : x # On(m, 1),
                 step[s] = [at |-> x, depth |-> s.depth]
          PROVE  step[s] \in Inside /\ Before(s.at, step[s].at)
      <3>1. NotAfter(p, x)
        BY <2>0, <2>1, PlaceOrder DEF Before
      <3> QED BY <2>0, <2>1, <3>1
    <2>2. k # r => (Sees(lines, k, <<Quote>>) => k \in doubled)
      <3>1. k # r => k \in PlacesUpTo(lines, p, r)
        BY <2>0 DEF PlacesUpTo, Before
      <3>2. \A m \in doubled : k # On(m, 1)
        BY <2>0
      <3> QED BY <1>2, <3>1, <3>2
    <2>3. CASE AtLineEnd(lines, k)
      <3>1. /\ NextLine(k) \in PlacesOf(lines) /\ NextLine(k) \in Nat \X Nat
            /\ NotAfter(NextLine(k), r) /\ Before(k, NextLine(k))
        BY <1>5, <2>0, <2>3, GoesOn
      <3>2. ASSUME NEW m \in doubled PROVE NextLine(k) # On(m, 1)
        <4>1. m[2] \in Nat \ {0}
          BY <1>3, <1>4
        <4> QED BY <4>1 DEF NextLine, On
      <3>3. step[s] = [at |-> NextLine(k), depth |-> s.depth]
        BY <2>0, <2>3
      <3> QED BY <2>1, <3>1, <3>2, <3>3
    <2>4. CASE ~AtLineEnd(lines, k) /\ Sees(lines, k, <<Quote, Quote>>)
      <3>1. k # r
        BY <1>0, <1>6, <2>4
      <3>2. k \in doubled
        BY <1>6, <2>0, <2>2, <2>4, <3>1
      <3>3. On(k, 1) # r /\ On(k, 1) \notin doubled
        BY <1>2, <3>2
      <3>4. ~AtLineEnd(lines, On(k, 1))
        <4>1. On(k, 1) \in Nat \X Nat /\ Sees(lines, On(k, 1), <<Quote>>)
          BY <1>6, <2>0, <2>4, OnIs
        <4>2. Char(lines, On(k, 1), Quote)
          BY <4>1, SeesOne
        <4> QED BY <2>0, <4>2, MovesOn
      <3>5. /\ On(k, 2) \in PlacesOf(lines) /\ On(k, 2) \in Nat \X Nat
            /\ NotAfter(On(k, 2), r) /\ Before(k, On(k, 2))
        BY <1>5, <2>0, <2>4, <3>1, <3>3, <3>4, GoesOn
      <3>6. ASSUME NEW m \in doubled PROVE On(k, 2) # On(m, 1)
        <4>1. m \in PlacesOf(lines) /\ m \in Nat \X Nat
          BY <1>3, <1>4
        <4>2. On(k, 2) = On(On(k, 1), 1) /\ On(k, 1) \in Nat \X Nat
          BY <2>0, OnIs
        <4> QED BY <3>3, <4>1, <4>2, OnIs
      <3>7. step[s] = [at |-> On(k, 2), depth |-> s.depth]
        BY <2>0, <2>4
      <3> QED BY <2>1, <3>5, <3>6, <3>7
    <2>5. CASE ~AtLineEnd(lines, k) /\ ~Sees(lines, k, <<Quote, Quote>>) /\ Sees(lines, k, <<Quote>>)
      <3>1. k = r
        BY <1>4, <2>2, <2>5
      <3> QED BY <1>0, <2>0, <2>5, <3>1
    <2>6. CASE ~AtLineEnd(lines, k) /\ ~Sees(lines, k, <<Quote, Quote>>) /\ ~Sees(lines, k, <<Quote>>)
      <3>1. k # r
        BY <1>0, <2>6
      <3>2. /\ On(k, 1) \in PlacesOf(lines) /\ On(k, 1) \in Nat \X Nat
            /\ NotAfter(On(k, 1), r) /\ Before(k, On(k, 1))
        BY <1>5, <2>0, <2>6, <3>1, GoesOn
      <3>3. ASSUME NEW m \in doubled PROVE On(k, 1) # On(m, 1)
        <4>1. m \in Nat \X Nat /\ m # k
          BY <1>3, <1>4, <2>6
        <4> QED BY <2>0, <4>1, OnIs
      <3>4. step[s] = [at |-> On(k, 1), depth |-> s.depth]
        BY <2>0, <2>6
      <3> QED BY <2>1, <3>2, <3>3, <3>4
    <2> QED BY <2>3, <2>4, <2>5, <2>6
  <1>9. step[done] = done
    <2>1. r \in Nat \X Nat
      BY <1>3
    <2>2. q \in Nat \X Nat
      BY <1>0, <2>1, OnIs
    <2> QED BY <2>2
  <1>10. \A s \in Inside : s.at \in PlacesOf(lines)
    OBVIOUS
  <1>11. PastVerbatim(lines, p) = Leave(lines, p, step)
    BY DEF PastVerbatim
  <1> HIDE DEF Inside, step
  <1> QED BY <1>7, <1>8, <1>9, <1>10, <1>11, LeaveIs

\* What is before the next place is before this one, or at it.
LEMMA BeforeNext ==
    ASSUME NEW lines, Text(lines), NEW k \in PlacesOf(lines), NEW m \in PlacesOf(lines)
    PROVE  /\ Before(m, On(k, 1)) <=> Before(m, k) \/ m = k
           /\ Before(m, On(k, 2)) <=> Before(m, k) \/ m = k \/ m = On(k, 1)
           /\ AtLineEnd(lines, k) => (Before(m, NextLine(k)) <=> Before(m, k) \/ m = k)
           /\ ~Before(k, k)
  <1>1. /\ k = <<k[1], k[2]>> /\ k[1] \in Nat /\ k[2] \in Nat \ {0}
        /\ m = <<m[1], m[2]>> /\ m[1] \in Nat /\ m[2] \in Nat \ {0}
        /\ m[2] <= Len(lines[m[1]]) + 1 /\ Len(lines[m[1]]) \in Nat
    BY PlaceType
  <1>2. m = k <=> m[1] = k[1] /\ m[2] = k[2]
    BY <1>1
  <1>3. Before(m, k) <=> m[1] < k[1] \/ (m[1] = k[1] /\ m[2] < k[2])
    BY <1>1, <1>2 DEF Before, NotAfter
  <1>4. ASSUME NEW n \in Nat
        PROVE  /\ Before(m, On(k, n)) <=> m[1] < k[1] \/ (m[1] = k[1] /\ m[2] < k[2] + n)
               /\ m = On(k, n) <=> m[1] = k[1] /\ m[2] = k[2] + n
    <2>1. m = On(k, n) <=> m[1] = k[1] /\ m[2] = k[2] + n
      BY <1>1 DEF On
    <2>2. NotAfter(m, On(k, n)) <=> m[1] < k[1] \/ (m[1] = k[1] /\ m[2] <= k[2] + n)
      BY <1>1 DEF On, NotAfter
    <2> QED BY <1>1, <2>1, <2>2 DEF Before
  <1>5. ASSUME AtLineEnd(lines, k)
        PROVE  Before(m, NextLine(k)) <=> Before(m, k) \/ m = k
    <2>1. k[2] > Len(lines[k[1]])
      BY <1>5 DEF AtLineEnd
    <2>2. m[1] = k[1] => m[2] <= k[2]
      BY <1>1, <2>1
    <2>3. NextLine(k)[1] = k[1] + 1 /\ NextLine(k)[2] = 1
      BY DEF NextLine
    <2>4. Before(m, NextLine(k)) <=> m[1] <= k[1]
      <3>1. NextLine(k) = m <=> m[1] = k[1] + 1 /\ m[2] = 1
        BY <1>1 DEF NextLine
      <3>2. NotAfter(m, NextLine(k)) <=> m[1] < k[1] + 1 \/ (m[1] = k[1] + 1 /\ m[2] <= 1)
        BY <2>3 DEF NotAfter
      <3> QED BY <1>1, <3>1, <3>2 DEF Before
    <2> QED BY <1>1, <1>2, <1>3, <2>2, <2>4
  <1>6. Before(m, On(k, 1)) <=> Before(m, k) \/ m = k
    BY <1>1, <1>2, <1>3, <1>4
  <1>7. Before(m, On(k, 2)) <=> Before(m, k) \/ m = k \/ m = On(k, 1)
    BY <1>1, <1>2, <1>3, <1>4
  <1> QED BY <1>5, <1>6, <1>7 DEF Before

\* A text has finitely many places.
LEMMA PlacesFinite ==
    ASSUME NEW lines, Text(lines)
    PROVE  IsFiniteSet(PlacesOf(lines))
  <1>0. Len(lines) \in Nat /\ \A l \in 1..Len(lines) : Len(lines[l]) \in Nat
    BY PlaceType
  <1>1. PICK wide \in Nat : \A l \in 1..Len(lines) : Len(lines[l]) + 1 <= wide
    BY EnoughIsWide
  <1>2. IsFiniteSet((1..Len(lines)) \X (1..wide))
    <2>1. IsFiniteSet(1..Len(lines)) /\ IsFiniteSet(1..wide)
      BY <1>0, FS_Interval
    <2> QED BY <2>1, FS_Product
  <1>3. PlacesOf(lines) \subseteq (1..Len(lines)) \X (1..wide)
    <2> SUFFICES ASSUME NEW p \in PlacesOf(lines) PROVE p \in (1..Len(lines)) \X (1..wide)
      OBVIOUS
    <2>1. p = <<p[1], p[2]>> /\ p[1] \in 1..Len(lines) /\ p[2] \in Nat \ {0} /\ p[2] <= Len(lines[p[1]]) + 1
      BY PlaceType
    <2> QED BY <1>0, <1>1, <2>1
  <1> QED BY <1>2, <1>3, FS_Subset

\* How many places of a set are before a place.
NumberBefore(S, k) == Cardinality({m \in S : Before(m, k)})

\* One step further on the place itself is counted, if it is in the set.
LEMMA CountsOn ==
    ASSUME NEW lines, Text(lines), NEW S \in SUBSET PlacesOf(lines), NEW k \in PlacesOf(lines), NEW x,
           \A m \in S : Before(m, x) <=> Before(m, k) \/ m = k
    PROVE  /\ NumberBefore(S, k) \in Nat
           /\ NumberBefore(S, x) = IF k \in S THEN NumberBefore(S, k) + 1 ELSE NumberBefore(S, k)
  <1> DEFINE B == {m \in S : Before(m, k)}
             C == {m \in S : Before(m, x)}
  <1>1. IsFiniteSet(B)
    BY PlacesFinite, FS_Subset
  <1>2. Cardinality(B) \in Nat
    BY <1>1, FS_CardinalityType
  <1>3. k \notin B
    BY DEF Before
  <1>4. CASE k \in S
    <2>1. C = B \cup {k}
      BY <1>4
    <2>2. Cardinality(C) = Cardinality(B) + 1
      <3> HIDE DEF B, C
      <3> QED BY <1>1, <1>3, <2>1, FS_AddElement
    <2> QED BY <1>2, <1>4, <2>2 DEF NumberBefore
  <1>5. CASE k \notin S
    <2>1. C = B
      BY <1>5
    <2> QED BY <1>2, <1>5, <2>1 DEF NumberBefore
  <1> QED BY <1>4, <1>5

\* A comment ends where every comment opened in it is closed.
LEMMA PastNestedIs ==
    ASSUME NEW lines, Text(lines), NEW first, NEW p \in PlacesOf(lines), p = On(first, 2),
           NEW q, NestedComment(lines, first, q)
    PROVE  PastNested(lines, p) = q
  <1> USE DEF Reader
  <1> DEFINE Begins(k) == Sees(lines, k, <<"/", "*">>)
             Ended(k) == Sees(lines, k, <<"*", "/">>)
             Depth(opening, closing, k) == 1 + NumberBefore(opening, k) - NumberBefore(closing, k)
             Matched(opening, closing, inside, r) ==
                /\ \A k \in opening \cup closing : On(k, 1) \notin opening \cup closing
                /\ \A k \in inside : Begins(k) \/ Ended(k)
                                     => k \in opening \cup closing \/ \E m \in opening \cup closing : k = On(m, 1)
                /\ \A k \in inside : Depth(opening, closing, k) > 0
                /\ r \in closing /\ Depth(opening, closing, q) = 0
  <1>1. PICK r \in PlacesOf(lines) :
            /\ NotAfter(p, r) /\ q = On(r, 2)
            /\ \E opening \in SUBSET {k \in PlacesUpTo(lines, p, On(r, 1)) : Begins(k)},
                  closing \in SUBSET {k \in PlacesUpTo(lines, p, On(r, 1)) : Ended(k)} :
                     Matched(opening, closing, PlacesUpTo(lines, p, On(r, 1)), r)
    BY DEF NestedComment, NumberBefore
  <1> DEFINE inside == PlacesUpTo(lines, p, On(r, 1))
  <1>2. PICK opening \in SUBSET {k \in inside : Begins(k)}, closing \in SUBSET {k \in inside : Ended(k)} :
                     Matched(opening, closing, inside, r)
    BY <1>1
  <1>0. NotAfter(p, r) /\ q = On(r, 2)
    BY <1>1
  <1> DEFINE marks == opening \cup closing
             D(k) == Depth(opening, closing, k)
             Open == {k \in PlacesOf(lines) : NotAfter(p, k) /\ NotAfter(k, r) /\ \A m \in marks : k # On(m, 1)}
             Inside == {s \in Reader : s.at \in Open /\ s.depth = D(s.at)}
             step == [s \in Reader |->
                IF s.depth = 0 \/ s.at[1] > Len(lines) THEN s
                ELSE IF AtLineEnd(lines, s.at) THEN [at |-> NextLine(s.at), depth |-> s.depth]
                ELSE IF Begins(s.at) THEN [at |-> On(s.at, 2), depth |-> s.depth + 1]
                ELSE IF Ended(s.at) THEN [at |-> On(s.at, 2), depth |-> s.depth - 1]
                ELSE [at |-> On(s.at, 1), depth |-> s.depth]]
             done == [at |-> q, depth |-> 0]
             begun == [at |-> p, depth |-> 1]
  <1>3. \A k \in PlacesOf(lines) :
            /\ k \in Nat \X Nat /\ k = <<k[1], k[2]>> /\ k[1] \in Nat /\ k[2] \in Nat \ {0}
            /\ k[1] \in 1..Len(lines) /\ ~(k[1] > Len(lines))
    BY PlaceType, MovesOn
  <1>4. \A k \in PlacesOf(lines) :
            /\ Begins(k) <=> Char(lines, k, "/") /\ Char(lines, On(k, 1), "*")
            /\ Ended(k) <=> Char(lines, k, "*") /\ Char(lines, On(k, 1), "/")
    BY <1>3, SeesTwo
  <1>5. \A k \in PlacesOf(lines) : /\ ~(Begins(k) /\ Ended(k))
                                   /\ Begins(k) \/ Ended(k) => ~AtLineEnd(lines, k) /\ ~AtLineEnd(lines, On(k, 1))
    <2> SUFFICES ASSUME NEW k \in PlacesOf(lines)
                 PROVE  /\ ~(Begins(k) /\ Ended(k))
                        /\ Begins(k) \/ Ended(k) => ~AtLineEnd(lines, k) /\ ~AtLineEnd(lines, On(k, 1))
      OBVIOUS
    <2>1. /\ Begins(k) <=> Char(lines, k, "/") /\ Char(lines, On(k, 1), "*")
          /\ Ended(k) <=> Char(lines, k, "*") /\ Char(lines, On(k, 1), "/")
      BY <1>4
    <2>2. ~(Char(lines, k, "/") /\ Char(lines, k, "*"))
      BY DEF Char
    <2> HIDE DEF Begins, Ended
    <2>3. Begins(k) \/ Ended(k) => ~AtLineEnd(lines, k) /\ ~AtLineEnd(lines, On(k, 1))
      BY <2>1, MovesOn
    <2> QED BY <2>1, <2>2, <2>3
  <1>6. /\ opening \subseteq inside /\ closing \subseteq inside /\ inside \subseteq PlacesOf(lines)
        /\ marks \subseteq PlacesOf(lines)
        /\ \A k \in opening : Begins(k)
        /\ \A k \in closing : Ended(k)
        /\ r \in closing
    BY <1>2 DEF PlacesUpTo
  <1>7. ~AtLineEnd(lines, r)
    BY <1>5, <1>6
  <1>8. \A k \in inside : D(k) > 0
    BY <1>2
  <1>9. \A k \in Open : k \in inside /\ (Begins(k) => k \in opening /\ k \notin closing)
                                     /\ (Ended(k) => k \in closing /\ k \notin opening)
    <2> SUFFICES ASSUME NEW k \in Open
                 PROVE  k \in inside /\ (Begins(k) => k \in opening /\ k \notin closing)
                                     /\ (Ended(k) => k \in closing /\ k \notin opening)
      OBVIOUS
    <2>1. Before(k, On(r, 1))
      BY BeforeNext DEF Before
    <2>2. k \in inside
      BY <2>1 DEF PlacesUpTo
    <2>3. Begins(k) \/ Ended(k) => k \in marks
      BY <1>2, <2>2
    <2> HIDE DEF Begins, Ended, inside
    <2> QED BY <1>5, <1>6, <2>2, <2>3
  <1>10. /\ \A k \in marks : On(k, 1) \notin marks
         /\ D(q) = 0
    BY <1>2
  <1>11. ASSUME NEW k \in PlacesOf(lines), NEW x, \A m \in marks : Before(m, x) <=> Before(m, k) \/ m = k
         PROVE  /\ k \notin marks => D(x) = D(k)
                /\ k \in opening /\ k \notin closing => D(x) = D(k) + 1
                /\ k \in closing /\ k \notin opening => D(x) = D(k) - 1
                /\ D(k) \in Int
    <2>1. /\ opening \in SUBSET PlacesOf(lines) /\ closing \in SUBSET PlacesOf(lines)
          /\ \A m \in opening : Before(m, x) <=> Before(m, k) \/ m = k
          /\ \A m \in closing : Before(m, x) <=> Before(m, k) \/ m = k
      BY <1>6, <1>11
    <2>2. /\ NumberBefore(opening, k) \in Nat
          /\ NumberBefore(opening, x) = IF k \in opening THEN NumberBefore(opening, k) + 1 ELSE NumberBefore(opening, k)
      BY <2>1, CountsOn
    <2>3. /\ NumberBefore(closing, k) \in Nat
          /\ NumberBefore(closing, x) = IF k \in closing THEN NumberBefore(closing, k) + 1 ELSE NumberBefore(closing, k)
      BY <2>1, CountsOn
    <2> QED BY <2>2, <2>3
  <1>12. begun \in Inside
    <2>1. p \in Nat \X Nat /\ NotAfter(p, p) /\ NotAfter(p, r)
      BY <1>0, <1>3, PlaceOrder
    <2>2. \A m \in marks : NotAfter(p, m) /\ m \in PlacesOf(lines)
      BY <1>6 DEF PlacesUpTo
    <2>3. ASSUME NEW m \in marks PROVE p # On(m, 1)
      BY <1>3, <2>2 DEF NotAfter, On
    <2>4. \A m \in marks : ~Before(m, p)
      BY <2>2, PlaceOrder DEF Before
    <2>5. NumberBefore(opening, p) = 0 /\ NumberBefore(closing, p) = 0
      <3>1. {m \in opening : Before(m, p)} = {} /\ {m \in closing : Before(m, p)} = {}
        BY <2>4
      <3> QED BY <3>1, FS_EmptySet DEF NumberBefore
    <2>6. D(p) = 1
      BY <2>5
    <2>7. p \in Open
      BY <2>1, <2>3
    <2> HIDE DEF Open, D
    <2> QED BY <2>1, <2>6, <2>7
  <1>13. ASSUME NEW s \in Inside
         PROVE  step[s] = done \/ (step[s] \in Inside /\ Before(s.at, step[s].at))
    <2> DEFINE k == s.at
    <2>0. /\ s \in Reader /\ k \in Open /\ k \in PlacesOf(lines) /\ k \in Nat \X Nat
          /\ NotAfter(p, k) /\ NotAfter(k, r) /\ ~(k[1] > Len(lines))
          /\ s.depth = D(k) /\ s.depth \in Nat /\ k \in inside
      BY <1>3, <1>9
    <2>1. s.depth # 0
      <3>1. D(k) > 0
        BY <1>8, <2>0
      <3> QED BY <2>0, <3>1
    <2> HIDE DEF D, Begins, Ended, inside
    <2>2. ASSUME NEW x \in PlacesOf(lines), x \in Nat \X Nat, NotAfter(x, r), Before(k, x),
                 \A m \in marks : x # On(m, 1), NEW d, d = D(x), step[s] = [at |-> x, depth |-> d]
          PROVE  step[s] \in Inside /\ Before(s.at, step[s].at)
      <3>1. NotAfter(p, x)
        BY <2>0, <2>2, PlaceOrder DEF Before
      <3>2. x \in Open
        BY <2>2, <3>1
      <3>3. D(x) > 0
        BY <1>8, <1>9, <3>2
      <3>4. D(x) \in Int
        BY <1>11, <2>2, BeforeNext
      <3>5. d \in Nat
        BY <2>2, <3>3, <3>4
      <3> HIDE DEF Open
      <3> QED BY <2>0, <2>2, <3>2, <3>5
    <2>3. CASE AtLineEnd(lines, k)
      <3>1. /\ NextLine(k) \in PlacesOf(lines) /\ NextLine(k) \in Nat \X Nat
            /\ NotAfter(NextLine(k), r) /\ Before(k, NextLine(k))
        BY <1>7, <2>0, <2>3, GoesOn
      <3>2. ASSUME NEW m \in marks PROVE NextLine(k) # On(m, 1)
        <4>1. m[2] \in Nat \ {0}
          BY <1>3, <1>6
        <4> QED BY <4>1 DEF NextLine, On
      <3>3. step[s] = [at |-> NextLine(k), depth |-> s.depth]
        BY <2>0, <2>1, <2>3
      <3>4. k \notin marks
        BY <1>5, <1>6, <2>0, <2>3
      <3>5. s.depth = D(NextLine(k))
        BY <1>6, <1>11, <2>0, <2>3, <3>4, BeforeNext
      <3> QED BY <2>2, <3>1, <3>2, <3>3, <3>5
    <2>4. ASSUME k \in marks, k # r
          PROVE  /\ On(k, 2) \in PlacesOf(lines) /\ On(k, 2) \in Nat \X Nat
                 /\ NotAfter(On(k, 2), r) /\ Before(k, On(k, 2))
                 /\ \A m \in marks : On(k, 2) # On(m, 1)
      <3>1. On(k, 1) \notin marks /\ On(k, 1) # r
        BY <1>6, <1>10, <2>4
      <3>2. ~AtLineEnd(lines, k) /\ ~AtLineEnd(lines, On(k, 1))
        BY <1>5, <1>6, <2>0, <2>4
      <3>3. ASSUME NEW m \in marks PROVE On(k, 2) # On(m, 1)
        <4>1. m \in PlacesOf(lines) /\ m \in Nat \X Nat
          BY <1>3, <1>6
        <4>2. On(k, 2) = On(On(k, 1), 1) /\ On(k, 1) \in Nat \X Nat
          BY <2>0, OnIs
        <4>3. m # On(k, 1)
          BY <3>1
        <4> HIDE DEF marks
        <4> QED BY <4>1, <4>2, <4>3, OnIs
      <3> QED BY <1>7, <2>0, <2>4, <3>1, <3>2, <3>3, GoesOn
    <2>5. k \in marks => \A m \in marks : Before(m, On(k, 2)) <=> Before(m, k) \/ m = k
      BY <1>6, <1>10, <2>0, BeforeNext
    <2>6. CASE ~AtLineEnd(lines, k) /\ Begins(k)
      <3>1. k \in opening /\ k \notin closing /\ k # r
        BY <1>6, <1>9, <2>0, <2>6
      <3>2. D(On(k, 2)) = s.depth + 1
        BY <1>11, <2>0, <2>5, <3>1
      <3>3. step[s] = [at |-> On(k, 2), depth |-> s.depth + 1]
        BY <2>0, <2>1, <2>6
      <3> QED BY <2>2, <2>4, <3>1, <3>2, <3>3
    <2>7. CASE ~AtLineEnd(lines, k) /\ ~Begins(k) /\ Ended(k)
      <3>1. k \in closing /\ k \notin opening
        BY <1>9, <2>0, <2>7
      <3>2. D(On(k, 2)) = s.depth - 1
        BY <1>11, <2>0, <2>5, <3>1
      <3>3. step[s] = [at |-> On(k, 2), depth |-> s.depth - 1]
        BY <2>0, <2>1, <2>7
      <3>4. CASE k = r
        BY <1>0, <1>10, <3>2, <3>3, <3>4
      <3>5. CASE k # r
        BY <2>2, <2>4, <3>1, <3>2, <3>3, <3>5
      <3> QED BY <3>4, <3>5
    <2>8. CASE ~AtLineEnd(lines, k) /\ ~Begins(k) /\ ~Ended(k)
      <3>1. k \notin marks /\ k # r
        BY <1>6, <2>8
      <3>2. /\ On(k, 1) \in PlacesOf(lines) /\ On(k, 1) \in Nat \X Nat
            /\ NotAfter(On(k, 1), r) /\ Before(k, On(k, 1))
        BY <1>7, <2>0, <2>8, <3>1, GoesOn
      <3>3. ASSUME NEW m \in marks PROVE On(k, 1) # On(m, 1)
        <4>1. m \in Nat \X Nat /\ m # k
          BY <1>3, <1>6, <3>1
        <4> QED BY <2>0, <4>1, OnIs
      <3>4. step[s] = [at |-> On(k, 1), depth |-> s.depth]
        BY <2>0, <2>1, <2>8
      <3>5. s.depth = D(On(k, 1))
        BY <1>6, <1>11, <2>0, <3>1, BeforeNext
      <3> QED BY <2>2, <3>2, <3>3, <3>4, <3>5
    <2> QED BY <2>3, <2>6, <2>7, <2>8
  <1>14. step[done] = done
    <2>1. r \in Nat \X Nat
      BY <1>3
    <2>2. q \in Nat \X Nat
      BY <1>0, <2>1, OnIs
    <2> QED BY <2>2
  <1>15. \A s \in Inside : s.at \in PlacesOf(lines)
    OBVIOUS
  <1>16. PastNested(lines, p) = Leave(lines, p, step)
    BY DEF PastNested
  <1> HIDE DEF Inside, step
  <1> QED BY <1>12, <1>13, <1>14, <1>15, <1>16, LeaveIs

-----------------------------------------------------------------------------
(* The lexemes of each language.                                            *)

\* What is seen at a place, in terms of its characters.
LEMMA WordsAre ==
    ASSUME NEW lines, Text(lines), NEW p \in PlacesOf(lines)
    PROVE  /\ \A a : Sees(lines, p, <<a>>) <=> Char(lines, p, a)
           /\ \A a, b : Sees(lines, p, <<a, b>>) <=> Char(lines, p, a) /\ Char(lines, On(p, 1), b)
           /\ \A a, b, c : Sees(lines, p, <<a, b, c>>)
                              <=> Char(lines, p, a) /\ Char(lines, On(p, 1), b) /\ Char(lines, On(p, 2), c)
           /\ \A n \in Nat : \A a : Sees(lines, On(p, n), <<a>>) <=> Char(lines, On(p, n), a)
           /\ \A n, m \in Nat : On(On(p, n), m) = On(p, n + m)
           /\ \A x, a, b : Char(lines, x, a) /\ Char(lines, x, b) => a = b
  <1>1. p \in Nat \X Nat /\ p[1] \in 1..Len(lines)
    BY MovesOn
  <1>2. \A n \in Nat : On(p, n) \in Nat \X Nat
    BY <1>1, OnIs
  <1>3. \A a : Sees(lines, p, <<a>>) <=> Char(lines, p, a)
    BY <1>1, SeesOne
  <1>4. \A a, b : Sees(lines, p, <<a, b>>) <=> Char(lines, p, a) /\ Char(lines, On(p, 1), b)
    BY <1>1, SeesTwo
  <1>5. \A a, b, c : Sees(lines, p, <<a, b, c>>)
                        <=> Char(lines, p, a) /\ Char(lines, On(p, 1), b) /\ Char(lines, On(p, 2), c)
    BY <1>1, SeesThree
  <1>6. \A n \in Nat : \A a : Sees(lines, On(p, n), <<a>>) <=> Char(lines, On(p, n), a)
    BY <1>2, SeesOne
  <1>7. \A n, m \in Nat : On(On(p, n), m) = On(p, n + m)
    BY <1>1, OnIs
  <1>8. \A x, a, b : Char(lines, x, a) /\ Char(lines, x, b) => a = b
    BY DEF Char
  <1> QED BY <1>3, <1>4, <1>5, <1>6, <1>7, <1>8

\* Strings, from their opening quote on.
LEMMA StringIs ==
    ASSUME NEW lines, Text(lines), NEW p \in PlacesOf(lines), NEW n \in Nat, NEW q,
           Char(lines, On(p, n), Quote)
    PROVE  /\ Quoted(lines, On(p, n + 1), q) => PastQuote(lines, On(p, n + 1)) = q
           /\ Verbatim(lines, On(p, n + 1), q) => PastVerbatim(lines, On(p, n + 1)) = q
  <1>1. On(p, n + 1) \in PlacesOf(lines)
    BY MovesOn
  <1> QED BY <1>1, PastQuoteIs, PastVerbatimIs

\* No columns further on is the same place.
LEMMA OnNone ==
    ASSUME NEW lines, Text(lines), NEW p \in PlacesOf(lines)
    PROVE  On(p, 0) = p
  BY PlaceType DEF On

\* An escaped character that is not misread.
LEMMA EscapeIs ==
    ASSUME NEW lines, Text(lines), NEW p \in PlacesOf(lines), NEW q, EscapedChar(lines, p, q)
    PROVE  /\ Char(lines, p, "'") /\ Char(lines, On(p, 1), "\\")
           /\ LET k == Find(lines, On(p, 3), <<"'">>) IN k # 0 /\ <<p[1], k + 1>> = q
           /\ q = On(p, 4) => Sees(lines, On(p, 3), <<"'">>)
           /\ ~Sees(lines, On(p, 2), <<"'">>) /\ ~(q[2] > p[2] + 5) =>
                 LET k == Find(lines, On(p, 2), <<"'">>)
                 IN  k # 0 /\ <<p[1], k + 1>> = q /\ k <= p[2] + 4 /\ ~AtLineEnd(lines, On(p, 2))
  <1>1. Char(lines, p, "'") /\ Char(lines, On(p, 1), "\\")
    BY WordsAre DEF EscapedChar
  <1>2. /\ p = <<p[1], p[2]>> /\ p[1] \in Nat /\ p[2] \in Nat \ {0} /\ p \in Nat \X Nat
        /\ p[1] \in 1..Len(lines) /\ Len(lines[p[1]]) \in Nat
    BY PlaceType
  <1>3. \A n \in Nat : On(p, n) \in Nat \X Nat /\ On(p, n)[1] = p[1] /\ On(p, n)[2] = p[2] + n
    BY <1>2, OnIs
  <1>3a. /\ On(p, 2) \in Nat \X Nat /\ On(p, 2)[1] = p[1] /\ On(p, 2)[2] = p[2] + 2 /\ On(p, 2)[2] # 0
         /\ On(p, 3) \in Nat \X Nat /\ On(p, 3)[1] = p[1] /\ On(p, 3)[2] = p[2] + 3 /\ On(p, 3)[2] # 0
    <2>1. /\ On(p, 2) \in Nat \X Nat /\ On(p, 2)[1] = p[1] /\ On(p, 2)[2] = p[2] + 2
          /\ On(p, 3) \in Nat \X Nat /\ On(p, 3)[1] = p[1] /\ On(p, 3)[2] = p[2] + 3
      BY <1>3
    <2> QED BY <1>2, <2>1
  <1>4. EndsWith(lines, On(p, 3), <<"'">>, q) /\ q[1] = p[1]
    BY DEF EscapedChar
  <1>5. LET k == Find(lines, On(p, 3), <<"'">>) IN k # 0 /\ <<p[1], k + 1>> = q
    <2>1. On(p, 3) \in Nat \X Nat /\ On(p, 3)[2] # 0 /\ On(p, 3)[1] = p[1]
      BY <1>3a
    <2> QED BY <1>4, <2>1, FindIs
  <1>6. PICK r \in PlacesOf(lines) :
            /\ NotAfter(On(p, 3), r) /\ q = On(r, Len(<<"'">>))
            /\ Sees(lines, r, <<"'">>)
            /\ \A k \in PlacesUpTo(lines, On(p, 3), r) : ~Sees(lines, k, <<"'">>)
    BY <1>4 DEF EndsWith
  <1>7. /\ q = On(r, 1) /\ r \in Nat \X Nat /\ r[1] = p[1] /\ p[2] + 3 <= r[2] /\ r[2] <= Len(lines[p[1]])
        /\ r[2] \in Nat
    <2>1. q = On(r, 1)
      BY <1>6
    <2>2. r \in Nat \X Nat /\ r[2] \in Nat /\ r[1] = p[1]
      BY <1>4, <2>1, PlaceType DEF On
    <2>3. p[2] + 3 <= r[2]
      BY <1>2, <1>3a, <1>6, <2>2 DEF NotAfter
    <2>4. r[2] <= Len(lines[p[1]])
      BY <1>6, <2>2, SeesOne DEF Char
    <2> QED BY <2>1, <2>2, <2>3, <2>4
  <1>8. q = On(p, 4) => Sees(lines, On(p, 3), <<"'">>)
    <2> SUFFICES ASSUME q = On(p, 4) PROVE Sees(lines, On(p, 3), <<"'">>)
      OBVIOUS
    <2>1. On(p, 4) = On(On(p, 3), 1) /\ On(p, 3) \in Nat \X Nat
      BY <1>3a, WordsAre
    <2>2. r = On(p, 3)
      BY <1>7, <2>1, OnIs
    <2> QED BY <1>6, <2>2
  <1>9. ASSUME ~Sees(lines, On(p, 2), <<"'">>), ~(q[2] > p[2] + 5)
        PROVE  LET k == Find(lines, On(p, 2), <<"'">>)
               IN  k # 0 /\ <<p[1], k + 1>> = q /\ k <= p[2] + 4 /\ ~AtLineEnd(lines, On(p, 2))
    <2>1. ASSUME NEW k \in PlacesUpTo(lines, On(p, 2), r) PROVE ~Sees(lines, k, <<"'">>)
      <3>1. /\ k \in PlacesOf(lines) /\ NotAfter(On(p, 2), k) /\ Before(k, r)
            /\ k = <<k[1], k[2]>> /\ k[1] \in Nat /\ k[2] \in Nat
        BY PlaceType DEF PlacesUpTo
      <3>2. CASE k = On(p, 2)
        BY <1>9, <3>2
      <3>3. CASE k # On(p, 2)
        <4>1. NotAfter(On(p, 3), k)
          <5>1. On(p, 2) = <<p[1], p[2] + 2>>
            BY DEF On
          <5>2. ~(k[1] = p[1] /\ k[2] = p[2] + 2)
            BY <3>1, <3>3, <5>1
          <5> QED BY <1>2, <1>3a, <3>1, <5>2 DEF NotAfter
        <4>2. k \in PlacesUpTo(lines, On(p, 3), r)
          BY <3>1, <4>1 DEF PlacesUpTo
        <4> QED BY <1>6, <4>2
      <3> QED BY <3>2, <3>3
    <2>2. NotAfter(On(p, 2), r)
      BY <1>2, <1>3a, <1>7 DEF NotAfter
    <2>3. EndsWith(lines, On(p, 2), <<"'">>, q)
      BY <1>6, <2>1, <2>2 DEF EndsWith
    <2>4. On(p, 2) \in Nat \X Nat /\ On(p, 2)[2] # 0 /\ On(p, 2)[1] = p[1]
      BY <1>3a
    <2> DEFINE k == Find(lines, On(p, 2), <<"'">>)
    <2>5. k \in Nat \ {0} /\ q = <<p[1], k + 1>> /\ q[2] = k + 1
      BY <1>4, <2>3, <2>4, FindIs
    <2> HIDE DEF k
    <2>6. ~AtLineEnd(lines, On(p, 2))
      <3>1. p[2] + 2 <= Len(lines[p[1]])
        BY <1>2, <1>7
      <3> QED BY <1>2, <1>3a, <3>1 DEF AtLineEnd
    <2>7. k <= p[2] + 4
      BY <1>2, <1>9, <2>5
    <2>8. k # 0 /\ <<p[1], k + 1>> = q
      BY <2>5
    <2> QED BY <2>6, <2>7, <2>8 DEF k
  <1> QED BY <1>1, <1>5, <1>8, <1>9

\* What begins with a quote other than that of a string.
LEMMA LiteralIs ==
    ASSUME NEW lines, Text(lines), NEW p \in PlacesOf(lines), NEW q, CharLiteral(lines, p, q)
    PROVE  /\ Char(lines, p, "'") /\ ~Sees(lines, On(p, 1), <<"\\">>) /\ Sees(lines, On(p, 2), <<"'">>)
           /\ ~AtLineEnd(lines, On(p, 1)) /\ q = On(p, 3) /\ q # p
  <1>1. /\ Char(lines, p, "'") /\ ~Sees(lines, On(p, 1), <<"\\">>) /\ Sees(lines, On(p, 2), <<"'">>)
        /\ q = On(p, 3)
    BY WordsAre DEF CharLiteral
  <1>2. Char(lines, On(p, 2), "'")
    BY <1>1, WordsAre
  <1>3. p[2] \in Nat /\ p[2] + 2 <= Len(lines[p[1]]) /\ Len(lines[p[1]]) \in Nat
    BY <1>2, PlaceType DEF Char, On
  <1>4. ~AtLineEnd(lines, On(p, 1))
    BY <1>3 DEF AtLineEnd, On
  <1>5. q # p
    BY <1>1, <1>3 DEF On
  <1> QED BY <1>1, <1>4, <1>5

\* What begins in C without being a brace ends where the code says.
LEMMA LexemeCIs ==
    ASSUME NEW lines, Text(lines), NEW p \in PlacesOf(lines), NEW q,
           ~AtLineEnd(lines, p), NoBrace("c", lines, p, q),
           ~(EscapedChar(lines, p, q) /\ q # On(p, 4))
    PROVE  LexemeC(lines, p) = q /\ ~Sees(lines, p, <<LeftBrace>>) /\ ~Sees(lines, p, <<RightBrace>>)
  <1>0. On(p, 0) = p
    BY OnNone
  <1>1. /\ \A a : Sees(lines, p, <<a>>) <=> Char(lines, p, a)
        /\ \A a, b : Sees(lines, p, <<a, b>>) <=> Char(lines, p, a) /\ Char(lines, On(p, 1), b)
        /\ \A x, a, b : Char(lines, x, a) /\ Char(lines, x, b) => a = b
    BY WordsAre
  <1>2. \A a \in {"/", "'", Quote} : Char(lines, p, a) =>
                ~Sees(lines, p, <<LeftBrace>>) /\ ~Sees(lines, p, <<RightBrace>>)
    BY <1>1, CharactersDiffer
  <1>3. CASE OtherCharacter("c", lines, p) /\ q = On(p, 1)
    BY <1>3 DEF OtherCharacter, LexemeC
  <1>4. CASE LineComment(lines, p, q)
    BY <1>1, <1>2, <1>4, CharactersDiffer DEF LineComment, LexemeC
  <1>5. CASE BlockComment(lines, p, q)
    <2>1. Past(lines, On(p, 2), <<"*", "/">>) = q
      BY <1>5, PastIs DEF BlockComment
    <2> QED BY <1>1, <1>2, <1>5, <2>1, CharactersDiffer DEF BlockComment, LexemeC
  <1>6. CASE Sees(lines, p, <<Quote>>) /\ Quoted(lines, On(p, 1), q)
    <2>1. Char(lines, On(p, 0), Quote)
      BY <1>0, <1>1, <1>6
    <2>2. PastQuote(lines, On(p, 1)) = q
      BY <1>6, <2>1, StringIs
    <2> QED BY <1>1, <1>2, <1>6, <2>2, CharactersDiffer DEF LexemeC
  <1>7. CASE CharLiteral(lines, p, q)
    <2>1. PastCharC(lines, p) = q
      BY <1>7, LiteralIs, WordsAre DEF PastCharC
    <2> QED BY <1>1, <1>2, <1>7, <2>1, LiteralIs, CharactersDiffer DEF LexemeC
  <1>8. CASE EscapedChar(lines, p, q)
    <2>1. PastCharC(lines, p) = q
      BY <1>8, EscapeIs, WordsAre DEF PastCharC
    <2> QED BY <1>1, <1>2, <1>8, <2>1, EscapeIs, CharactersDiffer DEF LexemeC
  <1> QED BY <1>3, <1>4, <1>5, <1>6, <1>7, <1>8 DEF NoBrace

\* The same in Go.
LEMMA LexemeGoIs ==
    ASSUME NEW lines, Text(lines), NEW p \in PlacesOf(lines), NEW q,
           ~AtLineEnd(lines, p), NoBrace("go", lines, p, q)
    PROVE  LexemeGo(lines, p) = q /\ ~Sees(lines, p, <<LeftBrace>>) /\ ~Sees(lines, p, <<RightBrace>>)
  <1>0. On(p, 0) = p
    BY OnNone
  <1>1. /\ \A a : Sees(lines, p, <<a>>) <=> Char(lines, p, a)
        /\ \A a, b : Sees(lines, p, <<a, b>>) <=> Char(lines, p, a) /\ Char(lines, On(p, 1), b)
        /\ \A x, a, b : Char(lines, x, a) /\ Char(lines, x, b) => a = b
    BY WordsAre
  <1>2. \A a \in {"/", "'", Quote, Backtick} : Char(lines, p, a) =>
                ~Sees(lines, p, <<LeftBrace>>) /\ ~Sees(lines, p, <<RightBrace>>)
    BY <1>1, CharactersDiffer DEF Backtick
  <1>3. CASE OtherCharacter("go", lines, p) /\ q = On(p, 1)
    BY <1>3 DEF OtherCharacter, LexemeGo
  <1>4. CASE LineComment(lines, p, q)
    BY <1>1, <1>2, <1>4, CharactersDiffer DEF LineComment, LexemeGo, Backtick
  <1>5. CASE BlockComment(lines, p, q)
    <2>1. Past(lines, On(p, 2), <<"*", "/">>) = q
      BY <1>5, PastIs DEF BlockComment
    <2> QED BY <1>1, <1>2, <1>5, <2>1, CharactersDiffer DEF BlockComment, LexemeGo, Backtick
  <1>6. CASE Sees(lines, p, <<Quote>>) /\ Quoted(lines, On(p, 1), q)
    <2>1. Char(lines, On(p, 0), Quote)
      BY <1>0, <1>1, <1>6
    <2>2. PastQuote(lines, On(p, 1)) = q
      BY <1>6, <2>1, StringIs
    <2> QED BY <1>1, <1>2, <1>6, <2>2, CharactersDiffer DEF LexemeGo, Backtick
  <1>7. CASE CharLiteral(lines, p, q)
    <2>1. PastRune(lines, p) = q
      BY <1>7, LiteralIs DEF PastRune
    <2> QED BY <1>1, <1>2, <1>7, <2>1, LiteralIs, CharactersDiffer DEF LexemeGo, Backtick
  <1>8. CASE EscapedChar(lines, p, q)
    <2>1. Sees(lines, On(p, 1), <<"\\">>)
      BY <1>8, EscapeIs, WordsAre
    <2>2. PastRune(lines, p) = q
      BY <1>8, <2>1, EscapeIs DEF PastRune
    <2> QED BY <1>1, <1>2, <1>8, <2>2, EscapeIs, CharactersDiffer DEF LexemeGo, Backtick
  <1>9. CASE RawGoString(lines, p, q)
    <2>1. Past(lines, On(p, 1), <<Backtick>>) = q
      BY <1>9, PastIs DEF RawGoString
    <2> QED BY <1>1, <1>2, <1>9, <2>1, CharactersDiffer DEF RawGoString, LexemeGo, Backtick
  <1> QED BY <1>3, <1>4, <1>5, <1>6, <1>7, <1>8, <1>9 DEF NoBrace

\* The same in C#.
LEMMA LexemeSharpIs ==
    ASSUME NEW lines, Text(lines), NEW p \in PlacesOf(lines), NEW q, q # p,
           ~AtLineEnd(lines, p), NoBrace("csharp", lines, p, q),
           ~(EscapedChar(lines, p, q) /\ (q[2] > p[2] + 5 \/ Sees(lines, On(p, 2), <<"'">>)))
    PROVE  LexemeSharp(lines, p) = q /\ ~Sees(lines, p, <<LeftBrace>>) /\ ~Sees(lines, p, <<RightBrace>>)
  <1>0. On(p, 0) = p
    BY OnNone
  <1>1. /\ \A a : Sees(lines, p, <<a>>) <=> Char(lines, p, a)
        /\ \A a, b : Sees(lines, p, <<a, b>>) <=> Char(lines, p, a) /\ Char(lines, On(p, 1), b)
        /\ \A a, b, c : Sees(lines, p, <<a, b, c>>)
                           <=> Char(lines, p, a) /\ Char(lines, On(p, 1), b) /\ Char(lines, On(p, 2), c)
        /\ \A x, a, b : Char(lines, x, a) /\ Char(lines, x, b) => a = b
    BY WordsAre
  <1>2. \A a \in {"/", "'", Quote, "@", "$"} : Char(lines, p, a) =>
                ~Sees(lines, p, <<LeftBrace>>) /\ ~Sees(lines, p, <<RightBrace>>)
    BY <1>1, CharactersDiffer
  <1>3. \A a \in {"/", "'", Quote} : Char(lines, p, a) => PastPrefixed(lines, p) = p
    BY <1>1, CharactersDiffer DEF PastPrefixed
  <1>4. CASE OtherCharacter("csharp", lines, p) /\ q = On(p, 1)
    <2>1. PastPrefixed(lines, p) = p
      BY <1>4 DEF OtherCharacter, VerbatimPrefixes, PastPrefixed
    <2> QED BY <1>4, <2>1 DEF OtherCharacter, LexemeSharp
  <1>5. CASE LineComment(lines, p, q)
    BY <1>1, <1>2, <1>3, <1>5, CharactersDiffer DEF LineComment, LexemeSharp
  <1>6. CASE BlockComment(lines, p, q)
    <2>1. Past(lines, On(p, 2), <<"*", "/">>) = q
      BY <1>6, PastIs DEF BlockComment
    <2> QED BY <1>1, <1>2, <1>3, <1>6, <2>1, CharactersDiffer DEF BlockComment, LexemeSharp
  <1>7. CASE Sees(lines, p, <<Quote>>) /\ Quoted(lines, On(p, 1), q)
    <2>1. Char(lines, On(p, 0), Quote)
      BY <1>0, <1>1, <1>7
    <2>2. PastQuote(lines, On(p, 1)) = q
      BY <1>7, <2>1, StringIs
    <2> QED BY <1>1, <1>2, <1>3, <1>7, <2>2, CharactersDiffer DEF LexemeSharp
  <1>8. CASE CharLiteral(lines, p, q)
    <2>1. PastCharSharp(lines, p) = q
      BY <1>8, LiteralIs DEF PastCharSharp
    <2> QED BY <1>1, <1>2, <1>3, <1>8, <2>1, LiteralIs, CharactersDiffer DEF LexemeSharp
  <1>9. CASE EscapedChar(lines, p, q)
    <2>1. Sees(lines, On(p, 1), <<"\\">>)
      BY <1>9, EscapeIs, WordsAre
    <2>2. PastCharSharp(lines, p) = q
      BY <1>9, <2>1, EscapeIs DEF PastCharSharp
    <2> QED BY <1>1, <1>2, <1>3, <1>9, <2>2, EscapeIs, CharactersDiffer DEF LexemeSharp
  <1>10. CASE Sees(lines, p, <<"$", Quote>>) /\ Quoted(lines, On(p, 2), q)
    <2>1. Char(lines, p, "$") /\ Char(lines, On(p, 1), Quote)
      BY <1>1, <1>10
    <2>2. PastQuote(lines, On(p, 2)) = q
      BY <1>10, <2>1, StringIs
    <2>3. PastPrefixed(lines, p) = q
      BY <1>1, <2>1, <2>2, CharactersDiffer DEF PastPrefixed
    <2> QED BY <1>1, <1>2, <2>1, <2>3, CharactersDiffer DEF LexemeSharp
  <1>11. ASSUME NEW word \in VerbatimPrefixes, Sees(lines, p, word), Verbatim(lines, On(p, Len(word)), q)
         PROVE  LexemeSharp(lines, p) = q /\ ~Sees(lines, p, <<LeftBrace>>) /\ ~Sees(lines, p, <<RightBrace>>)
    <2>1. CASE word = <<"@", Quote>>
      <3>1. Char(lines, p, "@") /\ Char(lines, On(p, 1), Quote) /\ Len(word) = 2
        BY <1>1, <1>11, <2>1
      <3>2. PastVerbatim(lines, On(p, 2)) = q
        BY <1>11, <3>1, StringIs
      <3>3. PastPrefixed(lines, p) = q
        BY <1>1, <3>1, <3>2, CharactersDiffer DEF PastPrefixed
      <3> QED BY <1>1, <1>2, <3>1, <3>3, CharactersDiffer DEF LexemeSharp
    <2>2. CASE word = <<"$", "@", Quote>>
      <3>1. Char(lines, p, "$") /\ Char(lines, On(p, 1), "@") /\ Char(lines, On(p, 2), Quote) /\ Len(word) = 3
        BY <1>1, <1>11, <2>2
      <3>2. PastVerbatim(lines, On(p, 3)) = q
        BY <1>11, <3>1, StringIs
      <3>3. PastPrefixed(lines, p) = q
        BY <1>1, <3>1, <3>2, CharactersDiffer DEF PastPrefixed
      <3> QED BY <1>1, <1>2, <3>1, <3>3, CharactersDiffer DEF LexemeSharp
    <2>3. CASE word = <<"@", "$", Quote>>
      <3>1. Char(lines, p, "@") /\ Char(lines, On(p, 1), "$") /\ Char(lines, On(p, 2), Quote) /\ Len(word) = 3
        BY <1>1, <1>11, <2>3
      <3>2. PastVerbatim(lines, On(p, 3)) = q
        BY <1>11, <3>1, StringIs
      <3>3. PastPrefixed(lines, p) = q
        BY <1>1, <3>1, <3>2, CharactersDiffer DEF PastPrefixed
      <3> QED BY <1>1, <1>2, <3>1, <3>3, CharactersDiffer DEF LexemeSharp
    <2> QED BY <2>1, <2>2, <2>3 DEF VerbatimPrefixes
  <1> QED BY <1>4, <1>5, <1>6, <1>7, <1>8, <1>9, <1>10, <1>11 DEF NoBrace

\* The hashes of a raw string, and the quote after them.
LEMMA SeesHashes ==
    ASSUME NEW lines, Text(lines), NEW p \in PlacesOf(lines), NEW n \in Nat
    PROVE  Sees(lines, On(p, 1), Hashes(n) \o <<Quote>>)
              <=> /\ p[2] + 1 + n <= Len(lines[p[1]])
                  /\ \A j \in p[2] + 1..p[2] + n : lines[p[1]][j] = "#"
                  /\ lines[p[1]][p[2] + 1 + n] = Quote
  <1> DEFINE word == Hashes(n) \o <<Quote>>
             line == lines[p[1]]
  <1>1. p[1] \in Nat /\ p[2] \in Nat \ {0} /\ Len(line) \in Nat
    BY PlaceType
  <1>2. Hashes(n) \in Seq({"#"}) /\ Len(Hashes(n)) = n
    BY DEF Hashes
  <1>3. /\ DOMAIN word = 1..(n + 1)
        /\ \A k \in 1..n : word[k] = "#"
        /\ word[n + 1] = Quote
    BY <1>2 DEF Hashes
  <1>4. On(p, 1)[1] = p[1] /\ On(p, 1)[2] = p[2] + 1
    BY DEF On
  <1>5. Sees(lines, On(p, 1), word)
           <=> \A k \in 1..(n + 1) : p[2] + k <= Len(line) /\ line[p[2] + k] = word[k]
    <2>1. \A k \in 1..(n + 1) : (p[2] + 1) + k - 1 = p[2] + k
      BY <1>1
    <2> HIDE DEF word
    <2> QED BY <1>3, <1>4, <2>1 DEF Sees
  <1> HIDE DEF word
  <1>6. ASSUME \A k \in 1..(n + 1) : p[2] + k <= Len(line) /\ line[p[2] + k] = word[k]
        PROVE  /\ p[2] + 1 + n <= Len(line)
               /\ \A j \in p[2] + 1..p[2] + n : line[j] = "#"
               /\ line[p[2] + 1 + n] = Quote
    <2>1. n + 1 \in 1..(n + 1) /\ p[2] + (n + 1) = p[2] + 1 + n
      BY <1>1
    <2>2. ASSUME NEW j \in p[2] + 1..p[2] + n PROVE line[j] = "#"
      <3>1. j - p[2] \in 1..n /\ j - p[2] \in 1..(n + 1) /\ p[2] + (j - p[2]) = j
        BY <1>1
      <3> QED BY <1>3, <1>6, <3>1
    <2>3. p[2] + (n + 1) <= Len(line) /\ line[p[2] + (n + 1)] = Quote
      BY <1>3, <1>6, <2>1
    <2> QED BY <2>1, <2>2, <2>3
  <1>7. ASSUME /\ p[2] + 1 + n <= Len(line)
               /\ \A j \in p[2] + 1..p[2] + n : line[j] = "#"
               /\ line[p[2] + 1 + n] = Quote,
               NEW k \in 1..(n + 1)
        PROVE  p[2] + k <= Len(line) /\ line[p[2] + k] = word[k]
    <2>1. p[2] + k <= Len(line)
      BY <1>1, <1>7
    <2>2. CASE k = n + 1
      <3>1. p[2] + k = p[2] + 1 + n
        BY <1>1, <2>2
      <3> QED BY <1>3, <1>7, <2>1, <2>2, <3>1
    <2>3. CASE k # n + 1
      <3>1. k \in 1..n /\ p[2] + k \in p[2] + 1..p[2] + n
        BY <1>1, <2>3
      <3> QED BY <1>3, <1>7, <2>1, <3>1
    <2> QED BY <2>2, <2>3
  <1> QED BY <1>5, <1>6, <1>7 DEF word

\* Where the hashes end.
LEMMA HashesEnd ==
    ASSUME NEW lines, Text(lines), NEW p \in PlacesOf(lines), ~AtLineEnd(lines, p)
    PROVE  \E k \in p[2] + 1..Len(lines[p[1]]) + 1 :
              /\ \A j \in p[2] + 1..k - 1 : lines[p[1]][j] = "#"
              /\ k > Len(lines[p[1]]) \/ lines[p[1]][k] # "#"
  <1> DEFINE line == lines[p[1]]
             S == {k \in p[2] + 1..Len(line) + 1 : k > Len(line) \/ line[k] # "#"}
             value == [k \in S |-> k]
  <1>1. p[1] \in Nat /\ p[2] \in Nat \ {0} /\ Len(line) \in Nat /\ p[2] <= Len(line)
    BY PlaceType DEF AtLineEnd
  <1>2. S # {} /\ \A k \in S : value[k] \in Nat
    <2>1. Len(line) + 1 \in S
      BY <1>1
    <2> QED BY <1>1, <2>1
  <1>3. PICK k \in S : \A j \in S : value[k] <= value[j]
    <2> HIDE DEF S, value
    <2> QED BY <1>2, SomeIsLeast
  <1>4. k \in p[2] + 1..Len(line) + 1 /\ (k > Len(line) \/ line[k] # "#")
    BY <1>3
  <1>5. \A j \in S : k <= j
    <2>1. \A j \in S : value[j] = j
      OBVIOUS
    <2> HIDE DEF S, value
    <2> QED BY <1>3, <2>1
  <1>6. ASSUME NEW j \in p[2] + 1..k - 1 PROVE line[j] = "#"
    <2>1. j \in p[2] + 1..Len(line) + 1 /\ ~(k <= j)
      BY <1>1, <1>4
    <2>2. j \notin S
      <3> HIDE DEF S
      <3> QED BY <1>5, <2>1
    <2> QED BY <2>1, <2>2
  <1> QED BY <1>4, <1>6

\* A raw string ends with the first quote that as many hashes follow.
LEMMA PastRawIs ==
    ASSUME NEW lines, Text(lines), NEW p \in PlacesOf(lines), ~AtLineEnd(lines, p), NEW n \in Nat, NEW q,
           Sees(lines, On(p, 1), Hashes(n) \o <<Quote>>),
           EndsWith(lines, On(p, n + 2), <<Quote>> \o Hashes(n), q)
    PROVE  /\ PastRaw(lines, p) = q
           /\ Sees(lines, On(p, 1), <<Quote>>) \/ Sees(lines, On(p, 1), <<"#">>)
  <1> DEFINE line == lines[p[1]]
             Beyond(k) == /\ \A j \in p[2] + 1..k - 1 : line[j] = "#"
                          /\ k > Len(line) \/ line[k] # "#"
             last == p[2] + 1 + n
  <1>1. p[1] \in Nat /\ p[2] \in Nat \ {0} /\ Len(line) \in Nat /\ p \in Nat \X Nat
    BY PlaceType, MovesOn
  <1>2. /\ last <= Len(line)
        /\ \A j \in p[2] + 1..p[2] + n : line[j] = "#"
        /\ line[last] = Quote
    BY SeesHashes
  <1>3. last \in p[2] + 1..Len(line) + 1 /\ last \in Nat /\ last - 1 = p[2] + n /\ last - (p[2] + 1) = n
    BY <1>1, <1>2
  <1>4. Beyond(last)
    BY <1>2, <1>3, CharactersDiffer
  <1>5. ASSUME NEW k \in p[2] + 1..Len(line) + 1, Beyond(k) PROVE k = last
    <2>1. ~(k < last)
      <3> SUFFICES ASSUME k < last PROVE FALSE
        OBVIOUS
      <3>1. k \in p[2] + 1..p[2] + n /\ ~(k > Len(line))
        <4> HIDE DEF Beyond, line, last
        <4> QED BY <1>1, <1>2, <1>3, <1>5
      <3> QED BY <1>2, <1>5, <3>1
    <2>2. ~(last < k)
      <3> SUFFICES ASSUME last < k PROVE FALSE
        OBVIOUS
      <3>1. last \in p[2] + 1..k - 1
        BY <1>1, <1>3
      <3>2. line[last] = "#"
        BY <1>5, <3>1
      <3> QED BY <1>2, <3>2, CharactersDiffer
    <2> QED BY <1>1, <1>3, <2>1, <2>2
  <1>6. (CHOOSE k \in p[2] + 1..Len(line) + 1 : Beyond(k)) = last
    <2> HIDE DEF Beyond, last
    <2> QED BY <1>3, <1>4, <1>5
  <1>7. Sees(lines, <<p[1], last>>, <<Quote>>)
    <2>1. <<p[1], last>> \in Nat \X Nat
      BY <1>1, <1>3
    <2> QED BY <1>2, <2>1, SeesOne DEF Char
  <1>8. On(p, n + 2) = <<p[1], last + 1>>
    BY <1>1 DEF On
  <1>9. Past(lines, <<p[1], last + 1>>, <<Quote>> \o [k \in 1..n |-> "#"]) = q
    BY <1>8, PastIs DEF Hashes
  <1>10. PastRaw(lines, p) = q
    <2> HIDE DEF last
    <2> QED BY <1>3, <1>6, <1>7, <1>9 DEF PastRaw
  <1>11. Sees(lines, On(p, 1), <<Quote>>) \/ Sees(lines, On(p, 1), <<"#">>)
    <2>1. On(p, 1) \in Nat \X Nat /\ On(p, 1)[1] = p[1] /\ On(p, 1)[2] = p[2] + 1
      BY <1>1, OnIs
    <2>2. p[2] + 1 <= Len(line)
      BY <1>1, <1>2
    <2>3. CASE n = 0
      <3>1. line[p[2] + 1] = Quote
        BY <1>1, <1>2, <2>3
      <3>2. Char(lines, On(p, 1), Quote)
        BY <2>1, <2>2, <3>1 DEF Char
      <3> QED BY <2>1, <3>2, SeesOne
    <2>4. CASE n # 0
      <3>1. p[2] + 1 \in p[2] + 1..p[2] + n
        BY <1>1, <2>4
      <3>2. line[p[2] + 1] = "#"
        BY <1>2, <3>1
      <3>3. Char(lines, On(p, 1), "#")
        BY <2>1, <2>2, <3>2 DEF Char
      <3> QED BY <2>1, <3>3, SeesOne
    <2> QED BY <2>3, <2>4
  <1> QED BY <1>10, <1>11

\* An r is none of a raw string if no quote follows its hashes.
LEMMA NoRaw ==
    ASSUME NEW lines, Text(lines), NEW p \in PlacesOf(lines), ~AtLineEnd(lines, p),
           \A n \in 0..Len(lines[p[1]]) : ~Sees(lines, On(p, 1), Hashes(n) \o <<Quote>>)
    PROVE  PastRaw(lines, p) = p
  <1> DEFINE line == lines[p[1]]
             Beyond(k) == /\ \A j \in p[2] + 1..k - 1 : line[j] = "#"
                          /\ k > Len(line) \/ line[k] # "#"
             last == CHOOSE k \in p[2] + 1..Len(line) + 1 : Beyond(k)
  <1>1. p[1] \in Nat /\ p[2] \in Nat \ {0} /\ Len(line) \in Nat /\ p \in Nat \X Nat
    BY PlaceType, MovesOn
  <1>2. last \in p[2] + 1..Len(line) + 1 /\ Beyond(last)
    <2>1. \E k \in p[2] + 1..Len(line) + 1 : Beyond(k)
      BY HashesEnd
    <2> HIDE DEF Beyond
    <2> QED BY <2>1
  <1> HIDE DEF last
  <1>3. ASSUME Sees(lines, <<p[1], last>>, <<Quote>>) PROVE FALSE
    <2>1. <<p[1], last>> \in Nat \X Nat /\ last \in Nat
      BY <1>1, <1>2
    <2>2. last <= Len(line) /\ line[last] = Quote
      BY <1>3, <2>1, SeesOne DEF Char
    <2> DEFINE n == last - (p[2] + 1)
    <2>3. n \in Nat /\ n \in 0..Len(line) /\ p[2] + 1 + n = last /\ p[2] + n = last - 1
      BY <1>1, <1>2, <2>1, <2>2
    <2>4. Sees(lines, On(p, 1), Hashes(n) \o <<Quote>>)
      <3> HIDE DEF n
      <3> QED BY <1>2, <2>2, <2>3, SeesHashes
    <2> QED BY <2>3, <2>4
  <1> QED BY <1>3 DEF PastRaw, last

\* The same in Rust.
LEMMA LexemeRustIs ==
    ASSUME NEW lines, Text(lines), NEW p \in PlacesOf(lines), NEW q, q # p,
           ~AtLineEnd(lines, p), NoBrace("rust", lines, p, q),
           ~(EscapedChar(lines, p, q) /\ (q[2] > p[2] + 5 \/ Sees(lines, On(p, 2), <<"'">>)))
    PROVE  LexemeRust(lines, p) = q /\ ~Sees(lines, p, <<LeftBrace>>) /\ ~Sees(lines, p, <<RightBrace>>)
  <1>0. On(p, 0) = p
    BY OnNone
  <1>1. /\ \A a : Sees(lines, p, <<a>>) <=> Char(lines, p, a)
        /\ \A a, b : Sees(lines, p, <<a, b>>) <=> Char(lines, p, a) /\ Char(lines, On(p, 1), b)
        /\ \A x, a, b : Char(lines, x, a) /\ Char(lines, x, b) => a = b
    BY WordsAre
  <1>2. \A a \in {"/", "'", Quote, "r"} : Char(lines, p, a) =>
                ~Sees(lines, p, <<LeftBrace>>) /\ ~Sees(lines, p, <<RightBrace>>)
    BY <1>1, CharactersDiffer
  <1>3. CASE OtherCharacter("rust", lines, p) /\ q = On(p, 1)
    <2>1. Char(lines, p, "r") => PastRaw(lines, p) = p
      <3>1. Char(lines, p, "r") => \A n \in 0..Len(lines[p[1]]) : ~Sees(lines, On(p, 1), Hashes(n) \o <<Quote>>)
        BY <1>1, <1>3 DEF OtherCharacter
      <3> QED BY <3>1, NoRaw
    <2> QED BY <1>1, <1>3, <2>1 DEF OtherCharacter, LexemeRust
  <1>4. CASE LineComment(lines, p, q)
    BY <1>1, <1>2, <1>4, CharactersDiffer DEF LineComment, LexemeRust
  <1>5. CASE NestedComment(lines, p, q)
    <2>1. Char(lines, p, "/") /\ Char(lines, On(p, 1), "*")
      BY <1>1, <1>5 DEF NestedComment
    <2>2. On(p, 2) \in PlacesOf(lines)
      <3>1. On(p, 1 + 1) \in PlacesOf(lines)
        BY <2>1, MovesOn
      <3> QED BY <3>1
    <2>3. PastNested(lines, On(p, 2)) = q
      BY <1>5, <2>2, PastNestedIs
    <2> QED BY <1>1, <1>2, <2>1, <2>3, CharactersDiffer DEF LexemeRust
  <1>6. CASE Sees(lines, p, <<Quote>>) /\ Quoted(lines, On(p, 1), q)
    <2>1. Char(lines, On(p, 0), Quote)
      BY <1>0, <1>1, <1>6
    <2>2. PastQuote(lines, On(p, 1)) = q
      BY <1>6, <2>1, StringIs
    <2> QED BY <1>1, <1>2, <1>6, <2>2, CharactersDiffer DEF LexemeRust
  <1>7. CASE CharLiteral(lines, p, q)
    <2>1. PastCharRust(lines, p) = q
      BY <1>7, LiteralIs DEF PastCharRust
    <2> QED BY <1>1, <1>2, <1>7, <2>1, LiteralIs, CharactersDiffer DEF LexemeRust
  <1>8. CASE EscapedChar(lines, p, q)
    <2>1. Sees(lines, On(p, 1), <<"\\">>)
      BY <1>8, EscapeIs, WordsAre
    <2>2. PastCharRust(lines, p) = q
      BY <1>8, <2>1, EscapeIs DEF PastCharRust
    <2> QED BY <1>1, <1>2, <1>8, <2>2, EscapeIs, CharactersDiffer DEF LexemeRust
  <1>9. CASE RawString(lines, p, q)
    <2>1. PICK n \in 0..Len(lines[p[1]]) :
              /\ Sees(lines, p, <<"r">>) /\ Sees(lines, On(p, 1), Hashes(n) \o <<Quote>>)
              /\ EndsWith(lines, On(p, n + 2), <<Quote>> \o Hashes(n), q)
      BY <1>9 DEF RawString
    <2>2. n \in Nat
      BY PlaceType
    <2>3. PastRaw(lines, p) = q
      BY <2>1, <2>2, PastRawIs
    <2>4. Sees(lines, On(p, 1), <<Quote>>) \/ Sees(lines, On(p, 1), <<"#">>)
      BY <2>1, <2>2, PastRawIs
    <2>5. Sees(lines, p, <<"r", Quote>>) \/ Sees(lines, p, <<"r", "#">>)
      <3>1. Char(lines, On(p, 1), Quote) \/ Char(lines, On(p, 1), "#")
        BY <2>4, WordsAre
      <3> QED BY <1>1, <2>1, <3>1
    <2> QED BY <1>1, <1>2, <2>1, <2>3, <2>5, CharactersDiffer DEF LexemeRust
  <1>10. CASE Lifetime(lines, p, q)
    <2>1. PastCharRust(lines, p) = q /\ Char(lines, p, "'")
      BY <1>1, <1>10 DEF Lifetime, PastCharRust
    <2> QED BY <1>1, <1>2, <2>1, CharactersDiffer DEF LexemeRust
  <1> QED BY <1>3, <1>4, <1>5, <1>6, <1>7, <1>8, <1>9, <1>10 DEF NoBrace

\* What sees a character is not at the end of its line.
LEMMA LineEndIs ==
    ASSUME NEW lang, NEW lines, Text(lines), NEW p \in PlacesOf(lines), NEW q,
           NoBrace(lang, lines, p, q), AtLineEnd(lines, p)
    PROVE  q = NextLine(p)
  <1>1. /\ \A a : Sees(lines, p, <<a>>) <=> Char(lines, p, a)
        /\ \A a, b : Sees(lines, p, <<a, b>>) <=> Char(lines, p, a) /\ Char(lines, On(p, 1), b)
        /\ \A a, b, c : Sees(lines, p, <<a, b, c>>)
                           <=> Char(lines, p, a) /\ Char(lines, On(p, 1), b) /\ Char(lines, On(p, 2), c)
    BY WordsAre
  <1>2. \A a : ~Char(lines, p, a)
    BY MovesOn
  <1>3. \A word \in VerbatimPrefixes : ~Sees(lines, p, word)
    BY <1>1, <1>2 DEF VerbatimPrefixes
  <1> QED
    BY <1>1, <1>2, <1>3
       DEF NoBrace, LineComment, NestedComment, BlockComment, CharLiteral, EscapedChar, RawString, Lifetime, RawGoString

\* A piece without a brace is one lexeme.
LEMMA LexemeIs ==
    ASSUME NEW t, t.lang \in {"c", "csharp", "rust", "go"}, Text(t.lines), NEW piece,
           piece.first \in PlacesOf(t.lines), piece.after # piece.first, ~AtLineEnd(t.lines, piece.first),
           NoBrace(t.lang, t.lines, piece.first, piece.after), ~MisreadEscape(t, piece)
    PROVE  /\ Lexeme(t.lang, t.lines, piece.first) = piece.after
           /\ ~Sees(t.lines, piece.first, <<LeftBrace>>) /\ ~Sees(t.lines, piece.first, <<RightBrace>>)
  <1> DEFINE p == piece.first
             q == piece.after
  <1>1. CASE t.lang = "c"
    <2>1. ~(EscapedChar(t.lines, p, q) /\ q # On(p, 4))
      BY <1>1 DEF MisreadEscape
    <2> QED BY <1>1, <2>1, LexemeCIs DEF Lexeme
  <1>2. CASE t.lang = "csharp"
    <2>1. ~(EscapedChar(t.lines, p, q) /\ (q[2] > p[2] + 5 \/ Sees(t.lines, On(p, 2), <<"'">>)))
      BY <1>2 DEF MisreadEscape
    <2> QED BY <1>2, <2>1, LexemeSharpIs DEF Lexeme
  <1>3. CASE t.lang = "rust"
    <2>1. ~(EscapedChar(t.lines, p, q) /\ (q[2] > p[2] + 5 \/ Sees(t.lines, On(p, 2), <<"'">>)))
      BY <1>3 DEF MisreadEscape
    <2> QED BY <1>3, <2>1, LexemeRustIs DEF Lexeme
  <1>4. CASE t.lang = "go"
    BY <1>4, LexemeGoIs DEF Lexeme
  <1> QED BY <1>1, <1>2, <1>3, <1>4

-----------------------------------------------------------------------------
(* The pieces of a text.                                                  *)

\* The pieces that open and those that close, counted one piece further on.
LEMMA OpenStep ==
    ASSUME NEW pieces, NEW n \in Nat, \A k \in 1..n : pieces[k].depth \in {0 - 1, 0, 1}
    PROVE  /\ OpenAfter(pieces, 0) = 0
           /\ \A k \in 1..n : /\ OpenAfter(pieces, k - 1) \in Int
                              /\ OpenAfter(pieces, k) = OpenAfter(pieces, k - 1) + pieces[k].depth
           /\ OpenAfter(pieces, n) \in Int
  <1> DEFINE Of(d, k) == {j \in 1..k : pieces[j].depth = d}
  <1>1. ASSUME NEW d, NEW k \in 0..n
        PROVE  IsFiniteSet(Of(d, k)) /\ Cardinality(Of(d, k)) \in Nat
    <2>1. IsFiniteSet(1..k)
      BY FS_Interval
    <2>2. IsFiniteSet(Of(d, k))
      BY <2>1, FS_Subset
    <2> QED BY <2>2, FS_CardinalityType
  <1>2. ASSUME NEW d, NEW k \in 1..n
        PROVE  Cardinality(Of(d, k)) = Cardinality(Of(d, k - 1)) + (IF pieces[k].depth = d THEN 1 ELSE 0)
    <2>1. k - 1 \in 0..n /\ k \notin Of(d, k - 1) /\ 1..k = (1..k - 1) \cup {k}
      OBVIOUS
    <2>2. IsFiniteSet(Of(d, k - 1)) /\ Cardinality(Of(d, k - 1)) \in Nat
      BY <1>1, <2>1
    <2>3. CASE pieces[k].depth = d
      <3>1. Of(d, k) = Of(d, k - 1) \cup {k}
        BY <2>1, <2>3
      <3>2. Cardinality(Of(d, k - 1) \cup {k}) = Cardinality(Of(d, k - 1)) + 1
        <4> HIDE DEF Of
        <4> QED BY <2>1, <2>2, FS_AddElement
      <3> HIDE DEF Of
      <3> QED BY <2>3, <3>1, <3>2
    <2>4. CASE pieces[k].depth # d
      <3>1. Of(d, k) = Of(d, k - 1)
        BY <2>1, <2>4
      <3> HIDE DEF Of
      <3> QED BY <2>2, <2>4, <3>1
    <2> QED BY <2>3, <2>4
  <1>3. \A k : OpenAfter(pieces, k) = Cardinality(Of(1, k)) - Cardinality(Of(0 - 1, k))
    BY DEF OpenAfter
  <1>4. OpenAfter(pieces, 0) = 0
    <2>1. Of(1, 0) = {} /\ Of(0 - 1, 0) = {}
      OBVIOUS
    <2>2. Cardinality(Of(1, 0)) = 0 /\ Cardinality(Of(0 - 1, 0)) = 0
      <3> HIDE DEF Of
      <3> QED BY <2>1, FS_EmptySet
    <2> HIDE DEF Of
    <2> QED BY <1>3, <2>2
  <1> HIDE DEF Of
  <1>5. \A k \in 0..n : OpenAfter(pieces, k) \in Int
    BY <1>1, <1>3
  <1>6. ASSUME NEW k \in 1..n
        PROVE  /\ OpenAfter(pieces, k - 1) \in Int
               /\ OpenAfter(pieces, k) = OpenAfter(pieces, k - 1) + pieces[k].depth
    <2>1. k - 1 \in 0..n /\ k \in 0..n
      OBVIOUS
    <2>2. Cardinality(Of(1, k - 1)) \in Nat /\ Cardinality(Of(0 - 1, k - 1)) \in Nat
      BY <1>1, <2>1
    <2>3. /\ Cardinality(Of(1, k)) = Cardinality(Of(1, k - 1)) + (IF pieces[k].depth = 1 THEN 1 ELSE 0)
          /\ Cardinality(Of(0 - 1, k)) = Cardinality(Of(0 - 1, k - 1)) + (IF pieces[k].depth = 0 - 1 THEN 1 ELSE 0)
      BY <1>2
    <2>4. pieces[k].depth \in {0 - 1, 0, 1}
      OBVIOUS
    <2>5. OpenAfter(pieces, k) = OpenAfter(pieces, k - 1) + pieces[k].depth
      BY <1>3, <2>2, <2>3, <2>4
    <2> QED BY <1>5, <2>1, <2>5
  <1> QED BY <1>4, <1>5, <1>6

\* What the scanner does at a place of a text.
ScanningAt(p, depth, found) == [at |-> p, depth |-> depth, found |-> found, closed |-> 0]
ScanFrom(lang, lines, p, depth, found) ==
    IF AtLineEnd(lines, p) THEN ScanningAt(NextLine(p), depth, found)
    ELSE IF Sees(lines, p, <<LeftBrace>>) THEN ScanningAt(On(p, 1), depth + 1, TRUE)
    ELSE IF Sees(lines, p, <<RightBrace>>)
         THEN IF found /\ depth = 1 THEN [at |-> p, depth |-> 0, found |-> TRUE, closed |-> p[1]]
              ELSE ScanningAt(On(p, 1), depth - 1, found)
    ELSE ScanningAt(Lexeme(lang, lines, p), depth, found)

\* One step of the scanner, from a place where nothing is closed yet.
LEMMA ScanIs ==
    ASSUME NEW lang, NEW lines, Text(lines), NEW p \in PlacesOf(lines), NEW depth \in Int, NEW found \in BOOLEAN
    PROVE  Scan(lang, lines)[ScanningAt(p, depth, found)] = ScanFrom(lang, lines, p, depth, found)
  <1> DEFINE s == ScanningAt(p, depth, found)
  <1>1. p \in Nat \X Nat /\ ~(p[1] > Len(lines))
    BY PlaceType
  <1>2. s \in Scanner
    BY <1>1 DEF Scanner, ScanningAt
  <1>3. s.at = p /\ s.depth = depth /\ s.found = found /\ s.closed = 0
    BY DEF ScanningAt
  <1> HIDE DEF s
  <1>4. Scan(lang, lines)[s] =
               IF s.closed # 0 \/ s.at[1] > Len(lines) THEN s
               ELSE IF AtLineEnd(lines, s.at) THEN ScanningAt(NextLine(s.at), s.depth, s.found)
               ELSE IF Sees(lines, s.at, <<LeftBrace>>) THEN ScanningAt(On(s.at, 1), s.depth + 1, TRUE)
               ELSE IF Sees(lines, s.at, <<RightBrace>>)
                    THEN IF s.found /\ s.depth = 1 THEN [at |-> s.at, depth |-> 0, found |-> TRUE, closed |-> s.at[1]]
                         ELSE ScanningAt(On(s.at, 1), s.depth - 1, s.found)
               ELSE ScanningAt(Lexeme(lang, lines, s.at), s.depth, s.found)
    BY <1>2, Zenon DEF Scan, ScanningAt
  <1>5. Scan(lang, lines)[s] = ScanFrom(lang, lines, p, depth, found)
    BY <1>1, <1>3, <1>4 DEF ScanFrom
  <1> QED BY <1>5 DEF s

\* Where the scanner is at the k-th piece of a text.
AtPiece(t, k) ==
    ScanningAt(IF k = 1 THEN <<t.start, 1>> ELSE t.pieces[k - 1].after,
               OpenAfter(t.pieces, k - 1), \E j \in 1..k - 1 : t.pieces[j].depth = 1)
Closes(t, k) == t.pieces[k].depth = 0 - 1 /\ OpenAfter(t.pieces, k) = 0

\* A piece that changes no depth.
PieceWithoutBrace(t, k) ==
    \/ NoBrace(t.lang, t.lines, t.pieces[k].first, t.pieces[k].after)
    \/ OverLines(t.lang, t.lines, t.pieces[k].first, t.pieces[k].after)

\* What BraceText says of each piece, with where the scanner reaches it.
LEMMA PiecesAre ==
    ASSUME NEW t, BraceText(t)
    PROVE  /\ Text(t.lines) /\ t.lang \in {"c", "csharp", "rust", "go"}
           /\ Len(t.pieces) \in Nat \ {0} /\ DOMAIN t.pieces = 1..Len(t.pieces)
           /\ t.pieces[Len(t.pieces)].after = End(t.lines)
           /\ \A k \in 1..Len(t.pieces) :
                 /\ t.pieces[k].depth \in {0 - 1, 0, 1}
                 /\ AtPiece(t, k).at = t.pieces[k].first
                 /\ t.pieces[k].first \in PlacesOf(t.lines)
                 /\ Before(t.pieces[k].first, t.pieces[k].after)
                 /\ t.pieces[k].depth = 0 => PieceWithoutBrace(t, k)
                 /\ t.pieces[k].depth = 1 => /\ Sees(t.lines, t.pieces[k].first, <<LeftBrace>>)
                                             /\ t.pieces[k].after = On(t.pieces[k].first, 1)
                 /\ t.pieces[k].depth = 0 - 1 => /\ Sees(t.lines, t.pieces[k].first, <<RightBrace>>)
                                                 /\ t.pieces[k].after = On(t.pieces[k].first, 1)
                                                 /\ \E j \in 1..k - 1 : t.pieces[j].depth = 1
  <1>1. /\ Text(t.lines) /\ t.lang \in {"c", "csharp", "rust", "go"}
        /\ t.pieces \in Seq([first : Nat \X Nat, after : Nat \X Nat, depth : {0 - 1, 0, 1}]) /\ t.pieces # <<>>
        /\ t.pieces[Len(t.pieces)].after = End(t.lines)
    BY DEF BraceText, Text
  <1>2. Len(t.pieces) \in Nat \ {0} /\ DOMAIN t.pieces = 1..Len(t.pieces)
    BY <1>1
  <1>3. ASSUME NEW k \in 1..Len(t.pieces)
        PROVE  /\ t.pieces[k].depth \in {0 - 1, 0, 1}
               /\ AtPiece(t, k).at = t.pieces[k].first
               /\ t.pieces[k].first \in PlacesOf(t.lines)
               /\ Before(t.pieces[k].first, t.pieces[k].after)
               /\ t.pieces[k].depth = 0 => PieceWithoutBrace(t, k)
               /\ t.pieces[k].depth = 1 => /\ Sees(t.lines, t.pieces[k].first, <<LeftBrace>>)
                                           /\ t.pieces[k].after = On(t.pieces[k].first, 1)
               /\ t.pieces[k].depth = 0 - 1 => /\ Sees(t.lines, t.pieces[k].first, <<RightBrace>>)
                                               /\ t.pieces[k].after = On(t.pieces[k].first, 1)
                                               /\ \E j \in 1..k - 1 : t.pieces[j].depth = 1
    <2>1. k \in DOMAIN t.pieces
      BY <1>2
    <2>2. t.pieces[k].depth \in {0 - 1, 0, 1}
      <3>1. t.pieces[k] \in [first : Nat \X Nat, after : Nat \X Nat, depth : {0 - 1, 0, 1}]
        <4> DEFINE pieces == t.pieces
                   P == [first : Nat \X Nat, after : Nat \X Nat, depth : {0 - 1, 0, 1}]
        <4>1. pieces \in Seq(P) /\ k \in 1..Len(pieces)
          BY <1>1
        <4> HIDE DEF pieces, P
        <4>2. pieces[k] \in P
          BY <4>1
        <4> QED BY <4>2 DEF pieces, P
      <3> QED BY <3>1
    <2>3. /\ t.pieces[k].first = (IF k = 1 THEN <<t.start, 1>> ELSE t.pieces[k - 1].after)
          /\ t.pieces[k].first \in PlacesOf(t.lines)
          /\ Before(t.pieces[k].first, t.pieces[k].after)
          /\ t.pieces[k].depth = 0 => PieceWithoutBrace(t, k)
          /\ t.pieces[k].depth = 1 => /\ Sees(t.lines, t.pieces[k].first, <<LeftBrace>>)
                                      /\ t.pieces[k].after = On(t.pieces[k].first, 1)
          /\ t.pieces[k].depth = 0 - 1 => /\ Sees(t.lines, t.pieces[k].first, <<RightBrace>>)
                                          /\ t.pieces[k].after = On(t.pieces[k].first, 1)
                                          /\ \E j \in 1..k - 1 : t.pieces[j].depth = 1
      BY <2>1 DEF BraceText, PieceWithoutBrace
    <2>4. AtPiece(t, k).at = (IF k = 1 THEN <<t.start, 1>> ELSE t.pieces[k - 1].after)
      BY DEF AtPiece, ScanningAt
    <2> QED BY <2>2, <2>3, <2>4
  <1> QED BY <1>1, <1>2, <1>3

\* The scanner goes from each piece to the next, until one closes.
LEMMA PieceScanned ==
    ASSUME NEW t, BraceText(t), NEW k \in 1..Len(t.pieces), ~Misread(t, t.pieces[k])
    PROVE  Scan(t.lang, t.lines)[AtPiece(t, k)] =
               IF Closes(t, k)
               THEN [at |-> t.pieces[k].first, depth |-> 0, found |-> TRUE, closed |-> t.pieces[k].first[1]]
               ELSE AtPiece(t, k + 1)
  <1> DEFINE piece == t.pieces[k]
             p == piece.first
             q == piece.after
             depth == OpenAfter(t.pieces, k - 1)
             found == \E j \in 1..k - 1 : t.pieces[j].depth = 1
             next == \E j \in 1..k : t.pieces[j].depth = 1
  <1>1. /\ Text(t.lines) /\ t.lang \in {"c", "csharp", "rust", "go"}
        /\ Len(t.pieces) \in Nat
        /\ piece.depth \in {0 - 1, 0, 1}
        /\ AtPiece(t, k).at = p
        /\ p \in PlacesOf(t.lines)
        /\ Before(p, q)
        /\ piece.depth = 0 => NoBrace(t.lang, t.lines, p, q)
        /\ piece.depth = 1 => Sees(t.lines, p, <<LeftBrace>>) /\ q = On(p, 1)
        /\ piece.depth = 0 - 1 => Sees(t.lines, p, <<RightBrace>>) /\ q = On(p, 1) /\ found
    BY PiecesAre DEF Misread, PieceWithoutBrace
  <1>2. depth \in Int /\ OpenAfter(t.pieces, k) = depth + piece.depth
    <2>1. \A j \in 1..Len(t.pieces) : t.pieces[j].depth \in {0 - 1, 0, 1}
      BY PiecesAre
    <2> QED BY <1>1, <2>1, OpenStep
  <1>3. AtPiece(t, k) = ScanningAt(p, depth, found)
    BY <1>1 DEF AtPiece, ScanningAt
  <1>4. AtPiece(t, k + 1) = ScanningAt(q, OpenAfter(t.pieces, k), next)
    <2>1. k + 1 # 1 /\ (k + 1) - 1 = k
      BY <1>1
    <2> QED BY <2>1 DEF AtPiece
  <1>5. next <=> found \/ piece.depth = 1
    <2>1. 1..k = (1..k - 1) \cup {k}
      BY <1>1
    <2> QED BY <2>1
  <1>6. Closes(t, k) <=> piece.depth = 0 - 1 /\ depth + piece.depth = 0
    BY <1>2 DEF Closes
  <1>7. ~MisreadEscape(t, piece)
    BY DEF Misread
  <1>8. \A a, b : Char(t.lines, p, a) /\ Char(t.lines, p, b) => a = b
    BY DEF Char
  <1>9. Text(t.lines) /\ p \in PlacesOf(t.lines) /\ p \in Nat \X Nat
    BY <1>1, MovesOn
  <1>10. /\ \A a : Sees(t.lines, p, <<a>>) <=> Char(t.lines, p, a)
         /\ \A a : Char(t.lines, p, a) => ~AtLineEnd(t.lines, p)
    <2> HIDE DEF p
    <2> QED BY <1>9, SeesOne, MovesOn
  <1>11. found \in BOOLEAN
    OBVIOUS
  <1> HIDE DEF piece, p, q, depth, found, next
  <1>12. Scan(t.lang, t.lines)[ScanningAt(p, depth, found)] =
             IF AtLineEnd(t.lines, p) THEN ScanningAt(NextLine(p), depth, found)
             ELSE IF Sees(t.lines, p, <<LeftBrace>>) THEN ScanningAt(On(p, 1), depth + 1, TRUE)
             ELSE IF Sees(t.lines, p, <<RightBrace>>)
                  THEN IF found /\ depth = 1 THEN [at |-> p, depth |-> 0, found |-> TRUE, closed |-> p[1]]
                       ELSE ScanningAt(On(p, 1), depth - 1, found)
             ELSE ScanningAt(Lexeme(t.lang, t.lines, p), depth, found)
    <2>1. depth \in Int
      BY <1>2
    <2>2. Scan(t.lang, t.lines)[ScanningAt(p, depth, found)] = ScanFrom(t.lang, t.lines, p, depth, found)
      BY <1>9, <1>11, <2>1, ScanIs
    <2> QED BY <2>2 DEF ScanFrom
  <1>13. CASE piece.depth = 0
    <2>1. next = found /\ depth + piece.depth = depth /\ ~Closes(t, k)
      BY <1>2, <1>5, <1>6, <1>13 DEF next, found
    <2>2. CASE AtLineEnd(t.lines, p)
      <3>1. q = NextLine(p)
        BY <1>1, <1>13, <2>2, LineEndIs
      <3> QED BY <1>2, <1>3, <1>4, <1>12, <2>1, <2>2, <3>1
    <2>3. CASE ~AtLineEnd(t.lines, p)
      <3>1. q # p
        BY <1>1 DEF Before
      <3>2. /\ Lexeme(t.lang, t.lines, p) = q
            /\ ~Sees(t.lines, p, <<LeftBrace>>) /\ ~Sees(t.lines, p, <<RightBrace>>)
        BY <1>1, <1>7, <1>13, <2>3, <3>1, LexemeIs DEF p, q
      <3> QED BY <1>2, <1>3, <1>4, <1>12, <2>1, <2>3, <3>2
    <2> QED BY <2>2, <2>3
  <1>14. CASE piece.depth = 1
    <2>1. next = TRUE /\ ~Closes(t, k)
      BY <1>5, <1>6, <1>14 DEF next
    <2>2. ~AtLineEnd(t.lines, p) /\ Sees(t.lines, p, <<LeftBrace>>) /\ q = On(p, 1)
      BY <1>1, <1>10, <1>14
    <2> QED BY <1>2, <1>3, <1>4, <1>12, <1>14, <2>1, <2>2
  <1>15. CASE piece.depth = 0 - 1
    <2>1. /\ ~AtLineEnd(t.lines, p) /\ Sees(t.lines, p, <<RightBrace>>) /\ q = On(p, 1)
          /\ ~Sees(t.lines, p, <<LeftBrace>>)
      BY <1>1, <1>8, <1>10, <1>15, CharactersDiffer
    <2>2. found = TRUE /\ next = TRUE
      BY <1>1, <1>5, <1>15 DEF found, next
    <2>3. Closes(t, k) <=> depth = 1
      BY <1>2, <1>6, <1>15
    <2>4. OpenAfter(t.pieces, k) = depth - 1
      BY <1>2, <1>15
    <2> QED BY <1>3, <1>4, <1>12, <2>1, <2>2, <2>3, <2>4 DEF piece, p
  <1> QED BY <1>1, <1>13, <1>14, <1>15

\* The braces of a text are matched as it says, if nothing in it is misread.
LEMMA BracesMatched ==
    ASSUME NEW t, BraceText(t), \A k \in DOMAIN t.pieces : ~Misread(t, t.pieces[k])
    PROVE  FindBraceEnd(t.lang, t.lines, t.start) = ClosingLine(t)
  <1> DEFINE n == Len(t.pieces)
             step == Scan(t.lang, t.lines)
             begun == [at |-> <<t.start, 1>>, depth |-> 0, found |-> FALSE, closed |-> 0]
             closing == {k \in DOMAIN t.pieces : t.pieces[k].depth = 0 - 1 /\ OpenAfter(t.pieces, k) = 0}
  <1>1. /\ Text(t.lines) /\ n \in Nat \ {0} /\ DOMAIN t.pieces = 1..n
        /\ t.pieces[n].after = End(t.lines)
        /\ \A k \in 1..n : /\ AtPiece(t, k).at = t.pieces[k].first
                           /\ t.pieces[k].first \in PlacesOf(t.lines)
                           /\ Before(t.pieces[k].first, t.pieces[k].after)
    BY PiecesAre
  <1>2. begun = AtPiece(t, 1)
    <2>1. 1 - 1 = 0 /\ 1..0 = {}
      OBVIOUS
    <2>2. OpenAfter(t.pieces, 0) = 0
      <3>1. \A j \in 1..n : t.pieces[j].depth \in {0 - 1, 0, 1}
        BY PiecesAre
      <3> QED BY <1>1, <3>1, OpenStep
    <2>3. (\E j \in 1..0 : t.pieces[j].depth = 1) = FALSE
      BY <2>1
    <2> QED BY <2>1, <2>2, <2>3 DEF AtPiece, ScanningAt
  <1>3. \A k \in 1..n : k \in closing <=> Closes(t, k)
    BY <1>1 DEF Closes
  <1>4. \A k \in 1..n : AtPiece(t, k + 1).at = t.pieces[k].after
    BY <1>1 DEF AtPiece, ScanningAt
  <1>5. \A k \in 1..n : step[AtPiece(t, k)] =
               IF k \in closing
               THEN [at |-> t.pieces[k].first, depth |-> 0, found |-> TRUE, closed |-> t.pieces[k].first[1]]
               ELSE AtPiece(t, k + 1)
    BY <1>1, <1>3, PieceScanned
  <1> HIDE DEF step, begun
  <1>6. ASSUME NEW last \in 1..n, NEW done, step[done] = done, step[AtPiece(t, last)] = done,
               \A k \in 1..last - 1 : k \notin closing
        PROVE  Repeat(step, begun, Enough(t.lines)) = done
    <2> DEFINE Inside == {AtPiece(t, k) : k \in 1..last}
    <2>1. begun \in Inside \cup {done}
      BY <1>1, <1>2
    <2>2. \A s \in Inside : s.at \in PlacesOf(t.lines)
      BY <1>1
    <2>3. ASSUME NEW s \in Inside
          PROVE  step[s] = done \/ (step[s] \in Inside /\ Before(s.at, step[s].at))
      <3>1. PICK k \in 1..last : s = AtPiece(t, k)
        OBVIOUS
      <3>2. CASE k = last
        BY <1>6, <3>1, <3>2
      <3>3. CASE k # last
        <4>1. k \in 1..last - 1 /\ k \in 1..n /\ k + 1 \in 1..last
          BY <1>1, <3>3
        <4>2. step[s] = AtPiece(t, k + 1)
          BY <1>5, <1>6, <3>1, <4>1
        <4>3. Before(s.at, step[s].at)
          BY <1>1, <1>4, <3>1, <4>1, <4>2
        <4> QED BY <4>1, <4>2, <4>3
      <3> QED BY <3>2, <3>3
    <2>4. Text(t.lines) /\ step[done] = done
      BY <1>1, <1>6
    <2> HIDE DEF Inside
    <2> QED BY <2>1, <2>2, <2>3, <2>4, RunsOut
  <1>7. FindBraceEnd(t.lang, t.lines, t.start) =
            LET ended == Repeat(step, begun, Enough(t.lines))
            IN  IF ended.closed # 0 THEN ended.closed ELSE Len(t.lines)
    BY DEF FindBraceEnd, step, begun
  <1>8. CASE closing = {}
    <2> DEFINE done == AtPiece(t, n + 1)
    <2>1. done.at = End(t.lines) /\ done.at[1] > Len(t.lines) /\ done.at \in Nat \X Nat
      <3>1. n \in 1..n
        BY <1>1
      <3>2. done.at = End(t.lines)
        BY <1>1, <1>4, <3>1
      <3>3. Len(t.lines) \in Nat
        BY <1>1, PlaceType
      <3>4. End(t.lines) \in Nat \X Nat /\ End(t.lines)[1] > Len(t.lines)
        BY <3>3 DEF End
      <3> HIDE DEF done
      <3> QED BY <3>2, <3>4
    <2>2. done.closed = 0
      BY DEF AtPiece, ScanningAt
    <2>3. step[done] = done
      <3>1. OpenAfter(t.pieces, n) \in Int /\ (n + 1) - 1 = n
        <4>1. \A j \in 1..n : t.pieces[j].depth \in {0 - 1, 0, 1}
          BY PiecesAre
        <4> QED BY <1>1, <4>1, OpenStep
      <3>2. done \in Scanner
        BY <2>1, <3>1 DEF Scanner, AtPiece, ScanningAt
      <3> HIDE DEF done
      <3> QED BY <2>1, <3>2, Zenon DEF step, Scan
    <2>4. n \in 1..n /\ n \notin closing /\ step[AtPiece(t, n)] = done
      <3>1. n \in 1..n
        BY <1>1
      <3> HIDE DEF closing
      <3> QED BY <1>5, <1>8, <3>1
    <2>5. Repeat(step, begun, Enough(t.lines)) = done
      <3> HIDE DEF done, closing
      <3> QED BY <1>6, <1>8, <2>3, <2>4
    <2>6. ClosingLine(t) = Len(t.lines)
      BY <1>8 DEF ClosingLine
    <2> HIDE DEF done
    <2> QED BY <1>7, <2>2, <2>5, <2>6
  <1>9. CASE closing # {}
    <2> DEFINE value == [k \in closing |-> k]
               c == CHOOSE k \in closing : \A j \in closing : k <= j
               done == [at |-> t.pieces[c].first, depth |-> 0, found |-> TRUE, closed |-> t.pieces[c].first[1]]
    <2>1. c \in closing /\ \A j \in closing : c <= j
      <3>1. \A k \in closing : value[k] \in Nat /\ value[k] = k
        BY <1>1
      <3>2. \E k \in closing : \A j \in closing : value[k] <= value[j]
        <4> HIDE DEF closing, value
        <4> QED BY <1>9, <3>1, SomeIsLeast
      <3>3. \E k \in closing : \A j \in closing : k <= j
        BY <3>1, <3>2
      <3> HIDE DEF closing
      <3> QED BY <3>3
    <2>2. ClosingLine(t) = t.pieces[c].first[1]
      BY <1>9 DEF ClosingLine
    <2>3. c \in 1..n
      BY <1>1, <2>1
    <2> HIDE DEF c
    <2>4. t.pieces[c].first \in PlacesOf(t.lines) /\ t.pieces[c].first[1] \in Nat \ {0} /\ t.pieces[c].first \in Nat \X Nat
      <3>1. t.pieces[c].first \in PlacesOf(t.lines)
        BY <1>1, <2>3
      <3>2. t.pieces[c].first[1] \in 1..Len(t.lines) /\ t.pieces[c].first \in Nat \X Nat
        BY <1>1, <3>1, MovesOn
      <3> QED BY <3>1, <3>2
    <2>5. done.closed = t.pieces[c].first[1] /\ done.closed # 0 /\ done \in Scanner
      BY <2>4 DEF Scanner
    <2>6. step[AtPiece(t, c)] = done
      BY <1>5, <2>1, <2>3
    <2> HIDE DEF done
    <2>7. step[done] = done
      BY <2>5, Zenon DEF step, Scan
    <2>8. \A k \in 1..c - 1 : k \notin closing
      <3>1. \A k \in 1..c - 1 : ~(c <= k)
        BY <1>1, <2>3
      <3> HIDE DEF closing
      <3> QED BY <2>1, <3>1
    <2>9. Repeat(step, begun, Enough(t.lines)) = done
      <3> HIDE DEF closing
      <3> QED BY <1>6, <2>3, <2>6, <2>7, <2>8
    <2> QED BY <1>7, <2>2, <2>5, <2>9
  <1> QED BY <1>8, <1>9

-----------------------------------------------------------------------------
(* The theorems about the analyses.                                         *)

\* Each action answers with what its analysis gives.
LEMMA ReportsAlwaysHold == AnalysesSpec => []ReportsHold
  <1> USE DEF ReportOf
  <1>1. AnalysesInit => ReportsHold
    BY DEF AnalysesInit, ReportsHold, BreakingAnswered, ConfigAnswered, DeadAnswered, SliceAnswered, BracesAnswered
  <1>2. ReportsHold /\ [AnalysesNext]_analysisVars => ReportsHold'
    <2> SUFFICES ASSUME ReportsHold, [AnalysesNext]_analysisVars PROVE ReportsHold'
      OBVIOUS
    <2>1. CASE UNCHANGED <<request, report>>
      BY <2>1 DEF ReportsHold, BreakingAnswered, ConfigAnswered, DeadAnswered, SliceAnswered, BracesAnswered
    <2>2. CASE DetectBreakingChanges
      <3>1. PICK changed \in Changes :
               /\ request' = [kind |-> "breaking", changed |-> changed]
               /\ report'.issues = UNION {[file : {f}, issue : BreakingChangesOf(f)] : f \in changed}
        BY <2>2 DEF DetectBreakingChanges, Report
      <3>2. request'.kind = "breaking" /\ request'.changed = changed
        BY <3>1
      <3> QED BY <3>1, <3>2 DEF ReportsHold, BreakingAnswered, ConfigAnswered, DeadAnswered, SliceAnswered, BracesAnswered
    <2>3. CASE RunAnalyzeConfig
      <3>1. PICK p \in Configs, checks \in Checks, severity \in Severities :
               \E only \in {""} \cup DOMAIN p.files :
                  Report([kind |-> "config", project |-> p, checks |-> checks,
                          severity |-> severity, only |-> only],
                         AnalyzeConfig(Restricted(p.files, only), p.code, checks, severity))
        BY <2>3 DEF RunAnalyzeConfig
      <3>2. PICK only \in {""} \cup DOMAIN p.files :
               /\ request' = [kind |-> "config", project |-> p, checks |-> checks,
                              severity |-> severity, only |-> only]
               /\ report' = AnalyzeConfig(Restricted(p.files, only), p.code, checks, severity)
        BY <3>1 DEF Report
      <3>3. /\ request'.kind = "config" /\ request'.project = p /\ request'.checks = checks
            /\ request'.severity = severity /\ request'.only = only
        BY <3>2
      <3> QED BY <3>2, <3>3 DEF ReportsHold, BreakingAnswered, ConfigAnswered, DeadAnswered, SliceAnswered, BracesAnswered
    <2>4. CASE RunFindDeadCode
      <3>1. PICK p \in DeadProjects :
               request' = [kind |-> "dead", project |-> p] /\ report' = FindDeadCode(p)
        BY <2>4 DEF RunFindDeadCode, Report
      <3> QED BY <3>1 DEF ReportsHold, BreakingAnswered, ConfigAnswered, DeadAnswered, SliceAnswered, BracesAnswered
    <2>5. CASE GetBackwardSlice
      <3>1. PICK s \in Programs, v \in Variables : \E line \in Lines(s.body) :
               Report([kind |-> "slice", body |-> s.body, indented |-> s.indented, variable |-> v, line |-> line],
                      IF s.indented
                      THEN {l \in Lines(s.body) : line - WindowLines < l /\ l <= line + WindowLines}
                      ELSE BackwardSlice(s.body, v, line))
        BY <2>5 DEF GetBackwardSlice
      <3>2. PICK line \in Lines(s.body) :
               /\ request' = [kind |-> "slice", body |-> s.body, indented |-> s.indented,
                              variable |-> v, line |-> line]
               /\ ~s.indented => report' = BackwardSlice(s.body, v, line)
        BY <3>1 DEF Report
      <3>3. /\ request'.kind = "slice" /\ request'.body = s.body /\ request'.indented = s.indented
            /\ request'.variable = v /\ request'.line = line
        BY <3>2
      <3> QED BY <3>2, <3>3 DEF ReportsHold, BreakingAnswered, ConfigAnswered, DeadAnswered, SliceAnswered, BracesAnswered
    <2>6. CASE PackContext
      <3>1. request'.kind = "pack"
        <4>1. PICK b \in Bundles : LET candidates == PackCandidates(b.graph, b.lines, b.seed, b.match)
           IN  \E pool \in Pools(candidates, MaxSymbols) : \E order \in WorthOrders(pool) :
                  Report([kind |-> "pack", budget |-> b.budget, pool |-> pool], Knapsack(order, b.budget))
          BY <2>6 DEF PackContext
        <4>2. PICK pool : \E order \in WorthOrders(pool) :
                  Report([kind |-> "pack", budget |-> b.budget, pool |-> pool], Knapsack(order, b.budget))
          BY <4>1
        <4> QED BY <4>2 DEF Report
      <3> QED BY <3>1 DEF ReportsHold, BreakingAnswered, ConfigAnswered, DeadAnswered, SliceAnswered, BracesAnswered
    <2>7. CASE SendReport
      BY <2>7 DEF SendReport, ReportsHold, BreakingAnswered, ConfigAnswered, DeadAnswered, SliceAnswered, BracesAnswered
    <2>8. FindCommunities \/ ComputeCommunities => UNCHANGED <<request, report>>
      BY DEF FindCommunities, ComputeCommunities
    <2>9. UNCHANGED analysisVars => UNCHANGED <<request, report>>
      BY DEF analysisVars
    <2>10. CASE MatchBraces
      <3>1. PICK t \in BraceTexts :
               /\ request' = [kind |-> "braces", source |-> t]
               /\ report' = FindBraceEnd(t.lang, t.lines, t.start)
        BY <2>10 DEF MatchBraces, Report
      <3>2. request'.kind = "braces" /\ request'.source = t
        BY <3>1
      <3> QED BY <3>1, <3>2 DEF ReportsHold, BreakingAnswered, ConfigAnswered, DeadAnswered, SliceAnswered, BracesAnswered
    <2> QED BY <2>1, <2>2, <2>3, <2>4, <2>5, <2>6, <2>7, <2>8, <2>9, <2>10 DEF AnalysesNext
  <1> QED BY <1>1, <1>2, PTL DEF AnalysesSpec

\* The slice a call of get_backward_slice (query_api.py) returns keeps what
\* flows into the variable, whatever the symbol, as long as it parses.
THEOREM SlicesAreWhole == AnalysesSpec => []SliceKeepsFlow
  <1>1. ReportsHold => SliceKeepsFlow
    <2> SUFFICES ASSUME ReportsHold, ReportOf("slice"), ~request.indented,
                        NEW taken \in Executions(request.body)
                 PROVE  KeepsFlow(request.body, taken, request.variable, request.line, report)
      BY DEF SliceKeepsFlow
    <2>1. /\ Program(request.body) /\ request.line \in Lines(request.body)
          /\ report = BackwardSlice(request.body, request.variable, request.line)
      BY AnalysesAssumption DEF ReportsHold, SliceAnswered
    <2> QED BY <2>1, SlicesKeepFlow
  <1> QED BY <1>1, ReportsAlwaysHold, PTL

\* Nothing find_dead_code returns is a function that calls on self reach from
\* one that is referred to or overrides such a one.
THEOREM DeadIsNotReached == AnalysesSpec => []ReachedIsNotDead
  <1>1. ReportsHold => ReachedIsNotDead
    <2> SUFFICES ASSUME ReportsHold, ReportOf("dead")
                 PROVE  report \cap ReachedOnSelf(request.project) \subseteq DOMAIN request.project.classes
      BY DEF ReachedIsNotDead
    <2>1. IsFiniteSet(Funcs(request.project)) /\ report = FindDeadCode(request.project)
      BY AnalysesAssumption DEF ReportsHold, DeadAnswered
    <2>2. ReachedOnSelf(request.project) \cap DeadFunctions(request.project) = {}
      BY <2>1, ReachedIsKept
    <2>3. DeadClasses(request.project) \subseteq DOMAIN request.project.classes
      BY DEF DeadClasses
    <2> QED BY <2>1, <2>2, <2>3 DEF FindDeadCode
  <1> QED BY <1>1, ReportsAlwaysHold, PTL
\* What detect_breaking_changes (breaking_changes.py) returns is right in the
\* three ways: calls by name of Python functions, deleted files, overloads.
THEOREM AlarmsAreRight == AnalysesSpec => []BreakingMeansBroken
  <1>1. ReportsHold => BreakingMeansBroken
    BY PythonIsTold, EmptyingIsTold, OverloadsAreTold DEF ReportsHold, BreakingMeansBroken
  <1>2. AnalysesSpec => []ReportsHold
    BY ReportsAlwaysHold
  <1> QED BY <1>1, <1>2, PTL

\* find_brace_end (brace_matcher.py) gives the line of the brace that closes
\* what the first one opens, for sources of any length in any of its four
\* languages: whatever comments, strings, raw strings and character literals
\* are between them, unless one has an escape that the code misreads, or is a
\* Rust string or a continued C string or comment that spans lines, or a raw
\* string of C#.
THEOREM BracesMatch == AnalysesSpec => []BracesFound
  <1>1. ReportsHold => BracesFound
    <2> SUFFICES ASSUME ReportsHold, ReportOf("braces"),
                        \A k \in DOMAIN request.source.pieces : ~Misread(request.source, request.source.pieces[k])
                 PROVE  report = ClosingLine(request.source)
      BY DEF BracesFound
    <2>1. /\ BraceText(request.source)
          /\ report = FindBraceEnd(request.source.lang, request.source.lines, request.source.start)
      BY AnalysesAssumption DEF ReportsHold, BracesAnswered
    <2> QED BY <2>1, BracesMatched
  <1> QED BY <1>1, ReportsAlwaysHold, PTL

\* The verdict CONSISTENT of analyze_config (config_analyzer.py) means what it
\* says, for files of any depth and any set of further checks.
THEOREM ConsistencyHolds == AnalysesSpec => []ConsistentMeansConsistent
  <1>1. ReportsHold => ConsistentMeansConsistent
    BY ConsistencyIsTold DEF ReportsHold
  <1> QED BY <1>1, ReportsAlwaysHold, PTL

\* The analyses implement Communities: each of their steps is one of the
\* detectors' or leaves them alone.
THEOREM AnalysesCluster == AnalysesSpec => CommunitiesSpec
  <1>1. AnalysesInit => CommunitiesInit
    BY DEF AnalysesInit
  <1>2. [AnalysesNext]_analysisVars => [CommunitiesNext]_communityVars
    <2> SUFFICES ASSUME [AnalysesNext]_analysisVars PROVE [CommunitiesNext]_communityVars
      OBVIOUS
    <2>1. CASE DetectBreakingChanges
      BY <2>1 DEF DetectBreakingChanges, Report
    <2>2. CASE RunAnalyzeConfig
      BY <2>2 DEF RunAnalyzeConfig, Report
    <2>3. CASE RunFindDeadCode
      BY <2>3 DEF RunFindDeadCode, Report
    <2>4. CASE GetBackwardSlice
      BY <2>4 DEF GetBackwardSlice, Report
    <2>5. CASE PackContext
      BY <2>5 DEF PackContext, Report
    <2>6. CASE FindCommunities \/ ComputeCommunities \/ SendReport
      BY <2>6 DEF FindCommunities, ComputeCommunities, SendReport, CommunitiesNext
    <2>7. CASE MatchBraces
      BY <2>7 DEF MatchBraces, Report
    <2>8. CASE UNCHANGED analysisVars
      BY <2>8 DEF analysisVars
    <2> QED BY <2>1, <2>2, <2>3, <2>4, <2>5, <2>6, <2>7, <2>8 DEF AnalysesNext
  <1> QED BY <1>1, <1>2, PTL DEF AnalysesSpec, CommunitiesSpec

\* So the clusters get_symbol_cluster and _get_communities (query_api.py) give
\* never join symbols that no path of dependencies joins.
THEOREM ClustersAreTheirs == AnalysesSpec => []ClustersStayConnected
  BY AnalysesCluster, ClustersAreConnected, PTL

\* Nor does a move of the search (leiden_communities.py) lower a modularity
\* whatever other analyses are asked for before and after it.
THEOREM SearchesAreTheirs == AnalysesSpec => MovesKeepModularity
  BY AnalysesCluster, SearchesGain, PTL
=============================================================================
