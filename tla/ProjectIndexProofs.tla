------------------------- MODULE ProjectIndexProofs -------------------------
(* Invariance of the index tables under every caller, for any project.     *)
EXTENDS ProjectIndex, FiniteSetTheorems, SequenceTheorems, WellFoundedInduction,
        TLAPS

-----------------------------------------------------------------------------
(* Sequences and minima.                                                   *)

LEMMA LessThanPairs == OpToRel(<, Nat) = {p \in Nat \X Nat : p[1] < p[2]}
  BY DEF OpToRel

LEMMA NatMinimum ==
  ASSUME NEW S \in SUBSET Nat, S # {}
  PROVE  \E i \in S : \A j \in S : i <= j
  <1> DEFINE R == {p \in Nat \X Nat : p[1] < p[2]}
  <1>1. IsWellFoundedOn(R, Nat)
    BY NatLessThanWellFounded, LessThanPairs
  <1> HIDE DEF R
  <1>2. PICK x \in S : \A y \in S : ~(<<y, x>> \in R)
    BY <1>1, WFMin
  <1>3. ASSUME NEW y \in S
        PROVE  x <= y
    <2>1. x \in Nat /\ y \in Nat
      OBVIOUS
    <2>2. ~(y < x)
      BY <1>2, <2>1 DEF R
    <2>3. QED
      BY <2>1, <2>2
  <1>4. QED
    BY <1>3

\* Deleting a key of a sequence without duplicates.
LEMMA OrderWithoutProperties ==
  ASSUME order \in Seq(Files), OrderOK, NEW f \in Indexed
  PROVE  /\ OrderWithout(f) \in Seq(Files)
         /\ {OrderWithout(f)[i] : i \in DOMAIN OrderWithout(f)} = Indexed \ {f}
         /\ \A i, j \in DOMAIN OrderWithout(f) :
               OrderWithout(f)[i] = OrderWithout(f)[j] => i = j
  <1> DEFINE n == Len(order)
             at == CHOOSE i \in DOMAIN order : order[i] = f
             s1 == SubSeq(order, 1, at - 1)
             s2 == SubSeq(order, at + 1, n)
  <1>1. n \in Nat /\ DOMAIN order = 1..n /\ \A i \in 1..n : order[i] \in Files
    BY LenProperties, ElementOfSeq
  <1>2. at \in 1..n /\ order[at] = f
    BY <1>1 DEF OrderOK
  <1>3. /\ s1 \in Seq(Files) /\ Len(s1) = at - 1
        /\ \A i \in 1..at - 1 : s1[i] = order[i]
    <2>1. \A i \in 1..at - 1 : order[i] \in Files
      BY <1>1, <1>2
    <2>2. 1 \in Int /\ at - 1 \in Int
      BY <1>1, <1>2
    <2> HIDE DEF at, n
    <2>3. /\ SubSeq(order, 1, at - 1) \in Seq(Files)
          /\ Len(SubSeq(order, 1, at - 1)) = IF 1 <= at - 1 THEN at - 1 - 1 + 1 ELSE 0
          /\ \A i \in 1 .. at - 1 - 1 + 1 : SubSeq(order, 1, at - 1)[i] = order[1 + i - 1]
      BY <2>1, <2>2, SubSeqProperties
    <2>4. QED
      BY <2>3, <1>1, <1>2
  <1>4. /\ s2 \in Seq(Files) /\ Len(s2) = n - at
        /\ \A i \in 1..n - at : s2[i] = order[at + i]
    <2>1. \A i \in at + 1..n : order[i] \in Files
      BY <1>1, <1>2
    <2>2. at + 1 \in Int /\ n \in Int
      BY <1>1, <1>2
    <2> HIDE DEF at, n
    <2>3. /\ SubSeq(order, at + 1, n) \in Seq(Files)
          /\ Len(SubSeq(order, at + 1, n)) = IF at + 1 <= n THEN n - (at + 1) + 1 ELSE 0
          /\ \A i \in 1 .. n - (at + 1) + 1 : SubSeq(order, at + 1, n)[i] = order[at + 1 + i - 1]
      BY <2>1, <2>2, SubSeqProperties
    <2>4. QED
      BY <2>3, <1>1, <1>2
  <1> DEFINE w == OrderWithout(f)
  <1>5. w = s1 \o s2
    BY DEF OrderWithout
  <1> HIDE DEF at, n, s1, s2, w
  <1>6. /\ w \in Seq(Files) /\ Len(w) = n - 1 /\ DOMAIN w = 1..n - 1
        /\ \A i \in 1..n - 1 : w[i] = IF i < at THEN order[i] ELSE order[i + 1]
    <2>1. /\ w \in Seq(Files) /\ Len(w) = Len(s1) + Len(s2)
          /\ \A i \in 1..Len(s1) + Len(s2) :
                w[i] = IF i <= Len(s1) THEN s1[i] ELSE s2[i - Len(s1)]
      BY <1>3, <1>4, <1>5, ConcatProperties
    <2>2. Len(w) = n - 1 /\ DOMAIN w = 1..n - 1
      BY <2>1, <1>1, <1>2, <1>3, <1>4, LenProperties
    <2>3. ASSUME NEW i \in 1..n - 1
          PROVE  w[i] = IF i < at THEN order[i] ELSE order[i + 1]
      <3>1. CASE i < at
        BY <3>1, <2>1, <2>2, <1>1, <1>2, <1>3, SMTT(30)
      <3>2. CASE ~(i < at)
        <4>1. i - Len(s1) \in 1..n - at /\ at + (i - Len(s1)) = i + 1
          BY <3>2, <1>1, <1>2, <1>3
        <4>2. w[i] = s2[i - Len(s1)]
          <5>1. i \in 1..Len(s1) + Len(s2) /\ ~(i <= Len(s1))
            BY <3>2, <1>1, <1>2, <1>3, <1>4
          <5>2. QED
            BY <5>1, <2>1
        <4>3. s2[i - Len(s1)] = order[at + (i - Len(s1))]
          BY <4>1, <1>4
        <4>4. QED
          BY <3>2, <4>1, <4>2, <4>3
      <3>3. QED
        BY <3>1, <3>2
    <2>4. QED
      BY <2>1, <2>2, <2>3
  <1>7. \A i, j \in 1..n : order[i] = order[j] => i = j
    BY <1>1 DEF OrderOK
  <1>8. \A i, j \in 1..n - 1 : w[i] = w[j] => i = j
    BY <1>1, <1>2, <1>6, <1>7
  <1>9. \A g \in Indexed \ {f} : \E i \in 1..n - 1 : w[i] = g
    <2> TAKE g \in Indexed \ {f}
    <2>1. PICK k \in 1..n : order[k] = g
      BY <1>1 DEF OrderOK
    <2>2. CASE k < at
      BY <2>1, <2>2, <1>1, <1>2, <1>6
    <2>3. CASE k > at
      <3>1. k - 1 \in 1..n - 1 /\ ~(k - 1 < at) /\ k - 1 + 1 = k
        BY <2>3, <1>1, <1>2
      <3>2. QED
        BY <3>1, <2>1, <1>6
    <2>4. k # at
      BY <2>1, <1>2
    <2>5. QED
      BY <2>2, <2>3, <2>4, <1>1, <1>2
  <1>10. \A i \in 1..n - 1 : w[i] \in Indexed \ {f}
    <2> TAKE i \in 1..n - 1
    <2>1. PICK k \in 1..n : k # at /\ w[i] = order[k]
      <3>1. CASE i < at
        BY <3>1, <1>1, <1>2, <1>6
      <3>2. CASE ~(i < at)
        <4>1. i + 1 \in 1..n /\ i + 1 # at
          BY <3>2, <1>1, <1>2
        <4>2. QED
          BY <4>1, <3>2, <1>6
      <3>3. QED
        BY <3>1, <3>2
    <2>2. order[k] \in Indexed
      BY <1>1 DEF OrderOK
    <2>3. order[k] # f
      BY <2>1, <1>2, <1>7
    <2>4. QED
      BY <2>1, <2>2, <2>3
  <1>11. {w[i] : i \in DOMAIN w} = Indexed \ {f}
    BY <1>6, <1>9, <1>10
  <1>12. QED
    BY <1>6, <1>8, <1>11 DEF w

\* Appending a key that is not there yet.
LEMMA AppendKey ==
  ASSUME order \in Seq(Files), OrderOK, NEW f \in Files \ Indexed
  PROVE  /\ Append(order, f) \in Seq(Files)
         /\ {Append(order, f)[i] : i \in DOMAIN Append(order, f)} = Indexed \cup {f}
         /\ \A i, j \in DOMAIN Append(order, f) :
               Append(order, f)[i] = Append(order, f)[j] => i = j
  <1> DEFINE n == Len(order)
             w == Append(order, f)
  <1>1. n \in Nat /\ DOMAIN order = 1..n
    BY LenProperties
  <1>2. /\ w \in Seq(Files) /\ Len(w) = n + 1
        /\ \A i \in 1..n : w[i] = order[i]
        /\ w[n + 1] = f
    BY AppendProperties
  <1>3. DOMAIN w = 1..n + 1
    BY <1>2, LenProperties
  <1>4. QED
    BY <1>1, <1>2, <1>3 DEF OrderOK

-----------------------------------------------------------------------------
(* The builders.                                                           *)

LEMMA OrdersProperties ==
  ASSUME NEW S \in SUBSET Files, NEW o \in Orders(S)
  PROVE  /\ o \in Seq(Files)
         /\ S = {o[i] : i \in DOMAIN o}
         /\ \A i, j \in DOMAIN o : o[i] = o[j] => i = j
  <1>1. Cardinality(S) \in Nat
    BY ConstantsAssumption, FS_Subset, FS_CardinalityType DEF ConstantsAssumption
  <1>2. o \in [1..Cardinality(S) -> S]
    BY DEF Orders
  <1>3. o \in Seq(Files)
    BY <1>1, <1>2
  <1>4. QED
    BY <1>2, <1>3 DEF Orders

\* The owner recorded for a symbol is an indexed file that defines it, and
\* every qualified symbol of an indexed file has an owner.
LEMMA SymbolTableProperties ==
  ASSUME NEW fs \in [Files -> Contents \cup {Absent}], NEW ord \in Seq(Files),
         {f \in Files : fs[f] # Absent} = {ord[i] : i \in DOMAIN ord}
  PROVE  LET table == BuildSymbolTable(fs, ord)
         IN  /\ table \in [Symbols -> Files \cup {Absent}]
             /\ \A s \in Symbols : table[s] # Absent =>
                   /\ fs[table[s]] # Absent
                   /\ s \in Defines[fs[table[s]]]
             /\ \A f \in Files : fs[f] # Absent =>
                   \A s \in (Symbols \cap Defines[fs[f]]) \ Unqualified : table[s] # Absent
  <1> DEFINE table == BuildSymbolTable(fs, ord)
             D(s) == {i \in DOMAIN ord : fs[ord[i]] # Absent /\ s \in Defines[fs[ord[i]]]}
             first(s) == CHOOSE i \in D(s) : \A j \in D(s) : i <= j
             none(s) == D(s) = {} \/ (s \in Unqualified /\ \E i, j \in D(s) : i # j)
  <1>1. DOMAIN ord \subseteq Nat /\ \A i \in DOMAIN ord : ord[i] \in Files
    BY LenProperties, ElementOfSeq
  <1>2. \A s \in Symbols : D(s) # {} => first(s) \in D(s)
    <2> TAKE s \in Symbols
    <2> HAVE D(s) # {}
    <2>1. D(s) \in SUBSET Nat
      BY <1>1
    <2> HIDE DEF D
    <2>2. \E i \in D(s) : \A j \in D(s) : i <= j
      BY <2>1, NatMinimum
    <2>3. QED
      BY <2>2
  <1>3. \A s \in Symbols : table[s] = IF none(s) THEN Absent ELSE ord[first(s)]
    BY DEF BuildSymbolTable
  <1>4. table = [s \in Symbols |-> table[s]]
    BY DEF BuildSymbolTable
  <1> HIDE DEF table, first
  <1>5. \A s \in Symbols : ~none(s) =>
           /\ table[s] \in Files
           /\ fs[table[s]] # Absent
           /\ s \in Defines[fs[table[s]]]
    BY <1>1, <1>2, <1>3
  <1>6. ASSUME NEW f \in Files, fs[f] # Absent,
               NEW s \in (Symbols \cap Defines[fs[f]]) \ Unqualified
        PROVE  table[s] # Absent
    <2>1. PICK i \in DOMAIN ord : ord[i] = f
      BY <1>6
    <2>2. ~none(s)
      BY <2>1, <1>6
    <2>3. QED
      BY <2>2, <1>5, ConstantsAssumption DEF ConstantsAssumption
  <1>7. \A s \in Symbols : none(s) => table[s] = Absent
    BY <1>3
  <1> HIDE DEF none
  <1>8. table \in [Symbols -> Files \cup {Absent}]
    BY <1>4, <1>5, <1>7
  <1>9. QED
    BY <1>5, <1>6, <1>7, <1>8 DEF table

LEMMA ResolveImportsType ==
  ASSUME NEW fs \in [Files -> Contents \cup {Absent}], NEW f \in Files
  PROVE  ResolveImports(f, fs) \in SUBSET Files
  <1>1. ASSUME NEW m \in Modules
        PROVE  Lookup(m, fs) \subseteq Files
    <2>1. Candidates[m] \in Seq(Files)
      BY ConstantsAssumption DEF ConstantsAssumption
    <2>2. \A i \in DOMAIN Candidates[m] : Candidates[m][i] \in Files
      BY <2>1, LenProperties, ElementOfSeq
    <2>3. QED
      BY <2>2 DEF Lookup
  <1>2. CASE fs[f] # Absent
    <2>1. Imports[fs[f]] \subseteq Modules
      BY <1>2, ConstantsAssumption DEF ConstantsAssumption
    <2>2. UNION {Lookup(m, fs) : m \in Imports[fs[f]]} \subseteq Files
      BY <1>1, <2>1
    <2>3. QED
      BY <2>2, <1>2 DEF ResolveImports
  <1>3. CASE fs[f] = Absent
    BY <1>3 DEF ResolveImports
  <1>4. QED
    BY <1>2, <1>3

LEMMA BuilderTypes ==
  ASSUME NEW fs \in [Files -> Contents \cup {Absent}]
  PROVE  /\ BuildImportGraph(fs) \in [Files -> SUBSET Files]
         /\ \A g : Reverse(g) \in [Files -> SUBSET Files]
         /\ \A table : BuildDependencyGraph(fs, table) \subseteq Symbols \X Symbols
         /\ HashTable(fs) \in [Files -> [Symbols -> Hashes \cup {Absent}]]
  <1>1. BuildImportGraph(fs) \in [Files -> SUBSET Files]
    BY ResolveImportsType DEF BuildImportGraph
  <1>2. ASSUME NEW c \in Contents
        PROVE  HashesOf(c) \in [Symbols -> Hashes \cup {Absent}]
    BY ConstantsAssumption DEF ConstantsAssumption, HashesOf
  <1>3. HashTable(fs) \in [Files -> [Symbols -> Hashes \cup {Absent}]]
    <2>1. ASSUME NEW f \in Files
          PROVE  (IF fs[f] = Absent THEN [s \in Symbols |-> Absent] ELSE HashesOf(fs[f]))
                    \in [Symbols -> Hashes \cup {Absent}]
      BY <1>2
    <2>2. QED
      BY <2>1 DEF HashTable
  <1>4. \A g : Reverse(g) \in [Files -> SUBSET Files]
    BY DEF Reverse
  <1>5. \A table : BuildDependencyGraph(fs, table) \subseteq Symbols \X Symbols
    BY DEF BuildDependencyGraph
  <1>6. QED
    BY <1>1, <1>3, <1>4, <1>5

LEMMA ReversePairsType ==
  ASSUME NEW edges \in SUBSET (Symbols \X Symbols)
  PROVE  ReversePairs(edges) \subseteq Symbols \X Symbols
  BY DEF ReversePairs

LEMMA AnnotatedType ==
  ASSUME NEW tree \in [Files -> Contents \cup {Absent}]
  PROVE  Annotated(tree) \in [Files -> Contents \cup {Absent}]
  BY DEF Annotated, Readable

-----------------------------------------------------------------------------
(* The inductive invariant: what the runs check of every caller.           *)

IndexInv ==
    /\ TypeOK
    /\ NoPhantomImporters
    /\ SymbolTableSound
    /\ HashesCurrent

\* A symbol table rebuilt from the new entries is typed and sound.
LEMMA RebuiltSymbolTable ==
  ASSUME files' \in [Files -> Contents \cup {Absent}],
         order' \in Seq(Files), OrderOK',
         symbol_table' = BuildSymbolTable(files', order')
  PROVE  /\ symbol_table' \in [Symbols -> Files \cup {Absent}]
         /\ SymbolTableSound'
  <1>1. {f \in Files : files'[f] # Absent} = {order'[i] : i \in DOMAIN order'}
    BY DEF OrderOK, Indexed
  <1>2. /\ symbol_table' \in [Symbols -> Files \cup {Absent}]
        /\ \A s \in Symbols : symbol_table'[s] # Absent =>
              s \in Defines[files'[symbol_table'[s]]]
        /\ \A f \in Files : files'[f] # Absent =>
              \A s \in (Symbols \cap Defines[files'[f]]) \ Unqualified : symbol_table'[s] # Absent
    BY <1>1, SymbolTableProperties
  <1>3. \A f \in Files : files'[f] # Absent => Defines[files'[f]] \subseteq Symbols
    BY ConstantsAssumption DEF ConstantsAssumption
  <1>4. QED
    BY <1>2, <1>3, ConstantsAssumption DEF ConstantsAssumption, SymbolTableSound, Indexed

LEMMA InitInv == Init => IndexInv
  <1> SUFFICES ASSUME Init PROVE IndexInv
    OBVIOUS
  <1>1. files \in [Files -> Contents \cup {Absent}]
    BY AnnotatedType DEF Init
  <1>2. order \in Seq(Files) /\ OrderOK
    <2>1. Indexed \in SUBSET Files /\ order \in Orders(Indexed)
      BY DEF Init, Indexed
    <2>2. QED
      BY <2>1, OrdersProperties DEF OrderOK
  <1>3. {f \in Files : files[f] # Absent} = {order[i] : i \in DOMAIN order}
    BY <1>2 DEF OrderOK, Indexed
  <1>4. /\ symbol_table \in [Symbols -> Files \cup {Absent}]
        /\ \A s \in Symbols : symbol_table[s] # Absent =>
              s \in Defines[files[symbol_table[s]]]
        /\ \A f \in Files : files[f] # Absent =>
              \A s \in (Symbols \cap Defines[files[f]]) \ Unqualified : symbol_table[s] # Absent
    BY <1>1, <1>2, <1>3, SymbolTableProperties DEF Init
  <1>5. \A f \in Files : files[f] # Absent => Defines[files[f]] \subseteq Symbols
    BY <1>1, ConstantsAssumption DEF ConstantsAssumption
  <1>6. SymbolTableSound
    BY <1>4, <1>5, ConstantsAssumption DEF ConstantsAssumption, SymbolTableSound, Indexed
  <1>7. TypeOK
    <2>1. dependency_graph \in SUBSET (Symbols \X Symbols)
      BY <1>1, BuilderTypes DEF Init
    <2>2. reverse_dependency_graph \subseteq Symbols \X Symbols
      BY <2>1, ReversePairsType DEF Init
    <2>3. QED
      BY <1>1, <1>2, <1>4, <2>1, <2>2, BuilderTypes DEF Init, TypeOK
  <1>8. NoPhantomImporters
    BY DEF Init, NoPhantomImporters, Reverse, Indexed, BuildImportGraph, ResolveImports
  <1>9. HashesCurrent
    BY DEF Init, HashesCurrent, HashTable, Indexed
  <1>10. QED
    BY <1>6, <1>7, <1>8, <1>9 DEF IndexInv

-----------------------------------------------------------------------------
(* One lemma per operation of the indexer.                                 *)

LEMMA IndexStep ==
  ASSUME IndexInv, Index
  PROVE  IndexInv'
  <1>1. files' \in [Files -> Contents \cup {Absent}] /\ disk' = disk /\ batch' = batch
    BY AnnotatedType DEF Index, IndexInv, TypeOK
  <1>2. order' \in Seq(Files) /\ OrderOK'
    <2>1. /\ {f \in Files : files'[f] # Absent} \in SUBSET Files
          /\ order' \in Orders({f \in Files : files'[f] # Absent})
      BY DEF Index
    <2>2. QED
      BY <2>1, OrdersProperties DEF OrderOK, Indexed
  <1>3. symbol_table' \in [Symbols -> Files \cup {Absent}] /\ SymbolTableSound'
    BY <1>1, <1>2, RebuiltSymbolTable DEF Index
  <1>4. TypeOK'
    <2>1. dependency_graph' \in SUBSET (Symbols \X Symbols)
      BY <1>1, BuilderTypes DEF Index
    <2>2. reverse_dependency_graph' \subseteq Symbols \X Symbols
      BY <2>1, ReversePairsType DEF Index
    <2>3. QED
      BY <1>1, <1>2, <1>3, <2>1, <2>2, BuilderTypes DEF Index, IndexInv, TypeOK
  <1>5. NoPhantomImporters'
    BY DEF Index, NoPhantomImporters, Reverse, Indexed, BuildImportGraph, ResolveImports
  <1>6. HashesCurrent'
    BY DEF Index, HashesCurrent, HashTable, Indexed
  <1>7. QED
    BY <1>3, <1>4, <1>5, <1>6 DEF IndexInv

\* What deleting the key f from idx.files leaves.
LEMMA KeyDeleted ==
  ASSUME IndexInv, NEW f \in Files, files[f] # Absent,
         files' = [files EXCEPT ![f] = Absent],
         order' = OrderWithout(f),
         import_graph' = [import_graph EXCEPT ![f] = {}],
         reverse_import_graph' = Forget(f)
  PROVE  /\ files' \in [Files -> Contents \cup {Absent}]
         /\ Indexed' = Indexed \ {f}
         /\ order' \in Seq(Files) /\ OrderOK'
         /\ import_graph' \in [Files -> SUBSET Files]
         /\ reverse_import_graph' \in [Files -> SUBSET Files]
         /\ NoPhantomImporters'
  <1>1. files' \in [Files -> Contents \cup {Absent}] /\ Indexed' = Indexed \ {f}
    BY DEF IndexInv, TypeOK, Indexed
  <1>2. order' \in Seq(Files) /\ OrderOK'
    <2>1. f \in Indexed /\ order \in Seq(Files) /\ OrderOK
      BY DEF IndexInv, TypeOK, Indexed
    <2>2. /\ order' \in Seq(Files)
          /\ {order'[i] : i \in DOMAIN order'} = Indexed \ {f}
          /\ \A i, j \in DOMAIN order' : order'[i] = order'[j] => i = j
      BY <2>1, OrderWithoutProperties
    <2>3. QED
      BY <1>1, <2>2 DEF OrderOK
  <1>3. /\ import_graph' \in [Files -> SUBSET Files]
        /\ reverse_import_graph' \in [Files -> SUBSET Files]
    BY DEF IndexInv, TypeOK, Forget
  <1>4. NoPhantomImporters'
    BY <1>1 DEF IndexInv, TypeOK, NoPhantomImporters, Forget, Indexed
  <1>5. QED
    BY <1>1, <1>2, <1>3, <1>4

LEMMA DropUnreadableStep ==
  ASSUME IndexInv, NEW f \in Files, DropUnreadable(f), disk' = disk, batch' \in BOOLEAN
  PROVE  IndexInv'
  <1>1. /\ files' \in [Files -> Contents \cup {Absent}]
        /\ Indexed' = Indexed \ {f}
        /\ order' \in Seq(Files) /\ OrderOK'
        /\ import_graph' \in [Files -> SUBSET Files]
        /\ reverse_import_graph' \in [Files -> SUBSET Files]
        /\ NoPhantomImporters'
    BY KeyDeleted DEF DropUnreadable
  <1>2. TypeOK'
    BY <1>1 DEF DropUnreadable, IndexInv, TypeOK
  <1>3. \A g \in Indexed' : files'[g] = files[g]
    BY <1>1 DEF DropUnreadable, IndexInv, TypeOK, Indexed
  <1>4. SymbolTableSound'
    BY <1>1, <1>3 DEF DropUnreadable, IndexInv, SymbolTableSound
  <1>5. HashesCurrent'
    BY <1>1, <1>3 DEF DropUnreadable, IndexInv, HashesCurrent
  <1>6. QED
    BY <1>1, <1>2, <1>4, <1>5 DEF IndexInv

LEMMA RemoveFileStep ==
  ASSUME IndexInv, NEW f \in Files, RemoveFile(f), disk' = disk, batch' \in BOOLEAN
  PROVE  IndexInv'
  <1>1. /\ files' \in [Files -> Contents \cup {Absent}]
        /\ Indexed' = Indexed \ {f}
        /\ order' \in Seq(Files) /\ OrderOK'
        /\ import_graph' \in [Files -> SUBSET Files]
        /\ reverse_import_graph' \in [Files -> SUBSET Files]
        /\ NoPhantomImporters'
    BY KeyDeleted DEF RemoveFile
  <1>2. symbol_table' \in [Symbols -> Files \cup {Absent}] /\ SymbolTableSound'
    BY <1>1, RebuiltSymbolTable DEF RemoveFile
  <1>3. TypeOK'
    BY <1>1, <1>2 DEF RemoveFile, IndexInv, TypeOK
  <1>4. \A g \in Indexed' : files'[g] = files[g]
    BY <1>1 DEF RemoveFile, IndexInv, TypeOK, Indexed
  <1>5. HashesCurrent'
    BY <1>1, <1>4 DEF RemoveFile, IndexInv, HashesCurrent
  <1>6. QED
    BY <1>1, <1>2, <1>3, <1>5 DEF IndexInv

LEMMA RebuildGraphsStep ==
  ASSUME IndexInv, RebuildGraphs, disk' = disk, batch' \in BOOLEAN
  PROVE  IndexInv'
  <1>1. /\ files' \in [Files -> Contents \cup {Absent}]
        /\ order' \in Seq(Files) /\ OrderOK' /\ Indexed' = Indexed
    BY DEF RebuildGraphs, IndexInv, TypeOK, OrderOK, Indexed
  <1>2. symbol_table' \in [Symbols -> Files \cup {Absent}] /\ SymbolTableSound'
    BY <1>1, RebuiltSymbolTable DEF RebuildGraphs
  <1>3. TypeOK'
    <2>1. files \in [Files -> Contents \cup {Absent}]
      BY DEF IndexInv, TypeOK
    <2>2. dependency_graph' \in SUBSET (Symbols \X Symbols)
      BY <2>1, BuilderTypes DEF RebuildGraphs
    <2>3. reverse_dependency_graph' \subseteq Symbols \X Symbols
      BY <2>2, ReversePairsType DEF RebuildGraphs
    <2>4. QED
      BY <1>1, <1>2, <2>1, <2>2, <2>3, BuilderTypes DEF RebuildGraphs, IndexInv, TypeOK
  <1>4. NoPhantomImporters'
    BY <1>1 DEF RebuildGraphs, NoPhantomImporters, Reverse, Indexed, BuildImportGraph,
                ResolveImports
  <1>5. HashesCurrent'
    BY <1>1 DEF RebuildGraphs, IndexInv, HashesCurrent
  <1>6. QED
    BY <1>2, <1>3, <1>4, <1>5 DEF IndexInv

\* The order of the keys once f is (re)assigned in idx.files.
LEMMA KeyAssigned ==
  ASSUME IndexInv, NEW f \in Files,
         files'[f] # Absent, files' = [files EXCEPT ![f] = disk[f]],
         order' = IF files[f] = Absent THEN Append(order, f) ELSE order
  PROVE  /\ Indexed' = Indexed \cup {f}
         /\ order' \in Seq(Files) /\ OrderOK'
  <1>1. order \in Seq(Files) /\ OrderOK /\ files \in [Files -> Contents \cup {Absent}]
    BY DEF IndexInv, TypeOK
  <1>2. Indexed' = Indexed \cup {f}
    BY <1>1 DEF Indexed
  <1>3. CASE files[f] = Absent
    <2>1. f \in Files \ Indexed
      BY <1>3 DEF Indexed
    <2>2. /\ order' \in Seq(Files)
          /\ {order'[i] : i \in DOMAIN order'} = Indexed \cup {f}
          /\ \A i, j \in DOMAIN order' : order'[i] = order'[j] => i = j
      BY <1>1, <1>3, <2>1, AppendKey
    <2>3. QED
      BY <1>2, <2>2 DEF OrderOK
  <1>4. CASE files[f] # Absent
    <2>1. Indexed' = Indexed
      BY <1>2, <1>4 DEF Indexed
    <2>2. order' = order
      BY <1>4
    <2>3. OrderOK'
      BY <1>1, <2>1, <2>2 DEF OrderOK
    <2>4. QED
      BY <1>1, <1>2, <2>2, <2>3
  <1>5. QED
    BY <1>2, <1>3, <1>4

LEMMA ReannotateStep ==
  ASSUME IndexInv, NEW f \in Files, NEW skip \in BOOLEAN, Reannotate(f, skip),
         disk' = disk, batch' \in BOOLEAN
  PROVE  IndexInv'
  <1> DEFINE c == disk[f]
  <1>1. /\ c \in Contents /\ c # Absent
        /\ files \in [Files -> Contents \cup {Absent}]
        /\ files' = [files EXCEPT ![f] = c]
    BY ConstantsAssumption DEF ConstantsAssumption, Reannotate, Readable, IndexInv, TypeOK
  <1>2. files' \in [Files -> Contents \cup {Absent}] /\ files'[f] = c
    BY <1>1
  <1>3. /\ Indexed' = Indexed \cup {f}
        /\ order' \in Seq(Files) /\ OrderOK'
    BY <1>1, <1>2, KeyAssigned DEF Reannotate
  <1>4. symbol_table' \in [Symbols -> Files \cup {Absent}] /\ SymbolTableSound'
    BY <1>2, <1>3, RebuiltSymbolTable DEF Reannotate
  <1>5. /\ import_graph' = [import_graph EXCEPT ![f] = ResolveImports(f, files')]
        /\ import_graph' \in [Files -> SUBSET Files]
    <2>1. ResolveImports(f, files') \in SUBSET Files
      BY <1>2, ResolveImportsType
    <2>2. QED
      BY <2>1 DEF Reannotate, IndexInv, TypeOK
  <1>6. \/ /\ reverse_import_graph' = Reverse(import_graph')
           /\ dependency_graph' = BuildDependencyGraph(files', symbol_table')
           /\ reverse_dependency_graph' = ReversePairs(dependency_graph')
        \/ /\ reverse_import_graph' =
                 IF files[f] = Absent THEN reverse_import_graph ELSE Forget(f)
           /\ UNCHANGED <<dependency_graph, reverse_dependency_graph>>
    BY DEF Reannotate
  <1>7. /\ reverse_import_graph' \in [Files -> SUBSET Files]
        /\ dependency_graph' \subseteq Symbols \X Symbols
        /\ reverse_dependency_graph' \subseteq Symbols \X Symbols
    <2>1. CASE /\ reverse_import_graph' = Reverse(import_graph')
               /\ dependency_graph' = BuildDependencyGraph(files', symbol_table')
               /\ reverse_dependency_graph' = ReversePairs(dependency_graph')
      BY <1>2, <2>1, BuilderTypes, ReversePairsType
    <2>2. CASE /\ reverse_import_graph' =
                     IF files[f] = Absent THEN reverse_import_graph ELSE Forget(f)
               /\ UNCHANGED <<dependency_graph, reverse_dependency_graph>>
      BY <2>2 DEF IndexInv, TypeOK, Forget
    <2>3. QED
      BY <1>6, <2>1, <2>2
  <1>8. symbol_hashes' = [symbol_hashes EXCEPT ![f] = HashesOf(c)]
    BY DEF Reannotate, Rehashed
  <1>9. HashesOf(c) \in [Symbols -> Hashes \cup {Absent}]
    BY <1>1, ConstantsAssumption DEF ConstantsAssumption, HashesOf
  <1>10. TypeOK'
    BY <1>2, <1>3, <1>4, <1>5, <1>7, <1>8, <1>9 DEF IndexInv, TypeOK
  <1>11. NoPhantomImporters'
    <2>1. \A g \in Files \ Indexed' : import_graph'[g] = {}
      BY <1>3, <1>5 DEF IndexInv, TypeOK, NoPhantomImporters
    <2>2. CASE reverse_import_graph' = Reverse(import_graph')
      BY <2>1, <2>2 DEF NoPhantomImporters, Reverse
    <2>3. CASE reverse_import_graph' =
                  IF files[f] = Absent THEN reverse_import_graph ELSE Forget(f)
      <3> SUFFICES ASSUME NEW t \in Files, NEW g \in reverse_import_graph'[t]
                   PROVE  t \in import_graph'[g]
        BY <2>1 DEF NoPhantomImporters
      <3>1. g \in reverse_import_graph[t] /\ t \in import_graph[g] /\ g \in Files
        BY <2>3 DEF IndexInv, TypeOK, NoPhantomImporters, Forget
      <3>2. g # f
        BY <2>3, <3>1 DEF IndexInv, TypeOK, NoPhantomImporters, Forget, Indexed
      <3>3. QED
        BY <1>5, <3>1, <3>2 DEF IndexInv, TypeOK
    <2>4. QED
      BY <1>6, <2>2, <2>3
  <1>12. HashesCurrent'
    BY <1>1, <1>2, <1>3, <1>8 DEF IndexInv, TypeOK, HashesCurrent, Indexed
  <1>13. QED
    BY <1>4, <1>10, <1>11, <1>12 DEF IndexInv

-----------------------------------------------------------------------------
(* The theorems.                                                           *)

LEMMA StepInv == IndexInv /\ [Next]_vars => IndexInv'
  <1> SUFFICES ASSUME IndexInv, [Next]_vars PROVE IndexInv'
    OBVIOUS
  <1> USE DEF index, graphs
  <1>1. CASE Index
    BY <1>1, IndexStep
  <1>2. CASE EndBatch
    BY <1>2, RebuildGraphsStep DEF EndBatch
  <1>3. ASSUME NEW f \in Files, Edit(f)
        PROVE  IndexInv'
    BY <1>3 DEF Edit, IndexInv, TypeOK, OrderOK, NoPhantomImporters, SymbolTableSound,
                HashesCurrent, Indexed
  <1>4. ASSUME NEW f \in Files, BatchRemove(f)
        PROVE  IndexInv'
    BY <1>4, RemoveFileStep DEF BatchRemove
  <1>5. ASSUME NEW f \in Files, NEW skip \in BOOLEAN, ReindexFile(f, skip),
               disk' = disk, batch' \in BOOLEAN
        PROVE  IndexInv'
    BY <1>5, DropUnreadableStep, ReannotateStep DEF ReindexFile
  <1>6. ASSUME NEW f \in Files, BatchReindex(f) \/ DirectReindex(f)
        PROVE  IndexInv'
    BY <1>5, <1>6 DEF BatchReindex, DirectReindex, IndexInv, TypeOK
  <1>7. CASE UNCHANGED vars
    BY <1>7 DEF vars, IndexInv, TypeOK, OrderOK, NoPhantomImporters, SymbolTableSound,
                HashesCurrent, Indexed
  <1>8. QED
    BY <1>1, <1>2, <1>3, <1>4, <1>6, <1>7 DEF Next

\* For every project and every interleaving of builds, batched updates,
\* direct reindexing, failures and edits: the tables are typed, importers are
\* real, owners define their symbols and recorded hashes are current.
THEOREM IndexInvariant == Spec => []IndexInv
  <1>1. QED
    BY InitInv, StepInv, PTL DEF Spec

\* The type invariant, with idx.files and its insertion order agreeing.
THEOREM Typing == Spec => []TypeOK
  <1>1. IndexInv => TypeOK
    BY DEF IndexInv
  <1>2. QED
    BY <1>1, IndexInvariant, PTL

\* An importer read from the reverse import graph is indexed and imports the
\* file, in every reachable state of every caller.
THEOREM ImportersAreReal == Spec => []NoPhantomImporters
  <1>1. IndexInv => NoPhantomImporters
    BY DEF IndexInv
  <1>2. QED
    BY <1>1, IndexInvariant, PTL

\* A symbol's recorded owner defines it unless a failed reindex dropped the
\* owner, and no symbol of an indexed file is unknown.
THEOREM OwnersDefine == Spec => []SymbolTableSound
  <1>1. IndexInv => SymbolTableSound
    BY DEF IndexInv
  <1>2. QED
    BY <1>1, IndexInvariant, PTL

\* The hashes that reindex_file compares to skip the graph rebuild are those of
\* the text the index holds, for any texts, hash function and sequence of
\* updates, also after a file was dropped and came back.
THEOREM HashesAreCurrent == Spec => []HashesCurrent
  <1>1. IndexInv => HashesCurrent
    BY DEF IndexInv
  <1>2. QED
    BY <1>1, IndexInvariant, PTL

-----------------------------------------------------------------------------
(* The shortcut of reindex_file.                                           *)

\* Entries that mention the same names give the same table and graph.
LEMMA SameDefinesSameTable ==
  ASSUME NEW fs \in [Files -> Contents \cup {Absent}],
         NEW gs \in [Files -> Contents \cup {Absent}], NEW ord \in Seq(Files),
         \A g \in Files : (fs[g] = Absent) <=> (gs[g] = Absent),
         \A g \in Files : fs[g] # Absent => Defines[fs[g]] = Defines[gs[g]]
  PROVE  BuildSymbolTable(fs, ord) = BuildSymbolTable(gs, ord)
  <1> DEFINE D(h, s) == {i \in DOMAIN ord : h[ord[i]] # Absent /\ s \in Defines[h[ord[i]]]}
  <1>1. \A i \in DOMAIN ord : ord[i] \in Files
    BY LenProperties, ElementOfSeq
  <1>2. \A s \in Symbols : D(fs, s) = D(gs, s)
    BY <1>1
  <1> DEFINE Row(D1, s) ==
               LET ambiguous == s \in Unqualified /\ \E i, j \in D1 : i # j
               IN  IF D1 = {} \/ ambiguous THEN Absent
                   ELSE ord[CHOOSE i \in D1 : \A j \in D1 : i <= j]
  <1>3. /\ BuildSymbolTable(fs, ord) = [s \in Symbols |-> Row(D(fs, s), s)]
        /\ BuildSymbolTable(gs, ord) = [s \in Symbols |-> Row(D(gs, s), s)]
    BY DEF BuildSymbolTable
  <1> HIDE DEF D, Row
  <1>4. QED
    BY <1>2, <1>3

LEMMA SameUsesSameGraph ==
  ASSUME NEW fs, NEW gs, NEW table,
         \A g \in Files : (fs[g] = Absent) <=> (gs[g] = Absent),
         \A g \in Files : fs[g] # Absent => Uses[fs[g]] = Uses[gs[g]]
  PROVE  BuildDependencyGraph(fs, table) = BuildDependencyGraph(gs, table)
  BY DEF BuildDependencyGraph

\* Equal rows of body hashes come from texts that define the same symbols.
LEMMA HashesTellDefines ==
  ASSUME NEW c \in Contents, NEW d \in Contents, HashesOf(c) = HashesOf(d)
  PROVE  Defines[c] = Defines[d]
  <1>1. ASSUME NEW e \in Contents, NEW s \in Symbols
        PROVE  HashesOf(e)[s] # Absent <=> s \in Defines[e]
    <2>1. BodyHash[e][s] \in Hashes /\ Absent \notin Hashes
      BY ConstantsAssumption DEF ConstantsAssumption
    <2>2. QED
      BY <2>1 DEF HashesOf
  <1>2. Defines[c] \subseteq Symbols /\ Defines[d] \subseteq Symbols
    BY ConstantsAssumption DEF ConstantsAssumption
  <1>3. QED
    BY <1>1, <1>2

\* No entry was built from a text that cannot be annotated.
EntriesReadable == \A f \in Indexed : Readable(files[f])

LEMMA ReadableInv == Spec => []EntriesReadable
  <1>1. Init => EntriesReadable
    BY DEF Init, EntriesReadable, Indexed, Annotated
  <1>2. IndexInv /\ EntriesReadable /\ [Next]_vars => EntriesReadable'
    <2> SUFFICES ASSUME IndexInv, EntriesReadable, [Next]_vars
                 PROVE  EntriesReadable'
      OBVIOUS
    <2> USE DEF index, graphs
    <2>1. files \in [Files -> Contents \cup {Absent}]
      BY DEF IndexInv, TypeOK
    <2>2. CASE Index
      BY <2>2 DEF Index, EntriesReadable, Indexed, Annotated
    <2>3. CASE files' = files
      BY <2>3 DEF EntriesReadable, Indexed
    <2>4. ASSUME NEW f \in Files, files' = [files EXCEPT ![f] = Absent]
          PROVE  EntriesReadable'
      BY <2>1, <2>4 DEF EntriesReadable, Indexed
    <2>5. ASSUME NEW f \in Files, NEW skip \in BOOLEAN, Reannotate(f, skip)
          PROVE  EntriesReadable'
      BY <2>1, <2>5 DEF Reannotate, EntriesReadable, Indexed
    <2>6. ASSUME NEW f \in Files, NEW skip \in BOOLEAN, ReindexFile(f, skip)
          PROVE  EntriesReadable'
      BY <2>4, <2>5, <2>6 DEF ReindexFile, DropUnreadable
    <2>7. CASE EndBatch
      BY <2>3, <2>7 DEF EndBatch, RebuildGraphs
    <2>8. ASSUME NEW f \in Files,
                 Edit(f) \/ BatchRemove(f) \/ BatchReindex(f) \/ DirectReindex(f)
          PROVE  EntriesReadable'
      BY <2>3, <2>4, <2>6, <2>8 DEF Edit, BatchRemove, RemoveFile, BatchReindex, DirectReindex
    <2>9. QED
      BY <2>2, <2>3, <2>7, <2>8 DEF Next, vars
  <1>3. QED
    BY <1>1, <1>2, IndexInvariant, PTL DEF Spec

\* When nothing calls for a rebuild, f held a text with the hashes, symbols
\* and imports of the one it holds now.
LEMMA NothingChanged ==
  ASSUME IndexInv, NEW f \in Files, Readable(disk[f]), ~NeedsRebuild(f, disk[f])
  PROVE  /\ files[f] \in Contents
         /\ HashesOf(files[f]) = HashesOf(disk[f])
         /\ Imports[files[f]] = Imports[disk[f]]
         /\ Defines[files[f]] = Defines[disk[f]]
  <1>1. /\ files[f] \in Contents /\ files[f] # Absent /\ disk[f] \in Contents
        /\ Imports[files[f]] = Imports[disk[f]]
    BY DEF NeedsRebuild, Readable, IndexInv, TypeOK
  <1>2. symbol_hashes[f] = HashesOf(files[f])
    BY <1>1 DEF IndexInv, HashesCurrent, Indexed
  <1>3. \A s \in Symbols : HashesOf(files[f])[s] = HashesOf(disk[f])[s]
    BY <1>2 DEF NeedsRebuild, ChangedSymbols
  <1>4. HashesOf(files[f]) = HashesOf(disk[f])
    BY <1>3 DEF HashesOf
  <1>5. QED
    BY <1>1, <1>4, HashesTellDefines

LEMMA ReindexStep ==
  ASSUME IndexInv, EntriesReadable, NEW f \in Files, DirectReindex(f), Readable(disk[f]),
         NoBlurredUseChanges(f), DependenciesExact
  PROVE  DependenciesExact'
  <1>1. Reannotate(f, FALSE)
    BY DEF DirectReindex, ReindexFile, DropUnreadable
  <1>2. CASE NeedsRebuild(f, disk[f])
    BY <1>1, <1>2 DEF Reannotate, DependenciesExact
  <1>3. CASE ~NeedsRebuild(f, disk[f])
    <2>1. /\ files[f] \in Contents
          /\ HashesOf(files[f]) = HashesOf(disk[f])
          /\ Imports[files[f]] = Imports[disk[f]]
          /\ Defines[files[f]] = Defines[disk[f]]
      BY <1>3, NothingChanged
    <2>2. /\ files \in [Files -> Contents \cup {Absent}] /\ order \in Seq(Files)
          /\ disk[f] \in Contents \ Broken /\ Absent \notin Contents
      BY ConstantsAssumption DEF ConstantsAssumption, IndexInv, TypeOK, Readable
    <2>3. /\ files' = [files EXCEPT ![f] = disk[f]] /\ order' = order
          /\ symbol_table' = BuildSymbolTable(files', order')
          /\ UNCHANGED <<dependency_graph, reverse_dependency_graph>>
      BY <1>1, <1>3, <2>1, <2>2 DEF Reannotate
    <2>4. /\ files' \in [Files -> Contents \cup {Absent}]
          /\ \A g \in Files : (files[g] = Absent) <=> (files'[g] = Absent)
          /\ \A g \in Files : files[g] # Absent => Defines[files[g]] = Defines[files'[g]]
      BY <2>1, <2>2, <2>3
    <2>5. symbol_table' = symbol_table
      BY <2>2, <2>3, <2>4, SameDefinesSameTable, ZenonT(30) DEF DependenciesExact
    <2>6. files[f] \notin Broken
      BY <2>1, <2>2 DEF EntriesReadable, Readable, Indexed
    <2>7. \A g \in Files : files[g] # Absent => Uses[files[g]] = Uses[files'[g]]
      <3>1. Uses[files[f]] \ Blurred[files[f]] = Uses[disk[f]] \ Blurred[disk[f]]
        BY <2>1, <2>2, <2>6, HashesTellUses
      <3>2. Blurred[files[f]] = Blurred[disk[f]]
        BY <2>1, <2>2 DEF NoBlurredUseChanges
      <3>3. Blurred[files[f]] \subseteq Uses[files[f]] /\ Blurred[disk[f]] \subseteq Uses[disk[f]]
        BY <2>1, <2>2, ConstantsAssumption
      <3>4. Uses[files[f]] = Uses[disk[f]]
        BY <3>1, <3>2, <3>3
      <3> QED BY <2>2, <2>3, <3>4
    <2>8. BuildDependencyGraph(files, symbol_table) = BuildDependencyGraph(files', symbol_table)
      BY <2>4, <2>7, SameUsesSameGraph
    <2>9. QED
      BY <2>3, <2>5, <2>8 DEF DependenciesExact
  <1>4. QED
    BY <1>2, <1>3

\* Whatever was built, dropped or batched before, a direct reindexing that
\* starts from an exact symbol table and dependency graph ends with exact ones,
\* also when it skips the rebuild, unless a use the hashes do not tell (behind
\* a '#' in a string, or on the line after a // comment) came or went.
THEOREM ShortcutIsSound == Spec => ReindexKeepsDependencies
  <1> DEFINE Kept == \A f \in Files :
                       DirectReindex(f) /\ Readable(disk[f]) /\ NoBlurredUseChanges(f)
                           /\ DependenciesExact
                           => DependenciesExact'
  <1>1. IndexInv /\ EntriesReadable /\ [Next]_vars => [Kept]_vars
    BY ReindexStep
  <1>2. QED
    BY <1>1, IndexInvariant, ReadableInv, PTL DEF Spec, ReindexKeepsDependencies
=============================================================================
