---------------------------- MODULE JavaAnnotator ----------------------------
(* java_annotator.py: the types of a file with the methods declared in them *)
(* and, for each, what it depends on; and the graph of a Java project       *)
(* (project_indexer.py): references resolved across packages, overriding    *)
(* methods, and what the Spring framework and the Java runtime call.        *)
(*                                                                          *)
(* A file is [package, imports, types].  A type is a record [kind, name,    *)
(* interface, bases, permits, marks, fields, members] with what it extends  *)
(* and implements, a method one of [kind, name, params, marks, body, inner] *)
(* with its parameters <<variable, type, dotted, modified>>, the last for   *)
(* one that is final or annotated, and the types declared in its body.  A   *)
(* statement declares a local variable, binds one as a for-each loop, a     *)
(* resource, a lambda or a pattern does, calls a method, refers to one or   *)
(* makes an object.  A qualified name is the sequence of its parts, of      *)
(* which a method's last is its signature.  A project is the sequence of    *)
(* its files.  Types of different files have different symbols, names of    *)
(* types have no dots, and comments and literals name nothing.              *)
EXTENDS Naturals, Sequences, FiniteSets, SequencesExt

CONSTANTS
    NoName,         \* a type that is of the language or that cannot be read
    ThreadTypes,    \* names that end in Thread
    ExecutorTypes   \* names that end in Executor, ExecutorService, ...

Part(n) == [name |-> n]
TypesOf(m) == [k \in DOMAIN m.params |-> m.params[k][2]]
Signature(m) == [name |-> m.name, types |-> TypesOf(m)]

\* A class's clauses are found by their names, and those of what a sealed type
\* permits with them; the clause of an interface that extends others has none.
ReadBases(t) == (IF t.interface THEN <<>> ELSE t.bases) \o t.permits

\* The types and methods of a type and of those in it, an outer one first.
RECURSIVE TypeTree(_, _)
TypeTree(t, outer) ==
    LET me == Append(outer, Part(t.name))
        Member(x) ==
            IF x.kind = "type" THEN TypeTree(x, me)
            ELSE <<[kind |-> "method", name |-> x.name, symbol |-> Append(me, Signature(x)),
                    owner |-> me, fields |-> t.fields, node |-> x]>>
                 \o FlattenSeq([k \in DOMAIN x.inner |->
                                   TypeTree(x.inner[k], me \o <<Signature(x), Part("local")>>)])
    IN  <<[kind |-> "type", name |-> t.name, symbol |-> me, bases |-> ReadBases(t), marks |-> t.marks, node |-> t]>>
        \o FlattenSeq([k \in DOMAIN t.members |-> Member(t.members[k])])

Extracted(file) ==
    FlattenSeq([k \in DOMAIN file.types |->
                   TypeTree(file.types[k], IF file.package = "" THEN <<>> ELSE <<Part(file.package)>>)])
Methods(found) == {x \in ToSet(found) : x.kind = "method"}
Types(found) == {x \in ToSet(found) : x.kind = "type"}

\* What a simple name stands for: the first type of the file that goes by
\* it, else the first import; a static import makes its owner visible.
Visible(file, found) ==
    LET shown == SelectSeq(found, LAMBDA x : x.kind = "type")
                 \o SelectSeq(file.imports, LAMBDA i : i.static \/ i.name # "*")
    IN  [n \in {shown[k].name : k \in DOMAIN shown} |->
            shown[CHOOSE k \in DOMAIN shown : shown[k].name = n
                                             /\ \A j \in 1..k - 1 : shown[j].name # n].symbol]
StaticOwner(file, n) ==
    LET members == SelectSeq(file.imports, LAMBDA i : i.static /\ i.member = n)
    IN  IF members = <<>> THEN {} ELSE {Last(members).symbol}
Resolve(visible, type) ==
    IF type = NoName THEN <<>> ELSE IF type \in DOMAIN visible THEN visible[type] ELSE <<Part(type)>>

\* The owner is read off the symbol, which a dot in a parameter's type cuts
\* elsewhere.
OwnerKey(m) ==
    IF \E k \in DOMAIN m.node.params : m.node.params[k][3] THEN Append(m.symbol, Part("cut")) ELSE m.owner

\* The method of an owner a call means: the only one of its arity, or the
\* only one of its name; the bare name if there is no such method.
AnyArity == 100
MethodTarget(found, owner, name, arity) ==
    LET overloads == {m \in Methods(found) : OwnerKey(m) = owner /\ m.name = name}
        fitting == {m \in overloads : Len(m.node.params) = arity}
    IN  IF Cardinality(fitting) = 1 THEN (CHOOSE m \in fitting : TRUE).symbol
        ELSE IF Cardinality(overloads) = 1 THEN (CHOOSE m \in overloads : TRUE).symbol
        ELSE Append(owner, Part(name))

\* Mutant: a field is not shadowed by a parameter or a local variable.
VariableTypesMutant(m) ==
    LET locals == SelectSeq(m.node.body, LAMBDA s : s.kind = "local")
        pairs == SelectSeq([k \in DOMAIN locals |-> <<locals[k].variable, locals[k].type>>]
                           \o SelectSeq(m.node.params, LAMBDA p : ~p[4]) \o m.fields, LAMBDA p : p[2] # NoName)
    IN  [v \in {pairs[k][1] : k \in DOMAIN pairs} |->
            pairs[CHOOSE k \in DOMAIN pairs : pairs[k][1] = v /\ \A j \in k + 1..Len(pairs) : pairs[j][1] # v][2]]

\* The types of the variables a method sees: its class's fields, its
\* parameters, its local variables wherever they are declared.  Of a final or
\* annotated parameter the modifiers are taken for the type, which gives none;
\* what is bound otherwise is not looked for.
VariableTypes(m) ==
    LET inherited == IF OwnerKey(m) = m.owner THEN m.fields ELSE <<>>
        plain == SelectSeq(m.node.params, LAMBDA p : ~p[4])
        locals == SelectSeq(m.node.body, LAMBDA s : s.kind = "local")
        pairs == inherited
                 \o [k \in DOMAIN plain |-> <<plain[k][1], plain[k][2]>>]
                 \o [k \in DOMAIN locals |-> <<locals[k].variable, locals[k].type>>]
        typed == SelectSeq(pairs, LAMBDA p : p[2] # NoName)
    IN  [v \in {typed[k][1] : k \in DOMAIN typed} |->
            typed[CHOOSE k \in DOMAIN typed : typed[k][1] = v
                                              /\ \A j \in k + 1..Len(typed) : typed[j][1] # v][2]]

\* The type a call is made on, or <<>> if it is not known.
ReceiverOwner(m, visible, receiver) ==
    LET types == VariableTypes(m)
    IN  CASE receiver.kind \in {"none", "this", "super"} -> OwnerKey(m)
          [] receiver.kind \in {"new", "type", "other"}  -> Resolve(visible, receiver.name)
          [] receiver.kind = "variable" ->
                IF receiver.name \in DOMAIN types THEN Resolve(visible, types[receiver.name]) ELSE <<>>

\* What is run by a call that starts a thread or submits a task.
LaunchTargets(found, m, visible, s, owner) ==
    LET types == VariableTypes(m)
        Owners == {o \in {CASE a.kind = "variable" /\ a.name \in DOMAIN types -> Resolve(visible, types[a.name])
                            [] a.kind = "new" -> Resolve(visible, a.name)
                            [] OTHER -> <<>> : a \in ToSet(s.args)} : o # <<>>}
        Run(names) == {MethodTarget(found, o, n, AnyArity) : o \in Owners, n \in names}
        last == owner[Len(owner)].name
    IN  CASE s.name = "start" /\ last \in ThreadTypes -> {MethodTarget(found, owner, "run", AnyArity)}
          [] s.name = "execute" /\ last \in ExecutorTypes  -> Run({"run"})
          [] s.name = "submit" /\ last \in ExecutorTypes   -> Run({"call", "run"})
          [] OTHER -> {}

\* What one statement makes a method depend on.
StatementDependencies(file, found, m, visible, s) ==
    LET owner == ReceiverOwner(m, visible, s.receiver)
        own == {o \in Methods(found) : OwnerKey(o) = OwnerKey(m) /\ o.name = s.name}
        named == IF s.receiver.kind \in {"new", "type"} /\ s.receiver.name # NoName
                 THEN {Resolve(visible, s.receiver.name)} ELSE {}
        unqualified == IF s.kind = "call" /\ s.receiver.kind = "none" /\ own = {}
                       THEN StaticOwner(file, s.name) ELSE {}
    IN  CASE s.kind = "call" /\ owner # <<>> ->
                {MethodTarget(found, owner, s.name, Len(s.args))} \cup named \cup unqualified
                \cup LaunchTargets(found, m, visible, s, owner)
          [] s.kind = "reference" /\ owner # <<>> ->
                {IF s.name = "new" THEN owner ELSE MethodTarget(found, owner, s.name, AnyArity)} \cup named
          [] s.kind = "new" -> named
          [] OTHER -> {}

MethodDependencies(file, found, m) ==
    LET visible == Visible(file, found)
    IN  UNION {StatementDependencies(file, found, m, visible, m.node.body[k]) : k \in DOMAIN m.node.body}
        \cup {Resolve(visible, a) : a \in m.node.marks}
TypeDependencies(file, found, t) ==
    {Resolve(Visible(file, found), n) : n \in ToSet(t.bases) \cup t.marks}

AnnotateJava(file) ==
    LET found == Extracted(file)
    IN  [symbols |-> {x.symbol : x \in ToSet(found)},
         graph |-> [s \in {x.symbol : x \in ToSet(found)} |->
                       UNION {IF x.kind = "type" THEN TypeDependencies(file, found, x)
                              ELSE MethodDependencies(file, found, x) : x \in {x \in ToSet(found) : x.symbol = s}} \ {s}]]
-----------------------------------------------------------------------------
(* The graph of a project.                                                 *)

ClassMarks == {"RestController", "Controller", "RequestMapping", "Configuration",
               "ConfigurationProperties", "Service", "Component", "Repository", "SpringBootApplication"}
MethodMarks == {"Bean", "GetMapping", "PostMapping", "PutMapping", "PatchMapping", "DeleteMapping", "RequestMapping"}
LifecycleMarks == {"PreDestroy", "PostConstruct"}
DispatchBases == {<<Part("Runnable")>>, <<Part("Thread")>>}

Found(project) == FlattenSeq([k \in DOMAIN project |-> Extracted(project[k])])
TypesOnly(found) == SelectSeq(found, LAMBDA x : x.kind = "type")
MethodsOf(found, type) == {m \in Methods(found) : m.owner = type.symbol}
Named(x) == {<<Part(x.name)>>, x.symbol}
-----------------------------------------------------------------------------
(* The names of the project.                                               *)

\* A declaration in the body of a method has no aliases; the others keep
\* those that no other declaration has.
Aliases(x) ==
    IF Part("local") \in ToSet(x.symbol) THEN <<>>
    ELSE IF x.kind = "type" THEN <<<<Part(x.name)>>>>
    ELSE LET class == <<Last(x.owner)>>
         IN  <<Append(x.owner, Part(x.name)), Append(class, Part(x.name)), Append(class, Last(x.symbol))>>
SymbolTable(found) ==
    LET aliases == FlattenSeq([k \in DOMAIN found |-> Aliases(found[k])])
    IN  {x.symbol : x \in ToSet(found)}
        \cup {a \in ToSet(aliases) : Cardinality({k \in DOMAIN aliases : aliases[k] = a}) = 1}

\* The first of two types of a package that go by one name.
PackageSymbols(project, package) ==
    LET types == FlattenSeq([k \in DOMAIN project |->
                    IF project[k].package # "" /\ <<Part(project[k].package)>> = package
                    THEN TypesOnly(Extracted(project[k])) ELSE <<>>])
    IN  FoldLeft(LAMBDA names, t : names @@ (t.name :> t.symbol), [n \in {} |-> <<>>], types)

\* What the simple names of a file mean: first the types of its package, then
\* its own and what it imports; but a package imported as a whole comes before
\* all that was there.
ImportedNames(project, table, file) ==
    LET Own(names, t) == names @@ (t.name :> t.symbol)
        Import(names, i) ==
            IF i.static
            THEN IF i.symbol \notin table THEN names
                 ELSE names @@ (i.name :> i.symbol)
                            @@ (IF i.member = "*" THEN [n \in {} |-> <<>>] ELSE i.member :> i.symbol)
            ELSE IF i.name = "*" THEN PackageSymbols(project, i.symbol) @@ names
            ELSE IF i.symbol \in table THEN names @@ (i.name :> i.symbol)
            ELSE names
    IN  FoldLeft(Import,
                 FoldLeft(Own, PackageSymbols(project, <<Part(file.package)>>), TypesOnly(Extracted(file))),
                 file.imports)
-----------------------------------------------------------------------------
(* Overriding.                                                             *)

\* What a type inherits from, by every name it goes by.  What was collected
\* for a type is kept, also when a cycle cut it short.
RECURSIVE Collect(_, _, _, _)
Collect(types, cache, t, seen) ==
    LET next == seen \cup {t.symbol}
        bases == FlattenSeq([k \in DOMAIN t.bases |->
                                SelectSeq(types, LAMBDA c : <<Part(t.bases[k])>> \in Named(c))])
        Visit(acc, c) ==
            IF c.symbol \in next THEN [acc EXCEPT !.ancestors = @ \cup {c.symbol}]
            ELSE LET below == Collect(types, acc.cache, c, next)
                 IN  [cache |-> below, ancestors |-> acc.ancestors \cup {c.symbol} \cup below[c.symbol]]
        visited == FoldLeft(Visit, [cache |-> cache, ancestors |-> {<<Part(n)>> : n \in ToSet(t.bases)}], bases)
    IN  IF t.symbol \in DOMAIN cache THEN cache
        ELSE (t.symbol :> visited.ancestors) @@ visited.cache

\* Mutant: only the bases a type names itself.
HierarchyMutant(types) ==
    [s \in {t.symbol : t \in ToSet(types)} |->
        UNION {UNION {Named(c) : c \in {c \in ToSet(types) : <<Part(n)>> \in Named(c)}} :
                  n \in ToSet((CHOOSE t \in ToSet(types) : t.symbol = s).bases)}]

Hierarchy(types) ==
    FoldLeft(LAMBDA cache, t : Collect(types, cache, t, {}), [s \in {} |-> {}], types)

SignatureKey(m) == <<m.name, Len(m.node.params)>>

\* The methods of the same name and arity in the types below a method's own.
Overriders(found, hierarchy, m) ==
    {o.symbol : o \in {o \in Methods(found) : /\ SignatureKey(o) = SignatureKey(m)
                                              /\ {<<Last(m.owner)>>, m.owner} \cap hierarchy[o.owner] # {}}}
ImplementationEdges(found) ==
    LET hierarchy == Hierarchy(TypesOnly(found))
    IN  [s \in {m.symbol : m \in Methods(found)} |->
            UNION {Overriders(found, hierarchy, m) : m \in {m \in Methods(found) : m.symbol = s}}]
-----------------------------------------------------------------------------
(* References.                                                             *)

Dots(symbol) == Cardinality({k \in DOMAIN symbol : symbol[k] # Part("local")}) - 1

\* What goes by a name in an owner: that very name, every overload of it and
\* what is declared in their bodies.
Members(table, owner, name) ==
    {s \in table : IsStrictPrefix(owner, s)
                   /\ LET part == s[Len(owner) + 1]
                      IN  part.name = name /\ ("types" \in DOMAIN part \/ Len(s) = Len(owner) + 1)}

ResolveDependency(table, names, dep) ==
    LET owner == Front(dep)
        owners == {owner} \cup IF Len(owner) = 1 /\ owner[1].name \in DOMAIN names THEN {names[owner[1].name]} ELSE {}
        resolved == UNION {IF "types" \in DOMAIN Last(dep) THEN table \cap {Append(o, Last(dep))}
                           ELSE Members(table, o, Last(dep).name) : o \in owners}
        canonical == {s \in resolved : Dots(s) > Dots(dep)}
    IN  IF Len(dep) = 1
        THEN (table \cap {dep}) \cup IF dep[1].name \in DOMAIN names THEN {names[dep[1].name]} ELSE {}
        ELSE IF canonical = {} THEN resolved ELSE canonical

\* A type or method with those declared in it, and the words of one of them.
RECURSIVE NodesIn(_)
NodesIn(node) ==
    {node} \cup UNION {NodesIn(n) : n \in ToSet(IF node.kind = "type" THEN node.members ELSE node.inner)}
StatementWords(s) ==
    CASE s.kind \in {"local", "binding"} -> {s.variable, s.type}
      [] s.kind = "new"   -> {s.receiver.name}
      [] s.kind = "call"  -> {s.receiver.name, s.name} \cup {a.name : a \in ToSet(s.args)}
      [] OTHER            -> {s.receiver.name, s.name}
Words(node) ==
    {node.name} \cup node.marks
    \cup UNION {{v[1], v[2]} : v \in ToSet(IF node.kind = "type" THEN node.fields ELSE node.params)}
    \cup IF node.kind = "type" THEN ToSet(node.bases) \cup ToSet(node.permits)
         ELSE UNION {StatementWords(s) : s \in ToSet(node.body)}

\* The methods that Owner::name refers to.
ReferenceTargets(table, names, current, s) ==
    LET token == s.receiver.name
        owner == IF s.receiver.kind \in {"this", "super"} THEN current
                 ELSE IF token \in DOMAIN names THEN names[token]
                 ELSE IF <<Part(token)>> \in table THEN <<Part(token)>>
                 ELSE <<>>
    IN  IF owner = <<>> THEN {} ELSE Members(table, owner, s.name)

\* What the text of a declaration mentions.
Mentioned(table, names, x) ==
    LET nodes == NodesIn(x.node)
        current == IF x.kind = "type" THEN x.symbol ELSE Front(x.symbol)
        references == {s \in UNION {ToSet(m.body) : m \in {n \in nodes : n.kind = "method"}} :
                          s.kind = "reference" /\ s.receiver.kind \in {"this", "super", "type", "variable"}}
    IN  {names[w] : w \in DOMAIN names \cap UNION {Words(n) : n \in nodes}}
        \cup UNION {ReferenceTargets(table, names, current, s) : s \in references}
-----------------------------------------------------------------------------
(* What the framework and the runtime call, as pairs of symbols.           *)

ClassKind(marks) ==
    IF marks \cap {"RestController", "Controller", "RequestMapping"} # {} THEN "controller"
    ELSE IF marks \cap {"Configuration", "ConfigurationProperties"} # {} THEN "configuration"
    ELSE IF "SpringBootApplication" \in marks THEN "application" ELSE "component"
MethodKind(marks) ==
    IF marks \cap LifecycleMarks # {} THEN "lifecycle" ELSE IF "Bean" \in marks THEN "bean" ELSE "route"

FrameworkEdges(found) ==
    UNION {{<<Part(ClassKind(t.marks))>> \o t.symbol}
           \X ({t.symbol} \cup {m.symbol : m \in MethodsOf(found, t)}) :
              t \in {t \in Types(found) : t.marks \cap ClassMarks # {}}}
    \cup {<<<<Part(MethodKind(m.node.marks))>> \o m.symbol, m.symbol>> :
              m \in {m \in Methods(found) : m.node.marks \cap (MethodMarks \cup LifecycleMarks) # {}}}

Dispatch == <<Part("Runnable.run")>>
RuntimeEdges(found) ==
    LET hierarchy == Hierarchy(TypesOnly(found))
    IN  {<<Dispatch, m.symbol>> :
            m \in {m \in Methods(found) : m.name = "run" /\ hierarchy[m.owner] \cap DispatchBases # {}}}

\* The types the parameters of a method name, as far as the project has them.
SignatureTypes(table, names, m) ==
    UNION {IF n \in DOMAIN names THEN {names[n]} ELSE table \cap {<<Part(n)>>} :
              n \in ToSet(TypesOf(m.node)) \ {NoName}}

\* The constructor that Spring calls, if it is clear which.
InjectionPoints(found, t) ==
    LET constructors == {m \in MethodsOf(found, t) : m.name = t.name}
        autowired == {m \in constructors : "Autowired" \in m.node.marks}
    IN  IF autowired # {} THEN autowired ELSE IF Cardinality(constructors) > 1 THEN {} ELSE constructors

Bootstrap(found) ==
    LET managed == {t \in Types(found) : t.marks \cap ClassMarks # {}}
        preferred == {t \in managed : t.marks \cap (ClassMarks \ {"RequestMapping", "Component", "SpringBootApplication"}) # {}}
    IN  [source \in {<<Part("boot")>> \o t.symbol : t \in {t \in managed : "SpringBootApplication" \in t.marks}} |->
            {t.symbol : t \in IF preferred # {} THEN preferred ELSE managed} \ {Tail(source)}]

\* What the managed classes of a file are wired to: the types their
\* constructor takes and, as the file names it, what their beans refer to.
WiringEdges(table, names, own, graph) ==
    UNION {
        UNION {{e \in {t.symbol, m.symbol} \X SignatureTypes(table, names, m) : e[1] # e[2]} :
                  m \in InjectionPoints(own, t)}
        \cup UNION {{t.symbol} \X graph[m.symbol] : m \in {m \in MethodsOf(own, t) : "Bean" \in m.node.marks}} :
        t \in {t \in Types(own) : t.marks \cap ClassMarks # {}}}
-----------------------------------------------------------------------------
\* A call that may go to a method may go to every method that overrides it.
Dispatched(graph, overriders) ==
    [s \in DOMAIN graph |->
        graph[s] \cup (UNION {overriders[d] : d \in graph[s] \cap DOMAIN overriders} \ {s})]

GlobalGraph(project) ==
    LET found == Found(project)
        table == SymbolTable(found)
        overriders == ImplementationEdges(found)
        Names(file) == ImportedNames(project, table, file)
        FileGraph(file) ==
            LET graph == AnnotateJava(file).graph
                names == Names(file)
                Refers(x) == UNION {ResolveDependency(table, names, d) : d \in graph[x.symbol]}
                             \cup Mentioned(table, names, x)
            IN  [s \in DOMAIN graph |->
                    (UNION {Refers(x) : x \in {x \in ToSet(Extracted(file)) : x.symbol = s}} \ {s})
                    \cup IF s \in DOMAIN overriders THEN overriders[s] ELSE {}]
        graph == Dispatched(FoldLeft(LAMBDA merged, file : FileGraph(file) @@ merged, [s \in {} |-> {}], project), overriders)
        boot == Bootstrap(found)
        entries == FrameworkEdges(found) \cup RuntimeEdges(found)
                   \cup UNION {WiringEdges(table, Names(file), Extracted(file), AnnotateJava(file).graph) : file \in ToSet(project)}
        At(g, s) == IF s \in DOMAIN g THEN g[s] ELSE {}
    IN  [s \in DOMAIN graph \cup DOMAIN boot \cup {e[1] : e \in entries} |->
            At(graph, s) \cup At(boot, s) \cup {e[2] : e \in {e \in entries : e[1] = s}}]
=============================================================================
