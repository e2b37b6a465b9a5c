------------------------------ MODULE DeadCode ------------------------------
(* find_dead_code (dead_code.py).  A project p is                          *)
(*   kind        [files -> source, test, init, excluded, unsupported]      *)
(*   functions   [qualified name -> [name, file, cls, marks]]              *)
(*   classes     [qualified name -> [name, file, bases, marks]]            *)
(*   duplicates  the classes declared in more than one file                *)
(*   referred    the names something refers to in the dependency graph     *)
(*   tabled      the simple names the symbol table gives this file         *)
(*   tokens      [files -> identifiers outside string literals]            *)
(*   values      identifiers used as values of a dict                      *)
(*   built       simple names of classes that are called somewhere         *)
(*   called      names called as attributes somewhere                      *)
(*   selfCalls   [functions -> the names called on self]                   *)
(*   siblings    the other loaded projects: [deps, imports]                *)
(* The marks of a symbol are what exempts it: its name, a decorator, a     *)
(* base that dispatches to it, being an accessor of a value class.         *)
EXTENDS FiniteSets, Naturals, Closure

CONSTANTS
    NoClass,    \* the class of a function that is no method
    HeadOf      \* [names -> names]: a dotted name without its last part

Funcs(p) == DOMAIN p.functions
MethodsOf(p, c) == {f \in Funcs(p) : p.functions[f].cls = c}
FunctionsCalled(p, name) == {f \in Funcs(p) : p.functions[f].name = name}
ClassesCalled(p, name) == {c \in DOMAIN p.classes : name \in {c, p.classes[c].name}}
Referred(p, f) == f \in p.referred \/ p.functions[f].name \in p.referred
-----------------------------------------------------------------------------
(* What other projects refer to.                                           *)

QualifiedBy(p, s) == FunctionsCalled(p, s) \cup {c \in DOMAIN p.classes : p.classes[c].name = s}
KnownSymbols(p) == Funcs(p) \cup DOMAIN p.classes \cup p.tabled

MarkSymbol(p, s) ==
    IF s \notin KnownSymbols(p) THEN {}
    ELSE UNION {{t, HeadOf[t]} : t \in {s} \cup QualifiedBy(p, s)}

MarkClass(p, c) ==
    IF c \notin KnownSymbols(p) /\ QualifiedBy(p, c) = {} THEN {}
    ELSE MarkSymbol(p, c)
         \cup UNION {MethodsOf(p, d) : d \in IF QualifiedBy(p, c) = {} THEN {c} ELSE QualifiedBy(p, c)}

\* An import [from, whole, module, simple, names]: names taken from a module, or
\* the module itself, by its dotted name or by the last part of it; and all the
\* classes of a package imported whole, of those with a dot in their names.
MarkImport(p, imp) ==
    IF imp.from THEN MarkSymbol(p, imp.module) \cup UNION {MarkSymbol(p, n) : n \in imp.names}
    ELSE MarkClass(p, IF imp.module \in KnownSymbols(p) THEN imp.module ELSE imp.simple)
         \cup UNION {MarkClass(p, c) : c \in {c \in DOMAIN p.classes : imp.whole /\ HeadOf[c] = imp.module /\ c # imp.module}}

CrossProjectLive(p) ==
    UNION {UNION {MarkSymbol(p, d) \cup MarkClass(p, HeadOf[d]) : d \in s.deps}
           \cup UNION {MarkImport(p, imp) : imp \in s.imports} : s \in p.siblings}
-----------------------------------------------------------------------------
(* Overrides of a method in use are in use, one level down.                *)

Overrides(p, f) ==
    {g \in Funcs(p) : /\ p.functions[g].cls # NoClass /\ p.functions[f].cls # NoClass
                      /\ p.functions[g].name = p.functions[f].name
                      /\ \E b \in p.classes[p.functions[g].cls].bases :
                            p.functions[f].cls \in ClassesCalled(p, b)}

SignaturePropagatedLive(p, live) ==
    UNION {Overrides(p, f) : f \in {f \in Funcs(p) : Referred(p, f) \/ f \in live}}
-----------------------------------------------------------------------------
(* Registration, dispatch and singletons, read off the text.               *)

\* A top-level function whose name occurs in a file without one of that name.
RegisteredLive(p) ==
    LET top == {f \in Funcs(p) : p.functions[f].cls = NoClass}
    IN  {f \in top :
            LET homes == {p.functions[g].file : g \in {g \in top : p.functions[g].name = p.functions[f].name}}
            IN  \/ p.functions[f].name \in p.values
                \/ \E x \in DOMAIN p.tokens \ homes : p.functions[f].name \in p.tokens[x]}

InstantiatedLive(p) ==
    LET built == {c \in DOMAIN p.classes : p.classes[c].name \in p.built}
    IN  built \cup UNION {{f \in MethodsOf(p, c) : p.functions[f].name \in p.called} : c \in built}

\* What a method calls on self, and what is called so again and again.
SelfCalled(p, f) ==
    {g \in Funcs(p) : /\ p.functions[f].cls = p.functions[g].cls
                      /\ p.functions[f].cls # NoClass
                      /\ p.functions[g].name \in p.selfCalls[f]}
SelfClosureMutant(p, S) == S \cup UNION {SelfCalled(p, f) : f \in S}
SelfClosure(p, S) ==
    Within([f \in Funcs(p) |-> SelfCalled(p, f)], S, Cardinality(Funcs(p)))

DynamicLive(p, live) ==
    LET found == RegisteredLive(p) \cup InstantiatedLive(p)
    IN  found \cup SelfClosure(p, {f \in Funcs(p) : /\ p.functions[f].cls # NoClass
                                                    /\ f \in found \cup live \/ Referred(p, f)})

LiveSymbols(p) ==
    LET across == CrossProjectLive(p)
        overriding == SignaturePropagatedLive(p, across)
    IN  across \cup overriding \cup DynamicLive(p, across \cup overriding)
-----------------------------------------------------------------------------
(* The report.                                                             *)

FileExempts(p, x) == p.kind[x] \in {"test", "init", "unsupported"}

IsFunctionEntryPoint(p, f) ==
    \/ FileExempts(p, p.functions[f].file) \/ p.functions[f].marks # {}
    \/ p.functions[f].cls # NoClass /\ "managed" \in p.classes[p.functions[f].cls].marks

IsClassEntryPoint(p, c) == FileExempts(p, p.classes[c].file) \/ p.classes[c].marks # {}

DeadFunctions(p) ==
    {f \in Funcs(p) : /\ p.kind[p.functions[f].file] # "excluded"
                      /\ p.functions[f].cls \notin p.duplicates
                      /\ ~IsFunctionEntryPoint(p, f)
                      /\ ~Referred(p, f) /\ f \notin LiveSymbols(p)}

DeadClasses(p) ==
    {c \in DOMAIN p.classes : /\ p.kind[p.classes[c].file] # "excluded"
                              /\ c \notin p.duplicates
                              /\ ~IsClassEntryPoint(p, c)
                              /\ {c, p.classes[c].name} \cap p.referred = {}
                              /\ c \notin LiveSymbols(p)}

FindDeadCode(p) == DeadFunctions(p) \cup DeadClasses(p)
-----------------------------------------------------------------------------
(* What is asked for: nothing reported dead is reached, by calls on self   *)
(* through however many methods, from a method something refers to or from *)
(* one that overrides it.                                                  *)

ReachedOnSelf(p) ==
    LET used == {f \in Funcs(p) : Referred(p, f)}
        start == used \cup UNION {Overrides(p, f) : f \in used}
    IN  Within([f \in Funcs(p) |-> SelfCalled(p, f)], start, Cardinality(Funcs(p)))
=============================================================================
