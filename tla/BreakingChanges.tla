-------------------------- MODULE BreakingChanges --------------------------
(* detect_breaking_changes (breaking_changes.py): the signatures of a file *)
(* at a git ref against those of the working tree.                         *)
(*                                                                         *)
(* A Python version of a file is [parses, funcs, classes]; funcs maps a    *)
(* name to a signature [params, returns, body] and classes a name to such  *)
(* a map of methods.  A parameter is [name, kind, default] with kind one   *)
(* of posonly, plain, star, kwonly, starstar.  A Java version is           *)
(* [classes, methods]: classes maps a name to its visibility, methods a    *)
(* qualified name [owner, name, types] to [visibility, returns]; local     *)
(* symbols, which the code filters out, are in neither.                    *)
EXTENDS FiniteSets, Naturals, SequencesExt

CONSTANTS
    Self,       \* a parameter named self or cls
    Erasure,    \* [types as written -> types]: generics and spacing dropped
    NoContent,  \* a version git or the disk did not yield
    NoType      \* the return type of a function that states none

NoNames == [n \in {} |-> NoContent]
Visible == {"public", "protected"}

Issue(symbol, severity, what) == [symbol |-> symbol, severity |-> severity, what |-> what]
-----------------------------------------------------------------------------
(* Python.                                                                 *)

\* A file that does not parse has no signatures.
Signatures(version) ==
    IF version.parses THEN version ELSE [parses |-> FALSE, funcs |-> NoNames, classes |-> NoNames]

\* The parameters a comparison sees: positional-only ones are in no list, a
\* starred one goes by its star and has no default.
Params(sig, isMethod) ==
    {[name |-> IF p.kind \in {"star", "starstar"} THEN <<p.kind, p.name>> ELSE <<p.name>>,
      default |-> p.kind \notin {"star", "starstar"} /\ p.default] :
        p \in {q \in sig.params : ~(isMethod /\ q.kind = "plain" /\ q.name = Self)
                                  /\ q.kind # "posonly"}}

ParamNames(params) == {p.name : p \in params}

DiffParamsMutant(symbol, old, new) ==
    {Issue(symbol, "breaking", "param removed") : n \in ParamNames(old) \ ParamNames(new)}
DiffParams(symbol, old, new) ==
    {Issue(symbol, "breaking", "param removed") : n \in ParamNames(old) \ ParamNames(new)}
    \cup {Issue(symbol, IF p.default THEN "warning" ELSE "breaking", "param added") :
            p \in {p \in new : p.name \notin ParamNames(old)}}

DiffReturnType(symbol, old, new) ==
    IF NoType \in {old, new} \/ old = new THEN {} ELSE {Issue(symbol, "warning", "returns")}

\* A body is compared only when the signature raised nothing; a changed
\* return type goes by the method's bare name.
CompareSignatures(symbol, old, new, isMethod) ==
    LET drift == DiffParams(symbol, Params(old, isMethod), Params(new, isMethod))
                 \cup DiffReturnType(<<Last(symbol)>>, old.returns, new.returns)
    IN  IF drift # {} THEN drift
        ELSE IF old.body # new.body THEN {Issue(symbol, "info", "body")} ELSE {}

\* One map of functions against another; scope is the class, or nothing.
CompareFunctions(old, new, scope) ==
    {Issue(Append(scope, n), "breaking", "removed") : n \in DOMAIN old \ DOMAIN new}
    \cup {Issue(Append(scope, n), "info", "added") : n \in DOMAIN new \ DOMAIN old}
    \cup UNION {CompareSignatures(Append(scope, n), old[n], new[n], scope # <<>>) :
                  n \in DOMAIN old \cap DOMAIN new}

\* A class that is gone is one issue; a new class is none.
CompareClasses(old, new) ==
    {Issue(<<c>>, "breaking", "class removed") : c \in DOMAIN old \ DOMAIN new}
    \cup UNION {CompareFunctions(old[c], new[c], <<c>>) : c \in DOMAIN old \cap DOMAIN new}

ComparePython(old, new) ==
    CompareFunctions(Signatures(old).funcs, Signatures(new).funcs, <<>>)
    \cup CompareClasses(Signatures(old).classes, Signatures(new).classes)

DeletedPython(old) ==
    {Issue(<<n>>, "breaking", "removed") : n \in DOMAIN Signatures(old).funcs}
    \cup {Issue(<<c>>, "breaking", "class removed") : c \in DOMAIN Signatures(old).classes}
-----------------------------------------------------------------------------
(* Java: an overload is known by its parameter types.                      *)

MethodShape(m) == [m EXCEPT !.types = Erasure[@]]
ApiClasses(version) == {c \in DOMAIN version.classes : version.classes[c] \in Visible}
ApiMethods(version) == {m \in DOMAIN version.methods : version.methods[m].visibility \in Visible}

CompareJava(old, new) ==
    {Issue(<<c>>, "breaking", "class removed") : c \in ApiClasses(old) \ DOMAIN new.classes}
    \cup {Issue(<<m>>, "breaking", "removed") :
            m \in {m \in ApiMethods(old) \ DOMAIN new.methods :
                      \A n \in DOMAIN new.methods : MethodShape(n) # MethodShape(m)}}
    \cup UNION {DiffReturnType(<<m>>, old.methods[m].returns, new.methods[m].returns) :
                  m \in ApiMethods(old) \cap DOMAIN new.methods}

DeletedJava(old) ==
    {Issue(<<c>>, "breaking", "class removed") : c \in ApiClasses(old)}
    \cup {Issue(<<m>>, "breaking", "removed") : m \in ApiMethods(old)}
-----------------------------------------------------------------------------
(* The report on one changed file [status, lang, old, new].                *)

BreakingChangesOf(file) ==
    IF file.old = NoContent \/ (file.status = "modified" /\ file.new = NoContent) THEN {}
    ELSE IF file.status = "modified"
         THEN IF file.lang = "python" THEN ComparePython(file.old, file.new)
                                      ELSE CompareJava(file.old, file.new)
         ELSE IF file.lang = "python" THEN DeletedPython(file.old) ELSE DeletedJava(file.old)
-----------------------------------------------------------------------------
(* What is asked for.                                                      *)

\* A call that names every argument is accepted when it gives all that have
\* no default and no name the function does not take.
Takes(sig) == {p.name : p \in {p \in sig.params : p.kind \in {"plain", "kwonly"}}}
Needs(sig) == {p.name : p \in {p \in sig.params : p.kind \in {"plain", "kwonly"} /\ ~p.default}}
TakesAny(sig) == \E p \in sig.params : p.kind = "starstar"
AcceptsNames(sig, names) ==
    Needs(sig) \subseteq names /\ (names \subseteq Takes(sig) \/ TakesAny(sig))

\* Parameters a comparison cannot see, and a default that is dropped.
HasPositionalOnly(sig) == \E p \in sig.params : p.kind = "posonly"
HasStar(sig) == \E p \in sig.params : p.kind \in {"star", "starstar"}
DropsDefault(old, new) == \E n \in Needs(new) : n \in Takes(old) \ Needs(old)

\* A file that declares nothing.
EmptyFile(lang) ==
    IF lang = "python" THEN [parses |-> TRUE, funcs |-> NoNames, classes |-> NoNames]
    ELSE [classes |-> NoNames, methods |-> NoNames]

\* What is taken of a changed file.
Kinds == {"posonly", "plain", "star", "kwonly", "starstar"}
Signature(sig) ==
    \A p \in sig.params : p = [name |-> p.name, kind |-> p.kind, default |-> p.default]
                          /\ p.kind \in Kinds /\ p.default \in BOOLEAN
ChangedFile(file) ==
    /\ file = [status |-> file.status, lang |-> file.lang, old |-> file.old, new |-> file.new]
    /\ file.status \in {"modified", "deleted"} /\ file.lang \in {"python", "java"}
    /\ EmptyFile(file.lang) # NoContent
    /\ file.lang = "python" => \A version \in {file.old, file.new} \ {NoContent} :
          \A n \in DOMAIN Signatures(version).funcs : Signature(version.funcs[n])
=============================================================================
