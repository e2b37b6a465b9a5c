------------------------------ MODULE Annotators -----------------------------
(* The annotators (annotator.py and the modules it dispatches to), which    *)
(* the indexer calls for each file: what is declared in it, where, and what *)
(* of it refers to what.  They answer next to the analyses.                 *)
EXTENDS Analyses

CONSTANTS
    SourceFiles,    \* sources to annotate: [lang, source]
    JavaProjects,   \* sequences of Java files to index together
    NoName, ThreadTypes, ExecutorTypes,  \* of JavaAnnotator
    Inside                               \* of Sections

ByLine == INSTANCE LineAnnotators
Java == INSTANCE JavaAnnotator
Tree == INSTANCE TreeAnnotators
Data == INSTANCE Sections

\* annotate: by the file's extension.
Annotate(lang, source) ==
    CASE lang = "go"         -> ByLine!AnnotateGo(source)
      [] lang = "rust"       -> ByLine!AnnotateRust(source)
      [] lang = "csharp"     -> ByLine!AnnotateCSharp(source)
      [] lang = "c"          -> ByLine!AnnotateC(source)
      [] lang = "typescript" -> ByLine!AnnotateTypeScript(source)
      [] lang = "java"       -> Java!AnnotateJava(source)
      [] lang = "ruby"       -> Tree!AnnotateRuby(source)
      [] lang = "python"     -> Tree!AnnotatePython(source)
      [] lang = "prisma"     -> Data!AnnotatePrisma(source)
      [] OTHER               -> Data!AnnotateSections(lang, source)
-----------------------------------------------------------------------------
(* What the sources say by themselves, for the properties.                  *)

\* The items the lines of a source say they declare.
LineLanguages == {"go", "rust", "csharp", "c", "typescript", "prisma"}
Declaring(lines, forms) == {i \in DOMAIN lines : lines[i].truth.form \in forms}
DeclaredItems(lines) ==
    {LET t == lines[i].truth
     IN  [form |-> t.form, name |-> t.name, owner |-> t.owner, bases |-> t.bases,
          from |-> i - t.docs, first |-> i, last |-> i + t.span - 1] :
        i \in Declaring(lines, {"function", "class"})}
DeclaredImports(lines) == {lines[i].truth.name : i \in Declaring(lines, {"import"})}

\* No annotator takes the line below a declaration for a part of it: those
\* without a brace have none there either, which would begin their body; an
\* unnamed structure of C has a blank there, which is skipped with it.
NoneSwallowed(lines) ==
    \A k \in Declaring(lines, {"function", "class"}) :
        LET next == k + lines[k].truth.span
        IN  /\ (\A j \in k..next - 1 : ~Data!Has(lines, j, "{")) => ~Data!Has(lines, next, "{")
            /\ lines[k].kind = "anonymous" /\ next \in DOMAIN lines => lines[next].kind = "blank"

\* The bodies of the classes and modules of a Ruby file, however deep.
RECURSIVE RubyBodies(_, _)
RubyBodies(body, owner) ==
    UNION {{[owner |-> Append(owner, n.name), body |-> n.body]} \cup RubyBodies(n.body, Append(owner, n.name)) :
              n \in {n \in ToSet(body) : n.kind \in {"class", "module"}}}

\* The keys of a parsed file, or the elements of an XML one; those that stand
\* once and in no other's text.
Written(lang, source) == IF lang = "xml" THEN Data!Elements(source) ELSE Data!Entries(source)
Unmistakable(lang, source) ==
    {e \in Written(lang, source) : \A f \in Written(lang, source) \ {e} :
        f.key # e.key /\ <<e.key, f.key>> \notin Inside}
\* No key is hidden from the search, none is the label of a list's entry, and
\* no two elements of an XML file begin on one line.
Searchable(lang, source) ==
    LET written == Written(lang, source)
    IN  /\ \A e \in written : ~e.hidden
        /\ lang # "xml" => /\ \A e, f \in written : ~(f.value.kind = "text" /\ f.value.text = e.key)
        /\ lang = "xml" => \A e, f \in written : e.at = f.at => e = f

\* The braces open above a line.
OpenAbove(lines, k) ==
    FoldLeft(LAMBDA d, line : d + Data!OpensIn(line) - Data!Closes(line), 0, SubSeq(lines, 1, k - 1))
\* The lines above close only what they open, and as the format's annotator
\* expects: blocks, for hcl and conf, and on lines of their own, for conf.
PlainAbove(lang, lines, k) ==
    \A j \in 1..k - 1 :
        /\ OpenAbove(lines, j + 1) >= 0
        /\ lang \in {"hcl", "conf"} /\ lines[j].kind # "block" => Data!OpensIn(lines[j]) = 0
        /\ lang = "conf" /\ Data!Closes(lines[j]) > 0 => lines[j].kind = "close"

\* The type that a method's variable is declared with, the innermost
\* declaration first; <<>> if there is none or more than one.
DeclaredType(m, v) ==
    LET locals == SelectSeq(m.node.body, LAMBDA s : s.kind \in {"local", "binding"} /\ s.variable = v)
        params == SelectSeq(m.node.params, LAMBDA p : p[1] = v)
        fields == SelectSeq(m.fields, LAMBDA p : p[1] = v)
    IN  CASE Len(locals) = 1 -> <<locals[1].type>>
          [] locals = <<>> /\ Len(params) = 1 -> <<params[1][2]>>
          [] locals = <<>> /\ params = <<>> /\ Len(fields) = 1 -> <<fields[1][2]>>
          [] OTHER -> <<>>
\* What the annotator does not read, so that a field of the same name, if there
\* is one, seems to be meant: a variable that a for-each loop, a resource, a
\* lambda or a pattern binds, a final or annotated parameter, and a variable
\* whose type is one of the language.
TypeIsUnread(m, v) ==
    \/ \E s \in ToSet(m.node.body) : s.kind = "binding" /\ s.variable = v
    \/ \E p \in ToSet(m.node.params) : p[1] = v /\ p[4]
    \/ DeclaredType(m, v) = <<NoName>>
\* The methods of a type of the file that a call may be of.
Callable(found, type, call) ==
    {x \in Java!Methods(found) : /\ x.owner[Len(x.owner)] = Java!Part(type) /\ x.name = call.name
                                 /\ Len(x.node.params) = Len(call.args)}
-----------------------------------------------------------------------------
\* A file is annotated for the index.
AnnotateSource ==
    /\ Unasked
    /\ \E s \in SourceFiles : Report([kind |-> "annotate", lang |-> s.lang, source |-> s.source],
                                 Annotate(s.lang, s.source))
\* The files of a Java project are indexed together.
BuildJavaGraph ==
    /\ Unasked
    /\ \E p \in JavaProjects : Report([kind |-> "project", project |-> p], Java!GlobalGraph(p))

Next == AnnotateSource \/ BuildJavaGraph \/ AnalysesNext

Spec == AnalysesInit /\ [][Next]_analysisVars
-----------------------------------------------------------------------------
(* The properties.                                                         *)

\* Every function, class and import of a file is found, under its owner, with
\* its lines and its documentation, and nothing else, in whatever order the
\* declarations stand; provided that none without a body (a function of Go
\* written in assembly, a tuple struct, a record) stands right above a line
\* with a brace, and that below an unnamed structure of C there is a blank
\* line: what stands there is lost.
ItemsAreDeclared ==
    ReportOf("annotate") /\ request.lang \in LineLanguages /\ NoneSwallowed(request.source) =>
        LET declared == DeclaredItems(request.source)
        IN  /\ report.items = declared
            /\ report.imports = DeclaredImports(request.source)
            /\ \A c \in {x \in declared : x.form = "class"} :
                  report.methods[c] = {x.name : x \in {x \in declared : x.form = "function" /\ x.owner = c.name}}

\* What is declared once and named on a line of another item is one of its
\* dependencies.
NamedIsDependency ==
    ReportOf("annotate") /\ request.lang \in {"go", "c"} /\ NoneSwallowed(request.source) =>
        LET declared == DeclaredItems(request.source)
        IN  \A x \in declared : \A y \in declared \ {x} :
                /\ \A z \in declared : z.name \in {x.name, y.name} => z \in {x, y}
                /\ x.name # y.name
                /\ \E k \in x.first..x.last : y.name \in request.source[k].words
                => y.name \in report.graph[x.name]

\* A method of a Ruby class or module has the visibility of the latest bare
\* keyword above it in the same body, and is public if there is none.
VisibilityIsLexical ==
    ReportOf("annotate") /\ request.lang = "ruby" =>
        \A b \in RubyBodies(request.source, <<>>) :
            \A k \in {k \in DOMAIN b.body : b.body[k].kind \in {"method", "singleton"}} :
                LET above == {j \in 1..k - 1 : b.body[j].kind = "keyword"}
                    keyword == IF above = {} THEN "public" ELSE b.body[Max(above)].name
                IN  [form |-> "function", name |-> b.body[k].name, self |-> b.body[k].kind = "singleton",
                     owner |-> b.owner, visibility |-> keyword] \in report

\* A Python class or function that names another one depends on it, and the
\* lines of both, with their decorators, are those of the items found.
PythonIsFound ==
    ReportOf("annotate") /\ request.lang = "python" =>
        \A k \in {k \in DOMAIN request.source : request.source[k].kind \in {"function", "class"}} :
            LET node == request.source[k]
                Once(n) == Cardinality({j \in DOMAIN request.source : request.source[j].name = n}) = 1
            IN  /\ \E x \in report.items : /\ x.name = node.name /\ x.form = node.kind /\ x.owner = ""
                                           /\ node.decorators \cup {node.line, node.last} \subseteq x.first..x.last
                /\ Once(node.name) => \A j \in DOMAIN request.source \ {k} :
                        request.source[j].name \in node.names => request.source[j].name \in report.graph[node.name]

\* A key or an element of a data file is found on its own line, if it stands
\* there once and nothing hides it from the search, although the parser does
\* not tell where it stands and keys of one name may precede it.
KeysAreOnTheirLines ==
    ReportOf("annotate") /\ request.lang \in {"json", "yaml", "toml", "xml"} /\ Searchable(request.lang, request.source) =>
        \A e \in Unmistakable(request.lang, request.source) : \A s \in ToSet(report.sections) :
            s.title = (IF request.lang = "xml" THEN <<e.key>> \o e.label ELSE <<e.key>>) => s.first = e.at

\* The keys of an INI section are found in that section.
IniKeysAreTheirs ==
    ReportOf("annotate") /\ request.lang = "ini"
    /\ (\A j, k \in DOMAIN request.source : request.source[j].folded = request.source[k].folded => j = k) =>
        \A k \in {k \in DOMAIN report.sections : report.sections[k].level = 2} :
            \E s \in ToSet(request.source) : \E d \in ToSet(s.keys) :
                /\ report.sections[k].title = <<d.key>> /\ report.sections[k].first = d.at
                /\ report.sections[Max({j \in 1..k : report.sections[j].level = 1})].title = <<s.name>>

\* The level of a line of a file of blocks is the number of braces open
\* around it, up to the depth the sections are cut at.
LevelsAreDepths ==
    ReportOf("annotate") /\ request.lang \in {"hcl", "conf", "gradle"} =>
        \A s \in ToSet(report.sections) :
            PlainAbove(request.lang, request.source, s.first) => s.level = Min({OpenAbove(request.source, s.first) + 1, 4})

\* Two sections of a text share no line, or the later is part of the earlier
\* and below it.
TextSectionsNest ==
    ReportOf("annotate") /\ request.lang = "text" =>
        \A j, k \in DOMAIN report.sections :
            LET s == report.sections[j]
                t == report.sections[k]
            IN  j < k => /\ s.first < t.first /\ s.first <= s.last
                         /\ (s.last < t.first \/ (t.last <= s.last /\ t.level > s.level))

\* The elements of an XML file are on lines of their own, in their order.
ElementsKeepOrder ==
    ReportOf("annotate") /\ request.lang = "xml" =>
        \A j, k \in DOMAIN report.sections : j < k => report.sections[j].first < report.sections[k].first

SectionsArePlaced == ElementsKeepOrder /\ KeysAreOnTheirLines /\ IniKeysAreTheirs /\ LevelsAreDepths /\ TextSectionsNest

\* What the annotators report of a file is what it declares.
DeclarationsFound ==
    ItemsAreDeclared /\ NamedIsDependency /\ VisibilityIsLexical /\ PythonIsFound /\ SectionsArePlaced

\* A Java call on a variable is an edge to the method it means, if the type
\* the variable is declared with has one of that name and arity, however many
\* overloads and shadowed fields there are; and it is an edge to no other
\* type's method, unless it starts what it is given.  Excepted are the
\* declarations the annotator does not read.  No type of the file has the
\* name of another and no parameter a type with a dot in it.
CallsResolved ==
    ReportOf("annotate") /\ request.lang = "java" =>
        LET found == Java!Extracted(request.source)
            types == Java!Types(found)
            methods == Java!Methods(found)
        IN  /\ \A t, u \in types : t.name = u.name => t = u
            /\ \A m \in methods : \A k \in DOMAIN m.node.params : ~m.node.params[k][3]
            => \A m \in methods :
                  /\ \A k \in {k \in DOMAIN m.node.body : /\ m.node.body[k].kind = "call"
                                                           /\ m.node.body[k].receiver.kind = "variable"
                                                           /\ ~TypeIsUnread(m, m.node.body[k].receiver.name)} :
                        LET call == m.node.body[k]
                            type == DeclaredType(m, call.receiver.name)
                        IN  \A t \in {t \in types : type = <<t.name>>} :
                               LET meant == Callable(found, t.name, call)
                               IN  Cardinality(meant) = 1 =>
                                       \A x \in meant : x = m \/ x.symbol \in report.graph[m.symbol]
                  /\ \A x \in methods : x.symbol \in report.graph[m.symbol] =>
                        \E s \in ToSet(m.node.body) :
                            /\ s.kind \in {"call", "reference"}
                            /\ \/ s.name \in {"start", "execute", "submit"}
                               \/ /\ s.name = x.name
                                  /\ s.receiver.kind = "variable" /\ ~TypeIsUnread(m, s.receiver.name)
                                     => DeclaredType(m, s.receiver.name) \in {<<>>, <<Last(x.owner).name>>}

\* In a project too a Java call on a variable is an edge to every method it may
\* mean of the variable's type, in whatever file that is, and to every method
\* that overrides one of these however far below; and the runtime calls every
\* run method below Runnable and Thread.  Excepted are the declarations the
\* annotator does not read and what is inherited through an interface that
\* extends another, whose clause it does not read.  No name stands for two
\* types, and none is above itself: the subtypes a sealed type permits are
\* listed as its bases, and of such a cycle the indexer may see a part only.
OverridesAreEdges ==
    ReportOf("project") =>
        LET found == Java!Found(request.project)
            types == Java!Types(found)
            methods == Java!Methods(found)
            Listed(t) == {u \in types : u.name \in ToSet(t.bases)}
            Bases(t) == IF t.node.interface THEN {} ELSE {u \in types : u.name \in ToSet(t.node.bases)}
            AllOf(Parents(_), t) == Closure(LAMBDA S : UNION {Parents(u) : u \in S}, Parents(t), Cardinality(types))
            Above(t) == AllOf(Bases, t)
            TypeOf(m) == CHOOSE t \in types : t.symbol = m.owner
            Redefines(o, x) == /\ TypeOf(x) \in Above(TypeOf(o))
                               /\ o.name = x.name /\ Len(o.node.params) = Len(x.node.params)
        IN  (\A t, u \in types : (t.name = u.name => t = u) /\ t \notin AllOf(Listed, t)) =>
                /\ \A m \in methods : \A k \in {k \in DOMAIN m.node.body : /\ m.node.body[k].kind = "call"
                                                                        /\ m.node.body[k].receiver.kind = "variable"
                                                                        /\ ~TypeIsUnread(m, m.node.body[k].receiver.name)} :
                      LET call == m.node.body[k]
                          type == DeclaredType(m, call.receiver.name)
                      IN  \A t \in {t \in types : type = <<t.name>>} : \A x \in Callable(found, t.name, call) :
                              \A o \in {o \in methods : o = x \/ Redefines(o, x)} \ {m} :
                                  o.symbol \in report[m.symbol]
                /\ \A m \in methods :
                      m.name = "run" /\ (\E t \in {TypeOf(m)} \cup Above(TypeOf(m)) :
                                             ~t.node.interface /\ ToSet(t.node.bases) \cap {"Runnable", "Thread"} # {})
                      => Java!Dispatch \in DOMAIN report /\ m.symbol \in report[Java!Dispatch]

\* Calls are found in a file, and between the files of a project.
CallsAreEdges == CallsResolved /\ OverridesAreEdges
=============================================================================
