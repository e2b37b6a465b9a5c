--------------------------- MODULE LineAnnotators ---------------------------
(* The annotators that read a source line by line: go_annotator.py,         *)
(* rust_annotator.py, csharp_annotator.py, c_annotator.py and               *)
(* typescript_annotator.py.  A source is a sequence of lines as SourceLines *)
(* has them.                                                                *)
EXTENDS SourceLines
-----------------------------------------------------------------------------
(* Go: declarations are found from the top of the file down,                *)
(* each one taking the lines of its body with it.                           *)

GoDoc(lines, i) == RunAbove(lines, i, {"comment"})

\* One exported name alone on a line of the body is an embedded type.
EmbeddedTypes(lines, first, last) ==
    {lines[k].name : k \in {k \in first + 1..last - 1 : lines[k].kind = "embedded"}}
InterfaceMethods(lines, first, last) ==
    {Item("function", lines[k].name, lines[first].name, {}, k, k, k) :
        k \in {k \in first + 1..last - 1 : lines[k].kind = "signature"}}

GoKinds == {"method", "func", "struct", "interface", "alias"}
GoEnd(lines, i) ==
    IF lines[i].kind # "alias" /\ Opens(lines, i) THEN BraceEnd(lines, i) ELSE i

GoItemsAt(lines, i) ==
    LET line == lines[i]
        last == GoEnd(lines, i)
        Found(form, owner, bases) == Item(form, line.name, owner, bases, GoDoc(lines, i), i, last)
    IN  CASE line.kind = "method"    -> {Found("function", line.of, {})}
          [] line.kind = "func"      -> {Found("function", "", {})}
          [] line.kind = "struct"    -> {Found("class", "", EmbeddedTypes(lines, i, last))}
          [] line.kind = "interface" ->
                {Found("class", "", EmbeddedTypes(lines, i, last))} \cup InterfaceMethods(lines, i, last)
          [] line.kind = "alias"     -> {Found("class", "", {line.of})}

\* The line to go on with after line i.
GoNext(lines, i) ==
    CASE lines[i].kind \in GoKinds -> GoEnd(lines, i) + 1
      [] lines[i].kind = "import" /\ Has(lines, i, "(") ->
            FirstWith(lines, i, Len(lines), ")", Len(lines) + 1) + 1
      [] OTHER -> i + 1

RECURSIVE GoItems(_, _)
GoItems(lines, i) ==
    IF i > Len(lines) THEN {}
    ELSE (IF lines[i].kind \in GoKinds THEN GoItemsAt(lines, i) ELSE {})
         \cup GoItems(lines, GoNext(lines, i))

\* A struct has the methods that name it as their receiver, an interface its
\* own or, with none, those as well.
GoMethods(items) ==
    [c \in Classes(items) |->
        LET all == {f \in Functions(items) : f.owner = c.name}
            own == {f \in all : c.first < f.first /\ f.last <= c.last}
        IN  {f.name : f \in IF own # {} THEN own ELSE all}]

\* A group ends at the first line that is only its parenthesis.
GoImports(lines) ==
    LET Group(i) == i + 1..Least({k \in i + 1..Len(lines) : lines[k].kind = "close" /\ Has(lines, k, ")")},
                                 Len(lines) + 1) - 1
    IN  {lines[i].name : i \in {i \in DOMAIN lines : lines[i].kind = "import" /\ ~Has(lines, i, "(")}}
        \cup {lines[k].name : k \in {k \in DOMAIN lines : /\ lines[k].kind = "path"
                                        /\ \E i \in DOMAIN lines : /\ lines[i].kind = "import"
                                                                   /\ Has(lines, i, "(")
                                                                   /\ k \in Group(i)}}

AnnotateGo(lines) ==
    LET items == GoItems(lines, 1)
    IN  [items |-> items, methods |-> GoMethods(items), imports |-> GoImports(lines),
         graph |-> DependencyGraph(lines, items)]
-----------------------------------------------------------------------------
(* Rust: a first pass takes the functions out of the impl                   *)
(* blocks, a second one the other items out of the lines that are left.     *)

SemicolonEnd(lines, i) == FirstWith(lines, i, Len(lines), ";", i)
RustDoc(lines, i) == RunAbove(lines, i, {"doc", "attribute"})
BodyEnd(lines, i, otherwise) == IF Opens(lines, i) THEN BraceEnd(lines, i) ELSE otherwise

\* The functions of an impl block: a function declared inside another is
\* consumed with it.
RECURSIVE ImplFunctions(_, _, _, _)
ImplFunctions(lines, i, k, last) ==
    IF k >= last THEN {}
    ELSE IF lines[k].kind # "fn" THEN ImplFunctions(lines, i, k + 1, last)
    ELSE LET end == BodyEnd(lines, k, k)
         IN  {Item("function", lines[k].name, lines[i].name, {}, RustDoc(lines, k), k, end)}
             \cup ImplFunctions(lines, i, end + 1, last)

\* The first pass, from line i on: [items, consumed].
RECURSIVE Impls(_, _)
Impls(lines, i) ==
    IF i > Len(lines) THEN [items |-> {}, consumed |-> {}]
    ELSE IF lines[i].kind # "impl" \/ ~Opens(lines, i) THEN Impls(lines, i + 1)
    ELSE LET last == BraceEnd(lines, i)
             fns == ImplFunctions(lines, i, i + 1, last)
             rest == Impls(lines, last + 1)
         IN  [items |-> fns \cup rest.items,
              consumed |-> i..last \cup rest.consumed \cup UNION {f.first..f.last : f \in fns}]

RustMacro(lines, i) ==
    {Item("function", lines[i].name, "", {}, RustDoc(lines, i), i, BodyEnd(lines, i, i))}
RustStruct(lines, i) ==
    {Item("class", lines[i].name, "", {}, RustDoc(lines, i), i,
          BodyEnd(lines, i, IF Has(lines, i, "(") THEN SemicolonEnd(lines, i) ELSE i))}
RustEnum(lines, i) ==
    {Item("class", lines[i].name, "", {}, RustDoc(lines, i), i, BodyEnd(lines, i, i))}
\* Every line of the body that begins a function is a method of the trait.
RustTrait(lines, i) ==
    LET last == BodyEnd(lines, i, i)
    IN  {Item("class", lines[i].name, "", lines[i].of, RustDoc(lines, i), i, last)}
        \cup {Item("function", lines[k].name, lines[i].name, {}, k, k, BodyEnd(lines, k, SemicolonEnd(lines, k))) :
                k \in {k \in i + 1..last - 1 : lines[k].kind = "fn"}}
RustFn(lines, i) ==
    {Item("function", lines[i].name, "", {}, RustDoc(lines, i), i, BodyEnd(lines, i, SemicolonEnd(lines, i)))}

RustItemsAt(lines, i) ==
    CASE lines[i].kind = "macro"  -> RustMacro(lines, i)
      [] lines[i].kind = "struct" -> RustStruct(lines, i)
      [] lines[i].kind = "enum"   -> RustEnum(lines, i)
      [] lines[i].kind = "trait"  -> RustTrait(lines, i)
      [] lines[i].kind = "fn"     -> RustFn(lines, i)
      [] OTHER                    -> {}

\* The second pass, from line i on.
RECURSIVE TopItems(_, _, _)
TopItems(lines, i, consumed) ==
    IF i > Len(lines) THEN {}
    ELSE IF i \in consumed THEN TopItems(lines, i + 1, consumed)
    ELSE IF lines[i].kind = "use"
         THEN TopItems(lines, FirstWith(lines, i, Len(lines), ";", Len(lines) + 1) + 1, consumed)
    ELSE LET found == RustItemsAt(lines, i)
             own == {x \in found : x.first = i}
         IN  found \cup TopItems(lines, IF own = {} THEN i + 1
                                        ELSE (CHOOSE x \in own : TRUE).last + 1, consumed)

\* A trait has its own functions too; an impl for a type the file does not
\* declare belongs to no class.
RustMethods(items) ==
    [c \in Classes(items) |-> {f.name : f \in {f \in Functions(items) : f.owner = c.name}}]

\* The names of a path; one renamed within a group makes the group unreadable.
UseNames(path) == IF path.grouped /\ path.aliased THEN {"unreadable"} ELSE path.names

\* A path is read once its semicolon is found.
RustImports(lines) ==
    UNION {UseNames(lines[i].of) : i \in {i \in DOMAIN lines : /\ lines[i].kind = "use"
                                                     /\ \E k \in i..Len(lines) : Has(lines, k, ";")}}

AnnotateRust(lines) ==
    LET impls == Impls(lines, 1)
        items == impls.items \cup TopItems(lines, 1, impls.consumed)
    IN  [items |-> items, methods |-> RustMethods(items), imports |-> RustImports(lines)]
-----------------------------------------------------------------------------
(* C#: a first pass finds the types and, in each, its                       *)
(* methods; a second one the functions on the lines that are left.          *)

TypeKinds == {"type", "enum"}
SharpDoc(lines, i) == RunAbove(lines, i, {"doc", "attribute"})

\* Mutant: the body is looked for on the first line only.
MethodEndMutant(lines, i, boundary) ==
    IF Has(lines, i, "{") THEN BraceEnd(lines, i) ELSE FirstWith(lines, i, boundary - 1, ";", boundary)

\* Of a body opened on one of the four lines from i on, its end; otherwise
\* the line of the semicolon.
MethodEnd(lines, i, boundary) ==
    LET scan == IF i + 3 < boundary THEN i + 3 ELSE boundary
        brace == FirstWith(lines, i, scan, "{", 0)
    IN  IF brace # 0 THEN BraceEnd(lines, brace)
        ELSE FirstWith(lines, i, boundary - 1, ";", boundary)

\* What a pass has found: items, and the lines they take up.
Nothing == [items |-> {}, consumed |-> {}]
Adding(found, items, consumed) ==
    [items |-> found.items \cup items, consumed |-> found.consumed \cup consumed]

\* The methods in a type's body from line k on, and the lines consumed by
\* them and by the types nested in it, which are not reported.
MemberEnd(lines, k, last) ==
    IF lines[k].kind = "method" THEN MethodEnd(lines, k, last) ELSE BraceEnd(lines, k)
RECURSIVE TypeMethods(_, _, _, _)
Member(lines, owner, k, last, end) ==
    Adding(TypeMethods(lines, owner, end + 1, last),
           IF lines[k].kind # "method" THEN {}
           ELSE {Item("function", lines[k].name, owner, {}, SharpDoc(lines, k), k, end)},
           k..end)
TypeMethods(lines, owner, k, last) ==
    IF k >= last THEN Nothing
    ELSE IF lines[k].kind = "method" \/ (lines[k].kind \in TypeKinds /\ Opens(lines, k))
         THEN Member(lines, owner, k, last, MemberEnd(lines, k, last))
    ELSE TypeMethods(lines, owner, k + 1, last)

\* The line that opens a type's body, which may stand further down, after a
\* where clause; 0 if it has none.
NextMark(lines, i) == Least({k \in i + 1..Len(lines) : Has(lines, k, "{") \/ Has(lines, k, ";")}, 0)
BodyLine(lines, i, next) ==
    IF Opens(lines, i) THEN i
    ELSE IF Has(lines, i, ";") \/ ~Has(lines, next, "{") THEN 0
    ELSE next
TypeEnd(lines, i, next, body) ==
    IF body # 0 THEN BraceEnd(lines, body)
    ELSE IF Has(lines, i, ";") \/ next = 0 THEN i
    ELSE next
TypeItems(lines, i, last) ==
    Adding(IF (~Opens(lines, i) /\ ~Has(lines, i, ";") /\ BodyLine(lines, i, NextMark(lines, i)) = 0)
              \/ lines[i].kind = "enum" THEN Nothing
           ELSE TypeMethods(lines, lines[i].name, i + 1, last),
           {Item("class", lines[i].name, "", lines[i].of, SharpDoc(lines, i), i, last)},
           i..last)

\* The first pass, from line i on.  A namespace is not reported, and what it
\* holds is found as if it were not there.
RECURSIVE Types(_, _, _)
AfterType(lines, i, last, found) ==
    LET t == TypeItems(lines, i, last)
    IN  Types(lines, last + 1, Adding(found, t.items, t.consumed))
Types(lines, i, found) ==
    IF i > Len(lines) THEN found
    ELSE IF i \in found.consumed \/ lines[i].kind \notin TypeKinds \cup {"namespace"} THEN Types(lines, i + 1, found)
    ELSE IF lines[i].kind = "namespace"
         THEN Types(lines, IF ~Has(lines, i, "{") /\ ~Has(lines, i, ";") /\ Has(lines, i + 1, "{")
                           THEN i + 2 ELSE i + 1, found)
    ELSE AfterType(lines, i, TypeEnd(lines, i, NextMark(lines, i), BodyLine(lines, i, NextMark(lines, i))), found)

\* The second pass.
RECURSIVE TopFunctions(_, _, _)
TopFunction(lines, i, last, consumed) ==
    {Item("function", lines[i].name, "", {}, SharpDoc(lines, i), i, last)} \cup TopFunctions(lines, last + 1, consumed)
TopFunctions(lines, i, consumed) ==
    IF i > Len(lines) THEN {}
    ELSE IF i \in consumed \/ lines[i].kind # "method" THEN TopFunctions(lines, i + 1, consumed)
    ELSE TopFunction(lines, i, MethodEnd(lines, i, Len(lines)), consumed)

SharpMethods(items) ==
    [c \in Classes(items) |-> {f.name : f \in {f \in Functions(items) : /\ f.owner = c.name
                                                                      /\ f.first \in c.first..c.last}}]
SharpImports(lines) == {lines[i].name : i \in {i \in DOMAIN lines : lines[i].kind = "using"}}

AnnotateCSharp(lines) ==
    LET Report(items) == [items |-> items, methods |-> SharpMethods(items), imports |-> SharpImports(lines)]
        WithFunctions(types) == Report(types.items \cup TopFunctions(lines, 1, types.consumed))
    IN  WithFunctions(Types(lines, 1, Nothing))
-----------------------------------------------------------------------------
(* C: macros, typedefs, structures and functions, from the top              *)
(* of the file down.                                                        *)

\* The first line of documentation above: comments are read upwards, past
\* those of other kinds, to the line that opens a documentation block.
CDoc(lines, i) ==
    LET Documents(k) == lines[k].kind \in {"doc", "star"} \/ (lines[k].kind = "comment" /\ lines[k].of = "doc")
        Passed(k) == lines[k].kind \in {"doc", "star", "closed"}
                     \/ (lines[k].kind = "comment" /\ lines[k].of # "doc" /\ Has(lines, k, "*/"))
    IN  Least({k \in 1..i - 1 : Documents(k) /\ \A j \in k + 1..i - 1 : Passed(j)}, i)

\* The last line of a directive, past the backslashes.
DirectiveEnd(lines, i) == Least({k \in i..Len(lines) : ~Has(lines, k, "\\")}, Len(lines) + 1)

\* The name after the brace that closes a typedef, there or on the next line.
TypedefName(lines, last) ==
    IF lines[last].kind = "named" THEN lines[last].name
    ELSE IF last < Len(lines) /\ lines[last + 1].kind = "alone" THEN lines[last + 1].name
    ELSE ""

\* The line of the brace that opens a function's body, or 0: after its
\* parameters, or first on the next line that is not blank.
FunctionBrace(lines, i) ==
    LET p == ParenEnd(lines, i)
        next == Least({k \in p + 1..Len(lines) : lines[k].kind # "blank"}, 0)
        marks == lines[p].marks
    IN  IF \E k \in DOMAIN marks : /\ marks[k] = "{"
                                   /\ \E j \in 1..k - 1 : marks[j] = ")"
        THEN p
        ELSE IF next # 0 /\ lines[next].kind = "brace" THEN next ELSE 0

\* What begins on line i: the items, the last line, the lines not looked at again.
CItemsAt(lines, i) ==
    LET line == lines[i]
        end == DirectiveEnd(lines, i)
        closed == BraceEnd(lines, i)
        semicolon == FirstWith(lines, i, Len(lines), ";", Len(lines) + 1)
        brace == FunctionBrace(lines, i)
        Found(form, name, bases, last) == Item(form, name, "", bases, CDoc(lines, i), i, last)
        One(x) == [items |-> {x}, consumed |-> x.first..x.last]
        None == [items |-> {}, consumed |-> {}]
    IN  CASE line.kind = "define"  -> One(Found("function", line.name, {}, end))
          [] line.kind = "pointer" -> One(Found("class", line.name, {}, semicolon))
          [] line.kind = "anonymous" /\ TypedefName(lines, closed) # "" ->
                [items |-> {Found("class", TypedefName(lines, closed), {}, closed)},
                 consumed |-> i..closed + 1]
          [] line.kind = "struct" /\ Opens(lines, i) -> One(Found("class", line.name, {}, closed))
          [] line.kind = "struct" /\ ~Opens(lines, i) /\ line.of # "" /\ brace # 0 ->
                One(Found("function", line.of, {}, BraceEnd(lines, brace)))
          [] line.kind = "alias"   -> One(Found("class", line.name, {line.of}, i))
          [] line.kind = "function" /\ brace # 0 -> One(Found("function", line.name, {}, BraceEnd(lines, brace)))
          [] OTHER -> None

RECURSIVE CItems(_, _, _)
CItems(lines, i, consumed) ==
    IF i > Len(lines) THEN {}
    ELSE IF i \in consumed THEN CItems(lines, i + 1, consumed)
    ELSE CASE lines[i].kind = "comment" ->
                CItems(lines, FirstWith(lines, i, Len(lines), "*/", Len(lines) + 1) + 1, consumed)
           [] lines[i].kind \in {"include", "directive"} -> CItems(lines, DirectiveEnd(lines, i) + 1, consumed)
           [] OTHER ->
                LET found == CItemsAt(lines, i)
                IN  found.items \cup CItems(lines, i + 1, consumed \cup found.consumed)

AnnotateC(lines) ==
    LET items == CItems(lines, 1, {})
    IN  [items |-> items, methods |-> [c \in Classes(items) |-> {}],
         imports |-> {lines[i].name : i \in {i \in DOMAIN lines : lines[i].kind = "include"}},
         graph |-> DependencyGraph(lines, items)]
-----------------------------------------------------------------------------
(* TypeScript and JavaScript: classes and the like first, then their        *)
(* methods, then the functions outside them.  Braces are counted wherever   *)
(* they are.                                                                *)

\* A type without a semicolon ends at the first line that does not go on
\* with it, which is taken too.
AliasEnd(lines, i) ==
    IF Has(lines, i, "{") THEN BraceEnd(lines, i)
    ELSE Least({k \in i..Len(lines) : Has(lines, k, ";") \/ (k > i /\ lines[k].kind # "union")}, Len(lines))

ClassEnd(lines, i) == IF lines[i].kind = "alias" THEN AliasEnd(lines, i) ELSE BraceEnd(lines, i)

\* The first pass, from line i on.
RECURSIVE ClassRanges(_, _)
ClassRanges(lines, i) ==
    IF i > Len(lines) THEN {}
    ELSE IF lines[i].kind \notin {"class", "interface", "alias"} THEN ClassRanges(lines, i + 1)
    ELSE {Item("class", lines[i].name, "", lines[i].of, i, i, ClassEnd(lines, i))}
         \cup ClassRanges(lines, ClassEnd(lines, i) + 1)

\* The second: every line of a class that begins with a name and a
\* parenthesis is a method, the statement of a call included.
MethodItems(lines, c) ==
    {LET p == ParenEnd(lines, k)
         braced == \E j \in k..p : Has(lines, j, "{")
     IN  Item("function", lines[k].name, c.name, {}, k, k, IF braced THEN BraceEnd(lines, k) ELSE p) :
        k \in {k \in c.first + 1..c.last : lines[k].kind \in {"method", "call"}}}

\* Where the body of a function opens: on the line of its parameters' end or
\* the next two.
TypeScriptBody(lines, i) ==
    LET p == ParenEnd(lines, i)
    IN  FirstWith(lines, p, IF p + 2 < Len(lines) THEN p + 2 ELSE Len(lines), "{", p)

\* The line of an arrow's body and whether it opens a block; i if neither a
\* block nor an expression is found below the arrow.
ArrowBody(lines, i) ==
    LET arrow == FirstWith(lines, i, Len(lines), "=>", Len(lines) + 1)
        k == Least({k \in arrow..Len(lines) :
                       Has(lines, k, "{") \/ (~Has(lines, k, "=>") /\ lines[k].kind # "blank")}, 0)
    IN  IF k = 0 THEN [line |-> i, block |-> FALSE]
        ELSE [line |-> k, block |-> Has(lines, k, "{")]

ArrowEnd(lines, i) ==
    LET body == ArrowBody(lines, i)
    IN  IF body.block THEN BraceEnd(lines, body.line)
        ELSE Least({k \in body.line..Len(lines) :
                      Has(lines, k, ";") \/ (k > body.line /\ lines[k].kind # "blank" /\ ~Has(lines, k, ","))},
                   body.line)

FunctionEnd(lines, i) ==
    CASE lines[i].kind \in {"function", "default"} -> BraceEnd(lines, TypeScriptBody(lines, i))
      [] lines[i].kind = "arrow"  -> ArrowEnd(lines, i)
      [] lines[i].kind = "single" -> IF Has(lines, i, "{") THEN BraceEnd(lines, i)
                                     ELSE FirstWith(lines, i, Len(lines), ";", i)

\* The third pass.
RECURSIVE Outside(_, _, _)
Outside(lines, i, taken) ==
    IF i > Len(lines) THEN {}
    ELSE IF i \in taken \/ lines[i].kind \notin {"function", "default", "arrow", "single"}
         THEN Outside(lines, i + 1, taken)
    ELSE {Item("function", IF lines[i].kind = "default" THEN "default" ELSE lines[i].name, "", {}, i, i,
               FunctionEnd(lines, i))}
         \cup Outside(lines, FunctionEnd(lines, i) + 1, taken)

AnnotateTypeScript(lines) ==
    LET classes == ClassRanges(lines, 1)
        methods == UNION {MethodItems(lines, c) : c \in classes}
        items == classes \cup methods
                 \cup Outside(lines, 1, UNION {c.first..c.last : c \in classes})
    IN  [items |-> items,
         methods |-> [c \in classes |-> {f.name : f \in {f \in methods : f.owner = c.name}}],
         imports |-> {lines[i].name : i \in {i \in DOMAIN lines : lines[i].kind = "import"}}]
=============================================================================
