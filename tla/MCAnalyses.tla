----------------------------- MODULE MCAnalyses -----------------------------
(* Small inputs of every analysis, for TLC.                                *)
EXTENDS Annotators

(* Small sources: what a file may be put together from, in each language,   *)
(* and what each part declares.  Every part was read off source text of its *)
(* language.                                                                *)

Row(kind, name, of, marks) == [kind |-> kind, name |-> name, of |-> of, marks |-> marks, words |-> {},
                               truth |-> [form |-> "none"]]
Plain(kind, marks) == Row(kind, "", "", marks)
Names(line, words) == [line EXCEPT !.words = words]
Declares(line, truth) == [line EXCEPT !.truth = truth]
Fun(name, owner, span, docs) == [form |-> "function", name |-> name, owner |-> owner, bases |-> {},
                                 span |-> span, docs |-> docs]
Cls(name, bases, span, docs) == [form |-> "class", name |-> name, owner |-> "", bases |-> bases,
                                 span |-> span, docs |-> docs]
Import(name) == [form |-> "import", name |-> name]
UsePath == [names |-> {"b"}, grouped |-> TRUE, aliased |-> FALSE]

GoBlocks == {
    <<Row("comment", "", "", <<>>),
      Declares(Names(Row("func", "Fa", "", <<"(", ")", "{">>), {"Fa"}), Fun("Fa", "", 5, 1)),
      Plain("other", <<"{">>), Plain("other", <<"}">>), Plain("other", <<>>), Plain("other", <<"}">>)>>,
    <<Declares(Names(Row("struct", "Sa", "", <<"{">>), {"Sa"}), Cls("Sa", {"Sb"}, 4, 0)),
      Names(Row("embedded", "Sb", "", <<>>), {"Sb"}), Plain("other", <<>>), Plain("other", <<"}">>)>>,
    <<Declares(Names(Row("method", "Ma", "Sa", <<"(", ")", "(", ")", "{">>), {"Ma", "Sa"}), Fun("Ma", "Sa", 3, 0)),
      Names(Plain("other", <<"(", ")">>), {"Fa"}), Plain("other", <<"}">>)>>,
    <<Declares(Names(Row("interface", "Ia", "", <<"{">>), {"Ia"}), Cls("Ia", {}, 3, 0)),
      Declares(Names(Row("signature", "Mb", "", <<"(", ")">>), {"Mb"}), Fun("Mb", "Ia", 1, 0)),
      Plain("other", <<"}">>)>>,
    <<Declares(Names(Row("alias", "Ta", "int", <<>>), {"Ta"}), Cls("Ta", {"int"}, 1, 0))>>,
    <<Row("import", "", "", <<"(">>), Declares(Row("path", "fmt", "", <<>>), Import("fmt")),
      Row("close", "", "", <<")">>)>>,
    <<Declares(Names(Row("func", "Fd", "", <<"(", ")", "{", "(", ")", "}">>), {"Fa", "Fd"}), Fun("Fd", "", 1, 0))>>,
    <<Plain("blank", <<>>)>>,
    <<Declares(Names(Row("func", "Fe", "", <<"(", ")">>), {"Fe"}), Fun("Fe", "", 1, 0))>>}

RustBlocks == {
    <<Row("doc", "", "", <<>>), Row("attribute", "", "", <<>>),
      Declares(Row("fn", "fa", "", <<"(", ")", "{">>), Fun("fa", "", 5, 2)), Plain("other", <<"{">>),
      Plain("other", <<"}">>), Plain("other", <<>>), Plain("other", <<"}">>)>>,
    <<Declares(Row("struct", "Sa", "", <<"{">>), Cls("Sa", {}, 3, 0)), Plain("other", <<>>),
      Plain("other", <<"}">>)>>,
    <<Row("impl", "Sa", "", <<"{">>), Declares(Row("fn", "ma", "", <<"(", ")", "{">>), Fun("ma", "Sa", 4, 0)),
      Plain("other", <<"{">>), Plain("other", <<"}">>), Plain("other", <<"}">>), Plain("blank", <<>>),
      Declares(Row("fn", "mb", "", <<"(", ")", "{", "}">>), Fun("mb", "Sa", 1, 0)), Plain("other", <<"}">>)>>,
    <<Row("impl", "Sa", "", <<"{">>), Declares(Row("fn", "mc", "", <<"(", ")", "{">>), Fun("mc", "Sa", 2, 0)),
      Plain("other", <<"}">>), Plain("other", <<"}">>)>>,
    <<Declares(Row("trait", "Ta", {"Tz"}, <<"{">>), Cls("Ta", {"Tz"}, 4, 0)),
      Declares(Row("fn", "mc", "", <<"(", ")", ";">>), Fun("mc", "Ta", 1, 0)), Plain("blank", <<>>),
      Plain("other", <<"}">>)>>,
    <<Declares(Row("enum", "Ea", "", <<"{">>), Cls("Ea", {}, 3, 0)), Plain("other", <<>>),
      Plain("other", <<"}">>)>>,
    <<Declares(Row("macro", "na", "", <<"{">>), Fun("na", "", 4, 0)), Plain("other", <<"(", ")", "=>", "{">>),
      Plain("other", <<"}", ";">>), Plain("other", <<"}">>)>>,
    <<Declares(Row("use", "", UsePath, <<"{">>), Import("b")), Plain("other", <<>>),
      Plain("other", <<"}", ";">>)>>,
    <<Declares(Row("struct", "Tb", "", <<"(", ")", ";">>), Cls("Tb", {}, 1, 0))>>,
    <<Plain("other", <<"{">>), Declares(Row("fn", "tb", "", <<"(", ")", "{">>), Fun("tb", "", 2, 0)),
      Plain("other", <<"}">>), Plain("other", <<"}">>)>>}

SharpBlocks == {
    <<Row("doc", "", "", <<>>), Row("attribute", "", "", <<>>),
      Declares(Row("type", "Ca", {"Ba"}, <<"{">>), Cls("Ca", {"Ba"}, 8, 2)),
      Declares(Row("method", "Ma", "", <<"(", ")", "{">>), Fun("Ma", "Ca", 5, 0)),
      Plain("other", <<"(", ")", "{">>), Plain("other", <<"}">>), Plain("other", <<";">>),
      Plain("other", <<"}">>),
      Declares(Row("method", "Mb", "", <<"(", ")", "=>", ";">>), Fun("Mb", "Ca", 1, 0)),
      Plain("other", <<"}">>)>>,
    <<Row("namespace", "", "", <<"{">>), Declares(Row("type", "Ia", {}, <<"{">>), Cls("Ia", {}, 3, 0)),
      Declares(Row("method", "Mc", "", <<"(", ")", ";">>), Fun("Mc", "Ia", 1, 0)), Plain("other", <<"}">>),
      Plain("other", <<"}">>)>>,
    <<Declares(Row("enum", "Ea", {}, <<"{">>), Cls("Ea", {}, 3, 0)), Plain("other", <<>>),
      Plain("other", <<"}">>)>>,
    <<Declares(Row("type", "Ra", {}, <<"(", ")", ";">>), Cls("Ra", {}, 1, 0))>>,
    <<Declares(Row("type", "Cb", {}, <<"(", ")">>), Cls("Cb", {}, 5, 0)), Plain("other", <<"{">>),
      Declares(Row("method", "Mf", "", <<"(", ")", "{">>), Fun("Mf", "Cb", 2, 0)), Plain("other", <<"}">>),
      Plain("other", <<"}">>)>>,
    <<Declares(Row("method", "Fa", "", <<"(", ")", "{">>), Fun("Fa", "", 2, 0)), Plain("other", <<"}">>)>>,
    <<Declares(Row("using", "System", "", <<";">>), Import("System"))>>,
    <<Declares(Row("type", "Cc", {}, <<"{">>), Cls("Cc", {}, 9, 0)), Row("type", "Cd", {}, <<"{">>),
      Row("method", "Md", "", <<"(", ")", "{">>), Plain("other", <<"}">>), Plain("other", <<"}">>),
      Declares(Row("method", "Me", "", <<"(">>), Fun("Me", "Cc", 3, 0)), Plain("other", <<")">>),
      Plain("other", <<"{", "}">>), Plain("other", <<"}">>)>>}

CBlocks == {
    <<Row("comment", "", "doc", <<"*/">>),
      Declares(Names(Row("function", "fa", "", <<"(", ")">>), {"fa"}), Fun("fa", "", 6, 1)),
      Plain("brace", <<"{">>), Plain("other", <<"(", ")", "{">>), Plain("other", <<"}">>),
      Names(Plain("other", <<"(", ")", ";">>), {"fb"}), Plain("other", <<"}">>)>>,
    <<Declares(Names(Row("struct", "sa", "", <<"{">>), {"sa"}), Cls("sa", {}, 3, 0)), Plain("other", <<";">>),
      Plain("other", <<"}", ";">>)>>,
    <<Declares(Row("anonymous", "", "", <<"{">>), Cls("pa", {}, 3, 0)), Plain("other", <<";">>),
      Names(Row("named", "pa", "", <<"}", ";">>), {"pa"})>>,
    <<Declares(Names(Row("alias", "ta", "int", <<";">>), {"ta"}), Cls("ta", {"int"}, 1, 0))>>,
    <<Declares(Names(Row("define", "na", "", <<"(", ")", "\\">>), {"na"}), Fun("na", "", 2, 0)),
      Names(Plain("other", <<"(", ")">>), {"fa"})>>,
    <<Declares(Names(Row("function", "fb", "", <<"(">>), {"fb"}), Fun("fb", "", 4, 0)),
      Plain("other", <<")", "{">>), Names(Plain("other", <<"(", ")", ";">>), {"fa"}),
      Plain("other", <<"}">>)>>,
    <<Declares(Row("include", "a.h", "", <<>>), Import("a.h"))>>, <<Plain("blank", <<>>)>>,
    <<Row("comment", "", "", <<>>), Names(Row("function", "no", "", <<"(", ")", "{">>), {"no"}),
      Row("closed", "", "", <<"*/">>)>>,
    <<Names(Row("prototype", "fc", "", <<"(", ")", ";">>), {"fc"})>>,
    <<Declares(Names(Row("pointer", "ca", "", <<"(", ")", "(">>), {"ca"}), Cls("ca", {}, 2, 0)),
      Plain("other", <<")", ";">>)>>}

TypeScriptBlocks == {
    <<Declares(Row("class", "Ca", {"Ba"}, <<"{">>), Cls("Ca", {"Ba"}, 7, 0)),
      Declares(Row("method", "ma", "", <<"(", ")", "{">>), Fun("ma", "Ca", 4, 0)),
      Plain("other", <<"(", ")", "{">>), Plain("other", <<"}">>), Plain("other", <<"}">>),
      Declares(Row("method", "mb", "", <<"(", ")", "{", ";", "}">>), Fun("mb", "Ca", 1, 0)),
      Plain("other", <<"}">>)>>,
    <<Declares(Row("interface", "Ia", {}, <<"{">>), Cls("Ia", {}, 3, 0)),
      Declares(Row("method", "mc", "", <<"(", ")", ";">>), Fun("mc", "Ia", 1, 0)), Plain("other", <<"}">>)>>,
    <<Declares(Row("alias", "Ta", {}, <<>>), Cls("Ta", {}, 3, 0)), Row("union", "", "", <<>>),
      Row("union", "", "", <<";">>)>>,
    <<Declares(Row("function", "fa", "", <<"(", ")", "{">>), Fun("fa", "", 3, 0)),
      Row("call", "go", "", <<"(", ")", ";">>), Plain("other", <<"}">>)>>,
    <<Declares(Row("arrow", "ga", "", <<"(", ")", "=>", "{">>), Fun("ga", "", 3, 0)), Plain("other", <<";">>),
      Plain("other", <<"}", ";">>)>>,
    <<Declares(Row("single", "gb", "", <<"=>", ";">>), Fun("gb", "", 1, 0))>>,
    <<Declares(Row("default", "", "", <<"(", ")", "{">>), Fun("default", "", 2, 0)), Plain("other", <<"}">>)>>,
    <<Declares(Row("function", "fb", "", <<"(">>), Fun("fb", "", 4, 0)), Plain("other", <<",">>),
      Plain("other", <<")", "{">>), Plain("other", <<"}">>)>>,
    <<Declares(Row("import", "z", "", <<>>), Import("z"))>>,
    <<Plain("blank", <<>>)>>}

\* Files of up to three different parts.
FilesOf(lang, blocks) ==
    {[lang |-> lang, source |-> FlattenSeq(parts)] :
        parts \in {q \in UNION {[1..n -> blocks] : n \in 1..3} : IsInjective(q)}}

\* A Ruby file of two bodies, of which the first may have a class in it.
Node(kind, name, body) == [kind |-> kind, name |-> name, body |-> body, bases |-> {}]
RubyNodes == {Node("method", "a", <<>>), Node("singleton", "b", <<>>), Node("keyword", "private", <<>>),
              Node("keyword", "public", <<>>), Node("inline", "protected", <<Node("method", "c", <<>>)>>),
              Node("class", "I", <<Node("method", "d", <<>>)>>), Node("mixin", "M", <<>>)}
RubyFiles ==
    {[lang |-> "ruby", source |-> <<Node("class", "A", first), Node("method", "e", <<>>), Node("module", "A", second)>>] :
        first \in [1..3 -> RubyNodes], second \in {<<>>} \cup [1..1 -> RubyNodes]}

\* A Python file of two definitions, the first a class with a method or not.
Definition(kind, name, body, line, last, decorators, names) ==
    [kind |-> kind, name |-> name, bases |-> {}, decorators |-> decorators, line |-> line, last |-> last,
     names |-> names, params |-> <<"self", "x">>, body |-> body, imports |-> {}]
Stub == <<[kind |-> "docstring"], [kind |-> "pass"]>>
PythonFiles ==
    {[lang |-> "python",
      source |-> <<Definition(kind, "A", IF kind = "class" THEN <<Definition("function", "m", Stub, 3, 4, {}, {})>> ELSE Stub,
                              2, 4, decorators, names),
                   Definition("function", second, Stub, 6, 8, {}, {"A", "x"})>>] :
        kind \in {"class", "function"}, decorators \in SUBSET {0, 1}, names \in SUBSET {"A", "f", "m"},
        second \in {"A", "f"}}

\* A Java class A that calls a method of B by one of three receivers, with a
\* variable v declared as a field, a parameter, final or not, and a local
\* variable or by a loop, or not, and a class of the same package's neighbour
\* imported.
Nobody == [kind |-> "none", name |-> NoName]
Receiver(kind, name) == [kind |-> kind, name |-> name]
Argument == [kind |-> "variable", name |-> "v"]
Call(receiver, name, args) == [kind |-> "call", receiver |-> receiver, name |-> name, args |-> args]
JavaMethod(name, params, body) ==
    [kind |-> "method", name |-> name, params |-> params, marks |-> {}, body |-> body, inner |-> <<>>]
JavaType(name, fields, members) ==
    [kind |-> "type", name |-> name, interface |-> FALSE, bases |-> <<>>, permits |-> <<>>, marks |-> {},
     fields |-> fields, members |-> members]
Declaration(type) == IF type = "" THEN <<>> ELSE <<<<"v", type, FALSE, FALSE>>>>
Declared(kind, type) == [kind |-> kind, variable |-> "v", type |-> type]
JavaB == {<<JavaMethod("go", <<>>, <<>>)>>,
          <<JavaMethod("go", <<>>, <<>>), JavaMethod("go", <<<<"x", NoName, FALSE, FALSE>>>>, <<>>), JavaMethod("run", <<>>, <<>>)>>,
          <<JavaMethod("go", <<<<"x", "B", FALSE, FALSE>>>>, <<>>), JavaMethod("go", <<<<"x", NoName, FALSE, FALSE>>>>, <<>>)>>}
JavaFiles ==
    {[lang |-> "java",
      source |-> [package |-> "p",
                  imports |-> <<[static |-> FALSE, name |-> "D", member |-> "", symbol |-> <<Java!Part("q"), Java!Part("D")>>]>>,
                  types |-> <<JavaType("A", Declaration(field),
                                       <<JavaMethod("go", param, local \o <<Call(receiver, name, args)>>)>>),
                              JavaType("B", <<>>, members)>>]] :
        field \in {"", "B", "D"},
        param \in {<<>>} \cup {<<<<"v", type, FALSE, final>>>> : type \in {NoName, "A", "B"}, final \in BOOLEAN},
        local \in {<<>>} \cup {<<Declared(kind, type)>> : kind \in {"local", "binding"}, type \in {"B", "D"}},
        receiver \in {Nobody, Receiver("variable", "v"), Receiver("new", "B"), Receiver("this", NoName)}, name \in {"go", "start"},
        args \in {<<>>, <<Argument>>}, members \in JavaB}

\* Java projects of four files in some order: Base, Mid and Leaf in package p,
\* of which one may extend another, or Mid be sealed or an interface, and a
\* User in p or q that calls go on one of them; a service in q.
Clazz(name, bases, marks, fields, members) ==
    [JavaType(name, fields, members) EXCEPT !.bases = bases, !.marks = marks]
JavaFile(package, imports, type) == [package |-> package, imports |-> imports, types |-> <<type>>]
Single(package, name) ==
    [static |-> FALSE, name |-> name, member |-> "", symbol |-> <<Java!Part(package), Java!Part(name)>>]
Go0 == JavaMethod("go", <<>>, <<>>)
Go1 == JavaMethod("go", <<<<"x", NoName, FALSE, FALSE>>>>, <<>>)
User(package, imports, marks, type) ==
    JavaFile(package, imports,
             Clazz("User", <<>>, marks, Declaration(type),
                   <<JavaMethod("User", <<<<"w", type, FALSE, TRUE>>>>, <<>>),
                     JavaMethod("use", <<>>, <<Call(Receiver("variable", "v"), "go", <<>>)>>)>>))
MCJavaProjects ==
    {LET files == <<JavaFile("p", <<>>, Clazz("Base", <<>>, {}, <<>>, <<Go0>>)),
                    JavaFile("p", <<>>, [Clazz("Mid", mid.bases, {}, <<>>, above) EXCEPT
                                            !.interface = mid.interface, !.permits = mid.permits]),
                    JavaFile("p", <<>>, Clazz("Leaf", leaf, {}, <<>>, members)),
                    IF near THEN User("p", <<>>, {}, type)
                    ELSE User("q", <<Single("p", type)>>, {"Service"}, type)>>
     IN  [k \in 1..4 |-> files[order[k]]] :
        mid \in [bases : {<<>>, <<"Base">>, <<"Thread">>}, interface : BOOLEAN, permits : {<<>>, <<"Leaf">>}], above \in {<<>>, <<Go0>>},
        leaf \in {<<>>, <<"Mid">>, <<"Runnable", "Mid", "Base">>},
        members \in {<<Go0>>, <<Go1, JavaMethod("run", <<>>, <<>>)>>},
        type \in {"Base", "Mid"}, near \in BOOLEAN, order \in {<<1, 2, 3, 4>>, <<4, 3, 2, 1>>, <<2, 3, 1, 4>>}}

\* A file of three keys, of which two have a value at the lines below.
Number == [kind |-> "number"]
Text(t) == [kind |-> "text", text |-> t]
Entry(key, at, value) ==
    [key |-> key, at |-> at, value |-> value, hidden |-> FALSE, header |-> FALSE]
Dict(items) == [kind |-> "dict", items |-> items]
Values(at) ==
    {Number, Text("b")}
    \cup {Dict(<<Entry(k, l, Dict(<<Entry("ab", at + 1, Number)>>))>>) : k \in {"a", "b"}, l \in {at - 1, at}}
    \cup {[kind |-> "list", items |-> <<Number, Dict(<<Entry(field, at, Text(t)), Entry("b", at + 1, Number)>>)>>] :
            field \in {"name", "ref", "$ref"}, t \in {"b", "c"}}
KeyTrees ==
    {Dict(<<Entry(k[1], 1, first), Entry(k[2], 4, second), Entry(k[3], 7, Number)>>) :
        k \in {<<"a", "b", "c">>, <<"b", "ab", "a">>, <<"c", "d", "b">>}, first \in Values(2), second \in Values(5)}
\* In a TOML file a dict has a header; in a YAML file a list's entry begins
\* with a dash.
RECURSIVE Headed(_), Dashed(_, _)
Headed(v) ==
    CASE v.kind = "dict" -> Dict([k \in DOMAIN v.items |->
            [v.items[k] EXCEPT !.header = v.items[k].value.kind = "dict", !.value = Headed(@)]])
      [] OTHER -> v
Dashed(v, first) ==
    CASE v.kind = "dict" -> Dict([k \in DOMAIN v.items |->
            [v.items[k] EXCEPT !.hidden = first /\ k = 1, !.value = Dashed(@, FALSE)]])
      [] v.kind = "list" -> [v EXCEPT !.items = [k \in DOMAIN @ |-> Dashed(@[k], TRUE)]]
      [] OTHER -> v
KeyFiles == UNION {{[lang |-> "json", source |-> t], [lang |-> "yaml", source |-> Dashed(t, FALSE)],
                    [lang |-> "toml", source |-> Headed(t)]} : t \in KeyTrees}

Element(tag, at, label, children) ==
    [key |-> tag, at |-> at, label |-> label, hidden |-> FALSE, children |-> children]
XmlFiles ==
    {[lang |-> "xml",
      source |-> Element("r", 1, <<>>, <<Element(t, 2, l, <<Element(u, 3, <<>>, <<>>)>>),
                                         Element(v, 4, <<>>, <<Element(w, at, <<>>, <<Element("e", 6, <<>>, <<Element("f", 7, <<>>, <<>>)>>)>>)>>)>>)] :
        t, u, v, w \in {"a", "ab", "b"}, l \in {<<>>, <<"n">>}, at \in {4, 5}}

IniSection(name, at, keys) ==
    [name |-> name, folded |-> IF name = "S" THEN "s" ELSE name, at |-> at,
     keys |-> [k \in DOMAIN keys |-> [key |-> keys[k], at |-> at + k]]]
IniFiles ==
    {[lang |-> "ini", source |-> <<IniSection(n[1], 1, x), IniSection(n[2], 4, y), IniSection(n[3], 7, z)>>] :
        n \in {<<"s", "t", "u">>, <<"DEFAULT", "s", "t">>, <<"s", "S", "t">>, <<"s", "DEFAULT", "s">>},
        x, y, z \in {<<>>, <<"a">>, <<"a", "b">>, <<"b", "a">>}}

DataBlocks == {
    <<Row("block", "a", "", <<"{">>), Row("value", "b", "", <<>>), Row("close", "", "", <<"}">>)>>,
    <<Row("block", "c", "", <<"{">>), Row("block", "d", "", <<"{">>), Row("value", "e", "", <<>>),
      Row("close", "", "", <<"}">>), Row("close", "", "", <<"}">>)>>,
    <<Row("map", "f", "", <<"{">>), Row("value", "g", "", <<>>), Row("close", "", "", <<"}">>)>>,
    <<Row("block", "h", "", <<"{", "}">>), Row("comment", "", "", <<>>)>>,
    <<Row("block", "i", "", <<"{">>)>>, <<Row("close", "", "", <<"}">>)>>,
    <<Row("value", "j", "", <<"{", "}">>), Row("control", "", "", <<"{">>)>>}
PrismaBlocks == {
    <<Declares(Row("block", "A", "model", <<"{">>), Cls("A", {"model"}, 3, 0)),
      Declares(Row("value", "id", "", <<>>), Fun("id", "A", 1, 0)), Plain("other", <<"}">>)>>,
    <<Declares(Row("block", "B", "enum", <<"{">>), Cls("B", {"enum"}, 4, 0)), Plain("blank", <<>>),
      Declares(Row("value", "C", "", <<"{", "}">>), Fun("C", "B", 1, 0)), Plain("other", <<"}">>)>>,
    <<Row("value", "provider", "", <<>>)>>}
TextLines == {Row("hashes", "a", 1, <<>>), Row("hashes", "b", 3, <<>>), Row("numbered", "c", 2, <<>>),
              Row("capitals", "d", "", <<>>), Row("underline", "=", "", <<>>), Row("underline", "-", "", <<>>),
              Row("blank", "", "", <<>>)}
KeyLines == {Row("value", "a", "", <<>>), Row("stage", "b", "", <<>>), Row("instruction", "c", "", <<>>),
             Row("comment", "", "", <<>>)}
MCInside == {<<"a", "ab">>, <<"b", "ab">>}
DataFiles ==
    KeyFiles \cup XmlFiles \cup IniFiles \cup FilesOf("hcl", DataBlocks) \cup FilesOf("conf", DataBlocks)
    \cup FilesOf("gradle", DataBlocks) \cup FilesOf("prisma", PrismaBlocks)
    \cup {[lang |-> "text", source |-> lines] : lines \in [1..4 -> TextLines]}
    \cup {[lang |-> lang, source |-> lines] : lines \in [1..3 -> KeyLines], lang \in {"env", "properties", "docker"}}

MCSourceFiles ==
    FilesOf("go", GoBlocks) \cup FilesOf("rust", RustBlocks) \cup FilesOf("csharp", SharpBlocks)
    \cup FilesOf("c", CBlocks) \cup FilesOf("typescript", TypeScriptBlocks)
    \cup RubyFiles \cup PythonFiles \cup JavaFiles \cup DataFiles

\* Texts to match braces in, below a line of something else: a brace, four
\* pieces, a line with a brace, and blanks between them.  The text of a piece
\* is a sequence of lines, of which it shares the first and the last.
Piece(text, depth) == [text |-> text, depth |-> depth]
Blank == Piece(<<<<" ">>>>, 0)
Break == Piece(<<<<>>, <<>>>>, 0)
BraceSource(lang, pieces) ==
    LET EndOf(lines) == <<Len(lines), Len(Last(lines)) + 1>>
        Add(t, piece) ==
            LET lines == Front(t.lines) \o <<Last(t.lines) \o Head(piece.text)>> \o Tail(piece.text)
            IN  [lines |-> lines,
                 pieces |-> Append(t.pieces, [first |-> EndOf(t.lines), after |-> EndOf(lines), depth |-> piece.depth])]
        text == FoldLeft(Add, [lines |-> <<<<"}", "\"">>, <<>>>>, pieces |-> <<>>], pieces)
    IN  [lang |-> lang, lines |-> Front(text.lines), start |-> 2, pieces |-> text.pieces]
Open == Piece(<<<<"{">>>>, 1)
Shut == Piece(<<<<"}">>>>, 0 - 1)
Shared == {Open, Shut, Break, Piece(<<<<"/", "/", "}", "\"">>, <<>>>>, 0),
           Piece(<<<<"/", "*", "}">>, <<"'", "*", "/">>>>, 0),
           Piece(<<<<"\"", "}", "\\", "\"", "\\", "\\", "\"">>>>, 0), Piece(<<<<"'", "}", "'">>>>, 0),
           Piece(<<<<"'", "\\", "'", "'">>>>, 0), Piece(<<<<"'", "\\", "0", "0", "'">>>>, 0)}
Special == [c |-> {Piece(<<<<"\"", "}", "\\">>, <<"\"">>>>, 0), Piece(<<<<"/", "/", "\\">>, <<"}">>, <<>>>>, 0)},
            csharp |-> {Piece(<<<<"@", "\"", "}">>, <<"\\", "\"", "\"", "\"">>>>, 0),
                        Piece(<<<<"$", "\"", "}", "\"">>>>, 0),
                        Piece(<<<<"\"", "\"", "\"">>, <<"}", "\"">>, <<"\"", "\"", "\"">>>>, 0)},
            rust |-> {Piece(<<<<"\"", "}">>, <<"\"">>>>, 0), Piece(<<<<"r", "#", "\"", "}", "\"">>, <<"\"", "#">>>>, 0),
                      Piece(<<<<"/", "*", "/", "*", "*", "/", "}", "*", "/">>>>, 0)},
            go |-> {Piece(<<<<Backtick, "}">>, <<"\\", Backtick>>>>, 0)}]
Lifetime_a == <<Piece(<<<<"'">>>>, 0), Piece(<<<<"a">>>>, 0)>>
Chosen(lang) == {<<piece>> : piece \in Shared \cup Special[lang]} \cup IF lang = "rust" THEN {Lifetime_a} ELSE {}
MCTexts ==
    UNION {{BraceSource(lang, <<Open>> \o s[1] \o <<Blank>> \o s[2] \o <<Blank>> \o s[3] \o <<Break, Shut, Break>>) :
              s \in [1..3 -> Chosen(lang)]} : lang \in DOMAIN Special}
-----------------------------------------------------------------------------
(* The inputs of the other analyses.                                        *)

CONSTANTS a, b, self, kw, f, g, K, L, modL, m, HOST, key, conf, env, mod, other,
          Krun, Kstep, Kstop, Lrun, Lstep, run, step, stop, x, y, n1, n2, n3, n4, n5, n6,
          ListA, ListB, Num, Lst

\* Signatures over two parameters, with or without starred ones.
Param(n, kind, default) == [name |-> n, kind |-> kind, default |-> default]
Sig(params) == [params |-> params, returns |-> NoType, body |-> 0]
Sigs ==
    {Sig(pa \cup pb \cup ps) :
        pa \in {{}, {Param(a, "plain", FALSE)}, {Param(a, "plain", TRUE)}, {Param(a, "kwonly", FALSE)},
                {Param(a, "kwonly", TRUE)}, {Param(a, "posonly", FALSE)}},
        pb \in {{}, {Param(b, "plain", FALSE)}, {Param(b, "plain", TRUE)}, {Param(b, "kwonly", FALSE)}},
        ps \in {{}, {Param(kw, "star", FALSE)}, {Param(kw, "starstar", FALSE)}}}
PythonFile(funcs, classes) == [parses |-> TRUE, funcs |-> funcs, classes |-> classes]
One(n, v) == [z \in {n} |-> v]
Method(returns, body) == [params |-> {Param(self, "plain", FALSE)}, returns |-> returns, body |-> body]
PythonVersions ==
    {PythonFile(NoNames, NoNames), PythonFile(One(f, Sig({})), NoNames),
     [PythonFile(One(f, Sig({})), NoNames) EXCEPT !.parses = FALSE]}
    \cup {PythonFile(One(f, Sig({})), One(K, ms)) : ms \in {NoNames, One(m, Method(Num, 0)), One(m, Method(Lst, 0)),
                                                      One(m, Method(NoType, 1)), One(f, Method(Num, 0))}}

Overload(t) == [owner |-> K, name |-> m, types |-> t]
JavaMethods ==
    {h \in UNION {[D -> [visibility : {"public", "private"}, returns : {Num, Lst}]] :
                     D \in SUBSET {Overload(ListA), Overload(ListB), Overload(Num)}} :
        \A o \in DOMAIN h : o.types # ListA => h[o] = [visibility |-> "public", returns |-> Num]}
JavaVersions ==
    {[classes |-> c, methods |-> h] : c \in {NoNames, One(K, "public"), One(K, "package")}, h \in JavaMethods}

File(status, lang, old, new) == [status |-> status, lang |-> lang, old |-> old, new |-> new]
MCChanges ==
    {{File("modified", "python", PythonFile(One(f, s), NoNames), PythonFile(One(f, t), NoNames))} : s, t \in Sigs}
    \cup {{File(status, "python", old, new)} :
            status \in {"modified", "deleted"}, old, new \in PythonVersions \cup {NoContent}}
    \cup {{File("modified", "java", old, new)} : old, new \in JavaVersions}
    \cup {{File("deleted", "java", old, NoContent)} : old \in JavaVersions}
MCErasure == [t \in {ListA, ListB, Num} |-> IF t = Num THEN Num ELSE Lst]

\* Bodies of five lines: three bindings of x and y, at times in a block.
Statement(kind, defs, names, last) == [kind |-> kind, defs |-> defs, names |-> names, last |-> last]
Bindings == {Statement("assign", {d}, {d, n}, 0) : d \in {x, y}, n \in {x, y}}
            \cup {Statement("other", {}, {x}, 0), Statement("assign", {x, y}, {x, y}, 0)}
Openers(i) == {Statement("control", {}, {y}, i + 1), Statement("for", {y}, {x, y}, i + 1)}
MCPrograms ==
    {[body |-> <<Statement("def", {x}, {}, 5), s2, s3, s4, Statement("other", {}, {x, y}, 5)>>, indented |-> i] :
        s2 \in Bindings \cup Openers(2), s3 \in Bindings \cup Openers(3), s4 \in Bindings, i \in {FALSE}}
    \cup {[body |-> [i \in 1..3 |-> Statement("other", {}, {x}, 0)], indented |-> TRUE]}

\* One file of up to three keys, alone or beside a file with a key.
Section(t, l, i) == [title |-> t, level |-> l, start |-> i]
Keys == {HOST, key}
ConfFile(shape) == [sections |-> [i \in DOMAIN shape |-> Section(shape[i][1], shape[i][2], i)],
                    lines |-> [i \in DOMAIN shape |-> shape[i][1]],
                    marks |-> [i \in DOMAIN shape |-> IF i = 3 THEN {"value", "suspicious"} ELSE {"value"}]]
Shapes == UNION {[1..n -> Keys \X {1, 2}] : n \in 1..3}
Line(reads, mentions) == [reads |-> reads, literal |-> reads, mentions |-> mentions, cites |-> {conf, env}, loads |-> {conf}]
Codes == {[lang |-> lang, test |-> test, lines |-> <<Line(r, s)>>] :
            lang \in {"python", "csharp"}, test \in BOOLEAN, r \in {{}, {HOST}, {HOST, key}}, s \in {{}, Keys}}
MCConfigs ==
    {[files |-> [c \in {conf} |-> ConfFile(s)], code |-> [c \in {mod} |-> d]] : s \in Shapes, d \in Codes}
    \cup {[files |-> [c \in {conf, env} |-> ConfFile(IF c = conf THEN s ELSE <<<<key, 1>>, <<HOST, 1>>>>)],
           code |-> [c \in {mod} |-> d]] : s \in [1..2 -> Keys \X {1, 2}],
                                           d \in {d \in Codes : d.lang = "python" /\ ~d.test}}
MCSimilar == {{HOST, key}}

\* A class and a subclass, in a package, that overrides two of its methods, a function, and
\* another project.
Func(n, c) == [name |-> n, file |-> IF c = modL THEN other ELSE mod, cls |-> c, marks |-> {}]
MCFunctions == (Krun :> Func(run, K)) @@ (Kstep :> Func(step, K)) @@ (Kstop :> Func(stop, K))
               @@ (Lrun :> Func(run, modL)) @@ (Lstep :> Func(step, modL)) @@ (f :> Func(f, NoClass))
ClassOf(bases, marks) == [name |-> IF bases = {} THEN K ELSE L, file |-> mod, bases |-> bases, marks |-> marks]
MCHeadOf == [z \in {Krun, Kstep, Kstop, Lrun, Lstep, run, step, stop, f, g, K, L, modL} |->
               CASE z \in {Krun, Kstep, Kstop} -> K [] z \in {Lrun, Lstep} -> modL [] z = modL -> mod [] OTHER -> z]
Elsewhere == {{}, {[deps |-> {Krun}, imports |-> {}]}, {[deps |-> {g}, imports |-> {}]},
             {[deps |-> {}, imports |-> {[from |-> FALSE, whole |-> FALSE, module |-> L, simple |-> L, names |-> {}]}]},
             {[deps |-> {}, imports |-> {[from |-> FALSE, whole |-> TRUE, module |-> mod, simple |-> mod, names |-> {}]}]},
             {[deps |-> {}, imports |-> {[from |-> TRUE, whole |-> FALSE, module |-> mod, simple |-> mod, names |-> {f}]}]}}
MCDeadProjects ==
    {[kind |-> (mod :> kind) @@ (other :> "source"), functions |-> MCFunctions,
      classes |-> (K :> ClassOf({}, {})) @@ (modL :> ClassOf({K}, {})), duplicates |-> dup,
      referred |-> referred, tabled |-> {f, run},
      tokens |-> (mod :> {f}) @@ (other :> tokens), values |-> {}, built |-> built, called |-> {run},
      selfCalls |-> [z \in DOMAIN MCFunctions |-> CASE z = Krun -> {step} [] z = Kstep -> calls \cup {stop}
                                               [] z = Lrun -> calls [] OTHER -> {}],
      siblings |-> siblings] :
        kind \in {"source", "test"}, dup \in {{}, {K}}, referred \in SUBSET {Krun, Lrun, Kstep, K},
        tokens \in {{}, {f}}, built \in {{}, {L}}, calls \in SUBSET {run, step}, siblings \in Elsewhere}

\* Four functions of different lengths around a seed.
MCBundles ==
    {[graph |-> (n1 :> e) @@ (n2 :> {n3}), lines |-> (n1 :> 3) @@ (n2 :> l2) @@ (n3 :> l3) @@ (n4 :> 11),
      seed |-> n1, match |-> (n1 :> 40) @@ (n2 :> 0) @@ (n3 :> m3) @@ (n4 :> 0), budget |-> budget] :
        e \in SUBSET {n2, n3}, l2 \in {1, 6}, l3 \in {2, 6}, m3 \in {0, 20}, budget \in {30, 50, 120}}

\* Every graph on four symbols, and two triangles with a bridge.
Four == {n1, n2, n3, n4}
MCRank == (n1 :> 1) @@ (n2 :> 2) @@ (n3 :> 3) @@ (n4 :> 4) @@ (n5 :> 5) @@ (n6 :> 6)
MCGraphs ==
    {[z \in Four |-> {k \in Four : {z, k} \in E /\ MCRank[z] < MCRank[k]}] :
        E \in SUBSET {{z, k} : z, k \in Four}}
    \cup {(n1 :> {n2, n3}) @@ (n2 :> {n3}) @@ (n3 :> {n4}) @@ (n4 :> {n5, n6}) @@ (n5 :> {n6})}
=============================================================================
