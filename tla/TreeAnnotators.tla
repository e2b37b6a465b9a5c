--------------------------- MODULE TreeAnnotators ----------------------------
(* The annotators that read a syntax tree another parser made: Ruby's,     *)
(* from tree-sitter, and Python's, from ast.                               *)
EXTENDS Naturals, Sequences, FiniteSets, SequencesExt

(* ruby_annotator.py: the classes, modules and methods of a file.  A body   *)
(* is a sequence of nodes: a class or module, a method, a bare visibility   *)
(* keyword, one with methods as its arguments, a mixin, a require.          *)

Keywords == {"private", "protected", "public"}

\* display_name: a singleton method is known as self.name.
MethodNode(m, owner, visibility) ==
    [form |-> "function", name |-> m.name, self |-> m.kind = "singleton", owner |-> owner,
     visibility |-> visibility]

\* What a node in a body stands for, the bare keywords above it seen.
RECURSIVE TypeNode(_, _)
BodyNode(node, owner, visibility) ==
    CASE node.kind \in {"method", "singleton"} -> {MethodNode(node, owner, visibility)}
      [] node.kind = "inline" /\ owner # <<>>  -> {MethodNode(m, owner, node.name) : m \in ToSet(node.body)}
      [] node.kind \in {"class", "module"}     -> TypeNode(node, owner)
      [] node.kind = "mixin"                   -> {[form |-> "import", name |-> node.name]}
      [] node.kind = "require" /\ owner = <<>> -> {[form |-> "import", name |-> node.name]}
      [] OTHER -> {}

\* Only a bare keyword changes the visibility of what follows, to the end of
\* the body; at the top of a file there is none.
Walk(body, owner) ==
    FoldLeft(LAMBDA s, node :
                 IF node.kind = "keyword" /\ owner # <<>> THEN [s EXCEPT !.visibility = node.name]
                 ELSE [s EXCEPT !.items = @ \cup BodyNode(node, owner, s.visibility)],
             [visibility |-> "public", items |-> {}], body).items

TypeNode(node, owner) ==
    {[form |-> "class", name |-> node.name, owner |-> owner, bases |-> node.bases]}
    \cup Walk(node.body, Append(owner, node.name))

AnnotateRuby(body) == Walk(body, <<>>)
-----------------------------------------------------------------------------
(* python_annotator.py over the syntax tree of a file: a sequence of nodes  *)
(* [kind, name, bases, decorators, line, last, names, params, body], with   *)
(* the names and attribute roots its whole subtree refers to; the           *)
(* statements of a function's body are nodes too.                           *)

Defs == {"function", "class"}

\* The first line is that of the first decorator.
FirstLine(node) == CHOOSE k \in {node.line} \cup node.decorators :
                       \A j \in {node.line} \cup node.decorators : k <= j

\* A body of nothing but a docstring, pass, ..., a bare return or a raise of
\* NotImplementedError is a stub.
Empty == {"pass", "ellipsis", "bare return", "raise NotImplementedError"}
IsStub(body) ==
    \A k \in DOMAIN body : body[k].kind \in Empty \/ (k = 1 /\ body[k].kind = "docstring")

\* self and cls are not parameters of a method.
Params(node, owner) == SelectSeq(node.params, LAMBDA p : owner = "" \/ p \notin {"self", "cls"})

FunctionNode(node, owner) ==
    [form |-> "function", name |-> node.name, owner |-> owner, first |-> FirstLine(node),
     last |-> node.last, params |-> Params(node, owner), stub |-> IsStub(node.body)]
ClassNode(node) ==
    [form |-> "class", name |-> node.name, owner |-> "", first |-> FirstLine(node), last |-> node.last,
     bases |-> node.bases]
ClassMethods(node) ==
    {FunctionNode(m, node.name) : m \in {m \in ToSet(node.body) : m.kind = "function"}}

\* Only what stands directly in the file or in a class that does.
PythonItems(tree) ==
    UNION {CASE node.kind = "function" -> {FunctionNode(node, "")}
             [] node.kind = "class"    -> {ClassNode(node)} \cup ClassMethods(node)
             [] OTHER -> {} : node \in ToSet(tree)}

\* A class depends on what its methods name; a method is no node of its own.
\* Of two definitions of a name the later is kept.
PythonGraph(tree) ==
    LET defined == {x.name : x \in PythonItems(tree)}
        nodes == SelectSeq(tree, LAMBDA n : n.kind \in Defs)
        Latest(n) == nodes[CHOOSE k \in DOMAIN nodes : nodes[k].name = n
                                                      /\ \A j \in k + 1..Len(nodes) : nodes[j].name # n]
    IN  [n \in {nodes[k].name : k \in DOMAIN nodes} |-> (Latest(n).names \cap defined) \ {n}]

\* Imports are found however deep they stand.
PythonImports(tree) == UNION {node.imports : node \in ToSet(tree)}

\* A file that does not parse has no items.
AnnotatePython(tree) ==
    [items |-> PythonItems(tree), graph |-> PythonGraph(tree), imports |-> PythonImports(tree)]
=============================================================================
