----------------------------- MODULE SourceLines -----------------------------
(* What the annotators that read a source line by line see of one: which of *)
(* their patterns a line matches first, the names the pattern captures, and *)
(* the brackets and other marks on it, in order, comments and literals left *)
(* out (module Braces is about those).                                      *)
EXTENDS Naturals, Sequences, FiniteSets, SequencesExt

\* A line: [kind, name, of, marks, words].  `of' is the receiver, the trait
\* or the bases; `words' are the identifiers on it.
Has(lines, i, mark) == i \in DOMAIN lines /\ Contains(lines[i].marks, mark)
Opens(lines, i) == Has(lines, i, "{") \/ Has(lines, i + 1, "{")
Least(S, otherwise) == IF S = {} THEN otherwise ELSE CHOOSE k \in S : \A j \in S : k <= j

\* The first line at or after i with the mark (at most `last').
FirstWith(lines, i, last, mark, otherwise) ==
    Least({k \in i..last : Has(lines, k, mark)}, otherwise)

\* The first line on which the bracket first opened at or after i is closed.
Count(line, open, close, state) ==
    FoldLeft(LAMBDA s, mark :
                 IF s.closed THEN s
                 ELSE IF mark = open THEN [s EXCEPT !.depth = @ + 1, !.found = TRUE]
                 ELSE IF mark = close
                      THEN [s EXCEPT !.depth = @ - 1, !.closed = s.found /\ s.depth = 1]
                 ELSE s,
             state, line.marks)
Balanced(lines, i, open, close, otherwise) ==
    LET seen[k \in i - 1..Len(lines)] ==
            IF k < i THEN [depth |-> 0, found |-> FALSE, closed |-> FALSE]
            ELSE Count(lines[k], open, close, seen[k - 1])
    IN  Least({k \in i..Len(lines) : seen[k].closed}, otherwise)

\* find_brace_end: the last line if the brace is never closed.
BraceEnd(lines, i) == Balanced(lines, i, "{", "}", Len(lines))
\* The line of the parenthesis that closes a parameter list.
ParenEnd(lines, i) == Balanced(lines, i, "(", ")", i)

\* Where the unbroken run of lines of these kinds just above i begins.
RunAbove(lines, i, kinds) ==
    Least({k \in 1..i : \A j \in k..i - 1 : lines[j].kind \in kinds}, i)

\* An item found: lines first to last declare it; its documentation and its
\* attributes begin at `from'.
Item(form, name, owner, bases, from, first, last) ==
    [form |-> form, name |-> name, owner |-> owner, bases |-> bases,
     from |-> from, first |-> first, last |-> last]
Functions(items) == {x \in items : x.form = "function"}
Classes(items) == {x \in items : x.form = "class"}

\* utils/dependency_graph.py: what an item's lines name, of the file's items.
\* It is kept under the bare name: the last item of a name is the one kept.
NamesUsed(lines, item, items) ==
    (UNION {lines[k].words : k \in item.first..item.last}
        \cap {x.name : x \in items}) \ {item.name}
DependencyGraph(lines, items) ==
    [n \in {x.name : x \in items} |->
        LET named == {x \in items : x.name = n}
            late == IF Classes(named) # {} THEN Classes(named) ELSE named
        IN  NamesUsed(lines, CHOOSE x \in late : \A y \in late : x.first >= y.first, items)]
=============================================================================
