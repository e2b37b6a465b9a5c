----------------------------- MODULE MCQueries -----------------------------
(* One class with two methods, one of which shares its name with a         *)
(* function, and a few files, for TLC.                                     *)
EXTENDS Queries

CONSTANTS C, Cm, Cn, m, f, g, src, lib, api, t1, t2

MCMethods == [c \in {C} |-> {Cm, Cn}]
MCAlias == [x \in {Cm, Cn, m, f, g} |-> IF x = Cm THEN {Cm, m} ELSE {x}]
MCSorted == <<Cm, Cn, C, f, g, m>>
MCFileOf == [x \in Symbols |-> CASE x \in {C, Cm} -> src [] x = Cn -> None [] x = m -> lib
                                 [] x = f -> api [] OTHER -> t1]
MCDefines == [x \in Files |-> {s \in Symbols : MCFileOf[s] = x} \cup IF x = src THEN {Cn} ELSE {}]
MCNameMatch == [x \in Files |-> IF x = src THEN {t1} ELSE {}]
MCStemMatch == [x \in Files |-> IF x = src THEN {t1, t2} ELSE {}]

\* Methods referred to have an entry, whether they refer to anything or not.
Graph(edges) ==
    [x \in {C, m, f, g} \cup {e[1] : e \in edges} \cup ({e[2] : e \in edges} \cap MCMethods[C]) |->
        {e[2] : e \in {e \in edges : e[1] = x}}]

SymbolEdges == {<<f, m>>, <<f, C>>, <<f, Cn>>, <<g, f>>, <<m, g>>, <<Cm, g>>, <<Cn, m>>, <<m, C>>, <<Cm, Cn>>, <<C, g>>}
ImportEdges == {<<lib, src>>, <<src, lib>>, <<api, src>>, <<api, lib>>, <<src, api>>,
                <<t1, api>>, <<t2, lib>>, <<t2, t2>>}
ImportGraph(edges) == [x \in {e[1] : e \in edges} |-> {e[2] : e \in {e \in edges : e[1] = x}}]

MCIndexes ==
    {[deps |-> Graph(E), imports |-> ImportGraph({<<t1, api>>, <<t2, lib>>})] : E \in SUBSET SymbolEdges}
    \cup {[deps |-> Graph({<<f, m>>, <<g, f>>}), imports |-> ImportGraph(E)] : E \in SUBSET ImportEdges}
=============================================================================
