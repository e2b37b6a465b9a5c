--------------------------- MODULE MCSymbolCache ----------------------------
(* A class for TLC: file f1 may change it and may give it an explicit      *)
(* constructor, whose text is c; f2, where there is one, has it too and is *)
(* a path that ends with f1's.                                             *)
EXTENDS SymbolCache
CONSTANTS f1, f2, t1, t2, c

MCIndexes ==
    {i \in [Files -> [Kinds -> {t1, t2, c, Absent}]] :
        /\ i[f1]["class"] \in {t1, t2} /\ i[f1]["function"] \in {c, Absent}
        /\ f2 \in Files => i[f2]["class"] = t2 /\ i[f2]["function"] = Absent}
MCEnding == [f \in Files |-> IF f = f1 THEN Files ELSE {f}]
MCHash == [t \in Texts |-> t]
MCSmallDiffs == {<<t1, t2>>}
=============================================================================
