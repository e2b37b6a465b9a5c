--------------------------- MODULE MCResultCache ----------------------------
(* Two projects, of one file of two texts each: `common' is the basename of *)
(* both, `some' a part of both basenames, `one' part of the first and the   *)
(* whole of the second.                                                     *)
EXTENDS ResultCache, TLC
CONSTANTS p1, p2, f1, t1, t2, common, some, one
Symmetric == Permutations(Texts)
MCFit == [n \in Names |->
    CASE n = common -> [r \in Roots |-> 2]
      [] n = some   -> [r \in Roots |-> Part]
      [] n = one    -> [r \in Roots |-> IF r = p1 THEN Part ELSE 2]]
=============================================================================
