------------------------------ MODULE MCMemory ------------------------------
(* A small memory for TLC: periods of thirty days, few reads to a rule.     *)
EXTENDS MemoryStore, TLC
CONSTANTS p1, p2, t1, t2, A, B, s1, s2

Note(p, t, x) == [project |-> p, title |-> t, text |-> x, type |-> "note", global |-> FALSE,
                  ttl |-> Never]
MCDrafts == {Note(p1, t1, A),
             [Note(p1, t2, A) EXCEPT !.type = "convention"],
             [Note(p2, t1, A) EXCEPT !.global = TRUE],
             Volatile([Note(p1, t2, B) EXCEPT !.type = "convention"])}
MCLegacy == {Note(p1, t1, A), Note(p1, t2, A)}

MCTypes == {"note", "convention", "guardrail"}
MCImmune == {"convention", "guardrail"}
MCTtl == [t \in {"note"} |-> 2]
MCZeroAccess == [t \in {"note"} |-> 1]
MCRules == <<[from |-> "note", reads |-> 1, to |-> "convention"],
             [from |-> "note", reads |-> 2, to |-> "guardrail"]>>

\* Nothing is worth keeping once it is a period old and unread.
MCProfitable(type, text, idle, reads) == idle < 1

Interchangeable == Permutations(Savers)
=============================================================================
