------------------------------ MODULE Closure ------------------------------
(* What a set grows to when a step is applied to it again and again.       *)
EXTENDS Naturals

Closure(Grow(_), S, rounds) ==
    LET reach[k \in 0..rounds] ==
          IF k = 0 THEN S
          ELSE LET before == reach[k-1] IN before \cup Grow(before)
    IN  reach[rounds]

\* What is within k steps of a set, when a step leads from n to step[n].
Within(step, S, k) ==
    Closure(LAMBDA T : UNION {step[n] : n \in T}, S, k)
=============================================================================
