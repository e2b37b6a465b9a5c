------------------------------ MODULE Slices ------------------------------
(* backward_slice (program_slicer.py) inside one symbol.  A program is a   *)
(* sequence of statements, one per line, line 1 being the def with its     *)
(* parameters: [kind, defs, names, last] with kind one of def, assign,     *)
(* for, control (if, while, try) and other, defs the variables it binds,   *)
(* names all the names on its line, and last the last line of its block.   *)
EXTENDS Naturals, FiniteSets, SequencesExt, Closure

CONSTANTS
    Unreachable,    \* the distance of what no path reaches, sys.maxsize
    MinTokens,      \* the least a symbol is taken to cost
    TokensPerLine,
    Proximity,      \* the weight of the distance in a score
    Recency         \* that of the age, which is always nought

Lines(prog) == 1..Len(prog)

\* What is taken of a program: a block lies within it.
Program(prog) ==
    /\ Len(prog) \in Nat
    /\ \A i \in Lines(prog) :
          /\ IsFiniteSet(prog[i].names)
          /\ prog[i].kind \in {"control", "for"} => prog[i].last \in i..Len(prog)

\* Where a variable is bound; with, import and except bind nothing here.
Definitions(prog, v) ==
    {i \in Lines(prog) : prog[i].kind \in {"def", "assign", "for"} /\ v \in prog[i].defs}

\* The names below the node of a line: of a for statement, its whole body.
NamesUnder(prog, i) ==
    CASE prog[i].kind = "assign" -> prog[i].names
      [] prog[i].kind = "for"    -> UNION {prog[j].names : j \in i..prog[i].last}
      [] OTHER                   -> {}

\* A pair [var, line] of the breadth-first walk asks, at each definition of the
\* variable at or before the line, for the names found there.
SliceStepMutant(prog, p) ==    \* at the last definition only
    UNION {{[var |-> n, line |-> i] : n \in NamesUnder(prog, i) \ {p.var}} :
              i \in {i \in Definitions(prog, p.var) : /\ i <= p.line
                  /\ \A j \in Definitions(prog, p.var) : j <= p.line => j <= i}}
SliceStep(prog, p) ==
    UNION {{[var |-> n, line |-> i] : n \in NamesUnder(prog, i) \ {p.var}} :
              i \in {i \in Definitions(prog, p.var) : i <= p.line}}

\* The walk ends: each pair is visited once.
Asked(prog, variable, line) ==
    LET names == UNION {prog[i].names : i \in Lines(prog)}
        pairs == [var : {variable} \cup names, line : Lines(prog)]
    IN  Within([p \in pairs |-> SliceStep(prog, p)], {[var |-> variable, line |-> line]},
               Cardinality(pairs))

BackwardSlice(prog, variable, line) ==
    LET bound == {i \in Lines(prog) : \E p \in Asked(prog, variable, line) :
                     i \in Definitions(prog, p.var) /\ i <= p.line} \cup {line}
        around == {i \in 1..line : /\ prog[i].kind \in {"control", "for"}
                                   /\ bound \cap i..prog[i].last # {}}
    IN  bound \cup around
-----------------------------------------------------------------------------
(* What is asked for, by the executions in which no loop goes round twice: *)
(* an execution is the set of the statements with a block that enter it.   *)

Blocks(prog) == {i \in Lines(prog) : prog[i].kind \in {"control", "for"}}
Executions(prog) == SUBSET Blocks(prog)
Executed(prog, taken) ==
    {i \in Lines(prog) : \A b \in Blocks(prog) : i \in b+1..prog[b].last => b \in taken}

\* What the value of v before line l was computed from: its last binding,
\* and what the names of that line held.  A for binds when it is entered.
LastBinding(prog, taken, v, l) ==
    LET bindings == {i \in Definitions(prog, v) \cap Executed(prog, taken) :
                        i < l /\ (prog[i].kind = "for" => i \in taken)}
    IN  {i \in bindings : \A j \in bindings : j <= i}

Sources(prog, taken, i) ==
    IF prog[i].kind = "def" THEN {}
    ELSE UNION {LastBinding(prog, taken, v, i) : v \in prog[i].names}

FlowsInto(prog, taken, variable, line) ==
    Within([i \in Lines(prog) |-> Sources(prog, taken, i)],
           LastBinding(prog, taken, variable, line), Len(prog))

\* A slice has every line that flows into the variable, and the statements
\* around it.
KeepsFlow(prog, taken, variable, line, slice) ==
    \A i \in FlowsInto(prog, taken, variable, line) :
        /\ i \in slice
        /\ \A b \in Blocks(prog) : i \in b+1..prog[b].last => b \in slice
-----------------------------------------------------------------------------
(* pack_context (query_api.py, context_packer.py): the symbols worth most   *)
(* for their length, while they fit a budget of tokens.                     *)

\* The length of the shortest path, by rounds over the frontier.
BfsDistance(graph, seed, target) ==
    LET next(S) == UNION {graph[n] : n \in S \cap DOMAIN graph}
        layer[d \in 0..Cardinality(DOMAIN graph)] ==
          IF d = 0 THEN [seen |-> {seed}, front |-> {seed}]
          ELSE LET l == layer[d-1]
               IN  [seen |-> l.seen \cup next(l.front), front |-> next(l.front) \ l.seen]
        hits == {d \in DOMAIN layer : target \in next(layer[d].front)}
    IN  IF seed = target THEN 0
        ELSE IF seed \notin DOMAIN graph \/ hits = {} THEN Unreachable
        ELSE 1 + CHOOSE d \in hits : \A e \in hits : d <= e

\* What a function of some lines is taken to cost.
TokenCost(lines) ==
    LET estimate == TokensPerLine * IF lines > 1 THEN lines - 1 ELSE 1
    IN  IF estimate > MinTokens THEN estimate ELSE MinTokens

\* What the words of a query say of a name, and how near it is to the seed.
Score(match, distance) ==
    match + Recency + IF distance = Unreachable THEN 0 ELSE Proximity \div (1 + distance)

\* The functions of a project as candidates for a query whose first known
\* word is the seed; match says how well each name fits the words.
PackCandidates(graph, lines, seed, match) ==
    {[name |-> n, value |-> Score(match[n], BfsDistance(graph, seed, n)), cost |-> TokenCost(lines[n])] :
        n \in DOMAIN lines}

\* The candidates [name, value, cost] in an order of falling value per token.
WorthOrders(pool) ==
    {s \in [1..Cardinality(pool) -> pool] :
        /\ IsInjective(s)
        /\ \A i, j \in DOMAIN s : i < j => s[i].value * s[j].cost >= s[j].value * s[i].cost}

Knapsack(order, budget) ==
    LET Take(s, c) == IF c.cost <= s.left
                      THEN [taken |-> s.taken \cup {c}, left |-> s.left - c.cost]
                      ELSE s
    IN  FoldLeft(Take, [taken |-> {}, left |-> budget], order).taken

\* Only the most valuable candidates, three for each symbol asked for.
Pools(candidates, maxSymbols) ==
    {P \in SUBSET candidates :
        /\ Cardinality(P) = IF Cardinality(candidates) < 3 * maxSymbols
                            THEN Cardinality(candidates) ELSE 3 * maxSymbols
        /\ \A c \in P, d \in candidates \ P : c.value >= d.value}
=============================================================================
