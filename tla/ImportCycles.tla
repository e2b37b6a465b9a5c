---------------------------- MODULE ImportCycles ----------------------------
(* find_import_cycles (query_api.py): Tarjan's components over the import  *)
(* graph.  The recursion is a stack of frames; files and neighbours come   *)
(* in any order, as the sets they are kept in do.                          *)
EXTENDS Naturals, Sequences, FiniteSets, FiniteSetsExt, Closure

CONSTANT Files

VARIABLES
    number,     \* file -> the order in which it was reached
    low,        \* file -> the least number known to be reachable on the stack
    stack,      \* files whose component is not closed yet
    frames,     \* pending calls of strongconnect: [node, todo, child]
    cycles      \* the components reported

cycleVars == <<number, low, stack, frames, cycles>>

Imported(graph, f) == IF f \in DOMAIN graph THEN graph[f] ELSE {}
OnStack == {stack[i] : i \in 1..Len(stack)}
Top == frames[Len(frames)]
Below == SubSeq(frames, 1, Len(frames) - 1)
With(map, f, v) == [g \in DOMAIN map \cup {f} |-> IF g = f THEN v ELSE map[g]]

CyclesInit ==
    /\ number = [f \in {} |-> 0] /\ low = [f \in {} |-> 0]
    /\ stack = <<>> /\ frames = <<>> /\ cycles = {}

\* Entering strongconnect(f) above the frames `under'.
Enter(graph, f, under) ==
    /\ number' = With(number, f, Cardinality(DOMAIN number))
    /\ low' = With(low, f, Cardinality(DOMAIN number))
    /\ stack' = Append(stack, f)
    /\ frames' = Append(under, [node |-> f, todo |-> Imported(graph, f)])
    /\ UNCHANGED cycles

StartComponent(graph) ==
    /\ frames = <<>>
    /\ \E f \in DOMAIN graph \ DOMAIN number : Enter(graph, f, <<>>)

\* The call looks at one neighbour: descends, or lowers its own link.
LookAtMutant(graph, g) ==
    LET rest == Append(Below, [Top EXCEPT !.todo = @ \ {g}])
    IN  IF g \notin DOMAIN number
        THEN Enter(graph, g, rest)
        ELSE /\ frames' = rest
             /\ low' = [low EXCEPT ![Top.node] = Min({@, number[g]})]
             /\ UNCHANGED <<number, stack, cycles>>
LookAt(graph, g) ==
    LET rest == Append(Below, [Top EXCEPT !.todo = @ \ {g}])
    IN  IF g \notin DOMAIN number
        THEN Enter(graph, g, rest)
        ELSE /\ frames' = rest
             /\ low' = [low EXCEPT ![Top.node] =
                          IF g \in OnStack THEN Min({@, number[g]}) ELSE @]
             /\ UNCHANGED <<number, stack, cycles>>

Neighbour(graph) == frames # <<>> /\ \E g \in Top.todo : LookAt(graph, g)

\* The call has seen its neighbours: it closes its component if it is a
\* root, and its caller takes over its link.
Return(graph) ==
    /\ frames # <<>> /\ Top.todo = {}
    /\ LET n == Top.node
           at == CHOOSE i \in 1..Len(stack) : stack[i] = n
           component == {stack[i] : i \in at..Len(stack)}
           root == low[n] = number[n]
           caller == frames[Len(frames) - 1].node
       IN  /\ stack' = IF root THEN SubSeq(stack, 1, at - 1) ELSE stack
           /\ cycles' = IF root /\ (Cardinality(component) > 1 \/ n \in Imported(graph, n))
                        THEN cycles \cup {component} ELSE cycles
           /\ low' = IF Len(frames) = 1 THEN low
                     ELSE [low EXCEPT ![caller] = Min({@, low[n]})]
    /\ frames' = Below
    /\ UNCHANGED number

CyclesStep(graph) == StartComponent(graph) \/ Neighbour(graph) \/ Return(graph)
CyclesDone(graph) == frames = <<>> /\ DOMAIN graph \subseteq DOMAIN number
-----------------------------------------------------------------------------
(* What is asked for: the files that import one another.                   *)

Reach(graph, f) ==
    Within([g \in Files |-> Imported(graph, g)], Imported(graph, f), Cardinality(Files))
ImportCyclesOf(graph) ==
    {{g \in Reach(graph, f) : f \in Reach(graph, g)} : f \in {f \in Files : f \in Reach(graph, f)}}
=============================================================================
