------------------------------ MODULE Analyses ------------------------------
(* The analysis tools of the server (server_handlers/analysis.py and the   *)
(* slicing, packing and cluster tools of query_api.py), answering one call  *)
(* at a time over the inputs the constants give; and the brace matching     *)
(* that the annotators ask for.                                             *)
EXTENDS BreakingChanges, Slices, ConfigChecks, DeadCode, Communities, Braces

CONSTANTS
    Changes,        \* sets of changed files
    Programs,       \* symbols to slice: [body, indented]
    Variables,
    Configs,        \* projects: [files, code]
    Checks,         \* sets of checks asked for
    Severities,
    DeadProjects,   \* projects searched for dead code
    Bundles,        \* queries to pack for: [graph, lines, seed, match, budget]
    BraceTexts,     \* sources to match braces in: [lang, lines, start, pieces]
    MaxSymbols,     \* of pack_context
    MaxSymbolLines, \* of get_backward_slice
    WindowLines     \* what it shows on either side of a line it cannot parse

ASSUME AnalysesAssumption ==
    /\ \A changed \in Changes : \A f \in changed : ChangedFile(f)
    /\ \A s \in Programs : Program(s.body)
    /\ \A p \in Configs : \A f \in DOMAIN p.files : Nested(p.files[f].sections)
    /\ \A p \in DeadProjects : IsFiniteSet(Funcs(p))
    /\ \A t \in BraceTexts : BraceText(t)

VARIABLES
    request,        \* the call being answered
    report      \* its answer

analysisVars == <<request, report, communityVars>>

Unasked == request.kind = "none" /\ algorithm = "none" /\ pass = 0
Report(call, result) ==
    /\ request' = call /\ report' = result
    /\ UNCHANGED communityVars

AnalysesInit == request = [kind |-> "none"] /\ report = {} /\ CommunitiesInit

\* The answer is sent.
SendReport ==
    /\ request.kind # "none" \/ pass > 0
    /\ request' = [kind |-> "none"] /\ report' = {}
    /\ HandOver
-----------------------------------------------------------------------------
\* The report heads a section with the severity, a tier and a count; the
\* handler saves a guardrail for what stands under the bare severity.
Heading(severity) == <<severity, "tier", "count">>
Guardrails(issues) == {r \in issues : Heading(r.issue.severity) = <<"breaking">>}

DetectBreakingChanges ==
    /\ Unasked
    /\ \E changed \in Changes :
           LET issues == UNION {[file : {f}, issue : BreakingChangesOf(f)] : f \in changed}
           IN  Report([kind |-> "breaking", changed |-> changed],
                      [issues |-> issues, saved |-> Guardrails(issues)])

RunAnalyzeConfig ==
    /\ Unasked
    /\ \E p \in Configs, checks \in Checks, severity \in Severities :
           \E only \in {""} \cup DOMAIN p.files :
               Report([kind |-> "config", project |-> p, checks |-> checks, severity |-> severity, only |-> only],
                      AnalyzeConfig(Restricted(p.files, only), p.code, checks, severity))

RunFindDeadCode ==
    /\ Unasked
    /\ \E p \in DeadProjects : Report([kind |-> "dead", project |-> p], FindDeadCode(p))

\* The body is parsed as it stands in the file: that of a method, being
\* indented, does not parse, and the lines around the criterion are shown.
GetBackwardSlice ==
    /\ Unasked
    /\ \E s \in Programs, v \in Variables :
           /\ Len(s.body) <= MaxSymbolLines
           /\ \E line \in Lines(s.body) :
                 Report([kind |-> "slice", body |-> s.body, indented |-> s.indented, variable |-> v, line |-> line],
                        IF s.indented
                        THEN {l \in Lines(s.body) : line - WindowLines < l /\ l <= line + WindowLines}
                        ELSE BackwardSlice(s.body, v, line))

PackContext ==
    /\ Unasked
    /\ \E b \in Bundles :
           LET candidates == PackCandidates(b.graph, b.lines, b.seed, b.match)
           IN  \E pool \in Pools(candidates, MaxSymbols) : \E order \in WorthOrders(pool) :
                  Report([kind |-> "pack", budget |-> b.budget, pool |-> pool], Knapsack(order, b.budget))

\* An annotator looks for the end of what it found on a line.
MatchBraces ==
    /\ Unasked
    /\ \E t \in BraceTexts :
           Report([kind |-> "braces", source |-> t], FindBraceEnd(t.lang, t.lines, t.start))

\* The clusters of a graph, computed in steps.
FindCommunities ==
    /\ Unasked
    /\ StartClustering
    /\ UNCHANGED <<request, report>>

ComputeCommunities == CommunitiesStep /\ UNCHANGED <<request, report>>

AnalysesNext ==
    \/ DetectBreakingChanges \/ RunAnalyzeConfig \/ RunFindDeadCode \/ GetBackwardSlice
    \/ PackContext \/ MatchBraces \/ FindCommunities \/ ComputeCommunities \/ SendReport

AnalysesSpec == AnalysesInit /\ [][AnalysesNext]_analysisVars
-----------------------------------------------------------------------------
(* The properties.                                                         *)

ReportOf(kind) == request.kind = kind
IssuesOf(f) == {r.issue : r \in {r \in report.issues : r.file = f}}

\* A change of a Python function is called breaking exactly when some call
\* that names its arguments worked before and fails now, whatever the order,
\* the defaults and the kinds of its parameters; provided that it has no
\* positional-only ones, that no default was dropped and, for the alarms to
\* be justified, that neither version takes starred ones.
PythonCallsBreak ==
    ReportOf("breaking") =>
        \A f \in {f \in request.changed : f.lang = "python" /\ f.status = "modified"
                                      /\ NoContent \notin {f.old, f.new}} :
            \A n \in DOMAIN Signatures(f.old).funcs \cap DOMAIN Signatures(f.new).funcs :
                LET old == f.old.funcs[n]
                    new == f.new.funcs[n]
                    broken == \E names \in SUBSET (Takes(old) \cup Takes(new)) :
                                 AcceptsNames(old, names) /\ ~AcceptsNames(new, names)
                    told == \E i \in IssuesOf(f) :
                               i.symbol = <<n>> /\ i.severity = "breaking" /\ i.what # "class removed"
                IN  ~(HasPositionalOnly(old) \/ HasPositionalOnly(new) \/ DropsDefault(old, new)) =>
                        /\ broken => told
                        /\ told => broken \/ HasStar(old) \/ HasStar(new)

\* Deleting a file breaks what emptying it breaks, in either language.
DeletingIsEmptying ==
    ReportOf("breaking") =>
        \A f \in {f \in request.changed : f.status = "deleted" /\ f.old # NoContent} :
            IssuesOf(f) = BreakingChangesOf([f EXCEPT !.status = "modified", !.new = EmptyFile(f.lang)])

\* A Java method others may call is reported as broken exactly when no method
\* with its name and its erased parameter types is left in its class.
OverloadsKeptOrReported ==
    ReportOf("breaking") =>
        \A f \in {f \in request.changed : f.lang = "java" /\ f.status = "modified"
                                      /\ NoContent \notin {f.old, f.new}} :
            \A m \in ApiMethods(f.old) :
                (\A n \in DOMAIN f.new.methods : MethodShape(n) # MethodShape(m))
                    <=> \E i \in IssuesOf(f) :
                            i.symbol = <<m>> /\ i.severity = "breaking" /\ i.what # "class removed"

\* The report of breaking changes is right in these three ways.
BreakingMeansBroken == PythonCallsBreak /\ DeletingIsEmptying /\ OverloadsKeptOrReported

\* The verdict CONSISTENT, on all files and with the default checks, means
\* what it says: no key is there twice under one parent, every key is named
\* in the code and every key that code other than tests reads is defined.
ConsistentMeansConsistent ==
    ReportOf("config") /\ report.verdict = "CONSISTENT" /\ request.only = ""
    /\ {"duplicates", "orphans"} \subseteq request.checks /\ request.severity # "error" =>
        Consistent(request.project.files, request.project.code)

\* No function reported dead is reached, by calls on self through however many
\* methods, from a method something refers to or from one that overrides it.
ReachedIsNotDead ==
    ReportOf("dead") => report \cap ReachedOnSelf(request.project) \subseteq DOMAIN request.project.classes

\* A slice keeps every binding that may have flowed into the variable, on any
\* path on which no loop goes round twice, and the statements around it.
SliceKeepsFlow ==
    ReportOf("slice") /\ ~request.indented =>
        \A taken \in Executions(request.body) :
            request.line \in Executed(request.body, taken) =>
                KeepsFlow(request.body, taken, request.variable, request.line, report)

\* A declaration ends with the line of the brace that closes it, whatever
\* braces stand in its comments, strings and character literals and whatever
\* they nest or escape; provided that no escape in a character literal is one
\* the code misreads, and that no string of Rust spans lines, no string or //
\* comment of C is continued, and no string of C# is a raw one: of those the
\* code does not find the end, though it means to skip them (brace_matcher.py:333).
BracesFound ==
    ReportOf("braces") /\ (\A k \in DOMAIN request.source.pieces : ~Misread(request.source, request.source.pieces[k])) =>
        report = ClosingLine(request.source)
=============================================================================
