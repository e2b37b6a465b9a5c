---------------------------- MODULE ConfigChecks ----------------------------
(* analyze_config (config_analyzer.py) over the files of an index.         *)
(*                                                                         *)
(* A configuration file is [sections, lines, marks]: its keys in order as  *)
(* [title, level, start], what each line says (lines[1] is the first), and *)
(* for each line what the secret detectors see in it.  A code file is      *)
(* [lang, test, lines]; a line of it is [reads, literal, mentions, cites,  *)
(* loads]: the keys read from the environment there, those of them with no *)
(* default or a literal one, the keys whose text occurs, the configuration *)
(* files named, and those named in a call that opens or parses something.  *)
EXTENDS Naturals, FiniteSets, SequencesExt

CONSTANTS
    Similar,        \* pairs of long titles within two edits of one another
    EnvStyle,       \* titles in UPPER_SNAKE_CASE
    KnownKeys,      \* titles never reported: scripts, networks, ...
    BuildTimeKeys,  \* titles beginning with VITE_
    KnownFiles,     \* configuration files used by convention
    Manifests       \* those a cluster tool applies

ConfigIssue(check, severity, file, key, line) ==
    [check |-> check, severity |-> severity, file |-> file, key |-> key, line |-> line]
-----------------------------------------------------------------------------
(* Duplicates, probable typos and conflicts between files.                 *)

\* The sections around each one, by the stack of those that are still open: a
\* section closes the ones at its level or below.
EnclosingMutant(sections) ==    \* and not those at its level
    LET open[i \in 0..Len(sections)] ==
          IF i = 0 THEN {} ELSE {j \in open[i-1] : sections[j].level <= sections[i].level} \cup {i}
    IN  [i \in 1..Len(sections) |-> open[i] \ {i}]
Enclosing(sections) ==
    LET open[i \in 0..Len(sections)] ==
          IF i = 0 THEN {} ELSE {j \in open[i-1] : sections[j].level < sections[i].level} \cup {i}
    IN  [i \in 1..Len(sections) |-> open[i] \ {i}]

\* Their titles, from the outermost.
ParentPath(sections, around) ==
    LET path == SetToSortSeq(around, <)
    IN  [k \in 1..Len(path) |-> sections[path[k]].title]

\* The pairs of sections at one level whose parents have the same titles.
Siblings(sections) ==
    LET around == Enclosing(sections)
        Beside(i, j) == /\ i < j /\ sections[i].level = sections[j].level
                        /\ ParentPath(sections, around[i]) = ParentPath(sections, around[j])
                        /\ sections[i].start # sections[j].start
    IN  {p \in (DOMAIN sections) \X (DOMAIN sections) : Beside(p[1], p[2])}

DuplicatesIn(files, f) ==
    LET secs == files[f].sections
        pairs == Siblings(secs)
    IN  {ConfigIssue("duplicate", "error", f, secs[p[1]].title, secs[p[2]].start) :
            p \in {p \in pairs : secs[p[1]].title = secs[p[2]].title}}
        \cup {ConfigIssue("typo", "warning", f, secs[p[1]].title, secs[p[2]].start) :
            p \in {p \in pairs : {secs[p[1]].title, secs[p[2]].title} \in Similar}}

TopSections(files, f) == {s \in Range(files[f].sections) : s.level = 1}
TopTitles(files) == UNION {{s.title : s \in TopSections(files, f)} : f \in DOMAIN files}

\* Sections count lines from 1 and the list of lines from 0, so the text
\* compared is that of the line after the key.
TextAt(file, section) ==
    IF section.start < Len(file.lines) THEN file.lines[section.start + 1] ELSE ""

Conflicts(files) ==
    LET Texts(k) == UNION {{TextAt(files[f], s) : s \in {s \in TopSections(files, f) : s.title = k}} :
                             f \in DOMAIN files} \ {""}
        first(f, k) == CHOOSE s \in TopSections(files, f) :
                          s.title = k /\ \A t \in TopSections(files, f) : t.title = k => s.start <= t.start
    IN  IF Cardinality(DOMAIN files) = 1 THEN {}
        ELSE {ConfigIssue("conflict", "warning", fk[1], fk[2], first(fk[1], fk[2]).start) :
                fk \in {fk \in (DOMAIN files) \X TopTitles(files) :
                    /\ Cardinality(Texts(fk[2])) > 1
                    /\ \E s \in TopSections(files, fk[1]) : s.title = fk[2]}}

CheckDuplicates(files) == UNION {DuplicatesIn(files, f) : f \in DOMAIN files} \cup Conflicts(files)
-----------------------------------------------------------------------------
(* Secrets: what the detectors see in a line is among comment, value,      *)
(* template, image, prefix, url, suspicious, placeholder, harmless, dense. *)

SecretsIn(marks) ==
    IF "comment" \in marks \/ ("value" \in marks /\ marks \cap {"template", "image"} # {}) THEN {}
    ELSE {<<m, IF m = "prefix" THEN "error" ELSE "warning">> :
            m \in {m \in marks \cap {"prefix", "url", "suspicious", "dense"} :
                /\ m # "url" => "value" \in marks
                /\ m \in {"suspicious", "dense"} => "harmless" \notin marks
                /\ m = "suspicious" => "placeholder" \notin marks}}

CheckSecrets(files) ==
    UNION {UNION {{ConfigIssue("secret", s[2], f, s[1], i - 1) : s \in SecretsIn(files[f].marks[i])} :
                    i \in DOMAIN files[f].marks} : f \in DOMAIN files}
-----------------------------------------------------------------------------
(* What the code reads.                                                    *)

Scanned == {"python", "typescript", "go", "rust", "java"}
Places(code, Has(_)) ==
    UNION {{[file |-> f, line |-> i - 1] : i \in {i \in DOMAIN code[f].lines : Has(code[f].lines[i])}} :
             f \in DOMAIN code}

\* Where a key is read, in the languages whose reads are known.
ReadsOf(code, k) ==
    {p \in Places(code, LAMBDA l : k \in l.reads) : code[p.file].lang \in Scanned}
ReadKeys(code) == {k \in UNION {UNION {l.reads : l \in Range(code[f].lines)} : f \in DOMAIN code} :
                     ReadsOf(code, k) # {}}

\* A read whose default is no literal, or that is Java's, is in no schema.
SchemaReadsOf(code, k) ==
    {p \in Places(code, LAMBDA l : k \in l.literal) : code[p.file].lang \in Scanned \ {"java"}}
-----------------------------------------------------------------------------
(* Orphans, ghosts, files nobody names and files nobody loads.             *)

OrphanKeys(files, code) ==
    {k \in TopTitles(files) \ (KnownKeys \cup ReadKeys(code)) :
        k \in EnvStyle \/ Places(code, LAMBDA l : k \in l.mentions) = {}}

GhostKeys(files, code) ==
    {k \in ReadKeys(code) \ (TopTitles(files) \cup BuildTimeKeys) :
        \E p \in ReadsOf(code, k) : ~code[p.file].test}

Orphans(files, code) ==
    UNION {{ConfigIssue("orphan", "warning", f, s.title, s.start) :
              s \in {s \in TopSections(files, f) : s.title \in OrphanKeys(files, code)}} : f \in DOMAIN files}
Ghosts(files, code) ==
    UNION {{ConfigIssue("ghost", "warning", p.file, k, p.line) : p \in ReadsOf(code, k)} :
              k \in GhostKeys(files, code)}

CheckOrphans(files, code) ==
    Orphans(files, code) \cup Ghosts(files, code)
    \cup {ConfigIssue("orphan_file", "warning", f, "", 0) :
            f \in {f \in DOMAIN files \ KnownFiles : Places(code, LAMBDA l : f \in l.cites) = {}}}
    \cup {ConfigIssue("unused_content", "warning", f, "", 0) :
            f \in {f \in DOMAIN files \ (KnownFiles \cup Manifests) :
                /\ \E s \in Range(files[f].sections) : s.level >= 2
                /\ Places(code, LAMBDA l : f \in l.loads) = {}}}

CheckLoaders(files, code) ==
    UNION {{ConfigIssue("loader", "info", p.file, f, p.line) :
              p \in Places(code, LAMBDA l : f \in l.cites)} : f \in DOMAIN files}

\* A key is reported once, at one of the places that read it.
CheckSchema(files, code) ==
    {ConfigIssue(IF k \in TopTitles(files) THEN "schema_defined" ELSE "schema_missing",
                 IF k \in TopTitles(files) THEN "info" ELSE "warning", "", k, 0) :
        k \in {k \in ReadKeys(code) : SchemaReadsOf(code, k) # {}}}
-----------------------------------------------------------------------------
(* analyze_config: the checks asked for, one file or all, and a severity.  *)

AllowedSeverities(severity) ==
    CASE severity = "error"   -> {"error"}
      [] severity = "warning" -> {"error", "warning"}
      [] OTHER                -> {"error", "warning", "info"}

AnalyzeConfig(files, code, checks, severity) ==
    LET issues == (IF "duplicates" \in checks THEN CheckDuplicates(files) ELSE {})
                  \cup (IF "secrets" \in checks THEN CheckSecrets(files) ELSE {})
                  \cup (IF "orphans" \in checks THEN CheckOrphans(files, code) ELSE {})
                  \cup (IF "loaders" \in checks THEN CheckLoaders(files, code) ELSE {})
                  \cup (IF "schema" \in checks THEN CheckSchema(files, code) ELSE {})
        shown == {i \in issues : i.severity \in AllowedSeverities(severity)}
    IN  IF DOMAIN files = {} THEN [verdict |-> "no config files", issues |-> {}]
        ELSE [verdict |-> IF shown = {} THEN "CONSISTENT" ELSE "issues", issues |-> shown]

\* A file asked for by name is the only configuration file there is.
Restricted(files, only) ==
    IF only = "" THEN files ELSE [f \in DOMAIN files \cap {only} |-> files[f]]
-----------------------------------------------------------------------------
(* What is asked for.                                                      *)

\* What is taken of the sections of a file: levels are numbers.
Nested(sections) ==
    Len(sections) \in Nat /\ DOMAIN sections = 1..Len(sections)
    /\ \A i \in 1..Len(sections) : sections[i].level \in Nat

\* The section that one stands in: the nearest before it at a lower level.
Parent(sections, i) ==
    {j \in 1..i-1 : /\ sections[j].level < sections[i].level
                    /\ \A k \in j+1..i-1 : sections[k].level >= sections[i].level}

\* Nothing stands twice under one parent, every key is named in the code, and
\* every key that code other than tests reads is defined.
Consistent(files, code) ==
    /\ \A f \in DOMAIN files : LET secs == files[f].sections IN
          \A i, j \in DOMAIN secs :
              /\ i # j /\ secs[i].title = secs[j].title /\ secs[i].level = secs[j].level
              /\ Parent(secs, i) = Parent(secs, j)
              => secs[i].start = secs[j].start
    /\ \A k \in TopTitles(files) \ KnownKeys : \E f \in DOMAIN code : \E l \in Range(code[f].lines) :
          k \in l.reads \cup l.mentions
    /\ \A f \in DOMAIN code : code[f].lang \in Scanned /\ ~code[f].test =>
          \A l \in Range(code[f].lines) : l.reads \subseteq TopTitles(files) \cup BuildTimeKeys
=============================================================================
