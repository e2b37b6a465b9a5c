------------------------------- MODULE Sections -------------------------------
(* The annotators of data and text files (json, yaml, toml, ini, xml, hcl,  *)
(* conf, gradle, env, text, dockerfile and prisma): the sections of a file, *)
(* each with a title, a level and its lines.                                *)
EXTENDS SourceLines

CONSTANT Inside     \* pairs <<s, t>>: the text s stands within the text t

MaxDepth == 4
Section(title, level, first, last) == [title |-> title, level |-> level, first |-> first, last |-> last]
OnLine(title, level, line) == Section(title, level, line, line)
-----------------------------------------------------------------------------
(* Formats that are parsed.  The parser tells the values but not where they *)
(* stand, so that each key is searched for in the lines.  A value is a text *)
(* or a number, a list of values, or a dict of items [key, value, at,       *)
(* hidden, header]: its line, whether the pattern cannot see the key there  *)
(* (after a dash, for YAML), and whether it stands in a TOML header.        *)

RECURSIVE Entries(_)
Entries(v) ==
    CASE v.kind = "dict" -> UNION {{v.items[k]} \cup Entries(v.items[k].value) : k \in DOMAIN v.items}
      [] v.kind = "list" -> UNION {Entries(v.items[k]) : k \in DOMAIN v.items}
      [] OTHER           -> {}

\* _find_key_line: the first line from `from' on that the key's pattern
\* matches, 1 if there is none.  The pattern of TOML takes any header the
\* key's text stands in.
KeyLine(entries, key, from) ==
    Least({e.at : e \in {e \in entries : /\ e.at >= from /\ ~e.hidden
                                         /\ (e.key = key \/ (e.header /\ <<key, e.key>> \in Inside))}}, 1)

\* The first of the fields that the dict has with a text tells it from the
\* others of its list.
TextOf(dict, field) == {dict.items[k].value.text : k \in {k \in DOMAIN dict.items : /\ dict.items[k].key = field
                                                                                     /\ dict.items[k].value.kind = "text"}}
Label(dict, fields) ==
    LET field == SelectInSeq(fields, LAMBDA f : TextOf(dict, f) # {})
    IN  IF field = 0 THEN {} ELSE TextOf(dict, fields[field])

Fields == [json |-> <<"name", "id", "type">>, yaml |-> <<"name", "id", "type", "key", "title">>, toml |-> <<>>]

\* The search for a key begins on the line its parent was found on; that of
\* a labelled entry of a list, where a key of that name would stand.
RECURSIVE WalkStructure(_, _, _, _, _, _)
WalkItem(lang, entries, item, depth, from) ==
    LET line == KeyLine(entries, item.key, from)
    IN  IF lang = "json" /\ item.key = "$ref" /\ item.value.kind = "text" THEN <<>>
        ELSE <<OnLine(<<item.key>>, depth, line)>>
             \o WalkStructure(lang, entries, item.value, item.key, depth + 1, line)
WalkEntry(lang, entries, list, k, key, depth, from) ==
    IF list.items[k].kind # "dict" THEN <<>>
    ELSE LET label == Label(list.items[k], Fields[lang])
             line == IF label = {} THEN from ELSE KeyLine(entries, CHOOSE t \in label : TRUE, from)
         IN  (IF label = {} THEN <<>> ELSE <<OnLine(<<key, k - 1, CHOOSE t \in label : TRUE>>, depth, line)>>)
             \o WalkStructure(lang, entries, list.items[k], "", depth + 1, line)
WalkStructure(lang, entries, v, key, depth, from) ==
    IF depth > MaxDepth THEN <<>>
    ELSE CASE v.kind = "dict" ->
                FlattenSeq([k \in DOMAIN v.items |-> WalkItem(lang, entries, v.items[k], depth, from)])
           [] v.kind = "list" /\ lang # "toml" ->
                FlattenSeq([k \in DOMAIN v.items |-> WalkEntry(lang, entries, v, k, key, depth, from)])
           [] OTHER -> <<>>
AnnotateTree(lang, v) == WalkStructure(lang, Entries(v), v, "", 1, 1)

\* Of JSON, the references are imports.
RECURSIVE References(_, _)
References(v, depth) ==
    IF depth > MaxDepth THEN {}
    ELSE CASE v.kind = "dict" ->
                UNION {IF e.key = "$ref" /\ e.value.kind = "text" THEN {e.value.text} ELSE References(e.value, depth + 1) :
                          e \in ToSet(v.items)}
           [] v.kind = "list" -> UNION {References(d, depth + 1) : d \in {d \in ToSet(v.items) : d.kind = "dict"}}
           [] OTHER -> {}

\* annotate_xml: an element is [key, label, at, hidden, children]: its tag,
\* and whether it is written with a namespace before it.  `<tag' is searched
\* for below the line of what was found last.
RECURSIVE Elements(_)
Elements(e) == {e} \cup UNION {Elements(e.children[k]) : k \in DOMAIN e.children}
TagLine(elements, tag, from) ==
    Least({e.at : e \in {e \in elements : /\ e.at >= from /\ ~e.hidden
                                        /\ (e.key = tag \/ <<tag, e.key>> \in Inside)}}, from)
RECURSIVE WalkElement(_, _, _, _)
WalkElement(elements, e, depth, from) ==
    IF depth > MaxDepth THEN <<>>
    ELSE FoldLeft(LAMBDA found, child :
                      found \o WalkElement(elements, child, depth + 1, found[Len(found)].first + 1),
                  <<OnLine(<<e.key>> \o e.label, depth, TagLine(elements, e.key, from))>>, e.children)
AnnotateXml(root) == WalkElement(Elements(root), root, 1, 1)

\* annotate_ini: a file is a sequence of sections [name, folded, at, keys].
\* A header is searched for in lower case (`folded'), a key from its
\* section's header on; one that DEFAULT has too is listed there only.  A file
\* in which a section stands twice is not parsed and has no sections.
HeaderLine(file, section) == Least({s.at : s \in {s \in ToSet(file) : s.folded = section.folded}}, 1)
KeysBelow(file, section) ==
    LET header == HeaderLine(file, section)
        all == UNION {ToSet(s.keys) : s \in ToSet(file)}
    IN  [k \in DOMAIN section.keys |->
            OnLine(<<section.keys[k].key>>, 2,
                   Least({d.at : d \in {d \in all : d.key = section.keys[k].key /\ d.at >= header}}, header))]
AnnotateIni(file) ==
    LET defaults == SelectSeq(file, LAMBDA s : s.name = "DEFAULT" /\ s.keys # <<>>)
        named == SelectSeq(file, LAMBDA s : s.name # "DEFAULT")
        Known == UNION {{s.keys[k].key : k \in DOMAIN s.keys} : s \in ToSet(defaults)}
        Own(s) == [s EXCEPT !.keys = SelectSeq(@, LAMBDA d : d.key \notin Known)]
        Shown(s) == <<OnLine(<<s.name>>, 1, HeaderLine(file, s))>> \o KeysBelow(file, s)
    IN  IF Cardinality({s.name : s \in ToSet(named)}) # Len(named) THEN <<>>
        ELSE FlattenSeq([k \in DOMAIN defaults |-> Shown(defaults[k])])
             \o FlattenSeq([k \in DOMAIN named |-> Shown(Own(named[k]))])
-----------------------------------------------------------------------------
(* Formats read line by line.  A line of one with braces is [kind, name,    *)
(* marks, truth]: a "block" is titled and opens one, a "map" is a key whose *)
(* value opens one, a "value" is a key; "close" is a lone brace.            *)

Closes(line) == Len(SelectSeq(line.marks, LAMBDA mark : mark = "}"))
OpensIn(line) == Len(SelectSeq(line.marks, LAMBDA mark : mark = "{"))
Down(depth, n) == IF n > depth THEN 0 ELSE depth - n
Smaller(i, j) == IF i < j THEN i ELSE j

\* What each format makes of a line at a depth: the section's level, if it
\* has one, and the depth below the line.
HclLevel(line, depth) == IF line.kind \in {"block", "map", "value"} THEN Smaller(depth + 1, MaxDepth) ELSE 0
HclBelow(line, depth) ==
    IF line.kind = "comment" THEN depth ELSE Down(depth + (IF line.kind = "block" THEN 1 ELSE 0), Closes(line))
\* A line that opens a block closes none, and only a lone brace does.
ConfLevel(line, depth) ==
    IF line.kind \in {"block", "map", "value"} /\ depth + 1 <= MaxDepth THEN depth + 1 ELSE 0
ConfBelow(line, depth) ==
    CASE line.kind = "block" -> depth + 1
      [] line.kind = "close" -> Down(depth, 1)
      [] OTHER               -> depth
\* Control statements have no title, and no braces are lost.
GradleLevel(line, depth) == IF line.kind \in {"block", "map", "value"} THEN Smaller(depth + 1, MaxDepth) ELSE 0
GradleBelow(line, depth) == IF line.kind = "comment" THEN depth ELSE Down(depth + OpensIn(line), Closes(line))

Level(lang, line, depth) ==
    CASE lang = "hcl"  -> HclLevel(line, depth)
      [] lang = "conf" -> ConfLevel(line, depth)
      [] OTHER         -> GradleLevel(line, depth)
Below(lang, line, depth) ==
    CASE lang = "hcl"  -> HclBelow(line, depth)
      [] lang = "conf" -> ConfBelow(line, depth)
      [] OTHER         -> GradleBelow(line, depth)
AnnotateBlocks(lang, lines) ==
    LET depth[k \in 0..Len(lines)] == IF k = 0 THEN 0 ELSE Below(lang, lines[k], depth[k - 1])
        titled == SelectSeq([k \in DOMAIN lines |-> k], LAMBDA k : Level(lang, lines[k], depth[k - 1]) > 0)
    IN  [k \in DOMAIN titled |-> OnLine(<<lines[titled[k]].name>>, Level(lang, lines[titled[k]], depth[titled[k] - 1]), titled[k])]

\* annotate_env and _parse_properties: every key; annotate_dockerfile: its
\* instructions, the stages above the others.
EachLine(lines, kinds, LevelOf(_)) ==
    LET shown == SelectSeq([k \in DOMAIN lines |-> k], LAMBDA k : lines[k].kind \in kinds)
    IN  [k \in DOMAIN shown |-> OnLine(<<lines[shown[k]].name>>, LevelOf(lines[shown[k]]), shown[k])]
AnnotateEnv(lines) == EachLine(lines, {"value"}, LAMBDA line : 1)
AnnotateProperties(lines) == EachLine(lines, {"value"}, LAMBDA line : 2)
AnnotateDockerfile(lines) ==
    EachLine(lines, {"stage", "instruction"}, LAMBDA line : IF line.kind = "stage" THEN 1 ELSE 2)

\* annotate_text: a line that is underlined, has one to six hashes, a number
\* or four capital words is a heading, in a block of code too; an underline
\* that was used is no heading itself.
Underlines == "=" :> 1 @@ "-" :> 2
IsUnderlined(lines, k) == /\ k < Len(lines) /\ lines[k].kind \notin {"blank", "hashes", "empty"}
                          /\ lines[k + 1].kind = "underline"
HeadingLevel(lines, k) ==
    CASE IsUnderlined(lines, k) -> Underlines[lines[k + 1].name]
      [] ~IsUnderlined(lines, k) /\ lines[k].kind \in {"hashes", "numbered"} -> lines[k].of
      [] ~IsUnderlined(lines, k) /\ lines[k].kind = "capitals" -> 2
      [] OTHER -> 0
Headings(lines) ==
    LET used[k \in 0..Len(lines)] == k > 0 /\ IsUnderlined(lines, k) /\ ~used[k - 1]
    IN  SelectSeq([k \in DOMAIN lines |-> k], LAMBDA k : ~used[k - 1] /\ HeadingLevel(lines, k) > 0)
AnnotateText(lines) ==
    LET heads == Headings(lines)
        Above(k) == {j \in ToSet(heads) : j > k /\ HeadingLevel(lines, j) <= HeadingLevel(lines, k)}
    IN  [k \in DOMAIN heads |-> Section(<<lines[heads[k]].name>>, HeadingLevel(lines, heads[k]), heads[k],
                                        Least(Above(heads[k]), Len(lines) + 1) - 1)]

\* annotate_prisma: a model, an enum or a type is a class, its fields are its
\* methods; the braces of the fields' defaults and comments count.
PrismaDepth(lines, k) ==
    LET depth[j \in k..Len(lines)] ==
            IF j = k THEN 1
            ELSE IF depth[j - 1] = 0 THEN 0 ELSE Down(depth[j - 1] + OpensIn(lines[j]), Closes(lines[j]))
    IN  depth
PrismaEnd(lines, k) == Least({j \in k + 1..Len(lines) : PrismaDepth(lines, k)[j] = 0}, Len(lines))
PrismaItems(lines) ==
    LET next[k \in 0..Len(lines)] ==     \* the first line not yet read
            IF k = 0 THEN 1
            ELSE IF k = next[k - 1] THEN (IF lines[k].kind = "block" THEN PrismaEnd(lines, k) ELSE k) + 1
            ELSE next[k - 1]
        blocks == {k \in DOMAIN lines : lines[k].kind = "block" /\ next[k - 1] = k}
        Members(k) == {j \in k + 1..PrismaEnd(lines, k) : lines[j].kind = "value" /\ PrismaDepth(lines, k)[j] > 0}
    IN  UNION {{Item("class", lines[k].name, "", {lines[k].of}, k, k, PrismaEnd(lines, k))}
               \cup {Item("function", lines[j].name, lines[k].name, {}, j, j, j) : j \in Members(k)} : k \in blocks}
AnnotatePrisma(lines) ==
    LET items == PrismaItems(lines)
    IN  [items |-> items, imports |-> {},
         methods |-> [c \in Classes(items) |-> {m.name : m \in {m \in Functions(items) : m.owner = c.name}}]]
-----------------------------------------------------------------------------
SectionsOf(lang, source) ==
    CASE lang \in {"json", "yaml", "toml"}         -> AnnotateTree(lang, source)
      [] lang = "xml"                              -> AnnotateXml(source)
      [] lang = "ini"                              -> AnnotateIni(source)
      [] lang \in {"hcl", "conf", "gradle"}        -> AnnotateBlocks(lang, source)
      [] lang = "env"                              -> AnnotateEnv(source)
      [] lang = "properties"                       -> AnnotateProperties(source)
      [] lang = "docker"                           -> AnnotateDockerfile(source)
      [] lang = "text"                             -> AnnotateText(source)
AnnotateSections(lang, source) ==
    [sections |-> SectionsOf(lang, source),
     imports |-> IF lang = "json" THEN References(source, 1) ELSE {}]
=============================================================================
