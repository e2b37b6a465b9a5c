-------------------------------- MODULE Braces --------------------------------
(* brace_matcher.py: where the brace opened at or after a line is closed,   *)
(* with the comments, strings and character literals of C, C#, Rust and Go  *)
(* skipped as each language has them.                                       *)
(*                                                                          *)
(* A source is a sequence of lines and a line one of characters.  A scanner *)
(* goes from lexeme to lexeme: a comment or a literal is one, and so is any *)
(* character outside them.  A position is <<line, column>>.                 *)
EXTENDS Integers, Sequences, FiniteSets

Quote == "\""
LeftBrace == "{"
RightBrace == "}"
Backtick == "backtick"

End(lines) == <<Len(lines) + 1, 1>>
NextLine(p) == <<p[1] + 1, 1>>
On(p, n) == <<p[1], p[2] + n>>
AtLineEnd(lines, p) == p[2] > Len(lines[p[1]])
NotAfter(p, q) == p[1] < q[1] \/ (p[1] = q[1] /\ p[2] <= q[2])
\* The places of the lines: those of their characters, and their ends.
PlacesOf(lines) == UNION {{l} \X (1..Len(lines[l]) + 1) : l \in DOMAIN lines}

\* The line of p goes on with the text.
Sees(lines, p, text) ==
    LET line == lines[p[1]]
    IN  \A k \in DOMAIN text : p[2] + k - 1 <= Len(line) /\ line[p[2] + k - 1] = text[k]

\* Where the first `text' at or after p begins, on its line (str.find), or 0.
Find(lines, p, text) ==
    LET found == {k \in p[2]..Len(lines[p[1]]) : Sees(lines, <<p[1], k>>, text)}
    IN  IF found = {} THEN 0 ELSE CHOOSE k \in found : \A j \in found : k <= j

\* After the first `text' at or after p, on whatever line.
Past(lines, p, text) ==
    LET found == {q \in PlacesOf(lines) : NotAfter(p, q) /\ Sees(lines, q, text)}
    IN  IF found = {} THEN End(lines)
        ELSE On(CHOOSE q \in found : \A r \in found : NotAfter(q, r), Len(text))

\* What a state becomes in n steps.
Repeat(step, state, n) ==
    LET after[k \in 0..n] == IF k = 0 THEN state ELSE step[after[k - 1]]
    IN  after[n]
\* More steps than there are places to go to.
Enough(lines) ==
    LET longest == CHOOSE n \in {0} \cup {Len(lines[l]) : l \in DOMAIN lines} :
                      \A l \in DOMAIN lines : Len(lines[l]) <= n
    IN  Len(lines) * (longest + 1)

\* Where a literal or comment ends that is entered at p: each step moves on in
\* it, and closes it by taking its depth to 0.
Reader == [at : Nat \X Nat, depth : Nat]
Leave(lines, p, step) == Repeat(step, [at |-> p, depth |-> 1], Enough(lines)).at

\* Mutant: an escaped quote closes the string.
PastQuoteMutant(lines, p) ==
    LET k == Find(lines, p, <<Quote>>) IN IF k = 0 THEN <<p[1], Len(lines[p[1]]) + 1>> ELSE <<p[1], k + 1>>

\* After the closing quote of a string whose inside begins at p; the end of the
\* line if it is not closed there.
PastQuote(lines, p) ==
    Leave(lines, p, [s \in Reader |->
        IF s.depth = 0 \/ AtLineEnd(lines, s.at) THEN s
        ELSE IF Sees(lines, s.at, <<"\\">>) THEN [at |-> On(s.at, 2), depth |-> s.depth]
        ELSE IF Sees(lines, s.at, <<Quote>>) THEN [at |-> On(s.at, 1), depth |-> 0]
        ELSE [at |-> On(s.at, 1), depth |-> s.depth]])

-----------------------------------------------------------------------------
(* C.                                                                       *)

\* A character after the quote is skipped, or two if the first escapes; the
\* closing quote, if it is there.
PastCharC(lines, p) ==
    LET q == IF Sees(lines, On(p, 1), <<"\\">>) THEN On(p, 3)
             ELSE IF AtLineEnd(lines, On(p, 1)) THEN On(p, 1) ELSE On(p, 2)
    IN  IF Sees(lines, q, <<"'">>) THEN On(q, 1) ELSE q

LexemeC(lines, p) ==
    CASE Sees(lines, p, <<"/", "/">>) -> NextLine(p)
      [] Sees(lines, p, <<"/", "*">>) -> Past(lines, On(p, 2), <<"*", "/">>)
      [] Sees(lines, p, <<Quote>>)     -> PastQuote(lines, On(p, 1))
      [] Sees(lines, p, <<"'">>)      -> PastCharC(lines, p)
      [] OTHER                        -> On(p, 1)

-----------------------------------------------------------------------------
(* C#.                                                                      *)

\* @"...": quotes are doubled inside, and it may span lines.
PastVerbatim(lines, p) ==
    Leave(lines, p, [s \in Reader |->
        IF s.depth = 0 \/ s.at[1] > Len(lines) THEN s
        ELSE IF AtLineEnd(lines, s.at) THEN [at |-> NextLine(s.at), depth |-> s.depth]
        ELSE IF Sees(lines, s.at, <<Quote, Quote>>) THEN [at |-> On(s.at, 2), depth |-> s.depth]
        ELSE IF Sees(lines, s.at, <<Quote>>) THEN [at |-> On(s.at, 1), depth |-> 0]
        ELSE [at |-> On(s.at, 1), depth |-> s.depth]])

\* A string with a prefix of @ or $ or both; p itself if there is none.
PastPrefixed(lines, p) ==
    CASE Sees(lines, p, <<"$", "@", Quote>>) -> PastVerbatim(lines, On(p, 3))
      [] Sees(lines, p, <<"@", "$", Quote>>) -> PastVerbatim(lines, On(p, 3))
      [] Sees(lines, p, <<"@", Quote>>)      -> PastVerbatim(lines, On(p, 2))
      [] Sees(lines, p, <<"$", Quote>>)      -> PastQuote(lines, On(p, 2))
      [] OTHER                              -> p

\* A character literal whose escape is short; p itself if it is none.
PastCharSharp(lines, p) ==
    IF Sees(lines, On(p, 1), <<"\\">>)
    THEN LET k == Find(lines, On(p, 2), <<"'">>)
         IN  IF k # 0 /\ k <= p[2] + 4 /\ ~AtLineEnd(lines, On(p, 2)) THEN <<p[1], k + 1>> ELSE p
    ELSE IF Sees(lines, On(p, 2), <<"'">>) THEN On(p, 3) ELSE p

LexemeSharp(lines, p) ==
    CASE Sees(lines, p, <<"/", "/">>)     -> NextLine(p)
      [] Sees(lines, p, <<"/", "*">>)     -> Past(lines, On(p, 2), <<"*", "/">>)
      [] PastPrefixed(lines, p) # p       -> PastPrefixed(lines, p)
      [] Sees(lines, p, <<Quote>>)         -> PastQuote(lines, On(p, 1))
      [] Sees(lines, p, <<"'">>) /\ PastCharSharp(lines, p) # p -> PastCharSharp(lines, p)
      [] OTHER                            -> On(p, 1)

-----------------------------------------------------------------------------
(* Rust.                                                                    *)

\* Block comments nest.
PastNested(lines, p) ==
    Leave(lines, p, [s \in Reader |->
        IF s.depth = 0 \/ s.at[1] > Len(lines) THEN s
        ELSE IF AtLineEnd(lines, s.at) THEN [at |-> NextLine(s.at), depth |-> s.depth]
        ELSE IF Sees(lines, s.at, <<"/", "*">>) THEN [at |-> On(s.at, 2), depth |-> s.depth + 1]
        ELSE IF Sees(lines, s.at, <<"*", "/">>) THEN [at |-> On(s.at, 2), depth |-> s.depth - 1]
        ELSE [at |-> On(s.at, 1), depth |-> s.depth]])

\* r#"..."#, with any number of #; p itself if it is none.
PastRaw(lines, p) ==
    LET line == lines[p[1]]
        q == CHOOSE k \in p[2] + 1..Len(line) + 1 :
                /\ \A j \in p[2] + 1..k - 1 : line[j] = "#"
                /\ k > Len(line) \/ line[k] # "#"
        hashes == q - (p[2] + 1)
    IN  IF ~Sees(lines, <<p[1], q>>, <<Quote>>) THEN p
        ELSE Past(lines, <<p[1], q + 1>>, <<Quote>> \o [k \in 1..hashes |-> "#"])

\* A character literal, or only the quote that begins a lifetime.
PastCharRust(lines, p) ==
    IF Sees(lines, On(p, 1), <<"\\">>)
    THEN LET k == Find(lines, On(p, 2), <<"'">>)
         IN  IF k # 0 /\ k <= p[2] + 4 THEN <<p[1], k + 1>> ELSE On(p, 1)
    ELSE IF Sees(lines, On(p, 2), <<"'">>) THEN On(p, 3) ELSE On(p, 1)

LexemeRust(lines, p) ==
    CASE Sees(lines, p, <<"/", "*">>)     -> PastNested(lines, On(p, 2))
      [] Sees(lines, p, <<"/", "/">>)     -> NextLine(p)
      [] (Sees(lines, p, <<"r", Quote>>) \/ Sees(lines, p, <<"r", "#">>))
           /\ PastRaw(lines, p) # p       -> PastRaw(lines, p)
      [] Sees(lines, p, <<Quote>>)         -> PastQuote(lines, On(p, 1))
      [] Sees(lines, p, <<"'">>)          -> PastCharRust(lines, p)
      [] OTHER                            -> On(p, 1)

-----------------------------------------------------------------------------
(* Go.                                                                      *)

\* 'x' or '\...'; only the quote if it is not closed.
PastRune(lines, p) ==
    IF Sees(lines, On(p, 1), <<"\\">>)
    THEN LET k == Find(lines, On(p, 3), <<"'">>) IN IF k # 0 THEN <<p[1], k + 1>> ELSE On(p, 1)
    ELSE IF Sees(lines, On(p, 2), <<"'">>) THEN On(p, 3) ELSE On(p, 1)

LexemeGo(lines, p) ==
    CASE Sees(lines, p, <<"/", "*">>)     -> Past(lines, On(p, 2), <<"*", "/">>)
      [] Sees(lines, p, <<"/", "/">>)     -> NextLine(p)
      [] Sees(lines, p, <<Quote>>)         -> PastQuote(lines, On(p, 1))
      [] Sees(lines, p, <<Backtick>>)     -> Past(lines, On(p, 1), <<Backtick>>)
      [] Sees(lines, p, <<"'">>)          -> PastRune(lines, p)
      [] OTHER                            -> On(p, 1)

-----------------------------------------------------------------------------
Lexeme(lang, lines, p) ==
    CASE lang = "c"      -> LexemeC(lines, p)
      [] lang = "csharp" -> LexemeSharp(lines, p)
      [] lang = "rust"   -> LexemeRust(lines, p)
      [] lang = "go"     -> LexemeGo(lines, p)

\* From lexeme to lexeme, counting braces until what the first one opened is
\* closed, on line `closed'.
Scanner == [at : Nat \X Nat, depth : Int, found : BOOLEAN, closed : Nat]
Scan(lang, lines) ==
    LET To(p, depth, found) == [at |-> p, depth |-> depth, found |-> found, closed |-> 0]
    IN  [s \in Scanner |->
            IF s.closed # 0 \/ s.at[1] > Len(lines) THEN s
            ELSE IF AtLineEnd(lines, s.at) THEN To(NextLine(s.at), s.depth, s.found)
            ELSE IF Sees(lines, s.at, <<LeftBrace>>) THEN To(On(s.at, 1), s.depth + 1, TRUE)
            ELSE IF Sees(lines, s.at, <<RightBrace>>)
                 THEN IF s.found /\ s.depth = 1 THEN [at |-> s.at, depth |-> 0, found |-> TRUE, closed |-> s.at[1]]
                      ELSE To(On(s.at, 1), s.depth - 1, s.found)
            ELSE To(Lexeme(lang, lines, s.at), s.depth, s.found)]

FindBraceEnd(lang, lines, start) ==
    LET begun == [at |-> <<start, 1>>, depth |-> 0, found |-> FALSE, closed |-> 0]
        ended == Repeat(Scan(lang, lines), begun, Enough(lines))
    IN  IF ended.closed # 0 THEN ended.closed ELSE Len(lines)

-----------------------------------------------------------------------------
(* What a text says by itself, for the properties.  It is cut into pieces   *)
(* [first, after, depth], each up to where the next begins: a brace, which  *)
(* changes the depth, or one character, line end, comment or literal, as    *)
(* its language has them.                                                   *)

Before(p, q) == NotAfter(p, q) /\ p # q
\* The places from p up to q.
PlacesUpTo(lines, p, q) == {r \in PlacesOf(lines) : NotAfter(p, r) /\ Before(r, q)}

\* What begins at p ends, at q, with the first `word'.
EndsWith(lines, p, word, q) ==
    \E r \in PlacesOf(lines) :
        /\ NotAfter(p, r) /\ q = On(r, Len(word))
        /\ Sees(lines, r, word)
        /\ \A k \in PlacesUpTo(lines, p, r) : ~Sees(lines, k, word)

\* The line ends with a backslash: C joins the next one to it.
Continued(lines, l) == Len(lines[l]) > 0 /\ lines[l][Len(lines[l])] = "\\"
LineComment(lines, p, q) == Sees(lines, p, <<"/", "/">>) /\ q = NextLine(p)
BlockComment(lines, p, q) ==
    Sees(lines, p, <<"/", "*">>) /\ EndsWith(lines, On(p, 2), <<"*", "/">>, q)
\* Every comment opened in a comment is closed in it; r closes this one.
NestedComment(lines, p, q) ==
    /\ Sees(lines, p, <<"/", "*">>)
    /\ \E r \in PlacesOf(lines) :
         /\ NotAfter(On(p, 2), r) /\ q = On(r, 2)
         /\ LET inside == PlacesUpTo(lines, On(p, 2), On(r, 1))
            IN  \E opening \in SUBSET {k \in inside : Sees(lines, k, <<"/", "*">>)},
                   closing \in SUBSET {k \in inside : Sees(lines, k, <<"*", "/">>)} :
                  LET marks == opening \cup closing
                      Depth(k) == 1 + Cardinality({m \in opening : Before(m, k)})
                                    - Cardinality({m \in closing : Before(m, k)})
                  IN  /\ \A k \in marks : On(k, 1) \notin marks
                      /\ \A k \in inside : Sees(lines, k, <<"/", "*">>) \/ Sees(lines, k, <<"*", "/">>)
                                           => k \in marks \/ \E m \in marks : k = On(m, 1)
                      /\ \A k \in inside : Depth(k) > 0
                      /\ r \in closing /\ Depth(q) = 0

\* The inside of a string from p and its closing quote, r.
StringUpTo(lines, p, r) ==
    /\ NotAfter(p, r) /\ Sees(lines, r, <<Quote>>)
    /\ \E escapes \in SUBSET {k \in PlacesUpTo(lines, p, r) : Sees(lines, k, <<"\\">>)} :
          /\ \A k \in escapes : On(k, 1) \notin escapes \cup {r}
          /\ \A k \in PlacesUpTo(lines, p, r) : Sees(lines, k, <<Quote>>) \/ Sees(lines, k, <<"\\">>)
                                          => k \in escapes \/ \E m \in escapes : k = On(m, 1)
Quoted(lines, p, q) ==
    \E r \in PlacesOf(lines) : r[1] = p[1] /\ StringUpTo(lines, p, r) /\ q = On(r, 1)
Verbatim(lines, p, q) ==
    \E r \in PlacesOf(lines) :
        /\ NotAfter(p, r) /\ q = On(r, 1)
        /\ Sees(lines, r, <<Quote>>) /\ ~Sees(lines, q, <<Quote>>)
        /\ \E doubled \in SUBSET {k \in PlacesUpTo(lines, p, r) : Sees(lines, k, <<Quote, Quote>>)} :
              /\ \A k \in doubled : On(k, 1) \notin doubled \cup {r}
              /\ \A k \in PlacesUpTo(lines, p, r) : Sees(lines, k, <<Quote>>)
                                              => k \in doubled \/ \E m \in doubled : k = On(m, 1)
Hashes(n) == [k \in 1..n |-> "#"]
RawString(lines, p, q) ==
    \E n \in 0..Len(lines[p[1]]) :
        /\ Sees(lines, p, <<"r">>) /\ Sees(lines, On(p, 1), Hashes(n) \o <<Quote>>)
        /\ EndsWith(lines, On(p, n + 2), <<Quote>> \o Hashes(n), q)
RawGoString(lines, p, q) == Sees(lines, p, <<Backtick>>) /\ EndsWith(lines, On(p, 1), <<Backtick>>, q)

CharLiteral(lines, p, q) ==
    /\ Sees(lines, p, <<"'">>) /\ ~Sees(lines, On(p, 1), <<"\\">>) /\ Sees(lines, On(p, 2), <<"'">>)
    /\ q = On(p, 3)
EscapedChar(lines, p, q) ==
    /\ Sees(lines, p, <<"'", "\\">>)
    /\ EndsWith(lines, On(p, 3), <<"'">>, q) /\ q[1] = p[1]
Lifetime(lines, p, q) ==
    /\ Sees(lines, p, <<"'">>) /\ ~Sees(lines, On(p, 1), <<"\\">>) /\ ~Sees(lines, On(p, 2), <<"'">>)
    /\ q = On(p, 1)

VerbatimPrefixes == {<<"@", Quote>>, <<"$", "@", Quote>>, <<"@", "$", Quote>>}
\* No brace, comment or literal begins at p.
OtherCharacter(lang, lines, p) ==
    /\ \A word \in {<<LeftBrace>>, <<RightBrace>>, <<"/", "/">>, <<"/", "*">>, <<Quote>>, <<"'">>} :
          ~Sees(lines, p, word)
    /\ lang = "csharp" => \A word \in VerbatimPrefixes \cup {<<"$", Quote>>} : ~Sees(lines, p, word)
    /\ lang = "rust" => \A n \in 0..Len(lines[p[1]]) :
                            ~(Sees(lines, p, <<"r">>) /\ Sees(lines, On(p, 1), Hashes(n) \o <<Quote>>))
    /\ lang = "go" => ~Sees(lines, p, <<Backtick>>)

\* What begins at p is neither a brace nor goes on over lines in a way the
\* scanners do not know.
NoBrace(lang, lines, p, q) ==
    \/ AtLineEnd(lines, p) /\ q = NextLine(p)
    \/ ~AtLineEnd(lines, p) /\ OtherCharacter(lang, lines, p) /\ q = On(p, 1)
    \/ LineComment(lines, p, q) /\ (lang = "c" => ~Continued(lines, p[1]))
    \/ IF lang = "rust" THEN NestedComment(lines, p, q) ELSE BlockComment(lines, p, q)
    \/ /\ Sees(lines, p, <<Quote>>) /\ Quoted(lines, On(p, 1), q)
       /\ lang = "csharp" => ~Sees(lines, p, <<Quote, Quote, Quote>>)
    \/ CharLiteral(lines, p, q) \/ EscapedChar(lines, p, q)
    \/ lang = "csharp" /\ Sees(lines, p, <<"$", Quote>>) /\ Quoted(lines, On(p, 2), q)
    \/ lang = "csharp" /\ \E word \in VerbatimPrefixes :
          Sees(lines, p, word) /\ Verbatim(lines, On(p, Len(word)), q)
    \/ lang = "rust" /\ (RawString(lines, p, q) \/ Lifetime(lines, p, q))
    \/ lang = "go" /\ RawGoString(lines, p, q)

\* What the scanners do not know: a string of Rust over several lines; in C one,
\* or a // comment, that a backslash continues; a raw string of C#.
LongString(lang, lines, p, q) ==
    /\ Sees(lines, p, <<Quote>>)
    /\ \E r \in PlacesOf(lines) :
          /\ p[1] < r[1] /\ StringUpTo(lines, On(p, 1), r) /\ q = On(r, 1)
          /\ lang = "c" => \A l \in p[1]..r[1] - 1 : Continued(lines, l)
LongComment(lines, p, q) ==
    /\ Sees(lines, p, <<"/", "/">>)
    /\ \E last \in p[1] + 1..Len(lines) :
          /\ q = <<last + 1, 1>> /\ ~Continued(lines, last)
          /\ \A l \in p[1]..last - 1 : Continued(lines, l)
RawSharp(lines, p, q) ==
    \E n \in 3..Len(lines[p[1]]) :
        LET quotes == [k \in 1..n |-> Quote]
        IN  /\ Sees(lines, p, quotes) /\ ~Sees(lines, On(p, n), <<Quote>>)
            /\ EndsWith(lines, On(p, n), quotes, q)
OverLines(lang, lines, p, q) ==
    \/ lang \in {"rust", "c"} /\ LongString(lang, lines, p, q)
    \/ lang = "c" /\ LongComment(lines, p, q)
    \/ lang = "csharp" /\ RawSharp(lines, p, q)

\* A text from the line of a declaration on: no brace is closed before one is
\* opened.
BraceText(t) ==
    /\ t.lang \in {"c", "csharp", "rust", "go"}
    /\ t.lines \in Seq(Seq(STRING)) /\ t.start \in DOMAIN t.lines
    /\ t.pieces \in Seq([first : Nat \X Nat, after : Nat \X Nat, depth : {0 - 1, 0, 1}]) /\ t.pieces # <<>>
    /\ \A k \in DOMAIN t.pieces :
          LET p == t.pieces[k].first
              q == t.pieces[k].after
          IN  /\ p = (IF k = 1 THEN <<t.start, 1>> ELSE t.pieces[k - 1].after)
              /\ p \in PlacesOf(t.lines) /\ Before(p, q)
              /\ t.pieces[k].depth = 0 => NoBrace(t.lang, t.lines, p, q) \/ OverLines(t.lang, t.lines, p, q)
              /\ t.pieces[k].depth = 1 => Sees(t.lines, p, <<LeftBrace>>) /\ q = On(p, 1)
              /\ t.pieces[k].depth = 0 - 1 => /\ Sees(t.lines, p, <<RightBrace>>) /\ q = On(p, 1)
                                              /\ \E j \in 1..k - 1 : t.pieces[j].depth = 1
    /\ t.pieces[Len(t.pieces)].after = End(t.lines)

\* The line of the piece that closes what the first brace opened; the last
\* line if there is none.
OpenAfter(pieces, k) ==
    Cardinality({j \in 1..k : pieces[j].depth = 1}) - Cardinality({j \in 1..k : pieces[j].depth = 0 - 1})
ClosingLine(t) ==
    LET closing == {k \in DOMAIN t.pieces : t.pieces[k].depth = 0 - 1 /\ OpenAfter(t.pieces, k) = 0}
    IN  IF closing = {} THEN Len(t.lines)
        ELSE t.pieces[CHOOSE k \in closing : \A j \in closing : k <= j].first[1]

\* An escape the code does not read as far as it goes: of more than one
\* character in C, of more than two or of a quote in C# and Rust.
MisreadEscape(t, piece) ==
    /\ EscapedChar(t.lines, piece.first, piece.after)
    /\ \/ t.lang = "c" /\ piece.after # On(piece.first, 4)
       \/ t.lang \in {"csharp", "rust"}
            /\ (piece.after[2] > piece.first[2] + 5 \/ Sees(t.lines, On(piece.first, 2), <<"'">>))
\* A piece the code does not read as the language has it.
Misread(t, piece) == MisreadEscape(t, piece) \/ OverLines(t.lang, t.lines, piece.first, piece.after)
=============================================================================
