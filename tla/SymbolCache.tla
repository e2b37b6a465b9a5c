---------------------------- MODULE SymbolCache -----------------------------
(***************************************************************************)
(* The compact symbol cache (CSC) of server_handlers/code_nav.py: once a   *)
(* session was shown a symbol, get_function_source and get_class_source    *)
(* answer with a stub while the body hash is the same, and with the first  *)
(* lines of a diff when it is not.                                         *)
(*                                                                         *)
(* One project root, one symbol name and one kind of call, so the cache    *)
(* has one key.  Each file may give the name to a function, to a class or  *)
(* to both: a Java class and its explicit constructor share theirs.  The   *)
(* body rendered and the hash compared come from two lookups, which need   *)
(* not find the same definition.  The index changes between calls in any   *)
(* way it likes.                                                           *)
(***************************************************************************)
EXTENDS TLAPS

CONSTANTS
    Files,       \* `file_path' of a call
    Texts,       \* texts of a definition
    Absent,      \* no definition, no entry
    Kind,        \* the tool called: get_function_source or get_class_source
    Indexes,     \* what the files may define under the name
    Ending,      \* Ending[f]: the files whose path is f or ends with it
    Hash,        \* Hash[t]: body_hash, equal for cosmetic variants
    SmallDiffs   \* pairs of texts whose diff is at most five lines

Kinds == {"function", "class"}

ASSUME SymbolCacheAssumption ==
    /\ Kind \in Kinds /\ Absent \notin Texts
    /\ Indexes \subseteq [Files -> [Kinds -> Texts \cup {Absent}]]
    /\ Ending \in [Files -> SUBSET Files] /\ \A f \in Files : f \in Ending[f]
    /\ SmallDiffs \subseteq Texts \X Texts

VARIABLES
    index,         \* the texts each file gives the name in the index
    symbol_cache,  \* _session_symbol_cache, its one key
    reply,         \* the last answer sent to the client
    known,         \* history: views the client could reproduce
    shown          \* history: views it was shown at least a part of

vars == <<index, symbol_cache, reply, known, shown>>

\* What the query functions render: the body, its first lines, or an abstract.
Views == [text : Texts, as : {"body", "lines", "abstract"}]
\* `same' is history: the hash is that of the text rendered, not of another
\* definition with the name.
Entries == [body_hash : {Hash[t] : t \in Texts}, full_source : Views, same : BOOLEAN]
Replies ==
    [kind : {"none"}] \cup [kind : {"full"}, view : Views]
    \cup [kind : {"stub"}, view : Views, same : BOOLEAN]
    \cup [kind : {"diff"}, old : Views, view : Views]

\* The first five lines of the unified diff are all of it.
DiffFits(old, new) == old.as = new.as /\ <<old.text, new.text>> \in SmallDiffs

\* The views a call may render of text t, cut when max_lines is less than its
\* length.  An explicit level is obeyed; without one thompson_sample_level
\* chooses, and a class of more than 300 lines comes as an abstract anyway.
Rendered(t, level, cut) ==
    IF level = "abstract" THEN {[text |-> t, as |-> "abstract"]}
    ELSE {[text |-> t, as |-> IF cut THEN "lines" ELSE "body"]}
         \cup (IF level = "unset" \/ (Kind = "class" /\ ~cut)
               THEN {[text |-> t, as |-> "abstract"]} ELSE {})

\* _lookup_symbol_meta: a file's functions come before its classes, whichever
\* of the two was rendered.
LookedUp(def) == IF def["function"] # Absent THEN def["function"] ELSE def["class"]

\* The texts whose hash the lookup for `file_path' f may find: the first of
\* the files its path may mean that defines the name.
Compared(f) == {LookedUp(index[g]) : g \in Ending[f]} \ {Absent}

-----------------------------------------------------------------------------
Init ==
    /\ index \in Indexes
    /\ symbol_cache = Absent
    /\ reply = [kind |-> "none"]
    /\ known = {} /\ shown = {}

\* The index follows the working tree.
Reindexed ==
    /\ index' \in Indexes /\ index' # index
    /\ UNCHANGED <<symbol_cache, reply, known, shown>>

\* The client receives view v.
ServeFull(v) ==
    /\ reply' = [kind |-> "full", view |-> v]
    /\ known' = known \cup {v}
    /\ shown' = shown \cup {v}

\* _csc_compact_response(modified=False)
ServeStub(v, same) ==
    /\ reply' = [kind |-> "stub", view |-> v, same |-> same]
    /\ UNCHANGED <<known, shown>>

ServeDiffMutant(old, v) ==    \* without the preview
    /\ reply' = [kind |-> "diff", old |-> old, view |-> v]
    /\ UNCHANGED <<known, shown>>
\* _csc_compact_response(modified=True), with the diff from the cached view.
ServeDiff(old, v) ==
    /\ reply' = [kind |-> "diff", old |-> old, view |-> v]
    /\ known' = known \cup (IF old \in known /\ DiffFits(old, v) THEN {v} ELSE {})
    /\ shown' = shown \cup {v}

Remember(t, v) ==
    symbol_cache' = [body_hash |-> Hash[t], full_source |-> v, same |-> t = v.text]

\* _csc_maybe_serve: v was rendered and t is the text the lookup hashed;
\* `level' is the argument of the call, whatever was sampled.
ServeMutant(t, v, level, force) ==    \* a bypassing call also refreshes the hash
    IF level = "abstract" \/ force
    THEN /\ ServeFull(v)
         /\ IF symbol_cache = Absent THEN UNCHANGED symbol_cache
            ELSE symbol_cache' = [symbol_cache EXCEPT !.body_hash = Hash[t]]
    ELSE IF symbol_cache = Absent
    THEN ServeFull(v) /\ Remember(t, v)
    ELSE IF symbol_cache.body_hash = Hash[t]
    THEN ServeStub(v, symbol_cache.same /\ t = v.text) /\ UNCHANGED symbol_cache
    ELSE ServeDiff(symbol_cache.full_source, v) /\ Remember(t, v)
Serve(t, v, level, force) ==
    IF level = "abstract" \/ force
    THEN ServeFull(v) /\ UNCHANGED symbol_cache
    ELSE IF symbol_cache = Absent
    THEN ServeFull(v) /\ Remember(t, v)
    ELSE IF symbol_cache.body_hash = Hash[t]
    THEN ServeStub(v, symbol_cache.same /\ t = v.text) /\ UNCHANGED symbol_cache
    ELSE ServeDiff(symbol_cache.full_source, v) /\ Remember(t, v)

\* get_function_source or get_class_source; an error changes nothing.  The name
\* is one that both lookups know.
GetSource(f) ==
    /\ index[f][Kind] # Absent
    /\ \E level \in {"unset", "body", "abstract"}, force \in BOOLEAN, cut \in BOOLEAN :
       \E v \in Rendered(index[f][Kind], level, cut) :
       \E t \in Compared(f) : Serve(t, v, level, force)
    /\ UNCHANGED index

\* The server is started again; the client is not.
Restart ==
    /\ symbol_cache' = Absent
    /\ UNCHANGED <<index, reply, known, shown>>

Next == Reindexed \/ Restart \/ \E f \in Files : GetSource(f)

Spec == Init /\ [][Next]_vars
-----------------------------------------------------------------------------
(* Properties.                                                             *)

TypeOK ==
    /\ index \in Indexes
    /\ symbol_cache \in Entries \cup {Absent}
    /\ reply \in Replies
    /\ known \subseteq shown /\ shown \subseteq Views

\* A diff always starts from a view the client was shown at least a part of.
\* So does a stub, when both lookups that it compares (the one now and the one
\* of the entry) found the definition that was rendered: it then stands for a
\* text the client was shown, whatever levels, caps and files were asked for
\* and edits made in between.
RepliesReferToShown ==
    /\ reply.kind = "stub" /\ reply.same =>
           \E v \in shown : Hash[v.text] = Hash[reply.view.text]
    /\ reply.kind = "diff" => reply.old \in shown

\* The client holds the cached body, and was just sent a stub for another.
StubForAnother ==
    /\ reply.kind = "stub" /\ symbol_cache # Absent
    /\ LET cached == symbol_cache.full_source
       IN  /\ cached.as = "body" /\ cached \in known
           /\ Hash[cached.text] # Hash[reply.view.text]

\* When both lookups found the definition that was rendered, a stub compared
\* with a body the client could reproduce is right: that body differs at most
\* in comments and layout from what was asked for, whatever calls bypassed the
\* cache in between.  A stub sent after a lookup that went astray may be wrong,
\* although a changed body is to be sent in full (code_nav.py:3).
StubsMatchCachedBody == reply.kind = "stub" /\ reply.same => ~StubForAnother
-----------------------------------------------------------------------------
(* Proofs: what stubs and diffs refer to, for any texts, files and hashes. *)

\* What the cache holds was shown to the client, in part at least, and its
\* hash is the hash of what it holds, unless the lookup went astray.
CachedWasShown ==
    symbol_cache # Absent =>
        /\ symbol_cache.full_source \in shown
        /\ symbol_cache.same =>
               symbol_cache.body_hash = Hash[symbol_cache.full_source.text]

\* A stub was sent because the cached hash is that of the body asked for,
\* unless a lookup went astray.
StubsMatchHash ==
    reply.kind = "stub" /\ reply.same /\ symbol_cache # Absent =>
        symbol_cache.same /\ symbol_cache.body_hash = Hash[reply.view.text]

\* The inductive invariant.
SymbolInv == TypeOK /\ CachedWasShown /\ StubsMatchHash /\ RepliesReferToShown

-----------------------------------------------------------------------------
\* Whatever the level and the cap, what a call renders is a view of the text
\* the index has.
LEMMA RenderedViews ==
    ASSUME NEW t \in Texts, NEW level, NEW cut, NEW v \in Rendered(t, level, cut)
    PROVE  v \in Views /\ v.text = t
  BY DEF Rendered, Views

\* What the lookup hashes is the text of some definition.
LEMMA ComparedTexts ==
    ASSUME SymbolInv, NEW f \in Files, NEW t \in Compared(f)
    PROVE  t \in Texts
  <1>1. PICK g \in Ending[f] : t = LookedUp(index[g])
    BY DEF Compared
  <1>2. g \in Files
    BY SymbolCacheAssumption
  <1>3. index[g] \in [Kinds -> Texts \cup {Absent}]
    BY <1>2, SymbolCacheAssumption DEF SymbolInv, TypeOK
  <1>4. t # Absent
    BY DEF Compared
  <1> QED BY <1>1, <1>3, <1>4 DEF LookedUp, Kinds

\* The client receiving a view keeps the invariant, if the cache stays or takes
\* that view.
LEMMA FullKeeps ==
    ASSUME SymbolInv, UNCHANGED index, NEW v \in Views, ServeFull(v),
           \/ UNCHANGED symbol_cache
           \/ \E t \in Texts : Remember(t, v)
    PROVE  SymbolInv'
  <1>1. reply' = [kind |-> "full", view |-> v] /\ shown' = shown \cup {v}
        /\ known' = known \cup {v}
    BY DEF ServeFull
  <1>2. \/ symbol_cache' = symbol_cache
        \/ /\ symbol_cache' \in Entries /\ symbol_cache'.full_source = v
           /\ symbol_cache'.same => symbol_cache'.body_hash = Hash[v.text]
    <2>1. ASSUME NEW t \in Texts, Remember(t, v)
          PROVE  /\ symbol_cache' \in Entries /\ symbol_cache'.full_source = v
                 /\ symbol_cache'.same => symbol_cache'.body_hash = Hash[v.text]
      <3> DEFINE same == t = v.text
      <3>1. symbol_cache' = [body_hash |-> Hash[t], full_source |-> v, same |-> same]
        BY <2>1 DEF Remember
      <3>2. same \in BOOLEAN /\ (same => t = v.text)
        OBVIOUS
      <3> HIDE DEF same
      <3> QED BY <3>1, <3>2 DEF Entries
    <2> QED BY <2>1
  <1>3. TypeOK'
    BY <1>1, <1>2 DEF SymbolInv, TypeOK, Replies
  <1>4. CachedWasShown'
    BY <1>1, <1>2 DEF SymbolInv, CachedWasShown
  <1>5. StubsMatchHash' /\ RepliesReferToShown'
    BY <1>1 DEF StubsMatchHash, RepliesReferToShown
  <1> QED BY <1>3, <1>4, <1>5 DEF SymbolInv

\* One answer keeps the invariant, whichever way it is given and whichever
\* definition the lookup found.
LEMMA ServeKeeps ==
    ASSUME SymbolInv, UNCHANGED index, NEW t \in Texts, NEW v \in Views, NEW level,
           NEW force \in BOOLEAN, Serve(t, v, level, force)
    PROVE  SymbolInv'
  <1> DEFINE entry == [body_hash |-> Hash[t], full_source |-> v, same |-> t = v.text]
  <1>1. entry \in Entries /\ v.text \in Texts
    BY DEF Entries, Views
  \* In full, for a call that bypasses the cache or finds it empty.
  <1>2. CASE ServeFull(v) /\ (UNCHANGED symbol_cache \/ Remember(t, v))
    BY <1>2, FullKeeps
  \* As a stub.
  <1>3. CASE /\ symbol_cache # Absent /\ symbol_cache.body_hash = Hash[t]
             /\ ServeStub(v, symbol_cache.same /\ t = v.text) /\ UNCHANGED symbol_cache
    <2> DEFINE both == symbol_cache.same /\ t = v.text
    <2>0. symbol_cache \in Entries
      BY <1>3 DEF SymbolInv, TypeOK
    <2>1. /\ reply' = [kind |-> "stub", view |-> v, same |-> both]
          /\ UNCHANGED <<known, shown, symbol_cache>>
      BY <1>3 DEF ServeStub
    <2>2. both \in BOOLEAN /\ (both => symbol_cache.same /\ t = v.text)
      BY <2>0 DEF Entries
    <2> HIDE DEF both
    <2>3. TypeOK'
      BY <2>1, <2>2 DEF SymbolInv, TypeOK, Replies
    <2>4. CachedWasShown' /\ StubsMatchHash'
      BY <2>1, <2>2, <1>3 DEF SymbolInv, CachedWasShown, StubsMatchHash
    <2>5. /\ symbol_cache.full_source \in shown
          /\ both => Hash[symbol_cache.full_source.text] = Hash[v.text]
      BY <1>3, <2>2 DEF SymbolInv, CachedWasShown
    <2>6. RepliesReferToShown'
      BY <2>1, <2>5 DEF RepliesReferToShown
    <2> QED BY <2>3, <2>4, <2>6 DEF SymbolInv
  \* As a diff from the cached view, which is then replaced.
  <1>4. CASE /\ symbol_cache # Absent
             /\ ServeDiff(symbol_cache.full_source, v) /\ Remember(t, v)
    <2> DEFINE old == symbol_cache.full_source
    <2>1. /\ reply' = [kind |-> "diff", old |-> old, view |-> v]
          /\ known' \in {known, known \cup {v}} /\ shown' = shown \cup {v}
          /\ symbol_cache' = entry
      BY <1>4 DEF ServeDiff, Remember
    <2>2. old \in shown /\ old \in Views
      BY <1>4 DEF SymbolInv, CachedWasShown, TypeOK
    <2>3. TypeOK'
      BY <2>1, <2>2, <1>1 DEF SymbolInv, TypeOK, Replies
    <2>4. CachedWasShown' /\ StubsMatchHash' /\ RepliesReferToShown'
      BY <2>1, <2>2 DEF CachedWasShown, StubsMatchHash, RepliesReferToShown
    <2> QED BY <2>3, <2>4 DEF SymbolInv
  <1> QED BY <1>2, <1>3, <1>4 DEF Serve

\* At first nothing is cached, and nothing was said.
LEMMA SymbolInit == Init => SymbolInv
  BY DEF Init, SymbolInv, TypeOK, Replies, CachedWasShown, StubsMatchHash, RepliesReferToShown

\* Every step keeps the invariant: the index may change in any way, since
\* stubs and diffs speak of the texts they were made from.
LEMMA SymbolStep == SymbolInv /\ [Next]_vars => SymbolInv'
  <1> SUFFICES ASSUME SymbolInv, [Next]_vars PROVE SymbolInv'
    OBVIOUS
  <1>1. CASE UNCHANGED vars
    BY <1>1 DEF vars, SymbolInv, TypeOK, CachedWasShown, StubsMatchHash,
                RepliesReferToShown
  <1>2. CASE Reindexed
    BY <1>2 DEF Reindexed, SymbolInv, TypeOK, CachedWasShown, StubsMatchHash,
                RepliesReferToShown
  <1>3. CASE Restart
    BY <1>3 DEF Restart, SymbolInv, TypeOK, CachedWasShown, StubsMatchHash,
                RepliesReferToShown
  <1>4. ASSUME NEW f \in Files, GetSource(f) PROVE SymbolInv'
    <2>1. index[f][Kind] \in Texts
      <3>1. index[f] \in [Kinds -> Texts \cup {Absent}]
        BY SymbolCacheAssumption DEF SymbolInv, TypeOK
      <3> QED BY <3>1, <1>4, SymbolCacheAssumption DEF GetSource
    <2>2. PICK level \in {"unset", "body", "abstract"}, force \in BOOLEAN, cut \in BOOLEAN :
              \E v \in Rendered(index[f][Kind], level, cut) :
                 \E t \in Compared(f) : Serve(t, v, level, force)
      BY <1>4 DEF GetSource
    <2>3. PICK v \in Rendered(index[f][Kind], level, cut), t \in Compared(f) :
                 Serve(t, v, level, force)
      BY <2>2
    <2>4. v \in Views /\ t \in Texts /\ UNCHANGED index
      BY <2>1, <1>4, RenderedViews, ComparedTexts DEF GetSource
    <2> QED BY <2>3, <2>4, ServeKeeps
  <1> QED BY <1>1, <1>2, <1>3, <1>4 DEF Next

-----------------------------------------------------------------------------
\* In every session of any length, a diff starts from a view the client was
\* shown at least a part of, and a stub stands for a text it was shown, as long
\* as the lookups of the hash find the definition that is rendered.
THEOREM RepliesAreGrounded == Spec => []RepliesReferToShown
  <1>1. SymbolInv => RepliesReferToShown
    BY DEF SymbolInv
  <1> QED BY <1>1, SymbolInit, SymbolStep, PTL DEF Spec

\* With lookups that find the definition rendered, a stub never stands for a
\* body whose hash is not that of the cached one.
THEOREM StubsAreRight == Spec => []StubsMatchCachedBody
  <1>1. SymbolInv => StubsMatchCachedBody
    BY DEF SymbolInv, CachedWasShown, StubsMatchHash, StubsMatchCachedBody, StubForAnother
  <1> QED BY <1>1, SymbolInit, SymbolStep, PTL DEF Spec
=============================================================================
