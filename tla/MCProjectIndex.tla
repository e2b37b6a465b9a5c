--------------------------- MODULE MCProjectIndex ---------------------------
(* A project of a few files for TLC: `lib' defines a symbol, `app' texts   *)
(* import it and use it, and may shadow it.                                *)
EXTENDS ProjectIndex

CONSTANTS f1, f2, f3, s, t, m, lib, app, appComment, appEdited, appTagged, junk

MCDefines ==
    [c \in Contents |->
        CASE c = lib -> {s}
          [] c = junk -> {}
          [] OTHER -> {t}]

\* appComment differs from app in a comment, appTagged from appEdited in a call
\* of s that stands behind "#1" on its line.
MCBodyHash ==
    [c \in Contents |->
        [x \in Symbols |-> IF c \in {appEdited, appTagged} THEN "h2" ELSE "h1"]]

MCImports == [c \in Contents |-> IF c \in {lib, junk} THEN {} ELSE {m}]

MCUses ==
    [c \in Contents |-> IF c \in {app, appComment, appTagged} THEN {<<t, s>>} ELSE {}]

MCBlurred == [c \in Contents |-> IF c = appTagged THEN {<<t, s>>} ELSE {}]

\* `import m' finds m.py before m/__init__.py.
MCCandidates == [x \in Modules |-> <<f1, f2>>]
=============================================================================
