--------------------------- MODULE MCSlotManager ----------------------------
(* Small slots for TLC.                                                    *)
EXTENDS SlotManager, TLC
CONSTANTS f1, f2, c1, c2

\* Files are interchangeable (safety runs only).
InterchangeableFiles == Permutations(Files)
=============================================================================
