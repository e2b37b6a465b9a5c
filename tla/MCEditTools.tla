----------------------------- MODULE MCEditTools -----------------------------
(* A file with two functions, one that imports them, and an editor that     *)
(* puts a function in front or takes one away.                              *)
EXTENDS EditTools
CONSTANTS a, b, f, g, x, y

MCTexts == {<<Definition(a, x), Definition(b, x)>>,
            <<Definition(b, x), Definition(a, x)>>,
            <<Import(f, a, "plain"), Import(f, b, "whole"), Import(f, a, "other")>>}
=============================================================================
