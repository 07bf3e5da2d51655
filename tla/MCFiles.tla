------------------------------ MODULE MCFiles -------------------------------
(* Three names; "long" has more than 63 characters and begins like "x".    *)
EXTENDS Files, TLC

CONSTANTS x, y, long

Whole == [n \in Name |-> n]

Shortened == [n \in Name |-> IF n = long THEN x ELSE n]

Rooms == [file |-> 2, pipe |-> 1]

Symmetry == Permutations(Name)
=============================================================================
