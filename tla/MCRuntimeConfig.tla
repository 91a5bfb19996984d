--------------------------- MODULE MCRuntimeConfig ---------------------------
(* A small instance of RuntimeConfig: a number and a string of two cells.   *)
EXTENDS RuntimeConfig

CONSTANTS number, string, a, b

TwoFields == {number, string}
CellsOfFields == [f \in TwoFields |-> IF f = number THEN 1 ELSE 2]
TwoValues == {a, b}
AllA == [f \in TwoFields |-> a]
==============================================================================
