------------------------------- MODULE MCPublish -------------------------------
(* Publish for TLC: a JPEG in a directory travel below one that is a year, *)
(* and a RAW file directly under the root.                                 *)
EXTENDS Publish, TLC

CONSTANTS f1, f2, c1, c2, travel, year

MCContentOf == [f \in File |-> IF f = f1 THEN c1 ELSE c2]
MCDirs == [f \in File |-> IF f = f1 THEN {travel, year} ELSE {}]
MCSymmetry == Permutations(Photo)
MCNormal == [n \in {travel, year} |-> n]
===============================================================================
