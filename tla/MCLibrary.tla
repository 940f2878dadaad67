------------------------------ MODULE MCLibrary ------------------------------
(* Library for TLC: two users, one RAW and one rendered content.           *)
EXTENDS Library

CONSTANTS u1, u2, d1, d2

MCUserOf == [d \in Deletion |-> IF d = d2 THEN u2 ELSE u1]

===============================================================================
