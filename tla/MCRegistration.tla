---------------------------- MODULE MCRegistration ----------------------------
(* Registration for TLC: g3 asks for the address that g1 asks for.         *)
EXTENDS Registration

CONSTANTS g1, g2, g3, g4

MCNameOf == [g \in Registration |-> IF g \in {g1, g3} THEN "ann"
                                   ELSE IF g = g2 THEN "bob" ELSE "cyd"]
===============================================================================
