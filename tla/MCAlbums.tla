------------------------------- MODULE MCAlbums -------------------------------
(* Albums for TLC: a request of each of two users.                         *)
EXTENDS Albums, Sequences, TLC

CONSTANTS u1, u2, r1, r2

MCUserOf == [r \in Request |-> IF r = r2 THEN u2 ELSE u1]

(* uniqueSlug's Sprintf("%s-%d"): the base itself, then "-2", "-3" ...      *)
MCSuffixed(b, i) == IF i = 1 THEN b ELSE b \o "-" \o ToString(i)

Symmetry == Permutations(Photo) \cup Permutations(Album)
===============================================================================
