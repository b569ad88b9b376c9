------------------------------- MODULE MCLog -------------------------------
(* Small instances of Log. *)
EXTENDS Log, TLC

CONSTANTS b1, b2, b3, b4, b5, b6, p1, p2, p3, v1, v2, none

Blocks3 == {b1, b2, b3}
Blocks4 == {b1, b2, b3, b4}
Blocks6 == {b1, b2, b3, b4, b5, b6}
Callers2 == {p1, p2}
Callers3 == {p1, p2, p3}
Vals1 == {v1}
Vals2 == {v1, v2}

CrashSymmetry == Permutations(Callers2) \cup Permutations(Block \ {b1}) \cup Permutations(Vals2)
SpaceSymmetry == Permutations(Callers3) \cup Permutations(Block \ {b1})
=============================================================================
