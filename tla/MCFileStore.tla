----------------------------- MODULE MCFileStore -----------------------------
(* Two hosts with a file of the same contents, and a second file whose hash
   begins with a zero digit. *)
EXTENDS FileStore, TLC

CONSTANTS s1, s2, p1, p2, hostA, hostB, c1, c2, t1, t2

File(p, h, c) == [path |-> p, host |-> h, hash |-> c]

SharedFiles == {File(p1, hostA, c1), File(p1, hostB, c1), File(p2, hostA, c2)}
Symmetry == Permutations({s1, s2}) \cup Permutations({t1, t2})
=============================================================================
