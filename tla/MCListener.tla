------------------------------ MODULE MCListener ------------------------------
(* A readable message and one that no listener can read; and the same contents
   on two hosts, one of the files announced twice. *)
EXTENDS Listener, TLC

CONSTANTS s1, s2, p1, hostA, hostB, c1, m1, m2, m3

File(h) == [path |-> p1, host |-> h, hash |-> c1]

TwoFiles == {File(hostA), File(hostB)}

Letters  == m1 :> File(hostA) @@ m2 :> Garbled
Repeated == m1 :> File(hostA) @@ m2 :> File(hostB) @@ m3 :> File(hostA)
=============================================================================
