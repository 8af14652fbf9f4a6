---------------------------- MODULE MCListenerStats ----------------------------
(* Files of two hosts and three extensions, and a message that no listener
   can read. *)
EXTENDS ListenerStats, TLC

CONSTANTS s1, p1, p2, p3, hostA, hostB, c1, m1, m2, m3, m4, go, md, noExtension

File(p, h) == [path |-> p, host |-> h, hash |-> c1]

ThreeFiles == {File(p1, hostA), File(p2, hostB), File(p3, hostA)}

Suffix ==
  File(p1, hostA) :> go @@ File(p2, hostB) :> md @@ File(p3, hostA) :> noExtension

Letters ==
  m1 :> File(p1, hostA) @@ m2 :> File(p2, hostB) @@ m3 :> File(p3, hostA)
    @@ m4 :> Garbled
=============================================================================
