------------------------------- MODULE MCHashUp -------------------------------
(* `hashup scan` of one file, twice. *)
EXTENDS HashUp

CONSTANTS w1, c1, c2, s1

OneFileTree ==
  <<[kind |-> "file", depth |-> 0, name |-> "plain",
     ignored |-> FALSE, matched |-> FALSE]>>
OneFile == {1}
=============================================================================
