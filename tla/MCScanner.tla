------------------------------- MODULE MCScanner -------------------------------
EXTENDS Scanner

CONSTANTS w1, w2, c1, c2

E(k, d, n, i, m) ==
  [kind |-> k, depth |-> d, name |-> n, ignored |-> i, matched |-> m]
Plain(k, d) == E(k, d, "plain", FALSE, FALSE)

(* ./  ./a  ./b *)
SmallTree == <<E("dir", 0, "dot", FALSE, FALSE), Plain("file", 1), Plain("file", 1)>>

(* ./  .git/  .git/socket  dir/  dir/matched  dir/a  b *)
MixedTree ==
  <<E("dir", 0, "dot", FALSE, FALSE),
    E("dir", 1, "hidden", FALSE, FALSE), Plain("other", 2),
    Plain("dir", 1), E("file", 2, "plain", FALSE, TRUE), Plain("file", 2),
    Plain("file", 1)>>

FilesOf(tree) == {i \in DOMAIN tree : tree[i].kind = "file"}
SmallFiles == FilesOf(SmallTree)
MixedFiles == FilesOf(MixedTree)
=============================================================================
