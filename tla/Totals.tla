-------------------------------- MODULE Totals --------------------------------
(***************************************************************************)
(* Sums of the values of a function, on which the reports of               *)
(* `hashup store` and `hs file-stats` are stated.                          *)
(***************************************************************************)
EXTENDS FiniteSetsExt

(* The sum of f[x] for the x in S. *)
Total(f, S) == MapThenSumSet(LAMBDA x : f[x], S)
=============================================================================
