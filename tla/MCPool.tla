-------------------------------- MODULE MCPool --------------------------------
(* Two of the tasks end their worker, and one worker is left. *)
EXTENDS Pool

CONSTANTS t1, t2, t3, t4, w1, w2, w3

TwoCancel == {t1, t2}
=============================================================================
