---------------------------- MODULE MCCallQueue ----------------------------
EXTENDS CallQueue

CONSTANTS t1, t2, t3, t4

MCTask == {t1, t2, t3, t4}

(* 0 and -1 are clamped; 3 admits all but one task at once.               *)
MCRequested == {-1, 1, 2, 3}

=============================================================================
