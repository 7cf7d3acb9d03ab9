--------------------------- MODULE MCRecorderTrace ---------------------------
(* Small instances of RecorderTrace for TLC. *)
EXTENDS RecorderTrace, TLC

CONSTANTS t1, t2, t3

Tid3 == {t1, t2, t3}

Others == Permutations({t2, t3})
=============================================================================
