--------------------------- MODULE MCRecorderSched ---------------------------
(* Small instances of RecorderSched for TLC: a leader and a few more threads. *)
EXTENDS RecorderSched, TLC

CONSTANTS t1, t2, t3

Tid2 == {t1, t2}
Tid3 == {t1, t2, t3}

\* The leader is fixed, the tids the kernel hands out later are alike.
Others == Permutations({t2, t3})
=============================================================================
