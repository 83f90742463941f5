--------------------------- MODULE MC_LockService ---------------------------
(* Model-checking instance of LockService: the groups are model values.    *)
EXTENDS LockService, TLC

CONSTANTS r1, r2, w1, w2

MCReaders == {r1, r2}
MCWritersTwo == {w1, w2}
MCWritersOne == {w1}
=============================================================================
