---------------------------- MODULE MCTreeMemory ----------------------------
(* Small instances of TreeMemory for TLC.                                  *)
EXTENDS TreeMemory

CONSTANTS i1, i2, i3, i4, t1, t2

MCIds == {i1, i2, i3, i4}
MCThreads == {t1, t2}
=============================================================================
