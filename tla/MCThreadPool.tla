---------------------------- MODULE MCThreadPool ----------------------------
(* Small instances of ThreadPool for TLC.                                  *)
EXTENDS ThreadPool

CONSTANTS t1, t2, t3, k1, k2, k3, k4

MCThreads == {t1, t2, t3}
MCTasks == {k1, k2, k3, k4}
=============================================================================
