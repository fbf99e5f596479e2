---------------------------- MODULE MCThreadPool ----------------------------
(***************************************************************************)
(* Small instances of ThreadPool for TLC; the cfg files give the constants.*)
(***************************************************************************)
EXTENDS ThreadPool, TLC

\* -1, which a cfg file cannot write.
NoCollector == -1

Symmetry == Permutations(Callers)
===========================================================================
