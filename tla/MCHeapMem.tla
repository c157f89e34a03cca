------------------------------- MODULE MCHeapMem -------------------------------
(* Bounds for model checking HeapMem. *)
EXTENDS HeapMem

MCSizes     == {1, 2, 3}
MCAligns    == {1, 4}

\* Not used by the runs: zero bytes, for the disagreement in the README.
MCSizesZero == {0, 2}
MCAlign1    == {1}
===============================================================================
