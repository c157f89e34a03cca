----------------------------- MODULE MCBifrostDma -----------------------------
(* Bounds for model checking BifrostDma. *)
EXTENDS BifrostDma, TLC

CONSTANTS t1, t2, t3, r1, r2, r3, r4

MCThreads2 == {t1, t2}
MCThreads3 == {t1, t2, t3}
MCReqs3    == {r1, r2, r3}
MCReqs4    == {r1, r2, r3, r4}
MCNone     == {}
MCBusy     == {1}
MCSymmetry == Permutations(MCThreads3) \union Permutations(MCReqs4)
===============================================================================
