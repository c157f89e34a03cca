----------------------------- MODULE MCBifrostXfer -----------------------------
(* Bounds for model checking BifrostXfer. *)
EXTENDS BifrostXfer, TLC

CONSTANTS t1, t2, r1, r2, b1, b2

MCThreads == {t1, t2}
MCReqs    == {r1, r2}
MCBufs    == {b1, b2}
MCNone    == {}
MCSymmetry == Permutations(MCThreads) \union Permutations(MCReqs)
              \union Permutations(MCBufs)
===============================================================================
