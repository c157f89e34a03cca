---------------------------- MODULE MCBifrostEvents ----------------------------
(* Bounds for model checking BifrostEvents. *)
EXTENDS BifrostEvents, TLC

CONSTANTS f1, f2, a1, a2, irq1, c1

MCFiles1  == {f1}
MCFiles2  == {f1, f2}
MCAddrs1  == {a1}
MCAddrs2  == {a1, a2}
MCSources == {irq1}
MCNoSources == {}
MCChannels == {c1}

\* Files and addresses are interchangeable.
MCSymmetry == Permutations(MCFiles2) \union Permutations(MCAddrs2)
===============================================================================
