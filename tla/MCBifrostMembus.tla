---------------------------- MODULE MCBifrostMembus ----------------------------
(* Bounds for model checking BifrostMembus: an SDRAM of eight bytes. *)
EXTENDS BifrostMembus, TLC

CONSTANTS c1, c2, b1

MCCpus == {c1, c2}
MCSymmetry == Permutations(MCCpus)
MCBits == {b1}
MCPciBars == {0, 2}
MCPlatforms == {"evander", "membus"}
MCOffsets == {0, 1, 8}
MCXfers == {[dir |-> "DOWN", device |-> 0, size |-> 2],
            [dir |-> "DOWN", device |-> 6, size |-> 2],
            [dir |-> "UP",   device |-> 6, size |-> 2]}

\* Not used by the runs: a transfer of half a word more, for the README.
MCOddXfers == {[dir |-> "UP", device |-> 4, size |-> 3]}
===============================================================================
