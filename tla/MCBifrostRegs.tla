----------------------------- MODULE MCBifrostRegs -----------------------------
(* Bounds for model checking BifrostRegs. *)
EXTENDS BifrostRegs

CONSTANTS c1, c2, b1

MCCpus == {c1, c2}
MCBits == {b1}
MCPciBars == {0, 2, 3}
MCRocky == {"rocky"}
MCOffsets == {0, 4, 8}

\* Not used by the runs: the memory bus, for the disagreement in the README.
MCMembus == {"membus"}
===============================================================================
