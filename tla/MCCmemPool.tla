------------------------------- MODULE MCCmemPool -------------------------------
(* Bounds for model checking CmemPool.  A page is two units; sizes and ends are  *)
(* also odd, so that PAGE_ALIGN rounds.                                          *)
EXTENDS CmemPool, TLC

CONSTANTS f1, f2

MCFiles == {f1, f2}
MCAddrs == {2, 4, 6, 8, 10}
MCSymmetry == Permutations(MCFiles)

Buf(n, s) == [num |-> n, size |-> s]
Range4 == [start |-> 1, end |-> 9]
Range2 == [start |-> 2, end |-> 6]
Range1 == [start |-> 10, end |-> 12]

\* A block with two pools, the larger first, and a heap; two blocks, one all
\* heap; no memory, with and without pools; pools for a block that is not there.
MCParams ==
    {[mem |-> 0 :> Range4, pools |-> 0 :> <<Buf(1, 3), Buf(1, 1)>> @@ 1 :> <<>>],
     [mem |-> 0 :> Range2 @@ 1 :> Range1, pools |-> 0 :> <<Buf(2, 1)>> @@ 1 :> <<>>],
     [mem |-> <<>>, pools |-> 0 :> <<>> @@ 1 :> <<>>],
     [mem |-> <<>>, pools |-> 0 :> <<Buf(1, 1)>> @@ 1 :> <<>>],
     [mem |-> 0 :> Range1, pools |-> 0 :> <<>> @@ 1 :> <<Buf(1, 1)>>]}

\* Not used by the run: as many pools as there may be, a heap, and a second block.
MCParamsFull ==
    {[mem |-> 0 :> Range4 @@ 1 :> Range1,
      pools |-> 0 :> <<Buf(1, 3), Buf(1, 1)>> @@ 1 :> <<Buf(1, 1)>>]}
===============================================================================
