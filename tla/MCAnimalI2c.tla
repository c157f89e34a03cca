------------------------------ MODULE MCAnimalI2c ------------------------------
(* Bounds for model checking AnimalI2c. *)
EXTENDS AnimalI2c, TLC

CONSTANTS t1, t2, h1, h2

MCThreads == {t1, t2}
MCHandles == {h1, h2}
MCOwnHandle == t1 :> h1 @@ t2 :> h2
MCPins == {4, 5}
MCPinsAndInvalid == {4, 5, 9}

\* Not used by the runs: instances that show the disagreements in the README.
MCSameHandle == [t \in MCThreads |-> h1]
MCPinsAndNone == {-1, 4, 5}
===============================================================================
