------------------------------- MODULE MCI2cUsim -------------------------------
(* Bounds for model checking I2cUsim. *)
EXTENDS I2cUsim

CONSTANTS s1, s2, r1, r2

MCSenders == {s1, s2}
MCThreads == {r1, r2}
===============================================================================
