------------------------------ MODULE MCWorkload ------------------------------
(***************************************************************************)
(* Instances of WorkloadRunning for TLC: one driver or two, two            *)
(* concurrencies.                                                          *)
(***************************************************************************)
EXTENDS WorkloadRunning, TLC

CONSTANTS h1, h2

TwoThreads == <<2, 4>>
OneOrTwo == {{h1}, {h1, h2}}
=============================================================================
