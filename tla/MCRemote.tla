------------------------------ MODULE MCRemote ------------------------------
(***************************************************************************)
(* Instances of RemoteExecution for TLC. A unit of time is long against a  *)
(* delay: the loops have fewer attempts than in the code (3 and 30).       *)
(***************************************************************************)
EXTENDS RemoteExecution

TwoAttempts == <<1, 2>>
ThreeAttempts == <<0, 1, 1>>
=============================================================================
