------------------------------ MODULE MCRetry ------------------------------
(***************************************************************************)
(* Instances of RetryTimed for TLC, in units of ten seconds: the delays of *)
(* Node.run, backoff(delay=10, attempts=3).                                *)
(***************************************************************************)
EXTENDS RetryTimed

NodeDelays == backoff(1, 3)
=============================================================================
