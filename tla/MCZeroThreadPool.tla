-------------------------- MODULE MCZeroThreadPool --------------------------
(* Instances of ZeroThreadPool for TLC. *)
EXTENDS ZeroThreadPool
=============================================================================
