---------------------------- MODULE MCLifeCycle ----------------------------
(* Instances of LifeCycle for TLC.                                         *)
EXTENDS LifeCycle
============================================================================
