---------------------------- MODULE MCWhiteList ----------------------------
(* Small instances of WhiteList for TLC.                                   *)
EXTENDS WhiteList
============================================================================
