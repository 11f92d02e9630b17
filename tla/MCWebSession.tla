---------------------------- MODULE MCWebSession ----------------------------
(* Instances of WebSession for TLC.  The runs have temporal properties, so   *)
(* no symmetry is used.                                                      *)
EXTENDS WebSession
=============================================================================
