---------------------------- MODULE MCCommClient ----------------------------
(***************************************************************************)
(* Instances of CommClient for TLC.                                        *)
(***************************************************************************)
EXTENDS CommClient
CONSTANTS k1, k2
=============================================================================
