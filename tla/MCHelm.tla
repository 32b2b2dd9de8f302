------------------------------- MODULE MCHelm -------------------------------
(***************************************************************************)
(* Instances of Helm for TLC.                                              *)
(***************************************************************************)
EXTENDS Helm
CONSTANTS primary, standby

(* late only remembers: no guard reads it, and no property of the safety   *)
(* run but the type invariant.                                             *)
AllButLate == <<statusVars, out, beatVars, told, pc, mailVars,
                running, cycled, posted>>
=============================================================================
