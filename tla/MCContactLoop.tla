--------------------------- MODULE MCContactLoop ---------------------------
(***************************************************************************)
(* An instance of ContactLoop for TLC.                                     *)
(***************************************************************************)
EXTENDS ContactLoop
CONSTANTS henry, avd, trail
=============================================================================
