----------------------------- MODULE MCCommPost -----------------------------
(***************************************************************************)
(* An instance of CommPost for TLC: an application with two active queues, *)
(* a topic of the vehicle and one it shares.                               *)
(***************************************************************************)
EXTENDS CommPost
CONSTANTS app, one, two, nav, pshare
=============================================================================
