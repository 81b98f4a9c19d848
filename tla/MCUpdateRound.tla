---------------------------- MODULE MCUpdateRound ----------------------------
(***************************************************************************)
(* Small instances of UpdateRound.                                         *)
(***************************************************************************)
EXTENDS UpdateRound
CONSTANTS c1, c2
OneClient == {c1}
TwoClients == {c1, c2}
=============================================================================
