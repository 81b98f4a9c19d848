----------------------------- MODULE MCHsmClient -----------------------------
(***************************************************************************)
(* HsmClient as it is: its constants are numbers, given in the .cfg files. *)
(***************************************************************************)
EXTENDS HsmClient
=============================================================================
