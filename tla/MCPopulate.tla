------------------------------ MODULE MCPopulate ------------------------------
(***************************************************************************)
(* Instances of Populate: two records.                                     *)
(***************************************************************************)
EXTENDS Populate

CONSTANTS u, k

MCRecords == <<"aaaaa", "baaaa">>
=============================================================================
