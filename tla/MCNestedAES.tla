----------------------------- MODULE MCNestedAES -----------------------------
(***************************************************************************)
(* A record, two workers whose tokens may be stale, and two messages.      *)
(***************************************************************************)
EXTENDS NestedAES
CONSTANTS m1, m2, w1, w2, r1
MCMessages == {m1, m2}
MCWorkers == {w1, w2}
MCRoots == {r1}
MCGens == 1..MaxGens
=============================================================================
