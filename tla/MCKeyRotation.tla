--------------------------- MODULE MCKeyRotation ---------------------------
(***************************************************************************)
(* Small instances of KeyRotation.                                         *)
(***************************************************************************)
EXTENDS KeyRotation

CONSTANTS c1, w1, w2, coord, r1, r2, k1, k2, k3, k4, m1

OneClient == {c1}
TwoWorkers == {w1, w2}
OneWorker == {w1}
OneRecord == {r1}
TwoRecords == {r1, r2}

\* The root keys of the three compiled-in lists: the rounds use k1 and k2, the
\* populate program k1, the clients start with k3; k4 is no key handle.
MCRoots == {k1, k2, k3, k4}
OneRound == <<k1>>
TwoRounds == <<k1, k2>>

MCMessages == {m1}
OneMachineEach == {c1, w1, coord}
TwoWorkerMachines == {c1, w1, w2, coord}

UseFirst == [c \in Clients |-> r1]
\* What the indices sent with START stand for, and what they stand for when
\* both workers are sent the same pair.
Shared == [w \in Workers |-> << r1 >>]
Split == [w \in Workers |-> IF w = w1 THEN << r1 >> ELSE << r2 >>]
=============================================================================
