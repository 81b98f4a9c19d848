--------------------------- MODULE MCSimpleServer ---------------------------
(***************************************************************************)
(* Small instances of SimpleServer.                                        *)
(***************************************************************************)
EXTENDS SimpleServerInv, SimpleServerRefinement

CONSTANTS t1, t2, r1, k1, k2, g1, g2, m1

MCThreads == {t1, t2}
MCRecords == {r1}
MCRoots == {k1, k2}
MCGens == {g1, g2}
MCMessages == {m1}

Upload(r, rho, g) ==
    [cmd |-> "SETALL", rec |-> r, wrap |-> [root |-> rho, gen |-> g],
     header |-> g, data |-> Encrypted(g, m1), root_version |-> rho]
Update(r, rho, old, new) ==
    [cmd |-> "UP_UPDATE", rec |-> r, wrap |-> [root |-> rho, gen |-> new],
     delta |-> ReKeyGen(old, new)]

\* Whole downloads, uploads under either root key, updates between the
\* generations in both directions, and both root keys.
MCRequests ==
    {q \in GetallRequest : Len(q.keys) = 4}
    \cup {Upload(r, rho, g2) : r \in MCRecords, rho \in MCRoots}
    \cup {Update(r, k1, g1, g2) : r \in MCRecords}
    \cup {Update(r, k1, g2, g1) : r \in MCRecords}
    \cup RootkeyRequest
    \cup {q \in GetRequest : q.key = "header"}
=============================================================================
