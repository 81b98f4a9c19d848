---------------------------- MODULE RecordStore -----------------------------
(***************************************************************************)
(* What the database server promises the machines that use it: every       *)
(* command on a record takes effect at one instant.                        *)
(*   - GET returns one value.  It takes no lock, so nothing is promised    *)
(*     about how the values of two GETs go together.                       *)
(*   - GETALL returns fields of one state of the record.                   *)
(*   - SETALL is refused unless its root key was the current one when the  *)
(*     server looked; later it replaces the whole record at once.          *)
(*   - UP_UPDATE takes a snapshot of the record and later either replaces  *)
(*     exactly the record it took, or reports a conflict.                  *)
(*   - ROOTKEY replaces the current root key at once.                      *)
(* The two instants of SETALL and of UP_UPDATE are the server's own: it    *)
(* holds no lock from the one to the other.  SimpleServer implements this  *)
(* specification.                                                          *)
(***************************************************************************)
EXTENDS Ciphertext, Naturals, Sequences

CONSTANTS
    Threads,      \* server threads, one connection at a time each
    Records,      \* ciphertext ids
    Requests,     \* the requests that the threads may receive
    NoRequest,    \* what an idle thread serves
    NoRoot        \* the root key of a server that was never told one

VARIABLES
    store,             \* the records
    current_root_key,
    serving,           \* the request of each thread
    phase,             \* how far each thread is with it
    snap,              \* the state of the record that a thread has taken
    code               \* the result_size of the answer

vars == <<store, current_root_key, serving, phase, snap, code>>

\* Faulty: the payload, or the wrap, is left as it was.
UpdatedHeaderOnly(q, rec) ==
    [rec EXCEPT !.wrap = q.wrap,
                !.header = ReEncryptedHeader(q.delta),
                !.ctxt_version = rec.ctxt_version + 1]
UpdatedKeepsWrap(q, rec) ==
    [rec EXCEPT !.header = ReEncryptedHeader(q.delta),
                !.data = ReEncryptedData(q.delta, rec.data),
                !.ctxt_version = rec.ctxt_version + 1]

\* The state of the record that UP_UPDATE installs over the one it took.
Updated(q, rec) ==
    [rec EXCEPT !.wrap = q.wrap,
                !.header = ReEncryptedHeader(q.delta),
                !.data = ReEncryptedData(q.delta, rec.data),
                !.ctxt_version = rec.ctxt_version + 1]

Uploaded(q, rec) ==
    [wrap |-> q.wrap, header |-> q.header, data |-> q.data,
     root_version |-> q.root_version, ctxt_version |-> rec.ctxt_version + 1]

\* The record that a populate run leaves: populated under root rho, version 0.
Populated(rho, g, m) ==
    [wrap |-> [root |-> rho, gen |-> g], header |-> g,
     data |-> Encrypted(g, m), root_version |-> rho, ctxt_version |-> 0]

\* Nothing taken.
Nothing == [f \in {} |-> f]

\* The fields of a record that a GETALL asks for, and those that UP_UPDATE
\* computes the new ciphertext from.
Asked(q) == {q.keys[n] : n \in DOMAIN q.keys}
Basis == {"ctxt_version", "header", "data"}

Part(rec, fields) == [f \in fields |-> rec[f]]

Init ==
    /\ \E rho \in Roots, g \in Gens, m \in Messages :
          store = [r \in Records |-> Populated(rho, g, m)]
    /\ current_root_key = NoRoot
    /\ serving = [t \in Threads |-> NoRequest]
    /\ phase = [t \in Threads |-> "idle"]
    /\ snap = [t \in Threads |-> Nothing]
    /\ code = [t \in Threads |-> 1]

Receive(t, q) ==
    /\ phase[t] = "idle"
    /\ serving' = [serving EXCEPT ![t] = q]
    /\ phase' = [phase EXCEPT ![t] = "received"]
    /\ UNCHANGED <<store, current_root_key, snap, code>>

Answer(t, c) ==
    /\ phase' = [phase EXCEPT ![t] = "answered"]
    /\ code' = [code EXCEPT ![t] = c]

Read(t) ==
    /\ phase[t] = "received"
    /\ serving[t].cmd = "GET"
    /\ Answer(t, 1)
    /\ UNCHANGED <<store, current_root_key, serving, snap>>

Download(t) ==
    LET q == serving[t]
    IN  /\ phase[t] = "received"
        /\ q.cmd = "GETALL"
        /\ snap' = [snap EXCEPT ![t] = Part(store[q.rec], Asked(q))]
        /\ Answer(t, 1)
        /\ UNCHANGED <<store, current_root_key, serving>>

Vet(t) ==
    LET q == serving[t]
    IN  /\ phase[t] = "received"
        /\ q.cmd = "SETALL"
        /\ IF q.root_version = current_root_key
             THEN phase' = [phase EXCEPT ![t] = "vetted"] /\ UNCHANGED code
             ELSE Answer(t, 0)
        /\ UNCHANGED <<store, current_root_key, serving, snap>>

Upload(t) ==
    LET q == serving[t]
    IN  /\ phase[t] = "vetted"
        /\ store' = [store EXCEPT ![q.rec] = Uploaded(q, @)]
        /\ Answer(t, 1)
        /\ UNCHANGED <<current_root_key, serving, snap>>

Take(t) ==
    LET q == serving[t]
    IN  /\ phase[t] = "received"
        /\ q.cmd = "UP_UPDATE"
        /\ snap' = [snap EXCEPT ![t] = Part(store[q.rec], Basis)]
        /\ phase' = [phase EXCEPT ![t] = "taken"]
        /\ UNCHANGED <<store, current_root_key, serving, code>>

\* The update replaces the very header and payload it was computed from.
Update(t) ==
    LET q == serving[t]
    IN  /\ phase[t] = "taken"
        /\ Part(store[q.rec], Basis) = snap[t]
        /\ store' = [store EXCEPT ![q.rec] = Updated(q, @)]
        /\ snap' = [snap EXCEPT ![t] = Nothing]
        /\ Answer(t, 0)
        /\ UNCHANGED <<current_root_key, serving>>

\* A conflict is reported only when the record really changed meanwhile.
Conflict(t) ==
    /\ phase[t] = "taken"
    /\ Part(store[serving[t].rec], Basis) # snap[t]
    /\ snap' = [snap EXCEPT ![t] = Nothing]
    /\ Answer(t, 1)
    /\ UNCHANGED <<store, current_root_key, serving>>

SwitchRoot(t) ==
    /\ phase[t] = "received"
    /\ serving[t].cmd = "ROOTKEY"
    /\ current_root_key' = serving[t].root
    /\ Answer(t, 1)
    /\ UNCHANGED <<store, serving, snap>>

Reply(t) ==
    /\ phase[t] = "answered"
    /\ phase' = [phase EXCEPT ![t] = "idle"]
    /\ serving' = [serving EXCEPT ![t] = NoRequest]
    /\ snap' = [snap EXCEPT ![t] = Nothing]
    /\ code' = [code EXCEPT ![t] = 1]
    /\ UNCHANGED <<store, current_root_key>>

Next ==
    \E t \in Threads :
        \/ \E q \in Requests : Receive(t, q)
        \/ Read(t) \/ Download(t) \/ Vet(t) \/ Upload(t) \/ Take(t) \/ Update(t)
        \/ Conflict(t) \/ SwitchRoot(t) \/ Reply(t)

Spec == Init /\ [][Next]_vars
=============================================================================
