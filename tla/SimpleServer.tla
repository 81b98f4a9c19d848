---------------------------- MODULE SimpleServer ----------------------------
(***************************************************************************)
(* The database server, src/database/newSimpleServer/simple_server.c.      *)
(* Five threads, each with a port and one connection at a time, execute    *)
(* commands against one Redis.  A command is a series of single Redis      *)
(* reads and writes; anti_rc_lock is meant to make the series atomic, and  *)
(* current_root_key_lock protects the root key an upload is checked        *)
(* against.  One step here is one lock operation or one Redis command.     *)
(***************************************************************************)
EXTENDS Ciphertext, Integers, Sequences, FiniteSets

CONSTANTS
    Threads,      \* server threads
    Records,      \* ciphertext ids: the i of wrap_i, header_i, ...
    Requests,     \* the requests that clients send
    NoRequest,    \* what an idle thread serves
    NoThread,     \* the holder of a free lock
    NoRoot,       \* current_root_key before the first ROOTKEY: ""
    MaxClients,   \* connections that Redis accepts
    MaxVersion    \* bound: no write is received for a record at this version

\* The values stored for a record.
Keys == {"wrap", "header", "data", "root_version", "ctxt_version"}

\* The requests, one set per command.
GetRequest == [cmd : {"GET"}, rec : Records, key : Keys]
GetallRequest ==
    [cmd : {"GETALL"}, rec : Records,
     keys : {<<"wrap", "header", "data", "root_version">>,
             <<"wrap", "header", "root_version">>}]
SetallRequest ==
    [cmd : {"SETALL"}, rec : Records,
     wrap : Wrap, header : Header, data : Data, root_version : Roots]
UpdateRequest ==
    [cmd : {"UP_UPDATE"}, rec : Records, wrap : Wrap, delta : Delta]
RootkeyRequest == [cmd : {"ROOTKEY"}, root : Roots]

ASSUME RequestAssumption ==
    Requests \subseteq GetRequest \cup GetallRequest \cup SetallRequest
                         \cup UpdateRequest \cup RootkeyRequest
ASSUME IdleAssumption == NoThread \notin Threads /\ NoRoot \notin Roots
ASSUME BoundAssumption == MaxClients \in Nat /\ MaxVersion \in Nat

VARIABLES
    redis,                   \* the five values of each record
    current_root_key,
    anti_rc_lock,            \* the thread that holds it, or NoThread
    current_root_key_lock,
    connections,             \* connections to Redis that are open
    running,                 \* the server process has not called exit()
    pc,                      \* where each thread is
    req,                     \* the request it executes
    at,                      \* its loop index
    seen,                    \* the values it has read for this request
    result_size              \* what the reply is cut to

locks == <<anti_rc_lock, current_root_key_lock>>
vars == <<redis, current_root_key, locks, connections, running,
          pc, req, at, seen, result_size>>

\* The keys in the order the code reads and writes them.
UpdateReads == <<"ctxt_version", "header", "data">>
SetallWrites == <<"ctxt_version", "wrap", "header", "data", "root_version">>
UpdateWrites == <<"wrap", "header", "data", "ctxt_version">>

Writes(q) == q.cmd \in {"SETALL", "UP_UPDATE"}
Nothing == [f \in {} |-> f]
Rec(t) == req[t].rec

\* What SETALL and UP_UPDATE store, once the values they need are read.
\* Faulty: the version of an upload is the one it replaces, or the first one.
UploadedSameVersion(t) ==
    [wrap |-> req[t].wrap, header |-> req[t].header, data |-> req[t].data,
     root_version |-> req[t].root_version, ctxt_version |-> seen[t].ctxt_version]
UploadedVersionReset(t) ==
    [wrap |-> req[t].wrap, header |-> req[t].header, data |-> req[t].data,
     root_version |-> req[t].root_version, ctxt_version |-> 0]
Uploaded(t) ==
    [wrap |-> req[t].wrap, header |-> req[t].header, data |-> req[t].data,
     root_version |-> req[t].root_version,
     ctxt_version |-> seen[t].ctxt_version + 1]
Updated(t) ==
    [wrap |-> req[t].wrap,
     header |-> ReEncryptedHeader(req[t].delta),
     data |-> ReEncryptedData(req[t].delta, seen[t].data),
     ctxt_version |-> seen[t].ctxt_version + 1]

\* populate_database_updatable leaves every record with the same ciphertext.
Populated(rho, g, m) ==
    [wrap |-> [root |-> rho, gen |-> g], header |-> g,
     data |-> Encrypted(g, m), root_version |-> rho, ctxt_version |-> 0]

Init ==
    /\ \E rho \in Roots, g \in Gens, m \in Messages :
          redis = [r \in Records |-> Populated(rho, g, m)]
    /\ current_root_key = NoRoot
    /\ anti_rc_lock = NoThread
    /\ current_root_key_lock = NoThread
    /\ connections = 0
    /\ running = TRUE
    /\ pc = [t \in Threads |-> "idle"]
    /\ req = [t \in Threads |-> NoRequest]
    /\ at = [t \in Threads |-> 1]
    /\ seen = [t \in Threads |-> Nothing]
    /\ result_size = [t \in Threads |-> 1]
-----------------------------------------------------------------------------
Goto(t, from, to) ==
    /\ running
    /\ pc[t] = from
    /\ pc' = [pc EXCEPT ![t] = to]

\* Faulty: the loop index is reset to the wrong base.
TurnToZero(t, from, order, to) ==
    /\ Goto(t, from, IF at[t] = Len(order) THEN to ELSE from)
    /\ at' = [at EXCEPT ![t] = IF @ = Len(order) THEN 0 ELSE @ + 1]

\* One turn of a loop over the keys order, at from; to is where it ends.
Turn(t, from, order, to) ==
    /\ Goto(t, from, IF at[t] = Len(order) THEN to ELSE from)
    /\ at' = [at EXCEPT ![t] = IF @ = Len(order) THEN 1 ELSE @ + 1]

\* redisGet into a variable of the thread; redisSet.
ReadKey(t, f) ==
    seen' = [seen EXCEPT ![t] =
                [g \in DOMAIN @ \cup {f} |->
                    IF g = f THEN redis[Rec(t)][f] ELSE @[g]]]
WriteKey(t, f, v) == redis' = [redis EXCEPT ![Rec(t)][f] = v]

Acquire(t) == anti_rc_lock = NoThread /\ anti_rc_lock' = t
Release(t) == anti_rc_lock' = NoThread
Close == connections' = connections - 1

-----------------------------------------------------------------------------
\* recvall and the dispatch on the command.  SETALL checks the root key
\* before it connects to Redis, ROOTKEY does not connect.
Entry ==
    [GET |-> "get_connect", GETALL |-> "getall_connect", SETALL |-> "check_lock",
     UP_UPDATE |-> "update_connect", ROOTKEY |-> "rootkey_lock"]

Receive(t, q) ==
    /\ Goto(t, "idle", Entry[q.cmd])
    /\ Writes(q) => redis[q.rec].ctxt_version < MaxVersion
    /\ req' = [req EXCEPT ![t] = q]
    /\ UNCHANGED <<redis, current_root_key, locks, connections, running,
                   at, seen, result_size>>

Reply(t) ==
    /\ Goto(t, "reply", "idle")
    /\ req' = [req EXCEPT ![t] = NoRequest]
    /\ seen' = [seen EXCEPT ![t] = Nothing]
    /\ result_size' = [result_size EXCEPT ![t] = 1]
    /\ UNCHANGED <<redis, current_root_key, locks, connections, running, at>>

\* init_redis: when Redis refuses, the thread ends the whole process, the
\* threads that hold a lock included.
Connected(t) ==
    \/ Goto(t, "get_connect", "get_read")
    \/ Goto(t, "getall_connect", "getall_lock")
    \/ Goto(t, "setall_connect", "setall_lock")
    \/ Goto(t, "update_connect", "update_lock")
Connect(t) ==
    /\ connections < MaxClients
    /\ Connected(t)
    /\ connections' = connections + 1
    /\ UNCHANGED <<redis, current_root_key, locks, running,
                   req, at, seen, result_size>>
Connecting(t) ==
    pc[t] \in {"get_connect", "getall_connect", "setall_connect", "update_connect"}
ConnectFails(t) ==
    /\ running
    /\ Connecting(t)
    /\ connections >= MaxClients
    /\ running' = FALSE
    /\ UNCHANGED <<redis, current_root_key, locks, connections,
                   pc, req, at, seen, result_size>>
-----------------------------------------------------------------------------
\* GET takes no lock.
Get(t) ==
    /\ Goto(t, "get_read", "reply")
    /\ ReadKey(t, req[t].key)
    /\ Close
    /\ UNCHANGED <<redis, current_root_key, locks, running, req, at, result_size>>

\* GETALL, getall_values.
\* Faulty: GETALL reads without the lock.
GetallWithoutLock(t) ==
    /\ Goto(t, "getall_lock", "getall_read")
    /\ UNCHANGED <<redis, current_root_key, locks, connections,
                   running, req, at, seen, result_size>>
GetallLock(t) ==
    /\ Goto(t, "getall_lock", "getall_read")
    /\ Acquire(t)
    /\ UNCHANGED <<redis, current_root_key, current_root_key_lock, connections,
                   running, req, at, seen, result_size>>
GetallRead(t) ==
    /\ Turn(t, "getall_read", req[t].keys, "getall_unlock")
    /\ ReadKey(t, req[t].keys[at[t]])
    /\ UNCHANGED <<redis, current_root_key, locks, connections, running,
                   req, result_size>>
GetallUnlock(t) ==
    /\ Goto(t, "getall_unlock", "reply")
    /\ Release(t)
    /\ Close
    /\ UNCHANGED <<redis, current_root_key, current_root_key_lock,
                   running, req, at, seen, result_size>>
-----------------------------------------------------------------------------
\* SETALL, setall_values: the root key of the upload against the current one.
CheckLock(t) ==
    /\ Goto(t, "check_lock", "check_root")
    /\ current_root_key_lock = NoThread
    /\ current_root_key_lock' = t
    /\ UNCHANGED <<redis, current_root_key, anti_rc_lock, connections, running,
                   req, at, seen, result_size>>
\* Faulty: every root key is accepted.
CheckNoRoot(t) ==
    /\ Goto(t, "check_root", "setall_connect")
    /\ current_root_key_lock' = NoThread
    /\ UNCHANGED <<redis, current_root_key, anti_rc_lock, connections,
                   running, req, at, seen, result_size>>
CheckRoot(t) ==
    LET matches == req[t].root_version = current_root_key
    IN  /\ Goto(t, "check_root", IF matches THEN "setall_connect" ELSE "reply")
        /\ current_root_key_lock' = NoThread
        /\ result_size' = [result_size EXCEPT ![t] = IF matches THEN 1 ELSE 0]
        /\ UNCHANGED <<redis, current_root_key, anti_rc_lock, connections,
                       running, req, at, seen>>
SetallLock(t) ==
    /\ Goto(t, "setall_lock", "setall_version")
    /\ Acquire(t)
    /\ UNCHANGED <<redis, current_root_key, current_root_key_lock, connections,
                   running, req, at, seen, result_size>>
SetallVersion(t) ==
    /\ Goto(t, "setall_version", "setall_write")
    /\ ReadKey(t, "ctxt_version")
    /\ UNCHANGED <<redis, current_root_key, locks, connections, running,
                   req, at, result_size>>
SetallWrite(t) ==
    /\ Turn(t, "setall_write", SetallWrites, "setall_unlock")
    /\ WriteKey(t, SetallWrites[at[t]], Uploaded(t)[SetallWrites[at[t]]])
    /\ UNCHANGED <<current_root_key, locks, connections, running,
                   req, seen, result_size>>
SetallUnlock(t) ==
    /\ Goto(t, "setall_unlock", "reply")
    /\ Release(t)
    /\ Close
    /\ UNCHANGED <<redis, current_root_key, current_root_key_lock,
                   running, req, at, seen, result_size>>
-----------------------------------------------------------------------------
\* UP_UPDATE, up_update: read under the lock, re-encrypt without it, write
\* under it again if the version is still the one that was read.
UpdateLock(t) ==
    /\ Goto(t, "update_lock", "update_read")
    /\ Acquire(t)
    /\ UNCHANGED <<redis, current_root_key, current_root_key_lock, connections,
                   running, req, at, seen, result_size>>
UpdateRead(t) ==
    /\ Turn(t, "update_read", UpdateReads, "update_unlock")
    /\ ReadKey(t, UpdateReads[at[t]])
    /\ UNCHANGED <<redis, current_root_key, locks, connections, running,
                   req, result_size>>
UpdateUnlock(t) ==
    /\ Goto(t, "update_unlock", "update_relock")
    /\ Release(t)
    /\ UNCHANGED <<redis, current_root_key, current_root_key_lock, connections,
                   running, req, at, seen, result_size>>
\* Faulty: up_update writes without the lock.
UpdateWithoutRelock(t) ==
    /\ Goto(t, "update_relock", "update_compare")
    /\ UNCHANGED <<redis, current_root_key, locks, connections,
                   running, req, at, seen, result_size>>
UpdateRelock(t) ==
    /\ Goto(t, "update_relock", "update_compare")
    /\ Acquire(t)
    /\ UNCHANGED <<redis, current_root_key, current_root_key_lock, connections,
                   running, req, at, seen, result_size>>
\* Faulty: the version is not compared.
VersionIgnored(t) == TRUE
VersionUnchanged(t) == redis[Rec(t)].ctxt_version = seen[t].ctxt_version
UpdateCompare(t) ==
    /\ Goto(t, "update_compare", "update_write")
    /\ VersionUnchanged(t)
    /\ UNCHANGED <<redis, current_root_key, locks, connections, running,
                   req, at, seen, result_size>>
\* Faulty: the early return keeps the lock.
ConflictKeepsLock(t) ==
    /\ Goto(t, "update_compare", "reply")
    /\ ~VersionUnchanged(t)
    /\ UNCHANGED <<redis, current_root_key, locks, connections,
                   running, req, at, seen, result_size>>
\* The early return: the lock is released, the connection is not closed.
UpdateConflict(t) ==
    /\ Goto(t, "update_compare", "reply")
    /\ ~VersionUnchanged(t)
    /\ Release(t)
    /\ result_size' = [result_size EXCEPT ![t] = 1]
    /\ UNCHANGED <<redis, current_root_key, current_root_key_lock, connections,
                   running, req, at, seen>>
UpdateWrite(t) ==
    /\ Turn(t, "update_write", UpdateWrites, "update_end")
    /\ WriteKey(t, UpdateWrites[at[t]], Updated(t)[UpdateWrites[at[t]]])
    /\ UNCHANGED <<current_root_key, locks, connections, running,
                   req, seen, result_size>>
UpdateEnd(t) ==
    /\ Goto(t, "update_end", "reply")
    /\ Release(t)
    /\ Close
    /\ result_size' = [result_size EXCEPT ![t] = 0]
    /\ UNCHANGED <<redis, current_root_key, current_root_key_lock,
                   running, req, at, seen>>
-----------------------------------------------------------------------------
\* ROOTKEY: bzero, then memcpy.
RootkeyLock(t) ==
    /\ Goto(t, "rootkey_lock", "rootkey_clear")
    /\ current_root_key_lock = NoThread
    /\ current_root_key_lock' = t
    /\ UNCHANGED <<redis, current_root_key, anti_rc_lock, connections, running,
                   req, at, seen, result_size>>
RootkeyClear(t) ==
    /\ Goto(t, "rootkey_clear", "rootkey_copy")
    /\ current_root_key' = NoRoot
    /\ UNCHANGED <<redis, locks, connections, running, req, at, seen, result_size>>
RootkeyCopy(t) ==
    /\ Goto(t, "rootkey_copy", "reply")
    /\ current_root_key' = req[t].root
    /\ current_root_key_lock' = NoThread
    /\ UNCHANGED <<redis, anti_rc_lock, connections, running,
                   req, at, seen, result_size>>
-----------------------------------------------------------------------------
\* What a thread does once it has a request.
Step(t) ==
    \/ Reply(t) \/ Connect(t) \/ ConnectFails(t) \/ Get(t)
    \/ GetallLock(t) \/ GetallRead(t) \/ GetallUnlock(t)
    \/ CheckLock(t) \/ CheckRoot(t) \/ SetallLock(t) \/ SetallVersion(t)
    \/ SetallWrite(t) \/ SetallUnlock(t)
    \/ UpdateLock(t) \/ UpdateRead(t) \/ UpdateUnlock(t) \/ UpdateRelock(t)
    \/ UpdateCompare(t) \/ UpdateConflict(t) \/ UpdateWrite(t) \/ UpdateEnd(t)
    \/ RootkeyLock(t) \/ RootkeyClear(t) \/ RootkeyCopy(t)

Next == \E t \in Threads : Step(t) \/ \E q \in Requests : Receive(t, q)

Spec == Init /\ [][Next]_vars

\* A thread that can take a step eventually takes one.
FairSpec == Spec /\ \A t \in Threads : WF_vars(Step(t))
-----------------------------------------------------------------------------
(***************************************************************************)
(* Properties.                                                             *)
(***************************************************************************)
Pcs == {"idle", "reply", "get_connect", "get_read",
        "getall_connect", "getall_lock", "getall_read", "getall_unlock",
        "check_lock", "check_root", "setall_connect", "setall_lock",
        "setall_version", "setall_write", "setall_unlock",
        "update_connect", "update_lock", "update_read", "update_unlock",
        "update_relock", "update_compare", "update_write", "update_end",
        "rootkey_lock", "rootkey_clear", "rootkey_copy"}
Record == [wrap : Wrap, header : Header, data : Data,
           root_version : Roots, ctxt_version : Nat]

\* What a thread has read has the type of the key it was read from.
SeenOK(s) ==
    /\ DOMAIN s \subseteq Keys
    /\ "data" \in DOMAIN s => s.data \in Data
    /\ "ctxt_version" \in DOMAIN s => s.ctxt_version \in Nat
SeenTypeOK ==
    /\ seen = [t \in Threads |-> seen[t]]
    /\ \A t \in Threads : SeenOK(seen[t])

\* Every variable has its type.
TypeOK ==
    /\ redis \in [Records -> Record]
    /\ current_root_key \in Roots \cup {NoRoot}
    /\ anti_rc_lock \in Threads \cup {NoThread}
    /\ current_root_key_lock \in Threads \cup {NoThread}
    /\ connections \in Int
    /\ running \in BOOLEAN
    /\ pc \in [Threads -> Pcs]
    /\ req \in [Threads -> Requests \cup {NoRequest}]
    /\ at \in [Threads -> 1..5]
    /\ SeenTypeOK
    /\ result_size \in [Threads -> {0, 1}]

\* The thread holds a copy of the record it will re-encrypt.
HoldsBasis(t) ==
    pc[t] \in {"update_unlock", "update_relock", "update_compare"}

\* up_update re-encrypts outside the lock (simple_server.c:582-623): when it
\* starts to write, the header and the payload in Redis are still those it
\* re-encrypted, although any number of commands ran in between.
UpdateReplacesWhatItRead ==
    \A t \in Threads :
        pc[t] = "update_write" /\ at[t] = 1 =>
            \A f \in {"header", "data"} : redis[Rec(t)][f] = seen[t][f]

\* Two UP_UPDATEs that read the same version of a record re-encrypt the same
\* ciphertext: a version number never names two ciphertexts (lines 557-582).
SameVersionSameCiphertext ==
    \A t, u \in Threads :
        /\ HoldsBasis(t) /\ HoldsBasis(u)
        /\ Rec(t) = Rec(u)
        /\ seen[t].ctxt_version = seen[u].ctxt_version
        => seen[t].header = seen[u].header /\ seen[t].data = seen[u].data

\* getall_values reads its keys one by one (lines 369-381); what it returns
\* is nevertheless one state of the record.
DownloadIsOneState ==
    \A t \in Threads :
        pc[t] = "getall_unlock" =>
            \A f \in DOMAIN seen[t] : seen[t][f] = redis[Rec(t)][f]

\* A step never takes a record back to an earlier version: the version is
\* read and written by separate commands (lines 491-506, 626-645).
VersionNeverGoesBack ==
    [][\A r \in Records : redis'[r].ctxt_version >= redis[r].ctxt_version]_vars

\* Whoever holds anti_rc_lock lets it go, on the conflict path of up_update
\* (line 654) as well; otherwise every later command would wait for ever.
LockIsReleased ==
    \A t \in Threads : anti_rc_lock = t ~> (anti_rc_lock # t \/ ~running)
=============================================================================
