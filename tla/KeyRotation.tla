---------------------------- MODULE KeyRotation -----------------------------
(***************************************************************************)
(* Rounds of key rotation: the machines that use the database server,      *)
(* which is the RecordStore that SimpleServer implements.                  *)
(*   - Routine clients download and upload records, until they are told to *)
(*     stop (routine_operations_updatable_encryption.c).                   *)
(*   - Workers, told to start, go through their records: download, give    *)
(*     the record a new DEK and the server a token to re-encrypt it with,  *)
(*     download again and compare                                          *)
(*     (ciphertext_updates_updatable_encryption.c).                        *)
(*   - The coordinator runs the rounds (update_round_coordinator.c): new   *)
(*     root key to the server, then to the clients, start the clients,     *)
(*     start the workers, wait for them, stop the clients.                 *)
(* Each machine has one connection to the server, and waits for its reply. *)
(* The processes and the connections between them last: what becomes of a  *)
(* round when they do not is in UpdateRound.                               *)
(***************************************************************************)
EXTENDS RecordStore, Integers

CONSTANTS
    Clients, Workers, Coordinator,
    Assigned,       \* the records of each worker, in its order
    RootOf,         \* the root key of each round: key_handle_arr
    Uses,           \* the record each client works on: its db_key_list[0]
    PopulatedRoot,  \* the root key compiled into the populate program ...
    FirstHandle,    \* ... and the one compiled into the clients
    StrayRoot,      \* a root key string that no upload carries
    MaxUploads      \* bound on the uploads of a behaviour

ASSUME MachineAssumption ==
    /\ Threads = Clients \cup Workers \cup {Coordinator}
    /\ Clients \cap Workers = {}
    /\ Coordinator \notin Clients \cup Workers
ASSUME RoundAssumption ==
    /\ Assigned \in [Workers -> Seq(Records)]
    /\ Uses \in [Clients -> Records]
    /\ RootOf \in Seq(Roots) /\ Len(RootOf) > 0
    /\ {PopulatedRoot, FirstHandle, StrayRoot} \subseteq Roots
    /\ StrayRoot \notin {RootOf[n] : n \in DOMAIN RootOf} \cup {FirstHandle}
    /\ MaxUploads \in Nat /\ Gens \subseteq Nat

VARIABLES
    step,           \* where a machine is
    got,            \* the values it downloaded, or is about to upload
    before,         \* the message a worker read before its update
    todo,           \* the records a worker has still to update
    key_handle,     \* the root key a client encrypts under
    run_workload,   \* the clients that are to go on working
    round,          \* the round the coordinator is in
    left,           \* the clients it has still to tell
    fresh,          \* the generation that is drawn next
    uploads,        \* how many uploads there were
    at_start,       \* history: each record's generation when the workers started
    refused         \* history: the records that the HSM refused in this round,
                    \* although their wrap opens

machines == <<step, got, before, todo, key_handle, run_workload,
              fresh, uploads>>
history == <<at_start, refused>>
rounds == <<round, left, history>>
allvars == <<vars, machines, rounds>>

WholeRecord == <<"wrap", "header", "data", "root_version">>
WrapAndHeader == <<"wrap", "header", "root_version">>
Getall(r, keys) == [cmd |-> "GETALL", rec |-> r, keys |-> keys]

KRInit ==
    /\ Init
    /\ \A r \in Records : store[r].root_version = PopulatedRoot /\ store[r].header = 1
    /\ step = [m \in Threads |-> CASE m = Coordinator -> "db_root"
                                   [] m \in Clients -> "booting"
                                   [] OTHER -> "idle"]
    /\ got = [m \in Threads |-> Nothing]
    /\ before = [w \in Workers |-> Garbage]
    /\ todo = [w \in Workers |-> << >>]
    /\ key_handle = [c \in Clients |-> NoRoot]
    /\ run_workload = {}
    /\ round = 1
    /\ left = {}
    /\ fresh = 2
    /\ uploads = 0
    /\ at_start = [r \in Records |-> store[r].header]
    /\ refused = {}

GoTo(m, from, to) == step[m] = from /\ step' = [step EXCEPT ![m] = to]

\* The machine sends its request; the reply is in, and what it says is kept.
Send(m, from, to, q) == GoTo(m, from, to) /\ Receive(m, q)
Await(m, from, to) == GoTo(m, from, to) /\ Reply(m)
Keep(m) == got' = [got EXCEPT ![m] = snap[m]]

\* hsm_aes_decrypt of the wrap under the handle stored with it.
Unwraps(m) == got[m].wrap.root = got[m].root_version
\* AE_Decrypt with that key.
Decrypted(m) ==
    IF got[m].wrap.gen = got[m].header /\ got[m].header = got[m].data.gen
      THEN got[m].data.msg ELSE Garbage
-----------------------------------------------------------------------------
(***************************************************************************)
(* Routine clients.                                                        *)
(***************************************************************************)
\* main sets the handle it was compiled with after it started the listener
\* thread, and after it has opened a session with the HSM.
ClientBoot(c) ==
    /\ GoTo(c, "booting", "idle")
    /\ key_handle' = [key_handle EXCEPT ![c] = FirstHandle]
    /\ UNCHANGED <<vars, got, before, todo, run_workload,
                   fresh, uploads, rounds>>

\* The main loop looks at run_workload, and then begins an operation.
ClientLoop(c) ==
    /\ c \in run_workload
    /\ GoTo(c, "idle", "operating")
    /\ UNCHANGED <<vars, got, before, todo, key_handle, run_workload,
                   fresh, uploads, rounds>>

\* updatable_download_and_decrypt.  While the wrap does not open, the client
\* sleeps and tries the same wrap again, for ever.
ClientDownload(c) ==
    /\ Send(c, "operating", "downloading", Getall(Uses[c], WholeRecord))
    /\ UNCHANGED <<got, before, todo, key_handle, run_workload,
                   fresh, uploads, rounds>>
ClientReceive(c) ==
    /\ Await(c, "downloading", "unwrapping")
    /\ Keep(c)
    /\ UNCHANGED <<before, todo, key_handle, run_workload,
                   fresh, uploads, rounds>>
ClientDecrypt(c) ==
    /\ GoTo(c, "unwrapping", "idle")
    /\ Unwraps(c)
    /\ got' = [got EXCEPT ![c] = Nothing]
    /\ UNCHANGED <<vars, before, todo, key_handle, run_workload,
                   fresh, uploads, rounds>>

\* updatable_encrypt_and_upload: the root key is the one the client has when
\* the call begins, the upload goes out after the HSM wrapped the DEK, and
\* the reply is not looked at.
ClientEncrypt(c, m) ==
    /\ uploads < MaxUploads
    /\ GoTo(c, "operating", "wrapped")
    /\ got' = [got EXCEPT ![c] =
                  [wrap |-> [root |-> key_handle[c], gen |-> fresh],
                   header |-> fresh, data |-> Encrypted(fresh, m),
                   root_version |-> key_handle[c]]]
    /\ fresh' = fresh + 1
    /\ uploads' = uploads + 1
    /\ UNCHANGED <<vars, before, todo, key_handle, run_workload, rounds>>
ClientUpload(c) ==
    /\ Send(c, "wrapped", "uploading",
            [cmd |-> "SETALL", rec |-> Uses[c], wrap |-> got[c].wrap,
             header |-> got[c].header, data |-> got[c].data,
             root_version |-> got[c].root_version])
    /\ got' = [got EXCEPT ![c] = Nothing]
    /\ UNCHANGED <<before, todo, key_handle, run_workload,
                   fresh, uploads, rounds>>
ClientUploaded(c) ==
    /\ Await(c, "uploading", "idle")
    /\ UNCHANGED <<got, before, todo, key_handle, run_workload,
                   fresh, uploads, rounds>>

Client(c) ==
    \/ ClientBoot(c) \/ ClientLoop(c)
    \/ ClientDownload(c) \/ ClientReceive(c) \/ ClientDecrypt(c)
    \/ \E m \in Messages : ClientEncrypt(c, m)
    \/ ClientUpload(c) \/ ClientUploaded(c)
-----------------------------------------------------------------------------
(***************************************************************************)
(* Workers: the handler of START, one record at a time.                    *)
(***************************************************************************)
WorkerDownload(w, from, to) ==
    /\ todo[w] # << >>
    /\ Send(w, from, to, Getall(Head(todo[w]), WholeRecord))
    /\ UNCHANGED <<got, before, todo, key_handle, run_workload,
                   fresh, uploads, rounds>>
WorkerReceive(w, from, to) ==
    /\ Await(w, from, to)
    /\ Keep(w)
    /\ UNCHANGED <<before, todo, key_handle, run_workload,
                   fresh, uploads, rounds>>

\* received_before; like the client, the worker retries a wrap for ever.
DecryptBefore(w) ==
    /\ GoTo(w, "unwrapping_before", "reading_header")
    /\ Unwraps(w)
    /\ before' = [before EXCEPT ![w] = Decrypted(w)]
    /\ got' = [got EXCEPT ![w] = Nothing]
    /\ UNCHANGED <<vars, todo, key_handle, run_workload,
                   fresh, uploads, rounds>>

\* updatable_update_dek_and_ciphertext: it downloads wrap and header, ...
UpdateDownload(w) ==
    /\ Send(w, "reading_header", "awaiting_header", Getall(Head(todo[w]), WrapAndHeader))
    /\ UNCHANGED <<got, before, todo, key_handle, run_workload,
                   fresh, uploads, rounds>>
\* ... returns on every error of the HSM but a lost session: because the wrap
\* does not open, or whatever else the HSM has against it, ...
UpdateGivesUp(w) ==
    /\ GoTo(w, "have_header", "updated")
    /\ got' = [got EXCEPT ![w] = Nothing]
    /\ refused' = IF Unwraps(w) THEN refused \cup {Head(todo[w])} ELSE refused
    /\ UNCHANGED <<vars, before, todo, key_handle, run_workload,
                   fresh, uploads, round, left, at_start>>
\* ... and else wraps a new DEK under the root key it found with the record,
\* and sends the token made from the header it downloaded.
\* (Faulty: under the root key of the round.)
UpdateSendNewRoot(w) ==
    /\ Send(w, "have_header", "updating",
            [cmd |-> "UP_UPDATE", rec |-> Head(todo[w]),
             wrap |-> [root |-> RootOf[round], gen |-> fresh],
             delta |-> ReKeyGen(got[w].header, fresh)])
    /\ Unwraps(w)
    /\ fresh' = fresh + 1
    /\ got' = [got EXCEPT ![w] = Nothing]
    /\ UNCHANGED <<before, todo, key_handle, run_workload, uploads, rounds>>
UpdateSend(w) ==
    /\ Send(w, "have_header", "updating",
            [cmd |-> "UP_UPDATE", rec |-> Head(todo[w]),
             wrap |-> [root |-> got[w].root_version, gen |-> fresh],
             delta |-> ReKeyGen(got[w].header, fresh)])
    /\ Unwraps(w)
    /\ fresh' = fresh + 1
    /\ got' = [got EXCEPT ![w] = Nothing]
    /\ UNCHANGED <<before, todo, key_handle, run_workload, uploads, rounds>>
\* The reply is received and not looked at, a conflict neither.
\* (Faulty: the worker goes on without waiting for it.)
UpdateReplyEarly(w) ==
    /\ GoTo(w, "updating", "updated")
    /\ UNCHANGED <<vars, got, before, todo, key_handle, run_workload,
                   fresh, uploads, rounds>>
UpdateReply(w) ==
    /\ Await(w, "updating", "updated")
    /\ UNCHANGED <<got, before, todo, key_handle, run_workload,
                   fresh, uploads, rounds>>

\* received_after, and the comparison; the next record.
CompareAfter(w) ==
    /\ GoTo(w, "unwrapping_after", "working")
    /\ Unwraps(w)
    /\ todo' = [todo EXCEPT ![w] = Tail(@)]
    /\ got' = [got EXCEPT ![w] = Nothing]
    /\ before' = [before EXCEPT ![w] = Garbage]
    /\ UNCHANGED <<vars, key_handle, run_workload, fresh, uploads, rounds>>

\* All records done: the reply DONE to the coordinator.
\* (Faulty: the connection is closed without it; it is sent too early.)
WorkerSilent(w) ==
    /\ todo[w] = << >>
    /\ GoTo(w, "working", "idle")
    /\ UNCHANGED <<vars, got, before, todo, key_handle, run_workload,
                   fresh, uploads, rounds>>
WorkerDoneEarly(w) ==
    /\ GoTo(w, "working", "done")
    /\ UNCHANGED <<vars, got, before, todo, key_handle, run_workload,
                   fresh, uploads, rounds>>
WorkerDone(w) ==
    /\ todo[w] = << >>
    /\ GoTo(w, "working", "done")
    /\ UNCHANGED <<vars, got, before, todo, key_handle, run_workload,
                   fresh, uploads, rounds>>

Worker(w) ==
    \/ WorkerDownload(w, "working", "awaiting_before")
    \/ WorkerReceive(w, "awaiting_before", "unwrapping_before")
    \/ DecryptBefore(w)
    \/ UpdateDownload(w)
    \/ WorkerReceive(w, "awaiting_header", "have_header")
    \/ UpdateGivesUp(w) \/ UpdateSend(w) \/ UpdateReply(w)
    \/ WorkerDownload(w, "updated", "awaiting_after")
    \/ WorkerReceive(w, "awaiting_after", "unwrapping_after")
    \/ CompareAfter(w) \/ WorkerDone(w)
-----------------------------------------------------------------------------
(***************************************************************************)
(* The coordinator.  A client's listener thread answers at once, whatever  *)
(* the client is doing.                                                    *)
(***************************************************************************)
K == Coordinator
working == <<got, before, fresh, uploads>>
others == <<working, history>>

\* send_root_key encodes 15 bytes of which sprintf wrote 8: what the others
\* hold is undefined, and unless it is zero the string is no client's.
SendDbRoot ==
    /\ \E root \in {RootOf[round], StrayRoot} :
          Send(K, "db_root", "awaiting_db", [cmd |-> "ROOTKEY", root |-> root])
    /\ UNCHANGED <<others, todo, key_handle, run_workload, rounds>>
DbRootDone ==
    /\ Await(K, "awaiting_db", "client_root")
    /\ left' = Clients
    /\ UNCHANGED <<others, todo, key_handle, run_workload, round>>

\* One loop over the clients, one message at a time; to is the step after it.
Tell(from, to) ==
    \/ /\ left # {}
       /\ step[K] = from
       /\ \E c \in left : left' = left \ {c}
       /\ UNCHANGED step
    \/ /\ left = {}
       /\ GoTo(K, from, to)
       /\ left' = Clients
Told == left \ left'

TellRoot ==
    /\ Tell("client_root", "start_clients")
    /\ key_handle' = [c \in Clients |-> IF c \in Told THEN RootOf[round] ELSE key_handle[c]]
    /\ UNCHANGED <<vars, others, todo, run_workload, round>>
TellStart ==
    /\ Tell("start_clients", "start_workers")
    /\ run_workload' = run_workload \cup Told
    /\ UNCHANGED <<vars, others, todo, key_handle, round>>
StartWorkers ==
    /\ step[K] = "start_workers"
    /\ step' = [m \in Threads |-> CASE m = K -> "join"
                                    [] m \in Workers -> "working"
                                    [] OTHER -> step[m]]
    /\ todo' = Assigned
    /\ at_start' = [r \in Records |-> store[r].header]
    /\ refused' = {}
    /\ UNCHANGED <<vars, working, key_handle, run_workload, round, left>>
\* pthread_join on the threads that wait for the workers' replies.
\* (Faulty: for one of them.)
OneDone == \E w \in Workers : step[w] = "done"
AllDone == \A w \in Workers : step[w] = "done"
Join ==
    /\ step[K] = "join"
    /\ AllDone
    /\ step' = [m \in Threads |-> CASE m = K -> "stop_clients"
                                    [] m \in Workers -> "idle"
                                    [] OTHER -> step[m]]
    /\ UNCHANGED <<vars, others, todo, key_handle, run_workload, rounds>>
TellStop ==
    /\ Tell("stop_clients", IF round = Len(RootOf) THEN "end_clients" ELSE "db_root")
    /\ run_workload' = run_workload \ Told
    /\ round' = IF step'[K] = "db_root" THEN round + 1 ELSE round
    /\ UNCHANGED <<vars, others, todo, key_handle>>
TellEnd ==
    /\ Tell("end_clients", "end")
    /\ run_workload' = run_workload \ Told
    /\ UNCHANGED <<vars, others, todo, key_handle, round>>

Coordinate ==
    \/ SendDbRoot \/ DbRootDone \/ TellRoot \/ TellStart \/ StartWorkers \/ Join
    \/ TellStop \/ TellEnd
-----------------------------------------------------------------------------
\* The server works on the request of machine m.
Serve(m) ==
    /\ \/ Download(m) \/ Vet(m) \/ Upload(m) \/ Take(m) \/ Update(m)
       \/ Conflict(m) \/ SwitchRoot(m)
    /\ UNCHANGED <<machines, rounds>>

KRNext ==
    \/ \E c \in Clients : Client(c)
    \/ \E w \in Workers : Worker(w)
    \/ Coordinate
    \/ \E m \in Threads : Serve(m)

KRSpec == KRInit /\ [][KRNext]_allvars
FairKRSpec ==
    /\ KRSpec
    /\ \A w \in Workers : WF_allvars(Worker(w))
    /\ \A m \in Threads : WF_allvars(Serve(m))
    /\ WF_allvars(Coordinate)
-----------------------------------------------------------------------------
(***************************************************************************)
(* Properties.                                                             *)
(***************************************************************************)
Fields == [wrap : Wrap, header : Header, data : Data, root_version : Roots]

\* Every variable of the machines has its type, and a worker or a client
\* never has a reply outstanding that belongs to another step.
KRTypeOK ==
    /\ store \in [Records -> [wrap : Wrap, header : Header, data : Data,
                              root_version : Roots, ctxt_version : Nat]]
    /\ before \in [Workers -> Messages \cup {Garbage}]
    /\ todo \in [Workers -> Seq(Records)]
    /\ key_handle \in [Clients -> Roots \cup {NoRoot}]
    /\ run_workload \subseteq Clients
    /\ round \in 1..Len(RootOf) /\ left \subseteq Clients
    /\ fresh \in Nat /\ uploads \in 0..MaxUploads
    /\ at_start \in [Records -> Header] /\ refused \subseteq Records
    /\ \A m \in Threads :
          phase[m] = "idle" <=> step[m] \notin
              {"downloading", "uploading", "awaiting_before", "awaiting_header",
               "updating", "awaiting_after", "awaiting_db"}

\* The DEK under the wrap of a record opens its header, whatever uploads and
\* updates raced: both are replaced together, in setall_values and up_update.
WrapFitsHeader ==
    \A r \in Records : store[r].wrap.gen = store[r].header

\* While the workers rotate the DEKs, every record stays readable: it opens,
\* and what comes out is a message, never a payload whose layers do not fit.
RecordsStayReadable ==
    \A r \in Records : Plaintext(store[r]) \in Messages

\* "Error with decrypting into original message, not same." (line 330): what
\* a worker reads after its update is the message it read before.
UpdateKeepsMessage ==
    \A w \in Workers :
        step[w] = "unwrapping_after" /\ Unwraps(w) => Decrypted(w) = before[w]

\* When the coordinator goes on to stop the clients, no record that some worker
\* was assigned has still the DEK that it had when this round's workers were
\* started, unless the HSM refused its wrap: neither the conflicts that the
\* workers do not look at (actions.c:1079) nor the wraps that do not open
\* because somebody else was writing (:1003) leave an old DEK behind.
RoundReplacesEveryDek ==
    step[K] = "stop_clients" =>
        \A w \in Workers : \A n \in DOMAIN Assigned[w] :
            \/ store[Assigned[w][n]].header # at_start[Assigned[w][n]]
            \/ Assigned[w][n] \in refused

\* "Update machine tells Update Coord it is done" (line 226), and the
\* coordinator comes to the end of its rounds.
RoundsEnd == <>(step[K] = "end")
=============================================================================
