----------------------------- MODULE UpdateRound -----------------------------
(***************************************************************************)
(* The commands that run a round: update_round_coordinator.c, the handler  *)
(* of START in ciphertext_updates_updatable_encryption.c, and the listener *)
(* thread and main loop of routine_operations_updatable_encryption.c.      *)
(*                                                                         *)
(* The coordinator has one buffer, additional_params, for what it appends  *)
(* to START, and one thread per worker that sends it: the main thread goes *)
(* on to the next worker while the thread of the last one still copies the *)
(* buffer.  What the thread copies then is any prefix of what the buffer   *)
(* holds; a parameter that is missing from the command is read from beyond *)
(* the end of the worker's array: it is any number, or the worker crashes. *)
(*                                                                         *)
(* Workers and their connections may fail.  A worker whose connection is   *)
(* lost goes on alone, and what it was sent may wait in its backlog.       *)
(***************************************************************************)
EXTENDS Naturals, Sequences, FiniteSets

CONSTANTS
    Clients,
    NumWorkers,     \* update_machine_count; the workers are 0 .. NumWorkers - 1
    NumRecords,     \* total_keys; the records are 0 .. NumRecords - 1
    TotalRounds,    \* total_rounds
    Failing         \* the workers that may fail, or lose their connection

ASSUME SizeAssumption ==
    /\ NumWorkers \in Nat \ {0}
    /\ NumRecords \in Nat
    /\ TotalRounds \in Nat \ {0}
    /\ Failing \subseteq Nat

Workers == 0 .. NumWorkers - 1
Keys == 0 .. NumRecords - 1
\* The root key compiled into the clients; those of the rounds are 1, 2, ...
FirstHandle == 0

VARIABLES
    pc,                 \* where the coordinator's main thread is
    round,
    i,                  \* its loop index over the workers
    left,               \* the clients its loop has still to come to
    additional_params,  \* the numbers in the buffer
    sender,             \* the thread that serves each worker
    backlog,            \* the STARTs, their numbers, that wait for each worker
    worker,             \* where each worker is
    command,            \* the numbers of the START it has taken
    key_index,          \* its loop index over the records
    updated,            \* the records updated in this round
    run_workload, end_program, key_handle,    \* of each client
    main,               \* where the main loop of each client is
    booted              \* history: the round in which its main set key_handle

coordinator == <<pc, round, i, left, additional_params>>
workers == <<backlog, worker, command, key_index, updated>>
clients == <<run_workload, end_program, key_handle, main, booted>>
vars == <<coordinator, sender, workers, clients>>

Init ==
    /\ pc = "root_key"
    /\ round = 1
    /\ i = 0
    /\ left = Clients
    /\ additional_params = << >>
    /\ sender = [w \in Workers |-> "none"]
    /\ backlog = [w \in Workers |-> << >>]
    /\ worker = [w \in Workers |-> "accept"]
    /\ command = [w \in Workers |-> << >>]
    /\ key_index = [w \in Workers |-> 0]
    /\ updated = {}
    /\ run_workload = [c \in Clients |-> FALSE]
    /\ end_program = [c \in Clients |-> FALSE]
    /\ key_handle = [c \in Clients |-> FirstHandle]
    /\ main = [c \in Clients |-> "booting"]
    /\ booted = [c \in Clients |-> 0]
-----------------------------------------------------------------------------
(***************************************************************************)
(* Coordinator and the clients' listener threads: a connection, a command, *)
(* the reply DONE, one client after the other.  The listener answers from  *)
(* before main has set key_handle.                                         *)
(***************************************************************************)
Tell(from, c) == pc = from /\ c \in left /\ left' = left \ {c}
AllTold(from, to) == pc = from /\ left = {} /\ pc' = to /\ left' = Clients

SendRootKey(c) ==
    /\ Tell("root_key", c)
    /\ key_handle' = [key_handle EXCEPT ![c] = round]
    /\ UNCHANGED <<pc, round, i, additional_params, sender, workers,
                   run_workload, end_program, main, booted>>
SendStart(c) ==
    /\ Tell("start_clients", c)
    /\ additional_params' = << >>
    /\ run_workload' = [run_workload EXCEPT ![c] = TRUE]
    /\ UNCHANGED <<pc, round, i, sender, workers, end_program, key_handle, main, booted>>
SendStop(c) ==
    /\ Tell("stop_clients", c)
    /\ run_workload' = [run_workload EXCEPT ![c] = FALSE]
    /\ UNCHANGED <<pc, round, i, additional_params, sender, workers,
                   end_program, key_handle, main, booted>>
SendEnd(c) ==
    /\ Tell("end_clients", c)
    /\ run_workload' = [run_workload EXCEPT ![c] = FALSE]
    /\ end_program' = [end_program EXCEPT ![c] = TRUE]
    /\ UNCHANGED <<pc, round, i, additional_params, sender, workers,
                   key_handle, main, booted>>

\* From one loop over the clients to the next step.
NextLoop ==
    \/ /\ AllTold("root_key", "start_clients") \/ AllTold("start_clients", "clear")
       /\ UNCHANGED round
    \/ /\ AllTold("stop_clients", IF round < TotalRounds THEN "root_key" ELSE "end_clients")
       /\ round' = IF round < TotalRounds THEN round + 1 ELSE round
    \/ AllTold("end_clients", "end") /\ UNCHANGED round
StartNextLoop ==
    NextLoop /\ UNCHANGED <<i, additional_params, sender, workers, clients>>
-----------------------------------------------------------------------------
(***************************************************************************)
(* Coordinator and workers.                                                *)
(***************************************************************************)
\* Where a worker is when its connection is gone: it goes on with its list.
Deserted(s) == CASE s = "updating" -> "alone" [] s = "replied" -> "accept" [] OTHER -> s

\* connect_to_server ends the coordinator, with all its threads, if the worker
\* is not there any more.
ConnectFails ==
    /\ pc = "clear"
    /\ worker[i] = "dead"
    /\ pc' = "exited"
    /\ sender' = [w \in Workers |-> "none"]
    /\ worker' = [w \in Workers |-> Deserted(worker[w])]
    /\ UNCHANGED <<round, i, left, additional_params, backlog, command, key_index, updated,
                   clients>>
Connect ==
    /\ pc = "clear"
    /\ worker[i] # "dead"
    /\ pc' = "write_none"
    /\ UNCHANGED <<round, i, left, additional_params, sender, workers, clients>>

\* update_additional_param_for_send_start, in three writes to the buffer, ...
Param(from, to, numbers) ==
    /\ pc = from
    /\ pc' = to
    /\ additional_params' = numbers
    /\ UNCHANGED <<round, i, left, sender, workers, clients>>
WriteParams ==
    \/ Param("write_none", "write_index", << >>)
    \/ Param("write_index", "write_offset", << i >>)
    \/ Param("write_offset", "create", << i, NumWorkers >>)
\* (Faulty: the index is not reset for the next loop.)
CreateNoReset ==
    /\ pc = "create"
    /\ sender' = [sender EXCEPT ![i] = "copying"]
    /\ i' = i + 1
    /\ pc' = IF i + 1 = NumWorkers THEN "join" ELSE "clear"
    /\ updated' = IF i = 0 THEN {} ELSE updated
    /\ UNCHANGED <<round, left, additional_params, backlog, worker, command, key_index, clients>>
\* ... and pthread_create.
Create ==
    /\ pc = "create"
    /\ sender' = [sender EXCEPT ![i] = "copying"]
    /\ i' = (i + 1) % NumWorkers
    /\ pc' = IF i + 1 = NumWorkers THEN "join" ELSE "clear"
    /\ updated' = IF i = 0 THEN {} ELSE updated
    /\ UNCHANGED <<round, left, additional_params, backlog, worker, command, key_index, clients>>

\* send_start: the buffer is copied while the main thread may write to it.
Copied == {SubSeq(additional_params, 1, n) :
             n \in IF pc = "join" THEN {Len(additional_params)}
                                  ELSE 0 .. Len(additional_params)}
ThreadSends(w) ==
    /\ sender[w] = "copying"
    /\ sender' = [sender EXCEPT ![w] = "sent"]
    /\ \E numbers \in Copied : backlog' = [backlog EXCEPT ![w] = Append(@, numbers)]
    /\ UNCHANGED <<coordinator, worker, command, key_index, updated, clients>>

\* The worker accepts the next START: atoi of the two numbers, or of what lies
\* beyond.  It is that of the thread if none is behind it in the backlog.
Numbers(w, n) == IF n <= Len(Head(backlog[w])) THEN {Head(backlog[w])[n]} ELSE 0 .. NumRecords
Live(w) == sender[w] = "sent" /\ Len(backlog[w]) = 1
WorkerStart(w) ==
    /\ worker[w] = "accept" /\ backlog[w] # << >>
    /\ \E first \in Numbers(w, 1), offset \in Numbers(w, 2) :
          /\ key_index' = [key_index EXCEPT ![w] = first]
          /\ command' = [command EXCEPT ![w] = <<first, offset>>]
    /\ worker' = [worker EXCEPT ![w] = IF Live(w) THEN "updating" ELSE "alone"]
    /\ backlog' = [backlog EXCEPT ![w] = Tail(@)]
    /\ UNCHANGED <<coordinator, sender, updated, clients>>
WorkerCrash(w) ==
    /\ worker[w] = "accept" /\ backlog[w] # << >>
    /\ Len(Head(backlog[w])) < 2
    /\ worker' = [worker EXCEPT ![w] = "dead"]
    /\ UNCHANGED <<coordinator, sender, backlog, command, key_index, updated, clients>>
\* Faulty: the worker does not go on to its next record.
WorkerRepeats(w) ==
    /\ worker[w] \in {"updating", "alone"}
    /\ key_index[w] < NumRecords
    /\ updated' = updated \cup {key_index[w]}
    /\ UNCHANGED <<coordinator, sender, backlog, worker, command, key_index, clients>>
WorkerUpdate(w) ==
    /\ worker[w] \in {"updating", "alone"}
    /\ key_index[w] < NumRecords
    /\ updated' = updated \cup {key_index[w]}
    /\ key_index' = [key_index EXCEPT ![w] = @ + command[w][2]]
    /\ UNCHANGED <<coordinator, sender, backlog, worker, command, clients>>
\* (Faulty: the loop ends one record early.)
WorkerDoneEarly(w) ==
    /\ worker[w] \in {"updating", "alone"}
    /\ key_index[w] + 1 >= NumRecords
    /\ worker' = [worker EXCEPT ![w] = IF @ = "updating" THEN "replied" ELSE "accept"]
    /\ UNCHANGED <<coordinator, sender, backlog, command, key_index, updated, clients>>
WorkerDone(w) ==
    /\ worker[w] \in {"updating", "alone"}
    /\ key_index[w] >= NumRecords
    /\ worker' = [worker EXCEPT ![w] = IF @ = "updating" THEN "replied" ELSE "accept"]
    /\ UNCHANGED <<coordinator, sender, backlog, command, key_index, updated, clients>>
\* exit(0) in the middle of an update, when the HSM does not come back, or the
\* signal for a reply to a connection that is gone.
WorkerExits(w) ==
    /\ worker[w] = "alone" \/ (worker[w] = "updating" /\ w \in Failing)
    /\ worker' = [worker EXCEPT ![w] = "dead"]
    /\ UNCHANGED <<coordinator, sender, backlog, command, key_index, updated, clients>>

\* recvall returns on the reply, on a closed and on a broken connection alike,
\* and the thread ends.
ThreadEnds(w) ==
    /\ sender[w] = "sent"
    /\ worker[w] \in {"replied", "dead"}
    /\ sender' = [sender EXCEPT ![w] = "ended"]
    /\ worker' = [worker EXCEPT ![w] = IF @ = "replied" THEN "accept" ELSE @]
    /\ UNCHANGED <<coordinator, backlog, command, key_index, updated, clients>>
\* The worker that has taken the START goes on; one that has not will find it,
\* or it is lost.
ConnectionLost(w) ==
    /\ w \in Failing
    /\ sender[w] = "sent" /\ worker[w] # "dead"
    /\ sender' = [sender EXCEPT ![w] = "lost"]
    /\ \/ worker' = [worker EXCEPT ![w] = Deserted(@)] /\ UNCHANGED backlog
       \/ /\ worker[w] \in {"accept", "alone"}
          /\ backlog' = [backlog EXCEPT ![w] = SubSeq(@, 1, Len(@) - 1)]
          /\ UNCHANGED worker
    /\ UNCHANGED <<coordinator, command, key_index, updated, clients>>

\* Faulty: the threads are not waited for.
JoinWithoutWaiting ==
    /\ pc = "join"
    /\ sender' = [sender EXCEPT ![i] = "none"]
    /\ i' = (i + 1) % NumWorkers
    /\ pc' = IF i + 1 = NumWorkers THEN "stop_clients" ELSE "join"
    /\ UNCHANGED <<round, left, additional_params, workers, clients>>
\* pthread_join, in the order of the workers.
Join ==
    /\ pc = "join"
    /\ sender[i] \in {"ended", "lost"}
    /\ sender' = [sender EXCEPT ![i] = "none"]
    /\ i' = (i + 1) % NumWorkers
    /\ pc' = IF i + 1 = NumWorkers THEN "stop_clients" ELSE "join"
    /\ UNCHANGED <<round, left, additional_params, workers, clients>>
-----------------------------------------------------------------------------
(***************************************************************************)
(* The main thread of a routine client: it opens a session with the HSM,   *)
(* sets key_handle, and then works while run_workload is set,              *)
(* which it looks at, without the lock, between two operations.  The break *)
(* on end_program leaves the waiting loop only.                            *)
(***************************************************************************)
\* What the listener was told before is overwritten.
ClientBoot(c) ==
    /\ main[c] = "booting"
    /\ main' = [main EXCEPT ![c] = "waiting"]
    /\ key_handle' = [key_handle EXCEPT ![c] = FirstHandle]
    /\ booted' = [booted EXCEPT ![c] = round]
    /\ UNCHANGED <<coordinator, sender, workers, run_workload, end_program>>

MainStep(c) ==
    \/ main[c] = "waiting" /\ run_workload[c] /\ main' = [main EXCEPT ![c] = "operation"]
    \/ main[c] = "waiting" /\ ~run_workload[c] /\ end_program[c]
                           /\ main' = [main EXCEPT ![c] = "summary"]
    \/ main[c] = "operation"
       /\ main' = [main EXCEPT ![c] = IF run_workload[c] THEN "operation" ELSE "summary"]
    \/ main[c] = "summary" /\ main' = [main EXCEPT ![c] = "waiting"]
Main(c) ==
    \/ ClientBoot(c)
    \/ MainStep(c) /\ UNCHANGED <<coordinator, sender, workers,
                                  run_workload, end_program, key_handle, booted>>

Coordinate ==
    \/ \E c \in Clients : SendRootKey(c) \/ SendStart(c) \/ SendStop(c) \/ SendEnd(c)
    \/ StartNextLoop \/ ConnectFails \/ Connect \/ WriteParams \/ Create \/ Join

Worker(w) == WorkerStart(w) \/ WorkerCrash(w) \/ WorkerUpdate(w) \/ WorkerDone(w)
Thread(w) == ThreadSends(w) \/ ThreadEnds(w)

Next ==
    \/ Coordinate
    \/ \E w \in Workers : Worker(w) \/ Thread(w) \/ WorkerExits(w) \/ ConnectionLost(w)
    \/ \E c \in Clients : Main(c)

Spec == Init /\ [][Next]_vars

\* Every process and thread goes on while it can; nothing has to fail.
FairSpec ==
    /\ Spec
    /\ WF_vars(Coordinate)
    /\ \A w \in Workers : WF_vars(Worker(w)) /\ WF_vars(Thread(w))
    /\ \A c \in Clients : WF_vars(Main(c))
-----------------------------------------------------------------------------
(***************************************************************************)
(* Properties.                                                             *)
(***************************************************************************)
\* Every variable has its type.
TypeOK ==
    /\ pc \in {"root_key", "start_clients", "clear", "write_none", "write_index",
               "write_offset", "create", "join", "stop_clients", "end_clients",
               "end", "exited"}
    /\ round \in 1 .. TotalRounds
    /\ i \in Workers
    /\ left \subseteq Clients
    /\ additional_params \in Seq(Nat) /\ Len(additional_params) <= 2
    /\ sender \in [Workers -> {"none", "copying", "sent", "ended", "lost"}]
    /\ worker \in [Workers -> {"accept", "updating", "alone", "replied", "dead"}]
    /\ \A w \in Workers : \A n \in DOMAIN backlog[w] : Len(backlog[w][n]) <= 2
    /\ \A w \in Workers : command[w] \in Seq(Nat) /\ Len(command[w]) <= 2
    /\ key_index \in [Workers -> Nat]
    /\ updated \subseteq Keys
    /\ run_workload \in [Clients -> BOOLEAN]
    /\ end_program \in [Clients -> BOOLEAN]
    /\ key_handle \in [Clients -> 0 .. TotalRounds]
    /\ main \in [Clients -> {"booting", "waiting", "operation", "summary"}]
    /\ booted \in [Clients -> 0 .. TotalRounds]

\* A worker whose reply is waited for updates records only in the part of a
\* round in which the coordinator waits for it and all clients are told to work:
\* it is not left over from an earlier round, whatever parameters it was sent
\* and whatever failed (pthread_join before the STOPs, lines 319-335).  The
\* clients have the root key of the round by then, but for those whose main came
\* to set its own in this very round, after the listener was told that one; no
\* client has the root key of an earlier round.
UpdatesStayInTheirRound ==
    \A w \in Workers :
        worker[w] = "updating" =>
            /\ pc \in {"clear", "write_none", "write_index", "write_offset", "create", "join"}
            /\ \A c \in Clients :
                  /\ run_workload[c]
                  /\ \/ key_handle[c] = round
                     \/ key_handle[c] = FirstHandle /\ booted[c] = round

\* "Update machines will go through their list" (line 225): when the
\* coordinator has joined the threads, the workers updated every record.
RoundUpdatesEveryRecord == pc = "stop_clients" => updated = Keys

\* What additional_params may do wrong and what may fail aside: every worker
\* that works was sent its own numbers, and its connection is there.
Undisturbed ==
    \A w \in Workers :
        /\ worker[w] # "dead" /\ sender[w] # "lost"
        /\ worker[w] = "updating" => command[w] = <<w, NumWorkers>>

\* Then the workers' lists, each from its index in steps of the number of
\* workers, leave out no record, whichever of them is the slowest.
ListsCoverEveryRecord == []Undisturbed => []RoundUpdatesEveryRecord

\* The rounds come to an end then: no thread is waited for in vain.
RoundsEnd == []Undisturbed => <>(pc = "end")

=============================================================================
