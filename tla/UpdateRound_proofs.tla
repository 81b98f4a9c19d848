--------------------------- MODULE UpdateRound_proofs --------------------------
(***************************************************************************)
(* Proofs about UpdateRound, for any number of workers, records, rounds    *)
(* and clients.                                                            *)
(***************************************************************************)
EXTENDS UpdateRound, Integers, SequenceTheorems, TLAPS

\* The steps in which no thread serves a worker, and those in which the main
\* thread goes through the workers.
Quiet == {"root_key", "start_clients", "stop_clients", "end_clients", "end", "exited"}
Sending == {"clear", "write_none", "write_index", "write_offset", "create"}

\* TypeOK does not say that backlog and command are functions, nor that there
\* are two numbers in a command once a worker has taken it.
Commands ==
    /\ backlog \in [Workers -> Seq(Seq(Nat))]
    /\ command \in [Workers -> Seq(Nat)]
    /\ \A w \in Workers : worker[w] \in {"updating", "alone"} =>
          command[w][1] \in Nat /\ command[w][2] \in Nat

\* A worker has work that is waited for only while its thread is there; the
\* threads are created and joined in the order of the workers.
Senders ==
    \A w \in Workers :
        /\ pc \in Quiet => sender[w] = "none"
        /\ pc \in Sending /\ w >= i => sender[w] = "none"
        /\ pc = "join" /\ w < i => sender[w] = "none"
        /\ worker[w] \in {"updating", "replied"} => sender[w] = "sent"

\* A client has the round's root key, or lost it when its main set its own.
Keyed(c) ==
    \/ key_handle[c] = round
    \/ key_handle[c] = FirstHandle /\ booted[c] = round

\* What the clients have been told.
Informed ==
    \A c \in Clients :
        /\ pc = "root_key" /\ c \notin left => Keyed(c)
        /\ pc = "start_clients" => Keyed(c)
        /\ pc = "start_clients" /\ c \notin left => run_workload[c]
        /\ pc \in Sending \cup {"join"} => run_workload[c] /\ Keyed(c)

IInv == TypeOK /\ Commands /\ Senders /\ Informed
-----------------------------------------------------------------------------
\* The loop index goes through the workers and back to the first.
LEMMA LoopIndex ==
    ASSUME NEW x \in Workers
    PROVE  /\ x + 1 = NumWorkers => (x + 1) % NumWorkers = 0
           /\ x + 1 # NumWorkers => (x + 1) % NumWorkers = x + 1
           /\ (x + 1) % NumWorkers \in Workers
<1> USE SizeAssumption DEF Workers
<1>1. CASE x + 1 = NumWorkers
  <2>1. (x + 1) % NumWorkers = 0
    BY <1>1
  <2> QED
    BY <1>1, <2>1
<1>2. CASE x + 1 # NumWorkers
  <2>1. x + 1 \in 0 .. NumWorkers - 1
    BY <1>2
  <2>2. (x + 1) % NumWorkers = x + 1
    BY <2>1
  <2> QED
    BY <1>2, <2>1, <2>2
<1> QED
  BY <1>1, <1>2

\* What a worker's backlog is made of, and what becomes of one.
Short(b) == b \in Seq(Seq(Nat)) /\ \A n \in DOMAIN b : Len(b[n]) <= 2

LEMMA Backlogs ==
    ASSUME NEW b, Short(b)
    PROVE  /\ b # << >> => Short(Tail(b)) /\ Head(b) \in Seq(Nat)
           /\ Short(SubSeq(b, 1, Len(b) - 1))
           /\ \A q \in Seq(Nat) : Len(q) <= 2 => Short(Append(b, q))
<1> USE DEF Short
<1>0. Len(b) \in Nat /\ DOMAIN b = 1 .. Len(b)
  OBVIOUS
<1>1. ASSUME b # << >> PROVE Short(Tail(b)) /\ Head(b) \in Seq(Nat)
  BY <1>0, <1>1, HeadTailProperties
<1>2. Short(SubSeq(b, 1, Len(b) - 1))
  <2>1. \A n \in 1 .. Len(b) - 1 : b[n] \in Seq(Nat)
    BY <1>0
  <2>2. /\ SubSeq(b, 1, Len(b) - 1) \in Seq(Seq(Nat))
        /\ Len(SubSeq(b, 1, Len(b) - 1)) = IF 1 <= Len(b) - 1 THEN Len(b) - 1 - 1 + 1 ELSE 0
        /\ \A n \in 1 .. Len(b) - 1 - 1 + 1 : SubSeq(b, 1, Len(b) - 1)[n] = b[1 + n - 1]
    BY <1>0, <2>1, SubSeqProperties
  <2> QED
    BY <1>0, <2>2
<1>3. ASSUME NEW q \in Seq(Nat), Len(q) <= 2 PROVE Short(Append(b, q))
  BY <1>0, <1>3
<1> QED
  BY <1>1, <1>2, <1>3

\* The backlogs are typed as soon as each one is.
LEMMA BacklogsTyped ==
    ASSUME IInv
    PROVE  \A w \in Workers : Short(backlog[w])
BY DEF IInv, TypeOK, Commands, Short

LEMMA BacklogChanged ==
    ASSUME IInv, NEW w \in Workers, NEW b, Short(b),
           backlog' = [backlog EXCEPT ![w] = b]
    PROVE  /\ backlog' \in [Workers -> Seq(Seq(Nat))]
           /\ \A v \in Workers : \A n \in DOMAIN backlog'[v] : Len(backlog'[v][n]) <= 2
BY DEF IInv, TypeOK, Commands, Short

LEMMA InitInv == Init => IInv
<1> SUFFICES ASSUME Init PROVE IInv
  OBVIOUS
<1>1. TypeOK
  <2>1. \A w \in Workers : backlog[w] = << >> /\ command[w] = << >>
    BY DEF Init
  <2> QED
    BY <2>1, SizeAssumption DEF Init, TypeOK, Workers, Keys, FirstHandle
<1>2. Commands /\ Senders /\ Informed
  BY DEF Init, Commands, Senders, Informed, Sending
<1> QED
  BY <1>1, <1>2 DEF IInv
-----------------------------------------------------------------------------
(***************************************************************************)
(* One lemma for each group of actions.                                    *)
(***************************************************************************)
LEMMA TellingStep ==
    ASSUME IInv, NEW c \in Clients,
           SendRootKey(c) \/ SendStart(c) \/ SendStop(c) \/ SendEnd(c)
    PROVE  IInv'
<1> USE DEF IInv, Tell, workers
<1>1. CASE SendRootKey(c)
  <2>1. TypeOK'
    BY <1>1 DEF SendRootKey, TypeOK, Workers
  <2>2. Commands' /\ Senders'
    BY <1>1 DEF SendRootKey, Commands, Senders, Quiet, Sending
  <2>3. Informed'
    BY <1>1 DEF SendRootKey, Informed, Keyed, TypeOK, Sending
  <2> QED
    BY <2>1, <2>2, <2>3
<1>2. CASE SendStart(c)
  <2>1. TypeOK'
    BY <1>2 DEF SendStart, TypeOK, Workers
  <2>2. Commands' /\ Senders'
    BY <1>2 DEF SendStart, Commands, Senders, Quiet, Sending
  <2>3. Informed'
    BY <1>2 DEF SendStart, Informed, Keyed, TypeOK, Sending
  <2> QED
    BY <2>1, <2>2, <2>3
<1>3. CASE SendStop(c)
  <2>1. TypeOK'
    BY <1>3 DEF SendStop, TypeOK, Workers
  <2>2. Commands' /\ Senders'
    BY <1>3 DEF SendStop, Commands, Senders, Quiet, Sending
  <2>3. Informed'
    BY <1>3 DEF SendStop, Informed, Keyed, Sending
  <2> QED
    BY <2>1, <2>2, <2>3
<1>4. CASE SendEnd(c)
  <2>1. TypeOK'
    BY <1>4 DEF SendEnd, TypeOK, Workers
  <2>2. Commands' /\ Senders'
    BY <1>4 DEF SendEnd, Commands, Senders, Quiet, Sending
  <2>3. Informed'
    BY <1>4 DEF SendEnd, Informed, Keyed, Sending
  <2> QED
    BY <2>1, <2>2, <2>3
<1> QED
  BY <1>1, <1>2, <1>3, <1>4

LEMMA LoopStep == ASSUME IInv, StartNextLoop PROVE IInv'
<1> USE DEF IInv, StartNextLoop, NextLoop, AllTold, workers, clients
<1>1. TypeOK'
  BY SizeAssumption DEF TypeOK, Workers
<1>2. Commands'
  BY DEF Commands
<1>3. Senders'
  BY DEF Senders, Quiet, Sending
<1>4. Informed'
  BY DEF Informed, Keyed, Sending
<1> QED
  BY <1>1, <1>2, <1>3, <1>4

LEMMA ConnectStep ==
    ASSUME IInv, ConnectFails \/ Connect \/ WriteParams
    PROVE  IInv'
<1> USE DEF IInv, ConnectFails, Connect, WriteParams, Param, workers, clients
<1>1. TypeOK'
  <2>1. i \in Nat /\ NumWorkers \in Nat
    BY SizeAssumption DEF TypeOK, Workers
  <2>2. /\ << >> \in Seq(Nat) /\ Len(<< >>) = 0
        /\ << i >> \in Seq(Nat) /\ Len(<< i >>) = 1
        /\ << i, NumWorkers >> \in Seq(Nat) /\ Len(<< i, NumWorkers >>) = 2
    BY <2>1
  <2>3. /\ pc' \in {"exited", "write_none", "write_index", "write_offset", "create"}
        /\ UNCHANGED <<round, i, left, backlog, command, key_index, updated,
                       run_workload, end_program, key_handle, main, booted>>
    OBVIOUS
  <2>6. /\ sender' \in [Workers -> {"none", "copying", "sent", "ended", "lost"}]
        /\ worker' \in [Workers -> {"accept", "updating", "alone", "replied", "dead"}]
    BY DEF TypeOK, Deserted
  <2>4. \/ UNCHANGED additional_params
        \/ additional_params' \in {<< >>, << i >>, << i, NumWorkers >>}
    OBVIOUS
  <2>5. additional_params' \in Seq(Nat) /\ Len(additional_params') <= 2
    <3>1. CASE UNCHANGED additional_params
      BY <3>1 DEF TypeOK
    <3>2. CASE additional_params' = << >>
      BY <2>2, <3>2
    <3>3. CASE additional_params' = << i >>
      BY <2>2, <3>3
    <3>4. CASE additional_params' = << i, NumWorkers >>
      BY <2>2, <3>4
    <3> QED
      BY <2>4, <3>1, <3>2, <3>3, <3>4
  <2> QED
    BY <2>3, <2>5, <2>6 DEF TypeOK
<1>2. Commands'
  BY DEF Commands, Deserted, TypeOK
<1>3. Senders'
  BY DEF Senders, Quiet, Sending, Deserted, TypeOK
<1>4. Informed'
  BY DEF Informed, Keyed, Sending
<1> QED
  BY <1>1, <1>2, <1>3, <1>4

LEMMA CreateStep == ASSUME IInv, Create PROVE IInv'
<1> USE DEF IInv, Create, clients
<1>0. i \in Workers /\ i \in Nat /\ NumWorkers \in Nat
  BY SizeAssumption DEF TypeOK, Workers
<1>1. /\ i' \in Workers
      /\ pc' = "join" => i' = 0
      /\ pc' = "clear" => i' = i + 1
      /\ pc' \in {"join", "clear"}
  BY <1>0, LoopIndex
<1>2. TypeOK'
  BY <1>1 DEF TypeOK
<1>3. Commands'
  BY DEF Commands
<1>4. Senders'
  <2> SUFFICES ASSUME NEW w \in Workers
               PROVE  /\ pc' \in Sending /\ w >= i' => sender'[w] = "none"
                      /\ pc' = "join" /\ w < i' => sender'[w] = "none"
                      /\ worker'[w] \in {"updating", "replied"} => sender'[w] = "sent"
    BY <1>1 DEF Senders, Quiet
  <2>0. w \in Nat
    BY DEF Workers
  <2>1. pc' \in Sending /\ w >= i' => w >= i /\ w # i
    BY <1>0, <1>1, <2>0 DEF Sending
  <2>2. pc' \in Sending /\ w >= i' => sender'[w] = "none"
    BY <2>1 DEF Senders, Sending, TypeOK
  <2>3. ~(pc' = "join" /\ w < i')
    BY <1>1, <2>0
  <2>4. worker[i] \notin {"updating", "replied"}
    BY <1>0 DEF Senders, Sending
  <2>5. worker'[w] \in {"updating", "replied"} => sender'[w] = "sent"
    BY <2>4 DEF Senders, TypeOK
  <2> QED
    BY <2>2, <2>3, <2>5
<1>5. Informed'
  BY <1>1 DEF Informed, Keyed, Sending
<1> QED
  BY <1>2, <1>3, <1>4, <1>5

LEMMA JoinStep == ASSUME IInv, Join PROVE IInv'
<1> USE DEF IInv, Join, workers, clients
<1>0. i \in Workers /\ i \in Nat /\ NumWorkers \in Nat
  BY SizeAssumption DEF TypeOK, Workers
<1>1. /\ i' \in Workers
      /\ pc' = "join" => i' = i + 1
      /\ pc' = "stop_clients" => i + 1 = NumWorkers
      /\ pc' \in {"join", "stop_clients"}
  BY <1>0, LoopIndex
<1>2. TypeOK'
  BY <1>1 DEF TypeOK
<1>3. Commands'
  BY DEF Commands
<1>4. Senders'
  <2> SUFFICES ASSUME NEW w \in Workers
               PROVE  /\ pc' = "stop_clients" => sender'[w] = "none"
                      /\ pc' = "join" /\ w < i' => sender'[w] = "none"
                      /\ worker'[w] \in {"updating", "replied"} => sender'[w] = "sent"
    BY <1>1 DEF Senders, Quiet, Sending
  <2>0. w \in Nat /\ w < NumWorkers
    BY <1>0 DEF Workers
  <2>1. (pc' = "join" /\ w < i') \/ pc' = "stop_clients" => w < i \/ w = i
    BY <1>0, <1>1, <2>0
  <2>2. w < i => sender[w] = "none"
    BY DEF Senders
  <2>3. (pc' = "join" /\ w < i') \/ pc' = "stop_clients" => sender'[w] = "none"
    BY <2>1, <2>2 DEF TypeOK
  <2>4. worker[i] \notin {"updating", "replied"}
    BY <1>0 DEF Senders
  <2>5. worker'[w] \in {"updating", "replied"} => sender'[w] = "sent"
    BY <2>4 DEF Senders, TypeOK
  <2> QED
    BY <2>3, <2>5
<1>5. Informed'
  BY <1>1 DEF Informed, Keyed, Sending
<1> QED
  BY <1>2, <1>3, <1>4, <1>5

\* What a thread copies is a prefix of the buffer.
LEMMA CopiedTyped ==
    ASSUME IInv, NEW numbers \in Copied
    PROVE  numbers \in Seq(Nat) /\ Len(numbers) <= 2
<1>1. /\ additional_params \in Seq(Nat) /\ Len(additional_params) <= 2
      /\ Len(additional_params) \in Nat
  <2>1. additional_params \in Seq(Nat) /\ Len(additional_params) <= 2
    BY DEF IInv, TypeOK
  <2> QED
    BY <2>1
<1>2. PICK n \in 0 .. Len(additional_params) : numbers = SubSeq(additional_params, 1, n)
  BY <1>1 DEF Copied
<1>3. \A m \in 1 .. n : additional_params[m] \in Nat
  BY <1>1
<1> QED
  BY <1>1, <1>2, <1>3

LEMMA ThreadStep == ASSUME IInv, NEW w \in Workers, Thread(w) PROVE IInv'
<1> USE DEF IInv, coordinator, clients
<1>1. CASE ThreadSends(w)
  <2> USE <1>1 DEF ThreadSends
  <2>1. PICK numbers \in Copied :
           backlog' = [backlog EXCEPT ![w] = Append(backlog[w], numbers)]
    OBVIOUS
  <2>2. numbers \in Seq(Nat) /\ Len(numbers) <= 2
    BY CopiedTyped
  <2>3. worker[w] \notin {"updating", "replied"}
    BY DEF Senders
  <2>0. Short(Append(backlog[w], numbers))
    BY <2>2, BacklogsTyped, Backlogs
  <2>8. /\ backlog' \in [Workers -> Seq(Seq(Nat))]
        /\ \A v \in Workers : \A n \in DOMAIN backlog'[v] : Len(backlog'[v][n]) <= 2
    BY <2>0, <2>1, BacklogChanged
  <2>4. Commands'
    BY <2>8 DEF Commands
  <2>5. TypeOK'
    BY <2>8 DEF TypeOK
  <2>6. Senders'
    BY <2>3 DEF Senders, TypeOK, Quiet, Sending
  <2>7. Informed'
    BY DEF Informed, Keyed
  <2> QED
    BY <2>4, <2>5, <2>6, <2>7
<1>2. CASE ThreadEnds(w)
  <2> USE <1>2 DEF ThreadEnds
  <2>1. TypeOK'
    BY DEF TypeOK
  <2>2. Commands'
    BY DEF Commands, TypeOK
  <2>3. Senders'
    BY DEF Senders, TypeOK, Quiet, Sending
  <2>4. Informed'
    BY DEF Informed, Keyed
  <2> QED
    BY <2>1, <2>2, <2>3, <2>4
<1> QED
  BY <1>1, <1>2 DEF Thread

LEMMA WorkerStep == ASSUME IInv, NEW w \in Workers, Worker(w) PROVE IInv'
<1> USE DEF IInv, coordinator, clients
<1>1. CASE WorkerStart(w)
  <2> USE <1>1 DEF WorkerStart
  <2>1. PICK first \in Numbers(w, 1), offset \in Numbers(w, 2) :
           /\ key_index' = [key_index EXCEPT ![w] = first]
           /\ command' = [command EXCEPT ![w] = <<first, offset>>]
    OBVIOUS
  <2>0. Head(backlog[w]) \in Seq(Nat) /\ Short(Tail(backlog[w]))
    BY BacklogsTyped, Backlogs
  <2>2. first \in Nat /\ offset \in Nat
    BY <2>0, <2>1, SizeAssumption DEF Numbers
  <2>8. /\ backlog' \in [Workers -> Seq(Seq(Nat))]
        /\ \A v \in Workers : \A n \in DOMAIN backlog'[v] : Len(backlog'[v][n]) <= 2
    BY <2>0, BacklogChanged
  <2>3. <<first, offset>> \in Seq(Nat) /\ Len(<<first, offset>>) = 2
    BY <2>2
  <2>9. /\ key_index' \in [Workers -> Nat]
        /\ worker' \in [Workers -> {"accept", "updating", "alone", "replied", "dead"}]
        /\ \A v \in Workers : command'[v] \in Seq(Nat) /\ Len(command'[v]) <= 2
    BY <2>1, <2>2, <2>3 DEF TypeOK, Commands
  <2>4. TypeOK'
    BY <2>8, <2>9 DEF TypeOK
  <2>5. Commands'
    BY <2>1, <2>2, <2>3, <2>8 DEF Commands, TypeOK
  <2>6. Senders'
    BY DEF Senders, TypeOK, Live
  <2>7. Informed'
    BY DEF Informed, Keyed
  <2> QED
    BY <2>4, <2>5, <2>6, <2>7
<1>2. CASE WorkerCrash(w)
  <2> USE <1>2 DEF WorkerCrash
  <2>1. TypeOK'
    BY DEF TypeOK
  <2>2. Commands' /\ Senders'
    BY DEF Commands, Senders, TypeOK
  <2>3. Informed'
    BY DEF Informed, Keyed
  <2> QED
    BY <2>1, <2>2, <2>3
<1>3. CASE WorkerUpdate(w)
  <2> USE <1>3 DEF WorkerUpdate
  <2>1. key_index[w] \in Keys
    BY SizeAssumption DEF TypeOK, Keys
  <2>2. key_index[w] + command[w][2] \in Nat
    BY DEF TypeOK, Commands
  <2>3. TypeOK'
    BY <2>1, <2>2 DEF TypeOK
  <2>4. Commands' /\ Senders'
    BY DEF Commands, Senders
  <2>5. Informed'
    BY DEF Informed, Keyed
  <2> QED
    BY <2>3, <2>4, <2>5
<1>4. CASE WorkerDone(w)
  <2> USE <1>4 DEF WorkerDone
  <2>1. TypeOK'
    BY DEF TypeOK
  <2>2. Commands' /\ Senders'
    BY DEF Commands, Senders, TypeOK
  <2>3. Informed'
    BY DEF Informed, Keyed
  <2> QED
    BY <2>1, <2>2, <2>3
<1> QED
  BY <1>1, <1>2, <1>3, <1>4 DEF Worker

\* A worker that fails, or is left alone, is not waited for any more.
LEMMA FailureStep ==
    ASSUME IInv, NEW w \in Workers, WorkerExits(w) \/ ConnectionLost(w)
    PROVE  IInv'
<1> USE DEF IInv, coordinator, clients
<1>1. CASE WorkerExits(w)
  <2> USE <1>1 DEF WorkerExits
  <2>1. TypeOK'
    BY DEF TypeOK
  <2>2. Commands' /\ Senders'
    BY DEF Commands, Senders, TypeOK
  <2>3. Informed'
    BY DEF Informed, Keyed
  <2> QED
    BY <2>1, <2>2, <2>3
<1>2. CASE ConnectionLost(w)
  <2> USE <1>2 DEF ConnectionLost
  <2>1. Short(SubSeq(backlog[w], 1, Len(backlog[w]) - 1))
    BY BacklogsTyped, Backlogs
  <2>2. /\ backlog' \in [Workers -> Seq(Seq(Nat))]
        /\ \A v \in Workers : \A n \in DOMAIN backlog'[v] : Len(backlog'[v][n]) <= 2
    <3>1. CASE UNCHANGED backlog
      BY <3>1 DEF TypeOK, Commands
    <3>2. CASE backlog' = [backlog EXCEPT ![w] = SubSeq(backlog[w], 1, Len(backlog[w]) - 1)]
      BY <2>1, <3>2, BacklogChanged
    <3> QED
      BY <3>1, <3>2
  <2>3. /\ worker' \in [Workers -> {"accept", "updating", "alone", "replied", "dead"}]
        /\ worker'[w] \notin {"updating", "replied"}
        /\ \A v \in Workers : v # w => worker'[v] = worker[v]
        /\ worker'[w] = "alone" => worker[w] \in {"updating", "alone"}
    BY DEF TypeOK, Deserted
  <2>4. TypeOK'
    BY <2>2, <2>3 DEF TypeOK
  <2>5. Commands'
    BY <2>2, <2>3 DEF Commands
  <2>6. Senders'
    BY <2>3 DEF Senders, TypeOK, Quiet, Sending
  <2>7. Informed'
    BY DEF Informed, Keyed
  <2> QED
    BY <2>4, <2>5, <2>6, <2>7
<1> QED
  BY <1>1, <1>2

LEMMA MainLoopStep == ASSUME IInv, NEW c \in Clients, Main(c) PROVE IInv'
<1> USE DEF IInv, Main, coordinator, workers
<1>1. CASE ClientBoot(c)
  <2> USE <1>1 DEF ClientBoot
  <2>1. TypeOK'
    BY SizeAssumption DEF TypeOK, FirstHandle
  <2>2. Commands' /\ Senders'
    BY DEF Commands, Senders
  <2>3. \A d \in Clients : Keyed(d) => Keyed(d)'
    BY DEF Keyed, TypeOK
  <2>4. Informed'
    BY <2>3 DEF Informed
  <2> QED
    BY <2>1, <2>2, <2>4
<1>2. CASE MainStep(c) /\ UNCHANGED <<coordinator, sender, workers,
                                     run_workload, end_program, key_handle, booted>>
  <2>1. TypeOK'
    BY <1>2 DEF MainStep, TypeOK
  <2>2. Commands' /\ Senders' /\ Informed'
    BY <1>2 DEF Commands, Senders, Informed, Keyed
  <2> QED
    BY <2>1, <2>2
<1> QED
  BY <1>1, <1>2

LEMMA NextInv == IInv /\ [Next]_vars => IInv'
<1> SUFFICES ASSUME IInv, [Next]_vars PROVE IInv'
  OBVIOUS
<1>1. CASE Coordinate
  BY <1>1, TellingStep, LoopStep, ConnectStep, CreateStep, JoinStep DEF Coordinate
<1>2. ASSUME NEW w \in Workers,
             Worker(w) \/ Thread(w) \/ WorkerExits(w) \/ ConnectionLost(w)
      PROVE  IInv'
  BY <1>2, WorkerStep, ThreadStep, FailureStep
<1>3. ASSUME NEW c \in Clients, Main(c) PROVE IInv'
  BY <1>3, MainLoopStep
<1>4. CASE UNCHANGED vars
  <2> USE <1>4 DEF vars, coordinator, workers, clients, IInv
  <2>1. TypeOK'
    BY DEF TypeOK
  <2>2. Commands' /\ Senders' /\ Informed'
    BY DEF Commands, Senders, Informed, Keyed
  <2> QED
    BY <2>1, <2>2
<1> QED
  BY <1>1, <1>2, <1>3, <1>4 DEF Next

LEMMA Invariance == Spec => []IInv
BY InitInv, NextInv, PTL DEF Spec
-----------------------------------------------------------------------------
\* Every variable of a round keeps its type, whatever numbers a worker reads
\* from beyond its array.
THEOREM RoundTypeCorrect == Spec => []TypeOK
<1>1. IInv => TypeOK
  BY DEF IInv
<1> QED
  BY <1>1, Invariance, PTL

\* For any number of workers, clients and rounds, whatever becomes of
\* additional_params, whichever workers and connections fail: no worker that is
\* waited for updates a record outside the part of a round in which the clients
\* are told to work, and there a client is without the round's root key only if
\* its main set its own in this round (routine_operations_updatable_encryption.c,
\* line 350, after the listener of line 244 had taken ROOTKEY).
THEOREM UpdatesAlwaysInTheirRound == Spec => []UpdatesStayInTheirRound
<1>1. ASSUME IInv, NEW w \in Workers, worker[w] = "updating"
      PROVE  /\ pc \notin Quiet
             /\ \A c \in Clients : run_workload[c] /\ Keyed(c)
  <2>1. sender[w] = "sent"
    BY <1>1 DEF IInv, Senders
  <2>2. pc \notin Quiet
    BY <1>1, <2>1 DEF IInv, Senders
  <2>3. pc \in Sending \cup {"join"}
    BY <1>1, <2>2 DEF IInv, TypeOK, Quiet, Sending
  <2> QED
    BY <1>1, <2>2, <2>3 DEF IInv, Informed
<1>2. IInv => UpdatesStayInTheirRound
  BY <1>1 DEF UpdatesStayInTheirRound, Quiet, IInv, TypeOK, Keyed
<1> QED
  BY <1>2, Invariance, PTL
-----------------------------------------------------------------------------
(***************************************************************************)
(* That the lists cover every record, as long as the numbers arrive.       *)
(***************************************************************************)
\* Record k is on the list of worker w: one of w, w + n, w + 2n, ...
OnList(w, k) == \E m \in Nat : k = w + m * NumWorkers
ListDone(w) == \A k \in Keys : OnList(w, k) => k \in updated
ListDoneUpTo(w, n) == \A k \in Keys : OnList(w, k) /\ k < n => k \in updated

Cover ==
    /\ \A w \in Workers :
        /\ worker[w] = "updating" =>
              OnList(w, key_index[w]) /\ ListDoneUpTo(w, key_index[w])
        /\ worker[w] = "replied" => ListDone(w)
        /\ sender[w] = "ended" => ListDone(w)
        /\ pc = "join" /\ w < i => ListDone(w)
        /\ worker[w] # "alone"
        /\ backlog[w] # << >> => /\ sender[w] = "sent" /\ worker[w] = "accept"
                                /\ Len(backlog[w]) = 1
    /\ pc = "stop_clients" => updated = Keys

CInv == IInv /\ Cover

\* Every record is on some list (division with remainder).
LEMMA EveryRecordListed ==
    ASSUME NEW k \in Keys
    PROVE  \E w \in Workers : OnList(w, k)
<1> DEFINE r == k % NumWorkers
           q == k \div NumWorkers
<1>0. k \in Nat /\ NumWorkers \in Nat \ {0}
  BY SizeAssumption DEF Keys
<1>1. r \in 0 .. NumWorkers - 1 /\ q \in Nat /\ k = r + q * NumWorkers
  BY <1>0
<1> QED
  BY <1>1 DEF OnList, Workers

\* On a list, the record after k is k + n: none is left out between them.
LEMMA NoneBetween ==
    ASSUME NEW w \in Workers, NEW k \in Nat, NEW h \in Nat,
           OnList(w, k), OnList(w, h), h < k + NumWorkers
    PROVE  h < k \/ h = k
<1>1. PICK m \in Nat : k = w + m * NumWorkers
  BY DEF OnList
<1>2. PICK j \in Nat : h = w + j * NumWorkers
  BY DEF OnList
<1>3. NumWorkers \in Nat \ {0} /\ w \in Nat
  BY SizeAssumption DEF Workers
<1>4. (m + 1) * NumWorkers = m * NumWorkers + NumWorkers
  BY <1>3
<1>5. j * NumWorkers < (m + 1) * NumWorkers
  BY <1>1, <1>2, <1>3, <1>4
<1>6. j < m + 1
  BY <1>3, <1>5
<1>7. j = m \/ j + 1 <= m
  BY <1>6
<1>8. CASE j = m
  BY <1>1, <1>2, <1>8
<1>9. CASE j + 1 <= m
  <2>1. (j + 1) * NumWorkers <= m * NumWorkers
    BY <1>3, <1>9
  <2>2. (j + 1) * NumWorkers = j * NumWorkers + NumWorkers
    BY <1>3
  <2> QED
    BY <1>1, <1>2, <1>3, <2>1, <2>2
<1> QED
  BY <1>7, <1>8, <1>9

\* The first record of a list is that of the worker's own number.
LEMMA ListStart ==
    ASSUME NEW w \in Workers
    PROVE  OnList(w, w) /\ ListDoneUpTo(w, w)
<1>1. NumWorkers \in Nat \ {0} /\ w \in Nat
  BY SizeAssumption DEF Workers
<1>2. w = w + 0 * NumWorkers
  BY <1>1
<1>3. OnList(w, w)
  BY <1>2 DEF OnList
<1>4. ASSUME NEW k \in Keys, OnList(w, k) PROVE ~(k < w)
  <2>1. PICK m \in Nat : k = w + m * NumWorkers
    BY <1>4 DEF OnList
  <2>2. m * NumWorkers >= 0
    BY <1>1
  <2> QED
    BY <1>1, <2>1, <2>2
<1> QED
  BY <1>3, <1>4 DEF ListDoneUpTo

LEMMA InitCover == Init => Cover
BY DEF Init, Cover

\* While the connections hold, a START waits for a worker only as long as its
\* thread does, and no other waits behind it.
Waiting(w) ==
    /\ worker[w] # "alone"
    /\ backlog[w] # << >> => /\ sender[w] = "sent" /\ worker[w] = "accept"
                            /\ Len(backlog[w]) = 1

LEMMA WorkerWaits ==
    ASSUME CInv, Undisturbed', NEW w \in Workers, Worker(w)
    PROVE  \A v \in Workers : Waiting(v)'
<1> USE DEF CInv, IInv, coordinator, clients, Waiting
<1>1. CASE WorkerStart(w)
  <2> USE <1>1 DEF WorkerStart
  <2>1. Live(w) /\ worker' = [worker EXCEPT ![w] = "updating"]
    BY DEF Cover, Live
  <2>2. Len(Tail(backlog[w])) = 0 /\ Tail(backlog[w]) \in Seq(Seq(Nat))
    BY HeadTailProperties DEF Commands, Cover
  <2>5. \A q \in Seq(Seq(Nat)) : Len(q) = 0 => q = << >>
    OBVIOUS
  <2>6. Tail(backlog[w]) = << >>
    BY <2>2, <2>5
  <2>3. backlog'[w] = << >>
    BY <2>6 DEF Commands
  <2>4. \A v \in Workers : v # w => backlog'[v] = backlog[v] /\ worker'[v] = worker[v]
    BY <2>1 DEF Commands, TypeOK
  <2> QED
    BY <2>1, <2>3, <2>4 DEF Cover, TypeOK
<1>2. CASE WorkerUpdate(w) \/ WorkerDone(w)
  <2>1. backlog' = backlog /\ sender' = sender
    BY <1>2 DEF WorkerUpdate, WorkerDone
  <2>2. \A v \in Workers : worker'[v] # "alone"
    BY <1>2 DEF WorkerUpdate, WorkerDone, Cover, TypeOK
  <2>3. \A v \in Workers : worker[v] = "accept" => worker'[v] = "accept"
    BY <1>2 DEF WorkerUpdate, WorkerDone, TypeOK
  <2> QED
    BY <2>1, <2>2, <2>3 DEF Cover
<1>3. ~WorkerCrash(w)
  BY DEF WorkerCrash, Undisturbed, TypeOK
<1> QED
  BY <1>1, <1>2, <1>3 DEF Worker

LEMMA ThreadWaits ==
    ASSUME CInv, Undisturbed, NEW w \in Workers, Thread(w)
    PROVE  \A v \in Workers : Waiting(v)'
<1> USE DEF CInv, IInv, coordinator, clients, Waiting
<1>1. CASE ThreadSends(w)
  <2> USE <1>1 DEF ThreadSends
  <2>1. backlog[w] = << >> /\ worker[w] = "accept"
    BY DEF Cover, Senders, TypeOK, Undisturbed
  <2>2. PICK numbers \in Copied : backlog'[w] = Append(<< >>, numbers)
    BY <2>1 DEF Commands
  <2>6. numbers \in Seq(Nat) /\ << >> \in Seq(Seq(Nat)) /\ Len(<< >>) = 0
    BY <2>2, CopiedTyped
  <2>7. \A e \in Seq(Nat) : Len(Append(<< >>, e)) = 1
    BY <2>6, AppendProperties
  <2>3. Len(backlog'[w]) = 1
    BY <2>2, <2>6, <2>7
  <2>4. sender'[w] = "sent" /\ worker' = worker
    BY DEF TypeOK
  <2>5. \A v \in Workers : v # w => backlog'[v] = backlog[v] /\ sender'[v] = sender[v]
    BY DEF Commands, TypeOK
  <2> QED
    BY <2>1, <2>3, <2>4, <2>5 DEF Cover
<1>2. CASE ThreadEnds(w)
  BY <1>2 DEF ThreadEnds, Cover, TypeOK, Undisturbed
<1> QED
  BY <1>1, <1>2 DEF Thread

\* What a worker does to its own list.
LEMMA WorkerCovers ==
    ASSUME CInv, Undisturbed, Undisturbed', NEW w \in Workers, Worker(w)
    PROVE  Cover'
<1> USE DEF CInv, IInv, coordinator, clients
<1>0. /\ worker[w] \in {"accept", "updating"}
      /\ sender[w] = "sent"
      /\ pc' = pc /\ i' = i /\ sender' = sender
      /\ pc # "stop_clients"
      /\ ~(pc = "join" /\ w < i)
  BY DEF Worker, WorkerStart, WorkerCrash, WorkerUpdate, WorkerDone, Senders, Quiet,
         Cover
<1>1. \A v \in Workers : v # w =>
         worker'[v] = worker[v] /\ key_index'[v] = key_index[v]
  BY DEF Worker, WorkerStart, WorkerCrash, WorkerUpdate, WorkerDone, TypeOK
<1>2. \A v \in Workers : v # w => command'[v] = command[v]
  BY DEF Worker, WorkerStart, WorkerCrash, WorkerUpdate, WorkerDone, Commands
<1>3. updated \subseteq updated'
  BY DEF Worker, WorkerStart, WorkerCrash, WorkerUpdate, WorkerDone
<1>4. \A v \in Workers : ListDone(v) => ListDone(v)'
  BY <1>3 DEF ListDone, OnList
<1>5. \A v \in Workers : v # w => (ListDoneUpTo(v, key_index[v]) => ListDoneUpTo(v, key_index[v])')
  BY <1>1, <1>3 DEF ListDoneUpTo, OnList
<1>6. \A v \in Workers : v # w => (OnList(v, key_index[v]) => OnList(v, key_index[v])')
  BY <1>1 DEF OnList
<1>7. \A v \in Workers : v # w =>
        /\ worker'[v] = "updating" =>
              OnList(v, key_index[v])' /\ ListDoneUpTo(v, key_index[v])'
        /\ worker'[v] = "replied" => ListDone(v)'
  BY <1>1, <1>4, <1>5, <1>6 DEF Cover
<1>8. \A v \in Workers :
        /\ sender'[v] = "ended" => ListDone(v)'
        /\ pc' = "join" /\ v < i' => ListDone(v)'
  BY <1>0, <1>4 DEF Cover
<1>10. \A v \in Workers : Waiting(v)'
  BY WorkerWaits
<1>9. /\ worker'[w] = "updating" =>
            OnList(w, key_index[w])' /\ ListDoneUpTo(w, key_index[w])'
      /\ worker'[w] = "replied" => ListDone(w)'
  <2>1. CASE WorkerStart(w)
    <3> USE <2>1 DEF WorkerStart
    <3>1. worker'[w] = "updating"
      BY DEF TypeOK, Live, Cover
    <3>2. command'[w] = <<w, NumWorkers>>
      BY <3>1 DEF Undisturbed
    <3>3. key_index'[w] = command'[w][1]
      BY DEF TypeOK, Commands
    <3>4. key_index'[w] = w
      BY <3>2, <3>3
    <3>5. OnList(w, key_index[w])' /\ ListDoneUpTo(w, key_index[w])'
      BY <3>4, ListStart DEF OnList, ListDoneUpTo
    <3> QED
      BY <3>1, <3>5
  <2>2. CASE WorkerCrash(w)
    <3>1. worker'[w] = "dead"
      BY <2>2 DEF WorkerCrash, TypeOK
    <3> QED
      BY <3>1
  <2>3. CASE WorkerUpdate(w)
    <3> DEFINE k == key_index[w]
    <3> USE <2>3 DEF WorkerUpdate
    <3>0. k \in Nat /\ NumWorkers \in Nat \ {0} /\ w \in Nat
      BY SizeAssumption DEF TypeOK, Workers
    <3>7. worker[w] = "updating"
      BY <1>0
    <3>1. command[w][2] = NumWorkers
      BY <3>7 DEF Undisturbed
    <3>2. key_index'[w] = k + NumWorkers /\ worker'[w] = "updating"
      BY <3>1, <3>7 DEF TypeOK
    <3>3. OnList(w, k) /\ ListDoneUpTo(w, k)
      BY DEF Cover
    <3>4. OnList(w, k + NumWorkers)
      <4>1. PICK m \in Nat : k = w + m * NumWorkers
        BY <3>3 DEF OnList
      <4>2. (m + 1) * NumWorkers = m * NumWorkers + NumWorkers
        BY <3>0
      <4>3. k + NumWorkers = w + (m + 1) * NumWorkers /\ m + 1 \in Nat
        BY <3>0, <4>1, <4>2
      <4> QED
        BY <4>3 DEF OnList
    <3>5. ASSUME NEW h \in Keys, OnList(w, h), h < k + NumWorkers
          PROVE  h \in updated'
      <4>1. h \in Nat
        BY SizeAssumption DEF Keys
      <4>2. h < k \/ h = k
        BY <3>0, <3>3, <3>5, <4>1, NoneBetween
      <4>3. h < k => h \in updated
        BY <3>3, <3>5 DEF ListDoneUpTo
      <4> QED
        BY <4>2, <4>3
    <3>6. OnList(w, key_index[w])' /\ ListDoneUpTo(w, key_index[w])'
      BY <3>2, <3>4, <3>5 DEF OnList, ListDoneUpTo
    <3> QED
      BY <3>2, <3>6
  <2>4. CASE WorkerDone(w)
    <3> USE <2>4 DEF WorkerDone
    <3>1. worker'[w] = "replied" /\ updated' = updated
      BY <1>0 DEF TypeOK
    <3>2. ListDoneUpTo(w, key_index[w])
      BY DEF Cover
    <3>3. \A k \in Keys : k < key_index[w]
      BY SizeAssumption DEF Keys, TypeOK
    <3>4. ListDone(w)'
      BY <3>1, <3>2, <3>3 DEF ListDone, ListDoneUpTo, OnList
    <3> QED
      BY <3>1, <3>4
  <2> QED
    BY <2>1, <2>2, <2>3, <2>4 DEF Worker
<1> QED
  BY <1>0, <1>7, <1>8, <1>9, <1>10 DEF Cover, Waiting

\* A thread ends with the reply only, for no worker has crashed.
LEMMA ThreadCovers ==
    ASSUME CInv, Undisturbed, NEW w \in Workers, Thread(w)
    PROVE  Cover'
<1> USE DEF CInv, IInv, coordinator, clients
<1>1. UNCHANGED <<pc, i, key_index, updated>>
  BY DEF Thread, ThreadSends, ThreadEnds
<1>2. \A v \in Workers : worker'[v] # "accept" => worker'[v] = worker[v]
  BY DEF Thread, ThreadSends, ThreadEnds, TypeOK
<1>3. \A v \in Workers :
         sender'[v] = "ended" => sender[v] = "ended" \/ worker[v] = "replied"
  BY DEF Thread, ThreadSends, ThreadEnds, TypeOK, Undisturbed
<1>4. \A v \in Workers : Waiting(v)'
  BY ThreadWaits
<1> QED
  BY <1>1, <1>2, <1>3, <1>4 DEF Waiting, Cover, OnList, ListDone, ListDoneUpTo

\* When a thread is created no worker has work left, or a list that counts.
LEMMA CreateCovers == ASSUME CInv, Create PROVE Cover'
<1> USE DEF CInv, IInv, Create, clients
<1>0. i \in Workers /\ i \in Nat
  BY SizeAssumption DEF TypeOK, Workers
<1>1. pc' \in {"join", "clear"} /\ (pc' = "join" => i' = 0)
  BY <1>0, LoopIndex
<1>2. \A v \in Workers : v \in Nat
  BY DEF Workers
<1>5. \A v \in Workers : Waiting(v)'
  <2>1. sender[i] = "none" /\ backlog[i] = << >>
    BY <1>0 DEF Senders, Sending, Cover
  <2> QED
    BY <2>1 DEF Waiting, Cover, TypeOK
<1>3. CASE i = 0
  <2>1. \A v \in Workers : sender[v] = "none"
    BY <1>2, <1>3 DEF Senders, Sending
  <2>2. \A v \in Workers : sender'[v] # "ended" /\ worker'[v] \notin {"updating", "replied"}
    BY <2>1 DEF Senders, TypeOK
  <2> QED
    BY <1>1, <1>2, <1>5, <2>2 DEF Cover, Waiting
<1>4. CASE i # 0
  <2>1. updated' = updated /\ worker' = worker /\ key_index' = key_index
    BY <1>4
  <2>2. \A v \in Workers : sender'[v] = "ended" => sender[v] = "ended"
    BY DEF TypeOK
  <2> QED
    BY <1>1, <1>2, <1>5, <2>1, <2>2 DEF Cover, Waiting, OnList, ListDone, ListDoneUpTo
<1> QED
  BY <1>3, <1>4

\* The last thread joined, every list is done.
LEMMA JoinCovers == ASSUME CInv, Undisturbed, Join PROVE Cover'
<1> USE DEF CInv, IInv, Join, workers, clients
<1>0. i \in Workers /\ i \in Nat /\ NumWorkers \in Nat
  BY SizeAssumption DEF TypeOK, Workers
<1>1. /\ pc' = "join" => i' = i + 1
      /\ pc' = "stop_clients" => i + 1 = NumWorkers
      /\ pc' \in {"join", "stop_clients"}
  BY <1>0, LoopIndex
<1>8. sender[i] = "ended"
  BY <1>0 DEF Undisturbed
<1>2. ListDone(i) /\ \A v \in Workers : v < i => ListDone(v)
  BY <1>0, <1>8 DEF Cover
<1>9. \A v \in Workers : Waiting(v)'
  BY <1>8 DEF Waiting, Cover, TypeOK
<1>3. \A v \in Workers : v \in Nat /\ v < NumWorkers
  BY <1>0 DEF Workers
<1>4. \A v \in Workers : (pc' = "join" /\ v < i') \/ pc' = "stop_clients" => ListDone(v)
  BY <1>0, <1>1, <1>2, <1>3
<1>5. pc' = "stop_clients" => updated = Keys
  <2> SUFFICES ASSUME pc' = "stop_clients" PROVE updated = Keys
    OBVIOUS
  <2>1. \A k \in Keys : k \in updated
    BY <1>4, EveryRecordListed DEF ListDone
  <2> QED
    BY <2>1 DEF TypeOK
<1>6. \A v \in Workers : sender'[v] = "ended" => sender[v] = "ended"
  BY DEF TypeOK
<1>7. UNCHANGED <<worker, key_index, updated>>
  OBVIOUS
<1> QED
  BY <1>1, <1>4, <1>5, <1>6, <1>7, <1>9 DEF Cover, Waiting, OnList, ListDone, ListDoneUpTo

\* The other steps leave the lists alone and come to no join or stop.
LEMMA OthersCover ==
    ASSUME CInv, Undisturbed,
           \/ \E c \in Clients : SendRootKey(c) \/ SendStart(c) \/ SendStop(c) \/ SendEnd(c)
           \/ StartNextLoop \/ ConnectFails \/ Connect \/ WriteParams
           \/ \E c \in Clients : Main(c)
           \/ UNCHANGED vars
    PROVE  Cover'
<1>0. ~ConnectFails
  BY DEF ConnectFails, Undisturbed, CInv, IInv, TypeOK
<1>1. UNCHANGED <<sender, backlog, worker, key_index, updated, i>>
  BY <1>0 DEF SendRootKey, SendStart, SendStop, SendEnd, StartNextLoop, Connect,
         WriteParams, Param, Main, ClientBoot, vars, coordinator, workers, clients
<1>2. pc' \in {"join", "stop_clients"} => pc' = pc
  BY DEF SendRootKey, SendStart, SendStop, SendEnd, StartNextLoop, NextLoop, AllTold,
         ConnectFails, Connect, WriteParams, Param, Main, ClientBoot, vars, coordinator
<1> QED
  BY <1>1, <1>2 DEF CInv, Cover, OnList, ListDone, ListDoneUpTo

LEMMA NextCovers ==
    CInv /\ Undisturbed /\ Undisturbed' /\ [Next]_vars => CInv'
<1> SUFFICES ASSUME CInv, Undisturbed, Undisturbed', [Next]_vars PROVE Cover'
  BY NextInv DEF CInv
<1>1. CASE Coordinate
  BY <1>1, CreateCovers, JoinCovers, OthersCover DEF Coordinate
<1>2. ASSUME NEW w \in Workers,
             Worker(w) \/ Thread(w) \/ WorkerExits(w) \/ ConnectionLost(w)
      PROVE  Cover'
  <2>1. ~WorkerExits(w) /\ ~ConnectionLost(w)
    BY DEF WorkerExits, ConnectionLost, Undisturbed, CInv, IInv, TypeOK
  <2> QED
    BY <1>2, <2>1, WorkerCovers, ThreadCovers
<1>3. CASE (\E c \in Clients : Main(c)) \/ UNCHANGED vars
  BY <1>3, OthersCover
<1> QED
  BY <1>1, <1>2, <1>3 DEF Next

\* "Update machines will go through their list" (update_round_coordinator.c,
\* line 225), for any number of workers and records, with whatever remainder:
\* if every worker gets its own numbers and none crashes, each round updates
\* every record before the clients are stopped.
THEOREM ListsCover == Spec => ListsCoverEveryRecord
<1>1. Init => CInv
  BY InitInv, InitCover DEF CInv
<1>2. CInv => RoundUpdatesEveryRecord
  BY DEF CInv, Cover, RoundUpdatesEveryRecord
<1> QED
  BY <1>1, <1>2, NextCovers, PTL DEF Spec, ListsCoverEveryRecord
=============================================================================
