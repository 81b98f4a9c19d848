---------------------------- MODULE Populate_proofs ----------------------------
(***************************************************************************)
(* Proofs about Populate and the Transport below it, for any number of     *)
(* runs of populate, of routine clients, records and starts of the server. *)
(***************************************************************************)
EXTENDS Populate, SequenceTheorems, TLAPS

Active == {"connect", "send", "wait"}

(***************************************************************************)
(* Connections.  One that is in the queue or served is the latest of its   *)
(* client, which has not had the whole reply; the one before it, when its  *)
(* client still waits, was answered.                                       *)
(***************************************************************************)
Held == ToSet(queue) \cup ({connfd} \ {None})

HeldConnections ==
    \A conn \in Held :
        LET c == conn[1] IN
        /\ conn \in Clients \X Nat
        /\ conn[2] = at[c]
        /\ conn[2] \in 1 .. Len(Program(c))
        /\ pc[c] \in {"send", "wait", "ended"}
        /\ reply[c] # "whole"
        /\ sent[c] \in 0 .. Len(Program(c)[conn[2]].arr) + 1

OpenConnections ==
    /\ \A conn \in open :
          /\ conn[2] <= at[conn[1]]
          /\ pc[conn[1]] \in {"idle", "connect"} => conn[2] < at[conn[1]]
          /\ conn \in {connfd, prevconnection} \/ (pc[conn[1]] = "ended" /\ sent[conn[1]] = 0)
    /\ \A i \in DOMAIN queue : queue[i] \notin open
    /\ \A i, j \in DOMAIN queue : queue[i] = queue[j] => i = j
    /\ connfd # None => connfd # prevconnection
    /\ \A c \in Clients :
          prevconnection = Connection(c) /\ pc[c] \in {"send", "wait"} => reply[c] = "whole"

Steps ==
    /\ \A c \in Clients :
          /\ at[c] >= 1
          /\ pc[c] = "idle" => at[c] = 1
          /\ pc[c] \in Active => at[c] <= Len(Program(c))
    /\ ~up => queue = << >> /\ open = {}
    /\ result # "none" => connfd # None

Wired == TransportTypeOK /\ HeldConnections /\ OpenConnections /\ Steps
-----------------------------------------------------------------------------
(***************************************************************************)
(* The order of requests.  What waits to be served before a POPULATE is no *)
(* run of populate, and savebuf has what its SAVEDATA put there -- unless  *)
(* the server was started again.                                           *)
(***************************************************************************)
TypeAt(n) == Types[(n + 1) \div 2]

Unserved == connfd # None /\ result = "none"
Waits(conn) == conn \in ToSet(queue) \/ (conn = connfd /\ Unserved)

\* The connection of client c has been served, or it has ended.
Served(c) ==
    /\ pc[c] \in {"send", "wait"}
    /\ reply[c] = "whole" \/ (connfd = Connection(c) /\ result # "none") \/ ~Live(c)

\* Nothing but run p of populate and the coordinator waits.
Quiet(p) == \A conn : Waits(conn) => conn[1] \in {p, Coordinator}

SavedFor(p, n) ==
    \/ savebuf = <<TypeAt(n), p>>
    \/ savebuf = Empty /\ restarts > 0 /\ (pc[p] \in Active => run # "clean")

Stores(conn) == conn[1] \in Populates /\ conn[2] % 2 = 0

StoresInOrder ==
    /\ Unserved /\ Stores(connfd) => SavedFor(connfd[1], connfd[2])
    /\ \A j \in DOMAIN queue : Stores(queue[j]) =>
          /\ SavedFor(queue[j][1], queue[j][2])
          /\ \A i \in 1 .. j - 1 : queue[i][1] \notin Populates
          /\ Unserved => connfd[1] \notin Populates

ActiveInOrder(p) ==
    /\ \A c \in Populates \cup Routines : c # p => Idle(c)
    /\ \A i, j \in DOMAIN queue :
          i < j /\ queue[i][1] = p => queue[j][1] \in {p, Coordinator}
    /\ connfd # None /\ connfd[1] = p =>
          \A j \in DOMAIN queue : queue[j][1] \in {p, Coordinator}
    /\ at[p] >= 2 \/ Served(p) => Quiet(p)
    /\ pc[p] = "connect" /\ at[p] % 2 = 0 /\ up => SavedFor(p, at[p])
    /\ Served(p) /\ at[p] % 2 = 1 /\ up => SavedFor(p, at[p] + 1)
    /\ run = "clean" /\ (at[p] >= 2 \/ pc[p] # "connect") => up
    /\ run = "clean" /\ pc[p] # "connect" /\ reply[p] # "whole" => Live(p)

Orderly ==
    /\ StoresInOrder
    /\ \A p \in Populates : pc[p] \in Active => ActiveInOrder(p)
-----------------------------------------------------------------------------
(***************************************************************************)
(* The database.                                                           *)
(***************************************************************************)
Whole ==
    \A r \in ToSet(Records) :
        /\ \A type \in ToSet(Types) : db[Key(type, r)] \in Values
        /\ \A type \in {"header", "data"} : db[Key(type, r)][2] = db[Key("wrap", r)][2]

\* What an undisturbed run of populate has stored so far is there.
StoredSoFar(p) ==
    \A j \in 1 .. 5 :
        2 * j < at[p] \/ (2 * j = at[p] /\ Served(p)) =>
            \A r \in ToSet(Records) : db[Key(Types[j], r)] = <<Types[j], p>>

Filled ==
    /\ \A p \in Populates : pc[p] \in Active /\ run = "clean" => StoredSoFar(p)
    /\ run = "finished" =>
          /\ Whole
          /\ \A p \in Populates : Idle(p)
          /\ \A conn : Waits(conn) => conn[1] \notin Populates

Typed == TypeOK /\ KeysHoldTheirOwnType
-----------------------------------------------------------------------------
(***************************************************************************)
(* The programs and their requests.                                        *)
(***************************************************************************)
LEMMA Processes ==
    /\ Populates \subseteq Clients /\ Routines \subseteq Clients /\ Coordinator \in Clients
    /\ \A c \in Clients : c \in Populates \/ c \in Routines \/ c = Coordinator
    /\ \A c \in Routines : c \notin Populates /\ c # Coordinator
    /\ Coordinator \notin Populates
BY PopulateAssumption

LEMMA FiveTypes ==
    /\ Len(Types) = 5
    /\ ToSet(Types) = {"root_version", "ctxt_version", "wrap", "header", "data"}
    /\ \A i, j \in 1 .. 5 : Types[i] = Types[j] => i = j
    /\ \A i \in 1 .. 5 : Types[i] \in ToSet(Types)
BY DEF Types, ToSet

LEMMA FirstRecord == Records[1] \in ToSet(Records) /\ DOMAIN Records = 1 .. Len(Records) /\ Len(Records) \in Nat
<1>1. Records \in Seq(ToSet(Records)) /\ Len(Records) > 0
  BY RecordsAssumption
<1>2. DOMAIN Records = 1 .. Len(Records) /\ Len(Records) \in Nat
  BY <1>1
<1> QED
  BY <1>1, <1>2 DEF ToSet

LEMMA LenFcn ==
    ASSUME NEW S, NEW n \in Nat, NEW f \in [1 .. n -> S]
    PROVE  f \in Seq(S) /\ Len(f) = n
OBVIOUS

LEMMA PopulateRequests ==
    ASSUME NEW p \in Populates
    PROVE  /\ Len(Program(p)) = 10
           /\ \A n \in 1 .. 10 :
                 /\ TypeAt(n) \in ToSet(Types)
                 /\ n % 2 = 1 => Program(p)[n] = [op |-> "SAVEDATA", arr |-> <<<<TypeAt(n), p>>>>]
                 /\ n % 2 = 0 => Program(p)[n] = [op |-> "POPULATE", arr |-> KeysOf(TypeAt(n))]
<1>1. Program(p) = populate(p)
  BY Processes DEF Program
<1> DEFINE req(n) == IF n % 2 = 1 THEN [op |-> "SAVEDATA", arr |-> <<<<TypeAt(n), p>>>>]
                                  ELSE [op |-> "POPULATE", arr |-> KeysOf(TypeAt(n))]
<1>2. populate(p) = [n \in 1 .. 10 |-> req(n)]
  BY FiveTypes DEF populate, TypeAt
<1>3. Len(populate(p)) = 10
  <2> DEFINE S == {req(n) : n \in 1 .. 10}
  <2> HIDE DEF req
  <2>1. populate(p) \in [1 .. 10 -> S]
    BY <1>2
  <2> QED
    BY <2>1, LenFcn
<1>4. \A n \in 1 .. 10 : (n + 1) \div 2 \in 1 .. 5
  OBVIOUS
<1>5. \A n \in 1 .. 10 : TypeAt(n) \in ToSet(Types)
  BY <1>4, FiveTypes DEF TypeAt
<1>6. \A n \in 1 .. 10 : populate(p)[n] = req(n)
  BY <1>2
<1> QED
  BY <1>1, <1>3, <1>5, <1>6

LEMMA OtherRequests ==
    /\ \A c \in Routines :
          /\ Len(Program(c)) = 2
          /\ Program(c)[1] = getall(Records[1])
          /\ Program(c)[2] = setall(c, Records[1])
    /\ Len(Program(Coordinator)) = 1
    /\ Program(Coordinator)[1] = [op |-> "ROOTKEY", arr |-> <<RootKey>>]
BY Processes DEF Program

LEMMA KeysOfFacts ==
    ASSUME NEW type \in ToSet(Types)
    PROVE  /\ KeysOf(type) \in Seq(AllKeys) /\ Len(KeysOf(type)) = Len(Records)
           /\ ToSet(KeysOf(type)) = {Key(type, r) : r \in ToSet(Records)}
<1>1. \A i \in DOMAIN Records : Key(type, Records[i]) \in AllKeys
  BY DEF AllKeys, ToSet
<1>2. KeysOf(type) \in [1 .. Len(Records) -> AllKeys]
  BY <1>1, FirstRecord DEF KeysOf
<1> QED
  BY <1>2, FirstRecord, LenFcn DEF KeysOf, ToSet

LEMMA ArrLen == \A c \in Clients : \A n \in 1 .. Len(Program(c)) : Len(Program(c)[n].arr) \in Nat
<1>1. \A c \in Populates : \A n \in 1 .. Len(Program(c)) : Len(Program(c)[n].arr) \in Nat
  <2> SUFFICES ASSUME NEW c \in Populates, NEW n \in 1 .. 10
               PROVE  Len(Program(c)[n].arr) \in Nat
    BY PopulateRequests
  <2>1. CASE n % 2 = 1
    BY <2>1, PopulateRequests
  <2>2. CASE n % 2 = 0
    BY <2>2, PopulateRequests, KeysOfFacts, FirstRecord
  <2> QED
    BY <2>1, <2>2
<1>2. \A c \in Routines : \A n \in 1 .. Len(Program(c)) : Len(Program(c)[n].arr) \in Nat
  <2> SUFFICES ASSUME NEW c \in Routines, NEW n \in 1 .. 2
               PROVE  Len(Program(c)[n].arr) \in Nat
    BY OtherRequests
  <2>1. n = 1 \/ n = 2
    OBVIOUS
  <2> QED
    BY <2>1, OtherRequests DEF getall, setall
<1>3. \A n \in 1 .. Len(Program(Coordinator)) : Len(Program(Coordinator)[n].arr) \in Nat
  BY OtherRequests
<1> QED
  BY <1>1, <1>2, <1>3, Processes

LEMMA AppendFacts ==
    ASSUME NEW S, NEW s \in Seq(S), NEW e \in S
    PROVE  /\ Append(s, e) \in Seq(S) /\ Len(s) \in Nat /\ DOMAIN s = 1 .. Len(s)
           /\ Len(Append(s, e)) = Len(s) + 1 /\ DOMAIN Append(s, e) = 1 .. Len(s) + 1
           /\ \A i \in 1 .. Len(s) : Append(s, e)[i] = s[i]
           /\ Append(s, e)[Len(s) + 1] = e
           /\ ToSet(Append(s, e)) = ToSet(s) \cup {e}
<1>1. /\ Append(s, e) \in Seq(S) /\ Len(s) \in Nat /\ DOMAIN s = 1 .. Len(s)
      /\ Len(Append(s, e)) = Len(s) + 1 /\ DOMAIN Append(s, e) = 1 .. Len(s) + 1
      /\ \A i \in 1 .. Len(s) : Append(s, e)[i] = s[i]
      /\ Append(s, e)[Len(s) + 1] = e
  BY AppendProperties
<1>2. ToSet(Append(s, e)) = ToSet(s) \cup {e}
  <2>1. \A i \in 1 .. Len(s) + 1 : i \in 1 .. Len(s) \/ i = Len(s) + 1
    BY <1>1
  <2>2. Len(s) + 1 \in 1 .. Len(s) + 1 /\ \A i \in 1 .. Len(s) : i \in 1 .. Len(s) + 1
    BY <1>1
  <2> QED
    BY <1>1, <2>1, <2>2 DEF ToSet
<1> QED
  BY <1>1, <1>2

LEMMA TailFacts ==
    ASSUME NEW S, NEW s \in Seq(S), s # << >>
    PROVE  /\ Tail(s) \in Seq(S) /\ Len(s) \in Nat \ {0} /\ DOMAIN s = 1 .. Len(s)
           /\ Len(Tail(s)) = Len(s) - 1 /\ DOMAIN Tail(s) = 1 .. Len(s) - 1
           /\ \A i \in 1 .. Len(s) - 1 : i + 1 \in 1 .. Len(s) /\ Tail(s)[i] = s[i + 1]
           /\ Head(s) = s[1] /\ Head(s) \in ToSet(s) /\ Head(s) \in S
           /\ ToSet(s) = ToSet(Tail(s)) \cup {Head(s)}
<1>1. /\ Tail(s) \in Seq(S) /\ Len(s) \in Nat \ {0} /\ DOMAIN s = 1 .. Len(s)
      /\ Len(Tail(s)) = Len(s) - 1 /\ DOMAIN Tail(s) = 1 .. Len(s) - 1
      /\ \A i \in 1 .. Len(s) - 1 : Tail(s)[i] = s[i + 1]
      /\ Head(s) = s[1] /\ Head(s) \in S
  BY HeadTailProperties
<1>2. \A i \in 1 .. Len(s) - 1 : i + 1 \in 1 .. Len(s)
  BY <1>1
<1>3. 1 \in 1 .. Len(s)
  BY <1>1
<1>4. \A i \in 1 .. Len(s) : i = 1 \/ (i - 1 \in 1 .. Len(s) - 1 /\ (i - 1) + 1 = i)
  BY <1>1
<1>5. ToSet(s) = ToSet(Tail(s)) \cup {Head(s)}
  <2>1. ToSet(Tail(s)) \subseteq ToSet(s) /\ Head(s) \in ToSet(s)
    BY <1>1, <1>2, <1>3 DEF ToSet
  <2>2. ASSUME NEW i \in 1 .. Len(s) PROVE s[i] \in ToSet(Tail(s)) \cup {Head(s)}
    <3>1. CASE i = 1
      BY <1>1, <3>1
    <3>2. CASE i # 1
      <4>1. i - 1 \in 1 .. Len(s) - 1 /\ s[i] = Tail(s)[i - 1]
        BY <1>1, <1>4, <3>2
      <4> QED
        BY <1>1, <4>1 DEF ToSet
    <3> QED
      BY <3>1, <3>2
  <2> QED
    BY <1>1, <2>1, <2>2 DEF ToSet
<1> QED
  BY <1>1, <1>2, <1>3, <1>5 DEF ToSet

LEMMA QueueElements ==
    ASSUME NEW S, NEW s \in Seq(S)
    PROVE  /\ Len(s) \in Nat /\ DOMAIN s = 1 .. Len(s)
           /\ ToSet(s) \subseteq S
           /\ \A i \in DOMAIN s : s[i] \in ToSet(s)
           /\ \A x \in ToSet(s) : \E i \in DOMAIN s : s[i] = x
BY DEF ToSet
-----------------------------------------------------------------------------
(***************************************************************************)
(* Connections.                                                            *)
(***************************************************************************)
LEMMA InitWired == Init => Wired
<1> SUFFICES ASSUME Init PROVE Wired
  OBVIOUS
<1> USE DEF Init, TransportInit
<1>1. /\ << >> \in Seq(Clients \X Nat) /\ Len(<< >>) = 0 /\ DOMAIN << >> = {}
      /\ ToSet(<< >>) = {}
  BY DEF ToSet
<1>2. TransportTypeOK
  BY <1>1, TransportAssumption DEF TransportTypeOK
<1>3. HeldConnections
  BY <1>1 DEF HeldConnections, Held
<1>4. OpenConnections
  BY <1>1 DEF OpenConnections, None, Connection
<1>5. Steps
  BY DEF Steps, Active
<1> QED
  BY <1>2, <1>3, <1>4, <1>5 DEF Wired

LEMMA ProgramLen == \A c \in Clients : Len(Program(c)) \in Nat \ {0}
<1>1. \A c \in Populates : Len(Program(c)) = 10
  BY PopulateRequests
<1>2. \A c \in Routines : Len(Program(c)) = 2
  BY OtherRequests
<1>3. Len(Program(Coordinator)) = 1
  BY OtherRequests
<1> QED
  BY <1>1, <1>2, <1>3, Processes

LEMMA PairNotNone == ASSUME NEW conn \in Clients \X Nat PROVE conn # None
<1>1. PICK c \in Clients, n \in Nat : conn = <<c, n>>
  OBVIOUS
<1> QED
  BY <1>1 DEF None

LEMMA IsConnection ==
    ASSUME NEW conn \in Clients \X Nat, NEW c \in Clients, conn[1] = c, conn[2] = at[c]
    PROVE  conn = Connection(c)
BY DEF Connection

\* The steps that leave the connections, and what is said of those of other
\* clients, alone.
LEMMA WiredStart ==
    ASSUME Wired, NEW c \in Clients, pc[c] = "idle", pc' = [pc EXCEPT ![c] = "connect"],
           UNCHANGED <<at, tries, sent, reply, up, restarts, thread>>
    PROVE  Wired'
<1> USE DEF Wired, TransportTypeOK, thread
<1>1. TransportTypeOK'
  OBVIOUS
<1>2. Held' = Held /\ \A conn \in Held : conn[1] # c
  BY DEF Held, HeldConnections
<1>3. HeldConnections'
  BY <1>2 DEF HeldConnections
<1>4. OpenConnections'
  BY DEF OpenConnections, Connection
<1>5. Steps'
  BY ProgramLen DEF Steps, Active
<1> QED
  BY <1>1, <1>3, <1>4, <1>5

LEMMA WiredConnectFails ==
    ASSUME Wired, NEW c \in Clients, ConnectFails(c)
    PROVE  Wired'
<1> USE DEF Wired, TransportTypeOK, thread, ConnectFails
<1>1. TransportTypeOK'
  <2>1. CASE tries[c] = Retries
    BY <2>1
  <2>2. CASE tries[c] # Retries
    <3>1. tries[c] + 1 \in 0 .. Retries
      BY <2>2, TransportAssumption
    <3> QED
      BY <2>2, <3>1
  <2> QED
    BY <2>1, <2>2
<1>2. Held' = Held /\ \A conn \in Held : conn[1] # c
  BY DEF Held, HeldConnections
<1>3. HeldConnections'
  BY <1>2 DEF HeldConnections
<1>4. open = {}
  BY DEF Steps
<1>5. OpenConnections'
  BY <1>4 DEF OpenConnections, Connection
<1>6. Steps'
  BY DEF Steps, Active
<1> QED
  BY <1>1, <1>3, <1>5, <1>6

LEMMA WiredStops ==
    ASSUME Wired, NEW c \in Clients,
           Killed(c) \/ SendFails(c)
    PROVE  Wired'
<1> USE DEF Wired, TransportTypeOK, thread, Killed, SendFails
<1>1. TransportTypeOK'
  OBVIOUS
<1>2. Held' = Held
  BY DEF Held
<1>3. HeldConnections'
  BY <1>2 DEF HeldConnections
<1>4. OpenConnections'
  <2>1. UNCHANGED <<queue, connfd, prevconnection, open, at, sent, reply>>
    OBVIOUS
  <2>2. \A d \in Clients : /\ pc[d] = "ended" => pc'[d] = "ended"
                           /\ pc'[d] \in {"send", "wait"} => pc[d] \in {"send", "wait"}
                           /\ pc'[d] \in {"idle", "connect"} => pc'[d] = pc[d]
    OBVIOUS
  <2>3. \A conn \in open : conn[1] \in Clients
    OBVIOUS
  <2> QED
    BY <2>1, <2>2, <2>3 DEF OpenConnections, Connection
<1>5. Steps'
  BY DEF Steps, Active
<1> QED
  BY <1>1, <1>3, <1>4, <1>5

LEMMA WiredSend ==
    ASSUME Wired, NEW c \in Clients, pc[c] = "send", Send(c, Size(c), Long(c))
    PROVE  Wired'
<1> USE DEF Wired, TransportTypeOK, thread, Send
<1>1. at[c] \in 1 .. Len(Program(c)) /\ Size(c) \in Nat \ {0}
  <2>1. at[c] \in Nat /\ at[c] >= 1 /\ at[c] <= Len(Program(c)) /\ Len(Program(c)) \in Nat
    BY ProgramLen DEF Steps, Active
  <2>2. at[c] \in 1 .. Len(Program(c))
    BY <2>1
  <2>3. Len(Program(c)[at[c]].arr) \in Nat
    BY <2>2, ArrLen
  <2> QED
    BY <2>2, <2>3 DEF Size, Request
<1>2. PICK n \in 1 .. Size(c) : /\ sent' = [sent EXCEPT ![c] = n]
                                /\ pc' = [pc EXCEPT ![c] = IF n = Size(c) THEN "wait" ELSE "send"]
  <2>1. PICK n \in IF Long(c) THEN sent[c] + 1 .. Size(c) ELSE {Size(c)} :
              /\ sent' = [sent EXCEPT ![c] = n]
              /\ pc' = [pc EXCEPT ![c] = IF n = Size(c) THEN "wait" ELSE "send"]
    OBVIOUS
  <2>2. n \in 1 .. Size(c)
    BY <1>1
  <2> QED
    BY <2>1, <2>2
<1>3. TransportTypeOK'
  BY <1>1, <1>2
<1>4. Held' = Held
  BY DEF Held
<1>5. HeldConnections'
  <2> SUFFICES ASSUME NEW conn \in Held PROVE HeldConnections!(conn)'
    BY <1>4 DEF HeldConnections
  <2>1. HeldConnections!(conn) /\ conn[1] \in Clients
    BY DEF HeldConnections
  <2>2. CASE conn[1] = c
    <3>1. conn[2] = at[c]
      BY <2>1, <2>2
    <3>2. sent'[c] = n /\ n \in 0 .. Len(Program(c)[conn[2]].arr) + 1
      BY <1>1, <1>2, <3>1 DEF Size, Request
    <3> QED
      BY <1>2, <2>1, <2>2, <3>2
  <2>3. CASE conn[1] # c
    BY <1>2, <2>1, <2>3
  <2> QED
    BY <2>2, <2>3
<1>6. OpenConnections'
  <2>1. UNCHANGED <<queue, connfd, prevconnection, open, at, reply>>
    OBVIOUS
  <2>2. \A d \in Clients : /\ pc[d] = "ended" => pc'[d] = "ended" /\ sent'[d] = sent[d]
                           /\ pc'[d] \in {"send", "wait"} => pc[d] \in {"send", "wait"}
                           /\ pc'[d] \in {"idle", "connect"} => pc'[d] = pc[d]
    BY <1>2
  <2>3. \A conn \in open : conn[1] \in Clients
    OBVIOUS
  <2> QED
    BY <2>1, <2>2, <2>3 DEF OpenConnections, Connection
<1>7. Steps'
  BY <1>2 DEF Steps, Active
<1> QED
  BY <1>3, <1>5, <1>6, <1>7

LEMMA WiredConnect ==
    ASSUME Wired, NEW c \in Clients, Connect(c)
    PROVE  Wired'
<1> USE DEF Wired, TransportTypeOK, Connect
<1>1. /\ Connection(c) \in Clients \X Nat /\ Connection(c)[1] = c /\ Connection(c)[2] = at[c]
      /\ at[c] \in 1 .. Len(Program(c)) /\ Connection(c) # None
  BY ProgramLen DEF Connection, Steps, Active, None
<1>2. /\ queue' \in Seq(Clients \X Nat) /\ Len(queue') = Len(queue) + 1
      /\ DOMAIN queue' = 1 .. Len(queue) + 1 /\ DOMAIN queue = 1 .. Len(queue)
      /\ \A i \in 1 .. Len(queue) : queue'[i] = queue[i]
      /\ queue'[Len(queue) + 1] = Connection(c)
      /\ ToSet(queue') = ToSet(queue) \cup {Connection(c)}
      /\ Len(queue) \in Nat
  <2>1. queue \in Seq(Clients \X Nat) /\ queue' = Append(queue, Connection(c))
    OBVIOUS
  <2> DEFINE S == Clients \X Nat
  <2> HIDE DEF Wired, TransportTypeOK, Connect, S
  <2>2. queue \in Seq(S) /\ Connection(c) \in S
    BY <1>1, <2>1 DEF S
  <2>3. /\ Append(queue, Connection(c)) \in Seq(S) /\ Len(queue) \in Nat /\ DOMAIN queue = 1 .. Len(queue)
        /\ Len(Append(queue, Connection(c))) = Len(queue) + 1
        /\ DOMAIN Append(queue, Connection(c)) = 1 .. Len(queue) + 1
        /\ \A i \in 1 .. Len(queue) : Append(queue, Connection(c))[i] = queue[i]
        /\ Append(queue, Connection(c))[Len(queue) + 1] = Connection(c)
        /\ ToSet(Append(queue, Connection(c))) = ToSet(queue) \cup {Connection(c)}
    BY <2>2, AppendFacts
  <2> QED
    BY <2>1, <2>3 DEF S
<1>3. TransportTypeOK'
  <2>1. Len(queue') <= Backlog
    BY <1>2, TransportAssumption
  <2>2. tries' \in [Clients -> 0 .. Retries]
    BY TransportAssumption
  <2>3. pc' \in [Clients -> {"idle", "connect", "send", "wait", "ended"}]
    OBVIOUS
  <2> QED
    BY <1>2, <2>1, <2>2, <2>3
<1>4. \A conn \in Held : conn[1] # c
  BY DEF Held, HeldConnections
<1>5. Held' = Held \cup {Connection(c)}
  BY <1>2 DEF Held
<1>6. \A n \in 1 .. Len(Program(c)) : Len(Program(c)[n].arr) \in Nat
  BY ArrLen
<1>7. HeldConnections'
  <2> SUFFICES ASSUME NEW conn \in Held' PROVE HeldConnections!(conn)'
    BY DEF HeldConnections
  <2>1. CASE conn \in Held
    BY <1>4, <2>1 DEF HeldConnections
  <2>2. CASE conn = Connection(c)
    <3>1. pc'[c] \in {"send", "wait", "ended"} /\ reply'[c] # "whole" /\ sent'[c] = 0
      OBVIOUS
    <3>2. Len(Program(c)[at[c]].arr) \in Nat
      BY <1>1, <1>6
    <3> QED
      BY <1>1, <2>2, <3>1, <3>2
  <2> QED
    BY <1>5, <2>1, <2>2
<1>8. OpenConnections'
  <2>1. \A conn \in open : conn \in Clients \X Nat /\ (conn[1] = c => conn[2] < at[c])
    BY DEF OpenConnections
  <2>2. Connection(c) \notin open
    <3>1. at[c] \in Nat
      OBVIOUS
    <3> QED
      <4> HIDE DEF Wired, TransportTypeOK, Connect
      <4> QED
        BY <1>1, <2>1, <3>1
  <2>3. \A i \in DOMAIN queue : queue[i] # Connection(c)
    BY <1>1, <1>4, QueueElements DEF Held
  <2>4. \A i \in DOMAIN queue' : queue'[i] \notin open
    BY <1>2, <2>2 DEF OpenConnections
  <2>5. \A i, j \in DOMAIN queue' : queue'[i] = queue'[j] => i = j
    <3> SUFFICES ASSUME NEW i \in DOMAIN queue', NEW j \in DOMAIN queue', queue'[i] = queue'[j]
                 PROVE  i = j
      OBVIOUS
    <3> HIDE DEF Wired, TransportTypeOK, Connect
    <3>1. i \in DOMAIN queue \/ i = Len(queue) + 1
      BY <1>2
    <3>2. j \in DOMAIN queue \/ j = Len(queue) + 1
      BY <1>2
    <3> QED
      <4>1. \A k, l \in DOMAIN queue : queue[k] = queue[l] => k = l
        BY DEF OpenConnections, Wired
      <4> QED
        BY <1>2, <2>3, <3>1, <3>2, <4>1
  <2>6. ASSUME NEW conn \in open
        PROVE /\ conn[2] <= at'[conn[1]]
              /\ pc'[conn[1]] \in {"idle", "connect"} => conn[2] < at'[conn[1]]
              /\ conn \in {connfd, prevconnection}
                 \/ (pc'[conn[1]] = "ended" /\ sent'[conn[1]] = 0)
    BY <2>1, <2>6 DEF OpenConnections
  <2>7. ASSUME NEW d \in Clients, prevconnection = Connection(d), pc'[d] \in {"send", "wait"}
        PROVE  reply'[d] = "whole"
    <3>1. Connection(d) # None
      BY DEF Connection, None
    <3>2. prevconnection \in open
      BY <2>7, <3>1
    <3>3. d # c
      BY <2>2, <2>7, <3>2
    <3> QED
      BY <2>7, <3>3 DEF OpenConnections
  <2>8. Connection(c)' = Connection(c) /\ \A d \in Clients : Connection(d)' = Connection(d)
    BY DEF Connection
  <2> QED
    BY <2>4, <2>5, <2>6, <2>7, <2>8 DEF OpenConnections
<1>9. Steps'
  BY DEF Steps, Active
<1> QED
  BY <1>3, <1>7, <1>8, <1>9

LEMMA WiredProceed ==
    ASSUME Wired, NEW c \in Clients, NEW next \in {"connect", "ended"},
           pc[c] = "wait", reply[c] = "whole" \/ ~Live(c),
           next = "connect" => ~AtLast(c),
           Proceed(c, next)
    PROVE  Wired'
<1> USE DEF Wired, TransportTypeOK, Proceed, thread
<1>1. at[c] \in 1 .. Len(Program(c)) /\ Len(Program(c)) \in Nat
  BY ProgramLen DEF Steps, Active
<1>2. TransportTypeOK'
  <2>1. at' \in [Clients -> Nat]
    OBVIOUS
  <2>2. pc' \in [Clients -> {"idle", "connect", "send", "wait", "ended"}]
    OBVIOUS
  <2> QED
    BY <2>1, <2>2
<1>3. Held' = Held
  BY DEF Held
<1>4. Connection(c) \notin Held
  <2>1. CASE reply[c] = "whole"
    BY <2>1 DEF HeldConnections, Connection
  <2>2. CASE ~Live(c)
    BY <2>2 DEF Live, Held
  <2> QED
    BY <2>1, <2>2
<1>5. \A conn \in Held : conn[1] # c
  <2> SUFFICES ASSUME NEW conn \in Held, conn[1] = c PROVE FALSE
    OBVIOUS
  <2>1. conn \in Clients \X Nat /\ conn[2] = at[c]
    BY DEF HeldConnections
  <2> QED
    BY <1>4, <2>1, IsConnection
<1>6. HeldConnections'
  BY <1>3, <1>5 DEF HeldConnections
<1>7. OpenConnections'
  <2>1. ASSUME NEW conn \in open
        PROVE /\ conn[2] <= at'[conn[1]]
              /\ pc'[conn[1]] \in {"idle", "connect"} => conn[2] < at'[conn[1]]
              /\ conn \in {connfd, prevconnection}
                 \/ (pc'[conn[1]] = "ended" /\ sent'[conn[1]] = 0)
    BY <2>1 DEF OpenConnections
  <2>2. ASSUME NEW d \in Clients, prevconnection = Connection(d)', pc'[d] \in {"send", "wait"}
        PROVE  reply'[d] = "whole"
    BY <2>2 DEF OpenConnections, Connection
  <2> QED
    BY <2>1, <2>2 DEF OpenConnections
<1>8. Steps'
  BY <1>1 DEF Steps, Active, AtLast
<1> QED
  BY <1>2, <1>6, <1>7, <1>8

\* The server's steps.
LEMMA WiredAccept ==
    ASSUME Wired, Accept
    PROVE  Wired'
<1>1. /\ connfd = None /\ queue # << >> /\ queue \in Seq(Clients \X Nat)
      /\ connfd' = Head(queue) /\ queue' = Tail(queue) /\ open' = open \cup {Head(queue)}
      /\ UNCHANGED <<pc, at, tries, sent, reply, up, restarts, prevconnection, result>>
      /\ open \subseteq Clients \X Nat /\ prevconnection \in open \cup {None} /\ up
      /\ Len(queue) <= Backlog /\ Backlog \in Nat
  BY TransportAssumption DEF Wired, TransportTypeOK, Accept, clients
<1> DEFINE S == Clients \X Nat
<1>2. /\ Tail(queue) \in Seq(S) /\ Len(queue) \in Nat \ {0} /\ DOMAIN queue = 1 .. Len(queue)
      /\ Len(Tail(queue)) = Len(queue) - 1 /\ DOMAIN Tail(queue) = 1 .. Len(queue) - 1
      /\ \A i \in 1 .. Len(queue) - 1 : i + 1 \in 1 .. Len(queue) /\ Tail(queue)[i] = queue[i + 1]
      /\ Head(queue) = queue[1] /\ Head(queue) \in ToSet(queue) /\ Head(queue) \in S
      /\ ToSet(queue) = ToSet(Tail(queue)) \cup {Head(queue)}
  <2> HIDE DEF S
  <2>1. queue \in Seq(S) /\ queue # << >>
    BY <1>1 DEF S
  <2> QED
    BY <2>1, TailFacts
<1>3. Head(queue) # None
  BY <1>2 DEF None
<1>4. Held' = Held /\ Head(queue) \in Held
  BY <1>1, <1>2, <1>3 DEF Held
<1>5. TransportTypeOK'
  <2>1. queue' \in Seq(Clients \X Nat) /\ Len(queue') <= Backlog
    BY <1>1, <1>2
  <2>2. {connfd', prevconnection'} \subseteq open' \cup {None} /\ open' \subseteq Clients \X Nat
    BY <1>1, <1>2
  <2> QED
    BY <1>1, <2>1, <2>2 DEF Wired, TransportTypeOK
<1>6. HeldConnections'
  BY <1>1, <1>4 DEF Wired, HeldConnections
<1>7. OpenConnections'
  <2>1. Head(queue) \notin open /\ Head(queue) # prevconnection
    BY <1>1, <1>2, <1>3 DEF Wired, OpenConnections
  <2>2. \A i \in DOMAIN queue' : queue'[i] \notin open'
    <3>1. ASSUME NEW i \in 1 .. Len(queue) - 1 PROVE queue[i + 1] \notin open /\ queue[i + 1] # queue[1]
      BY <1>2 DEF Wired, OpenConnections
    <3> QED
      <4> SUFFICES ASSUME NEW i \in 1 .. Len(queue) - 1 PROVE Tail(queue)[i] \notin open'
        BY <1>1, <1>2
      <4>1. Tail(queue)[i] = queue[i + 1] /\ queue[i + 1] \notin open /\ queue[i + 1] # Head(queue)
        <5>1. Tail(queue)[i] = queue[i + 1] /\ Head(queue) = queue[1]
          BY <1>2
        <5> QED
          BY <3>1, <5>1
      <4> HIDE DEF S
      <4> QED
        BY <1>1, <4>1
  <2>3. \A i, j \in DOMAIN queue' : queue'[i] = queue'[j] => i = j
    <3>1. ASSUME NEW i \in 1 .. Len(queue) - 1, NEW j \in 1 .. Len(queue) - 1, queue[i + 1] = queue[j + 1]
          PROVE  i = j
      <4>1. i + 1 = j + 1
        BY <1>2, <3>1 DEF Wired, OpenConnections
      <4> QED
        BY <1>2, <4>1
    <3> QED
      <4> SUFFICES ASSUME NEW i \in 1 .. Len(queue) - 1, NEW j \in 1 .. Len(queue) - 1,
                          Tail(queue)[i] = Tail(queue)[j]
                   PROVE  i = j
        BY <1>1, <1>2
      <4>1. queue[i + 1] = queue[j + 1]
        BY <1>2
      <4> QED
        BY <3>1, <4>1
  <2>4. ASSUME NEW conn \in open'
        PROVE /\ conn[2] <= at[conn[1]]
              /\ pc[conn[1]] \in {"idle", "connect"} => conn[2] < at[conn[1]]
              /\ conn \in {connfd', prevconnection}
                 \/ (pc[conn[1]] = "ended" /\ sent[conn[1]] = 0)
    <3>1. CASE conn \in open
      <4>1. conn # None
        <5>1. conn \in Clients \X Nat
          BY <1>1, <3>1
        <5> QED
          BY <5>1, PairNotNone
      <4> QED
        BY <1>1, <3>1, <4>1 DEF Wired, OpenConnections
    <3>2. CASE conn = Head(queue)
      <4>1. conn[2] = at[conn[1]] /\ pc[conn[1]] \in {"send", "wait", "ended"} /\ conn[2] \in Nat
        BY <1>2, <1>4, <3>2 DEF Wired, HeldConnections
      <4> QED
        BY <1>1, <3>2, <4>1
    <3> QED
      BY <1>1, <3>1, <3>2
  <2> QED
    BY <1>1, <2>1, <2>2, <2>3, <2>4 DEF Wired, OpenConnections, Connection
<1>8. Steps'
  BY <1>1 DEF Wired, Steps
<1> QED
  BY <1>5, <1>6, <1>7, <1>8 DEF Wired

LEMMA ServedFacts ==
    ASSUME Wired, connfd # None
    PROVE  /\ connfd \in Clients \X Nat /\ connfd \in Held /\ connfd \in open
           /\ connfd[1] \in Clients /\ connfd[2] = at[connfd[1]]
           /\ connfd = Connection(connfd[1])
           /\ pc[connfd[1]] \in {"send", "wait", "ended"} /\ reply[connfd[1]] # "whole"
           /\ \A i \in DOMAIN queue : queue[i] # connfd
           /\ \A i \in DOMAIN queue : queue[i][1] # connfd[1]
           /\ Gone(connfd) <=> pc[connfd[1]] = "ended"
           /\ up
<1>1. connfd \in Held /\ connfd \in open /\ connfd \in Clients \X Nat
  BY DEF Wired, Held, TransportTypeOK
<1>2. connfd[1] \in Clients /\ connfd[2] = at[connfd[1]]
      /\ pc[connfd[1]] \in {"send", "wait", "ended"} /\ reply[connfd[1]] # "whole"
  BY <1>1 DEF Wired, HeldConnections
<1>3. connfd = Connection(connfd[1])
  BY <1>1, <1>2, IsConnection
<1>4. \A i \in DOMAIN queue : queue[i] # connfd
  BY <1>1 DEF Wired, OpenConnections
<1>5. ASSUME NEW i \in DOMAIN queue PROVE queue[i][1] # connfd[1]
  <2>1. queue[i] \in Held
    BY QueueElements DEF Wired, TransportTypeOK, Held
  <2>2. queue[i] \in Clients \X Nat /\ queue[i][2] = at[queue[i][1]]
    BY <2>1 DEF Wired, HeldConnections
  <2> QED
    BY <1>2, <1>3, <1>4, <2>2, IsConnection
<1>6. Gone(connfd) <=> pc[connfd[1]] = "ended"
  BY <1>2 DEF Gone
<1>7. up
  BY <1>1 DEF Wired, Steps, TransportTypeOK
<1> QED
  BY <1>1, <1>2, <1>3, <1>4, <1>5, <1>6, <1>7

LEMMA WiredHandled ==
    ASSUME Wired, connfd # None, Handled
    PROVE  Wired'
<1> USE DEF Wired, Handled, clients
<1>1. TransportTypeOK'
  BY DEF TransportTypeOK
<1>2. HeldConnections'
  BY DEF HeldConnections, Held
<1>3. OpenConnections'
  BY DEF OpenConnections, Connection
<1>4. Steps'
  BY DEF Steps
<1> QED
  BY <1>1, <1>2, <1>3, <1>4

LEMMA WiredIgnore ==
    ASSUME Wired, EmptyMessage, Unrecognised
    PROVE  Wired'
<1>1. /\ UNCHANGED <<pc, at, tries, sent, reply, up, restarts, queue, prevconnection, open, result>>
      /\ connfd' = None /\ connfd # None /\ result = "none"
      /\ sent[connfd[1]] = 0 /\ pc[connfd[1]] = "ended"
  BY ServedFacts DEF EmptyMessage, Unrecognised, clients, From
<1>2. TransportTypeOK'
  BY <1>1 DEF Wired, TransportTypeOK
<1>3. Held' \subseteq Held
  BY <1>1 DEF Held
<1>4. HeldConnections'
  BY <1>1, <1>3 DEF Wired, HeldConnections
<1>5. OpenConnections'
  BY <1>1 DEF Wired, OpenConnections, Connection
<1>6. Steps'
  BY <1>1 DEF Wired, Steps
<1> QED
  BY <1>2, <1>4, <1>5, <1>6 DEF Wired

LEMMA WiredReplyPart ==
    ASSUME Wired, connfd # None, ReplyPart
    PROVE  Wired'
<1>1. /\ UNCHANGED <<pc, at, tries, sent, up, restarts, queue, connfd, prevconnection, open>>
      /\ reply' = IF Gone(connfd) THEN reply ELSE [reply EXCEPT ![connfd[1]] = "part"]
      /\ result' = "partly" /\ connfd[1] \in Clients
  BY ServedFacts DEF ReplyPart, ToClient
<1>2. TransportTypeOK'
  BY <1>1 DEF Wired, TransportTypeOK
<1>3. \A c \in Clients : reply'[c] = reply[c] \/ (c = connfd[1] /\ reply'[c] = "part")
  BY <1>1 DEF Wired, TransportTypeOK
<1>4. HeldConnections'
  BY <1>1, <1>3 DEF Wired, HeldConnections, Held
<1>5. \A c \in Clients : prevconnection = Connection(c) => c # connfd[1]
  BY ServedFacts DEF Wired, OpenConnections, Connection
<1>6. OpenConnections'
  BY <1>1, <1>3, <1>5 DEF Wired, OpenConnections, Connection
<1>7. Steps'
  BY <1>1 DEF Wired, Steps
<1> QED
  BY <1>2, <1>4, <1>6, <1>7 DEF Wired

LEMMA WiredReply ==
    ASSUME Wired, connfd # None, Reply
    PROVE  Wired'
<1>1. /\ UNCHANGED <<pc, at, tries, sent, up, restarts, queue>>
      /\ reply' = IF Gone(connfd) THEN reply ELSE [reply EXCEPT ![connfd[1]] = "whole"]
      /\ open' = open \ {prevconnection}
      /\ prevconnection' = connfd /\ connfd' = None /\ result' = "none"
      /\ connfd \in open /\ connfd # prevconnection
      /\ connfd[1] \in Clients /\ connfd = Connection(connfd[1])
  BY ServedFacts DEF Reply, ToClient, Wired, OpenConnections
<1>2. TransportTypeOK'
  BY <1>1 DEF Wired, TransportTypeOK
<1>3. \A c \in Clients : reply'[c] = reply[c] \/ c = connfd[1]
  BY <1>1 DEF Wired, TransportTypeOK
<1>4. ASSUME NEW conn \in Held' PROVE conn \in Held /\ conn[1] # connfd[1]
  <2>1. conn \in ToSet(queue)
    BY <1>1, <1>4 DEF Held
  <2>2. PICK i \in DOMAIN queue : queue[i] = conn
    BY <2>1, QueueElements DEF Wired, TransportTypeOK
  <2>3. connfd # None
    OBVIOUS
  <2> QED
    BY <2>1, <2>2, <2>3, ServedFacts DEF Held
<1>5. HeldConnections'
  BY <1>1, <1>3, <1>4 DEF Wired, HeldConnections
<1>6. OpenConnections'
  <2>1. ASSUME NEW c \in Clients, prevconnection' = Connection(c), pc[c] \in {"send", "wait"}
        PROVE  reply'[c] = "whole"
    <3>1. c = connfd[1]
      BY <1>1, <2>1 DEF Connection
    <3>2. ~Gone(connfd)
      BY <2>1, <3>1, ServedFacts
    <3> QED
      BY <1>1, <3>1, <3>2 DEF Wired, TransportTypeOK
  <2> QED
    BY <1>1, <2>1 DEF Wired, OpenConnections, Connection
<1>7. Steps'
  BY <1>1 DEF Wired, Steps
<1> QED
  BY <1>2, <1>5, <1>6, <1>7 DEF Wired

LEMMA WiredServerEnds ==
    ASSUME Wired, ServerEnds
    PROVE  Wired'
<1>1. /\ UNCHANGED <<pc, at, tries, sent, reply, restarts>> /\ up' = FALSE
      /\ queue' = << >> /\ connfd' = None /\ prevconnection' = None /\ open' = {} /\ result' = "none"
  BY DEF ServerEnds, clients
<1>2. << >> \in Seq(Clients \X Nat) /\ Len(<< >>) = 0 /\ DOMAIN << >> = {} /\ ToSet(<< >>) = {}
  BY DEF ToSet
<1>3. TransportTypeOK'
  <2>1. Len(<< >>) <= Backlog
    BY <1>2, TransportAssumption
  <2>2. queue' \in Seq(Clients \X Nat) /\ Len(queue') <= Backlog
    BY <1>1, <1>2, <2>1
  <2> QED
    BY <1>1, <2>2 DEF Wired, TransportTypeOK
<1>4. HeldConnections'
  BY <1>1, <1>2 DEF HeldConnections, Held
<1>5. OpenConnections'
  BY <1>1, <1>2 DEF OpenConnections, None, Connection
<1>6. Steps'
  BY <1>1 DEF Wired, Steps
<1> QED
  BY <1>3, <1>4, <1>5, <1>6 DEF Wired

LEMMA WiredServerStarts ==
    ASSUME Wired, ServerStarts
    PROVE  Wired'
<1>1. /\ UNCHANGED <<pc, at, tries, sent, reply, queue, connfd, prevconnection, open, result>>
      /\ up' = TRUE /\ restarts' \in 0 .. MaxRestarts
  BY TransportAssumption DEF ServerStarts, clients, thread, Wired, TransportTypeOK
<1>2. TransportTypeOK'
  BY <1>1 DEF Wired, TransportTypeOK
<1>3. HeldConnections'
  BY <1>1 DEF Wired, HeldConnections, Held
<1>4. OpenConnections'
  BY <1>1 DEF Wired, OpenConnections, Connection
<1>5. Steps'
  BY <1>1 DEF Wired, Steps
<1> QED
  BY <1>2, <1>3, <1>4, <1>5 DEF Wired

LEMMA NextWired == Wired /\ [Next]_vars => Wired'
<1> SUFFICES ASSUME Wired, [Next]_vars PROVE Wired'
  OBVIOUS
<1>1. ASSUME NEW c \in Clients, Start(c) PROVE Wired'
  BY <1>1, WiredStart DEF Start
<1>2. ASSUME NEW c \in Clients, Travel(c) PROVE Wired'
  BY <1>2, WiredConnect, WiredConnectFails, WiredSend, WiredStops DEF Travel
<1>3. ASSUME NEW c \in Clients, Receive(c) PROVE Wired'
  <2>1. \E next \in {"connect", "ended"} :
           /\ pc[c] = "wait" /\ (reply[c] = "whole" \/ ~Live(c))
           /\ next = "connect" => ~AtLast(c)
           /\ Proceed(c, next)
    BY <1>3 DEF Receive, Answered, CutOff, Following
  <2> QED
    BY <2>1, WiredProceed
<1>4. ASSUME NEW c \in Clients, Kill(c) PROVE Wired'
  BY <1>4, WiredStops DEF Kill
<1>5. CASE Accept
  BY <1>5, WiredAccept
<1>6. CASE Savedata \/ PopulateKeys \/ Getall \/ Setall \/ Rootkey
  BY <1>6, WiredHandled DEF Savedata, PopulateKeys, Getall, Setall, Rootkey, Command
<1>7. CASE Ignore
  BY <1>7, WiredIgnore DEF Ignore
<1>8. CASE Answer
  BY <1>8, WiredReplyPart, WiredReply DEF Answer
<1>9. CASE Crash
  BY <1>9, WiredServerEnds DEF Crash, ReplyKills
<1>10. CASE Restart
  BY <1>10, WiredServerStarts DEF Restart
<1>11. CASE UNCHANGED vars
  BY <1>11 DEF vars, transport, clients, thread, Wired, TransportTypeOK, HeldConnections, Held,
     OpenConnections, Connection, Steps
<1> QED
  BY <1>1, <1>2, <1>3, <1>4, <1>5, <1>6, <1>7, <1>8, <1>9, <1>10, <1>11 DEF Next, Client, Serve

LEMMA AlwaysWired == Spec => []Wired
<1>1. Init => Wired
  BY InitWired
<1>2. Wired /\ [Next]_vars => Wired'
  BY NextWired
<1> QED
  BY <1>1, <1>2, PTL DEF Spec

\* OnlySilentConnectionsLeak (Transport): the thread closes a connection one
\* request late, and those of clients that ended without a request never.
THEOREM OnlySilentLeak == Spec => []OnlySilentConnectionsLeak
<1>1. Wired => OnlySilentConnectionsLeak
  BY DEF Wired, OpenConnections, OnlySilentConnectionsLeak, Gone
<1> QED
  BY <1>1, AlwaysWired, PTL
-----------------------------------------------------------------------------
(***************************************************************************)
(* The order of requests.                                                  *)
(***************************************************************************)
LEMMA InitOrderly == Init => Orderly
<1> SUFFICES ASSUME Init PROVE Orderly
  OBVIOUS
<1>1. \A p \in Populates : pc[p] \notin Active
  BY Processes DEF Init, TransportInit, Active
<1>2. connfd = None /\ DOMAIN queue = {}
  BY DEF Init, TransportInit
<1> QED
  BY <1>1, <1>2 DEF Orderly, StoresInOrder, Unserved

LEMMA SavedForKept ==
    ASSUME NEW p, NEW n, SavedFor(p, n), savebuf' = savebuf, restarts' = restarts,
           run' = "clean" => run = "clean",
           pc'[p] \in Active => pc[p] \in Active
    PROVE  SavedFor(p, n)'
BY DEF SavedFor

\* Who is in the way of a run that works: another one cannot be.
LEMMA OthersIdle ==
    ASSUME Orderly, NEW p \in Populates, pc[p] \in Active, NEW c \in Clients, ~Idle(c), c # p
    PROVE  c = Coordinator
BY Processes DEF Orderly, ActiveInOrder

LEMMA OrderlyStart ==
    ASSUME Wired, Orderly, NEW c \in Clients, Start(c)
    PROVE  Orderly'
<1>1. /\ pc[c] = "idle" /\ pc' = [pc EXCEPT ![c] = "connect"]
      /\ UNCHANGED <<at, reply, up, restarts, queue, connfd, open, result, savebuf>>
      /\ run' = IF c \in Populates THEN "clean" ELSE run
      /\ \A d \in Clients : d # c => pc'[d] = pc[d]
      /\ pc'[c] = "connect"
  BY DEF Start, thread, data, Wired, TransportTypeOK
<1>2. \A conn \in Held : conn[1] # c
  BY <1>1 DEF Wired, HeldConnections
<1>3. \A d \in Populates : d # c => pc[d] \notin Active
  BY Processes DEF Start, MayStart, Idle, Active
<1>4. ASSUME NEW conn \in Held, conn[1] \in Populates, SavedFor(conn[1], conn[2])
      PROVE  SavedFor(conn[1], conn[2])'
  <2>1. conn[1] # c /\ conn[1] \in Clients
    BY <1>2, <1>4, Processes
  <2>2. pc'[conn[1]] \notin Active
    BY <1>1, <1>3, <1>4, <2>1
  <2> QED
    BY <1>1, <1>4, <2>2 DEF SavedFor
<1>5. \A i \in DOMAIN queue : queue[i] \in Held
  BY QueueElements DEF Held, Wired, TransportTypeOK
<1>6. StoresInOrder'
  <2>1. Unserved /\ Stores(connfd) => SavedFor(connfd[1], connfd[2])'
    BY <1>1, <1>4 DEF Orderly, StoresInOrder, Unserved, Held, Stores
  <2>2. ASSUME NEW j \in DOMAIN queue, Stores(queue[j]) PROVE SavedFor(queue[j][1], queue[j][2])'
    BY <1>1, <1>4, <1>5, <2>2 DEF Orderly, StoresInOrder, Stores
  <2> QED
    BY <1>1, <2>1, <2>2 DEF Orderly, StoresInOrder, Unserved, Stores
<1>7. ASSUME NEW p \in Populates, pc'[p] \in Active PROVE ActiveInOrder(p)'
  <2>1. p = c
    BY <1>1, <1>3, <1>7, Processes
  <2>2. at[c] = 1
    BY <1>1 DEF Wired, Steps
  <2>3. \A d \in Populates \cup Routines : d # c => Idle(d)'
    BY <1>1, <2>1, Processes DEF Start, MayStart, Idle
  <2>4. ~Served(c)'
    BY <1>1 DEF Served
  <2>5. \A i \in DOMAIN queue : queue[i][1] # c
    BY <1>2, <1>5
  <2>6. connfd # None => connfd[1] # c
    BY <1>2 DEF Held
  <2> QED
    BY <1>1, <2>1, <2>2, <2>3, <2>4, <2>5, <2>6 DEF ActiveInOrder
<1> QED
  BY <1>6, <1>7 DEF Orderly

\* Sending, failing and being killed change nobody's place.
LEMMA OrderlyPause ==
    ASSUME Orderly,
           UNCHANGED <<at, reply, up, restarts, queue, connfd, open, result, savebuf, run>>,
           \A c \in Clients : Idle(c) => Idle(c)',
           \A c \in Clients : pc'[c] \in Active =>
                 /\ pc[c] \in Active
                 /\ pc'[c] = pc[c] \/ {pc[c], pc'[c]} \subseteq {"send", "wait"}
    PROVE  Orderly'
<1>1. \A p \in Populates : \A n : SavedFor(p, n) => SavedFor(p, n)'
  BY Processes, SavedForKept
<1>2. StoresInOrder'
  BY <1>1 DEF Orderly, StoresInOrder, Unserved, Stores
<1>3. ASSUME NEW p \in Populates, pc'[p] \in Active PROVE ActiveInOrder(p)'
  <2>1. p \in Clients /\ pc[p] \in Active /\ ActiveInOrder(p)
        /\ (pc'[p] = "connect" <=> pc[p] = "connect")
        /\ (pc'[p] \in {"send", "wait"} <=> pc[p] \in {"send", "wait"})
    BY <1>3, Processes DEF Orderly, Active
  <2>2. Served(p)' <=> Served(p)
    BY <2>1 DEF Served, Live, Connection
  <2>3. Quiet(p)' <=> Quiet(p)
    BY DEF Quiet, Waits, Unserved
  <2>4. Live(p)' <=> Live(p)
    BY DEF Live, Connection
  <2>5. \A n : SavedFor(p, n) => SavedFor(p, n)'
    BY <1>1
  <2>6. \A c \in Populates \cup Routines : c # p => Idle(c)'
    BY <2>1, Processes DEF ActiveInOrder
  <2> QED
    BY <2>1, <2>2, <2>3, <2>4, <2>5, <2>6 DEF ActiveInOrder
<1> QED
  BY <1>2, <1>3 DEF Orderly

LEMMA OrderlyConnect ==
    ASSUME Wired, Orderly, NEW c \in Clients, Connect(c), UNCHANGED <<savebuf, run>>
    PROVE  Orderly'
<1> DEFINE S == Clients \X Nat
<1>1. /\ pc[c] = "connect" /\ up /\ queue' = Append(queue, Connection(c))
      /\ UNCHANGED <<at, up, restarts, connfd, open, result>>
      /\ \A d \in Clients : d # c => pc'[d] = pc[d] /\ reply'[d] = reply[d]
      /\ pc'[c] \in {"send", "ended"} /\ reply'[c] = "none"
      /\ queue \in Seq(S) /\ Connection(c) \in S /\ Connection(c)[1] = c /\ Connection(c)[2] = at[c]
  BY DEF Connect, Wired, TransportTypeOK, Connection
<1>2. /\ Len(queue) \in Nat /\ DOMAIN queue = 1 .. Len(queue)
      /\ DOMAIN queue' = 1 .. Len(queue) + 1
      /\ \A i \in 1 .. Len(queue) : queue'[i] = queue[i]
      /\ queue'[Len(queue) + 1] = Connection(c)
      /\ ToSet(queue') = ToSet(queue) \cup {Connection(c)}
  <2> HIDE DEF S
  <2> QED
    BY <1>1, AppendFacts
<1> HIDE DEF S
<1>3. \A conn \in Held : conn[1] # c
  BY <1>1 DEF Wired, HeldConnections
<1>4. \A i \in DOMAIN queue : queue[i] \in Held
  <2>1. \A i \in DOMAIN queue : queue[i] \in ToSet(queue)
    BY <1>1, QueueElements
  <2> QED
    BY <2>1 DEF Held
<1>5. connfd # None => connfd \in Held
  BY DEF Held
<1>6. \A p \in Populates : \A n : SavedFor(p, n) => SavedFor(p, n)'
  <2>1. \A p \in Clients : pc'[p] \in Active => pc[p] \in Active
    BY <1>1 DEF Active
  <2> QED
    BY <1>1, <2>1, Processes, SavedForKept
<1>7. \A conn : Waits(conn)' <=> Waits(conn) \/ conn = Connection(c)
  BY <1>1, <1>2 DEF Waits, Unserved
<1>8. \A conn : Waits(conn) => conn[1] # c
  BY <1>3, <1>5 DEF Waits, Unserved, Held
<1>9. StoresInOrder'
  <2>1. Unserved /\ Stores(connfd) => SavedFor(connfd[1], connfd[2])'
    BY <1>1, <1>6 DEF Orderly, StoresInOrder, Stores
  <2>2. ASSUME NEW j \in DOMAIN queue', Stores(queue'[j])
        PROVE /\ SavedFor(queue[j][1], queue[j][2])'
              /\ \A i \in 1 .. j - 1 : queue'[i][1] \notin Populates
              /\ Unserved => connfd[1] \notin Populates
    <3>1. CASE j \in DOMAIN queue
      <4>1. \A i \in 1 .. j - 1 : queue'[i] = queue[i]
        BY <1>2, <3>1
      <4>2. queue'[j] = queue[j]
        BY <1>2, <3>1
      <4> QED
        BY <1>6, <2>2, <3>1, <4>1, <4>2 DEF Orderly, StoresInOrder, Stores
    <3>2. CASE j = Len(queue) + 1
      <4>1. queue'[j] = Connection(c) /\ c \in Populates /\ at[c] % 2 = 0 /\ pc[c] \in Active
        BY <1>1, <1>2, <2>2, <3>2 DEF Stores, Active
      <4>2. at[c] \in Nat /\ at[c] >= 1
        BY DEF Wired, Steps, TransportTypeOK
      <4>3. at[c] >= 2
        BY <4>1, <4>2
      <4>4. Quiet(c) /\ SavedFor(c, at[c])
        BY <1>1, <4>1, <4>3 DEF Orderly, ActiveInOrder
      <4>5. \A conn : Waits(conn) => conn[1] \notin Populates
        BY <1>8, <4>4, Processes DEF Quiet
      <4>6. \A i \in DOMAIN queue : queue[i][1] \notin Populates
        <5>1. \A i \in DOMAIN queue : queue[i] \in ToSet(queue)
          BY <1>1, QueueElements
        <5> QED
          BY <4>5, <5>1 DEF Waits
      <4>7. Unserved => connfd[1] \notin Populates
        BY <4>5 DEF Waits
      <4>8. \A i \in 1 .. j - 1 : i \in DOMAIN queue /\ queue'[i] = queue[i]
        BY <1>2, <3>2
      <4> QED
        BY <1>1, <1>6, <4>1, <4>4, <4>6, <4>7, <4>8
    <3> QED
      BY <1>2, <3>1, <3>2
  <2> QED
    BY <1>1, <2>1, <2>2 DEF StoresInOrder, Unserved, Stores
<1>10. ASSUME NEW p \in Populates, pc'[p] \in Active PROVE ActiveInOrder(p)'
  <2>1. p \in Clients /\ pc[p] \in Active /\ ActiveInOrder(p)
    BY <1>1, <1>10, Processes DEF Orderly, Active
  <2>2. c = p \/ c = Coordinator
    BY <1>1, <2>1, OthersIdle DEF Idle
  <2>3. \A d \in Populates \cup Routines : d # p => Idle(d)'
    BY <1>1, <2>1, <2>2, Processes DEF ActiveInOrder, Idle
  <2>4. ASSUME NEW i \in DOMAIN queue', NEW j \in DOMAIN queue', i < j, queue'[i][1] = p
        PROVE  queue'[j][1] \in {p, Coordinator}
    <3>1. CASE j = Len(queue) + 1
      BY <1>1, <1>2, <2>2, <3>1
    <3>2. CASE j # Len(queue) + 1
      <4>1. i \in DOMAIN queue /\ j \in DOMAIN queue
        BY <1>2, <2>4, <3>2
      <4> QED
        BY <1>2, <2>1, <2>4, <4>1 DEF ActiveInOrder
    <3> QED
      BY <3>1, <3>2
  <2>5. ASSUME connfd # None, connfd[1] = p, NEW j \in DOMAIN queue'
        PROVE  queue'[j][1] \in {p, Coordinator}
    <3>1. CASE j = Len(queue) + 1
      BY <1>1, <1>2, <2>2, <3>1
    <3>2. CASE j \in DOMAIN queue
      BY <1>2, <2>1, <2>5, <3>2 DEF ActiveInOrder
    <3> QED
      BY <1>2, <3>1, <3>2
  <2>6. Live(p)' <=> (Live(p) \/ p = c)
    BY <1>1, <1>2 DEF Live, Connection
  <2>7. Connection(c) # connfd
    <3>1. Connection(c) # None
      BY DEF Connection, None
    <3> QED
      BY <1>1, <1>3, <1>5, <3>1
  <2>8. Served(p)' => Served(p) /\ p # c
    BY <1>1, <2>1, <2>6, <2>7 DEF Served, Connection
  <2>9. Quiet(p) => Quiet(p)'
    BY <1>1, <1>7, <2>2 DEF Quiet
  <2>10. pc'[p] = "connect" => pc[p] = "connect" /\ p # c
    BY <1>1, <2>1
  <2>11. run = "clean" /\ pc'[p] # "connect" /\ reply'[p] # "whole" => Live(p)'
    BY <1>1, <2>1, <2>6 DEF ActiveInOrder
  <2> QED
    BY <1>1, <1>6, <2>1, <2>3, <2>4, <2>5, <2>8, <2>9, <2>10, <2>11 DEF ActiveInOrder
<1> QED
  BY <1>9, <1>10 DEF Orderly

LEMMA OrderlyReceive ==
    ASSUME Wired, Orderly, NEW c \in Clients, Receive(c)
    PROVE  Orderly'
<1>1. /\ pc[c] = "wait" /\ (reply[c] = "whole" \/ ~Live(c))
      /\ pc'[c] \in {"connect", "ended"} /\ at'[c] = at[c] + 1
      /\ \A d \in Clients : d # c => pc'[d] = pc[d] /\ at'[d] = at[d]
      /\ UNCHANGED <<reply, up, restarts, queue, connfd, open, result, savebuf>>
      /\ run' = "clean" => run = "clean"
      /\ c \notin Populates => run' = run
  BY DEF Receive, Answered, CutOff, Following, Proceed, thread, data, Wired, TransportTypeOK
<1>2. Connection(c) \notin Held
  <2>1. reply[c] = "whole" => Connection(c) \notin Held
    BY DEF Wired, HeldConnections, Connection
  <2>2. ~Live(c) => Connection(c) \notin Held
    BY DEF Live, Held, Wired, TransportTypeOK
  <2> QED
    BY <1>1, <2>1, <2>2
<1>3. \A conn \in Held : conn[1] # c
  BY <1>2, IsConnection DEF Wired, HeldConnections
<1>4. /\ \A i \in DOMAIN queue : queue[i] \in Held
      /\ connfd # None => connfd \in Held
  BY QueueElements DEF Held, Wired, TransportTypeOK
<1>5. \A p \in Populates : \A n : SavedFor(p, n) => SavedFor(p, n)'
  <2>1. \A p \in Clients : pc'[p] \in Active => pc[p] \in Active
    BY <1>1 DEF Active
  <2> QED
    BY <1>1, <2>1, Processes, SavedForKept
<1>6. StoresInOrder'
  BY <1>1, <1>5 DEF Orderly, StoresInOrder, Unserved, Stores
<1>7. ASSUME NEW p \in Populates, pc'[p] \in Active PROVE ActiveInOrder(p)'
  <2>1. p \in Clients /\ pc[p] \in Active /\ ActiveInOrder(p)
    BY <1>1, <1>7, Processes DEF Orderly, Active
  <2>2. c = p \/ c = Coordinator
    BY <1>1, <2>1, OthersIdle DEF Idle
  <2>3. \A d \in Populates \cup Routines : d # p => Idle(d)'
    BY <1>1, <2>1, <2>2, Processes DEF ActiveInOrder, Idle
  <2>4. Quiet(p)' <=> Quiet(p)
    BY <1>1 DEF Quiet, Waits, Unserved
  <2>5. CASE p = c
    <3>1. Served(p) /\ Quiet(p)
      BY <1>1, <2>1, <2>5 DEF Served, ActiveInOrder
    <3>2. pc'[p] = "connect" /\ ~Served(p)'
      BY <1>1, <1>7, <2>5 DEF Active, Served
    <3>3. at'[p] = at[p] + 1 /\ at[p] \in Nat
      BY <1>1, <2>1, <2>5 DEF Wired, TransportTypeOK
    <3>4. at'[p] % 2 = 0 => at[p] % 2 = 1
      BY <3>3
    <3>5. at'[p] % 2 = 0 /\ up => SavedFor(p, at[p] + 1)
      BY <2>1, <3>1, <3>4 DEF ActiveInOrder
    <3>6. pc'[p] = "connect" /\ at'[p] % 2 = 0 /\ up' => SavedFor(p, at[p])'
      <4>1. SavedFor(p, at[p] + 1) => SavedFor(p, at[p])'
        BY <1>1, <1>7, <2>1, <3>3 DEF SavedFor
      <4> QED
        BY <1>1, <3>5, <4>1
    <3>7. run' = "clean" => up'
      BY <1>1, <2>1, <2>5 DEF ActiveInOrder
    <3>8. \A i \in DOMAIN queue : queue[i][1] # p
      BY <1>3, <1>4, <2>5
    <3>9. connfd # None => connfd[1] # p
      BY <1>3, <1>4, <2>5
    <3> QED
      BY <1>1, <2>3, <2>4, <3>1, <3>2, <3>6, <3>7, <3>8, <3>9 DEF ActiveInOrder
  <2>6. CASE p # c
    <3>1. UNCHANGED <<pc[p], at[p]>> /\ run' = run
      BY <1>1, <2>1, <2>2, <2>6, Processes
    <3>2. Served(p)' <=> Served(p)
      BY <1>1, <3>1 DEF Served, Live, Connection
    <3>3. Live(p)' <=> Live(p)
      BY <1>1, <3>1 DEF Live, Connection
    <3>4. /\ SavedFor(p, at[p]) => SavedFor(p, at[p])'
          /\ SavedFor(p, at[p] + 1) => SavedFor(p, at[p] + 1)'
      BY <1>1, <3>1 DEF SavedFor
    <3> QED
      BY <1>1, <2>1, <2>3, <2>4, <3>1, <3>2, <3>3, <3>4 DEF ActiveInOrder
  <2> QED
    BY <2>5, <2>6
<1> QED
  BY <1>6, <1>7 DEF Orderly

LEMMA OrderlyAccept ==
    ASSUME Wired, Orderly, Accept, UNCHANGED <<savebuf, run>>
    PROVE  Orderly'
<1> DEFINE S == Clients \X Nat
<1>1. /\ connfd = None /\ queue # << >> /\ queue \in Seq(S) /\ result = "none"
      /\ connfd' = Head(queue) /\ queue' = Tail(queue) /\ open' = open \cup {Head(queue)}
      /\ UNCHANGED <<pc, at, reply, up, restarts, result>>
  BY DEF Wired, TransportTypeOK, Steps, Accept, clients
<1> HIDE DEF S
<1>2. /\ Tail(queue) \in Seq(S) /\ Len(queue) \in Nat \ {0} /\ DOMAIN queue = 1 .. Len(queue)
      /\ DOMAIN Tail(queue) = 1 .. Len(queue) - 1
      /\ \A i \in 1 .. Len(queue) - 1 : i + 1 \in 1 .. Len(queue) /\ Tail(queue)[i] = queue[i + 1]
      /\ Head(queue) = queue[1] /\ Head(queue) \in ToSet(queue) /\ Head(queue) \in S
      /\ ToSet(queue) = ToSet(Tail(queue)) \cup {Head(queue)}
  BY <1>1, TailFacts
<1>3. Head(queue) # None
  BY <1>2, PairNotNone DEF S
<1>4. \A conn : Waits(conn)' <=> Waits(conn)
  BY <1>1, <1>2, <1>3 DEF Waits, Unserved
<1>5. \A p, n : SavedFor(p, n)' <=> SavedFor(p, n)
  BY <1>1 DEF SavedFor
<1>6. /\ connfd' = queue[1] /\ 1 \in DOMAIN queue
      /\ \A i \in DOMAIN queue' : i + 1 \in DOMAIN queue /\ queue'[i] = queue[i + 1] /\ 1 < i + 1
      /\ DOMAIN queue' \subseteq Nat
  BY <1>1, <1>2
<1>7. StoresInOrder'
  <2>1. Stores(queue[1]) => SavedFor(queue[1][1], queue[1][2])
    BY <1>6 DEF Orderly, StoresInOrder
  <2>2. ASSUME NEW j \in DOMAIN queue', Stores(queue'[j])
        PROVE /\ SavedFor(queue[j + 1][1], queue[j + 1][2])
              /\ \A i \in 1 .. j - 1 : queue'[i][1] \notin Populates
              /\ queue[1][1] \notin Populates
    <3>1. Stores(queue[j + 1]) /\ j + 1 \in DOMAIN queue /\ j \in Nat
      BY <1>6, <2>2
    <3>2. \A i \in 1 .. (j + 1) - 1 : queue[i][1] \notin Populates
      BY <3>1 DEF Orderly, StoresInOrder
    <3>3. \A i \in 1 .. j - 1 : i \in DOMAIN queue' /\ i + 1 \in 1 .. (j + 1) - 1
      BY <1>1, <1>2, <2>2
    <3>4. 1 \in 1 .. (j + 1) - 1
      BY <1>1, <1>2, <2>2
    <3> QED
      BY <1>6, <3>1, <3>2, <3>3, <3>4 DEF Orderly, StoresInOrder
  <2> QED
    BY <1>1, <1>5, <1>6, <2>1, <2>2 DEF StoresInOrder, Unserved, Stores
<1>8. ASSUME NEW p \in Populates, pc'[p] \in Active PROVE ActiveInOrder(p)'
  <2>1. ActiveInOrder(p)
    BY <1>1, <1>8 DEF Orderly
  <2>2. Live(p)' <=> Live(p)
    BY <1>1, <1>2 DEF Live, Connection
  <2>3. Served(p)' <=> Served(p)
    BY <1>1, <2>2 DEF Served, Connection
  <2>4. Quiet(p)' <=> Quiet(p)
    BY <1>4 DEF Quiet
  <2>5. ASSUME NEW i \in DOMAIN queue', NEW j \in DOMAIN queue', i < j, queue'[i][1] = p
        PROVE  queue'[j][1] \in {p, Coordinator}
    <3>1. i + 1 < j + 1
      BY <1>6, <2>5
    <3> QED
      BY <1>6, <2>1, <2>5, <3>1 DEF ActiveInOrder
  <2>6. ASSUME connfd'[1] = p, NEW j \in DOMAIN queue' PROVE queue'[j][1] \in {p, Coordinator}
    BY <1>6, <2>1, <2>6 DEF ActiveInOrder
  <2>7. \A d \in Populates \cup Routines : d # p => Idle(d)'
    BY <1>1, <2>1 DEF ActiveInOrder, Idle
  <2> QED
    BY <1>1, <1>5, <2>1, <2>2, <2>3, <2>4, <2>5, <2>6, <2>7 DEF ActiveInOrder
<1> QED
  BY <1>7, <1>8 DEF Orderly

\* What the commands have in common.
LEMMA Handling ==
    ASSUME Wired, Orderly, connfd # None, result = "none", Handled, run' = run
    PROVE  /\ \A conn : Waits(conn)' => Waits(conn)
           /\ \A p \in Populates : Served(p)' => Served(p) \/ (connfd = Connection(p) /\ pc[p] \in Active)
           /\ \A p \in Populates : pc[p] \in Active /\ Served(p)' => Quiet(p)'
           /\ \A p : Quiet(p) => Quiet(p)'
           /\ \A p \in Populates : Served(p) => connfd # Connection(p)
           /\ UNCHANGED <<pc, at, reply, sent, up, restarts, queue, connfd, open>> /\ result' = "ready"
<1>1. UNCHANGED <<pc, at, reply, sent, up, restarts, queue, connfd, open>> /\ result' = "ready"
  BY DEF Handled, clients
<1>2. \A conn : Waits(conn)' => conn \in ToSet(queue)
  BY <1>1 DEF Waits, Unserved
<1>3. \A conn : Waits(conn)' => Waits(conn)
  BY <1>2 DEF Waits
<1>4. \A p \in Populates : Served(p)' => Served(p) \/ (connfd = Connection(p) /\ pc[p] \in Active)
  BY <1>1 DEF Served, Live, Connection, Active
<1>5. \A p : Quiet(p) => Quiet(p)'
  BY <1>3 DEF Quiet
<1>6. ASSUME NEW p \in Populates, pc[p] \in Active, Served(p)' PROVE Quiet(p)'
  <2>1. ActiveInOrder(p)
    BY <1>6 DEF Orderly
  <2>2. CASE Served(p)
    BY <1>5, <2>1, <2>2 DEF ActiveInOrder
  <2>3. CASE connfd = Connection(p)
    <3>1. connfd[1] = p
      BY <2>3 DEF Connection
    <3>2. \A j \in DOMAIN queue : queue[j][1] \in {p, Coordinator}
      BY <2>1, <3>1 DEF ActiveInOrder
    <3>3. \A conn \in ToSet(queue) : conn[1] \in {p, Coordinator}
      BY <3>2, QueueElements DEF Wired, TransportTypeOK
    <3> QED
      BY <1>2, <3>3 DEF Quiet
  <2> QED
    BY <1>4, <1>6, <2>2, <2>3
<1>7. ASSUME NEW p \in Populates, Served(p), connfd = Connection(p) PROVE FALSE
  <2>1. p \in Clients /\ connfd[1] = p /\ connfd \in Held /\ connfd \in open
    BY <1>7, Processes, ServedFacts DEF Connection
  <2>2. reply[p] # "whole" /\ Live(p)
    BY <1>7, <2>1, ServedFacts DEF Live
  <2> QED
    BY <1>7, <2>2 DEF Served
<1> QED
  BY <1>1, <1>3, <1>4, <1>5, <1>6, <1>7

\* All but SAVEDATA.
LEMMA OrderlyCommand ==
    ASSUME Wired, Orderly, connfd # None, result = "none", Handled, UNCHANGED <<savebuf, run>>,
           connfd[1] \in Populates => connfd[2] % 2 = 0
    PROVE  Orderly'
<1>1. UNCHANGED <<pc, at, reply, up, restarts, queue, connfd, open>> /\ result' = "ready"
  BY Handling
<1>2. \A p, n : SavedFor(p, n)' <=> SavedFor(p, n)
  BY <1>1 DEF SavedFor
<1>3. StoresInOrder'
  BY <1>1, <1>2 DEF Orderly, StoresInOrder, Unserved, Stores
<1>4. ASSUME NEW p \in Populates, pc'[p] \in Active PROVE ActiveInOrder(p)'
  <2>1. ActiveInOrder(p) /\ pc[p] \in Active
    BY <1>1, <1>4 DEF Orderly
  <2>2. Live(p)' <=> Live(p)
    BY <1>1 DEF Live, Connection
  <2>3. (at[p] >= 2 \/ Served(p)') => Quiet(p)'
    BY <2>1, Handling DEF ActiveInOrder
  <2>4. Served(p)' /\ at[p] % 2 = 1 => Served(p)
    <3>1. connfd = Connection(p) => at[p] % 2 = 0
      BY DEF Connection
    <3> QED
      BY <3>1, Handling
  <2>5. \A d \in Populates \cup Routines : d # p => Idle(d)'
    BY <1>1, <2>1 DEF ActiveInOrder, Idle
  <2> QED
    BY <1>1, <1>2, <2>1, <2>2, <2>3, <2>4, <2>5 DEF ActiveInOrder
<1> QED
  BY <1>3, <1>4 DEF Orderly

LEMMA TypeOfPair ==
    ASSUME NEW n \in 1 .. 10, n % 2 = 1
    PROVE  TypeAt(n + 1) = TypeAt(n)
<1>1. (n + 1 + 1) \div 2 = (n + 1) \div 2
  OBVIOUS
<1> QED
  BY <1>1 DEF TypeAt

LEMMA AskedByPopulate ==
    ASSUME Wired, connfd # None, connfd[1] \in Populates
    PROVE  /\ connfd[2] \in 1 .. 10 /\ TypeAt(connfd[2]) \in ToSet(Types)
           /\ connfd[2] % 2 = 1 => Asked = [op |-> "SAVEDATA", arr |-> <<<<TypeAt(connfd[2]), connfd[1]>>>>]
           /\ connfd[2] % 2 = 0 => Asked = [op |-> "POPULATE", arr |-> KeysOf(TypeAt(connfd[2]))]
<1>1. connfd[2] \in 1 .. Len(Program(connfd[1]))
  BY ServedFacts DEF Wired, HeldConnections
<1> QED
  BY <1>1, PopulateRequests DEF Asked, From

LEMMA AskedByOthers ==
    ASSUME Wired, connfd # None, connfd[1] \notin Populates
    PROVE  \/ connfd[1] \in Routines /\ connfd[2] = 1 /\ Asked = getall(Records[1])
           \/ connfd[1] \in Routines /\ connfd[2] = 2 /\ Asked = setall(connfd[1], Records[1])
           \/ connfd[1] = Coordinator /\ Asked = [op |-> "ROOTKEY", arr |-> <<RootKey>>]
<1>1. connfd[2] \in 1 .. Len(Program(connfd[1])) /\ connfd[1] \in Clients
  BY ServedFacts DEF Wired, HeldConnections
<1>2. connfd[1] \in Routines \/ connfd[1] = Coordinator
  BY <1>1, Processes
<1> QED
  BY <1>1, <1>2, OtherRequests DEF Asked, From

LEMMA WhoAsks ==
    ASSUME Wired, connfd # None
    PROVE  /\ Asked.op = "SAVEDATA" => connfd[1] \in Populates /\ connfd[2] % 2 = 1
           /\ Asked.op = "POPULATE" => connfd[1] \in Populates /\ connfd[2] % 2 = 0
           /\ Asked.op \in {"GETALL", "SETALL"} => connfd[1] \in Routines
           /\ Asked.op = "ROOTKEY" => connfd[1] = Coordinator
<1>1. CASE connfd[1] \in Populates
  <2>1. connfd[2] % 2 = 0 \/ connfd[2] % 2 = 1
    BY <1>1, AskedByPopulate
  <2> QED
    BY <1>1, <2>1, AskedByPopulate
<1>2. CASE connfd[1] \notin Populates
  BY <1>2, AskedByOthers DEF getall, setall
<1> QED
  BY <1>1, <1>2

\* A request of a client that works arrives whole.
LEMMA ArrivesWhole ==
    ASSUME Wired, connfd # None, ~Gone(connfd), Serving(Len(Asked.arr) + 1)
    PROVE  Arrived = {Asked.arr}
BY DEF Serving, Arrived, Complete, From

LEMMA OrderlySavedata ==
    ASSUME Wired, Orderly, Savedata, run' = run
    PROVE  Orderly'
<1>1. /\ connfd # None /\ result = "none" /\ Handled /\ Serving(Len(Asked.arr) + 1)
      /\ Asked.op = "SAVEDATA" /\ \E arr \in Arrived : savebuf' = arr[1]
  BY DEF Savedata, Command, Serving
<1>2. UNCHANGED <<pc, at, reply, up, restarts, queue, connfd, open>> /\ result' = "ready"
  BY <1>1, Handling
<1>3. connfd[1] \in Populates /\ connfd[1] \in Clients /\ connfd[2] % 2 = 1 /\ connfd[2] \in 1 .. 10
      /\ Asked = [op |-> "SAVEDATA", arr |-> <<<<TypeAt(connfd[2]), connfd[1]>>>>]
      /\ connfd = Connection(connfd[1]) /\ pc[connfd[1]] \in {"send", "wait", "ended"}
      /\ at[connfd[1]] = connfd[2]
  BY <1>1, WhoAsks, AskedByPopulate, ServedFacts
<1>4. \A j \in DOMAIN queue : ~Stores(queue[j])
  BY <1>1, <1>3 DEF Orderly, StoresInOrder, Unserved
<1>5. StoresInOrder'
  BY <1>2, <1>4 DEF StoresInOrder, Unserved, Stores
<1>6. Waits(connfd)
  BY <1>1 DEF Waits, Unserved
<1>7. ASSUME NEW p \in Populates, pc'[p] \in Active PROVE ActiveInOrder(p)'
  <2>1. ActiveInOrder(p) /\ pc[p] \in Active
    BY <1>2, <1>7 DEF Orderly
  <2>2. Live(p)' <=> Live(p)
    BY <1>2 DEF Live, Connection
  <2>3. (at[p] >= 2 \/ Served(p)') => Quiet(p)'
    BY <1>1, <2>1, Handling DEF ActiveInOrder
  <2>4. Quiet(p) => connfd[1] = p
    BY <1>3, <1>6, Processes DEF Quiet
  <2>5. pc[p] = "connect" /\ at[p] % 2 = 0 => FALSE
    <3>1. at[p] \in Nat /\ at[p] >= 1
      BY Processes DEF Wired, TransportTypeOK, Steps
    <3>2. at[p] % 2 = 0 => at[p] >= 2
      BY <3>1
    <3> QED
      BY <1>3, <2>1, <2>4, <3>2 DEF ActiveInOrder
  <2>6. ASSUME Served(p)', at[p] % 2 = 1 PROVE SavedFor(p, at[p] + 1)'
    <3>1. connfd = Connection(p)
      <4>1. Served(p) => connfd = Connection(p)
        BY <1>3, <2>1, <2>4 DEF ActiveInOrder
      <4> QED
        BY <1>1, <2>6, <4>1, Handling
    <3>2. connfd[1] = p /\ connfd[2] = at[p]
      BY <3>1 DEF Connection
    <3>3. ~Gone(connfd)
      BY <2>1, <3>2 DEF Gone, Active
    <3>4. savebuf' = <<TypeAt(at[p]), p>>
      BY <1>1, <1>3, <3>2, <3>3, ArrivesWhole
    <3>5. TypeAt(at[p] + 1) = TypeAt(at[p])
      BY <1>3, <2>6, <3>2, TypeOfPair
    <3> QED
      BY <1>2, <3>4, <3>5 DEF SavedFor, TypeAt
  <2>7. \A d \in Populates \cup Routines : d # p => Idle(d)'
    BY <1>2, <2>1 DEF ActiveInOrder, Idle
  <2> QED
    BY <1>2, <2>1, <2>2, <2>3, <2>5, <2>6, <2>7 DEF ActiveInOrder
<1> QED
  BY <1>5, <1>7 DEF Orderly

LEMMA OrderlyIgnore ==
    ASSUME Wired, Orderly, EmptyMessage, Unrecognised, UNCHANGED <<savebuf, run>>
    PROVE  Orderly'
<1>1. /\ UNCHANGED <<pc, at, reply, up, restarts, queue, open, result>>
      /\ connfd' = None /\ connfd # None /\ result = "none" /\ pc[connfd[1]] = "ended"
  BY ServedFacts DEF EmptyMessage, Unrecognised, clients
<1>2. \A p, n : SavedFor(p, n)' <=> SavedFor(p, n)
  BY <1>1 DEF SavedFor
<1>3. StoresInOrder'
  BY <1>1, <1>2 DEF Orderly, StoresInOrder, Unserved, Stores
<1>4. ASSUME NEW p \in Populates, pc'[p] \in Active PROVE ActiveInOrder(p)'
  <2>1. ActiveInOrder(p) /\ pc[p] \in Active
    BY <1>1, <1>4 DEF Orderly
  <2>2. Live(p)' <=> Live(p)
    BY <1>1 DEF Live, Connection
  <2>3. Served(p)' => Served(p)
    BY <1>1, <2>2 DEF Served
  <2>4. Quiet(p) => Quiet(p)'
    BY <1>1 DEF Quiet, Waits, Unserved
  <2>5. \A d \in Populates \cup Routines : d # p => Idle(d)'
    BY <1>1, <2>1 DEF ActiveInOrder, Idle
  <2> QED
    BY <1>1, <1>2, <2>1, <2>2, <2>3, <2>4, <2>5 DEF ActiveInOrder
<1> QED
  BY <1>3, <1>4 DEF Orderly

LEMMA OrderlyReplyPart ==
    ASSUME Wired, Orderly, connfd # None, ReplyPart, UNCHANGED <<savebuf, run>>
    PROVE  Orderly'
<1>1. /\ UNCHANGED <<pc, at, up, restarts, queue, connfd, open>>
      /\ result = "ready" /\ result' = "partly" /\ connfd[1] \in Clients
      /\ \A c \in Clients : reply'[c] = "whole" <=> reply[c] = "whole"
  <2>1. \A c \in Clients : reply'[c] = reply[c] \/ (c = connfd[1] /\ reply'[c] = "part")
    BY ServedFacts DEF ReplyPart, ToClient, Wired, TransportTypeOK
  <2> QED
    BY <2>1, ServedFacts DEF ReplyPart
<1>2. \A p, n : SavedFor(p, n)' <=> SavedFor(p, n)
  BY <1>1 DEF SavedFor
<1>3. StoresInOrder'
  BY <1>1, <1>2 DEF Orderly, StoresInOrder, Unserved, Stores
<1>4. ASSUME NEW p \in Populates, pc'[p] \in Active PROVE ActiveInOrder(p)'
  <2>1. ActiveInOrder(p) /\ pc[p] \in Active /\ p \in Clients
    BY <1>1, <1>4, Processes DEF Orderly
  <2>2. Live(p)' <=> Live(p)
    BY <1>1 DEF Live, Connection
  <2>3. Served(p)' <=> Served(p)
    BY <1>1, <2>1, <2>2 DEF Served, Connection
  <2>4. Quiet(p)' <=> Quiet(p)
    BY <1>1 DEF Quiet, Waits, Unserved
  <2>5. \A d \in Populates \cup Routines : d # p => Idle(d)'
    BY <1>1, <2>1 DEF ActiveInOrder, Idle
  <2> QED
    BY <1>1, <1>2, <2>1, <2>2, <2>3, <2>4, <2>5 DEF ActiveInOrder
<1> QED
  BY <1>3, <1>4 DEF Orderly

LEMMA ReplyServes ==
    ASSUME Wired, connfd # None, Reply
    PROVE  /\ UNCHANGED <<pc, at, up, restarts, queue>>
           /\ connfd' = None /\ result' = "none" /\ result # "none"
           /\ \A c \in Clients : reply'[c] = reply[c] \/ (c = connfd[1] /\ reply'[c] = "whole")
           /\ \A c \in Clients : Served(c)' => Served(c)
           /\ \A c \in Clients : Live(c) /\ pc[c] \in {"send", "wait"} /\ reply[c] # "whole" => Live(c)'
<1>1. /\ UNCHANGED <<pc, at, up, restarts, queue>>
      /\ connfd' = None /\ result' = "none" /\ result # "none" /\ open' = open \ {prevconnection}
  BY DEF Reply
<1>2. \A c \in Clients : reply'[c] = reply[c] \/ (c = connfd[1] /\ reply'[c] = "whole")
  BY ServedFacts DEF Reply, ToClient, Wired, TransportTypeOK
<1>3. ASSUME NEW c \in Clients, Live(c), pc[c] \in {"send", "wait"}, reply[c] # "whole" PROVE Live(c)'
  <2>1. prevconnection # Connection(c)
    BY <1>3 DEF Wired, OpenConnections
  <2> QED
    BY <1>1, <1>3, <2>1 DEF Live, Connection
<1>4. ASSUME NEW c \in Clients, Served(c)' PROVE Served(c)
  <2>1. pc[c] \in {"send", "wait"} /\ (reply'[c] = "whole" \/ ~Live(c)')
    <3>1. Connection(c)' # None
      BY DEF Connection, None
    <3> QED
      BY <1>1, <1>4, <3>1 DEF Served
  <2>2. CASE reply[c] = "whole" \/ ~Live(c)
    BY <2>1, <2>2 DEF Served
  <2>3. CASE reply[c] # "whole" /\ Live(c)
    <3>1. reply'[c] = "whole"
      BY <1>3, <2>1, <2>3
    <3>2. c = connfd[1]
      BY <1>2, <2>3, <3>1
    <3> QED
      BY <1>1, <2>1, <3>2, ServedFacts DEF Served
  <2> QED
    BY <2>2, <2>3
<1> QED
  BY <1>1, <1>2, <1>3, <1>4

LEMMA OrderlyReply ==
    ASSUME Wired, Orderly, connfd # None, Reply, UNCHANGED <<savebuf, run>>
    PROVE  Orderly'
<1>1. /\ UNCHANGED <<pc, at, up, restarts, queue>>
      /\ connfd' = None /\ result' = "none" /\ result # "none"
  BY ReplyServes
<1>2. \A p, n : SavedFor(p, n)' <=> SavedFor(p, n)
  BY <1>1 DEF SavedFor
<1>3. StoresInOrder'
  BY <1>1, <1>2 DEF Orderly, StoresInOrder, Unserved, Stores
<1>4. ASSUME NEW p \in Populates, pc'[p] \in Active PROVE ActiveInOrder(p)'
  <2>1. ActiveInOrder(p) /\ pc[p] \in Active /\ p \in Clients
    BY <1>1, <1>4, Processes DEF Orderly
  <2>2. Served(p)' => Served(p)
    BY <2>1, ReplyServes
  <2>3. Quiet(p)' <=> Quiet(p)
    BY <1>1 DEF Quiet, Waits, Unserved
  <2>4. run = "clean" /\ pc[p] # "connect" /\ reply'[p] # "whole" => Live(p)'
    <3>1. reply'[p] # "whole" => reply[p] # "whole"
      BY <2>1, ReplyServes
    <3> QED
      BY <2>1, <3>1, ReplyServes DEF ActiveInOrder, Active
  <2>5. \A d \in Populates \cup Routines : d # p => Idle(d)'
    BY <1>1, <2>1 DEF ActiveInOrder, Idle
  <2> QED
    BY <1>1, <1>2, <2>1, <2>2, <2>3, <2>4, <2>5 DEF ActiveInOrder
<1> QED
  BY <1>3, <1>4 DEF Orderly

LEMMA OrderlyCrash ==
    ASSUME Wired, Orderly, Crash
    PROVE  Orderly'
<1>1. /\ UNCHANGED <<pc, at, reply, restarts, savebuf>> /\ up' = FALSE
      /\ queue' = << >> /\ connfd' = None /\ run' # "clean"
  BY DEF Crash, ReplyKills, ServerEnds, clients, data
<1>2. DOMAIN queue' = {} /\ ToSet(queue') = {}
  BY <1>1 DEF ToSet
<1>3. StoresInOrder'
  BY <1>1, <1>2 DEF StoresInOrder, Unserved
<1>4. ASSUME NEW p \in Populates, pc'[p] \in Active PROVE ActiveInOrder(p)'
  <2>1. \A d \in Populates \cup Routines : d # p => Idle(d)'
    BY <1>1, <1>4 DEF Orderly, ActiveInOrder, Idle
  <2>2. Quiet(p)'
    BY <1>1, <1>2 DEF Quiet, Waits, Unserved
  <2> QED
    BY <1>1, <1>2, <2>1, <2>2 DEF ActiveInOrder
<1> QED
  BY <1>3, <1>4 DEF Orderly

LEMMA OrderlyRestart ==
    ASSUME Wired, Orderly, Restart
    PROVE  Orderly'
<1>1. /\ UNCHANGED <<pc, at, reply, queue, connfd, open, result, run>> /\ ~up /\ up' = TRUE
      /\ savebuf' = Empty /\ restarts' > 0
      /\ queue = << >> /\ open = {} /\ connfd = None
  BY DEF Restart, ServerStarts, clients, thread, Wired, Steps, TransportTypeOK
<1>2. DOMAIN queue = {} /\ ToSet(queue) = {}
  BY <1>1 DEF ToSet
<1>3. StoresInOrder'
  BY <1>1, <1>2 DEF StoresInOrder, Unserved
<1>4. ASSUME NEW p \in Populates, pc'[p] \in Active PROVE ActiveInOrder(p)'
  <2>1. ActiveInOrder(p) /\ pc[p] \in Active /\ p \in Clients
    BY <1>1, <1>4, Processes DEF Orderly
  <2>2. \A d \in Populates \cup Routines : d # p => Idle(d)'
    BY <1>1, <2>1 DEF ActiveInOrder, Idle
  <2>3. Quiet(p)'
    BY <1>1, <1>2 DEF Quiet, Waits, Unserved
  <2>4. Served(p)' <=> Served(p)
    BY <1>1 DEF Served, Live, Connection
  <2>5. at[p] % 2 = 0 => at[p] >= 2
    <3>1. at[p] \in Nat /\ at[p] >= 1
      BY <2>1 DEF Wired, TransportTypeOK, Steps
    <3> QED
      BY <3>1
  <2>6. at[p] >= 2 \/ pc[p] # "connect" => run # "clean"
    BY <1>1, <2>1 DEF ActiveInOrder
  <2>7. \A n : run # "clean" => SavedFor(p, n)'
    BY <1>1 DEF SavedFor
  <2>8. Served(p) => pc[p] # "connect"
    BY DEF Served
  <2> QED
    BY <1>1, <1>2, <2>2, <2>3, <2>4, <2>5, <2>6, <2>7, <2>8 DEF ActiveInOrder
<1> QED
  BY <1>3, <1>4 DEF Orderly

LEMMA NextOrderly == Wired /\ Orderly /\ [Next]_vars => Orderly'
<1> SUFFICES ASSUME Wired, Orderly, [Next]_vars PROVE Orderly'
  OBVIOUS
<1>1. ASSUME NEW c \in Clients, Start(c) PROVE Orderly'
  BY <1>1, OrderlyStart
<1>2. ASSUME NEW c \in Clients, Travel(c) PROVE Orderly'
  <2>1. CASE Connect(c)
    BY <1>2, <2>1, OrderlyConnect DEF Travel, data
  <2>2. CASE ConnectFails(c) \/ (pc[c] = "send" /\ Send(c, Size(c), Long(c))) \/ SendFails(c)
    <3>1. /\ UNCHANGED <<at, reply, up, restarts, queue, connfd, open, result, savebuf, run>>
          /\ \A d \in Clients : d # c => pc'[d] = pc[d]
          /\ pc[c] \in {"connect", "send"}
          /\ pc'[c] \in {pc[c], "ended"} \/ (pc[c] = "send" /\ pc'[c] = "wait")
      BY <1>2, <2>2 DEF Travel, data, ConnectFails, Send, SendFails, thread, Wired, TransportTypeOK
    <3> QED
      BY <3>1, OrderlyPause DEF Idle, Active
  <2> QED
    BY <1>2, <2>1, <2>2 DEF Travel
<1>3. ASSUME NEW c \in Clients, Receive(c) PROVE Orderly'
  BY <1>3, OrderlyReceive
<1>4. ASSUME NEW c \in Clients, Kill(c) PROVE Orderly'
  <2>1. /\ UNCHANGED <<at, reply, up, restarts, queue, connfd, open, result, savebuf, run>>
        /\ \A d \in Clients : d # c => pc'[d] = pc[d]
        /\ pc[c] \in Active /\ pc'[c] = "ended"
    BY <1>4 DEF Kill, Killed, data, thread, Wired, TransportTypeOK, Active
  <2> QED
    BY <2>1, OrderlyPause DEF Idle, Active
<1>5. CASE Accept /\ UNCHANGED <<data, output, run>>
  BY <1>5, OrderlyAccept DEF data
<1>6. CASE Savedata /\ run' = run
  BY <1>6, OrderlySavedata
<1>7. CASE (PopulateKeys \/ Getall \/ Setall \/ Rootkey) /\ run' = run
  <2>1. /\ connfd # None /\ result = "none" /\ Handled /\ savebuf' = savebuf
        /\ Asked.op \in {"POPULATE", "GETALL", "SETALL", "ROOTKEY"}
    BY <1>7 DEF PopulateKeys, Getall, Setall, Rootkey, Command, Serving, data
  <2>2. connfd[1] \in Populates => connfd[2] % 2 = 0
    BY <2>1, WhoAsks, Processes
  <2> QED
    BY <1>7, <2>1, <2>2, OrderlyCommand
<1>8. CASE Ignore /\ run' = run
  BY <1>8, OrderlyIgnore DEF Ignore, data
<1>9. CASE Answer /\ run' = run
  BY <1>9, OrderlyReplyPart, OrderlyReply DEF Answer, data
<1>10. CASE Crash
  BY <1>10, OrderlyCrash
<1>11. CASE Restart
  BY <1>11, OrderlyRestart
<1>12. CASE UNCHANGED vars
  <2>1. UNCHANGED <<pc, at, reply, up, restarts, queue, connfd, open, result, savebuf, run>>
    BY <1>12 DEF vars, transport, clients, thread, data
  <2> QED
    BY <2>1, OrderlyPause DEF Idle
<1> QED
  BY <1>1, <1>2, <1>3, <1>4, <1>5, <1>6, <1>7, <1>8, <1>9, <1>10, <1>11, <1>12
  DEF Next, Client, Serve

LEMMA AlwaysOrderly == Spec => [](Wired /\ Orderly)
<1>1. Init => Wired /\ Orderly
  BY InitWired, InitOrderly
<1>2. Wired /\ Orderly /\ [Next]_vars => (Wired /\ Orderly)'
  BY NextWired, NextOrderly
<1> QED
  BY <1>1, <1>2, PTL DEF Spec
-----------------------------------------------------------------------------
(***************************************************************************)
(* What arrives of a request.                                              *)
(***************************************************************************)
LEMMA PairIsNotSingle ==
    ASSUME NEW x, NEW y, NEW z
    PROVE  <<x, y>> # <<z>>
<1>1. Len(<<x, y>>) = 2 /\ Len(<<z>>) = 1
  OBVIOUS
<1> QED
  BY <1>1

LEMMA ValueFacts ==
    /\ \A v \in Values : v # Missing /\ v # Empty /\ v # Cut
    /\ \A k \in AllKeys : k # Cut
    /\ RootKey \in Values
    /\ Empty # Cut /\ Missing # Cut
<1>1. \A v \in Values : \E type, c : v = <<type, c>>
  BY DEF Values
<1>2. \A k \in AllKeys : \E type, r : k = <<type, r>>
  BY DEF AllKeys, Key
<1>3. RootKey \in Values
  BY FiveTypes, Processes DEF RootKey, Values
<1>4. Empty # Cut /\ Missing # Cut
  BY DEF Empty, Cut, Missing
<1> QED
  BY <1>1, <1>2, <1>3, <1>4, PairIsNotSingle DEF Missing, Empty, Cut

LEMMA CutArguments ==
    ASSUME NEW S, NEW s \in Seq(S), NEW n \in 1 .. Len(s),
           NEW arr \in {SubSeq(s, 1, n), SubSeq(s, 1, n - 1) \o <<Cut>>}
    PROVE  /\ DOMAIN arr = 1 .. n
           /\ \A i \in 1 .. n - 1 : arr[i] = s[i]
           /\ arr[n] = s[n] \/ arr[n] = Cut
<1>0. Len(s) \in Nat /\ n \in Nat /\ n >= 1 /\ n <= Len(s)
  OBVIOUS
<1>1. CASE arr = SubSeq(s, 1, n)
  <2>1. Len(SubSeq(s, 1, n)) = n /\ SubSeq(s, 1, n) \in Seq(S)
        /\ \A i \in 1 .. n : SubSeq(s, 1, n)[i] = s[i]
    BY <1>0
  <2> QED
    BY <1>0, <1>1, <2>1
<1>2. CASE arr = SubSeq(s, 1, n - 1) \o <<Cut>>
  <2> DEFINE T == S \cup {Cut}
  <2>1. Len(SubSeq(s, 1, n - 1)) = n - 1 /\ SubSeq(s, 1, n - 1) \in Seq(S)
        /\ \A i \in 1 .. n - 1 : SubSeq(s, 1, n - 1)[i] = s[i]
    BY <1>0
  <2>2. SubSeq(s, 1, n - 1) \in Seq(T) /\ <<Cut>> \in Seq(T) /\ Len(<<Cut>>) = 1
    BY <2>1
  <2>3. Len(arr) = n /\ arr \in Seq(T)
    BY <1>0, <1>2, <2>1, <2>2
  <2>4. \A i \in 1 .. n - 1 : arr[i] = s[i]
    BY <1>0, <1>2, <2>1, <2>2
  <2>5. arr[n] = Cut
    BY <1>0, <1>2, <2>1, <2>2
  <2> QED
    BY <1>0, <2>3, <2>4, <2>5
<1> QED
  BY <1>1, <1>2

\* The first arguments of the request, the last of them cut perhaps.
LEMMA WhatArrives ==
    ASSUME Wired, connfd # None, sent[From] > 0,
           NEW S, Asked.arr \in Seq(S), Len(Asked.arr) > 0, NEW arr \in Arrived
    PROVE  /\ 1 \in DOMAIN arr /\ DOMAIN arr \subseteq 1 .. Len(Asked.arr)
           /\ \A i \in DOMAIN arr : arr[i] = Asked.arr[i] \/ arr[i] = Cut
           /\ Len(Asked.arr) \in DOMAIN arr =>
                 /\ DOMAIN arr = 1 .. Len(Asked.arr)
                 /\ \A i \in 1 .. Len(Asked.arr) - 1 : arr[i] = Asked.arr[i]
<1>1. sent[From] \in 1 .. Len(Asked.arr) + 1 /\ Len(Asked.arr) \in Nat
      /\ DOMAIN Asked.arr = 1 .. Len(Asked.arr)
  BY ServedFacts DEF Wired, HeldConnections, From, Asked, TransportTypeOK
<1>2. CASE sent[From] = Len(Asked.arr) + 1
  <2>1. arr = Asked.arr
    BY <1>2 DEF Arrived, Complete, From
  <2> QED
    BY <1>1, <2>1
<1>3. CASE sent[From] # Len(Asked.arr) + 1
  <2> DEFINE s == Asked.arr
             n == sent[From]
  <2>1. n \in 1 .. Len(s)
    BY <1>1, <1>3
  <2>2. arr \in {SubSeq(s, 1, n), SubSeq(s, 1, n - 1) \o <<Cut>>}
    BY <1>3 DEF Arrived, Complete, From
  <2>3. s \in Seq(S) /\ Len(s) \in Nat
    BY <1>1
  <2> HIDE DEF s, n
  <2>4. /\ DOMAIN arr = 1 .. n
        /\ \A i \in 1 .. n - 1 : arr[i] = s[i]
        /\ arr[n] = s[n] \/ arr[n] = Cut
    BY <2>1, <2>2, <2>3, CutArguments
  <2>5. \A i \in 1 .. n : i \in 1 .. n - 1 \/ i = n
    BY <2>1, <2>3
  <2>6. 1 \in 1 .. n /\ 1 .. n \subseteq 1 .. Len(s) /\ (Len(s) \in 1 .. n => n = Len(s))
    BY <2>1, <2>3
  <2>7. \A i \in DOMAIN arr : arr[i] = s[i] \/ arr[i] = Cut
    BY <2>4, <2>5
  <2> QED
    BY <2>4, <2>6, <2>7 DEF s
<1> QED
  BY <1>2, <1>3

LEMMA SaveArrives ==
    ASSUME Wired, Savedata
    PROVE  savebuf' = <<TypeAt(connfd[2]), connfd[1]>> \/ savebuf' = Cut
<1>1. /\ connfd # None /\ sent[From] > 0 /\ Asked.op = "SAVEDATA"
  BY DEF Savedata, Command
<1>2. PICK arr \in Arrived : savebuf' = arr[1]
  BY DEF Savedata
<1> DEFINE v == <<TypeAt(connfd[2]), connfd[1]>>
<1>3. Asked = [op |-> "SAVEDATA", arr |-> <<v>>]
  BY <1>1, WhoAsks, AskedByPopulate
<1>4. Asked.arr = <<v>> /\ <<v>> \in Seq({v}) /\ Len(<<v>>) = 1 /\ <<v>>[1] = v
  <2> HIDE DEF v
  <2> QED
    BY <1>3
<1>5. 1 \in DOMAIN arr /\ (arr[1] = Asked.arr[1] \/ arr[1] = Cut)
  <2> HIDE DEF v
  <2>1. Asked.arr \in Seq({v}) /\ Len(Asked.arr) > 0
    BY <1>4
  <2> QED
    BY <1>1, <2>1, WhatArrives
<1> QED
  BY <1>2, <1>4, <1>5

\* Only keys of the type that is populated.
LEMMA KeysArrive ==
    ASSUME Wired, connfd # None, sent[From] > 0, Asked.op = "POPULATE", NEW arr \in Arrived
    PROVE  \A k \in AllKeys : k \in ToSet(arr) => \E r \in ToSet(Records) : k = Key(TypeAt(connfd[2]), r)
<1>1. Asked.arr = KeysOf(TypeAt(connfd[2])) /\ TypeAt(connfd[2]) \in ToSet(Types)
  BY WhoAsks, AskedByPopulate
<1>2. /\ Asked.arr \in Seq(AllKeys) /\ Len(Asked.arr) = Len(Records) /\ Len(Records) > 0
      /\ ToSet(Asked.arr) = {Key(TypeAt(connfd[2]), r) : r \in ToSet(Records)}
      /\ DOMAIN Asked.arr = 1 .. Len(Asked.arr)
  BY <1>1, KeysOfFacts, RecordsAssumption
<1>3. DOMAIN arr \subseteq 1 .. Len(Asked.arr) /\ \A i \in DOMAIN arr : arr[i] = Asked.arr[i] \/ arr[i] = Cut
  BY <1>2, WhatArrives
<1>4. \A k \in ToSet(arr) : \E i \in DOMAIN arr : k = arr[i]
  BY DEF ToSet
<1>5. \A k \in AllKeys : k \in ToSet(arr) => k \in ToSet(Asked.arr)
  BY <1>2, <1>3, <1>4, ValueFacts, QueueElements
<1> QED
  BY <1>2, <1>5

\* The pairs of an upload.
LEMMA UploadArguments ==
    ASSUME NEW c \in Routines
    PROVE  LET s == setall(c, Records[1]).arr
               first == Records[1]
           IN /\ s[1] = <<Key("wrap", first), <<"wrap", c>>>>
              /\ s[2] = <<Key("header", first), <<"header", c>>>>
              /\ s[3] = <<Key("data", first), <<"data", c>>>>
              /\ s[4] = <<Key("root_version", first), RootKey>>
              /\ \E S : s \in Seq(S)
              /\ Len(s) = 4
              /\ \A i \in 1 .. 4 : s[i] # Cut
<1> DEFINE a == <<Key("wrap", Records[1]), <<"wrap", c>>>>
           b == <<Key("header", Records[1]), <<"header", c>>>>
           d == <<Key("data", Records[1]), <<"data", c>>>>
           e == <<Key("root_version", Records[1]), RootKey>>
<1>1. setall(c, Records[1]).arr = <<a, b, d, e>>
  BY DEF setall
<1>2. a # Cut /\ b # Cut /\ d # Cut /\ e # Cut
  BY PairIsNotSingle DEF Cut
<1> HIDE DEF a, b, d, e
<1>3. <<a, b, d, e>> \in Seq({a, b, d, e}) /\ Len(<<a, b, d, e>>) = 4
  OBVIOUS
<1>4. \A i \in 1 .. 4 : <<a, b, d, e>>[i] # Cut
  BY <1>2
<1> DEFINE s == setall(c, Records[1]).arr
<1>5. s = <<a, b, d, e>>
  BY <1>1
<1> HIDE DEF s
<1>6. s[1] = a /\ s[2] = b /\ s[3] = d /\ s[4] = e /\ Len(s) = 4 /\ \A i \in 1 .. 4 : s[i] # Cut
  BY <1>4, <1>5
<1>7. \E S : s \in Seq(S)
  BY <1>3, <1>5
<1> QED
  BY <1>6, <1>7 DEF a, b, d, e, s

LEMMA UploadArrives ==
    ASSUME Wired, connfd # None, sent[From] > 0, Asked.op = "SETALL", NEW arr \in Arrived
    PROVE  /\ From \in Routines /\ DOMAIN arr \subseteq 1 .. 4
           /\ \A i \in Pairs(arr) : arr[i] = setall(From, Records[1]).arr[i]
           /\ RootMatches(arr) => Pairs(arr) = 1 .. 4
<1>1. From \in Routines /\ Asked = setall(From, Records[1])
  BY WhoAsks, AskedByOthers, Processes DEF From, getall
<1> DEFINE s == setall(From, Records[1]).arr
<1>2. Asked.arr = s
  BY <1>1
<1>3. /\ s[1] = <<Key("wrap", Records[1]), <<"wrap", From>>>>
      /\ s[2] = <<Key("header", Records[1]), <<"header", From>>>>
      /\ s[3] = <<Key("data", Records[1]), <<"data", From>>>>
      /\ s[4] = <<Key("root_version", Records[1]), RootKey>>
      /\ Len(s) = 4 /\ \A i \in 1 .. 4 : s[i] # Cut
  BY <1>1, UploadArguments
<1>4. PICK S : s \in Seq(S)
  BY <1>1, UploadArguments
<1> HIDE DEF s
<1>5. /\ DOMAIN arr \subseteq 1 .. 4
      /\ \A i \in DOMAIN arr : arr[i] = s[i] \/ arr[i] = Cut
      /\ 4 \in DOMAIN arr => DOMAIN arr = 1 .. 4 /\ \A i \in 1 .. 3 : arr[i] = s[i]
  <2>1. Len(Asked.arr) = 4 /\ Len(Asked.arr) - 1 = 3
    BY <1>2, <1>3
  <2>2. Len(Asked.arr) > 0 /\ Asked.arr \in Seq(S)
    BY <1>2, <1>4, <2>1
  <2> QED
    BY <1>2, <2>1, <2>2, WhatArrives
<1>6. \A i \in Pairs(arr) : arr[i] = s[i] /\ i \in 1 .. 4 /\ i \in DOMAIN arr
  BY <1>5 DEF Pairs
<1>7. ASSUME RootMatches(arr) PROVE Pairs(arr) = 1 .. 4
  <2>1. PICK i \in Pairs(arr) : arr[i][1][1] = "root_version"
    BY <1>7 DEF RootMatches
  <2>2. s[i][1][1] = "root_version" /\ i \in 1 .. 4 /\ i \in DOMAIN arr
    BY <1>6, <2>1
  <2>3. s[1][1][1] = "wrap" /\ s[2][1][1] = "header" /\ s[3][1][1] = "data"
    BY <1>3 DEF Key
  <2>4. i = 4
    BY <2>2, <2>3
  <2>5. DOMAIN arr = 1 .. 4 /\ \A j \in 1 .. 3 : arr[j] = s[j]
    BY <1>5, <2>2, <2>4
  <2>6. arr[4] # Cut
    BY <2>1, <2>4 DEF Pairs
  <2> QED
    BY <1>3, <2>5, <2>6 DEF Pairs
<1> QED
  BY <1>1, <1>5, <1>6, <1>7 DEF s

\* What an upload that counts stores: the whole of its record and a version.
LEMMA UploadStores ==
    ASSUME Wired, connfd # None, sent[From] > 0, Asked.op = "SETALL", NEW arr \in Arrived,
           RootMatches(arr)
    PROVE  /\ \A type \in {"ctxt_version", "wrap", "header", "data"} :
                 Stored(arr)[Key(type, Records[1])] = <<type, From>>
           /\ Stored(arr)[Key("root_version", Records[1])] = RootKey
           /\ \A type \in ToSet(Types), r \in ToSet(Records) : r # Records[1] =>
                 Stored(arr)[Key(type, r)] = db[Key(type, r)]
<1> DEFINE first == Records[1]
<1>1. From \in Routines /\ Pairs(arr) = 1 .. 4
      /\ \A i \in 1 .. 4 : arr[i] = setall(From, first).arr[i]
  BY UploadArrives
<1>2. /\ arr[1] = <<Key("wrap", first), <<"wrap", From>>>>
      /\ arr[2] = <<Key("header", first), <<"header", From>>>>
      /\ arr[3] = <<Key("data", first), <<"data", From>>>>
      /\ arr[4] = <<Key("root_version", first), RootKey>>
  BY <1>1, UploadArguments
<1>3. \A type \in ToSet(Types) : Key(type, first) \in AllKeys
  BY FirstRecord DEF AllKeys
<1>4. /\ \A i \in 1 .. 4 : arr[i][1] = Key("wrap", first) <=> i = 1
      /\ \A i \in 1 .. 4 : arr[i][1] = Key("header", first) <=> i = 2
      /\ \A i \in 1 .. 4 : arr[i][1] = Key("data", first) <=> i = 3
      /\ \A i \in 1 .. 4 : arr[i][1] = Key("root_version", first) <=> i = 4
      /\ \A i \in 1 .. 4 : arr[i][1] # Key("ctxt_version", first)
      /\ \A i \in 1 .. 4 : arr[i][1][2] = first
  BY <1>2 DEF Key
<1>5. Stored(arr)[Key("ctxt_version", first)] = <<"ctxt_version", From>>
  BY <1>3, FiveTypes DEF Stored
<1>6. ASSUME NEW j \in 1 .. 4, NEW k \in AllKeys, k # Key("ctxt_version", first),
             \A i \in 1 .. 4 : arr[i][1] = k <=> i = j
      PROVE  Stored(arr)[k] = arr[j][2]
  <2>1. (CHOOSE i \in Pairs(arr) : arr[i][1] = k) = j
    BY <1>1, <1>6
  <2> QED
    BY <1>1, <1>6, <2>1 DEF Stored
<1>7. ASSUME NEW k \in AllKeys, k[2] # first PROVE Stored(arr)[k] = db[k]
  <2>1. k # Key("ctxt_version", first)
    BY <1>7 DEF Key
  <2>2. \A i \in Pairs(arr) : arr[i][1] # k
    BY <1>1, <1>4, <1>7
  <2> QED
    BY <2>1, <2>2 DEF Stored
<1>8. /\ Key("wrap", first) # Key("ctxt_version", first) /\ Key("header", first) # Key("ctxt_version", first)
      /\ Key("data", first) # Key("ctxt_version", first) /\ Key("root_version", first) # Key("ctxt_version", first)
  BY DEF Key
<1>9. /\ Stored(arr)[Key("wrap", first)] = <<"wrap", From>>
      /\ Stored(arr)[Key("header", first)] = <<"header", From>>
      /\ Stored(arr)[Key("data", first)] = <<"data", From>>
      /\ Stored(arr)[Key("root_version", first)] = RootKey
  BY <1>2, <1>3, <1>4, <1>6, <1>8, FiveTypes
<1>10. \A type \in ToSet(Types), r \in ToSet(Records) : Key(type, r) \in AllKeys /\ Key(type, r)[2] = r
  BY DEF AllKeys, Key
<1> QED
  BY <1>5, <1>7, <1>9, <1>10
-----------------------------------------------------------------------------
(***************************************************************************)
(* Types of values.                                                        *)
(***************************************************************************)
LEMMA InitTyped == Init => Typed
<1> SUFFICES ASSUME Init PROVE Typed
  OBVIOUS
<1>1. TransportTypeOK
  BY InitWired DEF Wired
<1>2. TypeOK
  BY <1>1 DEF TypeOK, Init
<1>3. KeysHoldTheirOwnType
  BY DEF KeysHoldTheirOwnType, Init
<1> QED
  BY <1>2, <1>3 DEF Typed

\* Steps that leave the database alone.
LEMMA TypedKept ==
    ASSUME Typed, TransportTypeOK', UNCHANGED db,
           savebuf' \in Values \cup {Empty, Cut}, current_root_key' \in {NoRoot, RootKey},
           output' \in BOOLEAN, run' \in {"none", "clean", "disturbed", "finished"},
           restarts > 0 => restarts' > 0
    PROVE  Typed'
<1>1. TypeOK'
  BY DEF Typed, TypeOK
<1>2. KeysHoldTheirOwnType'
  BY DEF Typed, KeysHoldTheirOwnType
<1> QED
  BY <1>1, <1>2 DEF Typed

LEMMA TypedSavedata ==
    ASSUME Wired, Typed, TransportTypeOK', Savedata, UNCHANGED <<output, run>>
    PROVE  Typed'
<1>1. connfd # None /\ Asked.op = "SAVEDATA"
  BY DEF Savedata, Command
<1>2. connfd[1] \in Clients /\ TypeAt(connfd[2]) \in ToSet(Types)
  BY <1>1, WhoAsks, AskedByPopulate, ServedFacts
<1>3. savebuf' \in Values \cup {Empty, Cut}
  BY <1>2, SaveArrives DEF Values
<1>4. UNCHANGED <<db, current_root_key, output, run, restarts>>
  BY DEF Savedata, Handled
<1> QED
  BY <1>3, <1>4, TypedKept DEF Typed, TypeOK

LEMMA TypedPopulateKeys ==
    ASSUME Wired, Orderly, Typed, TransportTypeOK', PopulateKeys, UNCHANGED <<output, run>>
    PROVE  Typed'
<1>1. /\ connfd # None /\ Asked.op = "POPULATE" /\ sent[From] > 0 /\ result = "none"
      /\ UNCHANGED <<savebuf, current_root_key, output, run, restarts>>
  BY DEF PopulateKeys, Command, Serving, Handled
<1>2. PICK arr \in Arrived : db' = [k \in AllKeys |-> IF k \in ToSet(arr) THEN savebuf ELSE db[k]]
  BY DEF PopulateKeys
<1>3. /\ connfd[1] \in Populates /\ connfd[1] \in Clients /\ connfd[2] % 2 = 0
      /\ TypeAt(connfd[2]) \in ToSet(Types)
  BY <1>1, WhoAsks, AskedByPopulate, ServedFacts
<1>4. SavedFor(connfd[1], connfd[2])
  BY <1>1, <1>3 DEF Orderly, StoresInOrder, Unserved, Stores
<1>5. ASSUME NEW k \in AllKeys
      PROVE  /\ db'[k] \in Values \cup {Missing, Empty}
             /\ \/ db'[k] = Missing
                \/ db'[k] \in Values /\ db'[k][1] = k[1]
                \/ db'[k] = Empty /\ restarts' > 0
  <2>1. CASE k \in ToSet(arr)
    <3>1. k[1] = TypeAt(connfd[2])
      BY <1>1, <2>1, KeysArrive DEF Key
    <3>2. db'[k] = savebuf
      BY <1>2, <2>1
    <3>3. CASE savebuf = <<TypeAt(connfd[2]), connfd[1]>>
      BY <1>3, <3>1, <3>2, <3>3 DEF Values
    <3>4. CASE savebuf = Empty /\ restarts > 0
      BY <1>1, <3>2, <3>4
    <3> QED
      BY <1>4, <3>3, <3>4 DEF SavedFor
  <2>2. CASE k \notin ToSet(arr)
    BY <1>1, <1>2, <2>2 DEF Typed, TypeOK, KeysHoldTheirOwnType
  <2> QED
    BY <2>1, <2>2
<1>6. db' \in [AllKeys -> Values \cup {Missing, Empty}]
  BY <1>2, <1>5
<1>7. TypeOK'
  BY <1>1, <1>6 DEF Typed, TypeOK
<1>8. KeysHoldTheirOwnType'
  BY <1>5 DEF KeysHoldTheirOwnType
<1> QED
  BY <1>7, <1>8 DEF Typed

LEMMA TypedSetall ==
    ASSUME Wired, Typed, TransportTypeOK', Setall, UNCHANGED <<output, run>>
    PROVE  Typed'
<1>1. /\ connfd # None /\ Asked.op = "SETALL" /\ sent[From] > 0
      /\ UNCHANGED <<savebuf, current_root_key, output, run, restarts>>
  BY DEF Setall, Command, Handled
<1>2. PICK arr \in Arrived : db' = IF RootMatches(arr) THEN Stored(arr) ELSE db
  BY DEF Setall
<1>3. CASE ~RootMatches(arr)
  BY <1>1, <1>2, <1>3, TypedKept DEF Typed, TypeOK
<1>4. CASE RootMatches(arr)
  <2>1. From \in Clients
    BY <1>1, ServedFacts DEF From
  <2>2. ASSUME NEW k \in AllKeys
        PROVE  /\ db'[k] \in Values \cup {Missing, Empty}
               /\ \/ db'[k] = Missing
                  \/ db'[k] \in Values /\ db'[k][1] = k[1]
                  \/ db'[k] = Empty /\ restarts' > 0
    <3>1. PICK type \in ToSet(Types), r \in ToSet(Records) : k = Key(type, r)
      BY DEF AllKeys
    <3>2. CASE r # Records[1]
      <4>1. db'[k] = db[k]
        BY <1>1, <1>2, <1>4, <3>1, <3>2, UploadStores
      <4> QED
        BY <1>1, <4>1 DEF Typed, TypeOK, KeysHoldTheirOwnType
    <3>3. CASE r = Records[1] /\ type = "root_version"
      <4>1. db'[k] = RootKey
        BY <1>1, <1>2, <1>4, <3>1, <3>3, UploadStores
      <4> QED
        BY <3>1, <3>3, <4>1, ValueFacts DEF RootKey, Key
    <3>4. CASE r = Records[1] /\ type # "root_version"
      <4>1. type \in {"ctxt_version", "wrap", "header", "data"}
        BY <3>4, FiveTypes
      <4>2. db'[k] = <<type, From>>
        BY <1>1, <1>2, <1>4, <3>1, <3>4, <4>1, UploadStores
      <4> QED
        BY <2>1, <3>1, <4>2 DEF Values, Key
    <3> QED
      BY <3>2, <3>3, <3>4
  <2>3. db' \in [AllKeys -> Values \cup {Missing, Empty}]
    <3>1. db' = Stored(arr)
      BY <1>2, <1>4
    <3>2. \A k \in AllKeys : Stored(arr)[k] \in Values \cup {Missing, Empty}
      BY <2>2, <3>1
    <3> QED
      BY <3>1, <3>2 DEF Stored
  <2>4. TypeOK'
    BY <1>1, <2>3 DEF Typed, TypeOK
  <2>5. KeysHoldTheirOwnType'
    BY <2>2 DEF KeysHoldTheirOwnType
  <2> QED
    BY <2>4, <2>5 DEF Typed
<1> QED
  BY <1>3, <1>4

LEMMA NextTyped == Wired /\ Orderly /\ Typed /\ [Next]_vars => Typed'
<1> SUFFICES ASSUME Wired, Orderly, Typed, [Next]_vars PROVE Typed'
  OBVIOUS
<1>1. TransportTypeOK'
  BY NextWired DEF Wired
<1>2. /\ savebuf \in Values \cup {Empty, Cut} /\ current_root_key \in {NoRoot, RootKey}
      /\ output \in BOOLEAN /\ run \in {"none", "clean", "disturbed", "finished"}
  BY DEF Typed, TypeOK
<1>3. ASSUME NEW c \in Clients, Start(c) PROVE Typed'
  <2>1. UNCHANGED <<restarts, data, output>> /\ run' \in {"clean", run}
    BY <1>3 DEF Start
  <2> QED
    BY <1>1, <1>2, <2>1, TypedKept DEF data
<1>4. ASSUME NEW c \in Clients, Travel(c) \/ Kill(c) PROVE Typed'
  <2>1. UNCHANGED <<restarts, data, output, run>>
    BY <1>4 DEF Travel, Kill, Killed, Connect, ConnectFails, Send, SendFails
  <2> QED
    BY <1>1, <1>2, <2>1, TypedKept DEF data
<1>5. ASSUME NEW c \in Clients, Receive(c) PROVE Typed'
  <2>1. UNCHANGED <<restarts, data>> /\ run' \in {"finished", run} /\ output' \in BOOLEAN
    BY <1>5 DEF Receive, Proceed
  <2> QED
    BY <1>1, <1>2, <2>1, TypedKept DEF data
<1>6. CASE (Accept \/ Getall \/ Ignore \/ Answer) /\ UNCHANGED <<data, output, run>>
  <2>1. restarts' = restarts
    BY <1>6 DEF Accept, Getall, Handled, Ignore, Unrecognised, Answer, ReplyPart, Reply
  <2> QED
    BY <1>1, <1>2, <1>6, <2>1, TypedKept DEF data
<1>7. CASE Savedata /\ UNCHANGED <<output, run>>
  BY <1>1, <1>7, TypedSavedata
<1>8. CASE PopulateKeys /\ UNCHANGED <<output, run>>
  BY <1>1, <1>8, TypedPopulateKeys
<1>9. CASE Setall /\ UNCHANGED <<output, run>>
  BY <1>1, <1>9, TypedSetall
<1>10. CASE Rootkey /\ UNCHANGED <<output, run>>
  <2>1. connfd # None /\ Asked.op = "ROOTKEY"
    BY <1>10 DEF Rootkey, Command
  <2>2. connfd[1] \notin Populates
    BY <2>1, WhoAsks, Processes
  <2>3. Asked.arr = <<RootKey>>
    BY <2>1, <2>2, AskedByOthers DEF getall, setall
  <2>4. current_root_key' = RootKey /\ UNCHANGED <<db, savebuf, restarts>>
    BY <1>10, <2>3 DEF Rootkey, Handled
  <2> QED
    BY <1>1, <1>2, <1>10, <2>4, TypedKept
<1>11. CASE Crash
  <2>1. UNCHANGED <<restarts, data, output>> /\ run' \in {run, "disturbed"}
    BY <1>11 DEF Crash, ReplyKills, ServerEnds
  <2> QED
    BY <1>1, <1>2, <2>1, TypedKept DEF data
<1>12. CASE Restart
  <2>1. /\ savebuf' = Empty /\ current_root_key' = NoRoot /\ UNCHANGED <<db, output, run>>
        /\ restarts' > 0
    BY <1>12 DEF Restart, ServerStarts, Wired, TransportTypeOK
  <2> QED
    BY <1>1, <1>2, <2>1, TypedKept
<1>13. CASE UNCHANGED vars
  <2>1. UNCHANGED <<restarts, data, output, run>>
    BY <1>13 DEF vars, transport
  <2> QED
    BY <1>1, <1>2, <2>1, TypedKept DEF data
<1> QED
  BY <1>3, <1>4, <1>5, <1>6, <1>7, <1>8, <1>9, <1>10, <1>11, <1>12, <1>13 
  DEF Next, Client, Serve, Getall, Ignore, Answer

LEMMA AlwaysTyped == Spec => [](Wired /\ Orderly /\ Typed)
<1>1. Init => Typed
  BY InitTyped
<1>2. Wired /\ Orderly /\ Typed /\ [Next]_vars => Typed'
  BY NextTyped
<1> QED
  BY <1>1, <1>2, AlwaysOrderly, PTL DEF Spec

\* TypeOK: every variable of Populate and of Transport has its type.
THEOREM PopulateTypeOK == Spec => []TypeOK
<1>1. Typed => TypeOK
  BY DEF Typed
<1> QED
  BY <1>1, AlwaysTyped, PTL

\* KeysHoldTheirOwnType: POPULATE (simple_server.c:858) stores what another
\* request put in savebuf, and yet no key gets the value of another type.
THEOREM OwnType == Spec => []KeysHoldTheirOwnType
<1>1. Typed => KeysHoldTheirOwnType
  BY DEF Typed
<1> QED
  BY <1>1, AlwaysTyped, PTL

\* UploadsAreWhole: SETALL (simple_server.c:613) changes nothing or all of a
\* record, wherever its client was cut off.
THEOREM WholeUploads == Spec => UploadsAreWhole
<1>1. ASSUME Wired, [Next]_vars, NEW c \in Routines, connfd # None, connfd[1] = c
      PROVE  \/ db' = db
             \/ \A type \in {"ctxt_version", "wrap", "header", "data"} :
                   db'[Key(type, Records[1])] = <<type, c>>
  <2>1. CASE PopulateKeys
    <3>1. Asked.op = "POPULATE"
      BY <2>1 DEF PopulateKeys, Command
    <3> QED
      BY <1>1, <3>1, WhoAsks, Processes
  <2>2. CASE Setall
    <3>1. PICK arr \in Arrived : db' = IF RootMatches(arr) THEN Stored(arr) ELSE db
      BY <2>2 DEF Setall
    <3>2. connfd # None /\ sent[From] > 0 /\ Asked.op = "SETALL" /\ From = c
      BY <1>1, <2>2 DEF Setall, Command, From
    <3> QED
      BY <1>1, <3>1, <3>2, UploadStores
  <2>3. CASE ~PopulateKeys /\ ~Setall
    BY <1>1, <2>3 DEF Next, Client, Start, Travel, Receive, Kill, Serve, Savedata, Getall, Rootkey,
       Ignore, Answer, Crash, Restart, data, vars
  <2> QED
    BY <2>1, <2>2, <2>3
<1>2. Wired /\ [Next]_vars =>
        [\A c \in Routines : connfd # None /\ connfd[1] = c =>
          \/ db' = db
          \/ \A type \in {"ctxt_version", "wrap", "header", "data"} :
                db'[Key(type, Records[1])] = <<type, c>>]_vars
  BY <1>1
<1> QED
  BY <1>2, AlwaysWired, PTL DEF Spec, UploadsAreWhole
-----------------------------------------------------------------------------
(***************************************************************************)
(* What populate leaves in the database.                                   *)
(***************************************************************************)
LEMMA InitFilled == Init => Filled
<1> SUFFICES ASSUME Init PROVE Filled
  OBVIOUS
<1> QED
  BY DEF Init, Filled

\* Steps that leave the database alone, and serve no POPULATE.
LEMMA FilledKept ==
    ASSUME Filled, UNCHANGED db,
           run' = "clean" => run = "clean", run' = "finished" => run = "finished",
           \A p \in Populates : pc'[p] \in Active => pc[p] \in Active /\ at'[p] = at[p],
           \A p \in Populates : pc'[p] \in Active /\ Served(p)' /\ at[p] % 2 = 0 => Served(p),
           run = "finished" =>
              /\ \A p \in Populates : Idle(p) => Idle(p)'
              /\ \A conn : Waits(conn)' /\ ~Waits(conn) => conn[1] \notin Populates
    PROVE  Filled'
<1>1. ASSUME NEW p \in Populates, pc'[p] \in Active, run' = "clean", NEW j \in 1 .. 5,
             2 * j < at'[p] \/ (2 * j = at'[p] /\ Served(p)')
      PROVE  \A r \in ToSet(Records) : db'[Key(Types[j], r)] = <<Types[j], p>>
  <2>1. StoredSoFar(p) /\ at'[p] = at[p]
    BY <1>1 DEF Filled
  <2>2. 2 * j = at[p] => at[p] % 2 = 0
    OBVIOUS
  <2>3. 2 * j < at[p] \/ (2 * j = at[p] /\ Served(p))
    BY <1>1, <2>1, <2>2
  <2> QED
    BY <2>1, <2>3 DEF StoredSoFar
<1>2. \A p \in Populates : pc'[p] \in Active /\ run' = "clean" => StoredSoFar(p)'
  BY <1>1 DEF StoredSoFar
<1>3. Whole => Whole'
  BY DEF Whole
<1>4. run' = "finished" =>
          /\ Whole'
          /\ \A p \in Populates : Idle(p)'
          /\ \A conn : Waits(conn)' => conn[1] \notin Populates
  BY <1>3 DEF Filled
<1> QED
  BY <1>2, <1>4 DEF Filled

\* A request that is served while a run of populate is past its first one is
\* that run's or the coordinator's.
LEMMA ServedInTurn ==
    ASSUME Wired, Orderly, connfd # None, result = "none", NEW p \in Populates, pc[p] \in Active,
           at[p] >= 2 \/ Served(p)
    PROVE  connfd[1] \in {p, Coordinator}
<1>1. Waits(connfd)
  BY DEF Waits, Unserved
<1>2. Quiet(p)
  BY DEF Orderly, ActiveInOrder
<1> QED
  BY <1>1, <1>2 DEF Quiet

LEMMA FilledStart ==
    ASSUME Wired, Filled, NEW c \in Clients, Start(c)
    PROVE  Filled'
<1>1. /\ pc[c] = "idle" /\ at[c] = 1
      /\ UNCHANGED <<at, reply, queue, connfd, open, result, db>>
      /\ run' = IF c \in Populates THEN "clean" ELSE run
      /\ \A d \in Clients : d # c => pc'[d] = pc[d]
      /\ pc'[c] = "connect"
  BY DEF Start, thread, data, Wired, TransportTypeOK, Steps
<1>2. CASE c \in Populates
  <2>1. \A p \in Populates : pc'[p] \in Active => p = c
    BY <1>1, <1>2, Processes DEF Start, MayStart, Idle, Active
  <2>2. StoredSoFar(c)'
    BY <1>1 DEF StoredSoFar, Served
  <2> QED
    BY <1>1, <1>2, <2>1, <2>2 DEF Filled
<1>3. CASE c \notin Populates
  <2>1. \A p \in Populates : pc'[p] = pc[p] /\ pc[p] \notin Active
    BY <1>1, <1>3, Processes DEF Start, MayStart, Idle, Active
  <2>2. \A conn : Waits(conn)' <=> Waits(conn)
    BY <1>1 DEF Waits, Unserved
  <2> QED
    BY <1>1, <1>3, <2>1, <2>2, FilledKept DEF Idle
<1> QED
  BY <1>2, <1>3

LEMMA FilledConnect ==
    ASSUME Wired, Filled, NEW c \in Clients, Connect(c), UNCHANGED <<db, run>>
    PROVE  Filled'
<1> DEFINE S == Clients \X Nat
<1>1. /\ pc[c] = "connect" /\ queue' = Append(queue, Connection(c))
      /\ UNCHANGED <<at, connfd, open, result>>
      /\ \A d \in Clients : d # c => pc'[d] = pc[d] /\ reply'[d] = reply[d]
      /\ pc'[c] \in {"send", "ended"} /\ reply'[c] = "none"
      /\ queue \in Seq(S) /\ Connection(c) \in S /\ Connection(c)[1] = c
  BY DEF Connect, Wired, TransportTypeOK, Connection
<1> HIDE DEF S
<1>2. ToSet(queue') = ToSet(queue) \cup {Connection(c)}
  BY <1>1, AppendFacts
<1>3. Connection(c) # connfd
  <2>1. Connection(c) # None
    BY DEF Connection, None
  <2> QED
    BY <1>1, <2>1, ServedFacts
<1>4. ASSUME NEW p \in Populates, Served(p)' PROVE Served(p)
  <2>1. p \in Clients /\ Connection(p)' = Connection(p)
    BY <1>1, Processes DEF Connection
  <2>2. p # c
    BY <1>1, <1>2, <1>3, <1>4, <2>1 DEF Served, Live
  <2> QED
    BY <1>1, <1>2, <1>4, <2>1, <2>2 DEF Served, Live
<1>5. \A conn : Waits(conn)' /\ ~Waits(conn) => conn[1] = c
  BY <1>1, <1>2 DEF Waits, Unserved
<1>6. \A p \in Populates : pc'[p] \in Active => pc[p] \in Active
  BY <1>1, Processes DEF Active
<1>7. run = "finished" => c \notin Populates /\ \A p \in Populates : Idle(p)'
  BY <1>1, Processes DEF Filled, Idle
<1> QED
  BY <1>1, <1>4, <1>5, <1>6, <1>7, FilledKept

LEMMA WholeWhenDone ==
    ASSUME NEW p \in Populates,
           \A j \in 1 .. 5 : \A r \in ToSet(Records) : db[Key(Types[j], r)] = <<Types[j], p>>
    PROVE  Whole
<1>1. \A type \in ToSet(Types) : \E j \in 1 .. 5 : Types[j] = type
  BY FiveTypes DEF ToSet, Types
<1>2. \A type \in ToSet(Types), r \in ToSet(Records) : db[Key(type, r)] = <<type, p>>
  BY <1>1
<1>3. {"header", "data", "wrap"} \subseteq ToSet(Types) /\ p \in Clients
  BY FiveTypes, Processes
<1>4. \A r \in ToSet(Records) : \A type \in ToSet(Types) : db[Key(type, r)] \in Values
  BY <1>2, <1>3 DEF Values
<1>5. \A r \in ToSet(Records) : \A type \in {"header", "data", "wrap"} : db[Key(type, r)][2] = p
  BY <1>2, <1>3
<1> QED
  BY <1>4, <1>5 DEF Whole

LEMMA FilledReceive ==
    ASSUME Wired, Orderly, Filled, NEW c \in Clients, Receive(c)
    PROVE  Filled'
<1>1. /\ pc[c] = "wait" /\ (reply[c] = "whole" \/ ~Live(c))
      /\ pc'[c] \in {"connect", "ended"} /\ at'[c] = at[c] + 1
      /\ AtLast(c) => pc'[c] = "ended"
      /\ \A d \in Clients : d # c => pc'[d] = pc[d] /\ at'[d] = at[d]
      /\ UNCHANGED <<reply, queue, connfd, open, result, db>>
      /\ run' = IF c \in Populates /\ AtLast(c) /\ run = "clean" THEN "finished" ELSE run
  BY DEF Receive, Answered, CutOff, Following, Proceed, thread, data, Wired, TransportTypeOK
<1>2. \A conn : Waits(conn)' <=> Waits(conn)
  BY <1>1 DEF Waits, Unserved
<1>3. \A p \in Populates : p # c => (Served(p)' <=> Served(p))
  BY <1>1, Processes DEF Served, Live, Connection
<1>4. CASE c \notin Populates
  <2>1. \A p \in Populates : UNCHANGED <<pc[p], at[p]>> /\ p # c
    BY <1>1, <1>4, Processes
  <2> QED
    BY <1>1, <1>2, <1>3, <1>4, <2>1, FilledKept DEF Idle
<1>5. CASE c \in Populates
  <2>1. pc[c] \in Active /\ Served(c) /\ run # "finished"
    BY <1>1, <1>5 DEF Active, Served, Filled, Idle
  <2>2. Quiet(c) /\ \A d \in Populates : d # c => Idle(d)
    BY <1>5, <2>1 DEF Orderly, ActiveInOrder
  <2>3. at[c] \in Nat
    BY DEF Wired, TransportTypeOK
  <2>4. \A p \in Populates : pc'[p] \in Active => p = c
    BY <1>1, <2>2, Processes DEF Idle, Active
  <2>5. CASE run # "clean"
    BY <1>1, <2>1, <2>5 DEF Filled
  <2>6. CASE run = "clean"
    <3>1. StoredSoFar(c)
      BY <1>5, <2>1, <2>6 DEF Filled
    <3>2. ASSUME NEW j \in 1 .. 5, 2 * j <= at[c]
          PROVE  \A r \in ToSet(Records) : db[Key(Types[j], r)] = <<Types[j], c>>
      <4>1. 2 * j < at[c] \/ 2 * j = at[c]
        BY <2>3, <3>2
      <4> QED
        BY <2>1, <3>1, <4>1 DEF StoredSoFar
    <3>3. CASE AtLast(c)
      <4>1. at[c] = 10
        BY <1>5, <3>3, PopulateRequests DEF AtLast
      <4>2. Whole
        <5>1. \A j \in 1 .. 5 : 2 * j <= at[c]
          BY <4>1
        <5> QED
          BY <1>5, <3>2, <5>1, WholeWhenDone
      <4>3. Whole'
        BY <1>1, <4>2 DEF Whole
      <4>4. \A p \in Populates : Idle(p)'
        BY <1>1, <2>2, <3>3, Processes DEF Idle
      <4>5. \A conn : Waits(conn) => conn[1] \notin Populates
        <5>1. Connection(c) \notin Held
          <6>1. reply[c] = "whole" => Connection(c) \notin Held
            BY DEF Wired, HeldConnections, Connection
          <6>2. ~Live(c) => Connection(c) \notin Held
            BY DEF Live, Held, Wired, TransportTypeOK
          <6> QED
            BY <1>1, <6>1, <6>2
        <5>2. \A conn \in Held : conn[1] # c
          BY <5>1, IsConnection DEF Wired, HeldConnections
        <5>3. \A conn : Waits(conn) => conn \in Held
          BY DEF Waits, Held, Unserved
        <5> QED
          BY <2>2, <5>2, <5>3, Processes DEF Quiet
      <4> QED
        BY <1>1, <1>2, <1>5, <2>6, <3>3, <4>3, <4>4, <4>5 DEF Filled
    <3>4. CASE ~AtLast(c)
      <4>1. \A j \in 1 .. 5 : 2 * j < at'[c] => 2 * j <= at[c]
        BY <1>1, <2>3
      <4>2. ~Served(c)'
        BY <1>1 DEF Served
      <4>3. StoredSoFar(c)'
        BY <1>1, <3>2, <4>1, <4>2 DEF StoredSoFar
      <4> QED
        BY <1>1, <2>4, <2>6, <3>4, <4>3 DEF Filled
    <3> QED
      BY <3>3, <3>4
  <2> QED
    BY <2>5, <2>6
<1> QED
  BY <1>4, <1>5

LEMMA FilledCommand ==
    ASSUME Wired, Orderly, Filled, connfd # None, result = "none", Handled, UNCHANGED <<db, run>>,
           connfd[1] \in Populates => connfd[2] % 2 = 1
    PROVE  Filled'
<1>1. UNCHANGED <<pc, at>> /\ \A conn : Waits(conn)' => Waits(conn)
  BY Handling
<1>2. ASSUME NEW p \in Populates, Served(p)', at[p] % 2 = 0 PROVE Served(p)
  <2>1. connfd # Connection(p)
    BY <1>2 DEF Connection
  <2> QED
    BY <1>2, <2>1, Handling
<1> QED
  BY <1>1, <1>2, FilledKept DEF Idle

LEMMA FilledPopulateKeys ==
    ASSUME Wired, Orderly, Filled, PopulateKeys, UNCHANGED run
    PROVE  Filled'
<1>1. /\ connfd # None /\ Asked.op = "POPULATE" /\ sent[From] > 0 /\ result = "none" /\ Handled
      /\ Serving(Len(Asked.arr) + 1)
  BY DEF PopulateKeys, Command, Serving
<1>2. PICK arr \in Arrived : db' = [k \in AllKeys |-> IF k \in ToSet(arr) THEN savebuf ELSE db[k]]
  BY DEF PopulateKeys
<1>3. /\ connfd[1] \in Populates /\ connfd[1] \in Clients /\ connfd[2] % 2 = 0 /\ connfd[2] \in 1 .. 10
      /\ Asked = [op |-> "POPULATE", arr |-> KeysOf(TypeAt(connfd[2]))]
      /\ TypeAt(connfd[2]) \in ToSet(Types) /\ connfd[2] = at[connfd[1]]
  BY <1>1, WhoAsks, AskedByPopulate, ServedFacts
<1>4. UNCHANGED <<pc, at>>
  BY <1>1, Handling
<1>5. run # "finished"
  BY <1>1, <1>3 DEF Filled, Waits, Unserved
<1>6. ASSUME NEW p \in Populates, pc[p] \in Active, run = "clean" PROVE StoredSoFar(p)'
  <2>1. StoredSoFar(p) /\ at[p] \in Nat /\ at[p] >= 1
    BY <1>6, Processes DEF Filled, Wired, TransportTypeOK, Steps
  <2>2. CASE connfd[1] # p
    <3>1. ~(at[p] >= 2 \/ Served(p))
      BY <1>1, <1>3, <1>6, <2>2, ServedInTurn, Processes
    <3>2. \A j \in 1 .. 5 : ~(2 * j < at[p]) /\ 2 * j # at[p]
      BY <2>1, <3>1
    <3> QED
      BY <1>4, <3>2 DEF StoredSoFar
  <2>3. CASE connfd[1] = p
    <3>1. ~Gone(connfd)
      BY <1>3, <1>6, <2>3 DEF Gone, Active
    <3>2. arr = Asked.arr
      BY <1>1, <1>2, <3>1, ArrivesWhole
    <3>3. savebuf = <<TypeAt(at[p]), p>>
      BY <1>1, <1>3, <1>6, <2>3 DEF Orderly, StoresInOrder, Unserved, Stores, SavedFor
    <3>4. ToSet(arr) = {Key(TypeAt(at[p]), r) : r \in ToSet(Records)}
      BY <1>3, <2>3, <3>2, KeysOfFacts
    <3>5. ASSUME NEW j \in 1 .. 5, NEW r \in ToSet(Records), 2 * j <= at[p]
          PROVE  db'[Key(Types[j], r)] = <<Types[j], p>>
      <4>1. Key(Types[j], r) \in AllKeys
        BY FiveTypes DEF AllKeys
      <4>2. CASE 2 * j = at[p]
        <5>1. TypeAt(at[p]) = Types[j]
          <6>1. (2 * j + 1) \div 2 = j
            OBVIOUS
          <6> QED
            BY <4>2, <6>1 DEF TypeAt
        <5> QED
          BY <1>2, <3>3, <3>4, <4>1, <5>1
      <4>3. CASE 2 * j < at[p]
        <5>1. db[Key(Types[j], r)] = <<Types[j], p>>
          BY <2>1, <4>3 DEF StoredSoFar
        <5>2. TypeAt(at[p]) # Types[j]
          <6>1. (at[p] + 1) \div 2 \in 1 .. 5 /\ (at[p] + 1) \div 2 # j
            BY <1>3, <2>3, <4>3
          <6> QED
            BY <6>1, FiveTypes DEF TypeAt
        <5>3. Key(Types[j], r) \notin ToSet(arr)
          BY <3>4, <5>2 DEF Key
        <5> QED
          BY <1>2, <4>1, <5>1, <5>3
      <4> QED
        BY <2>1, <3>5, <4>2, <4>3
    <3>6. \A j \in 1 .. 5 : 2 * j < at[p] \/ 2 * j = at[p] => 2 * j <= at[p]
      BY <2>1
    <3> QED
      BY <1>4, <3>5, <3>6 DEF StoredSoFar
  <2> QED
    BY <2>2, <2>3
<1> QED
  BY <1>4, <1>5, <1>6 DEF Filled

LEMMA FilledSetall ==
    ASSUME Wired, Orderly, Filled, Setall, UNCHANGED run
    PROVE  Filled'
<1>1. /\ connfd # None /\ Asked.op = "SETALL" /\ sent[From] > 0 /\ result = "none" /\ Handled
  BY DEF Setall, Command, Serving
<1>2. PICK arr \in Arrived : db' = IF RootMatches(arr) THEN Stored(arr) ELSE db
  BY DEF Setall
<1>3. connfd[1] \in Routines /\ connfd[1] \notin Populates /\ From \in Clients /\ connfd[1] # Coordinator
  BY <1>1, WhoAsks, Processes DEF From
<1>4. CASE ~RootMatches(arr)
  BY <1>1, <1>2, <1>3, <1>4, FilledCommand
<1>5. CASE RootMatches(arr)
  <2>1. UNCHANGED <<pc, at>> /\ \A conn : Waits(conn)' => Waits(conn)
    BY <1>1, Handling
  <2>2. ASSUME NEW p \in Populates, pc[p] \in Active PROVE StoredSoFar(p)'
    <3>1. ~(at[p] >= 2) /\ at[p] \in Nat
      BY <1>1, <1>3, <2>2, ServedInTurn, Processes DEF Wired, TransportTypeOK
    <3>2. \A j \in 1 .. 5 : ~(2 * j < at[p]) /\ 2 * j # at[p]
      BY <3>1
    <3> QED
      BY <2>1, <3>2 DEF StoredSoFar
  <2>3. Whole => Whole'
    <3> SUFFICES ASSUME Whole, NEW r \in ToSet(Records)
                 PROVE  /\ \A type \in ToSet(Types) : db'[Key(type, r)] \in Values
                        /\ \A type \in {"header", "data"} :
                               db'[Key(type, r)][2] = db'[Key("wrap", r)][2]
      BY DEF Whole
    <3>1. {"header", "data", "wrap"} \subseteq ToSet(Types)
      BY FiveTypes
    <3>2. CASE r # Records[1]
      <4>1. \A type \in ToSet(Types) : db'[Key(type, r)] = db[Key(type, r)]
        BY <1>1, <1>2, <1>5, <3>2, UploadStores
      <4> QED
        BY <3>1, <4>1 DEF Whole
    <3>3. CASE r = Records[1]
      <4>1. \A type \in {"ctxt_version", "wrap", "header", "data"} : db'[Key(type, r)] = <<type, From>>
        BY <1>1, <1>2, <1>5, <3>3, UploadStores
      <4>2. db'[Key("root_version", r)] \in Values
        BY <1>1, <1>2, <1>5, <3>3, UploadStores, ValueFacts
      <4>3. \A type \in ToSet(Types) : db'[Key(type, r)] \in Values
        BY <1>3, <4>1, <4>2, FiveTypes DEF Values
      <4> QED
        BY <4>1, <4>3
    <3> QED
      BY <3>2, <3>3
  <2> QED
    BY <2>1, <2>2, <2>3 DEF Filled, Idle
<1> QED
  BY <1>4, <1>5

LEMMA NextFilled == Wired /\ Orderly /\ Filled /\ [Next]_vars => Filled'
<1> SUFFICES ASSUME Wired, Orderly, Filled, [Next]_vars PROVE Filled'
  OBVIOUS
<1>1. ASSUME NEW c \in Clients, Start(c) PROVE Filled'
  BY <1>1, FilledStart
<1>2. ASSUME UNCHANGED <<at, reply, queue, connfd, open, result, db, run>>,
             \A c \in Populates : Idle(c) => Idle(c)',
             \A c \in Populates : pc'[c] \in Active =>
                   /\ pc[c] \in Active
                   /\ pc'[c] = pc[c] \/ {pc[c], pc'[c]} \subseteq {"send", "wait"}
      PROVE  Filled'
  <2>1. \A p \in Populates : pc'[p] \in Active /\ Served(p)' => Served(p)
    BY <1>2 DEF Served, Live, Connection
  <2>2. \A conn : Waits(conn)' <=> Waits(conn)
    BY <1>2 DEF Waits, Unserved
  <2> QED
    BY <1>2, <2>1, <2>2, FilledKept
<1>3. ASSUME NEW c \in Clients, Travel(c) PROVE Filled'
  <2>1. CASE Connect(c)
    BY <1>3, <2>1, FilledConnect DEF Travel, data
  <2>2. CASE ConnectFails(c) \/ (pc[c] = "send" /\ Send(c, Size(c), Long(c))) \/ SendFails(c)
    <3>1. /\ UNCHANGED <<at, reply, queue, connfd, open, result, db, run>>
          /\ \A d \in Clients : d # c => pc'[d] = pc[d]
          /\ pc[c] \in {"connect", "send"}
          /\ pc'[c] \in {pc[c], "ended"} \/ (pc[c] = "send" /\ pc'[c] = "wait")
      BY <1>3, <2>2 DEF Travel, data, ConnectFails, Send, SendFails, thread, Wired, TransportTypeOK
    <3> QED
      BY <1>2, <3>1, Processes DEF Idle, Active
  <2> QED
    BY <1>3, <2>1, <2>2 DEF Travel
<1>4. ASSUME NEW c \in Clients, Receive(c) PROVE Filled'
  BY <1>4, FilledReceive
<1>5. ASSUME NEW c \in Clients, Kill(c) PROVE Filled'
  <2>1. /\ UNCHANGED <<at, reply, queue, connfd, open, result, db, run>>
        /\ \A d \in Clients : d # c => pc'[d] = pc[d]
        /\ pc[c] \in Active /\ pc'[c] = "ended"
    BY <1>5 DEF Kill, Killed, data, thread, Wired, TransportTypeOK, Active
  <2> QED
    BY <1>2, <2>1, Processes DEF Idle, Active
<1>6. CASE Accept /\ UNCHANGED <<data, output, run>>
  <2> DEFINE S == Clients \X Nat
  <2>1. /\ connfd = None /\ queue # << >> /\ queue \in Seq(S) /\ result = "none"
        /\ connfd' = Head(queue) /\ queue' = Tail(queue) /\ open' = open \cup {Head(queue)}
        /\ UNCHANGED <<pc, at, reply, result, db, run>>
    BY <1>6 DEF Wired, TransportTypeOK, Steps, Accept, clients, data
  <2> HIDE DEF S
  <2>2. ToSet(queue) = ToSet(Tail(queue)) \cup {Head(queue)}
    BY <2>1, TailFacts
  <2>3. \A conn : Waits(conn)' => Waits(conn)
    BY <2>1, <2>2 DEF Waits, Unserved
  <2>4. \A p \in Populates : Served(p)' => Served(p)
    BY <2>1, <2>2 DEF Served, Live, Connection
  <2> QED
    BY <2>1, <2>3, <2>4, FilledKept DEF Idle
<1>7. CASE (Savedata \/ Getall \/ Rootkey) /\ run' = run
  <2>1. /\ connfd # None /\ result = "none" /\ Handled /\ db' = db
        /\ Asked.op \in {"SAVEDATA", "GETALL", "ROOTKEY"}
    BY <1>7 DEF Savedata, Getall, Rootkey, Command, Serving, data
  <2>2. connfd[1] \in Populates => connfd[2] % 2 = 1
    BY <2>1, WhoAsks, Processes
  <2> QED
    BY <1>7, <2>1, <2>2, FilledCommand
<1>8. CASE PopulateKeys /\ run' = run
  BY <1>8, FilledPopulateKeys
<1>9. CASE Setall /\ run' = run
  BY <1>9, FilledSetall
<1>10. CASE Ignore /\ run' = run
  <2>1. /\ UNCHANGED <<pc, at, reply, queue, open, result, db, run>>
        /\ connfd' = None /\ result = "none"
    BY <1>10 DEF Ignore, EmptyMessage, Unrecognised, clients, data
  <2>2. \A p \in Populates : Served(p)' => Served(p)
    BY <2>1 DEF Served, Live, Connection
  <2>3. \A conn : Waits(conn)' => Waits(conn)
    BY <2>1 DEF Waits, Unserved
  <2> QED
    BY <2>1, <2>2, <2>3, FilledKept DEF Idle
<1>11. CASE Answer /\ run' = run
  <2>1. connfd # None /\ UNCHANGED <<db, run>> /\ (ReplyPart \/ Reply)
    BY <1>11 DEF Answer, data
  <2>2. CASE ReplyPart
    <3>1. UNCHANGED <<pc, at, queue, connfd, open>> /\ result = "ready" /\ result' = "partly"
          /\ \A c \in Clients : reply'[c] = "whole" => reply[c] = "whole"
      BY <2>2, <2>1, ServedFacts DEF ReplyPart, ToClient, Wired, TransportTypeOK
    <3>2. \A p \in Populates : Served(p)' => Served(p)
      BY <3>1, Processes DEF Served, Live, Connection
    <3>3. \A conn : Waits(conn)' => Waits(conn)
      BY <3>1 DEF Waits, Unserved
    <3> QED
      BY <2>1, <3>1, <3>2, <3>3, FilledKept DEF Idle
  <2>3. CASE Reply
    <3>1. /\ UNCHANGED <<pc, at, queue>> /\ \A p \in Populates : Served(p)' => Served(p)
          /\ \A conn : Waits(conn)' => Waits(conn)
      BY <2>1, <2>3, ReplyServes, Processes DEF Waits, Unserved
    <3> QED
      BY <2>1, <3>1, FilledKept DEF Idle
  <2> QED
    BY <2>1, <2>2, <2>3
<1>12. CASE Crash
  <2>1. UNCHANGED <<pc, db>> /\ queue' = << >> /\ connfd' = None
        /\ run' # "clean" /\ (run' = "finished" => run = "finished")
    BY <1>12 DEF Crash, ReplyKills, ServerEnds, clients, data
  <2>2. ToSet(queue') = {}
    BY <2>1 DEF ToSet
  <2>3. \A conn : ~Waits(conn)'
    BY <2>1, <2>2 DEF Waits, Unserved
  <2> QED
    BY <2>1, <2>3 DEF Filled, Whole, Idle
<1>13. CASE Restart
  <2>1. UNCHANGED <<pc, at, reply, queue, connfd, open, result, db, run>>
    BY <1>13 DEF Restart, ServerStarts, clients, thread
  <2> QED
    BY <1>2, <2>1 DEF Idle
<1>14. CASE UNCHANGED vars
  <2>1. UNCHANGED <<pc, at, reply, queue, connfd, open, result, db, run>>
    BY <1>14 DEF vars, transport, clients, thread, data
  <2> QED
    BY <1>2, <2>1 DEF Idle
<1> QED
  BY <1>1, <1>3, <1>4, <1>5, <1>6, <1>7, <1>8, <1>9, <1>10, <1>11, <1>12, <1>13, <1>14
  DEF Next, Client, Serve

LEMMA AlwaysFilled == Spec => []Filled
<1>1. Init => Filled
  BY InitFilled
<1>2. Wired /\ Orderly /\ Filled /\ [Next]_vars => Filled'
  BY NextFilled
<1> QED
  BY <1>1, <1>2, AlwaysOrderly, PTL DEF Spec

\* RecordsAreWhole: when populate_database_updatable has ended without an end
\* of the server, each record is that of one process and has a version.
THEOREM WholeRecords == Spec => []RecordsAreWhole
<1>1. Filled => RecordsAreWhole
  BY DEF Filled, Whole, RecordsAreWhole
<1> QED
  BY <1>1, AlwaysFilled, PTL
=============================================================================
