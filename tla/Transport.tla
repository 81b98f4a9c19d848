------------------------------ MODULE Transport ------------------------------
(***************************************************************************)
(* How a request travels: the sockets of redis_storage.c and of            *)
(* simple_server.c for one of the server's ports.  A client opens a        *)
(* connection per request, sends the request in pieces, and waits for a    *)
(* reply; the thread of the port takes one connection after the other.     *)
(* Both sides read until a piece ends in a null character or the peer is   *)
(* gone, and there are no timeouts.  Clients and the server process can    *)
(* end at any point.  What the requests are is left to the module that     *)
(* extends this one.                                                       *)
(***************************************************************************)
EXTENDS Integers, Sequences, FiniteSets, SequencesExt

CONSTANTS
    Clients,       \* client processes
    Retries,       \* connect_attempt (10)
    Backlog,       \* of listen (5)
    MaxRestarts    \* bound: times the server process is started again

ASSUME TransportAssumption ==
    /\ Retries \in Nat \ {0} /\ Backlog \in Nat \ {0} /\ MaxRestarts \in Nat

VARIABLES
    pc,              \* of each client: "idle", "connect", "send", "wait", "ended"
    at,              \* the number of its request
    tries,           \* its failed attempts to connect
    sent,            \* how much of the request it has sent
    reply,           \* how much of the reply the server has: "none", "part", "whole"
    up,              \* the server process runs
    restarts,
    queue,           \* connections not accepted yet
    connfd,          \* the connection being served
    prevconnection,  \* the one served before, still open
    open,            \* connections accepted and not closed
    result           \* of the request: "none", "ready", or "partly" sent

clients == <<pc, at, tries, sent, reply>>
thread == <<queue, connfd, prevconnection, open, result>>
transport == <<clients, up, restarts, thread>>

\* A connection is that of a client for its request of a number.
None == << >>
Connection(c) == <<c, at[c]>>
Live(c) == Connection(c) \in open \cup ToSet(queue)
Gone(conn) == pc[conn[1]] \in {"idle", "ended"} \/ at[conn[1]] # conn[2]

TransportInit ==
    /\ pc = [c \in Clients |-> "idle"]
    /\ at = [c \in Clients |-> 1]
    /\ tries = [c \in Clients |-> 0]
    /\ sent = [c \in Clients |-> 0]
    /\ reply = [c \in Clients |-> "none"]
    /\ up = TRUE /\ restarts = 0
    /\ queue = << >> /\ connfd = None /\ prevconnection = None
    /\ open = {} /\ result = "none"
-----------------------------------------------------------------------------
(***************************************************************************)
(* The client, init_redis.  A connection made by the last attempt is not   *)
(* used: the process exits because the attempts are used up.               *)
(***************************************************************************)
Connect(c) ==
    /\ pc[c] = "connect"
    /\ up /\ Len(queue) < Backlog
    /\ queue' = Append(queue, Connection(c))
    /\ pc' = [pc EXCEPT ![c] = IF tries[c] = Retries THEN "ended" ELSE "send"]
    /\ tries' = [tries EXCEPT ![c] = 0]
    /\ sent' = [sent EXCEPT ![c] = 0]
    /\ reply' = [reply EXCEPT ![c] = "none"]
    /\ UNCHANGED <<at, up, restarts, connfd, prevconnection, open, result>>
\* Faulty: the attempts are not counted down to the end.
ConnectFailsForEver(c) ==
    /\ pc[c] = "connect"
    /\ ~up
    /\ tries' = [tries EXCEPT ![c] = @ + 1]
    /\ UNCHANGED <<pc, at, sent, reply, up, restarts, thread>>
ConnectFails(c) ==
    /\ pc[c] = "connect"
    /\ ~up
    /\ IF tries[c] = Retries
         THEN pc' = [pc EXCEPT ![c] = "ended"] /\ UNCHANGED tries
         ELSE tries' = [tries EXCEPT ![c] = @ + 1] /\ UNCHANGED pc
    /\ UNCHANGED <<at, sent, reply, up, restarts, thread>>

\* Faulty: the length sent leaves out the null character.
SendNoNull(c, size, long) ==
    /\ pc[c] = "send"
    /\ Live(c)
    /\ sent' = [sent EXCEPT ![c] = size - 1]
    /\ pc' = [pc EXCEPT ![c] = "wait"]
    /\ UNCHANGED <<at, tries, reply, up, restarts, thread>>
\* sendall: a message of more than 50000 bytes goes out in several pieces;
\* the null character is the last of its size parts.
Send(c, size, long) ==
    /\ pc[c] = "send"
    /\ Live(c)
    /\ \E n \in IF long THEN sent[c] + 1 .. size ELSE {size} :
          /\ sent' = [sent EXCEPT ![c] = n]
          /\ pc' = [pc EXCEPT ![c] = IF n = size THEN "wait" ELSE "send"]
    /\ UNCHANGED <<at, tries, reply, up, restarts, thread>>
\* Sending to a server that is no more fails, or ends the process (SIGPIPE).
SendFails(c) ==
    /\ pc[c] = "send"
    /\ ~Live(c)
    /\ \E next \in {"wait", "ended"} : pc' = [pc EXCEPT ![c] = next]
    /\ UNCHANGED <<at, tries, sent, reply, up, restarts, thread>>

\* recvall ends with the reply, or with the connection.
Answered(c) == pc[c] = "wait" /\ reply[c] = "whole"
CutOff(c) == pc[c] = "wait" /\ reply[c] # "whole" /\ ~Live(c)
Proceed(c, next) ==
    /\ pc' = [pc EXCEPT ![c] = next]
    /\ at' = [at EXCEPT ![c] = @ + 1]
    /\ UNCHANGED <<tries, sent, reply, up, restarts, thread>>

\* The process is killed.
Killed(c) ==
    /\ pc[c] \in {"connect", "send", "wait"}
    /\ pc' = [pc EXCEPT ![c] = "ended"]
    /\ UNCHANGED <<at, tries, sent, reply, up, restarts, thread>>
-----------------------------------------------------------------------------
(***************************************************************************)
(* The thread of the port, myThreadFun.                                    *)
(***************************************************************************)
\* Faulty: the newest connection first.
AcceptNewest ==
    /\ up /\ connfd = None
    /\ queue # << >>
    /\ connfd' = queue[Len(queue)]
    /\ queue' = Front(queue)
    /\ open' = open \cup {queue[Len(queue)]}
    /\ UNCHANGED <<clients, up, restarts, prevconnection, result>>
Accept ==
    /\ up /\ connfd = None
    /\ queue # << >>
    /\ connfd' = Head(queue)
    /\ queue' = Tail(queue)
    /\ open' = open \cup {Head(queue)}
    /\ UNCHANGED <<clients, up, restarts, prevconnection, result>>

\* recvall: the request is complete, or its client is gone.
Serving(size) ==
    /\ connfd # None
    /\ result = "none"
    /\ sent[connfd[1]] = size \/ Gone(connfd)
Complete(size) == sent[connfd[1]] = size

Handled ==
    /\ result' = "ready"
    /\ UNCHANGED <<clients, up, restarts, queue, connfd, prevconnection, open>>

\* An unrecognised command: the connection is neither answered nor closed.
Unrecognised ==
    /\ connfd' = None
    /\ UNCHANGED <<clients, up, restarts, queue, prevconnection, open, result>>

ToClient(part) ==
    reply' = IF Gone(connfd) THEN reply ELSE [reply EXCEPT ![connfd[1]] = part]
ReplyPart ==
    /\ result = "ready"
    /\ result' = "partly"
    /\ ToClient("part")
    /\ UNCHANGED <<pc, at, tries, sent, up, restarts, queue, connfd, prevconnection, open>>
\* Faulty: the connection before this one is forgotten, not closed.
ReplyWithoutClose ==
    /\ result # "none"
    /\ ToClient("whole")
    /\ prevconnection' = connfd
    /\ connfd' = None
    /\ result' = "none"
    /\ UNCHANGED <<pc, at, tries, sent, up, restarts, queue, open>>
Reply ==
    /\ result # "none"
    /\ ToClient("whole")
    /\ open' = open \ {prevconnection}
    /\ prevconnection' = connfd
    /\ connfd' = None
    /\ result' = "none"
    /\ UNCHANGED <<pc, at, tries, sent, up, restarts, queue>>

\* The process ends; a signal SIGPIPE, for the second piece of a reply to a
\* client that is gone, is not caught.
ServerEnds ==
    /\ up' = FALSE
    /\ queue' = << >> /\ connfd' = None /\ prevconnection' = None
    /\ open' = {} /\ result' = "none"
    /\ UNCHANGED <<clients, restarts>>
ReplyKills == result = "partly" /\ Gone(connfd) /\ ServerEnds

ServerStarts ==
    /\ ~up /\ restarts < MaxRestarts
    /\ up' = TRUE /\ restarts' = restarts + 1
    /\ UNCHANGED <<clients, thread>>
-----------------------------------------------------------------------------
(***************************************************************************)
(* Properties.                                                             *)
(***************************************************************************)
TransportTypeOK ==
    /\ pc \in [Clients -> {"idle", "connect", "send", "wait", "ended"}]
    /\ at \in [Clients -> Nat] /\ sent \in [Clients -> Nat]
    /\ tries \in [Clients -> 0..Retries]
    /\ reply \in [Clients -> {"none", "part", "whole"}]
    /\ up \in BOOLEAN /\ restarts \in 0..MaxRestarts
    /\ queue \in Seq(Clients \X Nat) /\ Len(queue) <= Backlog
    /\ {connfd, prevconnection} \subseteq open \cup {None}
    /\ open \subseteq Clients \X Nat
    /\ result \in {"none", "ready", "partly"}

\* The thread holds two connections at most, the one it serves and the one
\* before, and those of clients that connected and ended without a request:
\* the first are closed one request late, the last are never closed.
OnlySilentConnectionsLeak ==
    \A conn \in open :
        \/ conn \in {connfd, prevconnection}
        \/ Gone(conn) /\ sent[conn[1]] = 0

\* Every request that was sent is answered, or its connection ends: a client
\* does not wait for ever, whatever the others did before it in the queue.
RequestsAreAnswered == \A c \in Clients : (pc[c] = "wait") ~> (pc[c] # "wait")
=============================================================================
